---------------------------- MODULE BackgroundTasks ----------------------------
(***************************************************************************)
(* Background tasks: workspace-runtime process/background.rs (registry,    *)
(* driver, output spool, handles), as coding-agent services/background.rs  *)
(* drives it.  Locks are held for single steps; a step here is what one    *)
(* thread does under a lock or between two awaits.                         *)
(*                                                                         *)
(* Output is counted in bytes, of which CharStarts begin a character.      *)
(***************************************************************************)
EXTENDS Naturals, FiniteSets, FiniteSetsExt

CONSTANTS
  Task,        \* calls of spawn, and the tasks they start
  TaskOwner,   \* the TaskOwner of each
  Waiter,      \* callers of wait, the watcher of the service among them
  SpoolLimit,  \* output_budget.max_bytes
  CharStarts,  \* offsets at which a character of the output starts
  MaxOutput    \* bound: bytes of output per task

TaskConfig ==
  /\ SpoolLimit \in Nat \ {0} /\ MaxOutput \in Nat
  /\ CharStarts \subseteq Nat

ASSUME TaskAssumption == TaskConfig

VARIABLES
  spawning,    \* where each call of spawn is
  task_state,  \* TaskState
  cancelled,   \* tasks whose cancel_token is cancelled
  tasks,       \* the registry's tasks
  drivers,     \* the registry's join handles
  child,       \* the process: none, running, exited, killed
  driver,      \* where background_driver is
  verdict,     \* the PendingTermination it carries
  closing,     \* where shutdown is
  joining,     \* join handles it has taken
  spool,       \* total and dropped bytes of each task
  reading,     \* a reader of each spool: cursor, bytes seen, bytes reported as gap
  waits        \* what each waiter is at, and the task it waits for

registryOfTasks == <<spawning, tasks, drivers>>
driverVars == <<child, driver, verdict, task_state>>
closeVars == <<closing, joining>>
outputVars == <<spool, reading>>
taskVars == <<registryOfTasks, driverVars, closeVars, outputVars, cancelled, waits>>

NoTask == "no task"
Ending == {"completed", "timed_out", "cancelled", "failed"}
Runs(t) == task_state[t] = "running"

TasksInit ==
  /\ spawning = [t \in Task |-> "no"] /\ tasks = {} /\ drivers = {}
  /\ task_state = [t \in Task |-> "none"] /\ cancelled = {}
  /\ child = [t \in Task |-> "none"] /\ driver = [t \in Task |-> "none"]
  /\ verdict = [t \in Task |-> "none"]
  /\ closing = "open" /\ joining = {}
  /\ spool = [t \in Task |-> [total |-> 0, dropped |-> 0]]
  /\ reading = [t \in Task |-> [cursor |-> 0, seen |-> {}, gaps |-> {}, twice |-> FALSE]]
  /\ waits = [w \in Waiter |-> [at |-> "idle", task |-> NoTask]]

(***************************************************************************)
(* TaskRegistry::spawn: the token is read, the process is started across   *)
(* an await, and task and driver are registered one after the other.       *)
(***************************************************************************)
Admit(t) ==
  /\ spawning[t] = "no"
  /\ spawning' = [spawning EXCEPT ![t] = IF closing = "open" THEN "admitted" ELSE "refused"]
  /\ UNCHANGED <<tasks, drivers, driverVars, closeVars, outputVars, cancelled, waits>>

Launch(t) ==
  /\ spawning[t] = "admitted"
  /\ spawning' = [spawning EXCEPT ![t] = "launched"]
  /\ child' = [child EXCEPT ![t] = "running"]
  /\ driver' = [driver EXCEPT ![t] = "watching"]
  /\ task_state' = [task_state EXCEPT ![t] = "running"]
  /\ UNCHANGED <<tasks, drivers, verdict, closeVars, outputVars, cancelled, waits>>

LaunchFails(t) ==
  /\ spawning[t] = "admitted"
  /\ spawning' = [spawning EXCEPT ![t] = "refused"]
  /\ UNCHANGED <<tasks, drivers, driverVars, closeVars, outputVars, cancelled, waits>>

Enlist(t) ==
  /\ spawning[t] = "launched"
  /\ spawning' = [spawning EXCEPT ![t] = "listed"] /\ tasks' = tasks \cup {t}
  /\ UNCHANGED <<drivers, driverVars, closeVars, outputVars, cancelled, waits>>

Attach(t) ==
  /\ spawning[t] = "listed"
  /\ spawning' = [spawning EXCEPT ![t] = "started"] /\ drivers' = drivers \cup {t}
  /\ UNCHANGED <<tasks, driverVars, closeVars, outputVars, cancelled, waits>>

(***************************************************************************)
(* The process and background_driver, whose select! looks at the token     *)
(* first, then at the time, then at the child, then at the pipes.          *)
(***************************************************************************)
ChildExits(t) ==
  /\ child[t] = "running" /\ child' = [child EXCEPT ![t] = "exited"]
  /\ UNCHANGED <<registryOfTasks, driver, verdict, task_state, closeVars, outputVars, cancelled,
                 waits>>

Decide(t, v) ==
  /\ driver[t] = "watching"
  /\ driver' = [driver EXCEPT ![t] = "ending"] /\ verdict' = [verdict EXCEPT ![t] = v]
  /\ UNCHANGED <<registryOfTasks, child, task_state, closeVars, outputVars, cancelled, waits>>

SeesCancel(t) == t \in cancelled /\ Decide(t, "cancelled")
SeesExit(t) == t \notin cancelled /\ child[t] = "exited" /\ Decide(t, "completed")
TimesOut(t) == t \notin cancelled /\ Decide(t, "timed_out")
ReadFails(t) == t \notin cancelled /\ child[t] = "running" /\ Decide(t, "failed")

EndTree(t) ==
  /\ driver[t] = "ending" /\ driver' = [driver EXCEPT ![t] = "draining"]
  /\ child' = [child EXCEPT ![t] = IF verdict[t] = "completed" THEN @ ELSE "killed"]
  /\ UNCHANGED <<registryOfTasks, verdict, task_state, closeVars, outputVars, cancelled, waits>>

\* Mutant: the waiters are not notified.
Finish_Silent(t) ==
  /\ driver[t] = "draining" /\ driver' = [driver EXCEPT ![t] = "finished"]
  /\ task_state' = [task_state EXCEPT ![t] = verdict[t]]
  /\ UNCHANGED <<registryOfTasks, child, verdict, closeVars, outputVars, cancelled, waits>>

\* TaskShared::finish: notify_waiters wakes those that listen by now.
Finish(t) ==
  /\ driver[t] = "draining" /\ driver' = [driver EXCEPT ![t] = "finished"]
  /\ task_state' = [task_state EXCEPT ![t] = verdict[t]]
  /\ waits' = [w \in Waiter |-> IF waits[w] = [at |-> "listening", task |-> t]
                                  THEN [waits[w] EXCEPT !.at = "look"] ELSE waits[w]]
  /\ UNCHANGED <<registryOfTasks, child, verdict, closeVars, outputVars, cancelled>>

(***************************************************************************)
(* OutputSpool.                                                            *)
(***************************************************************************)
\* Mutant: the cut is not counted up to the character it moves to.
Dropped_Short(total, dropped) ==
  IF total - dropped > SpoolLimit THEN total - SpoolLimit - 1 ELSE dropped

\* push_merged: what a spool has dropped when it has had total bytes.
Dropped(total, dropped) ==
  IF total - dropped > SpoolLimit
    THEN Min({c \in CharStarts \cup {total} : total - SpoolLimit <= c /\ c <= total})
    ELSE dropped

\* A chunk read from a pipe, while the driver watches or drains.
Output(t) ==
  /\ driver[t] \in {"watching", "draining"}
  /\ \E n \in 1 .. (MaxOutput - spool[t].total) :
       LET total == spool[t].total + n IN
       spool' = [spool EXCEPT ![t] = [total |-> total,
                                      dropped |-> Dropped(total, spool[t].dropped)]]
  /\ UNCHANGED <<registryOfTasks, driverVars, closeVars, reading, cancelled, waits>>

\* read_from: the bytes returned, and the ones reported as dropped.
ReadFrom(cursor, s) ==
  IF cursor < s.dropped
    THEN [text |-> s.dropped .. (s.total - 1), gap |-> cursor .. (s.dropped - 1)]
    ELSE [text |-> cursor .. (s.total - 1), gap |-> {}]

ReadOutput(t) ==
  /\ t \in tasks /\ reading[t].cursor < spool[t].total
  /\ LET r == reading[t]
         chunk == ReadFrom(r.cursor, spool[t])
     IN  reading' = [reading EXCEPT ![t] =
           [cursor |-> spool[t].total, seen |-> r.seen \cup chunk.text,
            gaps |-> r.gaps \cup chunk.gap,
            twice |-> r.twice \/ (r.seen \cup r.gaps) \cap (chunk.text \cup chunk.gap) # {}]]
  /\ UNCHANGED <<registryOfTasks, driverVars, closeVars, spool, cancelled, waits>>

(***************************************************************************)
(* Handles: cancellation and waiting.                                      *)
(***************************************************************************)
CancelTask(t) ==
  /\ t \in tasks /\ Runs(t) /\ cancelled' = cancelled \cup {t}
  /\ UNCHANGED <<registryOfTasks, driverVars, closeVars, outputVars, waits>>

TerminateOwner(o) ==
  /\ cancelled' = cancelled \cup {t \in tasks : TaskOwner[t] = o /\ Runs(t)}
  /\ UNCHANGED <<registryOfTasks, driverVars, closeVars, outputVars, waits>>

Wait(w, t) ==
  /\ waits[w].at = "idle" /\ t \in tasks
  /\ waits' = [waits EXCEPT ![w] = [at |-> "look", task |-> t]]
  /\ UNCHANGED <<registryOfTasks, driverVars, closeVars, outputVars, cancelled>>

Moves(w, place) ==
  /\ waits' = [waits EXCEPT ![w].at = place]
  /\ UNCHANGED <<registryOfTasks, driverVars, closeVars, outputVars, cancelled>>

\* The state is read first and the notification asked for after it.
Look(w) == waits[w].at = "look" /\ Moves(w, IF Runs(waits[w].task) THEN "seen" ELSE "done")
Listen(w) == waits[w].at = "seen" /\ Moves(w, "listening")

(***************************************************************************)
(* TaskRegistry::shutdown.                                                 *)
(***************************************************************************)
CloseRegistry ==
  /\ closing = "open" /\ closing' = "token"
  /\ UNCHANGED <<registryOfTasks, driverVars, joining, outputVars, cancelled, waits>>

CancelRunning ==
  /\ closing = "token" /\ closing' = "cancelled"
  /\ cancelled' = cancelled \cup {t \in tasks : Runs(t)}
  /\ UNCHANGED <<registryOfTasks, driverVars, joining, outputVars, waits>>

TakeDrivers ==
  /\ closing = "cancelled" /\ closing' = "joining"
  /\ joining' = drivers /\ drivers' = {}
  /\ UNCHANGED <<spawning, tasks, driverVars, outputVars, cancelled, waits>>

\* Joined, or given up after DRIVER_JOIN_TIMEOUT.
JoinDriver(t) ==
  /\ t \in joining /\ joining' = joining \ {t}
  /\ UNCHANGED <<registryOfTasks, driverVars, closing, outputVars, cancelled, waits>>

Closed ==
  /\ closing = "joining" /\ joining = {} /\ closing' = "closed"
  /\ UNCHANGED <<registryOfTasks, driverVars, joining, outputVars, cancelled, waits>>

(***************************************************************************)
(* The next-state relation.                                                *)
(***************************************************************************)
SpawnStep(t) == Launch(t) \/ LaunchFails(t) \/ Enlist(t) \/ Attach(t)
DriverStep(t) == SeesCancel(t) \/ SeesExit(t) \/ EndTree(t) \/ Finish(t)
CloseStep == CancelRunning \/ TakeDrivers \/ (\E t \in Task : JoinDriver(t)) \/ Closed

TasksNext ==
  \/ \E t \in Task :
       \/ Admit(t) \/ SpawnStep(t) \/ ChildExits(t) \/ DriverStep(t)
       \/ TimesOut(t) \/ ReadFails(t) \/ Output(t) \/ ReadOutput(t) \/ CancelTask(t)
       \/ \E w \in Waiter : Wait(w, t)
  \/ \E t \in Task : TerminateOwner(TaskOwner[t])
  \/ \E w \in Waiter : Look(w) \/ Listen(w)
  \/ CloseRegistry \/ CloseStep

\* Threads and drivers run on; processes, timeouts and callers owe nothing.
TasksFairness ==
  /\ \A t \in Task : WF_taskVars(SpawnStep(t)) /\ WF_taskVars(DriverStep(t))
  /\ \A w \in Waiter : WF_taskVars(Look(w) \/ Listen(w))
  /\ WF_taskVars(CloseStep)

TasksSpec == TasksInit /\ [][TasksNext]_taskVars /\ TasksFairness

(***************************************************************************)
(* Properties.                                                             *)
(***************************************************************************)
\* Every variable has its type.
TasksTypeOK ==
  /\ spawning \in [Task -> {"no", "admitted", "refused", "launched", "listed", "started"}]
  /\ task_state \in [Task -> {"none", "running"} \cup Ending]
  /\ tasks \subseteq Task /\ drivers \subseteq Task /\ cancelled \subseteq tasks
  /\ child \in [Task -> {"none", "running", "exited", "killed"}]
  /\ driver \in [Task -> {"none", "watching", "ending", "draining", "finished"}]
  /\ verdict \in [Task -> {"none"} \cup Ending]
  /\ closing \in {"open", "token", "cancelled", "joining", "closed"} /\ joining \subseteq Task
  /\ \A t \in Task : spool[t].dropped \in 0 .. spool[t].total
  /\ \A w \in Waiter :
       waits[w] \in [at : {"idle", "look", "seen", "listening", "done"}, task : Task \cup {NoTask}]

\* The output is text whose characters are shorter than the budget; of other
\* bytes the cut may leave half a character.
IsText ==
  \A n \in SpoolLimit .. MaxOutput : \E c \in CharStarts : n - SpoolLimit <= c /\ c <= n

\* A reader that passes each next_cursor on has had every byte up to its
\* cursor exactly once: as text, or counted in a gap; what is retained never
\* exceeds the budget, and of text starts with a character
\* (process/background.rs:332).
OutputAccounted ==
  \A t \in Task :
    /\ reading[t].seen \cup reading[t].gaps = 0 .. (reading[t].cursor - 1)
    /\ reading[t].seen \cap reading[t].gaps = {} /\ ~reading[t].twice
    /\ spool[t].total - spool[t].dropped <= SpoolLimit
    /\ IsText => spool[t].dropped \in CharStarts \cup {0}

\* A waiter that listens when its task is cancelled is woken, and then the
\* process is no longer running (process/background.rs:348).
CancelWakesListener ==
  \A t \in Task, w \in Waiter :
    (t \in cancelled /\ Runs(t) /\ waits[w] = [at |-> "listening", task |-> t])
      ~> (waits[w].at = "done" /\ child[t] # "running")
==============================================================================
