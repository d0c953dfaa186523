---------------------------- MODULE Authorization ----------------------------
(***************************************************************************)
(* Tool authorization: services/authorization.rs.  A tool call that needs  *)
(* consent waits on a oneshot channel whose sender sits in the pending map *)
(* (or in the hands of the thread that is resolving it) until a client     *)
(* decides, the request times out, its operation is cancelled, or the      *)
(* runtime cancels everything.  The map is behind one mutex, the           *)
(* capability generation behind a transition guard, and the audit facts    *)
(* are appended to the session log with an await in between.               *)
(*                                                                         *)
(* A thread is a waiting call (which decides for itself when it times      *)
(* out), a client's decide(), or the control thread of a revocation, a     *)
(* rewind or a shutdown.                                                   *)
(***************************************************************************)
EXTENDS Naturals, FiniteSets

CONSTANTS
  Call,             \* tool calls that evaluation decided to ask about
  ExternalRead,     \* the calls among them that only read
  OwnerOf,          \* the operation each call belongs to
  Decider,          \* client threads that call decide()
  Control,          \* the thread of revocations, rewinds and shutdowns
  AdmittedUnder,    \* capability generation each operation was admitted with
  Modes,            \* the modes the user switches between
  MaxGenerations,   \* bound: generations installed
  MaxCancelAll,     \* bound: cancel_all calls
  MaxAuditFailures  \* bound: audit appends that fail

NoCall == "NoCall"
NoThread == "NoThread"
Thread == Call \cup Decider \cup {Control}
Operation == {OwnerOf[c] : c \in Call}

AuthorizationConfig ==
  /\ ExternalRead \subseteq Call /\ DOMAIN OwnerOf = Call
  /\ AdmittedUnder \in [Operation -> Nat \ {0}]
  /\ Call \cap Decider = {} /\ Control \notin Call \cup Decider
  /\ NoCall \notin Call /\ NoThread \notin Thread
  /\ {MaxGenerations, MaxCancelAll, MaxAuditFailures} \subseteq Nat

ASSUME AuthorizationAssumption == AuthorizationConfig

VARIABLES
  pending,     \* AuthorizationState::pending, the calls of its entries
  grants,      \* AuthorizationState::grants: operations allowed for good
  shown,       \* the pending authorizations of the client snapshot
  sync,        \* threads inside sync_pending_snapshot, with what they publish
  gen,         \* the current capability generation
  transition,  \* who holds the capability transition guard
  wait,        \* where the call is in authorize_with_event_writer
  sent,        \* what was sent into the call's channel
  binding,     \* calls whose filesystem target is bound
  audit,       \* verdicts of each call whose append was acknowledged
  logged,      \* verdicts of each call in the session log
  doubted,     \* calls an append of whose facts has failed
  work,        \* what each thread is doing with the entries it took
  story        \* calls of cancel_all and failed audit appends so far

pendingState == <<pending, grants>>
authVars == <<pendingState, shown, sync, gen, transition, wait, sent,
              binding, audit, logged, doubted, work, story>>

Idle == [step |-> "idle", entries |-> {}, decision |-> NoCall, then |-> NoCall]
Working(step, entries, decision, then) ==
  [step |-> step, entries |-> entries, decision |-> decision, then |-> then]
NoSync == [step |-> "none", current |-> TRUE, list |-> {}]
ToShow(list) == [step |-> "set", current |-> TRUE, list |-> list]

Decision == {"AllowOnce", "AllowForOperation", "Deny"}
Free(t) == work[t].step = "idle" /\ sync[t] = NoSync

AuthorizationInit ==
  /\ pending = {} /\ grants = {}
  /\ shown = {} /\ sync = [t \in Thread |-> NoSync]
  /\ gen = 1
  /\ transition = NoThread
  /\ wait = [c \in Call |-> "new"]
  /\ sent = [c \in Call |-> "nothing"]
  /\ binding = {}
  /\ audit = [c \in Call |-> {}] /\ logged = audit /\ doubted = {}
  /\ work = [t \in Thread |-> Idle]
  /\ story = [all |-> 0, failures |-> 0]

(***************************************************************************)
(* The pending map is published by a loop that stops once the revision it  *)
(* published is still the revision of the map.  Of the revision only whether *)
(* it is still the one a thread read is kept.                              *)
(***************************************************************************)
Touch(t, entries) ==
  /\ pending' = entries
  /\ sync' = [u \in Thread |->
                IF u = t THEN ToShow(entries)
                ELSE [sync[u] EXCEPT !.current = @ /\ (entries = pending \/ sync[u] = NoSync)]]

SyncSet(t) ==
  /\ sync[t].step = "set"
  /\ shown' = sync[t].list
  /\ sync' = [sync EXCEPT ![t].step = "check"]
  /\ UNCHANGED <<pendingState, gen, transition, wait, sent, binding,
                 audit, logged, doubted, work, story>>

\* Mutant: the list is published once and not compared with the map again.
SyncCheck_Once(t) ==
  /\ sync[t].step = "check"
  /\ sync' = [sync EXCEPT ![t] = NoSync]
  /\ UNCHANGED <<pendingState, shown, gen, transition, wait, sent,
                 binding, audit, logged, doubted, work, story>>

SyncCheck(t) ==
  /\ sync[t].step = "check"
  /\ sync' = [sync EXCEPT ![t] = IF @.current THEN NoSync ELSE ToShow(pending)]
  /\ UNCHANGED <<pendingState, shown, gen, transition, wait, sent,
                 binding, audit, logged, doubted, work, story>>

\* An append to the session log.  One that fails, as the bound allows, may
\* have left its facts in the log: the frames are written before the sync
\* that fails, and the writer goes on.
AppendFact(c, facts, ok) ==
  /\ IF ok THEN /\ audit' = [audit EXCEPT ![c] = @ \cup facts]
                /\ UNCHANGED <<doubted, story>>
     ELSE /\ story.failures < MaxAuditFailures
          /\ story' = [story EXCEPT !.failures = @ + 1]
          /\ doubted' = doubted \cup {c}
          /\ UNCHANGED audit
  /\ \/ logged' = [logged EXCEPT ![c] = @ \cup facts]
     \/ ~ok /\ UNCHANGED logged

(***************************************************************************)
(* The waiting call.                                                       *)
(***************************************************************************)
\* Up to the mode: the filesystem target is bound, then an operation grant,
\* Yolo mode, or Plan mode settle the call without asking.  set_mode may
\* change the mode at any time: `mode` is the one read here.
Authorize(c, mode) ==
  /\ wait[c] = "new" /\ AdmittedUnder[OwnerOf[c]] <= gen
  /\ \/ /\ OwnerOf[c] \in grants \/ mode = "Yolo" \/ (mode = "Plan" /\ c \in ExternalRead)
        /\ wait' = [wait EXCEPT ![c] = "allowed"]
        /\ binding' = binding \cup {c}
        /\ UNCHANGED <<audit, logged, doubted, story>>
     \/ /\ OwnerOf[c] \notin grants /\ mode = "Plan" /\ c \notin ExternalRead
        /\ \E ok \in BOOLEAN :
             /\ AppendFact(c, {"Denied"}, ok)
             /\ wait' = [wait EXCEPT ![c] = IF ok THEN "blocked" ELSE "failed"]
        /\ UNCHANGED binding
     \/ /\ OwnerOf[c] \notin grants /\ mode = "Ask"
        /\ \E ok \in BOOLEAN :
             /\ AppendFact(c, {}, ok)
             /\ wait' = [wait EXCEPT ![c] = IF ok THEN "asked" ELSE "failed"]
             /\ binding' = IF ok THEN binding \cup {c} ELSE binding
  /\ UNCHANGED <<pendingState, shown, sync, gen, transition, sent, work>>

\* The request is entered with its sender; the waiter guard exists from the
\* end of the publication on.
Enter(c) ==
  /\ wait[c] = "asked" /\ Free(c)
  /\ Touch(c, pending \cup {c})
  /\ wait' = [wait EXCEPT ![c] = "waiting"]
  /\ UNCHANGED <<grants, shown, gen, transition, sent, binding,
                 audit, logged, doubted, work, story>>

\* The channel answers, in the select or in the wait after a timeout; the
\* waiter guard then finds no entry and publishes the map once more.
Answered(c) ==
  /\ wait[c] \in {"waiting", "late"} /\ Free(c)
  /\ sent[c] # "nothing"
  /\ wait' = [wait EXCEPT ![c] = IF sent[c] = "Allow" THEN "allowed" ELSE "blocked"]
  /\ Touch(c, pending \ {c})
  /\ UNCHANGED <<grants, shown, gen, transition, sent, binding, audit, logged, doubted, work, story>>

\* The operation is cancelled while the waiter is in the select, or the
\* waiter's future is dropped: remove_pending, then the cleanup of the entry
\* if there was one.
LeaveWait(c) ==
  /\ wait[c] \in {"waiting", "late"} /\ Free(c)
  /\ Touch(c, pending \ {c})
  /\ wait' = [wait EXCEPT ![c] = "blocked"]
  /\ binding' = IF c \in pending THEN binding \ {c} ELSE binding
  /\ UNCHANGED <<grants, shown, gen, transition, sent, audit, logged, doubted, work, story>>

\* After 120 seconds the waiter decides Deny itself; meanwhile it no longer
\* listens to the operation's cancellation.
Timeout(c) ==
  /\ wait[c] = "waiting" /\ Free(c)
  /\ wait' = [wait EXCEPT ![c] = "timing_out"]
  /\ work' = [work EXCEPT ![c] = Working("decide", {c}, "Deny", "late")]
  /\ UNCHANGED <<pendingState, shown, sync, gen, transition, sent,
                 binding, audit, logged, doubted, story>>

\* The timed-out decide() failed to write its fact: the call fails, and the
\* waiter guard removes what restore_pending had put back.
TimeoutFails(c) ==
  /\ wait[c] = "timing_out" /\ work[c].step = "failed" /\ sync[c] = NoSync
  /\ wait' = [wait EXCEPT ![c] = "failed"]
  /\ work' = [work EXCEPT ![c] = Idle]
  /\ Touch(c, pending \ {c})
  /\ binding' = IF c \in pending THEN binding \ {c} ELSE binding
  /\ UNCHANGED <<grants, shown, gen, transition, sent, audit, logged, doubted, story>>

(***************************************************************************)
(* decide(), by a client or by the timed-out waiter.                       *)
(***************************************************************************)

\* A client decides on a request it was shown.
ClientDecides(d, c, decision) ==
  /\ d \in Decider /\ Free(d) /\ c \in shown
  /\ work' = [work EXCEPT ![d] = Working("decide", {c}, decision, "idle")]
  /\ UNCHANGED <<pendingState, shown, sync, gen, transition, wait, sent,
                 binding, audit, logged, doubted, story>>

\* decide() returns: a client is done with it, a timed-out waiter goes on to
\* wait for whoever answers.
Return(t) ==
  /\ work' = [work EXCEPT ![t] = Idle]
  /\ wait' = IF work[t].then = "late" THEN [wait EXCEPT ![t] = "late"] ELSE wait

\* The entry is taken under the transition guard, which is kept until the
\* map is published; an entry somebody else took is an input error.
TakeEntry(t) ==
  LET c == CHOOSE x \in work[t].entries : TRUE
  IN  /\ work[t].step = "decide" /\ transition = NoThread
      /\ IF c \notin pending
           THEN Return(t) /\ UNCHANGED <<pending, sync, transition>>
           ELSE /\ Touch(t, pending \ {c})
                /\ transition' = t
                /\ work' = [work EXCEPT ![t].step = IF AdmittedUnder[OwnerOf[c]] = gen
                                                      THEN "taken" ELSE "stale"]
                /\ UNCHANGED wait
      /\ UNCHANGED <<grants, shown, gen, sent, binding, audit, logged, doubted, story>>

ReleaseTransition(t) ==
  /\ transition = t /\ work[t].step \in {"taken", "stale"} /\ sync[t] = NoSync
  /\ transition' = NoThread
  /\ work' = [work EXCEPT ![t].step = IF @ = "taken" THEN "persist" ELSE "revoked"]
  /\ UNCHANGED <<pendingState, shown, sync, gen, wait, sent, binding,
                 audit, logged, doubted, story>>

\* Mutant: an approval whose fact could not be written is delivered all the same.
PersistResolution_Optimist(t) ==
  LET c == CHOOSE x \in work[t].entries : TRUE
      fact == IF work[t].decision = "Deny" THEN "Denied" ELSE "Approved"
  IN  /\ work[t].step = "persist"
      /\ \E ok \in BOOLEAN : AppendFact(c, {fact}, ok)
      /\ work' = [work EXCEPT ![t].step = "recheck"]
      /\ UNCHANGED <<pending, sync, grants, shown, gen, transition, wait, sent, binding>>

\* The resolution is made durable before anybody acts on it; when that fails
\* the entry goes back into the map.
PersistResolution(t) ==
  LET c == CHOOSE x \in work[t].entries : TRUE
      fact == IF work[t].decision = "Deny" THEN "Denied" ELSE "Approved"
  IN  /\ work[t].step = "persist"
      /\ \/ /\ AppendFact(c, {fact}, TRUE)
            /\ work' = [work EXCEPT ![t].step = "recheck"]
            /\ UNCHANGED <<pending, sync>>
         \/ /\ AppendFact(c, {fact}, FALSE)
            /\ Touch(t, pending \cup {c})
            /\ work' = [work EXCEPT ![t] = IF t \in Call THEN [@ EXCEPT !.step = "failed"]
                                                          ELSE Idle]
      /\ UNCHANGED <<grants, shown, gen, transition, wait, sent, binding>>

\* Mutant: no second comparison.
Recheck_Trusts(t) ==
  LET c == CHOOSE x \in work[t].entries : TRUE
  IN  /\ work[t].step = "recheck" /\ transition = NoThread
      /\ work' = [work EXCEPT ![t].step = "deliver"]
      /\ transition' = t
      /\ binding' = IF work[t].decision = "Deny" THEN binding \ {c} ELSE binding
      /\ grants' = IF work[t].decision = "AllowForOperation"
                     THEN grants \cup {OwnerOf[c]} ELSE grants
      /\ UNCHANGED <<pending, shown, sync, gen, wait, sent, audit, logged, doubted, story>>

\* The generation is compared again under the transition guard, which now
\* stays taken until the answer is sent; an operation grant is recorded.
Recheck(t) ==
  LET c == CHOOSE x \in work[t].entries : TRUE
  IN  /\ work[t].step = "recheck" /\ transition = NoThread
      /\ IF AdmittedUnder[OwnerOf[c]] # gen
           THEN /\ work' = [work EXCEPT ![t].step = "revoked"]
                /\ UNCHANGED <<transition, binding, grants>>
           ELSE /\ work' = [work EXCEPT ![t].step = "deliver"]
                /\ transition' = t
                /\ binding' = IF work[t].decision = "Deny" THEN binding \ {c} ELSE binding
                /\ grants' = IF work[t].decision = "AllowForOperation"
                               THEN grants \cup {OwnerOf[c]} ELSE grants
      /\ UNCHANGED <<pending, shown, sync, gen, wait, sent,
                     audit, logged, doubted, story>>

\* Whether somebody still holds the receiving end of the call's channel.
Listening(c) == wait[c] \in {"waiting", "timing_out", "late"}

SendAnswer(t) ==
  LET c == CHOOSE x \in work[t].entries : TRUE
      answer == IF work[t].decision = "Deny" THEN "Deny" ELSE "Allow"
  IN  /\ work[t].step = "deliver"
      /\ transition' = NoThread
      /\ Return(t)
      /\ IF Listening(c)
           THEN /\ sent' = [sent EXCEPT ![c] = answer]
                /\ UNCHANGED <<binding, grants>>
           ELSE /\ binding' = binding \ {c}
                /\ grants' = IF work[t].decision = "AllowForOperation"
                               THEN grants \ {OwnerOf[c]} ELSE grants
                /\ UNCHANGED sent
      /\ UNCHANGED <<pending, shown, sync, gen, audit, logged, doubted, story>>

\* A generation that turned stale before or while persisting: the entry is
\* cancelled and its waiter told Deny.
Revoked(t) ==
  LET c == CHOOSE x \in work[t].entries : TRUE
  IN  /\ work[t].step = "revoked" /\ sync[t] = NoSync
      /\ binding' = binding \ {c}
      /\ sent' = IF Listening(c) THEN [sent EXCEPT ![c] = "Deny"] ELSE sent
      /\ Return(t)
      /\ UNCHANGED <<pendingState, shown, sync, gen, transition, audit, logged, doubted, story>>

(***************************************************************************)
(* The control thread.                                                     *)
(***************************************************************************)
\* install_next_capability_generation; the authorizations of the operations
\* it cancels follow one by one.
Revoke ==
  /\ Free(Control) /\ transition = NoThread /\ gen < MaxGenerations
  /\ gen' = gen + 1
  /\ LET older == {o \in Operation : AdmittedUnder[o] < gen'}
     IN  work' = [work EXCEPT ![Control] = Working("clean", older, "Deny", {})]
  /\ UNCHANGED <<pendingState, shown, sync, transition, wait, sent, binding,
                 audit, logged, doubted, story>>

\* cancel_operation and cancel_operation_blocking.
CancelOperation(o) ==
  LET mine == {c \in pending : OwnerOf[c] = o}
  IN  /\ work[Control].step = "revoke" /\ o \in work[Control].entries /\ sync[Control] = NoSync
      /\ Touch(Control, pending \ mine)
      /\ grants' = grants \ {o}
      /\ work' = [work EXCEPT ![Control] = Working("clean", @.entries \ {o}, @.decision, mine)]
      /\ UNCHANGED <<shown, gen, transition, wait, sent, binding,
                     audit, logged, doubted, story>>

\* cancel_all: a shutdown request or a rewind.
CancelAll ==
  /\ Free(Control) /\ story.all < MaxCancelAll
  /\ Touch(Control, {})
  /\ grants' = {}
  /\ story' = [story EXCEPT !.all = @ + 1]
  /\ work' = [work EXCEPT ![Control] = Working("clean", {}, "Deny", pending)]
  /\ UNCHANGED <<shown, gen, transition, wait, sent, binding, audit, logged, doubted>>

\* Mutant: a cancelled entry is cleaned up without telling its waiter.
CleanEntry_Silent(c) ==
  /\ work[Control].step = "clean" /\ sync[Control] = NoSync /\ c \in work[Control].then
  /\ binding' = binding \ {c}
  /\ work' = [work EXCEPT ![Control].then = @ \ {c}]
  /\ UNCHANGED <<pendingState, shown, sync, gen, transition, wait, sent, audit, logged, doubted, story>>

\* One cancelled entry: binding, fact, answer.
CleanEntry(c) ==
  /\ work[Control].step = "clean" /\ sync[Control] = NoSync /\ c \in work[Control].then
  /\ binding' = binding \ {c}
  /\ sent' = IF Listening(c) THEN [sent EXCEPT ![c] = "Deny"] ELSE sent
  /\ work' = [work EXCEPT ![Control].then = @ \ {c}]
  /\ UNCHANGED <<pendingState, shown, sync, gen, transition, wait, audit, logged, doubted, story>>

CleanDone ==
  /\ work[Control].step = "clean" /\ sync[Control] = NoSync /\ work[Control].then = {}
  /\ work' = [work EXCEPT ![Control] = IF @.entries = {} THEN Idle
                                       ELSE [@ EXCEPT !.step = "revoke", !.then = "idle"]]
  /\ UNCHANGED <<pendingState, shown, sync, gen, transition, wait, sent,
                 binding, audit, logged, doubted, story>>

WaitStep(c) == Enter(c) \/ Answered(c) \/ Timeout(c) \/ TimeoutFails(c)
CallStep(c) == (\E mode \in Modes : Authorize(c, mode)) \/ WaitStep(c) \/ LeaveWait(c)
DecideStep(t) ==
  \/ TakeEntry(t) \/ ReleaseTransition(t) \/ PersistResolution(t)
  \/ Recheck(t) \/ SendAnswer(t) \/ Revoked(t)
SyncStep(t) == SyncSet(t) \/ SyncCheck(t)
ControlStep ==
  \/ \E o \in Operation : CancelOperation(o)
  \/ \E c \in Call : CleanEntry(c)
  \/ CleanDone

AuthorizationNext ==
  \/ \E c \in Call : CallStep(c)
  \/ \E d \in Decider, c \in Call, decision \in Decision : ClientDecides(d, c, decision)
  \/ \E t \in Thread : DecideStep(t) \/ SyncStep(t)
  \/ Revoke \/ CancelAll \/ ControlStep

\* What a thread does next, once it has something to do.
ThreadStep(t) ==
  \/ DecideStep(t) \/ SyncStep(t)
  \/ t \in Call /\ WaitStep(t)
  \/ t = Control /\ ControlStep

\* Every thread that has something to do goes on, and the timer of a waiting
\* call fires.  Clients, cancellations and mode switches owe nothing.
AuthorizationFairness == \A t \in Thread : WF_authVars(ThreadStep(t))

AuthorizationSpec == AuthorizationInit /\ [][AuthorizationNext]_authVars /\ AuthorizationFairness

(***************************************************************************)
(* Properties.                                                             *)
(***************************************************************************)

\* Every variable has its type (AuthorizationState and its threads).
AuthorizationTypeOK ==
  /\ pending \subseteq Call /\ shown \subseteq Call
  /\ grants \subseteq Operation /\ binding \subseteq Call
  /\ gen \in Nat /\ transition \in Thread \cup {NoThread}
  /\ \A t \in Thread : sync[t].step \in {"none", "set", "check"} /\ sync[t].list \subseteq Call
  /\ \A c \in Call : wait[c] \in {"new", "asked", "waiting", "timing_out", "late",
                                  "allowed", "blocked", "failed"}
  /\ \A c \in Call : sent[c] \in {"nothing", "Allow", "Deny"}
  /\ \A c \in Call : audit[c] \cup logged[c] \subseteq {"Approved", "Denied"}
  /\ doubted \subseteq Call
  /\ \A t \in Thread \ {Control} :
       work[t].entries \subseteq Call /\ work[t].decision \in Decision \cup {NoCall}

\* A waiting call is let through only by an approval whose append was
\* acknowledged, and never are an approval and a denial of it both
\* acknowledged, although deciders, the timeout and failing appends race for
\* the entry.  The log itself has both only when an append failed after its
\* frame was written: the entry is then decided again, and the other way.
OneVerdict ==
  \A c \in Call :
    /\ sent[c] = "Allow" => "Approved" \in audit[c]
    /\ ~({"Approved", "Denied"} \subseteq audit[c])
    /\ {"Approved", "Denied"} \subseteq logged[c] => c \in doubted

\* The approval of a call is sent under the generation it was requested
\* under, although the audit append before it gives a revocation time to
\* finish (the second comparison in decide()).
ApprovedUnderCurrentGeneration ==
  [][\A c \in Call : sent'[c] = "Allow" /\ sent[c] # "Allow"
        => AdmittedUnder[OwnerOf[c]] = gen]_authVars

\* When no thread is publishing, the clients are shown exactly the pending
\* requests: sync_pending_snapshot converges whatever order its writes take.
ShownSettles ==
  (\A t \in Thread : sync[t] = NoSync) => shown = pending

\* As long as every audit append succeeds, a call that waits stops waiting:
\* the timeout and the decider that beat it leave no wait without an answer.
EveryWaitEnds ==
  \A c \in Call : []<>(story.failures > 0 \/ wait[c] \notin {"waiting", "timing_out", "late"})
=============================================================================
