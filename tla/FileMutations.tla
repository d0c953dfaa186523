----------------------------- MODULE FileMutations -----------------------------
(***************************************************************************)
(* Tools that change files: workspace-runtime fs/mutation.rs (the fence of *)
(* a path and its registry), fs/capability.rs (targets bound to an opened  *)
(* file or to a vacant leaf), and edit, write, hashline_edit, apply_patch  *)
(* of coding-agent, which bind, fence, read, derive and write.             *)
(*                                                                         *)
(* A file is its queue key; files are numbered in the order of their       *)
(* display paths; inode 0 is none.  A queue is named after the call that   *)
(* made it: a call makes at most one for a file.  The content of an inode  *)
(* is the set of the mutations it shows.                                   *)
(***************************************************************************)
EXTENDS Naturals, Sequences, SequencesExt

CONSTANTS
  NumFiles,  \* how many files there are
  FirstFiles,  \* those that exist at first
  Mutation,  \* tool calls
  Wanted,    \* the files of each, in the order its patch names them, each once
  OperationOn, \* "update", "write", "add" or "delete", of each and each file
  Doubtful   \* bound: calls that may be abandoned or refused, or fail

File == 1 .. NumFiles

FilesConfig ==
  /\ NumFiles \in Nat /\ FirstFiles \subseteq File /\ Doubtful \subseteq Mutation
  /\ \A m \in Mutation :
       /\ Wanted[m] \in Seq(File)
       /\ \A i, j \in DOMAIN Wanted[m] : Wanted[m][i] = Wanted[m][j] => i = j
       /\ OperationOn[m] \in [File -> {"update", "write", "add", "delete"}]

ASSUME FilesAssumption == FilesConfig

VARIABLES
  registry,  \* FILE_MUTATION_QUEUES: the queue of each file
  awaiting,  \* the queue a call of begin waits for
  guard,     \* the queue of each MutationGuard
  locked,    \* the files whose guard still has its lock
  step,      \* where each tool call is
  todo,      \* files it has yet to fence, or to commit
  blocking,  \* the file of its blocking closure, 0 for none
  bound,     \* the inode each target is bound to
  base,      \* what it has read of each file
  inode,     \* the inode each path names
  content    \* the content of every inode ever made

fenceVars == <<registry, awaiting, guard, locked>>
toolVarsOf == <<step, todo, blocking, bound, base>>
diskVars == <<inode, content>>
filesVars == <<fenceVars, toolVarsOf, diskVars>>

NoQueue == "no queue"
Unfenced == [f \in File |-> NoQueue]
Nowhere == [f \in File |-> 0]
Unread == [f \in File |-> {}]

FilesInit ==
  /\ registry = Unfenced
  /\ awaiting = [m \in Mutation |-> NoQueue] /\ guard = [m \in Mutation |-> Unfenced]
  /\ locked = [m \in Mutation |-> {}]
  /\ step = [m \in Mutation |-> "new"] /\ todo = [m \in Mutation |-> <<>>]
  /\ blocking = [m \in Mutation |-> 0] /\ bound = [m \in Mutation |-> Nowhere]
  /\ base = [m \in Mutation |-> Unread]
  /\ inode = [f \in File |-> IF f \in FirstFiles THEN f ELSE 0]
  /\ content = [f \in File |-> {}]

FilesOf(m) == {Wanted[m][i] : i \in DOMAIN Wanted[m]}
StepTo(m, to) == step' = [step EXCEPT ![m] = to]

(***************************************************************************)
(* The target is bound when the call is authorized: an opened file, or a   *)
(* leaf that was vacant then.  apply_patch sorts what it fences.           *)
(***************************************************************************)
\* Mutant: the fences are taken in the order of the patch.
Bind_Unsorted(m) ==
  /\ step[m] = "new" /\ StepTo(m, "fencing")
  /\ bound' = [bound EXCEPT ![m] = [f \in File |-> IF f \in FilesOf(m) THEN inode[f] ELSE 0]]
  /\ todo' = [todo EXCEPT ![m] = Wanted[m]]
  /\ UNCHANGED <<fenceVars, blocking, base, diskVars>>

Bind(m) ==
  /\ step[m] = "new" /\ StepTo(m, "fencing")
  /\ bound' = [bound EXCEPT ![m] = [f \in File |-> IF f \in FilesOf(m) THEN inode[f] ELSE 0]]
  /\ \E order \in [DOMAIN Wanted[m] -> FilesOf(m)] :
       /\ Range(order) = FilesOf(m)
       /\ \A i, j \in DOMAIN order : i < j => order[i] < order[j]
       /\ todo' = [todo EXCEPT ![m] = order]
  /\ UNCHANGED <<fenceVars, blocking, base, diskVars>>

(***************************************************************************)
(* FileMutation::begin: queue_for_key under the registry's lock, then the  *)
(* lock of the queue.                                                      *)
(***************************************************************************)
Enqueue(m) ==
  /\ step[m] = "fencing" /\ todo[m] # <<>> /\ awaiting[m] = NoQueue
  /\ LET f == Head(todo[m])
         q == IF registry[f] = NoQueue THEN m ELSE registry[f] IN
       registry' = [registry EXCEPT ![f] = q] /\ awaiting' = [awaiting EXCEPT ![m] = q]
  /\ UNCHANGED <<guard, locked, toolVarsOf, diskVars>>

\* The queue is an asynchronous mutex; any waiter may be next.
Acquire(m) ==
  /\ awaiting[m] # NoQueue
  /\ LET f == Head(todo[m])
         q == awaiting[m] IN
       /\ \A n \in Mutation : ~(f \in locked[n] /\ guard[n][f] = q)
       /\ guard' = [guard EXCEPT ![m][f] = q]
       /\ locked' = [locked EXCEPT ![m] = @ \cup {f}]
  /\ awaiting' = [awaiting EXCEPT ![m] = NoQueue] /\ todo' = [todo EXCEPT ![m] = Tail(@)]
  /\ UNCHANGED <<registry, step, blocking, bound, base, diskVars>>

(***************************************************************************)
(* With all its fences the tool reads through its targets and derives.     *)
(***************************************************************************)
\* Whether the operation applies to a target that was bound so.
Applies(m, f) ==
  CASE OperationOn[m][f] \in {"update", "delete"} -> bound[m][f] # 0
    [] OperationOn[m][f] = "add" -> bound[m][f] = 0
    [] OTHER -> TRUE

Preflight(m) ==
  /\ step[m] = "fencing" /\ todo[m] = <<>> /\ awaiting[m] = NoQueue
  /\ base' = [base EXCEPT ![m] =
       [f \in File |-> IF bound[m][f] = 0 THEN {} ELSE content[bound[m][f]]]]
  /\ IF \A f \in FilesOf(m) : Applies(m, f)
       THEN StepTo(m, "committing") /\ todo' = [todo EXCEPT ![m] = Wanted[m]]
       ELSE StepTo(m, "dropping") /\ UNCHANGED todo
  /\ UNCHANGED <<fenceVars, blocking, bound, diskVars>>

\* The revision fences refuse, the edit does not match, or the read fails.
PreflightFails(m) ==
  /\ step[m] = "fencing" /\ todo[m] = <<>> /\ awaiting[m] = NoQueue /\ StepTo(m, "dropping")
  /\ UNCHANGED <<fenceVars, todo, blocking, bound, base, diskVars>>

(***************************************************************************)
(* The files are committed one by one, each in a blocking closure that     *)
(* owns the guard of its file.                                             *)
(***************************************************************************)
\* The files a call may still write to.
Pending(m) ==
  IF step[m] = "committing" THEN Range(todo[m]) ELSE {f \in File : f = blocking[m]}

\* Mutant: the guards go with the future of the call.
Loosing_Future(m) ==
  CASE step[m] = "committing" -> {f \in File : guard[m][f] # NoQueue /\ f \notin Pending(m)}
    [] step[m] = "dropping" -> {f \in File : guard[m][f] # NoQueue}
    [] OTHER -> {}

\* The files whose guard is on its way out.
Loosing(m) ==
  IF step[m] \in {"committing", "dropping"}
    THEN {f \in File : guard[m][f] # NoQueue /\ f \notin Pending(m)} ELSE {}

Dispatch(m) ==
  /\ step[m] = "committing" /\ todo[m] # <<>> /\ blocking[m] = 0 /\ Loosing(m) = {}
  /\ blocking' = [blocking EXCEPT ![m] = Head(todo[m])]
  /\ UNCHANGED <<fenceVars, step, todo, bound, base, diskVars>>

\* What an inode shows once m has written to it.
Shows(m, f) == IF OperationOn[m][f] = "update" THEN base[m][f] \cup {m} ELSE {m}

\* create_new refuses a leaf that is there; the removal refuses a path that
\* names another file; a write goes to the opened file whatever the path names.
CanWrite(m, f) ==
  CASE OperationOn[m][f] = "delete" -> inode[f] = bound[m][f]
    [] bound[m][f] = 0 -> inode[f] = 0
    [] OTHER -> TRUE

Closes(m) ==
  /\ blocking[m] # 0 /\ blocking' = [blocking EXCEPT ![m] = 0]
  /\ todo' = [todo EXCEPT ![m] = Tail(@)]
  /\ UNCHANGED <<fenceVars, bound, base>>

Writes(m, f, shows) ==
  IF OperationOn[m][f] = "delete" THEN inode' = [inode EXCEPT ![f] = 0] /\ UNCHANGED content
  ELSE IF bound[m][f] = 0
    THEN /\ content' = Append(content, shows)
         /\ inode' = [inode EXCEPT ![f] = Len(content')]
    ELSE content' = [content EXCEPT ![bound[m][f]] = shows] /\ UNCHANGED inode

WriteFile(m) ==
  LET f == blocking[m] IN
  Closes(m) /\ UNCHANGED step /\ CanWrite(m, f) /\ Writes(m, f, Shows(m, f))

WriteRefused(m) ==
  /\ Closes(m) /\ StepTo(m, "dropping") /\ ~CanWrite(m, blocking[m]) /\ UNCHANGED diskVars

\* A file that was created or truncated before its write failed is left
\* empty; one whose flush failed has been written.
WriteFails(m) ==
  LET f == blocking[m] IN
  /\ Closes(m) /\ StepTo(m, "dropping")
  /\ \/ UNCHANGED diskVars
     \/ /\ OperationOn[m][f] # "delete" /\ CanWrite(m, f)
        /\ \E shows \in {{}, Shows(m, f)} : Writes(m, f, shows)

(***************************************************************************)
(* Drop of a MutationGuard: first the lock, then the registry.             *)
(***************************************************************************)
Unfence(m, f) ==
  /\ f \in Loosing(m) /\ f \in locked[m]
  /\ locked' = [locked EXCEPT ![m] = @ \ {f}]
  /\ UNCHANGED <<registry, awaiting, guard, toolVarsOf, diskVars>>

\* The references of others to the queue of f that m has: a waiter's, a guard's.
SharedBy(n, m, f) ==
  \/ awaiting[n] = guard[m][f] /\ Head(todo[n]) = f
  \/ guard[n][f] = guard[m][f]

\* Mutant: the entry is removed whoever waits.
Cleanup_Always(m, f) ==
  /\ f \in Loosing(m) /\ f \notin locked[m]
  /\ guard' = [guard EXCEPT ![m][f] = NoQueue]
  /\ registry' = [registry EXCEPT ![f] = IF @ = guard[m][f] THEN NoQueue ELSE @]
  /\ UNCHANGED <<awaiting, locked, toolVarsOf, diskVars>>

\* cleanup_queue: Arc::strong_count is 2 when only the registry and this
\* guard refer to the queue.
Cleanup(m, f) ==
  /\ f \in Loosing(m) /\ f \notin locked[m]
  /\ guard' = [guard EXCEPT ![m][f] = NoQueue]
  /\ registry' = [registry EXCEPT ![f] =
       IF @ = guard[m][f] /\ \A n \in Mutation \ {m} : ~SharedBy(n, m, f) THEN NoQueue ELSE @]
  /\ UNCHANGED <<awaiting, locked, toolVarsOf, diskVars>>

Settled(m) == blocking[m] = 0 /\ guard[m] = Unfenced

\* The call returns, and what it knew of its files is gone.
Returns(m) ==
  /\ Settled(m) /\ todo' = [todo EXCEPT ![m] = <<>>]
  /\ bound' = [bound EXCEPT ![m] = Nowhere] /\ base' = [base EXCEPT ![m] = Unread]
  /\ UNCHANGED <<fenceVars, blocking, diskVars>>

Completes(m) == step[m] = "committing" /\ todo[m] = <<>> /\ Returns(m) /\ StepTo(m, "done")
Ends(m) == step[m] = "dropping" /\ Returns(m) /\ StepTo(m, "ended")

\* The future of the tool is dropped; a closure that runs goes on.
Abandon(m) ==
  /\ step[m] \in {"fencing", "committing"} /\ StepTo(m, "dropping")
  /\ awaiting' = [awaiting EXCEPT ![m] = NoQueue]
  /\ UNCHANGED <<registry, guard, locked, todo, blocking, bound, base, diskVars>>

(***************************************************************************)
(* The next-state relation.                                                *)
(***************************************************************************)
ToolRuns(m) ==
  \/ Enqueue(m) \/ Acquire(m) \/ Preflight(m)
  \/ Dispatch(m) \/ WriteFile(m) \/ WriteRefused(m) \/ Completes(m) \/ Ends(m)
  \/ \E f \in File : Unfence(m, f) \/ Cleanup(m, f)

FilesNext ==
  \/ \E m \in Mutation : Bind(m) \/ ToolRuns(m)
  \/ \E m \in Doubtful : PreflightFails(m) \/ WriteFails(m) \/ Abandon(m)

FilesSpec == FilesInit /\ [][FilesNext]_filesVars

FilesFairness == \A m \in Mutation : WF_filesVars(ToolRuns(m))

(***************************************************************************)
(* Properties.                                                             *)
(***************************************************************************)
\* Every variable has its type.
FilesTypeOK ==
  /\ registry \in [File -> Mutation \cup {NoQueue}]
  /\ awaiting \in [Mutation -> Mutation \cup {NoQueue}]
  /\ guard \in [Mutation -> [File -> Mutation \cup {NoQueue}]]
  /\ locked \in [Mutation -> SUBSET File]
  /\ step \in [Mutation -> {"new", "fencing", "committing", "dropping", "done", "ended"}]
  /\ todo \in [Mutation -> Seq(File)] /\ blocking \in [Mutation -> File \cup {0}]
  /\ bound \in [Mutation -> [File -> 0 .. Len(content)]]
  /\ base \in [Mutation -> [File -> SUBSET Mutation]]
  /\ inode \in [File -> 0 .. Len(content)] /\ content \in Seq(SUBSET Mutation)

\* At most one tool call holds the fence of a file, whatever queues the
\* registry has made and forgotten meanwhile (fs/mutation.rs:118).
FenceExclusive ==
  \A m, n \in Mutation : m # n => locked[m] \cap locked[n] = {}

\* What a tool has read under its fence is what it is about to replace
\* (fs/mutation.rs:14).
BaseIsCurrent ==
  \A m \in Mutation : \A f \in Pending(m) :
    bound[m][f] # 0 => content[bound[m][f]] = base[m][f]

\* Calls that fence files end, also when they name the same files in another
\* order (apply_patch.rs:139).
MutationsEnd ==
  (\E m \in Mutation : step[m] = "fencing")
    ~> (\A m \in Mutation : step[m] \in {"new", "done", "ended"})
================================================================================
