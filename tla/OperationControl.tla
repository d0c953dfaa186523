-------------------------- MODULE OperationControl --------------------------
(***************************************************************************)
(* The operations of one coding-agent runtime: application/operation/      *)
(* control.rs (the table of active operations behind one mutex), the       *)
(* capability generation and the projected `active_operation` of           *)
(* application/snapshot, and the two-phase shutdown of                     *)
(* runtime/facade/connection.rs.                                           *)
(*                                                                         *)
(* Threads: the session owner (`&mut CodingAgentSession`: it admits roots, *)
(* runs them or hands them to a task of their own, and shuts down), one    *)
(* task per spawned root, one per child, clients that request a            *)
(* cancellation, and the capability control.  Each step below is one       *)
(* critical section; what the code does after it dropped the mutex is a    *)
(* step of its own.                                                        *)
(***************************************************************************)
EXTENDS Naturals, Sequences, FiniteSets, SequencesExt

CONSTANTS
  Root,           \* ids of the operations that may occupy a root slot
  Child,          \* ids of the operations started below another one
  ClassOf,        \* class of each root
  KindOf,         \* kind of each root, what the projection shows
  RootLimit,      \* non_session_root_limit
  MaxGeneration,  \* bound: capability generations installed
  MaxOperations   \* bound: operations started

Op == Root \cup Child
Class == {"SessionWriteRoot", "NonSessionRoot", "RuntimeWrite"}
None == "None"
Unchanged == "Unchanged"

OperationConfig ==
  /\ Root \cap Child = {}
  /\ ClassOf \in [Root -> Class]
  /\ RootLimit \in Nat \ {0}
  /\ {MaxGeneration, MaxOperations} \subseteq Nat
  /\ None \notin Op
  /\ None \notin {KindOf[r] : r \in Root}
  /\ Unchanged \notin {KindOf[r] : r \in Root} \cup {None}

ASSUME OperationAssumption == OperationConfig

VARIABLES
  session_write,      \* OperationStateInner: the one session writer
  non_session_roots,  \* the background roots, oldest first
  runtime_write,      \* the one exclusive root
  children,           \* the active child operations
  op,                 \* the identity of each active operation
  lock,               \* who is between two reads of one critical section
  phase,              \* where the task of each operation is
  publication,        \* primary computed under the mutex, not yet projected
  clears,             \* removed operations whose event context is not yet cleared
  contexts,           \* operation_event_contexts
  generation,         \* the current capability generation
  sweeping,           \* generations installed, older operations not yet cancelled
  active_operation,   \* SnapshotProjection::active_operation
  lifecycle,          \* RuntimeLifecycle
  changed,            \* the owner's lifecycle receiver has an unseen value
  owner               \* what the session owner is doing

table == <<session_write, non_session_roots, runtime_write, children, op>>
projection == <<active_operation, lifecycle, changed>>
capability == <<generation, sweeping>>
opVars == <<table, lock, phase, publication, clears, contexts, capability,
            projection, owner>>

Phase == {"new", "resolved", "checked", "begun", "running", "dropped", "gone"}
OwnerStep == {"idle", "sweep", "drain", "asleep", "commit", "done"}
Kind == {KindOf[r] : r \in Root}

Identity == [parent : Op \cup {None}, generation : Nat, cancelled : BOOLEAN,
             open : BOOLEAN, released : BOOLEAN]
Fresh(parent, g) == [parent |-> parent, generation |-> g, cancelled |-> FALSE,
                     open |-> TRUE, released |-> FALSE]

(***************************************************************************)
(* Reading the table.                                                      *)
(***************************************************************************)
Occupied(slot) == {slot} \ {None}
RootsOf(sw, ns, rw) == Occupied(sw) \cup ToSet(ns) \cup Occupied(rw)
Roots == RootsOf(session_write, non_session_roots, runtime_write)
Active == Roots \cup children

\* OperationActivity::primary, as a kind.
Primary(sw, ns, rw) ==
  IF rw # None THEN KindOf[rw]
  ELSE IF sw # None THEN KindOf[sw]
  ELSE IF ns # <<>> THEN KindOf[Head(ns)] ELSE None
CurrentPrimary == Primary(session_write, non_session_roots, runtime_write)

Blocked(class) ==
  CASE class = "SessionWriteRoot" -> runtime_write # None \/ session_write # None
    [] class = "NonSessionRoot" -> runtime_write # None \/ Len(non_session_roots) >= RootLimit
    [] class = "RuntimeWrite" -> CurrentPrimary # None

\* child_descends_from: the operations met when following parents through
\* `kids`, the least set that has the parent of c and of every child in it.
Ancestors(c, kids) ==
  LET closed == {met \in SUBSET (Op \cup {None}) :
                   op[c].parent \in met /\ \A p \in met \cap kids : op[p].parent \in met}
  IN  {a \in Op \cup {None} : \A met \in closed : a \in met}
Descendants(a, kids) == {c \in kids : a \in Ancestors(c, kids)}

\* Mutant: a cancelled child still admits children.
ParentIsActive_Cancelled(p) == p \in Active /\ ~op[p].released

ParentIsActive(p) ==
  \/ p \in Roots /\ ~op[p].released
  \/ p \in children /\ ~op[p].released /\ ~op[p].cancelled

Cancel(ops) == [o \in Op |-> [op[o] EXCEPT !.cancelled = @ \/ o \in ops]]

MayStart == Cardinality({o \in Op : phase[o] # "new"}) < MaxOperations

OperationInit ==
  /\ session_write = None /\ non_session_roots = <<>> /\ runtime_write = None
  /\ children = {}
  /\ op = [o \in Op |-> Fresh(None, 0)]
  /\ lock = None
  /\ phase = [o \in Op |-> "new"]
  /\ publication = [o \in Op |-> Unchanged]
  /\ clears = [o \in Op |-> {}]
  /\ contexts = {}
  /\ generation = 1 /\ sweeping = {}
  /\ active_operation = None /\ lifecycle = "Running" /\ changed = FALSE
  /\ owner = "idle"

(***************************************************************************)
(* Admission of a root by the owner.                                       *)
(***************************************************************************)
\* ensure_runtime_running, then the capability snapshot of the operation.
Resolve(r) ==
  /\ owner = "idle" /\ lifecycle = "Running" /\ phase[r] = "new" /\ MayStart
  /\ owner' = r
  /\ phase' = [phase EXCEPT ![r] = "resolved"]
  /\ op' = [op EXCEPT ![r] = Fresh(None, generation)]
  /\ UNCHANGED <<session_write, non_session_roots, runtime_write, children, lock,
                 publication, clears, contexts, capability, projection>>

\* Mutant: the stale generation is not noticed.
ReadGeneration_Trusts(o) ==
  /\ lock = None /\ phase[o] = "resolved"
  /\ lock' = o
  /\ phase' = [phase EXCEPT ![o] = "checked"]
  /\ UNCHANGED <<table, publication, clears, contexts, capability, projection, owner>>

\* begin_root_inner up to the read of the current generation: the operation
\* mutex is held from here to BeginRoot or the refusal.
ReadGeneration(o) ==
  /\ lock = None /\ phase[o] = "resolved"
  /\ lock' = o
  /\ phase' = [phase EXCEPT ![o] = IF op[o].generation < generation THEN "gone" ELSE "checked"]
  /\ UNCHANGED <<table, publication, clears, contexts, capability, projection, owner>>

BeginRefused(o) ==
  /\ lock = o
  /\ \/ phase[o] = "gone"
     \/ o \in Root /\ Blocked(ClassOf[o])
     \/ o \in Child /\ ~ParentIsActive(op[o].parent)
  /\ lock' = None
  /\ phase' = [phase EXCEPT ![o] = "gone"]
  /\ op' = [op EXCEPT ![o] = Fresh(None, 0)]
  /\ owner' = IF owner = o THEN "idle" ELSE owner
  /\ UNCHANGED <<session_write, non_session_roots, runtime_write, children, publication,
                 clears, contexts, capability, projection>>

BeginRoot(r) ==
  /\ r \in Root /\ lock = r /\ phase[r] = "checked" /\ ~Blocked(ClassOf[r])
  /\ session_write' = IF ClassOf[r] = "SessionWriteRoot" THEN r ELSE session_write
  /\ non_session_roots' = IF ClassOf[r] = "NonSessionRoot"
                            THEN Append(non_session_roots, r) ELSE non_session_roots
  /\ runtime_write' = IF ClassOf[r] = "RuntimeWrite" THEN r ELSE runtime_write
  /\ LET primary == Primary(session_write', non_session_roots', runtime_write')
     IN  publication' = [publication EXCEPT ![r] = IF primary # CurrentPrimary
                                                     THEN primary ELSE Unchanged]
  /\ phase' = [phase EXCEPT ![r] = "begun"]
  /\ lock' = None
  /\ UNCHANGED <<children, op, clears, contexts, capability, projection, owner>>

\* begin_child_inner: the event context is registered before the unlock.
BeginChild(c) ==
  /\ c \in Child /\ lock = c /\ phase[c] = "checked" /\ ParentIsActive(op[c].parent)
  /\ children' = children \cup {c}
  /\ contexts' = contexts \cup {c}
  /\ phase' = [phase EXCEPT ![c] = "running"]
  /\ lock' = None
  /\ UNCHANGED <<session_write, non_session_roots, runtime_write, op, publication,
                 clears, capability, projection, owner>>

\* A running operation starts a child with its own capability snapshot.
ResolveChild(c, parent) ==
  /\ phase[c] = "new" /\ phase[parent] = "running" /\ MayStart
  /\ op' = [op EXCEPT ![c] = Fresh(parent, op[parent].generation)]
  /\ phase' = [phase EXCEPT ![c] = "resolved"]
  /\ UNCHANGED <<session_write, non_session_roots, runtime_write, children, lock,
                 publication, clears, contexts, capability, projection, owner>>

(***************************************************************************)
(* Projecting the primary operation, outside the operation mutex.          *)
(***************************************************************************)

\* set_active_operation and set_active_operation_from_drop.
SetActive(primary) ==
  IF primary = Unchanged
    THEN UNCHANGED <<active_operation, changed>>
    ELSE /\ active_operation' = primary
         /\ changed' = (changed \/ primary = None)

\* begin_root_inner after the unlock; the root is then run by the owner, or
\* (submit, non-session roots only) by a task of its own.
PublishBegin(r, spawn) ==
  /\ r \in Root /\ phase[r] = "begun"
  /\ spawn => ClassOf[r] = "NonSessionRoot"
  /\ SetActive(publication[r])
  /\ publication' = [publication EXCEPT ![r] = Unchanged]
  /\ contexts' = contexts \cup {r}
  /\ phase' = [phase EXCEPT ![r] = "running"]
  /\ owner' = IF spawn THEN "idle" ELSE owner
  /\ UNCHANGED <<table, lock, clears, capability, lifecycle>>

(***************************************************************************)
(* Release: the guard of a root or of a child is dropped.                  *)
(***************************************************************************)
\* Mutants: one pass instead of a fixed point; a root that forgets its children.
KeptChildren_OnePass(kids, released) ==
  {c \in kids : c \notin released \/ Descendants(c, kids) # {}}

\* remove_released_children_without_descendants: until none is left.
KeptChildren(kids, released) ==
  {c \in kids : c \notin released \/ \E d \in kids \ released : c \in Ancestors(d, kids)}

RetainedRoot(r, kids, released) == r \notin released \/ Descendants(r, kids) # {}

\* The members of s that stay, in their order.
Kept(s, stay) ==
  LET places == {i \in DOMAIN s : s[i] \in stay}
      nth(n) == CHOOSE i \in places : Cardinality({j \in places : j <= i}) = n
  IN  [n \in 1 .. Cardinality(places) |-> s[nth(n)]]

\* The operations a drop of o removed, whose event contexts it must clear.
Removed(o, rest) == Active \ rest

DropGuard(o) ==
  LET released == {x \in Active : op[x].released} \cup {o}
      kids == IF o \in Child THEN KeptChildren(children, released) ELSE children
      keep(r) == RetainedRoot(r, kids, released)
      rest == kids \cup RootsOf(session_write', non_session_roots', runtime_write')
      cancelled == Cancel(Descendants(o, children))
  IN  /\ lock = None /\ phase[o] = "running"
      /\ children' = kids
      /\ session_write' = IF session_write # None /\ ~keep(session_write)
                            THEN None ELSE session_write
      /\ non_session_roots' = Kept(non_session_roots, {r \in Root : keep(r)})
      /\ runtime_write' = IF runtime_write # None /\ ~keep(runtime_write)
                            THEN None ELSE runtime_write
      /\ op' = [x \in Op |-> IF x \in Active \ rest THEN Fresh(None, 0)
                             ELSE [cancelled[x] EXCEPT !.released = @ \/ x = o]]
      /\ clears' = [clears EXCEPT ![o] = Removed(o, rest)]
      /\ LET primary == Primary(session_write', non_session_roots', runtime_write')
         IN  publication' = [publication EXCEPT ![o] = IF primary # CurrentPrimary
                                                         THEN primary ELSE Unchanged]
      /\ phase' = [phase EXCEPT ![o] = "dropped"]
      /\ UNCHANGED <<lock, contexts, capability, projection, owner>>

\* The rest of the drop: event contexts cleared, then the primary projected.
PublishDrop(o) ==
  /\ phase[o] = "dropped"
  /\ contexts' = contexts \ clears[o]
  /\ SetActive(publication[o])
  /\ publication' = [publication EXCEPT ![o] = Unchanged]
  /\ clears' = [clears EXCEPT ![o] = {}]
  /\ phase' = [phase EXCEPT ![o] = "gone"]
  /\ owner' = IF owner = o THEN "idle" ELSE owner
  /\ UNCHANGED <<table, lock, capability, lifecycle>>

(***************************************************************************)
(* Cancellation.                                                           *)
(***************************************************************************)
\* OperationCancellationHandle::request, by a client that holds the handle.
Request(o) ==
  /\ lock = None /\ o \in Active
  /\ ~op[o].released /\ op[o].open /\ ~op[o].cancelled
  /\ op' = Cancel({o} \cup Descendants(o, children))
  /\ UNCHANGED <<session_write, non_session_roots, runtime_write, children, lock, phase,
                 publication, clears, contexts, capability, projection, owner>>

\* close: the atomic section of a compaction, a branch summary or a
\* self-healing edit (all session writes) begins, unless already cancelled.
CloseWindow(o) ==
  /\ lock = None /\ o = session_write /\ phase[o] = "running"
  /\ op[o].open /\ ~op[o].cancelled
  /\ op' = [op EXCEPT ![o].open = FALSE]
  /\ UNCHANGED <<session_write, non_session_roots, runtime_write, children, lock, phase,
                 publication, clears, contexts, capability, projection, owner>>

\* reopen: a cancellation latched meanwhile stays in the token.
ReopenWindow(o) ==
  /\ lock = None /\ phase[o] = "running" /\ ~op[o].open
  /\ op' = [op EXCEPT ![o].open = TRUE]
  /\ UNCHANGED <<session_write, non_session_roots, runtime_write, children, lock, phase,
                 publication, clears, contexts, capability, projection, owner>>

\* revoke_older_operations: install, then cancel what is older.
InstallGeneration ==
  /\ generation < MaxGeneration
  /\ generation' = generation + 1
  /\ sweeping' = sweeping \cup {generation'}
  /\ UNCHANGED <<table, lock, phase, publication, clears, contexts, projection, owner>>

CancelGenerationsBefore(g) ==
  LET oldRoots == {r \in Roots : op[r].generation < g}
      oldChildren == {c \in children : op[c].generation < g}
  IN  /\ lock = None /\ g \in sweeping
      /\ op' = Cancel(oldRoots \cup oldChildren
                      \cup UNION {Descendants(r, children) : r \in oldRoots})
      /\ sweeping' = sweeping \ {g}
      /\ UNCHANGED <<session_write, non_session_roots, runtime_write, children, lock, phase,
                     publication, clears, contexts, generation, projection, owner>>

(***************************************************************************)
(* Shutdown.                                                               *)
(***************************************************************************)
\* CodingAgentRuntimeShutdownHandle::request_shutdown, from any thread.
RequestShutdown ==
  /\ lifecycle = "Running"
  /\ lifecycle' = "ShuttingDown" /\ changed' = TRUE
  /\ UNCHANGED <<table, lock, phase, publication, clears, contexts, capability,
                 active_operation, owner>>

\* shutdown_internal: request_shutdown, idempotent.
BeginShutdown ==
  /\ owner = "idle" /\ lifecycle # "ShutDown"
  /\ lifecycle' = "ShuttingDown"
  /\ changed' = (changed \/ lifecycle = "Running")
  /\ owner' = "sweep"
  /\ UNCHANGED <<table, lock, phase, publication, clears, contexts, capability,
                 active_operation>>

\* cancel_operations_for_shutdown, closed windows included; the wait then
\* subscribes to the lifecycle, which marks its value as seen.
CancelForShutdown ==
  /\ owner = "sweep" /\ lock = None
  /\ op' = Cancel(Active)
  /\ changed' = FALSE
  /\ owner' = "drain"
  /\ UNCHANGED <<session_write, non_session_roots, runtime_write, children, lock, phase,
                 publication, clears, contexts, capability, active_operation, lifecycle>>

\* One round of wait_for_active_operation_to_drain.
Drain ==
  /\ owner = "drain"
  /\ owner' = IF active_operation = None THEN "commit" ELSE "asleep"
  /\ UNCHANGED <<table, lock, phase, publication, clears, contexts, capability, projection>>

Wake ==
  /\ owner = "asleep" /\ changed
  /\ changed' = FALSE /\ owner' = "drain"
  /\ UNCHANGED <<table, lock, phase, publication, clears, contexts, capability,
                 active_operation, lifecycle>>

\* emit_runtime_shutdown, shutdown_writer, finish_shutdown.
FinishShutdown ==
  /\ owner = "commit"
  /\ lifecycle' = "ShutDown" /\ changed' = TRUE /\ owner' = "done"
  /\ UNCHANGED <<table, lock, phase, publication, clears, contexts, capability,
                 active_operation>>

OperationNext ==
  \/ \E r \in Root : Resolve(r) \/ BeginRoot(r) \/ \E spawn \in BOOLEAN : PublishBegin(r, spawn)
  \/ \E c \in Child : BeginChild(c) \/ \E parent \in Op \ {c} : ResolveChild(c, parent)
  \/ \E o \in Op : \/ ReadGeneration(o) \/ BeginRefused(o) \/ DropGuard(o) \/ PublishDrop(o)
                   \/ Request(o) \/ CloseWindow(o) \/ ReopenWindow(o)
  \/ InstallGeneration \/ \E g \in sweeping : CancelGenerationsBefore(g)
  \/ RequestShutdown \/ BeginShutdown \/ CancelForShutdown \/ Drain \/ Wake \/ FinishShutdown

OperationSpec == OperationInit /\ [][OperationNext]_opVars

(***************************************************************************)
(* Properties.                                                             *)
(***************************************************************************)
\* Every variable has its type (OperationStateInner, SnapshotState).
OperationTypeOK ==
  /\ {session_write, runtime_write} \subseteq Root \cup {None}
  /\ non_session_roots \in Seq(Root) /\ Len(non_session_roots) <= RootLimit
  /\ children \subseteq Child /\ contexts \subseteq Op
  /\ op \in [Op -> Identity]
  /\ lock \in Op \cup {None}
  /\ phase \in [Op -> Phase]
  /\ publication \in [Op -> Kind \cup {None, Unchanged}]
  /\ clears \in [Op -> SUBSET Op]
  /\ generation \in Nat /\ sweeping \subseteq Nat
  /\ active_operation \in Kind \cup {None}
  /\ lifecycle \in {"Running", "ShuttingDown", "ShutDown"} /\ changed \in BOOLEAN
  /\ owner \in OwnerStep \cup Root

\* No child runs on below an operation whose owner is gone or below a
\* cancelled child: it was cancelled with it, or was never admitted.
CancelReachesSubtree ==
  \A c \in children : \A a \in Ancestors(c, children) :
    op[a].released \/ (a \in Child /\ op[a].cancelled) => op[c].cancelled

\* A slot is kept for a released operation only while something below it is
\* still held: drops in any order empty the table
\* (remove_released_children_without_descendants and its twin for roots).
NoLeakedSlot ==
  \A o \in Active : op[o].released =>
    \E c \in Descendants(o, children) : ~op[c].released

\* Children neither outlive a cancellation above them nor hold slots for ever.
SubtreeIsHeld == CancelReachesSubtree /\ NoLeakedSlot

\* Once revoke_older_operations has returned, no operation of an older
\* capability generation is active without having been cancelled, although
\* the generation and the table are behind different locks.
RevokedIsCancelled ==
  sweeping = {} => \A o \in Active : op[o].generation < generation => op[o].cancelled

=============================================================================
