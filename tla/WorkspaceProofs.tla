---------------------------- MODULE WorkspaceProofs ----------------------------
(***************************************************************************)
(* The workspace services: the fence of a file is exclusive and its base   *)
(* stays current, an MCP server leaves nothing running and serves its      *)
(* latest session, the output of a background task is accounted for, and a *)
(* merge of a worktree is one step to the parent.  For any number of       *)
(* files, calls, servers, bytes, worktrees and processes; and whatever a   *)
(* part keeps on its own it keeps beside the others.                       *)
(***************************************************************************)
EXTENDS MCWorkspace, ExchangeProofs, OperationProofs,
        CompactionProofs, FiniteSetTheorems

-----------------------------------------------------------------------------
(* The fence of a file. *)

\* The registry has the queue of every guard and of every waiter.  Without
\* it exclusion is not inductive: a second queue for a file would let a
\* second call in.
Registered ==
  /\ \A m \in Mutation, f \in File : guard[m][f] # NoQueue => registry[f] = guard[m][f]
  /\ \A m \in Mutation : awaiting[m] # NoQueue =>
       /\ step[m] = "fencing" /\ todo[m] # <<>> /\ registry[Head(todo[m])] = awaiting[m]
  /\ \A m \in Mutation : blocking[m] # 0 =>
       step[m] \in {"committing", "dropping"} /\ todo[m] # <<>>
  /\ \A m \in Mutation : \A f \in locked[m] : guard[m][f] # NoQueue

FenceInv == FilesTypeOK /\ Registered /\ FenceExclusive

\* What the calls ask for is as the tools give it: paths of the tree, each once.
LEMMA FilesConstants == FilesConfig
BY FilesAssumption

\* Before the first call no file has a queue, and after every step of a call
\* the registry has the queue of every guard and of every waiter.
LEMMA InitFence == FilesInit => FenceInv
<1> SUFFICES ASSUME FilesInit PROVE FenceInv
  OBVIOUS
<1> USE DEF FilesInit, Unfenced, Nowhere, Unread
<1>1. content \in Seq(SUBSET Mutation) /\ Len(content) = NumFiles
  <2>1. /\ NumFiles \in Nat /\ content = [f \in 1 .. NumFiles |-> {}]
    BY FilesConstants DEF File, FilesConfig
  <2> QED BY <2>1
<1>2. inode \in [File -> 0 .. Len(content)]
  BY <1>1, FilesConstants DEF FilesConfig, File
<1>3. bound \in [Mutation -> [File -> 0 .. Len(content)]]
  BY <1>1, FilesConstants DEF FilesConfig
<1>4. todo \in [Mutation -> Seq(File)] /\ blocking \in [Mutation -> File \cup {0}]
  OBVIOUS
<1>5. FilesTypeOK
  BY <1>1, <1>2, <1>3, <1>4 DEF FilesTypeOK
<1> QED BY <1>5 DEF FenceInv, Registered, FenceExclusive

LEMMA BindFence ==
  ASSUME FenceInv, NEW m \in Mutation, Bind(m)
  PROVE  FenceInv'
<1> USE DEF FenceInv, FilesTypeOK, Registered, FenceExclusive
<1>1. FilesOf(m) \subseteq File
  BY FilesConstants DEF FilesConfig, FilesOf
<1>2. PICK order \in [DOMAIN Wanted[m] -> FilesOf(m)] : todo' = [todo EXCEPT ![m] = order]
  BY DEF Bind
<1>3. order \in Seq(File)
  BY <1>1, FilesConstants DEF FilesConfig
<1>4. awaiting[m] = NoQueue /\ blocking[m] = 0
  BY DEF Bind, File
<1>5. FilesTypeOK'
  BY <1>2, <1>3 DEF Bind, StepTo, fenceVars, diskVars
<1>6. Registered'
  BY <1>2, <1>4 DEF Bind, StepTo, fenceVars, diskVars
<1> QED BY <1>5, <1>6 DEF Bind, fenceVars

LEMMA EnqueueFence ==
  ASSUME FenceInv, NEW m \in Mutation, Enqueue(m)
  PROVE  FenceInv'
<1> USE DEF FenceInv, FilesTypeOK, Registered, FenceExclusive
<1> DEFINE f == Head(todo[m])
           q == IF registry[f] = NoQueue THEN m ELSE registry[f]
<1>1. f \in File /\ q \in Mutation \cup {NoQueue}
  BY DEF Enqueue
<1>2. registry' = [registry EXCEPT ![f] = q] /\ awaiting' = [awaiting EXCEPT ![m] = q]
  BY DEF Enqueue
<1>3. UNCHANGED <<guard, locked, toolVarsOf, diskVars>>
  BY DEF Enqueue
<1> HIDE DEF q
<1>4. \A g \in File : registry[g] # NoQueue => registry'[g] = registry[g]
  BY <1>1, <1>2 DEF q
<1>5. FilesTypeOK'
  BY <1>1, <1>2, <1>3 DEF toolVarsOf, diskVars
<1>6. \A n \in Mutation : awaiting'[n] # NoQueue =>
        /\ step'[n] = "fencing" /\ todo'[n] # <<>> /\ registry'[Head(todo'[n])] = awaiting'[n]
  <2> SUFFICES ASSUME NEW n \in Mutation, awaiting'[n] # NoQueue
               PROVE  step'[n] = "fencing" /\ todo'[n] # <<>>
                        /\ registry'[Head(todo'[n])] = awaiting'[n]
    OBVIOUS
  <2>1. CASE n = m
    BY <2>1, <1>1, <1>2, <1>3 DEF Enqueue, toolVarsOf
  <2>2. CASE n # m
    <3>1. Head(todo[n]) \in File /\ registry[Head(todo[n])] = awaiting[n]
      BY <2>2, <1>2
    <3> QED BY <3>1, <2>2, <1>2, <1>3, <1>4 DEF toolVarsOf
  <2> QED BY <2>1, <2>2
<1>7. Registered'
  BY <1>3, <1>4, <1>6 DEF toolVarsOf
<1> QED BY <1>3, <1>5, <1>7

LEMMA AcquireFence ==
  ASSUME FenceInv, NEW m \in Mutation, Acquire(m)
  PROVE  FenceInv'
<1> USE DEF FenceInv, FilesTypeOK, Registered, FenceExclusive
<1> DEFINE f == Head(todo[m])
           q == awaiting[m]
<1>1. f \in File /\ q # NoQueue /\ registry[f] = q /\ todo[m] # <<>>
  BY DEF Acquire
<1>2. /\ \A n \in Mutation : ~(f \in locked[n] /\ guard[n][f] = q)
      /\ guard' = [guard EXCEPT ![m][f] = q]
      /\ locked' = [locked EXCEPT ![m] = @ \cup {f}]
      /\ awaiting' = [awaiting EXCEPT ![m] = NoQueue]
      /\ todo' = [todo EXCEPT ![m] = Tail(@)]
      /\ UNCHANGED <<registry, step, blocking, bound, base, diskVars>>
  BY DEF Acquire
<1>3. \A n \in Mutation : f \notin locked[n]
  <2> SUFFICES ASSUME NEW n \in Mutation, f \in locked[n] PROVE FALSE
    OBVIOUS
  <2>1. guard[n][f] # NoQueue /\ registry[f] = guard[n][f]
    BY <1>1
  <2> QED BY <2>1, <1>1, <1>2
<1>4. Tail(todo[m]) \in Seq(File)
  BY <1>1
<1>5. FilesTypeOK'
  BY <1>1, <1>2, <1>4 DEF diskVars
<1>6. \A n \in Mutation : awaiting'[n] # NoQueue =>
        /\ step'[n] = "fencing" /\ todo'[n] # <<>> /\ registry'[Head(todo'[n])] = awaiting'[n]
  <2> SUFFICES ASSUME NEW n \in Mutation, awaiting'[n] # NoQueue
               PROVE  step'[n] = "fencing" /\ todo'[n] # <<>>
                        /\ registry'[Head(todo'[n])] = awaiting'[n]
    OBVIOUS
  <2>1. n # m /\ awaiting'[n] = awaiting[n] /\ todo'[n] = todo[n]
    BY <1>2
  <2> QED BY <2>1, <1>2
<1>8. ASSUME NEW n \in Mutation, NEW g \in File, guard'[n][g] # NoQueue
      PROVE  registry'[g] = guard'[n][g]
  <2>1. CASE n = m /\ g = f
    <3>1. guard'[n][g] = q
      BY <1>2, <2>1
    <3> QED BY <1>1, <1>2, <2>1, <3>1
  <2>2. CASE ~(n = m /\ g = f)
    <3>1. guard'[n][g] = guard[n][g]
      BY <1>2, <2>2
    <3>2. registry[g] = guard[n][g]
      BY <1>8, <3>1
    <3> QED BY <1>2, <3>1, <3>2
  <2> QED BY <2>1, <2>2
<1>9. ASSUME NEW n \in Mutation, blocking'[n] # 0
      PROVE  step'[n] \in {"committing", "dropping"} /\ todo'[n] # <<>>
  <2>1. step[n] \in {"committing", "dropping"} /\ todo[n] # <<>> /\ n # m
    BY <1>1, <1>2, <1>9
  <2> QED BY <1>2, <2>1
<1>11. ASSUME NEW n \in Mutation, NEW g \in locked'[n] PROVE guard'[n][g] # NoQueue
  <2>1. CASE n = m /\ g = f
    BY <1>1, <1>2, <2>1
  <2>2. CASE ~(n = m /\ g = f)
    <3>1. g \in locked[n] /\ g \in File
      BY <1>2, <2>2
    <3>2. guard'[n][g] = guard[n][g]
      BY <1>2, <2>2, <3>1
    <3> QED BY <3>1, <3>2
  <2> QED BY <2>1, <2>2
<1>10. Registered'
  BY <1>6, <1>8, <1>9, <1>11
<1>7. FenceExclusive'
  BY <1>2, <1>3
<1> HIDE DEF FilesTypeOK, Registered, FenceExclusive
<1> QED BY <1>5, <1>7, <1>10

LEMMA CleanupFence ==
  ASSUME FenceInv, NEW m \in Mutation, NEW f \in File, Cleanup(m, f)
  PROVE  FenceInv'
<1> USE DEF FenceInv, FilesTypeOK, Registered, FenceExclusive
<1> DEFINE gone == registry[f] = guard[m][f] /\ \A n \in Mutation \ {m} : ~SharedBy(n, m, f)
<1>1. /\ f \notin locked[m] /\ step[m] # "fencing" /\ guard[m][f] # NoQueue
      /\ guard' = [guard EXCEPT ![m][f] = NoQueue]
      /\ registry' = [registry EXCEPT ![f] = IF gone THEN NoQueue ELSE @]
      /\ UNCHANGED <<awaiting, locked, toolVarsOf, diskVars>>
  BY DEF Cleanup, Loosing
<1> HIDE DEF gone
<1>2. \A n \in Mutation \ {m} : guard[n][f] # NoQueue => ~gone
  BY <1>1 DEF gone, SharedBy
<1>3. \A n \in Mutation : awaiting[n] # NoQueue =>
        Head(todo[n]) \in File /\ (Head(todo[n]) = f => ~gone)
  <2> SUFFICES ASSUME NEW n \in Mutation, awaiting[n] # NoQueue
               PROVE  Head(todo[n]) \in File /\ (Head(todo[n]) = f => ~gone)
    OBVIOUS
  <2>3. step[n] = "fencing" /\ todo[n] # <<>> /\ registry[Head(todo[n])] = awaiting[n]
    OBVIOUS
  <2>1. n # m /\ Head(todo[n]) \in File /\ registry[Head(todo[n])] = awaiting[n]
    <3>1. n # m /\ todo[n] \in Seq(File) /\ todo[n] # <<>>
      BY <1>1, <2>3
    <3>2. Head(todo[n]) \in File
      BY <3>1
    <3> QED BY <3>1, <3>2, <2>3
  <2>2. Head(todo[n]) = f /\ gone => SharedBy(n, m, f)
    BY <2>1 DEF gone, SharedBy
  <2> QED BY <2>1, <2>2 DEF gone
<1>4. FilesTypeOK'
  BY <1>1 DEF toolVarsOf, diskVars
<1>5. \A n \in Mutation, g \in File : guard'[n][g] # NoQueue => registry'[g] = guard'[n][g]
  BY <1>1, <1>2
<1>6. \A n \in Mutation : awaiting'[n] # NoQueue =>
        /\ step'[n] = "fencing" /\ todo'[n] # <<>> /\ registry'[Head(todo'[n])] = awaiting'[n]
  BY <1>1, <1>3 DEF toolVarsOf
<1>7. \A n \in Mutation : \A g \in locked'[n] : guard'[n][g] # NoQueue
  BY <1>1
<1>8. Registered'
  BY <1>1, <1>5, <1>6, <1>7 DEF toolVarsOf
<1>9. FenceExclusive'
  BY <1>1
<1> HIDE DEF FilesTypeOK, Registered, FenceExclusive
<1> QED BY <1>4, <1>8, <1>9

LEMMA UnlockFence ==
  ASSUME FenceInv, NEW m \in Mutation, NEW f \in File, Unfence(m, f)
  PROVE  FenceInv'
<1> USE DEF FenceInv, FilesTypeOK, Registered, FenceExclusive
<1>1. /\ locked' = [locked EXCEPT ![m] = @ \ {f}]
      /\ UNCHANGED <<registry, awaiting, guard, toolVarsOf, diskVars>>
  BY DEF Unfence
<1>2. FilesTypeOK'
  BY <1>1 DEF toolVarsOf, diskVars
<1>3. Registered'
  BY <1>1 DEF toolVarsOf
<1>4. FenceExclusive'
  BY <1>1
<1> QED BY <1>2, <1>3, <1>4

\* What a call does outside of the fence disturbs no other call.
LEMMA Aside ==
  ASSUME FenceInv, FilesTypeOK', NEW m \in Mutation, awaiting[m] = NoQueue, UNCHANGED fenceVars,
         \A n \in Mutation \ {m} :
           step'[n] = step[n] /\ todo'[n] = todo[n] /\ blocking'[n] = blocking[n],
         blocking'[m] # 0 => step'[m] \in {"committing", "dropping"} /\ todo'[m] # <<>>
  PROVE  FenceInv'
<1> USE DEF FenceInv, Registered, fenceVars
<1>1. \A n \in Mutation : awaiting'[n] # NoQueue =>
        /\ step'[n] = "fencing" /\ todo'[n] # <<>> /\ registry'[Head(todo'[n])] = awaiting'[n]
  OBVIOUS
<1>2. \A n \in Mutation : blocking'[n] # 0 =>
        step'[n] \in {"committing", "dropping"} /\ todo'[n] # <<>>
  OBVIOUS
<1>3. Registered'
  BY <1>1, <1>2
<1> QED BY <1>3 DEF FenceExclusive

\* Only a call that fences waits.
LEMMA WaitersFence ==
  ASSUME FenceInv, NEW m \in Mutation, step[m] # "fencing"
  PROVE  awaiting[m] = NoQueue
BY DEF FenceInv, Registered

LEMMA PreflightFence ==
  ASSUME FenceInv, NEW m \in Mutation, Preflight(m) \/ PreflightFails(m)
  PROVE  FenceInv'
<1> USE DEF Preflight, PreflightFails, StepTo, fenceVars, diskVars
<1>1. base' \in [Mutation -> [File -> SUBSET Mutation]]
  <2>1. \A f \in File : bound[m][f] # 0 => content[bound[m][f]] \in SUBSET Mutation
    BY DEF FenceInv, FilesTypeOK
  <2> DEFINE now == [f \in File |-> IF bound[m][f] = 0 THEN {} ELSE content[bound[m][f]]]
  <2>2. now \in [File -> SUBSET Mutation]
    BY <2>1
  <2>3. base' = [base EXCEPT ![m] = now] \/ base' = base
    OBVIOUS
  <2> HIDE DEF now
  <2> QED BY <2>2, <2>3 DEF FenceInv, FilesTypeOK
<1>2. todo' \in [Mutation -> Seq(File)]
  BY FilesConstants DEF FilesConfig, FenceInv, FilesTypeOK
<1>3. FilesTypeOK'
  BY <1>1, <1>2 DEF FenceInv, FilesTypeOK
<1>4. blocking[m] = 0 /\ awaiting[m] = NoQueue
  BY DEF FenceInv, Registered
<1>5. UNCHANGED <<fenceVars, blocking>>
      /\ \A n \in Mutation \ {m} : step'[n] = step[n] /\ todo'[n] = todo[n]
  BY DEF FenceInv, FilesTypeOK
<1> QED BY <1>3, <1>4, <1>5, Aside

LEMMA LaunchFence ==
  ASSUME FenceInv, NEW m \in Mutation, Dispatch(m)
  PROVE  FenceInv'
<1> USE DEF Dispatch, fenceVars, diskVars
<1>1. Head(todo[m]) \in File
  BY DEF FenceInv, FilesTypeOK
<1>2. FilesTypeOK'
  BY <1>1 DEF FenceInv, FilesTypeOK
<1> QED BY <1>2, Aside, WaitersFence DEF FenceInv, FilesTypeOK

LEMMA ReturnFence ==
  ASSUME FenceInv, NEW m \in Mutation, Completes(m) \/ Ends(m)
  PROVE  FenceInv'
<1>1. step[m] # "fencing" /\ Returns(m) /\ (StepTo(m, "done") \/ StepTo(m, "ended"))
  BY DEF Completes, Ends
<1> USE <1>1 DEF Returns, Settled, StepTo, fenceVars, diskVars
<1>2. Len(content) \in Nat
  BY DEF FenceInv, FilesTypeOK
<1>3. bound' \in [Mutation -> [File -> 0 .. Len(content)]]
  BY <1>2 DEF FenceInv, FilesTypeOK, Nowhere
<1>4. base' \in [Mutation -> [File -> SUBSET Mutation]]
  BY DEF FenceInv, FilesTypeOK, Unread
<1>5. todo' \in [Mutation -> Seq(File)]
  BY DEF FenceInv, FilesTypeOK
<1>6. FilesTypeOK'
  BY <1>3, <1>4, <1>5 DEF FenceInv, FilesTypeOK
<1> QED BY <1>6, Aside, WaitersFence DEF FenceInv, FilesTypeOK

LEMMA AbandonFence ==
  ASSUME FenceInv, NEW m \in Mutation, Abandon(m)
  PROVE  FenceInv'
BY DEF Abandon, StepTo, diskVars, FenceInv, FilesTypeOK, Registered, FenceExclusive

LEMMA WriteFence ==
  ASSUME FenceInv, NEW m \in Mutation, WriteFile(m) \/ WriteRefused(m) \/ WriteFails(m)
  PROVE  FenceInv'
<1> DEFINE f == blocking[m]
<1>1. f \in File /\ step[m] \in {"committing", "dropping"} /\ todo[m] # <<>>
  BY DEF WriteFile, WriteRefused, WriteFails, Writes, Closes, FenceInv, FilesTypeOK, Registered
<1>2. /\ blocking' = [blocking EXCEPT ![m] = 0] /\ todo' = [todo EXCEPT ![m] = Tail(@)]
      /\ UNCHANGED <<fenceVars, bound, base>>
      /\ step' = step \/ step' = [step EXCEPT ![m] = "dropping"]
  BY DEF WriteFile, WriteRefused, WriteFails, Writes, Closes, StepTo
<1> DEFINE written == Shows(m, f)
           b == bound[m][f]
<1>3. written \in SUBSET Mutation
  BY <1>1 DEF Shows, FenceInv, FilesTypeOK
<1>4. /\ content \in Seq(SUBSET Mutation) /\ inode \in [File -> 0 .. Len(content)]
      /\ b \in 0 .. Len(content)
  BY <1>1 DEF FenceInv, FilesTypeOK
<1>5. \/ UNCHANGED diskVars
      \/ inode' = [inode EXCEPT ![f] = 0] /\ UNCHANGED content
      \/ \E shows \in {{}, written} :
           \/ content' = Append(content, shows) /\ inode' = [inode EXCEPT ![f] = Len(content')]
           \/ b # 0 /\ content' = [content EXCEPT ![b] = shows] /\ UNCHANGED inode
  BY DEF WriteFile, WriteRefused, WriteFails, Writes, diskVars
<1> HIDE DEF f, written, b
<1>6. /\ content' \in Seq(SUBSET Mutation) /\ Len(content) <= Len(content')
      /\ inode' \in [File -> 0 .. Len(content')]
  <2>1. CASE UNCHANGED diskVars
    BY <2>1, <1>4 DEF diskVars
  <2>2. CASE inode' = [inode EXCEPT ![f] = 0] /\ UNCHANGED content
    BY <2>2, <1>1, <1>4
  <2>3. ASSUME NEW shows \in {{}, written}, content' = Append(content, shows),
               inode' = [inode EXCEPT ![f] = Len(content')]
        PROVE  /\ content' \in Seq(SUBSET Mutation) /\ Len(content) <= Len(content')
               /\ inode' \in [File -> 0 .. Len(content')]
    BY <2>3, <1>1, <1>3, <1>4
  <2>4. ASSUME NEW shows \in {{}, written}, b # 0, content' = [content EXCEPT ![b] = shows],
               UNCHANGED inode
        PROVE  /\ content' \in Seq(SUBSET Mutation) /\ Len(content) <= Len(content')
               /\ inode' \in [File -> 0 .. Len(content')]
    BY <2>4, <1>3, <1>4
  <2> QED BY <1>5, <2>1, <2>2, <2>3, <2>4
<1>7. bound' \in [Mutation -> [File -> 0 .. Len(content')]]
  BY <1>2, <1>4, <1>6 DEF FenceInv, FilesTypeOK
<1>8. todo' \in [Mutation -> Seq(File)]
  <2>1. todo[m] \in Seq(File)
    BY DEF FenceInv, FilesTypeOK
  <2>2. Tail(todo[m]) \in Seq(File)
    BY <2>1, <1>1
  <2> QED BY <1>2, <2>2 DEF FenceInv, FilesTypeOK
<1>9. FilesTypeOK'
  BY <1>2, <1>6, <1>7, <1>8 DEF FenceInv, FilesTypeOK, fenceVars
<1> QED BY <1>1, <1>2, <1>9, Aside, WaitersFence DEF FenceInv, FilesTypeOK

LEMMA StepFence ==
  ASSUME FenceInv, [FilesNext]_filesVars
  PROVE  FenceInv'
<1>1. CASE UNCHANGED filesVars
  BY <1>1 DEF filesVars, fenceVars, toolVarsOf, diskVars, FenceInv, FilesTypeOK, Registered,
     FenceExclusive
<1>2. ASSUME NEW m \in Mutation, Bind(m) \/ ToolRuns(m)
      PROVE  FenceInv'
  BY <1>2, BindFence, EnqueueFence, AcquireFence, CleanupFence, UnlockFence, PreflightFence,
     LaunchFence, ReturnFence, WriteFence DEF ToolRuns
<1>3. ASSUME NEW m \in Doubtful, PreflightFails(m) \/ WriteFails(m) \/ Abandon(m)
      PROVE  FenceInv'
  BY <1>3, PreflightFence, AbandonFence, WriteFence, FilesConstants DEF FilesConfig
<1> QED BY <1>1, <1>2, <1>3 DEF FilesNext

\* No two tool calls ever hold the fence of one file.
THEOREM FenceIsExclusive == FilesSpec => [](FilesTypeOK /\ FenceExclusive)
<1>1. FenceInv => FilesTypeOK /\ FenceExclusive
  BY DEF FenceInv
<1> QED BY InitFence, StepFence, <1>1, PTL DEF FilesSpec

-----------------------------------------------------------------------------
(* What a tool has read is what it replaces. *)

Distinct(s) == \A i, j \in DOMAIN s : s[i] = s[j] => i = j

\* A call has locked what it may still write to, and what it has read.
Held ==
  /\ \A m \in Mutation : step[m] = "fencing" =>
       \A f \in FilesOf(m) : f \in locked[m] \/ f \in Range(todo[m])
  /\ \A m \in Mutation : step[m] = "committing" => Distinct(todo[m])
  /\ \A m \in Mutation : blocking[m] # 0 => blocking[m] = Head(todo[m])
  /\ \A m \in Mutation : Pending(m) \subseteq locked[m]

\* An inode is of one path for ever: files are not renamed.
OnePath ==
  /\ \A f, g \in File : inode[f] = inode[g] /\ inode[f] # 0 => f = g
  /\ \A m \in Mutation, f, g \in File : bound[m][f] = inode[g] /\ inode[g] # 0 => f = g
  /\ \A m, n \in Mutation, f, g \in File : bound[m][f] = bound[n][g] /\ bound[n][g] # 0 => f = g

BaseInv == Held /\ OnePath /\ BaseIsCurrent

\* What is left of a list once its first has been taken.
LEMMA TailFacts ==
  ASSUME NEW s \in Seq(File), s # <<>>
  PROVE  /\ Tail(s) \in Seq(File) /\ Head(s) \in Range(s)
         /\ \A f \in Range(s) : f = Head(s) \/ f \in Range(Tail(s))
         /\ Range(Tail(s)) \subseteq Range(s)
         /\ Distinct(s) => Distinct(Tail(s)) /\ Head(s) \notin Range(Tail(s))
<1>1. /\ Len(s) \in Nat \ {0} /\ DOMAIN s = 1 .. Len(s) /\ Head(s) = s[1]
      /\ Tail(s) \in Seq(File) /\ Len(Tail(s)) = Len(s) - 1
      /\ \A i \in 1 .. Len(s) - 1 : Tail(s)[i] = s[i + 1]
  OBVIOUS
<1>2. DOMAIN Tail(s) = 1 .. Len(s) - 1
  BY <1>1
<1>3. Range(s) = {s[i] : i \in 1 .. Len(s)} /\ Range(Tail(s)) = {s[i + 1] : i \in 1 .. Len(s) - 1}
  BY <1>1, <1>2 DEF Range
<1>4. Head(s) \in Range(s) /\ Range(Tail(s)) \subseteq Range(s)
  BY <1>1, <1>3
<1>5. ASSUME NEW f \in Range(s), f # Head(s) PROVE f \in Range(Tail(s))
  <2>1. PICK i \in 1 .. Len(s) : f = s[i]
    BY <1>3
  <2>2. i - 1 \in 1 .. Len(s) - 1 /\ s[(i - 1) + 1] = f
    BY <1>1, <1>5, <2>1
  <2> QED BY <1>3, <2>2
<1>6. Distinct(s) => Distinct(Tail(s)) /\ Head(s) \notin Range(Tail(s))
  BY <1>1, <1>2, <1>3 DEF Distinct
<1> QED BY <1>1, <1>4, <1>5, <1>6

\* In the beginning nobody has read anything.
LEMMA InitBase == FilesInit => BaseInv
BY DEF FilesInit, BaseInv, Held, OnePath, BaseIsCurrent, Pending, Nowhere, File

\* A step of m that writes nothing and leaves the other calls alone.
LEMMA QuietBase ==
  ASSUME BaseInv, NEW m \in Mutation,
         \A n \in Mutation \ {m} :
           step'[n] = step[n] /\ todo'[n] = todo[n] /\ blocking'[n] = blocking[n]
           /\ locked'[n] = locked[n],
         step'[m] = "fencing" =>
           \A f \in FilesOf(m) : f \in locked'[m] \/ f \in Range(todo'[m]),
         step'[m] = "committing" => Distinct(todo'[m]),
         blocking'[m] # 0 => blocking'[m] = Head(todo'[m]),
         Pending(m)' \subseteq locked'[m], Pending(m)' \subseteq Pending(m),
         UNCHANGED <<bound, base, inode, content>>
  PROVE  BaseInv'
<1>1. \A n \in Mutation \ {m} : Pending(n)' = Pending(n)
  BY DEF Pending
<1>2. \A n \in Mutation : Pending(n)' \subseteq Pending(n)
  BY <1>1
<1>3. Held'
  BY <1>1 DEF BaseInv, Held
<1>4. OnePath' /\ BaseIsCurrent'
  BY <1>2 DEF BaseInv, OnePath, BaseIsCurrent
<1> QED BY <1>3, <1>4 DEF BaseInv

\* Taking the fences.
LEMMA FencingBase ==
  ASSUME FenceInv, BaseInv, NEW m \in Mutation,
         Enqueue(m) \/ Acquire(m) \/ PreflightFails(m) \/ Abandon(m)
  PROVE  BaseInv'
<1>1. UNCHANGED <<bound, base, inode, content>>
  BY DEF Enqueue, Acquire, PreflightFails, Abandon, toolVarsOf, diskVars
<1>2. todo[m] \in Seq(File)
  BY DEF FenceInv, FilesTypeOK
<1>3. CASE Enqueue(m)
  <2>1. UNCHANGED <<step, todo, blocking, locked>> /\ Pending(m)' = Pending(m)
    BY <1>3 DEF Enqueue, toolVarsOf, Pending
  <2> QED BY <1>1, <2>1, QuietBase DEF BaseInv, Held
<1>4. CASE Acquire(m)
  <2>1. /\ UNCHANGED <<step, blocking>> /\ step[m] = "fencing" /\ todo[m] # <<>>
        /\ todo' = [todo EXCEPT ![m] = Tail(@)]
        /\ locked' = [locked EXCEPT ![m] = @ \cup {Head(todo[m])}]
    BY <1>4 DEF Acquire, FenceInv, Registered
  <2>2. blocking[m] = 0
    BY <2>1 DEF FenceInv, Registered
  <2>3. todo'[m] = Tail(todo[m]) /\ locked'[m] = locked[m] \cup {Head(todo[m])}
    BY <2>1 DEF FenceInv, FilesTypeOK
  <2>4. \A f \in FilesOf(m) : f \in locked'[m] \/ f \in Range(todo'[m])
    BY <1>2, <2>1, <2>3, TailFacts DEF BaseInv, Held
  <2>5. Pending(m)' = {}
    BY <2>1, <2>2 DEF Pending, File
  <2>6. \A n \in Mutation \ {m} : todo'[n] = todo[n] /\ locked'[n] = locked[n]
    BY <2>1 DEF FenceInv, FilesTypeOK
  <2> QED BY <1>1, <2>1, <2>2, <2>4, <2>5, <2>6, QuietBase
<1>5. CASE PreflightFails(m) \/ Abandon(m)
  <2>1. /\ step' = [step EXCEPT ![m] = "dropping"] /\ UNCHANGED <<todo, blocking, locked>>
    BY <1>5 DEF PreflightFails, Abandon, StepTo, fenceVars
  <2>2. step'[m] = "dropping" /\ \A n \in Mutation \ {m} : step'[n] = step[n]
    BY <2>1 DEF FenceInv, FilesTypeOK
  <2>3. Pending(m)' \subseteq Pending(m)
    <3>1. blocking[m] # 0 => todo[m] # <<>> /\ blocking[m] = Head(todo[m])
      BY DEF BaseInv, Held, FenceInv, Registered
    <3> QED BY <1>2, <2>1, <2>2, <3>1, TailFacts DEF Pending, File
  <2> QED BY <1>1, <2>1, <2>2, <2>3, QuietBase DEF BaseInv, Held
<1> QED BY <1>3, <1>4, <1>5

\* The files are handed out for writing, and unlocked after it.
LEMMA HandingBase ==
  ASSUME FenceInv, BaseInv, NEW m \in Mutation,
         Dispatch(m) \/ \E f \in File : Unfence(m, f) \/ Cleanup(m, f)
  PROVE  BaseInv'
<1>1. UNCHANGED <<bound, base, inode, content, step, todo>>
  BY DEF Dispatch, Unfence, Cleanup, toolVarsOf, diskVars
<1>2. todo[m] \in Seq(File)
  BY DEF FenceInv, FilesTypeOK
<1>3. CASE Dispatch(m)
  <2>1. /\ blocking' = [blocking EXCEPT ![m] = Head(todo[m])] /\ UNCHANGED locked
        /\ step[m] = "committing" /\ todo[m] # <<>>
    BY <1>3 DEF Dispatch, fenceVars
  <2>2. Pending(m)' = Pending(m)
    BY <1>1, <2>1 DEF Pending
  <2>3. blocking'[m] = Head(todo[m]) /\ \A n \in Mutation \ {m} : blocking'[n] = blocking[n]
    BY <2>1 DEF FenceInv, FilesTypeOK
  <2> QED BY <1>1, <2>1, <2>2, <2>3, QuietBase DEF BaseInv, Held
<1>4. CASE \E f \in File : Unfence(m, f)
  <2>1. PICK f \in File : Unfence(m, f)
    BY <1>4
  <2>2. /\ f \in Loosing(m) /\ locked' = [locked EXCEPT ![m] = @ \ {f}] /\ UNCHANGED blocking
    BY <2>1 DEF Unfence, toolVarsOf
  <2>3. step[m] # "fencing" /\ f \notin Pending(m) /\ Pending(m)' = Pending(m)
    BY <1>1, <2>2 DEF Loosing, Pending
  <2>4. locked'[m] = locked[m] \ {f} /\ \A n \in Mutation \ {m} : locked'[n] = locked[n]
    BY <2>2 DEF FenceInv, FilesTypeOK
  <2> QED BY <1>1, <2>2, <2>3, <2>4, QuietBase DEF BaseInv, Held
<1>5. CASE \E f \in File : Cleanup(m, f)
  <2>1. UNCHANGED <<locked, blocking>>
    BY <1>5 DEF Cleanup, toolVarsOf
  <2>2. Pending(m)' = Pending(m)
    BY <1>1, <2>1 DEF Pending
  <2> QED BY <1>1, <2>1, <2>2, QuietBase DEF BaseInv, Held
<1> QED BY <1>3, <1>4, <1>5

\* A call binds its targets, or forgets them.
LEMMA BindingBase ==
  ASSUME FenceInv, BaseInv, NEW m \in Mutation, Bind(m) \/ Completes(m) \/ Ends(m)
  PROVE  BaseInv'
<1>1. UNCHANGED <<inode, content, blocking, locked>> /\ blocking[m] = 0
      /\ \A n \in Mutation \ {m} :
           step'[n] = step[n] /\ todo'[n] = todo[n] /\ bound'[n] = bound[n] /\ base'[n] = base[n]
  BY DEF Bind, Completes, Ends, Returns, Settled, StepTo, fenceVars, diskVars, FenceInv,
         FilesTypeOK, Registered
<1>2. step'[m] \in {"fencing", "done", "ended"}
  BY DEF Bind, Completes, Ends, StepTo, FenceInv, FilesTypeOK
<1>3. step'[m] = "fencing" => Range(todo'[m]) = FilesOf(m)
  <2>1. CASE Bind(m)
    <3>1. PICK order \in [DOMAIN Wanted[m] -> FilesOf(m)] :
            Range(order) = FilesOf(m) /\ todo' = [todo EXCEPT ![m] = order]
      BY <2>1 DEF Bind
    <3> QED BY <3>1 DEF FenceInv, FilesTypeOK
  <2>2. CASE Completes(m) \/ Ends(m)
    BY <2>2 DEF Completes, Ends, StepTo, FenceInv, FilesTypeOK
  <2> QED BY <2>1, <2>2
<1>4. \A f \in File : bound'[m][f] \in {0, inode[f]}
  BY DEF Bind, Completes, Ends, Returns, Nowhere, FenceInv, FilesTypeOK
<1>5. Pending(m)' = {} /\ \A n \in Mutation \ {m} : Pending(n)' = Pending(n)
  BY <1>1, <1>2 DEF Pending, File
<1>6. Held'
  BY <1>1, <1>2, <1>3, <1>5 DEF BaseInv, Held
<1>7. OnePath'
  <2>1. \A f \in File : bound'[m][f] = 0 \/ bound'[m][f] = inode[f]
    BY <1>4
  <2>2. ASSUME NEW n \in Mutation, NEW f \in File, NEW g \in File, bound'[n][f] = inode[g],
               inode[g] # 0
        PROVE  f = g
    BY <1>1, <2>1, <2>2 DEF BaseInv, OnePath
  <2>3. ASSUME NEW n \in Mutation, NEW k \in Mutation, NEW f \in File, NEW g \in File,
               bound'[n][f] = bound'[k][g], bound'[k][g] # 0
        PROVE  f = g
    <3>1. CASE k = m
      BY <2>1, <2>2, <2>3, <3>1
    <3>2. CASE n = m
      BY <2>1, <2>2, <2>3, <3>2
    <3>3. CASE k # m /\ n # m
      BY <1>1, <2>3, <3>3 DEF BaseInv, OnePath
    <3> QED BY <3>1, <3>2, <3>3
  <2> QED BY <1>1, <2>2, <2>3 DEF BaseInv, OnePath
<1>8. BaseIsCurrent'
  BY <1>1, <1>5 DEF BaseInv, BaseIsCurrent
<1> QED BY <1>6, <1>7, <1>8 DEF BaseInv

\* A call with all its fences reads.
LEMMA PreflightBase ==
  ASSUME FenceInv, BaseInv, NEW m \in Mutation, Preflight(m)
  PROVE  BaseInv'
<1>1. /\ UNCHANGED <<inode, content, blocking, locked, bound>> /\ blocking[m] = 0
      /\ step[m] = "fencing" /\ todo[m] = <<>>
      /\ base' = [base EXCEPT ![m] =
           [f \in File |-> IF bound[m][f] = 0 THEN {} ELSE content[bound[m][f]]]]
  BY DEF Preflight, fenceVars, diskVars, FenceInv, Registered
<1>2. \A n \in Mutation \ {m} :
        step'[n] = step[n] /\ todo'[n] = todo[n] /\ base'[n] = base[n] /\ Pending(n)' = Pending(n)
  BY <1>1 DEF Preflight, StepTo, FenceInv, FilesTypeOK, Pending
<1>3. \/ step'[m] = "committing" /\ todo'[m] = Wanted[m]
      \/ step'[m] = "dropping"
  BY DEF Preflight, StepTo, FenceInv, FilesTypeOK
<1>4. FilesOf(m) \subseteq locked[m] /\ Range(Wanted[m]) = FilesOf(m) /\ Distinct(Wanted[m])
  <2>1. Range(todo[m]) = {}
    BY <1>1 DEF Range
  <2> QED BY <1>1, <2>1, FilesConstants DEF BaseInv, Held, FilesOf, Range, Distinct, FilesConfig
<1>5. Pending(m)' \subseteq locked[m] /\ Pending(m)' \subseteq File
  <2>1. FilesOf(m) \subseteq File
    BY FilesConstants DEF FilesConfig, FilesOf
  <2> QED BY <1>1, <1>3, <1>4, <2>1 DEF Pending, File
<1>6. Held'
  BY <1>1, <1>2, <1>3, <1>4, <1>5 DEF BaseInv, Held
<1>7. OnePath'
  BY <1>1 DEF BaseInv, OnePath
<1>8. \A f \in File : bound[m][f] # 0 => base'[m][f] = content[bound[m][f]]
  BY <1>1 DEF FenceInv, FilesTypeOK
<1>9. BaseIsCurrent'
  BY <1>1, <1>2, <1>5, <1>8 DEF BaseInv, BaseIsCurrent
<1> QED BY <1>6, <1>7, <1>9 DEF BaseInv

\* A call writes to a file it has locked: whoever else has read the file has
\* written it, or waits.
LEMMA WriteBase ==
  ASSUME FenceInv, BaseInv, NEW m \in Mutation, WriteFile(m) \/ WriteRefused(m) \/ WriteFails(m)
  PROVE  BaseInv'
<1> DEFINE f == blocking[m]
           b == bound[m][f]
<1>1. /\ f \in File /\ f = Head(todo[m]) /\ todo[m] # <<>> /\ todo[m] \in Seq(File)
      /\ step[m] \in {"committing", "dropping"}
  BY DEF WriteFile, WriteRefused, WriteFails, Writes, Closes, FenceInv, FilesTypeOK, Registered, BaseInv,
         Held
<1>2. /\ blocking' = [blocking EXCEPT ![m] = 0] /\ todo' = [todo EXCEPT ![m] = Tail(@)]
      /\ UNCHANGED <<locked, bound, base>>
      /\ step' = step \/ step' = [step EXCEPT ![m] = "dropping"]
  BY DEF WriteFile, WriteRefused, WriteFails, Writes, Closes, StepTo, fenceVars
<1>3. /\ blocking'[m] = 0 /\ todo'[m] = Tail(todo[m]) /\ step'[m] \in {step[m], "dropping"}
      /\ \A n \in Mutation \ {m} :
           step'[n] = step[n] /\ todo'[n] = todo[n] /\ blocking'[n] = blocking[n]
  BY <1>2 DEF FenceInv, FilesTypeOK
<1>4. f \in Pending(m) /\ f \in locked[m]
  BY <1>1, TailFacts DEF Pending, BaseInv, Held
<1>5. Pending(m)' \subseteq Pending(m) \ {f}
  <2>1. CASE step[m] = "committing" /\ step'[m] = "committing"
    <3>1. Range(Tail(todo[m])) \subseteq Range(todo[m]) \ {Head(todo[m])}
      BY <1>1, <2>1, TailFacts DEF BaseInv, Held
    <3> QED BY <1>1, <1>3, <2>1, <3>1 DEF Pending
  <2>2. CASE step'[m] # "committing"
    BY <1>3, <2>2 DEF Pending, File
  <2> QED BY <1>1, <1>3, <2>1, <2>2
<1>6. ASSUME NEW n \in Mutation \ {m}
      PROVE  Pending(n)' = Pending(n) /\ f \notin Pending(n)
  <2>1. Pending(n)' = Pending(n)
    BY <1>3 DEF Pending
  <2>2. Pending(n) \subseteq locked[n] /\ locked[n] \cap locked[m] = {}
    BY DEF BaseInv, Held, FenceInv, FenceExclusive
  <2> QED BY <1>4, <2>1, <2>2
<1>7. Held'
  <2>1. step'[m] = "committing" => Distinct(todo'[m])
    BY <1>1, <1>3, TailFacts DEF BaseInv, Held
  <2>2. Pending(m)' \subseteq locked'[m]
    BY <1>2, <1>5 DEF BaseInv, Held
  <2> QED BY <1>1, <1>2, <1>3, <1>6, <2>1, <2>2 DEF BaseInv, Held
<1>8. /\ content \in Seq(SUBSET Mutation) /\ inode \in [File -> 0 .. Len(content)]
      /\ bound \in [Mutation -> [File -> 0 .. Len(content)]] /\ b \in 0 .. Len(content)
      /\ Len(content) \in Nat
  BY <1>1 DEF FenceInv, FilesTypeOK
<1>9. \/ UNCHANGED diskVars
      \/ inode' = [inode EXCEPT ![f] = 0] /\ UNCHANGED content
      \/ \E written : /\ content' = Append(content, written)
                   /\ inode' = [inode EXCEPT ![f] = Len(content')]
      \/ \E written : b # 0 /\ content' = [content EXCEPT ![b] = written] /\ UNCHANGED inode
  BY DEF WriteFile, WriteRefused, WriteFails, Writes, diskVars
<1> HIDE DEF f, b
<1>10. OnePath'
  <2>1. CASE UNCHANGED inode
    BY <1>2, <2>1 DEF BaseInv, OnePath
  <2>2. CASE inode' = [inode EXCEPT ![f] = 0]
    BY <1>1, <1>2, <1>8, <2>2 DEF BaseInv, OnePath
  <2>3. CASE \E written : content' = Append(content, written)
                         /\ inode' = [inode EXCEPT ![f] = Len(content')]
    <3>1. inode' = [inode EXCEPT ![f] = Len(content) + 1]
      BY <1>8, <2>3
    <3>2. \A n \in Mutation, g \in File : bound[n][g] # Len(content) + 1
      BY <1>8
    <3>3. \A g \in File : inode[g] # Len(content) + 1
      BY <1>8
    <3>4. /\ inode'[f] = Len(content) + 1 /\ \A g \in File \ {f} : inode'[g] = inode[g]
          /\ bound' = bound
      BY <1>1, <1>2, <1>8, <3>1
    <3>5. \A g, h \in File : inode[g] = inode[h] /\ inode[g] # 0 => g = h
      BY DEF BaseInv, OnePath
    <3>6. \A n \in Mutation, g, h \in File : bound[n][g] = inode[h] /\ inode[h] # 0 => g = h
      BY DEF BaseInv, OnePath
    <3>7. \A g, h \in File : inode'[g] = inode'[h] /\ inode'[g] # 0 => g = h
      BY <1>1, <3>3, <3>4, <3>5
    <3>8. \A n \in Mutation, g, h \in File : bound'[n][g] = inode'[h] /\ inode'[h] # 0 => g = h
      BY <1>1, <3>2, <3>4, <3>6
    <3>9. \A n, o \in Mutation, g, h \in File :
            bound'[n][g] = bound'[o][h] /\ bound'[o][h] # 0 => g = h
      BY <3>4 DEF BaseInv, OnePath
    <3> QED BY <3>7, <3>8, <3>9 DEF OnePath
  <2> QED BY <1>9, <2>1, <2>2, <2>3 DEF diskVars
<1>11. ASSUME NEW n \in Mutation, NEW g \in Pending(n)', bound'[n][g] # 0
       PROVE  content'[bound'[n][g]] = base'[n][g]
  <2>1. g \in Pending(n) /\ g # f /\ g \in File
    <3>1. Pending(n) \subseteq File
      BY DEF Pending, Range, FenceInv, FilesTypeOK
    <3> QED BY <1>5, <1>6, <3>1 DEF f
  <2>2. bound[n][g] # 0 /\ content[bound[n][g]] = base[n][g] /\ bound'[n][g] = bound[n][g]
    BY <1>2, <1>11, <2>1 DEF BaseInv, BaseIsCurrent
  <2>3. bound[n][g] \in 1 .. Len(content)
    BY <1>8, <2>1, <2>2
  <2>4. b # 0 => bound[n][g] # b
    BY <1>1, <2>1, <2>2 DEF b, BaseInv, OnePath
  <2>5. content'[bound[n][g]] = content[bound[n][g]]
    BY <1>8, <1>9, <2>3, <2>4 DEF diskVars
  <2> QED BY <1>2, <2>2, <2>5
<1> QED BY <1>7, <1>10, <1>11 DEF BaseInv, BaseIsCurrent

LEMMA StepBase ==
  ASSUME FenceInv, BaseInv, [FilesNext]_filesVars
  PROVE  BaseInv'
<1>1. CASE UNCHANGED filesVars
  BY <1>1 DEF filesVars, fenceVars, toolVarsOf, diskVars, BaseInv, Held, OnePath, BaseIsCurrent,
              Pending
<1>2. ASSUME NEW m \in Mutation, Bind(m) \/ ToolRuns(m)
      PROVE  BaseInv'
  BY <1>2, BindingBase, FencingBase, HandingBase, PreflightBase, WriteBase DEF ToolRuns
<1>3. ASSUME NEW m \in Doubtful, PreflightFails(m) \/ WriteFails(m) \/ Abandon(m)
      PROVE  BaseInv'
  BY <1>3, FencingBase, WriteBase, FilesConstants DEF FilesConfig
<1> QED BY <1>1, <1>2, <1>3 DEF FilesNext

\* What a tool has read under its fences is what it is about to replace.
THEOREM BaseStaysCurrent == FilesSpec => []BaseIsCurrent
<1>1. FenceInv /\ BaseInv => BaseIsCurrent
  BY DEF BaseInv
<1> QED BY InitFence, StepFence, InitBase, StepBase, <1>1, PTL DEF FilesSpec

-----------------------------------------------------------------------------
(* The task of an MCP server. *)

\* The sessions that calls to a server hold.
On(s) == {calls[c].on : c \in {d \in ToolCall : ServerOf[d] = s}}

\* The latest session is open and not yet in the slot, or it is.
Opening(s) ==
  place[s] \in {"shake", "discover", "store"} \/ (place[s] = "publish" /\ life[s] # "Ready")
Serves(s) ==
  place[s] \in {"serve", "refresh", "ping"} \/ (place[s] = "publish" /\ life[s] = "Ready")

LifeFits(s) ==
  /\ place[s] = "down" => life[s] = "Disconnected"
  /\ place[s] \in {"head", "open"} => life[s] = "Connecting"
  /\ place[s] \in {"shake", "discover", "store"} => life[s] = "Initializing"
  /\ place[s] = "publish" => life[s] \in {"Initializing", "Ready"}
  /\ place[s] \in {"serve", "refresh", "ping"} => life[s] = "Ready"
  /\ place[s] = "backoff" => life[s] = "Reconnecting"
  /\ place[s] = "teardown" /\ life[s] = "Ready" => host # "running"
  /\ place[s] = "ended" => life[s] = "Terminated"

\* Where its sessions are: what runs is in the slot, with a call or with the
\* task, and with the task only from its handshake to the slot.
SessionsFit(s) ==
  /\ Opening(s) \/ Serves(s) => session[s] = opened[s] /\ session[s] # 0
  /\ place[s] \in {"publish", "store", "serve", "refresh", "ping"} => tools[s] = session[s]
  /\ host = "running" /\ Serves(s) => slot[s] = session[s]
  /\ session[s] \in alive[s] => session[s] = slot[s] \/ Opening(s)
  /\ alive[s] \subseteq {slot[s], session[s]} \cup On(s)
  /\ s \in http => alive[s] = {}
  /\ place[s] = "ended" => slot[s] = 0
  /\ host = "idle" => place[s] = "down"

ServerInv(s) == LifeFits(s) /\ SessionsFit(s)

\* The shape of the state.
LifeStates ==
  {"Disconnected", "Connecting", "Initializing", "Ready", "Reconnecting", "Failed", "Terminated"}

McpShape ==
  /\ host \in {"idle", "running", "stopping", "stopped"}
  /\ life \in [Server -> LifeStates]
  /\ place \in [Server -> {"down", "head", "open", "shake", "discover", "publish", "store",
                           "serve", "refresh", "ping", "backoff", "teardown", "ended"}]
  /\ opened \in [Server -> Nat] /\ session \in [Server -> Nat] /\ slot \in [Server -> Nat]
  /\ tools \in [Server -> Nat]
  /\ alive \in [Server -> SUBSET (Nat \ {0})] /\ hearing \in [Server -> SUBSET (Nat \ {0})]
  /\ calls \in [ToolCall -> [at : {"idle", "first", "renew", "second", "done"}, on : Nat]]
  /\ \A c \in ToolCall : calls[c].at \in {"idle", "renew", "done"} => calls[c].on = 0

McpInv == McpShape /\ \A s \in Server : ServerInv(s)

\* What the events do to the state of a server.
LEMMA EventFacts ==
  /\ ApplyEvent("Disconnected", "Connect") = "Connecting"
  /\ ApplyEvent("Reconnecting", "Connect") = "Connecting"
  /\ ApplyEvent("Connecting", "HandshakeStarted") = "Initializing"
  /\ ApplyEvent("Connecting", "ConnectFailed") = "Failed"
  /\ ApplyEvent("Initializing", "ConnectFailed") = "Failed"
  /\ ApplyEvent("Initializing", "Ready") = "Ready"
  /\ ApplyEvent("Ready", "ConnectFailed") = "Reconnecting"
  /\ \A from : ApplyEvent(from, "Shutdown") = "Terminated"
<1>1. ApplyEvent("Disconnected", "Connect") = "Connecting"
  <2>1. <<"Disconnected", "Connect", "Connecting">> \in Transitions
    BY DEF Transitions
  <2>2. \A t \in Transitions : t[1] = "Disconnected" /\ t[2] = "Connect" => t[3] = "Connecting"
    BY DEF Transitions
  <2> QED BY <2>1, <2>2 DEF ApplyEvent
<1>2. ApplyEvent("Reconnecting", "Connect") = "Connecting"
  <2>1. <<"Reconnecting", "Connect", "Connecting">> \in Transitions
    BY DEF Transitions
  <2>2. \A t \in Transitions : t[1] = "Reconnecting" /\ t[2] = "Connect" => t[3] = "Connecting"
    BY DEF Transitions
  <2> QED BY <2>1, <2>2 DEF ApplyEvent
<1>3. ApplyEvent("Connecting", "HandshakeStarted") = "Initializing"
  <2>1. <<"Connecting", "HandshakeStarted", "Initializing">> \in Transitions
    BY DEF Transitions
  <2>2. \A t \in Transitions :
          t[1] = "Connecting" /\ t[2] = "HandshakeStarted" => t[3] = "Initializing"
    BY DEF Transitions
  <2> QED BY <2>1, <2>2 DEF ApplyEvent
<1>4. ApplyEvent("Connecting", "ConnectFailed") = "Failed"
  <2>1. <<"Connecting", "ConnectFailed", "Failed">> \in Transitions
    BY DEF Transitions
  <2>2. \A t \in Transitions : t[1] = "Connecting" /\ t[2] = "ConnectFailed" => t[3] = "Failed"
    BY DEF Transitions
  <2> QED BY <2>1, <2>2 DEF ApplyEvent
<1>5. ApplyEvent("Initializing", "ConnectFailed") = "Failed"
  <2>1. <<"Initializing", "ConnectFailed", "Failed">> \in Transitions
    BY DEF Transitions
  <2>2. \A t \in Transitions : t[1] = "Initializing" /\ t[2] = "ConnectFailed" => t[3] = "Failed"
    BY DEF Transitions
  <2> QED BY <2>1, <2>2 DEF ApplyEvent
<1>6. ApplyEvent("Initializing", "Ready") = "Ready"
  <2>1. <<"Initializing", "Ready", "Ready">> \in Transitions
    BY DEF Transitions
  <2>2. \A t \in Transitions : t[1] = "Initializing" /\ t[2] = "Ready" => t[3] = "Ready"
    BY DEF Transitions
  <2> QED BY <2>1, <2>2 DEF ApplyEvent
<1>7. ApplyEvent("Ready", "ConnectFailed") = "Reconnecting"
  <2>1. <<"Ready", "ConnectFailed", "Reconnecting">> \in Transitions
    BY DEF Transitions
  <2>2. \A t \in Transitions : t[1] = "Ready" /\ t[2] = "ConnectFailed" => t[3] = "Reconnecting"
    BY DEF Transitions
  <2> QED BY <2>1, <2>2 DEF ApplyEvent
<1>8. ASSUME NEW from PROVE ApplyEvent(from, "Shutdown") = "Terminated"
  <2>1. \A t \in Transitions : t[2] # "Shutdown"
    BY DEF Transitions
  <2> QED BY <2>1 DEF ApplyEvent
<1> QED BY <1>1, <1>2, <1>3, <1>4, <1>5, <1>6, <1>7, <1>8

\* An event leads to a state.
LEMMA EventType ==
  ASSUME NEW from \in LifeStates, NEW event PROVE ApplyEvent(from, event) \in LifeStates
<1>1. CASE event = "Shutdown"
  <2>1. ApplyEvent(from, event) = "Terminated"
    BY <1>1, EventFacts
  <2> QED BY <2>1 DEF LifeStates
<1>2. CASE event # "Shutdown" /\ \E t \in Transitions : t[1] = from /\ t[2] = event
  <2>1. PICK t \in Transitions :
          t = (CHOOSE u \in Transitions : u[1] = from /\ u[2] = event)
    BY <1>2
  <2>2. t[3] \in LifeStates BY DEF Transitions, LifeStates
  <2> QED BY <1>2, <2>1, <2>2 DEF ApplyEvent
<1>3. CASE event # "Shutdown" /\ ~ \E t \in Transitions : t[1] = from /\ t[2] = event
  BY <1>3 DEF ApplyEvent
<1> QED BY <1>1, <1>2, <1>3

\* A step of the task of server s leaves the others, the host and the calls.
Elsewhere(s) ==
  /\ \A t \in Server \ {s} :
       /\ life'[t] = life[t] /\ place'[t] = place[t] /\ session'[t] = session[t]
       /\ slot'[t] = slot[t] /\ opened'[t] = opened[t] /\ tools'[t] = tools[t]
       /\ alive'[t] = alive[t]
  /\ host' = host /\ http' = http /\ calls' = calls

LEMMA TaskFrame ==
  ASSUME McpShape, NEW s \in Server, TaskStep(s) PROVE Elsewhere(s) /\ McpShape'
<1>1. \A event : ApplyEvent(life[s], event) \in LifeStates
  BY EventType DEF McpShape
<1>2. CASE Attempt(s)
  <2>1. Elsewhere(s)
    BY <1>2 DEF Attempt, Goes, hostVars, sessionVars, peerVars, toolVars, Elsewhere, McpShape
  <2>2. McpShape'
    BY <1>1, <1>2 DEF Attempt, Goes, hostVars, sessionVars, peerVars, toolVars, McpShape, LifeStates
  <2> QED BY <2>1, <2>2
<1>3. CASE Open(s)
  <2>1. Elsewhere(s)
    BY <1>3 DEF Open, Goes, Transition, hostVars, peerVars, toolVars, Elsewhere, McpShape
  <2>3. opened[s] + 1 \in Nat \ {0}
    BY DEF McpShape
  <2>2. McpShape'
    BY <1>1, <1>3, <2>3 DEF Open, Goes, Transition, hostVars, peerVars, toolVars, McpShape,
       LifeStates
  <2> QED BY <2>1, <2>2
<1>4. CASE OpenFails(s)
  <2>1. Elsewhere(s)
    BY <1>4 DEF OpenFails, Fails, hostVars, sessionVars, peerVars, toolVars, Goes, Transition,
       Elsewhere, McpShape
  <2>2. McpShape'
    BY <1>1, <1>4 DEF OpenFails, Fails, hostVars, sessionVars, peerVars, toolVars, Goes,
       Transition, McpShape, LifeStates
  <2> QED BY <2>1, <2>2
<1>5. CASE Shake(s)
  <2>1. Elsewhere(s)
    BY <1>5 DEF Shake, Goes, hostVars, sessionVars, peerVars, toolVars, Elsewhere, McpShape
  <2>2. McpShape'
    BY <1>1, <1>5 DEF Shake, Goes, hostVars, sessionVars, peerVars, toolVars, McpShape, LifeStates
  <2> QED BY <2>1, <2>2
<1>6. CASE ShakeFails(s)
  <2>1. Elsewhere(s)
    BY <1>6 DEF ShakeFails, Fails, Close, hostVars, peerVars, toolVars, Goes, Transition,
       Elsewhere, McpShape
  <2>2. McpShape'
    BY <1>1, <1>6 DEF ShakeFails, Fails, Close, hostVars, peerVars, toolVars, Goes, Transition,
       McpShape, LifeStates
  <2> QED BY <2>1, <2>2
<1>7. CASE Discover(s)
  <2>1. Elsewhere(s)
    BY <1>7 DEF Discover, Goes, hostVars, sessionVars, peerVars, Elsewhere, McpShape
  <2>2. McpShape'
    BY <1>1, <1>7 DEF Discover, Goes, hostVars, sessionVars, peerVars, McpShape, LifeStates
  <2> QED BY <2>1, <2>2
<1>8. CASE PublishTools(s)
  <2>1. Elsewhere(s)
    BY <1>8 DEF PublishTools, Goes, hostVars, sessionVars, peerVars, Elsewhere, McpShape
  <2>2. McpShape'
    BY <1>1, <1>8 DEF PublishTools, Goes, hostVars, sessionVars, peerVars, McpShape, LifeStates
  <2> QED BY <2>1, <2>2
<1>9. CASE Store(s)
  <2>1. Elsewhere(s)
    BY <1>9 DEF Store, Goes, Transition, Dropping, hostVars, peerVars, toolVars, Elsewhere, McpShape
  <2>2. McpShape'
    BY <1>1, <1>9 DEF Store, Goes, Transition, Dropping, hostVars, peerVars, toolVars, McpShape,
       LifeStates
  <2> QED BY <2>1, <2>2
<1>10. CASE ServeEnds(s)
  <2>1. Elsewhere(s)
    BY <1>10 DEF ServeEnds, Goes, hostVars, sessionVars, peerVars, toolVars, Elsewhere, McpShape
  <2>2. McpShape'
    BY <1>1, <1>10 DEF ServeEnds, Goes, hostVars, sessionVars, peerVars, toolVars, McpShape,
       LifeStates
  <2> QED BY <2>1, <2>2
<1>11. CASE SeesDeath(s)
  <2>1. Elsewhere(s)
    BY <1>11 DEF SeesDeath, Fails, Serving, hostVars, sessionVars, peerVars, toolVars, Goes,
       Transition, Elsewhere, McpShape
  <2>2. McpShape'
    BY <1>1, <1>11 DEF SeesDeath, Fails, Serving, hostVars, sessionVars, peerVars, toolVars,
       Goes, Transition, McpShape, LifeStates
  <2> QED BY <2>1, <2>2
<1>12. CASE TakeNotice(s)
  <2>1. Elsewhere(s)
    BY <1>12 DEF TakeNotice, Goes, Serving, hostVars, sessionVars, toolVars, Elsewhere, McpShape
  <2>2. McpShape'
    BY <1>1, <1>12 DEF TakeNotice, Goes, Serving, hostVars, sessionVars, toolVars, McpShape,
       LifeStates
  <2> QED BY <2>1, <2>2
<1>13. CASE RefreshFails(s)
  <2>1. Elsewhere(s)
    BY <1>13 DEF RefreshFails, Goes, hostVars, sessionVars, peerVars, toolVars, Elsewhere, McpShape
  <2>2. McpShape'
    BY <1>1, <1>13 DEF RefreshFails, Goes, hostVars, sessionVars, peerVars, toolVars, McpShape,
       LifeStates
  <2> QED BY <2>1, <2>2
<1>14. CASE Ping(s)
  <2>1. Elsewhere(s)
    BY <1>14 DEF Ping, Goes, Serving, hostVars, sessionVars, peerVars, toolVars, Elsewhere, McpShape
  <2>2. McpShape'
    BY <1>1, <1>14 DEF Ping, Goes, Serving, hostVars, sessionVars, peerVars, toolVars, McpShape,
       LifeStates
  <2> QED BY <2>1, <2>2
<1>15. CASE PingAnswered(s)
  <2>1. Elsewhere(s)
    BY <1>15 DEF PingAnswered, Goes, hostVars, sessionVars, peerVars, toolVars, Elsewhere, McpShape
  <2>2. McpShape'
    BY <1>1, <1>15 DEF PingAnswered, Goes, hostVars, sessionVars, peerVars, toolVars, McpShape,
       LifeStates
  <2> QED BY <2>1, <2>2
<1>16. CASE PingFails(s)
  <2>1. Elsewhere(s)
    BY <1>16 DEF PingFails, Fails, hostVars, sessionVars, peerVars, toolVars, Goes, Transition,
       Elsewhere, McpShape
  <2>2. McpShape'
    BY <1>1, <1>16 DEF PingFails, Fails, hostVars, sessionVars, peerVars, toolVars, Goes,
       Transition, McpShape, LifeStates
  <2> QED BY <2>1, <2>2
<1>17. CASE Backoff(s)
  <2>1. Elsewhere(s)
    BY <1>17 DEF Backoff, Goes, Transition, hostVars, sessionVars, peerVars, toolVars, Elsewhere,
       McpShape
  <2>2. McpShape'
    BY <1>1, <1>17 DEF Backoff, Goes, Transition, hostVars, sessionVars, peerVars, toolVars,
       McpShape, LifeStates
  <2> QED BY <2>1, <2>2
<1>18. CASE Teardown(s)
  <2>1. Elsewhere(s)
    BY <1>18 DEF Teardown, Goes, Transition, Close, hostVars, peerVars, toolVars, Elsewhere,
       McpShape
  <2>2. McpShape'
    BY <1>1, <1>18 DEF Teardown, Goes, Transition, Close, hostVars, peerVars, toolVars, McpShape,
       LifeStates
  <2> QED BY <2>1, <2>2
<1> QED BY <1>2, <1>3, <1>4, <1>5, <1>6, <1>7, <1>8, <1>9, <1>10, <1>11, <1>12, <1>13, <1>14,
   <1>15, <1>16, <1>17, <1>18 DEF TaskStep

\* A step of its task keeps what holds of server s.
LEMMA TaskKeeps ==
  ASSUME McpInv, NEW s \in Server, TaskStep(s) PROVE ServerInv(s)'
<1>1. ServerInv(s) /\ McpShape BY DEF McpInv
<1>2. host' = host /\ http' = http /\ On(s)' = On(s)
  BY <1>1, TaskFrame DEF Elsewhere, On
<1>3. CASE Attempt(s)
  <2>1. place[s] = "head"
    BY <1>3 DEF Attempt
  <2>2. life'[s] = life[s]
    BY <1>3 DEF Attempt, taskVarsOf
  <2>3. /\ place'[s] = IF Cancelled THEN "teardown" ELSE "open"
        /\ UNCHANGED <<session[s], slot[s], opened[s], tools[s], alive[s]>>
    BY <1>1, <1>3, <2>1
    DEF Attempt, Goes, sessionVars, toolVars, On, ServerInv, LifeFits, McpShape
  <2>4. LifeFits(s)'
    BY <1>1, <1>2, <2>1, <2>2, <2>3 DEF LifeFits, SessionsFit, ServerInv, Opening, Serves,
       Cancelled, McpShape
  <2>5. SessionsFit(s)'
    BY <1>1, <1>2, <2>1, <2>2, <2>3 DEF LifeFits, SessionsFit, ServerInv, Opening, Serves,
       Cancelled, McpShape
  <2> QED BY <2>4, <2>5 DEF ServerInv
<1>4. CASE Open(s)
  <2>1. place[s] = "open"
    BY <1>4 DEF Open
  <2>2. life'[s] = "Initializing"
    BY <1>1, <1>4, <2>1, EventFacts
    DEF Open, ServerInv, LifeFits, McpShape, Transition
  <2>3. /\ place'[s] = "shake"
        /\ session'[s] = opened[s] + 1
        /\ opened'[s] = opened[s] + 1
        /\ alive'[s] = IF s \in http THEN alive[s] ELSE alive[s] \cup {opened[s] + 1}
        /\ UNCHANGED <<slot[s], tools[s]>>
    BY <1>1, <1>4, <2>1
    DEF Open, Goes, Transition, toolVars, On, ServerInv, LifeFits, McpShape
  <2>4. LifeFits(s)'
    BY <1>1, <1>2, <2>1, <2>2, <2>3 DEF LifeFits, SessionsFit, ServerInv, Opening, Serves,
       Cancelled, McpShape
  <2>5. SessionsFit(s)'
    BY <1>1, <1>2, <2>1, <2>2, <2>3 DEF LifeFits, SessionsFit, ServerInv, Opening, Serves,
       Cancelled, McpShape
  <2> QED BY <2>4, <2>5 DEF ServerInv
<1>5. CASE OpenFails(s)
  <2>1. place[s] = "open"
    BY <1>5 DEF OpenFails
  <2>2. life'[s] = "Failed"
    BY <1>1, <1>5, <2>1, EventFacts
    DEF OpenFails, ServerInv, LifeFits, McpShape, Transition, Fails
  <2>3. /\ place'[s] = "teardown"
        /\ UNCHANGED <<session[s], slot[s], opened[s], tools[s], alive[s]>>
    BY <1>1, <1>5, <2>1
    DEF OpenFails, Fails, sessionVars, toolVars, Goes, Transition, On, ServerInv, LifeFits, McpShape
  <2>4. LifeFits(s)'
    BY <1>1, <1>2, <2>1, <2>2, <2>3 DEF LifeFits, SessionsFit, ServerInv, Opening, Serves,
       Cancelled, McpShape
  <2>5. SessionsFit(s)'
    BY <1>1, <1>2, <2>1, <2>2, <2>3 DEF LifeFits, SessionsFit, ServerInv, Opening, Serves,
       Cancelled, McpShape
  <2> QED BY <2>4, <2>5 DEF ServerInv
<1>6. CASE Shake(s)
  <2>1. place[s] = "shake"
    BY <1>6 DEF Shake
  <2>2. life'[s] = life[s]
    BY <1>6 DEF Shake, taskVarsOf
  <2>3. /\ place'[s] = "discover"
        /\ UNCHANGED <<session[s], slot[s], opened[s], tools[s], alive[s]>>
    BY <1>1, <1>6, <2>1
    DEF Shake, Goes, sessionVars, toolVars, On, ServerInv, LifeFits, McpShape
  <2>4. LifeFits(s)'
    BY <1>1, <1>2, <2>1, <2>2, <2>3 DEF LifeFits, SessionsFit, ServerInv, Opening, Serves,
       Cancelled, McpShape
  <2>5. SessionsFit(s)'
    BY <1>1, <1>2, <2>1, <2>2, <2>3 DEF LifeFits, SessionsFit, ServerInv, Opening, Serves,
       Cancelled, McpShape
  <2> QED BY <2>4, <2>5 DEF ServerInv
<1>7. CASE ShakeFails(s)
  <2>1. place[s] \in {"shake", "discover"}
    BY <1>7 DEF ShakeFails
  <2>2. life'[s] = "Failed"
    BY <1>1, <1>7, <2>1, EventFacts
    DEF ShakeFails, ServerInv, LifeFits, McpShape, Transition, Fails
  <2>3. /\ place'[s] = "teardown"
        /\ alive'[s] = alive[s] \ {session[s]}
        /\ UNCHANGED <<session[s], slot[s], opened[s], tools[s]>>
    BY <1>1, <1>7, <2>1
    DEF ShakeFails, Fails, Close, toolVars, Goes, Transition, On, ServerInv, LifeFits, McpShape
  <2>4. LifeFits(s)'
    BY <1>1, <1>2, <2>1, <2>2, <2>3 DEF LifeFits, SessionsFit, ServerInv, Opening, Serves,
       Cancelled, McpShape
  <2>5. SessionsFit(s)'
    BY <1>1, <1>2, <2>1, <2>2, <2>3 DEF LifeFits, SessionsFit, ServerInv, Opening, Serves,
       Cancelled, McpShape
  <2> QED BY <2>4, <2>5 DEF ServerInv
<1>8. CASE Discover(s)
  <2>1. place[s] \in {"discover", "refresh"}
    BY <1>8 DEF Discover
  <2>2. life'[s] = life[s]
    BY <1>8 DEF Discover, taskVarsOf
  <2>3. /\ place'[s] = "publish"
        /\ tools'[s] = session[s]
        /\ UNCHANGED <<session[s], slot[s], opened[s], alive[s]>>
    BY <1>1, <1>8, <2>1
    DEF Discover, Goes, sessionVars, On, ServerInv, LifeFits, McpShape
  <2>4. LifeFits(s)'
    BY <1>1, <1>2, <2>1, <2>2, <2>3 DEF LifeFits, SessionsFit, ServerInv, Opening, Serves,
       Cancelled, McpShape
  <2>5. SessionsFit(s)'
    BY <1>1, <1>2, <2>1, <2>2, <2>3 DEF LifeFits, SessionsFit, ServerInv, Opening, Serves,
       Cancelled, McpShape
  <2> QED BY <2>4, <2>5 DEF ServerInv
<1>9. CASE PublishTools(s)
  <2>1. place[s] = "publish"
    BY <1>9 DEF PublishTools
  <2>2. life'[s] = life[s]
    BY <1>9 DEF PublishTools, taskVarsOf
  <2>3. /\ place'[s] = IF life[s] = "Ready" THEN "serve" ELSE "store"
        /\ UNCHANGED <<session[s], slot[s], opened[s], tools[s], alive[s]>>
    BY <1>1, <1>9, <2>1
    DEF PublishTools, Goes, sessionVars, On, ServerInv, LifeFits, McpShape
  <2>4. LifeFits(s)'
    BY <1>1, <1>2, <2>1, <2>2, <2>3 DEF LifeFits, SessionsFit, ServerInv, Opening, Serves,
       Cancelled, McpShape
  <2>5. SessionsFit(s)'
    BY <1>1, <1>2, <2>1, <2>2, <2>3 DEF LifeFits, SessionsFit, ServerInv, Opening, Serves,
       Cancelled, McpShape
  <2> QED BY <2>4, <2>5 DEF ServerInv
<1>10. CASE Store(s)
  <2>1. place[s] = "store"
    BY <1>10 DEF Store
  <2>2. life'[s] = "Ready"
    BY <1>1, <1>10, <2>1, EventFacts
    DEF Store, ServerInv, LifeFits, McpShape, Transition
  <2>3. /\ place'[s] = "serve"
        /\ slot'[s] = session[s]
        /\ alive'[s] = alive[s] \cap ({session[s]} \cup On(s))
        /\ UNCHANGED <<session[s], opened[s], tools[s]>>
    BY <1>1, <1>10, <2>1
    DEF Store, Goes, Transition, Dropping, toolVars, On, ServerInv, LifeFits, McpShape
  <2>4. LifeFits(s)'
    BY <1>1, <1>2, <2>1, <2>2, <2>3 DEF LifeFits, SessionsFit, ServerInv, Opening, Serves,
       Cancelled, McpShape
  <2>5. SessionsFit(s)'
    BY <1>1, <1>2, <2>1, <2>2, <2>3 DEF LifeFits, SessionsFit, ServerInv, Opening, Serves,
       Cancelled, McpShape
  <2> QED BY <2>4, <2>5 DEF ServerInv
<1>11. CASE ServeEnds(s)
  <2>1. place[s] = "serve" /\ (Cancelled \/ slot[s] = 0)
    BY <1>11 DEF ServeEnds
  <2>2. life'[s] = life[s]
    BY <1>11 DEF ServeEnds, taskVarsOf
  <2>3. /\ place'[s] = "teardown"
        /\ UNCHANGED <<session[s], slot[s], opened[s], tools[s], alive[s]>>
    BY <1>1, <1>11, <2>1
    DEF ServeEnds, Goes, sessionVars, toolVars, On, ServerInv, LifeFits, McpShape
  <2>4. LifeFits(s)'
    BY <1>1, <1>2, <2>1, <2>2, <2>3 DEF LifeFits, SessionsFit, ServerInv, Opening, Serves,
       Cancelled, McpShape
  <2>5. SessionsFit(s)'
    BY <1>1, <1>2, <2>1, <2>2, <2>3 DEF LifeFits, SessionsFit, ServerInv, Opening, Serves,
       Cancelled, McpShape
  <2> QED BY <2>4, <2>5 DEF ServerInv
<1>12. CASE SeesDeath(s)
  <2>1. place[s] = "serve"
    BY <1>12 DEF SeesDeath, Serving
  <2>2. life'[s] = "Reconnecting"
    BY <1>1, <1>12, <2>1, EventFacts
    DEF SeesDeath, ServerInv, LifeFits, McpShape, Transition, Fails
  <2>3. /\ place'[s] = "backoff"
        /\ UNCHANGED <<session[s], slot[s], opened[s], tools[s], alive[s]>>
    BY <1>1, <1>12, <2>1
    DEF SeesDeath, Fails, sessionVars, toolVars, Goes, Transition, On, ServerInv, LifeFits, McpShape
  <2>4. LifeFits(s)'
    BY <1>1, <1>2, <2>1, <2>2, <2>3 DEF LifeFits, SessionsFit, ServerInv, Opening, Serves,
       Cancelled, McpShape
  <2>5. SessionsFit(s)'
    BY <1>1, <1>2, <2>1, <2>2, <2>3 DEF LifeFits, SessionsFit, ServerInv, Opening, Serves,
       Cancelled, McpShape
  <2> QED BY <2>4, <2>5 DEF ServerInv
<1>13. CASE TakeNotice(s)
  <2>1. place[s] = "serve"
    BY <1>13 DEF TakeNotice, Serving
  <2>2. life'[s] = life[s]
    BY <1>13 DEF TakeNotice, taskVarsOf
  <2>3. /\ place'[s] = "refresh"
        /\ UNCHANGED <<session[s], slot[s], opened[s], tools[s], alive[s]>>
    BY <1>1, <1>13, <2>1
    DEF TakeNotice, Goes, sessionVars, toolVars, On, ServerInv, LifeFits, McpShape
  <2>4. LifeFits(s)'
    BY <1>1, <1>2, <2>1, <2>2, <2>3 DEF LifeFits, SessionsFit, ServerInv, Opening, Serves,
       Cancelled, McpShape
  <2>5. SessionsFit(s)'
    BY <1>1, <1>2, <2>1, <2>2, <2>3 DEF LifeFits, SessionsFit, ServerInv, Opening, Serves,
       Cancelled, McpShape
  <2> QED BY <2>4, <2>5 DEF ServerInv
<1>14. CASE RefreshFails(s)
  <2>1. place[s] = "refresh"
    BY <1>14 DEF RefreshFails
  <2>2. life'[s] = life[s]
    BY <1>14 DEF RefreshFails, taskVarsOf
  <2>3. /\ place'[s] = "serve"
        /\ UNCHANGED <<session[s], slot[s], opened[s], tools[s], alive[s]>>
    BY <1>1, <1>14, <2>1
    DEF RefreshFails, Goes, sessionVars, toolVars, On, ServerInv, LifeFits, McpShape
  <2>4. LifeFits(s)'
    BY <1>1, <1>2, <2>1, <2>2, <2>3 DEF LifeFits, SessionsFit, ServerInv, Opening, Serves,
       Cancelled, McpShape
  <2>5. SessionsFit(s)'
    BY <1>1, <1>2, <2>1, <2>2, <2>3 DEF LifeFits, SessionsFit, ServerInv, Opening, Serves,
       Cancelled, McpShape
  <2> QED BY <2>4, <2>5 DEF ServerInv
<1>15. CASE Ping(s)
  <2>1. place[s] = "serve"
    BY <1>15 DEF Ping, Serving
  <2>2. life'[s] = life[s]
    BY <1>15 DEF Ping, taskVarsOf
  <2>3. /\ place'[s] = "ping"
        /\ UNCHANGED <<session[s], slot[s], opened[s], tools[s], alive[s]>>
    BY <1>1, <1>15, <2>1
    DEF Ping, Goes, sessionVars, toolVars, On, ServerInv, LifeFits, McpShape
  <2>4. LifeFits(s)'
    BY <1>1, <1>2, <2>1, <2>2, <2>3 DEF LifeFits, SessionsFit, ServerInv, Opening, Serves,
       Cancelled, McpShape
  <2>5. SessionsFit(s)'
    BY <1>1, <1>2, <2>1, <2>2, <2>3 DEF LifeFits, SessionsFit, ServerInv, Opening, Serves,
       Cancelled, McpShape
  <2> QED BY <2>4, <2>5 DEF ServerInv
<1>16. CASE PingAnswered(s)
  <2>1. place[s] = "ping"
    BY <1>16 DEF PingAnswered
  <2>2. life'[s] = life[s]
    BY <1>16 DEF PingAnswered, taskVarsOf
  <2>3. /\ place'[s] = "serve"
        /\ UNCHANGED <<session[s], slot[s], opened[s], tools[s], alive[s]>>
    BY <1>1, <1>16, <2>1
    DEF PingAnswered, Goes, sessionVars, toolVars, On, ServerInv, LifeFits, McpShape
  <2>4. LifeFits(s)'
    BY <1>1, <1>2, <2>1, <2>2, <2>3 DEF LifeFits, SessionsFit, ServerInv, Opening, Serves,
       Cancelled, McpShape
  <2>5. SessionsFit(s)'
    BY <1>1, <1>2, <2>1, <2>2, <2>3 DEF LifeFits, SessionsFit, ServerInv, Opening, Serves,
       Cancelled, McpShape
  <2> QED BY <2>4, <2>5 DEF ServerInv
<1>17. CASE PingFails(s)
  <2>1. place[s] = "ping"
    BY <1>17 DEF PingFails
  <2>2. life'[s] = "Reconnecting"
    BY <1>1, <1>17, <2>1, EventFacts
    DEF PingFails, ServerInv, LifeFits, McpShape, Transition, Fails
  <2>3. /\ place'[s] = "backoff"
        /\ UNCHANGED <<session[s], slot[s], opened[s], tools[s], alive[s]>>
    BY <1>1, <1>17, <2>1
    DEF PingFails, Fails, sessionVars, toolVars, Goes, Transition, On, ServerInv, LifeFits, McpShape
  <2>4. LifeFits(s)'
    BY <1>1, <1>2, <2>1, <2>2, <2>3 DEF LifeFits, SessionsFit, ServerInv, Opening, Serves,
       Cancelled, McpShape
  <2>5. SessionsFit(s)'
    BY <1>1, <1>2, <2>1, <2>2, <2>3 DEF LifeFits, SessionsFit, ServerInv, Opening, Serves,
       Cancelled, McpShape
  <2> QED BY <2>4, <2>5 DEF ServerInv
<1>18. CASE Backoff(s)
  <2>1. place[s] = "backoff"
    BY <1>18 DEF Backoff
  <2>2. life'[s] = IF Cancelled THEN "Reconnecting" ELSE "Connecting"
    BY <1>1, <1>18, <2>1, EventFacts
    DEF Backoff, ServerInv, LifeFits, McpShape, Transition
  <2>3. /\ place'[s] = IF Cancelled THEN "teardown" ELSE "head"
        /\ UNCHANGED <<session[s], slot[s], opened[s], tools[s], alive[s]>>
    BY <1>1, <1>18, <2>1
    DEF Backoff, Goes, Transition, sessionVars, toolVars, On, ServerInv, LifeFits, McpShape
  <2>4. LifeFits(s)'
    BY <1>1, <1>2, <2>1, <2>2, <2>3 DEF LifeFits, SessionsFit, ServerInv, Opening, Serves,
       Cancelled, McpShape
  <2>5. SessionsFit(s)'
    BY <1>1, <1>2, <2>1, <2>2, <2>3 DEF LifeFits, SessionsFit, ServerInv, Opening, Serves,
       Cancelled, McpShape
  <2> QED BY <2>4, <2>5 DEF ServerInv
<1>19. CASE Teardown(s)
  <2>1. place[s] = "teardown"
    BY <1>19 DEF Teardown
  <2>2. life'[s] = "Terminated"
    BY <1>1, <1>19, <2>1, EventFacts
    DEF Teardown, ServerInv, LifeFits, McpShape, Transition
  <2>3. /\ place'[s] = "ended"
        /\ slot'[s] = 0
        /\ alive'[s] = alive[s] \ {slot[s]}
        /\ UNCHANGED <<session[s], opened[s], tools[s]>>
    BY <1>1, <1>19, <2>1
    DEF Teardown, Goes, Transition, Close, toolVars, On, ServerInv, LifeFits, McpShape
  <2>4. LifeFits(s)'
    BY <1>1, <1>2, <2>1, <2>2, <2>3 DEF LifeFits, SessionsFit, ServerInv, Opening, Serves,
       Cancelled, McpShape
  <2>5. SessionsFit(s)'
    BY <1>1, <1>2, <2>1, <2>2, <2>3 DEF LifeFits, SessionsFit, ServerInv, Opening, Serves,
       Cancelled, McpShape
  <2> QED BY <2>4, <2>5 DEF ServerInv
<1> QED BY <1>3, <1>4, <1>5, <1>6, <1>7, <1>8, <1>9, <1>10, <1>11, <1>12, <1>13, <1>14, <1>15,
   <1>16, <1>17, <1>18, <1>19 DEF TaskStep

\* And of a server whose task, sessions, tools and calls a step leaves, as long
\* as the host does not start.
LEMMA OthersKeep ==
  ASSUME NEW t \in Server, ServerInv(t), http' = http, host' = host \/ host' # "running",
         host' = "idle" => host = "idle",
         UNCHANGED <<life[t], place[t], session[t], slot[t], opened[t], tools[t], alive[t], On(t)>>
  PROVE  ServerInv(t)'
<1>1. LifeFits(t)' BY DEF ServerInv, LifeFits
<1>2. SessionsFit(t)' BY DEF ServerInv, SessionsFit, Opening, Serves
<1> QED BY <1>1, <1>2 DEF ServerInv

LEMMA TaskInv ==
  ASSUME McpInv, NEW s \in Server, TaskStep(s) PROVE McpInv'
<1>1. McpShape' /\ Elsewhere(s) BY TaskFrame DEF McpInv
<1>2. ServerInv(s)' BY TaskKeeps
<1>3. ASSUME NEW t \in Server \ {s} PROVE ServerInv(t)'
  <2>1. UNCHANGED On(t) BY <1>1 DEF Elsewhere, On
  <2> QED BY <1>1, <2>1, OthersKeep DEF McpInv, Elsewhere
<1> QED BY <1>1, <1>2, <1>3 DEF McpInv

-----------------------------------------------------------------------------
(* The host. *)

LEMMA StartInv == McpInv /\ Start => McpInv'
<1> SUFFICES ASSUME McpInv, Start PROVE McpInv' OBVIOUS
<1>1. \A s \in Server : place[s] = "down" /\ life[s] = "Disconnected" /\ place'[s] = "head"
                          /\ life'[s] = "Connecting" /\ UNCHANGED On(s)
  BY EventFacts DEF Start, McpInv, ServerInv, LifeFits, SessionsFit, McpShape, On
<1>2. McpShape'
  <2>1. \A s \in Server : ApplyEvent(life[s], "Connect") \in LifeStates
    BY EventType DEF McpInv, McpShape
  <2> QED BY <2>1 DEF Start, McpInv, McpShape, sessionVars, toolVars
<1>3. ASSUME NEW s \in Server PROVE ServerInv(s)'
  <2>1. LifeFits(s)' BY <1>1 DEF LifeFits
  <2>2. host' = "running" /\ http' = http
        /\ UNCHANGED <<session[s], slot[s], opened[s], tools[s], alive[s]>>
    BY DEF Start, sessionVars, toolVars
  <2>3. SessionsFit(s)'
    BY <1>1, <2>2 DEF SessionsFit, Opening, Serves, McpInv, ServerInv
  <2> QED BY <2>1, <2>3 DEF ServerInv
<1> QED BY <1>2, <1>3 DEF McpInv

LEMMA ShutdownInv == McpInv /\ (Shutdown \/ Halt) => McpInv'
<1> SUFFICES ASSUME McpInv, Shutdown \/ Halt PROVE McpInv' OBVIOUS
<1>1. /\ host' \in {"stopping", "stopped"} /\ http' = http
      /\ UNCHANGED <<taskVarsOf, sessionVars, toolVars, calls>>
  BY DEF Shutdown, Halt
<1>2. McpShape'
  BY <1>1 DEF McpInv, McpShape, taskVarsOf, sessionVars, toolVars
<1>3. ASSUME NEW s \in Server PROVE ServerInv(s)'
  <2>1. UNCHANGED <<life[s], place[s], session[s], slot[s], opened[s], tools[s], alive[s], On(s)>>
    BY <1>1 DEF taskVarsOf, sessionVars, toolVars, On
  <2> QED BY <1>1, <2>1, OthersKeep DEF McpInv
<1> QED BY <1>2, <1>3 DEF McpInv

\* shutdown empties the slot of a server under its task.
LEMMA EmptySlotInv ==
  ASSUME McpInv, NEW s \in Server, EmptySlot(s) PROVE McpInv'
<1>1. McpShape'
  BY DEF EmptySlot, Close, McpInv, McpShape, taskVarsOf, toolVars
<1>2. /\ host = "stopping" /\ host' = host /\ http' = http
      /\ \A t \in Server : UNCHANGED <<life[t], place[t], session[t], opened[t], tools[t], On(t)>>
      /\ slot'[s] = 0 /\ alive'[s] = alive[s] \ {slot[s]}
      /\ \A t \in Server \ {s} : UNCHANGED <<slot[t], alive[t]>>
  BY DEF EmptySlot, Close, McpInv, McpShape, taskVarsOf, toolVars, On
<1>3. ServerInv(s)'
  <2>1. LifeFits(s)' BY <1>2 DEF McpInv, ServerInv, LifeFits
  <2>2. SessionsFit(s)'
    BY <1>2 DEF McpInv, ServerInv, SessionsFit, Opening, Serves
  <2> QED BY <2>1, <2>2 DEF ServerInv
<1>4. ASSUME NEW t \in Server \ {s} PROVE ServerInv(t)'
  BY <1>2, OthersKeep DEF McpInv
<1> QED BY <1>1, <1>3, <1>4 DEF McpInv

-----------------------------------------------------------------------------
(* Calls and the other side. *)

\* A step that at most adds to what the calls to a server hold, or ends
\* processes that nothing holds, keeps what holds of it.
LEMMA HoldersKeep ==
  ASSUME McpInv, NEW t \in Server, http' = http, host' = host,
         UNCHANGED <<life[t], place[t], session[t], slot[t], opened[t], tools[t]>>,
         alive'[t] \subseteq alive[t], On(t) \ On(t)' \subseteq {0} \cup (Nat \ alive'[t])
  PROVE  ServerInv(t)'
<1>1. LifeFits(t)' BY DEF McpInv, ServerInv, LifeFits
<1>2. alive'[t] \subseteq {slot[t], session[t]} \cup On(t)'
  BY DEF McpInv, ServerInv, SessionsFit, McpShape
<1>3. SessionsFit(t)'
  BY <1>2 DEF McpInv, ServerInv, SessionsFit, Opening, Serves
<1> QED BY <1>1, <1>3 DEF ServerInv

\* A call that held nothing takes the session of its server, or ends.
LEMMA TakingInv ==
  ASSUME McpInv, NEW c \in ToolCall, NEW at \in {"first", "second"}, calls[c].on = 0,
         TakeSession(c, at) \/ calls' = [calls EXCEPT ![c] = Over],
         UNCHANGED <<hostVars, taskVarsOf, sessionVars, peerVars, toolVars>>
  PROVE  McpInv'
<1>1. PICK r \in [at : {"first", "second", "done"}, on : Nat] :
         calls' = [calls EXCEPT ![c] = r] /\ (r.at = "done" => r.on = 0)
  <2>1. slot[ServerOf[c]] \in Nat
    BY McpAssumption DEF McpInv, McpShape, McpConfig
  <2> QED BY <2>1 DEF TakeSession, Over
<1>2. McpShape'
  BY <1>1 DEF McpInv, McpShape, hostVars, taskVarsOf, sessionVars, toolVars
<1>3. ASSUME NEW t \in Server PROVE ServerInv(t)'
  <2>1. On(t) \ On(t)' \subseteq {0}
    BY <1>1 DEF On, McpInv, McpShape
  <2>2. http' = http /\ host' = host /\ alive'[t] = alive[t]
        /\ UNCHANGED <<life[t], place[t], session[t], slot[t], opened[t], tools[t]>>
    BY DEF hostVars, taskVarsOf, sessionVars, toolVars
  <2> QED BY <2>1, <2>2, HoldersKeep
<1> QED BY <1>2, <1>3 DEF McpInv

\* A call lets go of its session: what no one else refers to is dropped.
LEMMA ReleaseInv ==
  ASSUME McpInv, NEW c \in ToolCall, NEW next, next.on = 0,
         next \in [at : {"renew", "done"}, on : Nat], Release(c, next)
  PROVE  McpInv'
<1> DEFINE s == ServerOf[c]
<1>1. s \in Server BY McpAssumption DEF McpConfig
<1>2. calls' = [calls EXCEPT ![c] = next] /\ UNCHANGED <<hostVars, taskVarsOf, slot, opened,
   toolVars>>
  BY DEF Release
<1>3. /\ \A t \in Server \ {s} : alive'[t] = alive[t]
      /\ alive'[s] = IF s \in http THEN alive[s]
                     ELSE alive[s] \cap ({slot[s], session[s]} \cup On(s)')
      /\ hearing' = hearing /\ alive' \in [Server -> SUBSET (Nat \ {0})]
  <2>1. CASE s \in http
    BY <1>1, <2>1 DEF Release, McpInv, McpShape
  <2>2. CASE s \notin http
    <3>1. alive' = [alive EXCEPT ![s] =
                      @ \cap ({slot[s]} \cup On(s)' \cup {session[s]})] /\ hearing' = hearing
      BY <2>2 DEF Release, Dropping, On
    <3> HIDE DEF s
    <3>2. alive \in [Server -> SUBSET (Nat \ {0})] BY DEF McpInv, McpShape
    <3> QED BY <1>1, <2>2, <3>1, <3>2
  <2> QED BY <2>1, <2>2
<1>4. McpShape'
  BY <1>2, <1>3 DEF McpInv, McpShape, hostVars, taskVarsOf, toolVars
<1>5. \A t \in Server : UNCHANGED <<life[t], place[t], session[t], slot[t], opened[t], tools[t]>>
  BY <1>2 DEF taskVarsOf, toolVars
<1>6. http' = http /\ host' = host BY <1>2 DEF hostVars
<1>7. ServerInv(s)'
  <2>1. LifeFits(s)' BY <1>1, <1>5, <1>6 DEF McpInv, ServerInv, LifeFits
  <2>2. SessionsFit(s)'
    BY <1>1, <1>3, <1>5, <1>6 DEF McpInv, ServerInv, SessionsFit, Opening, Serves
  <2> QED BY <2>1, <2>2 DEF ServerInv
<1>8. ASSUME NEW t \in Server \ {s} PROVE ServerInv(t)'
  <2>1. On(t)' = On(t) BY <1>2 DEF On, McpInv, McpShape
  <2> QED BY <1>3, <1>5, <1>6, <2>1, OthersKeep DEF McpInv
<1> QED BY <1>1, <1>4, <1>7, <1>8 DEF McpInv

LEMMA CallInv ==
  ASSUME McpInv, NEW c \in ToolCall, CallTool(c) \/ ToolStep(c) PROVE McpInv'
<1>1. CASE CallTool(c)
  BY <1>1, TakingInv DEF CallTool, Resting
<1>2. CASE CallEnds(c)
  BY <1>2, ReleaseInv DEF CallEnds, Over
<1>3. CASE Unauthorized(c)
  BY <1>3, ReleaseInv DEF Unauthorized
<1>4. CASE Renewed(c)
  <2>1. calls[c].on = 0 BY <1>4 DEF Renewed, McpInv, McpShape
  <2> QED BY <1>4, <2>1, TakingInv DEF Renewed
<1> QED BY <1>1, <1>2, <1>3, <1>4 DEF ToolStep

\* What happens on the other side ends processes and read loops at most.
LEMMA PeerInv ==
  ASSUME McpInv, NEW s \in Server,
         FallsSilent(s) \/ Notify(s)
           \/ \E n \in 1 .. opened[s] : ProcessExits(s, n) \/ ReaderEnds(s, n)
  PROVE  McpInv'
<1> DEFINE OnlyEnds ==
      /\ UNCHANGED <<hostVars, taskVarsOf, slot, opened, toolVars, calls>>
      /\ \A t \in Server : alive'[t] \subseteq alive[t]
      /\ alive' \in [Server -> SUBSET (Nat \ {0})] /\ hearing' \in [Server -> SUBSET (Nat \ {0})]
<1>1. OnlyEnds
  <2>1. CASE FallsSilent(s) \/ Notify(s)
    BY <2>1 DEF FallsSilent, Notify, sessionVars, McpInv, McpShape
  <2>2. ASSUME NEW n \in 1 .. opened[s], ProcessExits(s, n) PROVE OnlyEnds
    BY <2>2 DEF ProcessExits, McpInv, McpShape
  <2>3. ASSUME NEW n \in 1 .. opened[s], ReaderEnds(s, n) PROVE OnlyEnds
    BY <2>3 DEF ReaderEnds, McpInv, McpShape
  <2> QED BY <2>1, <2>2, <2>3
<1>2. McpShape'
  BY <1>1 DEF McpInv, McpShape, hostVars, taskVarsOf, toolVars
<1>3. ASSUME NEW t \in Server PROVE ServerInv(t)'
  <2>1. On(t)' = On(t) BY <1>1 DEF On
  <2>2. http' = http /\ host' = host
        /\ UNCHANGED <<life[t], place[t], session[t], slot[t], opened[t], tools[t]>>
    BY <1>1 DEF hostVars, taskVarsOf, toolVars
  <2> QED BY <1>1, <2>1, <2>2, HoldersKeep
<1> QED BY <1>2, <1>3 DEF McpInv

LEMMA McpInvStarts == McpInit => McpInv
BY DEF McpInit, McpInv, McpShape, LifeStates, ServerInv, LifeFits, SessionsFit, Opening,
   Serves, Resting

LEMMA McpInvKept == McpInv /\ [McpNext]_mcpVars => McpInv'
<1> SUFFICES ASSUME McpInv, [McpNext]_mcpVars PROVE McpInv' OBVIOUS
<1>1. CASE Start \/ Shutdown \/ HostStep
  BY <1>1, StartInv, ShutdownInv, EmptySlotInv DEF HostStep
<1>2. ASSUME NEW s \in Server, TaskStep(s) PROVE McpInv'
  BY <1>2, TaskInv
<1>3. ASSUME NEW s \in Server,
             FallsSilent(s) \/ Notify(s)
               \/ \E n \in 1 .. opened[s] : ProcessExits(s, n) \/ ReaderEnds(s, n)
      PROVE  McpInv'
  BY <1>3, PeerInv
<1>4. ASSUME NEW c \in ToolCall, CallTool(c) \/ ToolStep(c) PROVE McpInv'
  BY <1>4, CallInv
<1>5. CASE UNCHANGED mcpVars
  <2>1. McpShape'
    BY <1>5 DEF McpInv, McpShape, mcpVars, hostVars, taskVarsOf, sessionVars, toolVars
  <2>2. ASSUME NEW t \in Server PROVE ServerInv(t)'
    <3>1. http' = http /\ host' = host
          /\ UNCHANGED <<life[t], place[t], session[t], slot[t], opened[t], tools[t], alive[t],
             On(t)>>
      BY <1>5 DEF mcpVars, hostVars, taskVarsOf, sessionVars, toolVars, On
    <3> QED BY <3>1, OthersKeep DEF McpInv
  <2> QED BY <2>1, <2>2 DEF McpInv
<1> QED BY <1>1, <1>2, <1>3, <1>4, <1>5 DEF McpNext

LEMMA McpInvariant == McpSpec => []McpInv
BY McpInvStarts, McpInvKept, PTL DEF McpSpec

LEMMA McpStops == McpInv => NothingLeftRunning
<1> SUFFICES ASSUME McpInv, NEW s \in Server, place[s] = "ended",
                    \A c \in ToolCall : ServerOf[c] # s \/ calls[c].on = 0
             PROVE  alive[s] = {}
  BY DEF NothingLeftRunning
<1>1. On(s) \subseteq {0} BY DEF On
<1>2. slot[s] = 0 /\ session[s] \notin alive[s] \ {0}
  BY DEF McpInv, ServerInv, SessionsFit, Opening
<1> QED BY <1>1, <1>2 DEF McpInv, ServerInv, SessionsFit, McpShape

\* When the task of a server has ended and no call holds a session, none of the
\* processes it started runs: the slot is empty, its last session is closed,
\* and calls dropped the rest (mcp/lifecycle.rs:29).
THEOREM ServersStop == McpSpec => []NothingLeftRunning
BY McpStops, McpInvariant, PTL

LEMMA McpServesLatest == McpInv => ReadyServesLatest
<1> SUFFICES ASSUME McpInv, NEW s \in Server, life[s] = "Ready", host = "running"
             PROVE  slot[s] = opened[s] /\ tools[s] = opened[s] /\ session[s] = opened[s]
  BY DEF ReadyServesLatest
<1>1. Serves(s)
  BY DEF McpInv, McpShape, ServerInv, LifeFits, Serves
<1> QED BY <1>1 DEF McpInv, ServerInv, SessionsFit, Serves

\* A server that is Ready serves the session of its latest handshake, with the
\* tools that session has listed (mcp/lifecycle.rs:22).
THEOREM ReadyIsLatest == McpSpec => []ReadyServesLatest
BY McpServesLatest, McpInvariant, PTL

-----------------------------------------------------------------------------
(* The output of background tasks. *)

\* What a spool is: it has dropped no more than it had, keeps no more than the
\* budget, and has cut text where a character starts.
SpoolFits(s) ==
  /\ s \in [total : Nat, dropped : Nat] /\ s.dropped <= s.total
  /\ s.total - s.dropped <= SpoolLimit
  /\ IsText => s.dropped \in CharStarts \cup {0}

\* What a reader of it is: what it has had ends before its cursor.
ReaderFits(r, s) ==
  /\ r = [cursor |-> r.cursor, seen |-> r.seen, gaps |-> r.gaps, twice |-> FALSE]
  /\ r.cursor \in Nat /\ r.cursor <= s.total
  /\ r.seen \cup r.gaps = 0 .. (r.cursor - 1) /\ r.seen \cap r.gaps = {}

OutputInv ==
  /\ spool = [t \in Task |-> spool[t]] /\ reading = [t \in Task |-> reading[t]]
  /\ \A t \in Task : SpoolFits(spool[t]) /\ ReaderFits(reading[t], spool[t])

\* What push_merged leaves is within the budget, and cut where a character starts.
LEMMA DroppedFits ==
  ASSUME NEW total \in Nat, total <= MaxOutput, NEW dropped \in Nat, dropped <= total,
         IsText => dropped \in CharStarts \cup {0}
  PROVE  LET d == Dropped(total, dropped) IN
         /\ d \in Nat /\ d <= total /\ total - d <= SpoolLimit
         /\ IsText => d \in CharStarts \cup {0}
<1> DEFINE d == Dropped(total, dropped)
           CutPoints == {c \in CharStarts \cup {total} : total - SpoolLimit <= c /\ c <= total}
<1>1. SpoolLimit \in Nat /\ MaxOutput \in Nat /\ CharStarts \subseteq Nat
  BY TaskAssumption DEF TaskConfig
<1>2. CASE total - dropped > SpoolLimit
  <2>1. total \in CutPoints /\ CutPoints \subseteq Nat
    <3>1. total - SpoolLimit <= total /\ total <= total BY <1>1
    <3>2. total \in CutPoints BY <3>1
    <3>3. CutPoints \subseteq CharStarts \cup {total} OBVIOUS
    <3> QED BY <1>1, <3>2, <3>3
  <2>2. PICK x \in CutPoints : \A y \in CutPoints : x <= y
    <3> HIDE DEF CutPoints
    <3> QED BY <2>1, LeastElement
  <2>3. d = Min(CutPoints) BY <1>2 DEF Dropped
  <2>4. d \in CutPoints /\ \A y \in CutPoints : d <= y
    <3> HIDE DEF d, CutPoints
    <3> QED BY <2>2, <2>3 DEF Min
  <2> HIDE DEF d
  <2>5. ASSUME IsText PROVE d \in CharStarts
    <3>1. total \in SpoolLimit .. MaxOutput
      BY <1>1, <1>2
    <3>2. PICK c \in CharStarts : total - SpoolLimit <= c /\ c <= total
      BY <2>5, <3>1 DEF IsText
    <3>3. c \in Nat /\ d \in Nat /\ d <= c BY <1>1, <2>1, <2>4, <3>2
    <3> QED BY <2>4, <3>2, <3>3
  <2>6. d \in Nat /\ d <= total /\ total - d <= SpoolLimit
    BY <1>1, <2>1, <2>4
  <2> QED BY <2>5, <2>6 DEF d
<1>3. CASE ~(total - dropped > SpoolLimit)
  <2>1. d = dropped BY <1>3 DEF Dropped
  <2> QED BY <1>1, <1>3, <2>1
<1> QED BY <1>2, <1>3

\* A chunk read at the cursor goes on where what was read before ends.
LEMMA ChunkFits ==
  ASSUME NEW r, NEW s, SpoolFits(s), ReaderFits(r, s), r.cursor < s.total
  PROVE  LET chunk == ReadFrom(r.cursor, s) IN
         ReaderFits([cursor |-> s.total, seen |-> r.seen \cup chunk.text,
                     gaps |-> r.gaps \cup chunk.gap,
                     twice |-> r.twice
                       \/ (r.seen \cup r.gaps) \cap (chunk.text \cup chunk.gap) # {}],
                    s)
<1> DEFINE chunk == ReadFrom(r.cursor, s)
<1>1. r.cursor \in Nat /\ s.total \in Nat /\ s.dropped \in Nat /\ s.dropped <= s.total
      /\ r.twice = FALSE
  BY DEF SpoolFits, ReaderFits
<1>2. chunk.text \cup chunk.gap = r.cursor .. (s.total - 1) /\ chunk.text \cap chunk.gap = {}
  <2>1. CASE r.cursor < s.dropped
    <3>1. chunk.text = s.dropped .. (s.total - 1) /\ chunk.gap = r.cursor .. (s.dropped - 1)
      BY <2>1 DEF ReadFrom
    <3> HIDE DEF chunk
    <3> QED BY <1>1, <2>1, <3>1
  <2>2. CASE ~(r.cursor < s.dropped)
    <3>1. chunk.text = r.cursor .. (s.total - 1) /\ chunk.gap = {}
      BY <2>2 DEF ReadFrom
    <3> QED BY <3>1
  <2> QED BY <2>1, <2>2
<1> HIDE DEF chunk
<1>3. (r.seen \cup r.gaps) \cap (chunk.text \cup chunk.gap) = {}
  BY <1>1, <1>2 DEF ReaderFits
<1>4. (r.seen \cup chunk.text) \cup (r.gaps \cup chunk.gap) = 0 .. (s.total - 1)
  <2>1. (0 .. (r.cursor - 1)) \cup (r.cursor .. (s.total - 1)) = 0 .. (s.total - 1)
    BY <1>1
  <2> QED BY <1>2, <2>1 DEF ReaderFits
<1>5. (r.seen \cup chunk.text) \cap (r.gaps \cup chunk.gap) = {}
  BY <1>2, <1>3 DEF ReaderFits
<1> DEFINE next == [cursor |-> s.total, seen |-> r.seen \cup chunk.text,
                    gaps |-> r.gaps \cup chunk.gap,
                    twice |-> r.twice
                                \/ (r.seen \cup r.gaps) \cap (chunk.text \cup chunk.gap) # {}]
<1>6. next.cursor = s.total /\ next.seen = r.seen \cup chunk.text
      /\ next.gaps = r.gaps \cup chunk.gap /\ next.twice = FALSE
  BY <1>1, <1>3
<1>7. next = [cursor |-> next.cursor, seen |-> next.seen, gaps |-> next.gaps, twice |-> FALSE]
  BY <1>1, <1>3
<1> HIDE DEF next
<1>8. ReaderFits(next, s)
  BY <1>1, <1>4, <1>5, <1>6, <1>7 DEF ReaderFits
<1> QED BY <1>8 DEF next, chunk

LEMMA OutputStarts == TasksInit => OutputInv
<1> SUFFICES ASSUME TasksInit PROVE OutputInv OBVIOUS
<1>1. \A t \in Task : spool[t] = [total |-> 0, dropped |-> 0]
        /\ reading[t] = [cursor |-> 0, seen |-> {}, gaps |-> {}, twice |-> FALSE]
  BY DEF TasksInit
<1>2. SpoolLimit \in Nat /\ 0 .. (0 - 1) = {}
  BY TaskAssumption DEF TaskConfig
<1>3. \A t \in Task : SpoolFits(spool[t])
  BY <1>1, <1>2 DEF SpoolFits
<1>4. ASSUME NEW t \in Task PROVE ReaderFits(reading[t], spool[t])
  <2>1. reading[t].cursor = 0 /\ reading[t].seen = {} /\ reading[t].gaps = {}
        /\ spool[t].total = 0
    BY <1>1
  <2>2. reading[t] = [cursor |-> reading[t].cursor, seen |-> reading[t].seen,
                      gaps |-> reading[t].gaps, twice |-> FALSE]
    BY <1>1, <2>1, Zenon
  <2> QED BY <1>2, <2>1, <2>2 DEF ReaderFits
<1> QED BY <1>3, <1>4 DEF OutputInv, TasksInit

LEMMA OutputKept == OutputInv /\ [TasksNext]_taskVars => OutputInv'
<1> SUFFICES ASSUME OutputInv, [TasksNext]_taskVars PROVE OutputInv' OBVIOUS
<1>1. ASSUME NEW t \in Task, Output(t) PROVE OutputInv'
  <2>1. PICK n \in 1 .. (MaxOutput - spool[t].total) :
          spool' = [spool EXCEPT ![t] =
            [total |-> spool[t].total + n,
             dropped |-> Dropped(spool[t].total + n, spool[t].dropped)]]
    BY <1>1 DEF Output
  <2>2. reading' = reading BY <1>1 DEF Output
  <2>3. SpoolFits(spool'[t]) /\ spool'[t].total = spool[t].total + n
    <3> DEFINE total == spool[t].total + n
               dropped == spool[t].dropped
    <3>1. SpoolFits(spool[t]) BY DEF OutputInv
    <3>2. total \in Nat /\ total <= MaxOutput /\ dropped \in Nat /\ dropped <= total
      BY <3>1, TaskAssumption DEF SpoolFits, TaskConfig
    <3>3. IsText => dropped \in CharStarts \cup {0}
      BY <3>1 DEF SpoolFits
    <3>4. spool'[t] = [total |-> total, dropped |-> Dropped(total, dropped)]
      BY <2>1 DEF OutputInv
    <3> HIDE DEF total, dropped
    <3>5. SpoolFits(spool'[t]) /\ spool'[t].total = total
      BY <3>2, <3>3, <3>4, DroppedFits DEF SpoolFits
    <3> QED BY <3>5 DEF total
  <2>4. ReaderFits(reading[t], spool'[t])
    BY <2>3 DEF OutputInv, SpoolFits, ReaderFits
  <2>5. \A u \in Task \ {t} : spool'[u] = spool[u]
    BY <2>1 DEF OutputInv
  <2>6. spool' = [u \in Task |-> spool'[u]]
    BY <2>1 DEF OutputInv
  <2> QED BY <2>2, <2>3, <2>4, <2>5, <2>6 DEF OutputInv
<1>2. ASSUME NEW t \in Task, ReadOutput(t) PROVE OutputInv'
  <2>1. spool' = spool BY <1>2 DEF ReadOutput
  <2>2. ReaderFits(reading'[t], spool[t])
    BY <1>2, ChunkFits DEF ReadOutput, OutputInv
  <2>3. \A u \in Task \ {t} : reading'[u] = reading[u]
    BY <1>2 DEF ReadOutput, OutputInv
  <2>4. reading' = [u \in Task |-> reading'[u]]
    BY <1>2 DEF ReadOutput, OutputInv
  <2> QED BY <2>1, <2>2, <2>3, <2>4 DEF OutputInv
<1>3. CASE UNCHANGED outputVars
  BY <1>3 DEF outputVars, OutputInv
<1>4. TasksNext =>
        \/ \E t \in Task : Output(t) \/ ReadOutput(t)
        \/ UNCHANGED outputVars
  BY DEF TasksNext, SpawnStep, DriverStep, CloseStep, Admit, Launch, LaunchFails, Enlist, Attach,
         ChildExits, SeesCancel, SeesExit, TimesOut, ReadFails, Decide, EndTree, Finish,
         CancelTask, TerminateOwner, Wait, Look, Listen, Moves, CloseRegistry, CancelRunning,
         TakeDrivers, JoinDriver, Closed
<1>5. UNCHANGED taskVars => UNCHANGED outputVars BY DEF taskVars
<1> QED BY <1>1, <1>2, <1>3, <1>4, <1>5

LEMMA OutputInvariant == TasksSpec => []OutputInv
BY OutputStarts, OutputKept, PTL DEF TasksSpec

LEMMA OutputFits == OutputInv => OutputAccounted
BY DEF OutputInv, OutputAccounted, SpoolFits, ReaderFits

\* A reader that passes each next_cursor on has had every byte up to its cursor
\* exactly once, and what is retained stays within the budget and, of text,
\* starts with a character (process/background.rs:332).
THEOREM OutputIsAccounted == TasksSpec => []OutputAccounted
BY OutputFits, OutputInvariant, PTL

-----------------------------------------------------------------------------
(* Merges of worktrees. *)

\* What the operators on directories do to a file.
LEMMA WithIs ==
  ASSUME NEW tree, NEW x, NEW c, NEW y
  PROVE  Lookup(With(tree, x, c), y) = IF y = x THEN c ELSE Lookup(tree, y)
  BY DEF With, Lookup

LEMMA WithoutIs ==
  ASSUME NEW tree, NEW x, NEW y
  PROVE  Lookup(Without(tree, x), y) = IF y = x THEN "none" ELSE Lookup(tree, y)
  BY DEF Without, Lookup, Restrict

LEMMA OverlayIs ==
  ASSUME NEW upper, NEW lower, NEW y
  PROVE  Lookup(Overlay(upper, lower), y)
           = IF y \in DOMAIN upper THEN Lookup(upper, y) ELSE Lookup(lower, y)
  BY DEF Lookup, Overlay

LEMMA MergedIs ==
  ASSUME NEW tree, NEW w
  PROVE  \A y : Lookup(Merged(tree, w), y)
           = IF y \in Changed(w) THEN Lookup(trees[w], y) ELSE Lookup(tree, y)
<1> DEFINE u == Restrict(trees[w], Changed(w) \cap DOMAIN trees[w])
           l == Restrict(tree, DOMAIN tree \ Changed(w))
<1>1. /\ DOMAIN u = Changed(w) \cap DOMAIN trees[w] /\ \A y \in DOMAIN u : u[y] = trees[w][y]
      /\ DOMAIN l = DOMAIN tree \ Changed(w) /\ \A y \in DOMAIN l : l[y] = tree[y]
  BY DEF Restrict
<1>2. Merged(tree, w) = Overlay(u, l)
  BY DEF Merged
<1> HIDE DEF u, l
<1>3. \A y : Lookup(Overlay(u, l), y) = IF y \in DOMAIN u THEN Lookup(u, y) ELSE Lookup(l, y)
  BY OverlayIs
<1>4. \A y : Lookup(u, y) = IF y \in Changed(w) THEN Lookup(trees[w], y) ELSE "none"
  BY <1>1 DEF Lookup
<1>5. \A y : Lookup(l, y) = IF y \in Changed(w) THEN "none" ELSE Lookup(tree, y)
  BY <1>1 DEF Lookup
<1>6. \A y : y \in DOMAIN u <=> y \in Changed(w) /\ y \in DOMAIN trees[w]
  BY <1>1
<1> QED BY <1>2, <1>3, <1>4, <1>5, <1>6 DEF Lookup


\* A record passes on from where it is, and is not removed by passing on.
LEMMA TransitionIs ==
  ASSUME NEW from, NEW to, ValidTransition(from, to)
  PROVE  from \notin {"none", "Removed"} /\ to # "none"
  BY DEF ValidTransition

\* What a child has changed stays while its files do.
LEMMA ChangedKept ==
  ASSUME NEW w, trees'[w] = trees[w], baselines'[w] = baselines[w]
  PROVE  Changed(w)' = Changed(w)
  BY DEF Changed

\* What a user's edit does.
LEMMA EditIs ==
  ASSUME NEW x \in Path, UserEdits(x)
  PROVE  /\ \A y : Lookup(parent', y) = IF y = x THEN "user" ELSE Lookup(parent, y)
         /\ \/ /\ Transactions = {} /\ UNCHANGED dirty
               /\ \A y : Lookup(expected', y) = IF y = x THEN "user" ELSE Lookup(expected, y)
            \/ Transactions # {} /\ dirty' = dirty \cup {x} /\ UNCHANGED expected
         /\ UNCHANGED <<registryVars, transactionVars, job, outcomeVars, abandoned>>
<1>1. /\ parent' = With(parent, x, "user")
      /\ UNCHANGED <<registryVars, transactionVars, job, outcomeVars, abandoned>>
  BY DEF UserEdits
<1>2. \/ Transactions = {} /\ UNCHANGED dirty /\ expected' = With(expected, x, "user")
      \/ Transactions # {} /\ dirty' = dirty \cup {x} /\ UNCHANGED expected
  BY DEF UserEdits
<1>3. /\ \A y : Lookup(With(parent, x, "user"), y) = IF y = x THEN "user" ELSE Lookup(parent, y)
      /\ \A y : Lookup(With(expected, x, "user"), y) = IF y = x THEN "user" ELSE Lookup(expected, y)
  BY WithIs
<1> QED BY <1>1, <1>2, <1>3

JobSteps == {"free", "scan", "materialize", "baseline", "ready", "remove", "backup", "journal",
             "apply", "merged", "wipe", "restore", "discard", "clean", "clean_base", "removed",
             "forget"}

\* The job of the writer.
JobRecord ==
  [by : Process \cup {"nobody"}, wt : Worktree \cup {"none"}, step : JobSteps,
   then : {"free", "scan", "backup", "removed", "forget"}, todo : SUBSET Path]

\* The form of what is on disk, and of the job.
Directories ==
  /\ DOMAIN trees = Worktree /\ DOMAIN baselines = Worktree /\ DOMAIN backups = Worktree
  /\ DOMAIN records = Worktree /\ DOMAIN phases = Worktree /\ DOMAIN keeper = Worktree
  /\ \A w \in Worktree : phases[w] \in {"none", "Prepared", "Applied"}
  /\ job \in JobRecord /\ (job.step \notin {"free", "scan"} => job.wt \in Worktree)
  /\ abandoned \in BOOLEAN /\ dirty \subseteq Path
  /\ landed \cup undone \cup torn \cup strays \subseteq Worktree

\* A merge until its files are in place; Gone: no directory of the id is left;
\* Unsettled: what has to be rolled back.
Merging == At("backup") \/ At("journal") \/ At("apply") \/ (At("remove") /\ job.then = "backup")
Gone(w) == w \notin materialized \cup based
Unsettled(w) == phases[w] = "Prepared" \/ w \in undone

\* Whatever is on disk has a record that still asks for it.
WorktreesRecorded ==
  /\ NothingStranded
  /\ \A w \in Worktree :
       keeper[w] = "nobody" => records[w] = "none" /\ Gone(w) /\ phases[w] = "none"
  /\ \A w \in Worktree : records[w] = "Removed" => Gone(w) /\ phases[w] = "none"

\* What the step the writer is at can rely on.
Job ==
  /\ At("materialize") => records[job.wt] = "Creating" /\ Gone(job.wt) /\ phases[job.wt] = "none"
  /\ At("baseline") => records[job.wt] = "Creating" /\ job.wt \notin based /\ phases[job.wt] = "none"
  /\ At("ready") => records[job.wt] = "Creating"
  /\ Merging \/ At("merged") => records[job.wt] = "MergePending"
  /\ At("clean_base") => job.wt \notin materialized
  /\ At("remove") /\ job.then \in {"removed", "forget"} => Gone(job.wt)
  /\ At("removed") \/ At("forget") => Gone(job.wt) /\ phases[job.wt] = "none"
  /\ At("wipe") \/ At("restore") => job.then \in {"free", "scan"}
  /\ At("clean") \/ At("clean_base") => job.then \in {"removed", "forget"}
  /\ At("restore") => DOMAIN parent \subseteq dirty
  /\ Merging => job.todo \subseteq Changed(job.wt)
  /\ Merging /\ ~At("apply") => job.todo = Changed(job.wt)

\* What the journals say of their transactions.
Journals ==
  /\ \A w \in undone : phases[w] = "Applied"
  /\ \A w \in torn : phases[w] = "Prepared"
  /\ At("backup") \/ At("journal") => phases[job.wt] = "none"
  /\ At("apply") => phases[job.wt] = "Prepared" /\ job.wt \notin torn
  /\ At("merged") => phases[job.wt] = "Applied" /\ job.wt \notin undone
  /\ At("wipe") \/ At("restore") => Unsettled(job.wt)

\* One transaction at most has to be rolled back, its backup is the parent
\* before the merge, the parent differs from it in what has been applied, and
\* what is recorded as merged has landed.
Whole ==
  ~abandoned =>
    /\ \A v, w \in Worktree : Unsettled(v) /\ Unsettled(w) => v = w
    /\ Merging => \A w \in Worktree \ {job.wt} : ~Unsettled(w)
    /\ (\A w \in Worktree : ~Unsettled(w)) => Agrees(parent)
    /\ \A w \in Worktree \ torn : phases[w] = "Prepared" => w \in backed /\ Agrees(backups[w])
    /\ At("journal") \/ At("wipe") \/ At("restore") => job.wt \in backed /\ Agrees(backups[job.wt])
    /\ At("apply") => \A x \in (Path \ dirty) \ job.todo :
         Lookup(parent, x) = Lookup(IF x \in Changed(job.wt) THEN trees[job.wt] ELSE expected, x)
    /\ At("remove") /\ job.then \in {"free", "scan"} /\ Unsettled(job.wt) => Agrees(parent)
    /\ \A w \in Worktree : records[w] = "Merged" \/ (phases[w] = "Applied" /\ w \notin undone)
                             => w \in landed

\* Every step keeps the form of the directories and of the job.
LEMMA DirectoriesKept ==
  ASSUME Directories, [WorktreeNext]_worktreeVars
  PROVE  Directories'
<1> USE DEF Directories, JobRecord, JobSteps, At, Continue, Unlock, Idle0, WriteRecord,
            parentVars, ghostVars, outcomeVars, directoryVars, registryVars, transactionVars
<1>1. CASE Materialize
  BY <1>1 DEF Materialize
<1>2. CASE MaterializeFails
  BY <1>2 DEF MaterializeFails
<1>3. CASE Baseline
  BY <1>3 DEF Baseline
<1>4. CASE BaselineFails
  BY <1>4 DEF BaselineFails
<1>5. CASE Register
  BY <1>5 DEF Register
<1>6. CASE Backup
  BY <1>6 DEF Backup
<1>7. CASE Prepare
  BY <1>7 DEF Prepare
<1>8. CASE PrepareFails
  BY <1>8 DEF PrepareFails
<1>9. CASE ApplyEntry
  BY <1>9 DEF ApplyEntry
<1>10. CASE MarkApplied
  BY <1>10 DEF MarkApplied
<1>11. CASE ApplyFails
  BY <1>11 DEF ApplyFails
<1>12. CASE CommitMerge
  BY <1>12 DEF CommitMerge
<1>13. CASE Wipe
  BY <1>13 DEF Wipe
<1>14. CASE Restore
  BY <1>14 DEF Restore
<1>15. CASE RollbackStuck
  BY <1>15 DEF RollbackStuck
<1>16. CASE RemoveTransaction
  BY <1>16 DEF RemoveTransaction, DropTransaction, Removing
<1>17. CASE RemoveSome
  BY <1>17 DEF RemoveSome, Removing
<1>18. CASE DiscardWrites
  BY <1>18 DEF DiscardWrites
<1>19. CASE DiscardCleans
  BY <1>19 DEF DiscardCleans
<1>20. CASE Clean
  BY <1>20 DEF Clean
<1>21. CASE CleanBase
  BY <1>21 DEF CleanBase
<1>22. CASE WriteRemoved
  BY <1>22 DEF WriteRemoved
<1>23. CASE Forget
  BY <1>23 DEF Forget
<1>24. CASE RecoverTransaction
  BY <1>24 DEF RecoverTransaction, Transactions
<1>25. CASE Sweep
  <2>1. PICK w \in Doomed(job.by) : job' = [job EXCEPT !.wt = w, !.step = "clean", !.then = "forget"]
    BY <1>25 DEF Sweep
  <2>2. w \in Worktree
    BY DEF Doomed, Interrupted, Stale, Collectable
  <2>3. UNCHANGED <<keeper, records, dirty, outcomeVars, abandoned, trees, baselines, backups, phases>>
    BY <1>25 DEF Sweep
  <2>4. job' \in JobRecord /\ job'.wt \in Worktree
    BY <2>1, <2>2
  <2> HIDE DEF Directories, JobRecord
  <2> QED BY <2>3, <2>4 DEF Directories
<1>26. CASE Swept
  BY <1>26 DEF Swept
<1>27. CASE StepFails
  BY <1>27 DEF StepFails
<1>28. CASE \E p \in Process : Maintain(p)
  <2>1. PICK p \in Process : job' = [Idle0 EXCEPT !.by = p, !.wt = "none", !.step = "scan"]
    BY <1>28 DEF Maintain, Lock
  <2>2. UNCHANGED <<keeper, records, dirty, outcomeVars, abandoned, trees, baselines, backups, phases>>
    BY <1>28 DEF Maintain
  <2>3. job' \in JobRecord /\ job'.step = "scan"
    BY <2>1
  <2> HIDE DEF Directories, JobRecord
  <2> QED BY <2>2, <2>3 DEF Directories
<1>29. CASE \E p \in Process : Crash(p)
  BY <1>29 DEF Crash
<1>30. CASE \E p \in Process : Restart(p)
  BY <1>30 DEF Restart
<1>31. CASE \E p \in Process, w \in Worktree : Create(p, w)
  <2>1. PICK p \in Process, w \in Worktree : Create(p, w)
    BY <1>31
  <2>2. job' = [Idle0 EXCEPT !.by = p, !.wt = w, !.step = "materialize"]
    BY <2>1 DEF Create, Lock
  <2>3. records' = [records EXCEPT ![w] = "Creating"] /\ keeper' = [keeper EXCEPT ![w] = p]
        /\ UNCHANGED <<abandoned, dirty, outcomeVars, trees, baselines, backups, phases>>
    BY <2>1 DEF Create
  <2> QED BY <2>2, <2>3
<1>32. CASE \E p \in Process, w \in Worktree : Merge(p, w)
  <2>1. PICK p \in Process, w \in Worktree : Merge(p, w)
    BY <1>32
  <2>2. /\ job' = [Idle0 EXCEPT !.by = p, !.wt = w, !.step = "remove", !.then = "backup",
                                !.todo = Changed(w)]
        /\ Changed(w) \in SUBSET Path
    BY <2>1 DEF Merge, Changed
  <2>3. abandoned' \in BOOLEAN
        /\ UNCHANGED <<keeper, records, dirty, outcomeVars, trees, baselines, backups, phases>>
    BY <2>1 DEF Merge
  <2> HIDE DEF Directories
  <2>4. job' \in JobRecord /\ job'.wt \in Worktree
    BY <2>2
  <2> QED BY <2>3, <2>4 DEF Directories
<1>33. CASE \E p \in Process, w \in Worktree : Discard(p, w)
  <2>1. PICK p \in Process, w \in Worktree : Discard(p, w)
    BY <1>33
  <2>2. PICK to \in {"forget", "discard"} : job' = [Idle0 EXCEPT !.by = p, !.wt = w, !.step = to]
    BY <2>1 DEF Discard, Lock
  <2>3. UNCHANGED <<keeper, records, dirty, outcomeVars, abandoned, trees, baselines, backups, phases>>
    BY <2>1 DEF Discard
  <2>4. job' \in JobRecord /\ job'.wt \in Worktree
    BY <2>2
  <2> HIDE DEF Directories, JobRecord
  <2> QED BY <2>3, <2>4 DEF Directories
<1>34. CASE \E w \in Worktree : ChildWorks(w)
  BY <1>34 DEF ChildWorks
<1>35. CASE \E w \in Worktree : Promote(w)
  BY <1>35 DEF Promote
<1>36. CASE \E x \in Path : UserEdits(x)
  BY <1>36 DEF UserEdits
<1>37. CASE UNCHANGED worktreeVars
  BY <1>37 DEF worktreeVars
<1>38. CASE MarkAppliedFails
  BY <1>38 DEF MarkAppliedFails
<1> QED
  BY <1>1, <1>2, <1>3, <1>4, <1>5, <1>6, <1>7, <1>8, <1>9, <1>10, <1>11, <1>12, <1>13, <1>14,
     <1>15, <1>16, <1>17, <1>18, <1>19, <1>20, <1>21, <1>22, <1>23, <1>24, <1>25, <1>26, <1>27,
     <1>28, <1>29, <1>30, <1>31, <1>32, <1>33, <1>34, <1>35, <1>36, <1>37, <1>38
     DEF WorktreeNext, JobStep
\* What is on disk keeps its durable record.
LEMMA RecordedKept ==
  ASSUME Directories, WorktreesRecorded, Job, Journals, [WorktreeNext]_worktreeVars
  PROVE  WorktreesRecorded'
<1> USE DEF Directories, WorktreesRecorded, NothingStranded, Gone, Job, Journals, At, Merging,
            Continue, Unlock, Idle0, WriteRecord, parentVars, ghostVars, outcomeVars, directoryVars, registryVars,
            transactionVars
<1>1. CASE Materialize
  BY <1>1 DEF Materialize
<1>2. CASE MaterializeFails
  BY <1>2 DEF MaterializeFails
<1>3. CASE Baseline
  BY <1>3 DEF Baseline
<1>4. CASE BaselineFails
  BY <1>4 DEF BaselineFails
<1>5. CASE Register
  BY <1>5 DEF Register
<1>6. CASE Backup
  BY <1>6 DEF Backup
<1>7. CASE Prepare
  BY <1>7 DEF Prepare
<1>8. CASE PrepareFails
  BY <1>8 DEF PrepareFails
<1>9. CASE ApplyEntry
  BY <1>9 DEF ApplyEntry
<1>10. CASE MarkApplied
  BY <1>10 DEF MarkApplied
<1>11. CASE ApplyFails
  BY <1>11 DEF ApplyFails
<1>12. CASE CommitMerge
  BY <1>12 DEF CommitMerge
<1>13. CASE Wipe
  BY <1>13 DEF Wipe
<1>14. CASE Restore
  BY <1>14 DEF Restore
<1>15. CASE RollbackStuck
  BY <1>15 DEF RollbackStuck
<1>16. CASE RemoveTransaction
  BY <1>16 DEF RemoveTransaction, DropTransaction, Removing
<1>17. CASE RemoveSome
  BY <1>17 DEF RemoveSome, Removing
<1>18. CASE DiscardWrites
  BY <1>18, TransitionIs DEF DiscardWrites
<1>19. CASE DiscardCleans
  BY <1>19 DEF DiscardCleans
<1>20. CASE Clean
  BY <1>20 DEF Clean
<1>21. CASE CleanBase
  BY <1>21 DEF CleanBase
<1>22. CASE WriteRemoved
  BY <1>22, TransitionIs DEF WriteRemoved
<1>23. CASE Forget
  BY <1>23 DEF Forget
<1>24. CASE RecoverTransaction
  BY <1>24 DEF RecoverTransaction
<1>25. CASE Sweep
  BY <1>25 DEF Sweep
<1>26. CASE Swept
  BY <1>26 DEF Swept
<1>27. CASE StepFails
  BY <1>27 DEF StepFails
<1>28. CASE \E p \in Process : Maintain(p)
  BY <1>28 DEF Maintain, Lock
<1>29. CASE \E p \in Process : Crash(p)
  BY <1>29 DEF Crash
<1>30. CASE \E p \in Process : Restart(p)
  BY <1>30 DEF Restart
<1>31. CASE \E p \in Process, w \in Worktree : Create(p, w)
  <2>1. PICK p \in Process, w \in Worktree : Create(p, w)
    BY <1>31
  <2>2. /\ records' = [records EXCEPT ![w] = "Creating"] /\ keeper' = [keeper EXCEPT ![w] = p]
        /\ keeper[w] = "nobody" /\ UNCHANGED <<materialized, based, phases, strays>>
    BY <2>1 DEF Create
  <2> QED BY <2>2, WorktreeAssumption DEF WorktreeConfig
<1>32. CASE \E p \in Process, w \in Worktree : Merge(p, w)
  BY <1>32 DEF Merge
<1>33. CASE \E p \in Process, w \in Worktree : Discard(p, w)
  BY <1>33 DEF Discard, Lock
<1>34. CASE \E w \in Worktree : ChildWorks(w)
  BY <1>34 DEF ChildWorks
<1>35. CASE \E w \in Worktree : Promote(w)
  BY <1>35, TransitionIs DEF Promote
<1>36. CASE \E x \in Path : UserEdits(x)
  BY <1>36 DEF UserEdits
<1>37. CASE UNCHANGED worktreeVars
  BY <1>37 DEF worktreeVars
<1>38. CASE MarkAppliedFails
  BY <1>38 DEF MarkAppliedFails
<1> QED
  BY <1>1, <1>2, <1>3, <1>4, <1>5, <1>6, <1>7, <1>8, <1>9, <1>10, <1>11, <1>12, <1>13, <1>14,
     <1>15, <1>16, <1>17, <1>18, <1>19, <1>20, <1>21, <1>22, <1>23, <1>24, <1>25, <1>26, <1>27,
     <1>28, <1>29, <1>30, <1>31, <1>32, <1>33, <1>34, <1>35, <1>36, <1>37, <1>38
     DEF WorktreeNext, JobStep
\* What the writer is at stands on what it has done.
LEMMA JobKept ==
  ASSUME Directories, WorktreesRecorded, Job, Journals, [WorktreeNext]_worktreeVars
  PROVE  Job'
<1> USE DEF Directories, JobRecord, WorktreesRecorded, Gone, Unsettled, Job, Journals, At, Merging,
            Continue, Unlock, Idle0, WriteRecord, parentVars, ghostVars, outcomeVars,
            directoryVars, registryVars, transactionVars
<1>1. CASE Materialize
  BY <1>1 DEF Materialize
<1>2. CASE MaterializeFails
  BY <1>2 DEF MaterializeFails
<1>3. CASE Baseline
  BY <1>3 DEF Baseline
<1>4. CASE BaselineFails
  BY <1>4 DEF BaselineFails
<1>5. CASE Register
  BY <1>5 DEF Register
<1>6. CASE Backup
  BY <1>6, ChangedKept DEF Backup
<1>7. CASE Prepare
  BY <1>7, ChangedKept DEF Prepare
<1>8. CASE PrepareFails
  BY <1>8 DEF PrepareFails
<1>9. CASE ApplyEntry
  <2>1. /\ At("apply") /\ UNCHANGED <<records, keeper, materialized, based, trees, baselines, phases>>
        /\ job' = job \/ \E x \in job.todo : job' = [job EXCEPT !.todo = @ \ {x}]
    BY <1>9 DEF ApplyEntry, Deletions
  <2>2. Changed(job.wt)' = Changed(job.wt)
    BY <2>1, ChangedKept
  <2> QED BY <2>1, <2>2
<1>10. CASE MarkApplied
  BY <1>10 DEF MarkApplied
<1>11. CASE ApplyFails
  BY <1>11 DEF ApplyFails
<1>12. CASE CommitMerge
  BY <1>12 DEF CommitMerge
<1>13. CASE Wipe
  <2>1. DOMAIN parent' = {}
    BY <1>13 DEF Wipe, Empty
  <2> QED BY <1>13, <2>1, ChangedKept DEF Wipe
<1>14. CASE Restore
  BY <1>14 DEF Restore
<1>15. CASE RollbackStuck
  BY <1>15 DEF RollbackStuck
<1>16. CASE RemoveTransaction
  BY <1>16, ChangedKept DEF RemoveTransaction, DropTransaction, Removing
<1>17. CASE RemoveSome
  BY <1>17, ChangedKept DEF RemoveSome, Removing
<1>18. CASE DiscardWrites
  BY <1>18 DEF DiscardWrites
<1>19. CASE DiscardCleans
  BY <1>19 DEF DiscardCleans
<1>20. CASE Clean
  BY <1>20 DEF Clean
<1>21. CASE CleanBase
  BY <1>21 DEF CleanBase
<1>22. CASE WriteRemoved
  BY <1>22 DEF WriteRemoved
<1>23. CASE Forget
  BY <1>23 DEF Forget
<1>24. CASE RecoverTransaction
  BY <1>24 DEF RecoverTransaction
<1>25. CASE Sweep
  BY <1>25 DEF Sweep
<1>26. CASE Swept
  BY <1>26 DEF Swept
<1>27. CASE StepFails
  BY <1>27 DEF StepFails
<1>28. CASE \E p \in Process : Maintain(p)
  BY <1>28 DEF Maintain, Lock
<1>29. CASE \E p \in Process : Crash(p)
  BY <1>29, ChangedKept DEF Crash
<1>30. CASE \E p \in Process : Restart(p)
  BY <1>30, ChangedKept DEF Restart
<1>31. CASE \E p \in Process, w \in Worktree : Create(p, w)
  BY <1>31 DEF Create, Lock
<1>32. CASE \E p \in Process, w \in Worktree : Merge(p, w)
  <2>1. PICK p \in Process, w \in Worktree : Merge(p, w)
    BY <1>32
  <2>2. Changed(w)' = Changed(w)
    BY <2>1, ChangedKept DEF Merge
  <2>3. job' = [Idle0 EXCEPT !.by = p, !.wt = w, !.step = "remove", !.then = "backup",
                             !.todo = Changed(w)]
        /\ records[w] = "MergePending" /\ UNCHANGED <<records, phases>>
    BY <2>1 DEF Merge
  <2> QED BY <2>2, <2>3
<1>33. CASE \E p \in Process, w \in Worktree : Discard(p, w)
  BY <1>33 DEF Discard, Lock
<1>34. CASE \E w \in Worktree : ChildWorks(w)
  <2>1. PICK w \in Worktree : ChildWorks(w)
    BY <1>34
  <2>2. /\ records[w] = "Ready" /\ \A v \in Worktree \ {w} : trees'[v] = trees[v]
        /\ UNCHANGED <<parentVars, records, keeper, materialized, baselines, based, phases, job>>
    BY <2>1 DEF ChildWorks
  <2>3. Merging => job.wt # w /\ job.wt \in Worktree
    BY <2>2
  <2>4. Merging => Changed(job.wt)' = Changed(job.wt)
    BY <2>2, <2>3, ChangedKept
  <2> QED BY <2>2, <2>4
<1>35. CASE \E w \in Worktree : Promote(w)
  BY <1>35 DEF Promote
<1>36. CASE \E x \in Path : UserEdits(x)
  <2>1. PICK x \in Path : UserEdits(x)
    BY <1>36
  <2>2. /\ DOMAIN parent' = DOMAIN parent \cup {x}
        /\ dirty' = IF Transactions = {} THEN dirty ELSE dirty \cup {x}
        /\ UNCHANGED <<registryVars, phases, job>>
    <3>1. /\ parent' = With(parent, x, "user") /\ UNCHANGED <<registryVars, phases, job>>
          /\ dirty' = IF Transactions = {} THEN dirty ELSE dirty \cup {x}
      BY <2>1 DEF UserEdits
    <3>2. DOMAIN With(parent, x, "user") = DOMAIN parent \cup {x}
      BY DEF With
    <3> QED BY <3>1, <3>2
  <2>3. At("restore") => job.wt \in Transactions
    BY DEF Transactions
  <2>4. Changed(job.wt)' = Changed(job.wt)
    BY <2>2, ChangedKept
  <2> QED BY <2>2, <2>3, <2>4
<1>37. CASE UNCHANGED worktreeVars
  BY <1>37, ChangedKept DEF worktreeVars
<1>38. CASE MarkAppliedFails
  BY <1>38 DEF MarkAppliedFails
<1> QED
  BY <1>1, <1>2, <1>3, <1>4, <1>5, <1>6, <1>7, <1>8, <1>9, <1>10, <1>11, <1>12, <1>13, <1>14,
     <1>15, <1>16, <1>17, <1>18, <1>19, <1>20, <1>21, <1>22, <1>23, <1>24, <1>25, <1>26, <1>27,
     <1>28, <1>29, <1>30, <1>31, <1>32, <1>33, <1>34, <1>35, <1>36, <1>37, <1>38
     DEF WorktreeNext, JobStep

\* A transaction is open from its Prepared journal to its removal, or to the
\* Applied journal that stays.
LEMMA JournalsKept ==
  ASSUME Directories, Job, Journals, [WorktreeNext]_worktreeVars
  PROVE  Journals'
<1> USE DEF Directories, JobRecord, Gone, Unsettled, Job, Journals, At, Merging, Continue, Unlock, Idle0,
            parentVars, ghostVars, outcomeVars, directoryVars, registryVars, transactionVars
<1> DEFINE Lies == UNCHANGED <<phases, undone, torn>>
           StepsAway == job'.step \notin {"backup", "journal", "apply", "merged", "wipe",
                                  "restore"}
<1>1. Lies /\ (StepsAway \/ UNCHANGED job) => Journals'
  OBVIOUS
<1>2. CASE \/ Materialize \/ MaterializeFails \/ Baseline \/ Register \/ CommitMerge
           \/ RollbackStuck \/ DiscardWrites \/ DiscardCleans \/ Clean \/ CleanBase
           \/ WriteRemoved \/ Forget \/ Sweep \/ Swept \/ StepFails
  <2>1. Lies
    BY <1>2 DEF Materialize, MaterializeFails, Baseline, Register, CommitMerge, RollbackStuck,
                DiscardWrites, DiscardCleans, Clean, CleanBase, WriteRemoved, Forget, Sweep, Swept,
                StepFails
  <2>2. MaterializeFails \/ Register \/ RollbackStuck => StepsAway
    BY DEF MaterializeFails, Register, RollbackStuck
  <2>3. Materialize \/ Baseline \/ CommitMerge => StepsAway
    BY DEF Materialize, Baseline, CommitMerge
  <2>4. DiscardWrites \/ DiscardCleans \/ Clean \/ CleanBase => StepsAway
    BY DEF DiscardWrites, DiscardCleans, Clean, CleanBase
  <2>5. WriteRemoved \/ Forget => StepsAway
    BY DEF WriteRemoved, Forget
  <2>6. Swept \/ StepFails => StepsAway
    BY DEF Swept, StepFails
  <2>7. Sweep => StepsAway
    BY DEF Sweep
  <2> QED BY <1>1, <1>2, <2>1, <2>2, <2>3, <2>4, <2>5, <2>6, <2>7
<1>3. CASE BaselineFails
  BY <1>3 DEF BaselineFails
<1>4. CASE Backup
  BY <1>4 DEF Backup
<1>5. CASE Prepare
  BY <1>5 DEF Prepare
<1>6. CASE PrepareFails
  BY <1>6 DEF PrepareFails
<1>7. CASE ApplyEntry
  <2>1. Lies /\ job'.step = job.step /\ job'.wt = job.wt
    BY <1>7 DEF ApplyEntry
  <2> QED BY <2>1
<1>8. CASE MarkApplied
  BY <1>8 DEF MarkApplied
<1>9. CASE MarkAppliedFails
  BY <1>9 DEF MarkAppliedFails
<1>10. CASE ApplyFails
  BY <1>10 DEF ApplyFails
<1>11. CASE Wipe
  BY <1>11 DEF Wipe
<1>12. CASE Restore
  BY <1>12 DEF Restore
<1>13. CASE RemoveTransaction
  BY <1>13 DEF RemoveTransaction, DropTransaction, Removing
<1>14. CASE RemoveSome
  BY <1>14 DEF RemoveSome, Removing
<1>15. CASE RecoverTransaction
  BY <1>15 DEF RecoverTransaction
<1>16. ASSUME NEW p \in Process, Maintain(p) \/ Crash(p) \/ Restart(p) PROVE Journals'
  <2>1. Lies
    BY <1>16 DEF Maintain, Crash, Restart
  <2>2. Maintain(p) => StepsAway
    BY DEF Maintain, Lock
  <2>3. Crash(p) => StepsAway \/ UNCHANGED job
    BY DEF Crash
  <2>4. Restart(p) => UNCHANGED job
    BY DEF Restart
  <2> QED BY <1>1, <1>16, <2>1, <2>2, <2>3, <2>4
<1>17. ASSUME NEW p \in Process, NEW w \in Worktree, Create(p, w) \/ Merge(p, w) \/ Discard(p, w)
       PROVE  Journals'
  <2>1. Lies
    BY <1>17 DEF Create, Merge, Discard
  <2>2. Create(p, w) => StepsAway
    BY DEF Create, Lock
  <2>3. Merge(p, w) => StepsAway
    BY DEF Merge
  <2>4. Discard(p, w) => StepsAway
    BY DEF Discard, Lock
  <2> QED BY <1>1, <1>17, <2>1, <2>2, <2>3, <2>4
<1>18. CASE \/ UNCHANGED worktreeVars
            \/ \E w \in Worktree : ChildWorks(w) \/ Promote(w)
            \/ \E x \in Path : UserEdits(x)
  <2>1. Lies /\ UNCHANGED job
    BY <1>18 DEF ChildWorks, Promote, UserEdits, worktreeVars
  <2> QED BY <1>1, <2>1
<1> QED
  BY <1>2, <1>3, <1>4, <1>5, <1>6, <1>7, <1>8, <1>9, <1>10, <1>11, <1>12, <1>13, <1>14, <1>15,
     <1>16, <1>17, <1>18 DEF WorktreeNext, JobStep

\* Nothing is broken where nobody has moved the files of the merge in hand, or
\* the writer is gone.
LEMMA StillWhole ==
  ASSUME Directories, Job, Journals, Whole, UNCHANGED <<parentVars, records, transactionVars>>,
         job' = Idle0 \/ (UNCHANGED job /\ (At("apply") => Changed(job.wt)' = Changed(job.wt)
                                                          /\ trees'[job.wt] = trees[job.wt]))
  PROVE  Whole'
<1> USE DEF Directories, JobRecord, Job, Journals, Unsettled, Whole, At, Agrees,
            Merging, Idle0, parentVars, ghostVars, outcomeVars, transactionVars
<1>1. CASE job' = Idle0
  BY <1>1
<1>2. CASE job' # Idle0
  BY <1>2
<1> QED BY <1>1, <1>2

\* The parent is what merges of one step would have made of it.
LEMMA WholeKept ==
  ASSUME Directories, WorktreesRecorded, Job, Journals, Whole, [WorktreeNext]_worktreeVars
  PROVE  Whole'
<1> USE DEF Directories, JobRecord, Job, Journals, Unsettled, Whole, At, Agrees,
            Merging, Continue, Unlock, Idle0, WriteRecord, parentVars, ghostVars, outcomeVars,
            directoryVars, registryVars, transactionVars
<1>1. CASE Materialize
  BY <1>1 DEF Materialize
<1>2. CASE MaterializeFails
  BY <1>2 DEF MaterializeFails
<1>3. CASE Baseline
  BY <1>3 DEF Baseline
<1>4. CASE BaselineFails
  BY <1>4 DEF BaselineFails
<1>5. CASE Register
  BY <1>5 DEF Register
<1>6. CASE Backup
  BY <1>6 DEF Backup
<1>7. CASE Prepare
  <2>1. /\ At("journal") /\ job' = [job EXCEPT !.step = "apply"]
        /\ phases' = [phases EXCEPT ![job.wt] = "Prepared"]
        /\ UNCHANGED <<parentVars, records, trees, baselines, backups, backed>>
    BY <1>7 DEF Prepare
  <2>2. job'.step = "apply" /\ job'.wt = job.wt /\ job'.todo = Changed(job.wt)
        /\ Changed(job.wt)' = Changed(job.wt)
    BY <2>1, ChangedKept
  <2>3. ~abandoned => Agrees(parent) /\ \A w \in Worktree \ {job.wt} : ~Unsettled(w)
    BY <2>1
  <2> QED BY <2>1, <2>2, <2>3
<1>8. CASE PrepareFails
  BY <1>8 DEF PrepareFails
<1>9. CASE ApplyEntry
  <2> DEFINE w == job.wt
  <2>1. /\ At("apply") /\ UNCHANGED <<ghostVars, records, trees, baselines, transactionVars>>
        /\ Changed(w)' = Changed(w) /\ phases[w] = "Prepared"
    BY <1>9, ChangedKept DEF ApplyEntry
  <2>2. /\ job'.step = "apply" /\ job'.wt = w
        /\ \E x \in job.todo :
             /\ \A y : y # x => Lookup(parent', y) = Lookup(parent, y)
             /\ job'.todo = job.todo
                \/ (job'.todo = job.todo \ {x} /\ Lookup(parent', x) = Lookup(trees[w], x))
    <3>1. CASE \E x \in Deletions : parent' = Without(parent, x) /\ job' = [job EXCEPT !.todo = @ \ {x}]
      <4>1. PICK x \in Deletions : parent' = Without(parent, x) /\ job' = [job EXCEPT !.todo = @ \ {x}]
        BY <3>1
      <4>2. Lookup(trees[w], x) = "none" /\ x \in job.todo
        BY DEF Deletions, Lookup
      <4>3. \A y : Lookup(parent', y) = IF y = x THEN "none" ELSE Lookup(parent, y)
        <5>1. \A y : Lookup(Without(parent, x), y) = IF y = x THEN "none" ELSE Lookup(parent, y)
          BY WithoutIs
        <5> QED BY <4>1, <5>1
      <4> QED BY <2>1, <4>1, <4>2, <4>3
    <3>2. CASE Deletions = {} /\ \E x \in job.todo : parent' = Without(parent, x) /\ UNCHANGED job
      <4>1. PICK x \in job.todo : parent' = Without(parent, x) /\ UNCHANGED job
        BY <3>2
      <4>2. \A y : Lookup(parent', y) = IF y = x THEN "none" ELSE Lookup(parent, y)
        <5>1. \A y : Lookup(Without(parent, x), y) = IF y = x THEN "none" ELSE Lookup(parent, y)
          BY WithoutIs
        <5> QED BY <4>1, <5>1
      <4> QED BY <2>1, <4>1, <4>2
    <3>3. CASE Deletions = {} /\ \E x \in job.todo : /\ parent' = With(parent, x, trees[w][x])
                                                     /\ job' = [job EXCEPT !.todo = @ \ {x}]
      <4>1. PICK x \in job.todo : /\ parent' = With(parent, x, trees[w][x])
                                  /\ job' = [job EXCEPT !.todo = @ \ {x}]
        BY <3>3
      <4>2. Lookup(trees[w], x) = trees[w][x]
        BY <3>3 DEF Deletions, Lookup
      <4>3. \A y : Lookup(parent', y) = IF y = x THEN trees[w][x] ELSE Lookup(parent, y)
        <5>1. \A y : Lookup(With(parent, x, trees[w][x]), y)
                       = IF y = x THEN trees[w][x] ELSE Lookup(parent, y)
          BY WithIs
        <5> QED BY <4>1, <5>1
      <4> QED BY <2>1, <4>1, <4>2, <4>3
    <3> QED BY <1>9, <3>1, <3>2, <3>3 DEF ApplyEntry
  <2>3. job.todo \subseteq Changed(w)
    BY <2>1
  <2> HIDE DEF w
  <2> QED BY <2>1, <2>2, <2>3 DEF w
<1>10. CASE MarkApplied
  <2> DEFINE w == job.wt
  <2>1. /\ At("apply") /\ job.todo = {} /\ job' = [job EXCEPT !.step = "merged"]
        /\ phases' = [phases EXCEPT ![w] = "Applied"] /\ expected' = Merged(expected, w)
        /\ landed' = landed \cup {w}
        /\ UNCHANGED <<parent, dirty, undone, torn, abandoned, records, backups, backed>>
    BY <1>10 DEF MarkApplied
  <2>2. \A x \in Path : Lookup(expected', x) = Lookup(IF x \in Changed(w) THEN trees[w] ELSE expected, x)
    BY <2>1, MergedIs
  <2>3. ~abandoned => Agrees(parent)'
    BY <2>1, <2>2
  <2>4. ~abandoned => \A v \in Worktree : ~Unsettled(v)'
    BY <2>1
  <2> QED BY <2>1, <2>3, <2>4
<1>11. CASE ApplyFails
  BY <1>11 DEF ApplyFails
<1>12. CASE CommitMerge
  BY <1>12 DEF CommitMerge
<1>13. CASE Wipe
  BY <1>13 DEF Wipe
<1>14. CASE Restore
  <2>1. /\ At("restore") /\ job' = [job EXCEPT !.step = "remove"]
        /\ parent' = Overlay(backups[job.wt], parent)
        /\ UNCHANGED <<ghostVars, records, transactionVars>>
    BY <1>14 DEF Restore
  <2>2. ~abandoned => Agrees(parent')
    <3> SUFFICES ASSUME ~abandoned, NEW x \in Path \ dirty
                 PROVE  Lookup(parent', x) = Lookup(expected, x)
      OBVIOUS
    <3>1. Lookup(parent, x) = "none"
      BY <2>1 DEF Lookup
    <3>2. Lookup(backups[job.wt], x) = Lookup(expected, x)
      BY <2>1
    <3>3. Lookup(parent', x) = IF x \in DOMAIN backups[job.wt] THEN Lookup(backups[job.wt], x)
                               ELSE Lookup(parent, x)
      <4>1. Lookup(Overlay(backups[job.wt], parent), x)
              = IF x \in DOMAIN backups[job.wt] THEN Lookup(backups[job.wt], x)
                ELSE Lookup(parent, x)
        BY OverlayIs
      <4> QED BY <2>1, <4>1
    <3>4. x \notin DOMAIN backups[job.wt] => Lookup(backups[job.wt], x) = "none"
      BY DEF Lookup
    <3> QED BY <3>1, <3>2, <3>3, <3>4
  <2> QED BY <2>1, <2>2
<1>15. CASE RollbackStuck
  BY <1>15 DEF RollbackStuck
<1>16. CASE RemoveTransaction
  <2> DEFINE w == job.wt
  <2>1. /\ At("remove") /\ phases' = [phases EXCEPT ![w] = "none"]
        /\ backed' = backed \ {w} /\ backups' = [backups EXCEPT ![w] = Empty]
        /\ undone' = undone \ {w} /\ torn' = torn \ {w}
        /\ abandoned' = (abandoned \/ (Unsettled(w) /\ job.then \notin {"free", "scan"}))
        /\ UNCHANGED <<parent, expected, dirty, landed, records>>
    BY <1>16 DEF RemoveTransaction, DropTransaction, Removing
  <2>2. /\ job'.step \in {"free", "scan", "backup", "removed", "forget"}
        /\ job'.step = "backup" => job.then = "backup" /\ job'.wt = w
    BY <1>16, <2>1 DEF RemoveTransaction
  <2>3. w \in Worktree /\ \A v \in Worktree : Unsettled(v)' <=> Unsettled(v) /\ v # w
    BY <2>1
  <2> HIDE DEF w, Unsettled, Directories, JobRecord, Job, Journals, Idle0
  <2>4. ~abandoned' => ~abandoned /\ (Unsettled(w) => Agrees(parent))
    BY <2>1, <2>3 DEF w
  <2>5. ~abandoned' => ((\A v \in Worktree : ~Unsettled(v)') => Agrees(parent)')
    BY <2>1, <2>3, <2>4
  <2>6. ~abandoned' =>
          \A v \in Worktree \ torn' : phases'[v] = "Prepared" => v \in backed' /\ Agrees(backups[v])'
                                                               /\ backups'[v] = backups[v]
    <3>1. \A v \in Worktree : phases'[v] = "Prepared" => v # w /\ phases[v] = "Prepared"
      BY <2>1 DEF Directories
    <3>2. \A v \in Worktree \ {w} : backups'[v] = backups[v]
      BY <2>1 DEF Directories
    <3> QED BY <2>1, <2>4, <3>1, <3>2
  <2>7. ~abandoned' => \A v \in Worktree : records'[v] = "Merged"
                                          \/ (phases'[v] = "Applied" /\ v \notin undone') => v \in landed'
    <3>1. \A v \in Worktree : phases'[v] = "Applied" => v # w /\ phases[v] = "Applied"
      BY <2>1 DEF Directories
    <3> QED BY <2>1, <2>4, <3>1
  <2>8. ~abandoned' => (job'.step = "backup" => \A v \in Worktree \ {w} : ~Unsettled(v)')
    BY <2>1, <2>2, <2>3, <2>4 DEF w
  <2> QED BY <2>2, <2>3, <2>4, <2>5, <2>6, <2>7, <2>8
<1>17. CASE RemoveSome
  <2> DEFINE w == job.wt
  <2>1. /\ At("remove") /\ UNCHANGED <<parent, expected, dirty, landed, records, job>>
        /\ \/ phases' = [phases EXCEPT ![w] = "none"] /\ undone' = undone \ {w}
           \/ UNCHANGED phases /\ undone' \subseteq undone /\ undone \ {w} \subseteq undone'
        /\ phases'[w] # "none" => undone' = undone
        /\ phases'[w] = "Prepared" => w \in torn'
        /\ torn \ {w} \subseteq torn'
        /\ abandoned' = (abandoned \/ (Unsettled(w) /\ job.then \notin {"free", "scan"}))
    BY <1>17 DEF RemoveSome, Removing
  <2>2. /\ backed \ {w} \subseteq backed'
        /\ \A v \in Worktree \ {w} : backups'[v] = backups[v] /\ phases'[v] = phases[v]
    BY <1>17 DEF RemoveSome
  <2>3. w \in Worktree /\ \A v \in Worktree : /\ Unsettled(v)' => Unsettled(v)
                                              /\ v # w => (Unsettled(v) => Unsettled(v)')
    BY <2>1, <2>2
  <2>4. phases'[w] = "Applied" => phases[w] = "Applied" /\ (w \in undone' <=> w \in undone)
    BY <2>1
  <2>5. \A v \in Worktree \ {w} : v \in undone' <=> v \in undone
    BY <2>1
  <2> HIDE DEF w, Unsettled, Directories, JobRecord, Job, Journals, Idle0
  <2>6. ~abandoned' => ~abandoned /\ (Unsettled(w) => Agrees(parent))
    BY <2>1, <2>3 DEF w
  <2>7. ~abandoned' => ((\A v \in Worktree : ~Unsettled(v)') => Agrees(parent)')
    BY <2>1, <2>3, <2>6
  <2>8. ~abandoned' => \A v \in Worktree \ torn' :
          phases'[v] = "Prepared" => v \in backed' /\ Agrees(backups[v]) /\ backups'[v] = backups[v]
    BY <2>1, <2>2, <2>6
  <2>9. ~abandoned' => \A v \in Worktree : records'[v] = "Merged"
                                          \/ (phases'[v] = "Applied" /\ v \notin undone') => v \in landed'
    BY <2>1, <2>2, <2>4, <2>5, <2>6
  <2>10. job'.step = "remove" /\ job' = job /\ job.step = "remove"
    BY <2>1
  <2>11. ~abandoned => /\ \A u, v \in Worktree : Unsettled(u) /\ Unsettled(v) => u = v
                       /\ job.then = "backup" => \A v \in Worktree \ {w} : ~Unsettled(v)
    BY <2>10 DEF w
  <2>12. \A v \in Worktree \ torn' :
           phases'[v] = "Prepared" /\ ~abandoned' => v \in backed' /\ Agrees(backups[v])'
    BY <2>1, <2>8
  <2>13. Agrees(parent) => Agrees(parent)'
    BY <2>1
  <2> HIDE DEF Agrees, Whole
  <2>14. ~abandoned' => \A u, v \in Worktree : Unsettled(u)' /\ Unsettled(v)' => u = v
    BY <2>3, <2>6, <2>11
  <2>15. ~abandoned' => (job.then = "backup" => \A v \in Worktree \ {w} : ~Unsettled(v)')
    BY <2>3, <2>6, <2>11
  <2>16. UNCHANGED w
    BY <2>1 DEF w
  <2>17. Unsettled(w)' => Unsettled(w)
    BY <2>3, <2>16
  <2>18. ~abandoned' => (Unsettled(w)' => Agrees(parent)')
    BY <2>6, <2>13, <2>17
  <2> QED BY <2>7, <2>9, <2>10, <2>12, <2>14, <2>15, <2>18 DEF w, Whole
<1>18. CASE DiscardWrites
  BY <1>18 DEF DiscardWrites
<1>19. CASE DiscardCleans
  BY <1>19 DEF DiscardCleans
<1>20. CASE Clean
  BY <1>20 DEF Clean
<1>21. CASE CleanBase
  BY <1>21 DEF CleanBase
<1>22. CASE WriteRemoved
  BY <1>22 DEF WriteRemoved
<1>23. CASE Forget
  BY <1>23 DEF Forget
<1>24. CASE RecoverTransaction
  <2>1. PICK w \in Worktree :
          /\ job' = [job EXCEPT !.wt = w,
                                !.step = IF phases[w] = "Prepared" THEN "wipe" ELSE "remove",
                                !.then = "scan"]
          /\ abandoned' = (abandoned \/ w \in torn \cup undone)
          /\ \/ UNCHANGED records
             \/ phases[w] = "Applied" /\ records' = [records EXCEPT ![w] = "Merged"]
    BY <1>24 DEF RecoverTransaction, Transactions
  <2>2. UNCHANGED <<parent, expected, dirty, outcomeVars, transactionVars>>
    BY <1>24 DEF RecoverTransaction
  <2>3. job'.wt = w /\ job'.step = IF phases[w] = "Prepared" THEN "wipe" ELSE "remove"
    BY <2>1
  <2>4. /\ ~abandoned' => ~abandoned /\ w \notin torn /\ w \notin undone
        /\ \A v \in Worktree : records'[v] = "Merged" => records[v] = "Merged"
                                                       \/ (v = w /\ phases[v] = "Applied")
    BY <2>1
  <2>5. phases[w] # "Prepared" /\ ~abandoned' => ~Unsettled(w)
    BY <2>4
  <2>6. ~abandoned' => (phases[w] = "Prepared" => w \in backed /\ Agrees(backups[w]))
    BY <2>4
  <2>7. ~abandoned' => \A v \in Worktree : records'[v] = "Merged"
                                          \/ (phases[v] = "Applied" /\ v \notin undone) => v \in landed
    BY <2>4
  <2>8. ~Merging' /\ ~At("journal")' /\ ~At("restore")' /\ ~At("apply")'
    BY <2>1
  <2> HIDE DEF Directories, JobRecord, Job, Journals, Idle0, Unsettled, Merging
  <2>9. \A v \in Worktree : Unsettled(v)' <=> Unsettled(v)
    BY <2>2 DEF Unsettled
  <2> QED BY <2>2, <2>3, <2>4, <2>5, <2>6, <2>7, <2>8, <2>9
<1>25. CASE Sweep
  BY <1>25 DEF Sweep
<1>26. CASE Swept
  BY <1>26 DEF Swept
<1>27. CASE StepFails
  BY <1>27 DEF StepFails
<1>28. CASE \E p \in Process : Maintain(p)
  BY <1>28 DEF Maintain, Lock
<1>29. CASE \E p \in Process : Crash(p)
  <2>1. /\ UNCHANGED <<parentVars, records, transactionVars, trees, baselines>>
        /\ job' = Idle0 \/ UNCHANGED job
    BY <1>29 DEF Crash
  <2>2. Changed(job.wt)' = Changed(job.wt) \/ job' = Idle0
    BY <2>1, ChangedKept
  <2> HIDE DEF Directories, Job, Journals, Whole, Idle0
  <2> QED BY <2>1, <2>2, StillWhole
<1>30. CASE \E p \in Process : Restart(p)
  <2>1. UNCHANGED <<parentVars, records, transactionVars, trees, baselines, job>>
    BY <1>30 DEF Restart
  <2>2. Changed(job.wt)' = Changed(job.wt)
    BY <2>1, ChangedKept
  <2> HIDE DEF Directories, Job, Journals, Whole, Idle0
  <2> QED BY <2>1, <2>2, StillWhole
<1>31. CASE \E p \in Process, w \in Worktree : Create(p, w)
  BY <1>31 DEF Create, Lock
<1>32. CASE \E p \in Process, w \in Worktree : Merge(p, w)
  <2>1. PICK p \in Process, w \in Worktree : Merge(p, w)
    BY <1>32
  <2>2. /\ job' = [Idle0 EXCEPT !.by = p, !.wt = w, !.step = "remove", !.then = "backup",
                                !.todo = Changed(w)]
        /\ abandoned' = (\/ abandoned \/ undone # {}
                         \/ \E v \in Worktree \ {w} : phases[v] = "Prepared")
        /\ UNCHANGED <<parent, expected, dirty, outcomeVars, records, transactionVars>>
    BY <2>1 DEF Merge
  <2>3. job'.step = "remove" /\ job'.then = "backup" /\ job'.wt = w
    BY <2>2
  <2>4. /\ ~abandoned' => ~abandoned /\ \A v \in Worktree \ {w} : ~Unsettled(v)
        /\ UNCHANGED <<parent, expected, dirty, outcomeVars, records, backups, backed, phases>>
    BY <2>2
  <2> HIDE DEF Directories, JobRecord, Job, Journals, Idle0, WorktreesRecorded
  <2> QED BY <2>3, <2>4
<1>33. CASE \E p \in Process, w \in Worktree : Discard(p, w)
  BY <1>33 DEF Discard, Lock
<1>34. CASE \E w \in Worktree : ChildWorks(w)
  <2>1. PICK w \in Worktree : ChildWorks(w)
    BY <1>34
  <2>2. /\ records[w] = "Ready" /\ \A v \in Worktree \ {w} : trees'[v] = trees[v]
        /\ UNCHANGED <<parentVars, records, transactionVars, baselines, job>>
    BY <2>1 DEF ChildWorks
  <2>3. At("apply") => Changed(job.wt)' = Changed(job.wt) /\ trees'[job.wt] = trees[job.wt]
    BY <2>2, ChangedKept
  <2> QED BY <2>2, <2>3, StillWhole
<1>35. CASE \E w \in Worktree : Promote(w)
  BY <1>35 DEF Promote
<1>36. CASE \E x \in Path : UserEdits(x)
  <2>1. PICK x \in Path : UserEdits(x)
    BY <1>36
  <2>2. /\ \A y : Lookup(parent', y) = IF y = x THEN "user" ELSE Lookup(parent, y)
        /\ UNCHANGED <<records, trees, baselines, backups, backed, phases, job, outcomeVars, abandoned>>
    BY <2>1, EditIs
  <2>3. At("apply") => Changed(job.wt)' = Changed(job.wt)
    BY <2>2, ChangedKept
  <2>4. CASE /\ Transactions = {} /\ UNCHANGED dirty
             /\ \A y : Lookup(expected', y) = IF y = x THEN "user" ELSE Lookup(expected, y)
    <3>1. /\ \A w \in Worktree : ~Unsettled(w) /\ w \notin backed
          /\ ~At("apply") /\ ~At("wipe") /\ ~At("restore")
      BY <2>4 DEF Transactions
    <3> QED BY <2>2, <2>4, <3>1
  <2>5. CASE Transactions # {} /\ dirty' = dirty \cup {x} /\ UNCHANGED expected
    BY <2>2, <2>3, <2>5
  <2> QED BY <2>1, <2>4, <2>5, EditIs
<1>37. CASE UNCHANGED worktreeVars
  BY <1>37, ChangedKept DEF worktreeVars
<1>38. CASE MarkAppliedFails
  BY <1>38 DEF MarkAppliedFails
<1> QED
  BY <1>1, <1>2, <1>3, <1>4, <1>5, <1>6, <1>7, <1>8, <1>9, <1>10, <1>11, <1>12, <1>13, <1>14,
     <1>15, <1>16, <1>17, <1>18, <1>19, <1>20, <1>21, <1>22, <1>23, <1>24, <1>25, <1>26, <1>27,
     <1>28, <1>29, <1>30, <1>31, <1>32, <1>33, <1>34, <1>35, <1>36, <1>37, <1>38
     DEF WorktreeNext, JobStep

\* In the initial state there is nothing to merge and nothing to find.
LEMMA MergesStart ==
  WorktreeInit => Directories /\ WorktreesRecorded /\ Job /\ Journals /\ Whole
<1> USE DEF WorktreeInit, Idle0
<1>1. WorktreeInit => Directories
  <2>1. /\ "free" \in JobSteps /\ "nobody" \in Process \cup {"nobody"}
        /\ "none" \in Worktree \cup {"none"} /\ {} \in SUBSET Path
    BY DEF JobSteps
  <2>2. Idle0 \in JobRecord
    BY <2>1 DEF JobRecord
  <2>3. WorktreeInit => job = Idle0 /\ abandoned = FALSE /\ dirty = {}
    OBVIOUS
  <2> HIDE DEF Idle0
  <2>4. WorktreeInit => job \in JobRecord /\ job.step = "free"
    BY <2>2, <2>3 DEF Idle0
  <2> QED BY <2>3, <2>4 DEF Directories
<1>2. WorktreeInit => WorktreesRecorded
  BY DEF WorktreesRecorded, NothingStranded, Gone
<1>3. WorktreeInit => Job
  BY DEF Job, At, Merging
<1>4. WorktreeInit => Journals
  BY DEF Journals, At
<1>5. WorktreeInit => Whole
  BY DEF Whole, At, Merging, Agrees, Unsettled
<1> QED BY <1>1, <1>2, <1>3, <1>4, <1>5

MergeInv == Directories /\ WorktreesRecorded /\ Job /\ Journals /\ Whole

LEMMA MergeKept == MergeInv /\ [WorktreeNext]_worktreeVars => MergeInv'
BY DirectoriesKept, RecordedKept, JobKept, JournalsKept, WholeKept DEF MergeInv

LEMMA MergeIsWhole == MergeInv => NothingHalfDone
<1> SUFFICES ASSUME MergeInv PROVE NothingHalfDone
  OBVIOUS
<1>1. AtomicMerge
  BY DEF MergeInv, Whole, Unsettled, AtomicMerge
<1>2. ~abandoned => MergedHasLanded
  BY DEF MergeInv, Whole, MergedHasLanded
<1>3. NothingStranded
  BY DEF MergeInv, WorktreesRecorded
<1> QED BY <1>1, <1>2, <1>3 DEF NothingHalfDone

(***************************************************************************)
(* A merge is one step to whoever looks at the parent, what is recorded as *)
(* merged is in the parent, and what a removal leaves always has its       *)
(* record (merge.rs apply_merge, rollback_transaction,                     *)
(* recover_transactions; registry.rs create_managed, scan_unlocked), for   *)
(* any number of processes, worktrees, files, crashes and failures of any  *)
(* step, the one behind the rename of a journal included.  Where recovery  *)
(* reads a transaction wrongly ("abandoned") the parent is not covered:    *)
(* a torn backup (run merge_torn), or a rollback behind a journal that     *)
(* already says Applied.                                                   *)
(***************************************************************************)
THEOREM MergesAreWhole == WorktreeSpec => []NothingHalfDone
<1>1. WorktreeInit => MergeInv
  BY MergesStart DEF MergeInv
<1> QED BY <1>1, MergeKept, MergeIsWhole, PTL DEF WorktreeSpec

-----------------------------------------------------------------------------
(* The types of worktrees. *)

RecordStates ==
  {"none", "Creating", "Ready", "Active", "MergePending", "Merged", "Discarded", "Cleaning",
   "Removed"}

\* Files are of the workspace, and whoever works is a process.
FilesNamed ==
  /\ DOMAIN parent \subseteq Path /\ DOMAIN expected \subseteq Path
  /\ \A w \in Worktree : DOMAIN trees[w] \subseteq Path /\ DOMAIN backups[w] \subseteq Path

RecordsNamed ==
  /\ \A w \in Worktree : records[w] \in RecordStates /\ keeper[w] \in Process \cup {"nobody", "dead"}
  /\ job.step # "free" => job.by \in Process

\* Between the admission of a worktree and its registration there is room for
\* it: nobody else can register one.
RoomLeft ==
  /\ IsFiniteSet(Live) /\ Cardinality(Live) <= Capacity
  /\ At("materialize") \/ At("baseline") \/ At("ready") => Cardinality(Live) < Capacity

LEMMA MergedIn ==
  ASSUME NEW tree, NEW w, DOMAIN tree \subseteq Path
  PROVE  DOMAIN Merged(tree, w) \subseteq Path
BY DEF Merged, Overlay, Restrict, Changed

LEMMA EditedIn ==
  ASSUME NEW tree, NEW w, DOMAIN tree \subseteq Path, NEW edited \in Edited(tree, w)
  PROVE  DOMAIN edited \subseteq Path
<1> DEFINE After(gone, touched) ==
             [x \in (DOMAIN tree \cup touched) \ gone |-> IF x \in touched THEN w ELSE tree[x]]
<1>1. \A gone, touched : DOMAIN After(gone, touched) = (DOMAIN tree \cup touched) \ gone
  OBVIOUS
<1>2. Edited(tree, w) = {After(gone, touched) : gone \in SUBSET DOMAIN tree, touched \in SUBSET Path}
  BY DEF Edited
<1> HIDE DEF After
<1>3. PICK gone \in SUBSET DOMAIN tree, touched \in SUBSET Path : edited = After(gone, touched)
  BY <1>2
<1>4. DOMAIN edited = (DOMAIN tree \cup touched) \ gone
  BY <1>1, <1>3, Zenon
<1> QED BY <1>4

LEMMA FilesNamedKept ==
  ASSUME Directories, FilesNamed, [WorktreeNext]_worktreeVars
  PROVE  FilesNamed'
<1> USE DEF Directories, JobRecord, FilesNamed, With, Without, Restrict, Overlay, Empty,
            parentVars, ghostVars, outcomeVars, directoryVars, registryVars, transactionVars
<1>1. CASE \/ MaterializeFails \/ Baseline \/ Register \/ Prepare \/ PrepareFails \/ ApplyFails
           \/ MarkAppliedFails \/ CommitMerge \/ RollbackStuck \/ DiscardWrites
           \/ DiscardCleans \/ CleanBase
           \/ WriteRemoved \/ Forget \/ RecoverTransaction \/ Sweep \/ Swept \/ StepFails
           \/ UNCHANGED worktreeVars
           \/ \E p \in Process : Maintain(p) \/ Crash(p) \/ Restart(p)
           \/ \E p \in Process, w \in Worktree : Create(p, w) \/ Merge(p, w) \/ Discard(p, w)
           \/ \E w \in Worktree : Promote(w)
  <2>1. UNCHANGED <<parent, expected, trees, backups>>
    BY <1>1 DEF MaterializeFails, Baseline, Register, Prepare, PrepareFails, ApplyFails, CommitMerge,
                RollbackStuck, DiscardWrites, DiscardCleans, CleanBase, WriteRemoved, Forget,
                MarkAppliedFails, RecoverTransaction, Sweep, Swept, StepFails, Maintain, Crash,
                Restart, Create, Merge, Discard, Promote, worktreeVars
  <2> QED BY <2>1
<1>2. CASE Materialize
  BY <1>2 DEF Materialize, At
<1>3. CASE BaselineFails \/ Clean
  BY <1>3 DEF BaselineFails, Clean
<1>4. CASE Backup
  BY <1>4 DEF Backup, At
<1>5. CASE ApplyEntry
  <2>1. job.todo \subseteq Path
    OBVIOUS
  <2>2. UNCHANGED <<expected, trees, backups>>
    BY <1>5 DEF ApplyEntry
  <2>3. \E x \in job.todo : \/ parent' = parent \/ parent' = Without(parent, x)
                            \/ parent' = With(parent, x, trees[job.wt][x])
    BY <1>5 DEF ApplyEntry, Deletions
  <2> QED BY <2>1, <2>2, <2>3
<1>6. CASE MarkApplied
  BY <1>6, MergedIn DEF MarkApplied
<1>7. CASE Wipe
  BY <1>7 DEF Wipe
<1>8. CASE Restore
  <2>1. DOMAIN backups[job.wt] \subseteq Path
    BY <1>8 DEF Restore, At
  <2> QED BY <1>8, <2>1 DEF Restore
<1>9. CASE RemoveTransaction
  BY <1>9 DEF RemoveTransaction, DropTransaction, Removing
<1>10. CASE RemoveSome
  <2>1. UNCHANGED <<parent, expected, trees>>
    BY <1>10 DEF RemoveSome, Removing
  <2>2. \A w \in Worktree : DOMAIN backups'[w] \subseteq DOMAIN backups[w]
    <3>1. \/ UNCHANGED backups
          \/ \E x : backups' = [backups EXCEPT ![job.wt] = Without(@, x)]
      BY <1>10, Zenon DEF RemoveSome
    <3>2. \A tree, x : DOMAIN Without(tree, x) \subseteq DOMAIN tree
      OBVIOUS
    <3> HIDE DEF Without
    <3>3. \A w \in Worktree : backups'[w] = backups[w] \/ \E x : backups'[w] = Without(backups[w], x)
      BY <3>1
    <3> QED BY <3>2, <3>3
  <2> QED BY <2>1, <2>2
<1>11. ASSUME NEW w \in Worktree, ChildWorks(w) PROVE FilesNamed'
  <2>1. UNCHANGED <<parent, expected, backups>>
    BY <1>11 DEF ChildWorks
  <2>2. PICK tree \in Edited(trees[w], w) : trees' = [trees EXCEPT ![w] = tree]
    BY <1>11 DEF ChildWorks
  <2>3. DOMAIN tree \subseteq Path
    BY <2>2, EditedIn
  <2> QED BY <2>1, <2>2, <2>3
<1>12. ASSUME NEW x \in Path, UserEdits(x) PROVE FilesNamed'
  BY <1>12 DEF UserEdits
<1> QED
  BY <1>1, <1>2, <1>3, <1>4, <1>5, <1>6, <1>7, <1>8, <1>9, <1>10, <1>11, <1>12
     DEF WorktreeNext, JobStep

LEMMA RecordsNamedKept ==
  ASSUME Directories, RecordsNamed, [WorktreeNext]_worktreeVars
  PROVE  RecordsNamed'
<1> USE DEF Directories, JobRecord, RecordsNamed, RecordStates, At, Continue, Unlock, Idle0,
            WriteRecord, Lock, parentVars, ghostVars, outcomeVars, directoryVars, registryVars,
            transactionVars
<1>8. JobStep => (job'.step # "free" => job.step # "free" /\ job'.by = job.by)
  <2> DEFINE Owned == job'.step # "free" => job.step # "free" /\ job'.by = job.by
  <2>1. Materialize \/ Baseline \/ Backup \/ Prepare \/ MarkApplied \/ Wipe \/ Restore => Owned
    BY DEF Materialize, Baseline, Backup, Prepare, MarkApplied, Wipe, Restore
  <2>2. MaterializeFails \/ BaselineFails \/ Register \/ PrepareFails \/ RollbackStuck \/ Swept
          \/ StepFails => Owned
    BY DEF MaterializeFails, BaselineFails, Register, PrepareFails, RollbackStuck, Swept, StepFails
  <2>3. ApplyFails \/ MarkAppliedFails \/ CommitMerge \/ DiscardWrites \/ DiscardCleans
          \/ Clean \/ CleanBase => Owned
    BY DEF ApplyFails, MarkAppliedFails, CommitMerge, DiscardWrites, DiscardCleans, Clean, CleanBase
  <2>4. ApplyEntry => Owned
    BY DEF ApplyEntry
  <2>5. RemoveTransaction \/ RemoveSome => Owned
    <3>1. RemoveTransaction => job' \in {Idle0, [job EXCEPT !.step = job.then]} /\ job.step = "remove"
      BY DEF RemoveTransaction
    <3>2. RemoveSome => job' = job
      BY DEF RemoveSome
    <3> QED BY <3>1, <3>2
  <2>6. WriteRemoved \/ Forget => Owned
    BY DEF WriteRemoved, Forget
  <2>7. RecoverTransaction \/ Sweep => Owned
    BY DEF RecoverTransaction, Sweep
  <2> QED BY <2>1, <2>2, <2>3, <2>4, <2>5, <2>6, <2>7 DEF JobStep
<1>1. CASE \/ Materialize \/ Baseline \/ Backup \/ Prepare \/ PrepareFails \/ MarkApplied
           \/ ApplyFails \/ Wipe \/ Restore \/ RollbackStuck \/ RemoveSome \/ DiscardCleans
           \/ Clean \/ CleanBase \/ Sweep \/ Swept \/ StepFails \/ ApplyEntry \/ RemoveTransaction
           \/ MarkAppliedFails
  <2>1. UNCHANGED <<records, keeper>>
    BY <1>1 DEF Materialize, Baseline, Backup, Prepare, PrepareFails, MarkApplied, ApplyFails, Wipe,
                Restore, RollbackStuck, RemoveSome, DiscardCleans, Clean, CleanBase, Sweep, Swept,
                StepFails, ApplyEntry, RemoveTransaction, MarkAppliedFails
  <2> QED BY <1>8, <1>1, <2>1 DEF JobStep
<1>2. CASE \/ MaterializeFails \/ BaselineFails \/ Register \/ CommitMerge \/ DiscardWrites
           \/ WriteRemoved \/ Forget \/ RecoverTransaction
  <2>1. UNCHANGED keeper
    BY <1>2 DEF MaterializeFails, BaselineFails, Register, CommitMerge, DiscardWrites, WriteRemoved,
                Forget, RecoverTransaction
  <2>2. \/ UNCHANGED records
        \/ \E w, to : to \in RecordStates /\ records' = [records EXCEPT ![w] = to]
    BY <1>2 DEF MaterializeFails, BaselineFails, Register, CommitMerge, DiscardWrites, WriteRemoved,
                Forget, RecoverTransaction
  <2> QED BY <1>8, <1>2, <2>1, <2>2 DEF JobStep
<1>3. ASSUME NEW p \in Process, Maintain(p) \/ Crash(p) \/ Restart(p) PROVE RecordsNamed'
  <2>1. CASE Maintain(p)
    BY <2>1 DEF Maintain
  <2>2. CASE Crash(p)
    BY <2>2 DEF Crash
  <2>3. CASE Restart(p)
    BY <2>3 DEF Restart
  <2> QED BY <1>3, <2>1, <2>2, <2>3
<1>4. ASSUME NEW p \in Process, NEW w \in Worktree, Create(p, w) \/ Merge(p, w) \/ Discard(p, w)
      PROVE  RecordsNamed'
  <2>1. CASE Create(p, w)
    BY <2>1 DEF Create
  <2>2. CASE Merge(p, w)
    BY <2>2 DEF Merge
  <2>3. CASE Discard(p, w)
    BY <2>3 DEF Discard
  <2> QED BY <1>4, <2>1, <2>2, <2>3
<1>5. ASSUME NEW w \in Worktree, ChildWorks(w) \/ Promote(w) PROVE RecordsNamed'
  BY <1>5 DEF ChildWorks, Promote
<1>6. ASSUME NEW x \in Path, UserEdits(x) PROVE RecordsNamed'
  BY <1>6 DEF UserEdits
<1>7. CASE UNCHANGED worktreeVars
  BY <1>7 DEF worktreeVars
<1> QED BY <1>1, <1>2, <1>3, <1>4, <1>5, <1>6, <1>7 DEF WorktreeNext, JobStep

\* Room is left when no worktree comes alive and nobody is admitted.
LEMMA StillRoom ==
  ASSUME RoomLeft, Live' \subseteq Live,
         job'.step \in {"materialize", "baseline", "ready"}
           => job.step \in {"materialize", "baseline", "ready"}
  PROVE  RoomLeft'
<1>1. Capacity \in Nat
  BY WorktreeAssumption DEF WorktreeConfig
<1>2. IsFiniteSet(Live) /\ Cardinality(Live) \in Nat
  BY FS_CardinalityType DEF RoomLeft
<1> DEFINE L == Live'
<1>3. L \in SUBSET Live
  OBVIOUS
<1> HIDE DEF L
<1>4. IsFiniteSet(L) /\ Cardinality(L) <= Cardinality(Live) /\ Cardinality(L) \in Nat
  BY <1>2, <1>3, FS_Subset, FS_CardinalityType
<1>5. /\ Cardinality(L) <= Capacity
      /\ (At("materialize") \/ At("baseline") \/ At("ready"))' => Cardinality(L) < Capacity
  BY <1>1, <1>2, <1>4 DEF RoomLeft, At
<1> QED BY <1>4, <1>5 DEF RoomLeft, L

LEMMA RoomLeftKept ==
  ASSUME Directories, RoomLeft, [WorktreeNext]_worktreeVars
  PROVE  RoomLeft'
<1> DEFINE Making == {"materialize", "baseline", "ready"}
           LiveStates == {"Ready", "Active", "MergePending"}
           Quiet == Live' \subseteq Live /\ (job'.step \in Making => job.step \in Making)
<1> USE DEF Directories, JobRecord, At, Continue, Unlock, Idle0, WriteRecord, Lock,
            parentVars, ghostVars, outcomeVars, directoryVars, registryVars, transactionVars
<1>1. ASSUME NEW w, NEW to, records' = [records EXCEPT ![w] = to],
             to \notin LiveStates \/ records[w] \in LiveStates
      PROVE  Live' \subseteq Live
  BY <1>1 DEF Live
<1>2. UNCHANGED records => Live' \subseteq Live
  BY DEF Live
<1>3. CASE \/ Materialize \/ Baseline \/ Backup \/ Prepare \/ PrepareFails \/ MarkApplied
           \/ ApplyFails \/ Wipe \/ Restore \/ RollbackStuck \/ RemoveSome \/ DiscardCleans
           \/ Clean \/ CleanBase \/ Sweep \/ Swept \/ StepFails \/ ApplyEntry \/ RemoveTransaction
           \/ MarkAppliedFails
  <2>1. UNCHANGED records
    BY <1>3 DEF Materialize, Baseline, Backup, Prepare, PrepareFails, MarkApplied, ApplyFails, Wipe,
                Restore, RollbackStuck, RemoveSome, DiscardCleans, Clean, CleanBase, Sweep, Swept,
                StepFails, ApplyEntry, RemoveTransaction, MarkAppliedFails
  <2>2. Materialize \/ Baseline \/ Backup \/ Prepare \/ MarkApplied \/ Wipe \/ Restore \/ Clean
          \/ CleanBase \/ PrepareFails \/ RollbackStuck \/ Swept \/ StepFails
          => (job'.step \in Making => job.step \in Making)
    <3>1. Materialize \/ Baseline => job.step \in Making
      BY DEF Materialize, Baseline
    <3>2. Backup \/ Prepare \/ MarkApplied => job'.step \notin Making
      BY DEF Backup, Prepare, MarkApplied
    <3>3. Wipe \/ Restore \/ Clean \/ CleanBase => job'.step \notin Making
      BY DEF Wipe, Restore, Clean, CleanBase
    <3>4. PrepareFails \/ RollbackStuck \/ Swept \/ StepFails => job'.step \notin Making
      BY DEF PrepareFails, RollbackStuck, Swept, StepFails
    <3> QED BY <3>1, <3>2, <3>3, <3>4
  <2>3. ApplyFails \/ MarkAppliedFails \/ DiscardCleans \/ Sweep => job'.step \notin Making
    BY DEF ApplyFails, MarkAppliedFails, DiscardCleans, Sweep
  <2>4. ApplyEntry \/ RemoveSome => job'.step = job.step
    BY DEF ApplyEntry, RemoveSome
  <2>5. RemoveTransaction => job'.step \notin Making
    BY DEF RemoveTransaction
  <2> QED BY <1>2, <1>3, <2>1, <2>2, <2>3, <2>4, <2>5, StillRoom
<1>4. CASE MaterializeFails \/ BaselineFails \/ CommitMerge \/ DiscardWrites \/ WriteRemoved
           \/ Forget \/ RecoverTransaction
  <2>1. \/ UNCHANGED records
        \/ \E w, to : to \notin LiveStates /\ records' = [records EXCEPT ![w] = to]
    <3> DEFINE Ended == {"none", "Merged", "Discarded", "Cleaning", "Removed"}
               RecordEnds == UNCHANGED records \/ \E w, to : to \in Ended
                                                            /\ records' = [records EXCEPT ![w] = to]
    <3>1. MaterializeFails \/ BaselineFails => RecordEnds
      BY DEF MaterializeFails, BaselineFails
    <3>2. CommitMerge => RecordEnds
      BY DEF CommitMerge
    <3>3. DiscardWrites => RecordEnds
      BY DEF DiscardWrites
    <3>4. WriteRemoved \/ Forget => RecordEnds
      BY DEF WriteRemoved, Forget
    <3>5. RecoverTransaction => RecordEnds
      BY DEF RecoverTransaction
    <3>6. \A to \in Ended : to \notin LiveStates
      OBVIOUS
    <3>7. RecordEnds
      BY <1>4, <3>1, <3>2, <3>3, <3>4, <3>5
    <3> HIDE DEF Ended
    <3> QED BY <3>6, <3>7
  <2>2. MaterializeFails \/ BaselineFails \/ CommitMerge \/ DiscardWrites
          => (job'.step \in Making => job.step \in Making)
    BY DEF MaterializeFails, BaselineFails, CommitMerge, DiscardWrites
  <2>3. WriteRemoved \/ Forget => job'.step \notin Making
    BY DEF WriteRemoved, Forget
  <2>4. RecoverTransaction => job'.step \notin Making
    BY DEF RecoverTransaction
  <2>5. Live' \subseteq Live
    <3> HIDE DEF LiveStates
    <3>1. ASSUME NEW w, NEW to, to \notin LiveStates, records' = [records EXCEPT ![w] = to]
          PROVE  Live' \subseteq Live
      BY <1>1, <3>1
    <3> QED BY <1>2, <2>1, <3>1
  <2>6. job'.step \in Making => job.step \in Making
    BY <1>4, <2>2, <2>3, <2>4
  <2> QED BY <2>5, <2>6, StillRoom
<1>5. CASE Register
  <2> DEFINE L == Live
             M == Live'
  <2>1. M \in SUBSET (L \cup {job.wt})
    BY <1>5 DEF Register, Live
  <2>2. /\ IsFiniteSet(L) /\ Cardinality(L) < Capacity /\ Capacity \in Nat /\ job'.step = "free"
    BY <1>5, WorktreeAssumption DEF RoomLeft, Register, WorktreeConfig
  <2> HIDE DEF L, M
  <2>3. IsFiniteSet(L \cup {job.wt}) /\ Cardinality(L \cup {job.wt}) <= Capacity
        /\ Cardinality(L \cup {job.wt}) \in Nat
    <3>1. Cardinality(L) \in Nat
      BY <2>2, FS_CardinalityType
    <3>2. /\ IsFiniteSet(L \cup {job.wt})
          /\ Cardinality(L \cup {job.wt})
               = IF job.wt \in L THEN Cardinality(L) ELSE Cardinality(L) + 1
      BY <2>2, FS_AddElement
    <3>3. CASE job.wt \in L
      BY <2>2, <3>1, <3>2, <3>3
    <3>4. CASE job.wt \notin L
      BY <2>2, <3>1, <3>2, <3>4
    <3> QED BY <3>3, <3>4
  <2>4. IsFiniteSet(M) /\ Cardinality(M) <= Cardinality(L \cup {job.wt}) /\ Cardinality(M) \in Nat
    BY <2>1, <2>3, FS_Subset, FS_CardinalityType
  <2>5. Cardinality(M) <= Capacity
    BY <2>2, <2>3, <2>4
  <2> QED BY <2>2, <2>4, <2>5 DEF RoomLeft, M
<1>6. ASSUME NEW p \in Process, NEW w \in Worktree, Create(p, w) PROVE RoomLeft'
  <2>1. Live' \subseteq Live /\ Cardinality(Live) < Capacity
    BY <1>1, <1>6 DEF Create
  <2>2. Capacity \in Nat /\ IsFiniteSet(Live) /\ Cardinality(Live) \in Nat
    BY WorktreeAssumption, FS_CardinalityType DEF WorktreeConfig, RoomLeft
  <2> DEFINE L == Live'
  <2>3. L \in SUBSET Live
    BY <2>1
  <2> HIDE DEF L
  <2>4. IsFiniteSet(L) /\ Cardinality(L) <= Cardinality(Live) /\ Cardinality(L) \in Nat
    BY <2>2, <2>3, FS_Subset, FS_CardinalityType
  <2>5. Cardinality(L) < Capacity
    BY <2>1, <2>2, <2>4
  <2> QED BY <2>2, <2>4, <2>5 DEF RoomLeft, L
<1>7. ASSUME NEW p \in Process, NEW w \in Worktree, Merge(p, w) \/ Discard(p, w) PROVE RoomLeft'
  <2>1. UNCHANGED records
    BY <1>7 DEF Merge, Discard
  <2>2. job'.step \notin Making
    BY <1>7 DEF Merge, Discard
  <2> QED BY <1>2, <2>1, <2>2, StillRoom
<1>8. ASSUME NEW p \in Process, Maintain(p) \/ Crash(p) \/ Restart(p) PROVE RoomLeft'
  <2>1. UNCHANGED records
    BY <1>8 DEF Maintain, Crash, Restart
  <2>2. job'.step \in Making => job.step \in Making
    <3>1. Maintain(p) => job'.step = "scan"
      BY DEF Maintain
    <3>2. Crash(p) => job' = job \/ job'.step = "free"
      BY DEF Crash
    <3>3. Restart(p) => job' = job
      BY DEF Restart
    <3> QED BY <1>8, <3>1, <3>2, <3>3
  <2> QED BY <1>2, <2>1, <2>2, StillRoom
<1>9. ASSUME NEW w \in Worktree, ChildWorks(w) \/ Promote(w) PROVE RoomLeft'
  <2>1. job' = job
    BY <1>9 DEF ChildWorks, Promote
  <2>2. CASE ChildWorks(w)
    BY <1>2, <2>1, <2>2, StillRoom DEF ChildWorks
  <2>3. CASE Promote(w)
    <3>1. PICK to \in {"Active", "MergePending"} :
            ValidTransition(records[w], to) /\ records' = [records EXCEPT ![w] = to]
      BY <2>3 DEF Promote
    <3>2. records[w] \in LiveStates
      BY <3>1 DEF ValidTransition
    <3>3. Live' \subseteq Live
      BY <1>1, <3>1, <3>2
    <3> QED BY <2>1, <3>3, StillRoom
  <2> QED BY <1>9, <2>2, <2>3
<1>10. CASE UNCHANGED worktreeVars \/ \E x \in Path : UserEdits(x)
  <2>1. UNCHANGED <<records, job>>
    BY <1>10 DEF UserEdits, worktreeVars
  <2> QED BY <1>2, <2>1, StillRoom
<1> QED
  BY <1>3, <1>4, <1>5, <1>6, <1>7, <1>8, <1>9, <1>10 DEF WorktreeNext, JobStep

\* What is needed for the types holds at first.
LEMMA WorktreeNames == WorktreeInit => FilesNamed /\ RecordsNamed /\ RoomLeft
<1> SUFFICES ASSUME WorktreeInit PROVE FilesNamed /\ RecordsNamed /\ RoomLeft
  OBVIOUS
<1>1. Existing \subseteq Path /\ Capacity \in Nat
  BY WorktreeAssumption DEF WorktreeConfig
<1>2. FilesNamed
  BY <1>1 DEF WorktreeInit, FilesNamed, Empty
<1>3. RecordsNamed
  BY DEF WorktreeInit, RecordsNamed, RecordStates, Idle0
<1>4. Live = {} /\ job.step = "free"
  BY DEF WorktreeInit, Live, Idle0
<1>5. RoomLeft
  BY <1>1, <1>4, FS_EmptySet DEF RoomLeft, At
<1> QED BY <1>2, <1>3, <1>5

WorktreeTypes == Directories /\ FilesNamed /\ RecordsNamed /\ RoomLeft

LEMMA WorktreeTypesKept == WorktreeTypes /\ [WorktreeNext]_worktreeVars => WorktreeTypes'
BY DirectoriesKept, FilesNamedKept, RecordsNamedKept, RoomLeftKept DEF WorktreeTypes

LEMMA WorktreeTyped == WorktreeTypes => WorktreeTypeOK
<1> SUFFICES ASSUME WorktreeTypes PROVE WorktreeTypeOK
  OBVIOUS
<1>1. \A w \in Worktree : records[w] \in {"none", "Creating", "Ready", "Active", "MergePending",
                                          "Merged", "Discarded", "Cleaning", "Removed"}
  BY DEF WorktreeTypes, RecordsNamed, RecordStates
<1> QED BY <1>1 DEF WorktreeTypeOK, WorktreeTypes, Directories, FilesNamed, RecordsNamed, RoomLeft

\* The variables of the worktrees have their types, and no more worktrees are
\* alive than the registry admits, whoever creates, crashes and restarts
\* (registry.rs, create_managed).
THEOREM WorktreesTyped == WorktreeSpec => []WorktreeTypeOK
<1>1. WorktreeInit => WorktreeTypes
  BY MergesStart, WorktreeNames DEF WorktreeTypes
<1> QED BY <1>1, WorktreeTypesKept, WorktreeTyped, PTL DEF WorktreeSpec

-----------------------------------------------------------------------------
(* The types of background tasks. *)

TaskTypes ==
  /\ spawning \in [Task -> {"no", "admitted", "refused", "launched", "listed", "started"}]
  /\ task_state \in [Task -> {"none", "running"} \cup Ending]
  /\ tasks \subseteq Task /\ drivers \subseteq Task /\ cancelled \subseteq tasks
  /\ child \in [Task -> {"none", "running", "exited", "killed"}]
  /\ driver \in [Task -> {"none", "watching", "ending", "draining", "finished"}]
  /\ verdict \in [Task -> {"none"} \cup Ending]
  /\ closing \in {"open", "token", "cancelled", "joining", "closed"} /\ joining \subseteq Task

WaitTypes ==
  waits \in [Waiter -> [at : {"idle", "look", "seen", "listening", "done"}, task : Task \cup {NoTask}]]

LEMMA TaskTypesKept == TaskTypes /\ [TasksNext]_taskVars => TaskTypes'
<1> SUFFICES ASSUME TaskTypes, [TasksNext]_taskVars PROVE TaskTypes'
  OBVIOUS
<1> USE DEF TaskTypes, Ending, registryOfTasks, driverVars, closeVars
<1>1. ASSUME NEW t \in Task, Admit(t) \/ SpawnStep(t) PROVE TaskTypes'
  <2>1. CASE Admit(t)
    BY <2>1 DEF Admit
  <2>2. CASE Launch(t)
    BY <2>2 DEF Launch
  <2>3. CASE LaunchFails(t)
    BY <2>3 DEF LaunchFails
  <2>4. CASE Enlist(t)
    BY <2>4 DEF Enlist
  <2>5. CASE Attach(t)
    BY <2>5 DEF Attach
  <2> QED BY <1>1, <2>1, <2>2, <2>3, <2>4, <2>5 DEF SpawnStep
<1>2. ASSUME NEW t \in Task, ChildExits(t) PROVE TaskTypes'
  BY <1>2 DEF ChildExits
<1>3. ASSUME NEW t \in Task, NEW v \in Ending, Decide(t, v) PROVE TaskTypes'
  BY <1>3 DEF Decide
<1>4. ASSUME NEW t \in Task, EndTree(t) PROVE TaskTypes'
  BY <1>4 DEF EndTree
<1>5. ASSUME NEW t \in Task, Finish(t) PROVE TaskTypes'
  BY <1>5 DEF Finish
<1>6. ASSUME NEW t \in Task, SeesCancel(t) \/ SeesExit(t) \/ TimesOut(t) \/ ReadFails(t)
      PROVE  TaskTypes'
  BY <1>3, <1>6 DEF SeesCancel, SeesExit, TimesOut, ReadFails
<1>7. ASSUME NEW t \in Task, Output(t) \/ ReadOutput(t) \/ \E w \in Waiter : Wait(w, t)
      PROVE  TaskTypes'
  <2>1. UNCHANGED <<registryOfTasks, driverVars, closeVars, cancelled>>
    BY <1>7 DEF Output, ReadOutput, Wait
  <2> QED BY <2>1
<1>8. ASSUME NEW t \in Task, CancelTask(t) \/ TerminateOwner(TaskOwner[t]) PROVE TaskTypes'
  BY <1>8 DEF CancelTask, TerminateOwner
<1>9. ASSUME NEW w \in Waiter, Look(w) \/ Listen(w) PROVE TaskTypes'
  BY <1>9 DEF Look, Listen, Moves
<1>10. CASE CloseRegistry \/ CloseStep
  <2>1. CASE CloseRegistry \/ CancelRunning
    BY <2>1 DEF CloseRegistry, CancelRunning
  <2>2. CASE TakeDrivers \/ Closed \/ \E t \in Task : JoinDriver(t)
    BY <2>2 DEF TakeDrivers, Closed, JoinDriver
  <2> QED BY <1>10, <2>1, <2>2 DEF CloseStep
<1>11. CASE UNCHANGED taskVars
  BY <1>11 DEF taskVars
<1> QED
  BY <1>1, <1>2, <1>4, <1>5, <1>6, <1>7, <1>8, <1>9, <1>10, <1>11 DEF TasksNext, DriverStep

LEMMA WaitTypesKept == TaskTypes /\ WaitTypes /\ [TasksNext]_taskVars => WaitTypes'
<1> SUFFICES ASSUME TaskTypes, WaitTypes, [TasksNext]_taskVars PROVE WaitTypes'
  OBVIOUS
<1> USE DEF WaitTypes
<1>1. ASSUME NEW t \in Task, Finish(t) PROVE WaitTypes'
  BY <1>1 DEF Finish
<1>2. ASSUME NEW t \in Task, NEW w \in Waiter, Wait(w, t) PROVE WaitTypes'
  BY <1>2 DEF Wait
<1>3. ASSUME NEW w \in Waiter, Look(w) \/ Listen(w) PROVE WaitTypes'
  <2>1. \E to \in {"seen", "done", "listening"} : waits' = [waits EXCEPT ![w].at = to]
    BY <1>3 DEF Look, Listen, Moves
  <2> QED BY <2>1
<1>4. TasksNext =>
        \/ \E t \in Task : Finish(t) \/ \E w \in Waiter : Wait(w, t)
        \/ \E w \in Waiter : Look(w) \/ Listen(w)
        \/ UNCHANGED waits
  BY DEF TasksNext, SpawnStep, DriverStep, CloseStep, Admit, Launch, LaunchFails, Enlist, Attach,
         ChildExits, SeesCancel, SeesExit, TimesOut, ReadFails, Decide, EndTree, Output, ReadOutput,
         CancelTask, TerminateOwner, CloseRegistry, CancelRunning, TakeDrivers, JoinDriver, Closed
<1>5. UNCHANGED taskVars => UNCHANGED waits
  BY DEF taskVars
<1> QED BY <1>1, <1>2, <1>3, <1>4, <1>5

TasksInv == OutputInv /\ TaskTypes /\ WaitTypes

LEMMA TasksStart == TasksInit => TasksInv
<1>1. TasksInit => TaskTypes /\ WaitTypes
  BY DEF TasksInit, TaskTypes, WaitTypes
<1> QED BY <1>1, OutputStarts DEF TasksInv

LEMMA TasksKept == TasksInv /\ [TasksNext]_taskVars => TasksInv'
BY TaskTypesKept, WaitTypesKept, OutputKept DEF TasksInv

LEMMA TasksFit == TasksInv => TasksTypeOK
<1> SUFFICES ASSUME OutputInv, TaskTypes, WaitTypes PROVE TasksTypeOK
  BY DEF TasksInv
<1>1. \A t \in Task : spool[t].dropped \in 0 .. spool[t].total
  BY DEF OutputInv, SpoolFits
<1>2. \A w \in Waiter : waits[w] \in [at : {"idle", "look", "seen", "listening", "done"},
                                      task : Task \cup {NoTask}]
  BY DEF WaitTypes
<1> QED BY <1>1, <1>2 DEF TaskTypes, TasksTypeOK

\* The variables of the background tasks have their types, for any number of
\* tasks and waiters (process/background.rs).
THEOREM TasksTyped == TasksSpec => []TasksTypeOK
BY TasksStart, TasksKept, TasksFit, PTL DEF TasksSpec

-----------------------------------------------------------------------------
(* The types of MCP servers. *)

\* Sessions are among those that were opened.
SessionsOpened(s) ==
  /\ session[s] <= opened[s] /\ slot[s] <= opened[s] /\ tools[s] <= opened[s]
  /\ opened[s] <= MaxSessions /\ alive[s] \cup hearing[s] \subseteq 1 .. opened[s]
  /\ \A c \in ToolCall : ServerOf[c] = s => calls[c].on <= opened[s]

AboutServers ==
  /\ http \subseteq Server /\ shut \subseteq Server /\ silent \subseteq Server
  /\ notice \subseteq Server
  /\ tools_version \in Nat /\ version_read \in [Server -> Nat]

\* A step that opens no session takes sessions from where they were.
FromOpened(s) ==
  /\ opened'[s] = opened[s] /\ session'[s] = session[s]
  /\ slot'[s] \in {0, slot[s], session[s]} /\ tools'[s] \in {tools[s], session[s]}
  /\ alive'[s] \subseteq alive[s] /\ hearing'[s] \subseteq hearing[s]
  /\ \A c \in ToolCall : ServerOf[c] = s => calls'[c].on \in {0, calls[c].on, slot[s]}

LEMMA StillOpened ==
  ASSUME McpShape, NEW s \in Server, SessionsOpened(s), FromOpened(s)
  PROVE  SessionsOpened(s)'
<1>1. /\ opened[s] \in Nat /\ session[s] \in Nat /\ slot[s] \in Nat /\ tools[s] \in Nat
      /\ \A c \in ToolCall : calls[c].on \in Nat
  BY DEF McpShape
<1>2. session'[s] <= opened'[s] /\ slot'[s] <= opened'[s] /\ tools'[s] <= opened'[s]
  BY <1>1 DEF SessionsOpened, FromOpened
<1>3. alive'[s] \cup hearing'[s] \subseteq 1 .. opened'[s]
  BY DEF SessionsOpened, FromOpened
<1>4. \A c \in ToolCall : ServerOf[c] = s => calls'[c].on <= opened'[s]
  BY <1>1 DEF SessionsOpened, FromOpened
<1> QED BY <1>2, <1>3, <1>4 DEF SessionsOpened, FromOpened

LEMMA OpenOpens ==
  ASSUME McpShape, NEW s \in Server, SessionsOpened(s), Open(s)
  PROVE  SessionsOpened(s)'
<1>1. /\ opened[s] \in Nat /\ slot[s] \in Nat /\ tools[s] \in Nat /\ MaxSessions \in Nat
      /\ \A c \in ToolCall : calls[c].on \in Nat
  BY McpAssumption DEF McpShape, McpConfig
<1>2. /\ opened[s] < MaxSessions /\ opened'[s] = opened[s] + 1 /\ session'[s] = opened[s] + 1
      /\ alive'[s] \subseteq alive[s] \cup {opened[s] + 1}
      /\ hearing'[s] \subseteq hearing[s] \cup {opened[s] + 1}
      /\ UNCHANGED <<slot, tools, calls>>
  BY DEF Open, McpShape, toolVars
<1>3. alive'[s] \cup hearing'[s] \subseteq 1 .. opened'[s]
  BY <1>1, <1>2 DEF SessionsOpened
<1> QED BY <1>1, <1>2, <1>3 DEF SessionsOpened

LEMMA TaskFrom ==
  ASSUME McpShape, NEW s \in Server, TaskStep(s), ~Open(s), NEW t \in Server
  PROVE  FromOpened(t)
<1> USE DEF FromOpened, McpShape, hostVars, sessionVars, peerVars, toolVars
<1>1. CASE Attempt(s) \/ OpenFails(s) \/ Shake(s) \/ PublishTools(s) \/ ServeEnds(s) \/ SeesDeath(s)
           \/ TakeNotice(s) \/ RefreshFails(s) \/ Ping(s) \/ PingAnswered(s) \/ PingFails(s)
           \/ Backoff(s)
  <2>1. UNCHANGED <<opened, session, slot, tools, alive, hearing, calls>>
    BY <1>1 DEF Attempt, OpenFails, Shake, PublishTools, ServeEnds, SeesDeath, TakeNotice,
                RefreshFails, Ping, PingAnswered, PingFails, Backoff
  <2> QED BY <2>1
<1>2. CASE ShakeFails(s)
  BY <1>2 DEF ShakeFails, Close
<1>3. CASE Discover(s)
  BY <1>3 DEF Discover
<1>4. CASE Store(s)
  BY <1>4 DEF Store, Dropping
<1>5. CASE Teardown(s)
  BY <1>5 DEF Teardown, Close
<1> QED BY <1>1, <1>2, <1>3, <1>4, <1>5 DEF TaskStep

LEMMA OthersFrom ==
  ASSUME McpShape, NEW t \in Server,
         \/ Start \/ Shutdown \/ HostStep \/ UNCHANGED mcpVars
         \/ \E s \in Server : \/ FallsSilent(s) \/ Notify(s)
                              \/ \E n \in 1 .. opened[s] : ProcessExits(s, n) \/ ReaderEnds(s, n)
  PROVE  FromOpened(t)
<1> USE DEF FromOpened, McpShape, hostVars, taskVarsOf, sessionVars, peerVars, toolVars
<1>1. CASE Start \/ Shutdown \/ Halt \/ UNCHANGED mcpVars
           \/ \E s \in Server : FallsSilent(s) \/ Notify(s)
  <2>1. UNCHANGED <<opened, session, slot, tools, alive, hearing, calls>>
    BY <1>1 DEF Start, Shutdown, Halt, FallsSilent, Notify, mcpVars
  <2> QED BY <2>1
<1>2. ASSUME NEW s \in Server, EmptySlot(s) PROVE FromOpened(t)
  BY <1>2 DEF EmptySlot, Close
<1>3. ASSUME NEW s \in Server, NEW n \in 1 .. opened[s], ProcessExits(s, n) \/ ReaderEnds(s, n)
      PROVE  FromOpened(t)
  <2>1. UNCHANGED <<opened, session, slot, tools, calls>>
    BY <1>3 DEF ProcessExits, ReaderEnds
  <2>2. alive'[t] \subseteq alive[t] /\ hearing'[t] \subseteq hearing[t]
    <3>1. ProcessExits(s, n) => alive' = [alive EXCEPT ![s] = @ \ {n}] /\ hearing' = hearing
      BY DEF ProcessExits
    <3>2. ReaderEnds(s, n) => hearing' = [hearing EXCEPT ![s] = @ \ {n}] /\ alive' = alive
      BY DEF ReaderEnds
    <3> QED BY <1>3, <3>1, <3>2
  <2> QED BY <2>1, <2>2
<1> QED BY <1>1, <1>2, <1>3 DEF HostStep

LEMMA CallsFrom ==
  ASSUME McpShape, NEW c \in ToolCall, CallTool(c) \/ ToolStep(c), NEW t \in Server
  PROVE  FromOpened(t)
<1> USE DEF FromOpened, McpShape, hostVars, taskVarsOf, sessionVars, peerVars, toolVars
<1>1. ASSUME NEW at, TakeSession(c, at) \/ calls' = [calls EXCEPT ![c] = Over]
      PROVE  \A d \in ToolCall : ServerOf[d] = t => calls'[d].on \in {0, calls[d].on, slot[t]}
  <2>1. \E r : calls' = [calls EXCEPT ![c] = r] /\ r.on \in {0, slot[ServerOf[c]]}
    <3>1. Over.on = 0 /\ [at |-> at, on |-> slot[ServerOf[c]]].on = slot[ServerOf[c]]
      BY DEF Over
    <3> HIDE DEF McpShape
    <3> QED BY <1>1, <3>1 DEF TakeSession
  <2> QED BY <2>1
<1>2. CASE CallTool(c) \/ Renewed(c)
  <2>1. UNCHANGED <<opened, session, slot, tools, alive, hearing>>
    BY <1>2 DEF CallTool, Renewed
  <2> QED BY <1>1, <1>2, <2>1 DEF CallTool, Renewed
<1>3. ASSUME NEW next, next.on = 0, Release(c, next) PROVE FromOpened(t)
  BY <1>3 DEF Release, Dropping
<1>4. CASE CallEnds(c)
  BY <1>3, <1>4 DEF CallEnds, Over
<1>5. CASE Unauthorized(c)
  BY <1>3, <1>5 DEF Unauthorized
<1> QED BY <1>2, <1>4, <1>5 DEF ToolStep

LEMMA SessionsKept ==
  ASSUME McpShape, \A s \in Server : SessionsOpened(s), [McpNext]_mcpVars, NEW t \in Server
  PROVE  SessionsOpened(t)'
<1>1. ASSUME NEW s \in Server, Open(s) PROVE SessionsOpened(t)'
  <2>1. s # t => FromOpened(t)
    BY <1>1 DEF Open, FromOpened, McpShape, toolVars
  <2> QED BY <1>1, <2>1, OpenOpens, StillOpened
<1>2. ASSUME FromOpened(t) PROVE SessionsOpened(t)'
  BY <1>2, StillOpened
<1> QED BY <1>1, <1>2, TaskFrom, OthersFrom, CallsFrom DEF McpNext

LEMMA ServersKept ==
  ASSUME AboutServers, [McpNext]_mcpVars
  PROVE  AboutServers'
<1> USE DEF AboutServers, hostVars, taskVarsOf, sessionVars, peerVars, toolVars
<1>1. ASSUME NEW s \in Server, TaskStep(s) PROVE AboutServers'
  <2>1. UNCHANGED <<http, shut, silent>> /\ notice' \subseteq notice
    BY <1>1 DEF TaskStep, Attempt, Open, OpenFails, Shake, ShakeFails, Discover, PublishTools, Store,
                ServeEnds, SeesDeath, TakeNotice, RefreshFails, Ping, PingAnswered, PingFails,
                Backoff, Teardown
  <2>2. \/ UNCHANGED <<tools_version, version_read>>
        \/ UNCHANGED tools_version /\ version_read' = [version_read EXCEPT ![s] = tools_version]
        \/ tools_version' = version_read[s] + 1 /\ UNCHANGED version_read
    BY <1>1 DEF TaskStep, Attempt, Open, OpenFails, Shake, ShakeFails, Discover, PublishTools, Store,
                ServeEnds, SeesDeath, TakeNotice, RefreshFails, Ping, PingAnswered, PingFails,
                Backoff, Teardown
  <2>3. tools_version' \in Nat /\ version_read' \in [Server -> Nat]
    BY <2>2
  <2> QED BY <2>1, <2>3
<1>2. ASSUME NEW s \in Server, NEW n, ProcessExits(s, n) \/ ReaderEnds(s, n) PROVE AboutServers'
  BY <1>2 DEF ProcessExits, ReaderEnds
<1>3. ASSUME NEW s \in Server, FallsSilent(s) \/ Notify(s) \/ EmptySlot(s) PROVE AboutServers'
  BY <1>3 DEF FallsSilent, Notify, EmptySlot
<1>4. ASSUME NEW c \in ToolCall, CallTool(c) \/ ToolStep(c) PROVE AboutServers'
  BY <1>4 DEF CallTool, ToolStep, CallEnds, Unauthorized, Renewed, Release
<1>5. CASE Start \/ Shutdown \/ Halt \/ UNCHANGED mcpVars
  BY <1>5 DEF Start, Shutdown, Halt, mcpVars
<1> QED BY <1>1, <1>2, <1>3, <1>4, <1>5 DEF McpNext, HostStep

McpTypes == McpInv /\ AboutServers /\ \A s \in Server : SessionsOpened(s)

LEMMA McpStarts == McpInit => McpTypes
<1>1. McpInit => AboutServers /\ \A s \in Server : SessionsOpened(s)
  BY McpAssumption DEF McpInit, AboutServers, SessionsOpened, Resting, McpConfig
<1> QED BY <1>1, McpInvStarts DEF McpTypes

LEMMA McpKept == McpTypes /\ [McpNext]_mcpVars => McpTypes'
BY McpInvKept, ServersKept, SessionsKept DEF McpTypes, McpInv

LEMMA McpFits == McpTypes => McpTypeOK
<1> SUFFICES ASSUME McpShape, AboutServers, \A s \in Server : SessionsOpened(s) PROVE McpTypeOK
  BY DEF McpTypes, McpInv
<1>1. \A s \in Server :
        /\ {session[s], slot[s], tools[s]} \subseteq 0 .. opened[s]
        /\ alive[s] \cup hearing[s] \subseteq 1 .. opened[s] /\ opened[s] <= MaxSessions
  BY DEF McpShape, SessionsOpened
<1>2. calls \in [ToolCall -> [at : {"idle", "first", "renew", "second", "done"},
                              on : 0 .. MaxSessions]]
  <2>1. \A c \in ToolCall : calls[c].on \in 0 .. MaxSessions
    <3>1. \A c \in ToolCall : ServerOf[c] \in Server /\ MaxSessions \in Nat
      BY McpAssumption DEF McpConfig
    <3> QED BY <3>1 DEF McpShape, SessionsOpened
  <2> QED BY <2>1 DEF McpShape
<1> QED BY <1>1, <1>2 DEF McpShape, LifeStates, AboutServers, McpTypeOK

\* The variables of the MCP servers have their types: every session anybody
\* refers to has been opened (mcp/lifecycle.rs).
THEOREM McpTyped == McpSpec => []McpTypeOK
BY McpStarts, McpKept, McpFits, PTL DEF McpSpec

-----------------------------------------------------------------------------
(* The parts side by side. *)

\* A step of one part is a step of it and leaves every other as it is.
LEMMA WorkspaceStep ==
  [WorkspaceNext]_workspaceVars =>
    /\ [WorktreeNext]_worktreeVars /\ [TasksNext]_taskVars /\ [McpNext]_mcpVars
    /\ [FilesNext]_filesVars /\ [SendNext]_vars /\ [AuthorizationNext]_authVars
    /\ [StreamNext]_streamVars
<1>1. CASE UNCHANGED workspaceVars
  BY <1>1 DEF workspaceVars
<1>2. CASE Only("worktree") /\ WorktreeNext
  BY <1>2 DEF Only
<1>3. CASE Only("tasks") /\ TasksNext
  BY <1>3 DEF Only
<1>4. CASE Only("mcp") /\ McpNext
  BY <1>4 DEF Only
<1>5. CASE Only("files") /\ FilesNext
  BY <1>5 DEF Only
<1>6. CASE Only("send") /\ SendNext
  BY <1>6 DEF Only
<1>7. CASE Only("authorization") /\ AuthorizationNext
  BY <1>7 DEF Only
<1>8. CASE Only("stream") /\ StreamNext
  BY <1>8 DEF Only
<1> QED BY <1>1, <1>2, <1>3, <1>4, <1>5, <1>6, <1>7, <1>8 DEF WorkspaceNext

\* A behaviour of the workspace is one of every part, but for fairness, which
\* says something of the part that runs only.
LEMMA WorkspaceRefined ==
  WorkspaceSpec =>
    /\ WorktreeInit /\ [][WorktreeNext]_worktreeVars
    /\ TasksInit /\ [][TasksNext]_taskVars
    /\ McpInit /\ [][McpNext]_mcpVars
    /\ FilesSpec /\ SendSpec
    /\ AuthorizationInit /\ [][AuthorizationNext]_authVars
    /\ StreamInit /\ [][StreamNext]_streamVars
<1>1. WorkspaceInit =>
        /\ WorktreeInit /\ TasksInit /\ McpInit /\ FilesInit /\ SendInit /\ AuthorizationInit
        /\ StreamInit
  BY DEF WorkspaceInit
<1> QED BY <1>1, WorkspaceStep, PTL DEF WorkspaceSpec, FilesSpec, SendSpec

\* Every variable of every part has its type, whatever the others do.
THEOREM WorkspaceTypes == WorkspaceSpec => []WorkspaceTypeOK
<1>1. WorktreeInit /\ [][WorktreeNext]_worktreeVars => []WorktreeTypeOK
  BY WorktreeNames, MergesStart, WorktreeTypesKept, WorktreeTyped, PTL DEF WorktreeTypes
<1>2. TasksInit /\ [][TasksNext]_taskVars => []TasksTypeOK
  BY TasksStart, TasksKept, TasksFit, PTL
<1>3. McpInit /\ [][McpNext]_mcpVars => []McpTypeOK
  BY McpStarts, McpKept, McpFits, PTL
<1>4. FilesSpec => []FilesTypeOK
  BY FenceIsExclusive, PTL
<1>5. AuthorizationInit /\ [][AuthorizationNext]_authVars => []AuthorizationTypeOK
  BY AuthorizationStarts, AuthorizationKept, AuthorizationTyped, PTL
<1>6. StreamInit /\ [][StreamNext]_streamVars => []StreamTypeOK
  BY StreamStarts, StreamKeeps, StreamTyped, PTL
<1> QED BY <1>1, <1>2, <1>3, <1>4, <1>5, <1>6, WorkspaceRefined, SendTypes, PTL DEF WorkspaceTypeOK

\* Side by side the parts keep what each keeps on its own: the account of the
\* output, processes that end and sessions that are the latest, the fences and
\* the bases of the files.
THEOREM WorkspaceIsSafe ==
  WorkspaceSpec => [](/\ OutputAccounted /\ NothingLeftRunning /\ ReadyServesLatest
                      /\ FenceExclusive /\ BaseIsCurrent)
<1>1. TasksInit /\ [][TasksNext]_taskVars => []OutputAccounted
  BY OutputStarts, OutputKept, OutputFits, PTL
<1>2. McpInit /\ [][McpNext]_mcpVars => [](NothingLeftRunning /\ ReadyServesLatest)
  BY McpInvStarts, McpInvKept, McpStops, McpServesLatest, PTL
<1>3. FilesSpec => [](FenceExclusive /\ BaseIsCurrent)
  BY FenceIsExclusive, BaseStaysCurrent, PTL
<1> QED BY <1>1, <1>2, <1>3, WorkspaceRefined, PTL

\* Merges stay whole in a workspace as they do alone.
THEOREM MergesAreWholeTogether == WorkspaceSpec => []NothingHalfDone
<1>1. WorktreeInit => MergeInv
  BY MergesStart DEF MergeInv
<1> QED BY <1>1, MergeKept, MergeIsWhole, WorkspaceRefined, PTL
=============================================================================
