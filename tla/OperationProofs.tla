--------------------------- MODULE OperationProofs ---------------------------
(****************************************************************************)
(* Operations and what they are allowed to do, for any operations, classes, *)
(* limits, capability generations, calls and deciders.  Whatever lies below *)
(* an operation that was cancelled or given up is cancelled, a slot is kept *)
(* only for what still runs, nothing of a revoked generation runs on, and a *)
(* tool call runs only under a verdict of the generation that is current.  *)
(****************************************************************************)
EXTENDS OperationControl, Authorization, FiniteSetTheorems, TLAPS

-----------------------------------------------------------------------------
(* Cancellation and revocation of operations. *)

\* The constants are what the module assumes of them.
LEMMA OperationConstants ==
  /\ Root \cap Child = {} /\ ClassOf \in [Root -> Class] /\ RootLimit \in Nat \ {0}
  /\ None \notin Op /\ \A r \in Root : r # None /\ KindOf[r] # None
BY OperationAssumption DEF OperationConfig, Op

-----------------------------------------------------------------------------
(* The ancestors of a child, for any assignment `up` of parents. *)

UpClosed(up, c, kids) ==
  {met \in SUBSET (Op \cup {None}) : up[c] \in met /\ \A p \in met \cap kids : up[p] \in met}
Above(up, c, kids) == {a \in Op \cup {None} : \A met \in UpClosed(up, c, kids) : a \in met}
Parents == [Op -> Op \cup {None}]

\* The parent is an ancestor, and so is the parent of every child among them.
LEMMA AboveFacts ==
  ASSUME NEW up \in Parents, NEW c \in Op, NEW kids \in SUBSET Op
  PROVE  /\ up[c] \in Above(up, c, kids)
         /\ \A p \in Above(up, c, kids) \cap kids : up[p] \in Above(up, c, kids)
         /\ Above(up, c, kids) \in UpClosed(up, c, kids)
BY DEF Above, UpClosed, Parents

\* They are the least set of this kind.
LEMMA AboveLeast ==
  ASSUME NEW up, NEW c, NEW kids, NEW met \in UpClosed(up, c, kids)
  PROVE  Above(up, c, kids) \subseteq met
BY DEF Above

\* Only the parents of c and of the children matter.
LEMMA AboveSame ==
  ASSUME NEW up \in Parents, NEW other \in Parents, NEW c \in Op, NEW kids \in SUBSET Op,
         \A x \in kids \cup {c} : up[x] = other[x]
  PROVE  Above(up, c, kids) = Above(other, c, kids)
<1>1. UpClosed(up, c, kids) = UpClosed(other, c, kids)
  BY DEF UpClosed
<1> QED BY <1>1 DEF Above

\* What lies above an ancestor that is a child lies above its descendants.
LEMMA AboveAbove ==
  ASSUME NEW up \in Parents, NEW c \in Op, NEW kids \in SUBSET Op,
         NEW p \in kids, p \in Above(up, c, kids)
  PROVE  Above(up, p, kids) \subseteq Above(up, c, kids)
<1>1. Above(up, c, kids) \in UpClosed(up, p, kids)
  BY AboveFacts DEF UpClosed
<1> QED BY <1>1, AboveLeast

\* Ancestors do not get lost when children come, nor when those that go are
\* none of them.
LEMMA AboveMore ==
  ASSUME NEW up \in Parents, NEW c \in Op, NEW kids \in SUBSET Op, NEW more \in SUBSET Op,
         Above(up, c, kids) \cap kids \subseteq more
  PROVE  Above(up, c, kids) \subseteq Above(up, c, more)
<1> DEFINE met == Above(up, c, kids) \cap Above(up, c, more)
<1>1. /\ up[c] \in met
      /\ \A p \in met \cap kids : up[p] \in met
  BY AboveFacts
<1>2. met \in UpClosed(up, c, kids)
  BY <1>1 DEF UpClosed, Above
<1> QED BY <1>2, AboveLeast

ParentOf == [o \in Op |-> op[o].parent]

\* Ancestors follows the parents of the table.
LEMMA AncestorsAre ==
  ASSUME NEW c \in Op, NEW kids \in SUBSET Op
  PROVE  Ancestors(c, kids) = Above(ParentOf, c, kids)
<1>1. UpClosed(ParentOf, c, kids) = {met \in SUBSET (Op \cup {None}) :
        op[c].parent \in met /\ \A p \in met \cap kids : op[p].parent \in met}
  BY DEF UpClosed, ParentOf
<1> QED BY <1>1 DEF Ancestors, Above

-----------------------------------------------------------------------------
(* The background roots that stay. *)
\* In a finite set of numbers every rank up to its size is that of one of them.
LEMMA RankFact ==
    ASSUME NEW ids, IsFiniteSet(ids), ids \subseteq Nat
    PROVE  /\ Cardinality(ids) \in Nat
           /\ \A o \in ids : Cardinality({p \in ids : p <= o}) \in 1..Cardinality(ids)
           /\ \A i \in 1..Cardinality(ids) : \E o \in ids : Cardinality({p \in ids : p <= o}) = i
           /\ \A o, q \in ids :
                 Cardinality({p \in ids : p <= o}) = Cardinality({p \in ids : p <= q}) => o = q
<1> DEFINE upto(o) == {p \in ids : p <= o}
           rank == [o \in ids |-> Cardinality(upto(o))]
           n == Cardinality(ids)
<1>1. n \in Nat
  BY FS_CardinalityType
<1>2. \A o \in ids : IsFiniteSet(upto(o)) /\ Cardinality(upto(o)) \in Nat
                     /\ Cardinality(upto(o)) <= n
  <2> TAKE o \in ids
  <2>1. upto(o) \in SUBSET ids
    OBVIOUS
  <2> HIDE DEF upto
  <2> QED
    BY <2>1, FS_Subset, FS_CardinalityType
<1>3. \A o, q \in ids : o < q => Cardinality(upto(o)) < Cardinality(upto(q))
  <2> SUFFICES ASSUME NEW o \in ids, NEW q \in ids, o < q
               PROVE  Cardinality(upto(o)) < Cardinality(upto(q))
    OBVIOUS
  <2>1. upto(o) \in SUBSET upto(q) /\ q \in upto(q) /\ q \notin upto(o)
    <3>1. o \in Nat /\ q \in Nat
      OBVIOUS
    <3>2. \A p \in ids : p <= o => p <= q
      <4> TAKE p \in ids
      <4>1. p \in Nat
        OBVIOUS
      <4> QED
        BY <3>1, <4>1
    <3>3. q <= q /\ ~(q <= o)
      BY <3>1
    <3> QED
      BY <3>2, <3>3
  <2>2. IsFiniteSet(upto(q)) /\ Cardinality(upto(q)) \in Nat /\ Cardinality(upto(o)) \in Nat
    BY <1>2
  <2> HIDE DEF upto
  <2>3. Cardinality(upto(o)) <= Cardinality(upto(q))
        /\ Cardinality(upto(q)) # Cardinality(upto(o))
    BY <2>1, <2>2, FS_Subset
  <2> QED
    BY <2>2, <2>3
<1>4. \A o \in ids : Cardinality(upto(o)) >= 1
  <2> TAKE o \in ids
  <2>1. o \in upto(o)
    OBVIOUS
  <2> HIDE DEF upto
  <2> QED
    BY <1>2, <2>1, FS_EmptySet
<1>5. \A o \in ids : Cardinality(upto(o)) \in 1..n
  <2> HIDE DEF upto, n
  <2> QED
    BY <1>1, <1>2, <1>4
<1>6. \A o, q \in ids : Cardinality(upto(o)) = Cardinality(upto(q)) => o = q
  <2> TAKE o, q \in ids
  <2>1. o \in Nat /\ q \in Nat /\ Cardinality(upto(o)) \in Nat
    BY <1>2
  <2> HIDE DEF upto
  <2> QED
    BY <1>3, <2>1
<1>7. rank \in Injection(ids, 1..n)
  <2> HIDE DEF upto, n
  <2> QED
    BY <1>5, <1>6 DEF Injection, IsInjective
<1>8. IsFiniteSet(1..n) /\ Cardinality(1..n) = n
  <2> HIDE DEF n
  <2> QED
    BY <1>1, FS_Interval
<1>9. rank \in Surjection(ids, 1..n)
  <2> HIDE DEF rank
  <2> QED
    BY <1>7, <1>8, FS_Injection
<1>10. \A i \in 1..n : \E o \in ids : Cardinality(upto(o)) = i
  <2> HIDE DEF upto, n
  <2> QED
    BY <1>9 DEF Surjection
<1> QED
  BY <1>1, <1>5, <1>6, <1>10

\* Kept takes what stays, and nothing else.
LEMMA KeptFacts ==
  ASSUME NEW S, NEW s \in Seq(S), NEW stay
  PROVE  /\ Kept(s, stay) \in Seq(S) /\ Len(Kept(s, stay)) \in Nat /\ Len(Kept(s, stay)) <= Len(s)
         /\ ToSet(Kept(s, stay)) = ToSet(s) \cap stay
<1> DEFINE places == {i \in DOMAIN s : s[i] \in stay}
           upto(i) == {j \in places : j <= i}
           nth(n) == CHOOSE i \in places : Cardinality(upto(i)) = n
           n == Cardinality(places)
<1>1. places \in SUBSET (1 .. Len(s)) /\ places \subseteq Nat /\ Len(s) \in Nat
  OBVIOUS
<1>2. IsFiniteSet(places) /\ n \in Nat /\ n <= Len(s)
  <2> HIDE DEF places
  <2>1. IsFiniteSet(1 .. Len(s)) /\ Cardinality(1 .. Len(s)) = Len(s)
    <3>1. \A l \in Nat : IsFiniteSet(1 .. l) /\ Cardinality(1 .. l) = l
      <4> SUFFICES ASSUME NEW l \in Nat PROVE IsFiniteSet(1 .. l) /\ Cardinality(1 .. l) = l
        OBVIOUS
      <4>1. /\ IsFiniteSet(1 .. l)
            /\ Cardinality(1 .. l) = IF 1 > l THEN 0 ELSE l - 1 + 1
        BY FS_Interval
      <4> QED BY <4>1
    <3> QED BY <1>1, <3>1
  <2> QED BY <1>1, <2>1, FS_Subset, FS_CardinalityType
<1>3. /\ \A i \in places : Cardinality(upto(i)) \in 1 .. n
      /\ \A k \in 1 .. n : \E i \in places : Cardinality(upto(i)) = k
      /\ \A i, j \in places : Cardinality(upto(i)) = Cardinality(upto(j)) => i = j
  BY <1>1, <1>2, RankFact
<1>4. Kept(s, stay) = [k \in 1 .. n |-> s[nth(k)]]
  BY DEF Kept
<1>5. \A i \in places : s[i] \in S /\ s[i] \in stay
  OBVIOUS
<1> HIDE DEF places, n, upto
<1>6. \A k \in 1 .. n : nth(k) \in places
  BY <1>3
<1>7. \A i \in places : nth(Cardinality(upto(i))) = i
  BY <1>3, <1>6
<1> HIDE DEF nth
<1>8. Kept(s, stay) \in Seq(S) /\ Len(Kept(s, stay)) = n /\ DOMAIN Kept(s, stay) = 1 .. n
  BY <1>2, <1>4, <1>5, <1>6
<1>9. ToSet(Kept(s, stay)) = {s[i] : i \in places}
  BY <1>3, <1>4, <1>6, <1>7, <1>8 DEF ToSet
<1> QED BY <1>2, <1>8, <1>9 DEF ToSet, places

-----------------------------------------------------------------------------
(* The inductive invariant. *)

\* Where the task of an operation is tells whether the table has it.
Tabled ==
  /\ \A o \in Op : phase[o] \in {"begun", "running"} => o \in Active /\ ~op[o].released
  /\ \A o \in Active :
       \/ phase[o] \in {"begun", "running"}
       \/ op[o].released /\ phase[o] \in {"dropped", "gone"}
  /\ \A o \in Op : phase[o] \in {"resolved", "checked"} => ~op[o].released
  /\ \A o \in Op : phase[o] = "checked" => lock = o
  /\ lock # None => phase[lock] \in {"checked", "gone"} /\ lock \notin Active

\* An operation of an older generation that is not cancelled lies before a
\* sweep still to come, and so does one about to enter the table.
BeingSwept(o) == \E g \in sweeping : op[o].generation < g
RevokedSwept ==
  /\ \A o \in Active : op[o].generation < generation => op[o].cancelled \/ BeingSwept(o)
  /\ \A o \in Op : phase[o] = "checked" /\ op[o].generation < generation => BeingSwept(o)

\* A root's cancellation lets its children be; a child's, and a release, do not.
Cuts(a) == op[a].released \/ (a \in Child /\ op[a].cancelled)

\* A child has its parent in the table, of its own generation, and is cancelled
\* with it.  A child that is yet to enter finds the parent it was made by, or none.
Below ==
  /\ \A c \in children : op[c].parent \in Active
  /\ \A c \in children : Cuts(op[c].parent) => op[c].cancelled
  /\ \A c \in Child :
       (c \in children \/ phase[c] \in {"resolved", "checked"}) /\ op[c].parent \in Active
         => op[c].generation = op[op[c].parent].generation
  /\ \A c \in Child : phase[c] \in {"resolved", "checked"} =>
       op[c].parent \in Op /\ phase[op[c].parent] \in {"begun", "running", "dropped", "gone"}

OperationInv == OperationTypeOK /\ Tabled /\ RevokedSwept /\ Below /\ NoLeakedSlot

\* It holds when nothing has begun.
LEMMA InitOperation == OperationInit => OperationInv
<1> SUFFICES ASSUME OperationInit PROVE OperationInv
  OBVIOUS
<1> USE OperationConstants DEF OperationInit
<1>1. Active = {} BY DEF Active, Roots, RootsOf, Occupied, ToSet
<1>2. op \in [Op -> Identity]
  BY DEF Fresh, Identity
<1>3. OperationTypeOK
  <2>1. non_session_roots \in Seq(Root) /\ Len(non_session_roots) <= RootLimit
    OBVIOUS
  <2>2. publication \in [Op -> Kind \cup {None, Unchanged}] /\ clears \in [Op -> SUBSET Op]
    OBVIOUS
  <2>3. phase \in [Op -> Phase] /\ owner \in OwnerStep \cup Root
    BY DEF Phase, OwnerStep
  <2> QED BY <1>2, <2>1, <2>2, <2>3 DEF OperationTypeOK
<1>4. children = {} /\ (\A o \in Op : phase[o] = "new") /\ Child \subseteq Op /\ lock = None
  BY DEF Op
<1> HIDE DEF OperationInit
<1>5. Tabled /\ RevokedSwept /\ Below /\ NoLeakedSlot
  BY <1>1, <1>4 DEF Tabled, RevokedSwept, Below, NoLeakedSlot
<1> QED BY <1>3, <1>5 DEF OperationInv

-----------------------------------------------------------------------------
(* What the table's parts are. *)

\* Roots are roots and children are children.
LEMMA TableTypes ==
  ASSUME OperationTypeOK
  PROVE  /\ Roots \subseteq Root /\ children \subseteq Child /\ Active \subseteq Op
         /\ Roots \cap Child = {} /\ children \in SUBSET Op /\ ParentOf \in Parents
         /\ \A o \in Op : /\ op[o].parent \in Op \cup {None} /\ op[o].generation \in Nat
                          /\ op[o].cancelled \in BOOLEAN /\ op[o].released \in BOOLEAN
<1>1. Roots \subseteq Root
  BY DEF OperationTypeOK, Roots, RootsOf, Occupied, ToSet
<1>2. ParentOf \in Parents
  BY DEF OperationTypeOK, ParentOf, Parents, Identity
<1> QED BY <1>1, <1>2, OperationConstants DEF OperationTypeOK, Active, Op, Identity

\* An operation's descendants depend on the parents of children alone.
LEMMA SameDescendants ==
  ASSUME OperationTypeOK, OperationTypeOK', children' = children,
         \A c \in children : op'[c].parent = op[c].parent
  PROVE  \A o : Descendants(o, children)' = Descendants(o, children)
<1>1. \A c \in children : Ancestors(c, children)' = Ancestors(c, children)
  <2> SUFFICES ASSUME NEW c \in children
               PROVE  Ancestors(c, children)' = Ancestors(c, children)
    OBVIOUS
  <2>1. children \in SUBSET Op /\ c \in Op
    BY TableTypes
  <2> DEFINE closed == {met \in SUBSET (Op \cup {None}) :
          op[c].parent \in met /\ \A p \in met \cap children : op[p].parent \in met}
  <2>2. {met \in SUBSET (Op \cup {None}) :
          op'[c].parent \in met /\ \A p \in met \cap children' : op'[p].parent \in met} = closed
    OBVIOUS
  <2> QED BY <2>2 DEF Ancestors
<1> QED BY <1>1 DEF Descendants

\* A child is below its parent and below whatever its parent is below.
LEMMA BelowParent ==
  ASSUME OperationTypeOK, NEW c \in children
  PROVE  /\ c \in Descendants(op[c].parent, children)
         /\ \A a : op[c].parent \in Descendants(a, children) => c \in Descendants(a, children)
<1>1. c \in Op /\ children \in SUBSET Op /\ ParentOf \in Parents /\ ParentOf[c] = op[c].parent
  BY TableTypes DEF ParentOf
<1>2. \A x \in children : Ancestors(x, children) = Above(ParentOf, x, children)
  BY <1>1, AncestorsAre
<1>3. op[c].parent \in Above(ParentOf, c, children)
  BY <1>1, AboveFacts
<1>4. op[c].parent \in children
        => Above(ParentOf, op[c].parent, children) \subseteq Above(ParentOf, c, children)
  BY <1>1, <1>3, AboveAbove
<1> QED BY <1>2, <1>3, <1>4 DEF Descendants

-----------------------------------------------------------------------------
(* Cancellation. *)

\* A step that cancels keeps the invariant if it takes the children of the
\* children it cancels, and whatever a finished sweep was there for.
LEMMA CancelKeeps ==
  ASSUME OperationInv, OperationTypeOK', NEW ops, op' = Cancel(ops),
         UNCHANGED <<session_write, non_session_roots, runtime_write, children, lock, phase,
                     generation>>,
         \A c \in children : op[c].parent \in ops \cap Child => c \in ops,
         sweeping' \subseteq sweeping,
         sweeping' # sweeping => lock = None,
         \A g \in sweeping \ sweeping' : \A o \in Active : op[o].generation < g => o \in ops
  PROVE  OperationInv'
<1>1. Active' = Active
  BY DEF Active, Roots
<1>2. \A o \in Op : /\ op'[o].parent = op[o].parent /\ op'[o].generation = op[o].generation
                    /\ op'[o].released = op[o].released
                    /\ (op'[o].cancelled <=> op[o].cancelled \/ o \in ops)
  BY DEF OperationInv, OperationTypeOK, Cancel, Identity
<1>3. Active \subseteq Op /\ children \subseteq Child /\ Child \subseteq Op
  BY TableTypes DEF OperationInv, Op
<1>4. Tabled'
  BY <1>1, <1>2, <1>3 DEF OperationInv, Tabled
<1>5. RevokedSwept'
  <2>1. \A o \in Active : op[o].generation < generation => op'[o].cancelled \/ BeingSwept(o)'
    <3> SUFFICES ASSUME NEW o \in Active, op[o].generation < generation, o \notin ops,
                        ~op[o].cancelled
                 PROVE  BeingSwept(o)'
      BY <1>2, <1>3
    <3>1. PICK g \in sweeping : op[o].generation < g
      BY DEF OperationInv, RevokedSwept, BeingSwept
    <3>2. g \in sweeping'
      BY <3>1
    <3> QED BY <1>2, <1>3, <3>1, <3>2 DEF BeingSwept
  <2>2. \A o \in Op : phase[o] = "checked" /\ op[o].generation < generation => BeingSwept(o)'
    BY <1>2, OperationConstants DEF OperationInv, Tabled, RevokedSwept, BeingSwept
  <2> QED BY <1>1, <1>2, <1>3, <2>1, <2>2 DEF RevokedSwept
<1>6. Below'
  <2>1. \A c \in children : op[c].parent \in Active /\ op[c].parent \in Op /\ c \in Op
    BY <1>3 DEF OperationInv, Below
  <2>2. \A c \in children : Cuts(op[c].parent)' => op'[c].cancelled
    BY <1>2, <2>1 DEF OperationInv, Below, Cuts
  <2> QED BY <1>1, <1>2, <1>3, <2>1, <2>2 DEF OperationInv, Below, Cuts
<1>7. NoLeakedSlot'
  <2>1. \A o : Descendants(o, children)' = Descendants(o, children)
    BY <1>2, <1>3, SameDescendants DEF OperationInv
  <2>2. \A o : Descendants(o, children) \subseteq Op
    BY <1>3 DEF Descendants
  <2> QED BY <1>1, <1>2, <1>3, <2>1, <2>2 DEF OperationInv, NoLeakedSlot
<1> QED BY <1>4, <1>5, <1>6, <1>7 DEF OperationInv

\* Cancelling keeps the types.
LEMMA CancelTypes ==
  ASSUME op \in [Op -> Identity], NEW ops PROVE Cancel(ops) \in [Op -> Identity]
BY DEF Cancel, Identity

\* A request cancels what lies below its target.
LEMMA RequestKeeps == ASSUME OperationInv, NEW o \in Op, Request(o) PROVE OperationInv'
<1> DEFINE ops == {o} \cup Descendants(o, children)
<1>1. OperationTypeOK'
  BY CancelTypes DEF Request, OperationInv, OperationTypeOK, capability, projection
<1>2. \A c \in children : op[c].parent \in ops => c \in ops
  BY BelowParent DEF OperationInv
<1>3. op' = Cancel(ops)
  BY DEF Request
<1> HIDE DEF ops
<1> QED BY <1>1, <1>2, <1>3, CancelKeeps DEF Request, capability

\* A sweep cancels the older generations; a child is of its parent's.
LEMMA SweepKeeps ==
  ASSUME OperationInv, NEW g \in sweeping, CancelGenerationsBefore(g) PROVE OperationInv'
<1> DEFINE oldRoots == {r \in Roots : op[r].generation < g}
           oldChildren == {c \in children : op[c].generation < g}
           ops == oldRoots \cup oldChildren \cup UNION {Descendants(r, children) : r \in oldRoots}
<1>1. op' = Cancel(ops) /\ sweeping' = sweeping \ {g} /\ lock = None
  BY DEF CancelGenerationsBefore
<1>2. OperationTypeOK'
  BY <1>1, CancelTypes
  DEF CancelGenerationsBefore, OperationInv, OperationTypeOK, projection
<1>3. ASSUME NEW c \in children, op[c].parent \in ops \cap Child PROVE c \in ops
  <2>1. CASE op[c].parent \in oldChildren
    BY <2>1, <1>3, TableTypes DEF OperationInv, Below, Active
  <2>2. ASSUME NEW r \in oldRoots, op[c].parent \in Descendants(r, children) PROVE c \in ops
    BY <2>2, BelowParent DEF OperationInv
  <2>3. op[c].parent \notin oldRoots
    BY <1>3, TableTypes DEF OperationInv
  <2> QED BY <1>3, <2>1, <2>2, <2>3
<1>4. \A o \in Active : op[o].generation < g => o \in ops
  BY DEF Active
<1> HIDE DEF ops
<1> QED BY <1>1, <1>2, <1>3, <1>4, CancelKeeps DEF CancelGenerationsBefore

\* Shutdown cancels whatever is active.
LEMMA ShutdownKeeps == ASSUME OperationInv, CancelForShutdown PROVE OperationInv'
<1>1. op' = Cancel(Active)
  BY DEF CancelForShutdown
<1>2. OperationTypeOK'
  BY <1>1, CancelTypes
  DEF CancelForShutdown, OperationInv, OperationTypeOK, capability, OwnerStep
<1> QED BY <1>1, <1>2, CancelKeeps DEF CancelForShutdown, capability, Active

-----------------------------------------------------------------------------
(* Steps that leave the table as it is. *)

\* Steps of the projection, of a window and of the owner.
LEMMA QuietKeeps ==
  ASSUME OperationInv, OperationTypeOK',
         UNCHANGED <<session_write, non_session_roots, runtime_write, children, lock, capability>>,
         \A o \in Op : \/ phase'[o] = phase[o]
                       \/ phase[o] = "begun" /\ phase'[o] = "running"
                       \/ phase[o] = "dropped" /\ phase'[o] = "gone",
         \A o \in Op : /\ op'[o].parent = op[o].parent /\ op'[o].generation = op[o].generation
                       /\ op'[o].released = op[o].released /\ op'[o].cancelled = op[o].cancelled
  PROVE  OperationInv'
<1>1. Active' = Active /\ Active \subseteq Op /\ children \subseteq Child /\ Child \subseteq Op
  BY TableTypes DEF Active, Roots, OperationInv, Op
<1>2. lock \in Op \cup {None} /\ generation' = generation /\ sweeping' = sweeping
  BY DEF OperationInv, OperationTypeOK, capability
<1>3. Tabled'
  BY <1>1, <1>2 DEF OperationInv, Tabled
<1>4. RevokedSwept'
  <2>1. \A o \in Op : BeingSwept(o)' <=> BeingSwept(o)
    BY <1>2 DEF BeingSwept
  <2> QED BY <1>1, <1>2, <2>1 DEF OperationInv, RevokedSwept
<1>5. Below'
  <2>1. \A c \in children : op[c].parent \in Op /\ c \in Op
    BY <1>1 DEF OperationInv, Below
  <2>2. \A c \in Child : phase'[c] \in {"resolved", "checked"} =>
          phase[c] \in {"resolved", "checked"}
    BY <1>1
  <2> QED BY <1>1, <2>1, <2>2 DEF OperationInv, Below, Cuts
<1>6. NoLeakedSlot'
  <2>1. \A o : Descendants(o, children)' = Descendants(o, children)
    BY <1>1, SameDescendants DEF OperationInv
  <2>2. \A o : Descendants(o, children) \subseteq Op
    BY <1>1 DEF Descendants
  <2> QED BY <1>1, <2>1, <2>2 DEF OperationInv, NoLeakedSlot
<1> QED BY <1>3, <1>4, <1>5, <1>6 DEF OperationInv

\* A window that closes or opens again changes nothing else.
LEMMA WindowKeeps ==
  ASSUME OperationInv, NEW o \in Op, CloseWindow(o) \/ ReopenWindow(o) PROVE OperationInv'
<1>1. \E b \in BOOLEAN : op' = [op EXCEPT ![o].open = b]
  BY DEF CloseWindow, ReopenWindow
<1>2. op' \in [Op -> Identity]
  <2>1. op \in [Op -> Identity]
    BY DEF OperationInv, OperationTypeOK
  <2>2. PICK b \in BOOLEAN : op' = [op EXCEPT ![o].open = b]
    BY <1>1
  <2>3. [op[o] EXCEPT !.open = b] \in Identity
    BY <2>1 DEF Identity
  <2> QED BY <2>1, <2>2, <2>3
<1>3. UNCHANGED <<session_write, non_session_roots, runtime_write, children, lock, phase,
                  publication, clears, contexts, capability, projection, owner>>
  BY DEF CloseWindow, ReopenWindow
<1>4. OperationTypeOK'
  BY <1>2, <1>3 DEF OperationInv, OperationTypeOK, capability, projection
<1>5. \A x \in Op : /\ op'[x].parent = op[x].parent /\ op'[x].generation = op[x].generation
                    /\ op'[x].released = op[x].released /\ op'[x].cancelled = op[x].cancelled
  BY <1>1 DEF OperationInv, OperationTypeOK, Identity
<1> QED BY <1>3, <1>4, <1>5, QuietKeeps

\* Projection after the unlock.
LEMMA PublishKeeps ==
  ASSUME OperationInv, NEW o \in Op, (\E spawn \in BOOLEAN : PublishBegin(o, spawn)) \/ PublishDrop(o)
  PROVE  OperationInv'
<1>1. /\ UNCHANGED <<table, lock, capability, lifecycle>>
      /\ \/ phase[o] = "begun" /\ phase' = [phase EXCEPT ![o] = "running"]
         \/ phase[o] = "dropped" /\ phase' = [phase EXCEPT ![o] = "gone"]
      /\ publication' = [publication EXCEPT ![o] = Unchanged]
      /\ contexts' = contexts \cup {o} \/ contexts' = contexts \ clears[o]
      /\ clears' = clears \/ clears' = [clears EXCEPT ![o] = {}]
      /\ owner' = owner \/ owner' = "idle"
      /\ SetActive(publication[o])
  BY DEF PublishBegin, PublishDrop
<1>2. /\ phase' \in [Op -> Phase]
      /\ publication' \in [Op -> Kind \cup {None, Unchanged}] /\ clears' \in [Op -> SUBSET Op]
      /\ contexts' \subseteq Op /\ owner' \in OwnerStep \cup Root
  BY <1>1 DEF OperationInv, OperationTypeOK, Phase, OwnerStep
<1>3. active_operation' \in Kind \cup {None} /\ changed' \in BOOLEAN
  BY <1>1 DEF OperationInv, OperationTypeOK, SetActive
<1>4. OperationTypeOK'
  BY <1>1, <1>2, <1>3 DEF OperationInv, OperationTypeOK, table, capability
<1>5. \A x \in Op : \/ phase'[x] = phase[x]
                    \/ phase[x] = "begun" /\ phase'[x] = "running"
                    \/ phase[x] = "dropped" /\ phase'[x] = "gone"
  BY <1>1 DEF OperationInv, OperationTypeOK
<1> QED BY <1>1, <1>4, <1>5, QuietKeeps DEF table

\* The owner's other steps.
LEMMA OwnerKeeps ==
  ASSUME OperationInv,
         RequestShutdown \/ BeginShutdown \/ Drain \/ Wake \/ FinishShutdown \/ UNCHANGED opVars
  PROVE  OperationInv'
<1>1. UNCHANGED <<table, lock, phase, publication, clears, contexts, capability,
                  active_operation>>
  BY DEF RequestShutdown, BeginShutdown, Drain, Wake, FinishShutdown, opVars, projection
<1>2. /\ lifecycle' \in {"Running", "ShuttingDown", "ShutDown"} /\ changed' \in BOOLEAN
      /\ owner' \in OwnerStep \cup Root
  BY DEF RequestShutdown, BeginShutdown, Drain, Wake, FinishShutdown, opVars, projection,
         OwnerStep, OperationInv, OperationTypeOK
<1>3. OperationTypeOK'
  BY <1>1, <1>2 DEF OperationInv, OperationTypeOK, table, capability
<1> QED BY <1>1, <1>3, QuietKeeps DEF table

\* A sweep is to come for whatever the new generation makes old.
LEMMA InstallKeeps == ASSUME OperationInv, InstallGeneration PROVE OperationInv'
<1>1. /\ generation' = generation + 1 /\ sweeping' = sweeping \cup {generation'}
      /\ UNCHANGED <<table, lock, phase, publication, clears, contexts, projection, owner>>
  BY DEF InstallGeneration
<1>2. OperationTypeOK'
  BY <1>1 DEF OperationInv, OperationTypeOK, table, projection
<1>3. Active' = Active /\ Active \subseteq Op
  BY <1>1, TableTypes DEF Active, Roots, table, OperationInv
<1>4. \A o \in Op : op[o].generation < generation' =>
        op[o].generation < generation \/ \E g \in sweeping' : op[o].generation < g
  BY <1>1
<1>5. RevokedSwept'
  <2>1. \A o \in Op : BeingSwept(o) => BeingSwept(o)'
    BY <1>1 DEF BeingSwept, table
  <2>2. \A o \in Op : op'[o].generation < generation' => op[o].generation < generation \/ BeingSwept(o)'
    BY <1>1, <1>4 DEF BeingSwept, table
  <2> QED BY <1>1, <1>3, <2>1, <2>2 DEF OperationInv, RevokedSwept, table
<1>6. Tabled' /\ Below' /\ NoLeakedSlot'
  <2>1. \A o : Descendants(o, children)' = Descendants(o, children)
    BY <1>1 DEF Descendants, Ancestors, table
  <2> QED BY <1>1, <1>3, <2>1 DEF OperationInv, Tabled, Below, Cuts, NoLeakedSlot, table
<1> QED BY <1>2, <1>5, <1>6 DEF OperationInv

-----------------------------------------------------------------------------
(* Admission. *)

\* Steps of an operation that is not in the table.
LEMMA OutsideKeeps ==
  ASSUME OperationInv, OperationTypeOK', NEW x \in Op, x \notin Active,
         UNCHANGED <<session_write, non_session_roots, runtime_write, children, capability>>,
         \A o \in Op \ {x} : op'[o] = op[o] /\ phase'[o] = phase[o],
         phase[x] \in {"new", "resolved", "checked"} \/ (phase[x] = "gone" /\ phase'[x] = "gone"),
         phase'[x] \in {"resolved", "checked", "gone"},
         phase'[x] # "gone" => ~op'[x].released,
         phase'[x] = "checked" => lock' = x /\ ~(op'[x].generation < generation),
         lock' = lock \/ (lock = None /\ lock' = x) \/ (lock = x /\ lock' = None),
         lock' = x => phase'[x] \in {"checked", "gone"},
         x \in Child /\ phase'[x] # "gone" =>
           /\ op'[x].parent \in Op \ {x}
           /\ phase[op'[x].parent] \in {"begun", "running", "dropped", "gone"}
           /\ (op'[x].parent \in Active => op'[x].generation = op[op'[x].parent].generation)
  PROVE  OperationInv'
<1>1. Active' = Active /\ Active \subseteq Op /\ children \subseteq Child /\ Child \subseteq Op
      /\ children \subseteq Active /\ None \notin Op
  BY TableTypes, OperationConstants DEF Active, Roots, OperationInv, Op
<1>2. lock \in Op \cup {None} /\ generation' = generation /\ sweeping' = sweeping
  BY DEF OperationInv, OperationTypeOK, capability
<1>3. Tabled'
  <2>1. \A o \in Op : phase'[o] \in {"begun", "running"} => o \in Active /\ ~op'[o].released
    BY DEF OperationInv, Tabled
  <2>2. \A o \in Active : \/ phase'[o] \in {"begun", "running"}
                          \/ op'[o].released /\ phase'[o] \in {"dropped", "gone"}
    BY <1>1 DEF OperationInv, Tabled
  <2>3. \A o \in Op : phase'[o] \in {"resolved", "checked"} => ~op'[o].released
    BY DEF OperationInv, Tabled
  <2>4. \A o \in Op : phase'[o] = "checked" => lock' = o
    BY <1>1 DEF OperationInv, Tabled
  <2>5. lock' # None => phase'[lock'] \in {"checked", "gone"} /\ lock' \notin Active
    BY <1>1, <1>2 DEF OperationInv, Tabled
  <2> QED BY <1>1, <2>1, <2>2, <2>3, <2>4, <2>5 DEF Tabled
<1>4. RevokedSwept'
  <2>1. \A o \in Op \ {x} : BeingSwept(o)' <=> BeingSwept(o)
    BY <1>2 DEF BeingSwept
  <2> QED BY <1>1, <1>2, <2>1 DEF OperationInv, RevokedSwept
<1>5. Below'
  <2>1. \A c \in children : op[c].parent \in Op \ {x} /\ c \in Op \ {x}
    BY <1>1 DEF OperationInv, Below
  <2>2. \A c \in children :
          /\ op'[c] = op[c] /\ op'[op[c].parent] = op[op[c].parent]
          /\ op[c].parent \in Active /\ (Cuts(op[c].parent) => op[c].cancelled)
          /\ op[c].generation = op[op[c].parent].generation
    BY <1>1, <2>1 DEF OperationInv, Below
  <2>5. \A c \in children : /\ op'[c].parent \in Active
                            /\ \A a : a = op'[c].parent /\ Cuts(a)' => op'[c].cancelled
    BY <2>2 DEF Cuts
  <2>3. \A c \in Child : phase'[c] \in {"resolved", "checked"} =>
          /\ op'[c].parent \in Op /\ phase'[op'[c].parent] \in {"begun", "running", "dropped", "gone"}
          /\ op'[c].parent \in Active => op'[c].generation = op'[op'[c].parent].generation
    <3> SUFFICES ASSUME NEW c \in Child, phase'[c] \in {"resolved", "checked"}
                 PROVE  /\ op'[c].parent \in Op
                        /\ phase'[op'[c].parent] \in {"begun", "running", "dropped", "gone"}
                        /\ op'[c].parent \in Active =>
                             op'[c].generation = op'[op'[c].parent].generation
      OBVIOUS
    <3>1. CASE c = x
      BY <3>1, <1>1
    <3>2. CASE c # x
      <4>1. op'[c] = op[c] /\ phase[c] \in {"resolved", "checked"} /\ op[c].parent \in Op
            /\ phase[op[c].parent] \in {"begun", "running", "dropped", "gone"}
            /\ (op[c].parent \in Active => op[c].generation = op[op[c].parent].generation)
        BY <3>2, <1>1 DEF OperationInv, Below
      <4>2. CASE op[c].parent = x
        BY <4>1, <4>2
      <4>3. CASE op[c].parent # x
        BY <4>1, <4>3
      <4> QED BY <4>2, <4>3
    <3> QED BY <3>1, <3>2
  <2>4. \A c \in children : op'[c].generation = op'[op'[c].parent].generation
    BY <2>2
  <2> QED BY <1>1, <2>3, <2>4, <2>5 DEF Below, Cuts
<1>6. NoLeakedSlot'
  <2>1. \A c \in children : op'[c] = op[c]
    BY <1>1
  <2>2. \A o : Descendants(o, children)' = Descendants(o, children)
    BY <2>1, SameDescendants DEF OperationInv
  <2>3. \A o : Descendants(o, children) \subseteq children
    BY DEF Descendants
  <2> QED BY <1>1, <2>1, <2>2, <2>3 DEF OperationInv, NoLeakedSlot
<1> QED BY <1>3, <1>4, <1>5, <1>6 DEF OperationInv

\* What is fresh has the type of an identity.
LEMMA FreshTypes ==
  ASSUME NEW parent \in Op \cup {None}, NEW g \in Nat
  PROVE  /\ Fresh(parent, g) \in Identity /\ Fresh(parent, g).parent = parent
         /\ Fresh(parent, g).generation = g /\ Fresh(parent, g).released = FALSE
BY DEF Fresh, Identity

\* A root is resolved for the current generation, a child for its parent's.
LEMMA ResolveKeeps ==
  ASSUME OperationInv, NEW x \in Op,
         \/ x \in Root /\ Resolve(x)
         \/ x \in Child /\ \E parent \in Op \ {x} : ResolveChild(x, parent)
  PROVE  OperationInv'
<1>1. PICK parent \in Op \cup {None}, g \in Nat :
        /\ op' = [op EXCEPT ![x] = Fresh(parent, g)]
        /\ x \in Child => /\ parent \in Op \ {x} /\ phase[parent] = "running"
                          /\ g = op[parent].generation
  BY TableTypes, OperationConstants DEF Resolve, ResolveChild, OperationInv, OperationTypeOK
<1>2. /\ phase[x] = "new" /\ phase' = [phase EXCEPT ![x] = "resolved"]
      /\ UNCHANGED <<session_write, non_session_roots, runtime_write, children, lock,
                     publication, clears, contexts, capability, projection>>
      /\ owner' = owner \/ (x \in Root /\ owner' = x)
  BY OperationConstants DEF Resolve, ResolveChild
<1>3. op \in [Op -> Identity] /\ phase \in [Op -> Phase]
  BY DEF OperationInv, OperationTypeOK
<1>4. OperationTypeOK'
  <2>1. op' \in [Op -> Identity]
    BY <1>1, <1>3, FreshTypes
  <2>2. phase' \in [Op -> Phase]
    BY <1>2, <1>3 DEF Phase
  <2> QED BY <1>2, <2>1, <2>2 DEF OperationInv, OperationTypeOK, capability, projection
<1>5. /\ \A o \in Op \ {x} : op'[o] = op[o] /\ phase'[o] = phase[o]
      /\ phase'[x] = "resolved" /\ op'[x] = Fresh(parent, g)
  BY <1>1, <1>2, <1>3
<1>6. x \notin Active /\ lock # x
  BY <1>2, OperationConstants DEF OperationInv, Tabled
<1>7. op'[x].parent = parent /\ op'[x].generation = g /\ op'[x].released = FALSE
  BY <1>5 DEF Fresh
<1> QED BY <1>1, <1>2, <1>4, <1>5, <1>6, <1>7, OutsideKeeps

\* A stale operation is refused; any other goes on with the mutex held.
LEMMA ReadKeeps == ASSUME OperationInv, NEW o \in Op, ReadGeneration(o) PROVE OperationInv'
<1>1. /\ lock = None /\ phase[o] = "resolved" /\ lock' = o
      /\ phase' = [phase EXCEPT ![o] = IF op[o].generation < generation THEN "gone" ELSE "checked"]
      /\ UNCHANGED <<table, publication, clears, contexts, capability, projection, owner>>
  BY DEF ReadGeneration
<1>2. OperationTypeOK'
  BY <1>1 DEF OperationInv, OperationTypeOK, table, capability, projection, Phase
<1>3. /\ \A x \in Op \ {o} : op'[x] = op[x] /\ phase'[x] = phase[x]
      /\ phase'[o] = IF op[o].generation < generation THEN "gone" ELSE "checked"
      /\ op' = op
  BY <1>1 DEF OperationInv, OperationTypeOK, table
<1>4. o \notin Active /\ ~op[o].released
  BY <1>1 DEF OperationInv, Tabled
<1>5. o \in Child => /\ op[o].parent \in Op \ {o}
                     /\ phase[op[o].parent] \in {"begun", "running", "dropped", "gone"}
                     /\ op[o].parent \in Active => op[o].generation = op[op[o].parent].generation
  BY <1>1 DEF OperationInv, Below
<1> QED BY <1>1, <1>2, <1>3, <1>4, <1>5, OutsideKeeps DEF table

\* A refused operation leaves the table as it was.
LEMMA RefusedKeeps == ASSUME OperationInv, NEW o \in Op, BeginRefused(o) PROVE OperationInv'
<1>1. /\ lock = o /\ lock' = None /\ phase' = [phase EXCEPT ![o] = "gone"]
      /\ op' = [op EXCEPT ![o] = Fresh(None, 0)]
      /\ owner' = owner \/ owner' = "idle"
      /\ UNCHANGED <<session_write, non_session_roots, runtime_write, children, publication,
                     clears, contexts, capability, projection>>
  BY DEF BeginRefused
<1>2. op \in [Op -> Identity] /\ phase \in [Op -> Phase] /\ o # None
  BY OperationConstants DEF OperationInv, OperationTypeOK
<1>3. OperationTypeOK'
  <2>1. op' \in [Op -> Identity] /\ phase' \in [Op -> Phase]
    BY <1>1, <1>2, FreshTypes DEF Phase
  <2> QED BY <1>1, <2>1 DEF OperationInv, OperationTypeOK, capability, projection, OwnerStep
<1>4. /\ \A x \in Op \ {o} : op'[x] = op[x] /\ phase'[x] = phase[x]
      /\ phase'[o] = "gone"
  BY <1>1, <1>2
<1>5. o \notin Active /\ phase[o] \in {"checked", "gone"}
  BY <1>1, <1>2 DEF OperationInv, Tabled
<1> QED BY <1>1, <1>2, <1>3, <1>4, <1>5, OutsideKeeps

\* An operation enters the table.
LEMMA EnterKeeps ==
  ASSUME OperationInv, OperationTypeOK', NEW x \in Op, lock = x, phase[x] = "checked",
         Active' = Active \cup {x}, children' = children \cup ({x} \cap Child),
         UNCHANGED <<op, capability>>, lock' = None,
         \A o \in Op \ {x} : phase'[o] = phase[o], phase'[x] \in {"begun", "running"},
         x \in Child => ParentIsActive(op[x].parent)
  PROVE  OperationInv'
<1>1. /\ x \notin Active /\ Active \subseteq Op /\ children \subseteq Child /\ Child \subseteq Op
      /\ children \subseteq Active /\ Roots \cap Child = {}
  BY TableTypes, OperationConstants DEF OperationInv, Tabled, Active, Op
<1>2. Tabled'
  <2>1. ~op[x].released
    BY DEF OperationInv, Tabled
  <2> QED BY <1>1, <2>1, OperationConstants DEF OperationInv, Tabled
<1>3. RevokedSwept'
  <2>1. \A o \in Op : BeingSwept(o)' <=> BeingSwept(o)
    BY DEF BeingSwept, capability
  <2>2. \A o \in Active' : op[o].generation < generation => op[o].cancelled \/ BeingSwept(o)
    BY DEF OperationInv, RevokedSwept
  <2>3. \A o \in Op : phase'[o] = "checked" => phase[o] = "checked"
    OBVIOUS
  <2> QED BY <1>1, <2>1, <2>2, <2>3 DEF OperationInv, RevokedSwept, capability
<1>4. Below'
  <2>1. \A c \in children : /\ op[c].parent \in Active /\ (Cuts(op[c].parent) => op[c].cancelled)
                            /\ op[c].generation = op[op[c].parent].generation
    BY <1>1 DEF OperationInv, Below
  <2>2. \A o : Cuts(o)' <=> Cuts(o)
    BY DEF Cuts
  <2>3. x \in Child => /\ op[x].parent \in Active /\ ~Cuts(op[x].parent)
                       /\ op[x].generation = op[op[x].parent].generation
    BY <1>1 DEF OperationInv, Below, ParentIsActive, Cuts, Active
  <2>4. \A c \in Child : phase'[c] \in {"resolved", "checked"} =>
          /\ c # x /\ op[c].parent \in Op /\ op[c].parent # x
          /\ phase[op[c].parent] \in {"begun", "running", "dropped", "gone"}
          /\ phase'[op[c].parent] = phase[op[c].parent]
          /\ (op[c].parent \in Active => op[c].generation = op[op[c].parent].generation)
    <3> SUFFICES ASSUME NEW c \in Child, phase'[c] \in {"resolved", "checked"}
                 PROVE  /\ c # x /\ op[c].parent \in Op /\ op[c].parent # x
                        /\ phase[op[c].parent] \in {"begun", "running", "dropped", "gone"}
                        /\ phase'[op[c].parent] = phase[op[c].parent]
                        /\ (op[c].parent \in Active =>
                              op[c].generation = op[op[c].parent].generation)
      OBVIOUS
    <3>1. c # x /\ phase[c] \in {"resolved", "checked"}
      BY <1>1
    <3>2. /\ op[c].parent \in Op /\ phase[op[c].parent] \in {"begun", "running", "dropped", "gone"}
          /\ (op[c].parent \in Active => op[c].generation = op[op[c].parent].generation)
      BY <3>1 DEF OperationInv, Below
    <3> QED BY <3>1, <3>2
  <2>5. /\ \A c \in children' : /\ op[c].parent \in Active /\ (Cuts(op[c].parent) => op[c].cancelled)
                                /\ op[c].generation = op[op[c].parent].generation
    BY <2>1, <2>3
  <2>6. \A c \in Child : phase'[c] \in {"resolved", "checked"} /\ op[c].parent \in Active' =>
          op[c].generation = op[op[c].parent].generation
    BY <2>4
  <2> QED BY <2>2, <2>4, <2>5, <2>6 DEF Below
<1>5. NoLeakedSlot'
  <2>1. ~op[x].released
    BY DEF OperationInv, Tabled
  <2>2. \A o : Descendants(o, children) \subseteq Descendants(o, children)'
    <3> SUFFICES ASSUME NEW c \in children
                 PROVE  Ancestors(c, children) \subseteq Ancestors(c, children)'
      BY DEF Descendants
    <3>1. c \in Op /\ children \in SUBSET Op /\ children' \in SUBSET Op /\ ParentOf \in Parents
          /\ ParentOf' = ParentOf
      BY <1>1, TableTypes DEF OperationInv, ParentOf
    <3>2. Ancestors(c, children) = Above(ParentOf, c, children)
          /\ Ancestors(c, children)' = Above(ParentOf, c, children')
      <4>1. Ancestors(c, children)' = Ancestors(c, children')
        BY DEF Ancestors
      <4> QED BY <3>1, <4>1, AncestorsAre
    <3> QED BY <3>1, <3>2, AboveMore
  <2> QED BY <2>1, <2>2 DEF OperationInv, NoLeakedSlot
<1> QED BY <1>2, <1>3, <1>4, <1>5 DEF OperationInv

\* A root that enters has no parent, and nothing below it yet.
LEMMA BeginRootKeeps == ASSUME OperationInv, NEW r \in Root, BeginRoot(r) PROVE OperationInv'
<1>1. /\ lock = r /\ phase[r] = "checked" /\ ~Blocked(ClassOf[r])
      /\ lock' = None /\ phase' = [phase EXCEPT ![r] = "begun"]
      /\ session_write' = IF ClassOf[r] = "SessionWriteRoot" THEN r ELSE session_write
      /\ non_session_roots' = IF ClassOf[r] = "NonSessionRoot"
                                THEN Append(non_session_roots, r) ELSE non_session_roots
      /\ runtime_write' = IF ClassOf[r] = "RuntimeWrite" THEN r ELSE runtime_write
      /\ \E p \in {Primary(session_write', non_session_roots', runtime_write'), Unchanged} :
           publication' = [publication EXCEPT ![r] = p]
      /\ UNCHANGED <<children, op, clears, contexts, capability, projection, owner>>
  BY DEF BeginRoot
<1>2. /\ r \in Op /\ r # None /\ ClassOf[r] \in Class /\ r \notin Child
      /\ \A q \in Root : q # None /\ KindOf[q] # None /\ KindOf[q] \in Kind
  BY OperationConstants DEF Op, Kind
<1>3. /\ {session_write, runtime_write} \subseteq Root \cup {None}
      /\ non_session_roots \in Seq(Root) /\ Len(non_session_roots) <= RootLimit
      /\ RootLimit \in Nat
  BY OperationConstants DEF OperationInv, OperationTypeOK
<1>4. /\ {session_write', runtime_write'} \subseteq Root \cup {None}
      /\ non_session_roots' \in Seq(Root) /\ Len(non_session_roots') <= RootLimit
  <2>1. {session_write', runtime_write'} \subseteq Root \cup {None}
    BY <1>1, <1>3
  <2>2. CASE ClassOf[r] = "NonSessionRoot"
    <3>1. /\ non_session_roots' = Append(non_session_roots, r)
          /\ ~(Len(non_session_roots) >= RootLimit)
      BY <1>1, <2>2 DEF Blocked
    <3> QED BY <1>3, <2>1, <3>1
  <2>3. CASE ClassOf[r] # "NonSessionRoot"
    BY <1>1, <1>3, <2>1, <2>3
  <2> QED BY <2>2, <2>3
<1>5. Primary(session_write', non_session_roots', runtime_write') \in Kind \cup {None}
  BY <1>2, <1>4 DEF Primary
<1>6. publication' \in [Op -> Kind \cup {None, Unchanged}]
  <2>1. PICK p \in Kind \cup {None, Unchanged} : publication' = [publication EXCEPT ![r] = p]
    BY <1>1, <1>5
  <2> QED BY <2>1 DEF OperationInv, OperationTypeOK
<1>7. OperationTypeOK'
  BY <1>1, <1>4, <1>6 DEF OperationInv, OperationTypeOK, capability, projection, Phase
<1>8. Active' = Active \cup {r}
  <2>1. ToSet(Append(non_session_roots, r)) = ToSet(non_session_roots) \cup {r}
    <3>1. /\ DOMAIN Append(non_session_roots, r) = 1 .. (Len(non_session_roots) + 1)
          /\ DOMAIN non_session_roots = 1 .. Len(non_session_roots)
          /\ Len(non_session_roots) \in Nat
          /\ \A i \in 1 .. Len(non_session_roots) :
               Append(non_session_roots, r)[i] = non_session_roots[i]
          /\ Append(non_session_roots, r)[Len(non_session_roots) + 1] = r
      BY <1>3
    <3>2. 1 .. (Len(non_session_roots) + 1)
            = (1 .. Len(non_session_roots)) \cup {Len(non_session_roots) + 1}
      BY <3>1
    <3> QED BY <3>1, <3>2 DEF ToSet
  <2>2. CASE ClassOf[r] = "SessionWriteRoot"
    BY <1>1, <1>2, <2>2 DEF Blocked, Active, Roots, RootsOf, Occupied
  <2>3. CASE ClassOf[r] = "NonSessionRoot"
    BY <1>1, <1>2, <2>1, <2>3 DEF Active, Roots, RootsOf, Occupied
  <2>4. CASE ClassOf[r] = "RuntimeWrite"
    <3>1. runtime_write = None
      BY <1>1, <1>2, <1>3, <2>4 DEF Blocked, CurrentPrimary, Primary
    <3> QED BY <1>1, <1>2, <2>4, <3>1 DEF Active, Roots, RootsOf, Occupied
  <2> QED BY <1>2, <2>2, <2>3, <2>4 DEF Class
<1>9. /\ \A o \in Op \ {r} : phase'[o] = phase[o]
      /\ phase'[r] = "begun"
  BY <1>1, <1>2 DEF OperationInv, OperationTypeOK
<1> QED BY <1>1, <1>2, <1>7, <1>8, <1>9, EnterKeeps

\* A child enters below a parent that does not cut it off.
LEMMA BeginChildKeeps == ASSUME OperationInv, NEW c \in Child, BeginChild(c) PROVE OperationInv'
<1>1. /\ lock = c /\ phase[c] = "checked" /\ ParentIsActive(op[c].parent) /\ lock' = None
      /\ children' = children \cup {c} /\ contexts' = contexts \cup {c}
      /\ phase' = [phase EXCEPT ![c] = "running"]
      /\ UNCHANGED <<session_write, non_session_roots, runtime_write, op, publication,
                     clears, capability, projection, owner>>
  BY DEF BeginChild
<1>2. c \in Op BY DEF Op
<1>3. OperationTypeOK'
  BY <1>1, <1>2 DEF OperationInv, OperationTypeOK, capability, projection, Phase
<1>4. Active' = Active \cup {c}
  BY <1>1 DEF Active, Roots
<1>5. /\ \A o \in Op \ {c} : phase'[o] = phase[o]
      /\ phase'[c] = "running"
  BY <1>1, <1>2 DEF OperationInv, OperationTypeOK
<1> QED BY <1>1, <1>2, <1>3, <1>4, <1>5, EnterKeeps

-----------------------------------------------------------------------------
(* Release. *)

ReleasedWith(o) == {x \in Active : op[x].released} \cup {o}

\* What a drop leaves in the table: of the children (if o is one) and of the
\* roots those that are not released or have something below them.
LEMMA DropFacts ==
  ASSUME OperationInv, NEW o \in Op, DropGuard(o)
  PROVE  /\ children' = IF o \in Child THEN KeptChildren(children, ReleasedWith(o)) ELSE children
         /\ Roots' = {r \in Roots : RetainedRoot(r, children', ReleasedWith(o))}
         /\ {session_write', runtime_write'} \subseteq Root \cup {None}
         /\ non_session_roots' \in Seq(Root) /\ Len(non_session_roots') <= RootLimit
         /\ lock = None /\ phase[o] = "running" /\ phase' = [phase EXCEPT ![o] = "dropped"]
         /\ \A x \in Op : op'[x] =
              IF x \in Active \ Active' THEN Fresh(None, 0)
              ELSE [[op[x] EXCEPT !.cancelled = @ \/ x \in Descendants(o, children)]
                      EXCEPT !.released = @ \/ x = o]
         /\ op' \in [Op -> Identity]
         /\ UNCHANGED <<lock, contexts, capability, projection, owner>>
         /\ clears' = [clears EXCEPT ![o] = Active \ Active']
         /\ \E p \in {Primary(session_write', non_session_roots', runtime_write'), Unchanged} :
              publication' = [publication EXCEPT ![o] = p]
<1> DEFINE released == ReleasedWith(o)
           kids == IF o \in Child THEN KeptChildren(children, released) ELSE children
           keep(r) == RetainedRoot(r, kids, released)
           stay == {r \in Root : keep(r)}
<1>1. /\ children' = kids
      /\ session_write' = IF session_write # None /\ ~keep(session_write) THEN None ELSE session_write
      /\ non_session_roots' = Kept(non_session_roots, stay)
      /\ runtime_write' = IF runtime_write # None /\ ~keep(runtime_write) THEN None ELSE runtime_write
  BY DEF DropGuard, ReleasedWith
<1>2. /\ {session_write, runtime_write} \subseteq Root \cup {None}
      /\ non_session_roots \in Seq(Root) /\ Len(non_session_roots) \in Nat
      /\ Len(non_session_roots) <= RootLimit /\ RootLimit \in Nat /\ None \notin Root
  BY OperationConstants DEF OperationInv, OperationTypeOK
<1> HIDE DEF kids, released
<1>3. /\ Kept(non_session_roots, stay) \in Seq(Root)
      /\ Len(Kept(non_session_roots, stay)) \in Nat
      /\ Len(Kept(non_session_roots, stay)) <= Len(non_session_roots)
      /\ ToSet(Kept(non_session_roots, stay)) = ToSet(non_session_roots) \cap stay
  <2> HIDE DEF stay
  <2> QED BY <1>2, KeptFacts
<1>4. ToSet(non_session_roots) \subseteq Root
  BY <1>2 DEF ToSet
<1>5. Roots' = {r \in Roots : keep(r)}
  <2>1. /\ Occupied(session_write)' = {r \in Occupied(session_write) : keep(r)}
        /\ Occupied(runtime_write)' = {r \in Occupied(runtime_write) : keep(r)}
    BY <1>1, <1>2 DEF Occupied
  <2>2. ToSet(non_session_roots') = {r \in ToSet(non_session_roots) : keep(r)}
    BY <1>1, <1>3, <1>4
  <2> HIDE DEF keep
  <2> QED BY <2>1, <2>2 DEF Roots, RootsOf, Occupied
<1>6. /\ lock = None /\ phase[o] = "running" /\ phase' = [phase EXCEPT ![o] = "dropped"]
      /\ op' = [x \in Op |-> IF x \in Active \ Active' THEN Fresh(None, 0)
                             ELSE [Cancel(Descendants(o, children))[x] EXCEPT !.released = @ \/ x = o]]
  BY <1>1 DEF DropGuard, Active, Roots, ReleasedWith, released, kids
<1>7. \A x \in Op : op'[x] =
              IF x \in Active \ Active' THEN Fresh(None, 0)
              ELSE [[op[x] EXCEPT !.cancelled = @ \/ x \in Descendants(o, children)]
                      EXCEPT !.released = @ \/ x = o]
  BY <1>6 DEF Cancel
<1>8. op' \in [Op -> Identity]
  <2>1. ASSUME NEW x \in Op
        PROVE  [[op[x] EXCEPT !.cancelled = @ \/ x \in Descendants(o, children)]
                  EXCEPT !.released = @ \/ x = o] \in Identity
    <3>1. op[x] \in Identity
      BY DEF OperationInv, OperationTypeOK
    <3>2. \A i \in Identity, b, c \in BOOLEAN :
            [[i EXCEPT !.cancelled = b] EXCEPT !.released = @ \/ c] \in Identity
      BY DEF Identity
    <3>3. (op[x].cancelled \/ x \in Descendants(o, children)) \in BOOLEAN /\ (x = o) \in BOOLEAN
      OBVIOUS
    <3> QED BY <3>1, <3>2, <3>3, Zenon
  <2>2. Fresh(None, 0) \in Identity
    BY FreshTypes
  <2> QED BY <1>6, <1>7, <2>1, <2>2
<1>9. /\ non_session_roots' \in Seq(Root) /\ Len(non_session_roots') <= RootLimit
      /\ {session_write', runtime_write'} \subseteq Root \cup {None}
  BY <1>1, <1>2, <1>3
<1>10. /\ UNCHANGED <<lock, contexts, capability, projection, owner>>
       /\ clears' = [clears EXCEPT ![o] = Active \ Active']
       /\ \E p \in {Primary(session_write', non_session_roots', runtime_write'), Unchanged} :
            publication' = [publication EXCEPT ![o] = p]
  BY <1>1 DEF DropGuard, Removed, Active, Roots, ReleasedWith, released, kids
<1>11. Roots' = {r \in Roots : RetainedRoot(r, children', released)}
  BY <1>1, <1>5
<1> QED BY <1>1, <1>6, <1>7, <1>8, <1>9, <1>10, <1>11 DEF kids, released

\* What a drop keeps: every child and root that is not released, with each
\* child its parent, and below each operation what was below it.
LEMMA DropKeptFacts ==
  ASSUME OperationInv, NEW o \in Op, DropGuard(o)
  PROVE  /\ children' \subseteq children /\ Roots' \subseteq Roots
         /\ Active \ ReleasedWith(o) \subseteq Active'
         /\ \A c \in children' : op[c].parent \in Active'
         /\ \A d \in children \ ReleasedWith(o) :
              d \in children' /\ Ancestors(d, children) \subseteq Ancestors(d, children')
<1> DEFINE rel == ReleasedWith(o)
<1>1. /\ children' = IF o \in Child THEN KeptChildren(children, rel) ELSE children
      /\ Roots' = {r \in Roots : RetainedRoot(r, children', rel)}
  BY DropFacts
<1>2. /\ children \subseteq Child /\ Child \subseteq Op /\ children \in SUBSET Op
      /\ ParentOf \in Parents /\ OperationTypeOK /\ \A c \in Op : ParentOf[c] = op[c].parent
  BY TableTypes DEF OperationInv, Op, ParentOf
<1> HIDE DEF rel
<1>3. children' \subseteq children /\ children \ rel \subseteq children' /\ children' \in SUBSET Op
  BY <1>1, <1>2 DEF KeptChildren
<1>4. \A c \in children : \A p \in Ancestors(c, children) \cap children :
        op[p].parent \in Ancestors(c, children)
  BY <1>2, AncestorsAre, AboveFacts
<1>5. \A c \in children : op[c].parent \in Ancestors(c, children)
  BY <1>2, AncestorsAre, AboveFacts
<1>6. \A c \in children' : op[c].parent \in children => op[c].parent \in children'
  <2> SUFFICES ASSUME NEW c \in children', op[c].parent \in children, o \in Child,
                      op[c].parent \in rel
               PROVE  op[c].parent \in children'
    BY <1>1, <1>3
  <2>1. CASE c \notin rel
    BY <1>1, <1>3, <1>5, <2>1 DEF KeptChildren
  <2>2. CASE c \in rel
    <3>1. PICK d \in children \ rel : c \in Ancestors(d, children)
      BY <1>1, <2>2 DEF KeptChildren
    <3>2. op[c].parent \in Ancestors(d, children)
      BY <1>3, <1>4, <3>1
    <3> QED BY <1>1, <3>1, <3>2 DEF KeptChildren
  <2> QED BY <2>1, <2>2
<1>7. \A c \in children' : op[c].parent \in Roots => op[c].parent \in Roots'
  <2> SUFFICES ASSUME NEW c \in children' PROVE c \in Descendants(op[c].parent, children')
    BY <1>1 DEF RetainedRoot
  <2>1. op[c].parent \in Ancestors(c, children')
    BY <1>2, <1>3, AncestorsAre, AboveFacts
  <2> QED BY <2>1 DEF Descendants
<1>8. \A c \in children' : op[c].parent \in Active'
  BY <1>3, <1>6, <1>7 DEF OperationInv, Below, Active
<1>9. Roots' \subseteq Roots /\ Roots \ rel \subseteq Roots'
  BY <1>1 DEF RetainedRoot
<1>10. \A d \in children \ rel : Ancestors(d, children) \subseteq Ancestors(d, children')
  <2> SUFFICES ASSUME NEW d \in children \ rel
               PROVE  Ancestors(d, children) \subseteq Ancestors(d, children')
    OBVIOUS
  <2>1. Ancestors(d, children) \cap children \subseteq children'
    BY <1>1, <1>3 DEF KeptChildren
  <2>2. d \in Op
    BY <1>2
  <2> QED BY <1>2, <1>3, <2>1, <2>2, AncestorsAre, AboveMore
<1> QED BY <1>3, <1>8, <1>9, <1>10 DEF Active, rel

\* The fields of what a drop keeps.
LEMMA DropFields ==
  ASSUME OperationInv, NEW o \in Op, DropGuard(o),
         NEW x \in Op, x \notin Active \ Active'
  PROVE  /\ op'[x].parent = op[x].parent /\ op'[x].generation = op[x].generation
         /\ (op'[x].released <=> op[x].released \/ x = o)
         /\ (op'[x].cancelled <=> op[x].cancelled \/ x \in Descendants(o, children))
<1>1. op'[x] = [[op[x] EXCEPT !.cancelled = @ \/ x \in Descendants(o, children)]
                  EXCEPT !.released = @ \/ x = o]
  BY DropFacts
<1>2. op[x] \in Identity
  BY DEF OperationInv, OperationTypeOK
<1> QED BY <1>1, <1>2 DEF Identity

\* A drop keeps the types.
LEMMA DropTypes == ASSUME OperationInv, NEW o \in Op, DropGuard(o) PROVE OperationTypeOK'
<1>1. /\ \A r \in Root : r # None /\ KindOf[r] \in Kind
      /\ Active \subseteq Op /\ children' \subseteq Child
  BY OperationConstants, TableTypes, DropKeptFacts DEF Kind, OperationInv
<1>2. /\ {session_write', runtime_write'} \subseteq Root \cup {None}
      /\ non_session_roots' \in Seq(Root) /\ Len(non_session_roots') <= RootLimit
      /\ op' \in [Op -> Identity] /\ phase' = [phase EXCEPT ![o] = "dropped"]
      /\ clears' = [clears EXCEPT ![o] = Active \ Active']
      /\ \E p \in {Primary(session_write', non_session_roots', runtime_write'), Unchanged} :
           publication' = [publication EXCEPT ![o] = p]
      /\ UNCHANGED <<lock, contexts, capability, projection, owner>>
  BY DropFacts
<1>3. Primary(session_write', non_session_roots', runtime_write') \in Kind \cup {None}
  BY <1>1, <1>2 DEF Primary
<1>4. publication' \in [Op -> Kind \cup {None, Unchanged}]
  <2>1. PICK p \in Kind \cup {None, Unchanged} : publication' = [publication EXCEPT ![o] = p]
    BY <1>2, <1>3
  <2> QED BY <2>1 DEF OperationInv, OperationTypeOK
<1>5. phase' \in [Op -> Phase] /\ clears' \in [Op -> SUBSET Op]
  BY <1>1, <1>2 DEF OperationInv, OperationTypeOK, Phase
<1> QED BY <1>1, <1>2, <1>4, <1>5 DEF OperationInv, OperationTypeOK, capability, projection

\* A drop: what it releases cuts off what it cancels, and what it keeps though
\* released has something below it that runs.
LEMMA DropKeeps == ASSUME OperationInv, NEW o \in Op, DropGuard(o) PROVE OperationInv'
<1> DEFINE rel == ReleasedWith(o)
<1>1. OperationTypeOK'
  BY DropTypes
<1>2. /\ lock = None /\ lock' = None /\ phase[o] = "running"
      /\ generation' = generation /\ sweeping' = sweeping
      /\ phase'[o] = "dropped" /\ \A x \in Op \ {o} : phase'[x] = phase[x]
  <2>1. /\ lock = None /\ lock' = lock /\ phase[o] = "running"
        /\ phase' = [phase EXCEPT ![o] = "dropped"]
    BY DropFacts
  <2>2. generation' = generation /\ sweeping' = sweeping
    BY DropFacts DEF capability
  <2>3. phase \in [Op -> Phase]
    BY DEF OperationInv, OperationTypeOK
  <2> QED BY <2>1, <2>2, <2>3
<1>3. /\ children' \subseteq children /\ Active \ rel \subseteq Active' /\ Active' \subseteq Active
      /\ Roots' \subseteq Roots /\ \A c \in children' : op[c].parent \in Active'
  BY DropKeptFacts DEF Active
<1>4. /\ Active \subseteq Op /\ children \subseteq Child /\ Child \subseteq Op
      /\ children \subseteq Active /\ None \notin Op /\ Roots \cap Child = {}
  BY TableTypes, OperationConstants DEF OperationInv, Active, Op
<1>5. \A x \in Op : x \notin Active \/ x \in Active' =>
        /\ op'[x].parent = op[x].parent /\ op'[x].generation = op[x].generation
        /\ (op'[x].released <=> op[x].released \/ x = o)
        /\ (op'[x].cancelled <=> op[x].cancelled \/ x \in Descendants(o, children))
  BY DropFields
<1>6. o \in Active /\ ~op[o].released
  BY <1>2 DEF OperationInv, Tabled
<1>7. \A x \in Active : x \in rel <=> op[x].released \/ x = o
  BY <1>6 DEF ReleasedWith
<1> HIDE DEF rel
<1>8. Tabled'
  <2>1. \A x \in Op : phase'[x] \in {"begun", "running"} => x \in Active' /\ ~op'[x].released
    BY <1>2, <1>3, <1>4, <1>5, <1>7 DEF OperationInv, Tabled
  <2>2. \A x \in Active' : \/ phase'[x] \in {"begun", "running"}
                           \/ op'[x].released /\ phase'[x] \in {"dropped", "gone"}
    BY <1>2, <1>3, <1>4, <1>5 DEF OperationInv, Tabled
  <2>3. \A x \in Op : phase'[x] \in {"resolved", "checked"} => x \notin Active /\ x # o
    BY <1>2 DEF OperationInv, Tabled
  <2>4. \A x \in Op : phase'[x] \in {"resolved", "checked"} => ~op'[x].released
    BY <1>2, <1>5, <2>3 DEF OperationInv, Tabled
  <2>5. \A x \in Op : phase'[x] # "checked"
    BY <1>2, <1>4 DEF OperationInv, Tabled
  <2> QED BY <1>2, <2>1, <2>2, <2>4, <2>5 DEF Tabled
<1>9. RevokedSwept'
  <2>1. \A x \in Active' : op'[x].generation < generation => op'[x].cancelled \/ BeingSwept(x)'
    BY <1>2, <1>3, <1>4, <1>5 DEF OperationInv, RevokedSwept, BeingSwept
  <2>2. \A x \in Op : phase'[x] # "checked"
    BY <1>2, <1>4 DEF OperationInv, Tabled
  <2> QED BY <1>2, <2>1, <2>2 DEF RevokedSwept
<1>10. Below'
  <2>1. \A c \in children' : /\ c \in Active' /\ op[c].parent \in Active' /\ op'[c].parent = op[c].parent
                             /\ op'[c].generation = op'[op[c].parent].generation
    BY <1>3, <1>4, <1>5 DEF OperationInv, Below, Active
  <2>2. \A c \in children' : \A a : a = op[c].parent /\ Cuts(a)' => op'[c].cancelled
    <3> SUFFICES ASSUME NEW c \in children', NEW a, a = op[c].parent, Cuts(a)'
                 PROVE  op'[c].cancelled
      OBVIOUS
    <3>1. c \in Descendants(a, children)
          /\ (a \in Descendants(o, children) => c \in Descendants(o, children))
      BY <1>3, BelowParent DEF OperationInv
    <3>2. op'[c].cancelled <=> op[c].cancelled \/ c \in Descendants(o, children)
      BY <1>3, <1>4, <1>5, <2>1
    <3>3. Cuts(a) => op[c].cancelled
      BY <1>3 DEF OperationInv, Below
    <3>4. /\ op'[a].released <=> op[a].released \/ a = o
          /\ op'[a].cancelled <=> op[a].cancelled \/ a \in Descendants(o, children)
      BY <1>3, <1>4, <1>5, <2>1
    <3> QED BY <3>1, <3>2, <3>3, <3>4 DEF Cuts
  <2>3. \A c \in Child : phase'[c] \in {"resolved", "checked"} =>
          /\ c \notin Active /\ phase[c] \in {"resolved", "checked"}
          /\ op'[c].parent = op[c].parent /\ op'[c].generation = op[c].generation
          /\ op[c].parent \in Op /\ phase'[op[c].parent] \in {"begun", "running", "dropped", "gone"}
    <3> SUFFICES ASSUME NEW c \in Child, phase'[c] \in {"resolved", "checked"}
                 PROVE  /\ c \notin Active /\ phase[c] \in {"resolved", "checked"}
                        /\ op'[c].parent = op[c].parent /\ op'[c].generation = op[c].generation
                        /\ op[c].parent \in Op
                        /\ phase'[op[c].parent] \in {"begun", "running", "dropped", "gone"}
      OBVIOUS
    <3>1. c \notin Active /\ phase[c] \in {"resolved", "checked"} /\ c \in Op
      BY <1>2, <1>4 DEF OperationInv, Tabled
    <3>2. op[c].parent \in Op /\ phase[op[c].parent] \in {"begun", "running", "dropped", "gone"}
      BY <3>1 DEF OperationInv, Below
    <3> QED BY <1>2, <1>5, <3>1, <3>2
  <2>4. \A c \in Child : phase'[c] \in {"resolved", "checked"} /\ op'[c].parent \in Active' =>
          op'[c].generation = op'[op'[c].parent].generation
    BY <1>3, <1>4, <1>5, <2>3 DEF OperationInv, Below
  <2> QED BY <2>1, <2>2, <2>3, <2>4 DEF Below
<1>11. NoLeakedSlot'
  <2>1. children \in SUBSET Op /\ children' \in SUBSET Op /\ ParentOf \in Parents
    BY <1>3, TableTypes DEF OperationInv
  <2>2. \A c \in children' : Ancestors(c, children)' = Ancestors(c, children')
    <3> SUFFICES ASSUME NEW c \in children'
                 PROVE  Ancestors(c, children)' = Ancestors(c, children')
      OBVIOUS
    <3>1. c \in Op /\ \A x \in children' : op'[x].parent = op[x].parent
      BY <1>3, <1>4, <1>5 DEF Active
    <3>2. {met \in SUBSET (Op \cup {None}) :
             op'[c].parent \in met /\ \A p \in met \cap children' : op'[p].parent \in met}
          = {met \in SUBSET (Op \cup {None}) :
             op[c].parent \in met /\ \A p \in met \cap children' : op[p].parent \in met}
      BY <3>1
    <3> QED BY <3>2 DEF Ancestors
  <2>3. ASSUME NEW x \in children' \cap rel
        PROVE  \E d \in children' : ~op'[d].released /\ x \in Ancestors(d, children')
    <3>1. PICK d \in children \ rel : x \in Ancestors(d, children)
      <4>1. CASE o \in Child
        BY <2>3, <4>1, DropFacts DEF KeptChildren, rel
      <4>2. CASE o \notin Child
        <5>1. x \in Active /\ x # o /\ op[x].released
          BY <1>3, <1>4, <1>7, <2>3, <4>2
        <5>2. PICK c \in Descendants(x, children) : ~op[c].released
          BY <5>1 DEF OperationInv, NoLeakedSlot
        <5>3. c \in children /\ x \in Ancestors(c, children) /\ c \notin rel
          BY <1>4, <1>7, <4>2, <5>2 DEF Descendants
        <5> QED BY <5>3
      <4> QED BY <4>1, <4>2
    <3>2. d \in children' /\ x \in Ancestors(d, children')
      BY <3>1, DropKeptFacts DEF rel
    <3>3. ~op'[d].released
      BY <1>4, <1>5, <1>7, <3>1, <3>2 DEF Active
    <3> QED BY <3>2, <3>3
  <2>4. ASSUME NEW x \in Roots' \cap rel
        PROVE  \E d \in children' : ~op'[d].released /\ x \in Ancestors(d, children')
    <3>0. RetainedRoot(x, children', rel)
      BY <2>4, DropFacts DEF rel
    <3>1. PICK c \in children' : x \in Ancestors(c, children')
      BY <2>4, <3>0 DEF RetainedRoot, Descendants
    <3>2. CASE c \notin rel
      BY <1>3, <1>4, <1>5, <1>7, <3>1, <3>2 DEF Active
    <3>3. CASE c \in rel
      <4>1. PICK d \in children' : ~op'[d].released /\ c \in Ancestors(d, children')
        BY <2>3, <3>3
      <4>2. c \in Op /\ d \in Op
        BY <2>1
      <4>3. Ancestors(c, children') \subseteq Ancestors(d, children')
        BY <2>1, <4>1, <4>2, AncestorsAre, AboveAbove
      <4> QED BY <3>1, <4>1, <4>3
    <3> QED BY <3>2, <3>3
  <2>5. ASSUME NEW x \in Active', op'[x].released
        PROVE  \E c \in Descendants(x, children)' : ~op'[c].released
    <3>1. x \in rel
      BY <1>3, <1>4, <1>5, <1>7, <2>5
    <3>2. PICK d \in children' : ~op'[d].released /\ x \in Ancestors(d, children')
      BY <2>3, <2>4, <3>1 DEF Active
    <3>3. d \in Descendants(x, children)'
      BY <2>2, <3>2 DEF Descendants
    <3> QED BY <3>2, <3>3
  <2> QED BY <2>5 DEF NoLeakedSlot
<1> QED BY <1>1, <1>8, <1>9, <1>10, <1>11 DEF OperationInv

-----------------------------------------------------------------------------
(* The theorems. *)

\* Every step keeps the invariant.
LEMMA StepOperation == ASSUME OperationInv, [OperationNext]_opVars PROVE OperationInv'
<1>1. ASSUME NEW r \in Root,
             Resolve(r) \/ BeginRoot(r) \/ \E spawn \in BOOLEAN : PublishBegin(r, spawn)
      PROVE  OperationInv'
  BY <1>1, ResolveKeeps, BeginRootKeeps, PublishKeeps DEF Op
<1>2. ASSUME NEW c \in Child, BeginChild(c) \/ \E parent \in Op \ {c} : ResolveChild(c, parent)
      PROVE  OperationInv'
  BY <1>2, BeginChildKeeps, ResolveKeeps DEF Op
<1>3. ASSUME NEW o \in Op, \/ ReadGeneration(o) \/ BeginRefused(o) \/ DropGuard(o) \/ PublishDrop(o)
                           \/ Request(o) \/ CloseWindow(o) \/ ReopenWindow(o)
      PROVE  OperationInv'
  BY <1>3, ReadKeeps, RefusedKeeps, DropKeeps, PublishKeeps, RequestKeeps, WindowKeeps
<1>4. ASSUME NEW g \in sweeping, CancelGenerationsBefore(g) PROVE OperationInv'
  BY <1>4, SweepKeeps
<1> QED BY <1>1, <1>2, <1>3, <1>4, InstallKeeps, ShutdownKeeps, OwnerKeeps DEF OperationNext

\* The table of operations, their tasks and the sweeps agree at every moment of
\* OperationControl: begin, drop, cancel and revocation in any order.
THEOREM OperationInvariant == OperationSpec => []OperationInv
<1>1. OperationInv /\ [OperationNext]_opVars => OperationInv'
  BY StepOperation
<1> QED BY InitOperation, <1>1, PTL DEF OperationSpec

\* Once revoke_older_operations has returned, nothing of an older generation
\* is active without having been cancelled: what is neither lies before a sweep
\* that is still to come.
THEOREM RevocationReaches == OperationSpec => []RevokedIsCancelled
<1>1. OperationInv => RevokedIsCancelled
  BY DEF OperationInv, RevokedSwept, BeingSwept, RevokedIsCancelled
<1> QED BY <1>1, OperationInvariant, PTL

\* A cancellation and the end of an owner reach everything below, and slots are
\* held only for what still runs, in whatever order children and roots come
\* and go.
THEOREM SubtreesAreHeld == OperationSpec => []SubtreeIsHeld
<1>1. OperationInv => CancelReachesSubtree
  <2> SUFFICES ASSUME OperationInv, NEW c \in children, ~op[c].cancelled
               PROVE  \A a \in Ancestors(c, children) : ~Cuts(a)
    BY DEF CancelReachesSubtree, Cuts
  <2>1. /\ c \in Op /\ children \in SUBSET Op /\ children \subseteq Child
        /\ ParentOf \in Parents /\ \A x \in Op : ParentOf[x] = op[x].parent
        /\ \A x \in children : op[x].parent \in Op
    BY TableTypes DEF OperationInv, Op, ParentOf, Below
  <2> DEFINE met == {a \in Op \cup {None} : ~Cuts(a)}
  <2>2. ParentOf[c] \in met
    BY <2>1 DEF OperationInv, Below
  <2>3. \A p \in met \cap children : ParentOf[p] \in met
    BY <2>1 DEF OperationInv, Below, Cuts
  <2>4. met \in UpClosed(ParentOf, c, children)
    BY <2>2, <2>3 DEF UpClosed
  <2> QED BY <2>1, <2>4, AncestorsAre, AboveLeast
<1>2. OperationInv => SubtreeIsHeld
  BY <1>1 DEF OperationInv, SubtreeIsHeld
<1> QED BY <1>2, OperationInvariant, PTL

-----------------------------------------------------------------------------
(* Authorization of tool calls. *)

(***************************************************************************)
(* The types the proofs need.  A thread in decide() has one entry.         *)
(***************************************************************************)
Resolving == {"taken", "stale", "persist", "recheck", "revoked", "deliver"}
Deciding == Resolving \cup {"decide", "failed"}
WorkRecord == [step : Deciding \cup {"idle", "clean", "revoke"}, entries : SUBSET (Call \cup Operation),
        decision : Decision \cup {NoCall}, then : {"idle", "late", NoCall} \cup SUBSET Call]

TheEntry(t) == CHOOSE x \in work[t].entries : TRUE

WorkInv ==
  /\ work \in [Thread -> WorkRecord]
  /\ \A t \in Thread : work[t].step \in Deciding =>
       work[t].decision \in Decision /\ TheEntry(t) \in Call
  /\ work[Control].step \notin Deciding
  /\ work[Control].step = "clean" => work[Control].then \subseteq Call
  /\ pending \subseteq Call

LEMMA IdleIsJob == Idle \in WorkRecord
  BY DEF Idle, WorkRecord

LEMMA EntryOfOne ==
    ASSUME NEW c \in Call, NEW t \in Thread, work[t].entries = {c}
    PROVE  TheEntry(t) = c
  BY DEF TheEntry

LEMMA WorkInit == AuthorizationInit => WorkInv
<1> SUFFICES ASSUME AuthorizationInit PROVE WorkInv
  OBVIOUS
<1>1. work \in [Thread -> WorkRecord]
  BY IdleIsJob DEF AuthorizationInit
<1>2. \A t \in Thread : work[t].step = "idle" /\ "idle" # "clean"
  BY DEF AuthorizationInit, Idle
<1>3. Control \in Thread /\ "idle" \notin Deciding
  BY DEF Thread, Deciding, Resolving
<1> QED
  BY <1>1, <1>2, <1>3 DEF WorkInv, AuthorizationInit

\* A thread that changes at most its step within decide() keeps the types.
LEMMA StepWithin ==
    ASSUME WorkInv, NEW t \in Thread, work[t].step \in Deciding, pending' \subseteq Call,
           NEW s \in Deciding, work' = [work EXCEPT ![t].step = s]
    PROVE  WorkInv'
<1>1. work' \in [Thread -> WorkRecord]
  BY DEF WorkInv, WorkRecord
<1>2. \A u \in Thread : work'[u].entries = work[u].entries /\ work'[u].decision = work[u].decision
  BY DEF WorkInv, WorkRecord
<1>3. \A u \in Thread : u # t => work'[u] = work[u]
  BY DEF WorkInv
<1>4. t # Control
  BY DEF WorkInv
<1>5. Control \in Thread
  BY DEF Thread
<1> QED
  BY <1>1, <1>2, <1>3, <1>4, <1>5 DEF WorkInv, TheEntry

\* A thread that stops, or starts with one entry, keeps the types.
LEMMA NewJob ==
    ASSUME WorkInv, NEW t \in Thread, pending' \subseteq Call,
           NEW j \in WorkRecord, work' = [work EXCEPT ![t] = j],
           \/ j.step \notin Deciding /\ (j.step = "clean" => j.then \subseteq Call)
           \/ t # Control /\ j.decision \in Decision /\ \E c \in Call : j.entries = {c}
    PROVE  WorkInv'
<1>1. work' \in [Thread -> WorkRecord]
  BY DEF WorkInv
<1>2. \A u \in Thread : u # t => work'[u] = work[u]
  BY DEF WorkInv
<1>3. work'[t] = j
  BY DEF WorkInv
<1>4. Control \in Thread
  BY DEF Thread
<1>5. ASSUME j.step \in Deciding
      PROVE  t # Control /\ work'[t].decision \in Decision /\ TheEntry(t)' \in Call
  BY <1>5, <1>3 DEF TheEntry
<1>6. \A u \in Thread : u # t => TheEntry(u)' = TheEntry(u)
  BY <1>2 DEF TheEntry
<1> QED
  BY <1>1, <1>2, <1>3, <1>4, <1>5, <1>6 DEF WorkInv

\* Nothing but the pending set changes.
LEMMA WorkKept ==
    ASSUME WorkInv, work' = work, pending' \subseteq Call
    PROVE  WorkInv'
  BY DEF WorkInv, TheEntry

LEMMA CallWork ==
    ASSUME WorkInv, NEW c \in Call, CallStep(c)
    PROVE  WorkInv'
<1>0. c \in Thread /\ c # Control
  BY AuthorizationAssumption DEF AuthorizationConfig, Thread
<1>1. ASSUME NEW mode \in Modes, Authorize(c, mode) PROVE WorkInv'
  BY <1>1, WorkKept DEF Authorize, pendingState, WorkInv
<1>2. CASE Enter(c)
  BY <1>2, WorkKept DEF Enter, Touch, WorkInv
<1>3. CASE Answered(c)
  BY <1>3, WorkKept DEF Answered, Touch, WorkInv
<1>4. CASE Timeout(c)
  <2>1. Working("decide", {c}, "Deny", "late") \in WorkRecord
    BY DEF Working, WorkRecord, Deciding, Decision
  <2>2. /\ Working("decide", {c}, "Deny", "late").decision \in Decision
        /\ Working("decide", {c}, "Deny", "late").entries = {c}
    BY DEF Working, Decision
  <2> QED BY <1>0, <1>4, <2>1, <2>2, NewJob DEF Timeout, pendingState, WorkInv
<1>5. CASE TimeoutFails(c)
  <2>1. Idle.step \notin Deciding /\ Idle.step # "clean"
    BY DEF Idle, Deciding, Resolving
  <2> QED BY <1>0, <1>5, <2>1, NewJob, IdleIsJob DEF TimeoutFails, Touch, WorkInv
<1>6. CASE LeaveWait(c)
  BY <1>6, WorkKept DEF LeaveWait, Touch, WorkInv
<1> QED
  BY <1>1, <1>2, <1>3, <1>4, <1>5, <1>6 DEF CallStep, WaitStep

LEMMA DecideWork ==
    ASSUME WorkInv, NEW t \in Thread, DecideStep(t)
    PROVE  WorkInv'
<1>0. Idle \in WorkRecord /\ Idle.step \notin Deciding /\ Idle.step # "clean"
  BY IdleIsJob DEF Idle, Deciding, Resolving
<1>1. ASSUME Return(t), pending' \subseteq Call PROVE WorkInv'
  BY <1>0, <1>1, NewJob DEF Return
<1>2. CASE TakeEntry(t)
  <2>1. CASE Return(t) /\ pending' = pending
    BY <1>1, <2>1 DEF WorkInv
  <2>2. CASE /\ pending' = pending \ {TheEntry(t)}
             /\ work' = [work EXCEPT ![t].step = IF AdmittedUnder[OwnerOf[TheEntry(t)]] = gen
                                                   THEN "taken" ELSE "stale"]
    <3>1. work[t].step \in Deciding /\ {"taken", "stale"} \subseteq Deciding
      BY <1>2 DEF TakeEntry, Deciding, Resolving
    <3>2. pending' \subseteq Call
      BY <2>2 DEF WorkInv
    <3> QED BY <2>2, <3>1, <3>2, StepWithin
  <2> QED BY <1>2, <2>1, <2>2 DEF TakeEntry, Touch, TheEntry
<1>3. CASE ReleaseTransition(t)
  <2>1. /\ work[t].step \in Deciding
        /\ work' = [work EXCEPT ![t].step = IF work[t].step = "taken" THEN "persist" ELSE "revoked"]
        /\ pending' \subseteq Call
    BY <1>3 DEF ReleaseTransition, Deciding, Resolving, pendingState, WorkInv
  <2>2. (IF work[t].step = "taken" THEN "persist" ELSE "revoked") \in Deciding
    BY DEF Deciding, Resolving
  <2> QED BY <2>1, <2>2, StepWithin
<1>4. CASE PersistResolution(t)
  <2>1. work[t].step \in Deciding /\ {"recheck", "failed"} \subseteq Deciding
    BY <1>4 DEF PersistResolution, Deciding, Resolving
  <2>2. CASE work' = [work EXCEPT ![t].step = "recheck"] /\ pending' = pending
    BY <2>1, <2>2, StepWithin DEF WorkInv
  <2>3. CASE /\ pending' = pending \cup {TheEntry(t)}
             /\ work' = [work EXCEPT ![t] = IF t \in Call
                            THEN [work[t] EXCEPT !.step = "failed"] ELSE Idle]
    <3>1. pending' \subseteq Call
      BY <2>1, <2>3 DEF WorkInv
    <3>2. CASE t \in Call
      <4>1. work' = [work EXCEPT ![t].step = "failed"]
        BY <2>3, <3>2
      <4> QED BY <2>1, <3>1, <4>1, StepWithin
    <3>3. CASE t \notin Call
      BY <1>0, <2>3, <3>1, <3>3, NewJob
    <3> QED BY <3>2, <3>3
  <2> QED BY <1>4, <2>2, <2>3 DEF PersistResolution, Touch, TheEntry
<1>5. CASE Recheck(t)
  <2>1. work[t].step \in Deciding /\ {"revoked", "deliver"} \subseteq Deciding
    BY <1>5 DEF Recheck, Deciding, Resolving
  <2>2. pending' \subseteq Call
    BY <1>5 DEF Recheck, WorkInv
  <2>3. \E s \in Deciding : work' = [work EXCEPT ![t].step = s]
    BY <1>5, <2>1 DEF Recheck
  <2> QED BY <2>1, <2>2, <2>3, StepWithin
<1>6. CASE SendAnswer(t)
  BY <1>1, <1>6 DEF SendAnswer, WorkInv
<1>7. CASE Revoked(t)
  BY <1>1, <1>7 DEF Revoked, pendingState, WorkInv
<1> QED
  BY <1>2, <1>3, <1>4, <1>5, <1>6, <1>7 DEF DecideStep

LEMMA ControlWork ==
    ASSUME WorkInv, Revoke \/ CancelAll \/ ControlStep
    PROVE  WorkInv'
<1>0. Control \in Thread /\ work[Control] \in WorkRecord /\ Idle \in WorkRecord
  BY IdleIsJob DEF Thread, WorkInv
<1>1. SUFFICES ASSUME NEW j \in WorkRecord, j.step \in {"idle", "clean", "revoke"},
                      j.step = "clean" => j.then \subseteq Call,
                      work' = [work EXCEPT ![Control] = j], pending' \subseteq Call
               PROVE  WorkInv'
  <2>1. CASE Revoke
    <3>1. /\ pending' \subseteq Call
          /\ work' = [work EXCEPT ![Control] =
                Working("clean", {o \in Operation : AdmittedUnder[o] < gen'}, "Deny", {})]
      BY <2>1 DEF Revoke, pendingState, WorkInv
    <3>2. Working("clean", {o \in Operation : AdmittedUnder[o] < gen'}, "Deny", {}) \in WorkRecord
      BY DEF Working, WorkRecord, Decision
    <3>3. /\ Working("clean", {o \in Operation : AdmittedUnder[o] < gen'}, "Deny", {}).step = "clean"
          /\ Working("clean", {o \in Operation : AdmittedUnder[o] < gen'}, "Deny", {}).then = {}
      BY DEF Working
    <3> QED BY <1>1, <3>1, <3>2, <3>3
  <2>2. CASE CancelAll
    <3>1. /\ pending' \subseteq Call
          /\ work' = [work EXCEPT ![Control] = Working("clean", {}, "Deny", pending)]
      BY <2>2 DEF CancelAll, Touch
    <3>2. Working("clean", {}, "Deny", pending) \in WorkRecord
      BY DEF Working, WorkRecord, Decision, WorkInv
    <3>3. /\ Working("clean", {}, "Deny", pending).step = "clean"
          /\ Working("clean", {}, "Deny", pending).then \subseteq Call
      BY DEF Working, WorkInv
    <3> QED BY <1>1, <3>1, <3>2, <3>3
  <2>3. ASSUME NEW o \in Operation, CancelOperation(o) PROVE WorkInv'
    <3> DEFINE mine == {c \in pending : OwnerOf[c] = o}
               j == Working("clean", work[Control].entries \ {o}, work[Control].decision, mine)
    <3>1. pending' \subseteq Call /\ work' = [work EXCEPT ![Control] = j]
      BY <2>3 DEF CancelOperation, Touch, WorkInv
    <3>2. mine \subseteq Call /\ work[Control].entries \ {o} \subseteq Call \cup Operation
      BY <1>0 DEF WorkInv, WorkRecord
    <3> HIDE DEF mine
    <3>3. j \in WorkRecord /\ j.step = "clean" /\ j.then \subseteq Call
      BY <1>0, <3>2 DEF WorkRecord, Working
    <3> QED BY <1>1, <3>1, <3>3
  <2>4. ASSUME NEW c \in Call, CleanEntry(c) PROVE WorkInv'
    <3> DEFINE j == [work[Control] EXCEPT !.then = @ \ {c}]
    <3>1. /\ pending' \subseteq Call /\ work[Control].step = "clean"
          /\ work' = [work EXCEPT ![Control] = j] /\ c \in work[Control].then
      BY <2>4 DEF CleanEntry, pendingState, WorkInv
    <3>2. work[Control].then \ {c} \in SUBSET Call
      BY <3>1 DEF WorkInv
    <3>3. j \in WorkRecord /\ j.step = "clean" /\ j.then \subseteq Call
      BY <1>0, <3>1, <3>2 DEF WorkRecord
    <3> QED BY <1>1, <3>1, <3>3
  <2>5. CASE CleanDone
    <3> DEFINE j == IF work[Control].entries = {} THEN Idle
                    ELSE [work[Control] EXCEPT !.step = "revoke", !.then = "idle"]
    <3>1. pending' \subseteq Call /\ work' = [work EXCEPT ![Control] = j]
      BY <2>5 DEF CleanDone, pendingState, WorkInv
    <3>2. j \in WorkRecord /\ j.step \in {"idle", "revoke"}
      BY <1>0 DEF WorkRecord, Idle
    <3> QED BY <1>1, <3>1, <3>2
  <2> QED BY <2>1, <2>2, <2>3, <2>4, <2>5 DEF ControlStep
<1>2. j.step \notin Deciding
  BY <1>1 DEF Deciding, Resolving
<1> QED
  BY <1>0, <1>1, <1>2, NewJob

LEMMA WorkStep == WorkInv /\ [AuthorizationNext]_authVars => WorkInv'
<1> SUFFICES ASSUME WorkInv, [AuthorizationNext]_authVars PROVE WorkInv'
  OBVIOUS
<1>1. CASE UNCHANGED authVars
  BY <1>1, WorkKept DEF authVars, pendingState, WorkInv
<1>2. ASSUME NEW d \in Decider, NEW c \in Call, NEW decision \in Decision,
             ClientDecides(d, c, decision)
      PROVE  WorkInv'
  <2>1. d \in Thread /\ d # Control
    BY AuthorizationAssumption DEF AuthorizationConfig, Thread
  <2>2. /\ Working("decide", {c}, decision, "idle") \in WorkRecord
        /\ Working("decide", {c}, decision, "idle").decision \in Decision
        /\ Working("decide", {c}, decision, "idle").entries = {c}
    BY DEF Working, WorkRecord, Deciding
  <2>3. /\ work' = [work EXCEPT ![d] = Working("decide", {c}, decision, "idle")]
        /\ pending' \subseteq Call
    BY <1>2 DEF ClientDecides, pendingState, WorkInv
  <2> QED BY <2>1, <2>2, <2>3, NewJob
<1>3. ASSUME NEW t \in Thread, SyncStep(t) PROVE WorkInv'
  BY <1>3, WorkKept DEF SyncStep, SyncSet, SyncCheck, pendingState, WorkInv
<1> QED
  BY <1>1, <1>2, <1>3, CallWork, DecideWork, ControlWork DEF AuthorizationNext

(***************************************************************************)
(* The guard of the capability transition: held while an entry is taken    *)
(* and while its answer is sent, so that the generation compared last is   *)
(* still the current one when the answer goes out.                         *)
(***************************************************************************)
GuardInv ==
  /\ sent \in [Call -> {"nothing", "Allow", "Deny"}]
  /\ \A t \in Thread :
       /\ work[t].step \in {"taken", "stale", "deliver"} => transition = t
       /\ work[t].step = "deliver" => AdmittedUnder[OwnerOf[TheEntry(t)]] = gen

\* A thread that keeps its own obligations and gives up or takes the guard
\* only when it is free or its own keeps those of all.
LEMMA GuardFrame ==
    ASSUME WorkInv, GuardInv, sent' \in [Call -> {"nothing", "Allow", "Deny"}],
           NEW t \in Thread, \A u \in Thread : u # t => work'[u] = work[u],
           transition' = transition \/ transition \in {t, NoThread}, gen' = gen,
           work'[t].step \in {"taken", "stale", "deliver"} => transition' = t,
           work'[t].step = "deliver" => AdmittedUnder[OwnerOf[TheEntry(t)']] = gen
    PROVE  GuardInv'
<1>1. NoThread \notin Thread
  BY AuthorizationAssumption DEF AuthorizationConfig
<1> QED
  BY <1>1 DEF GuardInv, TheEntry

\* A thread that is in none of the guarded steps afterwards owes nothing.
LEMMA GuardQuiet ==
    ASSUME WorkInv, GuardInv, sent' \in [Call -> {"nothing", "Allow", "Deny"}],
           NEW t \in Thread, \A u \in Thread : u # t => work'[u] = work[u],
           transition' = transition \/ transition \in {t, NoThread}, gen' = gen,
           (work'[t] = work[t] /\ transition' = transition)
             \/ work'[t].step \notin {"taken", "stale", "deliver"}
    PROVE  GuardInv'
<1>1. CASE work'[t].step \notin {"taken", "stale", "deliver"}
  BY <1>1, GuardFrame
<1>2. CASE work'[t] = work[t] /\ transition' = transition
  BY <1>2, GuardFrame DEF GuardInv, TheEntry
<1> QED BY <1>1, <1>2

LEMMA GuardDecide ==
    ASSUME WorkInv, GuardInv, NEW t \in Thread, DecideStep(t)
    PROVE  GuardInv'
<1>0. /\ work \in [Thread -> WorkRecord] /\ sent \in [Call -> {"nothing", "Allow", "Deny"}]
      /\ Idle.step = "idle"
  BY DEF WorkInv, GuardInv, Idle
<1>1. \A u \in Thread : u # t => work'[u] = work[u]
  BY <1>0 DEF DecideStep, TakeEntry, ReleaseTransition, PersistResolution, Recheck,
              SendAnswer, Revoked, Return
<1>2. CASE TakeEntry(t)
  <2>1. UNCHANGED <<sent, gen>> /\ transition = NoThread
    BY <1>2 DEF TakeEntry
  <2>2. CASE work' = [work EXCEPT ![t] = Idle] /\ transition' = transition
    BY <1>0, <1>1, <2>1, <2>2, GuardQuiet
  <2>3. CASE /\ transition' = t
             /\ work' = [work EXCEPT ![t].step = IF AdmittedUnder[OwnerOf[TheEntry(t)]] = gen
                                                   THEN "taken" ELSE "stale"]
    <3>1. work'[t].step # "deliver"
      BY <1>0, <2>3 DEF WorkRecord
    <3> QED BY <1>0, <1>1, <2>1, <2>3, <3>1, GuardFrame
  <2> QED BY <1>2, <2>2, <2>3 DEF TakeEntry, Return, TheEntry
<1>3. CASE ReleaseTransition(t)
  <2>1. UNCHANGED <<sent, gen>> /\ transition = t
    BY <1>3 DEF ReleaseTransition
  <2>2. work'[t].step \in {"persist", "revoked"}
    BY <1>0, <1>3 DEF ReleaseTransition, WorkRecord
  <2> QED BY <1>0, <1>1, <2>1, <2>2, GuardQuiet
<1>4. CASE PersistResolution(t)
  <2>1. UNCHANGED <<sent, gen, transition>>
    BY <1>4 DEF PersistResolution
  <2>2. work'[t].step \in {"recheck", "failed", "idle"}
    BY <1>0, <1>4 DEF PersistResolution, WorkRecord
  <2> QED BY <1>0, <1>1, <2>1, <2>2, GuardQuiet
<1>5. CASE Recheck(t)
  <2>1. UNCHANGED <<sent, gen>> /\ transition = NoThread
    BY <1>5 DEF Recheck
  <2>2. CASE work' = [work EXCEPT ![t].step = "revoked"] /\ transition' = transition
    <3>1. work'[t].step = "revoked"
      BY <1>0, <2>2 DEF WorkRecord
    <3> QED BY <1>0, <1>1, <2>1, <2>2, <3>1, GuardQuiet
  <2>3. CASE /\ work' = [work EXCEPT ![t].step = "deliver"] /\ transition' = t
             /\ AdmittedUnder[OwnerOf[TheEntry(t)]] = gen
    <3>1. work'[t].step = "deliver" /\ TheEntry(t)' = TheEntry(t)
      BY <1>0, <2>3 DEF WorkRecord, TheEntry
    <3> QED BY <1>0, <1>1, <2>1, <2>3, <3>1, GuardFrame
  <2> QED BY <1>5, <2>2, <2>3 DEF Recheck, TheEntry
<1>6. CASE SendAnswer(t)
  <2>1. gen' = gen /\ transition = t /\ work' = [work EXCEPT ![t] = Idle]
    BY <1>6 DEF SendAnswer, Return, GuardInv
  <2>2. sent' \in [Call -> {"nothing", "Allow", "Deny"}]
    BY <1>0, <1>6 DEF SendAnswer
  <2> QED BY <1>0, <1>1, <2>1, <2>2, GuardQuiet
<1>7. CASE Revoked(t)
  <2>1. UNCHANGED <<gen, transition>> /\ work' = [work EXCEPT ![t] = Idle]
    BY <1>7 DEF Revoked, Return
  <2>2. sent' \in [Call -> {"nothing", "Allow", "Deny"}]
    BY <1>0, <1>7 DEF Revoked
  <2> QED BY <1>0, <1>1, <2>1, <2>2, GuardQuiet
<1> QED
  BY <1>2, <1>3, <1>4, <1>5, <1>6, <1>7 DEF DecideStep

LEMMA GuardControl ==
    ASSUME WorkInv, GuardInv, Revoke \/ CancelAll \/ ControlStep
    PROVE  GuardInv'
<1>0. /\ work \in [Thread -> WorkRecord] /\ Control \in Thread
      /\ sent \in [Call -> {"nothing", "Allow", "Deny"}] /\ Idle.step = "idle"
      /\ NoThread \notin Thread
  BY AuthorizationAssumption DEF WorkInv, GuardInv, Idle, Thread, AuthorizationConfig
<1>1. /\ \A u \in Thread : u # Control => work'[u] = work[u]
      /\ work'[Control].step \in {"idle", "clean", "revoke"}
  <2>1. CASE Revoke
    BY <1>0, <2>1 DEF Revoke, Working
  <2>2. CASE CancelAll
    BY <1>0, <2>2 DEF CancelAll, Working
  <2>3. ASSUME NEW o \in Operation, CancelOperation(o)
        PROVE  <1>1!1 /\ <1>1!2
    BY <1>0, <2>3 DEF CancelOperation, Working
  <2>4. ASSUME NEW c \in Call, CleanEntry(c)
        PROVE  <1>1!1 /\ <1>1!2
    BY <1>0, <2>4 DEF CleanEntry, WorkRecord
  <2>5. CASE CleanDone
    BY <1>0, <2>5 DEF CleanDone, WorkRecord
  <2> QED BY <2>1, <2>2, <2>3, <2>4, <2>5 DEF ControlStep
<1>2. /\ transition' = transition
      /\ sent' \in [Call -> {"nothing", "Allow", "Deny"}]
  BY <1>0 DEF Revoke, CancelAll, ControlStep, CancelOperation, CleanEntry, CleanDone
<1>3. CASE Revoke
  <2>1. transition = NoThread
    BY <1>3 DEF Revoke
  <2>2. \A u \in Thread : work'[u].step \notin {"taken", "stale", "deliver"}
    BY <1>0, <1>1, <2>1 DEF GuardInv
  <2> QED BY <1>2, <2>2 DEF GuardInv
<1>4. CASE CancelAll \/ ControlStep
  <2>1. gen' = gen
    BY <1>4 DEF CancelAll, ControlStep, CancelOperation, CleanEntry, CleanDone
  <2> QED BY <1>0, <1>1, <1>2, <2>1, GuardQuiet
<1> QED BY <1>3, <1>4

LEMMA GuardStep == WorkInv /\ GuardInv /\ [AuthorizationNext]_authVars => GuardInv'
<1> SUFFICES ASSUME WorkInv, GuardInv, [AuthorizationNext]_authVars PROVE GuardInv'
  OBVIOUS
<1>0. /\ work \in [Thread -> WorkRecord] /\ sent \in [Call -> {"nothing", "Allow", "Deny"}]
      /\ Call \subseteq Thread /\ Decider \subseteq Thread /\ Idle.step = "idle"
  BY DEF WorkInv, GuardInv, Thread, Idle
<1>1. CASE UNCHANGED authVars
  BY <1>1 DEF authVars, GuardInv, TheEntry
<1>2. ASSUME NEW c \in Call, CallStep(c) PROVE GuardInv'
  <2>1. UNCHANGED <<sent, gen, transition>>
    BY <1>2 DEF CallStep, WaitStep, Authorize, Enter, Answered, Timeout, TimeoutFails, LeaveWait
  <2>2. CASE work' = work
    BY <1>0, <2>1, <2>2, GuardQuiet
  <2>3. CASE work' = [work EXCEPT ![c] = Working("decide", {c}, "Deny", "late")]
    BY <1>0, <2>1, <2>3, GuardQuiet DEF Working
  <2>4. CASE work' = [work EXCEPT ![c] = Idle]
    BY <1>0, <2>1, <2>4, GuardQuiet
  <2> QED BY <1>2, <2>2, <2>3, <2>4
        DEF CallStep, WaitStep, Authorize, Enter, Answered, Timeout, TimeoutFails, LeaveWait
<1>3. ASSUME NEW d \in Decider, NEW c \in Call, NEW decision \in Decision,
             ClientDecides(d, c, decision)
      PROVE  GuardInv'
  BY <1>0, <1>3, GuardQuiet DEF ClientDecides, Working
<1>4. ASSUME NEW t \in Thread, SyncStep(t) PROVE GuardInv'
  BY <1>4 DEF SyncStep, SyncSet, SyncCheck, GuardInv, TheEntry
<1> QED
  BY <1>1, <1>2, <1>3, <1>4, GuardDecide, GuardControl DEF AuthorizationNext

\* What lets a call through, between two states.
ApprovalStep ==
  \A c \in Call : sent'[c] = "Allow" /\ sent[c] # "Allow" => AdmittedUnder[OwnerOf[c]] = gen

LEMMA ApprovalChecked ==
  WorkInv /\ GuardInv /\ [AuthorizationNext]_authVars => [ApprovalStep]_authVars
<1> SUFFICES ASSUME WorkInv, GuardInv, AuthorizationNext, NEW c \in Call,
                    sent'[c] = "Allow", sent[c] # "Allow"
             PROVE  AdmittedUnder[OwnerOf[c]] = gen
  BY DEF ApprovalStep
<1>1. \E t \in Thread : SendAnswer(t) /\ c = TheEntry(t)
  BY DEF AuthorizationNext, CallStep, WaitStep, Authorize, Enter, Answered, Timeout, TimeoutFails,
         LeaveWait, ClientDecides, DecideStep, TakeEntry, ReleaseTransition, PersistResolution,
         Recheck, SendAnswer, Revoked, SyncStep, SyncSet, SyncCheck, Revoke, CancelAll,
         ControlStep, CancelOperation, CleanEntry, CleanDone, GuardInv, TheEntry
<1> QED BY <1>1 DEF SendAnswer, GuardInv

(***************************************************************************)
(* decide() compares the generation twice because the audit append between *)
(* lets a revocation through: whatever the threads do, an approval leaves  *)
(* under the generation its operation was admitted with.                   *)
(***************************************************************************)
THEOREM ApprovalIsCurrent == AuthorizationSpec => ApprovedUnderCurrentGeneration
<1>1. AuthorizationInit => WorkInv /\ GuardInv
  <2>1. AuthorizationInit => GuardInv
    BY DEF AuthorizationInit, GuardInv, Idle
  <2> QED BY <2>1, WorkInit
<1>2. WorkInv /\ GuardInv /\ [AuthorizationNext]_authVars => (WorkInv /\ GuardInv)'
  BY WorkStep, GuardStep
<1> QED
  BY <1>1, <1>2, ApprovalChecked, PTL
     DEF AuthorizationSpec, ApprovedUnderCurrentGeneration, ApprovalStep

(***************************************************************************)
(* One verdict.  An entry is in one place: not yet asked, in the map, or   *)
(* in the hands of one thread, which alone writes its fact.                *)
(***************************************************************************)
Holds(t) == work[t].step \in Resolving
Fact(t) == IF work[t].decision = "Deny" THEN "Denied" ELSE "Approved"
NobodyAsked(c) == wait[c] \in {"new", "asked"}

WaitInv == wait \in [Call -> {"new", "asked", "waiting", "timing_out", "late",
                              "allowed", "blocked", "failed"}]

\* What was acknowledged of the verdicts: at most one, and it comes first.
Acknowledged ==
  \A c \in Call :
    /\ sent[c] = "Allow" => "Approved" \in audit[c]
    /\ ~({"Approved", "Denied"} \subseteq audit[c])

\* What was acknowledged is in the log, and without a failed append nothing
\* else is.
LogInv ==
  /\ logged \in [Call -> SUBSET {"Approved", "Denied"}] /\ doubted \subseteq Call
  /\ \A c \in Call : audit[c] \subseteq logged[c] /\ (c \in doubted \/ logged[c] = audit[c])

VerdictInv ==
  /\ audit \in [Call -> SUBSET {"Approved", "Denied"}]
  /\ \A c \in Call : NobodyAsked(c) =>
       audit[c] = {} /\ c \notin pending /\ \A t \in Thread : Holds(t) => TheEntry(t) # c
  /\ \A c \in pending : audit[c] = {}
  /\ \A t \in Thread : Holds(t) =>
       /\ TheEntry(t) \notin pending
       /\ work[t].step \in {"taken", "stale", "persist"} => audit[TheEntry(t)] = {}
       /\ work[t].step \in {"recheck", "deliver"} => audit[TheEntry(t)] = {Fact(t)}
       /\ \A u \in Thread : u # t /\ Holds(u) => TheEntry(u) # TheEntry(t)
  /\ Acknowledged

\* Steps after which nobody holds an entry who did not hold the same before.
LEMMA VerdictFrame ==
    ASSUME WorkInv, VerdictInv, audit' = audit, pending' \subseteq pending,
           \A t \in Thread : Holds(t)' => work'[t] = work[t],
           \A c \in Call : NobodyAsked(c)' => NobodyAsked(c),
           \A c \in Call : sent'[c] = "Allow" => sent[c] = "Allow"
    PROVE  VerdictInv'
<1>1. \A t \in Thread : Holds(t)' => Holds(t) /\ TheEntry(t)' = TheEntry(t) /\ Fact(t)' = Fact(t)
  BY DEF Holds, TheEntry, Fact
<1>2. \A t \in Thread : Holds(t)' => work'[t].step = work[t].step
  OBVIOUS
<1>3. pending \subseteq Call
  BY DEF WorkInv
<1>4. Acknowledged'
  BY DEF Acknowledged, VerdictInv
<1>5. \A c \in Call : NobodyAsked(c)' =>
        audit'[c] = {} /\ c \notin pending' /\ \A t \in Thread : Holds(t)' => TheEntry(t)' # c
  BY <1>1 DEF VerdictInv
<1> QED
  BY <1>1, <1>2, <1>3, <1>4, <1>5 DEF VerdictInv

\* A thread goes on with the entry it holds.
LEMMA VerdictGoesOn ==
    ASSUME WorkInv, VerdictInv, UNCHANGED <<audit, pending, wait>>,
           NEW t \in Thread, Holds(t), NEW s \in Resolving, work' = [work EXCEPT ![t].step = s],
           s \in {"taken", "stale", "persist"} => audit[TheEntry(t)] = {},
           s \in {"recheck", "deliver"} => audit[TheEntry(t)] = {Fact(t)},
           \A c \in Call : sent'[c] = "Allow" => sent[c] = "Allow"
    PROVE  VerdictInv'
<1>0. work \in [Thread -> WorkRecord]
  BY DEF WorkInv
<1>1. \A u \in Thread : Holds(u)' => Holds(u)
  BY <1>0 DEF Holds, WorkRecord
<1>2. \A u \in Thread : TheEntry(u)' = TheEntry(u) /\ Fact(u)' = Fact(u)
  BY <1>0 DEF TheEntry, Fact, WorkRecord
<1>3. work'[t].step = s /\ \A u \in Thread : u # t => work'[u] = work[u]
  BY <1>0 DEF WorkRecord
<1>4. Acknowledged'
  BY DEF Acknowledged, VerdictInv
<1>5. \A c \in Call : NobodyAsked(c)' =>
        audit'[c] = {} /\ c \notin pending' /\ \A u \in Thread : Holds(u)' => TheEntry(u)' # c
  BY <1>1, <1>2 DEF VerdictInv, NobodyAsked
<1>6. \A u \in Thread : Holds(u)' =>
        /\ TheEntry(u)' \notin pending'
        /\ work'[u].step \in {"taken", "stale", "persist"} => audit'[TheEntry(u)'] = {}
        /\ work'[u].step \in {"recheck", "deliver"} => audit'[TheEntry(u)'] = {Fact(u)'}
        /\ \A v \in Thread : v # u /\ Holds(v)' => TheEntry(v)' # TheEntry(u)'
  BY <1>1, <1>2, <1>3 DEF VerdictInv
<1> QED
  BY <1>4, <1>5, <1>6 DEF VerdictInv

\* The hypotheses of VerdictFrame for steps that touch none of the entries.
LEMMA VerdictQuiet ==
    ASSUME WorkInv, VerdictInv, UNCHANGED audit, pending' \subseteq pending,
           NEW t \in Thread, \A u \in Thread : u # t => work'[u] = work[u],
           work'[t] = work[t] \/ work'[t].step \notin Resolving,
           \A c \in Call : NobodyAsked(c)' => NobodyAsked(c),
           \A c \in Call : sent'[c] = "Allow" => sent[c] = "Allow"
    PROVE  VerdictInv'
  BY VerdictFrame DEF Holds

LEMMA VerdictCall ==
    ASSUME WorkInv, VerdictInv, WaitInv, NEW c \in Call, CallStep(c)
    PROVE  VerdictInv'
<1>0. /\ c \in Thread /\ work \in [Thread -> WorkRecord] /\ pending \subseteq Call
      /\ audit \in [Call -> SUBSET {"Approved", "Denied"}]
      /\ DOMAIN wait = Call
  BY DEF Thread, WorkInv, VerdictInv, WaitInv
<1>1. ASSUME NEW mode \in Modes, Authorize(c, mode) PROVE VerdictInv'
  <2>1. UNCHANGED <<pending, sent, work>> /\ wait[c] = "new"
    BY <1>1 DEF Authorize, pendingState
  <2>2. CASE audit' = audit
    BY <1>0, <1>1, <2>1, <2>2, VerdictQuiet DEF Authorize, NobodyAsked
  <2>3. CASE audit' = [audit EXCEPT ![c] = @ \cup {"Denied"}] /\ wait' = [wait EXCEPT ![c] = "blocked"]
    <3>1. /\ audit[c] = {} /\ c \notin pending
          /\ \A t \in Thread : Holds(t) => TheEntry(t) # c
      BY <2>1 DEF VerdictInv, NobodyAsked
    <3>2. /\ audit'[c] = {"Denied"} /\ \A d \in Call : d # c => audit'[d] = audit[d]
          /\ audit' \in [Call -> SUBSET {"Approved", "Denied"}]
      BY <1>0, <2>3, <3>1
    <3>3. \A t \in Thread : Holds(t)' = Holds(t) /\ TheEntry(t)' = TheEntry(t) /\ Fact(t)' = Fact(t)
      BY <2>1 DEF Holds, TheEntry, Fact
    <3>4. \A d \in Call : NobodyAsked(d)' => NobodyAsked(d) /\ d # c
      BY <1>0, <2>3 DEF NobodyAsked
    <3>5. sent[c] # "Allow"
      BY <3>1 DEF VerdictInv, Acknowledged
    <3>6. Acknowledged'
      BY <2>1, <3>2, <3>5 DEF VerdictInv, Acknowledged
    <3>7. \A d \in Call : NobodyAsked(d)' =>
            audit'[d] = {} /\ d \notin pending' /\ \A t \in Thread : Holds(t)' => TheEntry(t)' # d
      BY <2>1, <3>2, <3>3, <3>4 DEF VerdictInv
    <3>8. \A t \in Thread : Holds(t) => TheEntry(t) \in Call
      BY DEF Holds, WorkInv, Deciding
    <3>9. \A t \in Thread : Holds(t)' =>
            /\ TheEntry(t)' \notin pending'
            /\ work'[t].step \in {"taken", "stale", "persist"} => audit'[TheEntry(t)'] = {}
            /\ work'[t].step \in {"recheck", "deliver"} => audit'[TheEntry(t)'] = {Fact(t)'}
            /\ \A u \in Thread : u # t /\ Holds(u)' => TheEntry(u)' # TheEntry(t)'
      BY <2>1, <3>1, <3>2, <3>3, <3>8 DEF VerdictInv
    <3>10. \A d \in pending' : audit'[d] = {}
      BY <1>0, <2>1, <3>1, <3>2 DEF VerdictInv
    <3> QED BY <3>2, <3>6, <3>7, <3>9, <3>10 DEF VerdictInv
  <2>4. ASSUME audit' = [audit EXCEPT ![c] = @ \cup {}] PROVE audit' = audit
    BY <1>0, <2>4
  <2> QED BY <1>1, <2>2, <2>3, <2>4 DEF Authorize, AppendFact
<1>2. CASE Enter(c)
  <2>1. /\ wait[c] = "asked" /\ pending' = pending \cup {c}
        /\ UNCHANGED <<audit, sent, work>> /\ wait' = [wait EXCEPT ![c] = "waiting"]
    BY <1>2 DEF Enter, Touch
  <2>2. audit[c] = {} /\ \A t \in Thread : Holds(t) => TheEntry(t) # c
    BY <2>1 DEF VerdictInv, NobodyAsked
  <2>3. \A t \in Thread : Holds(t)' = Holds(t) /\ TheEntry(t)' = TheEntry(t) /\ Fact(t)' = Fact(t)
    BY <2>1 DEF Holds, TheEntry, Fact
  <2>4. \A d \in Call : NobodyAsked(d)' => NobodyAsked(d) /\ d # c
    BY <1>0, <2>1 DEF NobodyAsked
  <2>5. Acknowledged'
    BY <2>1 DEF VerdictInv, Acknowledged
  <2> QED BY <2>1, <2>2, <2>3, <2>4, <2>5 DEF VerdictInv
<1>3. CASE Answered(c)
  BY <1>0, <1>3, VerdictQuiet DEF Answered, Touch, NobodyAsked
<1>4. CASE Timeout(c)
  <2>1. Working("decide", {c}, "Deny", "late").step \notin Resolving
    BY DEF Working, Resolving
  <2> QED BY <1>0, <1>4, <2>1, VerdictQuiet DEF Timeout, pendingState, NobodyAsked
<1>5. CASE TimeoutFails(c)
  <2>1. Idle.step \notin Resolving
    BY DEF Idle, Resolving
  <2> QED BY <1>0, <1>5, <2>1, VerdictQuiet DEF TimeoutFails, Touch, NobodyAsked
<1>6. CASE LeaveWait(c)
  BY <1>0, <1>6, VerdictQuiet DEF LeaveWait, Touch, NobodyAsked
<1> QED
  BY <1>1, <1>2, <1>3, <1>4, <1>5, <1>6 DEF CallStep, WaitStep

LEMMA VerdictDecide ==
    ASSUME WorkInv, VerdictInv, GuardInv, WaitInv,
           NEW t \in Thread, DecideStep(t)
    PROVE  VerdictInv'
<1>0. /\ work \in [Thread -> WorkRecord] /\ pending \subseteq Call
      /\ audit \in [Call -> SUBSET {"Approved", "Denied"}]
      /\ sent \in [Call -> {"nothing", "Allow", "Deny"}]
      /\ Idle.step \notin Resolving
  BY DEF WorkInv, VerdictInv, GuardInv, Idle, Resolving
<1>1. \A u \in Thread : u # t => work'[u] = work[u]
  BY <1>0 DEF DecideStep, TakeEntry, ReleaseTransition, PersistResolution, Recheck,
              SendAnswer, Revoked, Return
<1>2. \A c \in Call : NobodyAsked(c)' => NobodyAsked(c)
  <2>1. wait' = wait \/ wait' = [wait EXCEPT ![t] = "late"]
    BY DEF DecideStep, TakeEntry, ReleaseTransition, PersistResolution, Recheck,
           SendAnswer, Revoked, Return
  <2>2. DOMAIN wait = Call
    BY DEF WaitInv
  <2>3. \A c \in Call : wait'[c] = wait[c] \/ wait'[c] = "late"
    BY <2>1, <2>2
  <2> QED BY <2>3 DEF NobodyAsked
<1>3. CASE TakeEntry(t)
  <2> DEFINE c == TheEntry(t)
  <2>1. UNCHANGED <<audit, sent>> /\ work[t].step = "decide"
    BY <1>3 DEF TakeEntry
  <2>2. CASE work' = [work EXCEPT ![t] = Idle] /\ pending' = pending
    BY <1>0, <1>1, <1>2, <2>1, <2>2, VerdictQuiet
  <2>3. CASE /\ c \in pending /\ pending' = pending \ {c} /\ wait' = wait
             /\ work' = [work EXCEPT ![t].step = IF AdmittedUnder[OwnerOf[c]] = gen
                                                   THEN "taken" ELSE "stale"]
    <3>1. /\ TheEntry(t)' = c /\ Fact(t)' = Fact(t) /\ work'[t].step \in {"taken", "stale"}
          /\ \A u \in Thread : u # t => TheEntry(u)' = TheEntry(u) /\ Fact(u)' = Fact(u)
                                        /\ Holds(u)' = Holds(u)
      BY <1>0, <1>1, <2>3 DEF WorkRecord, TheEntry, Fact, Holds
    <3>2. audit[c] = {} /\ ~NobodyAsked(c) /\ \A u \in Thread : Holds(u) => TheEntry(u) # c
      BY <1>0, <2>3 DEF VerdictInv
    <3>3. Acknowledged'
      BY <2>1 DEF VerdictInv, Acknowledged
    <3>4. \A d \in Call : NobodyAsked(d)' =>
            audit'[d] = {} /\ d \notin pending' /\ \A u \in Thread : Holds(u)' => TheEntry(u)' # d
      BY <1>2, <2>1, <2>3, <3>1, <3>2 DEF VerdictInv
    <3>5. /\ TheEntry(t)' \notin pending' /\ audit'[TheEntry(t)'] = {}
          /\ \A u \in Thread : u # t /\ Holds(u)' => TheEntry(u)' # TheEntry(t)'
      BY <2>1, <2>3, <3>1, <3>2
    <3>6. \A u \in Thread : u # t /\ Holds(u)' =>
            /\ TheEntry(u)' \notin pending'
            /\ work'[u].step \in {"taken", "stale", "persist"} => audit'[TheEntry(u)'] = {}
            /\ work'[u].step \in {"recheck", "deliver"} => audit'[TheEntry(u)'] = {Fact(u)'}
            /\ \A v \in Thread : v # u /\ Holds(v)' => TheEntry(v)' # TheEntry(u)'
      BY <1>1, <2>1, <2>3, <3>1, <3>2 DEF VerdictInv
    <3>7. \A d \in pending' : audit'[d] = {}
      BY <2>1, <2>3 DEF VerdictInv
    <3> QED BY <1>0, <2>1, <3>1, <3>3, <3>4, <3>5, <3>6, <3>7 DEF VerdictInv
  <2> QED BY <1>3, <2>2, <2>3 DEF TakeEntry, Touch, Return, TheEntry
<1>4. CASE ReleaseTransition(t)
  <2>1. CASE work[t].step = "taken"
    <3>1. /\ work' = [work EXCEPT ![t].step = "persist"] /\ Holds(t)
          /\ UNCHANGED <<audit, pending, wait, sent>>
      BY <1>4, <2>1 DEF ReleaseTransition, pendingState, Holds, Resolving
    <3>2. audit[TheEntry(t)] = {} /\ "persist" \in Resolving
      BY <2>1, <3>1 DEF VerdictInv, Resolving
    <3> QED BY <3>1, <3>2, VerdictGoesOn
  <2>2. CASE work[t].step = "stale"
    <3>1. /\ work' = [work EXCEPT ![t].step = "revoked"] /\ Holds(t)
          /\ UNCHANGED <<audit, pending, wait, sent>> /\ "revoked" \in Resolving
      BY <1>4, <2>2 DEF ReleaseTransition, pendingState, Holds, Resolving
    <3> QED BY <3>1, VerdictGoesOn
  <2> QED BY <1>4, <2>1, <2>2 DEF ReleaseTransition
<1>5. CASE PersistResolution(t)
  <2> DEFINE c == TheEntry(t)
  <2>1. /\ work[t].step = "persist" /\ Holds(t) /\ c \in Call /\ UNCHANGED <<wait, sent>>
        /\ audit[c] = {} /\ c \notin pending /\ ~NobodyAsked(c)
        /\ \A u \in Thread : u # t /\ Holds(u) => TheEntry(u) # c
    BY <1>5 DEF PersistResolution, Holds, Resolving, WorkInv, Deciding, VerdictInv
  <2>2. CASE /\ audit' = [audit EXCEPT ![c] = @ \cup {Fact(t)}]
             /\ work' = [work EXCEPT ![t].step = "recheck"] /\ pending' = pending
    <3>1. /\ work'[t].step = "recheck" /\ Holds(t)'
          /\ \A u \in Thread : TheEntry(u)' = TheEntry(u) /\ Fact(u)' = Fact(u) /\ Holds(u)' = Holds(u)
      BY <1>0, <1>1, <2>1, <2>2 DEF WorkRecord, TheEntry, Fact, Holds, Resolving
    <3>2. Fact(t) \in {"Approved", "Denied"}
      BY DEF Fact
    <3>3. /\ audit'[c] = {Fact(t)} /\ \A d \in Call : d # c => audit'[d] = audit[d]
          /\ audit' \in [Call -> SUBSET {"Approved", "Denied"}]
      BY <1>0, <2>1, <2>2, <3>2
    <3>4. Acknowledged'
      BY <2>1, <3>2, <3>3 DEF VerdictInv, Acknowledged
    <3>5. \A d \in Call : NobodyAsked(d)' =>
            audit'[d] = {} /\ d \notin pending' /\ \A u \in Thread : Holds(u)' => TheEntry(u)' # d
      BY <1>2, <2>1, <2>2, <3>1, <3>3 DEF VerdictInv
    <3>6. \A u \in Thread : Holds(u) => TheEntry(u) \in Call
      BY DEF Holds, WorkInv, Deciding
    <3>7. \A u \in Thread : u # t /\ Holds(u)' =>
            /\ TheEntry(u)' \notin pending'
            /\ work'[u].step \in {"taken", "stale", "persist"} => audit'[TheEntry(u)'] = {}
            /\ work'[u].step \in {"recheck", "deliver"} => audit'[TheEntry(u)'] = {Fact(u)'}
            /\ \A v \in Thread : v # u /\ Holds(v)' => TheEntry(v)' # TheEntry(u)'
      BY <1>1, <2>1, <2>2, <3>1, <3>3, <3>6 DEF VerdictInv
    <3>8. \A d \in pending' : audit'[d] = {}
      BY <1>0, <2>1, <2>2, <3>3 DEF VerdictInv
    <3> QED BY <2>1, <2>2, <3>1, <3>3, <3>4, <3>5, <3>7, <3>8 DEF VerdictInv
  <2>3. CASE /\ audit' = audit /\ pending' = pending \cup {c} /\ work'[t].step \in {"failed", "idle"}
    <3>1. /\ ~Holds(t)'
          /\ \A u \in Thread : u # t => TheEntry(u)' = TheEntry(u) /\ Fact(u)' = Fact(u)
                                        /\ Holds(u)' = Holds(u)
      BY <1>1, <2>3 DEF TheEntry, Fact, Holds, Resolving
    <3>2. Acknowledged'
      BY <2>1, <2>3 DEF VerdictInv, Acknowledged
    <3>3. \A d \in Call : NobodyAsked(d)' =>
            audit'[d] = {} /\ d \notin pending' /\ \A u \in Thread : Holds(u)' => TheEntry(u)' # d
      BY <1>2, <2>1, <2>3, <3>1 DEF VerdictInv
    <3>4. \A u \in Thread : Holds(u)' =>
            /\ TheEntry(u)' \notin pending'
            /\ work'[u].step \in {"taken", "stale", "persist"} => audit'[TheEntry(u)'] = {}
            /\ work'[u].step \in {"recheck", "deliver"} => audit'[TheEntry(u)'] = {Fact(u)'}
            /\ \A v \in Thread : v # u /\ Holds(v)' => TheEntry(v)' # TheEntry(u)'
      BY <1>1, <2>1, <2>3, <3>1 DEF VerdictInv
    <3> QED BY <1>0, <2>1, <2>3, <3>2, <3>3, <3>4 DEF VerdictInv
  <2>4. \/ /\ audit' = [audit EXCEPT ![c] = @ \cup {Fact(t)}] /\ pending' = pending
           /\ work' = [work EXCEPT ![t].step = "recheck"]
        \/ /\ audit' = audit /\ pending' = pending \cup {c}
           /\ work' = [work EXCEPT ![t] = IF t \in Call THEN [work[t] EXCEPT !.step = "failed"]
                                                         ELSE Idle]
    BY <1>5 DEF PersistResolution, AppendFact, Touch, TheEntry, Fact
  <2>5. ASSUME work' = [work EXCEPT ![t] = IF t \in Call THEN [work[t] EXCEPT !.step = "failed"]
                                                         ELSE Idle]
        PROVE  work'[t].step \in {"failed", "idle"}
    BY <1>0, <2>5 DEF WorkRecord, Idle
  <2> QED BY <2>2, <2>3, <2>4, <2>5
<1>6. CASE Recheck(t)
  <2>1. /\ work[t].step = "recheck" /\ Holds(t) /\ UNCHANGED <<audit, pending, wait, sent>>
        /\ {"revoked", "deliver"} \subseteq Resolving /\ audit[TheEntry(t)] = {Fact(t)}
    BY <1>6 DEF Recheck, Holds, Resolving, VerdictInv
  <2> QED BY <1>6, <2>1, VerdictGoesOn DEF Recheck
<1>7. CASE SendAnswer(t)
  <2>1. /\ work' = [work EXCEPT ![t] = Idle] /\ UNCHANGED <<audit, pending>>
        /\ Holds(t) /\ audit[TheEntry(t)] = {Fact(t)} /\ TheEntry(t) \in Call
    BY <1>7 DEF SendAnswer, Return, Holds, Resolving, VerdictInv, WorkInv, Deciding
  <2>2. \A c \in Call : sent'[c] = "Allow" /\ sent[c] # "Allow"
          => c = TheEntry(t) /\ work[t].decision # "Deny"
    BY <1>0, <1>7 DEF SendAnswer, TheEntry
  <2>3. Acknowledged'
    BY <2>1, <2>2 DEF VerdictInv, Acknowledged, Fact
  <2>4. \A u \in Thread : Holds(u)' => u # t /\ Holds(u) /\ TheEntry(u)' = TheEntry(u) /\ Fact(u)' = Fact(u)
    BY <1>0, <1>1, <2>1 DEF Holds, TheEntry, Fact
  <2>5. \A d \in Call : NobodyAsked(d)' =>
          audit'[d] = {} /\ d \notin pending' /\ \A u \in Thread : Holds(u)' => TheEntry(u)' # d
    BY <1>2, <2>1, <2>4 DEF VerdictInv
  <2>6. \A u \in Thread : Holds(u)' =>
          /\ TheEntry(u)' \notin pending'
          /\ work'[u].step \in {"taken", "stale", "persist"} => audit'[TheEntry(u)'] = {}
          /\ work'[u].step \in {"recheck", "deliver"} => audit'[TheEntry(u)'] = {Fact(u)'}
          /\ \A v \in Thread : v # u /\ Holds(v)' => TheEntry(v)' # TheEntry(u)'
    BY <1>1, <2>1, <2>4 DEF VerdictInv
  <2> QED BY <2>1, <2>3, <2>5, <2>6 DEF VerdictInv
<1>8. CASE Revoked(t)
  <2>1. /\ work' = [work EXCEPT ![t] = Idle] /\ UNCHANGED <<audit, pending>>
        /\ \A c \in Call : sent'[c] = "Allow" => sent[c] = "Allow"
    BY <1>0, <1>8 DEF Revoked, Return, pendingState
  <2> QED BY <1>0, <1>1, <1>2, <2>1, VerdictQuiet
<1> QED
  BY <1>3, <1>4, <1>5, <1>6, <1>7, <1>8 DEF DecideStep

LEMMA VerdictControl ==
    ASSUME WorkInv, VerdictInv, GuardInv, Revoke \/ CancelAll \/ ControlStep
    PROVE  VerdictInv'
<1>0. /\ work \in [Thread -> WorkRecord] /\ Control \in Thread
      /\ sent \in [Call -> {"nothing", "Allow", "Deny"}] /\ Idle.step = "idle"
  BY DEF WorkInv, GuardInv, Idle, Thread
<1>1. /\ \A u \in Thread : u # Control => work'[u] = work[u]
      /\ work'[Control].step \notin Resolving
  <2>1. CASE Revoke
    BY <1>0, <2>1 DEF Revoke, Working, Resolving
  <2>2. CASE CancelAll
    BY <1>0, <2>2 DEF CancelAll, Working, Resolving
  <2>3. ASSUME NEW o \in Operation, CancelOperation(o)
        PROVE  <1>1!1 /\ <1>1!2
    BY <1>0, <2>3 DEF CancelOperation, Working, Resolving
  <2>4. ASSUME NEW c \in Call, CleanEntry(c)
        PROVE  <1>1!1 /\ <1>1!2
    BY <1>0, <2>4 DEF CleanEntry, WorkRecord, Resolving
  <2>5. CASE CleanDone
    BY <1>0, <2>5 DEF CleanDone, WorkRecord, Resolving
  <2> QED BY <2>1, <2>2, <2>3, <2>4, <2>5 DEF ControlStep
<1>2. /\ UNCHANGED <<audit, wait>> /\ pending' \subseteq pending
      /\ \A c \in Call : sent'[c] = "Allow" => sent[c] = "Allow"
  BY <1>0 DEF Revoke, CancelAll, ControlStep, CancelOperation, CleanEntry, CleanDone,
              pendingState, Touch
<1> QED
  BY <1>0, <1>1, <1>2, VerdictQuiet DEF NobodyAsked

\* What the proof that there is one verdict rests on.
VerdictTypes == WorkInv /\ GuardInv /\ VerdictInv /\ WaitInv /\ LogInv

LEMMA VerdictStarts == AuthorizationInit => VerdictTypes
<1> SUFFICES ASSUME AuthorizationInit PROVE VerdictTypes
  OBVIOUS
<1> USE DEF VerdictTypes
<1>1. \A t \in Thread : work[t].step = "idle"
  BY DEF AuthorizationInit, Idle
<1>2. GuardInv
  BY <1>1 DEF AuthorizationInit, GuardInv
<1>3. \A t \in Thread : ~Holds(t)
  BY <1>1 DEF Holds, Resolving
<1>4. VerdictInv
  BY <1>3 DEF AuthorizationInit, VerdictInv, Acknowledged
<1>5. WaitInv
  BY DEF AuthorizationInit, WaitInv
<1>6. LogInv
  BY DEF AuthorizationInit, LogInv
<1> QED BY <1>2, <1>4, <1>5, <1>6, WorkInit

\* An append adds the same facts to both, unless it fails.
LEMMA LogAppend ==
    ASSUME VerdictInv, LogInv, NEW c \in Call, NEW facts \in SUBSET {"Approved", "Denied"},
           NEW ok \in BOOLEAN, AppendFact(c, facts, ok)
    PROVE  LogInv'
<1>1. /\ audit \in [Call -> SUBSET {"Approved", "Denied"}]
      /\ logged \in [Call -> SUBSET {"Approved", "Denied"}]
  BY DEF VerdictInv, LogInv
<1>2. CASE ok
  <2>1. /\ audit' = [audit EXCEPT ![c] = @ \cup facts] /\ logged' = [logged EXCEPT ![c] = @ \cup facts]
        /\ doubted' = doubted
    BY <1>2 DEF AppendFact
  <2> QED BY <1>1, <2>1 DEF LogInv
<1>3. CASE ~ok
  <2>1. /\ audit' = audit /\ doubted' = doubted \cup {c}
        /\ logged' = [logged EXCEPT ![c] = @ \cup facts] \/ logged' = logged
    BY <1>3 DEF AppendFact
  <2> QED BY <1>1, <2>1 DEF LogInv
<1> QED BY <1>2, <1>3

LEMMA LogKept ==
    ASSUME WorkInv, VerdictInv, LogInv, [AuthorizationNext]_authVars
    PROVE  LogInv'
<1>1. CASE UNCHANGED <<audit, logged, doubted>>
  BY <1>1 DEF LogInv
<1>2. ASSUME NEW c \in Call, CallStep(c) PROVE LogInv'
  <2>1. ASSUME NEW mode \in Modes, Authorize(c, mode) PROVE LogInv'
    <3>1. \/ UNCHANGED <<audit, logged, doubted>>
          \/ \E ok \in BOOLEAN : AppendFact(c, {"Denied"}, ok) \/ AppendFact(c, {}, ok)
      BY <2>1 DEF Authorize
    <3> QED BY <1>1, <3>1, LogAppend
  <2> QED BY <1>1, <1>2, <2>1 DEF CallStep, WaitStep, LeaveWait, Enter, Answered, Timeout, TimeoutFails
<1>3. ASSUME NEW t \in Thread, DecideStep(t) PROVE LogInv'
  <2>1. CASE PersistResolution(t)
    <3>1. TheEntry(t) \in Call /\ Fact(t) \in {"Approved", "Denied"}
      BY <2>1 DEF PersistResolution, WorkInv, Deciding, Resolving, Fact
    <3>2. \E ok \in BOOLEAN : AppendFact(TheEntry(t), {Fact(t)}, ok)
      BY <2>1 DEF PersistResolution, TheEntry, Fact
    <3> QED BY <3>1, <3>2, LogAppend
  <2> QED BY <1>1, <1>3, <2>1 DEF DecideStep, TakeEntry, ReleaseTransition, Recheck, SendAnswer, Revoked
<1>4. ASSUME NEW t \in Thread, SyncStep(t) PROVE LogInv'
  BY <1>1, <1>4 DEF SyncStep, SyncSet, SyncCheck
<1>5. ASSUME NEW d \in Decider, NEW c \in Call, NEW decision \in Decision,
             ClientDecides(d, c, decision)
      PROVE  LogInv'
  BY <1>1, <1>5 DEF ClientDecides
<1>6. CASE Revoke \/ CancelAll \/ ControlStep
  BY <1>1, <1>6 DEF Revoke, CancelAll, ControlStep, CancelOperation, CleanEntry, CleanDone
<1>7. CASE UNCHANGED authVars
  BY <1>1, <1>7 DEF authVars
<1> QED BY <1>2, <1>3, <1>4, <1>5, <1>6, <1>7 DEF AuthorizationNext

LEMMA VerdictKept == VerdictTypes /\ [AuthorizationNext]_authVars => VerdictTypes'
<1> SUFFICES ASSUME VerdictTypes, [AuthorizationNext]_authVars PROVE VerdictTypes'
  OBVIOUS
<1> USE DEF VerdictTypes
<1>1. WorkInv' /\ GuardInv'
  BY WorkStep, GuardStep
<1>2. WaitInv'
  <2> USE DEF WaitInv
  <2>1. CASE UNCHANGED wait
    BY <2>1
  <2>2. ASSUME NEW c \in Call, CallStep(c) PROVE WaitInv'
    <3>1. ASSUME NEW mode \in Modes, Authorize(c, mode) PROVE WaitInv'
      BY <3>1 DEF Authorize
    <3>2. CASE WaitStep(c)
      BY <3>2 DEF WaitStep, Enter, Answered, Timeout, TimeoutFails
    <3>3. CASE LeaveWait(c)
      BY <3>3 DEF LeaveWait
    <3> QED BY <2>2, <3>1, <3>2, <3>3 DEF CallStep
  <2>3. ASSUME NEW t \in Thread, DecideStep(t) PROVE WaitInv'
    <3>1. CASE TakeEntry(t)
      BY <2>1, <3>1 DEF TakeEntry, Return
    <3>4. CASE ReleaseTransition(t) \/ PersistResolution(t)
      BY <2>1, <3>4 DEF ReleaseTransition, PersistResolution
    <3>2. CASE Recheck(t) \/ SendAnswer(t)
      BY <2>1, <3>2 DEF Recheck, SendAnswer, Return
    <3>3. CASE Revoked(t)
      BY <2>1, <3>3 DEF Revoked, Return
    <3> QED BY <2>3, <3>1, <3>2, <3>3, <3>4 DEF DecideStep
  <2>4. ASSUME NEW t \in Thread, SyncStep(t) PROVE WaitInv'
    BY <2>1, <2>4 DEF SyncStep, SyncSet, SyncCheck
  <2>5. ASSUME NEW d \in Decider, NEW c \in Call, NEW decision \in Decision,
               ClientDecides(d, c, decision)
        PROVE  WaitInv'
    BY <2>1, <2>5 DEF ClientDecides
  <2>6. CASE Revoke \/ CancelAll \/ ControlStep
    BY <2>1, <2>6 DEF Revoke, CancelAll, ControlStep, CancelOperation, CleanEntry, CleanDone
  <2>7. CASE UNCHANGED authVars
    BY <2>1, <2>7 DEF authVars
  <2> QED BY <2>2, <2>3, <2>4, <2>5, <2>6, <2>7 DEF AuthorizationNext
<1>3. ASSUME UNCHANGED authVars PROVE VerdictInv'
  BY <1>3, VerdictFrame DEF authVars, pendingState, NobodyAsked
<1>4. ASSUME NEW d \in Decider, NEW c \in Call, NEW decision \in Decision,
             ClientDecides(d, c, decision)
      PROVE  VerdictInv'
  <2>1. d \in Thread /\ work \in [Thread -> WorkRecord]
    BY DEF Thread, WorkInv
  <2>2. Working("decide", {c}, decision, "idle").step \notin Resolving
    BY DEF Working, Resolving
  <2> QED BY <1>4, <2>1, <2>2, VerdictQuiet DEF ClientDecides, pendingState, NobodyAsked
<1>5. ASSUME NEW t \in Thread, SyncStep(t) PROVE VerdictInv'
  BY <1>5, VerdictFrame DEF SyncStep, SyncSet, SyncCheck, pendingState, NobodyAsked
<1>6. VerdictInv'
  BY <1>3, <1>4, <1>5, VerdictCall, VerdictDecide, VerdictControl DEF AuthorizationNext
<1> QED BY <1>1, <1>2, <1>6, LogKept

LEMMA VerdictSays == VerdictTypes => OneVerdict
BY DEF VerdictTypes, VerdictInv, LogInv, Acknowledged, OneVerdict

(***************************************************************************)
(* Deciders, the timeout and failing appends race for an entry: a call is  *)
(* let through only on an acknowledged approval, at most one verdict of it *)
(* is acknowledged, and the log has both only when an append of it failed. *)
(***************************************************************************)
THEOREM VerdictIsOne == AuthorizationSpec => []OneVerdict
BY VerdictSays, VerdictStarts, VerdictKept, PTL DEF AuthorizationSpec

(***************************************************************************)
(* Publishing the pending map.  A thread that publishes either has the map *)
(* as it is now or will find that it has not; and if the clients are shown *)
(* anything else, some thread is still to publish it.                      *)
(***************************************************************************)
Publishing == [step : {"none", "set", "check"}, current : BOOLEAN, list : SUBSET Call]
ToPublish(t) == IF sync[t].step = "set" THEN sync[t].current
                ELSE sync[t].step = "check" /\ ~sync[t].current

SyncInv ==
  /\ sync \in [Thread -> Publishing]
  /\ \A t \in Thread : sync[t].step = "none" => sync[t] = NoSync
  /\ \A t \in Thread : sync[t].step # "none" /\ sync[t].current => sync[t].list = pending
  /\ shown = pending \/ \E t \in Thread : ToPublish(t)

\* What a thread publishes has a type.
LEMMA PublishingTypes == NoSync \in Publishing /\ \A list \in SUBSET Call : ToShow(list) \in Publishing
  BY DEF NoSync, ToShow, Publishing

\* Who changes the map is to publish it, and the others find out.
LEMMA TouchSync ==
    ASSUME SyncInv, NEW t \in Thread, NEW entries, entries \subseteq Call, Touch(t, entries)
    PROVE  SyncInv'
<1>1. sync'[t] = ToShow(pending') /\ ToShow(pending') \in Publishing /\ pending' = entries
  BY PublishingTypes DEF Touch
<1>2. \A u \in Thread \ {t} :
        sync'[u] = [sync[u] EXCEPT !.current = @ /\ (entries = pending \/ sync[u] = NoSync)]
  BY DEF Touch
<1>3. \A u \in Thread \ {t} :
        /\ sync'[u] \in Publishing /\ sync'[u].step = sync[u].step /\ sync'[u].list = sync[u].list
        /\ sync'[u].current => sync[u].current /\ (entries = pending \/ sync[u] = NoSync)
        /\ sync[u] = NoSync => sync'[u] = NoSync
  <2> SUFFICES ASSUME NEW u \in Thread \ {t}
               PROVE  /\ sync'[u] \in Publishing /\ sync'[u].step = sync[u].step
                      /\ sync'[u].list = sync[u].list
                      /\ sync'[u].current =>
                           sync[u].current /\ (entries = pending \/ sync[u] = NoSync)
                      /\ sync[u] = NoSync => sync'[u] = NoSync
    OBVIOUS
  <2>1. sync[u] \in Publishing
    BY DEF SyncInv
  <2>2. PICK b \in BOOLEAN : /\ sync'[u] = [sync[u] EXCEPT !.current = b]
                             /\ b <=> sync[u].current /\ (entries = pending \/ sync[u] = NoSync)
    BY <1>2, <2>1 DEF Publishing
  <2>3. NoSync.current = TRUE
    BY DEF NoSync
  <2> QED BY <2>1, <2>2, <2>3 DEF Publishing
<1>4. sync' \in [Thread -> Publishing]
  BY <1>1, <1>3 DEF Touch
<1>5. ToPublish(t)' /\ sync'[t].step = "set" /\ sync'[t].list = pending'
  BY <1>1 DEF ToPublish, ToShow
<1>6. \A u \in Thread : sync'[u].step = "none" => sync'[u] = NoSync
  BY <1>3, <1>5 DEF SyncInv
<1>7. \A u \in Thread : sync'[u].step # "none" /\ sync'[u].current => sync'[u].list = pending'
  <2>1. NoSync.step = "none"
    BY DEF NoSync
  <2> QED BY <1>1, <1>3, <1>5, <2>1 DEF SyncInv
<1> QED BY <1>4, <1>5, <1>6, <1>7 DEF SyncInv

\* Publishing itself: an old list is followed by a new round.
LEMMA SyncSync == ASSUME SyncInv, WorkInv, NEW t \in Thread, SyncStep(t) PROVE SyncInv'
<1>0. pending' = pending /\ pending \in SUBSET Call /\ sync[t] \in Publishing
  BY DEF SyncStep, SyncSet, SyncCheck, pendingState, SyncInv, WorkInv
<1>1. CASE SyncSet(t)
  <2>1. /\ sync[t].step = "set" /\ shown' = sync[t].list
        /\ sync'[t] \in Publishing /\ sync'[t].step = "check"
        /\ sync'[t].current = sync[t].current /\ sync'[t].list = sync[t].list
        /\ \A u \in Thread \ {t} : sync'[u] = sync[u]
        /\ sync' \in [Thread -> Publishing]
    BY <1>0, <1>1 DEF SyncSet, SyncInv, Publishing
  <2>2. CASE sync[t].current
    BY <1>0, <2>1, <2>2 DEF SyncInv
  <2>3. CASE ~sync[t].current
    BY <1>0, <2>1, <2>3 DEF SyncInv, ToPublish
  <2> QED BY <2>2, <2>3
<1>2. CASE SyncCheck(t)
  <2>1. /\ sync[t].step = "check" /\ shown' = shown
        /\ sync'[t] = IF sync[t].current THEN NoSync ELSE ToShow(pending)
        /\ \A u \in Thread \ {t} : sync'[u] = sync[u]
        /\ sync' \in [Thread -> Publishing]
    BY <1>0, <1>2, PublishingTypes DEF SyncCheck, SyncInv
  <2>2. CASE sync[t].current
    <3>1. ~ToPublish(t) /\ sync'[t] = NoSync /\ NoSync.step = "none"
      BY <2>1, <2>2 DEF ToPublish, NoSync
    <3>2. \A u \in Thread : ToPublish(u) => ToPublish(u)'
      BY <2>1, <3>1 DEF ToPublish
    <3> QED BY <1>0, <2>1, <3>1, <3>2 DEF SyncInv
  <2>3. CASE ~sync[t].current
    <3>1. sync'[t].step = "set" /\ sync'[t].current /\ sync'[t].list = pending
      BY <2>1, <2>3 DEF ToShow
    <3> QED BY <1>0, <2>1, <3>1 DEF SyncInv, ToPublish
  <2> QED BY <2>2, <2>3
<1> QED BY <1>1, <1>2 DEF SyncStep

\* Nothing else changes the map or what is shown of it.
LEMMA SyncKept == ASSUME SyncInv, UNCHANGED <<pending, sync, shown>> PROVE SyncInv'
  BY DEF SyncInv, ToPublish

\* Every step keeps it.
LEMMA SyncAll ==
    ASSUME SyncInv, WorkInv, WorkInv', [AuthorizationNext]_authVars
    PROVE  SyncInv'
<1>1. Call \subseteq Thread /\ Decider \subseteq Thread /\ Control \in Thread
  BY DEF Thread
<1>2. pending' \subseteq Call
  BY DEF WorkInv
<1>3. ASSUME NEW t \in Thread, NEW entries, Touch(t, entries) PROVE SyncInv'
  <2>1. entries \subseteq Call
    BY <1>2, <1>3 DEF Touch
  <2> QED BY <1>3, <2>1, TouchSync
<1>4. ASSUME NEW c \in Call, CallStep(c) PROVE SyncInv'
  BY <1>1, <1>3, <1>4, SyncKept
     DEF CallStep, WaitStep, Authorize, Enter, Answered, Timeout, TimeoutFails, LeaveWait, pendingState
<1>5. ASSUME NEW t \in Thread, DecideStep(t) PROVE SyncInv'
  BY <1>3, <1>5, SyncKept
     DEF DecideStep, TakeEntry, ReleaseTransition, PersistResolution, Recheck, SendAnswer, Revoked,
         pendingState
<1>6. ASSUME Revoke \/ CancelAll \/ ControlStep PROVE SyncInv'
  BY <1>1, <1>3, <1>6, SyncKept
     DEF Revoke, CancelAll, ControlStep, CancelOperation, CleanEntry, CleanDone, pendingState
<1>7. ASSUME UNCHANGED authVars \/ \E d \in Decider, c \in Call, decision \in Decision :
                                      ClientDecides(d, c, decision)
      PROVE  SyncInv'
  BY <1>7, SyncKept DEF ClientDecides, authVars, pendingState
<1> QED BY <1>4, <1>5, <1>6, <1>7, SyncSync DEF AuthorizationNext

LEMMA SyncStarts == AuthorizationInit => SyncInv
<1> SUFFICES ASSUME AuthorizationInit PROVE SyncInv
  OBVIOUS
<1>1. /\ sync = [t \in Thread |-> NoSync] /\ shown = pending
      /\ NoSync \in Publishing /\ NoSync.step = "none"
  BY PublishingTypes DEF AuthorizationInit, NoSync
<1> HIDE DEF NoSync
<1> QED BY <1>1 DEF SyncInv

LEMMA SyncSettles == SyncInv => ShownSettles
<1>1. NoSync.step = "none"
  BY DEF NoSync
<1> QED BY <1>1 DEF SyncInv, ToPublish, ShownSettles

(***************************************************************************)
(* Threads publish the map without its lock and in any order; when none is *)
(* left publishing, the clients are shown exactly what is pending.         *)
(***************************************************************************)
THEOREM ShownConverges == AuthorizationSpec => []ShownSettles
<1>1. AuthorizationInit => WorkInv /\ SyncInv
  BY WorkInit, SyncStarts
<1>2. WorkInv /\ SyncInv /\ [AuthorizationNext]_authVars => (WorkInv /\ SyncInv)'
  BY WorkStep, SyncAll
<1> QED BY <1>1, <1>2, SyncSettles, PTL DEF AuthorizationSpec

(***************************************************************************)
(* Types.                                                                  *)
(***************************************************************************)
\* What is granted, bound and shown are operations and calls, and who is in
\* decide() is about calls.
StoreInv ==
  /\ shown \subseteq Call /\ grants \subseteq Operation /\ binding \subseteq Call
  /\ gen \in Nat /\ transition \in Thread \cup {NoThread}
  /\ \A t \in Thread \ {Control} : work[t].entries \subseteq Call

AuthorizationInv == VerdictTypes /\ SyncInv /\ StoreInv

LEMMA Owners == \A c \in Call : OwnerOf[c] \in Operation
BY DEF Operation

LEMMA StoreStarts == AuthorizationInit => StoreInv
<1> SUFFICES ASSUME AuthorizationInit PROVE StoreInv
  OBVIOUS
<1>1. \A t \in Thread : work[t].entries = {}
  BY DEF AuthorizationInit, Idle
<1> QED BY <1>1 DEF AuthorizationInit, StoreInv

\* A thread that keeps its entries, drops them or turns to one call.
LEMMA EntriesKept ==
  ASSUME WorkInv, StoreInv, NEW u \in Thread,
         \A t \in Thread \ {u} : work'[t] = work[t],
         u # Control => \/ work'[u].entries = work[u].entries
                        \/ work'[u].entries = {}
                        \/ \E c \in Call : work'[u].entries = {c}
  PROVE  \A t \in Thread \ {Control} : work'[t].entries \subseteq Call
BY DEF StoreInv

LEMMA StoreKept ==
  ASSUME VerdictTypes, SyncInv, StoreInv, [AuthorizationNext]_authVars
  PROVE  StoreInv'
<1>0. /\ work \in [Thread -> WorkRecord] /\ pending \subseteq Call
      /\ \A t \in Thread : work[t].step \in Deciding => TheEntry(t) \in Call
      /\ Call \subseteq Thread /\ Decider \subseteq Thread /\ Control \in Thread
      /\ \A t \in Thread : sync[t].list \subseteq Call
      /\ Idle.entries = {}
  BY DEF VerdictTypes, WorkInv, Thread, SyncInv, Publishing, Idle
<1>1. ASSUME NEW c \in Call, CallStep(c) PROVE StoreInv'
  <2>1. /\ UNCHANGED <<grants, shown, gen, transition>>
        /\ binding' \subseteq binding \cup {c}
        /\ \/ work' = work
           \/ work' = [work EXCEPT ![c] = Working("decide", {c}, "Deny", "late")]
           \/ work' = [work EXCEPT ![c] = Idle]
    BY <1>1 DEF CallStep, WaitStep, Authorize, Enter, Answered, LeaveWait, Timeout, TimeoutFails,
                pendingState
  <2>2. Working("decide", {c}, "Deny", "late").entries = {c}
    BY DEF Working
  <2>3. \A t \in Thread \ {Control} : work'[t].entries \subseteq Call
    <3>1. CASE work' = work
      BY <3>1 DEF StoreInv
    <3>2. CASE work' # work
      BY <1>0, <2>1, <2>2, <3>2 DEF StoreInv
    <3> QED BY <3>1, <3>2
  <2> QED BY <2>1, <2>3 DEF StoreInv
<1>2. ASSUME NEW d \in Decider, NEW c \in Call, NEW decision \in Decision,
             ClientDecides(d, c, decision)
      PROVE  StoreInv'
  <2>1. Working("decide", {c}, decision, "idle").entries = {c}
    BY DEF Working
  <2>2. /\ work' = [work EXCEPT ![d] = Working("decide", {c}, decision, "idle")]
        /\ UNCHANGED <<grants, shown, gen, transition, binding>>
    BY <1>2 DEF ClientDecides, pendingState
  <2> QED BY <1>0, <2>1, <2>2 DEF StoreInv
<1>3. ASSUME NEW t \in Thread, DecideStep(t) PROVE StoreInv'
  <2>1. work[t].step \in Deciding
    BY <1>3 DEF DecideStep, TakeEntry, ReleaseTransition, PersistResolution, Recheck, SendAnswer,
                Revoked, Deciding, Resolving
  <2>2. t # Control /\ TheEntry(t) \in Call /\ OwnerOf[TheEntry(t)] \in Operation
    BY <1>0, <2>1, Owners DEF VerdictTypes, WorkInv
  <2>3. /\ UNCHANGED <<shown, gen>>
        /\ transition' \in {transition, t, NoThread}
        /\ binding' \subseteq binding
        /\ grants' \subseteq grants \cup {OwnerOf[TheEntry(t)]}
    BY <1>3 DEF DecideStep, TakeEntry, ReleaseTransition, PersistResolution, Recheck, SendAnswer,
                Revoked, pendingState, TheEntry
  <2>4. \/ work' = work \/ work' = [work EXCEPT ![t] = Idle]
        \/ \E s : work' = [work EXCEPT ![t].step = s]
    BY <1>3 DEF DecideStep, TakeEntry, ReleaseTransition, PersistResolution, Recheck, SendAnswer,
                Revoked, Return
  <2>5. /\ \A u \in Thread \ {t} : work'[u] = work[u]
        /\ work'[t].entries = work[t].entries \/ work'[t].entries = {}
    <3>1. CASE work' = work
      BY <3>1
    <3>2. CASE work' = [work EXCEPT ![t] = Idle]
      BY <1>0, <3>2
    <3>3. ASSUME NEW s, work' = [work EXCEPT ![t].step = s]
          PROVE  /\ \A u \in Thread \ {t} : work'[u] = work[u]
                 /\ work'[t].entries = work[t].entries
      BY <1>0, <3>3 DEF WorkRecord
    <3> QED BY <2>4, <3>1, <3>2, <3>3
  <2>6. \A u \in Thread \ {Control} : work'[u].entries \subseteq Call
    BY <2>5, EntriesKept DEF VerdictTypes
  <2> QED BY <2>2, <2>3, <2>6 DEF StoreInv
<1>4. ASSUME NEW t \in Thread, SyncStep(t) PROVE StoreInv'
  <2>1. /\ UNCHANGED <<grants, gen, transition, binding, work>>
        /\ shown' = shown \/ shown' = sync[t].list
    BY <1>4 DEF SyncStep, SyncSet, SyncCheck, pendingState
  <2> QED BY <1>0, <2>1 DEF StoreInv
<1>5. ASSUME Revoke \/ CancelAll \/ ControlStep PROVE StoreInv'
  <2>1. /\ UNCHANGED <<shown, transition>> /\ binding' \subseteq binding
        /\ grants' \subseteq grants /\ gen' \in {gen, gen + 1}
        /\ \E j : work' = [work EXCEPT ![Control] = j]
    <3>1. CASE Revoke
      BY <3>1 DEF Revoke, pendingState
    <3>2. CASE CancelAll
      BY <3>2 DEF CancelAll
    <3>3. ASSUME NEW o \in Operation, CancelOperation(o)
          PROVE  /\ UNCHANGED <<shown, transition>> /\ binding' \subseteq binding
                 /\ grants' \subseteq grants /\ gen' \in {gen, gen + 1}
                 /\ \E j : work' = [work EXCEPT ![Control] = j]
      BY <3>3 DEF CancelOperation
    <3>4. ASSUME NEW c \in Call, CleanEntry(c)
          PROVE  /\ UNCHANGED <<shown, transition>> /\ binding' \subseteq binding
                 /\ grants' \subseteq grants /\ gen' \in {gen, gen + 1}
                 /\ \E j : work' = [work EXCEPT ![Control] = j]
      BY <3>4 DEF CleanEntry, pendingState
    <3>5. CASE CleanDone
      BY <3>5 DEF CleanDone, pendingState
    <3> QED BY <1>5, <3>1, <3>2, <3>3, <3>4, <3>5 DEF ControlStep
  <2>2. \A u \in Thread \ {Control} : work'[u] = work[u]
    BY <1>0, <2>1
  <2> QED BY <2>1, <2>2 DEF StoreInv
<1>6. CASE UNCHANGED authVars
  BY <1>6 DEF authVars, pendingState, StoreInv
<1> QED BY <1>1, <1>2, <1>3, <1>4, <1>5, <1>6 DEF AuthorizationNext

LEMMA AuthorizationStarts == AuthorizationInit => AuthorizationInv
BY VerdictStarts, SyncStarts, StoreStarts DEF AuthorizationInv

LEMMA AuthorizationKept == AuthorizationInv /\ [AuthorizationNext]_authVars => AuthorizationInv'
<1>1. VerdictTypes => WorkInv
  BY DEF VerdictTypes
<1> QED BY <1>1, VerdictKept, WorkStep, SyncAll, StoreKept DEF AuthorizationInv

LEMMA AuthorizationTyped == AuthorizationInv => AuthorizationTypeOK
<1> SUFFICES ASSUME AuthorizationInv PROVE AuthorizationTypeOK
  OBVIOUS
<1>1. /\ pending \subseteq Call /\ work \in [Thread -> WorkRecord]
      /\ sync \in [Thread -> Publishing]
      /\ sent \in [Call -> {"nothing", "Allow", "Deny"}]
      /\ audit \in [Call -> SUBSET {"Approved", "Denied"}]
      /\ logged \in [Call -> SUBSET {"Approved", "Denied"}] /\ doubted \subseteq Call
  BY DEF AuthorizationInv, VerdictTypes, WorkInv, GuardInv, VerdictInv, SyncInv, LogInv
<1>2. \A t \in Thread : sync[t].step \in {"none", "set", "check"} /\ sync[t].list \subseteq Call
  BY <1>1 DEF Publishing
<1>3. \A t \in Thread : work[t].decision \in Decision \cup {NoCall}
  BY <1>1 DEF WorkRecord
<1>4. WaitInv /\ StoreInv
  BY DEF AuthorizationInv, VerdictTypes
<1>5. \A c \in Call : wait[c] \in {"new", "asked", "waiting", "timing_out", "late",
                                   "allowed", "blocked", "failed"}
  BY <1>4 DEF WaitInv
<1> QED BY <1>1, <1>2, <1>3, <1>4, <1>5 DEF AuthorizationTypeOK, StoreInv

\* The entries, the grants, the snapshot and the work of every thread have
\* their types (AuthorizationState and its threads, services/authorization.rs).
THEOREM AuthorizationTypes == AuthorizationSpec => []AuthorizationTypeOK
BY AuthorizationStarts, AuthorizationKept, AuthorizationTyped, PTL DEF AuthorizationSpec
=============================================================================
