----------------------------- MODULE WebUIProofs -----------------------------
(***************************************************************************)
(* Proofs about the web page: first its state (module Page) and what it    *)
(* shows (module Views), then its connection (module LiveUI), each with    *)
(* its own variables.                                                      *)
(*                                                                         *)
(* Page.  Of the lists: Arrange puts the elements at some indices in a     *)
(* line, Keep and SortStable are Arrange by two such orders.  Of the tree  *)
(* of tasks: a walk upward goes through smaller and smaller levels, so it  *)
(* finds the epic that the reference definition finds.  Of the calendar:   *)
(* months are numbered from the year 0, month k begins on FirstDay(k), and *)
(* every day is in exactly one of them; the window, its header and its     *)
(* bars are computed with numbers of months from there on.                 *)
(* The invariants: FilterInv (the filter holds valid values only, or the   *)
(* address bar would not give it back), DraftsInv (a detail that is waited *)
(* for is that of the task shown, or its arrival would take the comment's  *)
(* form away), TimelineInv (the window is where the clicks have put it).   *)
(*                                                                         *)
(* LiveUI.  That a page attached to the stream is never out of date with   *)
(* nothing on its way that would make it look again is not inductive: an   *)
(* error that is shown excuses an old board, and a reply that was          *)
(* overtaken by a change takes the error away.  So the hint has to be      *)
(* there from the moment a change overtakes the reply, whether or not an   *)
(* error is shown (Overtaken).                                             *)
(***************************************************************************)
EXTENDS Page, LiveUI, FiniteSetTheorems, SequenceTheorems, WellFoundedInduction, TLAPS

-----------------------------------------------------------------------------
(* Sequences: what Arrange, Keep and SortStable give.                      *)

\* R orders I in a line.
Orders(R, I) ==
  /\ \A i \in I : <<i, i>> \notin R
  /\ \A i, j, k \in I : <<i, j>> \in R /\ <<j, k>> \in R => <<i, k>> \in R
  /\ \A i, j \in I : i # j => <<i, j>> \in R \/ <<j, i>> \in R

Before(i, I, R) == {j \in I : <<j, i>> \in R}

\* An index with more before it comes later, and no index has them all before it.
LEMMA RanksRise ==
  ASSUME NEW I, IsFiniteSet(I), NEW R, Orders(R, I)
  PROVE  /\ \A i \in I : Cardinality(Before(i, I, R)) \in 0..(Cardinality(I) - 1)
         /\ \A i, j \in I : <<i, j>> \in R =>
              Cardinality(Before(i, I, R)) < Cardinality(Before(j, I, R))
<1>1. ASSUME NEW i \in I
      PROVE  Cardinality(Before(i, I, R)) \in 0..(Cardinality(I) - 1)
  <2>1. Before(i, I, R) \in SUBSET (I \ {i}) /\ IsFiniteSet(I \ {i})
        /\ Cardinality(I \ {i}) = Cardinality(I) - 1
    BY FS_RemoveElement DEF Before, Orders
  <2>2. IsFiniteSet(Before(i, I, R)) /\ Cardinality(Before(i, I, R)) <= Cardinality(I) - 1
    BY <2>1, FS_Subset
  <2>3. Cardinality(Before(i, I, R)) \in Nat /\ Cardinality(I) \in Nat
    BY <2>2, FS_CardinalityType
  <2> QED
    BY <2>2, <2>3
<1>2. ASSUME NEW i \in I, NEW j \in I, <<i, j>> \in R
      PROVE  Cardinality(Before(i, I, R)) < Cardinality(Before(j, I, R))
  <2> DEFINE P == Before(i, I, R)
             Q == Before(j, I, R)
  <2>1. P \in SUBSET Q /\ i \in Q /\ i \notin P /\ Q \in SUBSET I
    BY <1>2 DEF Before, Orders
  <2> HIDE DEF P, Q
  <2>2. IsFiniteSet(Q)
    BY <2>1, FS_Subset
  <2>3. IsFiniteSet(P) /\ Cardinality(P) <= Cardinality(Q)
        /\ (Cardinality(Q) = Cardinality(P) => Q = P)
    BY <2>1, <2>2, FS_Subset
  <2>4. Cardinality(P) \in Nat /\ Cardinality(Q) \in Nat
    BY <2>2, <2>3, FS_CardinalityType
  <2>5. Cardinality(P) < Cardinality(Q)
    BY <2>1, <2>3, <2>4
  <2> QED
    BY <2>5 DEF P, Q
<1> QED
  BY <1>1, <1>2

\* Arrange lists the elements at the indices I, each index once and in the order R.
LEMMA ArrangeLists ==
  ASSUME NEW s, NEW I, IsFiniteSet(I), NEW R, Orders(R, I)
  PROVE  LET n == Cardinality(I) IN
         /\ n \in Nat
         /\ \E at \in [1..n -> I] :
              /\ Arrange(s, I, R) = [p \in 1..n |-> s[at[p]]]
              /\ \A i \in I : \E p \in 1..n : at[p] = i
              /\ \A p, q \in 1..n : p < q => <<at[p], at[q]>> \in R
<1> DEFINE n == Cardinality(I)
           rank == [i \in I |-> Cardinality(Before(i, I, R)) + 1]
           at == [p \in 1..n |-> CHOOSE i \in I : Cardinality(Before(i, I, R)) = p - 1]
<1>1. n \in Nat
  BY FS_CardinalityType
<1>2. /\ \A i \in I : Cardinality(Before(i, I, R)) \in 0..(n - 1)
      /\ \A i, j \in I : <<i, j>> \in R =>
           Cardinality(Before(i, I, R)) < Cardinality(Before(j, I, R))
  BY RanksRise
<1>3. /\ rank \in [I -> 1..n]
      /\ \A i, j \in I : <<i, j>> \in R => rank[i] < rank[j]
  BY <1>1, <1>2
<1>5. Arrange(s, I, R) = [p \in 1..n |-> s[at[p]]]
  BY DEF Arrange, Before
<1> HIDE DEF rank, n, at
<1>6. \A i, j \in I : i # j => rank[i] # rank[j]
  <2>1. \A i, j \in I : i # j => <<i, j>> \in R \/ <<j, i>> \in R
    BY DEF Orders
  <2>2. \A i \in I : rank[i] \in Int
    BY <1>1, <1>3
  <2>3. ASSUME NEW i \in I, NEW j \in I, <<i, j>> \in R PROVE rank[i] # rank[j]
    BY <1>3, <2>2, <2>3
  <2> QED
    BY <2>1, <2>3
<1>7. \A p \in 1..n : \E i \in I : rank[i] = p
  <2>1. rank \in Injection(I, 1..n)
    BY <1>3, <1>6 DEF Injection, IsInjective
  <2>2. IsFiniteSet(1..n) /\ Cardinality(1..n) = n
    BY <1>1, FS_Interval
  <2>3. rank \in Surjection(I, 1..n)
    BY <2>1, <2>2, FS_Injection DEF n
  <2> QED
    BY <2>3 DEF Surjection
<1>8. \A p \in 1..n : at[p] \in I /\ rank[at[p]] = p
  <2>1. ASSUME NEW p \in 1..n PROVE at[p] \in I /\ rank[at[p]] = p
    <3>1. PICK i \in I : rank[i] = p
      BY <1>7
    <3>2. \A j \in I : Cardinality(Before(j, I, R)) \in Int
      BY <1>1, <1>2
    <3>3. Cardinality(Before(i, I, R)) = p - 1
      BY <3>1, <3>2 DEF rank
    <3>4. at[p] \in I /\ Cardinality(Before(at[p], I, R)) = p - 1
      BY <3>3, Zenon DEF at
    <3> QED
      BY <1>1, <3>2, <3>4 DEF rank
  <2> QED
    BY <2>1
<1>9. at \in [1..n -> I]
  BY <1>8 DEF at
<1>10. \A i \in I : \E p \in 1..n : at[p] = i
  BY <1>3, <1>6, <1>8
<1>11. ASSUME NEW p \in 1..n, NEW q \in 1..n, p < q
       PROVE  <<at[p], at[q]>> \in R
  <2>1. at[p] \in I /\ at[q] \in I /\ rank[at[p]] = p /\ rank[at[q]] = q
    BY <1>8
  <2>2. at[p] # at[q] /\ ~(<<at[q], at[p]>> \in R)
    <3>1. ~(q < p) /\ p # q
      BY <1>1, <1>11
    <3> QED
      BY <1>3, <2>1, <3>1
  <2> QED
    BY <2>1, <2>2 DEF Orders
<1> QED
  BY <1>1, <1>5, <1>9, <1>10, <1>11 DEF n

\* No element occurs twice.
Distinct(s) == \A i, j \in DOMAIN s : s[i] = s[j] => i = j

\* What the indices I pick.
Picked(s, I) == {s[i] : i \in I}

Lined(r, s, I, R) ==
  \A p, q \in DOMAIN r : p < q =>
    \E i, j \in I : r[p] = s[i] /\ r[q] = s[j] /\ <<i, j>> \in R

\* Arrange gives a sequence of what is picked, in the order R.
LEMMA ArrangeSeq ==
  ASSUME NEW T, NEW s \in Seq(T), NEW I \in SUBSET DOMAIN s, NEW R, Orders(R, I)
  PROVE  /\ Arrange(s, I, R) \in Seq(T)
         /\ Elems(Arrange(s, I, R)) = Picked(s, I)
         /\ Distinct(s) => Distinct(Arrange(s, I, R))
         /\ Lined(Arrange(s, I, R), s, I, R)
<1> DEFINE r == Arrange(s, I, R)
           n == Cardinality(I)
<1>1. Len(s) \in Nat /\ DOMAIN s = 1..Len(s) /\ s \in [1..Len(s) -> T]
  BY LenProperties
<1>2. IsFiniteSet(I)
  <2>1. IsFiniteSet(DOMAIN s)
    BY <1>1, FS_Interval
  <2> QED
    BY <2>1, FS_Subset
<1>3. n \in Nat
  BY <1>2, FS_CardinalityType
<1>4. PICK at \in [1..n -> I] :
        /\ r = [p \in 1..n |-> s[at[p]]]
        /\ \A i \in I : \E p \in 1..n : at[p] = i
        /\ \A p, q \in 1..n : p < q => <<at[p], at[q]>> \in R
  BY <1>2, ArrangeLists
<1> HIDE DEF r, n
<1>5. DOMAIN r = 1..n /\ \A p \in 1..n : r[p] = s[at[p]] /\ at[p] \in I /\ s[at[p]] \in T
  BY <1>1, <1>4
<1>6. r \in Seq(T)
  <2>1. r \in [1..n -> T]
    BY <1>4, <1>5
  <2> QED
    BY <1>3, <2>1, SeqDef
<1>7. Elems(r) = Picked(s, I)
  BY <1>4, <1>5 DEF Elems, Picked
<1>8. ASSUME Distinct(s), NEW p \in 1..n, NEW q \in 1..n, r[p] = r[q]
      PROVE  p = q
  <2>1. at[p] = at[q]
    BY <1>1, <1>5, <1>8 DEF Distinct
  <2>2. <<at[p], at[q]>> \notin R /\ <<at[q], at[p]>> \notin R
    BY <1>5, <2>1 DEF Orders
  <2>3. ~(p < q) /\ ~(q < p)
    BY <1>4, <2>2
  <2> QED
    BY <1>3, <2>3
<1>9. ASSUME NEW p \in DOMAIN r, NEW q \in DOMAIN r, p < q
      PROVE  \E i, j \in I : r[p] = s[i] /\ r[q] = s[j] /\ <<i, j>> \in R
  BY <1>4, <1>5, <1>9
<1>10. Distinct(s) => Distinct(r)
  BY <1>5, <1>8 DEF Distinct
<1>11. Lined(r, s, I, R)
  BY <1>9 DEF Lined
<1> QED
  BY <1>6, <1>7, <1>10, <1>11 DEF r

\* A filter keeps the elements it is meant to, each as often as it was there.
LEMMA KeepKeeps ==
  ASSUME NEW T, NEW s \in Seq(T), NEW S
  PROVE  /\ Keep(s, S) \in Seq(T)
         /\ Elems(Keep(s, S)) = Elems(s) \cap S
         /\ Distinct(s) => Distinct(Keep(s, S))
<1> DEFINE I == {i \in DOMAIN s : s[i] \in S}
           R == {ij \in I \X I : ij[1] < ij[2]}
<1>1. Len(s) \in Nat /\ DOMAIN s = 1..Len(s)
  BY LenProperties
<1>2. I \in SUBSET DOMAIN s /\ I \subseteq Int
  BY <1>1
<1>3. \A i, j \in I : <<i, j>> \in R <=> i < j
  OBVIOUS
<1>4. Keep(s, S) = Arrange(s, I, R)
  BY DEF Keep
<1>5. Elems(s) \cap S = Picked(s, I)
  BY DEF Elems, Picked
<1> HIDE DEF R, I
<1>6. Orders(R, I)
  BY <1>2, <1>3 DEF Orders
<1>7. /\ Arrange(s, I, R) \in Seq(T)
      /\ Elems(Arrange(s, I, R)) = Picked(s, I)
      /\ Distinct(s) => Distinct(Arrange(s, I, R))
  BY <1>2, <1>6, ArrangeSeq
<1> QED
  BY <1>4, <1>5, <1>7

\* Stable sorting by the strict weak order L, as a set of pairs.
Stably(s, L) ==
  {ij \in (DOMAIN s) \X (DOMAIN s) :
     \/ <<s[ij[1]], s[ij[2]]>> \in L
     \/ <<s[ij[2]], s[ij[1]]>> \notin L /\ ij[1] < ij[2]}

Weak(L, T) ==
  /\ \A a, b \in T : <<a, b>> \in L => <<b, a>> \notin L
  /\ \A a, b, c \in T : <<a, b>> \in L => <<a, c>> \in L \/ <<c, b>> \in L

Rising(r, L) == \A p, q \in DOMAIN r : p < q => <<r[q], r[p]>> \notin L

\* Sorting keeps every element, and puts none behind a greater one.
LEMMA SortSorts ==
  ASSUME NEW T, NEW s \in Seq(T), NEW L, Weak(L, T)
  PROVE  /\ Arrange(s, DOMAIN s, Stably(s, L)) \in Seq(T)
         /\ Elems(Arrange(s, DOMAIN s, Stably(s, L))) = Elems(s)
         /\ Distinct(s) => Distinct(Arrange(s, DOMAIN s, Stably(s, L)))
         /\ Rising(Arrange(s, DOMAIN s, Stably(s, L)), L)
<1> DEFINE I == DOMAIN s
           R == Stably(s, L)
           r == Arrange(s, I, R)
<1>1. Len(s) \in Nat /\ I = 1..Len(s) /\ \A i \in I : s[i] \in T /\ i \in Int
  BY LenProperties
<1>3. \A i, j \in I : <<i, j>> \in R <=>
        <<s[i], s[j]>> \in L \/ (<<s[j], s[i]>> \notin L /\ i < j)
  BY DEF Stably
<1>4. Elems(s) = Picked(s, I) /\ I \in SUBSET DOMAIN s
  BY DEF Elems, Picked
<1> HIDE DEF R, I
<1>5. Orders(R, I)
  <2>0. ASSUME NEW i \in I, NEW j \in I
        PROVE  /\ i \in Int /\ j \in Int /\ s[i] \in T /\ s[j] \in T
               /\ <<i, j>> \in R <=>
                    <<s[i], s[j]>> \in L \/ (<<s[j], s[i]>> \notin L /\ i < j)
    BY <1>1, <1>3
  <2>a. \A i \in I : i \in Int
    BY <1>1
  <2>1. ASSUME NEW i \in I PROVE <<i, i>> \notin R
    <3>1. ~(i < i)
      BY <2>a
    <3> QED
      BY <2>0, <3>1 DEF Weak
  <2>2. ASSUME NEW i \in I, NEW j \in I, i # j PROVE <<i, j>> \in R \/ <<j, i>> \in R
    <3>1. i < j \/ j < i
      BY <2>a, <2>2
    <3> QED
      BY <2>0, <3>1
  <2>3. ASSUME NEW i \in I, NEW j \in I, NEW k \in I, <<i, j>> \in R, <<j, k>> \in R
        PROVE  <<i, k>> \in R
    <3>1. CASE <<s[i], s[j]>> \in L
      BY <2>0, <2>3, <3>1 DEF Weak
    <3>2. CASE <<s[j], s[k]>> \in L
      BY <2>0, <2>3, <3>2 DEF Weak
    <3>3. CASE <<s[i], s[j]>> \notin L /\ <<s[j], s[k]>> \notin L
      <4>1. i < j /\ j < k
        BY <2>0, <2>3, <3>3
      <4>2. i < k
        BY <2>a, <4>1
      <4>3. <<s[j], s[i]>> \notin L /\ <<s[k], s[j]>> \notin L
        BY <2>0, <2>3, <3>3
      <4>4. <<s[k], s[i]>> \notin L
        BY <2>0, <4>3 DEF Weak
      <4> QED
        BY <2>0, <4>2, <4>4
    <3> QED
      BY <3>1, <3>2, <3>3
  <2> QED
    BY <2>1, <2>2, <2>3 DEF Orders
<1>6. /\ r \in Seq(T) /\ Elems(r) = Picked(s, I) /\ (Distinct(s) => Distinct(r))
      /\ Lined(r, s, I, R)
  BY <1>4, <1>5, ArrangeSeq
<1> HIDE DEF r
<1>7. ASSUME NEW p \in DOMAIN r, NEW q \in DOMAIN r, p < q
      PROVE  <<r[q], r[p]>> \notin L
  <2>1. PICK i \in I, j \in I : r[p] = s[i] /\ r[q] = s[j] /\ <<i, j>> \in R
    BY <1>6, <1>7 DEF Lined
  <2> QED
    BY <1>1, <1>3, <2>1 DEF Weak
<1> QED
  BY <1>4, <1>6, <1>7 DEF r, I, R, Rising

\* A sequence in which no element occurs twice is as long as the set of its elements.
LEMMA DistinctLength ==
  ASSUME NEW T, NEW s \in Seq(T), Distinct(s)
  PROVE  Len(s) = Cardinality(Elems(s))
<1>1. Len(s) \in Nat /\ DOMAIN s = 1..Len(s) /\ s \in [1..Len(s) -> T]
  BY LenProperties
<1>2. s \in [1..Len(s) -> Elems(s)]
  BY <1>1 DEF Elems
<1>3. s \in Bijection(1..Len(s), Elems(s))
  BY <1>1, <1>2 DEF Bijection, Injection, Surjection, IsInjective, Distinct, Elems
<1>4. ExistsBijection(1..Len(s), Elems(s))
  BY <1>3 DEF ExistsBijection
<1> QED
  BY <1>1, <1>4, FS_CountingElements

-----------------------------------------------------------------------------
(* The board.                                                              *)

\* Every set of naturals that is not empty has a least element.
LEMMA LeastNat ==
  ASSUME NEW T, T \subseteq Nat, T # {}
  PROVE  \E x \in T : \A y \in T : x <= y
<1> DEFINE R == OpToRel(<, Nat)
<1>1. IsWellFoundedOn(R, Nat)
  BY NatLessThanWellFounded
<1>2. \A y, x \in Nat : y < x => <<y, x>> \in R
  BY DEF OpToRel
<1> HIDE DEF R
<1>3. PICK x \in T : \A y \in T : ~ (<<y, x>> \in R)
  BY <1>1, WFMin
<1>4. ASSUME NEW y \in T PROVE x <= y
  <2>1. x \in Nat /\ y \in Nat /\ ~(y < x)
    BY <1>2, <1>3
  <2>2. QED
    BY <2>1
<1>5. QED
  BY <1>4

\* A walk of k steps from t to its parents.
Walks(ts, t, k, path) ==
  path = [n \in 0..k |-> IF n = 0 THEN t ELSE ParentOf(ts, path[n - 1])]

\* A walk can be taken one step further, so there are walks of every length.
LEMMA WalkExists ==
  ASSUME NEW ts, NEW t, NEW k \in Nat
  PROVE  \E path : Walks(ts, t, k, path)
<1> DEFINE Short == {m \in Nat : ~ \E path : Walks(ts, t, m, path)}
<1>1. SUFFICES ASSUME Short # {} PROVE FALSE
  OBVIOUS
<1>2. PICK m \in Short : \A x \in Short : m <= x
  BY <1>1, LeastNat
<1>3. m \in Nat
  OBVIOUS
<1>4. CASE m = 0
  <2> DEFINE path == [n \in 0..0 |-> t]
  <2>1. path = [n \in 0..0 |-> IF n = 0 THEN t ELSE ParentOf(ts, path[n - 1])]
    <3>1. \A n \in 0..0 : n = 0
      OBVIOUS
    <3> QED
      BY <3>1
  <2> QED
    BY <1>4, <2>1 DEF Walks
<1>5. CASE m # 0
  <2>1. m - 1 \in Nat /\ m - 1 \notin Short
    BY <1>2, <1>3, <1>5
  <2>2. PICK path : Walks(ts, t, m - 1, path)
    BY <2>1
  <2> DEFINE on == [n \in 0..m |-> IF n = 0 THEN t ELSE ParentOf(ts, path[n - 1])]
  <2>3. ASSUME NEW n \in 0..(m - 1) PROVE path[n] = on[n]
    <3>1. n \in 0..m
      BY <1>3
    <3> QED
      BY <2>2, <3>1 DEF Walks
  <2>4. \A n \in 0..m : n # 0 => n - 1 \in 0..(m - 1)
    BY <1>3
  <2>5. \A n \in 0..m : n # 0 => path[n - 1] = on[n - 1]
    BY <2>3, <2>4
  <2>6. on = [n \in 0..m |-> IF n = 0 THEN t ELSE ParentOf(ts, on[n - 1])]
    BY <2>5
  <2> QED
    BY <2>6 DEF Walks
<1> QED
  BY <1>4, <1>5

Walk(ts, t) == CHOOSE path : Walks(ts, t, MaxDepth - 1, path)

LEMMA WalkSteps ==
  ASSUME NEW ts, NEW t
  PROVE  \A n \in 0..(MaxDepth - 1) :
           Walk(ts, t)[n] = IF n = 0 THEN t ELSE ParentOf(ts, Walk(ts, t)[n - 1])
<1>1. MaxDepth - 1 \in Nat
  BY ViewsAssumption
<1>2. Walks(ts, t, MaxDepth - 1, Walk(ts, t))
  BY <1>1, WalkExists, Zenon DEF Walk
<1> HIDE DEF Walk
<1> QED
  BY <1>2 DEF Walks

EpicsOnWalk(ts, t) ==
  {n \in 0..(MaxDepth - 1) : Walk(ts, t)[n] # None /\ Walk(ts, t)[n].type = "epic"}

LEMMA EpicOfWalk ==
  ASSUME NEW ts, NEW t
  PROVE  EpicOf(ts, t) =
           IF EpicsOnWalk(ts, t) = {} THEN ""
           ELSE Walk(ts, t)[CHOOSE n \in EpicsOnWalk(ts, t) :
                              \A m \in EpicsOnWalk(ts, t) : n <= m].id
BY Zenon DEF EpicOf, Walk, Walks, EpicsOnWalk

Named(x) == x # ""

\* The tasks of a snapshot.
Sound(ts) ==
  /\ ts \in Seq(Task)
  /\ \A i, j \in DOMAIN ts : ts[i].id = ts[j].id => i = j
  /\ \A t \in Elems(ts) :
       /\ Named(t.id)
       /\ Named(t.parent) => \E p \in Elems(ts) :
                              p.id = t.parent /\ Level(p.type) < Level(t.type)

LEMMA LevelOfKind ==
  /\ Level("epic") = 1 /\ Level("story") = 2 /\ Level("task") = 3
  /\ Elems(Kinds) = {"epic", "story", "task"}
<1>1. Len(Kinds) = 3 /\ Kinds[1] = "epic" /\ Kinds[2] = "story" /\ Kinds[3] = "task"
      /\ DOMAIN Kinds = 1..3
  BY DEF Kinds
<1>2. 1..3 = {1, 2, 3}
  OBVIOUS
<1>3. Elems(Kinds) = {"epic", "story", "task"}
  BY <1>1, <1>2 DEF Elems
<1>4. \A k \in {"epic", "story", "task"} : \E i \in 1..3 : Kinds[i] = k
  BY <1>1
<1>5. \A k \in {"epic", "story", "task"} : Level(k) \in 1..3 /\ Kinds[Level(k)] = k
  BY <1>1, <1>4, Zenon DEF Level
<1> HIDE DEF Kinds
<1> QED
  BY <1>1, <1>3, <1>5

LEMMA TaskFacts ==
  ASSUME NEW ts, Sound(ts), NEW t \in Elems(ts)
  PROVE  /\ t \in Task /\ Named(t.id) /\ t # None
         /\ Level(t.type) \in 1..3 /\ (Level(t.type) = 1 <=> t.type = "epic")
<1>1. t \in Task
  <2>1. DOMAIN ts = 1..Len(ts) /\ \A i \in 1..Len(ts) : ts[i] \in Task
    BY LenProperties DEF Sound
  <2> QED
    BY <2>1 DEF Elems
<1>2. Named(t.id) /\ ~Named(None.id)
  BY DEF Sound, None, Named
<1>3. t.type \in {"epic", "story", "task"}
  BY <1>1, LevelOfKind DEF Task
<1>4. t # None
  BY <1>2
<1>5. Level(t.type) \in 1..3 /\ (Level(t.type) = 1 <=> t.type = "epic")
  BY <1>3, LevelOfKind
<1> QED
  BY <1>1, <1>2, <1>4, <1>5

\* A task has the parent its parent link names, one level up.
LEMMA Parents ==
  ASSUME NEW ts, Sound(ts), NEW t \in Elems(ts)
  PROVE  /\ ~Named(t.parent) => ParentOf(ts, t) = None
         /\ \A p \in Elems(ts) : p.id = t.parent =>
              ParentOf(ts, t) = p /\ Level(p.type) < Level(t.type)
         /\ Named(t.parent) => ParentOf(ts, t) \in Elems(ts) /\ ParentOf(ts, t).id = t.parent
<1>1. \A p, q \in Elems(ts) : p.id = q.id => p = q
  BY DEF Sound, Elems
<1>2. t # None /\ \A p \in Elems(ts) : Named(p.id)
  BY TaskFacts
<1>3. CASE ~Named(t.parent)
  <2>1. \A p \in Elems(ts) : p.id # t.parent
    BY <1>2, <1>3
  <2> QED
    BY <1>3, <2>1 DEF ParentOf
<1>4. CASE Named(t.parent)
  <2>1. PICK p \in Elems(ts) : p.id = t.parent /\ Level(p.type) < Level(t.type)
    BY <1>4 DEF Sound
  <2>2. \A q \in Elems(ts) : q.id = t.parent => q = p
    BY <1>1, <2>1
  <2>3. (CHOOSE q \in Elems(ts) : q.id = t.parent) = p
    BY <2>1, <2>2, Zenon
  <2>4. ParentOf(ts, t) = p
    BY <1>2, <2>1, <2>3 DEF ParentOf
  <2> QED
    BY <1>4, <2>1, <2>2, <2>4
<1> QED
  BY <1>3, <1>4

LEMMA NoneHasNoParent == \A ts : ParentOf(ts, None) = None
BY DEF ParentOf

\* The walk from a task: itself, its parent and the parent's parent, and then nothing.
LEMMA ShortWalk ==
  ASSUME NEW ts, Sound(ts), NEW t \in Elems(ts), NEW w, w = Walk(ts, t)
  PROVE  /\ {0, 1, 2} \subseteq 0..(MaxDepth - 1)
         /\ w[0] = t /\ w[1] = ParentOf(ts, t) /\ w[2] = ParentOf(ts, w[1])
         /\ w[1] # None => w[1] \in Elems(ts) /\ Level(w[1].type) < Level(t.type)
         /\ w[2] # None => /\ w[1] # None
                           /\ w[2] \in Elems(ts) /\ Level(w[2].type) < Level(w[1].type)
         /\ \A n \in 0..(MaxDepth - 1) : n > 2 => w[n] = None
<1>0. MaxDepth \in Nat /\ MaxDepth >= 3
  BY ViewsAssumption
<1>1. \A n \in 0..(MaxDepth - 1) : w[n] = IF n = 0 THEN t ELSE ParentOf(ts, w[n - 1])
  BY WalkSteps
<1>2. {0, 1, 2} \subseteq 0..(MaxDepth - 1)
  BY <1>0
<1>3. w[0] = t /\ w[1] = ParentOf(ts, w[0]) /\ w[2] = ParentOf(ts, w[1])
  <2>1. 1 - 1 = 0 /\ 2 - 1 = 1 /\ 1 # 0 /\ 2 # 0
    OBVIOUS
  <2> QED
    BY <1>1, <1>2, <2>1
<1>4. ASSUME NEW x \in Elems(ts), ParentOf(ts, x) # None
      PROVE  ParentOf(ts, x) \in Elems(ts) /\ Level(ParentOf(ts, x).type) < Level(x.type)
  BY <1>4, Parents
<1>5. w[1] # None => w[1] \in Elems(ts) /\ Level(w[1].type) < Level(t.type)
  BY <1>3, <1>4
<1>6. w[2] # None => /\ w[1] # None
                     /\ w[2] \in Elems(ts) /\ Level(w[2].type) < Level(w[1].type)
  BY <1>3, <1>4, <1>5, NoneHasNoParent
<1>7. ParentOf(ts, w[2]) = None
  <2>1. CASE w[2] = None
    BY <2>1, NoneHasNoParent
  <2>2. CASE w[2] # None
    <3>1. /\ t \in Elems(ts) /\ w[1] \in Elems(ts) /\ w[2] \in Elems(ts)
          /\ Level(w[2].type) < Level(w[1].type) /\ Level(w[1].type) < Level(t.type)
      BY <1>5, <1>6, <2>2
    <3>2. Level(t.type) \in 1..3 /\ Level(w[1].type) \in 1..3 /\ Level(w[2].type) \in 1..3
      BY <3>1, TaskFacts
    <3>3. ~ \E p \in Elems(ts) : Level(p.type) < Level(w[2].type)
      <4>1. Level(w[2].type) = 1
        BY <3>1, <3>2
      <4>2. \A p \in Elems(ts) : Level(p.type) \in 1..3
        BY TaskFacts
      <4> QED
        BY <4>1, <4>2
    <3> QED
      BY <1>4, <3>1, <3>3
  <2> QED
    BY <2>1, <2>2
<1>8. ASSUME NEW n \in 0..(MaxDepth - 1), n > 2 PROVE w[n] = None
  <2> DEFINE Long == {m \in Nat : m \in 3..(MaxDepth - 1) /\ w[m] # None}
  <2>1. SUFFICES ASSUME Long # {} PROVE FALSE
    BY <1>0, <1>8
  <2>2. PICK m \in Long : \A x \in Long : m <= x
    BY <2>1, LeastNat
  <2>3. m \in 3..(MaxDepth - 1) /\ w[m] # None
    OBVIOUS
  <2>4. m \in 0..(MaxDepth - 1) /\ m # 0 /\ w[m] = ParentOf(ts, w[m - 1])
    BY <1>0, <1>1, <2>3
  <2>5. CASE m = 3
    <3>1. m - 1 = 2
      BY <2>5
    <3> QED
      BY <1>7, <2>3, <2>4, <3>1
  <2>6. CASE m # 3
    <3>1. m - 1 \in Nat /\ m - 1 \in 3..(MaxDepth - 1) /\ ~(m <= m - 1)
      BY <1>0, <2>3, <2>6
    <3>2. w[m - 1] = None
      BY <2>2, <3>1
    <3> QED
      BY <2>3, <2>4, <3>2, NoneHasNoParent
  <2> QED
    BY <2>5, <2>6
<1> QED
  BY <1>2, <1>3, <1>5, <1>6, <1>8

\* The epic, or a task one or two levels below it.
Under(ts, epic, t) ==
  \E e \in Elems(ts) :
    /\ e.id = epic /\ e.type = "epic"
    /\ \/ t.id = epic \/ t.parent = epic
       \/ \E p \in Elems(ts) : p.id = t.parent /\ p.parent = epic

\* The first epic on the walk is the one that its place says.
LEMMA FirstEpic ==
  ASSUME NEW ts, NEW t, NEW n \in EpicsOnWalk(ts, t),
         \A m \in EpicsOnWalk(ts, t) : n <= m
  PROVE  EpicOf(ts, t) = Walk(ts, t)[n].id
<1> DEFINE E == EpicsOnWalk(ts, t)
<1>1. E \subseteq Nat
  BY ViewsAssumption DEF EpicsOnWalk
<1>2. \A m \in E : (\A x \in E : m <= x) => m = n
  BY <1>1
<1>3. (CHOOSE m \in E : \A x \in E : m <= x) = n
  BY <1>2, Zenon
<1>4. E # {}
  OBVIOUS
<1> QED
  BY <1>3, <1>4, EpicOfWalk

\* Walking up finds the epic that a task is under, if any.
LEMMA EpicIsAbove ==
  ASSUME NEW ts, Sound(ts), NEW t \in Elems(ts), NEW epic, Named(epic)
  PROVE  EpicOf(ts, t) = epic <=> Under(ts, epic, t)
<1> DEFINE E == EpicsOnWalk(ts, t)
<1>0. PICK w : w = Walk(ts, t)
  OBVIOUS
<1>1. /\ {0, 1, 2} \subseteq 0..(MaxDepth - 1)
      /\ w[0] = t /\ w[1] = ParentOf(ts, t) /\ w[2] = ParentOf(ts, w[1])
      /\ w[1] # None => w[1] \in Elems(ts) /\ Level(w[1].type) < Level(t.type)
      /\ w[2] # None => /\ w[1] # None
                        /\ w[2] \in Elems(ts) /\ Level(w[2].type) < Level(w[1].type)
      /\ \A n \in 0..(MaxDepth - 1) : n > 2 => w[n] = None
  BY <1>0, ShortWalk
<1>2. t # None /\ Named(t.id)
  BY TaskFacts
<1>3. E = {n \in {0, 1, 2} : w[n] # None /\ w[n].type = "epic"}
  <2>1. \A n \in 0..(MaxDepth - 1) : n > 2 \/ n \in {0, 1, 2}
    <3>1. MaxDepth \in Nat
      BY ViewsAssumption
    <3> QED
      BY <3>1
  <2> QED
    BY <1>0, <1>1, <2>1, Zenon DEF EpicsOnWalk
<1> HIDE DEF E
<1>a. \A p, q \in Elems(ts) : p.id = q.id => p = q
  BY DEF Sound, Elems
<1>b. ASSUME NEW x \in Elems(ts), x.type = "epic"
      PROVE  \A y \in Elems(ts) : ~(Level(y.type) < Level(x.type))
  <2>1. Level(x.type) = 1
    BY <1>b, TaskFacts
  <2>2. \A y \in Elems(ts) : Level(y.type) \in 1..3
    BY TaskFacts
  <2> QED
    BY <2>1, <2>2
<1>c. ASSUME NEW x \in Elems(ts), x.type = "epic"
      PROVE  ParentOf(ts, x) = None
  <2>1. \A p \in Elems(ts) : p.id # x.parent
    BY <1>b, <1>c, Parents
  <2> QED
    BY <2>1, Parents
<1>4. CASE t.type = "epic"
  <2>1. w[1] = None /\ w[2] = None
    BY <1>1, <1>4, <1>c, NoneHasNoParent
  <2>2. E = {0}
    BY <1>1, <1>2, <1>3, <1>4, <2>1
  <2>3. EpicOf(ts, t) = t.id
    <3>1. 0 \in E /\ \A m \in E : 0 <= m
      BY <2>2
    <3> QED
      BY <1>0, <1>1, <3>1, FirstEpic DEF E
  <2>4. ASSUME Under(ts, epic, t) PROVE t.id = epic
    <3>1. PICK e \in Elems(ts) :
            /\ e.id = epic /\ e.type = "epic"
            /\ \/ t.id = epic \/ t.parent = epic
               \/ \E p \in Elems(ts) : p.id = t.parent /\ p.parent = epic
      BY <2>4 DEF Under
    <3>2. \A p \in Elems(ts) : p.id # t.parent
      BY <1>4, <1>b, Parents
    <3> QED
      BY <3>1, <3>2
  <2> QED
    BY <1>4, <2>3, <2>4 DEF Under
<1>5. CASE t.type # "epic" /\ w[1] # None /\ w[1].type = "epic"
  <2>1. w[1] \in Elems(ts) /\ w[1].id = t.parent /\ Named(t.parent)
    BY <1>1, <1>5, Parents
  <2>2. E \in {{1}, {1, 2}}
    BY <1>1, <1>3, <1>5
  <2>3. EpicOf(ts, t) = w[1].id
    <3>1. 1 \in E /\ \A m \in E : 1 <= m
      BY <2>2
    <3> QED
      BY <1>0, <3>1, FirstEpic DEF E
  <2>4. ASSUME Under(ts, epic, t) PROVE w[1].id = epic
    <3>1. PICK e \in Elems(ts) :
            /\ e.id = epic /\ e.type = "epic"
            /\ \/ t.id = epic \/ t.parent = epic
               \/ \E p \in Elems(ts) : p.id = t.parent /\ p.parent = epic
      BY <2>4 DEF Under
    <3>2. t.id # epic
      BY <1>5, <1>a, <3>1
    <3>3. \A p \in Elems(ts) : p.id = t.parent => p.parent # epic
      <4>1. \A p \in Elems(ts) : p.id = t.parent => p = w[1]
        BY <1>a, <2>1
      <4>2. w[1].parent # epic
        BY <1>5, <1>b, <2>1, <3>1, Parents
      <4> QED
        BY <4>1, <4>2
    <3> QED
      BY <2>1, <3>1, <3>2, <3>3
  <2> QED
    BY <1>5, <2>1, <2>3, <2>4 DEF Under
<1>6. CASE t.type # "epic" /\ ~(w[1] # None /\ w[1].type = "epic")
           /\ w[2] # None /\ w[2].type = "epic"
  <2>1. /\ w[1] \in Elems(ts) /\ w[1].id = t.parent
        /\ w[2] \in Elems(ts) /\ w[2].id = w[1].parent
    BY <1>1, <1>6, Parents
  <2>2. E = {2}
    BY <1>1, <1>3, <1>6
  <2>3. EpicOf(ts, t) = w[2].id
    <3>1. 2 \in E /\ \A m \in E : 2 <= m
      BY <2>2
    <3> QED
      BY <1>0, <3>1, FirstEpic DEF E
  <2>4. ASSUME Under(ts, epic, t) PROVE w[2].id = epic
    <3>1. PICK e \in Elems(ts) :
            /\ e.id = epic /\ e.type = "epic"
            /\ \/ t.id = epic \/ t.parent = epic
               \/ \E p \in Elems(ts) : p.id = t.parent /\ p.parent = epic
      BY <2>4 DEF Under
    <3>2. t.id # epic /\ t.parent # epic
      BY <1>1, <1>6, <1>a, <2>1, <3>1
    <3>3. \A p \in Elems(ts) : p.id = t.parent => p = w[1]
      BY <1>a, <2>1
    <3> QED
      BY <2>1, <3>1, <3>2, <3>3
  <2> QED
    BY <1>6, <2>1, <2>3, <2>4 DEF Under
<1>7. CASE t.type # "epic" /\ ~(w[1] # None /\ w[1].type = "epic")
           /\ ~(w[2] # None /\ w[2].type = "epic")
  <2>1. E = {}
    BY <1>1, <1>3, <1>7
  <2>2. EpicOf(ts, t) = ""
    BY <2>1, EpicOfWalk DEF E
  <2>3. ASSUME Under(ts, epic, t) PROVE FALSE
    <3>1. PICK e \in Elems(ts) :
            /\ e.id = epic /\ e.type = "epic"
            /\ \/ t.id = epic \/ t.parent = epic
               \/ \E p \in Elems(ts) : p.id = t.parent /\ p.parent = epic
      BY <2>3 DEF Under
    <3>2. e # None /\ \A p \in Elems(ts) : p # None
      BY TaskFacts
    <3>3. t.id # epic
      BY <1>7, <1>a, <3>1
    <3>4. t.parent # epic
      BY <1>1, <1>7, <3>1, <3>2, Parents
    <3>5. PICK p \in Elems(ts) : p.id = t.parent /\ p.parent = epic
      BY <3>1, <3>3, <3>4
    <3>6. w[1] = p /\ ParentOf(ts, p) = e
      BY <1>1, <3>1, <3>5, Parents
    <3> QED
      BY <1>1, <1>7, <3>1, <3>2, <3>6
  <2> QED
    BY <2>2, <2>3 DEF Named
<1> QED
  BY <1>4, <1>5, <1>6, <1>7

LEMMA RankOfPriority ==
  /\ \A p \in Elems(Priorities) : Rank(p) \in 1..4
  /\ \A p, q \in Elems(Priorities) : Rank(p) = Rank(q) => p = q
<1>1. /\ Priorities[1] = "low" /\ Priorities[2] = "medium"
      /\ Priorities[3] = "high" /\ Priorities[4] = "urgent"
      /\ Len(Priorities) = 4 /\ DOMAIN Priorities = 1..4
  BY DEF Priorities
<1> HIDE DEF Priorities
<1>2. \A p \in Elems(Priorities) : \E i \in 1..4 : Priorities[i] = p
  BY <1>1 DEF Elems
<1>3. \A p \in Elems(Priorities) : Rank(p) \in 1..4 /\ Priorities[Rank(p)] = p
  BY <1>1, <1>2, Zenon DEF Rank
<1> QED
  BY <1>3

\* The order of the tasks in a column.
Urgency == {ab \in Task \X Task : MoreUrgent(ab[1], ab[2])}

LEMMA UrgencyIsWeak == Weak(Urgency, Task)
<1>1. \A a, b \in Task : <<a, b>> \in Urgency <=> MoreUrgent(a, b)
  BY DEF Urgency
<1>2. \A a \in Task : /\ a.priority \in Elems(Priorities) /\ a.updated \in Int
                      /\ Rank(a.priority) \in Int
  <2>1. \A a \in Task : a.priority \in Elems(Priorities) /\ a.updated \in Int
    BY DEF Task
  <2> QED
    BY <2>1, RankOfPriority
<1>3. \A a, b \in Task : MoreUrgent(a, b) <=>
        \/ Rank(a.priority) > Rank(b.priority)
        \/ Rank(a.priority) = Rank(b.priority) /\ a.updated > b.updated
  <2> SUFFICES ASSUME NEW a \in Task, NEW b \in Task
               PROVE  MoreUrgent(a, b) <=>
                        \/ Rank(a.priority) > Rank(b.priority)
                        \/ Rank(a.priority) = Rank(b.priority) /\ a.updated > b.updated
    OBVIOUS
  <2>1. CASE a.priority = b.priority
    <3>1. ~(Rank(a.priority) > Rank(b.priority)) /\ Rank(a.priority) = Rank(b.priority)
      BY <1>2, <2>1
    <3> QED
      BY <2>1, <3>1 DEF MoreUrgent
  <2>2. CASE a.priority # b.priority
    <3>1. Rank(a.priority) # Rank(b.priority)
      BY <1>2, <2>2, RankOfPriority
    <3> QED
      BY <2>2, <3>1 DEF MoreUrgent
  <2> QED
    BY <2>1, <2>2
<1>4. ASSUME NEW a \in Task, NEW b \in Task, <<a, b>> \in Urgency
      PROVE  <<b, a>> \notin Urgency
  <2>1. /\ Rank(a.priority) \in Int /\ Rank(b.priority) \in Int
        /\ a.updated \in Int /\ b.updated \in Int
    BY <1>2
  <2>2. \/ Rank(a.priority) > Rank(b.priority)
        \/ Rank(a.priority) = Rank(b.priority) /\ a.updated > b.updated
    BY <1>1, <1>3, <1>4
  <2>3. ~ (\/ Rank(b.priority) > Rank(a.priority)
           \/ Rank(b.priority) = Rank(a.priority) /\ b.updated > a.updated)
    BY <2>1, <2>2
  <2> QED
    BY <1>1, <1>3, <2>3
<1>5. ASSUME NEW a \in Task, NEW b \in Task, NEW c \in Task, <<a, b>> \in Urgency
      PROVE  <<a, c>> \in Urgency \/ <<c, b>> \in Urgency
  <2>1. /\ Rank(a.priority) \in Int /\ Rank(b.priority) \in Int /\ Rank(c.priority) \in Int
        /\ a.updated \in Int /\ b.updated \in Int /\ c.updated \in Int
    BY <1>2
  <2>2. \/ Rank(a.priority) > Rank(b.priority)
        \/ Rank(a.priority) = Rank(b.priority) /\ a.updated > b.updated
    BY <1>1, <1>3, <1>5
  <2>3. \/ Rank(a.priority) > Rank(c.priority)
        \/ Rank(a.priority) = Rank(c.priority) /\ a.updated > c.updated
        \/ Rank(c.priority) > Rank(b.priority)
        \/ Rank(c.priority) = Rank(b.priority) /\ c.updated > b.updated
    BY <2>1, <2>2
  <2> QED
    BY <1>1, <1>3, <2>3
<1> QED
  BY <1>4, <1>5 DEF Weak

\* A column is sorted by it.
LEMMA SortedColumn ==
  ASSUME NEW s \in Seq(Task)
  PROVE  LET col == SortStable(s, MoreUrgent) IN
         /\ col \in Seq(Task) /\ Elems(col) = Elems(s) /\ (Distinct(s) => Distinct(col))
         /\ \A i \in 1..(Len(col) - 1) : Rank(col[i].priority) >= Rank(col[i + 1].priority)
<1> DEFINE col == SortStable(s, MoreUrgent)
<1>1. \A i \in DOMAIN s : s[i] \in Task
  BY LenProperties
<1>2. col = Arrange(s, DOMAIN s, Stably(s, Urgency))
  <2>1. \A i, j \in DOMAIN s : <<s[i], s[j]>> \in Urgency <=> MoreUrgent(s[i], s[j])
    BY <1>1 DEF Urgency
  <2>2. Stably(s, Urgency) =
          {ij \in (DOMAIN s) \X (DOMAIN s) :
             \/ MoreUrgent(s[ij[1]], s[ij[2]])
             \/ ~MoreUrgent(s[ij[2]], s[ij[1]]) /\ ij[1] < ij[2]}
    BY <2>1 DEF Stably
  <2> QED
    BY <2>2 DEF SortStable
<1> HIDE DEF col
<1>3. /\ col \in Seq(Task) /\ Elems(col) = Elems(s) /\ (Distinct(s) => Distinct(col))
      /\ Rising(col, Urgency)
  BY <1>2, SortSorts, UrgencyIsWeak
<1>4. ASSUME NEW i \in 1..(Len(col) - 1)
      PROVE  Rank(col[i].priority) >= Rank(col[i + 1].priority)
  <2>1. Len(col) \in Nat /\ DOMAIN col = 1..Len(col) /\ \A k \in 1..Len(col) : col[k] \in Task
    BY <1>3, LenProperties
  <2>2. i \in DOMAIN col /\ i + 1 \in DOMAIN col /\ i < i + 1
    BY <2>1
  <2>3. col[i] \in Task /\ col[i + 1] \in Task
    BY <2>1, <2>2
  <2>4. ~MoreUrgent(col[i + 1], col[i])
    BY <1>3, <2>2, <2>3 DEF Rising, Urgency
  <2>5. /\ Rank(col[i].priority) \in 1..4 /\ Rank(col[i + 1].priority) \in 1..4
    BY <2>3, RankOfPriority DEF Task
  <2>6. ~(Rank(col[i + 1].priority) > Rank(col[i].priority))
    <3>1. CASE col[i].priority = col[i + 1].priority
      BY <2>5, <3>1
    <3>2. CASE col[i].priority # col[i + 1].priority
      BY <2>4, <3>2 DEF MoreUrgent
    <3> QED
      BY <3>1, <3>2
  <2> QED
    BY <2>5, <2>6
<1> QED
  BY <1>3, <1>4 DEF col

\* What the constants promise of a snapshot.
LEMMA SnapshotFacts ==
  ASSUME NEW s \in Snapshots
  PROVE  /\ Sound(s.tasks) /\ Distinct(s.tasks)
         /\ s.projects \in Seq(STRING) /\ s.projects # << >>
         /\ s.today \in Nat /\ MaxShift \in Nat /\ MaxShift < Civil(s.today).year
         /\ \A t \in Elems(s.tasks) : t.id \notin {"", "query", "title"}
<1>1. ValidSnapshot(s) /\ MaxShift \in Nat /\ MaxShift < Civil(s.today).year
  BY PageAssumption
<1> USE <1>1 DEF ValidSnapshot
<1>2. Sound(s.tasks)
  <2>1. \A t \in Elems(s.tasks) :
          /\ Named(t.id)
          /\ Named(t.parent) => \E p \in Elems(s.tasks) :
                                   p.id = t.parent /\ Level(p.type) < Level(t.type)
    BY Zenon DEF Named
  <2> QED
    BY <2>1, Zenon DEF Sound
<1>3. Distinct(s.tasks)
  BY <1>2 DEF Distinct, Sound
<1> QED
  BY <1>1, <1>2, <1>3

\* The filter has its fields.
HasFields(f) == f = [k \in FilterFields |-> f[k]]

\* A filter that is not empty keeps what matches, and so does the empty one.
LEMMA FilterKeeps ==
  ASSUME NEW ts \in Seq(Task), NEW f, HasFields(f)
  PROVE  /\ FilterTasks(ts, f) \in Seq(Task)
         /\ Elems(FilterTasks(ts, f)) = {t \in Elems(ts) : Match(f, t)}
         /\ Distinct(ts) => Distinct(FilterTasks(ts, f))
<1>1. CASE f = EmptyFilter
  <2>1. \A t : Match(f, t)
    BY <1>1 DEF Match, EmptyFilter, FilterFields, Unassigned
  <2> QED
    BY <1>1, <2>1 DEF FilterTasks
<1>2. CASE f # EmptyFilter
  <2> DEFINE S == {t \in Elems(ts) : Match(f, t)}
  <2>1. FilterTasks(ts, f) = Keep(ts, S)
    BY <1>2 DEF FilterTasks
  <2>2. Elems(ts) \cap S = S
    OBVIOUS
  <2> HIDE DEF S
  <2>3. /\ Keep(ts, S) \in Seq(Task) /\ Elems(Keep(ts, S)) = Elems(ts) \cap S
        /\ Distinct(ts) => Distinct(Keep(ts, S))
    BY KeepKeeps
  <2>4. /\ FilterTasks(ts, f) \in Seq(Task) /\ Elems(FilterTasks(ts, f)) = S
        /\ Distinct(ts) => Distinct(FilterTasks(ts, f))
    BY <2>1, <2>2, <2>3, Zenon
  <2> QED
    BY <2>4 DEF S
<1> QED
  BY <1>1, <1>2

\* The first step of the board: the tasks under the epic.
LEMMA InEpicKeeps ==
  ASSUME NEW ts, Sound(ts), Distinct(ts), NEW epic
  PROVE  /\ InEpic(ts, epic) \in Seq(Task) /\ Distinct(InEpic(ts, epic))
         /\ Elems(InEpic(ts, epic)) =
              {t \in Elems(ts) : ~Named(epic) \/ Under(ts, epic, t)}
<1>1. ts \in Seq(Task)
  BY DEF Sound
<1>2. CASE Named(epic)
  <2> DEFINE S == {t \in Elems(ts) : EpicOf(ts, t) = epic}
  <2>1. InEpic(ts, epic) = Keep(ts, S)
    BY <1>2 DEF InEpic, Named
  <2>2. Elems(ts) \cap S = {t \in Elems(ts) : Under(ts, epic, t)}
    BY <1>2, EpicIsAbove
  <2> HIDE DEF S
  <2>3. /\ InEpic(ts, epic) \in Seq(Task) /\ Distinct(InEpic(ts, epic))
        /\ Elems(InEpic(ts, epic)) = {t \in Elems(ts) : Under(ts, epic, t)}
    BY <1>1, <2>1, <2>2, KeepKeeps
  <2> QED
    BY <1>2, <2>3
<1>3. CASE ~Named(epic)
  BY <1>1, <1>3 DEF InEpic, Named
<1> QED
  BY <1>2, <1>3

\* The columns show what the filter asks for.
LEMMA BoardIsRight ==
  ASSUME snap \in Snapshots, HasFields(filter)
  PROVE  BoardShowsFilter
<1> DEFINE ts == snap.tasks
           A == InEpic(ts, filter.epic)
           B == FilterTasks(A, filter)
           C(s) == {t \in Elems(B) : /\ t.status = s
                                     /\ filter.project # "" => t.project = filter.project}
<1>1. Sound(ts) /\ Distinct(ts)
  BY SnapshotFacts
<1>2. /\ A \in Seq(Task) /\ Distinct(A)
      /\ Elems(A) = {t \in Elems(ts) : ~Named(filter.epic) \/ Under(ts, filter.epic, t)}
  BY <1>1, InEpicKeeps
<1>3. B \in Seq(Task) /\ Distinct(B) /\ Elems(B) = {t \in Elems(A) : Match(filter, t)}
  BY <1>2, FilterKeeps
<1>4. ASSUME NEW t \in Elems(ts)
      PROVE  /\ Wanted(t) <=> t \in Elems(B)
             /\ Wanted(t) => (filter.project # "" => t.project = filter.project)
  <2>1. Below(filter.epic, t) <=> t \in Elems(A)
    BY <1>2, Zenon DEF Below, Under, Named
  <2>2. (\A k \in FilterFields \ {"query", "epic", "assignee"} : filter[k] \in {"", t[k]})
          <=> /\ filter.project # "" => t.project = filter.project
              /\ filter.status # "" => t.status = filter.status
              /\ filter.type # "" => t.type = filter.type
              /\ filter.priority # "" => t.priority = filter.priority
    BY Zenon DEF FilterFields
  <2>3. filter.query \in t.words \cup {""} <=> (filter.query # "" => filter.query \in t.words)
    OBVIOUS
  <2>4. (IF filter.assignee = Unassigned THEN t.assignee = ""
                                         ELSE filter.assignee \in {"", t.assignee})
          <=> /\ filter.assignee = Unassigned => t.assignee = ""
              /\ filter.assignee \notin {"", Unassigned} => t.assignee = filter.assignee
    BY DEF Unassigned
  <2>5. Match(filter, t) <=>
          /\ \A k \in FilterFields \ {"query", "epic", "assignee"} : filter[k] \in {"", t[k]}
          /\ filter.query \in t.words \cup {""}
          /\ IF filter.assignee = Unassigned THEN t.assignee = ""
                                             ELSE filter.assignee \in {"", t.assignee}
    BY <2>2, <2>3, <2>4, Zenon DEF Match
  <2>6. Wanted(t) <=> t \in Elems(B)
    BY <1>3, <2>1, <2>5, Zenon DEF Wanted
  <2>7. Wanted(t) => (filter.project # "" => t.project = filter.project)
    BY <2>2, Zenon DEF Wanted
  <2> QED
    BY <2>6, <2>7
<1>5. ASSUME NEW s \in Elems(Statuses)
      PROVE  LET col == Shown[s] IN
             /\ Elems(col) = {t \in {u \in Elems(ts) : Wanted(u)} : t.status = s}
             /\ Len(col) = Cardinality(Elems(col))
             /\ \A i \in 1..(Len(col) - 1) :
                  Rank(col[i].priority) >= Rank(col[i + 1].priority)
  <2>1. Shown[s] = SortStable(Keep(B, C(s)), MoreUrgent)
    BY <1>5 DEF Shown, Columns
  <2>2. Elems(B) \cap C(s) = {t \in {u \in Elems(ts) : Wanted(u)} : t.status = s}
    <3>1. Elems(B) \subseteq Elems(ts)
      BY <1>2, <1>3
    <3> HIDE DEF B
    <3>2. \A t : t \in Elems(B) \cap C(s) <=> t \in Elems(ts) /\ Wanted(t) /\ t.status = s
      BY <1>4, <3>1, Zenon
    <3> QED
      BY <3>2
  <2> HIDE DEF B, C
  <2>3. /\ Keep(B, C(s)) \in Seq(Task) /\ Distinct(Keep(B, C(s)))
        /\ Elems(Keep(B, C(s))) = Elems(B) \cap C(s)
    BY <1>3, KeepKeeps
  <2>4. PICK col : col = SortStable(Keep(B, C(s)), MoreUrgent)
    OBVIOUS
  <2>5. /\ col \in Seq(Task) /\ Elems(col) = Elems(B) \cap C(s) /\ Distinct(col)
        /\ \A i \in 1..(Len(col) - 1) : Rank(col[i].priority) >= Rank(col[i + 1].priority)
    BY <2>3, <2>4, SortedColumn
  <2>6. Len(col) = Cardinality(Elems(col))
    BY <2>5, DistinctLength
  <2> QED
    BY <2>1, <2>2, <2>4, <2>5, <2>6
<1> QED
  BY <1>5 DEF BoardShowsFilter

-----------------------------------------------------------------------------
(* The address bar.                                                        *)

\* A filter that the lists offer.
Valid(f) == \A k \in FilterFields : f[k] = "" \/ ValidField(k, f[k])

\* What is written into the address bar is read back as it was.
LEMMA RoundTrip ==
  ASSUME NEW f, HasFields(f), Valid(f)
  PROVE  ParseFilterQuery(FilterQuery(f)) = f
<1> DEFINE link == FilterQuery(f)
<1>1. DOMAIN link = {k \in FilterFields : f[k] # ""} /\ \A k \in DOMAIN link : link[k] = f[k]
  BY DEF FilterQuery
<1> HIDE DEF link
<1>2. ASSUME NEW k \in FilterFields
      PROVE  (IF k \in DOMAIN link /\ ValidField(k, link[k]) THEN link[k] ELSE "") = f[k]
  <2>1. CASE f[k] = ""
    BY <1>1, <2>1
  <2>2. CASE f[k] # ""
    BY <1>1, <2>2 DEF Valid
  <2> QED
    BY <2>1, <2>2
<1>3. ParseFilterQuery(link) = [k \in FilterFields |-> f[k]]
  BY <1>2, Zenon DEF ParseFilterQuery
<1> QED
  BY <1>3 DEF link, HasFields

\* What is read from the address bar is a filter that the lists offer.
LEMMA ParsedFilter ==
  ASSUME NEW link
  PROVE  HasFields(ParseFilterQuery(link)) /\ Valid(ParseFilterQuery(link))
<1>1. HasFields(ParseFilterQuery(link))
  BY Zenon DEF ParseFilterQuery, HasFields
<1>2. \A k \in FilterFields :
        ParseFilterQuery(link)[k] =
          IF k \in DOMAIN link /\ ValidField(k, link[k]) THEN link[k] ELSE ""
  BY Zenon DEF ParseFilterQuery
<1> QED
  BY <1>1, <1>2, Zenon DEF Valid

FilterInv == HasFields(filter) /\ Valid(filter) /\ UrlKeepsFilter

\* Setting one field to a value that its list offers, or to nothing.
LEMMA SetField ==
  ASSUME NEW f, HasFields(f), Valid(f), NEW k \in FilterFields, NEW v,
         v = "" \/ ValidField(k, v)
  PROVE  HasFields([f EXCEPT ![k] = v]) /\ Valid([f EXCEPT ![k] = v])
<1>1. DOMAIN f = FilterFields /\ f = [j \in DOMAIN f |-> f[j]]
  BY DEF HasFields
<1>2. [f EXCEPT ![k] = v] = [j \in FilterFields |-> IF j = k THEN v ELSE f[j]]
  BY <1>1
<1> QED
  BY <1>2 DEF HasFields, Valid

LEMMA ChangedFilter ==
  ASSUME HasFields(filter'), Valid(filter'), NEW old, FilterChanged(old)
  PROVE  FilterInv'
<1>1. url' = FilterQuery(filter')
  BY DEF FilterChanged
<1>2. ParseFilterQuery(url') = filter'
  BY <1>1, RoundTrip
<1> QED
  BY <1>2 DEF FilterInv, UrlKeepsFilter

LEMMA FilterStep == FilterInv /\ [Next]_vars => FilterInv'
<1> SUFFICES ASSUME FilterInv, [Next]_vars PROVE FilterInv'
  OBVIOUS
<1>1. CASE UNCHANGED <<filter, url>>
  BY <1>1 DEF FilterInv, UrlKeepsFilter
<1>2. ASSUME NEW k \in DOMAIN Values, NEW v \in Values[k] \cup {""}, SetFilter(k, v)
      PROVE  FilterInv'
  <2>1. k \in FilterFields /\ (v = "" \/ ValidField(k, v))
    BY PageAssumption
  <2>2. filter' = [filter EXCEPT ![k] = v] /\ FilterChanged(fields)
    BY <1>2 DEF SetFilter
  <2>3. HasFields(filter') /\ Valid(filter')
    BY <2>1, <2>2, SetField DEF FilterInv
  <2> QED
    BY <2>2, <2>3, ChangedFilter
<1>3. ASSUME NEW v, TypeQuery(v) PROVE FilterInv'
  <2>1. "query" \in FilterFields /\ ValidField("query", v)
    BY DEF FilterFields, ValidField
  <2>2. /\ filter' = [filter EXCEPT !["query"] = v]
        /\ FilterChanged([fields EXCEPT !["query"] = v])
    BY <1>3 DEF TypeQuery
  <2>3. HasFields(filter') /\ Valid(filter')
    BY <2>1, <2>2, SetField DEF FilterInv
  <2> QED
    BY <2>2, <2>3, ChangedFilter
<1>4. CASE ClearFilters
  <2>1. filter' = EmptyFilter /\ FilterChanged(fields)
    BY <1>4 DEF ClearFilters
  <2>2. HasFields(filter') /\ Valid(filter')
    BY <2>1 DEF EmptyFilter, HasFields, Valid
  <2> QED
    BY <2>1, <2>2, ChangedFilter
<1>5. CASE Live
  BY <1>1, <1>5 DEF Live, ReloadState, ReloadFails, DetailArrives, DetailFails
<1>6. ASSUME NEW ok \in BOOLEAN, Posted(ok) PROVE FilterInv'
  BY <1>1, <1>6 DEF Posted
<1>7. CASE User
  <2>1. CASE \E id \in Ids : Select(id)
    BY <1>1, <2>1 DEF Select
  <2>2. CASE Close \/ ToggleNew
    BY <1>1, <2>2 DEF Close, ToggleNew
  <2>3. CASE \/ \E k \in Ids \cup {"title"} : Submit(k)
             \/ \E k \in Ids \cup {"title", "unmarked"}, text \in Texts : Type(k, text)
    BY <1>1, <2>3 DEF Submit, Type
  <2>4. CASE \E t \in {"board", "timeline"} : ShowTab(t)
    BY <1>1, <2>4 DEF ShowTab
  <2>5. CASE \E p \in Elems(snap.projects) : SetTimelineProject(p)
    BY <1>1, <2>5 DEF SetTimelineProject
  <2>6. CASE \E n \in {-1, 1} : Shift(n)
    BY <1>1, <2>6 DEF Shift
  <2>7. CASE TimelineToday
    BY <1>1, <2>7 DEF TimelineToday
  <2> QED
    BY <1>2, <1>3, <1>4, <1>7, <2>1, <2>2, <2>3, <2>4, <2>5, <2>6, <2>7 DEF User
<1>8. CASE UNCHANGED vars
  BY <1>1, <1>8 DEF vars
<1> QED
  BY <1>5, <1>6, <1>7, <1>8 DEF Next

LEMMA FilterStarts == Init => FilterInv
<1> SUFFICES ASSUME Init PROVE FilterInv
  OBVIOUS
<1>1. filter = ParseFilterQuery(url)
  BY DEF Init
<1> QED
  BY <1>1, ParsedFilter DEF FilterInv, UrlKeepsFilter

\* The address bar gives back the filter that the board uses, whatever address the
\* page was opened with and whatever the lists offer.
THEOREM AddressesKeepFilters == Spec => []UrlKeepsFilter
<1>1. FilterInv => UrlKeepsFilter
  BY DEF FilterInv
<1> QED
  BY <1>1, FilterStarts, FilterStep, PTL DEF Spec

\* The snapshot is one that the server answered.
LEMMA SnapStep == snap \in Snapshots /\ [Next]_vars => snap' \in Snapshots
<1> SUFFICES ASSUME snap \in Snapshots, [Next]_vars PROVE snap' \in Snapshots
  OBVIOUS
<1> USE DEF Render, FilterChanged
<1>1. CASE Live
  BY <1>1 DEF Live, ReloadState, ReloadFails, DetailArrives, DetailFails
<1>2. CASE User
  BY <1>2 DEF User, Select, Close, ToggleNew, Submit, Type, SetFilter, TypeQuery, ClearFilters,
     ShowTab, SetTimelineProject, Shift, TimelineToday
<1>3. CASE \E ok \in BOOLEAN : Posted(ok)
  BY <1>3 DEF Posted
<1>4. CASE UNCHANGED vars
  BY <1>4 DEF vars
<1> QED
  BY <1>1, <1>2, <1>3, <1>4 DEF Next

\* The board has one card, in the right column and place, for every task that the
\* filter asks for, for any tasks, any filter and any order of replies and clicks.
THEOREM BoardsShowFilters == Spec => []BoardShowsFilter
<1> DEFINE Inv == snap \in Snapshots /\ FilterInv
<1>1. Init => Inv
  BY FilterStarts DEF Init
<1>2. Inv /\ [Next]_vars => Inv'
  BY SnapStep, FilterStep
<1>3. Inv => BoardShowsFilter
  BY BoardIsRight DEF FilterInv
<1> QED
  BY <1>1, <1>2, <1>3, PTL DEF Spec

-----------------------------------------------------------------------------
(* What the user types.                                                    *)

\* Only elements that are shown hold text, and the detail that the loop waits for
\* is, as long as the drawer shows one, that of the same task.
DraftsInv ==
  /\ {screen, shown} \subseteq {"loading", "auth", "app"} /\ tab \in {"board", "timeline"}
  /\ selected \in Ids \cup {""} /\ detail \in Ids \cup {""} /\ asked \in Ids \cup {""}
  /\ showNew \in BOOLEAN
  /\ posting.of \in Ids \cup {"", "title"}
  /\ posting = [of |-> posting.of, attached |-> posting.attached]
  /\ DOMAIN fields = IF OnApp THEN Elements ELSE {}
  /\ OnApp => screen = "app"
  /\ (selected # "" /\ detail = selected /\ asked # "") => asked = selected

\* After a render the elements of the page are those that are shown.
LEMMA RenderedFields ==
  ASSUME NEW old, RenderFrom(old)
  PROVE  /\ DOMAIN fields' = IF OnApp' THEN Elements' ELSE {}
         /\ OnApp' => screen' = "app"
         /\ \A k \in Drafts' : k \in DOMAIN old => fields'[k] = old[k]
         /\ posting' = [posting EXCEPT !.attached = FALSE]
         /\ shown' = screen'
<1>1. DOMAIN fields' = Elements' /\ shown' = screen'
  BY DEF RenderFrom, Rebuilt
<1>2. screen' # "app" => Elements' = {}
  BY DEF Drafts, Elements
<1>3. Drafts' \subseteq Elements'
  BY DEF Elements
<1> QED
  BY <1>1, <1>2, <1>3 DEF RenderFrom, Rebuilt, OnApp

\* What a render keeps of the types.
LEMMA RenderTypes ==
  ASSUME DraftsInv, NEW old, RenderFrom(old), screen' \in {"loading", "auth", "app"}
  PROVE  /\ {screen', shown'} \subseteq {"loading", "auth", "app"}
         /\ posting'.of \in Ids \cup {"", "title"}
         /\ posting' = [of |-> posting'.of, attached |-> posting'.attached]
         /\ DOMAIN fields' = IF OnApp' THEN Elements' ELSE {}
         /\ OnApp' => screen' = "app"
<1>1. /\ DOMAIN fields' = IF OnApp' THEN Elements' ELSE {}
      /\ OnApp' => screen' = "app"
      /\ posting' = [posting EXCEPT !.attached = FALSE]
      /\ shown' = screen'
  BY RenderedFields
<1>2. posting' = [of |-> posting.of, attached |-> FALSE]
  BY <1>1 DEF DraftsInv
<1> QED
  BY <1>1, <1>2 DEF DraftsInv

\* If screen, tab and drawer stay, so do the elements.
LEMMA SameDrafts ==
  ASSUME UNCHANGED <<screen, tab, showNew, selected, detail>>
  PROVE  Elements' = Elements
BY DEF Drafts, Elements

LEMMA DraftsStep == DraftsInv /\ [Next]_vars => DraftsInv'
<1> SUFFICES ASSUME DraftsInv, [Next]_vars PROVE DraftsInv'
  OBVIOUS
<1>0. DraftsInv
  OBVIOUS
<1> USE DEF place, drawer
<1>1. CASE \E s \in Snapshots : ReloadState(s)
  <2>1. /\ asked = "" /\ screen' = "app"
        /\ UNCHANGED <<tab, selected, detail, showNew>>
    BY <1>1 DEF ReloadState
  <2>2. CASE selected # ""
    <3>1. asked' = selected /\ UNCHANGED <<shown, posting, fields>>
      BY <1>1, <2>2 DEF ReloadState
    <3>2. OnApp => Elements' = Elements
      BY <1>0, <2>1, SameDrafts DEF DraftsInv
    <3> QED
      BY <1>0, <2>1, <3>1, <3>2 DEF DraftsInv, OnApp
  <2>3. CASE selected = ""
    <3>1. RenderFrom(fields) /\ asked' = asked
      BY <1>1, <2>3 DEF ReloadState, Render
    <3> QED
      BY <1>0, <2>1, <3>1, RenderTypes DEF DraftsInv
  <2> QED
    BY <2>2, <2>3
<1>2. CASE ReloadFails
  <2>1. /\ RenderFrom(fields) /\ screen' \in {screen, "auth"}
        /\ UNCHANGED <<tab, selected, detail, showNew, asked>>
    BY <1>2 DEF ReloadFails, Render
  <2> QED
    BY <1>0, <2>1, RenderTypes DEF DraftsInv
<1>3. CASE DetailArrives
  <2>1. /\ RenderFrom(fields) /\ detail' = asked /\ asked' = ""
        /\ UNCHANGED <<screen, tab, selected, showNew>>
    BY <1>3 DEF DetailArrives, Render
  <2> QED
    BY <1>0, <2>1, RenderTypes DEF DraftsInv
<1>4. CASE \E gone \in BOOLEAN : DetailFails(gone)
  <2>1. /\ RenderFrom(fields) /\ asked' = ""
        /\ (selected' = "" /\ detail' = "") \/ UNCHANGED <<selected, detail>>
        /\ UNCHANGED <<screen, tab, showNew>>
    BY <1>4 DEF DetailFails, Render
  <2> QED
    BY <1>0, <2>1, RenderTypes DEF DraftsInv
<1>5. CASE \E id \in Ids : Select(id)
  <2>1. PICK id \in Ids : Select(id)
    BY <1>5
  <2>2. /\ RenderFrom(fields) /\ selected' = id /\ detail' = ""
        /\ UNCHANGED <<screen, tab, showNew, asked>>
    BY <2>1 DEF Select, Render
  <2> QED
    BY <1>0, <2>2, RenderTypes DEF DraftsInv
<1>6. CASE Close
  <2>1. /\ RenderFrom(fields) /\ selected' = "" /\ detail' = ""
        /\ UNCHANGED <<screen, tab, showNew, asked>>
    BY <1>6 DEF Close, Render
  <2> QED
    BY <1>0, <2>1, RenderTypes DEF DraftsInv
<1>7. CASE ToggleNew
  <2>1. /\ RenderFrom(fields) /\ showNew' = ~showNew
        /\ UNCHANGED <<screen, tab, selected, detail, asked>>
    BY <1>7 DEF ToggleNew, Render
  <2> QED
    BY <1>0, <2>1, RenderTypes DEF DraftsInv
<1>8. CASE \/ \E k \in Ids \cup {"title"} : Submit(k)
           \/ \E k \in Ids \cup {"title", "unmarked"}, text \in Texts : Type(k, text)
  <2>1. /\ UNCHANGED <<screen, shown, tab, selected, detail, asked, showNew>>
        /\ DOMAIN fields' = DOMAIN fields
    BY <1>8 DEF Submit, Type
  <2>2. \/ posting' = posting
        \/ \E k \in Ids \cup {"title"} : posting' = [of |-> k, attached |-> TRUE]
    BY <1>8 DEF Submit, Type
  <2>3. Elements' = Elements
    BY <2>1, SameDrafts
  <2>4. /\ posting'.of \in Ids \cup {"", "title"}
        /\ posting' = [of |-> posting'.of, attached |-> posting'.attached]
    <3>1. CASE posting' = posting
      BY <1>0, <3>1 DEF DraftsInv
    <3>2. ASSUME NEW k \in Ids \cup {"title"}, posting' = [of |-> k, attached |-> TRUE]
          PROVE  /\ posting'.of \in Ids \cup {"", "title"}
                 /\ posting' = [of |-> posting'.of, attached |-> posting'.attached]
      BY <3>2
    <3> QED
      BY <2>2, <3>1, <3>2
  <2> QED
    BY <1>0, <2>1, <2>3, <2>4 DEF DraftsInv, OnApp
<1>9. CASE \E ok \in BOOLEAN : Posted(ok)
  <2>1. /\ DOMAIN fields' = Elements' /\ shown' = screen /\ posting' = NoPost
        /\ UNCHANGED <<screen, tab, selected, detail, asked>>
    BY <1>9 DEF Posted, Rebuilt
  <2>2. showNew' \in BOOLEAN
    BY <1>9, Zenon DEF Posted
  <2>3. screen # "app" => Elements' = {}
    BY <2>1 DEF Drafts, Elements
  <2> QED
    BY <1>0, <2>1, <2>2, <2>3 DEF DraftsInv, OnApp, NoPost
<1>10. ASSUME NEW k, NEW v, SetFilter(k, v) \/ TypeQuery(v) \/ ClearFilters
       PROVE  DraftsInv'
  <2>1. /\ \E old : RenderFrom(old)
        /\ UNCHANGED <<screen, tab, selected, detail, asked, showNew>>
    BY <1>10 DEF SetFilter, TypeQuery, ClearFilters, FilterChanged
  <2> QED
    BY <1>0, <2>1, RenderTypes DEF DraftsInv
<1>11. CASE \/ \E t \in {"board", "timeline"} : ShowTab(t)
            \/ \E p \in Elems(snap.projects) : SetTimelineProject(p)
            \/ \E n \in {-1, 1} : Shift(n)
            \/ TimelineToday
  <2>1. /\ RenderFrom(fields) /\ tab' \in {"board", "timeline"}
        /\ UNCHANGED <<screen, selected, detail, asked, showNew>>
    BY <1>0, <1>11 DEF ShowTab, SetTimelineProject, Shift, TimelineToday, Render, DraftsInv
  <2> QED
    BY <1>0, <2>1, RenderTypes DEF DraftsInv
<1>12. CASE UNCHANGED vars
  BY <1>0, <1>12 DEF vars, DraftsInv, Drafts, Elements, OnApp
<1>13. Live => DraftsInv'
  BY <1>1, <1>2, <1>3, <1>4 DEF Live
<1>14. User => DraftsInv'
  BY <1>5, <1>6, <1>7, <1>8, <1>10, <1>11 DEF User
<1> QED
  BY <1>9, <1>12, <1>13, <1>14 DEF Next

LEMMA DraftsStart == Init => DraftsInv
<1> SUFFICES ASSUME Init PROVE DraftsInv
  OBVIOUS
<1>1. DOMAIN fields = {}
  <2>1. << >> \in Seq({}) /\ Len(<< >>) = 0
    BY EmptySeq
  <2>2. DOMAIN << >> = 1..0
    BY <2>1, LenProperties
  <2>3. 1..0 = {}
    OBVIOUS
  <2> QED
    BY <2>2, <2>3 DEF Init
<1> QED
  BY <1>1 DEF Init, DraftsInv, OnApp, Drafts, Elements, NoPost

\* What one render keeps: every draft whose element is there again.
LEMMA Survives ==
  ASSUME DraftsInv, RenderFrom(fields), screen' = "app",
         UNCHANGED <<tab, showNew, selected>>,
         selected = "" \/ detail' = selected \/ detail # selected
  PROVE  \A k \in DOMAIN fields \ {"unmarked"} :
            k \in DOMAIN fields' /\ fields'[k] = fields[k]
<1>1. \A k \in Drafts' : k \in DOMAIN fields => fields'[k] = fields[k]
  BY RenderedFields
<1>2. Drafts' \subseteq DOMAIN fields'
  BY RenderedFields DEF OnApp, Elements
<1>3. DOMAIN fields \ {"unmarked"} \subseteq Drafts'
  BY DEF DraftsInv, Drafts, Elements
<1> QED
  BY <1>1, <1>2, <1>3

\* A reload, or the reply to it, never takes away what was typed into an element
\* marked data-draft: whatever is clicked, typed or sent in between.
THEOREM DraftsAreKept == Spec => DraftsSurvive
<1>1. ASSUME DraftsInv, [Next]_vars
      PROVE  [(Live /\ screen' = "app" /\ (selected # "" => selected' # "")) =>
                \A k \in DOMAIN fields \ {"unmarked"} :
                   k \in DOMAIN fields' /\ fields'[k] = fields[k]]_vars
  <2> SUFFICES ASSUME Live, screen' = "app", selected # "" => selected' # ""
               PROVE  \A k \in DOMAIN fields \ {"unmarked"} :
                         k \in DOMAIN fields' /\ fields'[k] = fields[k]
    OBVIOUS
  <2> USE <1>1 DEF place, drawer
  <2>1. CASE \E s \in Snapshots : ReloadState(s)
    <3>1. UNCHANGED <<tab, selected, detail, showNew>>
      BY <2>1 DEF ReloadState
    <3>2. UNCHANGED fields \/ RenderFrom(fields)
      BY <2>1 DEF ReloadState, Render
    <3> QED
      BY <3>1, <3>2, Survives
  <2>2. CASE ReloadFails
    <3>1. RenderFrom(fields) /\ UNCHANGED <<tab, selected, detail, showNew>>
      BY <2>2 DEF ReloadFails, Render
    <3> QED
      BY <3>1, Survives
  <2>3. CASE DetailArrives
    <3>1. /\ RenderFrom(fields) /\ asked # "" /\ detail' = asked
          /\ UNCHANGED <<tab, selected, showNew>>
      BY <2>3 DEF DetailArrives, Render
    <3> QED
      BY <3>1, Survives DEF DraftsInv
  <2>4. CASE \E gone \in BOOLEAN : DetailFails(gone)
    <3>1. /\ RenderFrom(fields) /\ UNCHANGED <<tab, showNew>>
          /\ (selected' = "" /\ detail' = "") \/ UNCHANGED <<selected, detail>>
      BY <2>4 DEF DetailFails, Render
    <3> QED
      BY <3>1, Survives
  <2> QED
    BY <2>1, <2>2, <2>3, <2>4 DEF Live
<1> QED
  BY <1>1, DraftsStart, DraftsStep, PTL DEF Spec, DraftsSurvive

-----------------------------------------------------------------------------
(* The calendar.                                                           *)

LEMMA YearLength ==
  ASSUME NEW y \in Int
  PROVE  DaysBefore(y) \in Int /\ DaysBefore(y + 1) - DaysBefore(y) \in {365, 366}
BY DEF DaysBefore

LEMMA YearBounds ==
  ASSUME NEW n \in Nat
  PROVE  365 * n <= DaysBefore(n + 1) /\ DaysBefore(n + 1) <= 366 * n
BY DEF DaysBefore

LEMMA Cumulate ==
  /\ Cumulated[1] = 0 /\ Cumulated[2] = 31 /\ Cumulated[3] = 59 /\ Cumulated[4] = 90
  /\ Cumulated[5] = 120 /\ Cumulated[6] = 151 /\ Cumulated[7] = 181 /\ Cumulated[8] = 212
  /\ Cumulated[9] = 243 /\ Cumulated[10] = 273 /\ Cumulated[11] = 304 /\ Cumulated[12] = 334
BY DEF Cumulated

\* The first day of the month with the number k, counted from the year 0.
FirstDay(k) == MonthStart(k \div 12, (k % 12) + 1)

LEMMA FirstDayIs ==
  ASSUME NEW k \in Int
  PROVE  /\ FirstDay(k) \in Int
         /\ FirstDay(k) = DaysBefore(k \div 12) + Cumulated[(k % 12) + 1]
                          + (IF Leap(k \div 12) /\ (k % 12) + 1 > 2 THEN 1 ELSE 0)
<1>1. k \div 12 \in Int /\ (k % 12) + 1 \in 1..12
  OBVIOUS
<1>2. DaysBefore(k \div 12) \in Int
  BY <1>1, YearLength
<1>3. Cumulated[(k % 12) + 1] \in Int
  <2>1. (k % 12) + 1 \in {1, 2, 3, 4, 5, 6, 7, 8, 9, 10, 11, 12}
    BY <1>1
  <2> QED
    BY <2>1, Cumulate
<1> QED
  BY <1>2, <1>3 DEF FirstDay, MonthStart

LEMMA NumberMonths ==
  ASSUME NEW y \in Int, NEW m \in Int
  PROVE  NewDate(y, m, 1) = FirstDay(12 * y + m - 1)
<1> DEFINE k == 12 * y + m - 1
<1>1. y + ((m - 1) \div 12) = k \div 12 /\ ((m - 1) % 12) = k % 12
  OBVIOUS
<1>2. FirstDay(k) \in Int
  BY FirstDayIs
<1>3. NewDate(y, m, 1) = FirstDay(k) + 1 - 1
  BY <1>1 DEF NewDate, FirstDay
<1> QED
  BY <1>2, <1>3

\* Every month has 28 to 31 days.
LEMMA MonthLength ==
  ASSUME NEW k \in Int
  PROVE  FirstDay(k) \in Int /\ FirstDay(k + 1) - FirstDay(k) \in 28..31
<1> DEFINE y == k \div 12
           m == k % 12
<1>1. y \in Int /\ m \in 0..11
  OBVIOUS
<1>2. /\ FirstDay(k) \in Int
      /\ FirstDay(k) = DaysBefore(y) + Cumulated[m + 1] + (IF Leap(y) /\ m + 1 > 2 THEN 1 ELSE 0)
  BY FirstDayIs
<1>3. /\ FirstDay(k + 1) \in Int
      /\ FirstDay(k + 1) = DaysBefore((k + 1) \div 12) + Cumulated[((k + 1) % 12) + 1]
                           + (IF Leap((k + 1) \div 12) /\ ((k + 1) % 12) + 1 > 2 THEN 1 ELSE 0)
  BY FirstDayIs
<1>4. DaysBefore(y) \in Int /\ DaysBefore(y + 1) \in Int
      /\ DaysBefore(y + 1) - DaysBefore(y) \in {365, 366}
  BY <1>1, YearLength
<1>5. CASE m = 11
  <2>1. (k + 1) \div 12 = y + 1 /\ (k + 1) % 12 = 0
    BY <1>5
  <2> HIDE DEF y, m
  <2>2. FirstDay(k + 1) = DaysBefore(y + 1)
    BY <1>3, <1>4, <2>1, Cumulate
  <2>3. FirstDay(k) = DaysBefore(y) + 334 + (IF Leap(y) THEN 1 ELSE 0)
    BY <1>2, <1>5, Cumulate
  <2> QED
    BY <1>2, <1>3, <1>4, <2>2, <2>3 DEF Leap
<1>6. CASE m \in 0..10
  <2>1. (k + 1) \div 12 = y /\ (k + 1) % 12 = m + 1
    BY <1>6
  <2> HIDE DEF y, m
  <2>2. FirstDay(k + 1) = DaysBefore(y) + Cumulated[m + 2] + (IF Leap(y) /\ m + 2 > 2 THEN 1 ELSE 0)
    BY <1>3, <1>6, <2>1
  <2>3. m \in {0, 1, 2, 3, 4, 5, 6, 7, 8, 9, 10}
    BY <1>6
  <2>4. Cumulated[m + 2] - Cumulated[m + 1] \in 28..31
        /\ (m = 1 => Cumulated[m + 2] - Cumulated[m + 1] = 28)
        /\ Cumulated[m + 1] \in Int /\ Cumulated[m + 2] \in Int
    BY <2>3, Cumulate
  <2>5. CASE m = 1
    BY <1>2, <1>3, <1>4, <2>2, <2>4, <2>5
  <2>6. CASE m # 1
    <3>1. (m + 2 > 2) = (m + 1 > 2)
      BY <2>3, <2>6
    <3> QED
      BY <1>2, <1>3, <1>4, <2>2, <2>4, <3>1
  <2> QED
    BY <2>5, <2>6
<1> QED
  BY <1>1, <1>2, <1>5, <1>6

\* So k months later it is at least 28 times k days later.
LEMMA MonthsApart ==
  ASSUME NEW k \in Int, NEW n \in Nat
  PROVE  FirstDay(k) + 28 * n <= FirstDay(k + n)
<1> DEFINE Short == {j \in Nat : ~(FirstDay(k) + 28 * j <= FirstDay(k + j))}
<1>1. SUFFICES ASSUME Short # {} PROVE FALSE
  OBVIOUS
<1>2. PICK j \in Short : \A i \in Short : j <= i
  BY <1>1, LeastNat
<1>3. j \in Nat /\ ~(FirstDay(k) + 28 * j <= FirstDay(k + j)) /\ FirstDay(k) \in Int
  BY MonthLength
<1>4. CASE j = 0
  <2>1. k + j = k /\ 28 * j = 0
    BY <1>4
  <2> QED
    BY <1>3, <2>1
<1>5. CASE j # 0
  <2>1. j - 1 \in Nat /\ ~(j <= j - 1)
    BY <1>3, <1>5
  <2>2. j - 1 \notin Short
    BY <1>2, <2>1
  <2> DEFINE i == k + (j - 1)
  <2>3. FirstDay(k) + 28 * (j - 1) <= FirstDay(i)
    BY <2>1, <2>2
  <2>4. i \in Int /\ i + 1 = k + j
    BY <2>1
  <2>5. FirstDay(i) \in Int /\ FirstDay(i + 1) \in Int /\ FirstDay(i + 1) - FirstDay(i) >= 28
    BY <2>4, MonthLength
  <2> HIDE DEF i
  <2> QED
    BY <1>3, <2>3, <2>4, <2>5
<1> QED
  BY <1>4, <1>5

LEMMA MonthsRise ==
  ASSUME NEW j \in Int, NEW k \in Int, j < k
  PROVE  FirstDay(j) + 28 <= FirstDay(k)
<1>1. k - j \in Nat /\ k - j >= 1 /\ j + (k - j) = k
  OBVIOUS
<1>2. FirstDay(j) + 28 * (k - j) <= FirstDay(k)
  BY <1>1, MonthsApart
<1>3. FirstDay(j) \in Int /\ FirstDay(k) \in Int
  BY MonthLength
<1> QED
  BY <1>1, <1>2, <1>3

\* The day d is in the month k, in year 1 or later.
InMonth(d, k) == k \in Int /\ k >= 12 /\ FirstDay(k) <= d /\ d < FirstDay(k + 1)

LEMMA JanuaryFirst ==
  ASSUME NEW y \in Int
  PROVE  FirstDay(12 * y) = DaysBefore(y)
<1>1. (12 * y) \div 12 = y /\ (12 * y) % 12 = 0
  OBVIOUS
<1>2. DaysBefore(y) \in Int
  BY YearLength
<1>3. FirstDay(12 * y) = DaysBefore(y) + Cumulated[0 + 1] + (IF Leap(y) /\ 0 + 1 > 2 THEN 1 ELSE 0)
  BY <1>1, FirstDayIs
<1> QED
  BY <1>2, <1>3, Cumulate

LEMMA YearOne == FirstDay(12) = 0
<1>1. DaysBefore(1) = 0
  BY DEF DaysBefore
<1>2. 12 = 12 * 1
  OBVIOUS
<1> QED
  BY <1>1, <1>2, JanuaryFirst

\* Every day since the first of January of year 1 is in a month.
LEMMA MonthOfDay ==
  ASSUME NEW d \in Nat
  PROVE  \E k \in Int : InMonth(d, k)
<1> DEFINE Later == {n \in Nat : d < FirstDay(12 + n)}
<1>1. Later # {}
  <2>0. 12 \in Int /\ d + 1 \in Nat
    OBVIOUS
  <2>1. FirstDay(12) + 28 * (d + 1) <= FirstDay(12 + (d + 1))
    BY <2>0, MonthsApart
  <2>2. FirstDay(12 + (d + 1)) \in Int
    BY <2>0, MonthLength
  <2>3. d < FirstDay(12 + (d + 1)) /\ d + 1 \in Nat
    BY <2>0, <2>1, <2>2, YearOne
  <2> QED
    BY <2>3
<1>2. PICK n \in Later : \A i \in Later : n <= i
  BY <1>1, LeastNat
<1>3. n \in Nat /\ d < FirstDay(12 + n)
  OBVIOUS
<1>4. n # 0
  <2>1. 12 + 0 = 12 /\ ~(d < 0)
    OBVIOUS
  <2> QED
    BY <1>3, <2>1, YearOne
<1>5. n - 1 \in Nat /\ ~(n <= n - 1)
  BY <1>3, <1>4
<1>6. ~(d < FirstDay(12 + (n - 1)))
  BY <1>2, <1>5
<1> DEFINE k == 12 + (n - 1)
<1>7. k \in Int /\ k >= 12 /\ k + 1 = 12 + n
  BY <1>5
<1>8. FirstDay(k) \in Int
  BY <1>7, MonthLength
<1>9. InMonth(d, k)
  BY <1>3, <1>6, <1>7, <1>8 DEF InMonth
<1> QED
  BY <1>7, <1>9

\* It is in one month only.
LEMMA OneMonth ==
  ASSUME NEW d \in Int, NEW j, NEW k, InMonth(d, j), InMonth(d, k)
  PROVE  j = k
<1>1. ASSUME NEW a \in Int, NEW b \in Int, a < b, FirstDay(b) <= d, d < FirstDay(a + 1)
      PROVE  FALSE
  <2>1. FirstDay(a + 1) \in Int /\ FirstDay(b) \in Int
    BY MonthLength
  <2>2. FirstDay(a + 1) <= FirstDay(b)
    <3>1. CASE a + 1 = b
      BY <2>1, <3>1
    <3>2. CASE a + 1 < b
      <4>1. FirstDay(a + 1) + 28 <= FirstDay(b)
        BY <3>2, MonthsRise
      <4> QED
        BY <2>1, <4>1
    <3> QED
      BY <1>1, <3>1, <3>2
  <2> QED
    BY <1>1, <2>1, <2>2
<1>2. j \in Int /\ k \in Int /\ ~(j < k) /\ ~(k < j)
  BY <1>1 DEF InMonth
<1> QED
  BY <1>2

\* Year finds the year of the month.
LEMMA YearIs ==
  ASSUME NEW d \in Nat, NEW k, InMonth(d, k)
  PROVE  Year(d) = k \div 12
<1> DEFINE y == k \div 12
           Ys == (d \div 366 + 1)..(d \div 365 + 1)
<1>1. /\ k \in Int /\ k >= 12 /\ y \in Int /\ y >= 1
      /\ 12 * y <= k /\ k + 1 <= 12 * (y + 1) /\ y - 1 \in Nat
  BY DEF InMonth
<1>2. /\ FirstDay(k) \in Int /\ FirstDay(k + 1) \in Int
      /\ FirstDay(k) <= d /\ d < FirstDay(k + 1)
  BY <1>1, MonthLength DEF InMonth
<1> HIDE DEF y
<1>a. ASSUME NEW a \in Int, NEW b \in Int, a <= b
      PROVE  FirstDay(a) \in Int /\ FirstDay(b) \in Int /\ FirstDay(a) <= FirstDay(b)
  <2>1. FirstDay(a) \in Int /\ FirstDay(b) \in Int
    BY MonthLength
  <2>2. CASE a = b
    BY <2>1, <2>2
  <2>3. CASE a < b
    <3>1. FirstDay(a) + 28 <= FirstDay(b)
      BY <2>3, MonthsRise
    <3> QED
      BY <2>1, <3>1
  <2> QED
    BY <1>a, <2>1, <2>2, <2>3
<1>3. DaysBefore(y) <= d /\ d < DaysBefore(y + 1)
  <2>1. 12 * y \in Int /\ 12 * (y + 1) \in Int
    BY <1>1
  <2>2. FirstDay(12 * y) <= FirstDay(k) /\ FirstDay(12 * y) \in Int
    BY <1>1, <1>a, <2>1
  <2>3. FirstDay(k + 1) <= FirstDay(12 * (y + 1)) /\ FirstDay(12 * (y + 1)) \in Int
    <3>1. k + 1 \in Int
      BY <1>1
    <3> QED
      BY <1>1, <1>a, <2>1, <3>1
  <2>4. FirstDay(12 * y) = DaysBefore(y) /\ FirstDay(12 * (y + 1)) = DaysBefore(y + 1)
    BY <1>1, JanuaryFirst
  <2> QED
    BY <1>2, <2>2, <2>3, <2>4
<1>4. y \in Ys
  <2>1. 365 * (y - 1) <= DaysBefore((y - 1) + 1)
    BY <1>1, YearBounds
  <2>2. y \in Nat /\ DaysBefore(y + 1) <= 366 * y
    BY <1>1, YearBounds
  <2>3. (y - 1) + 1 = y
    BY <1>1
  <2>4. DaysBefore(y) \in Int /\ DaysBefore(y + 1) \in Int
    BY <1>1, YearLength
  <2>5. 365 * (y - 1) <= d /\ d < 366 * y
    BY <1>1, <1>3, <2>1, <2>2, <2>3, <2>4
  <2>6. y - 1 <= d \div 365 /\ d \div 366 < y
    BY <1>1, <2>5
  <2> QED
    BY <1>1, <2>6
<1>5. ASSUME NEW z \in Ys, DaysBefore(z) <= d, d < DaysBefore(z + 1)
      PROVE  z = y
  <2>1. z \in Int /\ z + 1 \in Int /\ y + 1 \in Int
    BY <1>1
  <2>2. /\ DaysBefore(z) \in Int /\ DaysBefore(z + 1) \in Int
        /\ DaysBefore(y) \in Int /\ DaysBefore(y + 1) \in Int
    BY <1>1, <2>1, YearLength
  <2>3. ASSUME NEW a \in Int, NEW b \in Int, a < b
        PROVE  DaysBefore(a + 1) <= DaysBefore(b)
    <3>1. 12 * (a + 1) <= 12 * b /\ 12 * (a + 1) \in Int /\ 12 * b \in Int /\ a + 1 \in Int
      BY <2>3
    <3>2. FirstDay(12 * (a + 1)) <= FirstDay(12 * b)
      BY <1>a, <3>1
    <3> QED
      BY <3>1, <3>2, JanuaryFirst
  <2>4. ~(z < y)
    BY <1>1, <1>3, <1>5, <2>1, <2>2, <2>3
  <2>5. ~(y < z)
    BY <1>1, <1>3, <1>5, <2>1, <2>2, <2>3
  <2> QED
    BY <1>1, <2>1, <2>4, <2>5
<1>6. Year(d) = CHOOSE z \in Ys : DaysBefore(z) <= d /\ d < DaysBefore(z + 1)
  BY DEF Year
<1> HIDE DEF Ys
<1>7. Year(d) = y
  BY <1>3, <1>4, <1>5, <1>6, Zenon
<1> QED
  BY <1>7 DEF y

\* The civil date of a day.
LEMMA CivilIs ==
  ASSUME NEW d \in Nat, NEW k, InMonth(d, k)
  PROVE  Civil(d) = [year |-> k \div 12, month |-> (k % 12) + 1, day |-> d - FirstDay(k) + 1]
<1> DEFINE y == k \div 12
<1>1. /\ k \in Int /\ k >= 12 /\ y \in Int /\ (k % 12) + 1 \in 1..12
      /\ k = 12 * y + ((k % 12) + 1) - 1
  BY DEF InMonth
<1>2. Year(d) = y
  BY YearIs
<1> HIDE DEF y
<1>3. ASSUME NEW m \in 1..12
      PROVE  /\ MonthStart(y, m) = FirstDay(12 * y + m - 1)
             /\ NewDate(y, m + 1, 1) = FirstDay((12 * y + m - 1) + 1)
  <2>1. /\ (12 * y + m - 1) \div 12 = y /\ ((12 * y + m - 1) % 12) + 1 = m
        /\ 12 * y + (m + 1) - 1 = (12 * y + m - 1) + 1 /\ m + 1 \in Int
    BY <1>1
  <2>2. NewDate(y, m + 1, 1) = FirstDay(12 * y + (m + 1) - 1)
    BY <1>1, <2>1, NumberMonths
  <2> QED
    BY <2>1, <2>2 DEF FirstDay
<1>4. ASSUME NEW m \in 1..12
      PROVE  (MonthStart(y, m) <= d /\ d < NewDate(y, m + 1, 1)) <=> m = (k % 12) + 1
  <2>1. 12 * y + m - 1 \in Int /\ (12 * y + m - 1 = k <=> m = (k % 12) + 1)
    BY <1>1
  <2>2. CASE MonthStart(y, m) <= d /\ d < NewDate(y, m + 1, 1)
    <3>1. 12 * y + m - 1 >= 12
      <4>1. k < 12 * (y + 1)
        BY DEF y, InMonth
      <4> QED
        BY <1>1, <4>1
    <3>2. InMonth(d, 12 * y + m - 1)
      BY <1>3, <2>1, <2>2, <3>1 DEF InMonth
    <3> QED
      BY <2>1, <2>2, <3>2, OneMonth
  <2>3. CASE m = (k % 12) + 1
    BY <1>3, <2>1, <2>3 DEF InMonth
  <2> QED
    BY <2>2, <2>3
<1>5. (CHOOSE m \in 1..12 : MonthStart(y, m) <= d /\ d < NewDate(y, m + 1, 1)) = (k % 12) + 1
  BY <1>1, <1>4, Zenon
<1>6. MonthStart(y, (k % 12) + 1) = FirstDay(k)
  BY <1>1, <1>3
<1> QED
  BY <1>2, <1>5, <1>6 DEF Civil, y

\* Whole months are counted from the first day of any of them.
LEMMA MonthsAdd ==
  ASSUME NEW k \in Int, k >= 12, NEW n \in Int
  PROVE  /\ AddMonths(FirstDay(k), n) = FirstDay(k + n)
         /\ FirstOfMonth(FirstDay(k)) = FirstDay(k)
<1>1. FirstDay(k) \in Nat
  <2>1. FirstDay(k) \in Int /\ 12 \in Int
    BY MonthLength
  <2>2. CASE k = 12
    BY <2>2, YearOne
  <2>3. CASE 12 < k
    <3>1. FirstDay(12) + 28 <= FirstDay(k)
      BY <2>1, <2>3, MonthsRise
    <3> QED
      BY <2>1, <3>1, YearOne
  <2> QED
    BY <2>2, <2>3
<1>2. InMonth(FirstDay(k), k)
  <2>1. FirstDay(k) \in Int /\ FirstDay(k + 1) - FirstDay(k) \in 28..31
    BY MonthLength
  <2>2. k + 1 \in Int
    OBVIOUS
  <2>3. FirstDay(k + 1) \in Int
    BY <2>2, MonthLength
  <2> QED
    BY <2>1, <2>3 DEF InMonth
<1>3. Civil(FirstDay(k)) =
        [year |-> k \div 12, month |-> (k % 12) + 1, day |-> FirstDay(k) - FirstDay(k) + 1]
  BY <1>1, <1>2, CivilIs
<1>4. FirstDay(k) - FirstDay(k) + 1 = 1
  BY <1>1
<1>5. AddMonths(FirstDay(k), n) = NewDate(k \div 12, (k % 12) + 1 + n, 1)
      /\ FirstOfMonth(FirstDay(k)) = NewDate(k \div 12, (k % 12) + 1, 1)
  BY <1>3, <1>4 DEF AddMonths, FirstOfMonth
<1>6. /\ k \div 12 \in Int /\ (k % 12) + 1 + n \in Int /\ (k % 12) + 1 \in Int
      /\ 12 * (k \div 12) + ((k % 12) + 1 + n) - 1 = k + n
      /\ 12 * (k \div 12) + ((k % 12) + 1) - 1 = k
  OBVIOUS
<1>7. NewDate(k \div 12, (k % 12) + 1 + n, 1) = FirstDay(k + n)
  <2>1. NewDate(k \div 12, (k % 12) + 1 + n, 1)
          = FirstDay(12 * (k \div 12) + ((k % 12) + 1 + n) - 1)
    BY <1>6, NumberMonths
  <2> QED
    BY <1>6, <2>1
<1>8. NewDate(k \div 12, (k % 12) + 1, 1) = FirstDay(k)
  <2>1. NewDate(k \div 12, (k % 12) + 1, 1) = FirstDay(12 * (k \div 12) + ((k % 12) + 1) - 1)
    BY <1>6, NumberMonths
  <2> QED
    BY <1>6, <2>1
<1> QED
  BY <1>5, <1>7, <1>8

\* The window of n months after the month of the day d.
Window(w, d, n) ==
  \E k \in Int : /\ InMonth(d, k) /\ k + n >= 12
                 /\ w = [start |-> FirstDay(k + n),
                         end |-> FirstDay(k + n + DefaultTimelineMonths)]

LEMMA TodaysWindow ==
  ASSUME NEW d \in Nat
  PROVE  Window(DefaultWindow(d), d, 0)
<1>1. PICK k \in Int : InMonth(d, k)
  BY MonthOfDay
<1>2. Civil(d) = [year |-> k \div 12, month |-> (k % 12) + 1, day |-> d - FirstDay(k) + 1]
  BY <1>1, CivilIs
<1>3. /\ k \div 12 \in Int /\ (k % 12) + 1 \in Int /\ k >= 12
      /\ 12 * (k \div 12) + ((k % 12) + 1) - 1 = k
  BY <1>1 DEF InMonth
<1>4. FirstOfMonth(d) = FirstDay(k)
  <2>1. FirstOfMonth(d) = NewDate(k \div 12, (k % 12) + 1, 1)
    BY <1>2 DEF FirstOfMonth
  <2>2. NewDate(k \div 12, (k % 12) + 1, 1) = FirstDay(12 * (k \div 12) + ((k % 12) + 1) - 1)
    BY <1>3, NumberMonths
  <2> QED
    BY <1>3, <2>1, <2>2
<1>5. DefaultTimelineMonths \in Int
  BY DEF DefaultTimelineMonths
<1>6. AddMonths(FirstDay(k), DefaultTimelineMonths) = FirstDay(k + DefaultTimelineMonths)
  BY <1>3, <1>5, MonthsAdd
<1>7. DefaultWindow(d) = [start |-> FirstDay(k), end |-> FirstDay(k + DefaultTimelineMonths)]
  BY <1>4, <1>6 DEF DefaultWindow
<1>8. k + 0 = k
  OBVIOUS
<1> QED
  BY <1>1, <1>3, <1>7, <1>8 DEF Window

LEMMA ShiftedWindow ==
  ASSUME NEW w, NEW d \in Nat, NEW n \in Int, NEW m \in Int, Window(w, d, n),
         \A k \in Int : InMonth(d, k) => k + (n + m) >= 12
  PROVE  Window(ShiftWindow(w, m), d, n + m)
<1>1. PICK k \in Int : /\ InMonth(d, k) /\ k + n >= 12
                       /\ w = [start |-> FirstDay(k + n),
                               end |-> FirstDay(k + n + DefaultTimelineMonths)]
  BY DEF Window
<1>2. k + (n + m) >= 12
  BY <1>1
<1> DEFINE D == DefaultTimelineMonths
<1>3. D \in Int /\ D >= 0
  BY DEF DefaultTimelineMonths
<1> HIDE DEF D
<1>4. /\ k + n \in Int /\ k + n + D \in Int /\ k + n >= 12 /\ k + n + D >= 12
      /\ k + n + m = k + (n + m) /\ k + n + D + m = k + (n + m) + D
  BY <1>1, <1>3
<1>5. AddMonths(FirstDay(k + n), m) = FirstDay(k + n + m)
  BY <1>4, MonthsAdd
<1>6. AddMonths(FirstDay(k + n + D), m) = FirstDay(k + n + D + m)
  BY <1>4, MonthsAdd
<1>7. w = [start |-> FirstDay(k + n), end |-> FirstDay(k + n + D)]
  BY <1>1 DEF D
<1>8. ShiftWindow(w, m) = [start |-> FirstDay(k + (n + m)), end |-> FirstDay(k + (n + m) + D)]
  BY <1>4, <1>5, <1>6, <1>7 DEF ShiftWindow
<1> QED
  BY <1>1, <1>2, <1>8 DEF Window, D

\* The window is whole months, as many away as it was moved.
LEMMA WindowIsWhole ==
  ASSUME NEW d \in Nat, NEW n \in Int, NEW w, Window(w, d, n)
  PROVE  LET c == Civil(d) IN
         /\ w.start = NewDate(c.year, c.month + n, 1)
         /\ w.end = NewDate(c.year, c.month + n + DefaultTimelineMonths, 1)
<1>1. PICK k \in Int : /\ InMonth(d, k)
                       /\ w = [start |-> FirstDay(k + n),
                               end |-> FirstDay(k + n + DefaultTimelineMonths)]
  BY DEF Window
<1>2. Civil(d) = [year |-> k \div 12, month |-> (k % 12) + 1, day |-> d - FirstDay(k) + 1]
  BY <1>1, CivilIs
<1> DEFINE D == DefaultTimelineMonths
<1>3. D \in Int
  BY DEF DefaultTimelineMonths
<1> HIDE DEF D
<1>4. /\ k \div 12 \in Int /\ (k % 12) + 1 + n \in Int /\ (k % 12) + 1 + n + D \in Int
      /\ 12 * (k \div 12) + ((k % 12) + 1 + n) - 1 = k + n
      /\ 12 * (k \div 12) + ((k % 12) + 1 + n + D) - 1 = k + n + D
  BY <1>3
<1>5. NewDate(k \div 12, (k % 12) + 1 + n, 1)
        = FirstDay(12 * (k \div 12) + ((k % 12) + 1 + n) - 1)
  BY <1>4, NumberMonths
<1>6. NewDate(k \div 12, (k % 12) + 1 + n + D, 1)
        = FirstDay(12 * (k \div 12) + ((k % 12) + 1 + n + D) - 1)
  BY <1>4, NumberMonths
<1>7. w.start = FirstDay(k + n) /\ w.end = FirstDay(k + n + D)
  BY <1>1 DEF D
<1> QED
  BY <1>2, <1>4, <1>5, <1>6, <1>7 DEF D

Mondays(a, b) == {d \in a..(b - 1) : d % 7 = 0}

\* The week lines of a month that begins on day a.
LEMMA WeekLines ==
  ASSUME NEW a \in Int, NEW b \in Int, b - a <= 31
  PROVE  {t \in {WeekStart(a) + 7 * i : i \in 0..5} : a < t /\ t < b} = Mondays(a, b) \ {a}
<1> DEFINE q == a \div 7
<1>1. /\ q \in Int /\ 7 * q <= a /\ a < 7 * q + 7 /\ WeekStart(a) = 7 * q
  BY DEF WeekStart
<1> HIDE DEF q
<1>2. ASSUME NEW i \in 0..5, a < WeekStart(a) + 7 * i, WeekStart(a) + 7 * i < b
      PROVE  WeekStart(a) + 7 * i \in Mondays(a, b) \ {a}
  <2>1. WeekStart(a) + 7 * i = 7 * (q + i) /\ q + i \in Int
    BY <1>1
  <2>2. (7 * (q + i)) % 7 = 0 /\ 7 * (q + i) \in Int
    BY <2>1
  <2> QED
    BY <1>2, <2>1, <2>2 DEF Mondays
<1>3. ASSUME NEW d \in Mondays(a, b) \ {a}
      PROVE  a < d /\ d < b /\ \E i \in 0..5 : d = WeekStart(a) + 7 * i
  <2>1. d \in Int /\ a < d /\ d < b /\ d % 7 = 0
    BY DEF Mondays
  <2>2. d = 7 * (d \div 7) /\ d \div 7 \in Int
    BY <2>1
  <2> DEFINE i == (d \div 7) - q
  <2>3. i \in 0..5 /\ d = 7 * q + 7 * i
    BY <1>1, <2>1, <2>2
  <2> QED
    BY <1>1, <2>1, <2>3
<1> QED
  BY <1>2, <1>3

\* The header has one segment per month of the window.
LEMMA HeaderIs ==
  ASSUME NEW j \in Int, j >= 12, NEW w, w = [start |-> FirstDay(j), end |-> FirstDay(j + 3)]
  PROVE  MonthsInWindow(w) =
           [i \in 1..3 |-> [start |-> FirstDay(j + i - 1), end |-> FirstDay(j + i),
                            ticks |-> Mondays(FirstDay(j + i - 1), FirstDay(j + i))
                                        \ {FirstDay(j + i - 1)}]]
<1> DEFINE N == (w.end - w.start) \div 28 + 2
           cur == [k \in 0..N |-> IF k = 0 THEN w.start ELSE AddMonths(FirstOfMonth(w.start), k)]
           month(k) ==
             LET end == IF cur[k + 1] > w.end THEN w.end ELSE cur[k + 1] IN
             [start |-> cur[k], end |-> end,
              ticks |-> {t \in {WeekStart(cur[k]) + 7 * i : i \in 0..5} : cur[k] < t /\ t < end}]
           Shorter == {k \in DOMAIN cur : cur[k] < w.end}
<1>1. MonthsInWindow(w) = [i \in 1..Cardinality(Shorter) |-> month(i - 1)]
  BY DEF MonthsInWindow
<1>2. w.start = FirstDay(j) /\ w.end = FirstDay(j + 3)
  OBVIOUS
<1>3. N \in Int /\ N >= 3
  <2>1. 3 \in Nat
    OBVIOUS
  <2>2. FirstDay(j) + 28 * 3 <= FirstDay(j + 3)
    BY <2>1, MonthsApart
  <2>3. j + 3 \in Int
    OBVIOUS
  <2>4. FirstDay(j) \in Int /\ FirstDay(j + 3) \in Int
    BY <2>3, MonthLength
  <2> QED
    BY <1>2, <2>2, <2>4
<1>4. DOMAIN cur = 0..N /\ \A k \in 0..N : cur[k] = FirstDay(j + k)
  <2>1. ASSUME NEW k \in 0..N PROVE cur[k] = FirstDay(j + k)
    <3>1. CASE k = 0
      <4>1. j + k = j
        BY <3>1
      <4> QED
        BY <1>2, <3>1, <4>1
    <3>2. CASE k # 0
      <4>1. k \in Int
        BY <1>3
      <4>2. FirstOfMonth(w.start) = FirstDay(j) /\ AddMonths(FirstDay(j), k) = FirstDay(j + k)
        BY <1>2, <4>1, MonthsAdd
      <4> QED
        BY <3>2, <4>2
    <3> QED
      BY <3>1, <3>2
  <2> QED
    BY <2>1
<1> HIDE DEF N, cur
<1>5. Shorter = 0..2
  <2>1. ASSUME NEW k \in 0..N PROVE cur[k] < w.end <=> k <= 2
    <3>1. k \in Int /\ j + k \in Int /\ j + 3 \in Int
      BY <1>3
    <3>2. FirstDay(j + k) \in Int /\ FirstDay(j + 3) \in Int
      BY <3>1, MonthLength
    <3>3. CASE k <= 2
      <4>1. j + k < j + 3
        BY <3>1, <3>3
      <4>2. FirstDay(j + k) + 28 <= FirstDay(j + 3)
        BY <3>1, <4>1, MonthsRise
      <4> QED
        BY <1>2, <1>4, <3>2, <3>3, <4>2
    <3>4. CASE k = 3
      BY <1>2, <1>4, <3>2, <3>4
    <3>5. CASE k > 3
      <4>1. j + 3 < j + k
        BY <3>1, <3>5
      <4>2. FirstDay(j + 3) + 28 <= FirstDay(j + k)
        BY <3>1, <4>1, MonthsRise
      <4> QED
        BY <1>2, <1>4, <3>1, <3>2, <3>5, <4>2
    <3> QED
      BY <3>1, <3>3, <3>4, <3>5
  <2>2. Shorter = {k \in 0..N : k <= 2}
    BY <1>4, <2>1
  <2> QED
    BY <1>3, <2>2
<1>6. Cardinality(Shorter) = 3
  <2>1. Cardinality(0..2) = IF 0 > 2 THEN 0 ELSE 2 - 0 + 1
    BY FS_Interval, 0 \in Int, 2 \in Int
  <2> QED
    BY <1>5, <2>1
<1>7. ASSUME NEW i \in 1..3
      PROVE  month(i - 1) = [start |-> FirstDay(j + i - 1), end |-> FirstDay(j + i),
                             ticks |-> Mondays(FirstDay(j + i - 1), FirstDay(j + i))
                                         \ {FirstDay(j + i - 1)}]
  <2> DEFINE a == FirstDay(j + i - 1)
             b == FirstDay(j + i)
  <2>1. /\ i - 1 \in 0..N /\ i \in 0..N /\ j + (i - 1) = j + i - 1 /\ (i - 1) + 1 = i
        /\ j + i - 1 \in Int /\ j + i \in Int /\ j + 3 \in Int /\ (j + i - 1) + 1 = j + i
    BY <1>3
  <2>2. cur[i - 1] = a /\ cur[(i - 1) + 1] = b
    BY <1>4, <2>1
  <2>3. FirstDay(j + i - 1) \in Int /\ FirstDay((j + i - 1) + 1) - FirstDay(j + i - 1) \in 28..31
    BY <2>1, MonthLength
  <2>4. FirstDay(j + i) \in Int /\ FirstDay(j + 3) \in Int
    BY <2>1, MonthLength
  <2>5. b <= w.end
    <3>1. CASE i = 3
      BY <1>2, <2>4, <3>1
    <3>2. CASE i # 3
      <4>1. j + i < j + 3
        BY <2>1, <3>2
      <4>2. FirstDay(j + i) + 28 <= FirstDay(j + 3)
        BY <2>1, <4>1, MonthsRise
      <4> QED
        BY <1>2, <2>4, <4>2
    <3> QED
      BY <3>1, <3>2
  <2>6. a \in Int /\ b \in Int /\ b - a <= 31 /\ w.end \in Int /\ ~(b > w.end)
    BY <1>2, <2>1, <2>3, <2>4, <2>5
  <2> HIDE DEF a, b
  <2>7. {t \in {WeekStart(a) + 7 * n : n \in 0..5} : a < t /\ t < b} = Mondays(a, b) \ {a}
    BY <2>6, WeekLines
  <2>8. month(i - 1) =
          [start |-> a, end |-> b,
           ticks |-> {t \in {WeekStart(a) + 7 * n : n \in 0..5} : a < t /\ t < b}]
    BY <2>2, <2>6
  <2> QED
    BY <2>7, <2>8 DEF a, b
<1> HIDE DEF month, Shorter
<1> QED
  BY <1>1, <1>6, <1>7

-----------------------------------------------------------------------------
(* The bars.                                                               *)

\* EarlierStart as a set of pairs, and that it is a strict weak order.
Earlier == {ab \in Task \X Task : EarlierStart(ab[1], ab[2])}

LEMMA EarlierIsWeak == Weak(Earlier, Task)
<1>1. \A a, b \in Task : <<a, b>> \in Earlier <=> EarlierStart(a, b)
  BY DEF Earlier
<1>2. \A a \in Task : a.start \in Int /\ a.seq \in Int
  BY DEF Task
<1>3. \A a, b \in Task : EarlierStart(a, b) => ~EarlierStart(b, a)
  BY <1>2 DEF EarlierStart
<1>4. \A a, b, c \in Task : EarlierStart(a, b) => EarlierStart(a, c) \/ EarlierStart(c, b)
  BY <1>2 DEF EarlierStart
<1> QED
  BY <1>1, <1>3, <1>4 DEF Weak

\* Sorting by it keeps the dated tasks.
LEMMA DatedTasks ==
  ASSUME NEW ts \in Seq(Task)
  PROVE  /\ SortByStartDate(ts) \in Seq(Task)
         /\ Elems(SortByStartDate(ts)) = {t \in Elems(ts) : Dated(t)}
<1> DEFINE s == Keep(ts, {t \in Elems(ts) : Dated(t)})
<1>1. s \in Seq(Task) /\ Elems(s) = {t \in Elems(ts) : Dated(t)}
  <2>1. s \in Seq(Task) /\ Elems(s) = Elems(ts) \cap {t \in Elems(ts) : Dated(t)}
    BY KeepKeeps
  <2> QED
    BY <2>1
<1>2. SortByStartDate(ts) = SortStable(s, EarlierStart)
  BY DEF SortByStartDate
<1> HIDE DEF s
<1>3. \A i \in DOMAIN s : s[i] \in Task
  BY <1>1, LenProperties
<1>4. SortStable(s, EarlierStart) = Arrange(s, DOMAIN s, Stably(s, Earlier))
  <2>1. \A i, j \in DOMAIN s : <<s[i], s[j]>> \in Earlier <=> EarlierStart(s[i], s[j])
    BY <1>3 DEF Earlier
  <2>2. Stably(s, Earlier) =
          {ij \in (DOMAIN s) \X (DOMAIN s) :
             \/ EarlierStart(s[ij[1]], s[ij[2]])
             \/ ~EarlierStart(s[ij[2]], s[ij[1]]) /\ ij[1] < ij[2]}
    BY <2>1 DEF Stably
  <2> QED
    BY <2>2 DEF SortStable
<1> QED
  BY <1>1, <1>2, <1>4, SortSorts, EarlierIsWeak

\* The days of the task t in the window w.
DaysIn(w, t) ==
  IF Dated(t) THEN (w.start..(w.end - 1)) \cap (t.start..t.end) ELSE {}

\* A bar is drawn exactly when there are such days, and it covers them.
LEMMA BarIs ==
  ASSUME NEW w, w.start \in Int, w.end \in Int, w.start < w.end, NEW t \in Task
  PROVE  /\ Drawn(w, t) <=> DaysIn(w, t) # {}
         /\ Drawn(w, t) =>
              {w.start + n : n \in BarSpan(w, t).left
                                   ..(BarSpan(w, t).left + BarSpan(w, t).width - 1)}
                = DaysIn(w, t)
<1> DEFINE a == w.start
           b == w.end
           l == Fraction(t.start, w)
           r == Fraction(t.end + 1, w)
<1>1. a \in Int /\ b \in Int /\ a < b /\ t.start \in Int /\ t.end \in Int
  BY DEF Task
<1>2. BarSpan(w, t).left = l /\ BarSpan(w, t).width = r - l
  BY DEF BarSpan
<1>3. /\ l = IF t.start < a THEN 0 ELSE IF t.start > b THEN b - a ELSE t.start - a
      /\ r = IF t.end + 1 < a THEN 0 ELSE IF t.end + 1 > b THEN b - a ELSE t.end + 1 - a
  BY <1>1 DEF Fraction
<1>4. Drawn(w, t) <=> /\ Dated(t) /\ t.start <= t.end
                      /\ t.start < b /\ t.end + 1 > a /\ r - l > 0
  BY <1>2 DEF Drawn
<1>5. DaysIn(w, t) = IF Dated(t) THEN (a..(b - 1)) \cap (t.start..t.end) ELSE {}
  BY DEF DaysIn
<1> HIDE DEF a, b, l, r
<1>6. l \in Int /\ r \in Int
  BY <1>1, <1>3
<1>7. ASSUME Drawn(w, t)
      PROVE  /\ DaysIn(w, t) # {}
             /\ {a + n : n \in l..(l + (r - l) - 1)} = DaysIn(w, t)
  <2>1. /\ Dated(t) /\ t.start <= t.end /\ t.start < b /\ t.end + 1 > a
    BY <1>4, <1>7
  <2>2. DaysIn(w, t) = (a..(b - 1)) \cap (t.start..t.end)
    BY <1>5, <2>1
  <2>3. ASSUME NEW n \in l..(l + (r - l) - 1) PROVE a + n \in DaysIn(w, t)
    <3>1. n \in Int /\ l <= n /\ n < r
      BY <1>6
    <3>2. a + n \in Int /\ a <= a + n /\ a + n <= b - 1 /\ t.start <= a + n /\ a + n <= t.end
      BY <1>1, <1>3, <2>1, <3>1
    <3> QED
      BY <1>1, <2>2, <3>2
  <2>4. ASSUME NEW d \in DaysIn(w, t) PROVE \E n \in l..(l + (r - l) - 1) : d = a + n
    <3>1. d \in Int /\ a <= d /\ d <= b - 1 /\ t.start <= d /\ d <= t.end
      BY <1>1, <2>2
    <3>2. d - a \in l..(l + (r - l) - 1) /\ d = a + (d - a)
      BY <1>1, <1>3, <1>6, <3>1
    <3> QED
      BY <3>2
  <2>5. l \in l..(l + (r - l) - 1)
    BY <1>4, <1>6, <1>7
  <2> QED
    BY <2>3, <2>4, <2>5
<1>8. ASSUME NEW d \in DaysIn(w, t) PROVE Drawn(w, t)
  <2>1. Dated(t) /\ d \in (a..(b - 1)) \cap (t.start..t.end)
    BY <1>5
  <2>2. d \in Int /\ a <= d /\ d <= b - 1 /\ t.start <= d /\ d <= t.end
    BY <1>1, <2>1
  <2>3. t.start <= t.end /\ t.start < b /\ t.end + 1 > a /\ r - l > 0
    BY <1>1, <1>3, <2>2
  <2> QED
    BY <1>4, <2>1, <2>3
<1> QED
  BY <1>2, <1>7, <1>8 DEF a, l

\* The rows of the timeline.
LEMMA RowsAre ==
  ASSUME NEW ts \in Seq(Task), NEW w
  PROVE  Elems(TimelineRows(ts, w)) =
           {[task |-> t, bar |-> BarSpan(w, t)] : t \in {t \in Elems(ts) : Drawn(w, t)}}
<1> DEFINE s == SortByStartDate(ts)
           kept == Keep(s, {t \in Elems(ts) : Drawn(w, t)})
<1>1. s \in Seq(Task) /\ Elems(s) = {t \in Elems(ts) : Dated(t)}
  BY DatedTasks
<1>2. TimelineRows(ts, w) = [i \in DOMAIN kept |-> [task |-> kept[i], bar |-> BarSpan(w, kept[i])]]
  BY DEF TimelineRows
<1> HIDE DEF s
<1>3. Elems(kept) = Elems(s) \cap {t \in Elems(ts) : Drawn(w, t)}
  BY <1>1, KeepKeeps
<1>4. \A t : Drawn(w, t) => Dated(t)
  BY DEF Drawn
<1>5. Elems(kept) = {t \in Elems(ts) : Drawn(w, t)}
  BY <1>1, <1>3, <1>4
<1> HIDE DEF kept
<1>6. Elems(TimelineRows(ts, w)) = {[task |-> t, bar |-> BarSpan(w, t)] : t \in Elems(kept)}
  BY <1>2 DEF Elems
<1> QED
  BY <1>5, <1>6

-----------------------------------------------------------------------------
(* What the timeline shows.                                                *)

LEMMA WindowSpans ==
  ASSUME NEW d \in Nat, NEW n \in Int, NEW w, Window(w, d, n)
  PROVE  \E j \in Int : /\ j >= 12
                        /\ w = [start |-> FirstDay(j), end |-> FirstDay(j + 3)]
                        /\ FirstDay(j) \in Nat /\ FirstDay(j + 3) \in Nat
                        /\ FirstDay(j) + 84 <= FirstDay(j + 3)
<1>1. PICK k \in Int : /\ k + n >= 12
                       /\ w = [start |-> FirstDay(k + n),
                               end |-> FirstDay(k + n + DefaultTimelineMonths)]
  BY DEF Window
<1> DEFINE j == k + n
<1>2. j \in Int /\ j >= 12 /\ j + 3 \in Int /\ 3 \in Nat
  BY <1>1
<1>3. w = [start |-> FirstDay(j), end |-> FirstDay(j + 3)]
  BY <1>1 DEF DefaultTimelineMonths
<1> HIDE DEF j
<1>4. FirstDay(j) \in Int /\ FirstDay(j + 3) \in Int
  BY <1>2, MonthLength
<1>5. FirstDay(j) + 28 * 3 <= FirstDay(j + 3)
  BY <1>2, MonthsApart
<1>6. FirstDay(j) >= 0
  <2>1. 12 \in Int /\ j - 12 \in Nat /\ 12 + (j - 12) = j
    BY <1>2
  <2>2. FirstDay(12) + 28 * (j - 12) <= FirstDay(12 + (j - 12))
    BY <2>1, MonthsApart
  <2> QED
    BY <1>4, <2>1, <2>2, YearOne
<1> QED
  BY <1>2, <1>3, <1>4, <1>5, <1>6

LEMMA HeaderIsRight ==
  ASSUME NEW d \in Nat, NEW n \in Int, Window(window, d, n)
  PROVE  HeaderCovers
<1>1. PICK j \in Int : /\ j >= 12
                       /\ window = [start |-> FirstDay(j), end |-> FirstDay(j + 3)]
  BY WindowSpans
<1> DEFINE ms == MonthsInWindow(window)
           f(i) == FirstDay(j + i)
<1>2. ms = [i \in 1..3 |-> [start |-> FirstDay(j + i - 1), end |-> FirstDay(j + i),
                            ticks |-> Mondays(FirstDay(j + i - 1), FirstDay(j + i))
                                        \ {FirstDay(j + i - 1)}]]
  BY <1>1, HeaderIs
<1> HIDE DEF ms
<1>3. /\ f(0) \in Int /\ f(1) \in Int /\ f(2) \in Int /\ f(3) \in Int
      /\ f(0) < f(1) /\ f(1) < f(2) /\ f(2) < f(3)
  <2>1. /\ j + 0 \in Int /\ j + 1 \in Int /\ j + 2 \in Int /\ j + 3 \in Int
        /\ j + 0 < j + 1 /\ j + 1 < j + 2 /\ j + 2 < j + 3
    OBVIOUS
  <2>2. f(0) \in Int /\ f(1) \in Int /\ f(2) \in Int /\ f(3) \in Int
    BY <2>1, MonthLength
  <2>3. f(0) + 28 <= f(1) /\ f(1) + 28 <= f(2) /\ f(2) + 28 <= f(3)
    BY <2>1, MonthsRise
  <2> QED
    BY <2>2, <2>3
<1>4. /\ j + 1 - 1 = j + 0 /\ j + 2 - 1 = j + 1 /\ j + 3 - 1 = j + 2 /\ j + 0 = j
  OBVIOUS
<1>5. window.start = f(0) /\ window.end = f(3)
  BY <1>1, <1>4
<1>6. /\ ms[1] = [start |-> f(0), end |-> f(1), ticks |-> Mondays(f(0), f(1)) \ {f(0)}]
      /\ ms[2] = [start |-> f(1), end |-> f(2), ticks |-> Mondays(f(1), f(2)) \ {f(1)}]
      /\ ms[3] = [start |-> f(2), end |-> f(3), ticks |-> Mondays(f(2), f(3)) \ {f(2)}]
  BY <1>2, <1>4
<1>7. Len(ms) = 3 /\ DOMAIN ms = 1..3
  BY <1>2
<1> HIDE DEF f
<1>8. Elems(ms) = {ms[1], ms[2], ms[3]}
  <2>1. 1..3 = {1, 2, 3}
    OBVIOUS
  <2> QED
    BY <1>7, <2>1 DEF Elems
<1>9. UNION {m.ticks : m \in Elems(ms)} =
        {d_1 \in window.start..(window.end - 1) : d_1 % 7 = 0} \ {m.start : m \in Elems(ms)}
  <2>1. {m.start : m \in Elems(ms)} = {f(0), f(1), f(2)}
    BY <1>6, <1>8
  <2>2. UNION {m.ticks : m \in Elems(ms)} =
          (Mondays(f(0), f(1)) \ {f(0)}) \cup (Mondays(f(1), f(2)) \ {f(1)})
          \cup (Mondays(f(2), f(3)) \ {f(2)})
    BY <1>6, <1>8
  <2>3. {d_1 \in window.start..(window.end - 1) : d_1 % 7 = 0} = Mondays(f(0), f(3))
    BY <1>5 DEF Mondays
  <2>4. (Mondays(f(0), f(1)) \ {f(0)}) \cup (Mondays(f(1), f(2)) \ {f(1)})
          \cup (Mondays(f(2), f(3)) \ {f(2)})
        = Mondays(f(0), f(3)) \ {f(0), f(1), f(2)}
    BY <1>3 DEF Mondays
  <2> QED
    BY <2>1, <2>2, <2>3, <2>4
<1>10. \A i \in 1..(Len(ms) - 1) : ms[i].end = ms[i + 1].start
  <2>1. 1..(3 - 1) = {1, 2}
    OBVIOUS
  <2>2. ms[1].end = ms[1 + 1].start /\ ms[2].end = ms[2 + 1].start
    BY <1>6
  <2> QED
    BY <1>7, <2>1, <2>2
<1> QED
  BY <1>5, <1>6, <1>7, <1>9, <1>10 DEF HeaderCovers, ms, DefaultTimelineMonths

LEMMA BarsAreRight ==
  ASSUME snap \in Snapshots, NEW d \in Nat, NEW n \in Int, Window(window, d, n)
  PROVE  BarsCover
<1>1. window.start \in Int /\ window.end \in Int /\ window.start < window.end
  BY WindowSpans
<1>2. ProjectTasks \in Seq(Task)
  <2>1. snap.tasks \in Seq(Task)
    BY SnapshotFacts DEF Sound
  <2> DEFINE S == {t \in Elems(snap.tasks) : t.project = TimelineProject}
  <2>2. Keep(snap.tasks, S) \in Seq(Task)
    BY <2>1, KeepKeeps
  <2> QED
    BY <2>2 DEF ProjectTasks
<1> DEFINE ts == ProjectTasks
           rows == Elems(Rows)
           drawn == {t \in Elems(ts) : Drawn(window, t)}
<1>3. rows = {[task |-> t, bar |-> BarSpan(window, t)] : t \in drawn}
  BY <1>2, RowsAre DEF Rows
<1>4. \A t \in Elems(ts) : t \in Task
  BY <1>2, LenProperties DEF Elems
<1> HIDE DEF ts, rows
<1>a. \A t : t \in drawn <=> t \in Elems(ts) /\ Drawn(window, t)
  OBVIOUS
<1> HIDE DEF drawn
<1>5. \A t \in Elems(ts) :
        /\ Drawn(window, t) <=> DaysIn(window, t) # {}
        /\ Drawn(window, t) =>
             {window.start + m : m \in BarSpan(window, t).left
                                       ..(BarSpan(window, t).left + BarSpan(window, t).width - 1)}
               = DaysIn(window, t)
  BY <1>1, <1>4, BarIs
<1>6. {r.task : r \in rows} = {t \in Elems(ts) : DaysIn(window, t) # {}}
  <2>1. {r.task : r \in rows} = drawn
    <3>1. \A r \in rows : r.task \in drawn
      BY <1>3
    <3>2. ASSUME NEW t \in drawn PROVE \E r \in rows : r.task = t
      <4>1. [task |-> t, bar |-> BarSpan(window, t)] \in rows
        BY <1>3
      <4> QED
        BY <4>1
    <3> QED
      BY <3>1, <3>2
  <2> QED
    BY <1>5, <1>a, <2>1
<1>7. \A r \in rows :
        {window.start + m : m \in r.bar.left..(r.bar.left + r.bar.width - 1)}
          = DaysIn(window, r.task)
  BY <1>3, <1>5, <1>a
<1> QED
  BY <1>6, <1>7 DEF BarsCover, DaysIn, ts, rows

\* Once the timeline was shown, its window is whole months, as many away from the
\* day it was set for as the arrows were clicked; and that day is late enough for
\* every click.
TimelineInv ==
  /\ snap \in Snapshots /\ anchor \in Nat /\ net \in -MaxShift..MaxShift
  /\ tab = "timeline" => window # NoWindow
  /\ window # NoWindow => MaxShift < Civil(anchor).year /\ Window(window, anchor, net)

LEMMA ShiftBound == MaxShift \in Nat
BY PageAssumption

LEMMA LateEnough ==
  ASSUME NEW d \in Nat, MaxShift < Civil(d).year, NEW n \in -MaxShift..MaxShift
  PROVE  \A k \in Int : InMonth(d, k) => k + n >= 12
<1>1. SUFFICES ASSUME NEW k \in Int, InMonth(d, k) PROVE k + n >= 12
  OBVIOUS
<1>2. MaxShift \in Nat
  BY ShiftBound
<1>3. Civil(d).year = k \div 12
  <2>1. Civil(d) = [year |-> k \div 12, month |-> (k % 12) + 1, day |-> d - FirstDay(k) + 1]
    BY <1>1, CivilIs
  <2> QED
    BY <2>1
<1> QED
  BY <1>2, <1>3

LEMMA AWindow ==
  ASSUME NEW d \in Nat, NEW n \in Int, NEW w, Window(w, d, n)
  PROVE  w # NoWindow /\ w \in [start : Nat, end : Nat]
BY WindowSpans DEF NoWindow

LEMMA AnchoredStep ==
  ASSUME TimelineInv, Anchored
  PROVE  /\ anchor' \in Nat /\ net' \in -MaxShift..MaxShift /\ window' # NoWindow
         /\ MaxShift < Civil(anchor').year /\ Window(window', anchor', net')
<1>1. snap.today \in Nat /\ MaxShift < Civil(snap.today).year /\ MaxShift \in Nat
  BY SnapshotFacts DEF TimelineInv
<1>2. window' = DefaultWindow(snap.today) /\ anchor' = snap.today /\ net' = 0
  BY DEF Anchored
<1>3. Window(DefaultWindow(snap.today), snap.today, 0)
  BY <1>1, TodaysWindow
<1>4. 0 \in Int /\ 0 \in -MaxShift..MaxShift
  BY <1>1
<1>5. DefaultWindow(snap.today) # NoWindow
  BY <1>1, <1>3, <1>4, AWindow
<1> QED
  BY <1>1, <1>2, <1>3, <1>4, <1>5

LEMMA TimelineStep == TimelineInv /\ [Next]_vars => TimelineInv'
<1> SUFFICES ASSUME TimelineInv, [Next]_vars PROVE TimelineInv'
  OBVIOUS
<1>0. snap' \in Snapshots
  BY SnapStep DEF TimelineInv
<1> DEFINE Kept == UNCHANGED <<window, anchor, net>>
<1>1. CASE UNCHANGED tab /\ Kept
  BY <1>0, <1>1 DEF TimelineInv
<1>2. ASSUME NEW t, ShowTab(t) PROVE TimelineInv'
  <2>1. tab' = t /\ (IF t = "timeline" THEN Ensured ELSE Kept)
    BY <1>2 DEF ShowTab
  <2>2. CASE Anchored
    BY <1>0, <2>2, AnchoredStep DEF TimelineInv
  <2>3. CASE Kept /\ (t = "timeline" => window # NoWindow)
    BY <1>0, <2>1, <2>3 DEF TimelineInv
  <2> QED
    BY <2>1, <2>2, <2>3 DEF Ensured
<1>3. ASSUME NEW n \in {-1, 1}, Shift(n) PROVE TimelineInv'
  <2>1. /\ tab = "timeline" /\ net + n \in -MaxShift..MaxShift
        /\ window' = ShiftWindow(window, n) /\ net' = net + n /\ UNCHANGED <<tab, anchor>>
    BY <1>3 DEF Shift
  <2>2. /\ anchor \in Nat /\ net \in Int /\ n \in Int /\ net + n \in Int
        /\ MaxShift < Civil(anchor).year /\ Window(window, anchor, net)
    BY <2>1, ShiftBound DEF TimelineInv
  <2>3. \A k \in Int : InMonth(anchor, k) => k + (net + n) >= 12
    BY <2>1, <2>2, LateEnough
  <2>4. Window(ShiftWindow(window, n), anchor, net + n)
    BY <2>2, <2>3, ShiftedWindow
  <2>5. ShiftWindow(window, n) # NoWindow
    BY <2>2, <2>4, AWindow
  <2> QED
    BY <1>0, <2>1, <2>2, <2>4, <2>5 DEF TimelineInv
<1>4. CASE TimelineToday
  <2>1. Anchored
    BY <1>4 DEF TimelineToday
  <2> QED
    BY <1>0, <2>1, AnchoredStep DEF TimelineInv
<1>5. CASE Live
  BY <1>1, <1>5 DEF Live, ReloadState, ReloadFails, DetailArrives, DetailFails, place
<1>6. CASE \E ok \in BOOLEAN : Posted(ok)
  BY <1>1, <1>6 DEF Posted, place
<1>7. CASE User
  <2> USE DEF place
  <2>1. CASE \E id \in Ids : Select(id)
    BY <1>1, <2>1 DEF Select
  <2>2. CASE Close \/ ToggleNew
    BY <1>1, <2>2 DEF Close, ToggleNew
  <2>3. CASE \/ \E k \in Ids \cup {"title"} : Submit(k)
             \/ \E k \in Ids \cup {"title", "unmarked"}, text \in Texts : Type(k, text)
    BY <1>1, <2>3 DEF Submit, Type
  <2>4. CASE \E k \in DOMAIN Values : \E v \in Values[k] \cup {""} : SetFilter(k, v)
    BY <1>1, <2>4 DEF SetFilter
  <2>5. CASE \E v \in Values["query"] \cup {""} : TypeQuery(v)
    BY <1>1, <2>5 DEF TypeQuery
  <2>6. CASE ClearFilters
    BY <1>1, <2>6 DEF ClearFilters
  <2>7. CASE \E p \in Elems(snap.projects) : SetTimelineProject(p)
    BY <1>1, <2>7 DEF SetTimelineProject
  <2> QED
    BY <1>2, <1>3, <1>4, <1>7, <2>1, <2>2, <2>3, <2>4, <2>5, <2>6, <2>7 DEF User
<1>8. CASE UNCHANGED vars
  BY <1>1, <1>8 DEF vars, place
<1> QED
  BY <1>5, <1>6, <1>7, <1>8 DEF Next

LEMMA TimelineStarts == Init => TimelineInv
<1> SUFFICES ASSUME Init PROVE TimelineInv
  OBVIOUS
<1>1. snap \in Snapshots /\ tab # "timeline" /\ window = NoWindow /\ anchor = 0 /\ net = 0
  BY DEF Init
<1>2. 0 \in -MaxShift..MaxShift
  BY ShiftBound
<1> QED
  BY <1>1, <1>2 DEF TimelineInv

LEMMA TimelineIsRight == TimelineInv => TimelineShowsWindow
<1> SUFFICES ASSUME TimelineInv, tab = "timeline"
             PROVE  WholeMonths /\ HeaderCovers /\ BarsCover
  BY DEF TimelineShowsWindow
<1>1. snap \in Snapshots /\ anchor \in Nat /\ net \in Int /\ Window(window, anchor, net)
  BY ShiftBound DEF TimelineInv
<1>2. WholeMonths
  BY <1>1, WindowIsWhole DEF WholeMonths
<1>3. HeaderCovers /\ BarsCover
  BY <1>1, HeaderIsRight, BarsAreRight
<1> QED
  BY <1>2, <1>3

\* However the arrows are clicked, on whatever day the timeline is opened and
\* whatever the tasks are: three whole months, all their week lines, and one bar
\* over exactly the days of every task that has some in the window.
THEOREM TimelinesAreTrue == Spec => []TimelineShowsWindow
BY TimelineStarts, TimelineStep, TimelineIsRight, PTL DEF Spec

\* The variables of the page keep their types, and only elements that are shown
\* hold text.
THEOREM PageTypeCorrect == Spec => []TypeOK
<1> DEFINE Inv == FilterInv /\ DraftsInv /\ TimelineInv
<1>1. Init => Inv
  BY FilterStarts, DraftsStart, TimelineStarts
<1>2. Inv /\ [Next]_vars => Inv'
  BY FilterStep, DraftsStep, TimelineStep
<1>3. Inv => TypeOK
  <2> SUFFICES ASSUME Inv PROVE TypeOK
    OBVIOUS
  <2>1. window \in [start : Int, end : Int]
    <3>1. CASE window = NoWindow
      BY <3>1 DEF NoWindow
    <3>2. CASE window # NoWindow
      <4>1. anchor \in Nat /\ net \in Int /\ Window(window, anchor, net)
        BY <3>2, ShiftBound DEF TimelineInv
      <4>2. window \in [start : Nat, end : Nat]
        BY <4>1, AWindow
      <4> QED
        BY <4>2
    <3> QED
      BY <3>1, <3>2
  <2>2. DOMAIN filter = FilterFields
    BY DEF FilterInv, HasFields
  <2> QED
    BY <2>1, <2>2 DEF TypeOK, DraftsInv, TimelineInv
<1> QED
  BY <1>1, <1>2, <1>3, PTL DEF Spec

-----------------------------------------------------------------------------
(* The connection: module LiveUI.                                          *)

\* What will poke the loop once more, however the reload in progress ends.
HintBehind == handler = "subscribed" \/ chan > 0 \/ wire > 0 \/ refresh = 1

\* A good reply that waits to be shown is of the board as it is now, or behind it
\* comes a hint, if the page is attached.
Overtaken ==
  (At("gotState") /\ loop.status = "ok") =>
     handler = "none" \/ loop.reply.version = version \/ HintBehind

\* No reply comes from the future.
RepliesArePast == loop.reply.version <= version

LiveUIInv == LiveTypeOK /\ RepliesArePast /\ Overtaken /\ NeverSilentlyStale

-----------------------------------------------------------------------------
(* Types.                                                                  *)

LoopType == [at : {"wait", "state", "gotState", "detail", "gotDetail"},
             status : {"none", "ok", "401", "404", "lost"},
             reply : [task : Tasks \cup {NoTask}, version : Nat]]

\* The loop's next place, or its next request.
LEMMA LoopTypes ==
  ASSUME loop \in LoopType
  PROVE  /\ \A where \in {"wait", "state", "gotState", "detail", "gotDetail"} :
              Goto(where) => /\ loop' \in LoopType
                             /\ loop'.at = where /\ loop'.status = loop.status
                             /\ loop'.reply = loop.reply
         /\ \A where \in {"state", "detail"}, t \in Tasks \cup {NoTask} :
              Get(where, t) => /\ loop' \in LoopType
                               /\ loop'.at = where /\ loop'.reply.version = 0
BY DEF LoopType, Goto, Get, Reply

\* What every action keeps.
Basics == LiveTypeOK /\ RepliesArePast

\* A reload is begun, unless the page has stopped.
LEMMA ReloadType ==
  ASSUME Basics, reload
  PROVE  /\ loop' \in LoopType /\ loop'.reply.version <= version
         /\ stopped => loop' = loop
         /\ ~stopped => loop'.at = "state"
<1>1. loop \in LoopType /\ version \in Nat /\ loop.reply.version <= version
  BY DEF Basics, LiveTypeOK, RepliesArePast, LoopType
<1>2. CASE stopped
  BY <1>1, <1>2 DEF reload
<1>3. CASE ~stopped
  <2>1. Get("state", NoTask)
    BY <1>3 DEF reload
  <2>2. loop' \in LoopType /\ loop'.at = "state" /\ loop'.reply.version = 0
    BY <1>1, <2>1, LoopTypes
  <2> QED
    BY <1>1, <1>3, <2>2
<1> QED
  BY <1>2, <1>3

\* The server's answers and their absence have the type of an answer.
LEMMA AnswerType ==
  ASSUME Basics, AnswerState \/ AnswerDetail \/ Unanswered
  PROVE  /\ loop' \in LoopType /\ loop'.reply.version <= version
         /\ loop'.at = "gotState" => At("state")
         /\ (loop'.at = "gotState" /\ loop'.status = "ok") => loop'.reply.version = version
<1>1. loop \in LoopType /\ version \in Nat /\ loop.reply.version <= version
  BY DEF Basics, LiveTypeOK, RepliesArePast, LoopType
<1>2. CASE AnswerState
  BY <1>1, <1>2 DEF AnswerState, LoopType, Reply, At
<1>3. CASE AnswerDetail
  BY <1>1, <1>3 DEF AnswerDetail, LoopType, Reply, At
<1>4. CASE Unanswered
  <2>1. loop' = [loop EXCEPT !.at = IF At("state") THEN "gotState" ELSE "gotDetail",
                             !.status = "lost"]
    BY <1>4 DEF Unanswered
  <2> QED
    BY <1>1, <2>1 DEF LoopType, At
<1> QED
  BY <1>2, <1>3, <1>4

\* An answer, or none, to the request for the state.
LEMMA AnswerPlace ==
  ASSUME Basics, At("state"), AnswerState \/ AnswerDetail \/ Unanswered
  PROVE  loop'.at = "gotState"
<1>1. loop \in LoopType
  BY DEF Basics, LiveTypeOK, LoopType
<1>2. ~AnswerDetail
  BY DEF AnswerDetail, At
<1>3. CASE Unanswered
  <2>1. loop' = [loop EXCEPT !.at = "gotState", !.status = "lost"]
    BY <1>3 DEF Unanswered
  <2> QED
    BY <1>1, <2>1 DEF LoopType
<1>4. CASE AnswerState
  BY <1>4 DEF AnswerState
<1> QED
  BY <1>2, <1>3, <1>4

\* Showing the state: the loop goes on to the detail or to rest.
LEMMA ApplyType ==
  ASSUME Basics, ApplyState \/ ApplyDetail
  PROVE  /\ loop' \in LoopType /\ loop'.reply.version <= version
         /\ loop'.at \in {"wait", "detail"}
<1>1. loop \in LoopType /\ version \in Nat /\ loop.reply.version <= version
      /\ selectedTask \in Tasks \cup {NoTask}
  BY DEF Basics, LiveTypeOK, RepliesArePast, LoopType
<1>2. Goto("wait") \/ Get("detail", selectedTask)
  BY DEF ApplyState, ApplyDetail
<1>3. CASE Goto("wait")
  BY <1>1, <1>3, LoopTypes
<1>4. CASE Get("detail", selectedTask)
  <2>1. loop' \in LoopType /\ loop'.at = "detail" /\ loop'.reply.version = 0
    BY <1>1, <1>4, LoopTypes
  <2> QED
    BY <1>1, <2>1
<1> QED
  BY <1>2, <1>3, <1>4

\* Every step keeps the types, and no reply is ahead of the board.
LEMMA BasicsStep ==
  ASSUME Basics, [LiveNext]_liveVars
  PROVE  Basics'
<1>0. /\ version \in Nat /\ loop.reply.version \in Nat /\ loop.reply.version <= version
      /\ loop \in LoopType /\ NoTask \notin Tasks
      /\ Buffer \in Nat /\ Wire \in Nat /\ Buffer > 0
  BY LiveUIAssumption DEF Basics, LiveTypeOK, RepliesArePast, LoopType
<1> USE DEF Basics, board, stream, page, bounds, LoopType
<1>a. ASSUME version' \in Nat, version' >= version, UNCHANGED <<loop, snapVersion>>
      PROVE  snapVersion' \in 0..version' /\ loop'.reply.version <= version'
  BY <1>0, <1>a DEF LiveTypeOK
<1>b. ASSUME Publish PROVE chan' \in 0..Buffer
  BY <1>0, <1>b DEF Publish, LiveTypeOK
<1>1. CASE Change
  <2>1. snapVersion' \in 0..version' /\ loop'.reply.version <= version' /\ version' \in Nat
    BY <1>0, <1>1, <1>a DEF Change
  <2>2. chan' \in 0..Buffer
    BY <1>1, <1>b DEF Change
  <2> QED
    BY <1>1, <2>1, <2>2 DEF Change, LiveTypeOK, RepliesArePast
<1>2. CASE Subscribe \/ Hello \/ ForwardEvent \/ KeepAlive
  BY <1>0, <1>2 DEF Subscribe, Hello, ForwardEvent, KeepAlive, LiveTypeOK, RepliesArePast
<1>3. CASE Bye \/ Cut
  BY <1>0, <1>3 DEF Bye, Cut, LiveTypeOK, RepliesArePast
<1>4. CASE Hint \/ StreamError
  <2>1. live' \in BOOLEAN
    BY <1>4, Zenon DEF Hint, StreamError
  <2>2. wire' \in 0..Wire
    BY <1>0, <1>4 DEF Hint, StreamError, LiveTypeOK
  <2>3. es' \in {"connecting", "open", "closed"} /\ refresh' \in 0..1
    BY <1>4 DEF Hint, StreamError, poke, LiveTypeOK
  <2> QED
    BY <1>4, <2>1, <2>2, <2>3 DEF Hint, StreamError, LiveTypeOK, RepliesArePast
<1>5. CASE TakeRefresh \/ Poll
  <2>1. loop' \in LoopType /\ loop'.reply.version <= version
    BY <1>5, ReloadType DEF TakeRefresh, Poll
  <2> QED
    BY <1>5, <2>1 DEF TakeRefresh, Poll, LiveTypeOK, RepliesArePast
<1>6. CASE AnswerState \/ AnswerDetail \/ Unanswered
  <2>1. loop' \in LoopType /\ loop'.reply.version <= version
    BY <1>6, AnswerType
  <2> QED
    BY <1>6, <2>1 DEF AnswerState, AnswerDetail, Unanswered, LiveTypeOK, RepliesArePast
<1>7. CASE ApplyState
  <2>1. loop' \in LoopType /\ loop'.reply.version <= version
    BY <1>7, ApplyType
  <2>2. snapVersion' \in 0..version
    BY <1>0, <1>7 DEF ApplyState, LiveTypeOK
  <2>3. loadErr' \in BOOLEAN /\ needAuth' \in BOOLEAN
    BY <1>7 DEF ApplyState, LiveTypeOK
  <2> QED
    BY <1>7, <2>1, <2>2, <2>3 DEF ApplyState, LiveTypeOK, RepliesArePast
<1>8. CASE ApplyDetail
  <2>1. loop' \in LoopType /\ loop'.reply.version <= version
    BY <1>8, ApplyType
  <2>2. detailReply' \in [task : Tasks \cup {NoTask}, version : Nat]
        /\ selectedTask' \in Tasks \cup {NoTask}
    BY <1>0, <1>8 DEF ApplyDetail, LiveTypeOK, NoDetail, Reply
  <2> QED
    BY <1>8, <2>1, <2>2 DEF ApplyDetail, LiveTypeOK, RepliesArePast
<1>9. ASSUME NEW t \in Tasks, ClickSelect(t) PROVE Basics'
  BY <1>0, <1>9 DEF ClickSelect, Click, poke, NoDetail, Reply, LiveTypeOK, RepliesArePast
<1>10. CASE ClickClose
  BY <1>0, <1>10 DEF ClickClose, Click, NoDetail, Reply, LiveTypeOK, RepliesArePast
<1>11. CASE SubmitToken
  BY <1>0, <1>11 DEF SubmitToken, Click, connect, poke, LiveTypeOK, RepliesArePast
<1>12. ASSUME NEW kind \in {"act", "stop"}, Send(kind) PROVE Basics'
  BY <1>0, <1>12 DEF Send, Click, LiveTypeOK, RepliesArePast
<1>13. CASE Handle
  <2>a. version' \in {version, version + 1} /\ UNCHANGED <<loop, snapVersion>>
    BY <1>13, Zenon DEF Handle
  <2>1. version' \in Nat /\ version' >= version /\ UNCHANGED <<loop, snapVersion>>
    BY <1>0, <2>a
  <2>2. snapVersion' \in 0..version' /\ loop'.reply.version <= version'
    BY <1>a, <2>1
  <2>3. chan' \in 0..Buffer
    BY <1>13, <1>b DEF Handle, LiveTypeOK
  <2>4. up' \in BOOLEAN /\ post' \in {"none", "act", "acted", "stop", "stopped"}
    BY <1>13 DEF Handle, LiveTypeOK
  <2> QED
    BY <1>13, <2>1, <2>2, <2>3, <2>4 DEF Handle, LiveTypeOK, RepliesArePast
<1>14. CASE ActReturns
  BY <1>0, <1>14 DEF ActReturns, poke, LiveTypeOK, RepliesArePast
<1>15. CASE StopReturns
  <2>1. /\ stopped' \in BOOLEAN /\ es' \in {"connecting", "open", "closed"}
        /\ handler' \in {"none", "subscribed", "streaming"}
        /\ chan' \in 0..Buffer /\ wire' \in 0..Wire
    <3>1. CASE post = "stopped"
      <4>1. stopped' = TRUE /\ es' = "closed" /\ handler' = "none" /\ chan' = 0 /\ wire' = 0
        BY <1>15, <3>1, Zenon DEF StopReturns
      <4> QED
        BY <1>0, <4>1
    <3>2. CASE post # "stopped"
      <4>1. UNCHANGED <<stopped, es, handler, chan, wire>>
        BY <1>15, <3>2, Zenon DEF StopReturns
      <4> QED
        BY <4>1 DEF LiveTypeOK
    <3> QED
      BY <3>1, <3>2
  <2> QED
    BY <1>15, <2>1 DEF StopReturns, LiveTypeOK, RepliesArePast
<1>16. CASE ServerStops
  <2>1. up' \in BOOLEAN
    BY <1>16, Zenon DEF ServerStops
  <2> QED
    BY <1>0, <1>16, <2>1 DEF ServerStops, LiveTypeOK, RepliesArePast
<1>17. CASE ServerStarts
  <2>1. version' \in Nat /\ version' >= version /\ UNCHANGED <<loop, snapVersion>>
    BY <1>0, <1>17 DEF ServerStarts
  <2>2. snapVersion' \in 0..version' /\ loop'.reply.version <= version'
    BY <1>a, <2>1
  <2>3. token' \in BOOLEAN /\ tasks' \subseteq Tasks
    BY <1>17 DEF ServerStarts, LiveTypeOK
  <2> QED
    BY <1>17, <2>1, <2>2, <2>3 DEF ServerStarts, LiveTypeOK, RepliesArePast
<1>18. CASE UNCHANGED liveVars
  BY <1>18 DEF liveVars, LiveTypeOK, RepliesArePast
<1> QED
  BY <1>1, <1>2, <1>3, <1>4, <1>5, <1>6, <1>7, <1>8, <1>9, <1>10, <1>11, <1>12, <1>13,
     <1>14, <1>15, <1>16, <1>17, <1>18 DEF LiveNext

\* In the first state the page is about to fetch the state.
LEMMA LiveUIStarts == LiveInit => LiveUIInv
<1> SUFFICES ASSUME LiveInit PROVE LiveUIInv
  OBVIOUS
<1>1. /\ NoTask \notin Tasks /\ Buffer \in Nat /\ Wire \in Nat
      /\ NoDetail \in [task : Tasks \cup {NoTask}, version : Nat]
      /\ loop.at = "wait" /\ loop.reply = NoDetail /\ NoDetail.version = 0
  BY LiveUIAssumption DEF LiveInit, NoDetail, Reply
<1>2. loop \in LoopType
  BY <1>1 DEF LiveInit, LoopType
<1>a. /\ up \in BOOLEAN /\ token \in BOOLEAN /\ live \in BOOLEAN
      /\ loadErr \in BOOLEAN /\ needAuth \in BOOLEAN /\ stopped \in BOOLEAN
  BY Zenon DEF LiveInit
<1>b. /\ version = 1 /\ tasks = Tasks /\ handler = "none" /\ chan = 0 /\ wire = 0
      /\ es = "connecting" /\ refresh = 1 /\ snapVersion = 0
      /\ selectedTask = NoTask /\ detailReply = NoDetail
      /\ post = "none" /\ faults = 0 /\ clicks = 0
  BY Zenon DEF LiveInit
<1>3. LiveTypeOK
  BY <1>1, <1>2, <1>a, <1>b DEF LiveTypeOK, LoopType
<1>4. RepliesArePast
  BY <1>1 DEF LiveInit, RepliesArePast
<1> QED
  BY <1>1, <1>3, <1>4 DEF LiveInit, LiveUIInv, Overtaken, NeverSilentlyStale, HintPending, At

\* The types hold for any tasks, buffers, changes, faults and clicks.
THEOREM LiveUITypeCorrect == LiveSpec => []LiveTypeOK
<1>1. LiveInit => Basics
  BY LiveUIStarts DEF LiveUIInv, Basics
<1>2. Basics /\ [LiveNext]_liveVars => Basics'
  BY BasicsStep
<1>3. Basics => LiveTypeOK
  BY DEF Basics
<1> QED
  BY <1>1, <1>2, <1>3, PTL DEF LiveSpec

-----------------------------------------------------------------------------
(* Hints.                                                                  *)

\* The two parts that speak of hints.
Hinted == Overtaken /\ NeverSilentlyStale

\* A change of the board leaves an event in the channel, if there is one: what is
\* dropped because the channel is full leaves the events that fill it.
LEMMA ChangesHint ==
  ASSUME Basics, Publish, handler' = handler
  PROVE  handler' = "none" \/ chan' > 0
BY LiveUIAssumption DEF Basics, LiveTypeOK, Publish

\* A step that keeps the loop, what the page shows and the board, and takes no
\* hint away while the page is attached, keeps both parts.
LEMMA HintsKept ==
  ASSUME Hinted, UNCHANGED <<version, loop, snapVersion, loadErr>>, stopped => stopped',
         handler' # "none" => HintBehind' \/ (handler # "none" /\ ~HintBehind)
  PROVE  Hinted'
<1>1. At("state")' = At("state") /\ At("gotState")' = At("gotState")
      /\ loop'.status = loop.status /\ loop'.reply = loop.reply
  BY DEF At
<1>2. HintPending <=>
             \/ HintBehind \/ At("state")
             \/ (At("gotState") /\ (loop.status # "ok" \/ loop.reply.version = version))
  BY DEF HintPending, HintBehind
<1>3. HintPending' <=>
             \/ HintBehind' \/ At("state")'
             \/ (At("gotState")' /\ (loop'.status # "ok" \/ loop'.reply.version = version'))
  BY DEF HintPending, HintBehind
<1> QED
  BY <1>1, <1>2, <1>3 DEF Hinted, Overtaken, NeverSilentlyStale

\* With a hint behind, or without a stream, there is nothing to show.
LEMMA HintBehindSuffices ==
  ASSUME handler' = "none" \/ HintBehind'
  PROVE  Hinted'
BY DEF Hinted, Overtaken, NeverSilentlyStale, HintPending, HintBehind

\* Every step keeps a hint on its way to a page that is out of date.
LEMMA HintStep ==
  ASSUME Basics, Hinted, [LiveNext]_liveVars
  PROVE  Hinted'
<1>0. /\ version \in Nat /\ chan \in Nat /\ wire \in Nat
      /\ handler \in {"none", "subscribed", "streaming"} /\ stopped \in BOOLEAN
  BY LiveUIAssumption DEF Basics, LiveTypeOK
<1>1. CASE Change
  BY <1>1, ChangesHint, HintBehindSuffices DEF Change, HintBehind
<1>2. CASE Subscribe \/ Hello \/ ForwardEvent \/ KeepAlive
  <2>1. HintBehind'
    BY <1>0, <1>2 DEF Subscribe, Hello, ForwardEvent, KeepAlive, HintBehind
  <2> QED
    BY <2>1, HintBehindSuffices
<1>3. CASE Bye \/ Cut \/ StreamError
  <2>1. handler' = "none"
    BY <1>3 DEF Bye, Cut, StreamError
  <2> QED
    BY <2>1, HintBehindSuffices
<1>4. CASE Hint \/ ActReturns \/ SubmitToken \/ \E t \in Tasks : ClickSelect(t)
  <2>1. refresh' = 1
    BY <1>4 DEF Hint, ActReturns, SubmitToken, ClickSelect, poke
  <2> QED
    BY <2>1, HintBehindSuffices DEF HintBehind
<1>5. CASE TakeRefresh \/ Poll
  <2>1. At("wait") /\ reload /\ UNCHANGED <<version, handler, stopped>>
    BY <1>5 DEF TakeRefresh, Poll, board, stream, page
  <2>2. CASE stopped
    BY <2>1, <2>2, ReloadType DEF Hinted, Overtaken, NeverSilentlyStale, At
  <2>3. CASE ~stopped
    BY <2>1, <2>3, ReloadType DEF Hinted, Overtaken, NeverSilentlyStale, HintPending, At
  <2> QED
    BY <2>2, <2>3
<1>6. CASE AnswerState \/ AnswerDetail \/ Unanswered
  <2>1. UNCHANGED <<version, handler, chan, wire, refresh, snapVersion, loadErr, stopped>>
    BY <1>6 DEF AnswerState, AnswerDetail, Unanswered, board, stream, page
  <2>2. (loop'.at = "gotState" /\ loop'.status = "ok") => loop'.reply.version = version
    BY <1>6, AnswerType
  <2>3. Overtaken'
    BY <2>1, <2>2 DEF Overtaken, At
  <2>4. At("state") => loop'.at = "gotState"
    BY <1>6, AnswerPlace
  <2>5. ~At("gotState")
    BY <1>6 DEF AnswerState, AnswerDetail, Unanswered, At
  <2>6. HintPending => HintPending'
    BY <2>1, <2>2, <2>4, <2>5 DEF HintPending, At
  <2> QED
    BY <2>1, <2>3, <2>6 DEF Hinted, NeverSilentlyStale
<1>7. CASE ApplyState
  <2>1. At("gotState") /\ UNCHANGED <<version, handler, chan, wire, refresh, stopped>>
    BY <1>7 DEF ApplyState, board, stream
  <2>2. loop'.at \in {"wait", "detail"}
    BY <1>7, ApplyType
  <2>3. Overtaken'
    BY <2>2 DEF Overtaken, At
  <2>4. CASE loop.status = "ok"
    <3>1. snapVersion' = loop.reply.version
      BY <1>7, <2>4 DEF ApplyState
    <3>2. handler = "none" \/ snapVersion' = version \/ HintBehind
      BY <2>1, <2>4, <3>1 DEF Hinted, Overtaken
    <3> QED
      BY <2>1, <2>3, <3>2 DEF Hinted, NeverSilentlyStale, HintPending, HintBehind
  <2>5. CASE loop.status # "ok"
    <3>1. loadErr' = TRUE
      BY <1>7, <2>5 DEF ApplyState
    <3> QED
      BY <2>3, <3>1 DEF Hinted, NeverSilentlyStale
  <2> QED
    BY <2>4, <2>5
<1>8. CASE ApplyDetail
  <2>1. /\ At("gotDetail")
        /\ UNCHANGED <<version, handler, chan, wire, refresh, snapVersion, loadErr, stopped>>
    BY <1>8 DEF ApplyDetail, board, stream
  <2>2. loop'.at \in {"wait", "detail"}
    BY <1>8, ApplyType
  <2> QED
    BY <2>1, <2>2 DEF Hinted, Overtaken, NeverSilentlyStale, HintPending, At
<1>9. CASE ClickClose \/ ServerStops \/ \E kind \in {"act", "stop"} : Send(kind)
  <2>1. UNCHANGED <<version, loop, snapVersion, loadErr, stopped, handler, chan, wire, refresh>>
    BY <1>9 DEF ClickClose, ServerStops, Send, board, stream, page
  <2> QED
    BY <2>1, HintsKept DEF HintBehind
<1>10. CASE Handle
  <2>1. UNCHANGED <<handler, wire, refresh, loop, snapVersion, loadErr, stopped>>
    BY <1>10 DEF Handle, page
  <2>2. CASE Publish
    BY <2>1, <2>2, ChangesHint, HintBehindSuffices DEF HintBehind
  <2>3. CASE UNCHANGED <<version, chan>>
    BY <2>1, <2>3, HintsKept DEF HintBehind
  <2> QED
    BY <1>10, <2>2, <2>3 DEF Handle
<1>11. CASE StopReturns
  <2>1. UNCHANGED <<version, loop, snapVersion, loadErr, refresh>>
    BY <1>11 DEF StopReturns, board
  <2>2. CASE post = "stopped"
    BY <1>11, <2>2, HintBehindSuffices DEF StopReturns
  <2>3. CASE post # "stopped"
    <3>1. UNCHANGED <<stopped, handler, chan, wire>>
      BY <1>11, <2>3 DEF StopReturns
    <3> QED
      BY <2>1, <3>1, HintsKept DEF HintBehind
  <2> QED
    BY <2>2, <2>3
<1>12. CASE ServerStarts
  BY <1>12, HintBehindSuffices DEF ServerStarts, stream
<1>13. CASE UNCHANGED liveVars
  <2>1. UNCHANGED <<version, loop, snapVersion, loadErr, stopped, handler, chan, wire, refresh>>
    BY <1>13 DEF liveVars, board, stream, page
  <2> QED
    BY <2>1, HintsKept DEF HintBehind
<1> QED
  BY <1>1, <1>2, <1>3, <1>4, <1>5, <1>6, <1>7, <1>8, <1>9, <1>10, <1>11, <1>12,
     <1>13 DEF LiveNext

\* A page that is attached to the stream and shows no error never shows an old
\* board with nothing on its way that would make it look again, whatever the size
\* of the channel and of the connection and wherever the stream breaks.
THEOREM AttachedPagesAreTold == LiveSpec => []NeverSilentlyStale
<1>1. LiveInit => LiveUIInv
  BY LiveUIStarts
<1>2. LiveUIInv /\ [LiveNext]_liveVars => LiveUIInv'
  BY BasicsStep, HintStep DEF LiveUIInv, Basics, Hinted
<1>3. LiveUIInv => NeverSilentlyStale
  BY DEF LiveUIInv
<1> QED
  BY <1>1, <1>2, <1>3, PTL DEF LiveSpec
=============================================================================
