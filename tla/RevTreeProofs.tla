--------------------------- MODULE RevTreeProofs ----------------------------
(***************************************************************************)
(* Lemmas about revision trees: the order of revision identifiers, the     *)
(* winner, what getHistory returns and how deep a revision is.  They are   *)
(* used by the proofs about documents and about pushes.                    *)
(***************************************************************************)
EXTENDS RevTree, WellFoundedInduction, SequenceTheorems, FiniteSetTheorems, TLAPS

----------------------------------------------------------------------------
(* Least and greatest.                                                     *)

(* A set of numbers that is not empty has a least element.                 *)
LEMMA LeastExists ==
    ASSUME NEW T, T \subseteq Nat, T # {}
    PROVE  \E x \in T : \A y \in T : x <= y
<1> DEFINE R == OpToRel(<, Nat)
<1>1. IsWellFoundedOn(R, Nat)
  BY NatLessThanWellFounded
<1>2. PICK x \in T : \A y \in T : ~ (<<y, x>> \in R)
  <2> HIDE DEF R
  <2> QED
    BY <1>1, WFMin
<1>3. ASSUME NEW y \in T PROVE x <= y
  <2>1. ~ (y < x)
    BY <1>2 DEF OpToRel
  <2>2. x \in Nat /\ y \in Nat
    OBVIOUS
  <2> QED
    BY <2>1, <2>2
<1> QED
  BY <1>3

(* Max picks the greatest of a bounded set of numbers.                     *)
LEMMA GreatestExists ==
    ASSUME NEW T, NEW b \in Nat, T \subseteq 0..b, T # {}
    PROVE  Max(T) \in T /\ \A y \in T : y <= Max(T)
<1> DEFINE U == {b - y : y \in T}
<1>1. b \in Nat
  OBVIOUS
<1>2. U \subseteq Nat /\ U # {}
  <2>1. \A y \in T : y \in Int /\ 0 <= y /\ y <= b
    BY <1>1
  <2>2. \A y \in T : b - y \in Nat
    BY <1>1, <2>1
  <2>3. PICK y \in T : TRUE
    OBVIOUS
  <2>4. b - y \in U
    OBVIOUS
  <2> QED
    BY <2>2, <2>4
<1>3. PICK u \in U : \A v \in U : u <= v
  <2> HIDE DEF U
  <2> QED
    BY <1>2, LeastExists
<1>4. PICK x \in T : u = b - x
  OBVIOUS
<1>5. ASSUME NEW y \in T PROVE x >= y
  <2>1. b - y \in U
    OBVIOUS
  <2>2. u <= b - y
    BY <1>3, <2>1
  <2>3. x \in Int /\ y \in Int
    BY <1>1
  <2> QED
    BY <1>1, <1>4, <2>2, <2>3
<1>6. \E z \in T : \A y \in T : z >= y
  BY <1>5
<1>7. Max(T) \in T /\ \A y \in T : Max(T) >= y
  BY <1>6, Zenon DEF Max
<1> QED
  BY <1>1, <1>7

(* Min picks the least of a set of numbers.                                *)
LEMMA MinIsLeast ==
    ASSUME NEW T, T \subseteq Nat, T # {}
    PROVE  Min(T) \in T /\ \A y \in T : Min(T) <= y
<1>1. \E x \in T : \A y \in T : x <= y
  BY LeastExists
<1> QED
  BY <1>1, Zenon DEF Min

----------------------------------------------------------------------------
(* Revision identifiers and their order.                                   *)

RevIds == Seq(Nat)

(* The first n bodies of a revision: its ancestor of generation n.         *)
Prefix(r, n) == SubSeq(r, 1, n)

(* What an ancestor of a revision is.                                      *)
LEMMA PrefixFacts ==
    ASSUME NEW r \in RevIds, NEW n \in 0..Len(r)
    PROVE  /\ Prefix(r, n) \in RevIds /\ Len(Prefix(r, n)) = n
           /\ \A i \in 1..n : Prefix(r, n)[i] = r[i]
<1>1. Len(r) \in Nat /\ \A i \in 1..Len(r) : r[i] \in Nat
  BY LenProperties, ElementOfSeq DEF RevIds
<1>2. n \in Int /\ 1 \in Int /\ \A i \in 1..n : r[i] \in Nat
  BY <1>1
<1>3. /\ SubSeq(r, 1, n) \in Seq(Nat)
      /\ Len(SubSeq(r, 1, n)) = IF 1 <= n THEN n - 1 + 1 ELSE 0
      /\ \A i \in 1..(n - 1 + 1) : SubSeq(r, 1, n)[i] = r[1 + i - 1]
  BY <1>2, SubSeqProperties
<1> QED
  BY <1>1, <1>3 DEF Prefix, RevIds

(* Two revisions of a generation with the same bodies are the same.        *)
LEMMA SameRev ==
    ASSUME NEW r \in RevIds, NEW s \in RevIds, Len(r) = Len(s),
           \A i \in 1..Len(r) : r[i] = s[i]
    PROVE  r = s
BY SeqEqual DEF RevIds

(* Ancestors of ancestors, and the parent of a revision.                   *)
LEMMA PrefixOf ==
    ASSUME NEW r \in RevIds, NEW n \in 0..Len(r)
    PROVE  /\ \A k \in 0..n : Prefix(Prefix(r, n), k) = Prefix(r, k)
           /\ n > 0 => Front(Prefix(r, n)) = Prefix(r, n - 1)
           /\ n = Len(r) => Prefix(r, n) = r
           /\ n = 0 => Prefix(r, n) = NoRev
<1>1. Len(r) \in Nat /\ n \in Nat
  BY LenProperties DEF RevIds
<1>2. /\ Prefix(r, n) \in RevIds /\ Len(Prefix(r, n)) = n
      /\ \A i \in 1..n : Prefix(r, n)[i] = r[i]
  BY PrefixFacts
<1>3. ASSUME NEW k \in 0..n PROVE Prefix(Prefix(r, n), k) = Prefix(r, k)
  <2>1. k \in 0..Len(r) /\ k \in 0..Len(Prefix(r, n))
    BY <1>1, <1>2
  <2>2. /\ Prefix(r, k) \in RevIds /\ Len(Prefix(r, k)) = k
        /\ \A i \in 1..k : Prefix(r, k)[i] = r[i]
    BY <2>1, PrefixFacts
  <2>3. /\ Prefix(Prefix(r, n), k) \in RevIds /\ Len(Prefix(Prefix(r, n), k)) = k
        /\ \A i \in 1..k : Prefix(Prefix(r, n), k)[i] = Prefix(r, n)[i]
    BY <1>2, <2>1, PrefixFacts
  <2>4. \A i \in 1..k : Prefix(Prefix(r, n), k)[i] = Prefix(r, k)[i]
    BY <1>1, <1>2, <2>2, <2>3
  <2> QED
    BY <2>2, <2>3, <2>4, SameRev
<1>4. n > 0 => Front(Prefix(r, n)) = Prefix(r, n - 1)
  <2>1. Front(Prefix(r, n)) = Prefix(Prefix(r, n), n - 1)
    BY <1>2 DEF Front, Prefix
  <2>2. n > 0 => n - 1 \in 0..n
    BY <1>1
  <2> QED
    BY <1>3, <2>1, <2>2
<1>5. n = Len(r) => Prefix(r, n) = r
  BY <1>2, SameRev
<1>6. n = 0 => Prefix(r, n) = NoRev
  BY <1>2, EmptySeq DEF NoRev, RevIds
<1> QED
  BY <1>3, <1>4, <1>5, <1>6

(* compareRevIDs orders the revisions, and strictly.                       *)
LEMMA GreaterTotal ==
    ASSUME NEW r \in RevIds, NEW s \in RevIds, r # s
    PROVE  Greater(r, s) \/ Greater(s, r)
<1>1. /\ Len(r) \in Nat /\ Len(s) \in Nat
      /\ \A i \in 1..Len(r) : r[i] \in Nat
      /\ \A i \in 1..Len(s) : s[i] \in Nat
  BY LenProperties, ElementOfSeq DEF RevIds
<1>2. CASE Len(r) # Len(s)
  BY <1>1, <1>2 DEF Greater, Generation
<1>3. CASE Len(r) = Len(s)
  <2> DEFINE T == {i \in 1..Len(r) : r[i] # s[i]}
  <2>1. T \subseteq Nat /\ T # {}
    <3>1. T \subseteq Nat
      BY <1>1
    <3>2. T # {}
      <4> SUFFICES ASSUME T = {} PROVE FALSE
        OBVIOUS
      <4>1. \A i \in 1..Len(r) : r[i] = s[i]
        OBVIOUS
      <4>2. r = s
        <5> HIDE DEF T
        <5> QED
          BY <1>3, <4>1, SameRev
      <4> QED
        BY <4>2
    <3> QED
      BY <3>1, <3>2
  <2>2. PICK i \in T : \A j \in T : i <= j
    <3> HIDE DEF T
    <3> QED
      BY <2>1, LeastExists
  <2>3. i \in 1..Len(r) /\ i \in 1..Len(s) /\ r[i] \in Nat /\ s[i] \in Nat /\ r[i] # s[i]
    BY <1>1, <1>3
  <2>4. \A j \in 1..(i - 1) : r[j] = s[j]
    <3> TAKE j \in 1..(i - 1)
    <3>1. j \in 1..Len(r) /\ j < i /\ j \in Nat /\ i \in Nat
      BY <1>1, <2>3
    <3>2. j \notin T
      BY <2>2, <3>1
    <3> QED
      BY <3>1, <3>2
  <2>5. r[i] > s[i] \/ s[i] > r[i]
    BY <2>3
  <2>6. \A j \in 1..(i - 1) : s[j] = r[j]
    BY <2>4
  <2> QED
    BY <1>3, <2>3, <2>4, <2>5, <2>6 DEF Greater, Generation
<1> QED
  BY <1>2, <1>3

(* The order of revisions is transitive.                                   *)
LEMMA GreaterTransitive ==
    ASSUME NEW r \in RevIds, NEW s \in RevIds, NEW t \in RevIds, Greater(r, s), Greater(s, t)
    PROVE  Greater(r, t)
<1>1. /\ Len(r) \in Nat /\ Len(s) \in Nat /\ Len(t) \in Nat
      /\ \A i \in 1..Len(r) : r[i] \in Nat
      /\ \A i \in 1..Len(s) : s[i] \in Nat
      /\ \A i \in 1..Len(t) : t[i] \in Nat
  BY LenProperties, ElementOfSeq DEF RevIds
<1>2. Len(r) >= Len(s) /\ Len(s) >= Len(t)
  BY <1>1 DEF Greater, Generation
<1>3. CASE Len(r) > Len(s) \/ Len(s) > Len(t)
  <2>1. Len(r) > Len(t)
    BY <1>1, <1>2, <1>3
  <2> QED
    BY <2>1 DEF Greater, Generation
<1>4. CASE Len(r) = Len(s) /\ Len(s) = Len(t)
  <2>1. PICK i \in 1..Len(r) : r[i] > s[i] /\ \A j \in 1..(i - 1) : r[j] = s[j]
    BY <1>1, <1>4 DEF Greater, Generation
  <2>2. PICK k \in 1..Len(s) : s[k] > t[k] /\ \A j \in 1..(k - 1) : s[j] = t[j]
    BY <1>1, <1>4 DEF Greater, Generation
  <2>3. /\ i \in Nat /\ k \in Nat /\ i >= 1 /\ k >= 1 /\ i \in 1..Len(r) /\ k \in 1..Len(r)
        /\ r[i] \in Nat /\ s[i] \in Nat /\ t[i] \in Nat
        /\ r[k] \in Nat /\ s[k] \in Nat /\ t[k] \in Nat
    BY <1>1, <1>4
  <2>4. CASE i <= k
    <3>1. r[i] > t[i]
      <4>1. CASE i = k
        BY <2>1, <2>2, <2>3, <4>1
      <4>2. CASE i < k
        <5>1. i \in 1..(k - 1)
          BY <2>3, <4>2
        <5>2. s[i] = t[i]
          BY <2>2, <5>1
        <5> QED
          BY <2>1, <5>2
      <4> QED
        BY <2>3, <2>4, <4>1, <4>2
    <3>2. \A j \in 1..(i - 1) : r[j] = t[j]
      <4> TAKE j \in 1..(i - 1)
      <4>1. j \in 1..(k - 1)
        BY <2>3, <2>4
      <4> QED
        BY <2>1, <2>2, <4>1
    <3> QED
      BY <1>4, <3>1, <3>2 DEF Greater, Generation
  <2>5. CASE k < i
    <3>1. r[k] = s[k]
      <4>1. k \in 1..(i - 1)
        BY <2>3, <2>5
      <4> QED
        BY <2>1, <4>1
    <3>2. r[k] > t[k]
      BY <2>2, <3>1
    <3>3. \A j \in 1..(k - 1) : r[j] = t[j]
      <4> TAKE j \in 1..(k - 1)
      <4>1. j \in 1..(i - 1)
        BY <2>3, <2>5
      <4> QED
        BY <2>1, <2>2, <4>1
    <3> QED
      BY <1>4, <2>3, <3>2, <3>3 DEF Greater, Generation
  <2> QED
    BY <2>3, <2>4, <2>5
<1> QED
  BY <1>1, <1>2, <1>3, <1>4

(* w wins among the revisions T.                                           *)
Wins(w, T) == w \in T /\ \A r \in T \ {w} : Greater(w, r)

(* Among finitely many revisions one wins: a smallest set in which none    *)
(* does would have a winner without one of its elements.                   *)
LEMMA WinnerExists ==
    ASSUME NEW T, T \subseteq RevIds, IsFiniteSet(T), T # {}
    PROVE  \E w \in T : Wins(w, T)
<1> DEFINE Bad(U) == U \subseteq RevIds /\ IsFiniteSet(U) /\ U # {} /\ ~\E w \in U : Wins(w, U)
           N == {n \in Nat : \E U \in SUBSET T : Bad(U) /\ Cardinality(U) = n}
<1> SUFFICES ASSUME ~\E w \in T : Wins(w, T) PROVE FALSE
  OBVIOUS
<1>1. Cardinality(T) \in N
  <2>1. Cardinality(T) \in Nat
    BY FS_CardinalityType
  <2> QED
    BY <2>1
<1>2. N \subseteq Nat /\ N # {}
  BY <1>1
<1>3. PICK n \in N : \A k \in N : n <= k
  <2> HIDE DEF N
  <2> QED
    BY <1>2, LeastExists
<1>4. PICK U \in SUBSET T : Bad(U) /\ Cardinality(U) = n
  OBVIOUS
<1>5. PICK t \in U : TRUE
  BY <1>4
<1> DEFINE V == U \ {t}
<1>6. /\ IsFiniteSet(V) /\ Cardinality(V) = n - 1 /\ n \in Nat /\ Cardinality(V) \in Nat
  <2>1. IsFiniteSet(U)
    BY <1>4
  <2>2. IsFiniteSet(U \ {t}) /\ Cardinality(U \ {t}) = Cardinality(U) - 1
    BY <1>5, <2>1, FS_RemoveElement
  <2>3. Cardinality(U \ {t}) \in Nat /\ n \in Nat
    BY <2>2, FS_CardinalityType
  <2> QED
    BY <1>4, <2>2, <2>3
<1>7. CASE V = {}
  <2>1. Wins(t, U)
    BY <1>5, <1>7 DEF Wins
  <2> QED
    BY <1>4, <1>5, <2>1
<1>8. CASE V # {}
  <2>1. ~Bad(V)
    <3>1. n - 1 \notin N
      BY <1>3, <1>6
    <3>2. V \in SUBSET T
      BY <1>4
    <3> HIDE DEF V, Bad
    <3> QED
      BY <1>6, <3>1, <3>2
  <2>2. PICK w \in V : Wins(w, V)
    <3>1. V \subseteq RevIds
      BY <1>4
    <3> HIDE DEF V
    <3> QED
      BY <1>6, <1>8, <2>1, <3>1
  <2>3. w \in RevIds /\ t \in RevIds /\ w # t /\ U \subseteq RevIds
    BY <1>4, <1>5
  <2>4. CASE Greater(w, t)
    <3>1. Wins(w, U)
      BY <2>2, <2>4 DEF Wins
    <3> QED
      BY <1>4, <2>2, <3>1
  <2>5. CASE Greater(t, w)
    <3>1. ASSUME NEW r \in U \ {t} PROVE Greater(t, r)
      <4>1. CASE r = w
        BY <2>5, <4>1
      <4>2. CASE r # w
        <5>1. Greater(w, r)
          BY <2>2, <3>1, <4>2 DEF Wins
        <5>2. r \in RevIds
          BY <2>3
        <5> QED
          BY <2>3, <2>5, <5>1, <5>2, GreaterTransitive
      <4> QED
        BY <4>1, <4>2
    <3>2. Wins(t, U)
      BY <1>5, <3>1 DEF Wins
    <3> QED
      BY <1>4, <1>5, <3>2
  <2> QED
    BY <2>3, <2>4, <2>5, GreaterTotal
<1> QED
  BY <1>7, <1>8

----------------------------------------------------------------------------
(* Revision trees.                                                         *)

(* Revisions with their parents.  A revision whose parent is not known or  *)
(* was pruned is a root.                                                   *)
Forest(t) ==
    /\ t = [r \in DOMAIN t |-> t[r]]
    /\ DOMAIN t \subseteq RevIds \ {NoRev} /\ IsFiniteSet(DOMAIN t)
    /\ \A r \in DOMAIN t : /\ t[r].parent \in {NoRev, Front(r)}
                           /\ t[r].parent \in DOMAIN t \cup {NoRev}

(* The parent of a revision is one generation older.                       *)
LEMMA FrontFacts ==
    ASSUME NEW r \in RevIds \ {NoRev}
    PROVE  /\ Len(r) \in Nat \ {0} /\ Front(r) = Prefix(r, Len(r) - 1)
           /\ Front(r) \in RevIds /\ Len(Front(r)) = Len(r) - 1
<1>1. Len(r) \in Nat \ {0}
  BY EmptySeq DEF RevIds, NoRev
<1>2. Front(r) = Prefix(r, Len(r) - 1)
  BY DEF Front, Prefix
<1>3. Len(r) - 1 \in 0..Len(r)
  BY <1>1
<1>4. Prefix(r, Len(r) - 1) \in RevIds /\ Len(Prefix(r, Len(r) - 1)) = Len(r) - 1
  BY <1>3, PrefixFacts
<1> QED
  BY <1>1, <1>2, <1>4
(* A tree with revisions has leaves: the winner among all of them is one.  *)
LEMMA LeavesExist ==
    ASSUME NEW t, Forest(t), DOMAIN t # {}
    PROVE  Leaves(t) # {}
<1>1. DOMAIN t \subseteq RevIds /\ IsFiniteSet(DOMAIN t)
  BY DEF Forest
<1>2. PICK w \in DOMAIN t : Wins(w, DOMAIN t)
  BY <1>1, WinnerExists
<1>3. ASSUME NEW s \in DOMAIN t PROVE t[s].parent # w
  <2>1. s \in RevIds \ {NoRev} /\ w \in RevIds \ {NoRev} /\ t[s].parent \in {NoRev, Front(s)}
    BY DEF Forest
  <2>2. Len(s) \in Nat \ {0} /\ Len(Front(s)) = Len(s) - 1 /\ Len(w) \in Nat
    BY <2>1, FrontFacts
  <2>3. CASE s = w
    BY <2>1, <2>2, <2>3
  <2>4. CASE s # w
    <3>1. Greater(w, s)
      BY <1>2, <2>4 DEF Wins
    <3>2. Len(w) >= Len(s)
      BY <2>2, <3>1 DEF Greater, Generation
    <3> QED
      BY <2>1, <2>2, <3>2
  <2> QED
    BY <2>3, <2>4
<1>4. w \in Leaves(t)
  BY <1>2, <1>3 DEF Leaves
<1> QED
  BY <1>4

(* The winning revision of a tree is a leaf, and not a deleted one if      *)
(* there is another.                                                       *)
LEMMA CurrentFacts ==
    ASSUME NEW t, Forest(t)
    PROVE  /\ t = EmptyTree => WinningRevision(t) = NoRev
           /\ t # EmptyTree =>
                /\ WinningRevision(t) \in Leaves(t) /\ WinningRevision(t) \in DOMAIN t
                /\ WinningRevision(t) # NoRev
                /\ LiveLeaves(t) # {} => WinningRevision(t) \in LiveLeaves(t)
<1>1. t = EmptyTree => WinningRevision(t) = NoRev
  BY DEF WinningRevision
<1>2. ASSUME t # EmptyTree
      PROVE  /\ WinningRevision(t) \in Leaves(t)
             /\ LiveLeaves(t) # {} => WinningRevision(t) \in LiveLeaves(t)
  <2> DEFINE C == IF LiveLeaves(t) # {} THEN LiveLeaves(t) ELSE Leaves(t)
  <2>1. DOMAIN t # {}
    BY <1>2, Zenon DEF EmptyTree, Forest
  <2>2. Leaves(t) # {}
    BY <2>1, LeavesExist
  <2>3. C # {} /\ C \subseteq Leaves(t)
    BY <2>2 DEF LiveLeaves
  <2>4. Leaves(t) \subseteq DOMAIN t
    BY DEF Leaves
  <2>5. C \subseteq RevIds /\ IsFiniteSet(C)
    <3>1. C \subseteq DOMAIN t
      BY <2>3, <2>4
    <3> HIDE DEF C
    <3> QED
      BY <3>1, FS_Subset DEF Forest
  <2>6. \E w \in C : Wins(w, C)
    <3> HIDE DEF C
    <3> QED
      BY <2>3, <2>5, WinnerExists
  <2>7. \E w \in C : \A r \in C \ {w} : Greater(w, r)
    BY <2>6 DEF Wins
  <2>8. WinningRevision(t) = CHOOSE w \in C : \A r \in C \ {w} : Greater(w, r)
    BY <1>2, Zenon DEF WinningRevision
  <2>9. WinningRevision(t) \in C
    <3> HIDE DEF C
    <3> QED
      BY <2>7, <2>8
  <2> QED
    BY <2>3, <2>9
<1>3. Leaves(t) \subseteq DOMAIN t /\ NoRev \notin DOMAIN t
  BY DEF Leaves, Forest
<1> QED
  BY <1>1, <1>2, <1>3
(* Ancestors of a revision are told apart by their generation.             *)
LEMMA PrefixInjective ==
    ASSUME NEW r \in RevIds, NEW m \in 0..Len(r), NEW n \in 0..Len(r),
           Prefix(r, m) = Prefix(r, n)
    PROVE  m = n
BY PrefixFacts

(* One step of getHistory: the parent of the last revision is added.       *)
Climbed(t, s) ==
    LET parent == t[Last(s)].parent
    IN IF parent = NoRev THEN s ELSE Append(s, parent)

(* f holds what getHistory has collected after 0, 1, ..., n steps.         *)
Climbs(t, rev, f, n) ==
    f = [i \in 0..n |-> IF i = 0 THEN <<rev>> ELSE Climbed(t, f[i - 1])]

(* The recursion of getHistory defines a function: a least number of steps *)
(* for which it does not could be reached by one more step.                *)
LEMMA ClimbExists ==
    ASSUME NEW t, NEW rev, NEW n \in Nat
    PROVE  \E f : Climbs(t, rev, f, n)
<1> DEFINE T == {m \in Nat : ~\E f : Climbs(t, rev, f, m)}
<1> SUFFICES ASSUME n \in T PROVE FALSE
  OBVIOUS
<1>1. PICK m \in T : \A k \in T : m <= k
  <2>1. T \subseteq Nat /\ T # {}
    OBVIOUS
  <2> HIDE DEF T
  <2> QED
    BY <2>1, LeastExists
<1>2. m \in Nat /\ ~\E f : Climbs(t, rev, f, m)
  OBVIOUS
<1>3. CASE m = 0
  <2> DEFINE f == [i \in 0..0 |-> <<rev>>]
  <2>1. Climbs(t, rev, f, 0)
    <3>1. \A i \in 0..0 : i = 0
      OBVIOUS
    <3>2. f = [i \in 0..0 |-> IF i = 0 THEN <<rev>> ELSE Climbed(t, f[i - 1])]
      BY <3>1, Zenon
    <3> QED
      BY <3>2 DEF Climbs
  <2> QED
    BY <1>2, <1>3, <2>1
<1>4. CASE m # 0
  <2>1. m - 1 \in Nat /\ ~(m <= m - 1)
    BY <1>2, <1>4
  <2>2. m - 1 \notin T
    <3> HIDE DEF T
    <3> QED
      BY <1>1, <2>1
  <2>3. PICK g : Climbs(t, rev, g, m - 1)
    BY <2>1, <2>2
  <2>4. \A i \in 0..(m - 1) : g[i] = IF i = 0 THEN <<rev>> ELSE Climbed(t, g[i - 1])
    BY <2>3, Zenon DEF Climbs
  <2> DEFINE f == [i \in 0..m |-> IF i = m THEN Climbed(t, g[m - 1]) ELSE g[i]]
  <2>5. ASSUME NEW i \in 0..m
        PROVE  (IF i = m THEN Climbed(t, g[m - 1]) ELSE g[i])
                 = IF i = 0 THEN <<rev>> ELSE Climbed(t, f[i - 1])
    <3>1. CASE i = m
      <4>1. m - 1 \in 0..m /\ m - 1 # m
        BY <1>2, <2>1
      <4>2. f[m - 1] = g[m - 1]
        BY <4>1, Zenon
      <4> HIDE DEF f
      <4> QED
        BY <1>4, <3>1, <4>2
    <3>2. CASE i = 0
      <4>1. i # m /\ i \in 0..(m - 1)
        BY <1>2, <1>4, <3>2
      <4> HIDE DEF f
      <4> QED
        BY <2>4, <3>2, <4>1
    <3>3. CASE i # 0 /\ i # m
      <4>1. i - 1 \in 0..m /\ i - 1 # m /\ i \in 0..(m - 1)
        BY <1>2, <3>3
      <4>2. f[i - 1] = g[i - 1]
        BY <4>1, Zenon
      <4> HIDE DEF f
      <4> QED
        BY <2>4, <3>3, <4>1, <4>2
    <3> QED
      BY <3>1, <3>2, <3>3
  <2>6. f = [i \in 0..m |-> IF i = 0 THEN <<rev>> ELSE Climbed(t, f[i - 1])]
    BY <2>5, Zenon
  <2>7. Climbs(t, rev, f, m)
    BY <2>6, Zenon DEF Climbs
  <2> QED
    BY <1>2, <2>7, Zenon
<1> QED
  BY <1>3, <1>4

(* From generation k on, the ancestors of x are linked to it.              *)
Line(t, x, k) ==
    \A j \in (k + 1)..Len(x) : Prefix(x, j) \in DOMAIN t /\ t[Prefix(x, j)].parent = Prefix(x, j - 1)

(* What getHistory has collected: a revision and ancestors linked to it.   *)
Climb(t, rev, s) ==
    /\ s \in Seq(DOMAIN t) /\ Len(s) \in 1..Len(rev)
    /\ \A i \in 1..Len(s) : s[i] = Prefix(rev, Len(rev) - i + 1)
    /\ \A i \in 1..(Len(s) - 1) : t[s[i]].parent = s[i + 1]

(* A step of getHistory adds an ancestor, or has reached a root.           *)
LEMMA ClimbStep ==
    ASSUME NEW t, Forest(t), NEW rev \in DOMAIN t, NEW s, Climb(t, rev, s)
    PROVE  /\ Climb(t, rev, Climbed(t, s))
           /\ \/ Len(Climbed(t, s)) = Len(s) + 1
              \/ Climbed(t, s) = s /\ t[Last(s)].parent = NoRev
<1> DEFINE n == Len(rev)
           m == Len(s)
           parent == t[Last(s)].parent
<1>1. /\ rev \in RevIds \ {NoRev} /\ n \in Nat \ {0} /\ s \in Seq(DOMAIN t) /\ m \in 1..n /\ m \in Nat
      /\ m >= 1 /\ m <= n
  <2>1. rev \in RevIds \ {NoRev}
    BY DEF Forest
  <2>2. n \in Nat \ {0}
    BY <2>1, FrontFacts
  <2> QED
    BY <2>1, <2>2 DEF Climb
<1>2. Last(s) = s[m] /\ s[m] = Prefix(rev, n - m + 1) /\ s[m] \in DOMAIN t
  <2>1. m \in 1..m
    BY <1>1
  <2> QED
    BY <1>1, <2>1, ElementOfSeq DEF Last, Climb
<1>3. Climbed(t, s) = IF parent = NoRev THEN s ELSE Append(s, parent)
  BY DEF Climbed
<1>4. CASE parent = NoRev
  BY <1>3, <1>4
<1>5. CASE parent # NoRev
  <2>1. parent = Front(s[m]) /\ parent \in DOMAIN t
    BY <1>2, <1>5 DEF Forest
  <2>2. n - m + 1 \in 0..n /\ n - m + 1 > 0 /\ (n - m + 1) - 1 = n - m
    BY <1>1
  <2>3. parent = Prefix(rev, n - m)
    <3>1. Front(Prefix(rev, n - m + 1)) = Prefix(rev, (n - m + 1) - 1)
      BY <1>1, <2>2, PrefixOf
    <3> QED
      BY <1>2, <2>1, <2>2, <3>1
  <2>4. n - m # 0
    <3> SUFFICES ASSUME n - m = 0 PROVE FALSE
      OBVIOUS
    <3>1. 0 \in 0..n
      BY <1>1
    <3>2. Prefix(rev, 0) = NoRev
      BY <1>1, <3>1, PrefixOf
    <3> QED
      BY <1>5, <2>3, <3>2
  <2> DEFINE u == Append(s, parent)
  <2>5. /\ u \in Seq(DOMAIN t) /\ Len(u) = m + 1
        /\ \A i \in 1..m : u[i] = s[i]
        /\ u[m + 1] = parent
    <3> HIDE DEF parent
    <3> QED
      BY <1>1, <2>1, AppendProperties
  <2>6. Climb(t, rev, u)
    <3>1. Len(u) \in 1..n
      BY <1>1, <2>4, <2>5
    <3>2. ASSUME NEW i \in 1..Len(u) PROVE u[i] = Prefix(rev, n - i + 1)
      <4>1. CASE i = m + 1
        <5>1. n - i + 1 = n - m
          BY <1>1, <4>1
        <5> QED
          BY <2>3, <2>5, <4>1, <5>1
      <4>2. CASE i # m + 1
        <5>1. i \in 1..m
          BY <1>1, <2>5, <4>2
        <5> QED
          BY <2>5, <5>1 DEF Climb
      <4> QED
        BY <4>1, <4>2
    <3>3. ASSUME NEW i \in 1..(Len(u) - 1) PROVE t[u[i]].parent = u[i + 1]
      <4>0. i \in 1..m /\ i \in Nat
        BY <1>1, <2>5
      <4>1. CASE i = m
        BY <1>2, <2>5, <4>0, <4>1
      <4>2. CASE i # m
        <5>1. i \in 1..(m - 1) /\ i + 1 \in 1..m
          BY <1>1, <4>0, <4>2
        <5>2. t[s[i]].parent = s[i + 1]
          BY <5>1 DEF Climb
        <5> QED
          BY <2>5, <4>0, <5>1, <5>2
      <4> QED
        BY <4>1, <4>2
    <3> HIDE DEF u
    <3> QED
      BY <2>5, <3>1, <3>2, <3>3 DEF Climb
  <2> QED
    BY <1>3, <1>5, <2>5, <2>6
<1> QED
  BY <1>4, <1>5

(* getHistory returns the revision and the ancestors it is linked to, up   *)
(* to a root: there are no more steps than revisions.                      *)
LEMMA HistoryClimbs ==
    ASSUME NEW t, Forest(t), NEW rev \in DOMAIN t
    PROVE  Climb(t, rev, History(t, rev)) /\ t[Last(History(t, rev))].parent = NoRev
<1> DEFINE D == DOMAIN t
           N == Cardinality(D)
           n == Len(rev)
           f == CHOOSE f : Climbs(t, rev, f, N)
<1>1. N \in Nat /\ IsFiniteSet(D) /\ rev \in RevIds \ {NoRev} /\ n \in Nat \ {0}
  BY FS_CardinalityType, FrontFacts DEF Forest
<1>2. Climbs(t, rev, f, N)
  <2> HIDE DEF N
  <2>1. \E g : Climbs(t, rev, g, N)
    BY <1>1, ClimbExists
  <2> QED
    BY <2>1, Zenon
<1>3. History(t, rev) = f[N]
  BY Zenon DEF History, Climbs, Climbed
<1> HIDE DEF f, N
<1>4. \A i \in 0..N : f[i] = IF i = 0 THEN <<rev>> ELSE Climbed(t, f[i - 1])
  BY <1>2, Zenon DEF Climbs
<1> DEFINE Good(i) == Climb(t, rev, f[i]) /\ (Len(f[i]) = i + 1 \/ t[Last(f[i])].parent = NoRev)
           T == {i \in 0..N : ~Good(i)}
<1>5. T = {}
  <2> SUFFICES ASSUME T # {} PROVE FALSE
    OBVIOUS
  <2>1. PICK i \in T : \A k \in T : i <= k
    <3>1. T \subseteq Nat
      BY <1>1
    <3> HIDE DEF T
    <3> QED
      BY <3>1, LeastExists
  <2>2. i \in 0..N /\ i \in Nat /\ ~Good(i)
    BY <1>1
  <2>3. CASE i = 0
    <3>1. f[i] = <<rev>>
      BY <1>4, <2>2, <2>3
    <3>2. <<rev>> \in Seq(D) /\ Len(<<rev>>) = 1 /\ <<rev>>[1] = rev
      OBVIOUS
    <3>3. Prefix(rev, n - 1 + 1) = rev
      <4>1. n - 1 + 1 = n /\ n \in 0..n
        BY <1>1
      <4> QED
        BY <1>1, <4>1, PrefixOf
    <3>4. Climb(t, rev, <<rev>>)
      BY <1>1, <3>2, <3>3 DEF Climb
    <3> QED
      BY <2>2, <2>3, <3>1, <3>2, <3>4
  <2>4. CASE i # 0
    <3>1. i - 1 \in 0..N /\ ~(i <= i - 1) /\ i - 1 \in Nat
      BY <1>1, <2>2, <2>4
    <3>2. i - 1 \notin T
      <4> HIDE DEF T
      <4> QED
        BY <2>1, <3>1
    <3>3. Good(i - 1)
      BY <3>1, <3>2
    <3> DEFINE s == f[i - 1]
    <3>4. f[i] = Climbed(t, s)
      BY <1>4, <2>2, <2>4
    <3>5. /\ Climb(t, rev, Climbed(t, s))
          /\ \/ Len(Climbed(t, s)) = Len(s) + 1
             \/ Climbed(t, s) = s /\ t[Last(s)].parent = NoRev
      BY <3>3, ClimbStep
    <3>6. Climbed(t, s) = s \/ Len(s) = i
      <4>1. CASE Len(s) = (i - 1) + 1
        BY <2>2, <4>1
      <4>2. CASE t[Last(s)].parent = NoRev
        BY <4>2 DEF Climbed
      <4> QED
        BY <3>3, <4>1, <4>2
    <3>7. Len(Climbed(t, s)) = i + 1 \/ t[Last(Climbed(t, s))].parent = NoRev
      <4>1. CASE Len(Climbed(t, s)) = Len(s) + 1
        <5>1. Len(s) \in Nat
          BY <3>3 DEF Climb
        <5>2. Climbed(t, s) # s
          BY <4>1, <5>1
        <5> QED
          BY <3>6, <4>1, <5>2
      <4>2. CASE Climbed(t, s) = s /\ t[Last(s)].parent = NoRev
        BY <4>2
      <4> QED
        BY <3>5, <4>1, <4>2
    <3> HIDE DEF s
    <3> QED
      BY <2>2, <3>4, <3>5, <3>7
  <2> QED
    BY <2>3, <2>4
<1>6. Good(N)
  <2>1. N \in 0..N
    BY <1>1
  <2>2. N \notin T
    BY <1>5
  <2> QED
    BY <2>1, <2>2
<1>7. Len(f[N]) # N + 1
  <2> SUFFICES ASSUME Len(f[N]) = N + 1 PROVE FALSE
    OBVIOUS
  <2> DEFINE g == [i \in 1..(N + 1) |-> f[N][i]]
  <2>1. Climb(t, rev, f[N]) /\ N + 1 <= n
    BY <1>1, <1>6 DEF Climb
  <2>2. g \in [1..(N + 1) -> D]
    <3>1. ASSUME NEW i \in 1..(N + 1) PROVE f[N][i] \in D
      BY <2>1, ElementOfSeq DEF Climb
    <3> QED
      BY <3>1
  <2>3. IsFiniteSet(1..(N + 1)) /\ Cardinality(1..(N + 1)) = N + 1
    BY <1>1, FS_Interval
  <2>4. N < N + 1
    BY <1>1
  <2>5. PICK x \in 1..(N + 1), y \in 1..(N + 1) : x # y /\ g[x] = g[y]
    <3> HIDE DEF g, D
    <3>1. Cardinality(D) < Cardinality(1..(N + 1))
      BY <2>3, <2>4 DEF N
    <3> QED
      BY <1>1, <2>2, <2>3, <3>1, FS_PigeonHole
  <2>6. Prefix(rev, n - x + 1) = Prefix(rev, n - y + 1)
    BY <2>1, <2>5 DEF Climb
  <2>7. n - x + 1 \in 0..n /\ n - y + 1 \in 0..n /\ x \in Nat /\ y \in Nat
    BY <1>1, <2>1
  <2>8. n - x + 1 = n - y + 1
    BY <1>1, <2>6, <2>7, PrefixInjective
  <2> QED
    BY <1>1, <2>5, <2>7, <2>8
<1> QED
  BY <1>3, <1>6, <1>7

(* The members of a history, and their places in it.                       *)
LEMMA HistoryFacts ==
    ASSUME NEW t, Forest(t), NEW rev \in DOMAIN t
    PROVE  /\ Len(History(t, rev)) \in 1..Len(rev) /\ History(t, rev) \in Seq(DOMAIN t)
           /\ \A i \in 1..Len(History(t, rev)) :
                 History(t, rev)[i] = Prefix(rev, Len(rev) - i + 1)
           /\ \A k \in 1..Len(rev) : Line(t, rev, k) <=> Len(rev) - k + 1 <= Len(History(t, rev))
<1> DEFINE n == Len(rev)
           h == History(t, rev)
           m == Len(h)
<1>1. rev \in RevIds \ {NoRev} /\ n \in Nat \ {0}
  BY FrontFacts DEF Forest
<1>2. Climb(t, rev, h) /\ t[Last(h)].parent = NoRev
  BY HistoryClimbs
<1> HIDE DEF h
<1>3. /\ m \in 1..n /\ h \in Seq(DOMAIN t) /\ m \in Nat /\ m >= 1 /\ m <= n
      /\ \A i \in 1..m : h[i] = Prefix(rev, n - i + 1)
      /\ \A i \in 1..(m - 1) : t[h[i]].parent = h[i + 1]
  BY <1>1, <1>2 DEF Climb
<1>4. ASSUME NEW k \in 1..n, n - k + 1 <= m PROVE Line(t, rev, k)
  <2> SUFFICES ASSUME NEW j \in (k + 1)..n
               PROVE  Prefix(rev, j) \in DOMAIN t /\ t[Prefix(rev, j)].parent = Prefix(rev, j - 1)
    BY DEF Line
  <2> DEFINE i == n - j + 1
  <2>1. i \in 1..(m - 1) /\ i \in 1..m /\ i + 1 \in 1..m /\ n - i + 1 = j /\ n - (i + 1) + 1 = j - 1
    BY <1>1, <1>3, <1>4
  <2> HIDE DEF i
  <2>2. h[i] = Prefix(rev, j) /\ h[i + 1] = Prefix(rev, j - 1)
    BY <1>3, <2>1
  <2>3. h[i] \in DOMAIN t
    BY <1>3, <2>1, ElementOfSeq
  <2> QED
    BY <1>3, <2>1, <2>2, <2>3
<1>5. ASSUME NEW k \in 1..n, ~(n - k + 1 <= m) PROVE ~Line(t, rev, k)
  <2> DEFINE j == n - m + 1
  <2>1. j \in (k + 1)..n /\ j - 1 \in 1..n /\ n - m + 1 = j /\ j - 1 \in 0..n
    BY <1>1, <1>3, <1>5
  <2>2. Last(h) = Prefix(rev, j)
    BY <1>3 DEF Last
  <2>3. Prefix(rev, j - 1) # NoRev
    <3> HIDE DEF j
    <3>1. Len(Prefix(rev, j - 1)) = j - 1
      BY <1>1, <2>1, PrefixFacts
    <3> QED
      BY <2>1, <3>1 DEF NoRev
  <2> HIDE DEF j
  <2> QED
    BY <1>2, <2>1, <2>2, <2>3 DEF Line
<1> QED
  BY <1>3, <1>4, <1>5 DEF h

----------------------------------------------------------------------------
(* Pruning.                                                                *)

(* What a revision is linked to, its children are linked to.               *)
LEMMA LineChild ==
    ASSUME NEW t, Forest(t), NEW s \in DOMAIN t, NEW w \in DOMAIN t, t[s].parent = w
    PROVE  /\ Len(s) = Len(w) + 1 /\ w = Prefix(s, Len(w)) /\ s \in RevIds /\ w \in RevIds
           /\ Len(w) \in Nat \ {0}
           /\ \A k \in 0..Len(w) : Prefix(s, k) = Prefix(w, k)
           /\ \A k \in 0..Len(w) : Line(t, s, k) <=> Line(t, w, k)
           /\ Line(t, s, Len(w))
<1>1. s \in RevIds \ {NoRev} /\ w \in RevIds \ {NoRev} /\ w = Front(s)
  BY DEF Forest
<1>2. /\ Len(s) \in Nat \ {0} /\ w = Prefix(s, Len(s) - 1) /\ Len(w) = Len(s) - 1
      /\ Len(w) \in Nat \ {0}
  BY <1>1, FrontFacts
<1>3. Len(s) = Len(w) + 1 /\ w = Prefix(s, Len(w)) /\ Len(w) \in 0..Len(s) /\ Len(s) - 1 = Len(w)
  BY <1>2
<1>4. \A k \in 0..Len(w) : Prefix(s, k) = Prefix(w, k)
  BY <1>1, <1>3, PrefixOf
<1>5. Prefix(s, Len(s)) = s
  <2>1. Len(s) \in 0..Len(s)
    BY <1>2
  <2> QED
    BY <1>1, <2>1, PrefixOf
<1>6. ASSUME NEW k \in 0..Len(w) PROVE Line(t, s, k) <=> Line(t, w, k)
  <2>1. ASSUME Line(t, s, k) PROVE Line(t, w, k)
    <3> SUFFICES ASSUME NEW j \in (k + 1)..Len(w)
                 PROVE  Prefix(w, j) \in DOMAIN t /\ t[Prefix(w, j)].parent = Prefix(w, j - 1)
      BY DEF Line
    <3>1. j \in (k + 1)..Len(s) /\ j \in 0..Len(w) /\ j - 1 \in 0..Len(w)
      BY <1>2, <1>3
    <3> QED
      BY <1>4, <2>1, <3>1 DEF Line
  <2>2. ASSUME Line(t, w, k) PROVE Line(t, s, k)
    <3> SUFFICES ASSUME NEW j \in (k + 1)..Len(s)
                 PROVE  Prefix(s, j) \in DOMAIN t /\ t[Prefix(s, j)].parent = Prefix(s, j - 1)
      BY DEF Line
    <3>1. CASE j = Len(s)
      BY <1>2, <1>3, <1>5, <3>1
    <3>2. CASE j # Len(s)
      <4>1. j \in (k + 1)..Len(w) /\ j \in 0..Len(w) /\ j - 1 \in 0..Len(w)
        BY <1>2, <1>3, <3>2
      <4> QED
        BY <1>4, <2>2, <4>1 DEF Line
    <3> QED
      BY <3>1, <3>2
  <2> QED
    BY <2>1, <2>2
<1>7. Line(t, s, Len(w))
  <2>1. Len(w) \in 0..Len(w)
    BY <1>2
  <2>2. Line(t, w, Len(w))
    BY <1>2 DEF Line
  <2> QED
    BY <1>6, <2>1, <2>2
<1> QED
  BY <1>1, <1>2, <1>3, <1>4, <1>6, <1>7

(* The leaves whose history r belongs to.                                  *)
LinkedTo(t, r, x) == Len(r) <= Len(x) /\ r = Prefix(x, Len(r)) /\ Line(t, x, Len(r))
Ends(t, r) == {l \in Leaves(t) : LinkedTo(t, r, l)}

(* A revision belongs to its own history.                                  *)
LEMMA LinkedSelf ==
    ASSUME NEW t, Forest(t), NEW r \in DOMAIN t
    PROVE  LinkedTo(t, r, r)
<1>1. r \in RevIds \ {NoRev} /\ Len(r) \in Nat \ {0}
  BY FrontFacts DEF Forest
<1>2. Len(r) \in 0..Len(r)
  BY <1>1
<1>3. Prefix(r, Len(r)) = r
  BY <1>1, <1>2, PrefixOf
<1> QED
  BY <1>1, <1>3 DEF LinkedTo, Line

(* Every revision belongs to the history of a leaf: of the longest         *)
(* revision that is linked to it.                                          *)
LEMMA EndsExist ==
    ASSUME NEW t, Forest(t), NEW r \in DOMAIN t
    PROVE  Ends(t, r) # {}
<1> DEFINE X == {x \in DOMAIN t : LinkedTo(t, r, x)}
<1>1. X \subseteq RevIds /\ IsFiniteSet(X) /\ X # {}
  <2>1. X \subseteq DOMAIN t /\ DOMAIN t \subseteq RevIds /\ IsFiniteSet(DOMAIN t)
    BY DEF Forest
  <2>2. r \in X
    BY LinkedSelf
  <2> HIDE DEF X
  <2> QED
    BY <2>1, <2>2, FS_Subset
<1>2. PICK w \in X : Wins(w, X)
  <2> HIDE DEF X
  <2> QED
    BY <1>1, WinnerExists
<1>3. w \in DOMAIN t /\ LinkedTo(t, r, w) /\ r \in RevIds /\ Len(r) \in Nat /\ r \in RevIds \ {NoRev}
  BY FrontFacts DEF Forest
<1>4. ASSUME NEW s \in DOMAIN t, t[s].parent = w PROVE FALSE
  <2>1. /\ Len(s) = Len(w) + 1 /\ s \in RevIds /\ w \in RevIds /\ Len(w) \in Nat \ {0}
        /\ \A k \in 0..Len(w) : Prefix(s, k) = Prefix(w, k)
        /\ \A k \in 0..Len(w) : Line(t, s, k) <=> Line(t, w, k)
    BY <1>3, <1>4, LineChild
  <2>2. Len(r) \in 0..Len(w) /\ Len(r) <= Len(s)
    BY <1>3, <2>1 DEF LinkedTo
  <2>3. LinkedTo(t, r, s)
    BY <1>3, <2>1, <2>2 DEF LinkedTo
  <2>4. s \in X /\ s # w
    BY <2>1, <2>3
  <2>5. Greater(w, s)
    <3> HIDE DEF X
    <3> QED
      BY <1>2, <2>4 DEF Wins
  <2> QED
    BY <2>1, <2>5 DEF Greater, Generation
<1>5. w \in Leaves(t)
  BY <1>3, <1>4 DEF Leaves
<1> QED
  BY <1>3, <1>5 DEF Ends

(* Who is in a history.                                                    *)
LEMMA HistoryMembers ==
    ASSUME NEW t, Forest(t), NEW x \in DOMAIN t, NEW r \in DOMAIN t
    PROVE  r \in ToSet(History(t, x)) <=> LinkedTo(t, r, x)
<1> DEFINE h == History(t, x)
           m == Len(h)
           n == Len(x)
<1>1. /\ x \in RevIds \ {NoRev} /\ n \in Nat \ {0}
      /\ r \in RevIds \ {NoRev} /\ Len(r) \in Nat \ {0}
  BY FrontFacts DEF Forest
<1>2. /\ m \in 1..n /\ h \in Seq(DOMAIN t)
      /\ \A i \in 1..m : h[i] = Prefix(x, n - i + 1)
      /\ \A k \in 1..n : Line(t, x, k) <=> n - k + 1 <= m
  BY HistoryFacts
<1> HIDE DEF h
<1>3. DOMAIN h = 1..m /\ m \in Nat
  BY <1>2, LenProperties
<1>4. ASSUME r \in ToSet(h) PROVE LinkedTo(t, r, x)
  <2>1. PICK i \in 1..m : r = h[i]
    BY <1>3, <1>4 DEF ToSet
  <2>2. r = Prefix(x, n - i + 1) /\ n - i + 1 \in 1..n /\ n - i + 1 \in 0..n /\ i \in Nat
    BY <1>1, <1>2, <1>3, <2>1
  <2>3. Len(r) = n - i + 1
    <3>1. Len(Prefix(x, n - i + 1)) = n - i + 1
      BY <1>1, <2>2, PrefixFacts
    <3> QED
      BY <2>2, <3>1
  <2>4. n - (n - i + 1) + 1 <= m
    BY <1>1, <1>3, <2>1, <2>2
  <2>5. Line(t, x, n - i + 1)
    BY <1>2, <2>2, <2>4
  <2> QED
    BY <1>1, <2>2, <2>3, <2>5 DEF LinkedTo
<1>5. ASSUME LinkedTo(t, r, x) PROVE r \in ToSet(h)
  <2> DEFINE i == n - Len(r) + 1
  <2>1. Len(r) \in 1..n /\ Line(t, x, Len(r)) /\ r = Prefix(x, Len(r))
    BY <1>1, <1>5 DEF LinkedTo
  <2>2. i \in 1..m /\ n - i + 1 = Len(r)
    BY <1>1, <1>2, <1>3, <2>1
  <2> HIDE DEF i
  <2>3. h[i] = r
    BY <1>2, <2>1, <2>2
  <2> QED
    BY <1>3, <2>2, <2>3 DEF ToSet
<1> QED
  BY <1>4, <1>5 DEF h

(* And at which place.                                                     *)
LEMMA HistoryPlace ==
    ASSUME NEW t, Forest(t), NEW x \in DOMAIN t, NEW r \in DOMAIN t, LinkedTo(t, r, x)
    PROVE  SelectInSeq(History(t, x), LAMBDA y : y = r) = Len(x) - Len(r) + 1
<1> DEFINE h == History(t, x)
           m == Len(h)
           n == Len(x)
           I == {i \in 1..m : h[i] = r}
           p == n - Len(r) + 1
<1>1. /\ x \in RevIds \ {NoRev} /\ n \in Nat \ {0}
      /\ r \in RevIds \ {NoRev} /\ Len(r) \in Nat \ {0}
  BY FrontFacts DEF Forest
<1>2. /\ m \in 1..n
      /\ \A i \in 1..m : h[i] = Prefix(x, n - i + 1)
      /\ \A k \in 1..n : Line(t, x, k) <=> n - k + 1 <= m
  BY HistoryFacts
<1>3. SelectInSeq(h, LAMBDA y : y = r) = IF I # {} THEN Min(I) ELSE 0
  BY Zenon DEF SelectInSeq
<1> HIDE DEF h
<1>4. Len(r) \in 1..n /\ Line(t, x, Len(r)) /\ r = Prefix(x, Len(r)) /\ m \in Nat
  BY <1>1, <1>2 DEF LinkedTo
<1>5. p \in 1..m /\ n - p + 1 = Len(r)
  BY <1>1, <1>2, <1>4
<1>6. h[p] = r
  BY <1>2, <1>4, <1>5
<1>7. ASSUME NEW i \in 1..m, h[i] = r PROVE i = p
  <2>1. Prefix(x, n - i + 1) = Prefix(x, Len(r)) /\ n - i + 1 \in 0..n /\ Len(r) \in 0..n /\ i \in Nat
    BY <1>1, <1>2, <1>4, <1>7
  <2>2. n - i + 1 = Len(r)
    BY <1>1, <2>1, PrefixInjective
  <2> QED
    BY <1>1, <2>1, <2>2
<1>8. I \subseteq Nat /\ I # {}
  BY <1>4, <1>5, <1>6
<1>9. Min(I) \in I
  <2> HIDE DEF I
  <2> QED
    BY <1>8, MinIsLeast
<1> QED
  BY <1>3, <1>7, <1>8, <1>9 DEF h

(* The depth of a revision is the distance to the nearest of its leaves.   *)
LEMMA DepthFacts ==
    ASSUME NEW t, Forest(t), NEW r \in DOMAIN t
    PROVE  /\ \E l \in Ends(t, r) : Depth(t, r) = Len(l) - Len(r) + 1
           /\ \A l \in Ends(t, r) : Depth(t, r) <= Len(l) - Len(r) + 1
           /\ Depth(t, r) \in Nat
<1> DEFINE S == {l \in Leaves(t) : r \in ToSet(History(t, l))}
           T == {SelectInSeq(History(t, l), LAMBDA y : y = r) : l \in S}
           U == {Len(l) - Len(r) + 1 : l \in Ends(t, r)}
<1>1. Leaves(t) \subseteq DOMAIN t
  BY DEF Leaves
<1>2. S = Ends(t, r)
  BY <1>1, HistoryMembers DEF Ends
<1>3. \A l \in Ends(t, r) : SelectInSeq(History(t, l), LAMBDA y : y = r) = Len(l) - Len(r) + 1
  BY <1>1, HistoryPlace DEF Ends
<1>4. T = U
  BY <1>2, <1>3
<1>5. Depth(t, r) = Min(T)
  BY Zenon DEF Depth
<1>6. U \subseteq Nat /\ U # {}
  <2>1. ASSUME NEW l \in Ends(t, r) PROVE Len(l) - Len(r) + 1 \in Nat
    <3>1. l \in RevIds \ {NoRev} /\ r \in RevIds \ {NoRev} /\ Len(r) <= Len(l)
      BY <1>1 DEF Ends, LinkedTo, Forest
    <3>2. Len(l) \in Nat /\ Len(r) \in Nat
      BY <3>1, FrontFacts
    <3> QED
      BY <3>1, <3>2
  <2> QED
    BY <2>1, EndsExist
<1>7. Min(U) \in U /\ \A y \in U : Min(U) <= y
  <2> HIDE DEF U
  <2> QED
    BY <1>6, MinIsLeast
<1>8. Depth(t, r) = Min(U)
  BY <1>4, <1>5
<1> QED
  BY <1>6, <1>7, <1>8

(* A leaf is not deep, and a revision that is not a leaf has a child that  *)
(* is less deep.                                                           *)
LEMMA LeafDepth ==
    ASSUME NEW t, Forest(t), NEW r \in Leaves(t)
    PROVE  Depth(t, r) = 1
<1>1. r \in DOMAIN t /\ \A s \in DOMAIN t : t[s].parent # r
  BY DEF Leaves
<1>2. PICK l \in Ends(t, r) : Depth(t, r) = Len(l) - Len(r) + 1
  BY <1>1, DepthFacts
<1>3. l \in DOMAIN t /\ LinkedTo(t, r, l)
  BY DEF Ends, Leaves
<1>4. /\ l \in RevIds \ {NoRev} /\ Len(l) \in Nat \ {0}
      /\ r \in RevIds \ {NoRev} /\ Len(r) \in Nat \ {0}
  BY <1>1, <1>3, FrontFacts DEF Forest
<1>5. Len(l) = Len(r)
  <2> SUFFICES ASSUME Len(l) # Len(r) PROVE FALSE
    OBVIOUS
  <2>1. Len(r) + 1 \in (Len(r) + 1)..Len(l) /\ (Len(r) + 1) - 1 = Len(r)
    BY <1>3, <1>4 DEF LinkedTo
  <2>2. /\ Prefix(l, Len(r) + 1) \in DOMAIN t
        /\ t[Prefix(l, Len(r) + 1)].parent = Prefix(l, Len(r))
    BY <1>3, <2>1 DEF LinkedTo, Line
  <2> QED
    BY <1>1, <1>3, <2>2 DEF LinkedTo
<1> QED
  BY <1>2, <1>4, <1>5

(* A revision that is not a leaf has a child that is no deeper than        *)
(* itself, counted from the leaves.                                        *)
LEMMA InnerDepth ==
    ASSUME NEW t, Forest(t), NEW r \in DOMAIN t \ Leaves(t)
    PROVE  \E c \in DOMAIN t : t[c].parent = r /\ Depth(t, c) <= Depth(t, r)
<1>2. PICK l \in Ends(t, r) : Depth(t, r) = Len(l) - Len(r) + 1
  BY DepthFacts
<1>3. l \in DOMAIN t /\ l \in Leaves(t) /\ LinkedTo(t, r, l) /\ l # r
  BY DEF Ends, Leaves
<1>4. /\ l \in RevIds \ {NoRev} /\ Len(l) \in Nat \ {0} /\ l \in RevIds
      /\ r \in RevIds \ {NoRev} /\ Len(r) \in Nat \ {0}
  BY <1>3, FrontFacts DEF Forest
<1>5. Len(l) # Len(r)
  <2> SUFFICES ASSUME Len(l) = Len(r) PROVE FALSE
    OBVIOUS
  <2>1. Len(l) \in 0..Len(l)
    BY <1>4
  <2>2. Prefix(l, Len(l)) = l
    BY <1>4, <2>1, PrefixOf
  <2> QED
    BY <1>3, <2>2 DEF LinkedTo
<1> DEFINE k == Len(r) + 1
           c == Prefix(l, k)
<1>6. k \in (Len(r) + 1)..Len(l) /\ k - 1 = Len(r) /\ k \in 0..Len(l) /\ k <= Len(l) /\ k \in Nat
  BY <1>3, <1>4, <1>5 DEF LinkedTo
<1>7. c \in DOMAIN t /\ t[c].parent = r
  <2> HIDE DEF k
  <2> QED
    BY <1>3, <1>6 DEF LinkedTo, Line
<1>8. Len(c) = k
  <2> HIDE DEF k
  <2> QED
    BY <1>4, <1>6, PrefixFacts
<1>9. Line(t, l, k)
  <2>1. \A j \in (k + 1)..Len(l) : j \in (Len(r) + 1)..Len(l)
    BY <1>4
  <2> HIDE DEF k
  <2> QED
    BY <1>3, <2>1 DEF LinkedTo, Line
<1>10. l \in Ends(t, c)
  <2> HIDE DEF k
  <2> QED
    BY <1>3, <1>6, <1>8, <1>9 DEF Ends, LinkedTo
<1>11. Depth(t, c) <= Len(l) - Len(c) + 1 /\ Depth(t, c) \in Nat
  BY <1>7, <1>10, DepthFacts
<1>12. Depth(t, c) <= Depth(t, r)
  <2> HIDE DEF c
  <2> QED
    BY <1>2, <1>4, <1>8, <1>11
<1> QED
  BY <1>7, <1>12

(* Two trees with the same leaves that are not deleted, and the same       *)
(* leaves if all are, have the same winner.                                *)
LEMMA SameWinner ==
    ASSUME NEW t, NEW u, LiveLeaves(t) = LiveLeaves(u),
           LiveLeaves(t) = {} => Leaves(t) = Leaves(u), t = EmptyTree <=> u = EmptyTree
    PROVE  WinningRevision(t) = WinningRevision(u)
<1> DEFINE C(x) == IF LiveLeaves(x) # {} THEN LiveLeaves(x) ELSE Leaves(x)
<1>1. C(t) = C(u)
  OBVIOUS
<1>2. \A x : WinningRevision(x) = IF x = EmptyTree THEN NoRev
                                ELSE CHOOSE w \in C(x) : \A r \in C(x) \ {w} : Greater(w, r)
  BY Zenon DEF WinningRevision
<1> HIDE DEF C
<1>3. (CHOOSE w \in C(t) : \A r \in C(t) \ {w} : Greater(w, r))
        = CHOOSE w \in C(u) : \A r \in C(u) \ {w} : Greater(w, r)
  BY <1>1
<1>4. CASE t = EmptyTree
  BY <1>2, <1>4
<1>5. CASE t # EmptyTree
  <2>1. WinningRevision(t) = CHOOSE w \in C(t) : \A r \in C(t) \ {w} : Greater(w, r)
    BY <1>2, <1>5, Zenon
  <2>2. WinningRevision(u) = CHOOSE w \in C(u) : \A r \in C(u) \ {w} : Greater(w, r)
    BY <1>2, <1>5, Zenon
  <2> QED
    BY <1>3, <2>1, <2>2, Zenon
<1> QED
  BY <1>4, <1>5

(* The revision's ancestors from generation k on.                          *)
Since(rev, k) == {Prefix(rev, n) : n \in k..Len(rev)}

=============================================================================
