--------------------------- MODULE DocumentProofs ---------------------------
(***************************************************************************)
(* Proofs about racing updates of a document, for any revisions and        *)
(* limits, any number of writers, updates and faults, and about the access *)
(* of principals, for any user, roles, channels and documents, and any     *)
(* number of requests and crashes.                                         *)
(***************************************************************************)
EXTENDS Documents, Access, RevTreeProofs

-----------------------------------------------------------------------------
(* The trees of documents, and pruning.                                    *)

(* The nodes of the trees of documents.                                    *)
Nodes == [parent : RevIds, deleted : BOOLEAN, body : {"none", "inline", "external"}]
DocTree(t) ==
    /\ Forest(t) /\ DOMAIN t \subseteq Revisions
    /\ \A r \in DOMAIN t : t[r] \in Nodes

(* u has some of the revisions of t, the same but for links to others.     *)
PartOf(u, t) ==
    /\ DOMAIN u \subseteq DOMAIN t
    /\ \A r \in DOMAIN u :
          /\ u[r].deleted = t[r].deleted /\ u[r].body = t[r].body
          /\ u[r].parent = IF t[r].parent \in DOMAIN u THEN t[r].parent ELSE NoRev

(* What is left of a tree is a tree.                                       *)
LEMMA RestrictedTree ==
    ASSUME NEW t, DocTree(t), NEW K, K \subseteq DOMAIN t
    PROVE  DOMAIN Restricted(t, K) = K /\ DocTree(Restricted(t, K)) /\ PartOf(Restricted(t, K), t)
<1> DEFINE u == Restricted(t, K)
<1>1. /\ DOMAIN u = K /\ u = [r \in K |-> u[r]]
      /\ \A r \in K : u[r] = [t[r] EXCEPT !.parent = IF @ \in K THEN @ ELSE NoRev]
  BY DEF Restricted
<1>2. ASSUME NEW r \in K
      PROVE  /\ u[r].deleted = t[r].deleted /\ u[r].body = t[r].body
             /\ u[r].parent = IF t[r].parent \in K THEN t[r].parent ELSE NoRev
             /\ u[r] \in Nodes
  <2>1. t[r] \in Nodes
    BY DEF DocTree
  <2>2. NoRev \in RevIds
    BY DEF NoRev, RevIds
  <2>3. u[r] = [t[r] EXCEPT !.parent = IF t[r].parent \in K THEN t[r].parent ELSE NoRev]
    BY <1>1
  <2> QED
    BY <2>1, <2>2, <2>3 DEF Nodes
<1>3. PartOf(u, t)
  <2> HIDE DEF u
  <2> QED
    BY <1>1, <1>2 DEF PartOf
<1>4. Forest(u)
  <2>1. K \subseteq RevIds \ {NoRev} /\ IsFiniteSet(K)
    BY FS_Subset DEF DocTree, Forest
  <2>2. ASSUME NEW r \in K
        PROVE  u[r].parent \in {NoRev, Front(r)} /\ u[r].parent \in K \cup {NoRev}
    <3>1. t[r].parent \in {NoRev, Front(r)}
      BY DEF DocTree, Forest
    <3> HIDE DEF u
    <3> QED
      BY <1>2, <3>1
  <2> HIDE DEF u
  <2> QED
    BY <1>1, <2>1, <2>2 DEF Forest
<1>5. K \subseteq Revisions
  BY DEF DocTree
<1> HIDE DEF u
<1>6. DocTree(u)
  BY <1>1, <1>2, <1>4, <1>5 DEF DocTree
<1> QED
  BY <1>1, <1>3, <1>6 DEF u

(* Pruning removes the leaves of old tombstones and makes no new leaves: a *)
(* branch is removed as a whole, and otherwise from its root.              *)
LEMMA PrunedFacts ==
    ASSUME NEW t, DocTree(t)
    PROVE  /\ DocTree(Pruned(t)) /\ PartOf(Pruned(t), t)
           /\ Leaves(Pruned(t)) = Leaves(t) \ TooOldBranches(t)
<1> DEFINE A == {r \in DOMAIN t : Depth(t, r) <= RevsLimit}
           R == Restricted(t, A)
           O == TooOldBranches(t)
           B == UNION {ToSet(History(R, l)) : l \in O}
           K == A \ B
           P == Restricted(t, K)
<1>1. Pruned(t) = P
  BY DEF Pruned
<1>2. Forest(t) /\ RevsLimit \in Nat \ {0} /\ A \subseteq DOMAIN t /\ K \subseteq DOMAIN t
  BY RevTreeAssumption DEF DocTree
<1>3. DOMAIN R = A /\ DocTree(R) /\ PartOf(R, t) /\ Forest(R)
  <2> HIDE DEF A
  <2> QED
    BY <1>2, RestrictedTree DEF DocTree
<1>4. DOMAIN P = K /\ DocTree(P) /\ PartOf(P, t)
  <2> HIDE DEF K
  <2> QED
    BY <1>2, RestrictedTree
<1>5. Leaves(t) \subseteq A
  <2> SUFFICES ASSUME NEW l \in Leaves(t) PROVE l \in A
    OBVIOUS
  <2>1. Depth(t, l) = 1 /\ l \in DOMAIN t
    BY <1>2, LeafDepth DEF Leaves
  <2> QED
    BY <1>2, <2>1
<1>6. O \subseteq Leaves(t)
  BY DEF TooOldBranches
<1>7. \A r \in A : r \in B <=> \E l \in O : LinkedTo(R, r, l)
  <2> TAKE r \in A
  <2>1. \A l \in O : r \in ToSet(History(R, l)) <=> LinkedTo(R, r, l)
    <3> TAKE l \in O
    <3>1. l \in A
      BY <1>5, <1>6
    <3> HIDE DEF R, A, O
    <3> QED
      BY <1>3, <3>1, HistoryMembers
  <2> QED
    BY <2>1
<1>8. \A r \in DOMAIN t : r # NoRev
  BY <1>2 DEF Forest
<1> HIDE DEF A, R, O, B, K, P
<1>9. ASSUME NEW l \in Leaves(t), l \notin O PROVE l \in Leaves(P)
  <2>1. l \in A /\ l \in DOMAIN t /\ \A s \in DOMAIN t : t[s].parent # l
    BY <1>5 DEF Leaves
  <2>2. l \notin B
    <3> SUFFICES ASSUME l \in B PROVE FALSE
      OBVIOUS
    <3>1. PICK m \in O : LinkedTo(R, l, m)
      BY <1>7, <2>1
    <3>2. m \in A /\ m \in DOMAIN t /\ m # l /\ l \in RevIds \ {NoRev} /\ m \in RevIds \ {NoRev}
      BY <1>2, <1>5, <1>6, <1>9, <2>1 DEF Forest
    <3>3. Len(l) \in Nat \ {0} /\ Len(m) \in Nat \ {0} /\ m \in RevIds /\ Len(m) \in 0..Len(m)
      BY <3>2, FrontFacts
    <3>4. Len(l) <= Len(m) /\ l = Prefix(m, Len(l)) /\ Line(R, m, Len(l))
      BY <3>1 DEF LinkedTo
    <3>5. Len(l) # Len(m)
      <4>1. Prefix(m, Len(m)) = m
        BY <3>3, PrefixOf
      <4> QED
        BY <3>2, <3>4, <4>1
    <3>6. Len(l) + 1 \in (Len(l) + 1)..Len(m) /\ (Len(l) + 1) - 1 = Len(l)
      BY <3>3, <3>4, <3>5
    <3> DEFINE c == Prefix(m, Len(l) + 1)
    <3>7. c \in DOMAIN R /\ R[c].parent = l
      BY <3>4, <3>6 DEF Line
    <3> HIDE DEF c
    <3>8. t[c].parent = l /\ c \in DOMAIN t
      BY <1>2, <1>3, <1>8, <2>1, <3>7 DEF PartOf
    <3> QED
      BY <2>1, <3>8
  <2>3. l \in K
    BY <2>1, <2>2 DEF K
  <2>4. ASSUME NEW s \in K PROVE P[s].parent # l
    BY <1>2, <1>4, <1>8, <2>1 DEF PartOf
  <2> QED
    BY <1>4, <2>3, <2>4 DEF Leaves
<1>10. ASSUME NEW r \in Leaves(P) PROVE r \in Leaves(t) /\ r \notin O
  <2>1. r \in K /\ r \in A /\ r \notin B /\ r \in DOMAIN t /\ \A s \in K : P[s].parent # r
    BY <1>2, <1>4, <1>10 DEF Leaves, K
  <2>2. r \notin O
    <3> SUFFICES ASSUME r \in O PROVE FALSE
      OBVIOUS
    <3>1. LinkedTo(R, r, r)
      BY <1>3, <2>1, LinkedSelf
    <3> QED
      BY <1>7, <2>1, <3>1
  <2>3. r \in Leaves(t)
    <3> SUFFICES ASSUME r \notin Leaves(t) PROVE FALSE
      OBVIOUS
    <3>1. PICK c \in DOMAIN t : t[c].parent = r /\ Depth(t, c) <= Depth(t, r)
      BY <1>2, <2>1, InnerDepth
    <3>2. c \in A
      <4>1. Depth(t, r) <= RevsLimit /\ Depth(t, r) \in Nat /\ Depth(t, c) \in Nat
        BY <1>2, <2>1, DepthFacts DEF A
      <4>2. Depth(t, c) <= RevsLimit
        BY <1>2, <3>1, <4>1
      <4> QED
        BY <4>2 DEF A
    <3>3. c \notin K
      <4> SUFFICES ASSUME c \in K PROVE FALSE
        OBVIOUS
      <4>1. P[c].parent = r
        BY <1>4, <2>1, <3>1 DEF PartOf
      <4> QED
        BY <2>1, <4>1
    <3>4. PICK l \in O : LinkedTo(R, c, l)
      BY <1>7, <3>2, <3>3 DEF K
    <3>5. R[c].parent = r /\ c \in DOMAIN R /\ r \in DOMAIN R
      BY <1>3, <2>1, <3>1, <3>2 DEF PartOf
    <3>6. LinkedTo(R, r, l)
      <4>1. /\ Len(c) = Len(r) + 1 /\ r = Prefix(c, Len(r)) /\ c \in RevIds /\ r \in RevIds
            /\ Len(r) \in Nat \ {0}
        BY <1>3, <3>5, LineChild
      <4>2. l \in RevIds \ {NoRev} /\ l \in RevIds
        BY <1>2, <1>5, <1>6 DEF Forest
      <4>3. Len(l) \in Nat
        BY <4>2, FrontFacts
      <4>4. Len(c) <= Len(l) /\ c = Prefix(l, Len(c)) /\ Line(R, l, Len(c))
        BY <3>4 DEF LinkedTo
      <4>5. Len(r) \in 0..Len(c) /\ Len(c) \in 0..Len(l) /\ Len(r) <= Len(l)
        BY <4>1, <4>3, <4>4
      <4>6. Prefix(l, Len(r)) = Prefix(c, Len(r))
        BY <4>2, <4>4, <4>5, PrefixOf
      <4>7. Line(R, l, Len(r))
        <5> SUFFICES ASSUME NEW j \in (Len(r) + 1)..Len(l)
                     PROVE  /\ Prefix(l, j) \in DOMAIN R
                            /\ R[Prefix(l, j)].parent = Prefix(l, j - 1)
          BY DEF Line
        <5>1. CASE j = Len(c)
          <6>1. j - 1 = Len(r)
            BY <4>1, <5>1
          <6> QED
            BY <3>5, <4>1, <4>4, <4>6, <5>1, <6>1
        <5>2. CASE j # Len(c)
          <6>1. j \in (Len(c) + 1)..Len(l)
            BY <4>1, <4>3, <5>2
          <6> QED
            BY <4>4, <6>1 DEF Line
        <5> QED
          BY <5>1, <5>2
      <4> QED
        BY <4>1, <4>5, <4>6, <4>7 DEF LinkedTo
    <3> QED
      BY <1>7, <2>1, <3>6
  <2> QED
    BY <2>2, <2>3
<1>11. Leaves(P) = Leaves(t) \ O
  BY <1>9, <1>10
<1> QED
  BY <1>1, <1>4, <1>11 DEF O

(* What pruneRevisions leaves: the same live branches and the same winner. *)
LEMMA PruneFacts ==
    ASSUME NEW t, DocTree(t), t # EmptyTree, NEW u \in PruneRevisions(t)
    PROVE  /\ DocTree(u) /\ PartOf(u, t) /\ u # EmptyTree
           /\ Leaves(u) \subseteq Leaves(t)
           /\ \A l \in Leaves(t) \ Leaves(u) : l \in TooOldBranches(t) /\ l \notin DOMAIN u
           /\ LiveLeaves(u) = LiveLeaves(t)
           /\ WinningRevision(u) = WinningRevision(t)
<1>1. CASE u = t
  <2>1. PartOf(t, t)
    <3>1. \A r \in DOMAIN t : t[r].parent \in DOMAIN t \cup {NoRev}
      BY DEF DocTree, Forest
    <3> QED
      BY <3>1 DEF PartOf
  <2> QED
    BY <1>1, <2>1
<1>2. CASE u = Pruned(t)
  <2>1. DocTree(u) /\ PartOf(u, t) /\ Leaves(u) = Leaves(t) \ TooOldBranches(t)
    BY <1>2, PrunedFacts
  <2>2. \A r \in DOMAIN u \cap DOMAIN t : u[r].deleted = t[r].deleted
    BY <2>1 DEF PartOf
  <2>3. Leaves(t) \subseteq DOMAIN t /\ Leaves(u) \subseteq DOMAIN u
    BY DEF Leaves
  <2>4. LiveLeaves(u) = LiveLeaves(t)
    BY <2>1, <2>2, <2>3 DEF LiveLeaves, TooOldBranches
  <2>5. LiveLeaves(t) = {} => Leaves(u) = Leaves(t)
    BY <2>1 DEF TooOldBranches
  <2>6. DOMAIN t # {}
    BY Zenon DEF DocTree, Forest, EmptyTree
  <2>7. Leaves(t) # {}
    BY <2>6, LeavesExist DEF DocTree
  <2>8. Leaves(u) # {}
    BY <2>4, <2>5, <2>7 DEF LiveLeaves
  <2>9. u # EmptyTree
    <3>1. DOMAIN EmptyTree = {}
      BY DEF EmptyTree
    <3> QED
      BY <2>3, <2>8, <3>1
  <2>10. WinningRevision(u) = WinningRevision(t)
    BY <2>4, <2>5, <2>9, SameWinner
  <2>11. ASSUME NEW l \in Leaves(t) \ Leaves(u) PROVE l \notin DOMAIN u
    <3>1. \A s \in DOMAIN u : u[s].parent # l
      <4>1. l \in DOMAIN t /\ l # NoRev /\ \A s \in DOMAIN t : t[s].parent # l
        BY <2>3 DEF Leaves, DocTree, Forest
      <4> QED
        BY <2>1, <4>1 DEF PartOf
    <3> QED
      BY <3>1 DEF Leaves
  <2> QED
    BY <2>1, <2>4, <2>9, <2>10, <2>11
<1>3. u \in {t, Pruned(t)}
  BY DEF PruneRevisions
<1> QED
  BY <1>1, <1>2, <1>3

----------------------------------------------------------------------------
(* Adding revisions.                                                       *)

(* u is t with rev and its ancestors younger than generation m, the oldest *)
(* of them a child of p or a root.                                         *)
Extension(t, u, rev, p, m, del) ==
    /\ rev \in Revisions /\ m \in 0..(Len(rev) - 1) /\ del \in BOOLEAN
    /\ del => Last(rev) = Deletion
    /\ p = NoRev \/ (p = Prefix(rev, m) /\ p \in DOMAIN t)
    /\ DOMAIN u = DOMAIN t \cup Since(rev, m + 1) /\ u = [r \in DOMAIN u |-> u[r]]
    /\ \A k \in (m + 1)..Len(rev) : Prefix(rev, k) \notin DOMAIN t
    /\ \A r \in DOMAIN t : u[r] = t[r]
    /\ \A k \in (m + 1)..Len(rev) :
          u[Prefix(rev, k)] = Info(IF k = m + 1 THEN p ELSE Prefix(rev, k - 1), k = Len(rev) /\ del)

(* The ancestors of the revisions that may be written may be written.      *)
LEMMA RevisionFacts ==
    ASSUME NEW r \in Revisions
    PROVE  /\ r \in RevIds \ {NoRev} /\ r \in RevIds /\ Len(r) \in Nat \ {0} /\ Last(r) \in 0..3
           /\ \A k \in 1..Len(r) : Prefix(r, k) \in Revisions
           /\ Prefix(r, Len(r)) = r
<1>1. r \in Seq(0..3) \ {NoRev}
  BY DocumentsAssumption
<1>2. r \in RevIds
  <2>1. Len(r) \in Nat /\ \A i \in 1..Len(r) : r[i] \in 0..3
    BY <1>1, LenProperties, ElementOfSeq
  <2>2. \A i \in 1..Len(r) : r[i] \in Nat
    BY <2>1
  <2>3. r = [i \in 1..Len(r) |-> r[i]]
    BY <1>1
  <2>4. [i \in 1..Len(r) |-> r[i]] \in Seq(Nat)
    BY <2>1, <2>2
  <2> QED
    BY <2>3, <2>4 DEF RevIds
<1>3. r \in RevIds \ {NoRev} /\ Len(r) \in Nat \ {0}
  BY <1>1, <1>2, FrontFacts
<1>4. Last(r) \in 0..3
  <2>1. Len(r) \in 1..Len(r)
    BY <1>3
  <2> QED
    BY <1>1, <2>1, ElementOfSeq DEF Last
<1>5. Prefix(r, Len(r)) = r
  <2>1. Len(r) \in 0..Len(r)
    BY <1>3
  <2> QED
    BY <1>2, <2>1, PrefixOf
<1> DEFINE n == Len(r)
           T == {i \in 0..(n - 1) : Prefix(r, n - i) \notin Revisions}
<1>6. T = {}
  <2> SUFFICES ASSUME T # {} PROVE FALSE
    OBVIOUS
  <2>1. PICK i \in T : \A k \in T : i <= k
    <3>1. T \subseteq Nat
      BY <1>3
    <3> HIDE DEF T
    <3> QED
      BY <3>1, LeastExists
  <2>2. i \in 0..(n - 1) /\ i \in Nat /\ Prefix(r, n - i) \notin Revisions
    BY <1>3
  <2>3. i # 0
    <3>1. n - 0 = n
      BY <1>3
    <3> QED
      BY <1>5, <2>2, <3>1
  <2>4. i - 1 \in 0..(n - 1) /\ ~(i <= i - 1)
    BY <1>3, <2>2, <2>3
  <2>5. i - 1 \notin T
    <3> HIDE DEF T
    <3> QED
      BY <2>1, <2>4
  <2>6. Prefix(r, n - (i - 1)) \in Revisions
    BY <2>4, <2>5
  <2>7. /\ n - (i - 1) \in 0..n /\ n - (i - 1) > 0 /\ n - (i - 1) - 1 = n - i
        /\ n - i \in 0..n /\ n - i > 0
    BY <1>3, <2>2, <2>3
  <2> HIDE DEF n
  <2>8. Front(Prefix(r, n - (i - 1))) = Prefix(r, n - i)
    <3>1. Front(Prefix(r, n - (i - 1))) = Prefix(r, n - (i - 1) - 1)
      BY <1>2, <2>7, PrefixOf DEF n
    <3> QED
      BY <2>7, <3>1
  <2>9. Prefix(r, n - i) # NoRev
    <3>1. Len(Prefix(r, n - i)) = n - i
      BY <1>2, <2>7, PrefixFacts DEF n
    <3> QED
      BY <2>7, <3>1 DEF NoRev
  <2> QED
    BY <2>2, <2>6, <2>8, <2>9, DocumentsAssumption
<1>7. ASSUME NEW k \in 1..n PROVE Prefix(r, k) \in Revisions
  <2>1. n - k \in 0..(n - 1) /\ n - (n - k) = k
    BY <1>3
  <2>2. n - k \notin T
    <3> HIDE DEF T
    <3> QED
      BY <1>6
  <2>3. Prefix(r, n - (n - k)) \in Revisions
    BY <2>1, <2>2
  <2> QED
    BY <2>1, <2>3
<1> QED
  BY <1>2, <1>3, <1>4, <1>5, <1>7

(* An extended tree is a tree: the revision is a leaf in the place of its  *)
(* parent.                                                                 *)
LEMMA ExtensionFacts ==
    ASSUME NEW t, DocTree(t), NEW u, NEW rev, NEW p, NEW m, NEW del,
           Extension(t, u, rev, p, m, del)
    PROVE  /\ DocTree(u) /\ u # EmptyTree /\ rev \in DOMAIN u \ DOMAIN t
           /\ DOMAIN t \subseteq DOMAIN u /\ \A r \in DOMAIN t : u[r] = t[r]
           /\ Leaves(u) = (Leaves(t) \ {p}) \cup {rev}
           /\ \A r \in DOMAIN u \ DOMAIN t :
                 /\ u[r].body = "none" /\ u[r].deleted = (r = rev /\ del)
                 /\ Len(r) \in (m + 1)..Len(rev) /\ r = Prefix(rev, Len(r))
           /\ p # NoRev => LinkedTo(u, p, rev) /\ Len(p) = m /\ p # rev
<1> DEFINE n == Len(rev)
           S == (m + 1)..n
<1>1. /\ rev \in RevIds \ {NoRev} /\ rev \in RevIds /\ n \in Nat \ {0}
      /\ \A k \in 1..n : Prefix(rev, k) \in Revisions
      /\ Prefix(rev, n) = rev /\ m \in 0..(n - 1) /\ m \in Nat /\ m < n /\ rev \in Revisions
  <2>1. rev \in Revisions /\ m \in 0..(n - 1)
    BY DEF Extension
  <2>2. n \in Nat \ {0}
    BY <2>1, RevisionFacts
  <2>3. m \in Nat /\ m < n
    BY <2>1, <2>2
  <2> QED
    BY <2>1, <2>3, RevisionFacts
<1>2. \A k \in S : k \in 1..n /\ k \in 0..n /\ k - 1 \in 0..n /\ k > 0 /\ k \in Nat
  BY <1>1
<1>3. \A k \in S : Prefix(rev, k) \in RevIds /\ Len(Prefix(rev, k)) = k
                   /\ Front(Prefix(rev, k)) = Prefix(rev, k - 1)
  BY <1>1, <1>2, PrefixFacts, PrefixOf
<1>4. DOMAIN u = DOMAIN t \cup Since(rev, m + 1) /\ Since(rev, m + 1) = {Prefix(rev, k) : k \in S}
  BY DEF Extension, Since
<1>5. n \in S /\ m + 1 \in S
  BY <1>1
<1>6. rev \in DOMAIN u \ DOMAIN t
  BY <1>1, <1>4, <1>5 DEF Extension
<1>7. ASSUME NEW k \in S
      PROVE  LET r == Prefix(rev, k)
             IN  /\ r \in DOMAIN u /\ r \notin DOMAIN t /\ Len(r) = k /\ r \in Revisions
                 /\ u[r].body = "none" /\ u[r].deleted = (r = rev /\ del)
                 /\ u[r].parent = IF k = m + 1 THEN p ELSE Prefix(rev, k - 1)
                 /\ u[r] \in Nodes
                 /\ u[r].parent \in {NoRev, Front(r)} /\ u[r].parent \in DOMAIN u \cup {NoRev}
  <2> DEFINE r == Prefix(rev, k)
             q == IF k = m + 1 THEN p ELSE Prefix(rev, k - 1)
  <2>1. u[r] = Info(q, k = n /\ del) /\ r \notin DOMAIN t
    BY DEF Extension
  <2>2. r \in DOMAIN u /\ Len(r) = k /\ r \in Revisions /\ r \in RevIds /\ Front(r) = Prefix(rev, k - 1)
    BY <1>1, <1>2, <1>3, <1>4
  <2>3. (k = n) <=> (r = rev)
    BY <1>1, <2>2
  <2>4. q \in {NoRev, Front(r)} /\ q \in DOMAIN u \cup {NoRev}
    <3>1. CASE k = m + 1
      <4>1. k - 1 = m
        BY <1>1, <3>1
      <4>2. p = NoRev \/ (p = Prefix(rev, m) /\ p \in DOMAIN t)
        BY DEF Extension
      <4> QED
        BY <1>4, <2>2, <3>1, <4>1, <4>2
    <3>2. CASE k # m + 1
      <4>1. k - 1 \in S
        BY <1>1, <3>2
      <4> QED
        BY <1>4, <2>2, <3>2, <4>1
    <3> QED
      BY <3>1, <3>2
  <2>5. q \in RevIds
    <3>1. NoRev \in RevIds
      BY DEF NoRev, RevIds
    <3>2. Prefix(rev, k - 1) \in RevIds
      BY <1>1, <1>2, PrefixFacts
    <3> QED
      BY <2>2, <2>4, <3>1, <3>2
  <2>6. del \in BOOLEAN
    BY DEF Extension
  <2> HIDE DEF r, q
  <2>7. /\ u[r].body = "none" /\ u[r].deleted = (k = n /\ del) /\ u[r].parent = q
        /\ u[r] \in Nodes
    BY <2>1, <2>5, <2>6 DEF Info, Nodes
  <2> QED
    BY <2>1, <2>2, <2>3, <2>4, <2>7 DEF r, q
<1>8. ASSUME NEW r \in DOMAIN u
      PROVE  /\ r \in Revisions /\ u[r] \in Nodes /\ u[r].parent \in {NoRev, Front(r)}
             /\ u[r].parent \in DOMAIN u \cup {NoRev}
  <2>1. CASE r \in DOMAIN t
    <3>1. u[r] = t[r]
      BY <2>1 DEF Extension
    <3> QED
      BY <1>4, <2>1, <3>1 DEF DocTree, Forest
  <2>2. CASE r \in Since(rev, m + 1)
    <3>1. PICK k \in S : r = Prefix(rev, k)
      BY <1>4, <2>2
    <3> QED
      BY <1>7, <3>1
  <2> QED
    BY <1>4, <2>1, <2>2
<1>9. IsFiniteSet(DOMAIN u)
  <2>1. IsFiniteSet(S)
    BY <1>1, FS_Interval
  <2>2. IsFiniteSet(Since(rev, m + 1))
    <3> DEFINE f == [k \in S |-> Prefix(rev, k)]
    <3>1. f \in Surjection(S, Since(rev, m + 1))
      BY <1>4 DEF Surjection
    <3> HIDE DEF f, S
    <3> QED
      BY <2>1, <3>1, FS_Surjection
  <2>3. IsFiniteSet(DOMAIN t)
    BY DEF DocTree, Forest
  <2> QED
    BY <1>4, <2>2, <2>3, FS_Union
<1>10. DocTree(u)
  <2>1. u = [r \in DOMAIN u |-> u[r]]
    BY DEF Extension
  <2>2. DOMAIN u \subseteq RevIds \ {NoRev}
    BY <1>8, RevisionFacts
  <2> QED
    BY <1>8, <1>9, <2>1, <2>2 DEF DocTree, Forest
<1>11. u # EmptyTree
  <2>1. DOMAIN EmptyTree = {}
    BY DEF EmptyTree
  <2> QED
    BY <1>6, <2>1
<1>12. ASSUME NEW r \in DOMAIN u \ DOMAIN t
       PROVE  /\ u[r].body = "none" /\ u[r].deleted = (r = rev /\ del)
              /\ Len(r) \in (m + 1)..Len(rev) /\ r = Prefix(rev, Len(r))
  <2>1. PICK k \in S : r = Prefix(rev, k)
    BY <1>4
  <2> QED
    BY <1>7, <2>1
<1>13. \A r \in DOMAIN t : u[r] = t[r]
  BY DEF Extension
<1>14. ASSUME NEW r \in Leaves(u) PROVE r \in (Leaves(t) \ {p}) \cup {rev}
  <2>1. r \in DOMAIN u /\ \A s \in DOMAIN u : u[s].parent # r
    BY DEF Leaves
  <2>2. CASE r \in DOMAIN t
    <3>1. r \in Leaves(t)
      BY <1>4, <1>13, <2>1, <2>2 DEF Leaves
    <3>2. r # p
      <4>1. u[Prefix(rev, m + 1)].parent = p /\ Prefix(rev, m + 1) \in DOMAIN u
        BY <1>5, <1>7
      <4> QED
        BY <2>1, <4>1
    <3> QED
      BY <3>1, <3>2
  <2>3. CASE r \notin DOMAIN t
    <3>1. PICK k \in S : r = Prefix(rev, k)
      BY <1>4, <2>1, <2>3
    <3>2. k = n
      <4> SUFFICES ASSUME k # n PROVE FALSE
        OBVIOUS
      <4>1. k + 1 \in S /\ k + 1 # m + 1 /\ (k + 1) - 1 = k
        BY <1>1
      <4>2. u[Prefix(rev, k + 1)].parent = Prefix(rev, (k + 1) - 1) /\ Prefix(rev, k + 1) \in DOMAIN u
        BY <1>7, <4>1
      <4> QED
        BY <2>1, <3>1, <4>1, <4>2
    <3> QED
      BY <1>1, <3>1, <3>2
  <2> QED
    BY <2>2, <2>3
<1>15. ASSUME NEW r \in (Leaves(t) \ {p}) \cup {rev} PROVE r \in Leaves(u)
  <2>1. r \in DOMAIN u /\ r # NoRev
    <3>1. DOMAIN u \subseteq RevIds \ {NoRev}
      BY <1>10 DEF DocTree, Forest
    <3> QED
      BY <1>4, <1>6, <3>1 DEF Leaves
  <2> SUFFICES ASSUME NEW s \in DOMAIN u, u[s].parent = r PROVE FALSE
    BY <2>1 DEF Leaves
  <2>2. Len(s) = Len(r) + 1 /\ r = Prefix(s, Len(r)) /\ Len(r) \in Nat
    BY <1>10, <2>1, LineChild DEF DocTree
  <2>3. CASE s \in DOMAIN t
    <3>1. t[s].parent = r
      BY <1>13, <2>3
    <3>2. r \in DOMAIN t
      BY <2>1, <2>3, <3>1 DEF DocTree, Forest
    <3> QED
      BY <1>6, <2>3, <3>1, <3>2 DEF Leaves
  <2>4. CASE s \notin DOMAIN t
    <3>1. PICK k \in S : s = Prefix(rev, k)
      BY <1>4, <2>4
    <3>2. Len(s) = k /\ u[s].parent = IF k = m + 1 THEN p ELSE Prefix(rev, k - 1)
      BY <1>7, <3>1
    <3>3. r # rev
      BY <1>1, <1>2, <2>2, <3>2
    <3>4. CASE k = m + 1
      BY <3>2, <3>3, <3>4
    <3>5. CASE k # m + 1
      <4>1. k - 1 \in S
        BY <1>1, <3>5
      <4>2. r = Prefix(rev, k - 1) /\ r \notin DOMAIN t
        BY <1>7, <3>2, <3>5, <4>1
      <4> QED
        BY <3>3, <4>2 DEF Leaves
    <3> QED
      BY <3>4, <3>5
  <2> QED
    BY <2>3, <2>4
<1>16. ASSUME p # NoRev PROVE LinkedTo(u, p, rev) /\ Len(p) = m /\ p # rev
  <2>1. p = Prefix(rev, m) /\ p \in DOMAIN t
    BY <1>16 DEF Extension
  <2>2. m \in 0..n
    BY <1>1
  <2>3. Len(p) = m
    BY <1>1, <2>1, <2>2, PrefixFacts
  <2>4. Line(u, rev, m)
    <3> SUFFICES ASSUME NEW j \in S
                 PROVE  Prefix(rev, j) \in DOMAIN u /\ u[Prefix(rev, j)].parent = Prefix(rev, j - 1)
      BY DEF Line
    <3>1. CASE j = m + 1
      <4>1. j - 1 = m
        BY <1>1, <3>1
      <4> QED
        BY <1>7, <2>1, <3>1, <4>1
    <3>2. CASE j # m + 1
      BY <1>7, <3>2
    <3> QED
      BY <3>1, <3>2
  <2> QED
    BY <1>1, <1>6, <2>1, <2>3, <2>4 DEF LinkedTo
<1> QED
  BY <1>4, <1>6, <1>10, <1>11, <1>12, <1>13, <1>14, <1>15, <1>16

----------------------------------------------------------------------------
(* What the callbacks of an update make of a tree.                         *)

(* What an update asks for.                                                *)
OpOK(op) ==
    \/ op \in [kind : {"put"}, match : Revisions \cup {NoRev}, body : 0..3]
    \/ /\ op \in [kind : {"push"}, rev : Revisions, length : Nat, body : 0..3, noConflicts : BOOLEAN]
       /\ op.length \in 1..Len(op.rev) /\ (op.body = Deletion => Last(op.rev) = Deletion)

(* Put adds a child to a leaf, or a root to an empty tree.                 *)
LEMMA PutExtends ==
    ASSUME NEW d, DocTree(d.tree), d.cur = WinningRevision(d.tree),
           NEW op, op.kind = "put", OpOK(op),
           ApplyPut(d, op).ok, ApplyPut(d, op).rev \in Revisions
    PROVE  LET a == ApplyPut(d, op)
           IN  \E p, m : Extension(d.tree, a.tree, a.rev, p, m, op.body = Deletion)
<1> DEFINE t == d.tree
           p == IF op.match = NoRev THEN d.cur ELSE op.match
           rev == Append(p, op.body)
           m == Len(p)
           del == op.body = Deletion
           allowed == IF op.match = NoRev
                      THEN d.cur = NoRev \/ d.tree[d.cur].deleted
                      ELSE /\ op.match \in Leaves(d.tree)
                           /\ ~IsIllegalConflict(d, op.match, op.body = Deletion, FALSE)
           u == AddRevision(t, rev, Info(p, del))
<1>1. ApplyPut(d, op) = IF allowed /\ rev \notin DOMAIN t
                        THEN [ok |-> TRUE, rev |-> rev, tree |-> u] ELSE Refused(t)
  BY DEF ApplyPut, CreateRevID
<1>2. ApplyPut(d, op) = [ok |-> TRUE, rev |-> rev, tree |-> u] /\ allowed /\ rev \notin DOMAIN t
  <2>1. Refused(t).ok = FALSE
    BY DEF Refused
  <2> HIDE DEF allowed, rev, u
  <2> QED
    BY <1>1, <2>1
<1>3. op.body \in 0..3 /\ op.match \in Revisions \cup {NoRev}
  BY DEF OpOK
<1>4. Forest(t) /\ NoRev \in RevIds /\ Len(NoRev) = 0
  BY DEF DocTree, NoRev, RevIds
<1>5. p = NoRev \/ p \in DOMAIN t
  <2>1. d.cur = NoRev \/ d.cur \in DOMAIN t
    BY <1>4, CurrentFacts
  <2>2. op.match # NoRev => op.match \in DOMAIN t
    BY <1>2 DEF Leaves
  <2> QED
    BY <2>1, <2>2
<1>6. p \in RevIds
  BY <1>4, <1>5 DEF Forest
<1> HIDE DEF p, allowed
<1>7. m \in Nat
  BY <1>6, LenProperties DEF RevIds
<1>8. rev \in RevIds /\ Len(rev) = m + 1 /\ Last(rev) = op.body /\ \A i \in 1..m : rev[i] = p[i]
  <2>1. op.body \in Nat /\ p \in Seq(Nat)
    BY <1>3, <1>6 DEF RevIds
  <2>2. /\ Append(p, op.body) \in Seq(Nat) /\ Len(Append(p, op.body)) = Len(p) + 1
        /\ \A i \in 1..Len(p) : Append(p, op.body)[i] = p[i]
        /\ Append(p, op.body)[Len(p) + 1] = op.body
    BY <2>1, AppendProperties
  <2> QED
    BY <2>2 DEF RevIds, Last
<1>9. Prefix(rev, m) = p
  <2>1. m \in 0..Len(rev)
    BY <1>7, <1>8
  <2>2. Prefix(rev, m) \in RevIds /\ Len(Prefix(rev, m)) = m /\ \A i \in 1..m : Prefix(rev, m)[i] = rev[i]
    BY <1>8, <2>1, PrefixFacts
  <2> QED
    BY <1>6, <1>8, <2>2, SameRev
<1>10. rev \in Revisions
  BY <1>2
<1>11. Prefix(rev, m + 1) = rev
  BY <1>8, <1>10, RevisionFacts
<1>12. /\ DOMAIN u = DOMAIN t \cup {rev} /\ u = [r \in DOMAIN u |-> u[r]] /\ u[rev] = Info(p, del)
       /\ \A r \in DOMAIN t : u[r] = t[r]
  BY <1>2 DEF AddRevision
<1> HIDE DEF rev, u
<1>13. \A k \in (m + 1)..Len(rev) : k = m + 1 /\ k = Len(rev) /\ k - 1 = m
  BY <1>7, <1>8
<1>14. Since(rev, m + 1) = {rev}
  <2>1. m + 1 \in (m + 1)..Len(rev)
    BY <1>7, <1>8
  <2> QED
    BY <1>11, <1>13, <2>1 DEF Since
<1>15. m \in 0..(Len(rev) - 1)
  BY <1>7, <1>8
<1>16. ASSUME NEW k \in (m + 1)..Len(rev)
       PROVE  /\ Prefix(rev, k) \notin DOMAIN t
              /\ u[Prefix(rev, k)] = Info(IF k = m + 1 THEN p ELSE Prefix(rev, k - 1), k = Len(rev) /\ del)
  BY <1>2, <1>11, <1>12, <1>13
<1>17. Extension(t, u, rev, p, m, del)
  BY <1>5, <1>8, <1>9, <1>10, <1>12, <1>14, <1>15, <1>16 DEF Extension
<1> QED
  BY <1>2, <1>17

(* PutExistingRev adds the revision and its unknown ancestors to the first *)
(* known one; with noConflicts that is the current revision, unless the    *)
(* push ends another branch.                                               *)
LEMMA PushExtends ==
    ASSUME NEW d, DocTree(d.tree), NEW op, op.kind = "push", OpOK(op),
           ApplyPutExistingRev(d, op).ok
    PROVE  LET a == ApplyPutExistingRev(d, op)
           IN  \E p, m : /\ Extension(d.tree, a.tree, a.rev, p, m, op.body = Deletion)
                         /\ op.noConflicts =>
                               p = d.cur \/ d.cur = NoRev
                               \/ (op.body = Deletion /\ p \in LiveLeaves(d.tree))
<1> DEFINE t == d.tree
           rev == op.rev
           n == Len(rev)
           len == op.length
           h == PushedHistory(op)
           I == {i \in 1..Len(h) : h[i] \in DOMAIN t}
           known == SelectInSeq(h, LAMBDA r : r \in DOMAIN t)
           p == IF known = 0 THEN NoRev ELSE h[known]
           new == IF known = 0 THEN ToSet(h) ELSE ToSet(SubSeq(h, 1, known - 1))
           del == op.body = Deletion
           above(r) == IF Front(r) \in new \cup {p} THEN Front(r) ELSE NoRev
           u == [r \in DOMAIN t \cup new |->
                    IF r \in new THEN Info(above(r), r = rev /\ del) ELSE t[r]]
           q == IF known = 0 THEN len ELSE known - 1
           m == n - q
<1>1. ApplyPutExistingRev(d, op) = IF known = 1 \/ IsIllegalConflict(d, p, del, op.noConflicts)
                                   THEN Refused(t) ELSE [ok |-> TRUE, rev |-> rev, tree |-> u]
  BY DEF ApplyPutExistingRev
<1>2. /\ ApplyPutExistingRev(d, op) = [ok |-> TRUE, rev |-> rev, tree |-> u]
      /\ known # 1 /\ ~IsIllegalConflict(d, p, del, op.noConflicts)
  <2>1. Refused(t).ok = FALSE
    BY DEF Refused
  <2> HIDE DEF known, p, rev, u
  <2> QED
    BY <1>1, <2>1
<1>3. rev \in Revisions /\ len \in 1..n /\ (del => Last(rev) = Deletion)
  BY DEF OpOK
<1>4. rev \in RevIds /\ rev # NoRev /\ n \in Nat \ {0} /\ Prefix(rev, n) = rev
      /\ \A k \in 1..n : Prefix(rev, k) \in Revisions
  BY <1>3, RevisionFacts
<1>5. len \in Nat \ {0} /\ len <= n
  BY <1>3, <1>4
<1>6. h = [i \in 1..len |-> Prefix(rev, n - i + 1)]
  BY DEF PushedHistory, Prefix
<1> HIDE DEF h
<1>7. \A i \in 1..len : n - i + 1 \in 1..n /\ n - i + 1 \in 0..n /\ n - i \in 0..n
  BY <1>4, <1>5
<1>8. h \in Seq(Revisions) /\ Len(h) = len /\ DOMAIN h = 1..len
  BY <1>4, <1>5, <1>6, <1>7
<1>9. known = IF I # {} THEN Min(I) ELSE 0
  BY Zenon DEF SelectInSeq
<1> HIDE DEF known
<1>10. /\ known \in 0..len /\ (known # 0 => known \in I)
       /\ \A i \in 1..len : (known = 0 \/ i < known) => h[i] \notin DOMAIN t
  <2>1. I \subseteq Nat
    BY <1>5, <1>8
  <2>2. CASE I = {}
    BY <1>5, <1>8, <1>9, <2>2
  <2>3. CASE I # {}
    <3>1. Min(I) \in I /\ \A y \in I : Min(I) <= y
      <4> HIDE DEF I
      <4> QED
        BY <2>1, <2>3, MinIsLeast
    <3>2. known \in I /\ \A y \in I : known <= y
      <4> HIDE DEF I
      <4> QED
        BY <1>9, <2>3, <3>1
    <3> QED
      BY <1>5, <1>8, <3>2
  <2> QED
    BY <2>2, <2>3
<1>11. q \in 1..len /\ q \in Nat /\ m \in 0..(n - 1) /\ m \in Nat
  BY <1>2, <1>4, <1>5, <1>10
<1>12. \A i \in 1..q : i \in 1..len /\ h[i] = Prefix(rev, n - i + 1) /\ h[i] \notin DOMAIN t
  <2>1. \A i \in 1..q : i \in 1..len /\ (known = 0 \/ i < known)
    BY <1>5, <1>10, <1>11
  <2> QED
    BY <1>6, <1>10, <2>1
<1>13. new = {h[i] : i \in 1..q}
  <2>1. CASE known = 0
    BY <1>8, <2>1 DEF ToSet
  <2>2. CASE known # 0
    <3>1. known - 1 = q /\ \A i \in 1..q : h[i] \in Revisions
      BY <1>8, <1>12, <2>2, ElementOfSeq
    <3>2. /\ SubSeq(h, 1, q) \in Seq(Revisions)
          /\ Len(SubSeq(h, 1, q)) = IF 1 <= q THEN q - 1 + 1 ELSE 0
          /\ \A i \in 1..(q - 1 + 1) : SubSeq(h, 1, q)[i] = h[1 + i - 1]
      <4>1. q \in Int /\ 1 \in Int
        BY <1>11
      <4> HIDE DEF q
      <4> QED
        BY <3>1, <4>1, SubSeqProperties
    <3> DEFINE g == SubSeq(h, 1, q)
    <3>3. Len(g) = q /\ DOMAIN g = 1..q
      BY <1>11, <3>2, LenProperties
    <3>4. \A i \in 1..q : g[i] = h[i]
      BY <1>11, <3>2
    <3>5. new = ToSet(g)
      BY <2>2, <3>1
    <3> HIDE DEF g, new, q
    <3> QED
      BY <3>3, <3>4, <3>5 DEF ToSet
  <2> QED
    BY <2>1, <2>2
<1> HIDE DEF new, q
<1>14. \A k \in (m + 1)..n : n - k + 1 \in 1..q /\ n - (n - k + 1) + 1 = k
  BY <1>4, <1>11
<1>15. \A i \in 1..q : n - i + 1 \in (m + 1)..n
  BY <1>4, <1>11
<1>16. \A k \in (m + 1)..n : Prefix(rev, k) \notin DOMAIN t /\ Prefix(rev, k) \in new
  BY <1>12, <1>13, <1>14
<1>17. new = Since(rev, m + 1)
  <2>1. Since(rev, m + 1) = {Prefix(rev, k) : k \in (m + 1)..n}
    BY DEF Since
  <2> HIDE DEF m
  <2> QED
    BY <1>12, <1>13, <1>15, <1>16, <2>1
<1>18. p = NoRev \/ (p = Prefix(rev, m) /\ p \in DOMAIN t)
  <2>1. CASE known = 0
    BY <2>1
  <2>2. CASE known # 0
    <3>1. known \in 1..len /\ h[known] \in DOMAIN t /\ n - known + 1 = m
      BY <1>4, <1>8, <1>10, <2>2 DEF q
    <3> QED
      BY <1>6, <2>2, <3>1
  <2> QED
    BY <2>1, <2>2
<1>19. known = 0 => p = NoRev
  OBVIOUS
<1> HIDE DEF p
<1>20. \A k \in (m + 1)..n : /\ k \in 0..n /\ k > 0 /\ k - 1 \in 0..n /\ k \in Nat
                             /\ (k # m + 1 => k - 1 \in (m + 1)..n) /\ (k = m + 1 => k - 1 = m)
  BY <1>4, <1>11
<1>21. ASSUME NEW k \in (m + 1)..n
       PROVE  above(Prefix(rev, k)) = IF k = m + 1 THEN p ELSE Prefix(rev, k - 1)
  <2>1. Front(Prefix(rev, k)) = Prefix(rev, k - 1)
    BY <1>4, <1>20, PrefixOf
  <2>2. CASE k # m + 1
    BY <1>16, <1>20, <2>1, <2>2
  <2>3. CASE k = m + 1 /\ p # NoRev
    BY <1>18, <1>20, <2>1, <2>3
  <2>4. CASE k = m + 1 /\ p = NoRev
    <3>1. Prefix(rev, m) \notin new
      <4> SUFFICES ASSUME Prefix(rev, m) \in new PROVE FALSE
        OBVIOUS
      <4>1. PICK j \in (m + 1)..n : Prefix(rev, m) = Prefix(rev, j)
        BY <1>17 DEF Since
      <4>2. m \in 0..n /\ j \in 0..n /\ m # j
        BY <1>4, <1>11
      <4> QED
        BY <1>4, <4>1, <4>2, PrefixInjective
    <3>2. k - 1 = m
      BY <1>20, <2>4
    <3> QED
      BY <2>1, <2>4, <3>1, <3>2
  <2> QED
    BY <2>2, <2>3, <2>4
<1>22. /\ DOMAIN u = DOMAIN t \cup Since(rev, m + 1) /\ u = [r \in DOMAIN u |-> u[r]]
       /\ \A r \in new : u[r] = Info(above(r), r = rev /\ del)
       /\ \A r \in DOMAIN t : r \notin new => u[r] = t[r]
  BY <1>17
<1>23. \A r \in DOMAIN t : r \notin new
  BY <1>12, <1>13
<1> HIDE DEF u, above, m
<1>24. ASSUME NEW k \in (m + 1)..n
       PROVE  u[Prefix(rev, k)] = Info(IF k = m + 1 THEN p ELSE Prefix(rev, k - 1), k = n /\ del)
  <2>1. (Prefix(rev, k) = rev) <=> (k = n)
    <3>1. n \in 0..n
      BY <1>4
    <3> QED
      BY <1>4, <1>20, <3>1, PrefixInjective
  <2> QED
    BY <1>16, <1>21, <1>22, <2>1
<1>25. Extension(t, u, rev, p, m, del)
  BY <1>3, <1>11, <1>16, <1>18, <1>22, <1>23, <1>24 DEF Extension
<1>26. op.noConflicts => p = d.cur \/ d.cur = NoRev \/ (del /\ p \in LiveLeaves(t))
  BY <1>2 DEF IsIllegalConflict
<1> QED
  BY <1>2, <1>25, <1>26

----------------------------------------------------------------------------
(* Where the bodies go.                                                    *)

Places == {"none", "inline", "external"}

(* Trees that differ only in where bodies are.                             *)
SameShape(u, t) ==
    /\ DOMAIN u = DOMAIN t /\ u = [r \in DOMAIN u |-> u[r]]
    /\ \A r \in DOMAIN t : u[r] \in Nodes /\ u[r].parent = t[r].parent /\ u[r].deleted = t[r].deleted

(* Where bodies are kept changes neither the leaves nor the winner nor the *)
(* histories of a tree.                                                    *)
LEMMA ShapeFacts ==
    ASSUME NEW t, NEW u, DocTree(t), SameShape(u, t)
    PROVE  /\ DocTree(u) /\ Leaves(u) = Leaves(t) /\ LiveLeaves(u) = LiveLeaves(t)
           /\ WinningRevision(u) = WinningRevision(t) /\ (u = EmptyTree <=> t = EmptyTree)
           /\ \A r, x : LinkedTo(t, r, x) => LinkedTo(u, r, x)
<1>1. DOMAIN u = DOMAIN t /\ u = [r \in DOMAIN u |-> u[r]]
  BY DEF SameShape
<1>2. \A r \in DOMAIN t : u[r] \in Nodes /\ u[r].parent = t[r].parent /\ u[r].deleted = t[r].deleted
  BY DEF SameShape
<1>3. Leaves(u) = Leaves(t)
  BY <1>1, <1>2 DEF Leaves
<1>4. LiveLeaves(u) = LiveLeaves(t)
  <2>1. Leaves(t) \subseteq DOMAIN t
    BY DEF Leaves
  <2> QED
    BY <1>2, <1>3, <2>1 DEF LiveLeaves
<1>5. DocTree(u)
  BY <1>1, <1>2 DEF DocTree, Forest
<1>6. u = EmptyTree <=> t = EmptyTree
  <2>1. t = [r \in DOMAIN t |-> t[r]]
    BY DEF DocTree, Forest
  <2>2. \A x : x = [r \in DOMAIN x |-> x[r]] /\ DOMAIN x = {} => x = EmptyTree
    BY DEF EmptyTree
  <2>3. DOMAIN EmptyTree = {}
    BY DEF EmptyTree
  <2>4. t = EmptyTree => DOMAIN t = {}
    BY <2>3, Zenon
  <2>5. u = EmptyTree => DOMAIN u = {}
    BY <2>3, Zenon
  <2>6. DOMAIN t = {} => t = EmptyTree
    BY <2>1, <2>2
  <2>7. DOMAIN u = {} => u = EmptyTree
    BY <1>1, <2>2
  <2> QED
    BY <1>1, <2>4, <2>5, <2>6, <2>7, Zenon
<1>7. WinningRevision(u) = WinningRevision(t)
  BY <1>3, <1>4, <1>6, SameWinner
<1>8. \A r, x : LinkedTo(t, r, x) => LinkedTo(u, r, x)
  BY <1>1, <1>2 DEF LinkedTo, Line
<1> QED
  BY <1>3, <1>4, <1>5, <1>6, <1>7, <1>8

(* Moving a body changes that revision only.                               *)
LEMMA SetBodyFacts ==
    ASSUME NEW t, DocTree(t), NEW r \in DOMAIN t, NEW where \in Places
    PROVE  /\ SameShape(SetBody(t, r, where), t) /\ SetBody(t, r, where)[r].body = where
           /\ \A x \in DOMAIN t \ {r} : SetBody(t, r, where)[x] = t[x]
<1> DEFINE u == SetBody(t, r, where)
<1>1. u = [t EXCEPT ![r].body = where]
  BY DEF SetBody
<1>2. DOMAIN u = DOMAIN t /\ u = [x \in DOMAIN u |-> u[x]]
  BY <1>1
<1>3. t[r] \in Nodes
  BY DEF DocTree
<1>4. u[r] = [t[r] EXCEPT !.body = where]
  BY <1>1
<1>5. u[r] \in Nodes /\ u[r].parent = t[r].parent /\ u[r].deleted = t[r].deleted /\ u[r].body = where
  BY <1>3, <1>4 DEF Nodes, Places
<1>6. \A x \in DOMAIN t \ {r} : u[x] = t[x] /\ u[x] \in Nodes
  BY <1>1 DEF DocTree
<1> HIDE DEF u
<1>7. SameShape(u, t)
  BY <1>2, <1>5, <1>6 DEF SameShape
<1> QED
  BY <1>5, <1>6, <1>7 DEF u

(* The bodies of a document: the winner has its own, other leaves can be   *)
(* read, and inner revisions and revisions that were pruned have a backup, *)
(* because a body is copied when its revision gets a child.                *)
BodiesOK(d, wr, ext, bk, exp) ==
    /\ d.cur \notin exp \cup {NoRev} => d.body = Last(d.cur)
    /\ \A r \in Leaves(d.tree) \ exp : r = d.cur \/ Readable(d.tree, r, ext)
    /\ \A r \in wr \ exp :
          /\ r \in DOMAIN d.tree \ Leaves(d.tree) =>
                r \in bk \/ (Last(r) = Deletion /\ ~d.tree[r].deleted)
          /\ r \notin DOMAIN d.tree => r \in bk \/ Last(r) = Deletion

(* storeOldBodyInRevTreeAndUpdateCurrent: the new winner has its body, and *)
(* so have the other leaves and the leaf that gets a child.                *)
LEMMA StoreFacts ==
    ASSUME NEW d, DocTree(d.tree), d.cur = WinningRevision(d.tree),
           NEW a, NEW p, NEW m, NEW del, Extension(d.tree, a.tree, a.rev, p, m, del),
           NEW wr, NEW bk, NEW exp, BodiesOK(d, wr, external, bk, exp)
    PROVE  LET s == StoreBodies(d, a)
               all == external \cup s.added
           IN  /\ SameShape(s.tree, a.tree) /\ s.cur = WinningRevision(a.tree)
               /\ s.cur \notin exp => s.body = Last(s.cur)
               /\ \A r \in Leaves(a.tree) \ exp : r = s.cur \/ Readable(s.tree, r, all)
               /\ p \in Leaves(d.tree) \ exp => Readable(s.tree, p, all)
               /\ \A r \in DOMAIN a.tree \ DOMAIN d.tree : r # a.rev => s.tree[r].body = "none"
               /\ s.removed \subseteq {s.cur} /\ s.removed \cap s.added = {}
<1> DEFINE t == d.tree
           u == a.tree
           rev == a.rev
           cur == WinningRevision(u)
           demoted == IF cur # d.cur /\ d.cur # NoRev /\ d.body # NoBody THEN {d.cur} ELSE {}
           kept == demoted \cup ({rev} \ {cur})
           added == {r \in kept : Where(r) = "external"}
           tree == [r \in DOMAIN u |-> IF r \in kept THEN [u[r] EXCEPT !.body = Where(r)] ELSE u[r]]
           promote == cur # rev /\ cur # d.cur
           body == CASE cur = rev -> Last(cur)
                     [] promote -> IF Readable(tree, cur, external \cup added)
                                   THEN Last(cur) ELSE NoBody
                     [] OTHER   -> d.body
           final == IF promote THEN SetBody(tree, cur, "none") ELSE tree
           removed == IF promote /\ tree[cur].body = "external" THEN {cur} ELSE {}
           s == StoreBodies(d, a)
           all == external \cup added
<1>1. s = [cur |-> cur, body |-> body, added |-> added, tree |-> final, removed |-> removed]
  BY DEF StoreBodies
<1>2. s.cur = cur /\ s.body = body /\ s.added = added /\ s.tree = final /\ s.removed = removed
  BY <1>1
<1>3. /\ DocTree(u) /\ u # EmptyTree /\ rev \in DOMAIN u \ DOMAIN t
      /\ DOMAIN t \subseteq DOMAIN u /\ \A r \in DOMAIN t : u[r] = t[r]
      /\ Leaves(u) = (Leaves(t) \ {p}) \cup {rev}
      /\ \A r \in DOMAIN u \ DOMAIN t : u[r].body = "none"
  BY ExtensionFacts
<1>4. cur \in Leaves(u) /\ cur \in DOMAIN u /\ cur # NoRev
  BY <1>3, CurrentFacts DEF DocTree
<1>5. d.cur = NoRev \/ (d.cur \in Leaves(t) /\ d.cur \in DOMAIN t)
  BY CurrentFacts DEF DocTree
<1>6. ASSUME NEW r \in Leaves(t) PROVE Last(r) # NoBody
  <2>1. r \in Revisions
    BY DEF DocTree, Leaves
  <2>2. Last(r) \in 0..3
    BY <2>1, RevisionFacts
  <2> QED
    BY <2>2 DEF NoBody
<1>7. \A r : Where(r) \in {"inline", "external"}
  BY DEF Where
<1>8. kept \subseteq {d.cur, rev} /\ kept \subseteq DOMAIN u /\ cur \notin kept
  BY <1>3, <1>4, <1>5
<1>9. DOMAIN tree = DOMAIN u /\ tree = [r \in DOMAIN tree |-> tree[r]]
  OBVIOUS
<1>10. ASSUME NEW r \in DOMAIN u
       PROVE  /\ tree[r] \in Nodes /\ tree[r].parent = u[r].parent /\ tree[r].deleted = u[r].deleted
              /\ tree[r].body = IF r \in kept THEN Where(r) ELSE u[r].body
  <2>1. u[r] \in Nodes
    BY <1>3 DEF DocTree
  <2>2. tree[r] = IF r \in kept THEN [u[r] EXCEPT !.body = Where(r)] ELSE u[r]
    OBVIOUS
  <2> HIDE DEF tree, kept
  <2> QED
    BY <1>7, <2>1, <2>2 DEF Nodes
<1> HIDE DEF tree
<1>11. SameShape(tree, u)
  BY <1>9, <1>10 DEF SameShape
<1>12. /\ SameShape(final, u)
       /\ \A r \in DOMAIN u \ {cur} : final[r] = tree[r]
       /\ promote => final[cur].body = "none"
       /\ ~promote => final = tree
  <2>1. DocTree(tree) /\ DOMAIN tree = DOMAIN u /\ cur \in DOMAIN tree /\ "none" \in Places
    BY <1>3, <1>4, <1>9, <1>11, ShapeFacts DEF Places
  <2>2. CASE promote
    <3> DEFINE v == SetBody(tree, cur, "none")
    <3>1. SameShape(v, tree) /\ v[cur].body = "none" /\ \A x \in DOMAIN tree \ {cur} : v[x] = tree[x]
      BY <2>1, SetBodyFacts
    <3>2. final = v
      BY <2>2
    <3> HIDE DEF v, final
    <3> QED
      BY <1>11, <2>1, <2>2, <3>1, <3>2 DEF SameShape
  <2>3. CASE ~promote
    BY <1>11, <2>3
  <2> QED
    BY <2>2, <2>3
<1> HIDE DEF final
<1>13. \A r \in kept : Readable(tree, r, all)
  BY <1>7, <1>8, <1>10 DEF Readable
<1>14. ASSUME NEW r \in Leaves(t) \ exp, r # cur PROVE Readable(tree, r, all)
  <2>1. r \in DOMAIN t /\ r \in DOMAIN u /\ r # NoRev
    BY <1>3 DEF Leaves, DocTree, Forest
  <2>2. CASE r = d.cur
    <3>1. d.body = Last(d.cur)
      BY <1>14, <2>1, <2>2 DEF BodiesOK
    <3>2. d.body # NoBody
      BY <1>6, <2>2, <3>1
    <3>3. r \in kept
      BY <1>14, <2>1, <2>2, <3>2
    <3> QED
      BY <1>13, <3>3
  <2>3. CASE r # d.cur
    <3>1. Readable(t, r, external)
      BY <1>14, <2>3 DEF BodiesOK
    <3>2. u[r] = t[r] /\ r \notin kept
      BY <1>3, <1>8, <2>1, <2>3
    <3>3. tree[r].body = t[r].body
      BY <1>10, <2>1, <3>2
    <3> QED
      BY <3>1, <3>3 DEF Readable
  <2> QED
    BY <2>2, <2>3
<1>15. ASSUME NEW r \in Leaves(u) \ exp, r # cur PROVE Readable(final, r, all)
  <2>1. r \in DOMAIN u
    BY DEF Leaves
  <2>2. Readable(tree, r, all)
    <3>1. CASE r = rev
      BY <1>13, <1>15, <3>1
    <3>2. CASE r # rev
      BY <1>3, <1>14, <1>15, <3>2
    <3> QED
      BY <3>1, <3>2
  <2> QED
    BY <1>12, <1>15, <2>1, <2>2 DEF Readable
<1>16. ASSUME p \in Leaves(t) \ exp PROVE Readable(final, p, all)
  <2>1. p \in DOMAIN t /\ p \in DOMAIN u /\ p # rev
    BY <1>3, <1>16 DEF Leaves
  <2>2. p # cur
    BY <1>3, <1>4, <2>1
  <2>3. Readable(tree, p, all)
    BY <1>14, <1>16, <2>2
  <2> QED
    BY <1>12, <2>1, <2>2, <2>3 DEF Readable
<1>17. ASSUME NEW r \in DOMAIN u \ DOMAIN t, r # rev PROVE final[r].body = "none"
  <2>1. r \notin kept
    BY <1>3, <1>5, <1>8, <1>17
  <2>2. tree[r].body = "none"
    BY <1>3, <1>10, <2>1
  <2> QED
    BY <1>4, <1>12, <2>2
<1>18. removed \subseteq {cur} /\ removed \cap added = {}
  BY <1>8
<1>19. ASSUME cur \notin exp PROVE body = Last(cur)
  <2>1. CASE cur = rev
    BY <2>1
  <2>2. CASE cur # rev /\ cur = d.cur
    <3>1. d.body = Last(d.cur)
      BY <1>4, <1>19, <2>2 DEF BodiesOK
    <3> QED
      BY <2>2, <3>1
  <2>3. CASE cur # rev /\ cur # d.cur
    <3>1. cur \in Leaves(t) /\ cur \in DOMAIN t
      BY <1>3, <1>4, <2>3 DEF Leaves
    <3>2. Readable(t, cur, external)
      BY <1>19, <2>3, <3>1 DEF BodiesOK
    <3>3. tree[cur].body = t[cur].body
      BY <1>3, <1>4, <1>8, <1>10, <3>1
    <3>4. Readable(tree, cur, all)
      BY <3>2, <3>3 DEF Readable
    <3> HIDE DEF cur, all, rev
    <3> QED
      BY <2>3, <3>4 DEF all
  <2> QED
    BY <2>1, <2>2, <2>3
<1> HIDE DEF cur, added, body, removed, s
<1> QED
  BY <1>2, <1>12, <1>15, <1>16, <1>17, <1>18, <1>19 DEF s, cur

(* Only the body of the revision that stops winning and the new body are   *)
(* written.                                                                *)
LEMMA AddedFacts ==
    ASSUME NEW d, NEW a
    PROVE  /\ StoreBodies(d, a).added \subseteq {d.cur, a.rev}
           /\ d.cur = NoRev => StoreBodies(d, a).added \subseteq {a.rev}
           /\ \A rev : BackupAncestorRevs(StoreBodies(d, a), rev).added = StoreBodies(d, a).added
<1> DEFINE s == StoreBodies(d, a)
<1>1. s.added \subseteq {d.cur, a.rev} /\ (d.cur = NoRev => s.added \subseteq {a.rev})
  BY DEF StoreBodies
<1>2. s = [cur |-> s.cur, body |-> s.body, added |-> s.added, tree |-> s.tree, removed |-> s.removed]
  BY DEF StoreBodies
<1> HIDE DEF s
<1>3. ASSUME NEW rev PROVE BackupAncestorRevs(s, rev).added = s.added
  BY <1>2 DEF BackupAncestorRevs
<1> QED
  BY <1>1, <1>3 DEF s

(* The body that is backed up is that of an ancestor, and of the leaf that *)
(* gets a child when it can be read.                                       *)
LEMMA BackedUpFacts ==
    ASSUME NEW t, DocTree(t), NEW u, NEW rev, NEW p, NEW m, NEW del,
           Extension(t, u, rev, p, m, del), NEW s, SameShape(s.tree, u),
           \A r \in DOMAIN u \ DOMAIN t : r # rev => s.tree[r].body = "none"
    PROVE  LET old == BackedUp(s, rev)
               all == external \cup s.added
           IN  /\ old # NoRev => old \in DOMAIN u \ Leaves(u)
               /\ p # NoRev /\ Readable(s.tree, p, all) => old = p
<1> DEFINE v == s.tree
           n == Len(rev)
           h == History(v, rev)
           g == Tail(h)
           all == external \cup s.added
           I == {i \in 1..Len(g) : Readable(v, g[i], all)}
           k == SelectInSeq(g, LAMBDA r : Readable(v, r, all))
           old == BackedUp(s, rev)
<1>1. old = IF k = 0 THEN NoRev ELSE g[k]
  BY DEF BackedUp
<1>2. /\ DocTree(u) /\ rev \in DOMAIN u
      /\ p # NoRev => LinkedTo(u, p, rev) /\ Len(p) = m /\ p # rev
  BY ExtensionFacts
<1>3. /\ DocTree(v) /\ Forest(v) /\ DOMAIN v = DOMAIN u /\ Leaves(v) = Leaves(u)
      /\ p # NoRev => LinkedTo(v, p, rev)
  BY <1>2, ShapeFacts DEF SameShape, DocTree
<1>4. /\ rev \in Revisions /\ m \in 0..(n - 1)
      /\ p = NoRev \/ p = Prefix(rev, m)
      /\ \A j \in (m + 1)..n : Prefix(rev, j) \notin DOMAIN t
  BY DEF Extension
<1>5. rev \in RevIds /\ n \in Nat \ {0} /\ Prefix(rev, n) = rev
  BY <1>4, RevisionFacts
<1>6. m \in Nat /\ m < n
  BY <1>4, <1>5
<1>7. /\ Len(h) \in 1..n /\ h \in Seq(DOMAIN v)
      /\ \A i \in 1..Len(h) : h[i] = Prefix(rev, n - i + 1)
      /\ \A j \in 1..n : Line(v, rev, j) <=> n - j + 1 <= Len(h)
  BY <1>2, <1>3, HistoryFacts
<1>8. k = IF I # {} THEN Min(I) ELSE 0
  BY Zenon DEF SelectInSeq
<1> HIDE DEF h, k, old
<1>9. Len(h) \in Nat \ {0} /\ h # <<>>
  BY <1>5, <1>7, EmptySeq
<1>10. Len(g) = Len(h) - 1 /\ g \in Seq(DOMAIN v) /\ \A i \in 1..Len(g) : g[i] = h[i + 1]
  BY <1>7, <1>9, HeadTailProperties
<1> HIDE DEF g
<1>11. Len(g) \in Nat /\ \A i \in 1..Len(g) : /\ i + 1 \in 1..Len(h) /\ n - (i + 1) + 1 = n - i
                                              /\ n - i \in 1..n /\ n - i \in 0..n /\ i \in Nat \ {0}
  BY <1>5, <1>7, <1>9, <1>10
<1>12. \A i \in 1..Len(g) : g[i] = Prefix(rev, n - i) /\ g[i] \in DOMAIN u
  <2>1. \A i \in 1..Len(g) : g[i] \in DOMAIN v
    BY <1>10, ElementOfSeq
  <2> QED
    BY <1>3, <1>7, <1>10, <1>11, <2>1
<1>13. ASSUME NEW i \in 1..Len(g) PROVE g[i] \notin Leaves(v)
  <2> DEFINE j == n - i
  <2>0. i + 1 \in 1..Len(h) /\ n - i \in 1..n /\ i \in Nat \ {0}
    BY <1>11
  <2>1. j \in 1..n /\ n - j + 1 <= Len(h) /\ j + 1 \in (j + 1)..n /\ (j + 1) - 1 = j
    BY <1>5, <1>9, <2>0
  <2> HIDE DEF j
  <2>2. Line(v, rev, j)
    BY <1>7, <2>1
  <2>3. Prefix(rev, j + 1) \in DOMAIN v /\ v[Prefix(rev, j + 1)].parent = Prefix(rev, j)
    BY <2>1, <2>2 DEF Line
  <2> QED
    BY <1>12, <2>3 DEF Leaves, j
<1>14. I \subseteq Nat /\ I \subseteq 1..Len(g)
  BY <1>11
<1>15. I # {} => Min(I) \in I /\ \A y \in I : Min(I) <= y
  <2> HIDE DEF I
  <2> QED
    BY <1>14, MinIsLeast
<1>16. ASSUME old # NoRev PROVE old \in DOMAIN u \ Leaves(u)
  <2>1. k # 0 /\ old = g[k]
    BY <1>1, <1>16
  <2>2. k \in 1..Len(g)
    BY <1>8, <1>14, <1>15, <2>1
  <2> QED
    BY <1>3, <1>12, <1>13, <2>1, <2>2
<1>17. ASSUME p # NoRev, Readable(v, p, all) PROVE old = p
  <2> DEFINE i == n - m
  <2>1. m # 0
    <3> SUFFICES ASSUME m = 0 PROVE FALSE
      OBVIOUS
    <3>1. 0 \in 0..n
      BY <1>5
    <3> QED
      BY <1>4, <1>5, <1>17, <3>1, PrefixOf
  <2>2. m \in 1..n /\ Line(v, rev, m)
    BY <1>2, <1>3, <1>5, <1>6, <1>17, <2>1 DEF LinkedTo
  <2>3. i \in 1..Len(g) /\ n - i = m
    BY <1>5, <1>6, <1>7, <1>9, <1>10, <2>2
  <2>4. i \in I
    BY <1>4, <1>12, <1>17, <2>3
  <2>5. ASSUME NEW j \in I, j < i PROVE FALSE
    <3>1. j \in 1..Len(g) /\ Readable(v, g[j], all) /\ j \in Nat \ {0}
      BY <1>11
    <3>2. n - j \in (m + 1)..n /\ n - j # n /\ n - j \in 0..n /\ n \in 0..n
      BY <1>5, <1>6, <1>11, <2>3, <2>5, <3>1
    <3>3. g[j] = Prefix(rev, n - j) /\ g[j] \in DOMAIN u \ DOMAIN t
      BY <1>4, <1>12, <3>1, <3>2
    <3>4. g[j] # rev
      <4> SUFFICES ASSUME g[j] = rev PROVE FALSE
        OBVIOUS
      <4>1. Prefix(rev, n - j) = Prefix(rev, n)
        BY <1>5, <3>3
      <4>2. n - j = n
        BY <1>5, <3>2, <4>1, PrefixInjective
      <4> QED
        BY <3>2, <4>2
    <3>5. v[g[j]].body = "none"
      BY <3>3, <3>4
    <3> QED
      BY <3>1, <3>5 DEF Readable
  <2>6. k = i
    <3>1. k \in I /\ k <= i
      BY <1>8, <1>15, <2>4
    <3>2. k \in Nat /\ i \in Nat
      BY <1>14, <2>4, <3>1
    <3>3. ~ k < i
      BY <2>5, <3>1
    <3> HIDE DEF i
    <3> QED
      BY <3>1, <3>2, <3>3
  <2>7. k # 0
    BY <1>11, <2>3, <2>6
  <2> QED
    BY <1>1, <1>4, <1>12, <1>17, <2>3, <2>6, <2>7
<1> QED
  BY <1>16, <1>17 DEF old

----------------------------------------------------------------------------
(* What an update makes of a document.                                     *)

(* A revision of a history is an ancestor by its identifier too.           *)
LEMMA LinkedPrefix ==
    ASSUME NEW t, NEW r \in RevIds, NEW x \in RevIds, LinkedTo(t, r, x)
    PROVE  IsPrefix(r, x)
<1>1. Len(r) \in 0..Len(r) /\ Len(r) <= Len(x) /\ r = Prefix(x, Len(r))
  BY LenProperties DEF LinkedTo, RevIds
<1>2. Prefix(r, Len(r)) = r
  BY <1>1, PrefixOf
<1> QED
  BY <1>1, <1>2 DEF IsPrefix, Prefix

(* Ancestors of ancestors are ancestors.                                   *)
LEMMA PrefixTransitive ==
    ASSUME NEW r \in RevIds, NEW s \in RevIds, NEW x \in RevIds, IsPrefix(r, s), IsPrefix(s, x)
    PROVE  IsPrefix(r, x)
<1>1. /\ Len(r) \in Nat /\ Len(s) \in Nat /\ Len(x) \in Nat
      /\ Len(r) <= Len(s) /\ Prefix(r, Len(r)) = Prefix(s, Len(r))
      /\ Len(s) <= Len(x) /\ Prefix(s, Len(s)) = Prefix(x, Len(s))
  BY LenProperties DEF IsPrefix, Prefix, RevIds
<1>2. Len(s) \in 0..Len(s) /\ Len(s) \in 0..Len(x) /\ Len(r) \in 0..Len(s) /\ Len(r) <= Len(x)
  BY <1>1
<1>3. Prefix(Prefix(x, Len(s)), Len(r)) = Prefix(x, Len(r)) /\ Prefix(s, Len(s)) = s
  BY <1>2, PrefixOf
<1> QED
  BY <1>1, <1>2, <1>3 DEF IsPrefix, Prefix

(* A written revision is in the tree, below one, or on an ended branch.    *)
NothingLost(tree, wr) ==
    \A r \in wr :
        \/ \E s \in DOMAIN tree : IsPrefix(r, s)
        \/ \E t \in wr : Last(t) = Deletion /\ IsPrefix(r, t)

(* The tree of a document with the written revisions wr.                   *)
BranchesOK(d, wr) ==
    /\ wr \subseteq Revisions
    /\ DocTree(d.tree) /\ d.cur = WinningRevision(d.tree)
    /\ Leaves(d.tree) \subseteq wr
    /\ \A r \in DOMAIN d.tree : d.tree[r].deleted => Last(r) = Deletion /\ r \in wr
    /\ NothingLost(d.tree, wr)

DocOK(d, wr, ext, bk, exp) == BranchesOK(d, wr) /\ BodiesOK(d, wr, ext, bk, exp)

(* A revision goes on in a tree, or was ended far behind its branches.     *)
GoesOn(r, u, wr) ==
    \/ \E s \in DOMAIN u : IsPrefix(r, s)
    \/ \E x \in wr : IsPrefix(r, x) /\ FarBehind(x, u)

(* What a step from one tree to another does to the branches.              *)
Continued(t, u, wr) == \A r \in Leaves(t) : GoesOn(r, u, wr)

(* Pruning removes a revision with its branch, when that has ended.        *)
LEMMA PruneGoesOn ==
    ASSUME NEW t, DocTree(t), t # EmptyTree, NEW u \in PruneRevisions(t), NEW wr,
           \A r \in DOMAIN t : t[r].deleted => Last(r) = Deletion /\ r \in wr,
           NEW x \in DOMAIN t
    PROVE  GoesOn(x, u, wr)
<1>1. /\ LiveLeaves(u) = LiveLeaves(t) /\ Leaves(u) \subseteq DOMAIN u /\ Leaves(t) \subseteq DOMAIN t
      /\ \A l \in Leaves(t) \ Leaves(u) : l \in TooOldBranches(t)
  BY PruneFacts DEF Leaves
<1>2. PICK l \in Leaves(t) : LinkedTo(t, x, l)
  BY EndsExist DEF Ends, DocTree
<1>3. l \in DOMAIN t /\ l \in RevIds \ {NoRev} /\ x \in RevIds /\ l \in RevIds /\ DOMAIN t \subseteq RevIds \ {NoRev}
  BY <1>1 DEF DocTree, Forest
<1>4. IsPrefix(x, l)
  BY <1>2, <1>3, LinkedPrefix
<1>5. CASE l \in Leaves(u)
  BY <1>1, <1>4, <1>5 DEF GoesOn
<1>6. CASE l \notin Leaves(u)
  <2> DEFINE G == {Generation(r) : r \in LiveLeaves(t)}
  <2>1. t[l].deleted /\ LiveLeaves(t) # {} /\ Generation(l) < Min(G) - RevsLimit
    BY <1>1, <1>6 DEF TooOldBranches, ShortestLiveGeneration
  <2>2. Last(l) = Deletion /\ l \in wr
    BY <1>3, <2>1
  <2>3. LiveLeaves(t) \subseteq RevIds \ {NoRev}
    BY <1>1, <1>3 DEF LiveLeaves
  <2>4. G \subseteq Nat /\ G # {}
    BY <2>1, <2>3, FrontFacts DEF Generation
  <2>5. Min(G) \in G /\ \A y \in G : Min(G) <= y
    <3> HIDE DEF G
    <3> QED
      BY <2>4, MinIsLeast
  <2>6. Generation(l) \in Nat /\ RevsLimit \in Nat
    BY <1>3, FrontFacts, RevTreeAssumption DEF Generation
  <2>7. ASSUME NEW r \in LiveLeaves(t) PROVE Generation(l) + RevsLimit < Generation(r)
    <3>1. Generation(r) \in G
      OBVIOUS
    <3>2. Min(G) <= Generation(r) /\ Generation(r) \in Nat /\ Min(G) \in Nat
      <4> HIDE DEF G
      <4> QED
        BY <2>4, <2>5, <3>1
    <3> HIDE DEF G
    <3> QED
      BY <2>1, <2>6, <3>2
  <2>8. FarBehind(l, u)
    BY <1>1, <2>1, <2>2, <2>7 DEF FarBehind
  <2> QED
    BY <1>4, <2>2, <2>8 DEF GoesOn
<1> QED
  BY <1>5, <1>6

(* Pruning leaves the document right.                                      *)
LEMMA PruneKeeps ==
    ASSUME NEW d, NEW wr, NEW ext, NEW bk, NEW exp, DocOK(d, wr, ext, bk, exp),
           d.tree # EmptyTree, NEW e, e.tree \in PruneRevisions(d.tree),
           e.cur = d.cur, e.body = d.body
    PROVE  DocOK(e, wr, ext, bk, exp)
<1> DEFINE t == d.tree
           u == e.tree
<1>1. /\ DocTree(u) /\ PartOf(u, t) /\ Leaves(u) \subseteq Leaves(t)
      /\ \A l \in Leaves(t) \ Leaves(u) : l \in TooOldBranches(t) /\ l \notin DOMAIN u
      /\ WinningRevision(u) = WinningRevision(t)
  BY PruneFacts DEF DocOK, BranchesOK
<1>2. /\ wr \subseteq Revisions /\ DocTree(t) /\ d.cur = WinningRevision(t) /\ Leaves(t) \subseteq wr
      /\ \A r \in DOMAIN t : t[r].deleted => Last(r) = Deletion /\ r \in wr
      /\ NothingLost(t, wr)
  BY DEF DocOK, BranchesOK
<1>3. /\ DOMAIN u \subseteq DOMAIN t
      /\ \A r \in DOMAIN u : u[r].deleted = t[r].deleted /\ u[r].body = t[r].body
  BY <1>1 DEF PartOf
<1>4. wr \subseteq RevIds /\ DOMAIN t \subseteq RevIds
  BY <1>2, RevisionFacts DEF DocTree
<1>5. NothingLost(u, wr)
  <2> SUFFICES ASSUME NEW r \in wr
               PROVE  \/ \E s \in DOMAIN u : IsPrefix(r, s)
                      \/ \E x \in wr : Last(x) = Deletion /\ IsPrefix(r, x)
    BY DEF NothingLost
  <2>1. CASE \E s \in DOMAIN t : IsPrefix(r, s)
    <3>1. PICK s \in DOMAIN t : IsPrefix(r, s)
      BY <2>1
    <3>2. GoesOn(s, u, wr)
      BY <1>2, PruneGoesOn
    <3>3. CASE \E x \in DOMAIN u : IsPrefix(s, x)
      BY <1>3, <1>4, <3>1, <3>3, PrefixTransitive
    <3>4. CASE \E x \in wr : IsPrefix(s, x) /\ FarBehind(x, u)
      BY <1>4, <3>1, <3>4, PrefixTransitive DEF FarBehind
    <3> QED
      BY <3>2, <3>3, <3>4 DEF GoesOn
  <2>2. CASE \E x \in wr : Last(x) = Deletion /\ IsPrefix(r, x)
    BY <2>2
  <2> QED
    BY <1>2, <2>1, <2>2 DEF NothingLost
<1>6. BranchesOK(e, wr)
  BY <1>1, <1>2, <1>3, <1>5 DEF BranchesOK
<1>7. ASSUME NEW r \in Leaves(u) \ exp PROVE r = e.cur \/ Readable(u, r, ext)
  <2>1. r \in Leaves(t) /\ r \in DOMAIN u
    BY <1>1 DEF Leaves
  <2>2. r = d.cur \/ Readable(t, r, ext)
    BY <2>1 DEF DocOK, BodiesOK
  <2> QED
    BY <1>3, <2>1, <2>2 DEF Readable
<1>8. ASSUME NEW r \in wr \ exp
      PROVE  /\ r \in DOMAIN u \ Leaves(u) => r \in bk \/ (Last(r) = Deletion /\ ~u[r].deleted)
             /\ r \notin DOMAIN u => r \in bk \/ Last(r) = Deletion
  <2>1. /\ r \in DOMAIN t \ Leaves(t) => r \in bk \/ (Last(r) = Deletion /\ ~t[r].deleted)
        /\ r \notin DOMAIN t => r \in bk \/ Last(r) = Deletion
    BY DEF DocOK, BodiesOK
  <2>2. r \in DOMAIN u \ Leaves(u) => r \in DOMAIN t \ Leaves(t) /\ u[r].deleted = t[r].deleted
    BY <1>1, <1>3
  <2>3. r \notin DOMAIN u /\ r \in Leaves(t) => Last(r) = Deletion
    <3>1. Leaves(u) \subseteq DOMAIN u /\ Leaves(t) \subseteq DOMAIN t
      BY DEF Leaves
    <3> QED
      BY <1>1, <1>2, <3>1 DEF TooOldBranches
  <2> QED
    BY <2>1, <2>2, <2>3
<1>9. e.cur \notin exp \cup {NoRev} => e.body = Last(e.cur)
  BY DEF DocOK, BodiesOK
<1>10. BodiesOK(e, wr, ext, bk, exp)
  BY <1>7, <1>8, <1>9 DEF BodiesOK
<1> QED
  BY <1>6, <1>10 DEF DocOK

(* The revisions whose body is neither in its new place nor was before.    *)
NotKept(failed, old, bk) == {r \in failed : r \notin (IF r = old THEN bk ELSE external)}

(* The document before it is pruned: a revision was added, bodies were     *)
(* moved, and some of the body documents, or the backup, may not have been *)
(* written.                                                                *)
LEMMA UpdateKeeps ==
    ASSUME NEW d, NEW wr, NEW bk, NEW exp, DocOK(d, wr, external, bk, exp),
           NEW a, NEW p, NEW m, NEW del, Extension(d.tree, a.tree, a.rev, p, m, del),
           NEW failed, NEW e,
           LET s == BackupAncestorRevs(StoreBodies(d, a), a.rev)
           IN  e.tree = s.tree /\ e.cur = s.cur /\ e.body = s.body
    PROVE  LET s == BackupAncestorRevs(StoreBodies(d, a), a.rev)
               old == BackedUp(StoreBodies(d, a), a.rev)
           IN  /\ DocOK(e, wr \cup {a.rev}, external \cup (PersistedBodies(s) \ failed),
                        bk \cup ({old} \ failed), exp \cup NotKept(failed, old, bk))
               /\ SameShape(e.tree, a.tree)
<1> DEFINE t == d.tree
           u == a.tree
           rev == a.rev
           s0 == StoreBodies(d, a)
           s == BackupAncestorRevs(s0, rev)
           old == BackedUp(s0, rev)
           all == external \cup s0.added
           ext == external \cup (PersistedBodies(s) \ failed)
           bk1 == bk \cup ({old} \ failed)
           exp1 == exp \cup NotKept(failed, old, bk)
           wr1 == wr \cup {rev}
<1>1. /\ wr \subseteq Revisions /\ DocTree(t) /\ d.cur = WinningRevision(t) /\ Leaves(t) \subseteq wr
      /\ \A r \in DOMAIN t : t[r].deleted => Last(r) = Deletion /\ r \in wr
      /\ NothingLost(t, wr) /\ BodiesOK(d, wr, external, bk, exp)
  BY DEF DocOK, BranchesOK
<1>2. /\ DocTree(u) /\ u # EmptyTree /\ rev \in DOMAIN u \ DOMAIN t
      /\ DOMAIN t \subseteq DOMAIN u /\ \A r \in DOMAIN t : u[r] = t[r]
      /\ Leaves(u) = (Leaves(t) \ {p}) \cup {rev}
      /\ \A r \in DOMAIN u \ DOMAIN t : u[r].deleted = (r = rev /\ del)
  BY <1>1, ExtensionFacts
<1>3. rev \in Revisions /\ (del => Last(rev) = Deletion)
  BY DEF Extension
<1>4. /\ SameShape(s0.tree, u) /\ s0.cur = WinningRevision(u)
      /\ s0.cur \notin exp => s0.body = Last(s0.cur)
      /\ \A r \in Leaves(u) \ exp : r = s0.cur \/ Readable(s0.tree, r, all)
      /\ p \in Leaves(t) \ exp => Readable(s0.tree, p, all)
      /\ \A r \in DOMAIN u \ DOMAIN t : r # rev => s0.tree[r].body = "none"
      /\ s0.removed \subseteq {s0.cur}
  BY <1>1, StoreFacts
<1>5. /\ old # NoRev => old \in DOMAIN u \ Leaves(u)
      /\ p # NoRev /\ Readable(s0.tree, p, all) => old = p
  <2> HIDE DEF s0, old
  <2>1. Extension(t, u, rev, p, m, del) /\ DocTree(t) /\ SameShape(s0.tree, u)
    BY <1>1, <1>4
  <2>2. \A r \in DOMAIN u \ DOMAIN t : r # rev => s0.tree[r].body = "none"
    BY <1>4
  <2> HIDE DEF t, u, rev
  <2> QED
    BY <2>1, <2>2, BackedUpFacts DEF old
<1>6. s0 = [cur |-> s0.cur, body |-> s0.body, added |-> s0.added, tree |-> s0.tree, removed |-> s0.removed]
  BY DEF StoreBodies
<1> HIDE DEF s0, old
<1>7. DocTree(s0.tree) /\ DOMAIN s0.tree = DOMAIN u
  BY <1>2, <1>4, ShapeFacts DEF SameShape
<1>8. /\ s.cur = s0.cur /\ s.body = s0.body /\ s.added = s0.added
      /\ s.removed \subseteq s0.removed \cup {old}
      /\ s.tree = IF old = NoRev THEN s0.tree ELSE SetBody(s0.tree, old, "none")
  BY <1>6 DEF BackupAncestorRevs, old
<1> HIDE DEF s
<1>9. /\ SameShape(s.tree, u) /\ DOMAIN s.tree = DOMAIN u
      /\ \A r \in DOMAIN u : r # old \/ old = NoRev => s.tree[r] = s0.tree[r]
  <2>1. CASE old = NoRev
    BY <1>4, <1>7, <1>8, <2>1
  <2>2. CASE old # NoRev
    <3>1. "none" \in Places /\ old \in DOMAIN s0.tree
      BY <1>5, <1>7, <2>2 DEF Places
    <3>2. /\ SameShape(s.tree, s0.tree)
          /\ \A r \in DOMAIN s0.tree \ {old} : s.tree[r] = s0.tree[r]
      BY <1>7, <1>8, <2>2, <3>1, SetBodyFacts
    <3> QED
      BY <1>4, <1>7, <2>2, <3>2 DEF SameShape
  <2> QED
    BY <2>1, <2>2
<1>10. /\ DocTree(s.tree) /\ Leaves(s.tree) = Leaves(u)
       /\ WinningRevision(s.tree) = WinningRevision(u)
  BY <1>2, <1>9, ShapeFacts
<1>11. \A r \in DOMAIN u : s.tree[r].deleted = u[r].deleted
  BY <1>9 DEF SameShape
<1>12. NothingLost(s.tree, wr1)
  <2>1. IsPrefix(rev, rev)
    <3>1. rev \in RevIds /\ LinkedTo(u, rev, rev)
      BY <1>2, <1>3, LinkedSelf, RevisionFacts DEF DocTree
    <3> QED
      BY <3>1, LinkedPrefix
  <2> QED
    BY <1>1, <1>2, <1>9, <2>1 DEF NothingLost
<1>13. \A r \in DOMAIN u : s.tree[r].deleted => Last(r) = Deletion /\ r \in wr1
  BY <1>1, <1>2, <1>3, <1>11
<1>14. e.tree = s.tree /\ e.cur = s.cur /\ e.body = s.body
  BY DEF s, s0
<1>15. BranchesOK(e, wr1)
  BY <1>1, <1>2, <1>3, <1>4, <1>8, <1>9, <1>10, <1>12, <1>13, <1>14 DEF BranchesOK
<1>16. ASSUME NEW r \in Leaves(u) \ exp1 PROVE r = s.cur \/ Readable(s.tree, r, ext)
  <2>1. r \in DOMAIN u /\ r \notin exp
    BY DEF Leaves
  <2>2. r = s0.cur \/ Readable(s0.tree, r, all)
    BY <1>4, <2>1
  <2>3. r # old \/ old = NoRev
    BY <1>5
  <2>4. s.tree[r] = s0.tree[r]
    BY <1>9, <2>1, <2>3
  <2>6. r \in failed => r \in external
    BY <1>2, <2>1, <2>3 DEF NotKept, DocTree, Forest
  <2>5. r # s0.cur /\ r \in s0.added => r \in PersistedBodies(s)
    <3>1. r # NoRev
      BY <1>2, <2>1 DEF DocTree, Forest
    <3> QED
      BY <1>4, <1>8, <2>3, <3>1 DEF PersistedBodies
  <2> QED
    BY <1>8, <2>2, <2>4, <2>5, <2>6 DEF Readable
<1>17. ASSUME NEW r \in wr1 \ exp1
       PROVE  /\ r \in DOMAIN u \ Leaves(u) => r \in bk1 \/ (Last(r) = Deletion /\ ~s.tree[r].deleted)
              /\ r \notin DOMAIN u => r \in bk1 \/ Last(r) = Deletion
  <2>1. r \notin exp
    OBVIOUS
  <2>2. ASSUME r \in DOMAIN u \ Leaves(u)
        PROVE  r \in bk1 \/ (Last(r) = Deletion /\ ~s.tree[r].deleted)
    <3>1. r # rev /\ r \in wr
      BY <1>2, <2>2
    <3>2. CASE r \in Leaves(t)
      <4>1. r = p /\ r # NoRev
        BY <1>2, <2>2, <3>2 DEF DocTree, Forest
      <4>2. old = p
        BY <1>4, <1>5, <2>1, <3>2, <4>1
      <4> QED
        BY <4>1, <4>2 DEF NotKept
    <3>3. CASE r \in DOMAIN t \ Leaves(t)
      <4>1. r \in bk \/ (Last(r) = Deletion /\ ~t[r].deleted)
        BY <1>1, <2>1, <3>1, <3>3 DEF BodiesOK
      <4>2. s.tree[r].deleted = t[r].deleted
        BY <1>2, <1>11, <3>3
      <4> QED
        BY <4>1, <4>2
    <3>4. CASE r \notin DOMAIN t
      <4>1. r \in bk \/ Last(r) = Deletion
        BY <1>1, <2>1, <3>1, <3>4 DEF BodiesOK
      <4>2. ~s.tree[r].deleted
        BY <1>2, <1>11, <2>2, <3>1, <3>4
      <4> QED
        BY <4>1, <4>2
    <3> QED
      BY <3>2, <3>3, <3>4
  <2>3. ASSUME r \notin DOMAIN u PROVE r \in bk1 \/ Last(r) = Deletion
    <3>1. r \in wr /\ r \notin DOMAIN t
      BY <1>2, <2>3
    <3> QED
      BY <1>1, <2>1, <3>1 DEF BodiesOK
  <2> QED
    BY <2>2, <2>3
<1>18. s.cur \notin exp1 \cup {NoRev} => s.body = Last(s.cur)
  BY <1>4, <1>8
<1> HIDE DEF ext, bk1, exp1, wr1
<1>19. BodiesOK(e, wr1, ext, bk1, exp1)
  BY <1>9, <1>10, <1>16, <1>17, <1>18, <1>14 DEF BodiesOK
<1>20. DocOK(e, wr1, ext, bk1, exp1)
  BY <1>15, <1>19 DEF DocOK
<1> QED
  BY <1>9, <1>14, <1>20 DEF s, s0, old, ext, bk1, exp1, wr1

(* u has no more live branches than t, or has one.                         *)
NoNewConflict(t, u) ==
    Cardinality(LiveLeaves(u)) <= Max({1, Cardinality(LiveLeaves(t))})

(* A revision that extends the winner, or ends a live branch, adds no      *)
(* conflict (IsIllegalConflict).                                           *)
LEMMA NoConflictFacts ==
    ASSUME NEW t, DocTree(t), NEW u, NEW rev, NEW p, NEW m, NEW del,
           Extension(t, u, rev, p, m, del),
           \/ p = WinningRevision(t) \/ WinningRevision(t) = NoRev
           \/ del /\ p \in LiveLeaves(t)
    PROVE  NoNewConflict(t, u)
<1> DEFINE L == LiveLeaves(t)
           M == LiveLeaves(u)
           c == Cardinality(L)
<1>1. /\ rev \in DOMAIN u \ DOMAIN t /\ Leaves(u) = (Leaves(t) \ {p}) \cup {rev} /\ DocTree(u)
      /\ \A r \in DOMAIN t : u[r] = t[r]
  BY ExtensionFacts
<1>2. Leaves(t) \subseteq DOMAIN t /\ IsFiniteSet(DOMAIN t) /\ Leaves(u) \subseteq DOMAIN u
  BY DEF Leaves, DocTree, Forest
<1>3. IsFiniteSet(L)
  <2>1. L \subseteq DOMAIN t
    BY <1>2 DEF LiveLeaves
  <2> QED
    BY <1>2, <2>1, FS_Subset
<1>4. c \in Nat
  BY <1>3, FS_CardinalityType
<1>5. Max({1, c}) \in {1, c} /\ \A y \in {1, c} : y <= Max({1, c})
  <2>1. {1, c} \subseteq 0..(c + 1) /\ c + 1 \in Nat /\ {1, c} # {}
    BY <1>4
  <2> HIDE DEF c
  <2> QED
    BY <2>1, GreatestExists
<1>6. M \subseteq (L \ {p}) \cup {rev}
  BY <1>1, <1>2 DEF LiveLeaves
<1>7. IsFiniteSet((L \ {p}) \cup {rev}) /\ IsFiniteSet(L \ {p})
  BY <1>3, FS_RemoveElement, FS_AddElement
<1>8. CASE p \in L
  <2>1. Cardinality(L \ {p}) = c - 1
    BY <1>3, <1>8, FS_RemoveElement
  <2>2. Cardinality((L \ {p}) \cup {rev}) <= c
    <3>1. Cardinality((L \ {p}) \cup {rev}) \in {Cardinality(L \ {p}), Cardinality(L \ {p}) + 1}
      BY <1>7, FS_AddElement
    <3> HIDE DEF c
    <3> QED
      BY <1>4, <2>1, <3>1
  <2>3. Cardinality(M) <= Cardinality((L \ {p}) \cup {rev}) /\ IsFiniteSet(M)
    BY <1>6, <1>7, FS_Subset
  <2>4. Cardinality(M) \in Nat /\ Cardinality((L \ {p}) \cup {rev}) \in Nat
    BY <1>7, <2>3, FS_CardinalityType
  <2> HIDE DEF c, M
  <2> QED
    BY <1>4, <1>5, <2>2, <2>3, <2>4 DEF NoNewConflict, c, M
<1>9. CASE L = {}
  <2>1. M \subseteq {rev}
    BY <1>6, <1>9
  <2>2. Cardinality(M) <= 1 /\ Cardinality(M) \in Nat
    <3>1. IsFiniteSet({rev}) /\ Cardinality({rev}) = 1
      BY FS_Singleton
    <3>2. IsFiniteSet(M) /\ Cardinality(M) <= Cardinality({rev})
      BY <2>1, <3>1, FS_Subset
    <3> QED
      BY <3>1, <3>2, FS_CardinalityType
  <2> HIDE DEF c, M
  <2> QED
    BY <1>4, <1>5, <2>2 DEF NoNewConflict, c, M
<1>10. p \in L \/ L = {}
  <2>1. CASE t = EmptyTree
    <3>1. DOMAIN t = {}
      BY <2>1 DEF EmptyTree
    <3> QED
      BY <1>2, <3>1 DEF LiveLeaves
  <2>2. CASE t # EmptyTree
    <3>1. WinningRevision(t) # NoRev /\ (L # {} => WinningRevision(t) \in L)
      BY <2>2, CurrentFacts DEF DocTree
    <3> QED
      BY <3>1
  <2> QED
    BY <2>1, <2>2
<1> QED
  BY <1>8, <1>9, <1>10

(* The document that an attempt makes of the one it loaded.                *)
LEMMA AttemptKeeps ==
    ASSUME NEW d, NEW wr, NEW bk, NEW exp, DocOK(d, wr, external, bk, exp), NEW op, OpOK(op),
           NEW a, a = IF op.kind = "put" THEN ApplyPut(d, op) ELSE ApplyPutExistingRev(d, op),
           a.ok, a.rev \in Revisions, NEW failed, NEW e,
           LET s == BackupAncestorRevs(StoreBodies(d, a), a.rev)
           IN  e.tree \in PruneRevisions(s.tree) /\ e.cur = s.cur /\ e.body = s.body
    PROVE  LET s == BackupAncestorRevs(StoreBodies(d, a), a.rev)
               old == BackedUp(StoreBodies(d, a), a.rev)
           IN  /\ DocOK(e, wr \cup {a.rev}, external \cup (PersistedBodies(s) \ failed),
                        bk \cup ({old} \ failed), exp \cup NotKept(failed, old, bk))
               /\ Continued(d.tree, e.tree, wr \cup {a.rev})
               /\ op.kind = "push" /\ op.noConflicts => NoNewConflict(d.tree, e.tree)
<1> DEFINE s == BackupAncestorRevs(StoreBodies(d, a), a.rev)
           del == op.body = Deletion
           wr1 == wr \cup {a.rev}
           ext == external \cup (PersistedBodies(s) \ failed)
           old == BackedUp(StoreBodies(d, a), a.rev)
           bk1 == bk \cup ({old} \ failed)
           exp1 == exp \cup NotKept(failed, old, bk)
           f == [tree |-> s.tree, cur |-> s.cur, body |-> s.body]
<1>1. DocTree(d.tree) /\ d.cur = WinningRevision(d.tree)
  BY DEF DocOK, BranchesOK
<1>2. \E p, m : /\ Extension(d.tree, a.tree, a.rev, p, m, del)
                /\ op.kind = "push" /\ op.noConflicts =>
                      p = d.cur \/ d.cur = NoRev \/ (del /\ p \in LiveLeaves(d.tree))
  <2>1. CASE op.kind = "put"
    <3>1. a = ApplyPut(d, op)
      BY <2>1
    <3>2. \E p, m : Extension(d.tree, a.tree, a.rev, p, m, del)
      BY <1>1, <2>1, <3>1, PutExtends
    <3> HIDE DEF del
    <3> QED
      BY <2>1, <3>2
  <2>2. CASE op.kind = "push"
    <3>1. a = ApplyPutExistingRev(d, op)
      BY <2>2
    <3> QED
      BY <1>1, <2>2, <3>1, PushExtends
  <2>3. op.kind \in {"put", "push"}
    BY DEF OpOK
  <2> QED
    BY <2>1, <2>2, <2>3
<1>3. PICK p, m : /\ Extension(d.tree, a.tree, a.rev, p, m, del)
                  /\ op.kind = "push" /\ op.noConflicts =>
                        p = d.cur \/ d.cur = NoRev \/ (del /\ p \in LiveLeaves(d.tree))
  BY <1>2
<1> HIDE DEF del
<1>4. e.tree \in PruneRevisions(s.tree) /\ e.cur = s.cur /\ e.body = s.body
  OBVIOUS
<1>5. f.tree = s.tree /\ f.cur = s.cur /\ f.body = s.body
  OBVIOUS
<1> HIDE DEF f
<1>6. DocOK(f, wr1, ext, bk1, exp1) /\ SameShape(f.tree, a.tree)
  BY <1>3, <1>4, <1>5, UpdateKeeps
<1> HIDE DEF s, wr1, ext, bk1, exp1
<1>7. /\ DocTree(a.tree) /\ a.tree # EmptyTree /\ DOMAIN d.tree \subseteq DOMAIN a.tree
  BY <1>1, <1>3, ExtensionFacts
<1>8. f.tree # EmptyTree /\ DOMAIN f.tree = DOMAIN a.tree /\ LiveLeaves(f.tree) = LiveLeaves(a.tree)
  BY <1>6, <1>7, ShapeFacts DEF SameShape
<1>9. DocOK(e, wr1, ext, bk1, exp1)
  BY <1>4, <1>5, <1>6, <1>8, PruneKeeps
<1>10. /\ DocTree(f.tree)
       /\ \A r \in DOMAIN f.tree : f.tree[r].deleted => Last(r) = Deletion /\ r \in wr1
  BY <1>6 DEF DocOK, BranchesOK
<1>11. Continued(d.tree, e.tree, wr1)
  <2>1. \A r \in Leaves(d.tree) : r \in DOMAIN f.tree
    BY <1>7, <1>8 DEF Leaves
  <2>2. \A r \in DOMAIN f.tree : GoesOn(r, e.tree, wr1)
    BY <1>4, <1>5, <1>8, <1>10, PruneGoesOn
  <2> QED
    BY <2>1, <2>2 DEF Continued
<1>12. ASSUME op.kind = "push", op.noConflicts PROVE NoNewConflict(d.tree, e.tree)
  <2>1. NoNewConflict(d.tree, a.tree)
    <3>1. p = WinningRevision(d.tree) \/ WinningRevision(d.tree) = NoRev \/ (del /\ p \in LiveLeaves(d.tree))
      BY <1>1, <1>3, <1>12
    <3> QED
      BY <1>1, <1>3, <3>1, NoConflictFacts
  <2>2. LiveLeaves(e.tree) = LiveLeaves(a.tree)
    BY <1>4, <1>5, <1>8, <1>10, PruneFacts
  <2> QED
    BY <2>1, <2>2 DEF NoNewConflict
<1> QED
  BY <1>9, <1>11, <1>12 DEF s, wr1, ext, bk1, exp1

----------------------------------------------------------------------------
(* The invariant of documents.                                             *)

(* A writer.  What it has loaded is older than the document or the same,   *)
(* and a document that may still replace it is right.                      *)
WriterOK(x, d, c, wr, ext, bk, exp) ==
    /\ DOMAIN x = DOMAIN Idle
    /\ x.pc \in {"idle", "apply", "save", "saved"}
    /\ x.pc \in {"apply", "save"} => x.cas \in Nat /\ x.cas <= c /\ OpOK(x.op)
    /\ x.pc = "apply" => x.snap.cur \in Revisions \cup {NoRev} /\ (x.cas = c => x.snap = d)
    /\ x.pc = "save" => x.rev \in Revisions
    /\ x.pc = "save" /\ x.cas = c =>
          /\ DocOK(x.result, wr \cup {x.rev}, ext, bk, exp)
          /\ Continued(d.tree, x.result.tree, wr \cup {x.rev})
          /\ x.op.kind = "push" /\ x.op.noConflicts => NoNewConflict(d.tree, x.result.tree)

CountsOK ==
    /\ cas \in Nat /\ updates \in 0..MaxUpdates /\ faults \in 0..MaxFaults
    /\ external \subseteq Revisions

WritersOK == \A w \in Writers : WriterOK(writer[w], doc, cas, written, external, backups, exposed)

DocInv ==
    /\ CountsOK /\ DOMAIN writer = Writers /\ WritersOK
    /\ DocOK(doc, written, external, backups, exposed)

(* A document stays right when body documents disappear that it does not   *)
(* need, or whose revisions are exposed.                                   *)
LEMMA DocKept ==
    ASSUME NEW d, NEW wr, NEW ext, NEW bk, NEW exp, DocOK(d, wr, ext, bk, exp),
           NEW ext1, NEW bk1, NEW exp1, bk \subseteq bk1, exp \subseteq exp1,
           \A r \in ext : r \in ext1 \/ r \in exp1 \/ ~Needs(d, r)
    PROVE  DocOK(d, wr, ext1, bk1, exp1)
<1>1. ASSUME NEW r \in Leaves(d.tree) \ exp1 PROVE r = d.cur \/ Readable(d.tree, r, ext1)
  <2>1. r = d.cur \/ Readable(d.tree, r, ext)
    BY DEF DocOK, BodiesOK
  <2> QED
    BY <2>1 DEF Readable, Needs, Leaves
<1> QED
  BY <1>1 DEF DocOK, BodiesOK

(* A writer stays right when body documents disappear that the document it *)
(* is about to save does not need, or whose revisions are exposed.         *)
LEMMA WriterKept ==
    ASSUME NEW x, NEW d, NEW c, NEW wr, NEW ext, NEW bk, NEW exp,
           WriterOK(x, d, c, wr, ext, bk, exp),
           NEW ext1, NEW bk1, NEW exp1, bk \subseteq bk1, exp \subseteq exp1,
           x.pc = "save" => \A r \in ext : r \in ext1 \/ r \in exp1 \/ ~Needs(x.result, r)
    PROVE  WriterOK(x, d, c, wr, ext1, bk1, exp1)
<1>1. ASSUME x.pc = "save", x.cas = c PROVE DocOK(x.result, wr \cup {x.rev}, ext1, bk1, exp1)
  <2>1. DocOK(x.result, wr \cup {x.rev}, ext, bk, exp)
    BY <1>1 DEF WriterOK
  <2> QED
    BY <1>1, <2>1, DocKept
<1> QED
  BY <1>1 DEF WriterOK

(* A writer that does nothing is right whatever the document is.           *)
LEMMA IdleOK ==
    ASSUME NEW d, NEW c, NEW wr, NEW ext, NEW bk, NEW exp
    PROVE  WriterOK(Idle, d, c, wr, ext, bk, exp)
BY DEF WriterOK, Idle

(* A writer that has just loaded the document.                             *)
LEMMA LoadedOK ==
    ASSUME DocInv, NEW op, OpOK(op)
    PROVE  WriterOK(Loaded(op), doc, cas, written, external, backups, exposed)
<1>1. cas \in Nat
  BY DEF DocInv, CountsOK
<1>2. doc.cur \in Revisions \cup {NoRev}
  <2>1. DocTree(doc.tree) /\ doc.cur = WinningRevision(doc.tree)
    BY DEF DocInv, DocOK, BranchesOK
  <2> QED
    BY <2>1, CurrentFacts DEF DocTree
<1> DEFINE x == Loaded(op)
<1>3. x.pc = "apply" /\ x.op = op /\ x.snap = doc /\ x.cas = cas
  BY DEF Loaded, Idle
<1>4. DOMAIN x = DOMAIN Idle
  BY DEF Loaded, Idle
<1> HIDE DEF x
<1>5. WriterOK(x, doc, cas, written, external, backups, exposed)
  BY <1>1, <1>2, <1>3, <1>4 DEF WriterOK
<1> QED
  BY <1>5 DEF x

(* A step of one writer that leaves the bucket alone.                      *)
LEMMA OneWriter ==
    ASSUME DocInv, NEW w \in Writers, NEW x, writer' = [writer EXCEPT ![w] = x],
           UNCHANGED <<doc, cas, external, backups, written, exposed>>,
           WriterOK(x, doc, cas, written, external, backups, exposed),
           updates' \in 0..MaxUpdates, faults' \in 0..MaxFaults
    PROVE  DocInv'
<1>1. CountsOK'
  BY DEF DocInv, CountsOK
<1>2. DOMAIN writer' = Writers /\ writer'[w] = x /\ \A v \in Writers \ {w} : writer'[v] = writer[v]
  BY DEF DocInv
<1>3. \A v \in Writers : WriterOK(writer'[v], doc', cas', written', external', backups', exposed')
  BY <1>2 DEF DocInv, WritersOK
<1>4. DocOK(doc', written', external', backups', exposed')
  BY DEF DocInv
<1> QED
  BY <1>1, <1>2, <1>3, <1>4 DEF DocInv, WritersOK

(* No document, no writer.                                                 *)
LEMMA InitDocInv == Init => DocInv
<1> SUFFICES ASSUME Init PROVE DocInv
  OBVIOUS
<1> USE DEF Init
<1>1. CountsOK
  BY DocumentsAssumption DEF CountsOK
<1>2. DOMAIN writer = Writers /\ WritersOK
  BY IdleOK DEF WritersOK
<1>3. DOMAIN EmptyTree = {} /\ EmptyTree = [r \in DOMAIN EmptyTree |-> EmptyTree[r]]
  BY DEF EmptyTree
<1>4. doc.tree = EmptyTree /\ doc.cur = NoRev
  BY DEF NewDoc
<1>5. DocTree(EmptyTree) /\ Leaves(EmptyTree) = {}
  BY <1>3, FS_EmptySet DEF DocTree, Forest, Leaves
<1>6. WinningRevision(EmptyTree) = NoRev
  BY DEF WinningRevision
<1>7. BranchesOK(doc, written)
  BY <1>3, <1>4, <1>5, <1>6 DEF BranchesOK, NothingLost
<1>8. BodiesOK(doc, written, external, backups, exposed)
  BY <1>3, <1>4, <1>5 DEF BodiesOK
<1> QED
  BY <1>1, <1>2, <1>7, <1>8 DEF DocInv, DocOK

(* A new update has loaded the document that is stored.                    *)
LEMMA StartInv ==
    ASSUME DocInv, NEW w \in Writers, NEW op \in Ops, Start(w, op)
    PROVE  DocInv'
<1>1. OpOK(op)
  <2>1. ASSUME NEW b \in Bodies PROVE b \in 0..3
    BY RevisionFacts DEF Bodies
  <2>2. CASE op \in {[kind |-> "put", match |-> m, body |-> b] : m \in Revisions \cup {NoRev}, b \in Bodies}
    BY <2>1, <2>2 DEF OpOK
  <2>3. CASE op \in {[kind |-> "push", rev |-> r, length |-> n, body |-> Last(r), noConflicts |-> c] :
                        r \in Revisions, n \in HistoryLengths, c \in BOOLEAN}
    <3>1. PICK r \in Revisions, n \in HistoryLengths, c \in BOOLEAN :
             op = [kind |-> "push", rev |-> r, length |-> n, body |-> Last(r), noConflicts |-> c]
      BY <2>3
    <3>2. n \in Nat \ {0} /\ Last(r) \in 0..3 /\ Len(r) \in Nat
      BY DocumentsAssumption, RevisionFacts
    <3>3. op.kind = "push" /\ op.rev = r /\ op.length = n /\ op.body = Last(r)
      BY <3>1
    <3>4. n <= Len(r)
      BY <3>3 DEF Start, Sensible, Generation
    <3>5. n \in 1..Len(r)
      BY <3>2, <3>4
    <3> QED
      BY <3>1, <3>2, <3>3, <3>5 DEF OpOK
  <2> QED
    BY <2>2, <2>3 DEF Ops
<1>2. WriterOK(Loaded(op), doc, cas, written, external, backups, exposed)
  BY <1>1, LoadedOK
<1>3. updates' \in 0..MaxUpdates /\ faults' \in 0..MaxFaults
  BY DocumentsAssumption DEF Start, DocInv, CountsOK
<1>4. writer' = [writer EXCEPT ![w] = Loaded(op)] /\ UNCHANGED <<doc, cas, external, backups, written, exposed>>
  BY DEF Start
<1> QED
  BY <1>2, <1>3, <1>4, OneWriter

(* An update that is refused or dies leaves everything as it was.          *)
LEMMA ReleaseInv ==
    ASSUME DocInv, NEW w \in Writers, Refuse(w) \/ Crash(w)
    PROVE  DocInv'
<1>1. writer' = [writer EXCEPT ![w] = Idle] /\ UNCHANGED <<doc, cas, external, backups, written, exposed>>
  BY DEF Refuse, Crash
<1>2. updates' \in 0..MaxUpdates /\ faults' \in 0..MaxFaults
  BY DocumentsAssumption DEF Refuse, Crash, DocInv, CountsOK
<1> QED
  BY <1>1, <1>2, IdleOK, OneWriter

(* After a CAS failure the document is loaded again.                       *)
LEMMA RetryInv ==
    ASSUME DocInv, NEW w \in Writers, Retry(w)
    PROVE  DocInv'
<1>1. OpOK(writer[w].op)
  BY DEF Retry, DocInv, WritersOK, WriterOK
<1>2. /\ writer' = [writer EXCEPT ![w] = Loaded(writer[w].op)]
      /\ UNCHANGED <<doc, cas, external, backups, written, exposed, updates, faults>>
  BY DEF Retry
<1>3. updates' \in 0..MaxUpdates /\ faults' \in 0..MaxFaults
  BY <1>2 DEF DocInv, CountsOK
<1> QED
  BY <1>1, <1>2, <1>3, LoadedOK, OneWriter

(* The CAS protects the document: the copies of the other writers are old. *)
LEMMA SaveInv ==
    ASSUME DocInv, NEW w \in Writers, Save(w)
    PROVE  DocInv'
<1> DEFINE y == [Idle EXCEPT !.pc = "saved", !.removed = writer[w].removed]
<1>1. /\ writer[w].pc = "save" /\ writer[w].cas = cas /\ doc' = writer[w].result /\ cas' = cas + 1
      /\ written' = written \cup {writer[w].rev} /\ writer' = [writer EXCEPT ![w] = y]
      /\ UNCHANGED <<external, backups, updates, faults, exposed>>
  BY DEF Save
<1>2. WriterOK(writer[w], doc, cas, written, external, backups, exposed)
  BY DEF DocInv, WritersOK
<1>3. DocOK(doc', written', external', backups', exposed')
  BY <1>1, <1>2 DEF WriterOK
<1>4. CountsOK'
  BY <1>1 DEF DocInv, CountsOK
<1>5. y.pc = "saved" /\ DOMAIN y = DOMAIN Idle
  BY DEF Idle
<1>6. DOMAIN writer' = Writers /\ writer'[w] = y /\ \A v \in Writers \ {w} : writer'[v] = writer[v]
  BY <1>1 DEF DocInv
<1> HIDE DEF y
<1>7. ASSUME NEW v \in Writers PROVE WriterOK(writer'[v], doc', cas', written', external', backups', exposed')
  <2>1. CASE v = w
    BY <1>5, <1>6, <2>1 DEF WriterOK
  <2>2. CASE v # w
    <3>1. WriterOK(writer[v], doc, cas, written, external, backups, exposed) /\ cas \in Nat
      BY DEF DocInv, WritersOK, CountsOK
    <3>2. writer[v].pc \in {"apply", "save"} => writer[v].cas <= cas' /\ writer[v].cas # cas'
      BY <1>1, <3>1 DEF WriterOK
    <3> QED
      BY <1>6, <2>2, <3>1, <3>2 DEF WriterOK
  <2> QED
    BY <2>1, <2>2
<1> QED
  BY <1>3, <1>4, <1>6, <1>7 DEF DocInv, WritersOK

(* Who counts on a body document that is deleted is exposed.               *)
LEMMA FinishInv ==
    ASSUME DocInv, NEW w \in Writers, Finish(w)
    PROVE  DocInv'
<1>1. /\ external' = external \ writer[w].removed /\ exposed \subseteq exposed'
      /\ \A r \in writer[w].removed :
            (Needs(doc, r) \/ \E v \in Writers : writer[v].pc = "save" /\ Needs(writer[v].result, r))
               => r \in exposed'
      /\ writer' = [writer EXCEPT ![w] = Idle]
      /\ UNCHANGED <<doc, cas, backups, updates, faults, written>>
  BY DEF Finish
<1>2. DocOK(doc', written', external', backups', exposed')
  BY <1>1, DocKept DEF DocInv
<1>3. CountsOK'
  BY <1>1 DEF DocInv, CountsOK
<1>4. DOMAIN writer' = Writers /\ writer'[w] = Idle /\ \A v \in Writers \ {w} : writer'[v] = writer[v]
  BY <1>1 DEF DocInv
<1>5. ASSUME NEW v \in Writers PROVE WriterOK(writer'[v], doc', cas', written', external', backups', exposed')
  <2>1. CASE v = w
    BY <1>4, <2>1, IdleOK
  <2>2. CASE v # w
    <3>1. WriterOK(writer[v], doc, cas, written, external, backups, exposed)
      BY DEF DocInv, WritersOK
    <3>2. writer[v].pc = "save" =>
             \A r \in external : r \in external' \/ r \in exposed' \/ ~Needs(writer[v].result, r)
      BY <1>1
    <3> QED
      BY <1>1, <1>4, <2>2, <3>1, <3>2, WriterKept
  <2> QED
    BY <2>1, <2>2
<1> QED
  BY <1>2, <1>3, <1>4, <1>5 DEF DocInv, WritersOK

(* An attempt: what it will save if nobody else has saved is right.        *)
LEMMA ApplyInv ==
    ASSUME DocInv, NEW w \in Writers, Apply(w)
    PROVE  DocInv'
<1> DEFINE x == writer[w]
           d == x.snap
           op == x.op
           a == Applied(w)
           s0 == StoreBodies(d, a)
           s == BackupAncestorRevs(s0, a.rev)
           old == BackedUp(s0, a.rev)
<1>1. /\ x.pc = "apply" /\ a.ok /\ a.rev \in Revisions
      /\ UNCHANGED <<doc, cas, updates, written>>
  BY DEF Apply
<1>2. PICK failed \in SUBSET (PersistedBodies(s) \cup ({old} \ {NoRev})) :
         /\ faults + Cardinality(failed) <= MaxFaults
         /\ faults' = faults + Cardinality(failed)
         /\ exposed' = exposed \cup NotKept(failed, old, backups)
         /\ external' = external \cup (PersistedBodies(s) \ failed)
         /\ backups' = backups \cup ({old} \ failed)
  BY DEF Apply, NotKept
<1> DEFINE e(tree) == [tree |-> tree, cur |-> s.cur, body |-> s.body, attached |-> op.body = Attached]
           y(tree) == [x EXCEPT !.pc = "save", !.snap = NewDoc, !.rev = a.rev, !.removed = RemovedBodies(s),
                                !.op = AfterAttempt(op, d), !.result = e(tree)]
<1>3. PICK tree \in PruneRevisions(s.tree) : writer' = [writer EXCEPT ![w] = y(tree)]
  BY DEF Apply
<1>4. a = IF op.kind = "put" THEN ApplyPut(d, op) ELSE ApplyPutExistingRev(d, op)
  BY DEF Applied
<1>5. WriterOK(x, doc, cas, written, external, backups, exposed)
  BY DEF DocInv, WritersOK
<1>6. OpOK(op) /\ d.cur \in Revisions \cup {NoRev} /\ (x.cas = cas => d = doc)
  BY <1>1, <1>5 DEF WriterOK
<1>7. /\ y(tree).pc = "save" /\ y(tree).rev = a.rev /\ y(tree).op = AfterAttempt(op, d) /\ y(tree).result = e(tree)
      /\ y(tree).cas = x.cas /\ DOMAIN y(tree) = DOMAIN Idle
  <2>1. DOMAIN x = DOMAIN Idle
    BY <1>5 DEF WriterOK
  <2>2. {"pc", "op", "snap", "cas", "result", "rev", "removed"} = DOMAIN x
    BY <2>1 DEF Idle
  <2> HIDE DEF x, d, a, s, e
  <2> QED
    BY <2>1, <2>2 DEF op
<1>8. e(tree).tree = tree /\ e(tree).cur = s.cur /\ e(tree).body = s.body
  OBVIOUS
<1> HIDE DEF y, e
<1>9. /\ OpOK(AfterAttempt(op, d))
      /\ AfterAttempt(op, d).kind = "push" =>
            op.kind = "push" /\ AfterAttempt(op, d).noConflicts = op.noConflicts
  <2>1. CASE op \in [kind : {"put"}, match : Revisions \cup {NoRev}, body : 0..3]
    <3> HIDE DEF d, op
    <3> QED
      BY <1>6, <2>1 DEF AfterAttempt, OpOK
  <2>2. CASE /\ op \in [kind : {"push"}, rev : Revisions, length : Nat, body : 0..3, noConflicts : BOOLEAN]
             /\ op.length \in 1..Len(op.rev) /\ (op.body = Deletion => Last(op.rev) = Deletion)
    <3> HIDE DEF d, op
    <3> QED
      BY <2>2 DEF AfterAttempt, OpOK, Deletion
  <2> QED
    BY <1>6, <2>1, <2>2 DEF OpOK
<1>10. PersistedBodies(s) \subseteq {d.cur, a.rev} \cap Revisions
  <2>1. s.added = s0.added /\ s0.added \subseteq {d.cur, a.rev} /\ (d.cur = NoRev => s0.added \subseteq {a.rev})
    BY AddedFacts
  <2>2. PersistedBodies(s) \subseteq s.added
    BY DEF PersistedBodies
  <2> HIDE DEF s, s0, d, a
  <2> QED
    BY <1>1, <1>6, <2>1, <2>2
<1>11. CountsOK'
  <2>1. IsFiniteSet(failed)
    <3>1. IsFiniteSet({d.cur, a.rev, old})
      <4>1. ASSUME NEW q, NEW r, NEW o PROVE IsFiniteSet({q, r, o})
        <5>1. {q, r, o} = ({q} \cup {r}) \cup {o}
          OBVIOUS
        <5>2. IsFiniteSet({q})
          BY FS_Singleton
        <5>3. IsFiniteSet({q} \cup {r})
          BY <5>2, FS_AddElement, Zenon
        <5>4. IsFiniteSet(({q} \cup {r}) \cup {o})
          BY <5>3, FS_AddElement, Zenon
        <5> QED
          BY <5>1, <5>4, Zenon
      <4> QED
        BY <4>1
    <3>2. failed \subseteq {d.cur, a.rev, old}
      BY <1>10
    <3> QED
      BY <3>1, <3>2, FS_Subset
  <2>2. Cardinality(failed) \in Nat
    BY <2>1, FS_CardinalityType
  <2>3. faults' \in 0..MaxFaults
    BY <1>2, <2>2, DocumentsAssumption DEF DocInv, CountsOK
  <2>4. external' \subseteq Revisions
    BY <1>2, <1>10 DEF DocInv, CountsOK
  <2> QED
    BY <1>1, <2>3, <2>4 DEF DocInv, CountsOK
<1>12. external \subseteq external' /\ backups \subseteq backups' /\ exposed \subseteq exposed'
  BY <1>1, <1>2
<1>13. DocOK(doc', written', external', backups', exposed')
  BY <1>1, <1>12, DocKept DEF DocInv
<1>14. DOMAIN writer' = Writers /\ writer'[w] = y(tree) /\ \A v \in Writers \ {w} : writer'[v] = writer[v]
  BY <1>3 DEF DocInv
<1>15. ASSUME x.cas = cas
       PROVE  /\ DocOK(e(tree), written \cup {a.rev}, external', backups', exposed')
              /\ Continued(doc.tree, e(tree).tree, written \cup {a.rev})
              /\ op.kind = "push" /\ op.noConflicts => NoNewConflict(doc.tree, e(tree).tree)
  <2>1. DocOK(d, written, external, backups, exposed)
    BY <1>6, <1>15 DEF DocInv
  <2>2. e(tree).tree \in PruneRevisions(s.tree) /\ e(tree).cur = s.cur /\ e(tree).body = s.body
    BY <1>8
  <2> HIDE DEF d, op, a
  <2>3. /\ DocOK(e(tree), written \cup {a.rev}, external \cup (PersistedBodies(s) \ failed),
                 backups \cup ({old} \ failed), exposed \cup NotKept(failed, old, backups))
        /\ Continued(d.tree, e(tree).tree, written \cup {a.rev})
        /\ op.kind = "push" /\ op.noConflicts => NoNewConflict(d.tree, e(tree).tree)
    BY <1>1, <1>4, <1>6, <2>1, <2>2, AttemptKeeps
  <2>4. d = doc
    BY <1>6, <1>15
  <2> QED
    BY <1>1, <1>2, <2>3, <2>4
<1> HIDE DEF s, s0, a, old
<1>16. WriterOK(y(tree), doc', cas', written', external', backups', exposed')
  <2> DEFINE z == y(tree)
             aft == AfterAttempt(op, d)
  <2>1. x.cas \in Nat /\ x.cas <= cas
    BY <1>1, <1>5 DEF WriterOK
  <2>3. /\ OpOK(aft)
        /\ aft.kind = "push" => op.kind = "push" /\ aft.noConflicts = op.noConflicts
    BY <1>9
  <2> HIDE DEF x, op, d, aft
  <2>2. /\ z.pc = "save" /\ z.rev = a.rev /\ z.op = aft /\ z.result = e(tree)
        /\ z.cas = x.cas /\ DOMAIN z = DOMAIN Idle
    BY <1>7 DEF aft
  <2> HIDE DEF z
  <2>4. z.cas = cas' =>
          /\ DocOK(z.result, written' \cup {z.rev}, external', backups', exposed')
          /\ Continued(doc'.tree, z.result.tree, written' \cup {z.rev})
          /\ z.op.kind = "push" /\ z.op.noConflicts => NoNewConflict(doc'.tree, z.result.tree)
    BY <1>1, <1>15, <2>2, <2>3
  <2>5. OpOK(z.op) /\ z.cas \in Nat /\ z.cas <= cas' /\ z.rev \in Revisions
    BY <1>1, <2>1, <2>2, <2>3
  <2>6. WriterOK(z, doc', cas', written', external', backups', exposed')
    BY <2>2, <2>4, <2>5 DEF WriterOK
  <2> QED
    BY <2>6 DEF z
<1>17. ASSUME NEW v \in Writers, v # w
       PROVE  WriterOK(writer'[v], doc', cas', written', external', backups', exposed')
  <2>1. WriterOK(writer[v], doc, cas, written, external, backups, exposed)
    BY DEF DocInv, WritersOK
  <2> QED
    BY <1>1, <1>12, <1>14, <1>17, <2>1, WriterKept
<1> QED
  BY <1>11, <1>13, <1>14, <1>16, <1>17 DEF DocInv, WritersOK

(* The invariant is inductive: one case for each step of an update.        *)
LEMMA NextDocInv == DocInv /\ [Next]_vars => DocInv'
<1> SUFFICES ASSUME DocInv, [Next]_vars PROVE DocInv'
  OBVIOUS
<1>1. CASE UNCHANGED vars
  BY <1>1 DEF vars, DocInv, WritersOK, CountsOK
<1>2. ASSUME NEW w \in Writers, NEW op \in Ops, Start(w, op) PROVE DocInv'
  BY <1>2, StartInv
<1>3. ASSUME NEW w \in Writers, Refuse(w) \/ Crash(w) PROVE DocInv'
  BY <1>3, ReleaseInv
<1>4. ASSUME NEW w \in Writers, Apply(w) PROVE DocInv'
  BY <1>4, ApplyInv
<1>5. ASSUME NEW w \in Writers, Save(w) PROVE DocInv'
  BY <1>5, SaveInv
<1>6. ASSUME NEW w \in Writers, Retry(w) PROVE DocInv'
  BY <1>6, RetryInv
<1>7. ASSUME NEW w \in Writers, Finish(w) PROVE DocInv'
  BY <1>7, FinishInv
<1> QED
  BY <1>1, <1>2, <1>3, <1>4, <1>5, <1>6, <1>7 DEF Next

(* The invariant of documents holds in every reachable state: a document   *)
(* in the bucket and every document that a writer may still put in its     *)
(* place are right (updateAndReturnDoc).                                   *)
THEOREM DocumentInvariant == Spec => []DocInv
<1>1. Init => DocInv
  BY InitDocInv
<1>2. DocInv /\ [Next]_vars => DocInv'
  BY NextDocInv
<1> QED
  BY <1>1, <1>2, PTL DEF Spec

(* However updates of a document race, fail and retry: the stored winner   *)
(* is the winner of the stored tree with its own body, revisions keep      *)
(* their bodies, and no update that was acknowledged is lost (Put,         *)
(* PutExistingRev, updateAndReturnDoc).                                    *)
THEOREM DocumentIsSafe == Spec => []DocumentSafe
<1>1. DocInv => DocumentSafe
  <2> SUFFICES ASSUME DocInv PROVE DocumentSafe
    OBVIOUS
  <2>1. CountsOK /\ DocTree(doc.tree) /\ written \subseteq Revisions
    BY DEF DocInv, DocOK, BranchesOK
  <2>2. \A w \in Writers : writer[w].pc \in {"idle", "apply", "save", "saved"}
    BY DEF DocInv, WritersOK, WriterOK
  <2>3. ASSUME NEW r \in DOMAIN doc.tree
        PROVE  /\ r \in Revisions
               /\ doc.tree[r].parent = NoRev
                  \/ (doc.tree[r].parent = Front(r) /\ Front(r) \in DOMAIN doc.tree)
               /\ doc.tree[r].body \in {"none", "inline", "external"}
    <3>1. doc.tree[r] \in Nodes /\ r \in Revisions
      BY <2>1 DEF DocTree
    <3>2. doc.tree[r].parent \in {NoRev, Front(r)} /\ doc.tree[r].parent \in DOMAIN doc.tree \cup {NoRev}
      BY <2>1 DEF DocTree, Forest
    <3> QED
      BY <3>1, <3>2 DEF Nodes
  <2>4. TypeOK
    BY <2>1, <2>2, <2>3 DEF TypeOK, CountsOK
  <2>5. WinnerStored
    BY DEF DocInv, DocOK, BranchesOK, BodiesOK, WinnerStored
  <2>6. BodiesKept
    BY DEF DocInv, DocOK, BodiesOK, BodiesKept
  <2>7. NoLostUpdate
    BY DEF DocInv, DocOK, BranchesOK, NothingLost, NoLostUpdate
  <2> QED
    BY <2>4, <2>5, <2>6, <2>7 DEF DocumentSafe
<1> QED
  BY <1>1, DocumentInvariant, PTL

(* An update ends no live branch of the tree, and one pushed with          *)
(* noConflicts adds none, whatever was written between its check and its   *)
(* save (pruneRevisions, IsIllegalConflict, WriteUpdateWithXattr).         *)
THEOREM BranchesAreKept == Spec => BranchesKept
<1> DEFINE Goes ==
       /\ \A r \in Leaves(doc.tree) :
            \/ \E s \in DOMAIN doc'.tree : IsPrefix(r, s)
            \/ \E t \in written' : IsPrefix(r, t) /\ FarBehind(t, doc'.tree)
       /\ \A w \in Writers :
            Save(w) /\ writer[w].op.kind = "push" /\ writer[w].op.noConflicts =>
              Cardinality(LiveLeaves(doc'.tree)) <= Max({1, Cardinality(LiveLeaves(doc.tree))})
<1>1. ASSUME DocInv, [Next]_vars PROVE [Goes]_vars
  <2>1. CASE doc' = doc
    <3>1. \A r \in Leaves(doc.tree) : \E s \in DOMAIN doc'.tree : IsPrefix(r, s)
      <4>1. ASSUME NEW r \in Leaves(doc.tree) PROVE IsPrefix(r, r) /\ r \in DOMAIN doc.tree
        BY DEF IsPrefix, Leaves
      <4> QED
        BY <2>1, <4>1
    <3>2. ASSUME NEW w \in Writers, Save(w), writer[w].op.kind = "push", writer[w].op.noConflicts
          PROVE  Cardinality(LiveLeaves(doc'.tree)) <= Max({1, Cardinality(LiveLeaves(doc.tree))})
      BY <1>1, <3>2 DEF Save, DocInv, WritersOK, WriterOK, NoNewConflict
    <3> QED
      BY <3>1, <3>2
  <2>2. ASSUME NEW w \in Writers, Save(w) PROVE Goes
    <3>1. /\ writer[w].pc = "save" /\ writer[w].cas = cas /\ doc' = writer[w].result
          /\ written' = written \cup {writer[w].rev}
      BY <2>2 DEF Save
    <3>2. Continued(doc.tree, doc'.tree, written')
      BY <1>1, <3>1 DEF DocInv, WritersOK, WriterOK
    <3>3. ASSUME NEW v \in Writers, Save(v), writer[v].op.kind = "push", writer[v].op.noConflicts
          PROVE  Cardinality(LiveLeaves(doc'.tree)) <= Max({1, Cardinality(LiveLeaves(doc.tree))})
      BY <1>1, <3>3 DEF Save, DocInv, WritersOK, WriterOK, NoNewConflict
    <3> QED
      BY <3>2, <3>3 DEF Continued, GoesOn
  <2>3. (\E w \in Writers : Save(w)) \/ doc' = doc
    BY <1>1 DEF Next, vars, Start, Refuse, Apply, Retry, Finish, Crash
  <2> QED
    BY <2>1, <2>2, <2>3
<1>2. DocInv /\ [Next]_vars => [Goes]_vars
  BY <1>1
<1> HIDE DEF Goes
<1>3. Spec => [][Goes]_vars
  BY <1>2, DocumentInvariant, PTL DEF Spec
<1> QED
  BY <1>3 DEF BranchesKept, Goes

-----------------------------------------------------------------------------
(* The access of principals.                                               *)

Whats == {"channels", "roles"}
TimedSets(names) == UNION {[S -> 1..MaxSeq] : S \in SUBSET names}
Grant == [seq : 0..MaxSeq, access : [Principals -> TimedSets(Channels)], roles : TimedSets(Roles)]
Stored ==
    [exists : BOOLEAN, cas : Nat, seq : 0..MaxSeq,
     explicit : TimedSets(Channels), channels : TimedSets(Channels) \cup {Nil},
     explicitRoles : TimedSets(Roles), roles : TimedSets(Roles) \cup {Nil}]
RequestRecords ==
    [pc : {"idle", "get", "rebuild", "store", "act", "next"},
     op : {"none", "get", "invalidate", "update", "delete"}, name : Principals, what : Whats,
     snap : Stored, tries : Nat, todo : SUBSET (Principals \X Whats),
     channels : SUBSET Channels, roles : SUBSET Roles]

AccessTyped ==
    /\ docs \in [Docs -> Grant] /\ princ \in [Principals -> Stored]
    /\ request \in [Requests -> RequestRecords] /\ seq \in 1..MaxSeq
    /\ \A p \in Principals : princ[p].seq <= seq
    /\ \A q \in Requests : request[q].snap.seq <= seq

(* A sequence that was reserved has been allocated.                        *)
ReservedOK == reserved \subseteq 2..seq

(* What a principal is stored with, and what it should be when documents   *)
(* grant what D says.                                                      *)
Computed(x, w) == IF w = "channels" THEN x.channels ELSE x.roles
Rebuilt(p, x, w, D) ==
    IF w = "channels" THEN Add(x.explicit, AddAll({D[d].access[p] : d \in Docs}))
    ELSE IF p = User THEN Add(AddAll({D[d].roles : d \in Docs}), x.explicitRoles) ELSE None

(* Request r still has to invalidate the set w of p.                       *)
Pends(r, p, w) ==
    /\ r.op = "invalidate"
    /\ <<p, w>> \in r.todo \/ (r.pc \notin {"idle", "next"} /\ r.name = p /\ r.what = w)

(* With the requests R, and L lost, the set w of p need not be current.    *)
Excused(p, w, R, L) == (\E q \in Requests : Pends(R[q], p, w)) \/ <<p, w>> \in L

(* If x were stored for p it would be current, or excused.                 *)
Current(p, x, D, R, L) ==
    \A w \in Whats : Computed(x, w) = Nil \/ Excused(p, w, R, L) \/ Computed(x, w) = Rebuilt(p, x, w, D)

(* A copy x of the stored p which a request has for its step pc: if it     *)
(* passes the CAS check it is the principal, with the sets that were       *)
(* invalid rebuilt.                                                        *)
CopyOf(x, p, pc) ==
    /\ x.cas <= p.cas
    /\ p.exists /\ x.cas = p.cas =>
          /\ x.explicit = p.explicit /\ x.explicitRoles = p.explicitRoles /\ x.seq = p.seq
          /\ pc # "store" => x = p

(* What request r holds, with the principals P.                            *)
SnapSound(r, P, D, R, L) ==
    r.pc \in {"rebuild", "store", "act"} =>
        /\ r.snap.exists \/ (r.op = "update" /\ r.pc # "store")
        /\ r.snap.exists => CopyOf(r.snap, P[r.name], r.pc)
        /\ r.pc = "store" /\ P[r.name].exists /\ r.snap.cas = P[r.name].cas =>
              Current(r.name, r.snap, D, R, L)

(* The inductive invariant.                                                *)
AccessInv ==
    /\ AccessTyped
    /\ \A p \in Principals : princ[p].exists => Current(p, princ[p], docs, request, lost)
    /\ \A q \in Requests : SnapSound(request[q], princ, docs, request, lost)
    /\ \A q \in Requests : request[q].pc = "idle" => request[q] = IdleRequest

-----------------------------------------------------------------------------
(* Timed sets.                                                             *)

(* A timed set is a function from its names.                               *)
LEMMA TimedSetFacts ==
    ASSUME NEW N, NEW x
    PROVE  x \in TimedSets(N) <=>
              DOMAIN x \subseteq N /\ x = [n \in DOMAIN x |-> x[n]] /\ \A n \in DOMAIN x : x[n] \in 1..MaxSeq
BY DEF TimedSets

(* The empty timed set.                                                    *)
LEMMA NoneFacts ==
    ASSUME NEW N
    PROVE  None \in TimedSets(N) /\ DOMAIN None = {}
<1>1. None = [n \in {} |-> 0] /\ DOMAIN None = {} BY DEF None
<1>2. None \in [{} -> 1..MaxSeq] BY <1>1
<1> QED BY <1>1, <1>2 DEF TimedSets

(* Members that stay keep their sequence, and if all do nothing changes.   *)
LEMMA UpdateFacts ==
    ASSUME NEW N, NEW set \in TimedSets(N), NEW names \in SUBSET N, NEW s \in 1..MaxSeq
    PROVE  /\ UpdateAtSequence(set, names, s) \in TimedSets(N)
           /\ DOMAIN set = names => UpdateAtSequence(set, names, s) = set
<1>1. DOMAIN set \subseteq N /\ set = [n \in DOMAIN set |-> set[n]] /\ \A n \in DOMAIN set : set[n] \in 1..MaxSeq
    BY TimedSetFacts
<1>2. UpdateAtSequence(set, names, s) \in [names -> 1..MaxSeq] BY <1>1 DEF UpdateAtSequence
<1>3. DOMAIN set = names => UpdateAtSequence(set, names, s) = set BY <1>1 DEF UpdateAtSequence
<1> QED BY <1>2, <1>3 DEF TimedSets

(* The earliest of a set of sequences is one of them.                      *)
LEMMA MinFacts ==
    ASSUME NEW T, T \subseteq 1..MaxSeq, T # {}
    PROVE  Min(T) \in T
<1> DEFINE R == {ss \in Nat \X Nat : ss[1] < ss[2]}
<1>1. IsWellFoundedOn(R, Nat) BY NatLessThanWellFounded DEF OpToRel
<1>2. T \subseteq Nat OBVIOUS
<1>3. PICK x \in T : \A y \in T : ~(<<y, x>> \in R)
    <2> HIDE DEF R
    <2> QED BY <1>1, <1>2, WFMin
<1>4. \A y \in T : x <= y
    <2> TAKE y \in T
    <2>1. x \in Nat /\ y \in Nat /\ ~(<<y, x>> \in R) BY <1>2, <1>3
    <2>2. ~(y < x) BY <2>1
    <2> QED BY <2>1, <2>2
<1> QED BY <1>4 DEF Min

(* The union of two timed sets is one.                                     *)
LEMMA AddTyped ==
    ASSUME NEW N, NEW set \in TimedSets(N), NEW other \in TimedSets(N)
    PROVE  Add(set, other) \in TimedSets(N)
<1>1. /\ DOMAIN set \subseteq N /\ \A n \in DOMAIN set : set[n] \in 1..MaxSeq
      /\ DOMAIN other \subseteq N /\ \A n \in DOMAIN other : other[n] \in 1..MaxSeq
    BY TimedSetFacts
<1> DEFINE later(n) == Max({other[n], 0})
           both == DOMAIN set \cup DOMAIN other
           value(n) == IF n \notin DOMAIN other THEN set[n]
                       ELSE IF n \notin DOMAIN set THEN later(n)
                       ELSE Min({set[n], later(n)})
<1>2. Add(set, other) = [n \in both |-> value(n)] BY DEF Add, AddAtSequence
<1>3. ASSUME NEW n \in DOMAIN other PROVE later(n) \in 1..MaxSeq
    <2> DEFINE o == other[n]
    <2>1. o \in 1..MaxSeq BY <1>1
    <2> HIDE DEF o
    <2>2. o \in {o, 0} /\ \A y \in {o, 0} : o >= y BY <2>1, AccessAssumption
    <2>3. \A x \in {o, 0} : (\A y \in {o, 0} : x >= y) => x = o BY <2>1, AccessAssumption
    <2>4. Max({o, 0}) = o BY <2>2, <2>3 DEF Max
    <2> QED BY <2>1, <2>4 DEF o
<1>4. ASSUME NEW n \in both PROVE value(n) \in 1..MaxSeq
    <2> HIDE DEF later
    <2>1. CASE n \notin DOMAIN other BY <1>1, <2>1
    <2>2. CASE n \in DOMAIN other /\ n \notin DOMAIN set BY <1>3, <2>2
    <2>3. CASE n \in DOMAIN other /\ n \in DOMAIN set
        <3> DEFINE T == {set[n], later(n)}
        <3>1. T \subseteq 1..MaxSeq /\ T # {} BY <1>1, <1>3, <2>3
        <3> HIDE DEF T
        <3>2. Min(T) \in 1..MaxSeq BY <3>1, MinFacts
        <3> QED BY <2>3, <3>2 DEF T
    <2> QED BY <2>1, <2>2, <2>3
<1>5. both \subseteq N BY <1>1
<1> HIDE DEF both, value
<1>6. [n \in both |-> value(n)] \in [both -> 1..MaxSeq] BY <1>4
<1> QED BY <1>2, <1>5, <1>6 DEF TimedSets

(* The union of any timed sets is one.                                     *)
LEMMA AddAllTyped ==
    ASSUME NEW N, NEW sets \in SUBSET TimedSets(N)
    PROVE  AddAll(sets) \in TimedSets(N)
<1> DEFINE names == UNION {DOMAIN set : set \in sets}
           values(n) == {set[n] : set \in {other \in sets : n \in DOMAIN other}}
<1>1. \A x \in sets : DOMAIN x \subseteq N /\ \A n \in DOMAIN x : x[n] \in 1..MaxSeq BY TimedSetFacts
<1>2. names \subseteq N BY <1>1
<1>3. \A n \in names : values(n) \subseteq 1..MaxSeq /\ values(n) # {} BY <1>1
<1>4. AddAll(sets) = [n \in names |-> Min(values(n))] BY DEF AddAll
<1> HIDE DEF names, values
<1>5. \A n \in names : Min(values(n)) \in 1..MaxSeq BY <1>3, MinFacts
<1>6. [n \in names |-> Min(values(n))] \in [names -> 1..MaxSeq] BY <1>5
<1> QED BY <1>2, <1>4, <1>6 DEF TimedSets

(* What a principal should have is a timed set.                            *)
LEMMA RebuiltTyped ==
    ASSUME AccessTyped, NEW p \in Principals, NEW x \in Stored
    PROVE  RebuildChannels(p, x.explicit) \in TimedSets(Channels)
           /\ RebuildRoles(p, x.explicitRoles) \in TimedSets(Roles)
<1>1. x.explicit \in TimedSets(Channels) /\ x.explicitRoles \in TimedSets(Roles) BY DEF Stored
<1>2. \A d \in Docs : docs[d].access[p] \in TimedSets(Channels) /\ docs[d].roles \in TimedSets(Roles)
    BY DEF AccessTyped, Grant
<1>3. {docs[d].access[p] : d \in Docs} \in SUBSET TimedSets(Channels)
      /\ {docs[d].roles : d \in Docs} \in SUBSET TimedSets(Roles)
    BY <1>2
<1>4. QueryAccess(p) \in TimedSets(Channels) /\ QueryRoleAccess \in TimedSets(Roles)
    BY <1>3, AddAllTyped DEF QueryAccess, QueryRoleAccess
<1>5. RebuildChannels(p, x.explicit) \in TimedSets(Channels) BY <1>1, <1>4, AddTyped DEF RebuildChannels
<1>6. RebuildRoles(p, x.explicitRoles) \in TimedSets(Roles)
    BY <1>1, <1>4, AddTyped, NoneFacts DEF RebuildRoles
<1> QED BY <1>5, <1>6

(* The queries compute what a principal should have.                       *)
LEMMA RebuiltIs ==
    ASSUME NEW p, NEW x
    PROVE  /\ Rebuilt(p, x, "channels", docs) = RebuildChannels(p, x.explicit)
           /\ Rebuilt(p, x, "roles", docs) = RebuildRoles(p, x.explicitRoles)
BY DEF Rebuilt, RebuildChannels, RebuildRoles, QueryAccess, QueryRoleAccess

-----------------------------------------------------------------------------
(* Steps.                                                                  *)

(* The records that a principal and a request begin with.                  *)
LEMMA RecordFacts ==
    /\ Absent \in Stored /\ Created \in Stored /\ IdleRequest \in RequestRecords
    /\ ~Absent.exists /\ Absent.cas = 0 /\ Absent.seq = 0 /\ Created.seq = 1
    /\ Created.channels = None /\ Created.roles = None /\ Created.explicit = None /\ Created.explicitRoles = None
    /\ IdleRequest.pc = "idle" /\ IdleRequest.op = "none" /\ IdleRequest.snap = Absent
    /\ IdleRequest.todo = {} /\ IdleRequest.tries = 0
<1>1. None \in TimedSets(Channels) /\ None \in TimedSets(Roles) BY NoneFacts
<1>2. User \in Principals BY DEF Principals
<1>3. 0 \in 0..MaxSeq /\ 1 \in 0..MaxSeq BY AccessAssumption
<1>4. Absent \in Stored BY <1>1, <1>3 DEF Absent, Stored
<1>5. Created \in Stored BY <1>1, <1>3 DEF Absent, Created, Stored
<1>6. IdleRequest \in RequestRecords BY <1>2, <1>4 DEF IdleRequest, RequestRecords, Whats
<1> QED BY <1>4, <1>5, <1>6 DEF Absent, Created, IdleRequest

(* Excuses last as long as the request that makes them, or become lost.    *)
LEMMA ExcusedKept ==
    ASSUME NEW R \in [Requests -> RequestRecords], NEW q \in Requests, NEW r, NEW S, S = [R EXCEPT ![q] = r],
           NEW p, NEW w, NEW L, NEW M, <<p, w>> \in L => <<p, w>> \in M,
           Pends(R[q], p, w) => Pends(r, p, w) \/ <<p, w>> \in M,
           Excused(p, w, R, L)
    PROVE  Excused(p, w, S, M)
<1>1. \A o \in Requests : S[o] = IF o = q THEN r ELSE R[o] OBVIOUS
<1> QED BY <1>1 DEF Excused

(* The same, for the requests before and after a step.                     *)
LEMMA StillExcused ==
    ASSUME AccessInv, NEW q \in Requests, NEW r, request' = [request EXCEPT ![q] = r], lost \subseteq lost',
           NEW p, NEW w, Pends(request[q], p, w) => Pends(r, p, w) \/ <<p, w>> \in lost',
           Excused(p, w, request, lost)
    PROVE  Excused(p, w, request', lost')
<1>1. request \in [Requests -> RequestRecords] BY DEF AccessInv, AccessTyped
<1>2. <<p, w>> \in lost => <<p, w>> \in lost' OBVIOUS
<1> QED BY <1>1, <1>2, ExcusedKept

(* nextSequence returns a sequence that has been allocated.                *)
LEMMA NextSequenceFacts ==
    ASSUME ReservedOK, seq \in 1..MaxSeq, NEW s, NextSequence(s)
    PROVE  s \in 1..MaxSeq /\ s <= seq' /\ seq' \in 1..MaxSeq /\ seq <= seq' /\ ReservedOK'
<1>1. CASE s = seq + 1 /\ s <= MaxSeq /\ seq' = s /\ UNCHANGED reserved
    BY <1>1, AccessAssumption DEF ReservedOK
<1>2. CASE s \in reserved /\ reserved' = reserved \ {s} /\ UNCHANGED seq
    BY <1>2, AccessAssumption DEF ReservedOK
<1> QED BY <1>1, <1>2 DEF NextSequence

(* A step of request q that stores no principal and changes no grant.      *)
LEMMA RequestStep ==
    ASSUME AccessInv, UNCHANGED <<docs, princ>>, NEW q \in Requests, NEW r \in RequestRecords,
           request' = [request EXCEPT ![q] = r], lost \subseteq lost', seq' \in 1..MaxSeq, seq <= seq',
           r.snap.seq <= seq',
           \A p \in Principals, w \in Whats :
               princ[p].exists /\ Pends(request[q], p, w) => Pends(r, p, w) \/ <<p, w>> \in lost',
           r.pc = "idle" => r = IdleRequest,
           SnapSound(r, princ, docs, request', lost')
    PROVE  AccessInv'
<1>1. /\ docs \in [Docs -> Grant] /\ princ \in [Principals -> Stored]
      /\ request \in [Requests -> RequestRecords] /\ seq \in 1..MaxSeq
    BY DEF AccessInv, AccessTyped
<1>2. request' \in [Requests -> RequestRecords] /\ \A o \in Requests : request'[o] = IF o = q THEN r ELSE request[o]
    BY <1>1
<1>3. ASSUME NEW p \in Principals, princ[p].exists, NEW x, Current(p, x, docs, request, lost)
      PROVE  Current(p, x, docs, request', lost')
    <2>1. \A w \in Whats : Excused(p, w, request, lost) => Excused(p, w, request', lost')
        BY <1>1, <1>3, ExcusedKept
    <2> QED BY <1>3, <2>1 DEF Current
<1>4. AccessTyped'
    <2>1. \A p \in Principals : princ[p].seq <= seq' BY <1>1 DEF AccessInv, AccessTyped, Stored
    <2>2. \A o \in Requests : request[o].snap.seq \in Int BY <1>1 DEF RequestRecords, Stored
    <2>3. \A o \in Requests : request[o].snap.seq <= seq' BY <1>1, <2>2 DEF AccessInv, AccessTyped
    <2>4. \A o \in Requests : request'[o].snap.seq <= seq' BY <1>2, <2>3
    <2> QED BY <1>1, <1>2, <2>1, <2>4 DEF AccessTyped
<1>5. \A p \in Principals : princ'[p].exists => Current(p, princ'[p], docs', request', lost')
    BY <1>3 DEF AccessInv
<1>6. ASSUME NEW o \in Requests PROVE SnapSound(request'[o], princ', docs', request', lost')
    <2>1. CASE o = q BY <1>2, <2>1
    <2>2. CASE o # q
        <3>1. request'[o] = request[o] /\ SnapSound(request[o], princ, docs, request, lost)
            BY <1>2, <2>2 DEF AccessInv
        <3>2. request[o].name \in Principals BY <1>1 DEF RequestRecords
        <3> QED BY <1>3, <3>1, <3>2 DEF SnapSound
    <2> QED BY <2>1, <2>2
<1>7. \A o \in Requests : request'[o].pc = "idle" => request'[o] = IdleRequest BY <1>2 DEF AccessInv
<1> QED BY <1>4, <1>5, <1>6, <1>7 DEF AccessInv

(* Of other principals than n nothing is forgotten when a request goes     *)
(* from r to s, and what is lost from L to M.                              *)
OthersExcused(n, r, s, L, M) ==
    \A p \in Principals \ {n}, w \in Whats :
        /\ <<p, w>> \in L => <<p, w>> \in M
        /\ Pends(r, p, w) => Pends(s, p, w) \/ <<p, w>> \in M

(* A request that has stored x as principal n ends, or goes on with it.    *)
GoesOnWith(r, n, x) ==
    /\ r.pc = "idle" => r = IdleRequest
    /\ r.pc \notin {"rebuild", "store"}
    /\ r.pc = "act" => r.name = n /\ r.snap = x /\ x.exists

(* A step of request q that stores principal n.                            *)
LEMMA StoreStep ==
    ASSUME AccessInv, UNCHANGED docs, NEW q \in Requests, NEW r \in RequestRecords,
           request' = [request EXCEPT ![q] = r],
           NEW n \in Principals, NEW x \in Stored, princ' = [princ EXCEPT ![n] = x],
           x.cas = princ[n].cas + 1, seq' \in 1..MaxSeq, seq <= seq', x.seq <= seq', r.snap.seq <= seq',
           OthersExcused(n, request[q], r, lost, lost'), GoesOnWith(r, n, x),
           x.exists => Current(n, x, docs, request', lost')
    PROVE  AccessInv'
<1>1. /\ docs \in [Docs -> Grant] /\ princ \in [Principals -> Stored]
      /\ request \in [Requests -> RequestRecords] /\ seq \in 1..MaxSeq
    BY DEF AccessInv, AccessTyped
<1>2. request' \in [Requests -> RequestRecords] /\ \A o \in Requests : request'[o] = IF o = q THEN r ELSE request[o]
    BY <1>1
<1>3. princ' \in [Principals -> Stored] /\ \A p \in Principals : princ'[p] = IF p = n THEN x ELSE princ[p]
    BY <1>1
<1>4. ASSUME NEW p \in Principals \ {n}, NEW y, Current(p, y, docs, request, lost)
      PROVE  Current(p, y, docs, request', lost')
    <2>1. \A w \in Whats : Excused(p, w, request, lost) => Excused(p, w, request', lost')
        BY <1>1, ExcusedKept DEF OthersExcused
    <2> QED BY <1>4, <2>1 DEF Current
<1>5. AccessTyped'
    <2>1. \A p \in Principals : princ[p].seq \in Int /\ princ[p].seq <= seq
        BY <1>1 DEF AccessInv, AccessTyped, Stored
    <2>2. \A p \in Principals : princ'[p].seq <= seq' BY <1>1, <1>3, <2>1
    <2>3. \A o \in Requests : request[o].snap.seq \in Int BY <1>1 DEF RequestRecords, Stored
    <2>4. \A o \in Requests : request[o].snap.seq <= seq' BY <1>1, <2>3 DEF AccessInv, AccessTyped
    <2>5. \A o \in Requests : request'[o].snap.seq <= seq' BY <1>2, <2>4
    <2> QED BY <1>1, <1>2, <1>3, <2>2, <2>5 DEF AccessTyped
<1>6. \A p \in Principals : princ'[p].exists => Current(p, princ'[p], docs', request', lost')
    BY <1>3, <1>4 DEF AccessInv
<1>7. ASSUME NEW o \in Requests PROVE SnapSound(request'[o], princ', docs', request', lost')
    <2>1. CASE o = q
        <3>1. request'[o] = r BY <1>2, <2>1
        <3>2. CopyOf(x, x, "act") BY DEF CopyOf, Stored
        <3>3. r.pc \in {"rebuild", "store", "act"} => CopyOf(r.snap, princ'[r.name], r.pc)
            BY <1>3, <3>2 DEF GoesOnWith
        <3> QED BY <3>1, <3>3 DEF SnapSound, GoesOnWith
    <2>2. CASE o # q
        <3> DEFINE s == request[o]
        <3>1. request'[o] = s /\ SnapSound(s, princ, docs, request, lost) BY <1>2, <2>2 DEF AccessInv
        <3>2. s.name \in Principals /\ s.snap.cas \in Nat BY <1>1 DEF RequestRecords, Stored
        <3>3. CASE s.name # n
            <4>1. princ'[s.name] = princ[s.name] BY <1>3, <3>2, <3>3
            <4>2. s.name \in Principals \ {n} BY <3>2, <3>3
            <4> QED BY <1>4, <3>1, <4>1, <4>2 DEF SnapSound
        <3>4. CASE s.name = n
            <4>1. princ'[s.name] = x /\ princ[n].cas \in Nat BY <1>1, <1>3, <3>4 DEF Stored
            <4> HIDE DEF s
            <4>2. CASE s.snap.exists
                <5>1. s.pc \in {"rebuild", "store", "act"} => s.snap.cas <= princ[n].cas
                    BY <3>1, <3>4, <4>2 DEF SnapSound, CopyOf
                <5>2. s.pc \in {"rebuild", "store", "act"} => s.snap.cas <= x.cas /\ s.snap.cas # x.cas
                    BY <3>2, <4>1, <5>1
                <5> QED BY <3>1, <4>1, <5>2 DEF SnapSound, CopyOf
            <4>3. CASE ~s.snap.exists
                BY <3>1, <4>3 DEF SnapSound
            <4> QED BY <4>2, <4>3
        <3> QED BY <3>3, <3>4
    <2> QED BY <2>1, <2>2
<1>8. \A o \in Requests : request'[o].pc = "idle" => request'[o] = IdleRequest
    BY <1>2 DEF AccessInv, GoesOnWith
<1> QED BY <1>5, <1>6, <1>7, <1>8 DEF AccessInv

-----------------------------------------------------------------------------
(* Loading.                                                                *)

(* What a request holds has its type and is sound.                         *)
LEMMA RequestFacts ==
    ASSUME AccessInv, NEW q \in Requests
    PROVE  LET r == request[q] IN
           /\ r \in RequestRecords /\ r.name \in Principals /\ r.what \in Whats /\ r.snap \in Stored
           /\ r.tries \in Nat /\ r.todo \in SUBSET (Principals \X Whats) /\ princ[r.name] \in Stored
           /\ r.channels \in SUBSET Channels /\ r.roles \in SUBSET Roles
           /\ r.snap.seq <= seq /\ SnapSound(r, princ, docs, request, lost)
           /\ r.pc = "idle" => r = IdleRequest
BY DEF AccessInv, AccessTyped, RequestRecords

(* A new request preserves the invariant.                                  *)
LEMMA BeginStep ==
    ASSUME AccessInv, NEW q \in Requests, NEW r \in RequestRecords, r.pc = "get", r.snap = Absent,
           Begin(q, r)
    PROVE  AccessInv'
<1>1. request[q] = IdleRequest BY RequestFacts DEF Begin, FirstIdle
<1>2. UNCHANGED <<docs, princ, seq, lost>> /\ request' = [request EXCEPT ![q] = r] BY DEF Begin
<1>3. seq \in 1..MaxSeq BY DEF AccessInv, AccessTyped
<1>4. \A p \in Principals, w \in Whats : ~Pends(request[q], p, w) BY <1>1, RecordFacts DEF Pends
<1>5. SnapSound(r, princ, docs, request', lost') BY DEF SnapSound
<1>6. r.snap.seq <= seq' /\ seq' \in 1..MaxSeq /\ seq <= seq' BY <1>2, <1>3, RecordFacts
<1> QED BY <1>2, <1>4, <1>5, <1>6, RequestStep

(* A request that found its principal holds it; one that did not has       *)
(* nothing to invalidate.                                                  *)
LEMMA LoadedSound ==
    ASSUME AccessInv, NEW r \in RequestRecords, r.pc = "get", r.snap.seq <= seq, NEW R, NEW L
    PROVE  LET l == LoadedPrincipal(r) IN
           /\ l \in RequestRecords /\ l.snap.seq <= seq /\ (l.pc = "idle" => l = IdleRequest)
           /\ SnapSound(l, princ, docs, R, L)
           /\ \A p \in Principals, w \in Whats : princ[p].exists /\ Pends(r, p, w) => Pends(l, p, w)
<1> DEFINE p == princ[r.name]
           l == LoadedPrincipal(r)
<1>1. /\ r.name \in Principals /\ p \in Stored /\ p.seq <= seq /\ seq \in 1..MaxSeq
    BY DEF AccessInv, AccessTyped, RequestRecords
<1>2. p.cas \in Nat BY <1>1 DEF Stored
<1>3. CASE l = [r EXCEPT !.snap = p, !.pc = "rebuild"] /\ (p.exists \/ r.op = "update")
    <2>1. /\ l \in RequestRecords /\ l.pc = "rebuild" /\ l.snap = p /\ l.name = r.name /\ l.op = r.op
          /\ l.todo = r.todo /\ l.what = r.what
        BY <1>1, <1>3 DEF RequestRecords
    <2> HIDE DEF l
    <2>2. SnapSound(l, princ, docs, R, L) BY <1>2, <1>3, <2>1 DEF SnapSound, CopyOf
    <2>3. \A x \in Principals, w \in Whats : Pends(r, x, w) => Pends(l, x, w) BY <2>1 DEF Pends
    <2> QED BY <1>1, <2>1, <2>2, <2>3 DEF l
<1>4. CASE l = [r EXCEPT !.pc = "act", !.snap = p] /\ p.exists
    <2>1. /\ l \in RequestRecords /\ l.pc = "act" /\ l.snap = p /\ l.name = r.name /\ l.op = r.op
          /\ l.todo = r.todo /\ l.what = r.what
        BY <1>1, <1>4 DEF RequestRecords
    <2> HIDE DEF l
    <2>2. SnapSound(l, princ, docs, R, L) BY <1>2, <1>4, <2>1 DEF SnapSound, CopyOf
    <2>3. \A x \in Principals, w \in Whats : Pends(r, x, w) => Pends(l, x, w) BY <2>1 DEF Pends
    <2> QED BY <1>1, <2>1, <2>2, <2>3 DEF l
<1>5. CASE l = [r EXCEPT !.pc = "next"] /\ ~p.exists
    <2>1. /\ l \in RequestRecords /\ l.pc = "next" /\ l.snap = r.snap /\ l.op = r.op /\ l.todo = r.todo
        BY <1>5 DEF RequestRecords
    <2> HIDE DEF l
    <2>2. SnapSound(l, princ, docs, R, L) BY <2>1 DEF SnapSound
    <2>3. \A x \in Principals, w \in Whats : princ[x].exists /\ Pends(r, x, w) => Pends(l, x, w)
        BY <1>5, <2>1 DEF Pends
    <2> QED BY <2>1, <2>2, <2>3 DEF l
<1>6. CASE l = IdleRequest /\ (r.op # "invalidate" \/ (~p.exists /\ r.todo = {}))
    <2>1. SnapSound(IdleRequest, princ, docs, R, L) BY RecordFacts DEF SnapSound
    <2>2. \A x \in Principals, w \in Whats : princ[x].exists => ~Pends(r, x, w) BY <1>6 DEF Pends
    <2>3. IdleRequest.snap.seq <= seq BY <1>1, RecordFacts
    <2> QED BY <1>6, <2>1, <2>2, <2>3, RecordFacts
<1>7. \/ l = [r EXCEPT !.snap = p, !.pc = "rebuild"] /\ (p.exists \/ r.op = "update")
      \/ l = [r EXCEPT !.pc = "act", !.snap = p] /\ p.exists
      \/ l = [r EXCEPT !.pc = "next"] /\ ~p.exists
      \/ l = IdleRequest /\ (r.op # "invalidate" \/ (~p.exists /\ r.todo = {}))
    BY DEF LoadedPrincipal, Proceed, Continue
<1> QED BY <1>3, <1>4, <1>5, <1>6, <1>7

(* Loading a principal preserves the invariant.                            *)
LEMMA LoadStep ==
    ASSUME AccessInv, NEW q \in Requests, Load(q)
    PROVE  AccessInv'
<1> DEFINE l == LoadedPrincipal(request[q])
<1>1. /\ request[q].pc = "get" /\ request' = [request EXCEPT ![q] = l] /\ UNCHANGED <<docs, princ, seq, lost>>
    BY DEF Load
<1>2. request[q] \in RequestRecords /\ request[q].snap.seq <= seq BY RequestFacts
<1>3. /\ l \in RequestRecords /\ l.snap.seq <= seq /\ (l.pc = "idle" => l = IdleRequest)
      /\ SnapSound(l, princ, docs, request', lost')
      /\ \A p \in Principals, w \in Whats : princ[p].exists /\ Pends(request[q], p, w) => Pends(l, p, w)
    BY <1>1, <1>2, LoadedSound
<1>4. seq' \in 1..MaxSeq /\ seq <= seq' BY <1>1 DEF AccessInv, AccessTyped
<1> HIDE DEF l
<1> QED BY <1>1, <1>3, <1>4, RequestStep

(* Going on to the next principal preserves the invariant.                 *)
LEMMA NextInvalidationStep ==
    ASSUME AccessInv, NEW q \in Requests, NextInvalidation(q)
    PROVE  AccessInv'
<1>1. request[q].pc = "next" /\ UNCHANGED <<docs, princ, seq, lost>> BY DEF NextInvalidation
<1>2. PICK t \in request[q].todo :
          request' = [request EXCEPT ![q] =
               LoadedPrincipal([request[q] EXCEPT !.pc = "get", !.name = t[1], !.what = t[2],
                                !.tries = 0, !.todo = request[q].todo \ {t}])]
    BY DEF NextInvalidation
<1> DEFINE r == [request[q] EXCEPT !.pc = "get", !.name = t[1], !.what = t[2],
                                   !.tries = 0, !.todo = request[q].todo \ {t}]
           l == LoadedPrincipal(r)
<1>3. request[q] \in RequestRecords /\ request[q].snap.seq <= seq /\ request[q].todo \in SUBSET (Principals \X Whats)
    BY RequestFacts
<1>4. t[1] \in Principals /\ t[2] \in Whats /\ t = <<t[1], t[2]>> BY <1>3
<1>5. /\ r \in RequestRecords /\ r.pc = "get" /\ r.snap = request[q].snap /\ r.name = t[1] /\ r.what = t[2]
      /\ r.todo = request[q].todo \ {t} /\ r.op = request[q].op
    BY <1>3, <1>4 DEF RequestRecords
<1>6. \A p \in Principals, w \in Whats : Pends(request[q], p, w) => Pends(r, p, w)
    <2> HIDE DEF r
    <2> QED BY <1>1, <1>4, <1>5 DEF Pends
<1> HIDE DEF r
<1>7. /\ l \in RequestRecords /\ l.snap.seq <= seq /\ (l.pc = "idle" => l = IdleRequest)
      /\ SnapSound(l, princ, docs, request', lost')
      /\ \A p \in Principals, w \in Whats : princ[p].exists /\ Pends(r, p, w) => Pends(l, p, w)
    BY <1>3, <1>5, LoadedSound
<1>8. seq' \in 1..MaxSeq /\ seq <= seq' BY <1>1 DEF AccessInv, AccessTyped
<1>9. request' = [request EXCEPT ![q] = l] BY <1>2 DEF r
<1> HIDE DEF l
<1> QED BY <1>1, <1>6, <1>7, <1>8, <1>9, RequestStep

-----------------------------------------------------------------------------
(* Rebuilding and storing.                                                 *)

(* The queries preserve the invariant: what they return is current as of   *)
(* now, and what was still valid is as current as the principal.           *)
LEMMA RebuildStep ==
    ASSUME AccessInv, NEW q \in Requests, Rebuild(q)
    PROVE  AccessInv'
<1> DEFINE r == request[q]
           s == r.snap
           x == Recomputed(r.name, s)
           l == [r EXCEPT !.pc = IF s.exists THEN "store" ELSE "act", !.snap = x]
<1>1. /\ r \in RequestRecords /\ r.name \in Principals /\ s \in Stored /\ princ[r.name] \in Stored
      /\ s.seq <= seq /\ SnapSound(r, princ, docs, request, lost)
    BY RequestFacts
<1>2. r.pc = "rebuild" /\ UNCHANGED <<docs, princ, seq, lost>> BY DEF Rebuild
<1>3. /\ request \in [Requests -> RequestRecords] /\ seq \in 1..MaxSeq /\ AccessTyped BY DEF AccessInv, AccessTyped
<1>4. request' = [request EXCEPT ![q] = l]
    BY DEF Rebuild
<1>5. RebuildChannels(r.name, s.explicit) \in TimedSets(Channels)
      /\ RebuildRoles(r.name, s.explicitRoles) \in TimedSets(Roles)
    BY <1>1, <1>3, RebuiltTyped
<1>6. /\ x \in Stored /\ x.exists = s.exists /\ x.cas = s.cas /\ x.seq = s.seq
      /\ x.explicit = s.explicit /\ x.explicitRoles = s.explicitRoles
      /\ x.channels = IF s.channels = Nil THEN RebuildChannels(r.name, s.explicit) ELSE s.channels
      /\ x.roles = IF s.roles = Nil THEN RebuildRoles(r.name, s.explicitRoles) ELSE s.roles
    BY ZenonT(30), <1>1, <1>5 DEF Stored, Recomputed
<1> HIDE DEF x
<1>7. /\ l \in RequestRecords /\ l.snap = x /\ l.name = r.name /\ l.op = r.op /\ l.todo = r.todo /\ l.what = r.what
      /\ l.pc = IF s.exists THEN "store" ELSE "act"
    BY <1>1, <1>6 DEF RequestRecords
<1> HIDE DEF l
<1>8. \A p \in Principals, w \in Whats : Pends(r, p, w) => Pends(l, p, w) BY <1>2, <1>7 DEF Pends
<1>9. ASSUME s.exists, princ[r.name].exists, s.cas = princ[r.name].cas
      PROVE  Current(r.name, x, docs, request', lost')
    <2>1. s = princ[r.name] BY <1>1, <1>2, <1>9 DEF SnapSound, CopyOf
    <2>2. Current(r.name, s, docs, request, lost) BY <1>1, <1>9, <2>1 DEF AccessInv
    <2>3. ASSUME NEW w \in Whats, Excused(r.name, w, request, lost) PROVE Excused(r.name, w, request', lost')
        <3>1. Pends(request[q], r.name, w) => Pends(l, r.name, w) \/ <<r.name, w>> \in lost' BY <1>1, <1>8
        <3>2. lost \subseteq lost' BY <1>2
        <3> QED BY <1>4, <2>3, <3>1, <3>2, StillExcused
    <2>4. \A w \in Whats : Rebuilt(r.name, x, w, docs) = Rebuilt(r.name, s, w, docs) BY <1>6 DEF Rebuilt
    <2>5. /\ Rebuilt(r.name, s, "channels", docs) = RebuildChannels(r.name, s.explicit)
          /\ Rebuilt(r.name, s, "roles", docs) = RebuildRoles(r.name, s.explicitRoles)
        BY RebuiltIs
    <2>6. \A w \in Whats : Computed(x, w) = IF Computed(s, w) = Nil THEN Rebuilt(r.name, s, w, docs) ELSE Computed(s, w)
        BY <1>6, <2>5 DEF Computed, Whats
    <2> QED BY <2>2, <2>3, <2>4, <2>6 DEF Current
<1>10. SnapSound(l, princ, docs, request', lost')
    <2>1. s.exists => CopyOf(s, princ[r.name], "rebuild") BY <1>1, <1>2 DEF SnapSound
    <2>2. s.exists => CopyOf(x, princ[r.name], "store") BY <1>6, <2>1 DEF CopyOf
    <2>3. s.exists \/ r.op = "update" BY <1>1, <1>2 DEF SnapSound
    <2> HIDE DEF r, s
    <2> QED BY <1>6, <1>7, <1>9, <2>2, <2>3 DEF SnapSound
<1>11. l.snap.seq <= seq' /\ seq' \in 1..MaxSeq /\ seq <= seq' /\ l.pc # "idle"
    BY <1>1, <1>2, <1>3, <1>6, <1>7
<1> QED BY <1>2, <1>4, <1>7, <1>8, <1>10, <1>11, RequestStep

(* A principal that is saved has its type.                                 *)
LEMMA SavedTyped ==
    ASSUME AccessInv, NEW n \in Principals, NEW x \in Stored
    PROVE  LET y == Saved(n, x) IN
           /\ y \in Stored /\ y.exists /\ y.cas = princ[n].cas + 1 /\ y.seq = x.seq
           /\ y.explicit = x.explicit /\ y.explicitRoles = x.explicitRoles
           /\ y.channels = x.channels /\ y.roles = x.roles
<1>1. princ[n].cas \in Nat BY DEF AccessInv, AccessTyped, Stored
<1>2. TRUE \in BOOLEAN /\ princ[n].cas + 1 \in Nat BY <1>1
<1> DEFINE y == Saved(n, x)
<1>3. y = [x EXCEPT !.exists = TRUE, !.cas = princ[n].cas + 1] BY DEF Saved
<1>4. y \in Stored BY <1>2, <1>3 DEF Stored
<1>5. y.exists = TRUE BY <1>3 DEF Stored
<1>6. /\ y.cas = princ[n].cas + 1 /\ y.seq = x.seq /\ y.explicit = x.explicit
      /\ y.explicitRoles = x.explicitRoles /\ y.channels = x.channels /\ y.roles = x.roles
    BY <1>3 DEF Stored
<1> QED BY <1>4, <1>5, <1>6

(* Storing what was rebuilt preserves the invariant.                       *)
LEMMA StorePrincipalStep ==
    ASSUME AccessInv, NEW q \in Requests, Store(q)
    PROVE  AccessInv'
<1> DEFINE r == request[q]
<1>1. /\ r \in RequestRecords /\ r.name \in Principals /\ r.snap \in Stored /\ princ[r.name] \in Stored
      /\ r.snap.seq <= seq /\ SnapSound(r, princ, docs, request, lost)
    BY RequestFacts
<1>2. r.pc = "store" /\ UNCHANGED <<docs, seq, lost>> BY DEF Store
<1>3. /\ request \in [Requests -> RequestRecords] /\ seq \in 1..MaxSeq BY DEF AccessInv, AccessTyped
<1>4. seq' \in 1..MaxSeq /\ seq <= seq' BY <1>2, <1>3
<1>5. CASE CasMatches(q)
    <2> DEFINE x == Saved(r.name, r.snap)
               l == Proceed(r, x)
    <2>1. princ' = [princ EXCEPT ![r.name] = x] /\ request' = [request EXCEPT ![q] = l] BY <1>5 DEF Store
    <2>2. r.snap.exists /\ princ[r.name].exists /\ r.snap.cas = princ[r.name].cas
        BY <1>1, <1>2, <1>5 DEF SnapSound, CasMatches
    <2>3. Current(r.name, r.snap, docs, request, lost) BY <1>1, <1>2, <2>2 DEF SnapSound
    <2>4. /\ x \in Stored /\ x.exists /\ x.cas = princ[r.name].cas + 1 /\ x.seq = r.snap.seq
          /\ x.explicit = r.snap.explicit /\ x.explicitRoles = r.snap.explicitRoles
          /\ x.channels = r.snap.channels /\ x.roles = r.snap.roles
        BY <1>1, SavedTyped
    <2> HIDE DEF x
    <2>5. \/ r.op = "get" /\ l = IdleRequest
          \/ /\ l \in RequestRecords /\ l.pc = "act" /\ l.snap = x /\ l.name = r.name /\ l.op = r.op
             /\ l.todo = r.todo /\ l.what = r.what
        BY <1>1, <2>4 DEF Proceed, RequestRecords
    <2>6. l \in RequestRecords /\ (l.pc = "idle" => l = IdleRequest)
          /\ l.pc \notin {"rebuild", "store"} /\ (l.pc = "act" => l.name = r.name /\ l.snap = x)
        BY <2>4, <2>5, RecordFacts
    <2>7. \A p \in Principals, w \in Whats : Pends(r, p, w) => Pends(l, p, w)
        <3> HIDE DEF l
        <3> QED BY <1>2, <2>5 DEF Pends
    <2>8. l.snap.seq <= seq' /\ x.seq <= seq' BY <1>1, <1>2, <1>3, <2>4, <2>5, RecordFacts
    <2>9. Current(r.name, x, docs, request', lost')
        <3> HIDE DEF l
        <3>1. ASSUME NEW w \in Whats, Excused(r.name, w, request, lost) PROVE Excused(r.name, w, request', lost')
            <4>1. Pends(request[q], r.name, w) => Pends(l, r.name, w) \/ <<r.name, w>> \in lost' BY <1>1, <2>7
            <4>2. lost \subseteq lost' BY <1>2
            <4> QED BY <2>1, <3>1, <4>1, <4>2, StillExcused
        <3>2. \A w \in Whats : Rebuilt(r.name, x, w, docs) = Rebuilt(r.name, r.snap, w, docs)
                               /\ Computed(x, w) = Computed(r.snap, w)
            BY <2>4 DEF Rebuilt, Computed
        <3> QED BY <2>3, <3>1, <3>2 DEF Current
    <2> HIDE DEF l
    <2>10. OthersExcused(r.name, request[q], l, lost, lost') BY <1>2, <2>7 DEF OthersExcused
    <2>11. GoesOnWith(l, r.name, x) BY <2>4, <2>6 DEF GoesOnWith
    <2> QED BY <1>1, <1>2, <1>4, <2>1, <2>4, <2>6, <2>8, <2>9, <2>10, <2>11, StoreStep
<1>6. CASE ~CasMatches(q)
    <2> DEFINE l == [r EXCEPT !.pc = "get"]
    <2>1. request' = [request EXCEPT ![q] = l] /\ princ' = princ BY <1>1, <1>3, <1>6 DEF Store, RequestRecords
    <2>2. l \in RequestRecords /\ l.pc = "get" /\ l.snap = r.snap /\ l.name = r.name /\ l.op = r.op
          /\ l.todo = r.todo /\ l.what = r.what
        BY <1>1 DEF RequestRecords
    <2> HIDE DEF l
    <2>3. \A p \in Principals, w \in Whats : Pends(r, p, w) => Pends(l, p, w) BY <1>2, <2>2 DEF Pends
    <2>4. SnapSound(l, princ, docs, request', lost') BY <2>2 DEF SnapSound
    <2>5. l.snap.seq <= seq' /\ l.pc # "idle" BY <1>1, <1>2, <2>2
    <2> QED BY <1>2, <1>4, <2>1, <2>2, <2>3, <2>4, <2>5, RequestStep
<1> QED BY <1>5, <1>6

-----------------------------------------------------------------------------
(* Invalidating.                                                           *)

(* Going on after an invalidation forgets only that invalidation.          *)
LEMMA ContinueFacts ==
    ASSUME AccessInv, NEW r \in RequestRecords, r.snap.seq <= seq, NEW R, NEW L
    PROVE  LET l == Continue(r) IN
           /\ l \in RequestRecords /\ l.snap.seq <= seq /\ (l.pc = "idle" => l = IdleRequest)
           /\ l.pc \in {"idle", "next"} /\ SnapSound(l, princ, docs, R, L)
           /\ \A p \in Principals, w \in Whats : r.op = "invalidate" /\ <<p, w>> \in r.todo => Pends(l, p, w)
<1> DEFINE l == Continue(r)
           n == [r EXCEPT !.pc = "next"]
<1>1. seq \in 1..MaxSeq BY DEF AccessInv, AccessTyped
<1>2. n \in RequestRecords /\ n.pc = "next" /\ n.snap = r.snap /\ n.op = r.op /\ n.todo = r.todo
    BY DEF RequestRecords
<1>3. (l = IdleRequest /\ r.todo = {}) \/ l = n BY DEF Continue
<1> HIDE DEF l, n
<1>4. l.pc \in {"idle", "next"} /\ (l.pc = "idle" => l = IdleRequest) /\ l \in RequestRecords
    BY <1>2, <1>3, RecordFacts
<1>5. l.snap.seq <= seq BY <1>1, <1>2, <1>3, RecordFacts
<1>6. SnapSound(l, princ, docs, R, L) BY <1>4 DEF SnapSound
<1>7. \A p \in Principals, w \in Whats : r.op = "invalidate" /\ <<p, w>> \in r.todo => Pends(l, p, w)
    BY <1>2, <1>3 DEF Pends
<1> QED BY <1>4, <1>5, <1>6, <1>7 DEF l

(* An invalidation preserves the invariant.                                *)
LEMMA InvalidateStep ==
    ASSUME AccessInv, NEW q \in Requests, Invalidate(q)
    PROVE  AccessInv'
<1> DEFINE r == request[q]
           c == IF r.what = "channels" THEN [r.snap EXCEPT !.channels = Nil] ELSE [r.snap EXCEPT !.roles = Nil]
<1>1. /\ r \in RequestRecords /\ r.name \in Principals /\ r.what \in Whats /\ r.snap \in Stored
      /\ princ[r.name] \in Stored /\ r.tries \in Nat
      /\ r.snap.seq <= seq /\ SnapSound(r, princ, docs, request, lost)
    BY RequestFacts
<1>2. r.pc = "act" /\ r.op = "invalidate" /\ UNCHANGED <<docs, seq, lost>> BY DEF Invalidate
<1>3. /\ request \in [Requests -> RequestRecords] /\ seq \in 1..MaxSeq BY DEF AccessInv, AccessTyped
<1>4. seq' \in 1..MaxSeq /\ seq <= seq' BY <1>2, <1>3
<1>5. CASE CasMatches(q)
    <2> DEFINE x == Saved(r.name, c)
               l == Continue(r)
    <2>1. princ' = [princ EXCEPT ![r.name] = x] /\ request' = [request EXCEPT ![q] = l] BY <1>5 DEF Invalidate
    <2>2. r.snap = princ[r.name] /\ princ[r.name].exists
        BY <1>1, <1>2, <1>5 DEF SnapSound, CasMatches, CopyOf
    <2>3. Current(r.name, r.snap, docs, request, lost) BY <1>1, <2>2 DEF AccessInv
    <2>4. /\ c \in Stored /\ c.seq = r.snap.seq /\ c.explicit = r.snap.explicit
          /\ c.explicitRoles = r.snap.explicitRoles
          /\ c.channels = IF r.what = "channels" THEN Nil ELSE r.snap.channels
          /\ c.roles = IF r.what = "channels" THEN r.snap.roles ELSE Nil
        BY <1>1 DEF Stored
    <2> HIDE DEF c
    <2>5. /\ x \in Stored /\ x.exists /\ x.cas = princ[r.name].cas + 1 /\ x.seq = c.seq
          /\ x.explicit = c.explicit /\ x.explicitRoles = c.explicitRoles
          /\ x.channels = c.channels /\ x.roles = c.roles
        BY <1>1, <2>4, SavedTyped
    <2>6. /\ l \in RequestRecords /\ l.snap.seq <= seq /\ (l.pc = "idle" => l = IdleRequest)
          /\ l.pc \in {"idle", "next"}
          /\ \A p \in Principals, w \in Whats : r.op = "invalidate" /\ <<p, w>> \in r.todo => Pends(l, p, w)
        BY <1>1, ContinueFacts
    <2> HIDE DEF x, l
    <2>7. \A p \in Principals, w \in Whats : Pends(r, p, w) => Pends(l, p, w) \/ (p = r.name /\ w = r.what)
        BY <1>2, <2>6 DEF Pends
    <2>8. ASSUME NEW w \in Whats, w # r.what, Excused(r.name, w, request, lost)
          PROVE  Excused(r.name, w, request', lost')
        <3>1. Pends(request[q], r.name, w) => Pends(l, r.name, w) \/ <<r.name, w>> \in lost'
            BY <1>1, <2>7, <2>8
        <3>2. lost \subseteq lost' BY <1>2
        <3> QED BY <2>1, <2>8, <3>1, <3>2, StillExcused
    <2>9. \A w \in Whats : Rebuilt(r.name, x, w, docs) = Rebuilt(r.name, r.snap, w, docs)
                           /\ Computed(x, w) = IF w = r.what THEN Nil ELSE Computed(r.snap, w)
        BY <1>1, <2>4, <2>5 DEF Rebuilt, Computed, Whats
    <2>10. Current(r.name, x, docs, request', lost') BY <2>3, <2>8, <2>9 DEF Current
    <2>11. l.snap.seq <= seq' /\ x.seq <= seq' BY <1>1, <1>2, <2>4, <2>5, <2>6
    <2>12. OthersExcused(r.name, request[q], l, lost, lost') BY <1>2, <2>7 DEF OthersExcused
    <2>13. GoesOnWith(l, r.name, x) BY <2>6 DEF GoesOnWith
    <2> QED BY <1>1, <1>2, <1>4, <2>1, <2>5, <2>6, <2>10, <2>11, <2>12, <2>13, StoreStep
<1>6. CASE ~CasMatches(q)
    <2> DEFINE l == [r EXCEPT !.pc = "get", !.tries = r.tries + 1]
    <2>0. r.tries + 1 \in Nat BY <1>1
    <2>1. request' = [request EXCEPT ![q] = l] /\ princ' = princ BY <1>1, <1>3, <1>6 DEF Invalidate, RequestRecords
    <2>2. l \in RequestRecords /\ l.pc = "get" /\ l.snap = r.snap /\ l.name = r.name /\ l.op = r.op
          /\ l.todo = r.todo /\ l.what = r.what
        BY <1>1, <2>0 DEF RequestRecords
    <2> HIDE DEF l
    <2>3. \A p \in Principals, w \in Whats : Pends(r, p, w) => Pends(l, p, w) BY <1>2, <2>2 DEF Pends
    <2>4. SnapSound(l, princ, docs, request', lost') BY <2>2 DEF SnapSound
    <2>5. l.snap.seq <= seq' /\ l.pc # "idle" BY <1>1, <1>2, <2>2
    <2> QED BY <1>2, <1>4, <2>1, <2>2, <2>3, <2>4, <2>5, RequestStep
<1> QED BY <1>5, <1>6

(* Giving up preserves the invariant: what was not invalidated is lost.    *)
LEMMA GiveUpStep ==
    ASSUME AccessInv, NEW q \in Requests, GiveUp(q)
    PROVE  AccessInv'
<1> DEFINE r == request[q]
           l == Continue(r)
<1>1. r \in RequestRecords /\ r.snap.seq <= seq BY RequestFacts
<1>2. /\ r.pc = "act" /\ r.op = "invalidate" /\ UNCHANGED <<docs, princ, seq>>
      /\ request' = [request EXCEPT ![q] = l] /\ lost' = lost \cup {<<r.name, r.what>>}
    BY DEF GiveUp
<1>3. /\ l \in RequestRecords /\ l.snap.seq <= seq /\ (l.pc = "idle" => l = IdleRequest)
      /\ SnapSound(l, princ, docs, request', lost')
      /\ \A p \in Principals, w \in Whats : r.op = "invalidate" /\ <<p, w>> \in r.todo => Pends(l, p, w)
    BY <1>1, ContinueFacts
<1> HIDE DEF l
<1>4. \A p \in Principals, w \in Whats : Pends(r, p, w) => Pends(l, p, w) \/ <<p, w>> \in lost'
    BY <1>2, <1>3 DEF Pends
<1>5. seq' \in 1..MaxSeq /\ seq <= seq' /\ l.snap.seq <= seq' BY <1>2, <1>3 DEF AccessInv, AccessTyped
<1>6. lost \subseteq lost' BY <1>2
<1>7. \A p \in Principals, w \in Whats :
          princ[p].exists /\ Pends(request[q], p, w) => Pends(l, p, w) \/ <<p, w>> \in lost'
    BY <1>4
<1>8. UNCHANGED <<docs, princ>> /\ request' = [request EXCEPT ![q] = l] BY <1>2
<1> HIDE DEF r
<1> QED BY <1>3, <1>5, <1>6, <1>7, <1>8, RequestStep

(* The end of a request with nothing on its way, or whose invalidations    *)
(* are lost.                                                               *)
LEMMA EndStep ==
    ASSUME AccessInv, NEW q \in Requests, UNCHANGED <<docs, princ>>, seq' \in 1..MaxSeq, seq <= seq',
           request' = [request EXCEPT ![q] = IdleRequest], lost \subseteq lost',
           \A p \in Principals, w \in Whats : Pends(request[q], p, w) => <<p, w>> \in lost'
    PROVE  AccessInv'
<1>1. SnapSound(IdleRequest, princ, docs, request', lost') BY RecordFacts DEF SnapSound
<1>2. IdleRequest.snap.seq <= seq' BY RecordFacts
<1> QED BY <1>1, <1>2, RecordFacts, RequestStep

(* A failure preserves the invariant: what was not invalidated is lost.    *)
LEMMA FailStep ==
    ASSUME AccessInv, ReservedOK, NEW q \in Requests, Fail(q)
    PROVE  AccessInv'
<1> DEFINE r == request[q]
           l == Continue(r)
<1>1. r \in RequestRecords /\ r.snap.seq <= seq BY RequestFacts
<1>2. r.pc \notin {"idle", "next"} /\ UNCHANGED <<docs, princ>> /\ seq \in 1..MaxSeq
    BY DEF Fail, AccessInv, AccessTyped
<1>3. seq' \in 1..MaxSeq /\ seq <= seq'
    <2>1. UNCHANGED seq \/ \E s \in 1..MaxSeq : NextSequence(s) BY DEF Fail
    <2> QED BY <1>2, <2>1, NextSequenceFacts
<1>4. CASE r.op = "invalidate"
    <2>1. request' = [request EXCEPT ![q] = l] /\ lost' = lost \cup {<<r.name, r.what>>}
        BY <1>4 DEF Fail
    <2>2. /\ l \in RequestRecords /\ l.snap.seq <= seq /\ (l.pc = "idle" => l = IdleRequest)
          /\ SnapSound(l, princ, docs, request', lost')
          /\ \A p \in Principals, w \in Whats : r.op = "invalidate" /\ <<p, w>> \in r.todo => Pends(l, p, w)
        BY <1>1, ContinueFacts
    <2> HIDE DEF l
    <2>3. \A p \in Principals, w \in Whats :
              princ[p].exists /\ Pends(request[q], p, w) => Pends(l, p, w) \/ <<p, w>> \in lost'
        BY <1>4, <2>1, <2>2 DEF Pends
    <2>4. l.snap.seq \in Int BY <2>2 DEF RequestRecords, Stored
    <2>5. l.snap.seq <= seq' /\ lost \subseteq lost' BY <1>2, <1>3, <2>1, <2>2, <2>4
    <2> HIDE DEF r
    <2> QED BY <1>2, <1>3, <2>1, <2>2, <2>3, <2>5, RequestStep
<1>5. CASE r.op # "invalidate"
    <2>1. request' = [request EXCEPT ![q] = IdleRequest] /\ lost' = lost BY <1>5 DEF Fail
    <2>2. \A p \in Principals, w \in Whats : ~Pends(request[q], p, w) BY <1>5 DEF Pends
    <2> QED BY <1>2, <1>3, <2>1, <2>2, EndStep
<1> QED BY <1>4, <1>5

(* A crash preserves the invariant.                                        *)
LEMMA CrashStep ==
    ASSUME AccessInv, NEW q \in Requests, CrashDuring(q)
    PROVE  AccessInv'
<1>1. \A p \in Principals, w \in Whats : Pends(request[q], p, w) => <<p, w>> \in lost'
    BY DEF CrashDuring, Pends
<1>2. /\ UNCHANGED <<docs, princ, seq>> /\ request' = [request EXCEPT ![q] = IdleRequest] /\ lost \subseteq lost'
    BY DEF CrashDuring
<1>3. seq' \in 1..MaxSeq /\ seq <= seq' BY <1>2 DEF AccessInv, AccessTyped
<1> QED BY <1>1, <1>2, <1>3, EndStep

-----------------------------------------------------------------------------
(* Administration.                                                         *)

(* The principal that is requested has its type, and what it does not      *)
(* invalidate is based on the same explicit grants.                        *)
LEMMA RequestedFacts ==
    ASSUME NEW r \in RequestRecords, NEW s \in 1..MaxSeq
    PROVE  LET p == r.snap
               y == Requested(r, s) IN
           /\ y \in Stored /\ y.seq = s
           /\ y.channels = Nil \/ (y.channels = p.channels /\ y.explicit = p.explicit)
           /\ y.roles = Nil \/ (y.roles = p.roles /\ y.explicitRoles = p.explicitRoles)
<1> DEFINE p == r.snap
           y == Requested(r, s)
           e == UpdateAtSequence(p.explicit, r.channels, s)
           f == UpdateAtSequence(p.explicitRoles, r.roles, s)
           c == IF DOMAIN p.explicit # r.channels THEN Nil ELSE p.channels
           o == IF DOMAIN p.explicitRoles # r.roles THEN Nil ELSE p.roles
<1>1. p \in Stored /\ r.channels \in SUBSET Channels /\ r.roles \in SUBSET Roles BY DEF RequestRecords
<1>2. /\ p.explicit \in TimedSets(Channels) /\ p.explicitRoles \in TimedSets(Roles)
      /\ p.channels \in TimedSets(Channels) \cup {Nil} /\ p.roles \in TimedSets(Roles) \cup {Nil}
    BY <1>1 DEF Stored
<1>3. e \in TimedSets(Channels) /\ (DOMAIN p.explicit = r.channels => e = p.explicit)
    BY <1>1, <1>2, UpdateFacts
<1>4. f \in TimedSets(Roles) /\ (DOMAIN p.explicitRoles = r.roles => f = p.explicitRoles)
    BY <1>1, <1>2, UpdateFacts
<1>5. y = [p EXCEPT !.seq = s, !.explicit = e, !.channels = c, !.explicitRoles = f, !.roles = o]
    BY <1>1 DEF Requested, Stored
<1>6. c \in TimedSets(Channels) \cup {Nil} /\ o \in TimedSets(Roles) \cup {Nil} BY <1>2
<1>7. s \in 0..MaxSeq OBVIOUS
<1>8. c = Nil \/ (c = p.channels /\ e = p.explicit) BY <1>3
<1>9. o = Nil \/ (o = p.roles /\ f = p.explicitRoles) BY <1>4
<1> HIDE DEF p, y, e, f, c, o
<1>10. y \in Stored /\ y.seq = s /\ y.explicit = e /\ y.channels = c /\ y.explicitRoles = f /\ y.roles = o
    BY <1>1, <1>3, <1>4, <1>5, <1>6, <1>7 DEF Stored
<1> QED BY <1>8, <1>9, <1>10 DEF p, y

(* A new principal whose sets a grant has overtaken is counted as lost.    *)
LEMMA CreatedFacts ==
    ASSUME NEW r \in RequestRecords, ~r.snap.exists, NEW w \in Whats, NEW s
    PROVE  LET y == Requested(r, s) IN
           \/ Computed(y, w) = Nil \/ Computed(y, w) = Rebuilt(r.name, y, w, docs)
           \/ <<r.name, w>> \in StaleWhenCreated(r, s)
<1> DEFINE y == Requested(r, s)
<1>1. /\ Rebuilt(r.name, y, "channels", docs) = RebuildChannels(r.name, y.explicit)
      /\ Rebuilt(r.name, y, "roles", docs) = RebuildRoles(r.name, y.explicitRoles)
    BY RebuiltIs
<1> HIDE DEF y
<1>2. StaleWhenCreated(r, s) =
          {<<r.name, v>> : v \in {t \in {"channels", "roles"} :
              IF t = "channels" THEN y.channels # Nil /\ y.channels # RebuildChannels(r.name, y.explicit)
              ELSE y.roles # Nil /\ y.roles # RebuildRoles(r.name, y.explicitRoles)}}
    BY DEF StaleWhenCreated, y
<1>3. CASE w = "channels" BY <1>1, <1>2, <1>3 DEF Computed, y
<1>4. CASE w = "roles" BY <1>1, <1>2, <1>4 DEF Computed, y
<1> QED BY <1>3, <1>4 DEF Whats

(* An administrator's update preserves the invariant.                      *)
LEMMA SavePrincipalStep ==
    ASSUME AccessInv, ReservedOK, NEW q \in Requests, SavePrincipal(q)
    PROVE  AccessInv'
<1> DEFINE r == request[q]
<1>1. /\ r \in RequestRecords /\ r.name \in Principals /\ r.snap \in Stored /\ princ[r.name] \in Stored
      /\ r.tries \in Nat /\ r.snap.seq <= seq /\ SnapSound(r, princ, docs, request, lost)
    BY RequestFacts
<1>2. r.pc = "act" /\ r.op = "update" /\ UNCHANGED docs BY DEF SavePrincipal
<1>3. /\ request \in [Requests -> RequestRecords] /\ seq \in 1..MaxSeq BY DEF AccessInv, AccessTyped
<1>8. PICK s \in 1..MaxSeq :
         /\ NextSequence(s)
         /\ IF CasMatches(q)
            THEN /\ princ' = [princ EXCEPT ![r.name] = Saved(r.name, Requested(r, s))]
                 /\ lost' = lost \cup StaleWhenCreated(r, s)
                 /\ request' = [request EXCEPT ![q] = IdleRequest]
            ELSE /\ request' = [request EXCEPT ![q] =
                        IF r.tries + 1 = MaxCasRetries THEN IdleRequest
                        ELSE [r EXCEPT !.pc = "get", !.tries = r.tries + 1]]
                 /\ UNCHANGED <<princ, lost>>
    BY <1>1 DEF SavePrincipal, RequestRecords
<1>4. seq' \in 1..MaxSeq /\ seq <= seq' /\ s <= seq' /\ IdleRequest.snap.seq <= seq'
    BY <1>3, <1>8, RecordFacts, NextSequenceFacts
<1>5. \A p, w : ~Pends(r, p, w) BY <1>2 DEF Pends
<1>6. CASE CasMatches(q)
    <2> DEFINE y == Requested(r, s)
               x == Saved(r.name, y)
    <2>1. /\ princ' = [princ EXCEPT ![r.name] = x] /\ request' = [request EXCEPT ![q] = IdleRequest]
          /\ lost' = lost \cup StaleWhenCreated(r, s)
        BY <1>6, <1>8
    <2>2. /\ y \in Stored /\ y.seq = s
          /\ y.channels = Nil \/ (y.channels = r.snap.channels /\ y.explicit = r.snap.explicit)
          /\ y.roles = Nil \/ (y.roles = r.snap.roles /\ y.explicitRoles = r.snap.explicitRoles)
        BY <1>1, <1>4, RequestedFacts
    <2>3. ~r.snap.exists => \A w \in Whats :
              \/ Computed(y, w) = Nil \/ Computed(y, w) = Rebuilt(r.name, y, w, docs)
              \/ <<r.name, w>> \in StaleWhenCreated(r, s)
        BY <1>1, <1>2, CreatedFacts
    <2> HIDE DEF y
    <2>4. /\ x \in Stored /\ x.exists /\ x.cas = princ[r.name].cas + 1 /\ x.seq = y.seq
          /\ x.explicit = y.explicit /\ x.explicitRoles = y.explicitRoles
          /\ x.channels = y.channels /\ x.roles = y.roles
        BY <1>1, <2>2, SavedTyped
    <2> HIDE DEF x
    <2>5. \A w \in Whats : Rebuilt(r.name, x, w, docs) = Rebuilt(r.name, y, w, docs)
                           /\ Computed(x, w) = Computed(y, w)
        BY <2>4 DEF Rebuilt, Computed
    <2>6. Current(r.name, x, docs, request', lost')
        <3>1. CASE r.snap.exists
            <4>1. r.snap = princ[r.name] /\ princ[r.name].exists
                BY <1>1, <1>2, <1>6, <3>1 DEF SnapSound, CasMatches, CopyOf
            <4>2. Current(r.name, r.snap, docs, request, lost) BY <1>1, <4>1 DEF AccessInv
            <4>3. ASSUME NEW w \in Whats, Excused(r.name, w, request, lost)
                  PROVE  Excused(r.name, w, request', lost')
                <5>1. Pends(request[q], r.name, w) => Pends(IdleRequest, r.name, w) \/ <<r.name, w>> \in lost'
                    BY <1>5
                <5>2. lost \subseteq lost' BY <2>1
                <5> QED BY <2>1, <4>3, <5>1, <5>2, StillExcused
            <4>4. \A w \in Whats :
                      \/ Computed(x, w) = Nil
                      \/ /\ Computed(x, w) = Computed(r.snap, w)
                         /\ Rebuilt(r.name, x, w, docs) = Rebuilt(r.name, r.snap, w, docs)
                BY <2>2, <2>4 DEF Rebuilt, Computed, Whats
            <4> QED BY <4>2, <4>3, <4>4 DEF Current
        <3>2. CASE ~r.snap.exists
            BY <2>1, <2>3, <2>5, <3>2 DEF Current, Excused
        <3> QED BY <3>1, <3>2
    <2>7. OthersExcused(r.name, request[q], IdleRequest, lost, lost') BY <1>5, <2>1 DEF OthersExcused
    <2>8. GoesOnWith(IdleRequest, r.name, x) BY RecordFacts DEF GoesOnWith
    <2>9. x.seq <= seq' BY <1>4, <2>2, <2>4
    <2>10. IdleRequest \in RequestRecords BY RecordFacts
    <2> QED BY <1>1, <1>2, <1>4, <2>1, <2>4, <2>6, <2>7, <2>8, <2>9, <2>10, StoreStep
<1>7. CASE ~CasMatches(q)
    <2> DEFINE l == IF r.tries + 1 = MaxCasRetries THEN IdleRequest
                    ELSE [r EXCEPT !.pc = "get", !.tries = r.tries + 1]
    <2>1. request' = [request EXCEPT ![q] = l] /\ princ' = princ /\ lost' = lost
        BY <1>7, <1>8
    <2>2. r.tries + 1 \in Nat BY <1>1
    <2>3. l = IdleRequest \/ (l \in RequestRecords /\ l.pc = "get" /\ l.snap = r.snap)
        BY <1>1, <2>2 DEF RequestRecords
    <2> HIDE DEF l
    <2>4. l \in RequestRecords /\ (l.pc = "idle" => l = IdleRequest) /\ l.pc \in {"idle", "get"}
        BY <2>3, RecordFacts
    <2>5. l.snap.seq <= seq' BY <1>1, <1>3, <1>4, <2>3 DEF Stored
    <2>6. SnapSound(l, princ, docs, request', lost') BY <2>4 DEF SnapSound
    <2>7. \A p \in Principals, w \in Whats : ~Pends(request[q], p, w) BY <1>5
    <2> QED BY <1>2, <1>4, <2>1, <2>4, <2>5, <2>6, <2>7, RequestStep
<1> QED BY <1>6, <1>7

(* Having nothing to save preserves the invariant.                         *)
LEMMA NotSavedStep ==
    ASSUME AccessInv, NEW q \in Requests, NotSaved(q)
    PROVE  AccessInv'
<1>1. \A p \in Principals, w \in Whats : ~Pends(request[q], p, w) BY DEF NotSaved, Pends
<1>2. /\ UNCHANGED <<docs, princ, seq, lost>> /\ request' = [request EXCEPT ![q] = IdleRequest]
    BY DEF NotSaved
<1>3. seq' \in 1..MaxSeq /\ seq <= seq' BY <1>2 DEF AccessInv, AccessTyped
<1> QED BY <1>1, <1>2, <1>3, EndStep

(* Deleting a principal preserves the invariant: a request that still      *)
(* holds it no longer passes the CAS check.                                *)
LEMMA DeleteStep ==
    ASSUME AccessInv, NEW q \in Requests, Delete(q)
    PROVE  AccessInv'
<1> DEFINE r == request[q]
           x == [Absent EXCEPT !.cas = princ[r.name].cas + 1]
<1>1. r.name \in Principals /\ princ[r.name] \in Stored BY RequestFacts
<1>2. /\ r.op = "delete" /\ UNCHANGED <<docs, seq>> /\ lost' = {y \in lost : y[1] # r.name}
      /\ princ' = [princ EXCEPT ![r.name] = x] /\ request' = [request EXCEPT ![q] = IdleRequest]
    BY DEF Delete
<1>3. seq' \in 1..MaxSeq /\ seq <= seq' BY <1>2 DEF AccessInv, AccessTyped
<1>4. princ[r.name].cas + 1 \in Nat BY <1>1 DEF Stored
<1>5. x \in Stored /\ ~x.exists /\ x.cas = princ[r.name].cas + 1 /\ x.seq = 0
    BY ZenonT(30), <1>4, RecordFacts DEF Stored, Absent
<1> HIDE DEF x
<1>6. OthersExcused(r.name, request[q], IdleRequest, lost, lost') BY <1>2 DEF OthersExcused, Pends
<1>7. GoesOnWith(IdleRequest, r.name, x) /\ IdleRequest \in RequestRecords BY RecordFacts DEF GoesOnWith
<1>8. x.seq <= seq' /\ IdleRequest.snap.seq <= seq' BY <1>3, <1>5, RecordFacts
<1>9. x.exists => Current(r.name, x, docs, request', lost') BY <1>5
<1> QED BY <1>1, <1>2, <1>3, <1>5, <1>6, <1>7, <1>8, <1>9, StoreStep

-----------------------------------------------------------------------------
(* Documents.                                                              *)

(* When documents grant E instead of D, only the sets in T change.         *)
ChangesOnly(T, D, E) ==
    \A p \in Principals, w \in Whats :
        <<p, w>> \in T \/ \A x \in Stored : Rebuilt(p, x, w, E) = Rebuilt(p, x, w, D)

(* When documents grant E instead of D, request r is to invalidate what    *)
(* changed, or it is lost.                                                 *)
Noticed(r, D, E, M) ==
    \A p \in Principals, w \in Whats :
        \/ Pends(r, p, w) \/ <<p, w>> \in M
        \/ \A x \in Stored : Rebuilt(p, x, w, E) = Rebuilt(p, x, w, D)

(* A step that changes what a document grants.                             *)
LEMMA DocumentStep ==
    ASSUME AccessInv, UNCHANGED princ, docs' \in [Docs -> Grant], seq' \in 1..MaxSeq, seq <= seq',
           NEW q \in Requests, request[q] = IdleRequest, NEW r \in RequestRecords,
           request' = [request EXCEPT ![q] = r], r.pc \in {"idle", "next"}, r.pc = "idle" => r = IdleRequest,
           r.snap.seq <= seq', lost \subseteq lost', Noticed(r, docs, docs', lost')
    PROVE  AccessInv'
<1>1. /\ princ \in [Principals -> Stored] /\ request \in [Requests -> RequestRecords] /\ seq \in 1..MaxSeq
    BY DEF AccessInv, AccessTyped
<1>2. request' \in [Requests -> RequestRecords] /\ \A o \in Requests : request'[o] = IF o = q THEN r ELSE request[o]
    BY <1>1
<1>3. ASSUME NEW p \in Principals, NEW x \in Stored, Current(p, x, docs, request, lost)
      PROVE  Current(p, x, docs', request', lost')
    <2>1. ASSUME NEW w \in Whats, Excused(p, w, request, lost) PROVE Excused(p, w, request', lost')
        <3>1. ~Pends(request[q], p, w) BY RecordFacts DEF Pends
        <3> QED BY <2>1, <3>1, StillExcused
    <2>2. \A w \in Whats : Excused(p, w, request', lost') \/ Rebuilt(p, x, w, docs') = Rebuilt(p, x, w, docs)
        BY <1>2 DEF Noticed, Excused
    <2> QED BY <1>3, <2>1, <2>2 DEF Current
<1>4. AccessTyped'
    <2>1. \A p \in Principals : princ[p].seq <= seq' BY <1>1 DEF AccessInv, AccessTyped, Stored
    <2>2. \A o \in Requests : request[o].snap.seq \in Int BY <1>1 DEF RequestRecords, Stored
    <2>3. \A o \in Requests : request[o].snap.seq <= seq' BY <1>1, <2>2 DEF AccessInv, AccessTyped
    <2>4. \A o \in Requests : request'[o].snap.seq <= seq' BY <1>2, <2>3
    <2> QED BY <1>1, <1>2, <2>1, <2>4 DEF AccessTyped
<1>5. \A p \in Principals : princ'[p].exists => Current(p, princ'[p], docs', request', lost')
    BY <1>1, <1>3 DEF AccessInv
<1>6. ASSUME NEW o \in Requests PROVE SnapSound(request'[o], princ', docs', request', lost')
    <2>1. CASE o = q BY <1>2, <2>1 DEF SnapSound
    <2>2. CASE o # q
        <3>1. request'[o] = request[o] /\ SnapSound(request[o], princ, docs, request, lost)
            BY <1>2, <2>2 DEF AccessInv
        <3>2. request[o].name \in Principals /\ request[o].snap \in Stored BY <1>1 DEF RequestRecords
        <3> QED BY <1>3, <3>1, <3>2 DEF SnapSound
    <2> QED BY <2>1, <2>2
<1>7. \A o \in Requests : request'[o].pc = "idle" => request'[o] = IdleRequest BY <1>2 DEF AccessInv
<1> QED BY <1>4, <1>5, <1>6, <1>7 DEF AccessInv

(* A document's new grants have their type, and change only what belongs   *)
(* to the principals that are to be invalidated.                           *)
LEMMA GrantFacts ==
    ASSUME AccessInv, NEW d \in Docs, NEW g \in Grants, NEW s \in 1..MaxSeq,
           NEW D, D = [docs EXCEPT ![d] = UpdateAccess(d, g[1], g[2], s)]
    PROVE  D \in [Docs -> Grant] /\ ChangesOnly(ChangedPrincipals(d, g[1], g[2]), docs, D)
<1> DEFINE access == g[1]
           roles == g[2]
           u == UpdateAccess(d, access, roles, s)
<1>1. access \in [Principals -> SUBSET Channels] /\ roles \in SUBSET Roles BY DEF Grants
<1>2. docs \in [Docs -> Grant] /\ docs[d] \in Grant BY DEF AccessInv, AccessTyped
<1>3. docs[d].access \in [Principals -> TimedSets(Channels)] /\ docs[d].roles \in TimedSets(Roles)
    BY <1>2 DEF Grant
<1> HIDE DEF access, roles
<1>4. u = [seq |-> s, access |-> [p \in Principals |-> UpdateAtSequence(docs[d].access[p], access[p], s)],
           roles |-> UpdateAtSequence(docs[d].roles, roles, s)]
    BY DEF UpdateAccess
<1>5. ASSUME NEW p \in Principals
      PROVE  /\ UpdateAtSequence(docs[d].access[p], access[p], s) \in TimedSets(Channels)
             /\ DOMAIN docs[d].access[p] = access[p] =>
                   UpdateAtSequence(docs[d].access[p], access[p], s) = docs[d].access[p]
    <2>1. docs[d].access[p] \in TimedSets(Channels) /\ access[p] \in SUBSET Channels BY <1>1, <1>3
    <2> QED BY <2>1, UpdateFacts
<1>6. /\ UpdateAtSequence(docs[d].roles, roles, s) \in TimedSets(Roles)
      /\ DOMAIN docs[d].roles = roles => UpdateAtSequence(docs[d].roles, roles, s) = docs[d].roles
    BY <1>1, <1>3, UpdateFacts
<1>7. s \in 0..MaxSeq OBVIOUS
<1>8. u \in Grant BY <1>4, <1>5, <1>6, <1>7 DEF Grant
<1>9. \A p \in Principals : DOMAIN docs[d].access[p] = access[p] => u.access[p] = docs[d].access[p]
    BY <1>4, <1>5
<1>10. DOMAIN docs[d].roles = roles => u.roles = docs[d].roles BY <1>4, <1>6
<1> HIDE DEF u
<1>11. D \in [Docs -> Grant] /\ \A e \in Docs : D[e] = IF e = d THEN u ELSE docs[e]
    BY <1>2, <1>8 DEF u, access, roles
<1>12. ASSUME NEW p \in Principals, NEW w \in Whats, <<p, w>> \notin ChangedPrincipals(d, access, roles),
              NEW x \in Stored
       PROVE  Rebuilt(p, x, w, D) = Rebuilt(p, x, w, docs)
    <2>1. CASE w = "channels"
        <3>1. DOMAIN docs[d].access[p] = access[p] BY <1>12, <2>1 DEF ChangedPrincipals
        <3>2. \A e \in Docs : D[e].access[p] = docs[e].access[p] BY <1>9, <1>11, <3>1
        <3>3. {D[e].access[p] : e \in Docs} = {docs[e].access[p] : e \in Docs} BY <3>2
        <3> QED BY <2>1, <3>3 DEF Rebuilt
    <2>2. CASE w = "roles" /\ p = User
        <3>1. DOMAIN docs[d].roles = roles BY <1>12, <2>2 DEF ChangedPrincipals
        <3>2. \A e \in Docs : D[e].roles = docs[e].roles BY <1>10, <1>11, <3>1
        <3>3. {D[e].roles : e \in Docs} = {docs[e].roles : e \in Docs} BY <3>2
        <3> QED BY <2>2, <3>3 DEF Rebuilt
    <2>3. CASE w = "roles" /\ p # User BY <2>3 DEF Rebuilt
    <2> QED BY <2>1, <2>2, <2>3 DEF Whats
<1>13. ChangesOnly(ChangedPrincipals(d, access, roles), docs, D) BY <1>12 DEF ChangesOnly
<1> QED BY <1>11, <1>13 DEF access, roles

(* A request that is to invalidate all of T.                               *)
LEMMA ToInvalidate ==
    ASSUME AccessInv, NEW T \in SUBSET (Principals \X Whats)
    PROVE  LET l == Continue([IdleRequest EXCEPT !.op = "invalidate", !.todo = T]) IN
           /\ l \in RequestRecords /\ l.snap.seq <= seq /\ (l.pc = "idle" => l = IdleRequest)
           /\ l.pc \in {"idle", "next"}
           /\ \A p \in Principals, w \in Whats : <<p, w>> \in T => Pends(l, p, w)
<1> DEFINE r == [IdleRequest EXCEPT !.op = "invalidate", !.todo = T]
<1>1. r \in RequestRecords /\ r.op = "invalidate" /\ r.todo = T /\ r.snap = Absent
    BY RecordFacts DEF RequestRecords
<1>2. r.snap.seq <= seq BY <1>1, RecordFacts DEF AccessInv, AccessTyped
<1> HIDE DEF r
<1>3. LET l == Continue(r) IN
      /\ l \in RequestRecords /\ l.snap.seq <= seq /\ (l.pc = "idle" => l = IdleRequest)
      /\ l.pc \in {"idle", "next"}
      /\ \A p \in Principals, w \in Whats : r.op = "invalidate" /\ <<p, w>> \in r.todo => Pends(l, p, w)
    BY <1>1, <1>2, ContinueFacts
<1> QED BY <1>1, <1>3 DEF r

(* Saving a document preserves the invariant.                              *)
LEMMA SaveDocumentStep ==
    ASSUME AccessInv, ReservedOK, NEW q \in Requests, NEW d \in Docs, NEW g \in Grants, SaveDocument(q, d, g[1], g[2])
    PROVE  AccessInv'
<1> DEFINE T == ChangedPrincipals(d, g[1], g[2])
           l == Continue([IdleRequest EXCEPT !.op = "invalidate", !.todo = T])
<1>1. request[q] = IdleRequest BY RequestFacts DEF SaveDocument, FirstIdle
<1>2. request' = [request EXCEPT ![q] = l] /\ UNCHANGED <<princ, lost>>
    BY DEF SaveDocument
<1>3. seq \in 1..MaxSeq BY DEF AccessInv, AccessTyped
<1>11. PICK s : NextSequence(s) /\ docs' = [docs EXCEPT ![d] = UpdateAccess(d, g[1], g[2], s)]
    BY DEF SaveDocument
<1>4. s \in 1..MaxSeq /\ seq' \in 1..MaxSeq /\ seq <= seq' BY <1>3, <1>11, NextSequenceFacts
<1>5. docs' \in [Docs -> Grant] /\ ChangesOnly(T, docs, docs') BY <1>4, <1>11, GrantFacts
<1>6. T \in SUBSET (Principals \X Whats) BY DEF ChangedPrincipals, Whats, Principals
<1> HIDE DEF T
<1>7. /\ l \in RequestRecords /\ l.snap.seq <= seq /\ (l.pc = "idle" => l = IdleRequest)
      /\ l.pc \in {"idle", "next"}
      /\ \A p \in Principals, w \in Whats : <<p, w>> \in T => Pends(l, p, w)
    BY <1>6, ToInvalidate
<1> HIDE DEF l
<1>8. Noticed(l, docs, docs', lost') BY <1>5, <1>7 DEF Noticed, ChangesOnly
<1>9. l.snap.seq <= seq'
    <2>1. l.snap.seq \in Int BY <1>7 DEF RequestRecords, Stored
    <2> QED BY <1>3, <1>4, <1>7, <2>1
<1>10. lost \subseteq lost' BY <1>2
<1> QED BY <1>1, <1>2, <1>4, <1>5, <1>7, <1>8, <1>9, <1>10, DocumentStep

(* Resyncing a document preserves the invariant.                           *)
LEMMA ResyncStep ==
    ASSUME AccessInv, NEW q \in Requests, NEW d \in Docs, NEW g \in Grants, Resync(q, d, g[1], g[2])
    PROVE  AccessInv'
<1> DEFINE C == ChangedPrincipals(d, g[1], g[2])
           T == {<<p, "channels">> : p \in Principals}
           l == Continue([IdleRequest EXCEPT !.op = "invalidate", !.todo = T])
<1>1. request[q] = IdleRequest BY RequestFacts DEF Resync, FirstIdle
<1>2. /\ docs[d].seq > 0 /\ docs' = [docs EXCEPT ![d] = UpdateAccess(d, g[1], g[2], docs[d].seq)]
      /\ \/ request' = [request EXCEPT ![q] = l] /\ lost' = lost \cup (C \ T)
         \/ lost' = lost \cup C /\ UNCHANGED request
      /\ UNCHANGED <<princ, seq>>
    BY DEF Resync, AccessInv, AccessTyped
<1>3. seq \in 1..MaxSeq /\ request \in [Requests -> RequestRecords] /\ docs \in [Docs -> Grant]
    BY DEF AccessInv, AccessTyped
<1>4. seq' \in 1..MaxSeq /\ seq <= seq' BY <1>2, <1>3
<1>5. docs[d].seq \in 1..MaxSeq BY <1>2, <1>3 DEF Grant
<1>6. docs' \in [Docs -> Grant] /\ ChangesOnly(C, docs, docs') BY <1>2, <1>5, GrantFacts
<1>7. T \in SUBSET (Principals \X Whats) BY DEF Whats
<1> HIDE DEF T, C
<1>8. /\ l \in RequestRecords /\ l.snap.seq <= seq /\ (l.pc = "idle" => l = IdleRequest)
      /\ l.pc \in {"idle", "next"}
      /\ \A p \in Principals, w \in Whats : <<p, w>> \in T => Pends(l, p, w)
    BY <1>7, ToInvalidate
<1> HIDE DEF l
<1>9. lost \subseteq lost' BY <1>2
<1>10. CASE request' = [request EXCEPT ![q] = l] /\ lost' = lost \cup (C \ T)
    <2>1. Noticed(l, docs, docs', lost') BY <1>6, <1>8, <1>10 DEF Noticed, ChangesOnly
    <2>2. l.snap.seq <= seq' BY <1>2, <1>8
    <2> QED BY <1>1, <1>2, <1>4, <1>6, <1>8, <1>9, <1>10, <2>1, <2>2, DocumentStep
<1>11. CASE lost' = lost \cup C /\ UNCHANGED request
    <2>1. Noticed(IdleRequest, docs, docs', lost') BY <1>6, <1>11 DEF Noticed, ChangesOnly
    <2>2. IdleRequest.snap.seq <= seq' /\ IdleRequest \in RequestRecords /\ IdleRequest.pc \in {"idle", "next"}
        BY <1>4, RecordFacts
    <2>3. request' = [request EXCEPT ![q] = IdleRequest] BY <1>1, <1>3, <1>11
    <2> QED BY <1>1, <1>2, <1>4, <1>6, <1>9, <2>1, <2>2, <2>3, DocumentStep
<1> QED BY <1>2, <1>10, <1>11

-----------------------------------------------------------------------------
(* The invariant.                                                          *)

(* Nothing granted is nothing computed.                                    *)
LEMMA NothingGranted ==
    ASSUME NEW sets, \A x \in sets : x = None
    PROVE  AddAll(sets) = None /\ Add(None, None) = None
<1>1. None = [n \in {} |-> 0] /\ DOMAIN None = {} BY DEF None
<1>2. UNION {DOMAIN set : set \in sets} = {} BY <1>1
<1>3. AddAll(sets) = None BY <1>1, <1>2 DEF AddAll
<1>4. Add(None, None) = None BY <1>1 DEF Add, AddAtSequence
<1> QED BY <1>3, <1>4

(* The invariant holds initially.                                          *)
LEMMA AccessStart == AccessInit => AccessInv
<1> SUFFICES ASSUME AccessInit PROVE AccessInv OBVIOUS
<1>1. /\ docs = [d \in Docs |-> [seq |-> 0, access |-> [p \in Principals |-> None], roles |-> None]]
      /\ seq = 1 /\ request = [q \in Requests |-> IdleRequest] /\ lost = {}
    BY DEF AccessInit
<1>2. PICK existing \in {{}, Principals} :
          princ = [p \in Principals |-> IF p \in existing THEN Created ELSE Absent]
    BY DEF AccessInit
<1>3. \A p \in Principals : princ[p] = Created \/ princ[p] = Absent BY <1>2
<1>4. None \in TimedSets(Channels) /\ None \in TimedSets(Roles) BY NoneFacts
<1>5. AccessTyped
    <2>1. 0 \in 0..MaxSeq /\ 1 \in 1..MaxSeq BY AccessAssumption
    <2>2. docs \in [Docs -> Grant] BY <1>1, <1>4, <2>1 DEF Grant
    <2>3. princ \in [Principals -> Stored] BY <1>2, RecordFacts
    <2>4. request \in [Requests -> RequestRecords] BY <1>1, RecordFacts
    <2>5. \A p \in Principals : princ[p].seq <= seq BY <1>1, <1>3, RecordFacts
    <2>6. \A q \in Requests : request[q].snap.seq <= seq BY <1>1, RecordFacts
    <2> QED BY <1>1, <2>1, <2>2, <2>3, <2>4, <2>5, <2>6 DEF AccessTyped
<1>6. ASSUME NEW p \in Principals, NEW w \in Whats PROVE Rebuilt(p, Created, w, docs) = None
    <2>1. \A x \in {docs[d].access[p] : d \in Docs} : x = None BY <1>1
    <2>2. \A x \in {docs[d].roles : d \in Docs} : x = None BY <1>1
    <2>3. AddAll({docs[d].access[p] : d \in Docs}) = None /\ AddAll({docs[d].roles : d \in Docs}) = None
        BY <2>1, <2>2, NothingGranted
    <2>4. Add(None, None) = None BY <2>1, NothingGranted
    <2> QED BY <2>3, <2>4, RecordFacts DEF Rebuilt
<1>7. \A p \in Principals : princ[p].exists => Current(p, princ[p], docs, request, lost)
    BY <1>3, <1>6, RecordFacts DEF Current, Computed
<1>8. \A q \in Requests : SnapSound(request[q], princ, docs, request, lost)
    BY <1>1, RecordFacts DEF SnapSound
<1>9. \A q \in Requests : request[q].pc = "idle" => request[q] = IdleRequest BY <1>1
<1> QED BY <1>5, <1>7, <1>8, <1>9 DEF AccessInv

(* A new request on a principal preserves the invariant.                   *)
LEMMA PrincipalRequestStep ==
    ASSUME AccessInv, NEW q \in Requests, NEW p \in Principals,
           \/ GetPrincipal(q, p) \/ DeletePrincipal(q, p)
           \/ \E c \in SUBSET Channels : \E r \in SUBSET Roles : UpdatePrincipal(q, p, c, r)
    PROVE  AccessInv'
<1>1. CASE GetPrincipal(q, p)
    <2> DEFINE r == [IdleRequest EXCEPT !.pc = "get", !.op = "get", !.name = p]
    <2>1. r \in RequestRecords /\ r.pc = "get" /\ r.snap = Absent BY RecordFacts DEF RequestRecords
    <2> QED BY <1>1, <2>1, BeginStep DEF GetPrincipal
<1>2. CASE DeletePrincipal(q, p)
    <2> DEFINE r == [IdleRequest EXCEPT !.pc = "get", !.op = "delete", !.name = p]
    <2>1. r \in RequestRecords /\ r.pc = "get" /\ r.snap = Absent BY RecordFacts DEF RequestRecords
    <2> QED BY <1>2, <2>1, BeginStep DEF DeletePrincipal
<1>3. ASSUME NEW c \in SUBSET Channels, NEW o \in SUBSET Roles, UpdatePrincipal(q, p, c, o) PROVE AccessInv'
    <2> DEFINE r == [IdleRequest EXCEPT !.pc = "get", !.op = "update", !.name = p, !.channels = c, !.roles = o]
    <2>1. r \in RequestRecords /\ r.pc = "get" /\ r.snap = Absent BY RecordFacts DEF RequestRecords
    <2> QED BY <1>3, <2>1, BeginStep DEF UpdatePrincipal
<1> QED BY <1>1, <1>2, <1>3

(* Every step preserves the invariant.                                     *)
LEMMA AccessInductive == AccessInv /\ ReservedOK /\ [AccessNext]_accessVars => AccessInv'
<1> SUFFICES ASSUME AccessInv, ReservedOK, [AccessNext]_accessVars PROVE AccessInv' OBVIOUS
<1>1. CASE UNCHANGED accessVars
    <2>1. UNCHANGED <<docs, princ, seq, request, lost>> BY <1>1 DEF accessVars
    <2> QED BY <2>1 DEF AccessInv, AccessTyped, Current, SnapSound, Excused
<1>3. CASE Reserve
    <2>1. UNCHANGED <<docs, princ, request, lost>> /\ seq' = seq + 1 /\ seq < MaxSeq BY <1>3 DEF Reserve
    <2>2. /\ seq \in 1..MaxSeq /\ princ \in [Principals -> Stored] /\ request \in [Requests -> RequestRecords]
        BY DEF AccessInv, AccessTyped
    <2>3. seq' \in 1..MaxSeq /\ seq <= seq' BY <2>1, <2>2, AccessAssumption
    <2>4. \A p \in Principals : princ[p].seq <= seq' BY <2>2, <2>3 DEF AccessInv, AccessTyped, Stored
    <2>5. \A q \in Requests : request[q].snap.seq \in Int BY <2>2 DEF RequestRecords, Stored
    <2>6. \A q \in Requests : request[q].snap.seq <= seq' BY <2>2, <2>3, <2>5 DEF AccessInv, AccessTyped
    <2>7. AccessTyped' BY <2>1, <2>3, <2>4, <2>6 DEF AccessInv, AccessTyped
    <2> QED BY <2>1, <2>7 DEF AccessInv, Current, SnapSound, Excused
<1>2. CASE \E q \in Requests : Request(q) \/ Step(q) \/ Fail(q) \/ CrashDuring(q)
    <2>1. PICK q \in Requests : Request(q) \/ Step(q) \/ Fail(q) \/ CrashDuring(q) BY <1>2
    <2>2. CASE Request(q)
        <3>1. ASSUME NEW p \in Principals, GetPrincipal(q, p) \/ DeletePrincipal(q, p) PROVE AccessInv'
            BY <3>1, PrincipalRequestStep
        <3>2. ASSUME NEW p \in Principals, NEW c \in SUBSET Channels,
                     NEW r \in IF p = User THEN SUBSET Roles ELSE {{}}, UpdatePrincipal(q, p, c, r)
              PROVE  AccessInv'
            <4>1. r \in SUBSET Roles OBVIOUS
            <4> QED BY <3>2, <4>1, PrincipalRequestStep
        <3>3. ASSUME NEW d \in Docs, NEW g \in Grants,
                     SaveDocument(q, d, g[1], g[2]) \/ Resync(q, d, g[1], g[2])
              PROVE  AccessInv'
            BY <3>3, SaveDocumentStep, ResyncStep
        <3> QED BY <2>2, <3>1, <3>2, <3>3 DEF Request
    <2>3. CASE Step(q)
        BY <2>3, LoadStep, RebuildStep, StorePrincipalStep, NextInvalidationStep, InvalidateStep, GiveUpStep,
           SavePrincipalStep, NotSavedStep, DeleteStep DEF Step
    <2>4. CASE CrashDuring(q) \/ Fail(q) BY <2>4, CrashStep, FailStep
    <2> QED BY <2>1, <2>2, <2>3, <2>4
<1> QED BY <1>1, <1>2, <1>3 DEF AccessNext

(* Reserved sequences stay allocated.                                      *)
LEMMA ReservedInductive == AccessInv /\ ReservedOK /\ [AccessNext]_accessVars => ReservedOK'
<1> SUFFICES ASSUME AccessInv, ReservedOK, [AccessNext]_accessVars PROVE ReservedOK' OBVIOUS
<1>1. seq \in 1..MaxSeq BY DEF AccessInv, AccessTyped
<1>2. CASE UNCHANGED <<seq, reserved>> BY <1>2 DEF ReservedOK
<1>3. CASE \E s : NextSequence(s) BY <1>1, <1>3, NextSequenceFacts
<1>4. CASE Reserve BY <1>1, <1>4 DEF Reserve, ReservedOK
<1>5. CASE \E q \in Requests : Request(q) \/ Step(q) \/ Fail(q) \/ CrashDuring(q)
    <2>1. PICK q \in Requests : Request(q) \/ Step(q) \/ Fail(q) \/ CrashDuring(q) BY <1>5
    <2>2. UNCHANGED <<seq, reserved>> \/ \E s : NextSequence(s)
        BY <2>1 DEF Request, Step, Fail, CrashDuring, GetPrincipal, DeletePrincipal, UpdatePrincipal, Begin,
           SaveDocument, Resync, Load, Rebuild, NextInvalidation, GiveUp, NotSaved, Store, Invalidate,
           SavePrincipal, Delete
    <2> QED BY <1>2, <1>3, <2>2
<1> QED BY <1>2, <1>4, <1>5 DEF AccessNext, accessVars

(* The invariant implies that access is current.                           *)
LEMMA AccessInvImplies == AccessInv /\ ReservedOK => AccessCurrent
<1> SUFFICES ASSUME AccessInv, ReservedOK PROVE AccessCurrent OBVIOUS
<1>1. /\ docs \in [Docs -> Grant] /\ princ \in [Principals -> Stored]
      /\ request \in [Requests -> RequestRecords] /\ seq \in 1..MaxSeq
      /\ \A p \in Principals : princ[p].seq <= seq
    BY DEF AccessInv, AccessTyped
<1>2. AccessTypeOK
    <2>1. \A N : \A x \in TimedSets(N) : IsTimedSet(x, N) BY TimedSetFacts DEF IsTimedSet
    <2>2. \A d \in Docs : /\ \A p \in Principals : IsTimedSet(docs[d].access[p], Channels)
                          /\ IsTimedSet(docs[d].roles, Roles)
        BY <1>1, <2>1 DEF Grant
    <2>3. ASSUME NEW p \in Principals
          PROVE  /\ IsTimedSet(princ[p].explicit, Channels) /\ IsTimedSet(princ[p].explicitRoles, Roles)
                 /\ princ[p].channels = Nil \/ IsTimedSet(princ[p].channels, Channels)
                 /\ princ[p].roles = Nil \/ IsTimedSet(princ[p].roles, Roles)
                 /\ princ[p].seq \in 0..seq
        <3>1. princ[p] \in Stored BY <1>1
        <3>2. princ[p].seq \in 0..MaxSeq /\ princ[p].seq <= seq BY <1>1, <3>1 DEF Stored
        <3> QED BY <1>1, <2>1, <3>1, <3>2 DEF Stored
    <2>4. \A q \in Requests : request[q].pc \in {"idle", "get", "rebuild", "store", "act", "next"}
        BY <1>1 DEF RequestRecords
    <2> QED BY <1>1, <2>2, <2>3, <2>4 DEF AccessTypeOK, ReservedOK
<1>3. ASSUME NEW p \in Principals, princ[p].exists
      PROVE  /\ \/ princ[p].channels = Nil \/ Pending(p, "channels") \/ <<p, "channels">> \in lost
                \/ princ[p].channels = RebuildChannels(p, princ[p].explicit)
             /\ \/ princ[p].roles = Nil \/ Pending(p, "roles") \/ <<p, "roles">> \in lost
                \/ princ[p].roles = RebuildRoles(p, princ[p].explicitRoles)
    <2>1. Current(p, princ[p], docs, request, lost) BY <1>3 DEF AccessInv
    <2>2. \A w : (\E q \in Requests : Pends(request[q], p, w)) <=> Pending(p, w) BY DEF Pends, Pending
    <2>3. /\ Rebuilt(p, princ[p], "channels", docs) = RebuildChannels(p, princ[p].explicit)
          /\ Rebuilt(p, princ[p], "roles", docs) = RebuildRoles(p, princ[p].explicitRoles)
        BY RebuiltIs
    <2> QED BY <2>1, <2>2, <2>3 DEF Current, Excused, Computed, Whats
<1> QED BY <1>2, <1>3 DEF AccessCurrent

(* However loads, rebuilds, administration, document saves, resyncs,       *)
(* bucket errors and crashes interleave, stored access is what all grants  *)
(* together give, unless it is marked invalid, an invalidation is on its   *)
(* way, or one was lost in one of the named ways.                          *)
THEOREM AccessStaysCurrent == AccessSpec => []AccessCurrent
<1>1. AccessInit => AccessInv /\ ReservedOK BY AccessStart DEF AccessInit, ReservedOK
<1>2. AccessInv /\ ReservedOK /\ [AccessNext]_accessVars => AccessInv' /\ ReservedOK'
    BY AccessInductive, ReservedInductive
<1>3. AccessInv /\ ReservedOK => AccessCurrent BY AccessInvImplies
<1> QED BY <1>1, <1>2, <1>3, PTL DEF AccessSpec

-----------------------------------------------------------------------------
(* Explicit grants.                                                        *)

(* What ExplicitKept says of the principal p that becomes x, with the      *)
(* requests R becoming S.                                                  *)
Keeps(n, p, x, R, S) ==
    x.exists =>
        \/ p.exists /\ x.explicit = p.explicit /\ x.explicitRoles = p.explicitRoles
        \/ \E q \in Requests : R[q].op = "update" /\ R[q].name = n /\ S[q] = IdleRequest

(* A step that stores one principal keeps all if it keeps that one.        *)
LEMMA KeepsOthers ==
    ASSUME AccessInv, NEW n \in Principals, NEW x, princ' = [princ EXCEPT ![n] = x],
           Keeps(n, princ[n], x, request, request')
    PROVE  \A p \in Principals : Keeps(p, princ[p], princ'[p], request, request')
<1>1. princ \in [Principals -> Stored] BY DEF AccessInv, AccessTyped
<1>2. \A p \in Principals : princ'[p] = IF p = n THEN x ELSE princ[p] BY <1>1
<1> QED BY <1>2 DEF Keeps

(* A request that stores a principal keeps the explicit grants, or is the  *)
(* update that changes them.                                               *)
LEMMA StoringKeeps ==
    ASSUME AccessInv, NEW q \in Requests, Store(q) \/ Invalidate(q) \/ SavePrincipal(q) \/ Delete(q)
    PROVE  \A p \in Principals : Keeps(p, princ[p], princ'[p], request, request')
<1> DEFINE r == request[q]
<1>1. /\ r \in RequestRecords /\ r.name \in Principals /\ r.snap \in Stored /\ princ[r.name] \in Stored
      /\ r.snap.seq <= seq /\ SnapSound(r, princ, docs, request, lost)
    BY RequestFacts
<1>2. /\ princ \in [Principals -> Stored] /\ seq \in 1..MaxSeq /\ princ[r.name].seq <= seq
      /\ request \in [Requests -> RequestRecords]
    BY <1>1 DEF AccessInv, AccessTyped
<1>3. CASE UNCHANGED princ BY <1>3 DEF Keeps
<1>4. ASSUME r.pc \in {"store", "act"}, r.snap.exists, CasMatches(q), NEW y \in Stored,
             y.explicit = r.snap.explicit, y.explicitRoles = r.snap.explicitRoles,
             princ' = [princ EXCEPT ![r.name] = Saved(r.name, y)]
      PROVE  \A p \in Principals : Keeps(p, princ[p], princ'[p], request, request')
    <2> DEFINE x == Saved(r.name, y)
    <2>1. x.explicit = y.explicit /\ x.explicitRoles = y.explicitRoles BY <1>1, SavedTyped
    <2>2. /\ r.snap.explicit = princ[r.name].explicit /\ r.snap.explicitRoles = princ[r.name].explicitRoles
          /\ princ[r.name].exists
        BY <1>1, <1>4 DEF SnapSound, CasMatches, CopyOf
    <2> HIDE DEF x
    <2>4. Keeps(r.name, princ[r.name], x, request, request') BY <1>4, <2>1, <2>2 DEF Keeps
    <2> QED BY <1>1, <1>4, <2>4, KeepsOthers DEF x
<1>5. CASE Store(q)
    <2>1. r.snap.exists BY <1>1, <1>5 DEF Store, SnapSound
    <2>2. CASE CasMatches(q) BY <1>1, <1>4, <1>5, <2>1, <2>2 DEF Store
    <2> QED BY <1>3, <1>5, <2>2 DEF Store
<1>6. CASE Invalidate(q)
    <2> DEFINE c == IF r.what = "channels" THEN [r.snap EXCEPT !.channels = Nil] ELSE [r.snap EXCEPT !.roles = Nil]
    <2>1. r.snap.exists BY <1>1, <1>6 DEF Invalidate, SnapSound
    <2>2. c \in Stored /\ c.explicit = r.snap.explicit /\ c.explicitRoles = r.snap.explicitRoles
        BY <1>1 DEF Stored
    <2>3. CasMatches(q) => princ' = [princ EXCEPT ![r.name] = Saved(r.name, c)] BY <1>6 DEF Invalidate
    <2>4. r.pc = "act" /\ (CasMatches(q) \/ UNCHANGED princ) BY <1>6 DEF Invalidate
    <2> HIDE DEF c
    <2>5. CASE CasMatches(q) BY <1>4, <2>1, <2>2, <2>3, <2>4, <2>5
    <2> QED BY <1>3, <2>4, <2>5
<1>7. CASE SavePrincipal(q)
    <2>1. CASE CasMatches(q)
        <3>1. PICK s : /\ princ' = [princ EXCEPT ![r.name] = Saved(r.name, Requested(r, s))]
                       /\ request' = [request EXCEPT ![q] = IdleRequest]
            BY <1>7, <2>1 DEF SavePrincipal
        <3>2. r.op = "update" /\ request'[q] = IdleRequest BY <1>2, <1>7, <3>1 DEF SavePrincipal
        <3> DEFINE x == Saved(r.name, Requested(r, s))
        <3> HIDE DEF x
        <3>7. Keeps(r.name, princ[r.name], x, request, request') BY <3>2 DEF Keeps
        <3> QED BY <1>1, <3>1, <3>7, KeepsOthers DEF x
    <2>2. CASE ~CasMatches(q) BY <1>3, <1>7, <2>2 DEF SavePrincipal
    <2> QED BY <2>1, <2>2
<1>8. CASE Delete(q)
    <2> DEFINE x == [Absent EXCEPT !.cas = princ[r.name].cas + 1]
    <2>1. princ' = [princ EXCEPT ![r.name] = x] BY <1>8 DEF Delete
    <2>2. ~x.exists BY DEF Absent
    <2> HIDE DEF x
    <2>3. Keeps(r.name, princ[r.name], x, request, request') BY <2>2 DEF Keeps
    <2> QED BY <1>1, <2>1, <2>3, KeepsOthers
<1> QED BY <1>5, <1>6, <1>7, <1>8

(* Loads and invalidations never put an older copy of explicit grants, or  *)
(* a deleted principal, back.                                              *)
THEOREM ExplicitGrantsKept == AccessSpec => ExplicitKept
<1>1. AccessInit => AccessInv /\ ReservedOK BY AccessStart DEF AccessInit, ReservedOK
<1>2. AccessInv /\ ReservedOK /\ [AccessNext]_accessVars => AccessInv' /\ ReservedOK'
    BY AccessInductive, ReservedInductive
<1>3. AccessInv /\ [AccessNext]_accessVars =>
          [\A p \in Principals : princ'[p].exists =>
              \/ /\ princ[p].exists
                 /\ princ'[p].explicit = princ[p].explicit /\ princ'[p].explicitRoles = princ[p].explicitRoles
              \/ \E q \in Requests : request[q].op = "update" /\ request[q].name = p
                                     /\ request'[q] = IdleRequest]_accessVars
    <2> SUFFICES ASSUME AccessInv, AccessNext
                 PROVE  \A p \in Principals : Keeps(p, princ[p], princ'[p], request, request')
        BY DEF Keeps
    <2>1. UNCHANGED princ \/ \E q \in Requests : Request(q) \/ Step(q) \/ Fail(q) \/ CrashDuring(q)
        BY DEF AccessNext, Reserve
    <2>2. UNCHANGED princ \/ \E q \in Requests : Store(q) \/ Invalidate(q) \/ SavePrincipal(q) \/ Delete(q)
        BY <2>1 DEF Request, Step, Fail, CrashDuring, GetPrincipal, DeletePrincipal, UpdatePrincipal, Begin,
           SaveDocument, Resync, Load, Rebuild, NextInvalidation, GiveUp, NotSaved
    <2>3. CASE UNCHANGED princ BY <2>3 DEF Keeps
    <2> QED BY <2>2, <2>3, StoringKeeps
<1> QED BY <1>1, <1>2, <1>3, PTL DEF AccessSpec, ExplicitKept

=============================================================================
