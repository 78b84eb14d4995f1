------------------------------ MODULE RevTree ------------------------------
(***************************************************************************)
(* Revision trees (db/revtree.go, db/revision.go): which revision wins,    *)
(* how revisions are added and how old history is pruned.                  *)
(*                                                                         *)
(* A revision identifier "<generation>-<digest>" is a hash of the parent's *)
(* identifier and the body: it is modelled as the sequence of bodies from  *)
(* the first revision on, which determines both and differs whenever they  *)
(* do.  A body is a number; the order of two digests is the lexicographic  *)
(* order of these sequences.                                               *)
(*                                                                         *)
(* A tree is a function from the revisions it contains to their parent     *)
(* (NoRev for a root), deletion flag and where their body is.              *)
(***************************************************************************)
EXTENDS Integers, FiniteSets, FiniteSetsExt, Sequences, SequencesExt

CONSTANT RevsLimit          \* DatabaseContext.RevsLimit
ASSUME RevTreeAssumption == RevsLimit \in Nat \ {0}

NoRev == <<>>
Generation(rev) == Len(rev)
CreateRevID(parent, body) == Append(parent, body)
EmptyTree == [r \in {} |-> NoRev]

(* compareRevIDs(r1, r2) > 0: the generation first, then the digest.       *)
Greater(r1, r2) ==
    \/ Generation(r1) > Generation(r2)
    \/ /\ Generation(r1) = Generation(r2)
       /\ \E i \in 1..Len(r1) : r1[i] > r2[i] /\ \A j \in 1..(i - 1) : r1[j] = r2[j]

Leaves(tree) == {r \in DOMAIN tree : \A s \in DOMAIN tree : tree[s].parent # r}
LiveLeaves(tree) == {r \in Leaves(tree) : ~tree[r].deleted}

(* The leaf whose (not deleted, generation, digest) is the highest.        *)
WinningRevision(tree) ==
    LET candidates == IF LiveLeaves(tree) # {} THEN LiveLeaves(tree) ELSE Leaves(tree)
    IN  IF tree = EmptyTree THEN NoRev
        ELSE CHOOSE w \in candidates : \A r \in candidates \ {w} : Greater(w, r)

(* The revision and its ancestors, newest first: getHistory.               *)
History(tree, rev) ==
    LET up[n \in 0..Cardinality(DOMAIN tree)] ==
            IF n = 0 THEN <<rev>>
            ELSE LET parent == tree[Last(up[n - 1])].parent
                 IN  IF parent = NoRev THEN up[n - 1] ELSE Append(up[n - 1], parent)
    IN  up[Cardinality(DOMAIN tree)]

AddRevision(tree, rev, info) ==
    [r \in DOMAIN tree \cup {rev} |-> IF r = rev THEN info ELSE tree[r]]

SetBody(tree, rev, where) == [tree EXCEPT ![rev].body = where]

-----------------------------------------------------------------------------
(* Pruning.                                                                *)

(* The distance of a revision from the nearest leaf, from 1.               *)
Depth(tree, rev) ==
    Min({SelectInSeq(History(tree, l), LAMBDA r : r = rev) :
            l \in {l \in Leaves(tree) : rev \in ToSet(History(tree, l))}})

LongestBranch(tree) == Max({Len(History(tree, l)) : l \in Leaves(tree)})

ShortestLiveGeneration(tree) == Min({Generation(r) : r \in LiveLeaves(tree)})

TooOldAllBranches(tree) ==
    {r \in Leaves(tree) :
        /\ LiveLeaves(tree) # {}
        /\ Generation(r) < Max({Generation(l) : l \in LiveLeaves(tree)}) - RevsLimit}

(* The deleted leaves far behind every live branch.                        *)
TooOldBranches(tree) ==
    {r \in Leaves(tree) :
        /\ tree[r].deleted /\ LiveLeaves(tree) # {}
        /\ Generation(r) < ShortestLiveGeneration(tree) - RevsLimit}

Restricted(tree, keep) ==
    [r \in keep |->
        [tree[r] EXCEPT !.parent = IF @ \in keep THEN @ ELSE NoRev]]

(* Revisions deeper than the limit go, and so does all that is left of the *)
(* branches of old tombstones; links to what is gone are snipped.          *)
Pruned(tree) ==
    LET shallow == {r \in DOMAIN tree : Depth(tree, r) <= RevsLimit}
        old     == UNION {ToSet(History(Restricted(tree, shallow), l)) :
                             l \in TooOldBranches(tree)}
    IN  Restricted(tree, shallow \ old)

(* What pruneRevisions may leave.  The greatest depth it compares with the *)
(* limit is the greatest it assigned while it walked up from the leaves in *)
(* the order of a Go map: between the depth of the tree and the length of  *)
(* its longest branch.                                                     *)
PruneRevisions(tree) ==
    IF Cardinality(DOMAIN tree) <= RevsLimit THEN {tree}
    ELSE LET depth == Max({Depth(tree, r) : r \in DOMAIN tree})
         IN  (IF depth <= RevsLimit THEN {tree} ELSE {})
             \cup (IF LongestBranch(tree) > RevsLimit THEN {Pruned(tree)} ELSE {})

=============================================================================
