----------------------------- MODULE Documents -----------------------------
(***************************************************************************)
(* Concurrent updates of one document (db/crud.go, Put and PutExistingRev  *)
(* through updateAndReturnDoc; db/document.go, where revision bodies are   *)
(* kept).                                                                  *)
(*                                                                         *)
(* An update loads the document, applies a callback to its copy, writes    *)
(* the bodies of revisions that stopped winning to documents of their own, *)
(* saves the document if its CAS is unchanged (and starts again if not)    *)
(* and only then deletes the body documents that became obsolete.  Several *)
(* writers interleave at these points, and a node may crash at any.        *)
(*                                                                         *)
(* Sequences, channels and access are the subject of SequencePipeline and  *)
(* Access.                                                                 *)
(***************************************************************************)
EXTENDS RevTree

CONSTANTS
    Writers,        \* concurrent requests
    Revisions,      \* bound: the revisions that may be written, with their ancestors
    AllowConflicts, \* DatabaseOptions.AllowConflicts
    ExternalBodies, \* bodies are large and shared bucket access is on
    HistoryLengths, \* lengths of the histories clients push
    MaxUpdates,     \* bound: updates started
    MaxFaults       \* bound: failed body and backup writes and crashes

(* A deletion, two bodies without and one with an attachment.              *)
Deletion == 0
Attached == 3
NoBody == -1

ASSUME DocumentsAssumption ==
    /\ Revisions \subseteq Seq(0..3) \ {NoRev}
    /\ \A r \in Revisions : Front(r) \in Revisions \cup {NoRev}
    /\ HistoryLengths \subseteq Nat \ {0}
    /\ AllowConflicts \in BOOLEAN /\ ExternalBodies \in BOOLEAN
    /\ MaxUpdates \in Nat /\ MaxFaults \in Nat

VARIABLES
    doc,       \* the document in the bucket: [tree, cur, body, attached]
    cas,       \* its CAS; 0 when it does not exist
    external,  \* revisions with a body document (_sync:rb:...)
    backups,   \* revisions with a backup (_sync:rev:...), which expires
    writer,    \* [Writers -> the local state of updateAndReturnDoc]
    updates,   \* updates started
    faults,    \* faults so far
    written,   \* history: revisions whose update was saved
    exposed    \* history: revisions hit by a race or a fault named below

vars == <<doc, cas, external, backups, writer, updates, faults, written, exposed>>

NewDoc == [tree |-> EmptyTree, cur |-> NoRev, body |-> NoBody, attached |-> FALSE]
NoOp == [kind |-> "none"]
Idle == [pc |-> "idle", op |-> NoOp, snap |-> NewDoc, cas |-> 0, result |-> NewDoc,
         rev |-> NoRev, removed |-> {}]

Init ==
    /\ doc = NewDoc /\ cas = 0 /\ external = {} /\ backups = {}
    /\ writer = [w \in Writers |-> Idle]
    /\ updates = 0 /\ faults = 0 /\ written = {} /\ exposed = {}

-----------------------------------------------------------------------------
(* What a callback makes of the document it is given: [ok, tree, rev].     *)

Refused(tree) == [ok |-> FALSE, tree |-> tree, rev |-> NoRev]

(* Without conflicts the parent must be the current revision, except that  *)
(* a deletion may end another live branch.                                 *)
IsIllegalConflict(d, parent, deleted, noConflicts) ==
    /\ ~(AllowConflicts /\ ~noConflicts)
    /\ parent # d.cur /\ d.cur # NoRev
    /\ ~(deleted /\ parent \in LiveLeaves(d.tree))

Info(parent, deleted) == [parent |-> parent, deleted |-> deleted, body |-> "none"]

(* The callback of Put.                                                    *)
ApplyPut(d, op) ==
    LET parent  == IF op.match = NoRev THEN d.cur ELSE op.match
        allowed == IF op.match = NoRev
                   THEN d.cur = NoRev \/ d.tree[d.cur].deleted
                   ELSE /\ op.match \in Leaves(d.tree)
                        /\ ~IsIllegalConflict(d, op.match, op.body = Deletion, FALSE)
        rev     == CreateRevID(parent, op.body)
    IN  IF allowed /\ rev \notin DOMAIN d.tree
        THEN [ok |-> TRUE, rev |-> rev,
              tree |-> AddRevision(d.tree, rev, Info(parent, op.body = Deletion))]
        ELSE Refused(d.tree)

(* The pushed revision and the ancestors a client sends with it.           *)
PushedHistory(op) == [i \in 1..op.length |-> SubSeq(op.rev, 1, Len(op.rev) - i + 1)]

(* The callback of PutExistingRev: everything newer than the first known   *)
(* ancestor is added.                                                      *)
ApplyPutExistingRev(d, op) ==
    LET history == PushedHistory(op)
        known   == SelectInSeq(history, LAMBDA r : r \in DOMAIN d.tree)
        parent  == IF known = 0 THEN NoRev ELSE history[known]
        new     == IF known = 0 THEN ToSet(history) ELSE ToSet(SubSeq(history, 1, known - 1))
        deleted == op.body = Deletion
        above(r) == IF Front(r) \in new \cup {parent} THEN Front(r) ELSE NoRev
    IN  IF known = 1 \/ IsIllegalConflict(d, parent, deleted, op.noConflicts)
        THEN Refused(d.tree)
        ELSE [ok |-> TRUE, rev |-> op.rev,
              tree |-> [r \in DOMAIN d.tree \cup new |->
                           IF r \in new THEN Info(above(r), r = op.rev /\ deleted)
                           ELSE d.tree[r]]]

-----------------------------------------------------------------------------
(* The rest of documentUpdateFunc, as an operator from the loaded document *)
(* and the callback's result to the document to save.                      *)

Where(rev) ==
    IF ExternalBodies /\ Last(rev) # Deletion THEN "external" ELSE "inline"

(* The body of a revision that does not win can be read.                   *)
Readable(tree, rev, stored) ==
    \/ tree[rev].body = "inline"
    \/ tree[rev].body = "external" /\ rev \in stored

(* The body of the previous winner is moved into the tree, the new body    *)
(* is stored, and a revision that wins again is moved out of the tree.     *)
StoreBodies(d, applied) ==
    LET cur     == WinningRevision(applied.tree)
        demoted == IF cur # d.cur /\ d.cur # NoRev /\ d.body # NoBody THEN {d.cur} ELSE {}
        kept    == demoted \cup ({applied.rev} \ {cur})
        added   == {r \in kept : Where(r) = "external"}
        tree    == [r \in DOMAIN applied.tree |->
                       IF r \in kept THEN [applied.tree[r] EXCEPT !.body = Where(r)]
                       ELSE applied.tree[r]]
        promote == cur # applied.rev /\ cur # d.cur
        body    == CASE cur = applied.rev -> Last(cur)
                     [] promote -> IF Readable(tree, cur, external \cup added)
                                   THEN Last(cur) ELSE NoBody
                     [] OTHER   -> d.body
    IN  [cur |-> cur, body |-> body, added |-> added,
         tree |-> IF promote THEN SetBody(tree, cur, "none") ELSE tree,
         removed |-> IF promote /\ tree[cur].body = "external" THEN {cur} ELSE {}]

(* The nearest ancestor whose body is still in the tree.                   *)
BackedUp(s, rev) ==
    LET history == Tail(History(s.tree, rev))
        i == SelectInSeq(history, LAMBDA r : Readable(s.tree, r, external \cup s.added))
    IN  IF i = 0 THEN NoRev ELSE history[i]

(* backupAncestorRevs: that body is copied to a backup and removed.        *)
BackupAncestorRevs(s, rev) ==
    LET old == BackedUp(s, rev)
    IN  IF old = NoRev THEN s
        ELSE [s EXCEPT !.tree = SetBody(s.tree, old, "none"),
                       !.removed = @ \cup (IF s.tree[old].body = "external" THEN {old} ELSE {})]

(* persistModifiedRevisionBodies: a body that was added and removed again  *)
(* is neither written nor deleted.                                         *)
PersistedBodies(s) == s.added \ s.removed

RemovedBodies(s) == s.removed \ s.added

-----------------------------------------------------------------------------
(* The steps of an update.                                                 *)

Bodies == {Last(r) : r \in Revisions}

(* Bound: updates that can be refused only are left out.                   *)
Ops ==
    {op \in {[kind |-> "put", match |-> m, body |-> b] : m \in Revisions \cup {NoRev}, b \in Bodies} :
        op.match = NoRev \/ CreateRevID(op.match, op.body) \in Revisions}
    \cup {[kind |-> "push", rev |-> r, length |-> n, body |-> Last(r), noConflicts |-> c] :
        r \in Revisions, n \in HistoryLengths, c \in BOOLEAN}

(* A client sends revisions it has read or been told of, and its own on    *)
(* top of them.                                                            *)
Sensible(op) ==
    IF op.kind = "put" THEN op.match = NoRev \/ op.match \in DOMAIN doc.tree
    ELSE op.length <= Generation(op.rev)
         /\ (op.length = Generation(op.rev) \/ op.length = Max(HistoryLengths))

(* The document is loaded.                                                 *)
Loaded(op) == [Idle EXCEPT !.pc = "apply", !.op = op, !.snap = doc, !.cas = cas]

Start(w, op) ==
    /\ writer[w].pc = "idle" /\ updates < MaxUpdates
    /\ Sensible(op)
    /\ updates' = updates + 1
    /\ writer' = [writer EXCEPT ![w] = Loaded(op)]
    /\ UNCHANGED <<doc, cas, external, backups, faults, written, exposed>>

Applied(w) ==
    LET op == writer[w].op
    IN  IF op.kind = "put" THEN ApplyPut(writer[w].snap, op)
        ELSE ApplyPutExistingRev(writer[w].snap, op)

(* The request is refused: by the callback, or by the sync function.       *)
Refuse(w) ==
    /\ writer[w].pc = "apply"
    /\ writer' = [writer EXCEPT ![w] = Idle]
    /\ UNCHANGED <<doc, cas, external, backups, updates, faults, written, exposed>>

(* What the next attempt starts from: a Put without a revision keeps the   *)
(* one it matched, and _attachments is gone from the body of both.         *)
AfterAttempt(op, d) ==
    LET matched  == IF op.kind = "put" /\ op.match = NoRev THEN [op EXCEPT !.match = d.cur]
                    ELSE op
        lost     == op.body = Attached
    IN  IF lost THEN [matched EXCEPT !.body = 1] ELSE matched

(* documentUpdateFunc.  The errors of AddRaw and of setOldRevisionJSON are *)
(* dropped: the body document or the backup of a revision in failed is not *)
(* written, and the update goes on.                                        *)
Apply(w) ==
    LET d   == writer[w].snap
        a   == Applied(w)
        old == BackedUp(StoreBodies(d, a), a.rev)
        s   == BackupAncestorRevs(StoreBodies(d, a), a.rev)
    IN  /\ writer[w].pc = "apply" /\ a.ok
        /\ a.rev \in Revisions
        /\ \E failed \in SUBSET (PersistedBodies(s) \cup ({old} \ {NoRev})) :
               /\ faults + Cardinality(failed) <= MaxFaults
               /\ faults' = faults + Cardinality(failed)
               /\ exposed' = exposed \cup {r \in failed : r \notin (IF r = old THEN backups ELSE external)}
               /\ external' = external \cup (PersistedBodies(s) \ failed)
               /\ backups' = backups \cup ({old} \ failed)
        /\ \E tree \in PruneRevisions(s.tree) :
               writer' = [writer EXCEPT ![w] =
                   [@ EXCEPT !.pc = "save", !.snap = NewDoc, !.rev = a.rev, !.removed = RemovedBodies(s),
                             !.op = AfterAttempt(writer[w].op, d),
                             !.result = [tree |-> tree, cur |-> s.cur, body |-> s.body,
                                         attached |-> writer[w].op.body = Attached]]]
        /\ UNCHANGED <<doc, cas, updates, written>>

SaveAlways(w) ==
    /\ writer[w].pc = "save"
    /\ doc' = writer[w].result /\ cas' = cas + 1
    /\ written' = written \cup {writer[w].rev}
    /\ writer' = [writer EXCEPT ![w] = [Idle EXCEPT !.pc = "saved", !.removed = writer[w].removed]]
    /\ UNCHANGED <<external, backups, updates, faults, exposed>>

(* The document is written if its CAS has not changed.                     *)
Save(w) ==
    /\ writer[w].pc = "save" /\ writer[w].cas = cas
    /\ doc' = writer[w].result /\ cas' = cas + 1
    /\ written' = written \cup {writer[w].rev}
    /\ writer' = [writer EXCEPT ![w] = [Idle EXCEPT !.pc = "saved", !.removed = writer[w].removed]]
    /\ UNCHANGED <<external, backups, updates, faults, exposed>>

Retry(w) ==
    /\ writer[w].pc = "save" /\ writer[w].cas # cas
    /\ writer' = [writer EXCEPT ![w] = Loaded(writer[w].op)]
    /\ UNCHANGED <<doc, cas, external, backups, updates, faults, written, exposed>>

(* A document that counts on the body document of a revision.              *)
Needs(d, rev) == rev \in DOMAIN d.tree /\ d.tree[rev].body = "external"

(* deleteRemovedRevisionBodies.  A revision that was demoted again in the  *)
(* meantime is exposed: its writer found the body document in place.       *)
Finish(w) ==
    /\ writer[w].pc = "saved"
    /\ external' = external \ writer[w].removed
    /\ exposed' = exposed \cup
           {r \in writer[w].removed :
               Needs(doc, r) \/ \E v \in Writers : writer[v].pc = "save" /\ Needs(writer[v].result, r)}
    /\ writer' = [writer EXCEPT ![w] = Idle]
    /\ UNCHANGED <<doc, cas, backups, updates, faults, written>>

Crash(w) ==
    /\ writer[w].pc # "idle" /\ faults < MaxFaults
    /\ faults' = faults + 1
    /\ writer' = [writer EXCEPT ![w] = Idle]
    /\ UNCHANGED <<doc, cas, external, backups, updates, written, exposed>>

Next ==
    \E w \in Writers :
        \/ \E op \in Ops : Start(w, op)
        \/ Refuse(w)
        \/ Apply(w)
        \/ Save(w)
        \/ Retry(w)
        \/ Finish(w)
        \/ Crash(w)

Spec == Init /\ [][Next]_vars

WriterSymmetry == Permutations(Writers)

-----------------------------------------------------------------------------
(* Properties.                                                             *)

(* Every revision of the stored tree has its parent there or is a root,    *)
(* and every variable has its type (addRevision, pruneRevisions).          *)
TypeOK ==
    /\ \A r \in DOMAIN doc.tree :
           /\ r \in Revisions
           /\ doc.tree[r].parent = NoRev
              \/ (doc.tree[r].parent = Front(r) /\ Front(r) \in DOMAIN doc.tree)
           /\ doc.tree[r].body \in {"none", "inline", "external"}
    /\ cas \in Nat /\ updates \in 0..MaxUpdates /\ faults \in 0..MaxFaults
    /\ external \subseteq Revisions /\ written \subseteq Revisions
    /\ \A w \in Writers : writer[w].pc \in {"idle", "apply", "save", "saved"}

(* The current revision was chosen before the tree was pruned and before   *)
(* the body was moved: in the bucket it is still the winner, and the body  *)
(* beside it is its own (updateAndReturnDoc).                              *)
WinnerStored ==
    /\ doc.cur = WinningRevision(doc.tree)
    /\ doc.cur \notin exposed \cup {NoRev} => doc.body = Last(doc.cur)

(* A revision that was written and is in the tree has its body: a leaf in  *)
(* the document or in its body document, an inner one there or in a        *)
(* backup.  It may be lost when AddRaw or setOldRevisionJSON failed (their *)
(* errors are dropped), or when the body document is deleted by an earlier *)
(* update that promoted the revision (deleteRemovedRevisionBodies).  A     *)
(* tombstone that was pruned and came back as the ancestor of another      *)
(* revision, which makes it a revision that is not deleted, came back      *)
(* without its body.                                                       *)
BodiesKept ==
    \A r \in (written \cap DOMAIN doc.tree) \ exposed :
        \/ r = doc.cur
        \/ Readable(doc.tree, r, external)
        \/ r \in backups /\ r \notin Leaves(doc.tree)
        \/ Last(r) = Deletion /\ ~doc.tree[r].deleted /\ r \notin Leaves(doc.tree)

(* No update is lost: a revision that was written is in the tree, or has   *)
(* descendants there, or lies on a branch that was ended by a tombstone    *)
(* (the CAS retry of updateAndReturnDoc and pruneRevisions).               *)
NoLostUpdate ==
    \A r \in written :
        \/ \E s \in DOMAIN doc.tree : IsPrefix(r, s)
        \/ \E t \in written : Last(t) = Deletion /\ IsPrefix(r, t)

(* What a document promises under racing updates: its stored winner is the *)
(* winner of its tree, revisions keep their bodies, and no update that was *)
(* acknowledged is lost.                                                   *)
DocumentSafe == TypeOK /\ WinnerStored /\ BodiesKept /\ NoLostUpdate

(* A tombstone that pruneRevisions may remove: it lies more than RevsLimit *)
(* generations behind every branch that is not deleted.                    *)
FarBehind(t, tree) ==
    /\ Last(t) = Deletion /\ LiveLeaves(tree) # {}
    /\ \A l \in LiveLeaves(tree) : Generation(t) + RevsLimit < Generation(l)

(* A branch goes on or ends in a tombstone: an update extends it, leaves   *)
(* it alone, or removes it because the tombstone at its end, perhaps the   *)
(* one just written, is far behind every live branch.  And a revision      *)
(* pushed with noConflicts adds no conflict, whatever was written between  *)
(* its check and its save (pruneRevisions, IsIllegalConflict).             *)
BranchesKept ==
    [][/\ \A r \in Leaves(doc.tree) :
            \/ \E s \in DOMAIN doc'.tree : IsPrefix(r, s)
            \/ \E t \in written' : IsPrefix(r, t) /\ FarBehind(t, doc'.tree)
       /\ \A w \in Writers :
            Save(w) /\ writer[w].op.kind = "push" /\ writer[w].op.noConflicts =>
              Cardinality(LiveLeaves(doc'.tree)) <= Max({1, Cardinality(LiveLeaves(doc.tree))})]_vars

=============================================================================
