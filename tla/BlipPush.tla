----------------------------- MODULE BlipPush -----------------------------
(***************************************************************************)
(* Revisions pushed over BLIP connections (rest/blip_sync.go): a client    *)
(* announces a revision with "changes" or "proposeChanges", sends it with  *)
(* "rev", and the handler asks back for the attachment, or for a proof     *)
(* that the client has it, before it saves the revision.  Several handlers *)
(* run at once: of several clients, or of one that lost its connection and *)
(* sends the revision again while the first handler still runs.            *)
(*                                                                         *)
(* One document, whose revisions have at most one attachment, always of    *)
(* the same name.  Saving is one step here; Documents has its details.     *)
(***************************************************************************)
EXTENDS RevTree

CONSTANTS
    Handlers,       \* handlers that run at the same time
    AttDigests,     \* attachment digests
    NoDigest,       \* a revision without an attachment
    MaxPushes,      \* revisions pushed
    MaxPushFaults   \* connections lost and wrong proofs

ASSUME PushAssumption ==
    /\ NoDigest \notin AttDigests
    /\ {MaxPushes, MaxPushFaults} \subseteq Nat

VARIABLES
    conflictFree,   \* allow_conflicts is false
    pushTree,       \* the document's revision tree
    pushAtt,        \* the attachment of each revision: digest and revpos
    attData,        \* the digests whose data is in the bucket
    handler,        \* [Handlers -> what the handler is doing]
    pushUsed        \* how often each bounded event has happened

pushVars == <<conflictFree, pushTree, pushAtt, attData, handler, pushUsed>>

----------------------------------------------------------------------------
NoAtt == [digest |-> NoDigest, revpos |-> 0]

IdleHandler == [pc |-> "idle", rev |-> NoRev, base |-> NoRev, deleted |-> FALSE,
                digest |-> NoDigest, history |-> {}, noConflicts |-> FALSE, inline |-> FALSE,
                seen |-> NoRev, result |-> "none"]

\* The bucket may hold attachments of other documents.
PushInit ==
    /\ conflictFree \in BOOLEAN
    /\ pushTree = EmptyTree
    /\ pushAtt = [r \in {} |-> NoAtt]
    /\ attData \in SUBSET AttDigests
    /\ handler = [h \in Handlers |-> IdleHandler]
    /\ pushUsed = [pushes |-> 0, faults |-> 0]

CurrentRev == WinningRevision(pushTree)

----------------------------------------------------------------------------
(* Announcing revisions.                                                   *)

\* CheckProposedRev.
CheckProposedRev(rev, parent) ==
    CASE CurrentRev = NoRev                                   -> 0
      [] CurrentRev = rev                                     -> 304
      [] CurrentRev = parent                                  -> 0
      [] parent = NoRev /\ pushTree[CurrentRev].deleted       -> 0
      [] OTHER                                                -> 409

\* The answer to proposeChanges: trailing zeroes are left out, the ones in
\* between are caught up with.
ProposeAnswer(statuses) ==
    FoldLeftDomain(LAMBDA out, i :
        IF statuses[i] = 0 THEN out
        ELSE out \o [j \in 1..(i - 1 - Len(out)) |-> 0] \o <<statuses[i]>>,
        <<>>, statuses)

\* A client that reads the answer by position finds the status of each of its
\* revisions.
ASSUME AnswerAligned ==
    \A n \in 0..4 : \A st \in [1..n -> {0, 304, 409}] :
        LET answer == ProposeAnswer(st)
        IN \A i \in 1..n : st[i] = IF i <= Len(answer) THEN answer[i] ELSE 0

\* RevDiff: the leaves that may be ancestors of a revision the tree lacks.
PossibleAncestors(rev) ==
    IF Generation(rev) <= 1 THEN {}
    ELSE {l \in Leaves(pushTree) : Generation(l) < Generation(rev)}
         \cup {pushTree[l].parent : l \in {l \in Leaves(pushTree) :
                  Generation(l) = Generation(rev) /\ pushTree[l].parent # NoRev}}

\* The history a client sends: back to a possible ancestor that the answer to
\* "changes" named, or all of it.
SentHistory(rev, possible) ==
    LET all  == {SubSeq(rev, 1, n) : n \in 1..Len(rev)}
        stop == {Generation(a) : a \in all \cap possible}
    IN IF stop = {} THEN all ELSE {r \in all : Generation(r) >= Max(stop)}

\* A client announces a revision and, if it is wanted, prepares to send it with
\* its history.  base is the newest revision that it knows the gateway to have.
Announce(h, rev, base, deleted, digest) ==
    LET status == IF conflictFree THEN CheckProposedRev(rev, base)
                  ELSE IF rev \in DOMAIN pushTree THEN 304 ELSE 0
    IN /\ handler[h].pc = "idle"
       /\ handler' = [handler EXCEPT ![h] =
             [pc |-> IF status = 0 THEN "announced" ELSE "idle",
              rev |-> rev, base |-> base, deleted |-> deleted, digest |-> digest,
              history |-> SentHistory(rev, IF conflictFree THEN {base} \ {NoRev}
                                           ELSE PossibleAncestors(rev)),
              noConflicts |-> FALSE, inline |-> FALSE, seen |-> CurrentRev,
              result |-> CASE status = 0 -> "none" [] status = 304 -> "exists"
                           [] OTHER -> "conflict"]]
       /\ UNCHANGED <<conflictFree, pushTree, pushAtt, attData>>

\* The client made the revision on top of one that the gateway has, or of one
\* that it is still pushing.
NewPush(h, parent, base, deleted, digest) ==
    /\ pushUsed.pushes < MaxPushes
    /\ pushUsed' = [pushUsed EXCEPT !.pushes = @ + 1]
    /\ deleted => digest = NoDigest /\ parent # NoRev
    /\ Announce(h, CreateRevID(parent, pushUsed.pushes), base, deleted, digest)

\* The connection is lost and the client announces the revision again, while
\* the handler of the first attempt goes on with what it has.
PushAgain(h, g) ==
    /\ handler[g].pc \in {"attachments", "saving"}
    /\ pushUsed.faults < MaxPushFaults
    /\ pushUsed' = [pushUsed EXCEPT !.faults = @ + 1]
    /\ Announce(h, handler[g].rev, handler[g].base, handler[g].deleted, handler[g].digest)

----------------------------------------------------------------------------
(* Receiving a revision.                                                   *)

Move(h, pc) == handler' = [handler EXCEPT ![h].pc = pc]

Finish(h, result) ==
    handler' = [handler EXCEPT ![h].pc = "idle", ![h].result = result,
                               ![h].noConflicts = FALSE]

\* The client sends the revision it announced, perhaps with the flag that
\* refuses conflicts where the database allows them.
HandleRev(h, noConflicts) ==
    /\ handler[h].pc = "announced"
    /\ noConflicts => ~conflictFree
    /\ handler' = [handler EXCEPT ![h].noConflicts = noConflicts,
          ![h].pc = IF handler[h].digest = NoDigest THEN "saving" ELSE "attachments"]
    /\ UNCHANGED <<conflictFree, pushTree, pushAtt, attData, pushUsed>>

\* The attachment is looked up by its digest, whatever its revpos.
LookUpAttachment(h) ==
    /\ handler[h].pc = "attachments"
    /\ Move(h, IF handler[h].digest \in attData THEN "proving" ELSE "fetching")
    /\ UNCHANGED <<conflictFree, pushTree, pushAtt, attData, pushUsed>>

\* The client proves that it has the data: the attachment stays a stub.
ProofReceived(h) ==
    /\ handler[h].pc = "proving"
    /\ Move(h, "saving")
    /\ UNCHANGED <<conflictFree, pushTree, pushAtt, attData, pushUsed>>

\* The client sends the data, which is put into the body.
DataReceived(h) ==
    /\ handler[h].pc = "fetching"
    /\ handler' = [handler EXCEPT ![h].pc = "saving", ![h].inline = TRUE]
    /\ UNCHANGED <<conflictFree, pushTree, pushAtt, attData, pushUsed>>

\* The proof is wrong, or the connection is lost before the answer.
AttachmentFails(h) ==
    /\ handler[h].pc \in {"proving", "fetching"}
    /\ pushUsed.faults < MaxPushFaults
    /\ pushUsed' = [pushUsed EXCEPT !.faults = @ + 1]
    /\ Finish(h, "failed")
    /\ UNCHANGED <<conflictFree, pushTree, pushAtt, attData>>

----------------------------------------------------------------------------
(* Saving.                                                                 *)

\* The newest revision of the sent history that the tree has.
KnownAncestor(p) ==
    LET known == p.history \cap DOMAIN pushTree
    IN IF known = {} THEN NoRev ELSE CHOOSE a \in known : \A b \in known : ~Greater(b, a)

\* As if the answer to the proposal were still good.
IsConflictTrusting(p) == FALSE

\* IsIllegalConflict.
IsConflict(p) ==
    /\ conflictFree \/ p.noConflicts
    /\ KnownAncestor(p) # CurrentRev /\ CurrentRev # NoRev
    /\ ~(p.deleted /\ KnownAncestor(p) \in LiveLeaves(pushTree))

\* retrieveAncestorAttachments: the attachments of the nearest ancestor that
\* can be read - the body of a revision that is not current may be gone - or,
\* when none can, those of the current revision that are not younger than its
\* last common ancestor with the new one.
AncestorAttachments(p) ==
    LET known     == KnownAncestor(p)
        ancestors == IF known = NoRev THEN {} ELSE ToSet(History(pushTree, known))
        bodies    == {a \in ancestors : pushTree[a].body = "stored"}
        common    == ToSet(History(pushTree, CurrentRev)) \cap p.history
        old       == pushAtt[CurrentRev].revpos <= Max({Generation(a) : a \in common})
    IN IF CurrentRev \in ancestors
         THEN {pushAtt[a] : a \in {a \in bodies : Generation(a) >= Generation(CurrentRev)}}
         ELSE {pushAtt[a] : a \in bodies}
              \cup {IF CurrentRev = NoRev \/ common = {} THEN NoAtt
                    ELSE IF old THEN pushAtt[CurrentRev] ELSE NoAtt}

\* storeAttachments: data that came with the revision is new; a stub takes the
\* place of whatever the ancestor has under its name, if it has something.
StoredAttachments(p) ==
    LET own == [digest |-> p.digest, revpos |-> Generation(p.rev)]
    IN IF p.digest = NoDigest THEN {NoAtt}
       ELSE IF p.inline THEN {own}
       ELSE {IF a = NoAtt THEN own ELSE a : a \in AncestorAttachments(p)}

\* PutExistingRev: a revision that is there already is left alone, a conflict
\* is refused, and otherwise the attachment data is added before the document
\* is written.
PutExistingRev(h) ==
    LET p == handler[h]
    IN /\ p.pc = "saving"
       /\ \/ /\ p.rev \in DOMAIN pushTree
             /\ Finish(h, "exists")
             /\ UNCHANGED <<pushTree, pushAtt, attData>>
          \/ /\ p.rev \notin DOMAIN pushTree /\ IsConflict(p)
             /\ Finish(h, "conflict")
             /\ UNCHANGED <<pushTree, pushAtt, attData>>
          \/ /\ p.rev \notin DOMAIN pushTree /\ ~IsConflict(p)
             /\ Finish(h, "saved")
             /\ LET new == {r \in p.history : Generation(r) > Generation(KnownAncestor(p))}
                    parent(r) == IF Front(r) \in new \cup {KnownAncestor(p)} THEN Front(r)
                                 ELSE NoRev
                IN /\ pushTree' = [r \in DOMAIN pushTree \cup new |->
                          IF r \notin new THEN pushTree[r]
                          ELSE [parent |-> parent(r), deleted |-> r = p.rev /\ p.deleted,
                                body |-> IF r = p.rev THEN "stored" ELSE "none"]]
                   /\ \E a \in StoredAttachments(p) :
                        pushAtt' = [r \in DOMAIN pushAtt \cup new |->
                                       IF r \notin new THEN pushAtt[r]
                                       ELSE IF r = p.rev THEN a ELSE NoAtt]
             /\ attData' = IF p.inline THEN attData \cup {p.digest} ELSE attData
       /\ UNCHANGED <<conflictFree, pushUsed>>

----------------------------------------------------------------------------
PushNext ==
    \E h \in Handlers :
        \/ \E deleted \in BOOLEAN, digest \in AttDigests \cup {NoDigest} :
              \/ \E r \in DOMAIN pushTree \cup {NoRev} : NewPush(h, r, r, deleted, digest)
              \/ \E g \in Handlers \ {h} :
                    /\ handler[g].pc # "idle"
                    /\ NewPush(h, handler[g].rev, handler[g].base, deleted, digest)
        \/ \E g \in Handlers \ {h} : PushAgain(h, g)
        \/ \E noConflicts \in BOOLEAN : HandleRev(h, noConflicts)
        \/ LookUpAttachment(h) \/ ProofReceived(h) \/ DataReceived(h)
        \/ AttachmentFails(h) \/ PutExistingRev(h)

\* The handlers run, and the client that announced a revision sends it and
\* answers what it is asked.
PushFairness ==
    \A h \in Handlers :
        WF_pushVars(\/ \E noConflicts \in BOOLEAN : HandleRev(h, noConflicts)
                    \/ LookUpAttachment(h) \/ ProofReceived(h)
                    \/ DataReceived(h) \/ PutExistingRev(h))

PushSpec == PushInit /\ [][PushNext]_pushVars /\ PushFairness

----------------------------------------------------------------------------
(* Properties.                                                             *)

\* Every variable holds a value of its kind, and the tree and the attachments
\* cover the same revisions.
PushTypeOK ==
    /\ DOMAIN pushTree = DOMAIN pushAtt
    /\ attData \subseteq AttDigests
    /\ \A h \in Handlers :
          handler[h].pc \in {"idle", "announced", "attachments", "proving", "fetching", "saving"}

\* The data of every saved revision's attachment is in the bucket, whichever
\* of several handlers brought it and however many of them were cut off.
AttachmentsStored ==
    \A r \in DOMAIN pushAtt : pushAtt[r].digest \in attData \cup {NoDigest}

\* Without conflicts, the document keeps a single branch that is not deleted,
\* although the proposals were checked before the other handlers saved.
SingleBranch == conflictFree => Cardinality(LiveLeaves(pushTree)) <= 1

\* A proposal that was accepted is refused as a conflict only if another
\* revision was saved in between.
ProposalKept ==
    \A h \in Handlers :
        handler[h].result = "conflict" /\ handler[h].pc = "idle" =>
            \/ handler[h].seen # CurrentRev
            \/ CheckProposedRev(handler[h].rev, handler[h].base) # 0

\* The same, outside the case that CheckProposedRev and IsIllegalConflict
\* decide differently: a first revision of a deleted document.  Proposals are
\* made to databases without conflicts: in others, what was current may be so
\* again once the branch that followed it is deleted.
ProposalKeptOtherwise ==
    conflictFree =>
        \A h \in Handlers :
            handler[h].result = "conflict" /\ handler[h].pc = "idle" /\ handler[h].base # NoRev =>
                \/ handler[h].seen # CurrentRev
                \/ CheckProposedRev(handler[h].rev, handler[h].base) # 0

\* A revision is saved with the attachment its client pushed, unless the gateway
\* had the data already, so that a stub was saved, and an ancestor or the
\* current revision has an attachment of that name.
AttachmentKept ==
    \A h \in Handlers :
        LET p == handler[h]
        IN p.pc = "idle" /\ p.result = "saved" =>
            \/ pushAtt[p.rev].digest = p.digest
            \/ ~p.inline /\ \E r \in DOMAIN pushAtt \ {p.rev} : pushAtt[r] = pushAtt[p.rev]

\* What a push relies on, however the handlers of several revisions
\* interleave: attachments are in the bucket before their revision is saved, a
\* conflict-free database keeps one branch, and what was proposed and attached
\* is what is stored.
PushSafe ==
    /\ PushTypeOK /\ AttachmentsStored /\ SingleBranch
    /\ ProposalKeptOtherwise /\ AttachmentKept

\* Every push comes to an end.
PushEnds == []<>(\A h \in Handlers : handler[h].pc = "idle")

============================================================================
