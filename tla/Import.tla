------------------------------- MODULE Import -------------------------------
(***************************************************************************)
(* Import of documents written by SDK applications (db/import.go and its   *)
(* callers in db/crud.go and db/change_cache.go), for one document of a    *)
(* bucket with shared access.                                              *)
(*                                                                         *)
(* The gateway's metadata is an extended attribute stamped with the CAS    *)
(* and the hash of the body it was written with; a write by anybody else   *)
(* leaves the attribute behind, and that is how it is recognised.  Three   *)
(* parties import: the mutation feed, a read and an update of the          *)
(* document.  They race with each other, with the SDK, with purges and     *)
(* with a restart of the gateway.  The revision history is linear here     *)
(* (branches are the subject of Documents).                                *)
(***************************************************************************)
EXTENDS Integers, Sequences, SequencesExt, FiniteSets

CONSTANTS
    Clients,     \* concurrent REST requests
    Contents,    \* what a body may say
    Filtered,    \* contents the import filter refuses
    Rejected,    \* contents the sync function rejects
    MaxSdkOps,   \* bound: writes and deletes by the SDK
    MaxRequests, \* bound: reads, updates and purges
    MaxFaults    \* bound: restarts of the gateway and imports that fail

ASSUME ImportAssumption ==
    /\ Contents \subseteq Nat \ {0} /\ Filtered \subseteq Contents \cup {0}
    /\ Rejected \subseteq Contents \ Filtered
    /\ MaxSdkOps \in Nat /\ MaxRequests \in Nat /\ MaxFaults \in Nat

VARIABLES
    doc,      \* the document in the bucket: [cas, body, xattr]
    clock,    \* the last CAS the bucket gave out
    feed,     \* mutations not yet received from the feed
    cached,   \* the revision the change cache last received
    process,  \* [Processes -> local state of an import, request or purge]
    initialSequence,  \* the revisions from before the last start: see Restart
    sdkOps, requests, faults,
    exposed,  \* history: SDK versions hit by a race named below
    dropped   \* history: CAS of the last mutation the feed has lost

history == <<exposed, dropped>>
vars == <<doc, clock, feed, cached, initialSequence, process, sdkOps, requests, faults, history>>

Processes == Clients \cup {"feed"}

(* A body is what it says and, for the properties, which SDK write it is   *)
(* (0 for a gateway's).  A revision is the same; one that says Deletion is *)
(* a tombstone, and one that says Hollow is not deleted and has no body.   *)
Deletion == 0
Hollow == -1
NoBody == [c |-> Deletion, v |-> 0, present |-> FALSE]
Body(c, v) == [c |-> c, v |-> v, present |-> TRUE]

(* The attribute: CAS and hash stamps and the revision history.            *)
NoXattr == [cas |-> 0, crc |-> 0, revs |-> <<>>]
Gone == [cas |-> 0, body |-> NoBody, xattr |-> NoXattr]

HasRev(d) == d.xattr.revs # <<>>
RevID(d) == [i \in DOMAIN d.xattr.revs |-> d.xattr.revs[i].c]
IsDeleted(d) == HasRev(d) /\ Last(d.xattr.revs).c = Deletion

Idle == [pc |-> "idle", snap |-> Gone, imported |-> Gone, isDelete |-> FALSE,
         match |-> <<>>, c |-> 0, get |-> FALSE]

Init ==
    /\ doc = Gone /\ clock = 0 /\ feed = <<>> /\ cached = <<>>
    /\ process = [p \in Processes |-> Idle]
    /\ initialSequence = 0
    /\ sdkOps = 0 /\ requests = 0 /\ faults = 0 /\ exposed = {} /\ dropped = 0

-----------------------------------------------------------------------------
(* The bucket.  Every mutation gets a new CAS and is sent on the feed.  A  *)
(* document with neither body nor attribute is not found.                  *)

Mutated(body, xattr) ==
    LET d == [cas |-> clock + 1, body |-> body, xattr |-> xattr]
    IN  /\ doc' = IF body = NoBody /\ xattr = NoXattr THEN Gone ELSE d
        /\ clock' = clock + 1
        /\ feed' = Append(feed, d)

Stamped(revs, body) == [cas |-> clock + 1, crc |-> body.c, revs |-> revs]

(* The value of the document is not empty.                                 *)
HasBody(d) == d.body.present /\ d.body.c # Hollow

(* WriteWithXattr, once its CAS check passed: a tombstone loses its body   *)
(* if the caller saw one.                                                  *)
WriteWithXattr(revs, snap) ==
    LET rev  == Last(revs)
        body == IF rev.c # Deletion THEN Body(rev.c, rev.v)
                ELSE IF HasBody(snap) THEN NoBody
                ELSE IF snap.cas = 0 /\ ~doc.body.present THEN Body(Deletion, 0)
                ELSE doc.body
    IN  Mutated(body, Stamped(revs, body))

(* The gateway knows a write as its own by the CAS or by the body's hash.  *)
IsSGWrite(d) ==
    \/ d.cas = d.xattr.cas
    \/ HasRev(d) /\ d.body.present /\ d.body.c = d.xattr.crc

-----------------------------------------------------------------------------
(* importDoc.  The process holds the version it wants to import; the       *)
(* callback decides, and the write succeeds only on that version.          *)

StartImport(p, d, isDelete) ==
    [process[p] EXCEPT !.pc = "import", !.imported = d, !.isDelete = isDelete]

(* What the revision made of an imported version says.  A version whose    *)
(* body the SDK deleted is given the body {"_deleted": true} when it is    *)
(* loaded; unless it is imported as a deletion, the revision is not one.   *)
ImportContent(q) ==
    IF q.isDelete THEN Deletion
    ELSE IF q.imported.body.present THEN q.imported.body.c ELSE Hollow

Outcomes == {"write", "cancelled", "already", "filtered", "failed"}

(* The filter and the sync function are shown the body of the version,     *)
(* also when it is imported as a deletion.                                 *)
ImportOutcome(q) ==
    IF q.isDelete /\ ~HasRev(q.imported) THEN "cancelled"
    ELSE IF IsSGWrite(q.imported) THEN "already"
    ELSE IF q.imported.body.c \in Filtered THEN "filtered"
    ELSE IF q.imported.body.c \in Rejected THEN "failed"
    ELSE "write"

(* Where a process continues after its import: an update goes on, unless   *)
(* the import failed; with a filtered document it starts from nothing.     *)
AfterImport(p, outcome) ==
    LET q == process[p]
    IN  IF p = "feed" \/ q.get \/ outcome = "failed" THEN Idle
        ELSE IF outcome = "filtered"
        THEN [q EXCEPT !.pc = "put", !.snap.xattr = NoXattr]
        ELSE [q EXCEPT !.pc = "put"]

ImportCancelled(p) ==
    /\ process[p].pc = "import"
    /\ ImportOutcome(process[p]) # "write"
    /\ process' = [process EXCEPT ![p] = AfterImport(p, ImportOutcome(process[p]))]
    /\ UNCHANGED <<doc, clock, feed, cached, initialSequence, sdkOps, requests, faults, history>>

(* The first named race: a version with a body is imported as a deletion,  *)
(* because the request saw a deletion before a retry (importDoc keeps      *)
(* isDelete) or because the client's own update is a deletion              *)
(* (OnDemandImportForWrite).                                               *)
TakenForDeletion(q) == q.isDelete /\ q.imported.body.present

ImportWriteBlind(p) ==
    LET q   == process[p]
        rev == [c |-> ImportContent(q),
                v |-> IF q.isDelete THEN 0 ELSE q.imported.body.v]
    IN  /\ q.pc = "import" /\ ImportOutcome(q) = "write"
        /\ doc.body.present
        /\ WriteWithXattr(Append(doc.xattr.revs, rev), doc)
        /\ exposed' = exposed \cup (IF TakenForDeletion(q) THEN {doc.body.v} ELSE {})
        /\ process' = [process EXCEPT ![p] = AfterImport(p, "write")]
        /\ UNCHANGED <<cached, initialSequence, sdkOps, requests, faults, dropped>>

ImportWrite(p) ==
    LET q   == process[p]
        rev == [c |-> ImportContent(q),
                v |-> IF q.isDelete THEN 0 ELSE q.imported.body.v]
    IN  /\ q.pc = "import" /\ ImportOutcome(q) = "write"
        /\ doc.cas = q.imported.cas
        /\ WriteWithXattr(Append(doc.xattr.revs, rev), doc)
        /\ exposed' = exposed \cup (IF TakenForDeletion(q) THEN {doc.body.v} ELSE {})
        /\ process' = [process EXCEPT ![p] = AfterImport(p, "write")]
        /\ UNCHANGED <<cached, initialSequence, sdkOps, requests, faults, dropped>>

(* The document changed.  The feed gives up, as the change follows on the  *)
(* feed; the others load the document again and import that, or fail if    *)
(* it is gone.                                                             *)
ImportRetry(p) ==
    LET q == process[p]
    IN  /\ q.pc = "import" /\ ImportOutcome(q) = "write"
        /\ doc.cas # q.imported.cas
        /\ process' = [process EXCEPT ![p] =
               IF p = "feed" \/ doc = Gone THEN Idle
               ELSE [q EXCEPT !.imported = doc]]
        /\ UNCHANGED <<doc, clock, feed, cached, initialSequence, sdkOps, requests, faults, history>>

(* The import fails: the bucket reports an error, as it may do whenever a  *)
(* revision without a body is written.  A request ends with the error; the *)
(* feed goes on, and nobody imports the mutation again.                    *)
ImportError(p) ==
    LET q == process[p]
    IN  /\ q.pc = "import" /\ ImportOutcome(q) = "write"
        /\ \/ faults < MaxFaults /\ faults' = faults + 1
           \/ ImportContent(q) = Hollow /\ UNCHANGED faults
        /\ process' = [process EXCEPT ![p] = Idle]
        /\ dropped' = IF p = "feed" THEN q.imported.cas ELSE dropped
        /\ UNCHANGED <<doc, clock, feed, cached, initialSequence, sdkOps, requests, exposed>>

-----------------------------------------------------------------------------
(* The feed: DocChanged.                                                   *)

ReceiveMutationLive ==
    LET e == Head(feed)
    IN  /\ feed # <<>> /\ process["feed"].pc = "idle"
        /\ feed' = Tail(feed)
        /\ cached' = IF IsSGWrite(e) /\ e.xattr.cas > initialSequence THEN RevID(e) ELSE cached
        /\ process' = IF IsSGWrite(e) \/ ~e.body.present THEN process
                      ELSE [process EXCEPT !["feed"] = StartImport("feed", e, ~e.body.present)]
        /\ UNCHANGED <<doc, clock, initialSequence, sdkOps, requests, faults, history>>

ReceiveMutation ==
    LET e == Head(feed)
    IN  /\ feed # <<>> /\ process["feed"].pc = "idle"
        /\ feed' = Tail(feed)
        /\ cached' = IF IsSGWrite(e) /\ e.xattr.cas > initialSequence THEN RevID(e) ELSE cached
        /\ process' = IF IsSGWrite(e) \/ (~e.body.present /\ ~HasRev(e)) THEN process
                      ELSE [process EXCEPT !["feed"] = StartImport("feed", e, ~e.body.present)]
        /\ UNCHANGED <<doc, clock, initialSequence, sdkOps, requests, faults, history>>

(* The bucket sends only the last of several mutations of a document.      *)
Deduplicate ==
    /\ Len(feed) > 1
    /\ feed' = Tail(feed)
    /\ UNCHANGED <<doc, clock, cached, initialSequence, process, sdkOps, requests, faults, history>>

(* The gateway starts again: requests and caches are gone.  Start reads    *)
(* the sequence counter (or 0, if that fails), and the feed starts at a    *)
(* checkpoint before the last mutation, or behind it: positions are noted  *)
(* before a mutation is handled.  What is then lost is the last mutation,  *)
(* if it was not handled, or if the cache takes it for one still to come.  *)
(* The sequences of revisions are ordered like the CAS they were stamped   *)
(* with.                                                                   *)
Restart ==
    /\ faults < MaxFaults
    /\ faults' = faults + 1
    /\ process' = [p \in Processes |-> Idle]
    /\ cached' = <<>>
    /\ initialSequence' \in {0, clock}
    /\ \/ feed' = (IF doc = Gone THEN <<>> ELSE <<doc>>) /\ UNCHANGED dropped
       \/ /\ Len(feed) <= 1 /\ feed' = <<>>
          /\ dropped' = IF feed = <<>> /\ process["feed"].pc = "idle" /\ initialSequence' > 0
                        THEN dropped ELSE doc.cas
    /\ UNCHANGED <<doc, clock, sdkOps, requests, exposed>>

-----------------------------------------------------------------------------
(* Requests.                                                               *)

Begin(p) ==
    /\ p \in Clients /\ process[p].pc = "idle"
    /\ requests < MaxRequests
    /\ requests' = requests + 1

(* GetDocument, GetDocSyncData: a version that is not the gateway's is     *)
(* imported first.                                                         *)
GetDocument(p) ==
    /\ Begin(p)
    /\ ~IsSGWrite(doc)
    /\ process' = [process EXCEPT ![p] =
           [StartImport(p, doc, ~doc.body.present) EXCEPT !.get = TRUE]]
    /\ UNCHANGED <<doc, clock, feed, cached, initialSequence, sdkOps, faults, history>>

(* OnDemandImportForWrite: a version that is not the gateway's is imported *)
(* first, a deletion by the SDK included: as what the client's update is,  *)
(* a deletion or not.                                                      *)
LoadForPut(q) ==
    LET loaded == [q EXCEPT !.pc = "put", !.snap = doc]
    IN  IF IsSGWrite(doc) THEN loaded
        ELSE [loaded EXCEPT !.pc = "import", !.imported = doc, !.isDelete = q.c = Deletion]

(* A client updates the revision it knows, or creates the document.        *)
Put(p, c, match) ==
    /\ Begin(p)
    /\ process' = [process EXCEPT ![p] = LoadForPut([Idle EXCEPT !.c = c, !.match = match])]
    /\ UNCHANGED <<doc, clock, feed, cached, initialSequence, sdkOps, faults, history>>

MayPut(q) ==
    IF q.match = <<>> THEN ~HasRev(q.snap) \/ IsDeleted(q.snap)
    ELSE q.match = RevID(q.snap)

PutRefused(p) ==
    /\ process[p].pc = "put" /\ ~MayPut(process[p])
    /\ process' = [process EXCEPT ![p] = Idle]
    /\ UNCHANGED <<doc, clock, feed, cached, initialSequence, sdkOps, requests, faults, history>>

(* The second named race: UpdateXattr with CAS 0 checks nothing, so a      *)
(* deletion that found no document marks one created meanwhile as deleted. *)
BlindTombstone(q) == q.snap.cas = 0 /\ q.c = Deletion

CasMatchesAlways(q) == TRUE

CasMatches(q) == doc.cas = q.snap.cas \/ BlindTombstone(q)

(* A deletion that skipped the import deletes a version nobody imported:   *)
(* the first race again.                                                   *)
PutWrite(p) ==
    LET q == process[p]
    IN  /\ q.pc = "put" /\ MayPut(q) /\ CasMatches(q)
        /\ WriteWithXattr(Append(q.snap.xattr.revs, [c |-> q.c, v |-> 0]), q.snap)
        /\ exposed' = exposed \cup
               (IF q.c = Deletion /\ ~IsSGWrite(doc) THEN {doc.body.v} ELSE {})
        /\ process' = [process EXCEPT ![p] = Idle]
        /\ UNCHANGED <<cached, initialSequence, sdkOps, requests, faults, dropped>>

(* On a CAS mismatch the callback runs again on the new version, with the  *)
(* parent it chose the first time; some writes to a document whose body is *)
(* gone fail instead.                                                      *)
PutRetry(p) ==
    LET q == [process[p] EXCEPT !.match =
                 IF @ = <<>> THEN RevID(process[p].snap) ELSE @]
    IN  /\ q.pc = "put" /\ MayPut(process[p]) /\ ~CasMatches(q)
        /\ \/ process' = [process EXCEPT ![p] = LoadForPut(q)]
           \/ ~doc.body.present /\ process' = [process EXCEPT ![p] = Idle]
        /\ UNCHANGED <<doc, clock, feed, cached, initialSequence, sdkOps, requests, faults, history>>

(* handlePurge.  Body and attribute are removed in one operation; if one   *)
(* of them is missing, the other is removed under its CAS.                 *)
Purge(p) ==
    /\ Begin(p)
    /\ IF doc.body.present /\ HasRev(doc)
       THEN Mutated(NoBody, NoXattr) /\ cached' = <<>> /\ UNCHANGED process
       ELSE /\ doc # Gone
            /\ process' = [process EXCEPT ![p] = [Idle EXCEPT !.pc = "purge", !.snap = doc]]
            /\ UNCHANGED <<doc, clock, feed, cached>>
    /\ UNCHANGED <<initialSequence, sdkOps, faults, history>>

(* The document is loaded for its CAS: a body that came back cancels the   *)
(* purge, an attribute that appeared meanwhile stays.                      *)
PurgeLoad(p) ==
    LET q == process[p]
    IN  /\ q.pc = "purge"
        /\ process' = [process EXCEPT ![p] =
               IF doc.body.present = q.snap.body.present /\ doc # Gone
               THEN [q EXCEPT !.pc = "remove", !.imported = doc] ELSE Idle]
        /\ UNCHANGED <<doc, clock, feed, cached, initialSequence, sdkOps, requests, faults, history>>

PurgeRemove(p) ==
    LET q == process[p]
    IN  /\ q.pc = "remove"
        /\ process' = [process EXCEPT ![p] = Idle]
        /\ IF doc.cas = q.imported.cas
           THEN /\ Mutated(NoBody, IF doc.body.present THEN doc.xattr ELSE NoXattr)
                /\ cached' = <<>>
           ELSE UNCHANGED <<doc, clock, feed, cached>>
        /\ UNCHANGED <<initialSequence, sdkOps, requests, faults, history>>

-----------------------------------------------------------------------------
(* The SDK writes and deletes bodies and leaves the attribute alone.       *)

SdkWrite(c) ==
    /\ sdkOps < MaxSdkOps
    /\ sdkOps' = sdkOps + 1
    /\ Mutated(Body(c, sdkOps'), doc.xattr)
    /\ UNCHANGED <<cached, initialSequence, process, requests, faults, history>>

SdkDelete ==
    /\ sdkOps < MaxSdkOps /\ doc.body.present
    /\ sdkOps' = sdkOps + 1
    /\ Mutated(NoBody, doc.xattr)
    /\ UNCHANGED <<cached, initialSequence, process, requests, faults, history>>

-----------------------------------------------------------------------------

ImportStep(p) == ImportCancelled(p) \/ ImportWrite(p) \/ ImportRetry(p) \/ ImportError(p)

RequestStep(p) ==
    PutRefused(p) \/ PutWrite(p) \/ PutRetry(p) \/ PurgeLoad(p) \/ PurgeRemove(p)

Request(p) ==
    \/ GetDocument(p) \/ Purge(p)
    \/ \E c \in (Contents \ Rejected) \cup {Deletion} : \E match \in {<<>>, RevID(doc)} :
           Put(p, c, match)

(* The bounds are used up.                                                 *)
Terminating ==
    /\ feed = <<>> /\ \A p \in Processes : process[p].pc = "idle"
    /\ UNCHANGED vars

Next ==
    \/ \E c \in Contents : SdkWrite(c)
    \/ SdkDelete
    \/ ReceiveMutation \/ Deduplicate \/ Restart
    \/ \E p \in Processes : ImportStep(p)
    \/ \E p \in Clients : Request(p) \/ RequestStep(p)
    \/ Terminating

(* The feed is read and requests go on; nobody has to make any.            *)
Fairness ==
    /\ WF_vars(ReceiveMutation)
    /\ \A p \in Processes : WF_vars(ImportStep(p))
    /\ \A p \in Clients : WF_vars(RequestStep(p))

Spec == Init /\ [][Next]_vars /\ Fairness

-----------------------------------------------------------------------------
(* PROPERTIES                                                              *)

Says == Contents \cup {Deletion, Hollow}
Bodies == [c : Says, v : 0..MaxSdkOps, present : BOOLEAN]
IsHistory(revs) ==
    \A i \in DOMAIN revs : revs[i].c \in Says /\ revs[i].v \in 0..MaxSdkOps
IsVersion(d) ==
    d.cas \in 0..clock /\ d.body \in Bodies /\ d.xattr.cas \in 0..clock /\ IsHistory(d.xattr.revs)

(* Every version a document, a mutation or a process holds is one the      *)
(* bucket may have had, and stamps are never ahead of the document's CAS.  *)
TypeOK ==
    /\ IsVersion(doc) /\ doc.xattr.cas <= doc.cas
    /\ \A i \in DOMAIN feed : IsVersion(feed[i])
    /\ \A p \in Processes :
        /\ process[p].pc \in {"idle", "import", "put", "purge", "remove"}
        /\ IsVersion(process[p].snap) /\ IsVersion(process[p].imported)
    /\ exposed \subseteq 0..MaxSdkOps /\ dropped \in 0..clock

(* A write by the SDK becomes at most one revision, however many of the    *)
(* feed, reads and updates try to import it and however often mutations    *)
(* are sent again.                                                         *)
ImportedOnce ==
    /\ TypeOK
    /\ \A i, j \in DOMAIN doc.xattr.revs :
         doc.xattr.revs[i].v # 0 /\ doc.xattr.revs[i].v = doc.xattr.revs[j].v => i = j

(* The SDK's body is in the bucket and no revision says it.                *)
Unimported(d) ==
    /\ d.body.present /\ d.body.v # 0 /\ ~IsSGWrite(d)
    /\ d.body.c \notin Filtered

ByTheGateway == doc'.cas # doc.cas /\ sdkOps' = sdkOps
PurgesNow == doc' = Gone \/ \E p \in Clients : process[p].pc = "remove" /\ process'[p].pc = "idle"

(* A body of the SDK is imported by the step that replaces it.             *)
KeepsBody ==
    ByTheGateway /\ Unimported(doc) /\ ~PurgesNow
    => \/ doc'.body.v = doc.body.v /\ Last(doc'.xattr.revs).v = doc.body.v
       \/ doc.body.v \in exposed'

(* Revisions are added to the end of the history.                          *)
ExtendsHistory ==
    \/ IsPrefix(RevID(doc), RevID(doc)')
    \/ PurgesNow
    \/ doc.body.c \in Filtered /\ ~IsSGWrite(doc)
    \/ \E p \in Clients : process[p].pc = "put" /\ BlindTombstone(process[p])

(* A write by the gateway never replaces a body of the SDK that was not    *)
(* imported: the same step imports it, or it is a purge or one of the two  *)
(* named races.  And it extends the history clients replicated, which is   *)
(* forgotten only by a purge, by an update over a filtered version, and by *)
(* a blind tombstone.                                                      *)
NothingOverwritten == [][KeepsBody /\ ExtendsHistory]_vars

(* The gateway's metadata is about what the bucket holds, or never will    *)
(* be: the filter or the sync function refuses it.                         *)
Settled ==
    \/ doc = Gone \/ IsSGWrite(doc)
    \/ doc.body.c \in Filtered \cup Rejected

(* The change cache has the current revision, or leaves it to queries.     *)
Received == cached = RevID(doc) \/ doc.xattr.cas <= initialSequence

(* Once the SDK and the clients stop, every write of the SDK is imported   *)
(* and every revision has reached the change cache, without a client       *)
(* having to ask for the document, also after a restart - unless the feed  *)
(* lost the document's last mutation: its import failed, or a restart      *)
(* passed over it.                                                         *)
EventuallyImported ==
    <>[](doc.cas = dropped \/ (Settled /\ (HasRev(doc) /\ IsSGWrite(doc) => Received)))

=============================================================================
