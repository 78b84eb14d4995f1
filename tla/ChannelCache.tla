---------------------------- MODULE ChannelCache ----------------------------
(***************************************************************************)
(* The cache of one channel (db/channel_cache.go): a bounded, ascending    *)
(* list of the latest change of each document, complete from validFrom on, *)
(* that is extended backwards with the results of channel queries.         *)
(*                                                                         *)
(* addToCache, pruneCacheAge, Remove, getCachedChanges and prependChanges  *)
(* are critical sections of the cache's lock and are one step each.        *)
(* GetChanges is not: it reads the cache, waits for the view lock, reads   *)
(* it again, runs a query - meanwhile entries arrive, are pruned and are   *)
(* purged - and then prepends the query's result.                          *)
(*                                                                         *)
(* A LogEntry is its sequence, its document and whether it is active       *)
(* (neither a tombstone nor a removal from the channel).  The bucket is    *)
(* the channel's index: the latest change of each document in the channel. *)
(***************************************************************************)
EXTENDS Integers, Sequences, SequencesExt, FiniteSets

CONSTANTS
    Docs,
    Readers,                \* concurrent GetChanges calls
    NoDoc,                  \* not a document
    MaxSeq,                 \* bound on the sequence counter
    StartSeq,               \* initialSequence of the change cache
    ChannelCacheMaxLength,
    ChannelCacheMinLength,
    Requests,               \* the limit and activeOnly options of GetChanges
    Activity,               \* whether changes may be active, or not
    Purgeable,              \* documents that may be purged
    DelayedWrites           \* a write may reach the bucket long after its
                            \* sequence was allocated

ASSUME ChannelCacheAssumption ==
    /\ NoDoc \notin Docs
    /\ MaxSeq \in Nat /\ StartSeq \in 0..MaxSeq
    /\ ChannelCacheMaxLength \in Nat \ {0}
    /\ ChannelCacheMinLength \in Nat
    /\ Requests \subseteq [limit : Nat, activeOnly : BOOLEAN]
    /\ Activity \subseteq BOOLEAN
    /\ Purgeable \subseteq Docs
    /\ DelayedWrites \in BOOLEAN

VARIABLES
    counter,        \* the bucket's _sync:seq document
    bucket,         \* latest change of each document in the channel's index
    allocated,      \* changes with a sequence that are not yet in the bucket
    arriving,       \* changes between the bucket and addToCache
    logs, validFrom, cachedDocIDs,      \* fields of channelCache
    reader,         \* GetChanges in progress, per reader
    viewLock,       \* holder of viewLock
    purge,          \* purge of a document in progress
    missed          \* history: dropped changes that leave a hole

cacheVars == <<logs, validFrom, cachedDocIDs>>
bucketVars == <<counter, bucket, allocated, arriving>>
vars == <<bucketVars, cacheVars, reader, viewLock, purge, missed>>

Seqs == 1..MaxSeq
Entry == [seq : Seqs, doc : Docs, active : Activity]
NoEntry == [seq |-> 0, doc |-> NoDoc, active |-> FALSE]

NoReader == "none"

IdleReader == [pc |-> "idle", since |-> 0, limit |-> 0, activeOnly |-> FALSE,
               start |-> 0, end |-> 0, cached |-> <<>>, view |-> <<>>,
               result |-> <<>>, owed |-> {}]

NoPurge == [pc |-> "none", doc |-> NoDoc, old |-> {}, fresh |-> {}]

(* The variables hold values the fields of the code can have.              *)
TypeOK ==
    /\ counter \in 0..MaxSeq
    /\ bucket \in [Docs -> Entry \cup {NoEntry}]
    /\ allocated \subseteq Entry
    /\ arriving \subseteq Entry
    /\ logs \in Seq(Entry)
    /\ validFrom \in 1..(MaxSeq + 1)
    /\ cachedDocIDs \subseteq Docs
    /\ \A r \in Readers :
        /\ reader[r].pc \in {"idle", "wait", "query", "prepend", "done"}
        /\ reader[r].cached \in Seq(Entry)
        /\ reader[r].view \in Seq(Entry)
        /\ reader[r].result \in Seq(Entry)
    /\ viewLock \in Readers \cup {NoReader}
    /\ purge.pc \in {"none", "started", "purged"}
    /\ purge.old \subseteq Entry /\ purge.fresh \subseteq Seqs
    /\ purge.doc \in Docs \cup {NoDoc}
    /\ missed \subseteq Entry

(* A node starts while the bucket holds changes up to StartSeq; writes of  *)
(* other nodes may be under way.                                           *)
Init ==
    /\ counter = StartSeq
    /\ bucket \in [Docs -> {e \in Entry : e.seq <= StartSeq} \cup {NoEntry}]
    /\ \A d \in Docs : bucket[d].doc \in {d, NoDoc}
    /\ \A d, e \in Docs : bucket[d].seq = bucket[e].seq =>
            d = e \/ bucket[d] = NoEntry
    /\ allocated \in IF DelayedWrites
                     THEN {{}} \cup {{e} : e \in {x \in Entry :
                              /\ x.seq <= StartSeq
                              /\ x.seq > bucket[x.doc].seq
                              /\ \A d \in Docs : bucket[d].seq # x.seq}}
                     ELSE {{}}
    /\ arriving = {}
    /\ logs = <<>> /\ cachedDocIDs = {}
    /\ validFrom = StartSeq + 1
    /\ reader = [r \in Readers |-> IdleReader]
    /\ viewLock = NoReader
    /\ purge = NoPurge
    /\ missed = {}

----------------------------------------------------------------------------
(* The bucket and the feed                                                 *)

(* A document is changed in the channel: the change gets a sequence and is *)
(* written, at once or later.                                              *)
Allocate(d, active) ==
    /\ counter < MaxSeq
    /\ counter' = counter + 1
    /\ LET e == [seq |-> counter', doc |-> d, active |-> active]
       IN  IF DelayedWrites
           THEN /\ allocated' = allocated \cup {e}
                /\ UNCHANGED <<bucket, arriving>>
           ELSE /\ bucket' = [bucket EXCEPT ![d] = e]
                /\ arriving' = arriving \cup {e}
                /\ UNCHANGED allocated
    /\ UNCHANGED <<cacheVars, reader, viewLock, purge, missed>>

(* A later version of the document was purged but is still in the feed, in *)
(* the list or in the hands of a reader.                                   *)
BehindPurge(e) ==
    \E x \in arriving \cup Range(logs)
            \cup UNION {Range(reader[r].view \o reader[r].cached) : r \in Readers} :
        x.doc = e.doc /\ x.seq > e.seq

(* A delayed write is stored, or gives way to a later sequence.            *)
Commit(e) ==
    /\ e \in allocated
    /\ allocated' = allocated \ {e}
    /\ IF e.seq > bucket[e.doc].seq
       THEN /\ bucket' = [bucket EXCEPT ![e.doc] = e]
            /\ arriving' = arriving \cup {e}
            /\ missed' = IF BehindPurge(e) THEN missed \cup {e} ELSE missed
       ELSE UNCHANGED <<bucket, arriving, missed>>
    /\ UNCHANGED <<counter, cacheVars, reader, viewLock, purge>>

(* The feed drops a superseded change.                                     *)
Deduplicate(e) ==
    /\ e \in arriving
    /\ bucket[e.doc].seq > e.seq
    /\ arriving' = arriving \ {e}
    /\ UNCHANGED <<counter, bucket, allocated, cacheVars, reader, viewLock,
                   purge, missed>>

----------------------------------------------------------------------------
(* Adding and removing entries                                             *)

DocsOf(log) == {log[i].doc : i \in DOMAIN log}
Without(log, d) == SelectSeq(log, LAMBDA x : x.doc # d)
FirstN(log, n) == IF n < Len(log) THEN SubSeq(log, 1, n) ELSE log
LastN(log, n) == IF n < Len(log) THEN SubSeq(log, Len(log) - n + 1, Len(log))
                 ELSE log
InOrder(log, e) == SelectSeq(log, LAMBDA x : x.seq < e.seq) \o <<e>>
                       \o SelectSeq(log, LAMBDA x : x.seq >= e.seq)

(* insertChange meets a later (or the same) change of the document.        *)
AlreadyCached(e) ==
    /\ e.doc \in cachedDocIDs
    /\ \E i \in DOMAIN logs : logs[i].doc = e.doc /\ logs[i].seq >= e.seq

(* Mutant: an out-of-order change replaces a later one of its document.    *)
AppendChangeReplaces(e) ==
    InOrder(IF e.doc \in cachedDocIDs THEN Without(logs, e.doc) ELSE logs, e)

(* The list after _appendChange, which hands a change that is not the      *)
(* latest to insertChange: a change already in the cache is ignored, an    *)
(* earlier change of the same document is replaced.                        *)
AppendChange(e) ==
    IF AlreadyCached(e) THEN logs
    ELSE InOrder(IF e.doc \in cachedDocIDs THEN Without(logs, e.doc) ELSE logs,
                 e)

(* Mutant: validFrom is the last pruned sequence.                          *)
DropFrontOffByOne(log, ids, n) ==
    /\ logs' = SubSeq(log, n + 1, Len(log))
    /\ cachedDocIDs' = ids \ {log[i].doc : i \in 1..n}
    /\ validFrom' = IF n > 0 THEN log[n].seq ELSE validFrom

(* The list and the document index lose their first n entries.             *)
DropFront(log, ids, n) ==
    /\ logs' = SubSeq(log, n + 1, Len(log))
    /\ cachedDocIDs' = ids \ {log[i].doc : i \in 1..n}
    /\ validFrom' = IF n > 0 THEN log[n].seq + 1 ELSE validFrom

(* addToCache: nothing below validFrom; prune to ChannelCacheMaxLength.    *)
AddToCache(e) ==
    IF e.seq < validFrom
    THEN UNCHANGED cacheVars
    ELSE LET log == AppendChange(e)
         IN  DropFront(log, cachedDocIDs \cup {e.doc},
                       IF Len(log) > ChannelCacheMaxLength
                       THEN Len(log) - ChannelCacheMaxLength ELSE 0)

(* A purge in progress will compare the entry's TimeReceived with its      *)
(* startTime.  The feed stamps an event before it is processed, so one     *)
(* that was stored before startTime may have been stamped before it too.   *)
Received(e) ==
    IF e.doc # purge.doc THEN {purge}
    ELSE {[purge EXCEPT !.fresh = @ \cup {e.seq}]}
            \cup (IF e \in purge.old THEN {purge} ELSE {})

(* A reader has queried the part of the channel where e belongs before e   *)
(* was stored, and has not prepended its result yet.                       *)
BehindQuery(e) ==
    \E r \in Readers :
        /\ reader[r].pc \in {"query", "prepend"}
        /\ reader[r].since < e.seq /\ e.seq <= reader[r].end
        /\ reader[r].pc = "query" => e.seq < reader[r].start
        /\ e \notin Range(reader[r].view)

(* A change arrives from the feed, in any order; changes from before the   *)
(* cache was started are ignored.                                          *)
Deliver(e) ==
    /\ e \in arriving
    /\ arriving' = arriving \ {e}
    /\ IF e.seq <= StartSeq
       THEN UNCHANGED <<cacheVars, purge>>
       ELSE AddToCache(e) /\ purge' \in Received(e)
    /\ missed' = IF \/ e.seq < validFrom /\ BehindQuery(e)
                    \/ e.seq <= StartSeq /\ e.seq >= validFrom
                 THEN missed \cup {e} ELSE missed
    /\ UNCHANGED <<counter, bucket, allocated, reader, viewLock>>

(* The n oldest entries are older than ChannelCacheAge.                    *)
PruneCacheAge(n) ==
    /\ ChannelCacheMinLength < ChannelCacheMaxLength
    /\ Len(logs) - n >= ChannelCacheMinLength
    /\ DropFront(logs, cachedDocIDs, n)
    /\ UNCHANGED <<bucketVars, reader, viewLock, purge, missed>>

(* handlePurge and Compact note the time, ...                              *)
PurgeStart(d) ==
    /\ purge.pc = "none"
    /\ bucket[d] # NoEntry
    /\ purge' = [pc |-> "started", doc |-> d, fresh |-> {},
                 old |-> {e \in arriving : e.doc = d}]
    /\ UNCHANGED <<bucketVars, cacheVars, reader, viewLock, missed>>

(* ... remove the document from the bucket, ...                            *)
PurgeDoc ==
    /\ purge.pc = "started"
    /\ bucket' = [bucket EXCEPT ![purge.doc] = NoEntry]
    /\ purge' = [purge EXCEPT !.pc = "purged"]
    /\ UNCHANGED <<counter, allocated, arriving, cacheVars, reader, viewLock,
                   missed>>

(* Mutant: the index forgets the document although its entry is kept.      *)
RemovePurgedForgetsDoc ==
    /\ purge.pc = "purged"
    /\ LET gone(x) == x.doc = purge.doc /\ x.seq \notin purge.fresh
           rest == SelectSeq(logs, LAMBDA x : ~gone(x))
       IN  /\ logs' = rest
           /\ cachedDocIDs' = cachedDocIDs \ {purge.doc}
    /\ purge' = NoPurge
    /\ UNCHANGED <<bucketVars, validFrom, reader, viewLock, missed>>

(* ... and Remove its entry, unless it was received after that time.       *)
RemovePurged ==
    /\ purge.pc = "purged"
    /\ LET gone(x) == /\ x.doc = purge.doc /\ x.doc \in cachedDocIDs
                      /\ x.seq \notin purge.fresh
           rest == SelectSeq(logs, LAMBDA x : ~gone(x))
       IN  /\ logs' = rest
           /\ cachedDocIDs' = IF Len(rest) < Len(logs)
                              THEN cachedDocIDs \ {purge.doc}
                              ELSE cachedDocIDs
    /\ purge' = NoPurge
    /\ UNCHANGED <<bucketVars, validFrom, reader, viewLock, missed>>

----------------------------------------------------------------------------
(* GetChanges                                                              *)

(* getCachedChanges: the entries after since, and from where they are      *)
(* complete.  With activeOnly the limit is left to the caller.             *)
CachedChanges(since, limit, activeOnly) ==
    LET after == SelectSeq(logs, LAMBDA x : x.seq > since)
        start == Len(logs) - Len(after)
    IN  [from   |-> IF start > 0 THEN logs[start].seq + 1 ELSE validFrom,
         result |-> IF limit > 0 /\ ~activeOnly THEN FirstN(after, limit)
                                                ELSE after]

(* QueryChannels: the channel's index from start to end, in order.         *)
QueryChannels(start, end, limit) ==
    LET found == {bucket[d] : d \in Docs} \ {NoEntry}
        rows == SetToSortSeq({e \in found : start <= e.seq /\ e.seq <= end},
                             LAMBDA x, y : x.seq < y.seq)
    IN  IF limit > 0 THEN FirstN(rows, limit) ELSE rows

(* What the caller of GetChanges is owed, should it still be current when  *)
(* the call returns: changes in the bucket that have left the feed.        *)
Owed(since) ==
    {e \in {bucket[d] : d \in Docs} \ {NoEntry} :
        e.seq > since /\ e \notin arriving}

Return(r, result) ==
    reader' = [reader EXCEPT ![r] = [@ EXCEPT !.pc = "done", !.result = result,
                                              !.cached = <<>>, !.view = <<>>,
                                              !.start = 0, !.end = 0]]

(* GetChanges begins; it may be served from the cache.                     *)
GetChanges(r, since, req) ==
    /\ reader[r].pc = "idle"
    /\ LET got == CachedChanges(since, req.limit, req.activeOnly)
           call == [IdleReader EXCEPT !.since = since, !.limit = req.limit,
                                      !.activeOnly = req.activeOnly,
                                      !.owed = Owed(since)]
       IN  reader' = [reader EXCEPT ![r] =
               IF got.from <= since + 1
               THEN [call EXCEPT !.pc = "done", !.result = got.result]
               ELSE [call EXCEPT !.pc = "wait"]]
    /\ UNCHANGED <<bucketVars, cacheVars, viewLock, purge, missed>>

(* The view lock is taken and the cache is read again.                     *)
AcquireViewLock(r) ==
    /\ reader[r].pc = "wait"
    /\ viewLock = NoReader
    /\ LET call == reader[r]
           got == CachedChanges(call.since, call.limit, call.activeOnly)
       IN  IF got.from <= call.since + 1
           THEN /\ Return(r, got.result)
                /\ UNCHANGED viewLock
           ELSE /\ reader' = [reader EXCEPT ![r].pc = "query",
                                 ![r].cached = got.result,
                                 ![r].start = call.since + 1,
                                 ![r].end = got.from]
                /\ viewLock' = r
    /\ UNCHANGED <<bucketVars, cacheVars, purge, missed>>

(* The feed was terminated meanwhile, or a query fails.                    *)
GetChangesError(r) ==
    /\ viewLock = r
    /\ reader[r].pc = "query"
    /\ reader' = [reader EXCEPT ![r] = IdleReader]
    /\ viewLock' = NoReader
    /\ UNCHANGED <<bucketVars, cacheVars, purge, missed>>

ActiveCount(log) == Len(SelectSeq(log, LAMBDA x : x.active))

(* One query of getChangesInChannelFromQuery.  With activeOnly and a limit *)
(* it is repeated until it has found that many active changes.             *)
ChannelQuery(r) ==
    /\ viewLock = r
    /\ reader[r].pc = "query"
    /\ LET call == reader[r]
           rows == QueryChannels(call.start, call.end, call.limit)
           view == call.view \o rows
           more == /\ rows # <<>>
                   /\ call.activeOnly
                   /\ call.limit > 0 /\ ActiveCount(view) < call.limit
                   /\ Last(rows).seq < call.end
       IN  /\ reader' = [reader EXCEPT ![r].view = view,
                            ![r].pc = IF more THEN "query" ELSE "prepend",
                            ![r].start = IF more THEN Last(rows).seq + 1 ELSE @]
           /\ purge' = [purge EXCEPT !.fresh =
                           @ \cup {e.seq : e \in {x \in Range(rows) :
                                                    x.doc = purge.doc}}]
    /\ UNCHANGED <<bucketVars, cacheVars, viewLock, missed>>

(* prependChanges adds results to a non-empty cache only if there is room  *)
(* and they are contiguous with it.                                        *)
MayPrepend(from, to) ==
    /\ to >= validFrom
    /\ Len(logs) < ChannelCacheMaxLength
    /\ from < validFrom

(* The results below validFrom whose document is not in the cache; the     *)
(* loop runs backwards and meets the latest change of a document first.    *)
NewToCache(changes) ==
    SelectSeq(changes, LAMBDA e :
        /\ e.seq < validFrom
        /\ e.doc \notin cachedDocIDs
        /\ \A i \in DOMAIN changes :
                changes[i].doc = e.doc /\ changes[i].seq < validFrom
                    => changes[i].seq <= e.seq)

(* validFrom once the entries in `kept' have been prepended.               *)
PrependValidFrom(full, kept, from) == IF full THEN kept[1].seq ELSE from

(* prependChanges(changes, from, to).                                      *)
PrependChanges(changes, from, to) ==
    IF changes = <<>>
    THEN /\ validFrom' = IF from < validFrom /\ to >= validFrom
                         THEN from ELSE validFrom
         /\ UNCHANGED <<logs, cachedDocIDs>>
    ELSE IF logs = <<>> /\ to >= validFrom
    THEN LET kept == LastN(changes, ChannelCacheMaxLength)
         IN  /\ logs' = kept
             /\ validFrom' = PrependValidFrom(Len(kept) < Len(changes),
                                             kept, from)
             /\ cachedDocIDs' = cachedDocIDs \cup DocsOf(kept)
    ELSE IF logs # <<>> /\ MayPrepend(from, to)
    THEN LET room == ChannelCacheMaxLength - Len(logs)
             new  == NewToCache(changes)
             kept == LastN(new, room)
         IN  /\ logs' = kept \o logs
             /\ validFrom' = PrependValidFrom(Len(kept) = room, kept, from)
             /\ cachedDocIDs' = cachedDocIDs \cup DocsOf(kept)
    ELSE UNCHANGED cacheVars

(* The query's results followed by the cached ones, which may overlap in   *)
(* one entry, up to the limit.                                             *)
Concatenate(view, cached, limit) ==
    LET rest == IF /\ view # <<>> /\ cached # <<>>
                   /\ cached[1].seq = Last(view).seq
                THEN Tail(cached) ELSE cached
    IN  view \o (IF limit = 0 THEN rest
                 ELSE IF limit > Len(view) THEN FirstN(rest, limit - Len(view))
                 ELSE <<>>)

(* GetChanges prepends the results, releases the view lock and returns.    *)
(* Results cut off by the limit are valid up to the last of them.          *)
Prepend(r) ==
    /\ reader[r].pc = "prepend"
    /\ LET call == reader[r]
           cut == call.limit > 0 /\ Len(call.view) >= call.limit
       IN  /\ IF Len(call.cached) < ChannelCacheMaxLength
              THEN PrependChanges(call.view, call.since + 1,
                                  IF cut THEN Last(call.view).seq ELSE call.end)
              ELSE UNCHANGED cacheVars
           /\ Return(r, Concatenate(call.view, call.cached, call.limit))
    /\ viewLock' = NoReader
    /\ UNCHANGED <<bucketVars, purge, missed>>

(* The caller has consumed the result.                                     *)
Consume(r) ==
    /\ reader[r].pc = "done"
    /\ reader' = [reader EXCEPT ![r] = IdleReader]
    /\ UNCHANGED <<bucketVars, cacheVars, viewLock, purge, missed>>

----------------------------------------------------------------------------
Next ==
    \/ \E d \in Docs, active \in Activity : Allocate(d, active)
    \/ \E e \in allocated : Commit(e)
    \/ \E e \in arriving : Deliver(e) \/ Deduplicate(e)
    \/ \E n \in 1..Len(logs) : PruneCacheAge(n)
    \/ \E d \in Purgeable : PurgeStart(d)
    \/ PurgeDoc \/ RemovePurged
    \/ \E r \in Readers :
        \/ \E since \in 0..counter, req \in Requests : GetChanges(r, since, req)
        \/ AcquireViewLock(r) \/ GetChangesError(r)
        \/ ChannelQuery(r) \/ Prepend(r) \/ Consume(r)

Spec == Init /\ [][Next]_vars

----------------------------------------------------------------------------
(* Properties                                                              *)

Ascending(log) == \A i, j \in DOMAIN log : i < j => log[i].seq < log[j].seq
OnePerDoc(log) == \A i, j \in DOMAIN log : log[i].doc = log[j].doc => i = j

(* "A given document should only have one entry in the cache": whatever    *)
(* mix of in-order, late, purged and queried changes it was built from,    *)
(* the list is strictly ascending and names each document once, and        *)
(* cachedDocIDs, on which insertChange and prependChanges rely to find     *)
(* duplicates, names exactly the documents in the list.                    *)
UniquenessGuarantee ==
    /\ Ascending(logs)
    /\ OnePerDoc(logs)
    /\ cachedDocIDs = DocsOf(logs)

(* The list never outgrows ChannelCacheMaxLength, although prependChanges  *)
(* uses a result obtained when the list may have been shorter.             *)
LengthBounded == Len(logs) <= ChannelCacheMaxLength

(* "The cache is guaranteed to have every change in a channel from the     *)
(* validFrom sequence": a document whose latest change is not below        *)
(* validFrom and has left the feed is in the list with that change.        *)
CompletenessGuarantee ==
    \A d \in Docs :
        bucket[d] # NoEntry /\ bucket[d].seq >= validFrom
            /\ bucket[d] \notin arriving
        => \E i \in DOMAIN logs : logs[i] = bucket[d]

(* Only three kinds of change can leave a hole: one that was stored, then  *)
(* delivered and dropped, while a query of its range was under way; one    *)
(* with a sequence from before the cache was started that is delivered     *)
(* after a query has taken the cache further back; and one that re-creates *)
(* a purged document with a lower sequence than the purged version, while  *)
(* that version is still on its way.                                       *)
HolesOnlyByRace ==
    \A d \in Docs :
        bucket[d] # NoEntry /\ bucket[d].seq >= validFrom
            /\ bucket[d] \notin arriving \cup missed
        => \E i \in DOMAIN logs : logs[i] = bucket[d]

(* What the cache of a channel promises of its list at any time: each      *)
(* document once, a bounded length, and no hole but those of named races.  *)
CacheGuarantees == TypeOK /\ UniquenessGuarantee /\ LengthBounded /\ HolesOnlyByRace

(* The entry "represents the most recent revision": while a document stays *)
(* in the list its entry is never replaced by an earlier change.           *)
EntryNeverRegresses ==
    [][\A i \in DOMAIN logs, j \in DOMAIN logs' :
            logs[i].doc = logs'[j].doc => logs[i].seq <= logs'[j].seq]_vars

Done(r) == reader[r].pc = "done"

(* A result is strictly ascending and names a document once, although its  *)
(* cached part was read before the query ran.  (A document re-created      *)
(* behind its purge, see HolesOnlyByRace, may follow itself.)              *)
ResultOrdered ==
    \A r \in Readers : Done(r) =>
        LET result == reader[r].result
        IN  /\ Ascending(result)
            /\ OnePerDoc(SelectSeq(result, LAMBDA e : e \notin missed))

Wanted(r, e) == reader[r].activeOnly => e.active

(* A result leaves no hole: every change that was owed when the call began *)
(* and is still current is in it, unless the result is full and ends       *)
(* before that change, or the change is one of those that leave a hole.    *)
ResultComplete ==
    \A r \in Readers : Done(r) =>
        LET result == reader[r].result
            wanted == SelectSeq(result, LAMBDA x : Wanted(r, x))
        IN  \A e \in reader[r].owed :
                e = bucket[e.doc] /\ Wanted(r, e) /\ e \notin missed =>
                    \/ \E i \in DOMAIN result : result[i] = e
                    \/ /\ reader[r].limit > 0
                       /\ Len(wanted) >= reader[r].limit
                       /\ e.seq > Last(result).seq

(* What GetChanges answers, from the list, the view or both, is in order   *)
(* and complete up to its limit.                                           *)
ResultCorrect == ResultOrdered /\ ResultComplete

=============================================================================
