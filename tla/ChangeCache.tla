---------------------------- MODULE ChangeCache ----------------------------
(***************************************************************************)
(* Sequence buffering of the change cache (db/change_cache.go).            *)
(*                                                                         *)
(* Every document write, principal write and released sequence carries a   *)
(* number drawn from the bucket's _sync:seq counter.  The mutation feed    *)
(* delivers them out of order, more than once, or not at all.  The change  *)
(* cache hands the entries to the channel caches in sequence order: an     *)
(* entry that arrives early waits in pendingLogs, a sequence that is       *)
(* missing for too long is moved to skippedSeqs, and a skipped sequence    *)
(* that shows up after all is added late.  A background task looks for     *)
(* old skipped sequences with a query and gives up on the others.          *)
(*                                                                         *)
(* A LogEntry is its sequence number and whether it names a document (an   *)
(* unused sequence does not).  The wall clock is abstracted to choices:    *)
(* a pending entry may exceed CachePendingSeqMaxWait at any time, and any  *)
(* prefix of the skipped list may exceed CacheSkippedSeqMaxWait.           *)
(* processEntry runs under c.lock and is one step, except for a late       *)
(* entry: the skipped list has a lock of its own, so that the cache        *)
(* addition and RemoveSkipped are seen separately.                         *)
(***************************************************************************)
EXTENDS Naturals, FiniteSets

CONSTANTS
    MaxSeq,                     \* bound on the _sync:seq counter
    StartSeq,                   \* value of the counter that Start has read
    CachePendingSeqMaxNum,      \* pendingLogs limit
    SkippedSeqCleanViewBatch,   \* sequences per skipped sequence query
    DisableCleanSkippedQuery,   \* the unsupported option of that name
    MaxResync                   \* bound on the number of _resync calls

ASSUME ChangeCacheAssumption ==
    /\ MaxSeq \in Nat
    /\ StartSeq \in 0..MaxSeq
    /\ CachePendingSeqMaxNum \in Nat \ {0}
    /\ SkippedSeqCleanViewBatch \in Nat \ {0}
    /\ DisableCleanSkippedQuery \in BOOLEAN
    /\ MaxResync \in Nat

VARIABLES
    counter,            \* the bucket's _sync:seq document
    nextSequence,       \* next consecutive sequence to add
    initialSequence,    \* counter value Start or Clear has read; 0 if it failed
    validFrom,          \* where the star channel's cache starts
    startedAt,          \* history: counter value at Start or the last Clear
    receivedSeqs,       \* every sequence ever received
    docEntries,         \* the received ones whose LogEntry has a DocID
    pendingLogs,        \* heap of early entries
    waited,             \* pending entries older than CachePendingSeqMaxWait
    skippedSeqs,        \* skipped sequence list
    cached,             \* sequences in the star channel's cache
    lateLogs,           \* sequences in the star channel's late log
    lateEntry,          \* late entry not yet removed from skippedSeqs, or 0
    logsDisabled,
    stopped,
    cleaner,            \* CleanSkippedSequenceQueue in progress
    resync,             \* UpdateAllDocChannels in progress
    resyncs,            \* _resync calls so far
    abandoned           \* history: skipped sequences that were given up

bufferVars == <<nextSequence, pendingLogs, waited, cached>>
entryVars == <<receivedSeqs, docEntries>>
lateVars == <<lateLogs, lateEntry>>
controlVars == <<logsDisabled, stopped, resync, resyncs>>
startVars == <<initialSequence, validFrom, startedAt>>

vars == <<counter, nextSequence, startVars, receivedSeqs, docEntries,
          pendingLogs, waited, skippedSeqs, cached, lateLogs, lateEntry,
          logsDisabled, stopped, cleaner, resync, resyncs, abandoned>>

Seqs == 1..MaxSeq

CleanerIdle == [pc |-> "idle", todo |-> {}, found |-> {}, removals |-> {}]

(* The variables hold values the fields of the code can have.              *)
TypeOK ==
    /\ counter \in 0..MaxSeq
    /\ nextSequence \in 1..(MaxSeq + 1)
    /\ initialSequence \in 0..MaxSeq
    /\ validFrom \in 1..(MaxSeq + 1)
    /\ startedAt \in 0..MaxSeq
    /\ receivedSeqs \subseteq Seqs
    /\ docEntries \subseteq receivedSeqs
    /\ pendingLogs \subseteq Seqs
    /\ waited \subseteq pendingLogs
    /\ skippedSeqs \subseteq Seqs
    /\ cached \subseteq Seqs
    /\ lateLogs \subseteq Seqs
    /\ lateEntry \in 0..MaxSeq
    /\ logsDisabled \in BOOLEAN
    /\ stopped \in BOOLEAN
    /\ cleaner \in [pc : {"idle", "query", "process"}, todo : SUBSET Seqs,
                    found : SUBSET Seqs, removals : SUBSET Seqs]
    /\ resync \in {"idle", "disabled", "cleared"}
    /\ resyncs \in 0..MaxResync
    /\ abandoned \subseteq Seqs

(* Init followed by Start: nothing is buffered and the counter's current   *)
(* value is the last sequence the feed will not be asked for.              *)
Init ==
    /\ counter = StartSeq
    /\ initialSequence = StartSeq /\ startedAt = StartSeq
    /\ validFrom = StartSeq + 1
    /\ nextSequence = StartSeq + 1
    /\ receivedSeqs = {} /\ docEntries = {}
    /\ pendingLogs = {} /\ waited = {}
    /\ skippedSeqs = {}
    /\ cached = {}
    /\ lateLogs = {} /\ lateEntry = 0
    /\ logsDisabled = FALSE /\ stopped = FALSE
    /\ cleaner = CleanerIdle
    /\ resync = "idle" /\ resyncs = 0
    /\ abandoned = {}

(* c.lock is free: no late entry is between its two steps.                 *)
LockFree == lateEntry = 0

(* Some Sync Gateway node draws or reserves sequences.                     *)
Allocate ==
    /\ counter' \in (counter + 1)..MaxSeq
    /\ UNCHANGED <<bufferVars, entryVars, lateVars, controlVars,
                   startVars, skippedSeqs, cleaner, abandoned>>

----------------------------------------------------------------------------
(* Adding entries                                                          *)

(* _addToCache for the entries S, of which those in docs name a document:  *)
(* a placeholder is not cached, and a channel cache drops what is below    *)
(* its validFrom.                                                          *)
AddToCache(S, docs) == cached \cup {s \in S \cap docs : s >= validFrom}

(* Mutant: of a gap only the first sequence is listed as skipped.          *)
PushSkippedFirstOnly(new) ==
    skippedSeqs \cup {x \in new : \A y \in new : x <= y}

(* SkippedSequenceList.Push refuses a sequence that is not above the ones  *)
(* already listed; PushSkipped ignores the error.                          *)
PushSkipped(new) == skippedSeqs \cup {x \in new : \A s \in skippedSeqs : s < x}

(* The loop of _addPendingLogs ends when nextSequence is n: the heap is    *)
(* empty, or its head is neither n nor too long in the queue, and the      *)
(* queue is within its limit.                                              *)
Blocked(pending, n) ==
    LET rest == {p \in pending : p >= n}
    IN  \/ rest = {}
        \/ /\ n \notin rest
           /\ Cardinality(rest) <= CachePendingSeqMaxNum
           /\ \A h \in rest \cap waited : \E p \in rest : p < h

(* _addPendingLogs from nextSequence = n with the given heap, the entries  *)
(* in `added' having been passed to _addToCache just before.  Every pass   *)
(* of the loop moves nextSequence by one, past an entry it pops or past a  *)
(* sequence it skips, and can only end at once or after a pop.             *)
AddPendingLogs(pending, n, added, docs) ==
    \E m \in {n} \cup {p + 1 : p \in pending} :
        /\ m >= n
        /\ Blocked(pending, m)
        /\ \A k \in n..(m - 1) : ~Blocked(pending, k)
        /\ nextSequence' = m
        /\ pendingLogs' = {p \in pending : p >= m}
        /\ waited' = {p \in waited : p >= m}
        /\ skippedSeqs' = PushSkipped({x \in n..(m - 1) : x \notin pending})
        /\ cached' = AddToCache(added \cup {p \in pending : p < m}, docs)

(* The expected sequence: add it and whatever it unblocks.                 *)
AddInSequence(s, docs) ==
    /\ s = nextSequence
    /\ AddPendingLogs(pendingLogs, s + 1, {s}, docs)
    /\ UNCHANGED lateVars

(* Some sequence before s is missing: s waits in the heap, which is worked *)
(* off when it holds more than CachePendingSeqMaxNum entries.              *)
Defer(s, docs) ==
    /\ s > nextSequence
    /\ LET pending == pendingLogs \cup {s}
       IN  IF Cardinality(pending) > CachePendingSeqMaxNum
           THEN AddPendingLogs(pending, nextSequence, {}, docs)
           ELSE /\ pendingLogs' = pending
                /\ UNCHANGED <<nextSequence, waited, skippedSeqs, cached>>
    /\ UNCHANGED lateVars

(* Mutant: RemoveSkipped comes before the cache addition.                  *)
AddLateRemovesFirst(s, docs, markedSkipped) ==
    /\ s < nextSequence
    /\ s > initialSequence
    /\ skippedSeqs' = skippedSeqs \ {s}
    /\ lateEntry' = s
    /\ UNCHANGED <<nextSequence, pendingLogs, waited, cached, lateLogs>>

(* Mutant: a late entry is cached but not put in the late logs.            *)
AddLateUnannounced(s, docs, markedSkipped) ==
    /\ s < nextSequence
    /\ s > initialSequence
    /\ cached' = AddToCache({s}, docs)
    /\ lateEntry' = s
    /\ UNCHANGED <<nextSequence, pendingLogs, waited, skippedSeqs, lateLogs>>

(* nextSequence has passed s: add it to the caches, and to the late logs   *)
(* when it was skipped.  RemoveSkipped follows in FinishLate.              *)
AddLate(s, docs, markedSkipped) ==
    /\ s < nextSequence
    /\ s > initialSequence
    /\ cached' = AddToCache({s}, docs)
    /\ lateLogs' = IF s \in docs /\ (markedSkipped \/ s \in skippedSeqs)
                   THEN lateLogs \cup {s}
                   ELSE lateLogs
    /\ lateEntry' = s
    /\ UNCHANGED <<nextSequence, pendingLogs, waited, skippedSeqs>>

(* nextSequence has passed s and s predates the cache: nothing happens.    *)
IgnoreOld(s) ==
    /\ s < nextSequence
    /\ s <= initialSequence
    /\ UNCHANGED <<bufferVars, lateVars, skippedSeqs>>

(* processEntry for an entry with sequence s.  isDoc: the entry has a      *)
(* DocID; markedSkipped: the caller has set its Skipped flag.              *)
ProcessEntry(s, isDoc, markedSkipped) ==
    /\ LockFree
    /\ \/ /\ logsDisabled \/ s \in receivedSeqs
          /\ UNCHANGED <<bufferVars, entryVars, lateVars, skippedSeqs>>
       \/ /\ ~logsDisabled /\ s \notin receivedSeqs
          /\ receivedSeqs' = receivedSeqs \cup {s}
          /\ docEntries' = docEntries \cup (IF isDoc THEN {s} ELSE {})
          /\ \/ AddInSequence(s, docEntries')
             \/ Defer(s, docEntries')
             \/ AddLate(s, docEntries', markedSkipped)
             \/ IgnoreOld(s)
    /\ UNCHANGED <<counter, startVars, controlVars, abandoned>>

(* The feed delivers an entry, possibly not for the first time.            *)
FeedEntry(s, isDoc) ==
    /\ s <= counter
    /\ ProcessEntry(s, isDoc, FALSE)
    /\ UNCHANGED cleaner

(* The second half of a late entry: RemoveSkipped, and c.lock is released. *)
FinishLate ==
    /\ ~LockFree
    /\ skippedSeqs' = skippedSeqs \ {lateEntry}
    /\ lateEntry' = 0
    /\ UNCHANGED <<counter, bufferVars, entryVars, lateLogs, controlVars,
                   startVars, cleaner, abandoned>>

----------------------------------------------------------------------------
(* Background tasks                                                        *)

(* A pending entry reaches CachePendingSeqMaxWait.                         *)
ExpirePending(s) ==
    /\ s \in pendingLogs \ waited
    /\ waited' = waited \cup {s}
    /\ UNCHANGED <<counter, nextSequence, pendingLogs, cached, entryVars,
                   lateVars, controlVars, startVars, skippedSeqs,
                   cleaner, abandoned>>

(* The periodic task.  The select of backgroundTask may still choose the   *)
(* timer after Stop has closed the terminator, so stopped is no guard.     *)
InsertPendingEntries ==
    /\ LockFree
    /\ AddPendingLogs(pendingLogs, nextSequence, {}, docEntries)
    /\ UNCHANGED <<counter, entryVars, lateVars, controlVars,
                   startVars, cleaner, abandoned>>

cleanUnchanged == <<counter, bufferVars, entryVars, lateVars, controlVars,
                    startVars>>

(* CleanSkippedSequenceQueue starts: getOlderThan returns the part of the  *)
(* list up to k.                                                           *)
CleanStart(k) ==
    /\ cleaner.pc = "idle"
    /\ k \in skippedSeqs
    /\ LET old == {s \in skippedSeqs : s <= k}
       IN  cleaner' = IF DisableCleanSkippedQuery
                      THEN [CleanerIdle EXCEPT !.pc = "process",
                                               !.removals = old]
                      ELSE [CleanerIdle EXCEPT !.pc = "query", !.todo = old]
    /\ UNCHANGED <<cleanUnchanged, skippedSeqs, abandoned>>

CleanBatch ==
    {s \in cleaner.todo :
        Cardinality({t \in cleaner.todo : t < s}) < SkippedSeqCleanViewBatch}

(* The task's state once the current batch has been dealt with.            *)
NextBatch(found, removals) ==
    LET rest == cleaner.todo \ CleanBatch
    IN  [pc       |-> IF rest = {} THEN "process" ELSE "query",
         todo     |-> rest,
         found    |-> cleaner.found \cup found,
         removals |-> cleaner.removals \cup removals]

(* getChangesForSequences returns the sequences of the batch that are the  *)
(* current sequence of an indexed document.                                *)
CleanQuery(found) ==
    /\ cleaner.pc = "query"
    /\ found \subseteq CleanBatch
    /\ cleaner' = NextBatch(found, CleanBatch \ found)
    /\ UNCHANGED <<cleanUnchanged, skippedSeqs, abandoned>>

(* The query fails: the batch is neither processed nor removed.            *)
CleanQueryError ==
    /\ cleaner.pc = "query"
    /\ cleaner' = NextBatch({}, {})
    /\ UNCHANGED <<cleanUnchanged, skippedSeqs, abandoned>>

(* A found entry whose document is read again, and processed.              *)
CleanProcess(s) ==
    /\ cleaner.pc = "process"
    /\ s \in cleaner.found
    /\ cleaner' = [cleaner EXCEPT !.found = @ \ {s}]
    /\ ProcessEntry(s, TRUE, TRUE)

(* A found entry whose document cannot be read.                            *)
CleanGetDocumentError(s) ==
    /\ cleaner.pc = "process"
    /\ s \in cleaner.found
    /\ cleaner' = [cleaner EXCEPT !.found = @ \ {s}]
    /\ UNCHANGED <<cleanUnchanged, skippedSeqs, abandoned>>

(* RemoveSkippedSequences: give up on what the queries did not find.       *)
CleanFinish ==
    /\ cleaner.pc = "process"
    /\ cleaner.found = {}
    /\ skippedSeqs' = skippedSeqs \ cleaner.removals
    /\ abandoned' = abandoned \cup (skippedSeqs \cap cleaner.removals)
    /\ cleaner' = CleanerIdle
    /\ UNCHANGED cleanUnchanged

----------------------------------------------------------------------------
(* Administration                                                          *)

(* UpdateAllDocChannels (_resync) turns the cache off, clears it and turns *)
(* it on again when the documents have been updated.                       *)
ResyncDisable ==
    /\ LockFree
    /\ resync = "idle" /\ resyncs < MaxResync
    /\ resync' = "disabled" /\ resyncs' = resyncs + 1
    /\ logsDisabled' = TRUE
    /\ UNCHANGED <<counter, bufferVars, entryVars, lateVars, stopped,
                   startVars, skippedSeqs, cleaner, abandoned>>

(* Clear: the channel caches, with their late logs, and the heap are       *)
(* dropped; nextSequence, receivedSeqs and skippedSeqs are not.  When the  *)
(* counter cannot be read, Incr by 0 returns 0 and no error: new caches    *)
(* then claim everything from 1 on.                                        *)
Clear ==
    /\ LockFree
    /\ resync = "disabled"
    /\ resync' = "cleared"
    /\ initialSequence' \in {counter, 0} /\ startedAt' = counter
    /\ validFrom' = initialSequence' + 1
    /\ cached' = {} /\ lateLogs' = {}
    /\ pendingLogs' = {} /\ waited' = {}
    /\ UNCHANGED <<counter, nextSequence, entryVars, lateEntry, logsDisabled,
                   stopped, resyncs, skippedSeqs, cleaner, abandoned>>

(* LastSequence returns an error: its 0 is assigned before Clear returns.  *)
(* A channel that has a cache keeps it, and one whose cache is not created *)
(* yet gets a cache that claims everything from 1 on.                      *)
ClearError ==
    /\ LockFree
    /\ resync = "disabled"
    /\ resync' = "cleared"
    /\ initialSequence' = 0
    /\ \/ UNCHANGED validFrom
       \/ cached = {} /\ lateLogs = {} /\ validFrom' = 1
    /\ UNCHANGED <<counter, bufferVars, entryVars, lateVars, logsDisabled, stopped,
                   resyncs, startedAt, skippedSeqs, cleaner, abandoned>>

(* The deferred EnableChannelIndexing(true), also when Clear failed.       *)
ResyncEnable ==
    /\ LockFree
    /\ resync = "cleared"
    /\ resync' = "idle"
    /\ logsDisabled' = FALSE
    /\ UNCHANGED <<counter, bufferVars, entryVars, lateVars, stopped, resyncs,
                   startVars, skippedSeqs, cleaner, abandoned>>

Stop ==
    /\ LockFree
    /\ ~stopped
    /\ stopped' = TRUE
    /\ logsDisabled' = TRUE
    /\ UNCHANGED <<counter, bufferVars, entryVars, lateVars, resync, resyncs,
                   startVars, skippedSeqs, cleaner, abandoned>>

----------------------------------------------------------------------------
Clean ==
    \/ \E k \in Seqs : CleanStart(k)
    \/ \E found \in SUBSET Seqs : CleanQuery(found)
    \/ CleanQueryError
    \/ \E s \in Seqs : CleanProcess(s) \/ CleanGetDocumentError(s)
    \/ CleanFinish

Next ==
    \/ Allocate
    \/ \E s \in Seqs, isDoc \in BOOLEAN : FeedEntry(s, isDoc)
    \/ FinishLate
    \/ \E s \in Seqs : ExpirePending(s)
    \/ InsertPendingEntries
    \/ Clean
    \/ ResyncDisable \/ Clear \/ ClearError \/ ResyncEnable
    \/ Stop

Spec == Init /\ [][Next]_vars
----------------------------------------------------------------------------
(* Fairness: while the database is open both background tasks keep         *)
(* running, the clock advances, goroutines that hold or wait for c.lock    *)
(* proceed, and queries and document reads do not fail for ever.           *)
Fairness ==
    /\ WF_vars(FinishLate)
    /\ WF_vars(\E s \in Seqs : ExpirePending(s))
    /\ WF_vars(InsertPendingEntries)
    /\ WF_vars(\E s \in Seqs : CleanStart(s) /\ \A t \in skippedSeqs : t <= s)
    /\ SF_vars(\E found \in SUBSET Seqs : CleanQuery(found))
    /\ SF_vars(\E s \in Seqs : CleanProcess(s))
    /\ WF_vars(CleanFinish)

----------------------------------------------------------------------------
(* Properties                                                              *)

(* A client that was sent everything below the oldest skipped sequence (up *)
(* to the low sequence of the changes feed) has missed nothing: each such  *)
(* sequence since the cache was started or cleared was received, and is in *)
(* the cache if it belongs to a document, or was given up by               *)
(* CleanSkippedSequenceQueue.  This is why processEntry adds a late entry  *)
(* to the cache before it calls RemoveSkipped.  (A cache that is created   *)
(* after a failed Clear claims earlier sequences too and may lack them.)   *)
LowSequenceSafe ==
    \A s \in (startedAt + 1)..(nextSequence - 1) :
        (\A t \in skippedSeqs : s < t) =>
            \/ s \in abandoned
            \/ s \in receivedSeqs /\ (s \in docEntries => s \in cached)

(* nextSequence never passes a sequence silently: everything below it was  *)
(* received, is listed in skippedSeqs, or was given up.  It fails if       *)
(* _addPendingLogs or Push drops a sequence, or Clear moves nextSequence.  *)
Accounted ==
    \A s \in (StartSeq + 1)..(nextSequence - 1) :
        s \in receivedSeqs \cup skippedSeqs \cup abandoned

(* Buffering keeps no entry it could release, and stays within its limit:  *)
(* between critical sections the heap holds only entries above             *)
(* nextSequence, and at most CachePendingSeqMaxNum of them.                *)
PendingBlocked ==
    /\ \A p \in pendingLogs : p > nextSequence
    /\ Cardinality(pendingLogs) <= CachePendingSeqMaxNum

(* A sequence is skipped only while it is missing: the list never holds a  *)
(* sequence that was received, except the one whose late entry is being    *)
(* added.  (Until the first _resync: Clear forgets received entries that   *)
(* were waiting in the heap, and their sequences are skipped later on.)    *)
SkippedMissing ==
    resyncs = 0 => skippedSeqs \cap receivedSeqs \subseteq {lateEntry}

(* A document entry that is added behind nextSequence is also put in the   *)
(* late logs, where running continuous feeds look for it, unless the       *)
(* skipped queue had already given the sequence up, or it is from before   *)
(* the cache was started, which only a failed Clear lets in.               *)
LateIsAnnounced ==
    [][\A s \in cached' \ cached :
            s < nextSequence => s \in lateLogs' \cup abandoned \cup 1..startedAt]_vars

(* What a lost sequence delays is delivered in the end: the heap is empty  *)
(* again and again while the cache is running.                             *)
PendingDrains == []<>(pendingLogs = {} \/ stopped)

(* Skipped sequences do not hold the low sequence back for ever: they are  *)
(* found, arrive, or are given up.  (Until the first _resync: processEntry *)
(* ignores a found sequence that is not above the new initialSequence.)    *)
SkippedDrains == []<>(skippedSeqs = {} \/ stopped \/ resyncs > 0)

=============================================================================
