--------------------------- MODULE PipelineProofs ---------------------------
(***************************************************************************)
(* Proofs about sequence buffering, for every counter bound, start         *)
(* sequence, heap limit, query batch size and number of resyncs, and about *)
(* the way of a sequence from the counter to the change cache, for any     *)
(* number of writers and documents, any reservations and prunings, and any *)
(* number of crashes and unanswered writes.                                *)
(***************************************************************************)
EXTENDS SequencePipeline, FiniteSetTheorems, SequenceTheorems,
        WellFoundedInduction, TLAPS

----------------------------------------------------------------------------
(* Sequence buffering.                                                     *)

(* What the sequences in each part of the state are bounded by.            *)
Bounds ==
    /\ StartSeq <= startedAt /\ startedAt <= counter
    /\ initialSequence \in {0, startedAt} /\ validFrom <= startedAt + 1
    /\ nextSequence <= counter + 1
    /\ \A s \in receivedSeqs : s <= counter
    /\ \A s \in skippedSeqs : s < nextSequence
    /\ \A s \in cleaner.todo \cup cleaner.found : s < nextSequence
    /\ pendingLogs \subseteq receivedSeqs
    /\ lateEntry # 0 => lateEntry \in receivedSeqs

(* Every document entry the buffering has released since the cache was     *)
(* started or cleared is in the cache.                                     *)
CacheComplete ==
    \A s \in docEntries :
        startedAt < s /\ s < nextSequence => s \in cached

(* A received entry is not forgotten before it is released, except by      *)
(* Clear, and then it is covered by startedAt.                             *)
Buffered ==
    \A s \in receivedSeqs :
        s < nextSequence \/ s \in pendingLogs \/ s <= startedAt

(* The inductive invariant: LowSequenceSafe follows from Accounted and     *)
(* CacheComplete; CacheComplete is preserved because what nextSequence     *)
(* passes is in the heap (Buffered), above nextSequence (PendingBlocked).  *)
IndInv ==
    /\ TypeOK
    /\ Bounds
    /\ Accounted
    /\ CacheComplete
    /\ Buffered
    /\ PendingBlocked

----------------------------------------------------------------------------
(* Sets of sequences are finite, so that their sizes can be compared.      *)
LEMMA SeqsFinite ==
    ASSUME NEW S \in SUBSET Seqs
    PROVE  IsFiniteSet(S) /\ Cardinality(S) \in Nat
<1>1. IsFiniteSet(Seqs)
    BY FS_Interval, ChangeCacheAssumption DEF Seqs
<1>2. IsFiniteSet(S)
    BY <1>1, FS_Subset
<1> QED
    BY <1>2, FS_CardinalityType

(* The variables of the invariant that no entry changes.                   *)
Steady == UNCHANGED <<counter, initialSequence, validFrom, startedAt, logsDisabled,
                      stopped, resync, resyncs, abandoned>>

(* The cleaning task only moves on to sequences it already knew.           *)
CleanerShrinks ==
    /\ cleaner' \in [pc : {"idle", "query", "process"}, todo : SUBSET Seqs,
                     found : SUBSET Seqs, removals : SUBSET Seqs]
    /\ cleaner'.todo \cup cleaner'.found \subseteq cleaner.todo \cup cleaner.found

(* A run of _addPendingLogs preserves the invariant when the sequences     *)
(* from nextSequence to n were received and added just before it.          *)
LEMMA AddPendingLogsStep ==
    ASSUME IndInv, Steady, CleanerShrinks, UNCHANGED <<lateLogs, lateEntry>>,
           NEW P \in SUBSET Seqs, NEW n \in 1..(MaxSeq + 1), NEW added,
           AddPendingLogs(P, n, added, docEntries'),
           nextSequence <= n, n <= counter + 1,
           receivedSeqs' \in SUBSET Seqs, receivedSeqs \subseteq receivedSeqs',
           docEntries' \subseteq receivedSeqs', waited \subseteq P,
           P \subseteq receivedSeqs',
           \A s \in receivedSeqs' : s <= counter,
           \A s \in receivedSeqs' : s < n \/ s \in P \/ s <= startedAt,
           \A s \in nextSequence..(n - 1) : s \in receivedSeqs' /\ s \in added,
           \A s \in docEntries' : s < nextSequence => s \in docEntries
    PROVE  IndInv'
<1>0. \A s \in skippedSeqs : s < n
    BY ChangeCacheAssumption DEF IndInv, Bounds, TypeOK, Seqs
<1>1. PICK m \in {n} \cup {p + 1 : p \in P} :
          /\ m >= n
          /\ Blocked(P, m)
          /\ nextSequence' = m
          /\ pendingLogs' = {p \in P : p >= m}
          /\ waited' = {p \in waited : p >= m}
          /\ skippedSeqs' = PushSkipped({x \in n..(m - 1) : x \notin P})
          /\ cached' = AddToCache(added \cup {p \in P : p < m}, docEntries')
    BY DEF AddPendingLogs
<1>a. m \in n..(MaxSeq + 1) /\ (m = n \/ \E p \in P : m = p + 1)
    <2>1. m = n \/ \E p \in P : m = p + 1
        BY <1>1
    <2>2. m >= n
        BY <1>1
    <2>3. n \in Nat /\ n <= MaxSeq + 1 /\ P \subseteq 1..MaxSeq
        BY ChangeCacheAssumption DEF Seqs
    <2> QED
        BY <2>1, <2>2, <2>3, ChangeCacheAssumption
<1>b. \A p \in pendingLogs' : p > m
    BY <1>1, <1>a, ChangeCacheAssumption DEF Blocked, Seqs
<1>c. Cardinality(pendingLogs') <= CachePendingSeqMaxNum
    <2>1. CASE pendingLogs' = {}
        BY <2>1, FS_EmptySet, ChangeCacheAssumption
    <2>2. CASE pendingLogs' # {}
        BY <1>1, <2>2 DEF Blocked
    <2> QED
        BY <2>1, <2>2
<1>d. skippedSeqs' = skippedSeqs \cup {x \in n..(m - 1) : x \notin P}
    BY <1>0, <1>1, <1>a, ChangeCacheAssumption DEF PushSkipped, IndInv, TypeOK, Seqs
<1>e. \A x \in Seqs : x \in cached \/ (/\ x \in docEntries'
                                       /\ x > startedAt
                                       /\ x \in added \/ (x \in P /\ x < m))
                    => x \in cached'
    BY <1>1, ChangeCacheAssumption DEF AddToCache, IndInv, Bounds, TypeOK, Seqs
<1>2. TypeOK'
    <2>1. cached' \subseteq Seqs
        BY <1>1 DEF AddToCache, IndInv, TypeOK
    <2>2. skippedSeqs' \subseteq Seqs
        <3>1. skippedSeqs \subseteq Seqs
            BY DEF IndInv, TypeOK
        <3>2. n..(m - 1) \subseteq Seqs
            BY <1>a, ChangeCacheAssumption DEF Seqs
        <3> QED
            BY <1>d, <3>1, <3>2
    <2>3. nextSequence' \in 1..(MaxSeq + 1)
        BY <1>1, <1>a, <1>d, ChangeCacheAssumption
    <2>4. pendingLogs' \subseteq Seqs /\ waited' \subseteq pendingLogs'
        BY <1>1
    <2> QED
        BY <2>1, <2>2, <2>3, <2>4 DEF IndInv, TypeOK, Steady, CleanerShrinks
<1>3. Bounds'
    <2>1. nextSequence' <= counter + 1
        BY <1>1, <1>a, <1>d, ChangeCacheAssumption DEF IndInv, TypeOK, Seqs
    <2>2. \A s \in skippedSeqs' : s < nextSequence'
        BY <1>0, <1>1, <1>a, <1>d, ChangeCacheAssumption DEF IndInv, TypeOK, Seqs
    <2>3. \A s \in cleaner'.todo \cup cleaner'.found : s < nextSequence'
        BY <1>1, <1>a, <1>d, ChangeCacheAssumption
           DEF IndInv, TypeOK, Bounds, CleanerShrinks, Seqs
    <2>4. pendingLogs' \subseteq receivedSeqs'
        BY <1>1
    <2> QED
        BY <2>1, <2>2, <2>3, <2>4 DEF IndInv, Bounds, Steady
<1>4. Accounted'
    <2> SUFFICES ASSUME NEW s \in (StartSeq + 1)..(nextSequence' - 1)
                 PROVE  s \in receivedSeqs' \cup skippedSeqs' \cup abandoned'
        BY DEF Accounted
    <2>1. CASE s < nextSequence
        BY <2>1, <1>1, <1>a, <1>d, <1>e, ChangeCacheAssumption
           DEF IndInv, Accounted, TypeOK, Steady
    <2>2. CASE s >= nextSequence /\ s < n
        BY <2>2, ChangeCacheAssumption DEF IndInv, TypeOK
    <2>3. CASE s >= n
        BY <2>3, <1>1, <1>a, <1>d, <1>e, ChangeCacheAssumption
    <2> QED
        BY <2>1, <2>2, <2>3, <1>1, <1>a, <1>d, <1>e, ChangeCacheAssumption DEF IndInv, TypeOK
<1>5. CacheComplete'
    <2> SUFFICES ASSUME NEW s \in docEntries',
                        startedAt < s, s < nextSequence'
                 PROVE  s \in cached'
        BY DEF CacheComplete, Steady
    <2>0. s \in Seqs /\ s \in receivedSeqs'
        OBVIOUS
    <2>1. CASE s < nextSequence
        BY <2>0, <2>1, <1>e DEF IndInv, CacheComplete
    <2>2. CASE s >= nextSequence /\ s < n
        BY <2>0, <2>2, <1>1, <1>a, <1>d, <1>e, ChangeCacheAssumption
           DEF IndInv, TypeOK, Seqs
    <2>3. CASE s >= n
        BY <2>0, <2>3, <1>1, <1>a, <1>d, <1>e, ChangeCacheAssumption
           DEF IndInv, TypeOK, Seqs
    <2> QED
        BY <2>0, <2>1, <2>2, <2>3, ChangeCacheAssumption
           DEF IndInv, TypeOK, Seqs
<1>6. Buffered'
    BY <1>1, <1>a, <1>d, ChangeCacheAssumption DEF Buffered, Steady, IndInv, TypeOK, Seqs
<1> QED
    BY <1>1, <1>b, <1>c, <1>2, <1>3, <1>4, <1>5, <1>6 DEF IndInv, PendingBlocked

(* processEntry preserves the invariant, for a feed entry and for an entry *)
(* found by the skipped sequence query alike.                              *)
LEMMA ProcessEntryStep ==
    ASSUME IndInv, CleanerShrinks,
           NEW s \in Seqs, s <= counter,
           NEW isDoc \in BOOLEAN, NEW markedSkipped \in BOOLEAN,
           ProcessEntry(s, isDoc, markedSkipped)
    PROVE  IndInv'
<1>0. Steady /\ s \in Nat /\ s > 0
    BY ChangeCacheAssumption DEF ProcessEntry, Steady, controlVars, startVars, Seqs
<1>1. CASE UNCHANGED <<bufferVars, entryVars, lateVars, skippedSeqs>>
    BY <1>0, <1>1
       DEF IndInv, TypeOK, Bounds, Accounted, CacheComplete, Buffered,
           PendingBlocked, CleanerShrinks, Steady, bufferVars, entryVars,
           lateVars
<1>2. CASE /\ ~logsDisabled /\ s \notin receivedSeqs
           /\ receivedSeqs' = receivedSeqs \cup {s}
           /\ docEntries' = docEntries \cup (IF isDoc THEN {s} ELSE {})
           /\ \/ AddInSequence(s, docEntries')
              \/ Defer(s, docEntries')
              \/ AddLate(s, docEntries', markedSkipped)
              \/ IgnoreOld(s)
    <2>0. /\ receivedSeqs' \in SUBSET Seqs /\ receivedSeqs \subseteq receivedSeqs'
          /\ docEntries' \subseteq receivedSeqs'
          /\ s \in receivedSeqs'
          /\ docEntries' = docEntries \/ docEntries' = docEntries \cup {s}
          /\ \A r \in receivedSeqs' : r <= counter
          /\ nextSequence \in 1..(MaxSeq + 1) /\ nextSequence <= counter + 1
          /\ counter \in 0..MaxSeq /\ startedAt \in 0..MaxSeq
          /\ validFrom \in 1..(MaxSeq + 1) /\ validFrom <= startedAt + 1
          /\ initialSequence \in {0, startedAt}
          /\ pendingLogs \subseteq receivedSeqs /\ waited \subseteq pendingLogs
        BY <1>2 DEF IndInv, TypeOK, Bounds
    <2>1. CASE AddInSequence(s, docEntries')
        <3>1. s = nextSequence /\ UNCHANGED <<lateLogs, lateEntry>>
              /\ AddPendingLogs(pendingLogs, s + 1, {s}, docEntries')
            BY <2>1 DEF AddInSequence, lateVars
        <3>2. s + 1 \in 1..(MaxSeq + 1) /\ nextSequence <= s + 1
              /\ s + 1 <= counter + 1
            BY <2>0, <3>1, <1>0, ChangeCacheAssumption DEF Seqs
        <3>3. \A r \in receivedSeqs' :
                    r < s + 1 \/ r \in pendingLogs \/ r <= startedAt
            BY <1>2, <2>0, <3>1, <1>0, ChangeCacheAssumption
               DEF IndInv, Buffered, Seqs
        <3>4. \A r \in nextSequence..((s + 1) - 1) : r \in receivedSeqs' /\ r \in {s}
            BY <2>0, <3>1, <1>0
        <3>5. \A r \in docEntries' : r < nextSequence => r \in docEntries
            BY <2>0, <3>1, <1>0
        <3>6. pendingLogs \in SUBSET Seqs /\ pendingLogs \subseteq receivedSeqs'
            BY <2>0
        <3> QED
            BY <1>0, <2>0, <3>1, <3>2, <3>3, <3>4, <3>5, <3>6, AddPendingLogsStep
    <2>2. CASE Defer(s, docEntries')
        <3> DEFINE P == pendingLogs \cup {s}
        <3>0. s > nextSequence /\ UNCHANGED <<lateLogs, lateEntry>>
              /\ P \in SUBSET Seqs /\ P \subseteq receivedSeqs'
            BY <2>0, <2>2 DEF Defer, lateVars
        <3>1. \A r \in receivedSeqs' :
                    r < nextSequence \/ r \in P \/ r <= startedAt
            BY <1>2, <2>0 DEF IndInv, Buffered
        <3>2. \A r \in docEntries' : r < nextSequence => r \in docEntries
            BY <2>0, <3>0, <1>0, ChangeCacheAssumption
        <3>3. CASE Cardinality(P) > CachePendingSeqMaxNum
            <4>1. AddPendingLogs(P, nextSequence, {}, docEntries')
                BY <2>2, <3>3 DEF Defer
            <4>2. \A r \in nextSequence..(nextSequence - 1) :
                        r \in receivedSeqs' /\ r \in {}
                BY <2>0
            <4>3. waited \subseteq P /\ nextSequence <= nextSequence
                BY <2>0
            <4> HIDE DEF P
            <4> QED
                BY <1>0, <2>0, <3>0, <3>1, <3>2, <4>1, <4>2, <4>3,
                   AddPendingLogsStep
        <3>4. CASE ~(Cardinality(P) > CachePendingSeqMaxNum)
            <4>1. /\ pendingLogs' = P
                  /\ UNCHANGED <<nextSequence, waited, skippedSeqs, cached>>
                BY <2>2, <3>4 DEF Defer
            <4>2. Cardinality(P) <= CachePendingSeqMaxNum
                BY <3>0, <3>4, SeqsFinite, ChangeCacheAssumption
            <4>3. \A p \in P : p > nextSequence
                BY <3>0 DEF IndInv, PendingBlocked
            <4>4. TypeOK'
                BY <1>0, <2>0, <3>0, <4>1
                   DEF IndInv, TypeOK, Steady, CleanerShrinks
            <4>5. Bounds'
                BY <1>0, <2>0, <3>0, <4>1 DEF IndInv, Bounds, Steady, CleanerShrinks
            <4>6. Accounted'
                BY <1>0, <2>0, <4>1 DEF IndInv, Accounted, Steady
            <4>7. CacheComplete'
                BY <1>0, <2>0, <3>2, <4>1 DEF IndInv, CacheComplete, Steady
            <4>8. Buffered'
                BY <1>0, <3>1, <4>1 DEF Buffered, Steady
            <4> QED
                BY <4>1, <4>2, <4>3, <4>4, <4>5, <4>6, <4>7, <4>8
                   DEF IndInv, PendingBlocked
        <3> QED
            BY <3>3, <3>4
    <2>3. CASE AddLate(s, docEntries', markedSkipped) \/ IgnoreOld(s)
        <3>1. /\ s < nextSequence
              /\ UNCHANGED <<nextSequence, pendingLogs, waited, skippedSeqs>>
              /\ lateLogs' \subseteq Seqs /\ lateEntry' \in 0..MaxSeq
              /\ lateEntry' = s \/ lateEntry' = lateEntry
            <4>0. lateLogs \subseteq Seqs /\ lateEntry \in 0..MaxSeq
                BY DEF IndInv, TypeOK
            <4>1. CASE AddLate(s, docEntries', markedSkipped)
                <5>1. lateLogs' = lateLogs \/ lateLogs' = lateLogs \cup {s}
                    BY <4>1 DEF AddLate
                <5> QED
                    BY <4>0, <4>1, <5>1, ChangeCacheAssumption
                       DEF AddLate, Seqs
            <4>2. CASE IgnoreOld(s)
                BY <4>0, <4>2 DEF IgnoreOld, bufferVars, lateVars
            <4> QED
                BY <2>3, <4>1, <4>2
        <3>2. cached' \subseteq Seqs /\ cached \subseteq cached'
            BY <2>3, <2>0
               DEF AddLate, IgnoreOld, bufferVars, AddToCache, IndInv, TypeOK
        <3>3. s \in docEntries' /\ s > startedAt => s \in cached'
            BY <2>3, <2>0, <1>0, ChangeCacheAssumption
               DEF AddLate, IgnoreOld, AddToCache
        <3>4. TypeOK'
            BY <1>0, <2>0, <3>1, <3>2 DEF IndInv, TypeOK, Steady, CleanerShrinks
        <3>5. Bounds'
            BY <1>0, <2>0, <3>1 DEF IndInv, Bounds, Steady, CleanerShrinks
        <3>6. Accounted'
            BY <1>0, <2>0, <3>1 DEF IndInv, Accounted, Steady
        <3>7. CacheComplete'
            BY <1>0, <2>0, <3>1, <3>2, <3>3 DEF IndInv, CacheComplete, Steady
        <3>8. Buffered'
            BY <1>0, <1>2, <3>1 DEF IndInv, Buffered, Steady
        <3> QED
            BY <3>1, <3>4, <3>5, <3>6, <3>7, <3>8 DEF IndInv, PendingBlocked
    <2> QED
        BY <1>2, <2>1, <2>2, <2>3
<1> QED
    BY <1>1, <1>2 DEF ProcessEntry

(* What is bounded by the counter is bounded by a higher counter.          *)
LEMMA AtMost ==
    ASSUME NEW i \in Nat, NEW n \in Nat, NEW c \in Nat, NEW d \in Nat,
           i <= c, n <= c + 1, c <= d
    PROVE  i <= d /\ n <= d + 1
    OBVIOUS

(* The actions that leave sequence buffering alone.                        *)
LEMMA OtherStep ==
    ASSUME IndInv,
           \/ Allocate \/ FinishLate \/ \E s \in Seqs : ExpirePending(s)
           \/ \E k \in Seqs : CleanStart(k)
           \/ \E found \in SUBSET Seqs : CleanQuery(found)
           \/ CleanQueryError \/ \E s \in Seqs : CleanGetDocumentError(s)
           \/ CleanFinish \/ ResyncDisable \/ Clear \/ ClearError \/ ResyncEnable
           \/ Stop \/ UNCHANGED vars
    PROVE  IndInv'
<1> USE ChangeCacheAssumption
    DEF IndInv, Bounds, Accounted, CacheComplete, Buffered, PendingBlocked, startVars
<1>1. CASE Allocate
    <2>1. counter' \in 0..MaxSeq /\ counter <= counter'
        BY <1>1 DEF Allocate, TypeOK
    <2>2. /\ counter \in Nat /\ startedAt \in Nat /\ nextSequence \in Nat
          /\ startedAt <= counter /\ nextSequence <= counter + 1
          /\ \A s \in receivedSeqs : s \in Nat /\ s <= counter
        BY DEF TypeOK, Seqs
    <2>3. UNCHANGED <<bufferVars, entryVars, lateVars, controlVars,
                      startVars, skippedSeqs, cleaner, abandoned>>
        BY <1>1 DEF Allocate
    <2>4. TypeOK'
        BY <2>1, <2>3 DEF TypeOK, bufferVars, entryVars, lateVars, controlVars
    <2>5. Bounds'
        <3>1. counter' \in Nat /\ counter <= counter'
            BY <2>1
        <3>2. startedAt <= counter' /\ nextSequence <= counter' + 1
            BY ONLY <2>2, <3>1, AtMost
        <3>3. \A s \in receivedSeqs : s <= counter'
            BY ONLY <2>2, <3>1
        <3> QED
            BY <2>3, <3>2, <3>3 DEF bufferVars, entryVars, lateVars
    <2> QED
        BY <2>3, <2>4, <2>5 DEF bufferVars, entryVars, lateVars
<1>2. CASE FinishLate
    <2>0. /\ UNCHANGED <<counter, bufferVars, entryVars, lateLogs, controlVars,
                         startVars, cleaner, abandoned>>
          /\ skippedSeqs' = skippedSeqs \ {lateEntry} /\ lateEntry' = 0
          /\ lateEntry # 0
        BY <1>2 DEF FinishLate, LockFree
    <2>1. TypeOK'
        BY <2>0 DEF TypeOK, bufferVars, entryVars, controlVars
    <2>2. Accounted'
        <3>1. lateEntry \in receivedSeqs
            BY <2>0
        <3> QED
            BY <2>0, <3>1 DEF TypeOK, bufferVars, entryVars
    <2> QED
        BY <2>0, <2>1, <2>2 DEF bufferVars, entryVars, controlVars
<1>3. ASSUME NEW s \in Seqs, ExpirePending(s) PROVE IndInv'
    BY SMTT(30), <1>3 DEF ExpirePending, TypeOK, entryVars, lateVars, controlVars
<1>4. ASSUME NEW k \in Seqs, CleanStart(k) PROVE IndInv'
    <2> DEFINE old == {s \in skippedSeqs : s <= k}
    <2>1. old \in SUBSET Seqs /\ old \subseteq skippedSeqs
        BY DEF TypeOK
    <2>2. /\ cleaner' \in [pc : {"idle", "query", "process"}, todo : SUBSET Seqs,
                           found : SUBSET Seqs, removals : SUBSET Seqs]
          /\ cleaner'.todo \cup cleaner'.found \subseteq skippedSeqs
        BY ZenonT(30), <1>4, <2>1 DEF CleanStart, CleanerIdle
    <2> QED
        BY ZenonT(30), <1>4, <2>2 DEF CleanStart, cleanUnchanged, TypeOK, bufferVars,
                          entryVars, lateVars, controlVars
<1>5. ASSUME NEW found \in SUBSET Seqs,
             CleanQuery(found) \/ CleanQueryError
      PROVE  IndInv'
    <2>1. CleanBatch \subseteq cleaner.todo
        BY DEF CleanBatch
    <2>2. CleanerShrinks
        BY <1>5, <2>1
           DEF CleanQuery, CleanQueryError, NextBatch, CleanerShrinks, TypeOK
    <2> QED
        BY <1>5, <2>2 DEF CleanQuery, CleanQueryError, CleanerShrinks,
                          cleanUnchanged, TypeOK, bufferVars, entryVars,
                          lateVars, controlVars
<1>6. ASSUME NEW s \in Seqs, CleanGetDocumentError(s) PROVE IndInv'
    BY <1>6 DEF CleanGetDocumentError, cleanUnchanged, TypeOK, bufferVars,
                entryVars, lateVars, controlVars
<1>7. CASE CleanFinish
    BY <1>7 DEF CleanFinish, CleanerIdle, cleanUnchanged, TypeOK, bufferVars,
                entryVars, lateVars, controlVars
<1>8. CASE ResyncDisable
    BY <1>8 DEF ResyncDisable, TypeOK, bufferVars, entryVars, lateVars
<1>9. CASE Clear
    <2>1. Cardinality({}) = 0
        BY FS_EmptySet
    <2>0. /\ initialSequence' = counter \/ initialSequence' = 0
          /\ startedAt' = counter /\ validFrom' = initialSequence' + 1
          /\ cached' = {} /\ lateLogs' = {} /\ pendingLogs' = {} /\ waited' = {}
          /\ resync' = "cleared"
          /\ UNCHANGED <<counter, nextSequence, entryVars, lateEntry, logsDisabled,
                         stopped, resyncs, skippedSeqs, cleaner, abandoned>>
        BY <1>9 DEF Clear
    <2>2. /\ initialSequence' \in 0..MaxSeq /\ startedAt' \in 0..MaxSeq
          /\ validFrom' \in 1..(MaxSeq + 1)
        BY <2>0, ChangeCacheAssumption DEF TypeOK
    <2>3. TypeOK'
        BY <2>0, <2>2 DEF TypeOK, entryVars
    <2>4. Bounds'
        BY <2>0, ChangeCacheAssumption DEF entryVars, TypeOK, Seqs
    <2>5. Accounted' /\ PendingBlocked'
        BY <2>0, <2>1 DEF entryVars, TypeOK, Seqs
    <2>6. CacheComplete' /\ Buffered'
        BY <2>0 DEF entryVars, TypeOK, Seqs
    <2> QED
        BY <2>3, <2>4, <2>5, <2>6
<1>13. CASE ClearError
    <2>1. /\ UNCHANGED <<counter, bufferVars, entryVars, lateVars, logsDisabled, stopped,
                         resyncs, startedAt, skippedSeqs, cleaner, abandoned>>
          /\ initialSequence' = 0 /\ resync' = "cleared"
          /\ validFrom' = validFrom \/ validFrom' = 1
        BY <1>13 DEF ClearError
    <2>2. validFrom' \in 1..(MaxSeq + 1) /\ validFrom' <= startedAt + 1 /\ 0 \in 0..MaxSeq
        BY <2>1 DEF TypeOK
    <2> QED
        BY <2>1, <2>2 DEF TypeOK, bufferVars, entryVars, lateVars
<1>10. CASE ResyncEnable
    BY <1>10 DEF ResyncEnable, TypeOK, bufferVars, entryVars, lateVars
<1>11. CASE Stop
    BY <1>11 DEF Stop, TypeOK, bufferVars, entryVars, lateVars
<1>12. CASE UNCHANGED vars
    BY <1>12 DEF vars, TypeOK
<1> QED
    BY <1>1, <1>2, <1>3, <1>4, <1>5, <1>6, <1>7, <1>8, <1>9, <1>10, <1>11, <1>12, <1>13

(* Every step of the cache, its background tasks and its administration    *)
(* keeps IndInv.                                                           *)
LEMMA CacheStep == IndInv /\ [Next]_vars => IndInv'
<1> SUFFICES ASSUME IndInv, [Next]_vars PROVE IndInv'
    OBVIOUS
<1>0. CASE cleaner' = cleaner /\ \E s \in Seqs, isDoc \in BOOLEAN :
              s <= counter /\ ProcessEntry(s, isDoc, FALSE)
    <2>1. CleanerShrinks
        BY <1>0 DEF CleanerShrinks, IndInv, TypeOK
    <2> QED
        BY <1>0, <2>1, ProcessEntryStep
<1>1. CASE \E s \in Seqs, isDoc \in BOOLEAN : FeedEntry(s, isDoc)
    BY <1>0, <1>1 DEF FeedEntry
<1>2. CASE InsertPendingEntries
    <2>1. CleanerShrinks /\ Steady /\ UNCHANGED <<lateLogs, lateEntry>>
          /\ UNCHANGED <<receivedSeqs, docEntries>>
        BY <1>2 DEF InsertPendingEntries, CleanerShrinks, Steady, IndInv,
                    TypeOK, lateVars, entryVars, controlVars, startVars
    <2>2. AddPendingLogs(pendingLogs, nextSequence, {}, docEntries')
        BY <1>2, <2>1 DEF InsertPendingEntries
    <2>3. /\ pendingLogs \in SUBSET Seqs
          /\ nextSequence \in 1..(MaxSeq + 1) /\ nextSequence <= nextSequence
          /\ nextSequence <= counter + 1
          /\ receivedSeqs' \in SUBSET Seqs /\ receivedSeqs \subseteq receivedSeqs'
          /\ docEntries' \subseteq receivedSeqs' /\ waited \subseteq pendingLogs
          /\ pendingLogs \subseteq receivedSeqs'
          /\ \A s \in receivedSeqs' : s <= counter
          /\ \A s \in receivedSeqs' : s < nextSequence \/ s \in pendingLogs
                                        \/ s <= startedAt
          /\ \A s \in docEntries' : s < nextSequence => s \in docEntries
        BY <2>1, ChangeCacheAssumption DEF IndInv, TypeOK, Bounds, Buffered
    <2>4. \A s \in nextSequence..(nextSequence - 1) :
                s \in receivedSeqs' /\ s \in {}
        BY <2>3
    <2> QED
        BY <2>1, <2>2, <2>3, <2>4, AddPendingLogsStep
<1>3. ASSUME NEW s \in Seqs, CleanProcess(s) PROVE IndInv'
    <2>1. CleanerShrinks
        BY <1>3 DEF CleanProcess, CleanerShrinks, IndInv, TypeOK
    <2>2. s <= counter
        BY <1>3, ChangeCacheAssumption
           DEF CleanProcess, IndInv, Bounds, TypeOK, Seqs
    <2> QED
        BY <1>3, <2>1, <2>2, ProcessEntryStep DEF CleanProcess
<1> QED
    BY <1>1, <1>2, <1>3, OtherStep DEF Next, Clean

(* The cache as Init and Start leave it.                                   *)
LEMMA CacheStart == Init => IndInv
<1> SUFFICES ASSUME Init PROVE IndInv
    OBVIOUS
<1>1. Cardinality({}) = 0
    BY FS_EmptySet
<1>2. TypeOK
    <2>1. StartSeq \in 0..MaxSeq /\ StartSeq + 1 \in 1..(MaxSeq + 1)
          /\ 0 \in 0..MaxSeq /\ 0 \in 0..MaxResync
        BY ChangeCacheAssumption
    <2>2. CleanerIdle \in [pc : {"idle", "query", "process"},
                           todo : SUBSET Seqs, found : SUBSET Seqs,
                           removals : SUBSET Seqs]
        BY DEF CleanerIdle
    <2> QED
        BY <2>1, <2>2 DEF Init, TypeOK
<1>3. Accounted
    BY ChangeCacheAssumption DEF Init, Accounted
<1>4. Bounds /\ CacheComplete /\ Buffered /\ PendingBlocked
    BY <1>1, ChangeCacheAssumption
       DEF Init, Bounds, CacheComplete, Buffered, PendingBlocked,
           CleanerIdle
<1> QED
    BY <1>2, <1>3, <1>4 DEF IndInv

(* IndInv is inductive.                                                    *)
THEOREM Inductive == Spec => []IndInv
BY CacheStart, CacheStep, PTL DEF Spec

----------------------------------------------------------------------------
(* The state of the cache is always well formed.                           *)
THEOREM TypeCorrect == Spec => []TypeOK
BY Inductive, PTL DEF IndInv

(* nextSequence never passes a sequence silently: whatever the feed        *)
(* delivers, late, twice or never, everything below nextSequence was       *)
(* received, is listed as skipped or was given up.                         *)
THEOREM SequencesAccounted == Spec => []Accounted
BY Inductive, PTL DEF IndInv

(* The heap never keeps an entry that could be released and never exceeds  *)
(* CachePendingSeqMaxNum between two critical sections.                    *)
THEOREM HeapBlocked == Spec => []PendingBlocked
BY Inductive, PTL DEF IndInv

(* A client may resume from the oldest skipped sequence: no received       *)
(* document below it is missing from the cache.                            *)
THEOREM LowSequenceIsSafe == Spec => []LowSequenceSafe
<1>1. IndInv => LowSequenceSafe
    <2> SUFFICES ASSUME IndInv,
                        NEW s \in (startedAt + 1)..(nextSequence - 1),
                        \A t \in skippedSeqs : s < t,
                        s \notin abandoned
                 PROVE  s \in receivedSeqs /\ (s \in docEntries => s \in cached)
        BY DEF LowSequenceSafe
    <2>0. /\ startedAt \in Nat /\ nextSequence \in Nat
          /\ StartSeq \in Nat /\ StartSeq <= startedAt
        BY ChangeCacheAssumption DEF IndInv, TypeOK, Bounds
    <2>1. s \notin skippedSeqs
        BY <2>0
    <2>2. s \in (StartSeq + 1)..(nextSequence - 1)
        BY <2>0
    <2>3. s \in receivedSeqs
        BY <2>1, <2>2 DEF IndInv, Accounted
    <2>4. startedAt < s /\ s < nextSequence
        BY <2>0
    <2> QED
        BY <2>3, <2>4 DEF IndInv, CacheComplete
<1> QED
    BY <1>1, Inductive, PTL

----------------------------------------------------------------------------
(* What _addPendingLogs may list as skipped.                               *)
LEMMA AddPendingLogsSkips ==
    ASSUME NEW P \in SUBSET Seqs, NEW n \in Nat, NEW added, NEW docs,
           AddPendingLogs(P, n, added, docs), skippedSeqs \subseteq Nat
    PROVE  /\ nextSequence' \in Nat /\ nextSequence' >= n
           /\ skippedSeqs' \subseteq Nat /\ skippedSeqs \subseteq skippedSeqs'
           /\ \A x \in skippedSeqs' : x \in skippedSeqs \/ (x >= n /\ x \notin P)
<1>1. PICK m \in {n} \cup {p + 1 : p \in P} :
          /\ m >= n /\ nextSequence' = m
          /\ skippedSeqs' = PushSkipped({x \in n..(m - 1) : x \notin P})
    BY DEF AddPendingLogs
<1>2. m \in Nat
    <2>1. P \subseteq Nat
        BY ChangeCacheAssumption DEF Seqs
    <2> QED
        BY <1>1, <2>1
<1>3. skippedSeqs' = skippedSeqs \cup
          {x \in {x \in n..(m - 1) : x \notin P} : \A s \in skippedSeqs : s < x}
    BY <1>1 DEF PushSkipped
<1>4. n..(m - 1) \subseteq Nat /\ \A x \in n..(m - 1) : x >= n
    BY <1>2
<1>5. skippedSeqs' \subseteq Nat /\ skippedSeqs \subseteq skippedSeqs'
    BY <1>3, <1>4
<1>6. \A x \in skippedSeqs' : x \in skippedSeqs \/ (x >= n /\ x \notin P)
    BY <1>3, <1>4
<1> QED
    BY <1>1, <1>2, <1>5, <1>6

(* Until the first _resync the cache has the initial sequence it started   *)
(* with, below all that it skips, and lists as skipped only what is        *)
(* missing.                                                                *)
NotResynced ==
    resyncs = 0 =>
        /\ resync = "idle" /\ initialSequence = StartSeq /\ startedAt = StartSeq
        /\ StartSeq < nextSequence
        /\ \A s \in skippedSeqs : s > StartSeq
        /\ skippedSeqs \cap receivedSeqs \subseteq {lateEntry}

(* A processed entry leaves the list right, whichever way it goes.         *)
LEMMA EntryNotResynced ==
    ASSUME IndInv, NotResynced, resyncs = 0, NEW s \in Seqs,
           NEW isDoc \in BOOLEAN, NEW markedSkipped \in BOOLEAN,
           ProcessEntry(s, isDoc, markedSkipped)
    PROVE  NotResynced'
<1>1. /\ UNCHANGED <<resync, resyncs, initialSequence, startedAt>> /\ lateEntry = 0
      /\ StartSeq \in Nat /\ nextSequence \in Nat /\ pendingLogs \in SUBSET Seqs
      /\ skippedSeqs \subseteq Seqs /\ receivedSeqs \subseteq Seqs
      /\ s \in Nat /\ Seqs \subseteq Nat
    BY ChangeCacheAssumption
       DEF ProcessEntry, controlVars, startVars, LockFree, IndInv, TypeOK, Seqs
<1>2. /\ resync = "idle" /\ initialSequence = StartSeq /\ startedAt = StartSeq
      /\ StartSeq < nextSequence
      /\ \A x \in skippedSeqs : x > StartSeq /\ x # 0 /\ x \notin receivedSeqs
      /\ \A x \in receivedSeqs :
            x < nextSequence \/ x \in pendingLogs \/ x <= startedAt
    BY <1>1 DEF NotResynced, IndInv, Buffered, Seqs
<1>3. CASE UNCHANGED <<bufferVars, entryVars, lateVars, skippedSeqs>>
    BY <1>1, <1>3 DEF NotResynced, bufferVars, entryVars, lateVars
<1>4. ASSUME receivedSeqs' = receivedSeqs \cup {s}, AddInSequence(s, docEntries')
      PROVE  NotResynced'
    <2>1. /\ s = nextSequence /\ lateEntry' = lateEntry
          /\ AddPendingLogs(pendingLogs, s + 1, {s}, docEntries')
        BY <1>4 DEF AddInSequence, lateVars
    <2>2. /\ nextSequence' >= s + 1
          /\ \A x \in skippedSeqs' : x \in skippedSeqs \/ (x >= s + 1 /\ x \notin pendingLogs)
        BY <1>1, <2>1, AddPendingLogsSkips
    <2>3. nextSequence' \in Nat /\ skippedSeqs' \subseteq Nat
        BY <1>1, <2>1, AddPendingLogsSkips
    <2>4. ASSUME NEW x \in skippedSeqs' PROVE x > StartSeq /\ x \notin receivedSeqs'
        <3>1. CASE x \in skippedSeqs
            <4>1. x < nextSequence
                BY <3>1 DEF IndInv, Bounds
            <4> QED
                BY <1>1, <1>2, <1>4, <2>1, <3>1, <4>1
        <3>2. CASE x >= s + 1 /\ x \notin pendingLogs
            BY <1>1, <1>2, <1>4, <2>1, <2>3, <3>2
        <3> QED
            BY <2>2, <3>1, <3>2
    <2>5. StartSeq < nextSequence'
        BY <1>1, <1>2, <2>1, <2>2, <2>3
    <2> QED
        BY <1>1, <1>2, <2>4, <2>5 DEF NotResynced
<1>5. ASSUME receivedSeqs' = receivedSeqs \cup {s}, Defer(s, docEntries')
      PROVE  NotResynced'
    <2> DEFINE P == pendingLogs \cup {s}
    <2>1. s > nextSequence /\ lateEntry' = lateEntry
        BY <1>5 DEF Defer, lateVars
    <2>2. CASE AddPendingLogs(P, nextSequence, {}, docEntries')
        <3>1. /\ nextSequence' >= nextSequence
              /\ \A x \in skippedSeqs' : x \in skippedSeqs \/ (x >= nextSequence /\ x \notin P)
            BY <1>1, <2>2, AddPendingLogsSkips
        <3>2. nextSequence' \in Nat /\ skippedSeqs' \subseteq Nat
            BY <1>1, <2>2, AddPendingLogsSkips
        <3>3. ASSUME NEW x \in skippedSeqs' PROVE x > StartSeq /\ x \notin receivedSeqs'
            <4>1. CASE x \in skippedSeqs
                <5>1. x < nextSequence
                    BY <4>1 DEF IndInv, Bounds
                <5> QED
                    BY <1>1, <1>2, <1>5, <2>1, <4>1, <5>1
            <4>2. CASE x >= nextSequence /\ x \notin P
                BY <1>1, <1>2, <1>5, <2>1, <3>2, <4>2
            <4> QED
                BY <3>1, <4>1, <4>2
        <3>4. StartSeq < nextSequence'
            BY <1>1, <1>2, <3>1, <3>2
        <3> QED
            BY <1>1, <1>2, <3>3, <3>4 DEF NotResynced
    <2>3. CASE UNCHANGED <<nextSequence, waited, skippedSeqs, cached>>
        <3>1. \A x \in skippedSeqs : x # s
            BY <1>1, <2>1 DEF IndInv, Bounds
        <3> QED
            BY <1>1, <1>2, <1>5, <2>1, <2>3, <3>1 DEF NotResynced
    <2> QED
        BY <1>5, <2>2, <2>3 DEF Defer
<1>6. ASSUME receivedSeqs' = receivedSeqs \cup {s}, AddLate(s, docEntries', markedSkipped)
      PROVE  NotResynced'
    BY <1>1, <1>2, <1>6 DEF AddLate, NotResynced
<1>7. ASSUME receivedSeqs' = receivedSeqs \cup {s}, IgnoreOld(s)
      PROVE  NotResynced'
    <2>1. s <= StartSeq /\ UNCHANGED <<nextSequence, skippedSeqs, lateEntry>>
        BY <1>2, <1>7 DEF IgnoreOld, bufferVars, lateVars
    <2>2. s \notin skippedSeqs
        BY <1>1, <1>2, <2>1
    <2> QED
        BY <1>1, <1>2, <1>7, <2>1, <2>2 DEF NotResynced
<1> QED
    BY <1>3, <1>4, <1>5, <1>6, <1>7 DEF ProcessEntry

(* Every step of the cache keeps it that way until the first _resync.      *)
LEMMA NotResyncedStep == IndInv /\ NotResynced /\ [Next]_vars => NotResynced'
<1> SUFFICES ASSUME IndInv, NotResynced, [Next]_vars, resyncs' = 0 PROVE NotResynced'
    BY DEF NotResynced
<1>1. CASE \/ Allocate \/ CleanQueryError \/ UNCHANGED vars
           \/ \E s \in Seqs : ExpirePending(s) \/ CleanStart(s)
           \/ \E found \in SUBSET Seqs : CleanQuery(found)
           \/ \E s \in Seqs : CleanGetDocumentError(s)
           \/ Stop
    <2>1. UNCHANGED <<resyncs, resync, initialSequence, startedAt, nextSequence,
                      skippedSeqs, receivedSeqs, lateEntry>>
        BY ZenonT(30), <1>1 DEF Allocate, CleanQueryError, vars, ExpirePending, CleanStart, CleanQuery,
                    CleanGetDocumentError, Stop, bufferVars, entryVars, lateVars,
                    controlVars, startVars, cleanUnchanged
    <2> QED
        BY <2>1 DEF NotResynced
<1>2. CASE FinishLate \/ CleanFinish
    <2>1. /\ UNCHANGED <<resyncs, resync, initialSequence, startedAt, nextSequence, receivedSeqs>>
          /\ skippedSeqs' \subseteq skippedSeqs
          /\ lateEntry' = lateEntry \/ skippedSeqs' = skippedSeqs \ {lateEntry}
        BY <1>2 DEF FinishLate, CleanFinish, cleanUnchanged, bufferVars, entryVars, lateVars,
                    controlVars, startVars
    <2> QED
        BY <2>1 DEF NotResynced
<1>3. CASE InsertPendingEntries
    <2>1. /\ UNCHANGED <<resyncs, resync, initialSequence, startedAt, receivedSeqs, lateEntry>>
          /\ AddPendingLogs(pendingLogs, nextSequence, {}, docEntries)
        BY <1>3 DEF InsertPendingEntries, entryVars, lateVars, controlVars, startVars
    <2>2. /\ StartSeq \in Nat /\ nextSequence \in Nat /\ pendingLogs \in SUBSET Seqs
          /\ skippedSeqs \subseteq Nat /\ Seqs \subseteq Nat
        BY ChangeCacheAssumption DEF IndInv, TypeOK, Seqs
    <2>3. /\ nextSequence' >= nextSequence
          /\ \A x \in skippedSeqs' :
                x \in skippedSeqs \/ (x >= nextSequence /\ x \notin pendingLogs)
        BY <2>1, <2>2, AddPendingLogsSkips
    <2>4. nextSequence' \in Nat /\ skippedSeqs' \subseteq Nat
        BY <2>1, <2>2, AddPendingLogsSkips
    <2>5. /\ resyncs = 0 /\ initialSequence = StartSeq /\ startedAt = StartSeq /\ StartSeq < nextSequence
          /\ \A x \in receivedSeqs :
                x < nextSequence \/ x \in pendingLogs \/ x <= startedAt
        BY <2>1 DEF NotResynced, IndInv, Buffered
    <2>6. ASSUME NEW x \in skippedSeqs'
          PROVE  x > StartSeq /\ (x \in receivedSeqs => x = lateEntry)
        <3>1. CASE x \in skippedSeqs
            BY <2>5, <3>1 DEF NotResynced
        <3>2. CASE x >= nextSequence /\ x \notin pendingLogs
            BY <2>2, <2>4, <2>5, <3>2
        <3> QED
            BY <2>3, <3>1, <3>2
    <2>7. StartSeq < nextSequence' /\ resync = "idle"
        BY <2>2, <2>3, <2>4, <2>5 DEF NotResynced
    <2> QED
        BY <2>1, <2>5, <2>6, <2>7 DEF NotResynced
<1>4. ASSUME NEW s \in Seqs, NEW isDoc \in BOOLEAN, NEW markedSkipped \in BOOLEAN,
             ProcessEntry(s, isDoc, markedSkipped)
      PROVE  NotResynced'
    <2>1. resyncs = 0
        BY <1>4 DEF ProcessEntry, controlVars
    <2> QED
        BY <1>4, <2>1, EntryNotResynced
<1>5. CASE ResyncDisable
    BY <1>5 DEF ResyncDisable, IndInv, TypeOK
<1>6. CASE Clear \/ ClearError \/ ResyncEnable
    BY <1>6 DEF Clear, ClearError, ResyncEnable, NotResynced
<1> QED
    BY <1>1, <1>2, <1>3, <1>4, <1>5, <1>6 DEF Next, Clean, FeedEntry, CleanProcess

(* Until the first _resync, nothing that was received is listed as         *)
(* skipped, except while its late entry is being added: a received         *)
(* sequence never holds back the low sequence of the changes feeds.        *)
THEOREM SkippedAreMissing == Spec => []SkippedMissing
<1>1. Init => NotResynced
    BY ChangeCacheAssumption DEF Init, NotResynced
<1>2. NotResynced => SkippedMissing
    BY DEF NotResynced, SkippedMissing
<1> QED
    BY <1>1, <1>2, NotResyncedStep, Inductive, PTL DEF Spec

(* A document that enters the cache behind nextSequence enters the late    *)
(* logs in the same step, or its sequence had been given up before, or is  *)
(* from before the cache was started.                                      *)
THEOREM LateAnnounced == Spec => LateIsAnnounced
<1> DEFINE Announced == \A s \in cached' \ cached :
                            s < nextSequence => s \in lateLogs' \cup abandoned \cup 1..startedAt
<1>1. IndInv /\ [Next]_vars => [Announced]_vars
    <2> SUFFICES ASSUME IndInv, Next,
                        NEW s \in cached', s \notin cached, s < nextSequence
                 PROVE  s \in lateLogs' \cup abandoned \cup 1..startedAt
        OBVIOUS
    <2>0. /\ nextSequence \in Nat /\ startedAt \in Nat /\ StartSeq \in Nat
          /\ StartSeq <= startedAt
          /\ pendingLogs \subseteq Seqs /\ \A p \in pendingLogs : p > nextSequence
        BY ChangeCacheAssumption
           DEF IndInv, TypeOK, Bounds, PendingBlocked
    <2>1. ASSUME NEW x \in Seqs, NEW isDoc, NEW marked,
                 ProcessEntry(x, isDoc, marked)
          PROVE  s \in lateLogs' \cup abandoned \cup 1..startedAt
        <3>0. /\ x \notin receivedSeqs
              /\ \/ AddInSequence(x, docEntries')
                 \/ Defer(x, docEntries')
                 \/ AddLate(x, docEntries', marked)
            BY <2>1 DEF ProcessEntry, IgnoreOld, bufferVars
        <3>1. CASE AddInSequence(x, docEntries')
            <4>1. x = nextSequence
                BY <3>1 DEF AddInSequence
            <4>2. PICK m : cached' =
                     AddToCache({x} \cup {p \in pendingLogs : p < m}, docEntries')
                BY <3>1 DEF AddInSequence, AddPendingLogs
            <4>3. s \in pendingLogs \/ s = x
                BY <4>2 DEF AddToCache
            <4>5. CASE s \in pendingLogs
                BY <2>0, <4>5, ChangeCacheAssumption DEF Seqs
            <4>6. CASE s = x
                BY <2>0, <4>1, <4>6, ChangeCacheAssumption DEF Seqs
            <4> QED
                BY <4>3, <4>5, <4>6
        <3>2. CASE Defer(x, docEntries')
            <4>1. x > nextSequence
                BY <3>2 DEF Defer
            <4>2. AddPendingLogs(pendingLogs \cup {x}, nextSequence, {}, docEntries')
                BY <3>2 DEF Defer
            <4>3. PICK m : cached' =
                     AddToCache({} \cup {p \in pendingLogs \cup {x} : p < m},
                                docEntries')
                BY <4>2 DEF AddPendingLogs
            <4>4. s \in pendingLogs \/ s = x
                BY <4>3 DEF AddToCache
            <4>5. CASE s \in pendingLogs
                BY <2>0, <4>5, ChangeCacheAssumption DEF Seqs
            <4>6. CASE s = x
                BY <2>0, <4>1, <4>6, ChangeCacheAssumption DEF Seqs
            <4> QED
                BY <4>4, <4>5, <4>6
        <3>3. CASE AddLate(x, docEntries', marked)
            <4>1. s = x /\ s \in docEntries'
                BY <3>3 DEF AddLate, AddToCache
            <4>2. CASE s > startedAt
                <5>1. s \in (StartSeq + 1)..(nextSequence - 1)
                    BY <2>0, <4>1, <4>2 DEF Seqs
                <5>2. s \in skippedSeqs \cup abandoned
                    BY <3>0, <4>1, <5>1 DEF IndInv, Accounted
                <5> QED
                    BY <3>3, <4>1, <5>2 DEF AddLate
            <4>3. CASE s <= startedAt
                BY <2>0, <4>1, <4>3 DEF Seqs
            <4> QED
                BY <2>0, <4>1, <4>2, <4>3 DEF Seqs
        <3> QED
            BY <3>0, <3>1, <3>2, <3>3
    <2>2. CASE InsertPendingEntries
        <3>1. PICK m : cached' = AddToCache({} \cup {p \in pendingLogs : p < m},
                                            docEntries)
            BY <2>2 DEF InsertPendingEntries, AddPendingLogs
        <3>2. s \in pendingLogs
            BY <3>1 DEF AddToCache
        <3> QED
            BY <2>0, <3>2 DEF Seqs
    <2>3. CASE \E x \in Seqs, isDoc \in BOOLEAN : FeedEntry(x, isDoc)
        BY <2>1, <2>3 DEF FeedEntry
    <2>4. CASE \E x \in Seqs : CleanProcess(x)
        BY <2>1, <2>4 DEF CleanProcess
    <2>5. CASE cached' \subseteq cached
        BY <2>5
    <2> QED
        BY ZenonT(30), <2>2, <2>3, <2>4, <2>5
           DEF Next, Clean, Allocate, FinishLate, ExpirePending, CleanStart,
               CleanQuery, CleanQueryError, CleanGetDocumentError, CleanFinish,
               ResyncDisable, Clear, ClearError, ResyncEnable, Stop, cleanUnchanged,
               bufferVars
<1> QED
    BY <1>1, Inductive, PTL DEF Spec, LateIsAnnounced

----------------------------------------------------------------------------
(* The pipeline.                                                           *)

(* What the buffering has dealt with.                                      *)
Settled == receivedSeqs \cup skippedSeqs \cup abandoned

(* The pipeline neither resyncs nor stops the cache.                       *)
Running == ~logsDisabled /\ resyncs = 0 /\ initialSequence = StartSeq

(* The sequences a writer has reserved or drawn.                           *)
Own(w) == reserved[w] \cup HeldSequences(w)

(* Nothing is in use that the counter has not handed out.                  *)
Bounded ==
    /\ \A w \in Writers : Own(w) \subseteq 1..counter
    /\ \A d \in Docs : doc[d].seq <= counter
    /\ unusedFeed \cup lost \cup unanswered \subseteq 1..counter

(* Nobody else has what a writer has reserved or drawn, and no document    *)
(* has it unless the write that stored it was not answered.                *)
Exclusive ==
    /\ \A w, x \in Writers : w # x => Own(w) \cap Own(x) = {}
    /\ \A w \in Writers : reserved[w] \cap (HeldSequences(w) \cup unanswered) = {}
    /\ \A w \in Writers : Own(w) \cap (unusedFeed \cup lost) = {}
    /\ \A d \in Docs, w \in Writers : doc[d].seq \notin Own(w) \ unanswered
    /\ \A d \in Docs : doc[d].seq \notin (unusedFeed \cup lost) \ unanswered
    /\ \A d, e \in Docs : doc[d].seq = doc[e].seq => d = e \/ doc[d].seq = 0

(* A version that is still current is the one that was read; unused        *)
(* sequences are those that another update of the document has passed, and *)
(* so is one that was stored without an answer.                            *)
WriterOK(w) ==
    /\ writer[w].pc = "idle" => writer[w].seq = 0 /\ writer[w].unused = <<>>
    /\ writer[w].pc # "idle" =>
        /\ writer[w].doc \in Docs
        /\ \A u \in Range(writer[w].unused) : u <= doc[writer[w].doc].seq
        /\ writer[w].seq \in unanswered => writer[w].seq <= doc[writer[w].doc].seq
    /\ writer[w].pc \in {"draw", "write"} =>
        /\ writer[w].base.seq <= doc[writer[w].doc].seq
        /\ writer[w].base.seq = doc[writer[w].doc].seq => writer[w].base = doc[writer[w].doc]
    /\ writer[w].pc = "draw" => writer[w].seq = 0
    /\ writer[w].pc = "write" => writer[w].seq > writer[w].base.seq

DocumentOK(d) ==
    /\ \A s \in Range(doc[d].recent) : s <= doc[d].seq
    /\ Range(doc[d].unused) \subseteq Range(doc[d].recent)

(* A call of the handler that will pass on s.                              *)
InHandler(d, kinds, s) ==
    \E c \in Range(handler[d]) : c.seq = s /\ c.kind \in kinds

(* The feed ends with the current version; once that has reached the       *)
(* handler, each of its sequences is settled, about to be passed on, or    *)
(* overlooked.                                                             *)
FeedOK(d) ==
    /\ feed[d] # <<>> => feed[d][Len(feed[d])] = doc[d]
    /\ feed[d] = <<>> =>
        /\ \A c \in Range(handler[d]) :
             c.kind = "recent" => c.current = CurrentSequence(doc[d])
        /\ \A s \in Range(doc[d].recent) : s > StartSeq =>
             s \in Settled \cup Overlooked(d) \/ InHandler(d, {"unused", "recent", "doc"}, s)
        /\ \A s \in Range(doc[d].unused) : s > StartSeq =>
             s \in Settled \/ InHandler(d, {"unused"}, s)
        /\ doc[d].seq > StartSeq => doc[d].seq \in Settled \/ InHandler(d, {"doc"}, doc[d].seq)

(* Every sequence that was handed out is somewhere.                        *)
Custody ==
    \A s \in (StartSeq + 1)..counter :
        \/ s \in Settled \cup lost \cup unusedFeed \cup pruned
        \/ \E w \in Writers : s \in Own(w)
        \/ \E d \in Docs : s \in Range(doc[d].recent)

PipelineInd ==
    /\ IndInv /\ NotResynced /\ PipelineTypeOK /\ Running
    /\ Bounded /\ Exclusive /\ Custody
    /\ \A w \in Writers : WriterOK(w)
    /\ \A d \in Docs : DocumentOK(d) /\ FeedOK(d)

----------------------------------------------------------------------------
(* Sequences of values and what is in them.                                *)
LEMMA RangeSeq ==
    ASSUME NEW S, NEW q \in Seq(S)
    PROVE  /\ Range(q) \subseteq S
           /\ \A x : x \in Range(q) <=> \E i \in 1..Len(q) : q[i] = x
<1>1. DOMAIN q = 1..Len(q) /\ \A i \in 1..Len(q) : q[i] \in S
  BY LenProperties, ElementOfSeq
<1> QED
  BY <1>1 DEF Range

(* What is in a concatenation.                                             *)
LEMMA RangeConcat ==
    ASSUME NEW S, NEW q \in Seq(S), NEW r \in Seq(S)
    PROVE  q \o r \in Seq(S) /\ Range(q \o r) = Range(q) \cup Range(r)
<1>1. /\ q \o r \in Seq(S) /\ Len(q \o r) = Len(q) + Len(r)
      /\ Len(q) \in Nat /\ Len(r) \in Nat
      /\ \A i \in 1 .. Len(q) + Len(r) :
            (q \o r)[i] = IF i <= Len(q) THEN q[i] ELSE r[i - Len(q)]
  BY ConcatProperties, LenProperties
<1>2. ASSUME NEW x \in Range(q \o r) PROVE x \in Range(q) \cup Range(r)
  <2>1. PICK i \in 1 .. Len(q) + Len(r) : (q \o r)[i] = x
    BY ZenonT(30), <1>1, <1>2, RangeSeq
  <2>2. CASE i <= Len(q)
    <3>1. i \in 1..Len(q) /\ q[i] = x
      BY <1>1, <2>1, <2>2
    <3> QED
      BY <3>1, RangeSeq
  <2>3. CASE ~(i <= Len(q))
    <3>1. i - Len(q) \in 1..Len(r) /\ r[i - Len(q)] = x
      BY <1>1, <2>1, <2>3
    <3> QED
      BY <3>1, RangeSeq
  <2> QED
    BY <2>2, <2>3
<1>3. ASSUME NEW x \in Range(q) PROVE x \in Range(q \o r)
  <2>1. PICK i \in 1..Len(q) : q[i] = x
    BY <1>3, RangeSeq
  <2>2. i \in 1..Len(q \o r) /\ (q \o r)[i] = x
    BY <1>1, <2>1
  <2> QED
    BY <1>1, <2>2, RangeSeq
<1>4. ASSUME NEW x \in Range(r) PROVE x \in Range(q \o r)
  <2>1. PICK i \in 1..Len(r) : r[i] = x
    BY <1>4, RangeSeq
  <2>2. i + Len(q) \in 1..Len(q \o r) /\ (q \o r)[i + Len(q)] = x
    BY <1>1, <2>1
  <2> QED
    BY <1>1, <2>2, RangeSeq
<1> QED
  BY <1>1, <1>2, <1>3, <1>4

(* One-element sequences, and the empty one.                               *)
LEMMA RangeSmall ==
    ASSUME NEW S, NEW x \in S
    PROVE  <<x>> \in Seq(S) /\ Range(<<x>>) = {x} /\ Range(<<>>) = {} /\ <<>> \in Seq(S)
<1>1. <<x>> \in Seq(S)
  OBVIOUS
<1>2. <<>> \in Seq(S)
  OBVIOUS
<1>3. Range(<<x>>) = {x}
  BY DEF Range
<1>4. Range(<<>>) = {}
  BY DEF Range
<1> QED
  BY <1>1, <1>2, <1>3, <1>4

(* What appending adds.                                                    *)
LEMMA RangeAppend ==
    ASSUME NEW S, NEW q \in Seq(S), NEW x \in S
    PROVE  Append(q, x) \in Seq(S) /\ Range(Append(q, x)) = Range(q) \cup {x}
<1>1. Append(q, x) = q \o <<x>>
  BY AppendIsConcat
<1>2. <<x>> \in Seq(S) /\ Range(<<x>>) = {x}
  BY RangeSmall
<1>3. q \o <<x>> \in Seq(S) /\ Range(q \o <<x>>) = Range(q) \cup Range(<<x>>)
  BY ZenonT(30), <1>2, RangeConcat
<1> QED
  BY <1>1, <1>2, <1>3

(* Taking the first element off a sequence.                                *)
LEMMA RangeTail ==
    ASSUME NEW S, NEW q \in Seq(S), q # <<>>
    PROVE  /\ Head(q) \in S /\ Tail(q) \in Seq(S)
           /\ Range(q) = {Head(q)} \cup Range(Tail(q))
           /\ Tail(q) # <<>> => Tail(q)[Len(Tail(q))] = q[Len(q)]
           /\ Tail(q) = <<>> => Head(q) = q[Len(q)]
<1>1. /\ Head(q) \in S /\ Tail(q) \in Seq(S) /\ Len(Tail(q)) = Len(q) - 1
      /\ \A i \in 1..Len(Tail(q)) : Tail(q)[i] = q[i + 1]
  BY HeadTailProperties
<1>2. Len(q) \in Nat \ {0} /\ Head(q) = q[1]
  BY EmptySeq
<1>3. ASSUME NEW x \in Range(q), x # Head(q) PROVE x \in Range(Tail(q))
  <2>1. PICK i \in 1..Len(q) : q[i] = x
    BY <1>3, RangeSeq
  <2>2. i - 1 \in 1..Len(Tail(q)) /\ Tail(q)[i - 1] = x
    <3>1. i # 1
      BY <1>2, <1>3, <2>1
    <3>2. i - 1 \in 1..Len(Tail(q)) /\ (i - 1) + 1 = i
      BY <1>1, <1>2, <3>1
    <3> QED
      BY <1>1, <2>1, <3>2
  <2> QED
    BY <1>1, <2>2, RangeSeq
<1>4. ASSUME NEW x \in Range(Tail(q)) PROVE x \in Range(q)
  <2>1. PICK i \in 1..Len(Tail(q)) : Tail(q)[i] = x
    BY <1>1, <1>4, RangeSeq
  <2>2. i + 1 \in 1..Len(q) /\ q[i + 1] = x
    BY <1>1, <1>2, <2>1
  <2> QED
    BY <2>2, RangeSeq
<1>5. Head(q) \in Range(q)
  <2>1. 1 \in 1..Len(q)
    BY <1>2
  <2> QED
    BY <1>2, <2>1, RangeSeq
<1>6. Tail(q) # <<>> => Tail(q)[Len(Tail(q))] = q[Len(q)]
  <2> SUFFICES ASSUME Tail(q) # <<>> PROVE Tail(q)[Len(Tail(q))] = q[Len(q)]
    OBVIOUS
  <2>1. Len(Tail(q)) \in Nat \ {0}
    BY <1>1, EmptySeq
  <2>2. Len(Tail(q)) \in 1..Len(Tail(q)) /\ Len(Tail(q)) + 1 = Len(q)
    BY <1>1, <1>2, <2>1
  <2> QED
    BY <1>1, <2>2
<1>7. Tail(q) = <<>> => Head(q) = q[Len(q)]
  <2>1. Tail(q) = <<>> => Len(Tail(q)) = 0
    BY EmptySeq
  <2> QED
    BY <1>1, <1>2, <2>1
<1> QED
  BY <1>1, <1>3, <1>4, <1>5, <1>6, <1>7

(* Dropping an element before the last leaves the last.                    *)
LEMMA RemoveInner ==
    ASSUME NEW S, NEW q \in Seq(S), NEW i \in 1..(Len(q) - 1)
    PROVE  /\ RemoveAt(q, i) \in Seq(S) /\ RemoveAt(q, i) # <<>>
           /\ RemoveAt(q, i)[Len(RemoveAt(q, i))] = q[Len(q)]
<1> DEFINE a == SubSeq(q, 1, i - 1)
           b == SubSeq(q, i + 1, Len(q))
<1>0. Len(q) \in Nat /\ \A j \in 1..Len(q) : q[j] \in S
  BY LenProperties, ElementOfSeq
<1>1. a \in Seq(S) /\ Len(a) = i - 1
  <2>1. i - 1 \in Int /\ 1 \in Int /\ \A j \in 1..(i - 1) : q[j] \in S
    BY <1>0
  <2>2. a \in Seq(S) /\ Len(a) = IF 1 <= i - 1 THEN i - 1 - 1 + 1 ELSE 0
    BY <2>1, SubSeqProperties
  <2> HIDE DEF a
  <2> QED
    BY <1>0, <2>2
<1>2. /\ b \in Seq(S) /\ Len(b) = Len(q) - i
      /\ b[Len(q) - i] = q[Len(q)]
  <2>1. i + 1 \in Int /\ Len(q) \in Int /\ \A j \in (i + 1)..Len(q) : q[j] \in S
    BY <1>0
  <2>2. /\ b \in Seq(S) /\ Len(b) = IF i + 1 <= Len(q) THEN Len(q) - (i + 1) + 1 ELSE 0
        /\ \A j \in 1..(Len(q) - (i + 1) + 1) : b[j] = q[i + 1 + j - 1]
    BY <2>1, SubSeqProperties
  <2> HIDE DEF b
  <2>3. Len(q) - i \in 1..(Len(q) - (i + 1) + 1) /\ i + 1 + (Len(q) - i) - 1 = Len(q)
    BY <1>0
  <2> QED
    BY <1>0, <2>2, <2>3
<1>3. RemoveAt(q, i) = a \o b
  BY DEF RemoveAt
<1> HIDE DEF a, b
<1>4. /\ a \o b \in Seq(S) /\ Len(a \o b) = Len(a) + Len(b)
      /\ \A j \in 1..(Len(a) + Len(b)) :
            (a \o b)[j] = IF j <= Len(a) THEN a[j] ELSE b[j - Len(a)]
  BY <1>1, <1>2, ConcatProperties
<1>5. Len(a \o b) = Len(q) - 1 /\ (a \o b)[Len(q) - 1] = q[Len(q)]
  BY SMTT(30), <1>0, <1>1, <1>2, <1>4
<1>6. a \o b # <<>>
  BY <1>0, <1>5, EmptySeq
<1> QED
  BY <1>3, <1>4, <1>5, <1>6

(* The calls DocChangedSynchronous makes for a version.                    *)
LEMMA CallsOf ==
    ASSUME NEW v \in Version, v.seq > 0
    PROVE  /\ Calls(v) \in Seq(Call)
           /\ \A s \in Range(v.unused) : \E c \in Range(Calls(v)) : c.seq = s /\ c.kind = "unused"
           /\ \A s \in Range(v.recent) : \E c \in Range(Calls(v)) : c.seq = s /\ c.kind = "recent"
           /\ \E c \in Range(Calls(v)) : c.seq = v.seq /\ c.kind = "doc"
           /\ \A c \in Range(Calls(v)) : c.current = CurrentSequence(v)
<1> DEFINE call(kind, s) == [kind |-> kind, seq |-> s, current |-> CurrentSequence(v)]
           map(q, kind) == [i \in DOMAIN q |-> call(kind, q[i])]
<1>0. v.unused \in Seq(Seqs) /\ v.recent \in Seq(Seqs) /\ v.seq \in Seqs /\ <<v.seq>> \in Seq(Seqs)
  <2>1. v.unused \in Seq(Seqs) /\ v.recent \in Seq(Seqs) /\ v.seq \in 0..MaxSeq
    BY DEF Version
  <2>2. v.seq \in Seqs
    BY <2>1, ChangeCacheAssumption DEF Seqs
  <2> QED
    BY <2>1, <2>2
<1>1. CurrentSequence(v) \in Seqs
  <2>1. v.unused # <<>> => Head(v.unused) \in Seqs
    BY <1>0, HeadTailProperties
  <2> QED
    BY <1>0, <2>1 DEF CurrentSequence
<1>2. ASSUME NEW q \in Seq(Seqs), NEW kind \in {"unused", "recent", "doc"}
      PROVE  /\ map(q, kind) \in Seq(Call)
             /\ \A s \in Range(q) : call(kind, s) \in Range(map(q, kind))
             /\ \A c \in Range(map(q, kind)) : c.current = CurrentSequence(v)
  <2>1. Len(q) \in Nat /\ DOMAIN q = 1..Len(q) /\ \A i \in 1..Len(q) : q[i] \in Seqs
    BY LenProperties, ElementOfSeq
  <2>2. \A i \in 1..Len(q) : call(kind, q[i]) \in Call
    BY <1>1, <2>1 DEF Call
  <2>3. map(q, kind) = [i \in 1..Len(q) |-> call(kind, q[i])]
    BY <2>1
  <2>4. map(q, kind) \in Seq(Call) /\ DOMAIN map(q, kind) = 1..Len(q)
        /\ \A i \in 1..Len(q) : map(q, kind)[i] = call(kind, q[i])
    <3> HIDE DEF call
    <3> QED
      BY <2>1, <2>2, <2>3, IsASeq
  <2>5. ASSUME NEW s \in Range(q) PROVE call(kind, s) \in Range(map(q, kind))
    <3>1. PICK i \in 1..Len(q) : q[i] = s
      BY <2>5, RangeSeq
    <3> HIDE DEF map, call
    <3> QED
      BY <2>4, <3>1 DEF Range
  <2>6. ASSUME NEW c \in Range(map(q, kind)) PROVE c.current = CurrentSequence(v)
    <3>1. PICK i \in 1..Len(q) : c = call(kind, q[i])
      BY <2>4, <2>6 DEF Range
    <3> QED
      BY <3>1
  <2> QED
    BY <2>4, <2>5, <2>6
<1>3. Calls(v) = map(v.unused, "unused") \o map(v.recent, "recent") \o map(<<v.seq>>, "doc")
  BY DEF Calls
<1> HIDE DEF map
<1>4. /\ map(v.unused, "unused") \in Seq(Call) /\ map(v.recent, "recent") \in Seq(Call)
      /\ map(<<v.seq>>, "doc") \in Seq(Call)
  BY <1>0, <1>2
<1>5. /\ Calls(v) \in Seq(Call)
      /\ Range(Calls(v)) = Range(map(v.unused, "unused")) \cup Range(map(v.recent, "recent"))
                              \cup Range(map(<<v.seq>>, "doc"))
  <2>1. \A a, b, c \in Seq(Call) :
            /\ a \o b \o c \in Seq(Call)
            /\ Range(a \o b \o c) = Range(a) \cup Range(b) \cup Range(c)
    <3>1. \A a, b \in Seq(Call) :
              a \o b \in Seq(Call) /\ Range(a \o b) = Range(a) \cup Range(b)
      BY RangeConcat
    <3> SUFFICES ASSUME NEW a \in Seq(Call), NEW b \in Seq(Call), NEW c \in Seq(Call)
                 PROVE  /\ a \o b \o c \in Seq(Call)
                        /\ Range(a \o b \o c) = Range(a) \cup Range(b) \cup Range(c)
      OBVIOUS
    <3>2. PICK e : e = a \o b
      OBVIOUS
    <3>3. e \in Seq(Call) /\ Range(e) = Range(a) \cup Range(b)
      BY <3>1, <3>2
    <3>4. e \o c \in Seq(Call) /\ Range(e \o c) = Range(e) \cup Range(c)
      BY <3>1, <3>3
    <3> QED
      BY <3>2, <3>3, <3>4
  <2> QED
    BY <1>3, <1>4, <2>1
<1>6. v.seq \in Range(<<v.seq>>)
  BY DEF Range
<1>7. /\ \A s \in Range(v.unused) : call("unused", s) \in Range(Calls(v))
      /\ \A s \in Range(v.recent) : call("recent", s) \in Range(Calls(v))
      /\ call("doc", v.seq) \in Range(Calls(v))
  <2> HIDE DEF call
  <2> QED
    BY <1>0, <1>2, <1>5, <1>6
<1>8. \A c \in Range(Calls(v)) : c.current = CurrentSequence(v)
  BY <1>0, <1>2, <1>5
<1>9. \A s, k : call(k, s).seq = s /\ call(k, s).kind = k
  OBVIOUS
<1> HIDE DEF call
<1> QED
  BY <1>5, <1>7, <1>8, <1>9

(* A set of numbers that is not empty has a least one.                     *)
LEMMA LeastNumber ==
    ASSUME NEW T, T \subseteq Nat, T # {}
    PROVE  \E x \in T : \A y \in T : x <= y
<1> DEFINE R == {ss \in Nat \X Nat : ss[1] < ss[2]}
<1>1. IsWellFoundedOn(R, Nat)
  BY NatLessThanWellFounded DEF OpToRel
<1> HIDE DEF R
<1>2. PICK x \in T : \A y \in T : ~(<<y, x>> \in R)
  BY <1>1, WFMin
<1> USE DEF R
<1>3. \A y \in T : ~(y < x)
  BY <1>2
<1> QED
  BY <1>3

(* Pruning the recent sequences drops only some below next.                *)
LEMMA Pruned ==
    ASSUME NEW recent \in Seq(Seqs), NEW next \in Nat
    PROVE  /\ PruneRecent(recent, next) \in Seq(Seqs)
           /\ Range(PruneRecent(recent, next)) \subseteq Range(recent)
           /\ \A s \in Range(recent) : s \in Range(PruneRecent(recent, next)) \/ s < next
<1> DEFINE kept == {i \in 1..Len(recent) : recent[i] >= next - 1}
           first == CHOOSE i \in kept : \A j \in kept : i <= j
<1>0. /\ Len(recent) \in Nat /\ \A i \in 1..Len(recent) : recent[i] \in Seqs
      /\ Seqs \subseteq Nat
  BY LenProperties, ElementOfSeq, ChangeCacheAssumption DEF Seqs
<1>a. ASSUME NEW i \in 1..Len(recent), i \notin kept PROVE recent[i] < next
  <2>1. recent[i] \in Nat /\ ~(recent[i] >= next - 1)
    BY <1>0, <1>a
  <2> QED
    BY <2>1
<1>1. CASE Len(recent) < kMaxRecentSequences
  BY <1>1 DEF PruneRecent
<1>2. CASE ~(Len(recent) < kMaxRecentSequences) /\ kept = {}
  <2>1. PruneRecent(recent, next) = <<>>
    BY <1>2 DEF PruneRecent
  <2>2. \A i \in 1..Len(recent) : recent[i] < next
    BY <1>a, <1>2
  <2>3. <<>> \in Seq(Seqs) /\ Range(<<>>) = {}
    BY DEF Range
  <2>4. \A s \in Range(recent) : s < next
    BY <2>2, RangeSeq
  <2> QED
    BY <2>1, <2>3, <2>4
<1>3. CASE ~(Len(recent) < kMaxRecentSequences) /\ kept # {}
  <2>1. PruneRecent(recent, next) = SubSeq(recent, first, Len(recent))
    BY <1>3 DEF PruneRecent
  <2>2. first \in kept /\ \A j \in kept : first <= j
    <3>1. kept \subseteq Nat
      OBVIOUS
    <3>2. \E i \in kept : \A j \in kept : i <= j
      BY <1>3, <3>1, LeastNumber
    <3> QED
      BY <3>2
  <2>3. first \in 1..Len(recent) /\ \A i \in 1..(first - 1) : recent[i] < next
    <3> HIDE DEF first
    <3>0. first \in 1..Len(recent)
      BY <2>2
    <3>1. first \in 1..Len(recent) /\ \A i \in 1..(first - 1) : i \notin kept
      <4> HIDE DEF kept
      <4> QED
        BY <1>0, <2>2, <3>0
    <3>2. \A i \in 1..(first - 1) : i \in 1..Len(recent)
      BY <1>0, <3>1
    <3> HIDE DEF kept
    <3> QED
      BY <1>a, <3>1, <3>2
  <2> HIDE DEF first, kept
  <2>4. /\ SubSeq(recent, first, Len(recent)) \in Seq(Seqs)
        /\ Len(SubSeq(recent, first, Len(recent))) = Len(recent) - first + 1
        /\ \A i \in 1 .. Len(recent) - first + 1 :
              SubSeq(recent, first, Len(recent))[i] = recent[first + i - 1]
    <3>1. \A i \in first..Len(recent) : recent[i] \in Seqs
      BY <1>0, <2>3
    <3>2. first \in Int /\ Len(recent) \in Int /\ first <= Len(recent)
      BY <1>0, <2>3
    <3> QED
      BY <3>1, <3>2, SubSeqProperties
  <2>5. ASSUME NEW s \in Range(SubSeq(recent, first, Len(recent))) PROVE s \in Range(recent)
    <3>1. PICK i \in 1 .. Len(recent) - first + 1 : recent[first + i - 1] = s
      <4>1. PICK i \in 1 .. Len(SubSeq(recent, first, Len(recent))) :
              SubSeq(recent, first, Len(recent))[i] = s
        BY <2>4, <2>5, RangeSeq
      <4> QED
        BY <2>4, <4>1
    <3>2. first + i - 1 \in 1..Len(recent)
      BY <1>0, <2>3
    <3> QED
      BY <3>1, <3>2, RangeSeq
  <2>6. ASSUME NEW s \in Range(recent)
        PROVE  s \in Range(SubSeq(recent, first, Len(recent))) \/ s < next
    <3>1. PICK i \in 1..Len(recent) : recent[i] = s
      BY <2>6, RangeSeq
    <3>2. CASE i < first
      BY <1>0, <2>3, <3>1, <3>2
    <3>3. CASE ~(i < first)
      <4>1. /\ i - first + 1 \in 1..Len(SubSeq(recent, first, Len(recent)))
            /\ SubSeq(recent, first, Len(recent))[i - first + 1] = s
        BY <1>0, <2>3, <2>4, <3>1, <3>3
      <4> QED
        BY <2>4, <4>1, RangeSeq
    <3> QED
      BY <3>2, <3>3
  <2> QED
    BY <2>1, <2>4, <2>5, <2>6
<1> QED
  BY <1>1, <1>2, <1>3

----------------------------------------------------------------------------
(* The cache.                                                              *)

(* What the buffering has dealt with stays dealt with.                     *)
LEMMA SettledGrows ==
    ASSUME IndInv, [Next]_vars
    PROVE  Settled \subseteq Settled'
<1>0. skippedSeqs \subseteq Nat /\ pendingLogs \in SUBSET Seqs /\ nextSequence \in Nat
      /\ Seqs \subseteq Nat
  BY ChangeCacheAssumption DEF IndInv, TypeOK, Seqs
<1>1. ASSUME NEW P \in SUBSET Seqs, NEW n \in Nat, NEW added, NEW docs,
             AddPendingLogs(P, n, added, docs)
      PROVE  skippedSeqs \subseteq skippedSeqs'
  BY <1>0, <1>1, AddPendingLogsSkips
<1>2. ASSUME NEW s \in Seqs, NEW isDoc \in BOOLEAN, NEW markedSkipped \in BOOLEAN,
             ProcessEntry(s, isDoc, markedSkipped)
      PROVE  /\ receivedSeqs \subseteq receivedSeqs' /\ abandoned' = abandoned
             /\ skippedSeqs \subseteq skippedSeqs'
  <2>1. receivedSeqs \subseteq receivedSeqs' /\ abandoned' = abandoned
    BY <1>2 DEF ProcessEntry, entryVars
  <2>2. CASE AddInSequence(s, docEntries')
    <3>1. AddPendingLogs(pendingLogs, s + 1, {s}, docEntries') /\ s + 1 \in Nat
      BY <1>0, <2>2 DEF AddInSequence
    <3> QED
      BY <1>0, <1>1, <2>1, <3>1
  <2>3. CASE Defer(s, docEntries')
    <3>1. CASE AddPendingLogs(pendingLogs \cup {s}, nextSequence, {}, docEntries')
      BY <1>0, <1>1, <2>1, <3>1
    <3>2. CASE skippedSeqs' = skippedSeqs
      BY <2>1, <3>2
    <3> QED
      BY <2>3, <3>1, <3>2 DEF Defer
  <2>4. CASE \/ AddLate(s, docEntries', markedSkipped) \/ IgnoreOld(s)
             \/ UNCHANGED skippedSeqs
    BY <2>1, <2>4 DEF AddLate, IgnoreOld
  <2> QED
    BY <1>2, <2>2, <2>3, <2>4 DEF ProcessEntry
<1>3. CASE \E s \in Seqs, isDoc \in BOOLEAN : FeedEntry(s, isDoc)
  BY <1>2, <1>3 DEF FeedEntry, Settled
<1>4. CASE \E s \in Seqs : CleanProcess(s)
  BY <1>2, <1>4 DEF CleanProcess, Settled
<1>5. CASE InsertPendingEntries
  <2>1. AddPendingLogs(pendingLogs, nextSequence, {}, docEntries)
        /\ UNCHANGED <<receivedSeqs, abandoned>>
    BY <1>5 DEF InsertPendingEntries, entryVars
  <2> QED
    BY <1>0, <1>1, <2>1 DEF Settled
<1>6. CASE FinishLate
  <2>1. lateEntry \in receivedSeqs
    BY <1>6 DEF FinishLate, LockFree, IndInv, Bounds
  <2> QED
    BY <1>6, <2>1 DEF FinishLate, entryVars, Settled
<1>7. CASE CleanFinish
  BY <1>7 DEF CleanFinish, cleanUnchanged, entryVars, Settled
<1>8. CASE \/ Allocate \/ CleanQueryError \/ UNCHANGED vars
           \/ \E s \in Seqs : ExpirePending(s) \/ CleanStart(s)
           \/ \E found \in SUBSET Seqs : CleanQuery(found)
           \/ \E s \in Seqs : CleanGetDocumentError(s)
           \/ ResyncDisable \/ Clear \/ ClearError \/ ResyncEnable \/ Stop
  <2>1. UNCHANGED <<skippedSeqs, receivedSeqs, abandoned>>
    BY ZenonT(30), <1>8 DEF Allocate, CleanQueryError, vars, ExpirePending, CleanStart, CleanQuery,
                CleanGetDocumentError, Stop, ResyncDisable, Clear, ClearError, ResyncEnable,
                entryVars, cleanUnchanged
  <2> QED
    BY SMTT(30), <2>1 DEF Settled
<1> QED
  BY <1>3, <1>4, <1>5, <1>6, <1>7, <1>8 DEF Next, Clean

(* A sequence that is fed to the cache is settled.                         *)
LEMMA FedIsSettled ==
    ASSUME IndInv, Running, NEW s \in Seqs, NEW isDoc \in BOOLEAN, FeedEntry(s, isDoc)
    PROVE  s \in Settled'
BY DEF Running, FeedEntry, ProcessEntry, entryVars, Settled

(* Every step of the pipeline is one of the cache, or leaves it alone.     *)
LEMMA PipelineIsCache ==
    ASSUME PipelineTypeOK, [PipelineNext]_pvars
    PROVE  [Next]_vars /\ UNCHANGED <<logsDisabled, resyncs, initialSequence>>
<1>1. ASSUME NEW w \in Writers, NEW n \in 1..MaxReserve, ReserveSequences(w, n)
      PROVE  Allocate /\ UNCHANGED <<logsDisabled, resyncs, initialSequence>>
  BY <1>1, PipelineAssumption, ChangeCacheAssumption
     DEF ReserveSequences, Allocate, cacheVars, controlVars, PipelineTypeOK, TypeOK,
         bufferVars, entryVars, lateVars, startVars
<1>2. ASSUME NEW w \in Writers, DrawSequence(w)
      PROVE  [Next]_vars /\ UNCHANGED <<logsDisabled, resyncs, initialSequence>>
  <2>1. PICK s \in Seqs : IF reserved[w] = {} THEN s = counter + 1 /\ counter' = s
                                             ELSE UNCHANGED counter
    BY <1>2 DEF DrawSequence
  <2>2. UNCHANGED cacheVars
    BY <1>2 DEF DrawSequence
  <2>3. CASE reserved[w] = {}
    BY <2>1, <2>2, <2>3, ChangeCacheAssumption
       DEF Allocate, Next, cacheVars, controlVars, PipelineTypeOK, TypeOK, bufferVars,
           entryVars, lateVars, startVars, Seqs
  <2>4. CASE reserved[w] # {}
    BY SMTT(30), <2>1, <2>2, <2>4
       DEF vars, cacheVars, controlVars, bufferVars, entryVars, lateVars, startVars
  <2> QED
    BY <2>3, <2>4
<1>3. ASSUME NEW w \in Writers, \/ \E d \in Docs : StartUpdate(w, d)
                                \/ ReadDoc(w) \/ WriteDoc(w) \/ WriteDocUnanswered(w)
                                \/ AbortUpdate(w) \/ Crash(w)
      PROVE  UNCHANGED vars
  BY ZenonT(30), <1>3 DEF StartUpdate, ReadDoc, WriteDoc, WriteDocUnanswered, AbortUpdate, Crash
<1>4. ASSUME NEW d \in Docs, Deduplicate(d) \/ DocChanged(d) \/ CheckRecent(d)
      PROVE  UNCHANGED vars
  BY <1>4 DEF Deduplicate, DocChanged, CheckRecent
<1>5. ASSUME NEW d \in Docs, HandlerStep(d)
      PROVE  \E s \in Seqs, isDoc \in BOOLEAN : FeedEntry(s, isDoc)
  <2>1. handler[d] \in Seq(Call) /\ handler[d] # <<>>
    BY <1>5 DEF HandlerStep, PipelineTypeOK
  <2>2. Head(handler[d]) \in Call
    BY <2>1, HeadTailProperties
  <2>3. FeedEntry(Head(handler[d]).seq, Head(handler[d]).kind = "doc")
    BY <1>5 DEF HandlerStep
  <2>4. Head(handler[d]).seq \in Seqs
    BY <2>2 DEF Call
  <2> QED
    BY <2>3, <2>4
<1>6. ASSUME NEW s \in Seqs, ProcessUnusedSequence(s)
      PROVE  FeedEntry(s, FALSE)
  BY <1>6 DEF ProcessUnusedSequence
<1>7. CASE CacheTask
  BY <1>7 DEF CacheTask, Next, FinishLate, ExpirePending, InsertPendingEntries, controlVars, startVars
<1>8. CASE PipelineClean
  <2>1. \E found \in SUBSET Seqs : found = CleanBatch \cap {doc[d].seq : d \in Docs}
    BY DEF CleanBatch, PipelineTypeOK, TypeOK
  <2>2. Clean
    BY <1>8, <2>1 DEF PipelineClean, Clean
  <2>3. UNCHANGED controlVars /\ UNCHANGED startVars
    BY ZenonT(30), <1>8 DEF PipelineClean, CleanStart, CleanQuery, CleanQueryError, CleanProcess,
                CleanGetDocumentError, CleanFinish, cleanUnchanged, ProcessEntry
  <2> QED
    BY <2>2, <2>3 DEF Next, controlVars, startVars
<1>9. CASE UNCHANGED pvars
  BY <1>9 DEF pvars, vars, startVars
<1>10. ASSUME NEW s \in Seqs, NEW isDoc \in BOOLEAN, FeedEntry(s, isDoc)
       PROVE  Next /\ UNCHANGED <<logsDisabled, resyncs, initialSequence>>
  BY <1>10 DEF FeedEntry, ProcessEntry, controlVars, startVars, Next
<1>11. UNCHANGED vars => UNCHANGED <<logsDisabled, resyncs, initialSequence>>
  BY DEF vars, startVars
<1>12. CASE \E w \in Writers :
            \/ \E n \in 1..MaxReserve : ReserveSequences(w, n)
            \/ \E d \in Docs : StartUpdate(w, d)
            \/ ReadDoc(w) \/ DrawSequence(w) \/ WriteDoc(w)
            \/ WriteDocUnanswered(w) \/ AbortUpdate(w) \/ Crash(w)
  BY <1>1, <1>2, <1>3, <1>11, <1>12 DEF Next
<1>13. CASE \E d \in Docs : Deduplicate(d) \/ DocChanged(d) \/ CheckRecent(d) \/ HandlerStep(d)
  BY <1>4, <1>5, <1>10, <1>11, <1>13
<1>14. CASE \E s \in Seqs : ProcessUnusedSequence(s)
  BY <1>6, <1>10, <1>14
<1> QED
  BY <1>7, <1>8, <1>9, <1>12, <1>13, <1>14 DEF PipelineNext

(* What every step does to the cache.                                      *)
LEMMA CacheKept ==
    ASSUME PipelineInd, [PipelineNext]_pvars
    PROVE  /\ IndInv' /\ NotResynced' /\ Running' /\ TypeOK'
           /\ Settled \subseteq Settled' /\ Settled' \subseteq Nat
           /\ counter \in Nat /\ counter' \in Nat /\ StartSeq \in Nat
           /\ nextSequence \in Nat
           /\ \A s \in (StartSeq + 1)..(nextSequence - 1) : s \in Settled
<1>1. [Next]_vars /\ UNCHANGED <<logsDisabled, resyncs, initialSequence>>
  BY PipelineIsCache DEF PipelineInd
<1>2. IndInv' /\ NotResynced' /\ Settled \subseteq Settled'
  BY <1>1, CacheStep, NotResyncedStep, SettledGrows DEF PipelineInd
<1>3. Running'
  BY <1>1 DEF PipelineInd, Running
<1>4. \A s \in (StartSeq + 1)..(nextSequence - 1) : s \in Settled
  BY DEF PipelineInd, IndInv, Accounted, Settled
<1>5. TypeOK /\ TypeOK'
  BY <1>2 DEF PipelineInd, IndInv
<1>6. Settled' \subseteq Nat
  BY <1>5, ChangeCacheAssumption DEF TypeOK, Settled, Seqs
<1> QED
  BY <1>2, <1>3, <1>4, <1>5, <1>6, ChangeCacheAssumption DEF TypeOK

----------------------------------------------------------------------------
(* Who has which sequence.                                                 *)

(* Sequences that only move between one writer, the counter, the unused    *)
(* sequence documents and the lost ones are still in one place each.       *)
LEMMA Transfer ==
    ASSUME PipelineInd, [PipelineNext]_pvars, PipelineTypeOK', UNCHANGED <<doc, history>>,
           counter' >= counter, NEW w \in Writers,
           \A x \in Writers : x # w => Own(x)' = Own(x) /\ HeldSequences(x)' = HeldSequences(x)
                                      /\ reserved'[x] = reserved[x],
           (reserved[w] \cap (HeldSequences(w) \cup unanswered))' = {},
           Own(w)' \cap (unusedFeed \cup lost)' = {},
           Own(w)' \cup (unusedFeed \cup lost)'
               = Own(w) \cup (unusedFeed \cup lost) \cup (counter + 1)..counter'
    PROVE  Bounded' /\ Exclusive' /\ Custody'
<1>0. /\ Settled \subseteq Settled' /\ counter \in Nat /\ counter' \in Nat /\ StartSeq \in Nat
      /\ \A d \in Docs : doc[d].seq \in Nat
  <2>1. \A d \in Docs : doc[d].seq \in Nat
    BY ChangeCacheAssumption DEF PipelineInd, PipelineTypeOK, Version
  <2> QED
    BY <2>1, CacheKept
<1>a. /\ \A x \in Writers : Own(x) \subseteq 1..counter
      /\ \A d \in Docs : doc[d].seq <= counter
      /\ unusedFeed \cup lost \subseteq 1..counter /\ unanswered \subseteq 1..counter
      /\ UNCHANGED <<unanswered, pruned>>
  BY DEF PipelineInd, Bounded, history
<1>b. /\ \A u, x \in Writers : u # x => Own(u) \cap Own(x) = {}
      /\ \A x \in Writers : reserved[x] \cap (HeldSequences(x) \cup unanswered) = {}
      /\ \A x \in Writers : Own(x) \cap (unusedFeed \cup lost) = {}
      /\ \A d \in Docs, x \in Writers : doc[d].seq \notin Own(x) \ unanswered
      /\ \A d \in Docs : doc[d].seq \notin (unusedFeed \cup lost) \ unanswered
      /\ \A d, e \in Docs : doc[d].seq = doc[e].seq => d = e \/ doc[d].seq = 0
  BY DEF PipelineInd, Exclusive
<1>1. Bounded'
  <2>1. 1..counter \subseteq 1..counter' /\ (counter + 1)..counter' \subseteq 1..counter'
    BY <1>0
  <2>2. \A x \in Writers : Own(x)' \subseteq 1..counter'
    <3>1. Own(w)' \subseteq 1..counter'
      BY <1>a, <2>1
    <3> QED
      BY <1>a, <2>1, <3>1
  <2>3. (unusedFeed \cup lost)' \subseteq 1..counter' /\ unanswered' \subseteq 1..counter'
    BY <1>a, <2>1
  <2>4. \A d \in Docs : doc'[d].seq <= counter'
    BY <1>0, <1>a
  <2> QED
    BY <2>2, <2>3, <2>4 DEF Bounded
<1>2. Exclusive'
  <2>0. /\ \A x \in Writers : Own(x) \cap (counter + 1)..counter' = {}
        /\ \A d \in Docs : doc[d].seq \notin (counter + 1)..counter'
    BY <1>0, <1>a
  <2>1. \A x \in Writers : x # w => /\ Own(x)' \cap Own(w)' = {}
                                    /\ Own(x)' \cap (unusedFeed \cup lost)' = {}
    BY <1>b, <2>0
  <2>2. \A u, x \in Writers : u # x => Own(u)' \cap Own(x)' = {}
    BY <1>b, <2>1
  <2>3. \A d \in Docs : doc'[d].seq \notin (Own(w)' \cup (unusedFeed \cup lost)') \ unanswered
    BY <1>b, <2>0
  <2>4. \A x \in Writers : (reserved[x] \cap (HeldSequences(x) \cup unanswered))' = {}
    BY <1>a, <1>b
  <2>5. \A x \in Writers : (Own(x) \cap (unusedFeed \cup lost))' = {}
    BY <2>1
  <2>6. \A d \in Docs, x \in Writers : doc'[d].seq \notin (Own(x) \ unanswered)'
    BY <1>a, <1>b, <2>3
  <2>7. \A d \in Docs : doc'[d].seq \notin ((unusedFeed \cup lost) \ unanswered)'
    BY <1>a, <2>3
  <2>8. \A d, e \in Docs : doc'[d].seq = doc'[e].seq => d = e \/ doc'[d].seq = 0
    BY <1>b
  <2> QED
    BY <2>2, <2>4, <2>5, <2>6, <2>7, <2>8 DEF Exclusive
<1>3. Custody'
  <2> SUFFICES ASSUME NEW s \in (StartSeq + 1)..counter', s \notin Settled',
                      s \notin (lost \cup unusedFeed \cup pruned)',
                      \A x \in Writers : s \notin Own(x)'
               PROVE  \E d \in Docs : s \in Range(doc'[d].recent)
    BY DEF Custody
  <2>1. s \notin Own(w) \cup unusedFeed \cup lost \cup (counter + 1)..counter'
    OBVIOUS
  <2>2. \A x \in Writers : s \notin Own(x)
    BY <2>1
  <2>3. s \in (StartSeq + 1)..counter
    BY <1>0, <2>1
  <2>4. s \notin Settled
    BY <1>0
  <2> QED
    BY <1>a, <2>1, <2>2, <2>3, <2>4 DEF PipelineInd, Custody
<1> QED
  BY <1>1, <1>2, <1>3

(* The same when no sequence moves but from unusedFeed to the cache.       *)
LEMMA Consumed ==
    ASSUME PipelineInd, [PipelineNext]_pvars,
           UNCHANGED <<doc, writer, reserved, lost, unanswered, pruned, counter>>,
           unusedFeed' \subseteq unusedFeed, unusedFeed \ unusedFeed' \subseteq Settled'
    PROVE  Bounded' /\ Exclusive' /\ Custody'
<1>0. Settled \subseteq Settled'
  BY CacheKept
<1>1. \A x \in Writers : Own(x)' = Own(x) /\ HeldSequences(x)' = HeldSequences(x)
  BY DEF Own, HeldSequences
<1>2. Bounded'
  BY <1>1 DEF PipelineInd, Bounded
<1>3. Exclusive'
  BY <1>1 DEF PipelineInd, Exclusive
<1>4. Custody'
  BY <1>0, <1>1 DEF PipelineInd, Custody
<1> QED
  BY <1>2, <1>3, <1>4

(* A writer, and a document, that a step leaves alone.                     *)
LEMMA WriterKept ==
    ASSUME UNCHANGED <<doc, unanswered>>, NEW x \in Writers, WriterOK(x), writer'[x] = writer[x]
    PROVE  WriterOK(x)'
BY DEF WriterOK

(* A document whose version, feed and handler a step leaves alone.         *)
LEMMA DocumentKept ==
    ASSUME Settled \subseteq Settled', NEW d \in Docs, DocumentOK(d), FeedOK(d),
           doc'[d] = doc[d], feed'[d] = feed[d], handler'[d] = handler[d]
    PROVE  DocumentOK(d)' /\ FeedOK(d)'
<1>1. DocumentOK(d)'
  BY DEF DocumentOK
<1>2. \A s, k : InHandler(d, k, s) => InHandler(d, k, s)'
  BY DEF InHandler
<1>3. Overlooked(d)' = Overlooked(d) /\ CurrentSequence(doc[d])' = CurrentSequence(doc[d])
  BY DEF Overlooked, CurrentSequence
<1>4. FeedOK(d)'
  BY <1>2, <1>3 DEF FeedOK
<1> QED
  BY <1>1, <1>4

----------------------------------------------------------------------------
(* Document updates.                                                       *)
WriterRecord == [pc : {"idle", "read", "draw", "write"}, doc : Docs \cup {NoDoc},
                 base : Version, seq : 0..MaxSeq, unused : Seq(Seqs)]

(* A step of writer w that leaves the documents alone keeps the invariant  *)
(* if w's sequences are accounted for and w is in a proper state.          *)
LEMMA WriterStep ==
    ASSUME PipelineInd, [PipelineNext]_pvars, UNCHANGED <<doc, feed, handler, history>>,
           counter' >= counter, faults' \in 0..MaxFaults,
           unusedFeed' \subseteq Seqs, lost' \subseteq Seqs,
           NEW w \in Writers, \E v \in WriterRecord : writer' = [writer EXCEPT ![w] = v],
           \E r \in SUBSET Seqs : reserved' = [reserved EXCEPT ![w] = r],
           (reserved[w] \cap (HeldSequences(w) \cup unanswered))' = {},
           Own(w)' \cap (unusedFeed \cup lost)' = {},
           Own(w)' \cup (unusedFeed \cup lost)'
               = Own(w) \cup (unusedFeed \cup lost) \cup (counter + 1)..counter',
           WriterOK(w)'
    PROVE  PipelineInd'
<1>1. \A x \in Writers : x # w => writer'[x] = writer[x] /\ reserved'[x] = reserved[x]
  BY DEF PipelineInd, PipelineTypeOK
<1>2. PipelineTypeOK'
  <2>1. TypeOK'
    BY CacheKept
  <2>2. writer' \in [Writers -> WriterRecord] /\ reserved' \in [Writers -> SUBSET Seqs]
    BY DEF PipelineInd, PipelineTypeOK, WriterRecord
  <2> QED
    BY <2>1, <2>2 DEF PipelineInd, PipelineTypeOK, WriterRecord, history
<1>3. \A x \in Writers : x # w => Own(x)' = Own(x) /\ HeldSequences(x)' = HeldSequences(x)
                                   /\ reserved'[x] = reserved[x]
  BY <1>1 DEF Own, HeldSequences
<1>4. Bounded' /\ Exclusive' /\ Custody'
  BY <1>2, <1>3, Transfer
<1>5. \A x \in Writers : WriterOK(x)'
  BY <1>1, WriterKept DEF PipelineInd, history
<1>6. \A d \in Docs : DocumentOK(d)' /\ FeedOK(d)'
  BY CacheKept, DocumentKept DEF PipelineInd
<1> QED
  BY <1>2, <1>4, <1>5, <1>6, CacheKept DEF PipelineInd

(* What is known of a writer's state.                                      *)
LEMMA WriterFacts ==
    ASSUME PipelineInd, NEW w \in Writers
    PROVE  /\ writer[w] \in WriterRecord /\ reserved[w] \in SUBSET Seqs
           /\ writer = [writer EXCEPT ![w] = writer[w]]
           /\ reserved = [reserved EXCEPT ![w] = reserved[w]]
           /\ HeldSequences(w) = Range(writer[w].unused) \cup ({writer[w].seq} \ {0})
           /\ Own(w) = reserved[w] \cup HeldSequences(w)
           /\ reserved[w] \cap (HeldSequences(w) \cup unanswered) = {}
           /\ Own(w) \cap (unusedFeed \cup lost) = {}
           /\ Own(w) \subseteq 1..counter /\ unusedFeed \cup lost \subseteq 1..counter
           /\ unanswered \subseteq 1..counter
           /\ unusedFeed \subseteq Seqs /\ lost \subseteq Seqs /\ faults \in 0..MaxFaults
           /\ counter \in Nat /\ counter <= MaxSeq /\ MaxSeq \in Nat /\ WriterOK(w)
           /\ HeldSequences(w) \subseteq Seqs
<1>1. /\ writer[w] \in WriterRecord /\ reserved[w] \in SUBSET Seqs
      /\ unusedFeed \subseteq Seqs /\ lost \subseteq Seqs /\ faults \in 0..MaxFaults
  BY DEF PipelineInd, PipelineTypeOK, WriterRecord
<1>2. /\ writer = [writer EXCEPT ![w] = writer[w]]
      /\ reserved = [reserved EXCEPT ![w] = reserved[w]]
  BY DEF PipelineInd, PipelineTypeOK
<1>3. counter \in 0..MaxSeq /\ MaxSeq \in Nat
  BY ChangeCacheAssumption DEF PipelineInd, IndInv, TypeOK
<1>4. /\ HeldSequences(w) = Range(writer[w].unused) \cup ({writer[w].seq} \ {0})
      /\ Own(w) = reserved[w] \cup HeldSequences(w)
  BY DEF HeldSequences, Own
<1>5. /\ reserved[w] \cap (HeldSequences(w) \cup unanswered) = {}
      /\ Own(w) \cap (unusedFeed \cup lost) = {} /\ unanswered \subseteq 1..counter
      /\ Own(w) \subseteq 1..counter /\ unusedFeed \cup lost \subseteq 1..counter
  BY DEF PipelineInd, Exclusive, Bounded
<1>6. 1..counter \subseteq Seqs
  BY <1>3 DEF Seqs
<1> QED
  BY <1>1, <1>2, <1>3, <1>4, <1>5, <1>6 DEF PipelineInd

(* The state of a writer between updates.                                  *)
LEMMA IdleRecord ==
    /\ IdleWriter \in WriterRecord /\ IdleWriter.pc = "idle"
    /\ IdleWriter.unused = <<>> /\ IdleWriter.seq = 0
    /\ Range(IdleWriter.unused) \cup ({IdleWriter.seq} \ {0}) = {}
<1>1. 0 \in 0..MaxSeq /\ <<>> \in Seq(Seqs)
  BY ChangeCacheAssumption
<1>2. NoVersion \in Version
  BY <1>1 DEF NoVersion, Version
<1>3. /\ IdleWriter \in WriterRecord /\ IdleWriter.pc = "idle"
      /\ IdleWriter.unused = <<>> /\ IdleWriter.seq = 0
  BY <1>1, <1>2 DEF IdleWriter, WriterRecord
<1> QED
  BY <1>3 DEF Range

(* The sequences a writer has after a step that sets its state.            *)
LEMMA NewlyHeld ==
    ASSUME PipelineInd, NEW w \in Writers, NEW v, NEW r,
           writer' = [writer EXCEPT ![w] = v], reserved' = [reserved EXCEPT ![w] = r]
    PROVE  /\ writer'[w] = v /\ reserved'[w] = r
           /\ HeldSequences(w)' = Range(v.unused) \cup ({v.seq} \ {0})
           /\ Own(w)' = r \cup HeldSequences(w)'
<1>1. writer'[w] = v /\ reserved'[w] = r
  BY DEF PipelineInd, PipelineTypeOK
<1> QED
  BY <1>1 DEF HeldSequences, Own

(* A batch goes from the counter to the reservation.                       *)
LEMMA ReserveStep ==
    ASSUME PipelineInd, PipelineNext, NEW w \in Writers, NEW n \in 1..MaxReserve,
           ReserveSequences(w, n)
    PROVE  PipelineInd'
<1> DEFINE r == (counter + 1)..(counter + n)
<1>0. MaxReserve \in Nat
  BY PipelineAssumption
<1>1. /\ reserved[w] = {} /\ counter' = counter + n /\ counter + n <= MaxSeq
      /\ reserved' = [reserved EXCEPT ![w] = r]
      /\ UNCHANGED <<doc, writer, lost, history, unanswered, faults, feed, unusedFeed, handler>>
  BY DEF ReserveSequences, feedVars, history
<1>2. r \in SUBSET Seqs /\ counter' >= counter
  BY <1>0, <1>1, WriterFacts DEF Seqs
<1>3. WriterOK(w)'
  BY <1>1, WriterFacts, WriterKept
<1>4. r \cap 1..counter = {} /\ r = (counter + 1)..counter'
  BY <1>0, <1>1, WriterFacts
<1> HIDE DEF r
<1>5. writer' = [writer EXCEPT ![w] = writer[w]]
  BY <1>1, WriterFacts
<1>6. HeldSequences(w)' = HeldSequences(w) /\ reserved'[w] = r /\ Own(w)' = r \cup HeldSequences(w)
  <2>1. HeldSequences(w)' = HeldSequences(w)
    BY <1>1 DEF HeldSequences
  <2>2. reserved'[w] = r
    BY <1>1 DEF PipelineInd, PipelineTypeOK
  <2> QED
    BY <2>1, <2>2 DEF Own
<1>7. /\ (reserved[w] \cap (HeldSequences(w) \cup unanswered))' = {}
      /\ Own(w)' \cap (unusedFeed \cup lost)' = {}
      /\ Own(w)' \cup (unusedFeed \cup lost)'
             = Own(w) \cup (unusedFeed \cup lost) \cup (counter + 1)..counter'
  BY <1>1, <1>4, <1>6, WriterFacts
<1> QED
  BY <1>1, <1>2, <1>3, <1>5, <1>7, WriterFacts, WriterStep

(* An update begins with no sequence.                                      *)
LEMMA StartStep ==
    ASSUME PipelineInd, PipelineNext, NEW w \in Writers, NEW d \in Docs, StartUpdate(w, d)
    PROVE  PipelineInd'
<1>1. /\ writer[w].pc = "idle"
      /\ UNCHANGED <<doc, reserved, lost, history, unanswered, faults, feed, unusedFeed, handler, counter>>
  BY DEF StartUpdate, feedVars, vars, history
<1>2. PICK v : v = [IdleWriter EXCEPT !.pc = "read", !.doc = d]
  OBVIOUS
<1>3. v \in WriterRecord /\ v.unused = <<>> /\ v.seq = 0 /\ v.pc = "read" /\ v.doc = d
  <2>1. IdleWriter \in WriterRecord /\ IdleWriter.unused = <<>> /\ IdleWriter.seq = 0
    BY IdleRecord
  <2> QED
    BY <1>2, <2>1 DEF WriterRecord
<1>4. writer' = [writer EXCEPT ![w] = v] /\ reserved' = [reserved EXCEPT ![w] = reserved[w]]
  BY <1>1, <1>2, WriterFacts DEF StartUpdate
<1>5. /\ writer'[w] = v /\ HeldSequences(w)' = {} /\ HeldSequences(w) = {}
      /\ reserved'[w] = reserved[w] /\ Own(w)' = reserved[w]
  <2>1. /\ writer'[w] = v /\ reserved'[w] = reserved[w]
        /\ HeldSequences(w)' = Range(v.unused) \cup ({v.seq} \ {0})
        /\ Own(w)' = reserved[w] \cup HeldSequences(w)'
    BY <1>4, NewlyHeld
  <2>2. Range(v.unused) \cup ({v.seq} \ {0}) = {}
    BY <1>3 DEF Range
  <2>3. HeldSequences(w) = {}
    BY <1>1, WriterFacts DEF WriterOK, Range
  <2> QED
    BY <2>1, <2>2, <2>3
<1>6. WriterOK(w)'
  <2>1. 0 \notin unanswered'
    BY <1>1, WriterFacts
  <2> QED
    BY <1>3, <1>5, <2>1 DEF WriterOK, Range
<1>7. counter' >= counter /\ (counter + 1)..counter' = {}
  BY <1>1, WriterFacts
<1>8. /\ (reserved[w] \cap (HeldSequences(w) \cup unanswered))' = {}
      /\ Own(w)' \cap (unusedFeed \cup lost)' = {}
      /\ Own(w)' \cup (unusedFeed \cup lost)'
             = Own(w) \cup (unusedFeed \cup lost) \cup (counter + 1)..counter'
  BY <1>1, <1>5, <1>7, WriterFacts
<1> QED
  BY <1>1, <1>3, <1>4, <1>6, <1>7, <1>8, WriterFacts, WriterStep

(* The sequences of an update stay with it when it is retried.             *)
LEMMA ReadStep ==
    ASSUME PipelineInd, PipelineNext, NEW w \in Writers, ReadDoc(w)
    PROVE  PipelineInd'
<1> DEFINE q == writer[w]
           base == doc[q.doc]
<1>1. /\ q.pc = "read"
      /\ UNCHANGED <<doc, reserved, lost, history, unanswered, faults, feed, unusedFeed, handler, counter>>
  BY DEF ReadDoc, feedVars, vars, history
<1>2. /\ q \in WriterRecord /\ q.doc \in Docs /\ base \in Version /\ base.seq \in 0..MaxSeq
      /\ q.seq \in 0..MaxSeq /\ q.unused \in Seq(Seqs) /\ MaxSeq \in Nat
      /\ \A u \in Range(q.unused) : u <= base.seq
      /\ q.seq \in unanswered => q.seq <= base.seq
  <2>1. q \in WriterRecord /\ WriterOK(w) /\ MaxSeq \in Nat
    BY WriterFacts
  <2>2. /\ q.doc \in Docs /\ \A u \in Range(q.unused) : u <= base.seq
        /\ q.seq \in unanswered => q.seq <= base.seq
    BY <1>1, <2>1 DEF WriterOK
  <2>3. base \in Version
    BY <2>2 DEF PipelineInd, PipelineTypeOK
  <2> QED
    BY <2>1, <2>2, <2>3 DEF WriterRecord, Version
<1>3. PICK v : v = [pc     |-> IF q.seq > base.seq THEN "write" ELSE "draw",
                    doc    |-> q.doc,
                    base   |-> base,
                    seq    |-> IF q.seq > base.seq THEN q.seq ELSE 0,
                    unused |-> IF q.seq > base.seq \/ q.seq = 0 THEN q.unused
                                                               ELSE Append(q.unused, q.seq)]
  OBVIOUS
<1>4. writer' = [writer EXCEPT ![w] = v] /\ reserved' = [reserved EXCEPT ![w] = reserved[w]]
  BY <1>1, <1>3, WriterFacts DEF ReadDoc
<1>5. /\ v \in WriterRecord /\ v.doc = q.doc /\ v.base = base /\ v.pc \in {"draw", "write"}
      /\ Range(v.unused) \cup ({v.seq} \ {0}) = Range(q.unused) \cup ({q.seq} \ {0})
      /\ \A u \in Range(v.unused) : u <= base.seq
      /\ v.pc = "draw" => v.seq = 0
      /\ v.pc = "write" => v.seq > base.seq
  <2>1. CASE q.seq > base.seq
    <3>1. v \in WriterRecord /\ v.doc = q.doc /\ v.base = base /\ v.pc = "write"
          /\ v.seq = q.seq /\ v.unused = q.unused
      BY <1>2, <1>3, <2>1 DEF WriterRecord
    <3> QED
      BY <1>2, <2>1, <3>1
  <2>2. CASE q.seq <= base.seq /\ q.seq > 0
    <3>1. q.seq \in Seqs /\ Append(q.unused, q.seq) \in Seq(Seqs)
          /\ Range(Append(q.unused, q.seq)) = Range(q.unused) \cup {q.seq}
      BY SMTT(30), <1>2, <2>2, RangeAppend DEF Seqs
    <3>3. v \in WriterRecord /\ v.doc = q.doc /\ v.base = base /\ v.pc = "draw"
          /\ v.seq = 0 /\ v.unused = Append(q.unused, q.seq)
      BY <1>2, <1>3, <2>2, <3>1 DEF WriterRecord
    <3>4. Range(v.unused) \cup ({v.seq} \ {0}) = Range(q.unused) \cup ({q.seq} \ {0})
      BY <2>2, <3>1, <3>3
    <3>5. \A u \in Range(v.unused) : u <= base.seq
      BY <1>2, <2>2, <3>1, <3>3
    <3> QED
      BY <3>3, <3>4, <3>5
  <2>3. CASE q.seq <= base.seq /\ ~(q.seq > 0)
    <3>1. q.seq = 0 /\ ~(q.seq > base.seq)
      BY <1>2, <2>3
    <3>2. v \in WriterRecord /\ v.doc = q.doc /\ v.base = base /\ v.pc = "draw"
          /\ v.seq = 0 /\ v.unused = q.unused
      BY <1>2, <1>3, <3>1 DEF WriterRecord
    <3> QED
      BY <1>2, <3>1, <3>2
  <2> QED
    BY <1>2, <2>1, <2>2, <2>3
<1> HIDE DEF q, base
<1>6. /\ writer'[w] = v /\ reserved'[w] = reserved[w]
      /\ HeldSequences(w)' = Range(v.unused) \cup ({v.seq} \ {0})
      /\ Own(w)' = reserved[w] \cup HeldSequences(w)'
  BY <1>4, NewlyHeld
<1>7. HeldSequences(w)' = HeldSequences(w) /\ Own(w)' = Own(w)
  BY <1>5, <1>6, WriterFacts DEF q
<1>8. WriterOK(w)'
  <2>1. doc'[v.doc] = base
    BY <1>1, <1>5 DEF base
  <2>2. v.seq \notin unanswered'
    <3>1. 0 \notin unanswered' /\ unanswered' = unanswered
      BY <1>1, WriterFacts
    <3>2. v.seq = 0 \/ (v.seq = q.seq /\ v.seq > base.seq)
      BY <1>3, <1>5
    <3> QED
      BY <1>2, <3>1, <3>2
  <2> QED
    BY <1>2, <1>5, <1>6, <2>1, <2>2 DEF WriterOK
<1>9. counter' >= counter /\ (counter + 1)..counter' = {}
  BY <1>1, WriterFacts
<1>10. /\ (reserved[w] \cap (HeldSequences(w) \cup unanswered))' = {}
       /\ Own(w)' \cap (unusedFeed \cup lost)' = {}
       /\ Own(w)' \cup (unusedFeed \cup lost)'
              = Own(w) \cup (unusedFeed \cup lost) \cup (counter + 1)..counter'
  BY <1>1, <1>6, <1>7, <1>9, WriterFacts
<1> QED
  BY <1>1, <1>4, <1>5, <1>8, <1>9, <1>10, WriterFacts, WriterStep

(* A sequence goes to the update, or is released as too low.               *)
LEMMA DrawStep ==
    ASSUME PipelineInd, PipelineNext, NEW w \in Writers, DrawSequence(w)
    PROVE  PipelineInd'
<1>1. /\ writer[w].pc = "draw" /\ writer[w].seq = 0
      /\ UNCHANGED <<doc, lost, history, unanswered, faults, feed, handler>>
  BY WriterFacts DEF DrawSequence, WriterOK, history
<1>2. PICK s \in Seqs :
        /\ IF reserved[w] = {}
           THEN s = counter + 1 /\ counter' = s /\ UNCHANGED reserved
           ELSE /\ s \in reserved[w] /\ counter' = counter
                /\ reserved' = [reserved EXCEPT ![w] = @ \ {s}]
        /\ IF s > writer[w].base.seq
           THEN /\ writer' = [writer EXCEPT ![w].pc = "write", ![w].seq = s]
                /\ UNCHANGED unusedFeed
           ELSE unusedFeed' = unusedFeed \cup {s} /\ UNCHANGED writer
  BY DEF DrawSequence
<1>0. s \in Nat /\ s # 0 /\ s \in 0..MaxSeq
  BY ChangeCacheAssumption DEF Seqs
<1>3. /\ reserved' = [reserved EXCEPT ![w] = reserved[w] \ {s}] /\ counter' >= counter
      /\ reserved[w] \cup (counter + 1)..counter' = (reserved[w] \ {s}) \cup {s}
      /\ s \notin HeldSequences(w) \cup unusedFeed \cup lost
      /\ reserved[w] \ {s} \in SUBSET Seqs
  <2>1. CASE reserved[w] = {}
    <3>1. /\ s = counter + 1 /\ counter' = s /\ reserved' = reserved
          /\ (counter + 1)..counter' = {s}
      BY <1>2, <2>1, WriterFacts
    <3>2. s \notin 1..counter
      BY <3>1, WriterFacts
    <3> QED
      BY <2>1, <3>1, <3>2, WriterFacts
  <2>2. CASE reserved[w] # {}
    <3>1. /\ s \in reserved[w] /\ counter' = counter
          /\ reserved' = [reserved EXCEPT ![w] = @ \ {s}] /\ (counter + 1)..counter' = {}
      BY <1>2, <2>2, WriterFacts
    <3> QED
      BY <3>1, WriterFacts
  <2> QED
    BY <2>1, <2>2
<1>6. s \notin unanswered' /\ (reserved[w] \ {s}) \cap unanswered' = {}
  BY <1>1, <1>2, WriterFacts
<1>4. CASE s > writer[w].base.seq
  <2>1. PICK v : v = [writer[w] EXCEPT !.pc = "write", !.seq = s]
    OBVIOUS
  <2>2. v \in WriterRecord /\ v.pc = "write" /\ v.seq = s /\ v.doc = writer[w].doc
        /\ v.base = writer[w].base /\ v.unused = writer[w].unused
    BY ZenonT(30), <1>0, <2>1, WriterFacts DEF WriterRecord
  <2>3. writer' = [writer EXCEPT ![w] = v] /\ unusedFeed' = unusedFeed
    BY <1>2, <1>4, <2>1
  <2>4. /\ writer'[w] = v /\ reserved'[w] = reserved[w] \ {s}
        /\ HeldSequences(w)' = Range(v.unused) \cup ({v.seq} \ {0})
        /\ Own(w)' = (reserved[w] \ {s}) \cup HeldSequences(w)'
    BY <1>3, <2>3, NewlyHeld
  <2>5. HeldSequences(w)' = HeldSequences(w) \cup {s}
    BY <1>0, <1>1, <2>2, <2>4, WriterFacts
  <2>6. WriterOK(w)'
    BY SMTT(30), <1>1, <1>4, <1>6, <2>2, <2>4, WriterFacts DEF WriterOK
  <2>7. /\ (reserved[w] \cap (HeldSequences(w) \cup unanswered))' = {}
        /\ Own(w)' \cap (unusedFeed \cup lost)' = {}
        /\ Own(w)' \cup (unusedFeed \cup lost)'
               = Own(w) \cup (unusedFeed \cup lost) \cup (counter + 1)..counter'
    <3>1. (reserved[w] \cap (HeldSequences(w) \cup unanswered))' = {}
      BY <1>6, <2>4, <2>5, WriterFacts
    <3>2. Own(w)' \cap (unusedFeed \cup lost)' = {}
      BY <1>1, <1>3, <2>3, <2>4, <2>5, WriterFacts
    <3>3. Own(w)' \cup (unusedFeed \cup lost)'
               = Own(w) \cup (unusedFeed \cup lost) \cup (counter + 1)..counter'
      BY <1>1, <1>3, <2>3, <2>4, <2>5, WriterFacts
    <3> QED
      BY <3>1, <3>2, <3>3
  <2> QED
    BY <1>1, <1>3, <2>2, <2>3, <2>6, <2>7, WriterFacts, WriterStep
<1>5. CASE ~(s > writer[w].base.seq)
  <2>1. unusedFeed' = unusedFeed \cup {s} /\ writer' = writer
        /\ writer' = [writer EXCEPT ![w] = writer[w]]
    BY <1>2, <1>5, WriterFacts
  <2>2. HeldSequences(w)' = HeldSequences(w) /\ reserved'[w] = reserved[w] \ {s}
        /\ Own(w)' = (reserved[w] \ {s}) \cup HeldSequences(w)
    <3>1. HeldSequences(w)' = HeldSequences(w)
      BY <2>1 DEF HeldSequences
    <3>2. reserved'[w] = reserved[w] \ {s}
      BY <1>3 DEF PipelineInd, PipelineTypeOK
    <3> QED
      BY <3>1, <3>2 DEF Own
  <2>3. WriterOK(w)'
    BY <1>1, <2>1, WriterKept, WriterFacts
  <2>4. /\ (reserved[w] \cap (HeldSequences(w) \cup unanswered))' = {}
        /\ Own(w)' \cap (unusedFeed \cup lost)' = {}
        /\ Own(w)' \cup (unusedFeed \cup lost)'
               = Own(w) \cup (unusedFeed \cup lost) \cup (counter + 1)..counter'
    <3>1. (reserved[w] \cap (HeldSequences(w) \cup unanswered))' = {}
      BY <1>6, <2>2, WriterFacts
    <3>2. Own(w)' \cap (unusedFeed \cup lost)' = {}
      BY <1>1, <1>3, <2>1, <2>2, WriterFacts
    <3>3. Own(w)' \cup (unusedFeed \cup lost)'
               = Own(w) \cup (unusedFeed \cup lost) \cup (counter + 1)..counter'
      BY ZenonT(30), <1>1, <1>3, <2>1, <2>2, WriterFacts
    <3> QED
      BY <3>1, <3>2, <3>3
  <2> QED
    BY <1>1, <1>3, <2>1, <2>3, <2>4, WriterFacts, WriterStep
<1> QED
  BY <1>4, <1>5

(* The CAS of WriteDoc fails: the update callback will run again.          *)
LEMMA RetryStep ==
    ASSUME PipelineInd, PipelineNext, NEW w \in Writers, WriteDoc(w),
           doc[writer[w].doc].seq # writer[w].base.seq
    PROVE  PipelineInd'
<1>1. /\ writer[w].pc = "write" /\ writer' = [writer EXCEPT ![w].pc = "read"]
      /\ UNCHANGED <<doc, reserved, lost, history, unanswered, faults, feed, unusedFeed, handler, counter>>
  BY DEF WriteDoc, Store, vars, history
<1>2. PICK v : v = [writer[w] EXCEPT !.pc = "read"]
  OBVIOUS
<1>3. v \in WriterRecord /\ v.pc = "read" /\ v.seq = writer[w].seq /\ v.doc = writer[w].doc
      /\ v.unused = writer[w].unused
  BY <1>2, WriterFacts DEF WriterRecord
<1>4. writer' = [writer EXCEPT ![w] = v] /\ reserved' = [reserved EXCEPT ![w] = reserved[w]]
  BY <1>1, <1>2, WriterFacts
<1>5. /\ writer'[w] = v /\ reserved'[w] = reserved[w]
      /\ HeldSequences(w)' = Range(v.unused) \cup ({v.seq} \ {0})
      /\ Own(w)' = reserved[w] \cup HeldSequences(w)'
  BY <1>4, NewlyHeld
<1>6. HeldSequences(w)' = HeldSequences(w) /\ Own(w)' = Own(w)
  BY <1>3, <1>5, WriterFacts
<1>7. WriterOK(w)'
  BY <1>1, <1>3, <1>5, WriterFacts DEF WriterOK
<1>8. counter' >= counter /\ (counter + 1)..counter' = {}
  BY <1>1, WriterFacts
<1>9. /\ (reserved[w] \cap (HeldSequences(w) \cup unanswered))' = {}
      /\ Own(w)' \cap (unusedFeed \cup lost)' = {}
      /\ Own(w)' \cup (unusedFeed \cup lost)'
             = Own(w) \cup (unusedFeed \cup lost) \cup (counter + 1)..counter'
  BY <1>1, <1>5, <1>6, <1>8, WriterFacts
<1> QED
  BY <1>1, <1>3, <1>4, <1>7, <1>8, <1>9, WriterFacts, WriterStep

(* AbortUpdate and Crash: what the writer has goes to unusedFeed or lost.  *)
LEMMA GiveUpStep ==
    ASSUME PipelineInd, PipelineNext, NEW w \in Writers, AbortUpdate(w) \/ Crash(w)
    PROVE  PipelineInd'
<1>1. /\ writer' = [writer EXCEPT ![w] = IdleWriter]
      /\ UNCHANGED <<doc, feed, handler, counter, history, unanswered>>
  BY DEF AbortUpdate, Crash, vars, feedVars, history
<1>2. /\ counter' >= counter /\ (counter + 1)..counter' = {} /\ faults' \in 0..MaxFaults
  <2>1. faults \in 0..MaxFaults /\ MaxFaults \in Nat
    BY WriterFacts, PipelineAssumption
  <2>2. faults' \in 0..MaxFaults
    BY <2>1 DEF AbortUpdate, Crash
  <2> QED
    BY <1>1, <2>2, WriterFacts
<1>3. PICK r \in SUBSET Seqs :
        /\ reserved' = [reserved EXCEPT ![w] = r]
        /\ r \cap (unusedFeed \cup lost)' = {}
        /\ r \cup (unusedFeed \cup lost)' = Own(w) \cup (unusedFeed \cup lost)
        /\ r \cap unanswered = {}
        /\ unusedFeed' \subseteq Seqs /\ lost' \subseteq Seqs
  <2>1. CASE AbortUpdate(w)
    <3>1. reserved' = [reserved EXCEPT ![w] = reserved[w]]
          /\ unusedFeed' = unusedFeed \cup HeldSequences(w) /\ lost' = lost
      BY <2>1, WriterFacts DEF AbortUpdate
    <3>2. /\ reserved[w] \in SUBSET Seqs /\ reserved[w] \cap (unusedFeed \cup lost)' = {}
          /\ reserved[w] \cup (unusedFeed \cup lost)' = Own(w) \cup (unusedFeed \cup lost)
          /\ reserved[w] \cap unanswered = {}
          /\ unusedFeed' \subseteq Seqs /\ lost' \subseteq Seqs
      BY <3>1, WriterFacts
    <3> QED
      BY <3>1, <3>2
  <2>2. CASE Crash(w)
    <3>1. reserved' = [reserved EXCEPT ![w] = {}]
          /\ unusedFeed' = unusedFeed /\ lost' = lost \cup HeldSequences(w) \cup reserved[w]
      BY <2>2 DEF Crash, feedVars
    <3>2. /\ {} \in SUBSET Seqs /\ {} \cap (unusedFeed \cup lost)' = {}
          /\ {} \cup (unusedFeed \cup lost)' = Own(w) \cup (unusedFeed \cup lost)
          /\ unusedFeed' \subseteq Seqs /\ lost' \subseteq Seqs
      BY <3>1, WriterFacts
    <3> QED
      BY <3>1, <3>2
  <2> QED
    BY <2>1, <2>2
<1>4. /\ writer'[w] = IdleWriter /\ reserved'[w] = r
      /\ HeldSequences(w)' = Range(IdleWriter.unused) \cup ({IdleWriter.seq} \ {0})
      /\ Own(w)' = r \cup HeldSequences(w)'
  BY <1>1, <1>3, NewlyHeld
<1>5. HeldSequences(w)' = {} /\ Own(w)' = r
  BY <1>4, IdleRecord
<1>6. WriterOK(w)'
  BY <1>4, IdleRecord DEF WriterOK
<1>7. /\ (reserved[w] \cap (HeldSequences(w) \cup unanswered))' = {}
      /\ Own(w)' \cap (unusedFeed \cup lost)' = {}
      /\ Own(w)' \cup (unusedFeed \cup lost)'
             = Own(w) \cup (unusedFeed \cup lost) \cup (counter + 1)..counter'
  <2>1. (reserved[w] \cap (HeldSequences(w) \cup unanswered))' = {}
    BY <1>1, <1>3, <1>4, <1>5
  <2> QED
    BY <1>2, <1>3, <1>5, <2>1
<1> QED
  BY <1>1, <1>2, <1>3, <1>6, <1>7, IdleRecord, WriterStep

(* The version that is stored when the CAS succeeds: what it no longer     *)
(* lists of the recent sequences is settled, if the writer is a local one. *)
LEMMA StoredVersion ==
    ASSUME PipelineInd, PipelineNext, NEW w \in Writers, writer[w].pc = "write",
           NEW next \in NodeSequences(w), doc[writer[w].doc].seq = writer[w].base.seq
    PROVE  /\ writer[w].doc \in Docs /\ writer[w].seq \in Seqs
           /\ writer[w].seq > doc[writer[w].doc].seq
           /\ NewVersion(w, next) \in Version /\ NewVersion(w, next).seq = writer[w].seq
           /\ NewVersion(w, next).unused = writer[w].unused
           /\ HeldSequences(w) \subseteq Range(NewVersion(w, next).recent)
           /\ Range(NewVersion(w, next).unused) \subseteq Range(NewVersion(w, next).recent)
           /\ \A s \in Range(NewVersion(w, next).recent) : s <= writer[w].seq
           /\ writer[w].seq \notin unanswered
           /\ \A s \in Range(doc[writer[w].doc].recent) :
                 s > StartSeq /\ w \in LocalWriters => s \in Range(NewVersion(w, next).recent) \cup Settled
<1> DEFINE q == writer[w]
           base == doc[q.doc]
           old == PruneRecent(base.recent, next)
<1>1. /\ q.pc = "write" /\ q.doc \in Docs /\ q.base = base /\ q.seq > base.seq
      /\ \A u \in Range(q.unused) : u <= base.seq
      /\ q.seq \in unanswered => q.seq <= base.seq
  BY WriterFacts DEF WriterOK
<1>2. /\ q.unused \in Seq(Seqs) /\ q.seq \in 0..MaxSeq /\ MaxSeq \in Nat
      /\ base.recent \in Seq(Seqs) /\ base.seq \in 0..MaxSeq
      /\ \A s \in Range(base.recent) : s <= base.seq
  <2>1. base \in Version
    BY <1>1 DEF PipelineInd, PipelineTypeOK
  <2>2. q \in WriterRecord /\ MaxSeq \in Nat
    BY WriterFacts
  <2>3. \A s \in Range(base.recent) : s <= base.seq
    BY <1>1 DEF PipelineInd, DocumentOK
  <2> QED
    BY <2>1, <2>2, <2>3 DEF Version, WriterRecord
<1>3. /\ nextSequence \in Nat /\ StartSeq \in Nat /\ next \in Nat
      /\ w \in LocalWriters => next <= nextSequence
      /\ \A s \in (StartSeq + 1)..(nextSequence - 1) : s \in Settled
  BY CacheKept DEF NodeSequences
<1>4. /\ old \in Seq(Seqs) /\ Range(old) \subseteq Range(base.recent)
      /\ \A s \in Range(base.recent) : s \in Range(old) \/ s < next
  BY <1>2, <1>3, Pruned
<1>5. q.seq \in Seqs
  BY <1>1, <1>2 DEF Seqs
<1>6. NewVersion(w, next) = [seq |-> q.seq, unused |-> q.unused, recent |-> old \o q.unused \o <<q.seq>>]
  BY <1>1 DEF NewVersion
<1> HIDE DEF old
<1>7. /\ old \o q.unused \o <<q.seq>> \in Seq(Seqs)
      /\ Range(old \o q.unused \o <<q.seq>>) = Range(old) \cup Range(q.unused) \cup {q.seq}
  <2>1. PICK e : e = old \o q.unused
    OBVIOUS
  <2>2. e \in Seq(Seqs) /\ Range(e) = Range(old) \cup Range(q.unused)
    BY <1>2, <1>4, <2>1, RangeConcat
  <2>3. PICK f : f = <<q.seq>>
    OBVIOUS
  <2>4. f \in Seq(Seqs) /\ Range(f) = {q.seq}
    BY <1>5, <2>3, RangeSmall
  <2>5. e \o f \in Seq(Seqs) /\ Range(e \o f) = Range(e) \cup Range(f)
    BY <2>2, <2>4, RangeConcat
  <2> QED
    BY <2>1, <2>2, <2>3, <2>4, <2>5
<1>8. PICK rec : rec = old \o q.unused \o <<q.seq>>
  OBVIOUS
<1>9. /\ NewVersion(w, next) \in Version /\ NewVersion(w, next).seq = q.seq
      /\ NewVersion(w, next).unused = q.unused /\ NewVersion(w, next).recent = rec
  BY SMTT(30), <1>2, <1>6, <1>7, <1>8 DEF Version
<1>10. Range(rec) = Range(old) \cup Range(q.unused) \cup {q.seq}
  BY <1>7, <1>8
<1>11. \A s \in Range(rec) : s <= q.seq
  <2>1. \A s \in Range(rec) : s \in Seqs
    BY <1>2, <1>4, <1>5, <1>10, RangeSeq
  <2> QED
    BY <1>1, <1>2, <1>4, <1>10, <2>1 DEF Seqs
<1>12. ASSUME NEW s \in Range(base.recent), s > StartSeq, w \in LocalWriters,
             s \notin Range(rec)
       PROVE  s \in Settled
  <2>1. s \in Nat /\ s < next
    BY SMTT(30), <1>2, <1>4, <1>10, <1>12, RangeSeq, ChangeCacheAssumption DEF Seqs
  <2>2. s \in (StartSeq + 1)..(nextSequence - 1)
    BY SMTT(30), <1>3, <1>12, <2>1
  <2> QED
    BY <1>3, <2>2
<1>13. HeldSequences(w) \subseteq Range(rec)
  BY <1>10, WriterFacts
<1>14. q.seq \notin unanswered
  BY <1>1, <1>2
<1> QED
  BY <1>1, <1>5, <1>9, <1>10, <1>11, <1>12, <1>13, <1>14

(* The version is stored: its sequences are in the recent ones.  Without   *)
(* an answer, its writer has them still.                                   *)
LEMMA StoreStep ==
    ASSUME PipelineInd, PipelineNext, NEW w \in Writers, writer[w].pc = "write", Store(w),
           UNCHANGED <<vars, reserved, lost, unusedFeed, handler>>, faults' \in 0..MaxFaults,
           NEW v, writer' = [writer EXCEPT ![w] = v],
           \/ v = IdleWriter /\ unanswered' = unanswered
           \/ /\ v = [writer[w] EXCEPT !.pc = "read"]
              /\ unanswered' = unanswered \cup {writer[w].seq}
    PROVE  PipelineInd'
<1>0. PICK next \in NodeSequences(w) :
        /\ doc[writer[w].doc].seq = writer[w].base.seq
        /\ doc' = [doc EXCEPT ![writer[w].doc] = NewVersion(w, next)]
        /\ feed' = [feed EXCEPT ![writer[w].doc] = Append(@, NewVersion(w, next))]
        /\ pruned' = IF w \in LocalWriters THEN pruned
                     ELSE pruned \cup (Range(doc[writer[w].doc].recent)
                                         \ Range(NewVersion(w, next).recent))
  BY DEF Store
<1> DEFINE d == writer[w].doc
           n == NewVersion(w, next)
           s0 == writer[w].seq
<1>1. /\ doc' = [doc EXCEPT ![d] = n] /\ feed' = [feed EXCEPT ![d] = Append(@, n)]
      /\ writer' = [writer EXCEPT ![w] = v]
      /\ UNCHANGED <<reserved, lost, unusedFeed, handler, counter>>
      /\ pruned' = IF w \in LocalWriters THEN pruned
                   ELSE pruned \cup (Range(doc[d].recent) \ Range(n.recent))
  BY <1>0 DEF vars
<1>2. /\ d \in Docs /\ s0 \in Seqs /\ s0 > doc[d].seq /\ n \in Version /\ n.seq = s0
      /\ n.unused = writer[w].unused /\ HeldSequences(w) \subseteq Range(n.recent)
      /\ Range(n.unused) \subseteq Range(n.recent)
      /\ \A s \in Range(n.recent) : s <= s0
      /\ s0 \notin unanswered
      /\ \A s \in Range(doc[d].recent) :
            s > StartSeq /\ w \in LocalWriters => s \in Range(n.recent) \cup Settled
  BY <1>0, StoredVersion
<1>a. /\ v \in WriterRecord
      /\ \/ v = IdleWriter /\ unanswered' = unanswered
         \/ /\ v.pc = "read" /\ v.doc = d /\ v.seq = s0 /\ v.unused = writer[w].unused
            /\ unanswered' = unanswered \cup {s0}
  BY WriterFacts, IdleRecord DEF WriterRecord
<1> HIDE DEF d, n, s0
<1>3. /\ doc \in [Docs -> Version] /\ writer \in [Writers -> WriterRecord]
      /\ feed \in [Docs -> Seq(Version)]
  BY DEF PipelineInd, PipelineTypeOK, WriterRecord
<1>4. /\ doc'[d] = n /\ feed'[d] = Append(feed[d], n) /\ writer'[w] = v
      /\ \A e \in Docs : e # d => doc'[e] = doc[e] /\ feed'[e] = feed[e]
      /\ \A x \in Writers : x # w => writer'[x] = writer[x]
  BY <1>1, <1>2, <1>3
<1>5. s0 \in HeldSequences(w) /\ s0 \in Nat /\ s0 # 0 /\ \A e \in Docs : doc[e].seq \in Nat
  <2>1. s0 \in Nat /\ s0 # 0
    BY <1>2, ChangeCacheAssumption DEF Seqs
  <2>2. s0 \in HeldSequences(w)
    BY <2>1 DEF HeldSequences, s0
  <2>3. \A e \in Docs : doc[e].seq \in Nat
    BY <1>3, ChangeCacheAssumption DEF Version
  <2> QED
    BY <2>1, <2>2, <2>3
<1>6. PipelineTypeOK'
  <2>1. TypeOK'
    BY CacheKept
  <2>2. doc' \in [Docs -> Version] /\ feed' \in [Docs -> Seq(Version)]
    <3>1. Append(feed[d], n) \in Seq(Version)
      BY <1>2, <1>3, AppendProperties
    <3> QED
      BY <1>1, <1>2, <1>3, <3>1
  <2>3. writer' \in [Writers -> WriterRecord]
    BY <1>1, <1>3, <1>a
  <2>4. unanswered' \subseteq Seqs /\ pruned' \subseteq Seqs
    <3>1. Range(doc[d].recent) \subseteq Seqs
      BY <1>2, <1>3, RangeSeq DEF Version
    <3> QED
      BY <1>1, <1>2, <1>a, <3>1 DEF PipelineInd, PipelineTypeOK
  <2> QED
    BY <1>1, <2>1, <2>2, <2>3, <2>4 DEF PipelineInd, PipelineTypeOK, WriterRecord
<1>7. /\ HeldSequences(w)' \in {{}, HeldSequences(w)}
      /\ unanswered' = unanswered => HeldSequences(w)' = {}
      /\ Own(w)' = reserved[w] \cup HeldSequences(w)'
      /\ \A x \in Writers : x # w => Own(x)' = Own(x) /\ HeldSequences(x)' = HeldSequences(x)
  <2>1. /\ HeldSequences(w)' \in {{}, HeldSequences(w)}
        /\ unanswered' = unanswered => HeldSequences(w)' = {}
    <3>1. CASE v = IdleWriter
      BY <1>4, <3>1, IdleRecord DEF HeldSequences
    <3>2. CASE v # IdleWriter
      <4>1. HeldSequences(w)' = HeldSequences(w) /\ unanswered' # unanswered
        BY <1>2, <1>4, <1>a, <3>2 DEF HeldSequences, s0
      <4> QED
        BY <4>1
    <3> QED
      BY <3>1, <3>2
  <2>2. \A x \in Writers : x # w => HeldSequences(x)' = HeldSequences(x)
    BY <1>4 DEF HeldSequences
  <2> QED
    BY <1>1, <2>1, <2>2 DEF Own
<1>8. /\ \A x \in Writers : Own(x)' \subseteq Own(x) /\ s0 \notin Own(x)' \ unanswered'
      /\ \A x \in Writers : s0 \notin reserved[x]
      /\ s0 \notin unusedFeed \cup lost /\ \A e \in Docs : s0 # doc[e].seq
  <2>0. s0 \in Own(w) /\ s0 \notin reserved[w]
    BY <1>5, WriterFacts
  <2>1. /\ \A x \in Writers : Own(x)' \subseteq Own(x) /\ s0 \notin Own(x)' \ unanswered'
        /\ \A x \in Writers : s0 \notin reserved[x]
    <3>1. Own(w)' \subseteq Own(w) /\ s0 \notin Own(w)' \ unanswered'
      <4>1. CASE unanswered' = unanswered
        BY <1>7, <2>0, <4>1, WriterFacts
      <4>2. CASE s0 \in unanswered'
        BY <1>7, <4>2, WriterFacts
      <4> QED
        BY <1>a, <4>1, <4>2
    <3>2. \A x \in Writers : x # w => Own(x) \cap Own(w) = {}
      BY DEF PipelineInd, Exclusive
    <3> QED
      BY <1>7, <2>0, <3>1, <3>2 DEF Own
  <2>2. s0 \notin unusedFeed \cup lost /\ \A e \in Docs : s0 # doc[e].seq
    BY <1>2, <2>0 DEF PipelineInd, Exclusive
  <2> QED
    BY <2>1, <2>2
<1>9. Bounded'
  <2>1. s0 <= counter
    BY <1>5, WriterFacts
  <2>2. s0 \in 1..counter
    BY <1>5, <2>1, WriterFacts
  <2> QED
    BY <1>1, <1>2, <1>4, <1>8, <1>a, <2>1, <2>2 DEF PipelineInd, Bounded
<1>10. Exclusive'
  <2>1. \A u, x \in Writers : u # x => Own(u)' \cap Own(x)' = {}
    BY <1>8 DEF PipelineInd, Exclusive
  <2>0. unanswered' \subseteq unanswered \cup {s0} /\ unanswered \subseteq unanswered'
    BY <1>a
  <2>2. \A x \in Writers : (reserved[x] \cap (HeldSequences(x) \cup unanswered))' = {}
    BY <1>1, <1>7, <1>8, <2>0 DEF PipelineInd, Exclusive
  <2>3. \A x \in Writers : (Own(x) \cap (unusedFeed \cup lost))' = {}
    BY <1>1, <1>8 DEF PipelineInd, Exclusive
  <2>4. \A e \in Docs, x \in Writers : doc'[e].seq \notin (Own(x) \ unanswered)'
    BY <1>2, <1>4, <1>8, <2>0 DEF PipelineInd, Exclusive
  <2>5. \A e \in Docs : doc'[e].seq \notin ((unusedFeed \cup lost) \ unanswered)'
    BY <1>1, <1>2, <1>4, <1>8, <2>0 DEF PipelineInd, Exclusive
  <2>6. \A e, f \in Docs : doc'[e].seq = doc'[f].seq => e = f \/ doc'[e].seq = 0
    BY <1>2, <1>4, <1>8 DEF PipelineInd, Exclusive
  <2> QED
    BY <2>1, <2>2, <2>3, <2>4, <2>5, <2>6 DEF Exclusive
<1>11. Custody'
  <2> SUFFICES ASSUME NEW s \in (StartSeq + 1)..counter, s \notin Settled',
                      s \notin lost \cup unusedFeed \cup pruned',
                      \A x \in Writers : s \notin Own(x)'
               PROVE  \E e \in Docs : s \in Range(doc'[e].recent)
    BY <1>1 DEF Custody
  <2>0. s \notin Settled /\ s > StartSeq /\ s \notin pruned
    BY <1>1, CacheKept
  <2>1. CASE \E x \in Writers : s \in Own(x)
    <3>1. s \in HeldSequences(w)
      BY <1>7, <2>1 DEF Own
    <3> QED
      BY <1>2, <1>4, <3>1
  <2>2. CASE \E e \in Docs : s \in Range(doc[e].recent)
    BY <1>1, <1>2, <1>4, <2>0, <2>2
  <2> QED
    BY <2>0, <2>1, <2>2 DEF PipelineInd, Custody
<1>12. ASSUME NEW x \in Writers PROVE WriterOK(x)'
  <2>1. CASE x = w
    <3>1. CASE v = IdleWriter
      BY <1>4, <2>1, <3>1, IdleRecord DEF WriterOK
    <3>2. CASE v # IdleWriter
      <4>1. doc'[d].seq = s0 /\ \A u \in Range(v.unused) : u <= s0
        BY <1>2, <1>4, <1>a, <3>2
      <4>2. s0 <= s0
        BY <1>5
      <4> QED
        BY <1>2, <1>4, <1>a, <2>1, <3>2, <4>1, <4>2 DEF WriterOK
    <3> QED
      BY <3>1, <3>2
  <2>2. CASE x # w
    <3>0. /\ WriterOK(x) /\ writer[x] \in WriterRecord /\ writer'[x] = writer[x]
          /\ writer[x].seq \in unanswered' => writer[x].seq \in unanswered
      <4>1. WriterOK(x) /\ writer[x] \in WriterRecord /\ writer'[x] = writer[x]
        BY <1>3, <1>4, <2>2 DEF PipelineInd
      <4>2. writer[x].seq # s0
        <5>1. writer[x].seq = s0 => s0 \in Own(x) /\ s0 \in Own(w)
          BY <1>5 DEF Own, HeldSequences
        <5> QED
          BY <2>2, <5>1 DEF PipelineInd, Exclusive
      <4> QED
        BY <1>a, <4>1, <4>2
    <3>1. CASE writer[x].doc # d \/ writer[x].pc = "idle"
      <4>1. writer[x].pc # "idle" => doc'[writer[x].doc] = doc[writer[x].doc]
        BY <1>4, <3>0, <3>1 DEF WriterOK
      <4> QED
        BY <3>0, <4>1 DEF WriterOK
    <3>2. CASE writer[x].doc = d /\ writer[x].pc # "idle"
      <4>1. /\ \A u \in Range(writer[x].unused) : u \in Nat /\ u <= doc[d].seq
            /\ writer[x].base.seq \in Nat /\ writer[x].seq \in Nat
            /\ writer[x].seq \in unanswered' => writer[x].seq <= doc[d].seq
        <5>1. writer[x].unused \in Seq(Seqs) /\ writer[x].base.seq \in Nat /\ writer[x].seq \in Nat
          BY <3>0, ChangeCacheAssumption DEF WriterRecord, Version
        <5>2. \A u \in Range(writer[x].unused) : u \in Nat
          BY <5>1, RangeSeq, ChangeCacheAssumption DEF Seqs
        <5> QED
          BY <3>0, <3>2, <5>1, <5>2 DEF WriterOK
      <4>2. doc[d].seq \in Nat /\ doc'[d].seq = s0 /\ s0 > doc[d].seq
        BY <1>2, <1>4, <1>5
      <4>3. writer[x].pc \in {"draw", "write"} => writer[x].base.seq <= doc[d].seq
        BY <3>0, <3>2 DEF WriterOK
      <4>4. /\ \A u \in Range(writer[x].unused) : u <= s0
            /\ writer[x].seq \in unanswered' => writer[x].seq <= s0
            /\ writer[x].pc \in {"draw", "write"} => writer[x].base.seq < s0
        BY <1>5, <4>1, <4>2, <4>3
      <4>5. ~(s0 < s0) /\ \A b \in Nat : b < s0 => b <= s0 /\ b # s0
        BY <1>5
      <4> QED
        BY <1>2, <3>0, <3>2, <4>1, <4>2, <4>4, <4>5 DEF WriterOK
    <3> QED
      BY <3>1, <3>2
  <2> QED
    BY <2>1, <2>2
<1>13. ASSUME NEW e \in Docs PROVE DocumentOK(e)' /\ FeedOK(e)'
  <2>1. CASE e = d
    <3>0. doc'[e] = n /\ feed'[e] = Append(feed[d], n)
      BY <1>4, <2>1
    <3>1. DocumentOK(e)'
      BY <1>2, <3>0 DEF DocumentOK
    <3>2. feed'[e] # <<>> /\ feed'[e][Len(feed'[e])] = n
      <4>1. feed[d] \in Seq(Version)
        BY <1>2, <1>3
      <4>2. /\ Append(feed[d], n) # <<>> /\ Len(Append(feed[d], n)) = Len(feed[d]) + 1
            /\ Append(feed[d], n)[Len(feed[d]) + 1] = n
        BY <1>2, <4>1, AppendProperties
      <4> QED
        BY <3>0, <4>2
    <3>3. FeedOK(e)'
      BY <3>0, <3>2 DEF FeedOK
    <3> QED
      BY <3>1, <3>3
  <2>2. CASE e # d
    BY <1>1, <1>4, <2>2, CacheKept, DocumentKept DEF PipelineInd
  <2> QED
    BY <2>1, <2>2
<1> QED
  BY <1>6, <1>9, <1>10, <1>11, <1>12, <1>13, CacheKept DEF PipelineInd

----------------------------------------------------------------------------
(* The feed.                                                               *)

(* A step of the feed, its handlers or the cache keeps the invariant if    *)
(* what it takes off unusedFeed is settled and every document's feed is in *)
(* order.                                                                  *)
LEMMA FeedStep ==
    ASSUME PipelineInd, [PipelineNext]_pvars, UNCHANGED <<writeVars, counter>>,
           unusedFeed' \subseteq unusedFeed, unusedFeed \ unusedFeed' \subseteq Settled',
           feed' \in [Docs -> Seq(Version)], handler' \in [Docs -> Seq(Call)],
           \A d \in Docs : FeedOK(d)'
    PROVE  PipelineInd'
<1>1. UNCHANGED <<doc, writer, reserved, lost, unanswered, pruned, faults>>
  BY DEF writeVars, history
<1>2. PipelineTypeOK'
  BY <1>1, CacheKept DEF PipelineInd, PipelineTypeOK
<1>3. Bounded' /\ Exclusive' /\ Custody'
  BY <1>1, Consumed
<1>4. \A w \in Writers : WriterOK(w)'
  BY <1>1, WriterKept DEF PipelineInd
<1>5. \A d \in Docs : DocumentOK(d)'
  BY <1>1 DEF PipelineInd, DocumentOK
<1> QED
  BY <1>2, <1>3, <1>4, <1>5, CacheKept DEF PipelineInd

(* What is known of a document's feed.                                     *)
LEMMA FeedFacts ==
    ASSUME PipelineInd, NEW d \in Docs
    PROVE  /\ feed \in [Docs -> Seq(Version)] /\ handler \in [Docs -> Seq(Call)]
           /\ feed[d] \in Seq(Version) /\ handler[d] \in Seq(Call)
           /\ doc[d] \in Version /\ doc[d].seq \in Nat
           /\ doc[d].unused \in Seq(Seqs) /\ doc[d].recent \in Seq(Seqs)
           /\ FeedOK(d) /\ DocumentOK(d) /\ initialSequence = StartSeq
           /\ StartSeq \in Nat /\ counter \in Nat /\ Seqs \subseteq Nat
<1>1. /\ feed \in [Docs -> Seq(Version)] /\ handler \in [Docs -> Seq(Call)]
      /\ doc[d] \in Version
  BY DEF PipelineInd, PipelineTypeOK
<1>2. doc[d].seq \in Nat /\ doc[d].unused \in Seq(Seqs) /\ doc[d].recent \in Seq(Seqs)
  BY <1>1, ChangeCacheAssumption DEF Version
<1>3. StartSeq \in Nat /\ counter \in Nat /\ Seqs \subseteq Nat
  BY ChangeCacheAssumption DEF PipelineInd, IndInv, TypeOK, Seqs
<1> QED
  BY <1>1, <1>2, <1>3 DEF PipelineInd, Running

(* The current version is never dropped from the feed.                     *)
LEMMA DeduplicateStep ==
    ASSUME PipelineInd, PipelineNext, NEW d \in Docs, Deduplicate(d)
    PROVE  PipelineInd'
<1>1. PICK i \in 1..(Len(feed[d]) - 1) : feed' = [feed EXCEPT ![d] = RemoveAt(@, i)]
  BY DEF Deduplicate
<1>2. UNCHANGED <<writeVars, counter, unusedFeed, handler, doc>>
  BY DEF Deduplicate, vars, writeVars
<1>3. PICK f : f = RemoveAt(feed[d], i)
  OBVIOUS
<1>4. f \in Seq(Version) /\ f # <<>> /\ f[Len(f)] = feed[d][Len(feed[d])] /\ feed[d] # <<>>
  <2>1. feed[d] \in Seq(Version)
    BY FeedFacts
  <2>2. feed[d] # <<>>
    <3>1. feed[d] = <<>> => Len(feed[d]) = 0
      BY EmptySeq
    <3> QED
      BY <3>1
  <2> QED
    BY <1>3, <2>1, <2>2, RemoveInner
<1>5. /\ feed' = [feed EXCEPT ![d] = f] /\ feed' \in [Docs -> Seq(Version)]
      /\ feed'[d] = f /\ \A e \in Docs : e # d => feed'[e] = feed[e]
  BY <1>1, <1>3, <1>4, FeedFacts
<1>6. ASSUME NEW e \in Docs PROVE FeedOK(e)'
  <2>1. CASE e = d
    <3>1. feed[d][Len(feed[d])] = doc[d]
      BY <1>4, FeedFacts DEF FeedOK
    <3>2. feed'[d] # <<>> /\ feed'[d][Len(feed'[d])] = doc'[d]
      BY <1>2, <1>4, <1>5, <3>1
    <3> QED
      BY <2>1, <3>2 DEF FeedOK
  <2>2. CASE e # d
    BY <1>2, <1>5, <2>2, CacheKept, DocumentKept DEF PipelineInd
  <2> QED
    BY <2>1, <2>2
<1>7. handler' \in [Docs -> Seq(Call)]
  BY <1>2, FeedFacts
<1> QED
  BY <1>2, <1>5, <1>6, <1>7, FeedStep

(* The handler takes up all sequences of the version.                      *)
LEMMA DocChangedStep ==
    ASSUME PipelineInd, PipelineNext, NEW d \in Docs, DocChanged(d)
    PROVE  PipelineInd'
<1> DEFINE v == Head(feed[d])
<1>1. /\ handler[d] = <<>> /\ feed[d] # <<>> /\ feed' = [feed EXCEPT ![d] = Tail(@)]
      /\ handler' = [handler EXCEPT ![d] = IF v.seq <= initialSequence THEN <<>> ELSE Calls(v)]
      /\ UNCHANGED <<writeVars, counter, unusedFeed, doc>>
  BY DEF DocChanged, vars, writeVars
<1>2. /\ v \in Version /\ Tail(feed[d]) \in Seq(Version) /\ feed[d][Len(feed[d])] = doc[d]
      /\ Tail(feed[d]) # <<>> => Tail(feed[d])[Len(Tail(feed[d]))] = doc[d]
      /\ Tail(feed[d]) = <<>> => v = doc[d]
  <2>1. feed[d] \in Seq(Version) /\ feed[d][Len(feed[d])] = doc[d]
    BY <1>1, FeedFacts DEF FeedOK
  <2> QED
    BY <1>1, <2>1, RangeTail
<1>3. PICK h : h = IF v.seq <= initialSequence THEN <<>> ELSE Calls(v)
  OBVIOUS
<1>4. h \in Seq(Call)
  <2>1. v.seq \in Nat /\ initialSequence \in Nat
    BY SMTT(30), <1>2, FeedFacts, ChangeCacheAssumption DEF Version
  <2>2. CASE v.seq <= initialSequence
    BY <1>3, <2>2
  <2>3. CASE ~(v.seq <= initialSequence)
    <3>1. v.seq > 0
      BY <2>1, <2>3
    <3> HIDE DEF v
    <3> QED
      BY <1>2, <1>3, <2>3, <3>1, CallsOf
  <2> QED
    BY <2>2, <2>3
<1>5. /\ feed' \in [Docs -> Seq(Version)] /\ handler' \in [Docs -> Seq(Call)]
      /\ feed'[d] = Tail(feed[d]) /\ handler'[d] = h
      /\ \A e \in Docs : e # d => feed'[e] = feed[e] /\ handler'[e] = handler[e]
  <2> HIDE DEF v
  <2>1. handler' = [handler EXCEPT ![d] = h]
    BY <1>1, <1>3
  <2> QED
    BY <1>1, <1>2, <1>4, <2>1, FeedFacts
<1> HIDE DEF v
<1>6. FeedOK(d)'
  <2>1. CASE Tail(feed[d]) # <<>>
    BY <1>1, <1>2, <1>5, <2>1 DEF FeedOK
  <2>2. CASE Tail(feed[d]) = <<>>
    <3>0. v = doc[d] /\ doc'[d] = doc[d] /\ feed'[d] = <<>> /\ doc[d] \in Version
          /\ doc[d].seq \in Nat /\ StartSeq \in Nat
      BY <1>1, <1>2, <1>5, <2>2, FeedFacts
    <3>1. CASE doc[d].seq <= StartSeq
      <4>1. h = <<>>
        BY <1>3, <3>0, <3>1, FeedFacts
      <4>2. \A s \in Range(doc[d].recent) : s \in Nat /\ s <= doc[d].seq
        <5>1. \A s \in Range(doc[d].recent) : s \in Nat
          BY FeedFacts, RangeSeq
        <5> QED
          BY <5>1, FeedFacts DEF DocumentOK
      <4>3. \A s \in Range(doc[d].recent) : ~(s > StartSeq)
        BY <3>0, <3>1, <4>2
      <4>4. Range(doc[d].unused) \subseteq Range(doc[d].recent)
        BY FeedFacts DEF DocumentOK
      <4>5. ~(doc[d].seq > StartSeq) /\ Range(<<>>) = {}
        BY <3>0, <3>1 DEF Range
      <4> QED
        BY <1>5, <3>0, <4>1, <4>3, <4>4, <4>5 DEF FeedOK
    <3>2. CASE ~(doc[d].seq <= StartSeq)
      <4>1. h = Calls(doc[d]) /\ doc[d].seq > 0
        BY <1>3, <3>0, <3>2, FeedFacts
      <4>2. /\ \A s \in Range(doc[d].unused) : \E c \in Range(h) : c.seq = s /\ c.kind = "unused"
            /\ \A s \in Range(doc[d].recent) : \E c \in Range(h) : c.seq = s /\ c.kind = "recent"
            /\ \E c \in Range(h) : c.seq = doc[d].seq /\ c.kind = "doc"
            /\ \A c \in Range(h) : c.current = CurrentSequence(doc[d])
        BY <3>0, <4>1, CallsOf
      <4>3. CurrentSequence(doc[d])' = CurrentSequence(doc[d])
        BY <3>0 DEF CurrentSequence
      <4>4. /\ \A s \in Range(doc[d].unused) : InHandler(d, {"unused"}, s)'
            /\ \A s \in Range(doc[d].recent) : InHandler(d, {"unused", "recent", "doc"}, s)'
        BY <1>5, <4>2 DEF InHandler
      <4>5. InHandler(d, {"doc"}, doc[d].seq)'
        BY <1>5, <3>0, <4>2 DEF InHandler
      <4> QED
        BY <1>5, <3>0, <4>2, <4>3, <4>4, <4>5 DEF FeedOK
    <3> QED
      BY <3>1, <3>2
  <2> QED
    BY <2>1, <2>2
<1>7. \A e \in Docs : FeedOK(e)'
  <2>1. ASSUME NEW e \in Docs, e # d PROVE FeedOK(e)'
    BY <1>1, <1>5, <2>1, CacheKept, DocumentKept DEF PipelineInd
  <2> QED
    BY <1>6, <2>1
<1> QED
  BY <1>1, <1>5, <1>7, FeedStep

(* The handler of d is done with its first call, whose sequence is settled *)
(* (or was, at the call's check, none of the document's).                  *)
LEMMA CallDone ==
    ASSUME PipelineInd, [PipelineNext]_pvars, NEW d \in Docs,
           doc'[d] = doc[d], feed'[d] = feed[d],
           handler[d] # <<>>, handler'[d] = Tail(handler[d]),
           \/ Head(handler[d]).seq > StartSeq => Head(handler[d]).seq \in Settled'
           \/ /\ Head(handler[d]).kind = "recent"
              /\ Head(handler[d]).seq >= Head(handler[d]).current
    PROVE  FeedOK(d)'
<1>1. PICK c : c = Head(handler[d])
  OBVIOUS
<1>2. PICK T : T = Range(handler'[d])
  OBVIOUS
<1>3. c \in Call /\ Range(handler[d]) = {c} \cup T /\ c.seq \in Nat /\ c.current \in Nat
  <2>1. c \in Call /\ Range(handler[d]) = {c} \cup T
    BY <1>1, <1>2, FeedFacts, RangeTail
  <2> QED
    BY <2>1, FeedFacts DEF Call
<1>4. \A s, kinds : InHandler(d, kinds, s) <=> InHandler(d, kinds, s)' \/ (c.seq = s /\ c.kind \in kinds)
  BY <1>2, <1>3 DEF InHandler
<1>5. Overlooked(d)' = Overlooked(d) /\ CurrentSequence(doc[d])' = CurrentSequence(doc[d])
  BY DEF Overlooked, CurrentSequence
<1>6. Settled \subseteq Settled'
  BY CacheKept
<1>7. CASE feed[d] # <<>>
  BY <1>7, FeedFacts DEF FeedOK
<1>8. CASE feed[d] = <<>>
  <2>1. /\ \A k \in Range(handler[d]) : k.kind = "recent" => k.current = CurrentSequence(doc[d])
        /\ \A s \in Range(doc[d].recent) : s > StartSeq =>
             s \in Settled \cup Overlooked(d) \/ InHandler(d, {"unused", "recent", "doc"}, s)
        /\ \A s \in Range(doc[d].unused) : s > StartSeq =>
             s \in Settled \/ InHandler(d, {"unused"}, s)
        /\ doc[d].seq > StartSeq => doc[d].seq \in Settled \/ InHandler(d, {"doc"}, doc[d].seq)
    BY <1>8, FeedFacts DEF FeedOK
  <2>2. \A k \in T : k.kind = "recent" => k.current = CurrentSequence(doc[d])
    BY <1>3, <2>1
  <2>3. \A s \in Range(doc[d].unused) : s > StartSeq => s \in Settled' \/ InHandler(d, {"unused"}, s)'
    <3> SUFFICES ASSUME NEW s \in Range(doc[d].unused), s > StartSeq, s \notin Settled'
                 PROVE  InHandler(d, {"unused"}, s)'
      OBVIOUS
    <3>1. InHandler(d, {"unused"}, s)
      BY <1>6, <2>1
    <3>2. ~(c.seq = s /\ c.kind = "unused")
      BY <1>1
    <3> QED
      BY <1>4, <3>1, <3>2
  <2>4. \A s : s = doc[d].seq /\ s > StartSeq => s \in Settled' \/ InHandler(d, {"doc"}, s)'
    <3> SUFFICES ASSUME NEW s, s = doc[d].seq, s > StartSeq, s \notin Settled'
                 PROVE  InHandler(d, {"doc"}, s)'
      OBVIOUS
    <3>1. InHandler(d, {"doc"}, s)
      BY <1>6, <2>1
    <3>2. ~(c.seq = s /\ c.kind = "doc")
      BY <1>1
    <3> QED
      BY <1>4, <3>1, <3>2
  <2>5. \A s \in Range(doc[d].recent) : s > StartSeq =>
             s \in Settled' \cup Overlooked(d) \/ InHandler(d, {"unused", "recent", "doc"}, s)'
    <3> SUFFICES ASSUME NEW s \in Range(doc[d].recent), s > StartSeq,
                        s \notin Settled' \cup Overlooked(d)
                 PROVE  InHandler(d, {"unused", "recent", "doc"}, s)'
      OBVIOUS
    <3>1. InHandler(d, {"unused", "recent", "doc"}, s)
      BY <1>6, <2>1
    <3>2. CASE c.seq # s
      BY <1>4, <3>1, <3>2
    <3>3. CASE c.seq = s
      <4>1. c.kind = "recent" /\ s >= CurrentSequence(doc[d]) /\ s \in Nat /\ s <= doc[d].seq
        <5>1. c.kind = "recent" /\ s >= c.current
          BY <1>1, <3>3
        <5>2. c.current = CurrentSequence(doc[d])
          BY <1>3, <2>1, <5>1
        <5>3. s \in Nat
          BY <1>3, <3>3
        <5> QED
          BY <5>1, <5>2, <5>3, FeedFacts DEF DocumentOK
      <4>2. CASE doc[d].unused = <<>>
        <5>1. s = doc[d].seq
          BY <4>1, <4>2, FeedFacts DEF CurrentSequence
        <5>2. InHandler(d, {"doc"}, s)'
          BY <2>4, <5>1
        <5> QED
          BY <5>2 DEF InHandler
      <4>3. CASE doc[d].unused # <<>>
        <5>0. Head(doc[d].unused) \in Range(doc[d].unused) /\ Head(doc[d].unused) \in Nat
          <6>1. Head(doc[d].unused) \in Seqs /\ Head(doc[d].unused) \in Range(doc[d].unused)
            BY <4>3, FeedFacts, RangeTail
          <6> QED
            BY <6>1, FeedFacts
        <5>1. s = Head(doc[d].unused)
          BY <4>1, <4>3, <5>0 DEF CurrentSequence, Overlooked
        <5>2. InHandler(d, {"unused"}, s)'
          BY <2>3, <5>0, <5>1
        <5> QED
          BY <5>2 DEF InHandler
      <4> QED
        BY <4>2, <4>3
    <3> QED
      BY <3>2, <3>3
  <2>6. doc'[d].seq > StartSeq => doc'[d].seq \in Settled' \/ InHandler(d, {"doc"}, doc[d].seq)'
    BY <2>4 DEF InHandler
  <2> QED
    BY <1>2, <1>5, <1>8, <2>2, <2>3, <2>5, <2>6 DEF FeedOK
<1> QED
  BY <1>7, <1>8

(* A recent sequence that is to be passed on.                              *)
LEMMA CallKept ==
    ASSUME PipelineInd, [PipelineNext]_pvars, NEW d \in Docs,
           doc'[d] = doc[d], feed'[d] = feed[d],
           handler[d] # <<>>, Head(handler[d]).kind = "recent",
           handler'[d] = <<[Head(handler[d]) EXCEPT !.kind = "unused"]>> \o Tail(handler[d])
    PROVE  FeedOK(d)' /\ handler'[d] \in Seq(Call)
<1>1. PICK c : c = Head(handler[d])
  OBVIOUS
<1>2. PICK T : T = Range(Tail(handler[d]))
  OBVIOUS
<1>3. c \in Call /\ Range(handler[d]) = {c} \cup T /\ Tail(handler[d]) \in Seq(Call)
  BY <1>1, <1>2, FeedFacts, RangeTail
<1>4. PICK k : k = [c EXCEPT !.kind = "unused"]
  OBVIOUS
<1>5. k \in Call /\ k.seq = c.seq /\ k.kind = "unused"
  BY <1>3, <1>4 DEF Call
<1>6. handler'[d] \in Seq(Call) /\ Range(handler'[d]) = {k} \cup T
  <2>1. PICK e : e = <<k>>
    OBVIOUS
  <2>2. e \in Seq(Call) /\ Range(e) = {k}
    BY <1>5, <2>1, RangeSmall
  <2>3. PICK r : r = Tail(handler[d])
    OBVIOUS
  <2>4. e \o r \in Seq(Call) /\ Range(e \o r) = Range(e) \cup Range(r)
    <3>1. e \in Seq(Call) /\ r \in Seq(Call)
      BY <1>3, <2>2, <2>3
    <3> QED
      BY <3>1, RangeConcat
  <2> QED
    BY <1>1, <1>2, <1>4, <2>1, <2>2, <2>3, <2>4
<1>7. /\ \A s : InHandler(d, {"unused"}, s) => InHandler(d, {"unused"}, s)'
      /\ \A s : InHandler(d, {"doc"}, s) => InHandler(d, {"doc"}, s)'
      /\ \A s : InHandler(d, {"unused", "recent", "doc"}, s)
                  => InHandler(d, {"unused", "recent", "doc"}, s)'
      /\ \A x \in Range(handler'[d]) : x.kind = "recent" => x \in Range(handler[d])
  BY <1>1, <1>3, <1>5, <1>6 DEF InHandler
<1>8. InHandler(d, {"doc"}, doc[d].seq) => InHandler(d, {"doc"}, doc[d].seq)'
  <2>1. \A s : s = doc[d].seq /\ InHandler(d, {"doc"}, s)' => InHandler(d, {"doc"}, doc[d].seq)'
    BY DEF InHandler
  <2> QED
    BY <1>7, <2>1
<1>9. Overlooked(d)' = Overlooked(d) /\ CurrentSequence(doc[d])' = CurrentSequence(doc[d])
  BY DEF Overlooked, CurrentSequence
<1>10. Settled \subseteq Settled'
  BY CacheKept
<1> QED
  BY <1>6, <1>7, <1>8, <1>9, <1>10, FeedFacts DEF FeedOK

(* A recent sequence is passed on, settled, or overlooked.                 *)
LEMMA CheckRecentStep ==
    ASSUME PipelineInd, PipelineNext, NEW d \in Docs, CheckRecent(d)
    PROVE  PipelineInd'
<1> DEFINE c == Head(handler[d])
<1>1. /\ handler[d] # <<>> /\ c.kind = "recent"
      /\ handler' = [handler EXCEPT ![d] =
             IF c.seq >= nextSequence /\ c.seq < c.current
             THEN <<[c EXCEPT !.kind = "unused"]>> \o Tail(@) ELSE Tail(@)]
      /\ UNCHANGED <<writeVars, counter, doc, feed, unusedFeed>>
  BY DEF CheckRecent, vars, writeVars
<1>2. c \in Call /\ c.seq \in Nat /\ c.current \in Nat /\ Tail(handler[d]) \in Seq(Call)
  <2>1. c \in Call /\ Tail(handler[d]) \in Seq(Call)
    BY <1>1, FeedFacts, HeadTailProperties
  <2> QED
    BY <2>1, FeedFacts DEF Call
<1>3. /\ handler'[d] = IF c.seq >= nextSequence /\ c.seq < c.current
                       THEN <<[c EXCEPT !.kind = "unused"]>> \o Tail(handler[d])
                       ELSE Tail(handler[d])
      /\ \A e \in Docs : e # d => handler'[e] = handler[e]
  BY <1>1, FeedFacts
<1>4. FeedOK(d)' /\ handler'[d] \in Seq(Call)
  <2>1. CASE c.seq >= nextSequence /\ c.seq < c.current
    BY <1>1, <1>3, <2>1, CallKept
  <2>2. CASE ~(c.seq >= nextSequence /\ c.seq < c.current)
    <3>0. handler'[d] = Tail(handler[d]) /\ handler'[d] \in Seq(Call)
      BY <1>2, <1>3, <2>2
    <3>1. /\ nextSequence \in Nat /\ StartSeq \in Nat /\ Settled \subseteq Settled'
          /\ \A s \in (StartSeq + 1)..(nextSequence - 1) : s \in Settled
      BY CacheKept
    <3>2. \/ c.seq > StartSeq => c.seq \in Settled'
          \/ c.kind = "recent" /\ c.seq >= c.current
      <4>1. CASE c.seq < nextSequence
        <5>1. c.seq > StartSeq => c.seq \in (StartSeq + 1)..(nextSequence - 1)
          BY <1>2, <3>1, <4>1
        <5> QED
          BY <3>1, <5>1
      <4>2. CASE c.seq >= c.current
        BY <1>1, <4>2
      <4> HIDE DEF c
      <4> QED
        BY <1>2, <2>2, <3>1, <4>1, <4>2
    <3> QED
      BY <1>1, <3>0, <3>2, CallDone
  <2> QED
    BY <2>1, <2>2
<1>5. \A e \in Docs : FeedOK(e)'
  <2>1. ASSUME NEW e \in Docs, e # d PROVE FeedOK(e)'
    BY <1>1, <1>3, <2>1, CacheKept, DocumentKept DEF PipelineInd
  <2> QED
    BY <1>4, <2>1
<1>6. handler' \in [Docs -> Seq(Call)] /\ feed' \in [Docs -> Seq(Version)]
  <2>1. \A e \in Docs : handler'[e] \in Seq(Call)
    BY <1>3, <1>4, FeedFacts
  <2>2. PICK h : handler' = [handler EXCEPT ![d] = h]
    BY <1>1
  <2> QED
    BY <1>1, <2>1, <2>2, FeedFacts
<1> QED
  BY <1>1, <1>5, <1>6, FeedStep

(* A call settles its sequence.                                            *)
LEMMA HandlerStepKept ==
    ASSUME PipelineInd, PipelineNext, NEW d \in Docs, HandlerStep(d)
    PROVE  PipelineInd'
<1> DEFINE c == Head(handler[d])
<1>1. /\ handler[d] # <<>> /\ FeedEntry(c.seq, c.kind = "doc")
      /\ handler' = [handler EXCEPT ![d] = Tail(@)]
      /\ UNCHANGED <<writeVars, doc, feed, unusedFeed>>
  BY DEF HandlerStep, writeVars
<1>2. UNCHANGED counter
  BY <1>1 DEF FeedEntry, ProcessEntry
<1>3. c.seq \in Seqs /\ Tail(handler[d]) \in Seq(Call)
  <2>1. c \in Call /\ Tail(handler[d]) \in Seq(Call)
    BY <1>1, FeedFacts, HeadTailProperties
  <2> QED
    BY <2>1 DEF Call
<1>4. c.seq \in Settled'
  BY <1>1, <1>3, FedIsSettled DEF PipelineInd
<1>5. /\ handler'[d] = Tail(handler[d]) /\ handler' \in [Docs -> Seq(Call)]
      /\ \A e \in Docs : e # d => handler'[e] = handler[e]
  BY <1>1, <1>3, FeedFacts
<1>6. FeedOK(d)'
  BY <1>1, <1>4, <1>5, CallDone
<1>7. \A e \in Docs : FeedOK(e)'
  <2>1. ASSUME NEW e \in Docs, e # d PROVE FeedOK(e)'
    BY <1>1, <1>5, <2>1, CacheKept, DocumentKept DEF PipelineInd
  <2> QED
    BY <1>6, <2>1
<1>8. feed' \in [Docs -> Seq(Version)]
  BY <1>1, FeedFacts
<1> QED
  BY <1>1, <1>2, <1>5, <1>7, <1>8, FeedStep

(* The unused sequence documents and the cache's own tasks.                *)
LEMMA CacheTaskStep ==
    ASSUME PipelineInd, [PipelineNext]_pvars, UNCHANGED <<writeVars, feed, handler, counter>>,
           unusedFeed' \subseteq unusedFeed, unusedFeed \ unusedFeed' \subseteq Settled'
    PROVE  PipelineInd'
<1>1. UNCHANGED doc
  BY DEF writeVars
<1>2. \A e \in Docs : FeedOK(e)'
  BY <1>1, CacheKept, DocumentKept DEF PipelineInd
<1>3. feed' \in [Docs -> Seq(Version)] /\ handler' \in [Docs -> Seq(Call)]
  BY DEF PipelineInd, PipelineTypeOK
<1> QED
  BY <1>2, <1>3, FeedStep

(* One lemma per action above: PipelineInd is preserved.                   *)
LEMMA PipelineStep == PipelineInd /\ [PipelineNext]_pvars => PipelineInd'
<1> SUFFICES ASSUME PipelineInd, [PipelineNext]_pvars PROVE PipelineInd'
  OBVIOUS
<1>1. ASSUME NEW w \in Writers, PipelineNext, WriteDoc(w) \/ WriteDocUnanswered(w)
      PROVE  PipelineInd'
  <2>1. CASE Store(w) /\ WriteDoc(w)
    <3>1. /\ writer[w].pc = "write" /\ UNCHANGED <<vars, reserved, lost, unusedFeed, handler>>
          /\ faults' \in 0..MaxFaults /\ unanswered' = unanswered
      BY <2>1, WriterFacts DEF WriteDoc
    <3>2. writer' = [writer EXCEPT ![w] = IdleWriter]
      BY <2>1 DEF WriteDoc, Store
    <3> QED
      BY <1>1, <2>1, <3>1, <3>2, StoreStep
  <2>2. CASE WriteDocUnanswered(w)
    <3>1. /\ writer[w].pc = "write" /\ UNCHANGED <<vars, reserved, lost, unusedFeed, handler>>
          /\ Store(w) /\ unanswered' = unanswered \cup {writer[w].seq}
          /\ writer' = [writer EXCEPT ![w] = [writer[w] EXCEPT !.pc = "read"]]
      BY <2>2 DEF WriteDocUnanswered
    <3>2. faults' \in 0..MaxFaults
      BY <2>2, WriterFacts, PipelineAssumption DEF WriteDocUnanswered
    <3> QED
      BY <1>1, <3>1, <3>2, StoreStep
  <2>3. CASE ~Store(w) /\ WriteDoc(w)
    BY <1>1, <2>3, RetryStep DEF WriteDoc
  <2> QED
    BY <1>1, <2>1, <2>2, <2>3
<1>2. ASSUME NEW s \in Seqs, ProcessUnusedSequence(s) PROVE PipelineInd'
  <2>1. /\ UNCHANGED <<writeVars, feed, handler>> /\ unusedFeed' = unusedFeed \ {s}
        /\ FeedEntry(s, FALSE)
    BY <1>2 DEF ProcessUnusedSequence
  <2>2. UNCHANGED counter
    BY <2>1 DEF FeedEntry, ProcessEntry
  <2>3. s \in Settled'
    BY <2>1, FedIsSettled DEF PipelineInd
  <2> QED
    BY <2>1, <2>2, <2>3, CacheTaskStep
<1>3. CASE CacheTask
  <2>1. UNCHANGED counter
    BY <1>3 DEF CacheTask, FinishLate, ExpirePending, InsertPendingEntries
  <2>2. UNCHANGED <<writeVars, feed, handler, unusedFeed>>
    BY SMTT(30), <1>3 DEF CacheTask, feedVars
  <2> QED
    BY <2>1, <2>2, CacheTaskStep
<1>4. CASE PipelineClean
  <2>1. UNCHANGED counter
    BY <1>4 DEF PipelineClean, CleanStart, CleanQuery, CleanQueryError, CleanProcess,
                CleanGetDocumentError, CleanFinish, cleanUnchanged, ProcessEntry
  <2>2. UNCHANGED <<writeVars, feed, handler, unusedFeed>>
    BY <1>4 DEF PipelineClean, feedVars
  <2> QED
    BY <2>1, <2>2, CacheTaskStep
<1>5. CASE UNCHANGED pvars
  <2>1. UNCHANGED <<writeVars, feed, handler, unusedFeed, counter>>
    BY <1>5 DEF pvars, vars, feedVars
  <2> QED
    BY <2>1, CacheTaskStep
<1>6. CASE PipelineNext /\ \E w \in Writers :
            \/ \E n \in 1..MaxReserve : ReserveSequences(w, n)
            \/ \E d \in Docs : StartUpdate(w, d)
            \/ ReadDoc(w) \/ DrawSequence(w) \/ WriteDoc(w)
            \/ WriteDocUnanswered(w) \/ AbortUpdate(w) \/ Crash(w)
  BY <1>1, <1>6, ReserveStep, StartStep, ReadStep, DrawStep, GiveUpStep
<1>7. CASE PipelineNext /\ \E d \in Docs :
            Deduplicate(d) \/ DocChanged(d) \/ CheckRecent(d) \/ HandlerStep(d)
  BY <1>7, DeduplicateStep, DocChangedStep, CheckRecentStep, HandlerStepKept
<1> QED
  BY <1>2, <1>3, <1>4, <1>5, <1>6, <1>7 DEF PipelineNext

(* The initial state satisfies it.                                         *)
LEMMA PipelineStart == PipelineInit => PipelineInd
<1> SUFFICES ASSUME PipelineInit PROVE PipelineInd
  OBVIOUS
<1>0. 0 \in 0..MaxSeq /\ 0 \in 0..MaxFaults /\ StartSeq \in Nat
  BY ChangeCacheAssumption, PipelineAssumption
<1>1. Init
  BY DEF PipelineInit
<1>2. IndInv /\ NotResynced
  BY <1>1, CacheStart, ChangeCacheAssumption DEF Init, NotResynced
<1>3. NoVersion \in Version /\ NoVersion.seq = 0 /\ NoVersion.recent = <<>>
      /\ NoVersion.unused = <<>>
  BY <1>0 DEF NoVersion, Version
<1>4. /\ \A d \in Docs : doc[d] = NoVersion /\ feed[d] = <<>> /\ handler[d] = <<>>
      /\ \A w \in Writers : writer[w] = IdleWriter /\ reserved[w] = {}
      /\ unusedFeed = {} /\ lost = {} /\ unanswered = {} /\ pruned = {}
      /\ faults = 0 /\ counter = StartSeq
  BY DEF PipelineInit, Init
<1>5. PipelineTypeOK
  <2>1. doc \in [Docs -> Version]
    BY <1>3 DEF PipelineInit
  <2>2. writer \in [Writers -> WriterRecord]
    BY IdleRecord DEF PipelineInit
  <2>3. /\ feed \in [Docs -> Seq(Version)] /\ handler \in [Docs -> Seq(Call)]
        /\ reserved \in [Writers -> SUBSET Seqs]
    BY DEF PipelineInit
  <2>4. TypeOK
    BY <1>2 DEF IndInv
  <2> QED
    BY <1>0, <1>4, <2>1, <2>2, <2>3, <2>4 DEF PipelineTypeOK, WriterRecord
<1>6. Running
  BY <1>1 DEF Init, Running
<1>7. \A w \in Writers : HeldSequences(w) = {} /\ Own(w) = {}
  BY <1>4, IdleRecord DEF HeldSequences, Own
<1>8. Bounded
  BY <1>0, <1>3, <1>4, <1>7 DEF Bounded
<1>9. Exclusive
  BY <1>3, <1>4, <1>7 DEF Exclusive
<1>10. Custody
  <2>1. (StartSeq + 1)..counter = {}
    BY <1>0, <1>4
  <2> QED
    BY <2>1 DEF Custody
<1>11. \A w \in Writers : WriterOK(w)
  BY <1>4, IdleRecord DEF WriterOK
<1>12. \A d \in Docs : DocumentOK(d) /\ FeedOK(d)
  <2>1. Range(<<>>) = {}
    BY DEF Range
  <2>2. ~(0 > StartSeq)
    BY <1>0
  <2> QED
    BY <1>3, <1>4, <2>1, <2>2 DEF DocumentOK, FeedOK
<1> QED
  BY <1>2, <1>5, <1>6, <1>8, <1>9, <1>10, <1>11, <1>12 DEF PipelineInd

----------------------------------------------------------------------------
(* PipelineInd is inductive.                                               *)
THEOREM PipelineInductive == PipelineSpec => []PipelineInd
BY PipelineStart, PipelineStep, PTL DEF PipelineSpec

(* A drained pipeline has leaked nothing: Custody says where a sequence    *)
(* can be, and FeedOK that what a document lists has been passed on.       *)
LEMMA NothingLeaks == PipelineInd => NoSequenceLeak
<1> SUFFICES ASSUME PipelineInd, Quiescent, NEW s \in Leaked
             PROVE  s \in pruned \/ \E d \in Docs : s \in Overlooked(d)
  BY DEF NoSequenceLeak
<1>1. /\ s \in (StartSeq + 1)..counter /\ s \notin Settled \cup lost
      /\ \A w \in Writers : s \notin reserved[w]
  BY DEF Leaked, Settled
<1>2. \A w \in Writers : HeldSequences(w) = {}
  <2>1. \A w \in Writers : writer[w].seq = 0 /\ writer[w].unused = <<>>
    BY DEF Quiescent, PipelineInd, WriterOK
  <2> QED
    BY <2>1 DEF HeldSequences, Range
<1> SUFFICES ASSUME s \notin pruned PROVE \E d \in Docs : s \in Overlooked(d)
  OBVIOUS
<1>3. PICK d \in Docs : s \in Range(doc[d].recent)
  BY <1>1, <1>2 DEF PipelineInd, Custody, Own, Quiescent
<1>4. s > StartSeq
  BY <1>1, ChangeCacheAssumption
<1>5. feed[d] = <<>> /\ Range(handler[d]) = {}
  <2>1. feed[d] = <<>> /\ handler[d] = <<>>
    BY DEF Quiescent
  <2> QED
    BY <2>1 DEF Range
<1>6. s \in Settled \cup Overlooked(d)
  BY <1>3, <1>4, <1>5 DEF PipelineInd, FeedOK, InHandler
<1> QED
  BY <1>1, <1>6

(* Sequences are neither used twice nor lost on their way from the counter *)
(* to the cache, for any number of writers and documents, reservation and  *)
(* pruning sizes, crashes, unanswered writes, and versions the feed drops. *)
THEOREM PipelineIsSafe == PipelineSpec => []PipelineSafe
<1>1. PipelineInd => PipelineTypeOK /\ PendingBlocked
  BY DEF PipelineInd, IndInv
<1>2. PipelineInd => SkippedMissing
  BY DEF PipelineInd, NotResynced, SkippedMissing
<1>3. PipelineInd => SequenceUsedOnce
  BY DEF PipelineInd, Exclusive, SequenceUsedOnce, Own
<1>4. PipelineInd => PipelineSafe
  BY <1>1, <1>2, <1>3, NothingLeaks DEF PipelineSafe
<1> QED
  BY <1>4, PipelineInductive, PTL

(* A stored version is only ever replaced by one with a higher sequence,   *)
(* whatever reservations and CAS retries its writer went through.          *)
THEOREM DocumentSequencesGrow == PipelineSpec => DocSequenceGrows
<1> DEFINE Grows == \A d \in Docs : doc'[d] # doc[d] => doc'[d].seq > doc[d].seq
<1>1. ASSUME PipelineInd, [PipelineNext]_pvars, NEW d \in Docs, doc'[d] # doc[d]
      PROVE  doc'[d].seq > doc[d].seq
  <2>1. PICK w \in Writers : PipelineNext /\ (WriteDoc(w) \/ WriteDocUnanswered(w))
    <3>1. UNCHANGED pvars => UNCHANGED doc
      BY DEF pvars, writeVars
    <3>2. \A w \in Writers :
            /\ \A n \in 1..MaxReserve : ReserveSequences(w, n) => UNCHANGED doc
            /\ \A e \in Docs : StartUpdate(w, e) => UNCHANGED doc
            /\ ReadDoc(w) \/ DrawSequence(w) \/ AbortUpdate(w) \/ Crash(w) => UNCHANGED doc
      BY DEF ReserveSequences, StartUpdate, ReadDoc, DrawSequence, AbortUpdate, Crash
    <3>3. \A e \in Docs : Deduplicate(e) \/ DocChanged(e) \/ CheckRecent(e) \/ HandlerStep(e)
                            => UNCHANGED doc
      BY DEF Deduplicate, DocChanged, CheckRecent, HandlerStep, writeVars
    <3>4. (\E s \in Seqs : ProcessUnusedSequence(s)) \/ CacheTask \/ PipelineClean => UNCHANGED doc
      BY DEF ProcessUnusedSequence, CacheTask, PipelineClean, writeVars
    <3> QED
      BY <1>1, <3>1, <3>2, <3>3, <3>4 DEF PipelineNext
  <2>2. /\ writer[w].pc = "write" /\ Store(w)
    BY <1>1, <2>1 DEF WriteDoc, WriteDocUnanswered
  <2>5. PICK next \in NodeSequences(w) :
          /\ doc[writer[w].doc].seq = writer[w].base.seq
          /\ doc' = [doc EXCEPT ![writer[w].doc] = NewVersion(w, next)]
    BY <2>2 DEF Store
  <2>3. NewVersion(w, next).seq > doc[writer[w].doc].seq /\ writer[w].doc \in Docs
    BY <1>1, <2>1, <2>2, <2>5, StoredVersion
  <2>4. d = writer[w].doc /\ doc'[d] = NewVersion(w, next)
    BY <1>1, <2>5, <2>3 DEF PipelineInd, PipelineTypeOK
  <2> QED
    BY <2>3, <2>4
<1>2. PipelineInd /\ [PipelineNext]_pvars => [Grows]_pvars
  BY <1>1
<1> HIDE DEF Grows
<1>3. PipelineSpec => [][Grows]_pvars
  BY <1>2, PipelineInductive, PTL DEF PipelineSpec
<1> QED
  BY <1>3 DEF Grows, DocSequenceGrows

=============================================================================
