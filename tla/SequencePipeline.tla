-------------------------- MODULE SequencePipeline --------------------------
(***************************************************************************)
(* The way of a sequence number from the bucket counter to the change      *)
(* cache: document updates (db/crud.go, updateAndReturnDoc) that allocate  *)
(* sequences and race on the document's CAS, the release of sequences      *)
(* that were not used (db/sequence_allocator.go), the mutation feed with   *)
(* its deduplication, and the feed handler DocChangedSynchronous           *)
(* (db/change_cache.go) on top of the buffering of module ChangeCache.     *)
(*                                                                         *)
(* A document version is its sequence, its unused sequences and its recent *)
(* sequences; the CAS of a version is identified with its sequence.  Each  *)
(* writer is a request on a Sync Gateway node with its own allocator; each *)
(* document is in a vbucket of its own, so its feed events are handled one *)
(* after the other and concurrently with those of the other documents.     *)
(***************************************************************************)
EXTENDS ChangeCache, Sequences, SequencesExt

CONSTANTS
    Writers,                \* concurrent document updates
    Docs,
    NoDoc,                  \* not a document
    MaxReserve,             \* largest batch of ReserveSequences
    kMaxRecentSequences,    \* recent sequences kept before pruning
    Deduplicates,           \* the feed may drop superseded versions
    LocalWriters,           \* the updates on the node of the modelled cache
    MaxFaults               \* bound on crashed writers and unanswered writes

ASSUME PipelineAssumption ==
    /\ NoDoc \notin Docs
    /\ LocalWriters \subseteq Writers
    /\ MaxReserve \in Nat \ {0}
    /\ kMaxRecentSequences \in Nat \ {0}
    /\ Deduplicates \in BOOLEAN
    /\ MaxFaults \in Nat

VARIABLES
    doc,            \* the stored version of each document
    writer,         \* document update in progress, per writer
    reserved,       \* sequences reserved and not yet handed out, per writer
    feed,           \* versions of each document on their way to the cache
    unusedFeed,     \* unused sequence documents on their way to the cache
    handler,        \* processEntry calls DocChangedSynchronous has to make
    lost,           \* history: sequences that died with their holder
    unanswered,     \* history: sequences stored by a write that got no answer
    pruned,         \* history: recent sequences that other nodes have dropped
    faults

history == <<unanswered, pruned>>
writeVars == <<doc, writer, reserved, lost, history, faults>>
feedVars == <<feed, unusedFeed, handler>>
pvars == <<vars, writeVars, feedVars>>

Version == [seq : 0..MaxSeq, unused : Seq(Seqs), recent : Seq(Seqs)]
NoVersion == [seq |-> 0, unused |-> <<>>, recent |-> <<>>]

(* base: the version the update was computed from; seq: docSequence;       *)
(* unused: unusedSequences.                                                *)
IdleWriter == [pc |-> "idle", doc |-> NoDoc, base |-> NoVersion,
               seq |-> 0, unused |-> <<>>]

Call == [kind : {"unused", "recent", "doc"}, seq : Seqs, current : Seqs]

PipelineTypeOK ==
    /\ TypeOK
    /\ doc \in [Docs -> Version]
    /\ writer \in [Writers -> [pc : {"idle", "read", "draw", "write"},
                               doc : Docs \cup {NoDoc}, base : Version,
                               seq : 0..MaxSeq, unused : Seq(Seqs)]]
    /\ reserved \in [Writers -> SUBSET Seqs]
    /\ feed \in [Docs -> Seq(Version)]
    /\ unusedFeed \subseteq Seqs
    /\ handler \in [Docs -> Seq(Call)]
    /\ lost \subseteq Seqs /\ unanswered \subseteq Seqs /\ pruned \subseteq Seqs
    /\ faults \in 0..MaxFaults

PipelineInit ==
    /\ Init
    /\ doc = [d \in Docs |-> NoVersion]
    /\ writer = [w \in Writers |-> IdleWriter]
    /\ reserved = [w \in Writers |-> {}]
    /\ feed = [d \in Docs |-> <<>>]
    /\ unusedFeed = {}
    /\ handler = [d \in Docs |-> <<>>]
    /\ lost = {} /\ unanswered = {} /\ pruned = {}
    /\ faults = 0

(* Everything of the change cache but the counter.                         *)
cacheVars == <<bufferVars, entryVars, lateVars, controlVars, startVars,
               skippedSeqs, cleaner, abandoned>>

----------------------------------------------------------------------------
(* Document updates                                                        *)

(* ReserveSequences(n) for a bulk update: only when none are left.         *)
ReserveSequences(w, n) ==
    /\ reserved[w] = {}
    /\ counter + n <= MaxSeq
    /\ counter' = counter + n
    /\ reserved' = [reserved EXCEPT ![w] = (counter + 1)..(counter + n)]
    /\ UNCHANGED <<cacheVars, doc, writer, lost, history, faults, feedVars>>

(* A document update begins.                                               *)
StartUpdate(w, d) ==
    /\ writer[w].pc = "idle"
    /\ writer' = [writer EXCEPT ![w] = [IdleWriter EXCEPT !.pc = "read",
                                                         !.doc = d]]
    /\ UNCHANGED <<vars, doc, reserved, lost, history, faults, feedVars>>

(* The update callback is run on the stored version.  A sequence of an     *)
(* earlier attempt is kept if it is still above the document's sequence,   *)
(* otherwise it is noted as unused and another one is needed.              *)
ReadDoc(w) ==
    /\ writer[w].pc = "read"
    /\ LET q    == writer[w]
           base == doc[q.doc]
           keep == q.seq > base.seq
       IN  writer' = [writer EXCEPT ![w] =
               [pc     |-> IF keep THEN "write" ELSE "draw",
                doc    |-> q.doc,
                base   |-> base,
                seq    |-> IF keep THEN q.seq ELSE 0,
                unused |-> IF keep \/ q.seq = 0 THEN q.unused
                                                ELSE Append(q.unused, q.seq)]]
    /\ UNCHANGED <<vars, doc, reserved, lost, history, faults, feedVars>>

(* Mutant: whatever nextSequence returns is used.                          *)
DrawSequenceUnchecked(w) ==
    /\ writer[w].pc = "draw"
    /\ \E s \in Seqs :
        /\ IF reserved[w] = {}
           THEN /\ s = counter + 1
                /\ counter' = s
                /\ UNCHANGED reserved
           ELSE /\ s \in reserved[w]
                /\ \A t \in reserved[w] : s <= t
                /\ reserved' = [reserved EXCEPT ![w] = @ \ {s}]
                /\ UNCHANGED counter
        /\ writer' = [writer EXCEPT ![w].pc = "write", ![w].seq = s]
    /\ UNCHANGED <<cacheVars, doc, lost, history, faults, feedVars>>

(* nextSequence until it exceeds the document's sequence; a lower one,     *)
(* left over from a reservation, is released at once.                      *)
DrawSequence(w) ==
    /\ writer[w].pc = "draw"
    /\ \E s \in Seqs :
        /\ IF reserved[w] = {}
           THEN /\ s = counter + 1
                /\ counter' = s
                /\ UNCHANGED reserved
           ELSE /\ s \in reserved[w]
                /\ \A t \in reserved[w] : s <= t
                /\ reserved' = [reserved EXCEPT ![w] = @ \ {s}]
                /\ UNCHANGED counter
        /\ IF s > writer[w].base.seq
           THEN /\ writer' = [writer EXCEPT ![w].pc = "write", ![w].seq = s]
                /\ UNCHANGED unusedFeed
           ELSE /\ unusedFeed' = unusedFeed \cup {s}
                /\ UNCHANGED writer
    /\ UNCHANGED <<cacheVars, doc, lost, history, faults, feed, handler>>

(* What nextSequence of the cache on the node of an update may have been   *)
(* when the callback ran.  Other nodes may be behind or ahead.             *)
NodeSequences(w) == IF w \in LocalWriters THEN 1..nextSequence ELSE 1..(counter + 1)

(* Recent sequences below the stable sequence of the node, next - 1, are   *)
(* dropped from the front once there are kMaxRecentSequences of them.      *)
PruneRecent(recent, next) ==
    IF Len(recent) < kMaxRecentSequences
    THEN recent
    ELSE LET kept == {i \in 1..Len(recent) : recent[i] >= next - 1}
         IN  IF kept = {} THEN <<>>
             ELSE SubSeq(recent, CHOOSE i \in kept : \A j \in kept : i <= j,
                         Len(recent))

NewVersion(w, next) ==
    [seq    |-> writer[w].seq,
     unused |-> writer[w].unused,
     recent |-> PruneRecent(writer[w].base.recent, next) \o writer[w].unused
                    \o <<writer[w].seq>>]

(* The server stores the version of w.                                     *)
Store(w) ==
    LET d == writer[w].doc
    IN  /\ doc[d].seq = writer[w].base.seq
        /\ \E next \in NodeSequences(w) :
            /\ doc' = [doc EXCEPT ![d] = NewVersion(w, next)]
            /\ feed' = [feed EXCEPT ![d] = Append(@, NewVersion(w, next))]
            /\ pruned' = IF w \in LocalWriters THEN pruned
                         ELSE pruned \cup (Range(doc[d].recent) \ Range(NewVersion(w, next).recent))

(* WriteUpdate: the version is stored if the document has not changed      *)
(* since it was read, otherwise the callback runs again.                   *)
WriteDoc(w) ==
    /\ writer[w].pc = "write"
    /\ \/ /\ Store(w)
          /\ writer' = [writer EXCEPT ![w] = IdleWriter]
       \/ /\ doc[writer[w].doc].seq # writer[w].base.seq
          /\ writer' = [writer EXCEPT ![w].pc = "read"]
          /\ UNCHANGED <<doc, feed, pruned>>
    /\ UNCHANGED <<vars, reserved, lost, unanswered, faults, unusedFeed, handler>>

(* The version is stored and the writer is told of a time-out: the write   *)
(* is repeated, which ends in a CAS failure and the callback, or the error *)
(* is returned and the sequence of the stored version released.            *)
WriteDocUnanswered(w) ==
    /\ writer[w].pc = "write"
    /\ faults < MaxFaults
    /\ faults' = faults + 1
    /\ Store(w)
    /\ writer' = [writer EXCEPT ![w].pc = "read"]
    /\ unanswered' = unanswered \cup {writer[w].seq}
    /\ UNCHANGED <<vars, reserved, lost, unusedFeed, handler>>

HeldSequences(w) ==
    Range(writer[w].unused) \cup ({writer[w].seq} \ {0})

(* The update is cancelled, rejected or fails: what it holds is released.  *)
AbortUpdate(w) ==
    /\ writer[w].pc # "idle"
    /\ unusedFeed' = unusedFeed \cup HeldSequences(w)
    /\ writer' = [writer EXCEPT ![w] = IdleWriter]
    /\ UNCHANGED <<vars, doc, reserved, lost, history, faults, feed, handler>>

(* The writer's node dies, with its sequences and its reservation.         *)
Crash(w) ==
    /\ faults < MaxFaults
    /\ faults' = faults + 1
    /\ lost' = lost \cup HeldSequences(w) \cup reserved[w]
    /\ writer' = [writer EXCEPT ![w] = IdleWriter]
    /\ reserved' = [reserved EXCEPT ![w] = {}]
    /\ UNCHANGED <<vars, doc, history, feedVars>>

----------------------------------------------------------------------------
(* The mutation feed                                                       *)

(* The server drops a version that a later one supersedes.                 *)
Deduplicate(d) ==
    /\ Deduplicates
    /\ \E i \in 1..(Len(feed[d]) - 1) :
        feed' = [feed EXCEPT ![d] = RemoveAt(@, i)]
    /\ UNCHANGED <<vars, writeVars, unusedFeed, handler>>

(* currentSequence of DocChangedSynchronous.                               *)
CurrentSequence(v) == IF v.unused = <<>> THEN v.seq ELSE Head(v.unused)

Calls(v) ==
    LET map(q, kind) == [i \in DOMAIN q |->
                           [kind |-> kind, seq |-> q[i],
                            current |-> CurrentSequence(v)]]
    IN  map(v.unused, "unused") \o map(v.recent, "recent")
            \o map(<<v.seq>>, "doc")

(* Mutant: an event behind nextSequence is dropped as well.                *)
DocChangedDropsLate(d) ==
    /\ handler[d] = <<>>
    /\ feed[d] # <<>>
    /\ feed' = [feed EXCEPT ![d] = Tail(@)]
    /\ handler' = [handler EXCEPT ![d] =
                      IF Head(feed[d]).seq < nextSequence THEN <<>>
                      ELSE Calls(Head(feed[d]))]
    /\ UNCHANGED <<vars, writeVars, unusedFeed>>

(* DocChangedSynchronous starts on the next event of d's vbucket; an event *)
(* from before the cache was started is dropped.                           *)
DocChanged(d) ==
    /\ handler[d] = <<>>
    /\ feed[d] # <<>>
    /\ feed' = [feed EXCEPT ![d] = Tail(@)]
    /\ handler' = [handler EXCEPT ![d] =
                      IF Head(feed[d]).seq <= initialSequence THEN <<>>
                      ELSE Calls(Head(feed[d]))]
    /\ UNCHANGED <<vars, writeVars, unusedFeed>>

(* Mutant: recent sequences are ignored.                                   *)
CheckRecentNever(d) ==
    /\ handler[d] # <<>>
    /\ Head(handler[d]).kind = "recent"
    /\ LockFree
    /\ handler' = [handler EXCEPT ![d] = Tail(@)]
    /\ UNCHANGED <<vars, writeVars, feed, unusedFeed>>

(* One pass of its loop over the recent sequences: the sequence is passed  *)
(* on, as an entry without a document, if it is not below nextSequence     *)
(* and below currentSequence.  getNextSequence releases c.lock before      *)
(* processEntry takes it again.                                            *)
CheckRecent(d) ==
    /\ handler[d] # <<>>
    /\ LockFree
    /\ LET call == Head(handler[d])
       IN  /\ call.kind = "recent"
           /\ handler' = [handler EXCEPT ![d] =
                  IF call.seq >= nextSequence /\ call.seq < call.current
                  THEN <<[call EXCEPT !.kind = "unused"]>> \o Tail(@)
                  ELSE Tail(@)]
    /\ UNCHANGED <<vars, writeVars, feed, unusedFeed>>

(* The next processEntry call: an unused or a recent sequence, or the      *)
(* document's entry.                                                       *)
HandlerStep(d) ==
    /\ handler[d] # <<>>
    /\ LET call == Head(handler[d])
       IN  /\ call.kind # "recent"
           /\ FeedEntry(call.seq, call.kind = "doc")
    /\ handler' = [handler EXCEPT ![d] = Tail(@)]
    /\ UNCHANGED <<writeVars, feed, unusedFeed>>

(* An unused sequence document arrives.                                    *)
ProcessUnusedSequence(s) ==
    /\ s \in unusedFeed
    /\ unusedFeed' = unusedFeed \ {s}
    /\ FeedEntry(s, FALSE)
    /\ UNCHANGED <<writeVars, feed, handler>>

(* The skipped sequence query finds current versions only.                 *)
PipelineClean ==
    /\ \/ \E k \in Seqs : CleanStart(k)
       \/ CleanQuery(CleanBatch \cap {doc[d].seq : d \in Docs})
       \/ CleanQueryError
       \/ \E s \in Seqs : CleanProcess(s) \/ CleanGetDocumentError(s)
       \/ CleanFinish
    /\ UNCHANGED <<writeVars, feedVars>>

CacheTask ==
    /\ \/ FinishLate
       \/ \E s \in Seqs : ExpirePending(s)
       \/ InsertPendingEntries
    /\ UNCHANGED <<writeVars, feedVars>>

PipelineNext ==
    \/ \E w \in Writers :
        \/ \E n \in 1..MaxReserve : ReserveSequences(w, n)
        \/ \E d \in Docs : StartUpdate(w, d)
        \/ ReadDoc(w) \/ DrawSequence(w) \/ WriteDoc(w)
        \/ WriteDocUnanswered(w) \/ AbortUpdate(w) \/ Crash(w)
    \/ \E d \in Docs : Deduplicate(d) \/ DocChanged(d) \/ CheckRecent(d)
                        \/ HandlerStep(d)
    \/ \E s \in Seqs : ProcessUnusedSequence(s)
    \/ CacheTask
    \/ PipelineClean

PipelineSpec == PipelineInit /\ [][PipelineNext]_pvars
----------------------------------------------------------------------------
(* Properties                                                              *)

(* No update is running and the feed has delivered everything.             *)
Quiescent ==
    /\ \A w \in Writers : writer[w].pc = "idle"
    /\ \A d \in Docs : feed[d] = <<>> /\ handler[d] = <<>>
    /\ unusedFeed = {}
    /\ LockFree

(* Sequences that were handed out since the cache was started and have not *)
(* come back.                                                              *)
Leaked ==
    {s \in (StartSeq + 1)..counter :
        s \notin receivedSeqs \cup skippedSeqs \cup abandoned \cup lost
                    \cup UNION {reserved[w] : w \in Writers}}

(* Recent sequences of a document that DocChangedSynchronous does not look *)
(* at because they are above its first unused sequence.                    *)
Overlooked(d) ==
    IF doc[d].unused = <<>> THEN {}
    ELSE {s \in Range(doc[d].recent) : s > Head(doc[d].unused)}

(* "If the recent sequence history includes any sequences earlier than the *)
(* current sequence, and not already seen by the gateway, add them": when  *)
(* the writers are idle and the feed is drained, every sequence that was   *)
(* handed out has reached the buffering - as a document, as an unused or   *)
(* as a recent sequence - unless its holder died, the cache had already    *)
(* skipped it, it was overlooked, or another node, whose cache was ahead,  *)
(* dropped it from the recent sequences.  One leaked sequence blocks every *)
(* later change until CachePendingSeqMaxWait, and holds the low sequence   *)
(* back until CacheSkippedSeqMaxWait.                                      *)
NoSequenceLeak ==
    Quiescent => Leaked \subseteq pruned \cup UNION {Overlooked(d) : d \in Docs}

(* A sequence is used once: no two documents carry it, and no document     *)
(* carries a sequence that a running update holds or that was released,    *)
(* unless the write that stored it was not answered.                       *)
SequenceUsedOnce ==
    /\ \A d, e \in Docs : doc[d].seq = doc[e].seq => d = e \/ doc[d].seq = 0
    /\ \A d \in Docs, w \in Writers : doc[d].seq \notin HeldSequences(w) \ unanswered
    /\ \A d \in Docs : doc[d].seq \notin (unusedFeed \cup lost) \ unanswered

(* Sequences are neither used twice nor lost on their way from the counter *)
(* through document updates, releases and the feed to the change cache.    *)
PipelineSafe ==
    /\ PipelineTypeOK /\ PendingBlocked /\ SkippedMissing
    /\ SequenceUsedOnce /\ NoSequenceLeak

(* The sequence of a document only grows, whatever reservations and CAS    *)
(* retries its writers go through.                                         *)
DocSequenceGrows ==
    [][\A d \in Docs : doc'[d] # doc[d] => doc'[d].seq > doc[d].seq]_pvars

(* The mutation feed and its handlers go on; writers may stop anywhere.    *)
PipelineFairness ==
    /\ \A d \in Docs : WF_pvars(DocChanged(d))
                      /\ WF_pvars(CheckRecent(d) \/ HandlerStep(d))
    /\ WF_pvars(\E s \in Seqs : ProcessUnusedSequence(s))

(* Nothing is delayed for ever by a lost sequence: the entries that wait   *)
(* for it are released, skipped sequences cease to hold the low sequence   *)
(* back, and the current version of every document becomes visible, unless *)
(* its sequence was released after a write that was not answered.          *)
Progress ==
    /\ PendingDrains /\ SkippedDrains
    /\ []<>(\A d \in Docs : doc[d].seq \in cached \cup unanswered \cup {0})

=============================================================================
