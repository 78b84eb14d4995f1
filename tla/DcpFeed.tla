------------------------------ MODULE DcpFeed ------------------------------
(***************************************************************************)
(* The receiver of a DCP feed that resumes from persisted positions        *)
(* (base/dcp_feed.go with FeedResume, the feed that imports documents).    *)
(* It keeps the sequence and the snapshot of each vbucket in memory, and   *)
(* in the bucket a checkpoint per vbucket and, while it works off what was *)
(* there when it started, one document with the positions of all of them.  *)
(*                                                                         *)
(* Couchbase Server and cbdatasource, which call the receiver, are external*)
(* and modelled by the calls: a stream per vbucket sends snapshots, the    *)
(* first mutation of a snapshot saves its range.  A failover of a vbucket  *)
(* gives it a new uuid and drops the mutations after some sequence.        *)
(***************************************************************************)
EXTENDS Integers, Sequences, FiniteSetsExt

CONSTANTS
    FeedVbs,
    MaxVbSeq,       \* sequences of each vbucket (bound)
    MaxFailovers,   \* failovers of each vbucket (bound)
    Word            \* 2^64: counters of the backfill wrap

ASSUME DcpAssumption ==
    /\ IsFiniteSet(FeedVbs) /\ MaxVbSeq \in [FeedVbs -> Nat] /\ MaxFailovers \in [FeedVbs -> Nat]
    /\ Word \in Nat /\ \A v \in FeedVbs : Word > MaxVbSeq[v]

VARIABLES
    high,       \* server: highest sequence of each vbucket
    failoverLog,    \* server: sequences after which its failovers dropped all
    checkpoints,    \* bucket: snapshot persisted for each vbucket, as meta
    backfillDoc,    \* bucket: positions persisted during the backfill
    seqs,       \* receiver: sequence received last
    meta,       \* receiver: snapshot received last: [uuid, snapStart, snapEnd]
    updates,    \* receiver: updatesSinceCheckpoint, up to the threshold
    backfill,   \* receiver: backfillStatus
    stream,     \* cbdatasource: state of each stream
    handled,    \* history: sequences whose callback has returned
    running,    \* history: ones whose callback ran when backfillDoc was written
    missed      \* history: ones passed over at a restart by a named race

receiverVars == <<seqs, meta, updates, backfill>>
serverVars == <<high, failoverLog>>
dcpVars == <<serverVars, checkpoints, backfillDoc, receiverVars, stream, handled,
             running, missed>>

-----------------------------------------------------------------------------
kCheckpointThreshold == 1

NoMeta == [uuid |-> 0, snapStart |-> 0, snapEnd |-> 0]

(* A document with all positions zero is the same as none.                 *)
Zeros == [v \in FeedVbs |-> 0]
NoBackfillDoc == [seqs |-> Zeros, snapStart |-> Zeros, snapEnd |-> Zeros, of |-> Zeros]

ClosedStream == [pc |-> "closed", uuid |-> 0, seq |-> 0, snapStart |-> 0, snapEnd |-> 0,
                 saved |-> TRUE]

(* backfillStatus.init                                                     *)
BackfillInit(start) ==
    LET vbActive == [v \in FeedVbs |-> high[v] > start[v]]
    IN  [active   |-> \E v \in FeedVbs : vbActive[v],
         vbActive |-> vbActive,
         received |-> 0,
         expected |-> MapThenSumSet(LAMBDA v : IF vbActive[v] THEN high[v] - start[v] ELSE 0,
                                    FeedVbs),
         endSeqs  |-> high,
         snapStart |-> Zeros, snapEnd |-> Zeros]

DcpInit ==
    /\ high = Zeros /\ failoverLog = [v \in FeedVbs |-> <<>>]
    /\ checkpoints = [v \in FeedVbs |-> NoMeta] /\ backfillDoc = NoBackfillDoc
    /\ seqs = Zeros /\ meta = [v \in FeedVbs |-> NoMeta] /\ updates = Zeros
    /\ backfill = BackfillInit(Zeros)
    /\ stream = [v \in FeedVbs |-> ClosedStream]
    /\ handled = [v \in FeedVbs |-> {}]
    /\ running = [v \in FeedVbs |-> {}] /\ missed = [v \in FeedVbs |-> {}]

-----------------------------------------------------------------------------
(* The server.                                                             *)

ServerMutation(v) ==
    /\ high[v] < MaxVbSeq[v]
    /\ high' = [high EXCEPT ![v] = @ + 1]
    /\ UNCHANGED <<failoverLog, checkpoints, backfillDoc, receiverVars, stream, handled,
                   running, missed>>

(* The uuid of a vbucket changes with every failover.  A sequence of an    *)
(* earlier one is kept unless a failover since has dropped it.             *)
Uuid(v) == Len(failoverLog[v])

Kept(v, uuid, seq) == \A i \in 1..Uuid(v) : i > uuid => seq <= failoverLog[v][i]

(* What was handled of the dropped mutations no longer counts; a callback  *)
(* that runs goes on.                                                      *)
Failover(v, at) ==
    /\ Uuid(v) < MaxFailovers[v]
    /\ at <= high[v]
    /\ failoverLog' = [failoverLog EXCEPT ![v] = Append(@, at)]
    /\ high' = [high EXCEPT ![v] = at]
    /\ handled' = [handled EXCEPT ![v] = @ \cap 1..at]
    /\ missed' = [missed EXCEPT ![v] = @ \cap 1..at]
    /\ stream' = IF stream[v].pc = "callback" THEN stream
                 ELSE [stream EXCEPT ![v] = ClosedStream]
    /\ UNCHANGED <<checkpoints, backfillDoc, receiverVars, running>>

-----------------------------------------------------------------------------
(* The receiver.                                                           *)

(* SetMetaData.  A checkpoint that cannot be persisted is left to the next *)
(* snapshot.                                                               *)
SetMetaData(v, value, persisted) ==
    LET due == updates[v] >= kCheckpointThreshold
    IN  /\ meta' = [meta EXCEPT ![v] = value]
        /\ checkpoints' = IF due /\ persisted THEN [checkpoints EXCEPT ![v] = value]
                          ELSE checkpoints
        /\ updates' = IF due THEN [updates EXCEPT ![v] = 0] ELSE updates

(* backfillStatus.updateStats: progress counts up to the end of the        *)
(* backfill, and the end of the last one ends it.  The differences wrap.   *)
UpdatedStats(v, previous, seq) ==
    LET done == seq >= backfill.endSeqs[v]
        reached == IF done THEN backfill.endSeqs[v] ELSE seq
        received == (backfill.received + reached - previous) % Word
    IN  IF ~backfill.vbActive[v] THEN backfill
        ELSE [backfill EXCEPT !.vbActive[v] = ~done, !.received = received,
                              !.active = received < backfill.expected]

(* The callbacks that run, the one about to begin included.                *)
InCallback(v) == IF stream[v].pc = "callback" THEN {stream[v].seq} ELSE {}

(* updateSeq.  The positions are persisted every ten seconds, under the    *)
(* lock of all vbuckets, and deleted at the end of the backfill; the error *)
(* of a write is ignored.                                                  *)
UpdateSeq(v, seq, persist, runs) ==
    LET counts == backfill.active /\ backfill.vbActive[v]
        purge == counts /\ ~UpdatedStats(v, seqs[v], seq).active
    IN  /\ seqs' = [seqs EXCEPT ![v] = seq]
        /\ backfill' = IF counts THEN UpdatedStats(v, seqs[v], seq) ELSE backfill
        /\ persist => counts
        /\ backfillDoc' = CASE purge -> NoBackfillDoc
                            [] persist /\ ~purge ->
                                 [seqs |-> seqs', snapStart |-> backfill.snapStart,
                                  snapEnd |-> backfill.snapEnd,
                                  of |-> [w \in FeedVbs |-> meta[w].uuid]]
                            [] OTHER -> backfillDoc
        /\ running' = CASE purge -> [w \in FeedVbs |-> {}]
                        [] persist /\ ~purge ->
                             [w \in FeedVbs |-> IF w = v THEN runs ELSE InCallback(w)]
                        [] OTHER -> running

(* OpenStream: cbdatasource asks for the stream from the position that     *)
(* GetMetaData returns.  The server refuses one of a branch that it has    *)
(* dropped: RollbackEx.                                                    *)
MustRollBack(v) == ~Kept(v, meta[v].uuid, seqs[v])

OpenStream(v) ==
    /\ stream[v].pc = "closed"
    /\ ~MustRollBack(v)
    /\ stream' = [stream EXCEPT ![v] =
                     [pc |-> "open", uuid |-> Uuid(v), seq |-> seqs[v],
                      snapStart |-> seqs[v], snapEnd |-> seqs[v], saved |-> TRUE]]
    /\ meta' = [meta EXCEPT ![v].uuid = Uuid(v)]
    /\ UNCHANGED <<serverVars, checkpoints, backfillDoc, seqs, updates, backfill, handled,
                   running, missed>>

RollbackEx(v, rollbackSeq, persist, persisted) ==
    /\ stream[v].pc = "closed"
    /\ MustRollBack(v)
    /\ Kept(v, meta[v].uuid, rollbackSeq) /\ ~Kept(v, meta[v].uuid, rollbackSeq + 1)
    /\ UpdateSeq(v, rollbackSeq, persist, {})
    /\ SetMetaData(v, [uuid |-> Uuid(v), snapStart |-> rollbackSeq, snapEnd |-> rollbackSeq],
                   persisted)
    /\ UNCHANGED <<serverVars, stream, handled, missed>>

(* SnapshotStart, with all that the server has.                            *)
SnapshotStart(v) ==
    LET s == stream[v]
    IN  /\ s.pc = "open" /\ s.seq = s.snapEnd /\ high[v] > s.seq
        /\ stream' = [stream EXCEPT ![v].snapStart = s.seq, ![v].snapEnd = high[v],
                                    ![v].saved = FALSE]
        /\ backfill' = IF backfill.active /\ backfill.vbActive[v]
                       THEN [backfill EXCEPT !.snapStart[v] = s.seq, !.snapEnd[v] = high[v]]
                       ELSE backfill
        /\ UNCHANGED <<serverVars, checkpoints, backfillDoc, seqs, meta, updates, handled,
                       running, missed>>

(* cbdatasource saves a snapshot at its first mutation.                    *)
SaveSnapshot(v, persisted) ==
    LET s == stream[v]
    IN  /\ s.pc = "open" /\ ~s.saved
        /\ SetMetaData(v, [uuid |-> s.uuid, snapStart |-> s.snapStart, snapEnd |-> s.snapEnd],
                       persisted)
        /\ stream' = [stream EXCEPT ![v].saved = TRUE]
        /\ UNCHANGED <<serverVars, backfillDoc, seqs, backfill, handled, running, missed>>

(* DataUpdate and DataDelete: the sequence is updated before the callback. *)
DataUpdate(v, persist) ==
    LET s == stream[v]
    IN  /\ s.pc = "open" /\ s.saved /\ s.seq < s.snapEnd
        /\ UpdateSeq(v, s.seq + 1, persist, {s.seq + 1})
        /\ stream' = [stream EXCEPT ![v].pc = "callback", ![v].seq = @ + 1]
        /\ UNCHANGED <<serverVars, checkpoints, meta, updates, handled, missed>>

(* The callback returns: whether it counts towards a checkpoint depends on *)
(* the document (those of checkpoints do not).                             *)
CallbackReturns(v, counts) ==
    LET s == stream[v]
    IN  /\ s.pc = "callback"
        /\ updates' = IF counts THEN [updates EXCEPT ![v] = kCheckpointThreshold] ELSE updates
        /\ handled' = IF Kept(v, s.uuid, s.seq) THEN [handled EXCEPT ![v] = @ \cup {s.seq}]
                      ELSE handled
        /\ stream' = IF s.uuid = Uuid(v) THEN [stream EXCEPT ![v].pc = "open"]
                     ELSE [stream EXCEPT ![v] = ClosedStream]
        /\ UNCHANGED <<serverVars, checkpoints, backfillDoc, seqs, meta, backfill, running,
                       missed>>

(* OnError: the stream is asked for again.                                 *)
StreamError(v) ==
    /\ stream[v].pc = "open"
    /\ stream' = [stream EXCEPT ![v] = ClosedStream]
    /\ UNCHANGED <<serverVars, checkpoints, backfillDoc, receiverVars, handled, running,
                   missed>>

-----------------------------------------------------------------------------
(* A restart: initMetadata.                                                *)

(* The position in an incomplete backfill, when it is later than the start *)
(* of the snapshot of the checkpoint.                                      *)
PartialBackfill(v) ==
    IF backfillDoc.seqs[v] < backfillDoc.snapEnd[v] THEN backfillDoc.seqs[v] ELSE 0

FromBackfill(v) == PartialBackfill(v) > checkpoints[v].snapStart

StartSeqOfSnapEnd(v) ==
    IF FromBackfill(v) THEN PartialBackfill(v) ELSE checkpoints[v].snapEnd

StartSeq(v) ==
    IF FromBackfill(v) THEN PartialBackfill(v) ELSE checkpoints[v].snapStart

(* The mutations that a resumption from the backfill may pass over: those  *)
(* that were in their callback when the positions were persisted, and all  *)
(* when the positions are of a branch that the server has dropped, for     *)
(* they are resumed under the uuid of the present one.                     *)
RacedBy(v) ==
    IF ~FromBackfill(v) THEN {}
    ELSE running[v] \cup (IF Kept(v, backfillDoc.of[v], PartialBackfill(v)) THEN {}
                          ELSE 1..PartialBackfill(v))

Restart ==
    /\ seqs' = [v \in FeedVbs |-> StartSeq(v)]
    /\ meta' = [v \in FeedVbs |->
                   IF FromBackfill(v)
                   THEN [uuid |-> Uuid(v), snapStart |-> backfillDoc.snapStart[v],
                         snapEnd |-> backfillDoc.snapEnd[v]]
                   ELSE checkpoints[v]]
    /\ updates' = Zeros
    /\ backfill' = BackfillInit(seqs')
    /\ stream' = [v \in FeedVbs |-> ClosedStream]
    /\ missed' = [v \in FeedVbs |-> missed[v] \cup (RacedBy(v) \ handled[v])]
    /\ UNCHANGED <<serverVars, checkpoints, backfillDoc, handled, running>>

DcpNext ==
    \/ Restart
    \/ \E v \in FeedVbs :
        \/ ServerMutation(v) \/ OpenStream(v) \/ SnapshotStart(v) \/ StreamError(v)
        \/ \E at \in 0..MaxVbSeq[v] : Failover(v, at)
        \/ \E rollbackSeq \in 0..MaxVbSeq[v], persist, persisted \in BOOLEAN :
               RollbackEx(v, rollbackSeq, persist, persisted)
        \/ \E persisted \in BOOLEAN : SaveSnapshot(v, persisted)
        \/ \E persist \in BOOLEAN : DataUpdate(v, persist)
        \/ \E counts \in BOOLEAN : CallbackReturns(v, counts)

DcpSpec == DcpInit /\ [][DcpNext]_dcpVars

-----------------------------------------------------------------------------
(* Properties.                                                             *)

(* No mutation is passed over: whenever the process ends, the position it  *)
(* resumes from has only handled mutations before it, but for the named    *)
(* races; and so has the position of a running feed, once it has learnt of *)
(* a failover, but for the callback that runs.                             *)
FeedComplete ==
    \A v \in FeedVbs :
        /\ \/ ~FromBackfill(v) /\ ~Kept(v, checkpoints[v].uuid, StartSeq(v))
           \/ \A s \in 1..StartSeq(v) : s \in handled[v] \cup missed[v] \cup RacedBy(v)
        /\ \/ MustRollBack(v)
           \/ \A s \in 1..seqs[v] : s \in handled[v] \cup missed[v] \cup InCallback(v)

=============================================================================
