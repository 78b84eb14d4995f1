---------------------------- MODULE ShardedClock ----------------------------
(***************************************************************************)
(* A clock of all vbuckets that is stored as one document per partition of *)
(* them, with a counter that tells readers whether to read them again      *)
(* (base/sharded_sequence_clock.go).                                       *)
(*                                                                         *)
(* A partition holds the sequences of its vbuckets one after the other, in *)
(* 1 to 4 words each, the same for all; it grows when a sequence does not  *)
(* fit.  A word is a digit of base Radix here, two bytes in the code.      *)
(* Writers own disjoint sets of vbuckets, as the nodes of an index do.     *)
(***************************************************************************)
EXTENDS Integers, Sequences, FiniteSetsExt

CONSTANTS
    ClockWriters,
    VbNos,          \* the vbuckets of each partition, in order
    Owner,          \* the writer of each vbucket
    Radix,
    MaxClockSeq,    \* sequences (bound)
    MaxClockWrites, \* updates (bound)
    MaxClockErrors  \* failed operations of the bucket (bound)

Partitions == DOMAIN VbNos
VbsOf(p) == {VbNos[p][i] : i \in DOMAIN VbNos[p]}
ClockVbs == UNION {VbsOf(p) : p \in Partitions}
IndexOfVb(p, v) == (CHOOSE i \in DOMAIN VbNos[p] : VbNos[p][i] = v) - 1

ASSUME ClockAssumption ==
    /\ Owner \in [ClockVbs -> ClockWriters] /\ Radix \in Nat \ {0, 1}
    /\ MaxClockSeq \in 1..Radix^4 - 1
    /\ \A p, q \in Partitions : p # q => VbsOf(p) \cap VbsOf(q) = {}

VARIABLES
    clockDocs,  \* bucket: document of each partition: [cas, size, words]
    clockCount, \* bucket: the counter
    clockWriter,    \* the clock of each writer, and its call of UpdateAndWrite
    clockReader,    \* the clock of a reader, its call of Load, and the partitions
                    \* that its last Load did not get
    written,    \* history: last sequence stored for each vbucket
    announced,  \* history: the ones stored before a counter was incremented
    misplaced,  \* history: partitions written through offsets of another size
    clockUsed   \* [writes, errors]

shardedClockVars == <<clockDocs, clockCount, clockWriter, clockReader, written, announced,
                      misplaced, clockUsed>>

-----------------------------------------------------------------------------
(* ShardedClockPartition.                                                  *)

(* kClockMaxSequences: the third is math.MaxUint32 << 16.                  *)
MaxSequence(size) ==
    CASE size = 1 -> Radix - 1
      [] size = 2 -> Radix^2 - 1
      [] size = 3 -> (Radix^2 - 1) * Radix
      [] size = 4 -> Radix^4 - 1

WordOf(seq, size, k) == (seq \div Radix^(size - k)) % Radix

(* getSequenceForOffset                                                    *)
SequenceAt(words, size, offset) ==
    LET from[k \in 0..size] == IF k = 0 THEN 0 ELSE from[k - 1] * Radix + words[offset + k]
    IN  from[size]

(* setSequenceForOffset                                                    *)
WithSequenceAt(words, size, offset, seq) ==
    [i \in DOMAIN words |-> IF i - offset \in 1..size THEN WordOf(seq, size, i - offset)
                            ELSE words[i]]

Offsets(p, size) == [v \in VbsOf(p) |-> size * IndexOfVb(p, v)]
Layout(p, size, seq) ==
    [i \in 1..size * Len(VbNos[p]) |->
        WordOf(seq[VbNos[p][(i - 1) \div size + 1]], size, ((i - 1) % size) + 1)]

(* resize                                                                  *)
NewSize(seq) == IF seq < MaxSequence(2) THEN 2 ELSE IF seq < MaxSequence(3) THEN 3 ELSE 4

Resize(p, part, seq) ==
    LET new == NewSize(seq)
        stored == [v \in VbsOf(p) |->
                      SequenceAt(part.words, part.size, part.size * IndexOfVb(p, v))]
    IN  [part EXCEPT !.size = new, !.words = Layout(p, new, stored),
                     !.offsets = [v \in VbsOf(p) |-> (@[v] * new) \div part.size]]

SetSequence(p, part, v, seq) ==
    LET sized == IF seq > MaxSequence(part.size) THEN Resize(p, part, seq) ELSE part
    IN  [sized EXCEPT !.words = WithSequenceAt(@, sized.size, sized.offsets[v], seq)]

(* With the offsets of a larger size the write is past the end of the      *)
(* value, which panics.                                                    *)
Panics(part, seqs) == \E s \in seqs : part.offsets[s[1]] + part.size > Len(part.words)

SetSequences(p, part, seqs) ==
    FoldSet(LAMBDA s, acc : SetSequence(p, acc, s[1], s[2]), part, seqs)

NewPartition(p) == [cas |-> 0, size |-> 1, words |-> Layout(p, 1, [v \in VbsOf(p) |-> 0]),
                    offsets |-> Offsets(p, 1)]
NoPartition == [cas |-> 0, size |-> 0, words |-> <<>>, offsets |-> <<>>]

(* Unmarshal: the offsets stay what they were.                             *)
Unmarshal(part, doc) == [part EXCEPT !.size = doc.size, !.words = doc.words]

(* NewShardedClockPartitionForBytes                                        *)
PartitionForBytes(p, doc) ==
    [cas |-> 0, size |-> doc.size, words |-> doc.words, offsets |-> Offsets(p, doc.size)]

GetSequence(part, v) ==
    IF part = NoPartition THEN 0 ELSE SequenceAt(part.words, part.size, part.offsets[v])

-----------------------------------------------------------------------------
Absent == [cas |-> 0, size |-> 0, words |-> <<>>]
IdleWriter == [pc |-> "idle", updates |-> {}, todo |-> {},
               attempt |-> [p \in Partitions |-> 0],
               partitions |-> [p \in Partitions |-> NoPartition]]

ShardedClockInit ==
    /\ clockDocs = [p \in Partitions |-> Absent]
    /\ clockCount = 0
    /\ clockWriter = [w \in ClockWriters |-> IdleWriter]
    /\ clockReader = [pc |-> "idle", counter |-> 0, todo |-> {}, missed |-> {},
                      partitions |-> [p \in Partitions |-> NoPartition]]
    /\ written = [v \in ClockVbs |-> 0] /\ announced = written
    /\ misplaced = {} /\ clockUsed = [writes |-> 0, errors |-> 0]

MayFail == clockUsed.errors < MaxClockErrors
Failed(fails) == /\ fails => MayFail
                 /\ clockUsed' = IF fails THEN [clockUsed EXCEPT !.errors = @ + 1] ELSE clockUsed

UpdatesOf(w, p) == {u \in clockWriter[w].updates : u[1] \in VbsOf(p)}
TouchedBy(updates) == {p \in Partitions : \E u \in updates : u[1] \in VbsOf(p)}

-----------------------------------------------------------------------------
(* UpdateAndWrite                                                          *)

(* With new sequences of vbuckets that the writer owns.                    *)
UpdateAndWrite(w, vbs, seq) ==
    LET updates == {<<v, seq>> : v \in vbs}
    IN  /\ clockWriter[w].pc = "idle" /\ vbs # {}
        /\ clockUsed.writes < MaxClockWrites
        /\ \A v \in vbs : Owner[v] = w /\ seq > written[v]
        /\ clockWriter' = [clockWriter EXCEPT ![w].pc = "write", ![w].updates = updates,
                                              ![w].todo = TouchedBy(updates)]
        /\ clockUsed' = [clockUsed EXCEPT !.writes = @ + 1]
        /\ UNCHANGED <<clockDocs, clockCount, clockReader, written, announced, misplaced>>

(* initPartition: an error of the read counts as no document.              *)
InitPartition(w, p, fails) ==
    LET doc == clockDocs[p]
    IN  /\ clockWriter[w].pc = "write" /\ p \in clockWriter[w].todo
        /\ clockWriter[w].partitions[p] = NoPartition
        /\ Failed(fails)
        /\ clockWriter' = [clockWriter EXCEPT ![w].partitions[p] =
               IF fails \/ doc = Absent THEN NewPartition(p)
               ELSE [Unmarshal(NewPartition(p), doc) EXCEPT !.cas = doc.cas]]
        /\ UNCHANGED <<clockDocs, clockCount, clockReader, written, announced, misplaced>>

(* The CAS of the next write of a partition: its own, or the one that was  *)
(* read after a write had failed.                                          *)
CasOf(w, p) == IF clockWriter[w].attempt[p] = 0 THEN clockWriter[w].partitions[p].cas
               ELSE clockWriter[w].attempt[p]

CasMatchesAlways(w, p) == TRUE

CasMatches(w, p) == CasOf(w, p) = clockDocs[p].cas

(* The goroutine of a partition sets the sequences; when that panics, the  *)
(* process ends, and starting it again is all that is left.                *)
Writes(w, p) ==
    /\ clockWriter[w].pc = "write" /\ p \in clockWriter[w].todo
    /\ clockWriter[w].partitions[p] # NoPartition
    /\ ~Panics(clockWriter[w].partitions[p], UpdatesOf(w, p))

(* Then the partition is written (WriteCasRaw).                            *)
WritePartition(w, p) ==
    LET own == clockWriter[w].partitions[p]
        part == [SetSequences(p, own, UpdatesOf(w, p)) EXCEPT !.cas = clockDocs[p].cas + 1]
    IN  /\ Writes(w, p)
        /\ CasMatches(w, p)
        /\ clockDocs' = [clockDocs EXCEPT ![p] = [cas |-> part.cas, size |-> part.size,
                                                  words |-> part.words]]
        /\ clockWriter' = [clockWriter EXCEPT ![w].partitions[p] = part, ![w].todo = @ \ {p},
                                              ![w].attempt[p] = 0]
        /\ written' = [v \in ClockVbs |-> IF \E u \in UpdatesOf(w, p) : u[1] = v
                                          THEN (CHOOSE u \in UpdatesOf(w, p) : u[1] = v)[2]
                                          ELSE written[v]]
        /\ misplaced' = IF own.offsets = Offsets(p, own.size) THEN misplaced
                        ELSE misplaced \cup {p}
        /\ UNCHANGED <<clockCount, clockReader, announced, clockUsed>>

(* When the document has another CAS, its value is taken, and the write is *)
(* repeated.                                                               *)
RereadPartition(w, p) ==
    LET own == clockWriter[w].partitions[p]
        doc == clockDocs[p]
    IN  /\ Writes(w, p)
        /\ ~CasMatches(w, p)
        /\ clockWriter' = [clockWriter EXCEPT
               ![w].partitions[p] = Unmarshal(SetSequences(p, own, UpdatesOf(w, p)), doc),
               ![w].attempt[p] = doc.cas]
        /\ UNCHANGED <<clockDocs, clockCount, clockReader, written, announced, misplaced,
                       clockUsed>>

(* A write that fails is logged; the sequences stay in the partition.      *)
WritePartitionFails(w, p) ==
    LET own == clockWriter[w].partitions[p]
    IN  /\ Writes(w, p)
        /\ Failed(TRUE)
        /\ clockWriter' = [clockWriter EXCEPT ![w].todo = @ \ {p}, ![w].attempt[p] = 0,
               ![w].partitions[p] = SetSequences(p, own, UpdatesOf(w, p))]
        /\ UNCHANGED <<clockDocs, clockCount, clockReader, written, announced, misplaced>>

(* The counter is incremented when all goroutines have ended.              *)
IncrCount(w, fails) ==
    /\ clockWriter[w].pc = "write" /\ clockWriter[w].todo = {}
    /\ Failed(fails)
    /\ clockCount' = IF fails THEN clockCount ELSE clockCount + 1
    /\ announced' = [v \in ClockVbs |-> IF ~fails /\ Owner[v] = w THEN written[v]
                                        ELSE announced[v]]
    /\ clockWriter' = [clockWriter EXCEPT ![w].pc = "idle", ![w].updates = {}]
    /\ UNCHANGED <<clockDocs, clockReader, written, misplaced>>

(* A writer that starts anew has no partitions.                            *)
RestartWriter(w) ==
    /\ clockWriter[w] # IdleWriter
    /\ clockWriter' = [clockWriter EXCEPT ![w] = IdleWriter]
    /\ UNCHANGED <<clockDocs, clockCount, clockReader, written, announced, misplaced,
                   clockUsed>>

-----------------------------------------------------------------------------
(* Load                                                                    *)

LoadCount ==
    /\ clockReader.pc = "idle" /\ clockReader.counter # clockCount
    /\ clockReader' = [clockReader EXCEPT !.pc = "load", !.counter = clockCount,
                                          !.todo = Partitions]
    /\ UNCHANGED <<clockDocs, clockCount, clockWriter, written, announced, misplaced,
                   clockUsed>>

(* GetBulkRaw reads the documents one by one, and leaves out of its result *)
(* the ones that do not exist and the ones it got a temporary error for:   *)
(* their partitions stay as they were.                                     *)
LoadPartition(p, fails) ==
    /\ clockReader.pc = "load" /\ p \in clockReader.todo
    /\ Failed(fails)
    /\ clockReader' = [clockReader EXCEPT
           !.todo = @ \ {p}, !.pc = IF clockReader.todo = {p} THEN "idle" ELSE "load",
           !.missed = IF fails THEN @ \cup {p} ELSE @ \ {p},
           !.partitions[p] = IF fails \/ clockDocs[p] = Absent THEN @
                             ELSE PartitionForBytes(p, clockDocs[p])]
    /\ UNCHANGED <<clockDocs, clockCount, clockWriter, written, announced, misplaced>>

(* Any other error leaves all partitions, but not the counter, as they     *)
(* were.                                                                   *)
LoadFails ==
    /\ clockReader.pc = "load" /\ clockReader.todo = Partitions
    /\ Failed(TRUE)
    /\ clockReader' = [clockReader EXCEPT !.pc = "idle", !.todo = {}, !.missed = Partitions]
    /\ UNCHANGED <<clockDocs, clockCount, clockWriter, written, announced, misplaced>>

ShardedClockNext ==
    \/ \E w \in ClockWriters :
        \/ \E vbs \in SUBSET ClockVbs, seq \in 1..MaxClockSeq : UpdateAndWrite(w, vbs, seq)
        \/ \E p \in Partitions, fails \in BOOLEAN : InitPartition(w, p, fails)
        \/ \E p \in Partitions :
               WritePartition(w, p) \/ RereadPartition(w, p) \/ WritePartitionFails(w, p)
        \/ RestartWriter(w) \/ \E fails \in BOOLEAN : IncrCount(w, fails)
    \/ LoadCount \/ LoadFails
    \/ \E p \in Partitions, fails \in BOOLEAN : LoadPartition(p, fails)

ShardedClockSpec == ShardedClockInit /\ [][ShardedClockNext]_shardedClockVars

-----------------------------------------------------------------------------
(* Properties.                                                             *)

(* Writers that share a partition do not lose one another's sequences,     *)
(* growth and CAS failures included: a document has the last sequence that *)
(* was stored for each of its vbuckets.  The exception is a partition that *)
(* has grown and is then written by a writer with the offsets of its       *)
(* earlier size.                                                           *)
SequencesStored ==
    \A p \in Partitions \ misplaced : \A v \in VbsOf(p) :
        clockDocs[p] # Absent => GetSequence(PartitionForBytes(p, clockDocs[p]), v) >= written[v]

(* A reader whose counter is the current one has every sequence that was   *)
(* announced, but for the partitions that its last Load did not get: it    *)
(* had taken the counter before, and does not ask for them again.          *)
ReaderCurrent ==
    clockReader.pc = "idle" /\ clockReader.counter = clockCount =>
        \A p \in Partitions \ (misplaced \cup clockReader.missed) : \A v \in VbsOf(p) :
            GetSequence(clockReader.partitions[p], v) >= announced[v]

(* A sharded clock neither loses what its writers stored nor keeps a       *)
(* reader with the current counter behind (sharded_clock.go: Write, Load). *)
ShardedClockSafe == SequencesStored /\ ReaderCurrent

=============================================================================
