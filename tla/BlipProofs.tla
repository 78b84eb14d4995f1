----------------------------- MODULE BlipProofs -----------------------------
(***************************************************************************)
(* What clients that pull and push over BLIP rely on, proved for any       *)
(* documents, batches, subscriptions, handlers and lost connections.       *)
(***************************************************************************)
EXTENDS Blip, BlipPush, RevTreeProofs

----------------------------------------------------------------------------
(* The inductive invariant.                                                *)

ContextRecords == [active : BOOLEAN, channels : {Docs, Filtered},
                   stuck : BOOLEAN, inherited : BOOLEAN]
FeedRecords == [on : BOOLEAN, sub : Nat, continuous : BOOLEAN, filtered : BOOLEAN,
                since : 0..MaxSeq, caughtUp : BOOLEAN, pending : SUBSET Rows,
                goal : 0..MaxSeq, failed : BOOLEAN]
Messages == [id : Nat, sub : Nat, filtered : BOOLEAN, rows : SUBSET Rows]
RevSets == [Docs -> SUBSET Revs]
Responders == [id : Nat, answered : BOOLEAN, queue : SUBSET Rows, known : RevSets,
               maxHistory : Nat, awaiting : BOOLEAN]
RevMessages == [id : Nat, row : Rows, found : BOOLEAN, oldest : Nat, limit : Nat]
Clients == [has : RevSets, refused : RevSets, denied : RevSets, seen : 0..MaxSeq,
            waiting : SUBSET Rows, told : Nat, misled : BOOLEAN]
Counters == [subs : Nat, batches : Nat, faults : Nat]

PullTypes ==
    /\ current \in [Docs -> 0..MaxRev] /\ seqOf \in [Docs -> 0..MaxSeq]
    /\ context \in ContextRecords /\ feed \in FeedRecords
    /\ changes \in Seq(Messages) /\ responders \subseteq Responders
    /\ revs \subseteq RevMessages /\ removers \subseteq RevMessages
    /\ allowedAttachments \in [Digests -> Nat]
    /\ client \in Clients /\ used \in Counters

(* The database has got as far as the sequence.                            *)
Reached(n) == \E d \in Docs : n <= seqOf[d]

(* Every change has its own sequence; nothing is ahead of the database.    *)
SequencesOK ==
    /\ \A d \in Docs : seqOf[d] > 0 => current[d] > 0
    /\ \A d, e \in Docs : seqOf[d] = seqOf[e] /\ seqOf[d] > 0 => d = e
    /\ Reached(client.seen) /\ Reached(feed.since) /\ Reached(feed.goal)

(* What the flags of the connection say about the subscription.            *)
ContextOK ==
    /\ feed.on => context.active /\ feed.sub > 0
    /\ context.active => feed.on \/ context.stuck
    /\ feed.sub > 0 /\ ~feed.filtered /\ ~context.inherited => context.channels = Docs
    /\ feed.sub <= used.subs /\ client.told <= used.subs

(* Every batch on its way belongs to the subscription and has a responder  *)
(* of its own that awaits the answer.                                      *)
BatchesOK ==
    /\ \A x \in feed.pending : x.seq <= feed.since
    /\ \A i \in 1..Len(changes) :
          /\ changes[i].sub = feed.sub /\ changes[i].filtered = feed.filtered
          /\ \A x \in changes[i].rows : x.seq <= feed.since
          /\ changes[i].rows # {} =>
                /\ changes[i].id < used.batches
                /\ \E r \in responders : r.id = changes[i].id /\ ~r.answered
    /\ \A i, j \in 1..Len(changes) :
          i # j /\ changes[i].rows # {} /\ changes[j].rows # {} =>
              changes[i].id # changes[j].id

(* Responders are told apart by their batch, and send each row once.       *)
RespondersOK ==
    /\ \A r \in responders : r.id < used.batches
    /\ \A r, s \in responders : r.id = s.id => r = s
    /\ \A r \in responders :
          ~r.answered => r.queue = {} /\ ~r.awaiting /\ r.known = [d \in Docs |-> {}]
    /\ \A m \in revs \cup removers :
          /\ m.id < used.batches
          /\ \A r \in responders : r.id = m.id => r.answered /\ m.row \notin r.queue

(* A "rev" has its history with it.                                        *)
RevsOK == \A m \in revs \cup removers : m.found => m.oldest \in 1..m.row.rev

RowOf(d) == [seq |-> seqOf[d], doc |-> d, rev |-> current[d]]

(* The client has the document's last change, refused it, was told that it *)
(* does not get it, or waits for it.                                       *)
Settled(d) ==
    \/ current[d] \in client.has[d] \cup client.refused[d] \cup client.denied[d]
    \/ RowOf(d) \in client.waiting

Excused == context.inherited \/ client.misled

(* Everything up to the last sequence that the client has seen is settled. *)
SeenOK == \A d \in Docs : seqOf[d] \in 1..client.seen => Settled(d) \/ client.misled

(* What a batch skips was in an earlier one or settled before.             *)
SkipsNothing(i) ==
    \A x \in changes[i].rows : \A d \in Docs :
        seqOf[d] \in 1..x.seq =>
            Settled(d) \/ Excused \/ \E j \in 1..i : RowOf(d) \in changes[j].rows

(* An empty batch follows everything that the subscription set out for.    *)
EndsComplete(i) ==
    changes[i].rows = {} =>
        \/ feed.failed \/ context.inherited
        \/ \A d \in Docs : seqOf[d] <= feed.goal =>
              \/ seqOf[d] <= client.seen
              \/ \E j \in 1..(i - 1) : \E x \in changes[j].rows : seqOf[d] <= x.seq

AnnouncedOK ==
    ~feed.filtered => \A i \in 1..Len(changes) : SkipsNothing(i) /\ EndsComplete(i)

(* A running feed has announced, or is about to announce, all that it has  *)
(* passed, and it has passed no more than that.                            *)
FeedOK ==
    feed.on /\ ~feed.filtered =>
        /\ \A d \in Docs : seqOf[d] \in 1..feed.since =>
              \/ Settled(d) \/ Excused \/ RowOf(d) \in feed.pending
              \/ \E j \in 1..Len(changes) : RowOf(d) \in changes[j].rows
        /\ \/ feed.since <= client.seen
           \/ \E x \in feed.pending : feed.since <= x.seq
           \/ \E j \in 1..Len(changes) : \E x \in changes[j].rows : feed.since <= x.seq

(* The counter of a digest is the number of revisions that await a reply.  *)
Holding(x) == {m \in removers : x \in Attachments[m.row.doc][m.row.rev]}
AllowedOK ==
    /\ IsFiniteSet(removers)
    /\ \A x \in Digests : allowedAttachments[x] = Cardinality(Holding(x))

(* A revision that a responder takes to be known is the client's, or in    *)
(* the history of a message on its way.                                    *)
InFlight(d, a) ==
    \E k \in revs : k.found /\ k.row.doc = d /\ a \in k.oldest..k.row.rev
KnownOK ==
    \A r \in responders, d \in Docs : \A a \in r.known[d] :
        \/ a \in client.has[d] \/ client.refused[d] # {} \/ r.maxHistory > 0
        \/ InFlight(d, a)

PullInv ==
    /\ PullTypes /\ SequencesOK /\ ContextOK /\ BatchesOK /\ RespondersOK /\ RevsOK
    /\ SeenOK /\ AnnouncedOK /\ FeedOK /\ NothingForgotten /\ CaughtUpComplete
    /\ AllowedOK /\ KnownOK /\ HistoryConnects

----------------------------------------------------------------------------
(* Least and greatest.                                                     *)

(* Max picks the greatest of a set of sequences.                           *)
LEMMA MaxIsGreatest ==
    ASSUME NEW T, T \subseteq 0..MaxSeq, T # {}
    PROVE  Max(T) \in T /\ \A y \in T : y <= Max(T)
BY BlipAssumption, GreatestExists

(* The next row of a queue is one of its rows.                             *)
LEMMA NextRowIsARow ==
    ASSUME NEW q, q \subseteq Rows, q # {}
    PROVE  NextRow(q) \in q
<1> DEFINE T == {x.seq : x \in q}
<1>1. T \subseteq Nat /\ T # {}
  BY BlipAssumption DEF Rows, Seqs
<1>2. PICK n \in T : \A y \in T : n <= y
  <2> HIDE DEF T
  <2> QED
    BY <1>1, LeastExists
<1>3. PICK x \in q : x.seq = n
  OBVIOUS
<1>4. \A y \in q : x.seq <= y.seq
  BY <1>2, <1>3
<1>5. \E z \in q : \A y \in q : z.seq <= y.seq
  BY <1>4
<1> QED
  BY <1>5, Zenon DEF NextRow

(* The database's last sequence is a document's, and no other is later.    *)
LEMMA LastSeqIsLast ==
    ASSUME PullTypes
    PROVE  /\ LastSeq \in 0..MaxSeq
           /\ \A d \in Docs : seqOf[d] <= LastSeq
           /\ \E d \in Docs : LastSeq = seqOf[d]
<1> DEFINE T == {seqOf[d] : d \in Docs}
<1>1. T \subseteq 0..MaxSeq /\ T # {}
  BY BlipAssumption DEF PullTypes
<1>2. Max(T) \in T /\ \A y \in T : y <= Max(T)
  <2> HIDE DEF T
  <2> QED
    BY <1>1, MaxIsGreatest
<1>3. LastSeq = Max(T)
  BY DEF LastSeq
<1> QED
  BY <1>1, <1>2, <1>3

(* A checkpoint is below everything that the client waits for.             *)
LEMMA CheckpointFacts ==
    ASSUME NEW c \in Clients
    PROVE  /\ Checkpoint(c) \in 0..MaxSeq /\ Checkpoint(c) <= c.seen
           /\ \A x \in c.waiting : Checkpoint(c) < x.seq
           /\ c.waiting = {} => Checkpoint(c) = c.seen
<1> DEFINE T == {c.seen} \cup {x.seq - 1 : x \in c.waiting}
<1>1. MaxSeq \in Nat /\ c.seen \in 0..MaxSeq
      /\ \A x \in c.waiting : x.seq \in 1..MaxSeq
  BY BlipAssumption DEF Clients, Rows, Seqs
<1>2. T \subseteq Nat /\ T # {} /\ T \subseteq 0..MaxSeq
  BY <1>1
<1>3. Min(T) \in T /\ \A y \in T : Min(T) <= y
  <2> HIDE DEF T
  <2> QED
    BY <1>2, MinIsLeast
<1>4. Checkpoint(c) = Min(T)
  BY DEF Checkpoint
<1>5. Checkpoint(c) \in T /\ \A y \in T : Checkpoint(c) <= y
  BY <1>3, <1>4
<1>6. Checkpoint(c) \in 0..MaxSeq /\ Checkpoint(c) <= c.seen
  BY <1>2, <1>5
<1>7. ASSUME NEW x \in c.waiting PROVE Checkpoint(c) < x.seq
  <2>1. Checkpoint(c) <= x.seq - 1
    BY <1>5
  <2> QED
    BY <1>1, <1>6, <2>1
<1>8. c.waiting = {} => Checkpoint(c) = c.seen
  BY <1>5
<1> QED
  BY <1>6, <1>7, <1>8

----------------------------------------------------------------------------
(* What the invariant says.                                                *)

(* Everything up to the checkpoint is settled.                             *)
LEMMA InvCheckpoint ==
    ASSUME PullInv
    PROVE  CheckpointSafe
<1> SUFFICES ASSUME NEW d \in Docs, seqOf[d] \in 1..Checkpoint(client), ~client.misled
             PROVE  current[d] \in client.has[d] \cup client.refused[d] \cup client.denied[d]
  BY DEF CheckpointSafe, SettledRevs
<1>1. client \in Clients /\ seqOf[d] \in Nat /\ client.seen \in Nat
  BY BlipAssumption DEF PullInv, PullTypes, Clients
<1>2. /\ Checkpoint(client) \in Nat /\ Checkpoint(client) <= client.seen
      /\ \A x \in client.waiting : Checkpoint(client) < x.seq
  BY <1>1, CheckpointFacts
<1>3. seqOf[d] \in 1..client.seen
  BY <1>1, <1>2
<1>4. Settled(d)
  BY <1>3 DEF PullInv, SeenOK
<1>5. RowOf(d) \notin client.waiting
  <2>1. RowOf(d).seq = seqOf[d]
    BY DEF RowOf
  <2> QED
    BY <1>1, <1>2, <2>1
<1> QED
  BY <1>4, <1>5 DEF Settled

(* A digest is allowed exactly while a revision that has it awaits its     *)
(* reply.                                                                  *)
LEMMA InvAllowed ==
    ASSUME PullInv
    PROVE  AllowedWhilePulling
<1>1. ASSUME NEW x \in Digests
      PROVE  /\ IsAttachmentAllowed(x) <=> Holding(x) # {}
  <2>1. Holding(x) \subseteq removers /\ IsFiniteSet(removers)
    BY DEF Holding, PullInv, AllowedOK
  <2>2. IsFiniteSet(Holding(x))
    BY <2>1, FS_Subset
  <2>3. Cardinality(Holding(x)) \in Nat /\ (Cardinality(Holding(x)) = 0 <=> Holding(x) = {})
    BY <2>2, FS_CardinalityType, FS_EmptySet
  <2>4. allowedAttachments[x] = Cardinality(Holding(x))
    BY DEF PullInv, AllowedOK
  <2> QED
    BY <2>3, <2>4 DEF IsAttachmentAllowed
<1>2. ASSUME NEW m \in revs \cap removers, NEW x \in Attachments[m.row.doc][m.row.rev]
      PROVE  IsAttachmentAllowed(x)
  <2>1. m.row.doc \in Docs /\ m.row.rev \in 1..MaxRev
    BY DEF PullInv, PullTypes, RevMessages, Rows, Revs
  <2>2. x \in Digests
    BY <2>1, BlipAssumption
  <2>3. m \in Holding(x)
    BY DEF Holding
  <2> QED
    BY <1>1, <2>2, <2>3
<1>3. ASSUME NEW x \in Digests, IsAttachmentAllowed(x)
      PROVE  \E m \in removers : x \in Attachments[m.row.doc][m.row.rev]
  BY <1>1, <1>3 DEF Holding
<1> QED
  BY <1>2, <1>3 DEF AllowedWhilePulling

(* The invariant has the types and the flag of the subscription.           *)
LEMMA InvType ==
    ASSUME PullInv
    PROVE  TypeOK /\ OneSubscription
<1>1. PullTypes /\ ContextOK
  BY DEF PullInv
<1>2. \A i \in DOMAIN changes : changes[i].rows \subseteq Rows
  <2>1. DOMAIN changes = 1..Len(changes)
    BY <1>1, LenProperties DEF PullTypes
  <2>2. \A i \in 1..Len(changes) : changes[i] \in Messages
    BY <1>1, ElementOfSeq DEF PullTypes
  <2> QED
    BY <2>1, <2>2 DEF Messages
<1>3. TypeOK
  BY <1>1, <1>2 DEF TypeOK, PullTypes, ContextRecords, FeedRecords, Responders, RevMessages,
                    Clients
<1>4. OneSubscription
  BY <1>1 DEF OneSubscription, ContextOK
<1> QED
  BY <1>3, <1>4

(* The invariant is what the property needs.                               *)
LEMMA InvSafe ==
    ASSUME PullInv
    PROVE  PullSafe
<1>1. CheckpointSafe /\ AllowedWhilePulling /\ TypeOK /\ OneSubscription
  BY InvCheckpoint, InvAllowed, InvType
<1> QED
  BY <1>1 DEF PullInv, PullSafe

----------------------------------------------------------------------------
(* The beginning.                                                          *)

(* A connection starts with nothing on its way, and the client with all of *)
(* the database or with nothing.                                           *)
LEMMA PullInit ==
    ASSUME Init
    PROVE  PullInv
<1>1. PICK order \in Injection(Existing, 1..Cardinality(Existing)) :
         seqOf = [d \in Docs |-> IF d \in Existing THEN order[d] ELSE 0]
  BY DEF Init
<1>2. MaxSeq \in Nat /\ MaxRev \in Nat \ {0} /\ Docs # {} /\ Existing \subseteq Docs
  BY BlipAssumption
<1>3. Cardinality(Existing) \in Nat /\ Cardinality(Existing) <= MaxSeq
  BY BlipAssumption, FS_CardinalityType
<1>4. /\ \A d \in Existing : order[d] \in 1..MaxSeq
      /\ \A d, e \in Existing : order[d] = order[e] => d = e
  <2>1. order \in [Existing -> 1..Cardinality(Existing)]
        /\ \A d, e \in Existing : order[d] = order[e] => d = e
    BY DEF Injection, IsInjective
  <2> QED
    BY <1>2, <1>3, <2>1
<1>5. seqOf \in [Docs -> 0..MaxSeq]
  BY <1>1, <1>2, <1>4
<1>6. current \in [Docs -> 0..MaxRev]
  BY <1>2 DEF Init
<1>7. PICK h, n : /\ h \in RevSets /\ n \in 0..MaxSeq /\ Reached(n)
                  /\ client = NewClient(h, n)
                  /\ n = 0 \/ h = [d \in Docs |-> 1..current[d]]
  <2>1. CASE client = NewClient([d \in Docs |-> {}], 0)
    <3>1. [d \in Docs |-> {}] \in RevSets
      BY DEF RevSets
    <3>2. Reached(0) /\ 0 \in 0..MaxSeq
      BY <1>2, <1>5 DEF Reached
    <3> QED
      BY <2>1, <3>1, <3>2
  <2>2. CASE client = NewClient([d \in Docs |-> 1..current[d]], Max({seqOf[d] : d \in Docs}))
    <3> DEFINE T == {seqOf[d] : d \in Docs}
    <3>1. T \subseteq 0..MaxSeq /\ T # {}
      BY <1>2, <1>5
    <3>2. Max(T) \in T
      <4> HIDE DEF T
      <4> QED
        BY <3>1, MaxIsGreatest
    <3>3. Max(T) \in 0..MaxSeq /\ Reached(Max(T))
      <4>1. PICK d \in Docs : Max(T) = seqOf[d]
        BY <3>2
      <4>2. seqOf[d] \in 0..MaxSeq /\ seqOf[d] <= seqOf[d]
        BY <1>2, <1>5
      <4> QED
        BY <4>1, <4>2 DEF Reached
    <3>4. [d \in Docs |-> 1..current[d]] \in RevSets
      BY <1>2, <1>6 DEF RevSets, Revs
    <3> QED
      BY <2>2, <3>3, <3>4
  <2> QED
    BY <2>1, <2>2 DEF Init
<1>8. /\ client.has = h /\ client.refused = [d \in Docs |-> {}] /\ client.seen = n
      /\ client.denied = [d \in Docs |-> {}]
      /\ client.waiting = {} /\ client.told = 0 /\ client.misled = FALSE
  BY <1>7 DEF NewClient
<1>9. /\ context = NewContext /\ feed = NoFeed /\ changes = <<>> /\ responders = {}
      /\ revs = {} /\ removers = {} /\ allowedAttachments = [x \in Digests |-> 0]
      /\ used = [subs |-> 0, batches |-> 0, faults |-> 0]
  BY DEF Init
<1>10. Len(changes) = 0 /\ changes \in Seq(Messages)
  BY <1>9, EmptySeq
<1>11. PullTypes
  <2>1. client \in Clients
    <3>1. [d \in Docs |-> {}] \in RevSets
      BY DEF RevSets
    <3> QED
      BY <1>7, <3>1 DEF NewClient, Clients
  <2>2. feed \in FeedRecords
    BY <1>2, <1>9 DEF NoFeed, FeedRecords
  <2>3. context \in ContextRecords
    BY <1>9 DEF NewContext, ContextRecords
  <2>4. used \in Counters
    BY <1>9 DEF Counters
  <2>5. allowedAttachments \in [Digests -> Nat]
    BY <1>9
  <2> QED
    BY <1>5, <1>6, <1>9, <1>10, <2>1, <2>2, <2>3, <2>4, <2>5 DEF PullTypes
<1>12. SequencesOK
  <2>1. \A d \in Docs : seqOf[d] > 0 => current[d] > 0
    BY <1>1, <1>2 DEF Init
  <2>2. \A d, e \in Docs : seqOf[d] = seqOf[e] /\ seqOf[d] > 0 => d = e
    BY <1>1, <1>2, <1>4
  <2>3. feed.since = 0 /\ feed.goal = 0 /\ Reached(0)
    BY <1>2, <1>5, <1>9 DEF NoFeed, Reached
  <2> QED
    BY <1>7, <1>8, <2>1, <2>2, <2>3 DEF SequencesOK
<1>13. ContextOK
  BY <1>8, <1>9 DEF ContextOK, NoFeed, NewContext
<1>14. BatchesOK /\ RespondersOK /\ RevsOK /\ AnnouncedOK /\ NothingForgotten /\ KnownOK
       /\ HistoryConnects
  BY <1>8, <1>9, <1>10 DEF BatchesOK, RespondersOK, RevsOK, AnnouncedOK, NothingForgotten,
       KnownOK, HistoryConnects, NoFeed
<1>15. SeenOK
  <2> SUFFICES ASSUME NEW d \in Docs, seqOf[d] \in 1..n PROVE current[d] \in h[d]
    BY <1>8 DEF SeenOK, Settled
  <2>1. n # 0
    BY <1>5
  <2>2. h[d] = 1..current[d]
    BY <1>7, <2>1
  <2>3. current[d] \in Nat /\ current[d] > 0
    <3>1. seqOf[d] > 0
      BY <1>5
    <3> QED
      BY <1>2, <1>6, <1>12, <3>1 DEF SequencesOK
  <2> QED
    BY <2>2, <2>3
<1>16. FeedOK /\ CaughtUpComplete
  BY <1>9 DEF FeedOK, CaughtUpComplete, NoFeed
<1>17. AllowedOK
  <2>1. IsFiniteSet({}) /\ Cardinality({}) = 0
    BY FS_EmptySet
  <2>2. \A x \in Digests : Holding(x) = {}
    BY <1>9 DEF Holding
  <2> QED
    BY <1>9, <2>1, <2>2 DEF AllowedOK
<1> QED
  BY <1>11, <1>12, <1>13, <1>14, <1>15, <1>16, <1>17 DEF PullInv

----------------------------------------------------------------------------
(* The database.                                                           *)

(* A change of a document is ahead of everything that was announced.       *)
LEMMA UpdateStep ==
    ASSUME PullInv, NEW d \in Docs, NEW n \in 1..2, Update(d, n)
    PROVE  PullInv'
<1>1. /\ LastSeq < MaxSeq /\ current[d] + n \in Revs
      /\ current' = [current EXCEPT ![d] = current[d] + n]
      /\ seqOf' = [seqOf EXCEPT ![d] = LastSeq + 1]
      /\ context' = context /\ feed' = feed /\ responders' = responders
      /\ removers' = removers /\ allowedAttachments' = allowedAttachments
      /\ changes' = changes /\ revs' = revs /\ client' = client /\ used' = used
  BY DEF Update, server
<1>2. /\ MaxSeq \in Nat /\ MaxRev \in Nat /\ LastSeq \in 0..MaxSeq
      /\ \A e \in Docs : seqOf[e] <= LastSeq /\ seqOf[e] \in Nat /\ current[e] \in Nat
  BY BlipAssumption, LastSeqIsLast DEF PullInv, PullTypes
<1>3. PullTypes /\ client \in Clients /\ feed \in FeedRecords /\ client.seen \in Nat
      /\ feed.since \in Nat /\ feed.goal \in Nat
  BY <1>2 DEF PullInv, PullTypes, Clients, FeedRecords
<1>4. /\ seqOf'[d] = LastSeq + 1 /\ current'[d] = current[d] + n /\ current'[d] > current[d]
      /\ \A e \in Docs \ {d} : seqOf'[e] = seqOf[e] /\ current'[e] = current[e]
      /\ \A e \in Docs : seqOf[e] <= seqOf'[e] /\ seqOf'[e] \in Nat
  BY SMTT(30), <1>1, <1>2, <1>3 DEF PullTypes
<1>5. ASSUME NEW k \in Nat, Reached(k) PROVE k <= LastSeq /\ Reached(k)'
  BY <1>2, <1>4, <1>5 DEF Reached
<1>6. client.seen <= LastSeq /\ feed.since <= LastSeq /\ feed.goal <= LastSeq
      /\ Reached(client.seen)' /\ Reached(feed.since)' /\ Reached(feed.goal)'
  BY <1>1, <1>3, <1>5 DEF PullInv, SequencesOK, Reached
<1>7. \A e \in Docs : e # d => RowOf(e)' = RowOf(e) /\ (Settled(e) => Settled(e)')
  BY <1>1, <1>4 DEF RowOf, Settled
<1>8. PullTypes'
  <2>1. LastSeq + 1 \in 0..MaxSeq /\ current[d] + n \in 0..MaxRev
    BY <1>1, <1>2 DEF Revs
  <2>2. seqOf' \in [Docs -> 0..MaxSeq] /\ current' \in [Docs -> 0..MaxRev]
    BY <1>1, <1>3, <2>1 DEF PullTypes
  <2> QED
    BY <1>1, <1>3, <2>2 DEF PullTypes
<1>9. SequencesOK'
  <2>1. \A e \in Docs : seqOf'[e] > 0 => current'[e] > 0
    BY <1>2, <1>4 DEF PullInv, SequencesOK
  <2>2. \A e, f \in Docs : seqOf'[e] = seqOf'[f] /\ seqOf'[e] > 0 => e = f
    BY <1>2, <1>4 DEF PullInv, SequencesOK
  <2> QED
    BY <1>1, <1>6, <2>1, <2>2 DEF SequencesOK
<1>10. (ContextOK /\ BatchesOK /\ RespondersOK)'
  BY <1>1 DEF PullInv, ContextOK, BatchesOK, RespondersOK
<1>11. RevsOK'
  BY <1>1 DEF PullInv, RevsOK
<1>12. SeenOK'
  BY <1>1, <1>2, <1>3, <1>4, <1>6, <1>7 DEF PullInv, SeenOK
<1>13. ASSUME NEW i \in 1..Len(changes), NEW x \in changes[i].rows
       PROVE  x.seq \in Nat /\ x.seq <= LastSeq
  <2>1. changes[i] \in Messages
    BY <1>3, ElementOfSeq DEF PullTypes
  <2>2. x.seq \in Nat
    BY <1>2, <2>1 DEF Messages, Rows, Seqs
  <2>3. x.seq <= feed.since
    BY DEF PullInv, BatchesOK
  <2> QED
    BY <1>2, <1>3, <1>6, <2>2, <2>3
<1>14. AnnouncedOK'
  <2> SUFFICES ASSUME ~feed.filtered, NEW i \in 1..Len(changes)
               PROVE  SkipsNothing(i)' /\ EndsComplete(i)'
    BY <1>1 DEF AnnouncedOK
  <2>1. SkipsNothing(i) /\ EndsComplete(i)
    BY DEF PullInv, AnnouncedOK
  <2>2. ASSUME NEW x \in changes[i].rows, NEW e \in Docs, seqOf'[e] \in 1..x.seq
        PROVE  Settled(e)' \/ Excused' \/ \E j \in 1..i : RowOf(e)' \in changes[j].rows
    <3>1. e # d
      BY <1>2, <1>4, <1>13, <2>2
    <3> QED
      BY <1>1, <1>4, <1>7, <2>1, <2>2, <3>1 DEF SkipsNothing, Excused
  <2>3. SkipsNothing(i)'
    BY <1>1, <2>2 DEF SkipsNothing
  <2>4. ASSUME NEW e \in Docs, seqOf'[e] <= feed.goal PROVE seqOf'[e] = seqOf[e]
    BY <1>2, <1>3, <1>4, <1>6, <2>4
  <2>5. EndsComplete(i)'
    BY <1>1, <2>1, <2>4 DEF EndsComplete
  <2> QED
    BY <2>3, <2>5
<1>15. FeedOK'
  <2> SUFFICES ASSUME feed.on, ~feed.filtered, NEW e \in Docs, seqOf'[e] \in 1..feed.since
               PROVE  \/ Settled(e)' \/ Excused' \/ RowOf(e)' \in feed.pending
                      \/ \E j \in 1..Len(changes) : RowOf(e)' \in changes[j].rows
    BY <1>1 DEF PullInv, FeedOK
  <2>1. e # d
    BY <1>2, <1>3, <1>4, <1>6
  <2> QED
    BY <1>1, <1>4, <1>7, <2>1 DEF PullInv, FeedOK, Excused
<1>16. CaughtUpComplete'
  <2>1. ASSUME NEW e \in Docs, seqOf'[e] <= feed.goal PROVE seqOf'[e] = seqOf[e]
    BY <1>2, <1>3, <1>4, <1>6, <2>1
  <2> QED
    BY <1>1, <2>1 DEF PullInv, CaughtUpComplete
<1>17. (NothingForgotten /\ AllowedOK /\ KnownOK /\ HistoryConnects)'
  BY <1>1 DEF PullInv, NothingForgotten, AllowedOK, KnownOK, HistoryConnects, Holding, InFlight
<1> QED
  BY <1>8, <1>9, <1>10, <1>11, <1>12, <1>14, <1>15, <1>16, <1>17 DEF PullInv

----------------------------------------------------------------------------
(* Subscriptions.                                                          *)

(* A subscription starts where the client resumes, with nothing of an      *)
(* earlier one on its way, or marks the connection as taken.               *)
LEMMA HandleSubChangesStep ==
    ASSUME PullInv, NEW rq \in Requests, HandleSubChanges(rq)
    PROVE  PullInv'
<1>1. /\ changes = <<>> /\ client.waiting = {} /\ ~context.active
      /\ used' = [used EXCEPT !.subs = @ + 1]
      /\ current' = current /\ seqOf' = seqOf /\ changes' = changes
      /\ responders' = responders /\ revs' = revs /\ removers' = removers
      /\ allowedAttachments' = allowedAttachments /\ client' = client
  BY DEF HandleSubChanges, MayRequest
<1>2. /\ PullTypes /\ used \in Counters /\ used' \in Counters /\ used'.subs = used.subs + 1
      /\ used'.batches = used.batches /\ used.subs \in Nat /\ client \in Clients
      /\ context \in ContextRecords /\ feed \in FeedRecords
  BY <1>1 DEF PullInv, PullTypes, Counters
<1>3. Len(changes) = 0
  BY <1>1
<1>4. rq.filter \in {"none", "bychannel", "invalid"} /\ rq.continuous \in BOOLEAN
  BY BlipAssumption
<1>5. (RespondersOK /\ RevsOK /\ SeenOK /\ AnnouncedOK /\ NothingForgotten /\ AllowedOK
       /\ KnownOK /\ HistoryConnects)'
  <2>0. RespondersOK'
    BY <1>1, <1>2 DEF PullInv, RespondersOK
  <2>1. (RevsOK /\ NothingForgotten /\ KnownOK /\ HistoryConnects)'
    BY <1>1 DEF PullInv, RevsOK, NothingForgotten, KnownOK, HistoryConnects, InFlight
  <2>2. (SeenOK /\ AllowedOK)'
    BY <1>1 DEF PullInv, SeenOK, AllowedOK, Holding, Settled, RowOf
  <2>3. AnnouncedOK'
    BY <1>1, <1>3 DEF AnnouncedOK
  <2> QED
    BY <2>0, <2>1, <2>2, <2>3
<1>6. CASE rq.filter = "invalid"
  <2>1. context' = [context EXCEPT !.active = TRUE, !.stuck = TRUE] /\ feed' = feed
    BY <1>6 DEF HandleSubChanges
  <2>2. /\ context' \in ContextRecords /\ context'.active /\ context'.stuck
        /\ context'.channels = context.channels /\ context'.inherited = context.inherited
    BY <1>2, <2>1 DEF ContextRecords
  <2>3. PullTypes'
    BY <1>1, <1>2, <2>1, <2>2 DEF PullTypes
  <2>4. (SequencesOK /\ BatchesOK /\ FeedOK /\ CaughtUpComplete)'
    BY <1>1, <1>2, <1>3, <2>1, <2>2 DEF PullInv, SequencesOK, BatchesOK, FeedOK,
        CaughtUpComplete, Reached, Settled, RowOf, Excused
  <2>5. ContextOK'
    <3>1. feed.sub \in Nat /\ client.told \in Nat
      BY <1>2 DEF FeedRecords, Clients
    <3> QED
      BY <1>1, <1>2, <2>1, <2>2, <3>1 DEF PullInv, ContextOK
  <2> QED
    BY <1>5, <2>3, <2>4, <2>5 DEF PullInv
<1>7. CASE rq.filter # "invalid"
  <2> DEFINE chans == ChannelsOf(rq)
             start == SinceOf(rq)
             goal == LastSeq
  <2>1. /\ context' = [context EXCEPT !.active = TRUE, !.channels = chans,
                          !.inherited = (rq.filter = "none" /\ chans # Docs)]
        /\ feed' = Subscribed(rq)
    BY <1>7 DEF HandleSubChanges
  <2>2. chans \in {Docs, Filtered}
    BY <1>2 DEF ChannelsOf, ContextRecords
  <2>3. /\ start \in 0..MaxSeq /\ start <= client.seen
        /\ rq.filter = "none" => start = client.seen
    <3>1. 0 \in 0..MaxSeq /\ client.seen \in Nat /\ 0 <= client.seen
      BY <1>2, BlipAssumption DEF Clients
    <3> QED
      BY <1>1, <1>2, <3>1, CheckpointFacts DEF SinceOf
  <2>4. goal \in 0..MaxSeq /\ Reached(goal)
    <3>1. PICK e \in Docs : LastSeq = seqOf[e]
      BY <1>2, LastSeqIsLast
    <3>2. LastSeq \in 0..MaxSeq /\ LastSeq <= LastSeq
      BY <1>2, LastSeqIsLast, BlipAssumption
    <3> QED
      BY <3>1, <3>2 DEF Reached
  <2>5. /\ context'.active /\ context'.channels = chans
        /\ context'.inherited = (rq.filter = "none" /\ chans # Docs)
        /\ context' \in ContextRecords
    <3> HIDE DEF chans
    <3>1. context'.active /\ context'.channels = chans
          /\ context'.inherited = (rq.filter = "none" /\ chans # Docs)
      BY <1>2, <2>1 DEF ContextRecords
    <3>2. (rq.filter = "none" /\ chans # Docs) \in BOOLEAN
      BY Zenon
    <3>3. context' \in ContextRecords
      BY <1>2, <2>1, <2>2, <3>2 DEF ContextRecords
    <3> QED
      BY <3>1, <3>3
  <2>6. /\ feed'.on /\ feed'.sub = used.subs + 1 /\ feed'.since = start
        /\ feed'.filtered = (rq.filter = "bychannel") /\ feed'.goal = goal
        /\ feed'.pending = {} /\ feed' \in FeedRecords
    <3> HIDE DEF start, goal
    <3>1. feed' = [NoFeed EXCEPT !.on = TRUE, !.sub = used.subs + 1,
                      !.continuous = rq.continuous, !.since = start,
                      !.filtered = (rq.filter = "bychannel"), !.goal = goal]
      BY <2>1 DEF Subscribed, start, goal
    <3>2. (rq.filter = "bychannel") \in BOOLEAN
      BY Zenon
    <3>3. NoFeed \in FeedRecords
      BY BlipAssumption DEF NoFeed, FeedRecords
    <3>4. /\ feed'.on /\ feed'.sub = used.subs + 1 /\ feed'.since = start
          /\ feed'.filtered = (rq.filter = "bychannel") /\ feed'.goal = goal
          /\ feed'.pending = {}
      BY <3>1 DEF NoFeed
    <3>5. feed' \in FeedRecords
      <4>1. used.subs + 1 \in Nat
        BY <1>2
      <4>2. start \in 0..MaxSeq /\ goal \in 0..MaxSeq /\ rq.continuous \in BOOLEAN
        BY <1>4, <2>3, <2>4
      <4> QED
        BY <3>1, <3>2, <3>3, <4>1, <4>2, Zenon DEF FeedRecords
    <3> QED
      BY <3>4, <3>5
  <2> HIDE DEF chans, start, goal
  <2>7. PullTypes'
    BY <1>1, <1>2, <2>5, <2>6 DEF PullTypes
  <2>8. SequencesOK'
    <3>1. Reached(client.seen)' /\ \E e \in Docs : goal <= seqOf'[e]
      BY <1>1, <2>4 DEF PullInv, SequencesOK, Reached
    <3>2. \E e \in Docs : start <= seqOf'[e]
      <4>1. PICK e \in Docs : client.seen <= seqOf[e]
        BY DEF PullInv, SequencesOK, Reached
      <4>2. client.seen \in Nat /\ seqOf[e] \in Nat /\ start \in Nat
        BY <1>2, <2>3, BlipAssumption DEF PullTypes, Clients
      <4>3. start <= seqOf[e]
        BY <2>3, <4>1, <4>2
      <4> QED
        BY <1>1, <4>3
    <3>3. Reached(feed.since)' /\ Reached(feed.goal)'
      BY <2>6, <3>1, <3>2 DEF Reached
    <3> QED
      BY <1>1, <3>1, <3>3 DEF PullInv, SequencesOK
  <2>9. ContextOK'
    <3>1. client.told \in Nat /\ client.told <= used.subs
      BY <1>2 DEF PullInv, ContextOK, Clients
    <3>2. feed'.sub > 0 /\ feed'.sub <= used'.subs /\ client'.told <= used'.subs
      BY <1>1, <1>2, <2>6, <3>1
    <3>3. ~feed'.filtered /\ ~context'.inherited => context'.channels = Docs
      BY <1>4, <1>7, <2>5, <2>6
    <3> QED
      BY <2>5, <2>6, <3>2, <3>3 DEF ContextOK
  <2>10. BatchesOK'
    BY <1>1, <1>3, <2>6 DEF BatchesOK
  <2>11. FeedOK'
    <3>1. ~feed'.filtered => start = client.seen
      BY <1>4, <1>7, <2>3, <2>6
    <3>2. client.seen \in Nat /\ start \in Nat
      BY <1>2, <2>3, BlipAssumption DEF Clients
    <3>3. ~feed'.filtered => \A e \in Docs : seqOf[e] \in 1..start =>
                                Settled(e) \/ client.misled
      BY <3>1 DEF PullInv, SeenOK
    <3>4. \A e \in Docs : Settled(e)' <=> Settled(e)
      BY <1>1 DEF Settled, RowOf
    <3> QED
      BY <1>1, <2>6, <3>1, <3>2, <3>3, <3>4 DEF FeedOK, Excused
  <2>12. CaughtUpComplete'
    <3>1. client.told \in Nat /\ client.told <= used.subs /\ used.subs \in Nat
      BY <1>2 DEF PullInv, ContextOK, Clients
    <3>2. client'.told # feed'.sub
      BY <1>1, <2>6, <3>1
    <3> QED
      BY <3>2 DEF CaughtUpComplete
  <2> QED
    BY <1>5, <2>7, <2>8, <2>9, <2>10, <2>11, <2>12 DEF PullInv
<1> QED
  BY <1>6, <1>7

(* The client resumes from its checkpoint; nothing else survives.          *)
LEMMA ReconnectStep ==
    ASSUME PullInv, Reconnect
    PROVE  PullInv'
<1>1. /\ context' = NewContext /\ feed' = NoFeed /\ changes' = <<>> /\ responders' = {}
      /\ revs' = {} /\ removers' = {} /\ allowedAttachments' = [x \in Digests |-> 0]
      /\ client' = [client EXCEPT !.seen = Checkpoint(client), !.waiting = {}, !.told = 0]
      /\ used' = [used EXCEPT !.faults = @ + 1, !.batches = 0]
      /\ current' = current /\ seqOf' = seqOf
  BY DEF Reconnect
<1>2. PullTypes /\ client \in Clients /\ used \in Counters
  BY DEF PullInv, PullTypes
<1>3. Checkpoint(client) \in 0..MaxSeq /\ Checkpoint(client) <= client.seen
  BY <1>2, CheckpointFacts
<1>4. /\ client' \in Clients /\ client'.seen = Checkpoint(client) /\ client'.waiting = {}
      /\ client'.told = 0 /\ client'.has = client.has /\ client'.refused = client.refused
      /\ client'.denied = client.denied
      /\ client'.misled = client.misled
  BY <1>1, <1>2, <1>3 DEF Clients
<1>5. used' \in Counters /\ used'.subs = used.subs /\ used.subs \in Nat
  <2>1. used.faults \in Nat /\ used.subs \in Nat
    BY <1>2 DEF Counters
  <2>2. used' = [used EXCEPT !.faults = used.faults + 1, !.batches = 0]
    BY <1>1, <1>2 DEF Counters
  <2>3. used.faults + 1 \in Nat /\ 0 \in Nat
    BY <2>1
  <2>4. used' \in Counters
    BY <1>2, <2>2, <2>3, Zenon DEF Counters
  <2>5. used'.subs = used.subs
    BY <1>2, <2>2, Zenon DEF Counters
  <2> QED
    BY <2>1, <2>4, <2>5
<1>6. Len(changes') = 0 /\ changes' \in Seq(Messages)
  BY <1>1, EmptySeq
<1>7. PullTypes'
  <2>1. feed' \in FeedRecords
    BY <1>1, BlipAssumption DEF NoFeed, FeedRecords
  <2>2. context' \in ContextRecords
    BY <1>1 DEF NewContext, ContextRecords
  <2>3. allowedAttachments' \in [Digests -> Nat]
    BY <1>1
  <2> QED
    BY <1>1, <1>2, <1>4, <1>5, <1>6, <2>1, <2>2, <2>3 DEF PullTypes
<1>8. SequencesOK'
  <2>1. feed'.since = 0 /\ feed'.goal = 0
    BY <1>1 DEF NoFeed
  <2>2. PICK e \in Docs : client.seen <= seqOf[e]
    BY DEF PullInv, SequencesOK, Reached
  <2>3. client.seen \in Nat /\ seqOf[e] \in Nat /\ Checkpoint(client) \in Nat
    BY <1>2, <1>3, BlipAssumption DEF PullTypes, Clients
  <2>4. Checkpoint(client) <= seqOf[e] /\ 0 <= seqOf[e]
    BY <1>3, <2>2, <2>3
  <2>5. Reached(client.seen)' /\ Reached(feed.since)' /\ Reached(feed.goal)'
    BY <1>1, <1>4, <2>1, <2>4 DEF Reached
  <2> QED
    BY <1>1, <2>5 DEF PullInv, SequencesOK
<1>9. ContextOK'
  BY <1>1, <1>4, <1>5 DEF ContextOK, NoFeed, NewContext
<1>10. (BatchesOK /\ RespondersOK /\ RevsOK /\ AnnouncedOK /\ NothingForgotten /\ KnownOK
        /\ HistoryConnects)'
  BY <1>1, <1>4, <1>6 DEF BatchesOK, RespondersOK, RevsOK, AnnouncedOK, NothingForgotten,
       KnownOK, HistoryConnects, NoFeed
<1>11. SeenOK'
  <2>1. CheckpointSafe
    BY InvCheckpoint
  <2> QED
    BY <1>1, <1>4, <2>1 DEF SeenOK, CheckpointSafe, Settled, SettledRevs
<1>12. (FeedOK /\ CaughtUpComplete)'
  BY <1>1 DEF FeedOK, CaughtUpComplete, NoFeed
<1>13. AllowedOK'
  <2>1. IsFiniteSet({}) /\ Cardinality({}) = 0
    BY FS_EmptySet
  <2>2. \A x \in Digests : Holding(x)' = {}
    BY <1>1 DEF Holding
  <2> QED
    BY <1>1, <2>1, <2>2 DEF AllowedOK
<1> QED
  BY <1>7, <1>8, <1>9, <1>10, <1>11, <1>12, <1>13 DEF PullInv

----------------------------------------------------------------------------
(* Batches.                                                                *)

(* What sending a batch, an empty one, or both does to the messages on     *)
(* their way.                                                              *)
OldOnes == \A i \in 1..Len(changes) : changes'[i] = changes[i]
NewOne(rows, i) ==
    /\ rows # {} /\ i = Len(changes) + 1
    /\ changes'[i].rows = rows /\ changes'[i].id = used.batches
EmptyOne(rows, caughtUp, i) ==
    /\ caughtUp /\ changes'[i].rows = {}
    /\ rows # {} => i > Len(changes) + 1
Sent(rows, caughtUp) ==
    /\ changes' \in Seq(Messages)
    /\ Len(changes) \in Nat /\ Len(changes') \in Nat /\ Len(changes) <= Len(changes')
    /\ OldOnes
    /\ \A i \in 1..Len(changes') : i > Len(changes) =>
          /\ changes'[i].sub = feed.sub /\ changes'[i].filtered = feed.filtered
          /\ NewOne(rows, i) \/ EmptyOne(rows, caughtUp, i)
    /\ rows # {} => Len(changes) + 1 <= Len(changes') /\ changes'[Len(changes) + 1].rows = rows

(* What a call of sendBatchOfChanges appends: the batch with its           *)
(* goroutine, and the empty batch.                                         *)
LEMMA SendBatchesFacts ==
    ASSUME PullTypes, NEW rows, rows \subseteq Rows, NEW caughtUp \in BOOLEAN,
           NEW faults \in Nat, SendBatches(rows, caughtUp, faults)
    PROVE  /\ Sent(rows, caughtUp)
           /\ responders' = IF rows = {} THEN responders ELSE responders \cup {NewResponder}
           /\ used' \in Counters /\ used'.subs = used.subs
           /\ used'.batches = IF rows = {} THEN used.batches ELSE used.batches + 1
<1> DEFINE n == IF rows = {} THEN 0 ELSE 1
           message(r) == [id |-> used.batches, sub |-> feed.sub, filtered |-> feed.filtered,
                          rows |-> r]
           a == message(rows)
           b == message({})
           A == IF n = 1 THEN <<a>> ELSE <<>>
           B == IF caughtUp THEN <<b>> ELSE <<>>
           N == Len(changes)
<1>1. /\ changes' = (changes \o A) \o B
      /\ responders' = responders \cup (IF n = 1 THEN {NewResponder} ELSE {})
      /\ used' = [used EXCEPT !.batches = @ + n, !.faults = @ + faults]
  BY DEF SendBatches
<1>2. changes \in Seq(Messages) /\ used \in Counters /\ feed \in FeedRecords
  BY DEF PullTypes
<1>3. a \in Messages /\ b \in Messages
  <2>1. used.batches \in Nat /\ feed.sub \in Nat /\ feed.filtered \in BOOLEAN
    BY <1>2 DEF Counters, FeedRecords
  <2> QED
    BY <2>1 DEF Messages
<1>4. /\ a.rows = rows /\ a.id = used.batches /\ a.sub = feed.sub /\ a.filtered = feed.filtered
      /\ b.rows = {} /\ b.sub = feed.sub /\ b.filtered = feed.filtered
  OBVIOUS
<1>5. /\ used' \in Counters /\ used'.subs = used.subs
      /\ used'.batches = used.batches + n
  <2>1. used.batches \in Nat /\ used.faults \in Nat /\ n \in Nat
    BY <1>2 DEF Counters
  <2>2. used' = [used EXCEPT !.batches = used.batches + n, !.faults = used.faults + faults]
    BY <1>1, <1>2 DEF Counters
  <2>3. used.batches + n \in Nat /\ used.faults + faults \in Nat
    BY <2>1
  <2> HIDE DEF n
  <2> QED
    BY <1>2, <2>2, <2>3, Zenon DEF Counters
<1>6. rows = {} => n = 0
  OBVIOUS
<1>7. rows # {} => n = 1
  OBVIOUS
<1>8. /\ A \in Seq(Messages) /\ Len(A) = n /\ (n = 1 => A[1] = a)
      /\ B \in Seq(Messages) /\ Len(B) = (IF caughtUp THEN 1 ELSE 0) /\ (caughtUp => B[1] = b)
  <2> HIDE DEF a, b
  <2>1. n = 0 \/ n = 1
    OBVIOUS
  <2> HIDE DEF n
  <2> QED
    BY <1>3, <2>1
<1> HIDE DEF n, message, a, b, A, B
<1> DEFINE X == changes \o A
<1>9. /\ X \in Seq(Messages) /\ Len(X) = N + Len(A)
      /\ \A i \in 1..(N + Len(A)) : X[i] = IF i <= N THEN changes[i] ELSE A[i - N]
  BY <1>2, <1>8, ConcatProperties
<1> HIDE DEF X
<1>10. /\ changes' \in Seq(Messages) /\ Len(changes') = Len(X) + Len(B)
       /\ \A i \in 1..(Len(X) + Len(B)) : changes'[i] = IF i <= Len(X) THEN X[i] ELSE B[i - Len(X)]
  <2>1. changes' = X \o B
    BY <1>1 DEF X
  <2>2. /\ X \o B \in Seq(Messages) /\ Len(X \o B) = Len(X) + Len(B)
        /\ \A i \in 1..(Len(X) + Len(B)) : (X \o B)[i] = IF i <= Len(X) THEN X[i] ELSE B[i - Len(X)]
    <3>1. X \in Seq(Messages) /\ B \in Seq(Messages)
      BY <1>8, <1>9
    <3> QED
      BY ONLY <3>1, ConcatProperties
  <2> QED
    BY ONLY <2>1, <2>2
<1>11. N \in Nat /\ n \in Nat
  <2>1. N \in Nat
    BY <1>2, LenProperties
  <2> QED
    BY <1>6, <1>7, <2>1
<1> HIDE DEF N
<1>12. /\ Len(changes') \in Nat /\ Len(changes') = N + n + (IF caughtUp THEN 1 ELSE 0)
       /\ \A i \in 1..N : changes'[i] = changes[i]
  BY <1>8, <1>9, <1>10, <1>11
<1>13. n = 1 => changes'[N + 1] = a
  BY <1>8, <1>9, <1>10, <1>11
<1>14. caughtUp => changes'[N + n + 1] = b
  BY <1>8, <1>9, <1>10, <1>11
<1>15. ASSUME NEW i \in 1..Len(changes'), i > N
       PROVE  \/ n = 1 /\ i = N + 1 /\ changes'[i] = a
              \/ caughtUp /\ i = N + n + 1 /\ changes'[i] = b
  <2>1. CASE i = N + 1 /\ n = 1
    BY <1>13, <2>1
  <2>2. CASE ~(i = N + 1 /\ n = 1)
    <3>1. i = N + n + 1 /\ caughtUp
      <4>1. n = 0 \/ n = 1
        BY <1>6, <1>7
      <4>2. i <= N + n + (IF caughtUp THEN 1 ELSE 0) /\ i \in Nat
        BY <1>11, <1>12
      <4> QED
        BY <1>11, <1>15, <2>2, <4>1, <4>2
    <3> QED
      BY <1>14, <3>1
  <2> QED
    BY <2>1, <2>2
<1>16. ASSUME NEW i \in 1..Len(changes'), i > N
       PROVE  /\ changes'[i].sub = feed.sub /\ changes'[i].filtered = feed.filtered
              /\ NewOne(rows, i) \/ EmptyOne(rows, caughtUp, i)
  <2>1. CASE n = 1 /\ i = N + 1 /\ changes'[i] = a
    BY <1>4, <1>6, <2>1 DEF NewOne, N
  <2>2. CASE caughtUp /\ i = N + n + 1 /\ changes'[i] = b
    BY <1>4, <1>7, <1>11, <2>2 DEF EmptyOne, N
  <2> QED
    BY <1>15, <1>16, <2>1, <2>2
<1>17. N <= Len(changes') /\ (rows # {} => N + 1 <= Len(changes') /\ changes'[N + 1].rows = rows)
  BY <1>4, <1>7, <1>11, <1>12, <1>13
<1>18. Sent(rows, caughtUp)
  BY <1>10, <1>11, <1>12, <1>16, <1>17 DEF Sent, OldOnes, N
<1>19. responders' = IF rows = {} THEN responders ELSE responders \cup {NewResponder}
  BY <1>1, <1>6, <1>7
<1>20. used'.batches = IF rows = {} THEN used.batches ELSE used.batches + 1
  <2>1. used.batches \in Nat
    BY <1>2 DEF Counters
  <2> QED
    BY <1>5, <1>6, <1>7, <2>1
<1> QED
  BY <1>5, <1>18, <1>19, <1>20

(* What the callbacks of a feed have in common.                            *)
FeedMoves(rows) ==
    /\ current' = current /\ seqOf' = seqOf /\ revs' = revs /\ removers' = removers
    /\ allowedAttachments' = allowedAttachments /\ client' = client
    /\ context'.inherited = context.inherited
    /\ feed' \in FeedRecords /\ feed'.sub = feed.sub /\ feed'.filtered = feed.filtered
    /\ feed'.goal = feed.goal /\ (feed.failed => feed'.failed) /\ feed.since <= feed'.since
    /\ \A x \in rows \cup feed'.pending : x.seq <= feed'.since

AnnouncedIn(d) == \E j \in 1..Len(changes) : RowOf(d) \in changes[j].rows

(* The batch leaves nothing out that the feed has passed.                  *)
Covers(rows) ==
    rows # {} /\ ~feed.filtered =>
        \A d \in Docs : seqOf[d] \in 1..feed'.since =>
            Settled(d) \/ Excused \/ RowOf(d) \in rows \/ AnnouncedIn(d)

(* The empty batch is not premature.                                       *)
Completes(rows, caughtUp) ==
    caughtUp /\ ~feed.filtered =>
        \/ feed'.failed \/ context.inherited
        \/ \A d \in Docs : seqOf[d] <= feed.goal =>
              \/ seqOf[d] <= client.seen
              \/ \E x \in rows : seqOf[d] <= x.seq
              \/ \E j \in 1..Len(changes) : \E x \in changes[j].rows : seqOf[d] <= x.seq

(* Sending a batch that skips nothing, and an empty one when all has been  *)
(* announced, keeps what is said of messages and goroutines.               *)
LEMMA BatchStep ==
    ASSUME PullInv, NEW rows, rows \subseteq Rows, NEW caughtUp \in BOOLEAN,
           NEW faults \in Nat, SendBatches(rows, caughtUp, faults),
           FeedMoves(rows), Covers(rows), Completes(rows, caughtUp)
    PROVE  /\ (BatchesOK /\ RespondersOK /\ RevsOK /\ SeenOK /\ AnnouncedOK)'
           /\ (NothingForgotten /\ AllowedOK /\ KnownOK /\ HistoryConnects)'
           /\ responders' \subseteq Responders /\ changes' \in Seq(Messages)
           /\ used' \in Counters /\ used'.subs = used.subs
           /\ Sent(rows, caughtUp)
<1>1. PullTypes
  BY DEF PullInv
<1>2. /\ Sent(rows, caughtUp)
      /\ responders' = IF rows = {} THEN responders ELSE responders \cup {NewResponder}
      /\ used' \in Counters /\ used'.subs = used.subs
      /\ used'.batches = IF rows = {} THEN used.batches ELSE used.batches + 1
  BY <1>1, SendBatchesFacts
<1>3. /\ current' = current /\ seqOf' = seqOf /\ revs' = revs /\ removers' = removers
      /\ allowedAttachments' = allowedAttachments /\ client' = client
  BY DEF FeedMoves
<1>4. used.batches \in Nat /\ used'.batches \in Nat /\ used.batches <= used'.batches
      /\ (rows # {} => used.batches < used'.batches)
  <2>1. used.batches \in Nat
    BY <1>1 DEF PullTypes, Counters
  <2> QED
    BY <1>2, <2>1
<1>5. /\ NewResponder.id = used.batches /\ NewResponder.answered = FALSE
      /\ NewResponder.queue = {} /\ NewResponder.known = [d \in Docs |-> {}]
      /\ ~NewResponder.awaiting
      /\ NewResponder \in Responders
  <2>1. [d \in Docs |-> {}] \in RevSets
    BY DEF RevSets
  <2>2. NewResponder \in Responders
    BY <1>4, <2>1 DEF NewResponder, Responders
  <2> QED
    BY <2>2 DEF NewResponder
<1>6. responders \subseteq responders' /\ responders' \subseteq Responders
      /\ \A r \in responders' : r \in responders \/ (rows # {} /\ r = NewResponder)
  BY <1>1, <1>2, <1>5 DEF PullTypes
<1>7. \A r \in responders : r.id < used.batches /\ r.id \in Nat
  BY <1>1 DEF PullInv, RespondersOK, PullTypes, Responders
<1>8. \A m \in revs \cup removers : m.id < used.batches /\ m.id \in Nat
  BY <1>1 DEF PullInv, RespondersOK, PullTypes, RevMessages
<1>9. RespondersOK'
  <2>1. ASSUME NEW r \in responders' PROVE r.id < used'.batches
    BY <1>4, <1>5, <1>6, <1>7
  <2>2. ASSUME NEW r \in responders', NEW s \in responders', r.id = s.id PROVE r = s
    <3>1. CASE r \in responders /\ s \in responders
      BY <2>2, <3>1 DEF PullInv, RespondersOK
    <3>2. CASE r = NewResponder /\ s = NewResponder
      BY <3>2
    <3>3. CASE r = NewResponder /\ s \in responders
      BY <1>4, <1>5, <1>7, <2>2, <3>3
    <3>4. CASE s = NewResponder /\ r \in responders
      BY <1>4, <1>5, <1>7, <2>2, <3>4
    <3> QED
      BY <1>6, <3>1, <3>2, <3>3, <3>4
  <2>3. ASSUME NEW r \in responders', ~r.answered
        PROVE  r.queue = {} /\ ~r.awaiting /\ r.known = [d \in Docs |-> {}]
    BY <1>5, <1>6, <2>3 DEF PullInv, RespondersOK
  <2>4. ASSUME NEW m \in revs \cup removers, NEW r \in responders', r.id = m.id
        PROVE  r.answered /\ m.row \notin r.queue
    <3>1. r \in responders
      BY <1>4, <1>5, <1>6, <1>8, <2>4
    <3> QED
      BY <2>4, <3>1 DEF PullInv, RespondersOK
  <2>5. ASSUME NEW m \in revs \cup removers PROVE m.id < used'.batches
    BY <1>4, <1>8
  <2> QED
    BY <1>3, <2>1, <2>2, <2>3, <2>4, <2>5 DEF RespondersOK
<1>10. (RevsOK /\ SeenOK /\ HistoryConnects /\ AllowedOK)'
  BY <1>3 DEF PullInv, RevsOK, SeenOK, HistoryConnects, AllowedOK, Holding, Settled, RowOf
<1>11. NothingForgotten'
  BY <1>3, <1>6 DEF PullInv, NothingForgotten
<1>12. KnownOK'
  <2>1. \A d \in Docs : NewResponder.known[d] = {}
    BY <1>5
  <2> QED
    BY <1>3, <1>6, <2>1 DEF PullInv, KnownOK, InFlight
<1> DEFINE N == Len(changes)
<1>13. /\ N \in Nat /\ Len(changes') \in Nat /\ N <= Len(changes')
       /\ \A i \in 1..N : changes'[i] = changes[i]
       /\ \A i \in 1..Len(changes') : i > N =>
             /\ changes'[i].sub = feed.sub /\ changes'[i].filtered = feed.filtered
             /\ \/ /\ rows # {} /\ i = N + 1
                   /\ changes'[i].rows = rows /\ changes'[i].id = used.batches
                \/ /\ caughtUp /\ changes'[i].rows = {}
                   /\ rows # {} => i > N + 1
       /\ rows # {} => N + 1 <= Len(changes') /\ changes'[N + 1].rows = rows
  BY <1>2 DEF Sent, OldOnes, NewOne, EmptyOne
<1>14. \A i \in 1..N : i \in 1..Len(changes')
  BY <1>13
<1>15. ASSUME NEW i \in 1..Len(changes'), ~(i \in 1..N) PROVE i > N
  BY <1>13, <1>15
<1>16. BatchesOK'
  <2>1. feed.since \in Nat /\ feed'.since \in Nat /\ feed.since <= feed'.since
        /\ feed'.sub = feed.sub /\ feed'.filtered = feed.filtered
        /\ \A x \in rows \cup feed'.pending : x.seq <= feed'.since
    BY <1>1, BlipAssumption DEF FeedMoves, FeedRecords, PullTypes
  <2>2. ASSUME NEW i \in 1..Len(changes')
        PROVE  /\ changes'[i].sub = feed'.sub /\ changes'[i].filtered = feed'.filtered
               /\ \A x \in changes'[i].rows : x.seq <= feed'.since
               /\ changes'[i].rows # {} =>
                     /\ changes'[i].id < used'.batches
                     /\ \E r \in responders' : r.id = changes'[i].id /\ ~r.answered
    <3>1. CASE i \in 1..N
      <4>1. changes'[i] = changes[i] /\ changes[i] \in Messages
        BY <1>1, <1>13, <3>1, ElementOfSeq DEF PullTypes
      <4>2. /\ changes[i].sub = feed.sub /\ changes[i].filtered = feed.filtered
            /\ \A x \in changes[i].rows : x.seq <= feed.since
            /\ changes[i].rows # {} =>
                  /\ changes[i].id < used.batches
                  /\ \E r \in responders : r.id = changes[i].id /\ ~r.answered
        BY <3>1 DEF PullInv, BatchesOK
      <4>3. changes[i].id \in Nat /\ \A x \in changes[i].rows : x.seq \in Nat
        BY <4>1, BlipAssumption DEF Messages, Rows, Seqs
      <4>4. \A x \in changes[i].rows : x.seq <= feed'.since
        BY <2>1, <4>2, <4>3
      <4>5. changes[i].rows # {} => changes[i].id < used'.batches
        BY <1>4, <4>2, <4>3
      <4> QED
        BY <1>6, <2>1, <4>1, <4>2, <4>4, <4>5
    <3>2. CASE ~(i \in 1..N)
      <4>1. i > N
        BY <1>15, <3>2
      <4>2. NewResponder \in responders' \/ rows = {}
        BY <1>2
      <4>3. CASE changes'[i].rows = {}
        BY <1>13, <2>1, <4>1, <4>3
      <4>4. CASE rows # {} /\ changes'[i].rows = rows /\ changes'[i].id = used.batches
        BY <1>4, <1>5, <1>13, <2>1, <4>1, <4>2, <4>4
      <4> QED
        BY <1>13, <4>1, <4>3, <4>4
    <3> QED
      BY <3>1, <3>2
  <2>3. ASSUME NEW i \in 1..Len(changes'), NEW j \in 1..Len(changes'), i # j,
               changes'[i].rows # {}, changes'[j].rows # {}, i < j
        PROVE  changes'[i].id # changes'[j].id
    <3>1. CASE j \in 1..N
      <4>1. i \in 1..N
        BY <1>13, <2>3, <3>1
      <4> QED
        BY <1>13, <2>3, <3>1, <4>1 DEF PullInv, BatchesOK
    <3>2. CASE ~(j \in 1..N)
      <4>1. j > N /\ changes'[j].id = used.batches /\ j = N + 1
        BY <1>13, <1>15, <2>3, <3>2
      <4>2. i \in 1..N
        BY <1>13, <2>3, <4>1
      <4>3. changes'[i] = changes[i] /\ changes[i].id < used.batches
        BY <1>13, <2>3, <4>2 DEF PullInv, BatchesOK
      <4>4. changes[i].id \in Nat
        <5>1. changes[i] \in Messages
          BY <1>1, <4>2, ElementOfSeq DEF PullTypes
        <5> QED
          BY <5>1 DEF Messages
      <4> QED
        BY <1>4, <4>1, <4>3, <4>4
    <3> QED
      BY <3>1, <3>2
  <2>4. ASSUME NEW i \in 1..Len(changes'), NEW j \in 1..Len(changes'), i # j,
               changes'[i].rows # {}, changes'[j].rows # {}
        PROVE  changes'[i].id # changes'[j].id
    <3>1. i < j \/ j < i
      BY <1>13, <2>4
    <3> QED
      BY <2>3, <2>4, <3>1
  <2> QED
    BY <2>1, <2>2, <2>4 DEF BatchesOK
<1>17. AnnouncedOK'
  <2> SUFFICES ASSUME ~feed'.filtered, NEW i \in 1..Len(changes')
               PROVE  SkipsNothing(i)' /\ EndsComplete(i)'
    BY DEF AnnouncedOK
  <2>1. ~feed.filtered /\ context'.inherited = context.inherited /\ feed'.goal = feed.goal
        /\ (feed.failed => feed'.failed) /\ feed'.since \in Nat
        /\ \A x \in rows : x.seq <= feed'.since
    BY BlipAssumption DEF FeedMoves, FeedRecords
  <2>2. (Excused' <=> Excused) /\ \A d \in Docs : (Settled(d)' <=> Settled(d)) /\ RowOf(d)' = RowOf(d)
    BY <1>3, <2>1 DEF Excused, Settled, RowOf
  <2>3. CASE i \in 1..N
    <3>1. SkipsNothing(i) /\ EndsComplete(i)
      BY <2>1, <2>3 DEF PullInv, AnnouncedOK
    <3>2. changes'[i] = changes[i] /\ \A j \in 1..i : changes'[j] = changes[j]
      BY <1>13, <2>3
    <3>3. SkipsNothing(i)'
      BY <1>3, <2>2, <3>1, <3>2 DEF SkipsNothing
    <3>4. \A j \in 1..(i - 1) : changes'[j] = changes[j]
      BY <3>2
    <3>5. EndsComplete(i)'
      BY <1>3, <2>1, <3>1, <3>2, <3>4 DEF EndsComplete
    <3> QED
      BY <3>3, <3>5
  <2>4. CASE ~(i \in 1..N) /\ changes'[i].rows # {}
    <3>1. i > N /\ rows # {} /\ i = N + 1 /\ changes'[i].rows = rows
      BY <1>13, <1>15, <2>4
    <3>2. ASSUME NEW x \in rows, NEW d \in Docs, seqOf[d] \in 1..x.seq
          PROVE  Settled(d) \/ Excused \/ \E j \in 1..i : RowOf(d) \in changes'[j].rows
      <4>1. x.seq \in Nat
        BY BlipAssumption DEF Rows, Seqs
      <4>2. seqOf[d] \in 1..feed'.since
        BY <2>1, <3>2, <4>1
      <4>3. Settled(d) \/ Excused \/ RowOf(d) \in rows \/ AnnouncedIn(d)
        BY <2>1, <3>1, <4>2 DEF Covers
      <4>4. ASSUME AnnouncedIn(d) PROVE \E j \in 1..i : RowOf(d) \in changes'[j].rows
        <5>1. PICK j \in 1..N : RowOf(d) \in changes[j].rows
          BY <4>4 DEF AnnouncedIn
        <5> QED
          BY <1>13, <3>1, <5>1
      <4>5. i \in 1..i
        BY <1>13, <3>1
      <4> QED
        BY <3>1, <4>3, <4>4, <4>5
    <3>3. SkipsNothing(i)'
      BY <1>3, <2>2, <3>1, <3>2 DEF SkipsNothing
    <3> QED
      BY <2>4, <3>3 DEF EndsComplete
  <2>5. CASE ~(i \in 1..N) /\ changes'[i].rows = {}
    <3>1. i > N /\ caughtUp /\ (rows # {} => i > N + 1)
      BY <1>13, <1>15, <2>5
    <3>2. ASSUME ~feed'.failed, ~context.inherited, NEW d \in Docs, seqOf[d] <= feed.goal,
                 ~(seqOf[d] <= client.seen)
          PROVE  \E j \in 1..(i - 1) : \E x \in changes'[j].rows : seqOf[d] <= x.seq
      <4>1. \/ \E x \in rows : seqOf[d] <= x.seq
            \/ \E j \in 1..N : \E x \in changes[j].rows : seqOf[d] <= x.seq
        BY <2>1, <3>1, <3>2 DEF Completes
      <4>2. CASE \E x \in rows : seqOf[d] <= x.seq
        <5>1. rows # {}
          BY <4>2
        <5>2. N + 1 \in 1..(i - 1) /\ changes'[N + 1].rows = rows
          BY <1>13, <3>1, <5>1
        <5> QED
          BY <4>2, <5>2
      <4>3. CASE \E j \in 1..N : \E x \in changes[j].rows : seqOf[d] <= x.seq
        <5>1. PICK j \in 1..N : \E x \in changes[j].rows : seqOf[d] <= x.seq
          BY <4>3
        <5>2. j \in 1..(i - 1) /\ changes'[j] = changes[j]
          BY <1>13, <3>1
        <5> QED
          BY <5>1, <5>2
      <4> QED
        BY <4>1, <4>2, <4>3
    <3>3. EndsComplete(i)'
      BY <1>3, <2>1, <3>2 DEF EndsComplete
    <3>4. SkipsNothing(i)'
      BY <2>5 DEF SkipsNothing
    <3> QED
      BY <3>3, <3>4
  <2> QED
    BY <2>3, <2>4, <2>5
<1> QED
  BY <1>2, <1>6, <1>9, <1>10, <1>11, <1>12, <1>16, <1>17 DEF Sent

----------------------------------------------------------------------------
(* The feed.                                                               *)

(* The next change is the first one that the feed has not returned.        *)
LEMMA NextDocFacts ==
    ASSUME PullInv, Available # {}
    PROVE  /\ NextDoc \in Docs /\ NextDoc \in Available
           /\ \A e \in Available : seqOf[NextDoc] <= seqOf[e]
<1> DEFINE T == {seqOf[e] : e \in Available}
<1>1. Available \subseteq Docs
  <2>1. context.channels \in {Docs, Filtered}
    BY DEF PullInv, PullTypes, ContextRecords
  <2> QED
    BY <2>1, BlipAssumption DEF Available
<1>2. T \subseteq Nat /\ T # {}
  BY <1>1, BlipAssumption DEF PullInv, PullTypes
<1>3. PICK k \in T : \A y \in T : k <= y
  <2> HIDE DEF T
  <2> QED
    BY <1>2, LeastExists
<1>4. PICK f \in Available : seqOf[f] = k
  OBVIOUS
<1>5. \E f_1 \in Available : \A e \in Available : seqOf[f_1] <= seqOf[e]
  BY <1>3, <1>4
<1>6. NextDoc \in Available /\ \A e \in Available : seqOf[NextDoc] <= seqOf[e]
  BY <1>5, Zenon DEF NextDoc
<1> QED
  BY <1>1, <1>6

(* What the feed keeps back after a batch was sent.                        *)
LEMMA PendingAfter ==
    ASSUME NEW rows, NEW caughtUp, Sent(rows, caughtUp), FeedMoves(rows), PullTypes,
           ~feed.filtered =>
               \A e \in Docs : seqOf[e] \in 1..feed'.since =>
                   Settled(e) \/ Excused \/ RowOf(e) \in rows \cup feed'.pending \/ AnnouncedIn(e),
           ~feed.filtered =>
               \/ feed'.since <= client.seen
               \/ \E x \in rows \cup feed'.pending : feed'.since <= x.seq
               \/ \E j \in 1..Len(changes) : \E x \in changes[j].rows : feed'.since <= x.seq
    PROVE  FeedOK'
<1> DEFINE N == Len(changes)
<1>1. /\ N \in Nat /\ Len(changes') \in Nat /\ N <= Len(changes')
      /\ \A i \in 1..N : i \in 1..Len(changes') /\ changes'[i] = changes[i]
      /\ rows # {} => N + 1 \in 1..Len(changes') /\ changes'[N + 1].rows = rows
  BY DEF Sent, OldOnes
<1>2. /\ current' = current /\ seqOf' = seqOf /\ client' = client
      /\ context'.inherited = context.inherited /\ feed'.filtered = feed.filtered
  BY DEF FeedMoves
<1>3. (Excused' <=> Excused) /\ \A e \in Docs : (Settled(e)' <=> Settled(e)) /\ RowOf(e)' = RowOf(e)
  BY <1>2 DEF Excused, Settled, RowOf
<1>4. ASSUME NEW e \in Docs, ~feed.filtered, seqOf[e] \in 1..feed'.since
      PROVE  \/ Settled(e) \/ Excused \/ RowOf(e) \in feed'.pending
             \/ \E j \in 1..Len(changes') : RowOf(e) \in changes'[j].rows
  <2>1. Settled(e) \/ Excused \/ RowOf(e) \in rows \cup feed'.pending \/ AnnouncedIn(e)
    BY <1>4
  <2>2. CASE RowOf(e) \in rows
    <3>1. N + 1 \in 1..Len(changes') /\ changes'[N + 1].rows = rows
      BY <1>1, <2>2
    <3> QED
      BY <2>2, <3>1
  <2>3. CASE AnnouncedIn(e)
    BY <1>1, <2>3 DEF AnnouncedIn
  <2> QED
    BY <2>1, <2>2, <2>3
<1>5. ASSUME ~feed.filtered
      PROVE  \/ feed'.since <= client.seen
             \/ \E x \in feed'.pending : feed'.since <= x.seq
             \/ \E j \in 1..Len(changes') : \E x \in changes'[j].rows : feed'.since <= x.seq
  <2>1. CASE \E x \in rows : feed'.since <= x.seq
    <3>1. N + 1 \in 1..Len(changes') /\ changes'[N + 1].rows = rows
      BY <1>1, <2>1
    <3> QED
      BY <2>1, <3>1
  <2>2. CASE \E j \in 1..N : \E x \in changes[j].rows : feed'.since <= x.seq
    BY <1>1, <2>2
  <2> QED
    BY <1>5, <2>1, <2>2
<1> QED
  BY <1>2, <1>3, <1>4, <1>5 DEF FeedOK

(* The callback takes the least change that the feed has not passed.       *)
LEMMA SendChangeStep ==
    ASSUME PullInv, NEW last \in BOOLEAN, SendChange(last)
    PROVE  PullInv'
<1> DEFINE d == NextDoc
           all == feed.pending \cup {RowOf(d)}
           full == Cardinality(all) >= BatchSize \/ (last /\ feed.caughtUp)
           rows == IF full THEN all ELSE {}
           kept == IF full THEN {} ELSE all
<1>1. /\ feed.on /\ Available # {}
      /\ feed' = [feed EXCEPT !.since = seqOf[d], !.pending = kept]
      /\ SendBatches(rows, FALSE, 0)
      /\ current' = current /\ seqOf' = seqOf /\ context' = context /\ revs' = revs
      /\ removers' = removers /\ allowedAttachments' = allowedAttachments /\ client' = client
  BY DEF SendChange, RowOf
<1>2. PullTypes /\ feed \in FeedRecords /\ MaxSeq \in Nat
  BY BlipAssumption DEF PullInv, PullTypes
<1>3. d \in Docs /\ d \in Available /\ \A e \in Available : seqOf[d] <= seqOf[e]
  BY <1>1, NextDocFacts
<1> HIDE DEF d
<1>4. /\ \A e \in Docs : seqOf[e] \in 0..MaxSeq /\ seqOf[e] \in Nat /\ current[e] \in 0..MaxRev
      /\ feed.since \in 0..MaxSeq /\ feed.since \in Nat /\ seqOf[d] > feed.since
      /\ client.seen \in Nat
  BY <1>2, <1>3 DEF PullTypes, FeedRecords, Available, Clients
<1>5. RowOf(d) \in Rows /\ RowOf(d).seq = seqOf[d]
  <2>1. current[d] > 0
    BY <1>3, <1>4 DEF PullInv, SequencesOK
  <2>2. seqOf[d] \in Seqs /\ current[d] \in Revs
    BY <1>3, <1>4, <2>1, BlipAssumption DEF Seqs, Revs
  <2> QED
    BY <1>3, <2>2 DEF RowOf, Rows
<1>6. all \subseteq Rows /\ rows \subseteq Rows /\ kept \subseteq Rows
      /\ rows \cup kept = all
  <2>1. all \subseteq Rows
    BY <1>2, <1>5 DEF FeedRecords
  <2> HIDE DEF all, full
  <2> QED
    BY <2>1
<1>7. \A x \in all : x.seq <= seqOf[d]
  <2>1. \A x \in feed.pending : x.seq \in Nat /\ x.seq <= feed.since
    BY <1>2 DEF PullInv, BatchesOK, FeedRecords, Rows, Seqs
  <2>2. \A x \in feed.pending : x.seq <= seqOf[d]
    BY <1>3, <1>4, <2>1
  <2> QED
    BY <1>3, <1>4, <1>5, <2>2
<1>8. ~feed.filtered =>
         \A e \in Docs : seqOf[e] \in 1..seqOf[d] =>
             Settled(e) \/ Excused \/ RowOf(e) \in all \/ AnnouncedIn(e)
  <2> SUFFICES ASSUME ~feed.filtered, NEW e \in Docs, seqOf[e] \in 1..seqOf[d], ~Excused
               PROVE  Settled(e) \/ RowOf(e) \in all \/ AnnouncedIn(e)
    OBVIOUS
  <2>1. CASE seqOf[e] <= feed.since
    <3>1. seqOf[e] \in 1..feed.since
      BY <1>4, <2>1
    <3> QED
      BY <1>1, <3>1 DEF PullInv, FeedOK, AnnouncedIn
  <2>2. CASE ~(seqOf[e] <= feed.since)
    <3>1. context.channels = Docs
      BY <1>1 DEF PullInv, ContextOK, Excused
    <3>2. e \in Available
      BY <1>4, <2>2, <3>1 DEF Available
    <3>3. seqOf[e] = seqOf[d] /\ seqOf[e] > 0
      BY <1>3, <1>4, <3>2
    <3>4. e = d
      BY <1>3, <3>3 DEF PullInv, SequencesOK
    <3> QED
      BY <3>4
  <2> QED
    BY <2>1, <2>2
<1>9. RowOf(d) \in all
  OBVIOUS
<1> HIDE DEF all, full
<1>10. /\ feed'.since = seqOf[d] /\ feed'.pending = kept /\ feed' \in FeedRecords
       /\ feed'.on = feed.on /\ feed'.sub = feed.sub /\ feed'.filtered = feed.filtered
       /\ feed'.goal = feed.goal /\ feed'.failed = feed.failed
  <2> HIDE DEF kept
  <2>1. seqOf[d] \in 0..MaxSeq /\ kept \in SUBSET Rows
    BY <1>3, <1>4, <1>6
  <2> QED
    BY <1>1, <1>2, <2>1, Zenon DEF FeedRecords
<1>11. FeedMoves(rows)
  <2>1. feed.since <= seqOf[d]
    BY <1>3, <1>4
  <2>2. \A x \in rows \cup feed'.pending : x.seq <= feed'.since
    BY <1>6, <1>7, <1>10
  <2> HIDE DEF rows, kept
  <2> QED
    BY <1>1, <1>10, <2>1, <2>2 DEF FeedMoves
<1>12. Covers(rows)
  <2>1. rows # {} => rows = all
    OBVIOUS
  <2> HIDE DEF rows
  <2> QED
    BY <1>8, <1>10, <2>1 DEF Covers
<1>13. Completes(rows, FALSE)
  BY Zenon DEF Completes
<1> HIDE DEF rows, kept
<1>14. /\ (BatchesOK /\ RespondersOK /\ RevsOK /\ SeenOK /\ AnnouncedOK)'
       /\ (NothingForgotten /\ AllowedOK /\ KnownOK /\ HistoryConnects)'
       /\ responders' \subseteq Responders /\ changes' \in Seq(Messages)
       /\ used' \in Counters /\ used'.subs = used.subs
       /\ Sent(rows, FALSE)
  <2>1. FALSE \in BOOLEAN /\ 0 \in Nat /\ rows \subseteq Rows /\ SendBatches(rows, FALSE, 0)
    BY <1>1, <1>6
  <2> QED
    BY <1>11, <1>12, <1>13, <2>1, BatchStep, Zenon
<1>15. FeedOK'
  <2>1. ~feed.filtered =>
            \A e \in Docs : seqOf[e] \in 1..feed'.since =>
                Settled(e) \/ Excused \/ RowOf(e) \in rows \cup feed'.pending \/ AnnouncedIn(e)
    BY <1>6, <1>8, <1>10
  <2>2. \E x \in rows \cup feed'.pending : feed'.since <= x.seq
    <3>1. RowOf(d) \in rows \cup feed'.pending
      BY <1>6, <1>9, <1>10
    <3>2. feed'.since <= RowOf(d).seq
      BY <1>3, <1>4, <1>5, <1>10
    <3> QED
      BY <3>1, <3>2
  <2> QED
    BY <1>2, <1>11, <1>14, <2>1, <2>2, PendingAfter, Zenon
<1>16. PullTypes'
  BY <1>1, <1>2, <1>10, <1>14 DEF PullTypes
<1>17. SequencesOK'
  <2>1. Reached(feed.since)'
    <3>1. feed'.since <= seqOf'[d]
      BY <1>1, <1>3, <1>4, <1>10
    <3> QED
      BY <1>3, <3>1 DEF Reached
  <2> QED
    BY <1>1, <1>10, <2>1 DEF PullInv, SequencesOK, Reached
<1>18. (ContextOK /\ CaughtUpComplete)'
  BY <1>1, <1>10, <1>14 DEF PullInv, ContextOK, CaughtUpComplete
<1> QED
  BY <1>14, <1>15, <1>16, <1>17, <1>18 DEF PullInv

(* A running feed has announced what it passed, or has it pending.         *)
LEMMA PendingFacts ==
    ASSUME PullInv, feed.on
    PROVE  /\ feed.pending \subseteq Rows
           /\ \A x \in feed.pending : x.seq <= feed.since
           /\ ~feed.filtered =>
                 \A e \in Docs : seqOf[e] \in 1..feed.since =>
                     Settled(e) \/ Excused \/ RowOf(e) \in feed.pending \/ AnnouncedIn(e)
           /\ ~feed.filtered =>
                 \/ feed.since <= client.seen
                 \/ \E x \in feed.pending : feed.since <= x.seq
                 \/ \E j \in 1..Len(changes) : \E x \in changes[j].rows : feed.since <= x.seq
<1>1. feed.pending \subseteq Rows
  BY DEF PullInv, PullTypes, FeedRecords
<1>2. \A x \in feed.pending : x.seq <= feed.since
  BY DEF PullInv, BatchesOK
<1> QED
  BY <1>1, <1>2 DEF PullInv, FeedOK, AnnouncedIn

(* A feed with nothing more has passed all changes up to its goal.         *)
LEMMA CaughtUpStep ==
    ASSUME PullInv, CaughtUp
    PROVE  PullInv'
<1> DEFINE empty == ~feed.caughtUp
           rows == feed.pending
<1>1. /\ feed.on /\ Available = {} /\ SendBatches(rows, empty, 0)
      /\ feed' = [feed EXCEPT !.pending = {}, !.caughtUp = TRUE, !.on = feed.continuous]
      /\ context' = [context EXCEPT !.active = feed.continuous]
      /\ current' = current /\ seqOf' = seqOf /\ revs' = revs
      /\ removers' = removers /\ allowedAttachments' = allowedAttachments /\ client' = client
  BY DEF CaughtUp
<1>2. /\ PullTypes /\ feed \in FeedRecords /\ context \in ContextRecords /\ MaxSeq \in Nat
      /\ feed.continuous \in BOOLEAN /\ feed.since \in Nat
      /\ \A e \in Docs : seqOf[e] \in Nat
  BY BlipAssumption DEF PullInv, PullTypes, FeedRecords
<1>3. empty \in BOOLEAN
  BY Zenon
<1>4. /\ feed'.since = feed.since /\ feed'.pending = {} /\ feed' \in FeedRecords
      /\ feed'.on = feed.continuous /\ feed'.sub = feed.sub /\ feed'.filtered = feed.filtered
      /\ feed'.goal = feed.goal /\ feed'.failed = feed.failed
  <2>1. {} \in SUBSET Rows /\ TRUE \in BOOLEAN
    OBVIOUS
  <2> QED
    BY <1>1, <1>2, <2>1, Zenon DEF FeedRecords
<1>5. /\ context'.active = feed.continuous /\ context'.channels = context.channels
      /\ context'.stuck = context.stuck /\ context'.inherited = context.inherited
      /\ context' \in ContextRecords
  BY <1>1, <1>2, Zenon DEF ContextRecords
<1>6. /\ rows \subseteq Rows /\ \A x \in rows : x.seq <= feed.since
      /\ ~feed.filtered =>
            \A e \in Docs : seqOf[e] \in 1..feed.since =>
                Settled(e) \/ Excused \/ RowOf(e) \in rows \/ AnnouncedIn(e)
      /\ ~feed.filtered =>
            \/ feed.since <= client.seen
            \/ \E x \in rows : feed.since <= x.seq
            \/ \E j \in 1..Len(changes) : \E x \in changes[j].rows : feed.since <= x.seq
  BY <1>1, PendingFacts
<1> HIDE DEF rows
<1>7. FeedMoves(rows)
  <2>1. feed.since <= feed.since
    BY <1>2
  <2> QED
    BY <1>1, <1>4, <1>5, <1>6, <2>1 DEF FeedMoves
<1>8. Covers(rows)
  BY <1>4, <1>6 DEF Covers
<1>9. Completes(rows, empty)
  <2> SUFFICES ASSUME ~feed.filtered, ~context.inherited, NEW e \in Docs
               PROVE  \/ seqOf[e] <= client.seen
                      \/ \E x \in rows : seqOf[e] <= x.seq
                      \/ \E j \in 1..Len(changes) : \E x \in changes[j].rows : seqOf[e] <= x.seq
    BY DEF Completes
  <2>1. context.channels = Docs
    BY <1>1 DEF PullInv, ContextOK
  <2>2. seqOf[e] <= feed.since
    BY <1>1, <1>2, <2>1 DEF Available
  <2>3. /\ client.seen \in Nat /\ seqOf[e] \in Nat
        /\ \A x \in rows : x.seq \in Nat
        /\ \A j \in 1..Len(changes) : \A x \in changes[j].rows : x.seq \in Nat
    <3>1. \A j \in 1..Len(changes) : changes[j] \in Messages
      BY <1>2, ElementOfSeq DEF PullTypes
    <3>2. \A j \in 1..Len(changes) : changes[j].rows \subseteq Rows
      BY <3>1 DEF Messages
    <3>3. \A x \in Rows : x.seq \in Nat
      BY <1>2 DEF Rows, Seqs
    <3>4. client.seen \in Nat
      BY <1>2 DEF PullTypes, Clients
    <3> QED
      BY <1>2, <1>6, <3>2, <3>3, <3>4
  <2> QED
    BY <1>2, <1>6, <2>2, <2>3
<1> HIDE DEF empty
<1>10. /\ (BatchesOK /\ RespondersOK /\ RevsOK /\ SeenOK /\ AnnouncedOK)'
       /\ (NothingForgotten /\ AllowedOK /\ KnownOK /\ HistoryConnects)'
       /\ responders' \subseteq Responders /\ changes' \in Seq(Messages)
       /\ used' \in Counters /\ used'.subs = used.subs
       /\ Sent(rows, empty)
  <2>1. 0 \in Nat
    OBVIOUS
  <2> QED
    BY <1>1, <1>3, <1>6, <1>7, <1>8, <1>9, <2>1, BatchStep, Zenon
<1>11. FeedOK'
  <2>1. ~feed.filtered =>
            \A e \in Docs : seqOf[e] \in 1..feed'.since =>
                Settled(e) \/ Excused \/ RowOf(e) \in rows \cup feed'.pending \/ AnnouncedIn(e)
    BY <1>4, <1>6
  <2>2. ~feed.filtered =>
            \/ feed'.since <= client.seen
            \/ \E x \in rows \cup feed'.pending : feed'.since <= x.seq
            \/ \E j \in 1..Len(changes) : \E x \in changes[j].rows : feed'.since <= x.seq
    BY <1>4, <1>6
  <2> QED
    BY <1>2, <1>7, <1>10, <2>1, <2>2, PendingAfter, Zenon
<1>12. PullTypes'
  BY <1>1, <1>2, <1>4, <1>5, <1>10 DEF PullTypes
<1>13. SequencesOK'
  BY <1>1, <1>4 DEF PullInv, SequencesOK, Reached
<1>14. (ContextOK /\ CaughtUpComplete)'
  BY <1>1, <1>4, <1>5, <1>10 DEF PullInv, ContextOK, CaughtUpComplete
<1> QED
  BY <1>10, <1>11, <1>12, <1>13, <1>14 DEF PullInv

(* A failed feed is marked as such, and its pending changes are in order.  *)
LEMMA FeedFailsStep ==
    ASSUME PullInv, FeedFails
    PROVE  PullInv'
<1> DEFINE empty == ~feed.continuous /\ ~feed.caughtUp
           rows == IF feed.continuous THEN {} ELSE feed.pending
<1>1. /\ feed.on /\ SendBatches(rows, empty, 1)
      /\ feed' = [feed EXCEPT !.on = FALSE, !.pending = {}, !.failed = TRUE]
      /\ context' = [context EXCEPT !.active = FALSE]
      /\ current' = current /\ seqOf' = seqOf /\ revs' = revs
      /\ removers' = removers /\ allowedAttachments' = allowedAttachments /\ client' = client
  BY DEF FeedFails
<1>2. /\ PullTypes /\ feed \in FeedRecords /\ context \in ContextRecords
      /\ feed.since \in Nat
  BY SMTT(30), BlipAssumption DEF PullInv, PullTypes, FeedRecords
<1>3. empty \in BOOLEAN
  BY Zenon
<1>4. /\ feed'.since = feed.since /\ feed'.pending = {} /\ feed' \in FeedRecords
      /\ feed'.on = FALSE /\ feed'.sub = feed.sub /\ feed'.filtered = feed.filtered
      /\ feed'.goal = feed.goal /\ feed'.failed = TRUE
  <2>1. {} \in SUBSET Rows /\ TRUE \in BOOLEAN /\ FALSE \in BOOLEAN
    OBVIOUS
  <2> QED
    BY <1>1, <1>2, <2>1, Zenon DEF FeedRecords
<1>5. /\ context'.active = FALSE /\ context'.channels = context.channels
      /\ context'.stuck = context.stuck /\ context'.inherited = context.inherited
      /\ context' \in ContextRecords
  <2>1. FALSE \in BOOLEAN
    OBVIOUS
  <2> QED
    BY <1>1, <1>2, <2>1, Zenon DEF ContextRecords
<1>6. /\ rows \subseteq Rows /\ \A x \in rows : x.seq <= feed.since
      /\ rows # {} /\ ~feed.filtered =>
            \A e \in Docs : seqOf[e] \in 1..feed.since =>
                Settled(e) \/ Excused \/ RowOf(e) \in rows \/ AnnouncedIn(e)
  BY <1>1, PendingFacts
<1> HIDE DEF rows
<1>7. FeedMoves(rows)
  <2>1. feed.since <= feed.since
    BY <1>2
  <2> QED
    BY <1>1, <1>4, <1>5, <1>6, <2>1 DEF FeedMoves
<1>8. Covers(rows)
  BY <1>4, <1>6 DEF Covers
<1>9. Completes(rows, empty)
  BY <1>4 DEF Completes
<1> HIDE DEF empty
<1>10. /\ (BatchesOK /\ RespondersOK /\ RevsOK /\ SeenOK /\ AnnouncedOK)'
       /\ (NothingForgotten /\ AllowedOK /\ KnownOK /\ HistoryConnects)'
       /\ responders' \subseteq Responders /\ changes' \in Seq(Messages)
       /\ used' \in Counters /\ used'.subs = used.subs
  <2>1. 1 \in Nat
    OBVIOUS
  <2> QED
    BY <1>1, <1>3, <1>6, <1>7, <1>8, <1>9, <2>1, BatchStep, Zenon
<1>11. (FeedOK /\ CaughtUpComplete)'
  BY <1>4 DEF FeedOK, CaughtUpComplete
<1>12. PullTypes'
  BY <1>1, <1>2, <1>4, <1>5, <1>10 DEF PullTypes
<1>13. SequencesOK'
  BY <1>1, <1>4 DEF PullInv, SequencesOK, Reached
<1>14. ContextOK'
  BY <1>1, <1>4, <1>5, <1>10 DEF PullInv, ContextOK
<1> QED
  BY <1>10, <1>11, <1>12, <1>13, <1>14 DEF PullInv

----------------------------------------------------------------------------
(* The client's answer.                                                    *)

(* The client has dealt with the first batch on its way.                   *)
TakesBatch ==
    /\ changes # <<>> /\ changes' = Tail(changes)
    /\ current' = current /\ seqOf' = seqOf /\ context' = context /\ feed' = feed
    /\ revs' = revs /\ removers' = removers /\ used' = used
    /\ allowedAttachments' = allowedAttachments
    /\ client' \in Clients /\ client'.has = client.has /\ client'.refused = client.refused
    /\ client'.denied = client.denied
    /\ client.seen <= client'.seen /\ client.waiting \subseteq client'.waiting
    /\ client.misled => client'.misled
    /\ \A x \in changes[1].rows :
          /\ x.rev \in client.has[x.doc] \/ x \in client'.waiting
          /\ ~feed.filtered => x.seq <= client'.seen
    /\ \A r \in responders :
          ~r.answered /\ (changes[1].rows # {} => r.id # changes[1].id) => r \in responders'

(* Once the first batch is dealt with, the others still follow what the    *)
(* client has settled.                                                     *)
LEMMA TakeStep ==
    ASSUME PullInv, TakesBatch
    PROVE  /\ changes' \in Seq(Messages)
           /\ (BatchesOK /\ RevsOK /\ AnnouncedOK /\ FeedOK /\ AllowedOK /\ HistoryConnects)'
<1>1. /\ changes # <<>> /\ changes' = Tail(changes)
      /\ current' = current /\ seqOf' = seqOf /\ context' = context /\ feed' = feed
      /\ revs' = revs /\ removers' = removers /\ used' = used
      /\ allowedAttachments' = allowedAttachments
      /\ client' \in Clients /\ client'.has = client.has /\ client'.refused = client.refused
      /\ client'.denied = client.denied
      /\ client.seen <= client'.seen /\ client.waiting \subseteq client'.waiting
      /\ client.misled => client'.misled
  BY DEF TakesBatch
<1>2. PullTypes /\ MaxSeq \in Nat /\ client \in Clients
  BY BlipAssumption DEF PullInv, PullTypes
<1>3. /\ Tail(changes) \in Seq(Messages) /\ Len(Tail(changes)) = Len(changes) - 1
      /\ \A i \in 1..Len(Tail(changes)) : Tail(changes)[i] = changes[i + 1]
  <2>1. changes \in Seq(Messages)
    BY <1>2 DEF PullTypes
  <2> QED
    BY <1>1, <2>1, HeadTailProperties
<1>4. /\ Len(changes) \in Nat /\ Len(changes) > 0
      /\ \A i \in 1..Len(changes) : changes[i] \in Messages
  <2>1. changes \in Seq(Messages)
    BY <1>2 DEF PullTypes
  <2>2. \A i \in 1..Len(changes) : changes[i] \in Messages
    BY <2>1, ElementOfSeq
  <2>3. Len(changes) \in Nat /\ Len(changes) # 0
    BY <1>1, <2>1, EmptySeq, LenProperties
  <2> QED
    BY <2>2, <2>3
<1> DEFINE N == Len(changes)
<1>5. /\ changes' \in Seq(Messages) /\ Len(changes') \in Nat /\ Len(changes') = N - 1
      /\ \A i \in 1..Len(changes') : i + 1 \in 1..N /\ changes'[i] = changes[i + 1]
  BY <1>1, <1>3, <1>4
<1>6. ASSUME NEW j \in 1..N, j # 1
      PROVE  j - 1 \in 1..Len(changes') /\ changes'[j - 1] = changes[j]
  <2>1. j - 1 \in 1..Len(changes') /\ (j - 1) + 1 = j
    BY <1>4, <1>5, <1>6
  <2> QED
    BY <1>5, <2>1
<1>7. 1 \in 1..N
  BY <1>4
<1>8. /\ \A x \in changes[1].rows :
            /\ x.rev \in client.has[x.doc] \/ x \in client'.waiting
            /\ ~feed.filtered => x.seq <= client'.seen
      /\ \A r \in responders :
            ~r.answered /\ (changes[1].rows # {} => r.id # changes[1].id) => r \in responders'
  BY DEF TakesBatch
<1>9. \A d \in Docs : RowOf(d)' = RowOf(d) /\ (Settled(d) => Settled(d)')
      /\ (RowOf(d) \in changes[1].rows => Settled(d)')
  <2>1. ASSUME NEW d \in Docs, RowOf(d) \in changes[1].rows
        PROVE  current[d] \in client.has[d] \/ RowOf(d) \in client'.waiting
    <3>1. RowOf(d).rev = current[d] /\ RowOf(d).doc = d
      BY DEF RowOf
    <3> QED
      BY <1>8, <2>1, <3>1
  <2> QED
    BY <1>1, <2>1 DEF RowOf, Settled
<1>10. Excused => Excused'
  BY <1>1 DEF Excused
<1>11. BatchesOK'
  <2>1. ASSUME NEW i \in 1..Len(changes')
        PROVE  /\ changes'[i].sub = feed.sub /\ changes'[i].filtered = feed.filtered
               /\ \A x \in changes'[i].rows : x.seq <= feed.since
               /\ changes'[i].rows # {} =>
                     /\ changes'[i].id < used.batches
                     /\ \E r \in responders' : r.id = changes'[i].id /\ ~r.answered
    <3>1. i + 1 \in 1..N /\ changes'[i] = changes[i + 1] /\ i + 1 # 1
      BY <1>5
    <3> DEFINE k == i + 1
    <3> HIDE DEF k
    <3>2. k \in 1..N /\ k # 1 /\ changes'[i] = changes[k]
      BY <3>1 DEF k
    <3>3. /\ changes[k].sub = feed.sub /\ changes[k].filtered = feed.filtered
          /\ \A x \in changes[k].rows : x.seq <= feed.since
          /\ changes[k].rows # {} =>
                /\ changes[k].id < used.batches
                /\ \E r \in responders : r.id = changes[k].id /\ ~r.answered
      BY <3>2 DEF PullInv, BatchesOK
    <3>4. changes[k].rows # {} /\ changes[1].rows # {} => changes[k].id # changes[1].id
      BY <1>7, <3>2 DEF PullInv, BatchesOK
    <3>5. ASSUME changes[k].rows # {}
          PROVE  \E r \in responders' : r.id = changes[k].id /\ ~r.answered
      <4>1. PICK r \in responders : r.id = changes[k].id /\ ~r.answered
        BY <3>3, <3>5
      <4>2. r \in responders'
        BY <1>8, <3>4, <3>5, <4>1
      <4> QED
        BY <4>1, <4>2
    <3> QED
      BY <3>2, <3>3, <3>5
  <2>2. ASSUME NEW i \in 1..Len(changes'), NEW j \in 1..Len(changes'), i # j,
               changes'[i].rows # {}, changes'[j].rows # {}
        PROVE  changes'[i].id # changes'[j].id
    <3>1. /\ i + 1 \in 1..N /\ changes'[i] = changes[i + 1]
          /\ j + 1 \in 1..N /\ changes'[j] = changes[j + 1] /\ i + 1 # j + 1
      BY SMTT(30), <1>5, <2>2
    <3> QED
      BY <2>2, <3>1 DEF PullInv, BatchesOK
  <2> QED
    BY <1>1, <2>1, <2>2 DEF PullInv, BatchesOK
<1>12. \A x \in Rows : x.seq \in Nat
  BY <1>2 DEF Rows, Seqs
<1>13. client.seen \in Nat /\ client'.seen \in Nat /\ feed.since \in Nat
       /\ \A d \in Docs : seqOf[d] \in Nat
  BY <1>1, <1>2 DEF Clients, PullTypes, FeedRecords
<1>14. ASSUME NEW j \in 1..N, NEW x \in changes[j].rows, NEW k \in Nat, k <= x.seq, ~feed.filtered,
              NEW top \in Nat, j <= top
       PROVE  \/ k <= client'.seen
              \/ \E i \in 1..Len(changes') : i <= top - 1 /\ \E y \in changes'[i].rows : k <= y.seq
  <2>1. x.seq \in Nat
    BY <1>4, <1>12 DEF Messages
  <2>2. CASE j = 1
    BY <1>8, <1>13, <1>14, <2>1, <2>2
  <2>3. CASE j # 1
    <3>1. j - 1 \in 1..Len(changes') /\ changes'[j - 1] = changes[j]
      BY <1>6, <2>3
    <3>2. j - 1 <= top - 1
      BY <1>4, <1>14
    <3> QED
      BY <1>14, <3>1, <3>2
  <2> QED
    BY <2>2, <2>3
<1>15. AnnouncedOK'
  <2> SUFFICES ASSUME ~feed.filtered, NEW i \in 1..Len(changes')
               PROVE  SkipsNothing(i)' /\ EndsComplete(i)'
    BY <1>1 DEF AnnouncedOK
  <2> DEFINE k == i + 1
  <2>1. k \in 1..N /\ changes'[i] = changes[k] /\ k \in Nat /\ i \in Nat /\ k - 1 = i
    BY <1>4, <1>5
  <2> HIDE DEF k
  <2>2. SkipsNothing(k) /\ EndsComplete(k)
    BY <2>1 DEF PullInv, AnnouncedOK
  <2>3. ASSUME NEW x \in changes[k].rows, NEW d \in Docs, seqOf[d] \in 1..x.seq
        PROVE  Settled(d)' \/ Excused' \/ \E j \in 1..i : RowOf(d) \in changes'[j].rows
    <3>1. Settled(d) \/ Excused \/ \E j \in 1..k : RowOf(d) \in changes[j].rows
      BY <2>2, <2>3 DEF SkipsNothing
    <3>2. ASSUME NEW j \in 1..k, RowOf(d) \in changes[j].rows, j # 1
          PROVE  \E l \in 1..i : RowOf(d) \in changes'[l].rows
      <4>1. j \in 1..N
        BY <1>4, <2>1
      <4>2. changes'[j - 1] = changes[j]
        BY <1>6, <3>2, <4>1
      <4>3. j - 1 \in 1..i
        BY <2>1, <3>2
      <4> QED
        BY <3>2, <4>2, <4>3
    <3> QED
      BY <1>9, <1>10, <3>1, <3>2
  <2>4. SkipsNothing(i)'
    BY <1>1, <1>9, <2>1, <2>3 DEF SkipsNothing
  <2>5. ASSUME changes[k].rows = {}, ~feed.failed, ~context.inherited,
               NEW d \in Docs, seqOf[d] <= feed.goal, ~(seqOf[d] <= client'.seen)
        PROVE  \E j \in 1..(i - 1) : \E x \in changes'[j].rows : seqOf[d] <= x.seq
    <3>1. ~(seqOf[d] <= client.seen)
      BY <1>1, <1>13, <2>5
    <3>2. PICK j \in 1..(k - 1) : \E x \in changes[j].rows : seqOf[d] <= x.seq
      BY <2>2, <2>5, <3>1 DEF EndsComplete
    <3>3. PICK x \in changes[j].rows : seqOf[d] <= x.seq
      BY <3>2
    <3>4. j \in 1..N /\ j <= i
      BY <1>4, <2>1
    <3>5. \E l \in 1..Len(changes') : l <= i - 1 /\ \E y \in changes'[l].rows : seqOf[d] <= y.seq
      <4>1. seqOf[d] \in Nat /\ i \in Nat /\ j \in 1..N /\ j <= i
        BY <1>13, <2>1, <3>4
      <4> QED
        BY ONLY <1>14, <2>5, <3>3, <4>1, ~feed.filtered, Zenon
    <3>6. PICK l \in 1..Len(changes') : l <= i - 1 /\ \E y \in changes'[l].rows : seqOf[d] <= y.seq
      BY <3>5
    <3>7. l \in 1..(i - 1)
      BY <1>5, <2>1, <3>6
    <3> QED
      BY <3>6, <3>7
  <2>6. EndsComplete(i)'
    BY <1>1, <2>1, <2>5 DEF EndsComplete
  <2> QED
    BY <2>4, <2>6
<1>16. FeedOK'
  <2> SUFFICES ASSUME feed.on, ~feed.filtered
               PROVE  /\ \A d \in Docs : seqOf[d] \in 1..feed.since =>
                            \/ Settled(d)' \/ Excused' \/ RowOf(d) \in feed.pending
                            \/ \E j \in 1..Len(changes') : RowOf(d) \in changes'[j].rows
                      /\ \/ feed.since <= client'.seen
                         \/ \E x \in feed.pending : feed.since <= x.seq
                         \/ \E j \in 1..Len(changes') : \E x \in changes'[j].rows : feed.since <= x.seq
    BY <1>1, <1>9 DEF FeedOK
  <2>1. ASSUME NEW d \in Docs, seqOf[d] \in 1..feed.since
        PROVE  \/ Settled(d)' \/ Excused' \/ RowOf(d) \in feed.pending
               \/ \E j \in 1..Len(changes') : RowOf(d) \in changes'[j].rows
    <3>1. \/ Settled(d) \/ Excused \/ RowOf(d) \in feed.pending
          \/ \E j \in 1..N : RowOf(d) \in changes[j].rows
      BY <2>1 DEF PullInv, FeedOK
    <3> QED
      BY <1>6, <1>9, <1>10, <3>1
  <2>2. \/ feed.since <= client.seen
        \/ \E x \in feed.pending : feed.since <= x.seq
        \/ \E j \in 1..N : \E x \in changes[j].rows : feed.since <= x.seq
    BY DEF PullInv, FeedOK
  <2>3. ASSUME NEW j \in 1..N, NEW x \in changes[j].rows, feed.since <= x.seq
        PROVE  \/ feed.since <= client'.seen
               \/ \E i \in 1..Len(changes') : \E y \in changes'[i].rows : feed.since <= y.seq
    <3>1. j <= N
      BY <1>4
    <3>2. feed.since \in Nat /\ N \in Nat
      BY <1>4, <1>13
    <3> QED
      BY ONLY <1>14, <2>3, <3>1, <3>2, ~feed.filtered, Zenon
  <2>4. feed.since <= client.seen => feed.since <= client'.seen
    <3>1. client.seen <= client'.seen
      BY <1>1
    <3> QED
      BY ONLY <1>13, <3>1
  <2> QED
    BY <2>1, <2>2, <2>3, <2>4
<1>17. (RevsOK /\ AllowedOK /\ HistoryConnects)'
  BY <1>1 DEF PullInv, RevsOK, AllowedOK, HistoryConnects, Holding
<1> QED
  BY <1>5, <1>11, <1>15, <1>16, <1>17

(* The rows of a batch are settled: the client has them or waits for a     *)
(* goroutine to send them.                                                 *)
LEMMA ClientChangesStep ==
    ASSUME PullInv, NEW maxHistory \in MaxHistories, ClientChanges(maxHistory)
    PROVE  PullInv'
<1> DEFINE m == Head(changes)
           best == Max({x.seq : x \in m.rows})
           seen == IF m.filtered THEN 0 ELSE best
           want == Wanted(m.rows)
           lost == client.misled \/ (context.inherited /\ ~m.filtered)
           r == CHOOSE z \in responders : z.id = m.id
           q == [r EXCEPT !.answered = TRUE, !.queue = want, !.maxHistory = maxHistory,
                          !.known = client.has]
<1>1. /\ changes # <<>> /\ changes' = Tail(changes)
      /\ current' = current /\ seqOf' = seqOf /\ context' = context /\ feed' = feed
      /\ revs' = revs /\ removers' = removers /\ used' = used
      /\ allowedAttachments' = allowedAttachments
  BY DEF ClientChanges
<1>2. \/ /\ m.rows = {} /\ client' = [client EXCEPT !.told = m.sub] /\ responders' = responders
      \/ /\ m.rows # {}
         /\ client' = [client EXCEPT !.seen = Max({client.seen, seen}), !.misled = lost,
                          !.waiting = client.waiting \cup want]
         /\ responders' = (responders \ {r}) \cup {z \in {q} : z.queue # {}}
  BY Zenon DEF ClientChanges
<1>3. /\ PullTypes /\ client \in Clients /\ MaxSeq \in Nat
      /\ 1 \in 1..Len(changes) /\ m = changes[1] /\ m \in Messages /\ m.rows \subseteq Rows
      /\ maxHistory \in Nat /\ client.seen \in 0..MaxSeq
  <2>1. PullTypes /\ MaxSeq \in Nat /\ maxHistory \in Nat
    BY BlipAssumption DEF PullInv
  <2>2. changes \in Seq(Messages)
    BY <2>1 DEF PullTypes
  <2>3. Len(changes) \in Nat /\ Len(changes) # 0
    BY <1>1, <2>2, EmptySeq, LenProperties
  <2>4. 1 \in 1..Len(changes)
    BY <2>3
  <2>5. changes[1] \in Messages
    BY <2>2, <2>4, ElementOfSeq
  <2>6. m = changes[1]
    BY <1>1, <2>2
  <2> HIDE DEF m
  <2>7. m \in Messages /\ m.rows \subseteq Rows
    BY <2>5, <2>6 DEF Messages
  <2> QED
    BY <2>1, <2>4, <2>6, <2>7 DEF PullTypes, Clients
<1>4. m.sub = feed.sub /\ m.filtered = feed.filtered /\ \A x \in m.rows : x.seq <= feed.since
      /\ (m.rows # {} => /\ m.id < used.batches
                         /\ \E z \in responders : z.id = m.id /\ ~z.answered)
  BY <1>3 DEF PullInv, BatchesOK
<1>5. CASE m.rows = {}
  <2>1. client' = [client EXCEPT !.told = m.sub] /\ responders' = responders
    BY <1>2, <1>5
  <2>2. /\ client' \in Clients /\ client'.has = client.has /\ client'.refused = client.refused
        /\ client'.denied = client.denied
        /\ client'.seen = client.seen /\ client'.waiting = client.waiting
        /\ client'.misled = client.misled /\ client'.told = m.sub
    <3>1. m.sub \in Nat
      BY <1>3 DEF Messages
    <3> HIDE DEF m
    <3> QED
      BY <1>3, <2>1, <3>1 DEF Clients
  <2>3. TakesBatch
    <3>1. client.seen <= client'.seen
      BY <1>3, <2>2
    <3> QED
      BY <1>1, <1>5, <2>1, <2>2, <3>1 DEF TakesBatch
  <2>4. /\ changes' \in Seq(Messages)
        /\ (BatchesOK /\ RevsOK /\ AnnouncedOK /\ FeedOK /\ AllowedOK /\ HistoryConnects)'
    BY <2>3, TakeStep
  <2>5. PullTypes'
    BY <1>1, <1>3, <2>1, <2>2, <2>4 DEF PullTypes
  <2>6. (SequencesOK /\ RespondersOK /\ SeenOK /\ NothingForgotten /\ KnownOK)'
    <3>1. SequencesOK'
      BY <1>1, <2>2 DEF PullInv, SequencesOK, Reached
    <3>2. RespondersOK'
      BY <1>1, <2>1 DEF PullInv, RespondersOK
    <3>3. SeenOK'
      BY <1>1, <2>2 DEF PullInv, SeenOK, Settled, RowOf
    <3>4. (NothingForgotten /\ KnownOK)'
      BY <1>1, <2>1, <2>2 DEF PullInv, NothingForgotten, KnownOK, InFlight
    <3> QED
      BY <3>1, <3>2, <3>3, <3>4
  <2>7. ContextOK'
    BY <1>1, <1>4, <2>2 DEF PullInv, ContextOK
  <2>8. CaughtUpComplete'
    <3> SUFFICES ASSUME ~feed.filtered, ~feed.failed, ~context.inherited, NEW d \in Docs,
                        seqOf[d] <= feed.goal
                 PROVE  seqOf[d] <= client.seen
      BY <1>1, <2>2 DEF CaughtUpComplete
    <3>1. EndsComplete(1)
      BY <1>3 DEF PullInv, AnnouncedOK
    <3>2. 1..(1 - 1) = {}
      OBVIOUS
    <3> QED
      BY <1>5, <3>1, <3>2 DEF EndsComplete
  <2> QED
    BY <2>4, <2>5, <2>6, <2>7, <2>8 DEF PullInv
<1>6. CASE m.rows # {}
  <2>1. /\ client' = [client EXCEPT !.seen = Max({client.seen, seen}), !.misled = lost,
                         !.waiting = client.waiting \cup want]
        /\ responders' = (responders \ {r}) \cup {z \in {q} : z.queue # {}}
    BY ZenonT(30), <1>2, <1>6
  <2>2. best \in 0..MaxSeq /\ (\A x \in m.rows : x.seq <= best) /\ \E x \in m.rows : x.seq = best
    <3> DEFINE T == {x.seq : x \in m.rows}
    <3>1. T \subseteq 0..MaxSeq /\ T # {}
      BY <1>3, <1>6 DEF Rows, Seqs
    <3>2. Max(T) \in T /\ \A y \in T : y <= Max(T)
      <4> HIDE DEF T
      <4> QED
        BY <3>1, MaxIsGreatest
    <3> QED
      BY <3>1, <3>2
  <2> HIDE DEF best
  <2>3. seen \in 0..MaxSeq
    BY <1>3, <2>2
  <2>4. /\ Max({client.seen, seen}) \in {client.seen, seen}
        /\ client.seen <= Max({client.seen, seen}) /\ seen <= Max({client.seen, seen})
    <3> DEFINE T == {client.seen, seen}
    <3>1. T \subseteq 0..MaxSeq /\ T # {}
      BY <1>3, <2>3
    <3>2. Max(T) \in T /\ \A y \in T : y <= Max(T)
      <4> HIDE DEF T
      <4> QED
        BY <3>1, MaxIsGreatest
    <3> QED
      BY <3>2
  <2> DEFINE top == Max({client.seen, seen})
  <2> HIDE DEF seen
  <2>5. top \in 0..MaxSeq /\ lost \in BOOLEAN /\ want \subseteq Rows
    <3>1. lost \in BOOLEAN
      BY <1>3 DEF Clients
    <3> QED
      BY <1>3, <2>3, <2>4, <3>1 DEF Wanted
  <2>6. /\ client' \in Clients /\ client'.has = client.has /\ client'.refused = client.refused
        /\ client'.denied = client.denied
        /\ client'.seen = top /\ client'.waiting = client.waiting \cup want
        /\ client'.misled = lost /\ client'.told = client.told
    <3> HIDE DEF top, lost, want
    <3>1. client' = [client EXCEPT !.seen = top, !.misled = lost,
                         !.waiting = client.waiting \cup want]
      BY <2>1 DEF top
    <3>2. client.waiting \cup want \in SUBSET Rows
      BY <1>3, <2>5 DEF Clients
    <3> QED
      BY <1>3, <2>5, <3>1, <3>2, Zenon DEF Clients
  <2>7. r \in responders /\ r.id = m.id /\ ~r.answered
    <3>1. PICK z \in responders : z.id = m.id /\ ~z.answered
      BY <1>4, <1>6
    <3>2. r \in responders /\ r.id = m.id
      BY <3>1, Zenon
    <3>3. r = z
      BY <3>1, <3>2 DEF PullInv, RespondersOK
    <3> QED
      BY <3>1, <3>2, <3>3
  <2> HIDE DEF r
  <2>8. /\ q \in Responders /\ q.id = m.id /\ q.answered /\ q.queue = want
        /\ q.known = client.has
    <3>1. r \in Responders
      BY <1>3, <2>7 DEF PullTypes
    <3>2. client.has \in RevSets /\ TRUE \in BOOLEAN /\ want \in SUBSET Rows
      BY <1>3, <2>5 DEF Clients
    <3> HIDE DEF want, m
    <3>3. q \in Responders
      BY <1>3, <3>1, <3>2, Zenon DEF Responders
    <3>4. q.id = r.id /\ q.answered /\ q.queue = want /\ q.known = client.has
      BY <3>1, Zenon DEF Responders
    <3> QED
      BY <2>7, <3>3, <3>4
  <2>9. /\ \A z \in responders' : z \in responders \ {r} \/ (z = q /\ want # {})
        /\ \A z \in responders : z # r => z \in responders'
        /\ want # {} => q \in responders'
    <3> HIDE DEF want
    <3> QED
      BY <2>1, <2>8
  <2> HIDE DEF q
  <2>10. \A x \in m.rows : x.rev \in client.has[x.doc] \/ x \in want
    BY DEF Wanted
  <2> HIDE DEF want
  <2>11. ~feed.filtered => best <= top
    BY <1>4, <2>4 DEF seen
  <2>12. TakesBatch
    <3>1. ASSUME NEW x \in m.rows, ~feed.filtered PROVE x.seq <= client'.seen
      <4>1. x.seq \in Nat /\ best \in Nat /\ top \in Nat /\ x.seq <= best
        BY <1>3, <2>2, <2>5 DEF Rows, Seqs
      <4>2. x.seq <= top
        BY <2>11, <3>1, <4>1
      <4> QED
        BY <2>6, <4>2
    <3>2. ASSUME NEW z \in responders, z.id # m.id PROVE z \in responders'
      BY <2>7, <2>9, <3>2
    <3>3. client.seen <= client'.seen
      BY <2>4, <2>6
    <3>4. client.misled => client'.misled
      BY <2>6
    <3>5. \A x \in m.rows : x.rev \in client.has[x.doc] \/ x \in client'.waiting
      BY <2>6, <2>10
    <3>6. client.waiting \subseteq client'.waiting
      BY <2>6
    <3> HIDE DEF m
    <3>7. m = changes[1]
      BY <1>3
    <3>8. \A x \in m.rows : /\ x.rev \in client.has[x.doc] \/ x \in client'.waiting
                            /\ ~feed.filtered => x.seq <= client'.seen
      BY <3>1, <3>5
    <3>9. \A z \in responders : ~z.answered /\ (m.rows # {} => z.id # m.id) => z \in responders'
      BY <1>6, <3>2
    <3> QED
      BY <1>1, <2>6, <3>3, <3>4, <3>6, <3>7, <3>8, <3>9 DEF TakesBatch
  <2>13. /\ changes' \in Seq(Messages)
         /\ (BatchesOK /\ RevsOK /\ AnnouncedOK /\ FeedOK /\ AllowedOK /\ HistoryConnects)'
    BY <2>12, TakeStep
  <2>14. PullTypes'
    <3>1. responders' \subseteq Responders
      BY <1>3, <2>8, <2>9 DEF PullTypes
    <3> QED
      BY <1>1, <1>3, <2>6, <2>13, <3>1 DEF PullTypes
  <2>15. SequencesOK'
    <3>1. \E e \in Docs : top <= seqOf[e]
      <4>1. CASE top = client.seen
        BY <4>1 DEF PullInv, SequencesOK, Reached
      <4>2. CASE top # client.seen /\ m.filtered
        <5>1. PICK e \in Docs : TRUE
          BY BlipAssumption
        <5>2. top = 0
          BY <2>4, <4>2 DEF seen
        <5>3. 0 <= seqOf[e]
          BY <1>3 DEF PullTypes
        <5> QED
          BY <5>2, <5>3
      <4>3. CASE top # client.seen /\ ~m.filtered
        <5>1. top = best
          BY <2>4, <4>3 DEF seen
        <5>2. top <= feed.since
          BY <1>4, <2>2, <5>1
        <5>3. PICK e \in Docs : feed.since <= seqOf[e]
          BY DEF PullInv, SequencesOK, Reached
        <5>4. top \in Nat /\ feed.since \in Nat /\ seqOf[e] \in Nat
          BY <1>3, <2>5 DEF PullTypes, FeedRecords
        <5>5. top <= seqOf[e]
          BY <5>2, <5>3, <5>4
        <5> QED
          BY <5>5
      <4> QED
        BY <4>1, <4>2, <4>3
    <3>2. Reached(client.seen)'
      BY <1>1, <2>6, <3>1 DEF Reached
    <3> QED
      BY <1>1, <3>2 DEF PullInv, SequencesOK, Reached
  <2>16. RespondersOK'
    <3>1. \A z \in responders : z.id = m.id => z = r
      BY <2>7 DEF PullInv, RespondersOK
    <3>2. \A k \in revs \cup removers : k.id # m.id
      BY <2>7 DEF PullInv, RespondersOK
    <3>3. \A z, y \in responders' : z.id = y.id => z = y
      BY <2>8, <2>9, <3>1 DEF PullInv, RespondersOK
    <3>4. \A z \in responders' : z.id < used.batches
      BY <1>4, <1>6, <2>8, <2>9 DEF PullInv, RespondersOK
    <3>5. \A z \in responders' :
              ~z.answered => z.queue = {} /\ ~z.awaiting /\ z.known = [d \in Docs |-> {}]
      BY <2>8, <2>9 DEF PullInv, RespondersOK
    <3>6. \A k \in revs \cup removers : \A z \in responders' :
              z.id = k.id => z.answered /\ k.row \notin z.queue
      BY <2>8, <2>9, <3>2 DEF PullInv, RespondersOK
    <3>7. \A k \in revs \cup removers : k.id < used.batches
      BY DEF PullInv, RespondersOK
    <3> QED
      BY <1>1, <3>3, <3>4, <3>5, <3>6, <3>7 DEF RespondersOK
  <2>17. SeenOK'
    <3> SUFFICES ASSUME NEW d \in Docs, seqOf[d] \in 1..top, ~lost
                 PROVE  Settled(d)'
      BY <1>1, <2>6 DEF SeenOK
    <3>1. Settled(d) => Settled(d)'
      BY <1>1, <2>6 DEF Settled, RowOf
    <3>2. seqOf[d] \in Nat /\ top \in Nat /\ client.seen \in Nat
      BY <1>3, <2>5 DEF PullTypes
    <3>3. CASE seqOf[d] <= client.seen
      <4>1. seqOf[d] \in 1..client.seen
        BY <3>2, <3>3
      <4>2. Settled(d)
        BY <4>1 DEF PullInv, SeenOK
      <4> QED
        BY <3>1, <4>2
    <3>4. CASE ~(seqOf[d] <= client.seen)
      <4>1. top # client.seen
        BY <3>2, <3>4
      <4>2. top = seen /\ seqOf[d] > 0
        BY <2>4, <3>2, <4>1
      <4>3. ~m.filtered /\ top = best
        BY <3>2, <4>2 DEF seen
      <4>4. PICK x \in m.rows : x.seq = best
        BY <2>2
      <4>5. SkipsNothing(1)
        BY <1>3, <1>4, <4>3 DEF PullInv, AnnouncedOK
      <4>6. Settled(d) \/ Excused \/ \E j \in 1..1 : RowOf(d) \in changes[j].rows
        BY <4>3, <4>4, <4>5 DEF SkipsNothing
      <4>7. ~Excused
        BY <4>3 DEF Excused
      <4>8. ASSUME RowOf(d) \in m.rows PROVE Settled(d)'
        <5>1. RowOf(d).rev = current[d] /\ RowOf(d).doc = d
          BY DEF RowOf
        <5>2. current[d] \in client.has[d] \/ RowOf(d) \in want
          BY <2>10, <4>8, <5>1
        <5> QED
          BY <1>1, <2>6, <5>2 DEF Settled, RowOf
      <4>9. \A j \in 1..1 : j = 1
        OBVIOUS
      <4> QED
        BY <3>1, <4>6, <4>7, <4>8, <4>9
    <3> QED
      BY <3>3, <3>4
  <2>18. NothingForgotten'
    <3> SUFFICES ASSUME NEW row \in client'.waiting
                 PROVE  (\E z \in responders' : row \in z.queue) \/ \E k \in revs : k.row = row
      BY <1>1 DEF NothingForgotten
    <3>1. CASE row \in want
      BY <2>8, <2>9, <3>1
    <3>2. CASE row \in client.waiting
      <4>1. (\E z \in responders : row \in z.queue) \/ \E k \in revs : k.row = row
        BY <3>2 DEF PullInv, NothingForgotten
      <4>2. r.queue = {}
        BY <2>7 DEF PullInv, RespondersOK
      <4> QED
        BY <2>9, <4>1, <4>2
    <3> QED
      BY <2>6, <3>1, <3>2
  <2>19. KnownOK'
    BY <1>1, <2>6, <2>8, <2>9 DEF PullInv, KnownOK, InFlight
  <2>20. (ContextOK /\ CaughtUpComplete)'
    <3>1. client.seen <= client'.seen /\ client.seen \in Nat /\ client'.seen \in Nat
          /\ \A d \in Docs : seqOf[d] \in Nat
      BY <1>3, <2>4, <2>5, <2>6 DEF PullTypes
    <3>2. \A d \in Docs : seqOf[d] <= client.seen => seqOf[d] <= client'.seen
      BY <3>1
    <3> QED
      BY <1>1, <2>6, <3>2 DEF PullInv, ContextOK, CaughtUpComplete
  <2> QED
    BY SMTT(30), <2>13, <2>14, <2>15, <2>16, <2>17, <2>18, <2>19, <2>20 DEF PullInv
<1> QED
  BY <1>5, <1>6

----------------------------------------------------------------------------
(* Sending revisions.                                                      *)

(* The history that is sent starts at a revision the client is taken to    *)
(* have, unless it is short, and holds every ancestor that is now known.   *)
LEMMA OldestFacts ==
    ASSUME NEW n \in Revs, NEW known \in SUBSET Revs, NEW limit \in Nat
    PROVE  /\ Oldest(n, known, limit) \in 1..n
           /\ \/ Oldest(n, known, limit) = 1 \/ limit > 0
              \/ Oldest(n, known, limit) \in known
           /\ Passed(n, known, limit) \subseteq Revs
           /\ \A a \in Passed(n, known, limit) : a \in Oldest(n, known, limit)..n
<1> DEFINE stop == {a \in 1..(n - 1) : a \in known \/ (limit > 0 /\ n - a >= limit)}
<1>1. n \in Nat /\ n >= 1 /\ n <= MaxRev /\ MaxRev \in Nat
  BY BlipAssumption DEF Revs
<1>2. /\ Oldest(n, known, limit) = IF stop = {} THEN 1 ELSE Max(stop)
      /\ Passed(n, known, limit) = IF stop = {} THEN 1..(n - 1) ELSE (Max(stop) + 1)..(n - 1)
  BY Zenon DEF Oldest, Passed
<1>3. CASE stop = {}
  BY <1>1, <1>2, <1>3 DEF Revs
<1>4. CASE stop # {}
  <2>1. stop \subseteq 0..n
    BY <1>1
  <2>2. Max(stop) \in stop
    <3> HIDE DEF stop
    <3> QED
      BY <1>1, <1>4, <2>1, GreatestExists
  <2>3. Max(stop) \in 1..(n - 1) /\ (Max(stop) \in known \/ limit > 0)
    BY <2>2
  <2> HIDE DEF stop
  <2> DEFINE x == Max(stop)
  <2>4. Oldest(n, known, limit) = x /\ Passed(n, known, limit) = (x + 1)..(n - 1)
    BY <1>2, <1>4
  <2>5. x \in 1..(n - 1) /\ (x \in known \/ limit > 0)
    BY <2>3
  <2> HIDE DEF x
  <2> QED
    BY <1>1, <2>4, <2>5 DEF Revs
<1> QED
  BY <1>3, <1>4

(* The responder is done with its next row and with nothing else.          *)
HasAdvanced(r, row, known) ==
    /\ row \in r.queue /\ row \in Rows /\ row.doc \in Docs
    /\ responders' \subseteq Responders
    /\ \A z \in responders' :
          \/ z \in responders /\ z # r
          \/ /\ z.id = r.id /\ z.answered /\ z.queue = r.queue \ {row}
             /\ z.maxHistory = r.maxHistory
             /\ \A d \in Docs : z.known[d] = IF d = row.doc THEN known ELSE r.known[d]
    /\ \A z \in responders : z # r => z \in responders'
    /\ \A x \in r.queue : x # row => \E z \in responders' : x \in z.queue

(* Advance leaves the other goroutines and the other rows alone.           *)
LEMMA AdvanceFacts ==
    ASSUME PullInv, NEW r \in responders, r.answered, r.queue # {},
           NEW known \in SUBSET Revs, NEW awaiting \in BOOLEAN,
           responders' = Advance(r, known, awaiting),
           NEW row, row = NextRow(r.queue)
    PROVE  HasAdvanced(r, row, known)
<1> DEFINE n == [r EXCEPT !.queue = r.queue \ {row}, !.known = [r.known EXCEPT ![row.doc] = known],
                          !.awaiting = awaiting]
<1>1. r \in Responders /\ r.queue \subseteq Rows /\ r.known \in RevSets
  BY DEF PullInv, PullTypes, Responders
<1>2. row \in r.queue /\ row \in Rows
  BY <1>1, NextRowIsARow
<1>3. row.doc \in Docs
  BY <1>2 DEF Rows
<1>4. [r.known EXCEPT ![row.doc] = known] \in RevSets
      /\ \A d \in Docs : [r.known EXCEPT ![row.doc] = known][d] = IF d = row.doc THEN known ELSE r.known[d]
  BY <1>1, <1>3 DEF RevSets
<1>5. n \in Responders
  <2>1. r.queue \ {row} \in SUBSET Rows
    BY <1>1
  <2> DEFINE k == [r.known EXCEPT ![row.doc] = known]
             q == r.queue \ {row}
  <2>2. k \in RevSets /\ q \in SUBSET Rows
    BY <1>4, <2>1
  <2> HIDE DEF k, q
  <2>3. [r EXCEPT !.queue = q, !.known = k, !.awaiting = awaiting] \in Responders
    BY <1>1, <2>2, Zenon DEF Responders
  <2> QED
    BY <2>3 DEF k, q
<1>6. /\ n.id = r.id /\ n.answered = r.answered /\ n.queue = r.queue \ {row}
      /\ n.maxHistory = r.maxHistory /\ n.known = [r.known EXCEPT ![row.doc] = known]
  BY <1>1, Zenon DEF Responders
<1>7. responders' = IF r.queue = {row} /\ ~awaiting THEN responders \ {r}
                                                    ELSE (responders \ {r}) \cup {n}
  <2>1. responders' = IF r.queue = {NextRow(r.queue)} /\ ~awaiting
          THEN responders \ {r}
          ELSE (responders \ {r}) \cup
               {[r EXCEPT !.queue = r.queue \ {NextRow(r.queue)},
                          !.known = [r.known EXCEPT ![NextRow(r.queue).doc] = known],
                          !.awaiting = awaiting]}
    BY ZenonT(30) DEF Advance
  <2> QED
    BY <2>1, Zenon
<1> HIDE DEF n
<1>8. responders' \subseteq Responders
  BY <1>5, <1>7 DEF PullInv, PullTypes
<1>9. \A z \in responders : z # r => z \in responders'
  BY <1>7
<1>10. ASSUME NEW z \in responders', ~(z \in responders /\ z # r) PROVE z = n
  BY <1>7, <1>10
<1>11. ASSUME NEW x \in r.queue, x # row PROVE \E z \in responders' : x \in z.queue
  BY <1>6, <1>7, <1>11
<1>12. ASSUME NEW z \in responders', ~(z \in responders /\ z # r)
       PROVE  /\ z.id = r.id /\ z.answered /\ z.queue = r.queue \ {row}
              /\ z.maxHistory = r.maxHistory
              /\ \A d \in Docs : z.known[d] = IF d = row.doc THEN known ELSE r.known[d]
  <2>1. z = n
    BY <1>10, <1>12
  <2> QED
    BY <1>4, <1>6, <2>1
<1> QED
  BY <1>2, <1>3, <1>8, <1>9, <1>11, <1>12 DEF HasAdvanced

(* A step of the goroutines that send revisions leaves what the client     *)
(* knows and the batches on their way as they are.                         *)
Quiet ==
    /\ current' = current /\ seqOf' = seqOf /\ context' = context /\ feed' = feed
    /\ changes' = changes /\ client' = client
    /\ used'.subs = used.subs /\ used'.batches = used.batches
    /\ \A r \in responders : ~r.answered => r \in responders'

(* Such a step keeps everything that is said of batches and changes.       *)
LEMMA QuietStep ==
    ASSUME PullInv, Quiet
    PROVE  (SequencesOK /\ ContextOK /\ BatchesOK /\ SeenOK /\ AnnouncedOK /\ FeedOK
            /\ CaughtUpComplete)'
<1>1. /\ current' = current /\ seqOf' = seqOf /\ context' = context /\ feed' = feed
      /\ changes' = changes /\ client' = client
      /\ used'.subs = used.subs /\ used'.batches = used.batches
  BY DEF Quiet
<1>2. (SequencesOK /\ ContextOK /\ CaughtUpComplete)'
  BY <1>1 DEF PullInv, SequencesOK, ContextOK, CaughtUpComplete, Reached
<1>3. (SeenOK /\ AnnouncedOK /\ FeedOK)'
  BY <1>1 DEF PullInv, SeenOK, AnnouncedOK, FeedOK, SkipsNothing, EndsComplete, Settled, RowOf,
      Excused
<1>4. ASSUME NEW i \in 1..Len(changes), changes[i].rows # {}
      PROVE  \E r \in responders' : r.id = changes[i].id /\ ~r.answered
  <2>1. PICK r \in responders : r.id = changes[i].id /\ ~r.answered
    BY <1>4 DEF PullInv, BatchesOK
  <2> QED
    BY <2>1 DEF Quiet
<1>5. BatchesOK'
  BY <1>1, <1>4 DEF PullInv, BatchesOK
<1> QED
  BY <1>2, <1>3, <1>5

(* A responder has sent a message for its next row.                        *)
Sends(r, m, known, awaiting) ==
    /\ r.answered /\ r.queue # {} /\ m.id = r.id /\ m.row = NextRow(r.queue)
    /\ revs' = revs \cup {m}
    /\ removers' \in {removers, removers \cup {m}}
    /\ responders' = Advance(r, known, awaiting)
    /\ current' = current /\ seqOf' = seqOf /\ context' = context /\ feed' = feed
    /\ changes' = changes /\ client' = client
    /\ used'.subs = used.subs /\ used'.batches = used.batches

(* The row leaves the queue with a message that is new, so that no row is  *)
(* sent twice for a batch and none is forgotten.                           *)
LEMMA SendsStep ==
    ASSUME PullInv, NEW r \in responders, NEW m \in RevMessages, NEW known \in SUBSET Revs,
           NEW awaiting \in BOOLEAN, Sends(r, m, known, awaiting)
    PROVE  /\ m \notin revs \cup removers
           /\ (SequencesOK /\ ContextOK /\ BatchesOK /\ SeenOK /\ AnnouncedOK /\ FeedOK
               /\ CaughtUpComplete /\ RespondersOK /\ NothingForgotten)'
           /\ responders' \subseteq Responders
<1> DEFINE row == m.row
<1>1. /\ r.answered /\ r.queue # {} /\ m.id = r.id /\ m.row = NextRow(r.queue)
      /\ revs' = revs \cup {m} /\ removers' \in {removers, removers \cup {m}}
      /\ responders' = Advance(r, known, awaiting)
      /\ current' = current /\ seqOf' = seqOf /\ context' = context /\ feed' = feed
      /\ changes' = changes /\ client' = client
      /\ used'.subs = used.subs /\ used'.batches = used.batches
  BY DEF Sends
<1>2. /\ row \in r.queue
      /\ responders' \subseteq Responders
      /\ \A z \in responders' :
            \/ z \in responders /\ z # r
            \/ z.id = r.id /\ z.answered /\ z.queue = r.queue \ {row}
      /\ \A z \in responders : z # r => z \in responders'
      /\ \A x \in r.queue : x # row => \E z \in responders' : x \in z.queue
  <2>1. HasAdvanced(r, NextRow(r.queue), known)
    BY <1>1, AdvanceFacts
  <2>2. HasAdvanced(r, row, known)
    BY <1>1, <2>1
  <2> HIDE DEF row
  <2> QED
    BY <2>2 DEF HasAdvanced
<1> HIDE DEF row
<1>3. row = m.row
  BY DEF row
<1>4. m \notin revs \cup removers
  BY <1>1, <1>2, <1>3 DEF PullInv, RespondersOK
<1>5. Quiet
  BY <1>1, <1>2 DEF Quiet
<1>6. RespondersOK'
  <2>1. \A z \in responders' : z.id < used.batches
    BY <1>2 DEF PullInv, RespondersOK
  <2>2. ASSUME NEW z \in responders', NEW y \in responders', z.id = y.id PROVE z = y
    <3>1. \A x \in responders : x.id = r.id => x = r
      BY DEF PullInv, RespondersOK
    <3>2. CASE z \in responders /\ z # r /\ y \in responders /\ y # r
      BY <2>2, <3>2 DEF PullInv, RespondersOK
    <3>3. CASE ~(z \in responders /\ z # r) /\ ~(y \in responders /\ y # r)
      BY <1>1, <3>3 DEF Advance
    <3> QED
      BY <1>2, <2>2, <3>1, <3>2, <3>3
  <2>3. \A z \in responders' :
            ~z.answered => z.queue = {} /\ ~z.awaiting /\ z.known = [d \in Docs |-> {}]
    BY <1>2 DEF PullInv, RespondersOK
  <2>4. ASSUME NEW k \in revs \cup removers, NEW z \in responders', z.id = k.id
        PROVE  z.answered /\ k.row \notin z.queue
    BY <1>2, <2>4 DEF PullInv, RespondersOK
  <2>5. ASSUME NEW z \in responders', z.id = m.id PROVE z.answered /\ m.row \notin z.queue
    BY <1>1, <1>2, <1>3, <2>5 DEF PullInv, RespondersOK
  <2>6. \A k \in revs \cup removers : k.id < used.batches
    BY DEF PullInv, RespondersOK
  <2>7. m.id < used.batches
    BY <1>1 DEF PullInv, RespondersOK
  <2>8. revs' \cup removers' \subseteq (revs \cup removers) \cup {m}
    BY <1>1
  <2> QED
    BY ZenonT(30), <1>1, <2>1, <2>2, <2>3, <2>4, <2>5, <2>6, <2>7, <2>8 DEF RespondersOK
<1>7. NothingForgotten'
  <2> SUFFICES ASSUME NEW x \in client.waiting
               PROVE  (\E z \in responders' : x \in z.queue) \/ \E k \in revs' : k.row = x
    BY <1>1 DEF NothingForgotten
  <2>1. (\E z \in responders : x \in z.queue) \/ \E k \in revs : k.row = x
    BY DEF PullInv, NothingForgotten
  <2> QED
    BY <1>1, <1>2, <1>3, <2>1
<1> QED
  BY <1>2, <1>4, <1>5, <1>6, <1>7, QuietStep

(* A "norev" takes the place of the row, whatever the reason.              *)
LEMMA SendNoRevStep ==
    ASSUME PullInv, NEW r \in responders, SendNoRev(r)
    PROVE  PullInv'
<1> DEFINE row == NextRow(r.queue)
           m == [id |-> r.id, row |-> row, found |-> FALSE, oldest |-> 0, limit |-> 0]
           known == r.known[row.doc]
           faults == IF row.rev = current[row.doc] THEN used.faults + 1 ELSE used.faults
<1>1. /\ r.answered /\ r.queue # {}
      /\ revs' = revs \cup {m} /\ responders' = Advance(r, known, FALSE)
      /\ removers' = removers /\ allowedAttachments' = allowedAttachments
      /\ current' = current /\ seqOf' = seqOf /\ context' = context /\ feed' = feed
      /\ changes' = changes /\ client' = client /\ used' = [used EXCEPT !.faults = faults]
  BY DEF SendNoRev
<1>0. used' \in Counters /\ used'.subs = used.subs /\ used'.batches = used.batches
  <2>1. used \in Counters /\ faults \in Nat
    BY DEF PullInv, PullTypes, Counters
  <2> HIDE DEF faults
  <2> QED
    BY <1>1, <2>1, Zenon DEF Counters
<1> HIDE DEF faults
<1>2. r \in Responders /\ r.id \in Nat /\ r.queue \subseteq Rows /\ r.known \in RevSets
  BY DEF PullInv, PullTypes, Responders
<1>3. row \in Rows /\ row.doc \in Docs
  <2>1. row \in r.queue
    BY <1>1, <1>2, NextRowIsARow
  <2> QED
    BY <1>2, <2>1 DEF Rows
<1>4. known \in SUBSET Revs
  BY <1>2, <1>3 DEF RevSets
<1>5. m \in RevMessages
  <2> HIDE DEF row
  <2> QED
    BY <1>2, <1>3 DEF RevMessages
<1>6. m.id = r.id /\ m.row = row /\ m.found = FALSE
  OBVIOUS
<1> HIDE DEF m
<1>7. Sends(r, m, known, FALSE)
  BY <1>0, <1>1, <1>6 DEF Sends
<1> HIDE DEF known
<1>8. /\ m \notin revs \cup removers
      /\ (SequencesOK /\ ContextOK /\ BatchesOK /\ SeenOK /\ AnnouncedOK /\ FeedOK
          /\ CaughtUpComplete /\ RespondersOK /\ NothingForgotten)'
      /\ responders' \subseteq Responders
  <2>1. FALSE \in BOOLEAN
    OBVIOUS
  <2> QED
    BY <1>4, <1>5, <1>7, <2>1, SendsStep
<1>9. PullTypes'
  BY <1>0, <1>1, <1>5, <1>8 DEF PullInv, PullTypes
<1>10. RevsOK'
  BY <1>1, <1>6 DEF PullInv, RevsOK
<1>11. AllowedOK'
  BY <1>1 DEF PullInv, AllowedOK, Holding
<1>12. \A z \in responders' :
          \/ z \in responders
          \/ z.maxHistory = r.maxHistory /\ \A d \in Docs : z.known[d] = r.known[d]
  <2> HIDE DEF row
  <2>1. \A z \in responders' :
          \/ z \in responders /\ z # r
          \/ /\ z.maxHistory = r.maxHistory
             /\ \A d \in Docs : z.known[d] = IF d = row.doc THEN known ELSE r.known[d]
    <3>1. HasAdvanced(r, NextRow(r.queue), known)
      <4>1. FALSE \in BOOLEAN
        OBVIOUS
      <4> QED
        BY <1>1, <1>4, <4>1, AdvanceFacts
    <3>2. HasAdvanced(r, row, known)
      BY <3>1 DEF row
    <3> QED
      BY <3>2 DEF HasAdvanced
  <2> QED
    BY <2>1 DEF known
<1>13. \A d \in Docs : \A a : InFlight(d, a) => InFlight(d, a)'
  BY <1>1 DEF InFlight
<1>14. KnownOK'
  BY ZenonT(30), <1>1, <1>12, <1>13 DEF PullInv, KnownOK
<1>15. HistoryConnects'
  BY <1>1, <1>6 DEF PullInv, HistoryConnects
<1> QED
  BY <1>8, <1>9, <1>10, <1>11, <1>14, <1>15 DEF PullInv

(* A "rev" reaches back to a revision that the client has, or that another *)
(* message brings, and counts once for each of its digests.                *)
LEMMA SendRevisionStep ==
    ASSUME PullInv, NEW r \in responders, SendRevision(r)
    PROVE  PullInv'
<1> DEFINE row == NextRow(r.queue)
           known == r.known[row.doc]
           atts == Attachments[row.doc][row.rev]
           old == Oldest(row.rev, known, r.maxHistory)
           passed == Passed(row.rev, known, r.maxHistory)
           m == [id |-> r.id, row |-> row, found |-> TRUE, oldest |-> old,
                 limit |-> r.maxHistory]
           waits == atts # {}
<1>1. /\ r.answered /\ r.queue # {}
      /\ revs' = revs \cup {m} /\ responders' = Advance(r, known \cup passed, waits)
      /\ allowedAttachments' = AddAllowedAttachments(atts)
      /\ removers' = IF atts = {} THEN removers ELSE removers \cup {m}
      /\ current' = current /\ seqOf' = seqOf /\ context' = context /\ feed' = feed
      /\ changes' = changes /\ client' = client /\ used' = used
  BY DEF SendRevision
<1>2. /\ r \in Responders /\ r.id \in Nat /\ r.queue \subseteq Rows /\ r.known \in RevSets
      /\ r.maxHistory \in Nat
  BY DEF PullInv, PullTypes, Responders
<1>3. row \in Rows /\ row.doc \in Docs /\ row.rev \in Revs
  <2>1. row \in r.queue
    BY <1>1, <1>2, NextRowIsARow
  <2> QED
    BY <1>2, <2>1 DEF Rows
<1>4. row = NextRow(r.queue)
  OBVIOUS
<1> HIDE DEF row
<1>5. known \in SUBSET Revs
  BY <1>2, <1>3 DEF RevSets
<1>6. known = r.known[row.doc]
  OBVIOUS
<1> HIDE DEF known
<1>7. /\ old \in 1..row.rev
      /\ old = 1 \/ r.maxHistory > 0 \/ old \in known
      /\ passed \subseteq Revs
      /\ \A a \in passed : a \in old..row.rev
  BY <1>2, <1>3, <1>5, OldestFacts
<1>8. waits \in BOOLEAN /\ (waits <=> atts # {})
  OBVIOUS
<1>9. atts \subseteq Digests
  BY <1>3, BlipAssumption DEF Revs
<1>10. atts = Attachments[row.doc][row.rev]
  OBVIOUS
<1> HIDE DEF old, passed, atts
<1>11. m \in RevMessages
  <2>1. old \in Nat
    BY <1>7, <1>3, BlipAssumption DEF Revs
  <2> QED
    BY <1>2, <1>3, <2>1 DEF RevMessages
<1>12. m.id = r.id /\ m.row = row /\ m.found /\ m.oldest = old /\ m.limit = r.maxHistory
  OBVIOUS
<1> HIDE DEF m, waits
<1> DEFINE now == known \cup passed
<1>13. now \in SUBSET Revs
  BY <1>5, <1>7
<1>14. responders' = Advance(r, now, waits)
  BY <1>1
<1> HIDE DEF now
<1>15. Sends(r, m, now, waits)
  BY <1>1, <1>4, <1>12, <1>14 DEF Sends
<1>16. /\ m \notin revs \cup removers
       /\ (SequencesOK /\ ContextOK /\ BatchesOK /\ SeenOK /\ AnnouncedOK /\ FeedOK
           /\ CaughtUpComplete /\ RespondersOK /\ NothingForgotten)'
       /\ responders' \subseteq Responders
  BY <1>8, <1>11, <1>13, <1>15, SendsStep
<1>17. \A z \in responders' :
          \/ z \in responders
          \/ /\ z.maxHistory = r.maxHistory
             /\ \A d \in Docs : z.known[d] = IF d = row.doc THEN now ELSE r.known[d]
  <2>1. HasAdvanced(r, NextRow(r.queue), now)
    BY <1>1, <1>8, <1>13, <1>14, AdvanceFacts
  <2>2. HasAdvanced(r, row, now)
    BY <1>4, <2>1
  <2> QED
    BY <2>2 DEF HasAdvanced
<1>18. allowedAttachments \in [Digests -> Nat] /\ IsFiniteSet(removers)
  BY DEF PullInv, PullTypes, AllowedOK
<1>19. /\ allowedAttachments' \in [Digests -> Nat]
       /\ \A x \in Digests :
             allowedAttachments'[x] = allowedAttachments[x] + (IF x \in atts THEN 1 ELSE 0)
  BY <1>1, <1>18 DEF AddAllowedAttachments
<1>20. PullTypes'
  BY <1>1, <1>11, <1>16, <1>19 DEF PullInv, PullTypes
<1>21. RevsOK'
  <2>1. removers' \subseteq removers \cup {m}
    BY <1>1
  <2> QED
    BY <1>1, <1>7, <1>12, <2>1 DEF PullInv, RevsOK
<1>22. AllowedOK'
  <2>1. IsFiniteSet(removers')
    BY <1>1, <1>18, FS_AddElement
  <2>2. ASSUME NEW x \in Digests PROVE allowedAttachments'[x] = Cardinality(Holding(x)')
    <3>1. IsFiniteSet(Holding(x)) /\ m \notin Holding(x)
      <4>1. Holding(x) \subseteq removers
        BY DEF Holding
      <4> QED
        BY <1>16, <1>18, <4>1, FS_Subset
    <3>2. allowedAttachments[x] = Cardinality(Holding(x)) /\ allowedAttachments[x] \in Nat
      BY <1>18 DEF PullInv, AllowedOK
    <3>3. CASE x \in atts
      <4>1. Holding(x)' = Holding(x) \cup {m}
        <5>1. removers' = removers \cup {m}
          BY <1>1, <3>3
        <5>2. x \in Attachments[m.row.doc][m.row.rev]
          BY <1>10, <1>12, <3>3
        <5> QED
          BY <5>1, <5>2 DEF Holding
      <4>2. Cardinality(Holding(x) \cup {m}) = Cardinality(Holding(x)) + 1
        BY <3>1, FS_AddElement
      <4>3. allowedAttachments'[x] = allowedAttachments[x] + 1
        BY <1>19, <3>3
      <4> QED
        BY <3>2, <4>1, <4>2, <4>3
    <3>4. CASE x \notin atts
      <4>1. Holding(x)' = Holding(x)
        <5>1. x \notin Attachments[m.row.doc][m.row.rev]
          BY <1>10, <1>12, <3>4
        <5>2. removers' = removers \/ removers' = removers \cup {m}
          BY <1>1
        <5> QED
          BY <5>1, <5>2 DEF Holding
      <4>2. allowedAttachments'[x] = allowedAttachments[x]
        BY <1>19, <3>2, <3>4
      <4> QED
        BY <3>2, <4>1, <4>2
    <3> QED
      BY <3>3, <3>4
  <2> QED
    BY <2>1, <2>2 DEF AllowedOK
<1>23. \A d \in Docs : \A a : InFlight(d, a) => InFlight(d, a)'
  BY <1>1 DEF InFlight
<1>24. KnownOK'
  <2> SUFFICES ASSUME NEW z \in responders', NEW d \in Docs, NEW a \in z.known[d]
               PROVE  \/ a \in client.has[d] \/ client.refused[d] # {} \/ z.maxHistory > 0
                      \/ InFlight(d, a)'
    BY <1>1 DEF KnownOK
  <2>1. ASSUME NEW y \in responders, a \in y.known[d]
        PROVE  \/ a \in client.has[d] \/ client.refused[d] # {} \/ y.maxHistory > 0
               \/ InFlight(d, a)'
    BY <1>23, <2>1 DEF PullInv, KnownOK
  <2>2. CASE z \in responders
    BY <2>1, <2>2
  <2>3. CASE z.maxHistory = r.maxHistory /\ z.known[d] = IF d = row.doc THEN now ELSE r.known[d]
    <3>1. CASE a \in r.known[d]
      BY <2>1, <2>3, <3>1
    <3>2. CASE a \notin r.known[d]
      <4>1. d = row.doc /\ a \in passed
        BY <1>6, <2>3, <3>2 DEF now
      <4>2. a \in m.oldest..m.row.rev /\ m.row.doc = d
        BY <1>7, <1>12, <4>1
      <4> QED
        BY <1>1, <1>12, <4>2 DEF InFlight
    <3> QED
      BY <3>1, <3>2
  <2> QED
    BY <1>17, <2>2, <2>3
<1>25. HistoryConnects'
  <2> SUFFICES ASSUME NEW k \in revs', k.found
               PROVE  \/ k.oldest = 1 \/ k.limit > 0 \/ client.refused[k.row.doc] # {}
                      \/ (k.oldest..k.row.rev) \cap client.has[k.row.doc] # {}
                      \/ \E l \in revs' \ {k} : /\ l.found /\ l.row.doc = k.row.doc
                                                /\ k.oldest \in l.oldest..l.row.rev
    BY <1>1 DEF HistoryConnects
  <2>1. CASE k \in revs
    BY <1>1, <2>1 DEF PullInv, HistoryConnects
  <2>2. CASE k = m
    <3>1. CASE old = 1 \/ r.maxHistory > 0
      BY <1>12, <2>2, <3>1
    <3>2. CASE ~(old = 1 \/ r.maxHistory > 0)
      <4>1. old \in r.known[row.doc]
        BY <1>6, <1>7, <3>2
      <4>2. \/ old \in client.has[row.doc] \/ client.refused[row.doc] # {}
            \/ InFlight(row.doc, old)
        BY <1>3, <3>2, <4>1 DEF PullInv, KnownOK
      <4>3. ASSUME InFlight(row.doc, old)
            PROVE  \E l \in revs' \ {k} : /\ l.found /\ l.row.doc = k.row.doc
                                          /\ k.oldest \in l.oldest..l.row.rev
        <5>1. PICK l \in revs : l.found /\ l.row.doc = row.doc /\ old \in l.oldest..l.row.rev
          BY <4>3 DEF InFlight
        <5>2. l # m
          BY <1>16, <5>1
        <5> QED
          BY <1>1, <1>12, <2>2, <5>1, <5>2
      <4>4. old \in old..row.rev
        BY <1>3, <1>7, BlipAssumption DEF Revs
      <4> QED
        BY <1>12, <2>2, <4>2, <4>3, <4>4
    <3> QED
      BY <3>1, <3>2
  <2> QED
    BY <1>1, <2>1, <2>2
<1> QED
  BY <1>16, <1>20, <1>21, <1>22, <1>24, <1>25 DEF PullInv

----------------------------------------------------------------------------
(* Replies.                                                                *)

(* The goroutine goes on with its queue.                                   *)
LEMMA ReplyReceivedStep ==
    ASSUME PullInv, NEW r \in responders, ReplyReceived(r)
    PROVE  PullInv'
<1> DEFINE n == [r EXCEPT !.awaiting = FALSE]
<1>1. /\ r.awaiting
      /\ responders' = IF r.queue = {} THEN responders \ {r} ELSE (responders \ {r}) \cup {n}
      /\ current' = current /\ seqOf' = seqOf /\ context' = context /\ feed' = feed
      /\ changes' = changes /\ revs' = revs /\ removers' = removers
      /\ allowedAttachments' = allowedAttachments /\ client' = client /\ used' = used
  BY DEF ReplyReceived
<1>2. r \in Responders /\ FALSE \in BOOLEAN
  BY DEF PullInv, PullTypes
<1>3. n \in Responders
  BY <1>2, Zenon DEF Responders
<1>4. /\ n.id = r.id /\ n.answered = r.answered /\ n.queue = r.queue
      /\ n.maxHistory = r.maxHistory /\ n.known = r.known
  BY <1>2, Zenon DEF Responders
<1> HIDE DEF n
<1>5. r.answered
  BY <1>1 DEF PullInv, RespondersOK
<1>6. /\ \A z \in responders' : (z \in responders /\ z # r) \/ z = n
      /\ \A z \in responders : z # r => z \in responders'
      /\ r.queue # {} => n \in responders'
  BY <1>1
<1>7. Quiet
  BY <1>1, <1>5, <1>6 DEF Quiet
<1>8. PullTypes'
  BY <1>1, <1>3, <1>6 DEF PullInv, PullTypes
<1>9. RespondersOK'
  <2>1. \A z \in responders' : z.id < used.batches
    BY <1>4, <1>6 DEF PullInv, RespondersOK
  <2>2. ASSUME NEW z \in responders', NEW y \in responders', z.id = y.id PROVE z = y
    <3>1. \A x \in responders : x.id = r.id => x = r
      BY DEF PullInv, RespondersOK
    <3>2. CASE z \in responders /\ z # r /\ y \in responders /\ y # r
      BY <2>2, <3>2 DEF PullInv, RespondersOK
    <3> QED
      BY <1>4, <1>6, <2>2, <3>1, <3>2
  <2>3. \A z \in responders' :
            ~z.answered => z.queue = {} /\ ~z.awaiting /\ z.known = [d \in Docs |-> {}]
    BY <1>4, <1>5, <1>6 DEF PullInv, RespondersOK
  <2>4. ASSUME NEW k \in revs \cup removers, NEW z \in responders', z.id = k.id
        PROVE  z.answered /\ k.row \notin z.queue
    BY <1>4, <1>6, <2>4 DEF PullInv, RespondersOK
  <2>5. \A k \in revs \cup removers : k.id < used.batches
    BY DEF PullInv, RespondersOK
  <2> QED
    BY <1>1, <2>1, <2>2, <2>3, <2>4, <2>5 DEF RespondersOK
<1>10. NothingForgotten'
  <2> SUFFICES ASSUME NEW x \in client.waiting
               PROVE  (\E z \in responders' : x \in z.queue) \/ \E k \in revs : k.row = x
    BY <1>1 DEF NothingForgotten
  <2>1. (\E z \in responders : x \in z.queue) \/ \E k \in revs : k.row = x
    BY DEF PullInv, NothingForgotten
  <2> QED
    BY <1>4, <1>6, <2>1
<1>11. KnownOK'
  BY <1>1, <1>4, <1>6 DEF PullInv, KnownOK, InFlight
<1>12. (RevsOK /\ AllowedOK /\ HistoryConnects)'
  BY <1>1 DEF PullInv, RevsOK, AllowedOK, HistoryConnects, Holding
<1> QED
  BY <1>7, <1>8, <1>9, <1>10, <1>11, <1>12, QuietStep DEF PullInv

(* The counter of a digest falls with the revision that raised it, and is  *)
(* above zero before.                                                      *)
LEMMA RemoveAllowedStep ==
    ASSUME PullInv, NEW m \in removers, RemoveAllowed(m)
    PROVE  PullInv'
<1> DEFINE atts == Attachments[m.row.doc][m.row.rev]
<1>1. /\ removers' = removers \ {m}
      /\ allowedAttachments' = RemoveAllowedAttachments(atts)
      /\ current' = current /\ seqOf' = seqOf /\ context' = context /\ feed' = feed
      /\ changes' = changes /\ revs' = revs /\ responders' = responders
      /\ client' = client /\ used' = used
  BY DEF RemoveAllowed
<1>2. allowedAttachments \in [Digests -> Nat] /\ IsFiniteSet(removers)
  BY DEF PullInv, PullTypes, AllowedOK
<1>3. /\ allowedAttachments' \in [Digests -> Nat]
      /\ \A x \in Digests :
            allowedAttachments'[x] = IF x \in atts /\ allowedAttachments[x] > 0
                                       THEN allowedAttachments[x] - 1 ELSE allowedAttachments[x]
  <2> HIDE DEF atts
  <2> QED
    BY <1>1, <1>2 DEF RemoveAllowedAttachments
<1>4. Quiet
  BY SMTT(30), <1>1 DEF Quiet
<1>5. PullTypes'
  BY <1>1, <1>3 DEF PullInv, PullTypes
<1>6. (RespondersOK /\ RevsOK)'
  BY <1>1 DEF PullInv, RespondersOK, RevsOK
<1>7. (NothingForgotten /\ KnownOK /\ HistoryConnects)'
  BY <1>1 DEF PullInv, NothingForgotten, KnownOK, HistoryConnects, InFlight
<1>8. AllowedOK'
  <2>1. IsFiniteSet(removers')
    BY <1>1, <1>2, FS_RemoveElement
  <2>2. ASSUME NEW x \in Digests PROVE allowedAttachments'[x] = Cardinality(Holding(x)')
    <3>1. IsFiniteSet(Holding(x))
      <4>1. Holding(x) \subseteq removers
        BY DEF Holding
      <4> QED
        BY <1>2, <4>1, FS_Subset
    <3>2. allowedAttachments[x] = Cardinality(Holding(x)) /\ allowedAttachments[x] \in Nat
      BY <1>2 DEF PullInv, AllowedOK
    <3>3. CASE x \in atts
      <4>1. m \in Holding(x) /\ Holding(x)' = Holding(x) \ {m}
        BY <1>1, <3>3 DEF Holding
      <4>2. Cardinality(Holding(x) \ {m}) = Cardinality(Holding(x)) - 1
        BY <3>1, <4>1, FS_RemoveElement
      <4>3. allowedAttachments[x] > 0
        <5>1. Cardinality(Holding(x)) # 0
          BY <3>1, <4>1, FS_EmptySet
        <5> QED
          BY <3>2, <5>1
      <4>4. allowedAttachments'[x] = allowedAttachments[x] - 1
        BY <1>3, <3>3, <4>3
      <4> QED
        BY <3>2, <4>1, <4>2, <4>4
    <3>4. CASE x \notin atts
      <4>1. Holding(x)' = Holding(x)
        BY <1>1, <3>4 DEF Holding
      <4>2. allowedAttachments'[x] = allowedAttachments[x]
        BY <1>3, <3>4
      <4> QED
        BY <3>2, <4>1, <4>2
    <3> QED
      BY <3>3, <3>4
  <2> QED
    BY <2>1, <2>2 DEF AllowedOK
<1> QED
  BY <1>4, <1>5, <1>6, <1>7, <1>8, QuietStep DEF PullInv

(* The client has answered a message: it has the revision with its         *)
(* history, has refused it, or knows that the gateway does not have it.    *)
Answers(m) ==
    /\ revs' = revs \ {m}
    /\ current' = current /\ seqOf' = seqOf /\ context' = context /\ feed' = feed
    /\ changes' = changes /\ responders' = responders /\ removers' = removers
    /\ allowedAttachments' = allowedAttachments
    /\ used' \in Counters /\ used'.subs = used.subs /\ used'.batches = used.batches
    /\ client' \in Clients /\ client'.seen = client.seen /\ client'.told = client.told
    /\ client'.misled = client.misled /\ client'.waiting = client.waiting \ {m.row}
    /\ \A d \in Docs : client.has[d] \subseteq client'.has[d]
                       /\ client.refused[d] \subseteq client'.refused[d]
                       /\ client.denied[d] \subseteq client'.denied[d]
    /\ m.found => \/ m.row.rev \in client'.refused[m.row.doc]
                  \/ m.oldest..m.row.rev \subseteq client'.has[m.row.doc]
    /\ ~m.found /\ m.row.rev = current[m.row.doc] => m.row.rev \in client'.denied[m.row.doc]

(* What the client was sent takes the place of what was on its way.        *)
LEMMA AnswersStep ==
    ASSUME PullInv, NEW m \in revs, Answers(m)
    PROVE  PullInv'
<1>1. /\ revs' = revs \ {m}
      /\ current' = current /\ seqOf' = seqOf /\ context' = context /\ feed' = feed
      /\ changes' = changes /\ responders' = responders /\ removers' = removers
      /\ allowedAttachments' = allowedAttachments
      /\ used' \in Counters /\ used'.subs = used.subs /\ used'.batches = used.batches
      /\ client' \in Clients /\ client'.seen = client.seen /\ client'.told = client.told
      /\ client'.misled = client.misled /\ client'.waiting = client.waiting \ {m.row}
  BY DEF Answers
<1>2. \A d \in Docs : client.has[d] \subseteq client'.has[d]
                      /\ client.refused[d] \subseteq client'.refused[d]
                      /\ client.denied[d] \subseteq client'.denied[d]
  BY DEF Answers
<1>3. m.found => \/ m.row.rev \in client'.refused[m.row.doc]
                 \/ m.oldest..m.row.rev \subseteq client'.has[m.row.doc]
  BY DEF Answers
<1>4. m \in RevMessages /\ m.row.doc \in Docs /\ m.row.rev \in Nat /\ m.oldest \in Nat
  BY BlipAssumption DEF PullInv, PullTypes, RevMessages, Rows, Revs
<1>5. /\ m.found => m.oldest \in 1..m.row.rev
      /\ ~m.found /\ m.row.rev = current[m.row.doc] => m.row.rev \in client'.denied[m.row.doc]
  BY DEF PullInv, RevsOK, Answers
<1>6. ASSUME NEW d \in Docs, Settled(d) PROVE Settled(d)'
  <2>1. RowOf(d)' = RowOf(d) /\ RowOf(d).doc = d /\ RowOf(d).rev = current[d]
    BY <1>1 DEF RowOf
  <2>2. CASE current[d] \in client.has[d] \cup client.refused[d] \cup client.denied[d]
    BY <1>1, <1>2, <2>2 DEF Settled
  <2>3. CASE RowOf(d) \in client.waiting /\ RowOf(d) # m.row
    BY <1>1, <2>1, <2>3 DEF Settled
  <2>4. CASE RowOf(d) = m.row
    <3>1. m.row.doc = d /\ m.row.rev = current[d]
      BY <2>1, <2>4
    <3>2. m.found => m.row.rev \in m.oldest..m.row.rev
      BY <1>4, <1>5
    <3> QED
      BY <1>1, <1>3, <1>5, <3>1, <3>2 DEF Settled
  <2> QED
    BY <1>6, <2>2, <2>3, <2>4 DEF Settled
<1>7. \A d \in Docs : (Settled(d) => Settled(d)') /\ RowOf(d)' = RowOf(d)
  BY <1>1, <1>6 DEF RowOf
<1>8. Excused' = Excused
  BY <1>1 DEF Excused
<1>9. PullTypes'
  BY <1>1 DEF PullInv, PullTypes
<1>10. (SequencesOK /\ ContextOK /\ CaughtUpComplete)'
  BY <1>1 DEF PullInv, SequencesOK, ContextOK, CaughtUpComplete, Reached
<1>11. (BatchesOK /\ RespondersOK)'
  BY ZenonT(30), <1>1 DEF PullInv, BatchesOK, RespondersOK
<1>12. (RevsOK /\ AllowedOK)'
  BY <1>1 DEF PullInv, RevsOK, AllowedOK, Holding
<1>13. SeenOK'
  BY <1>1, <1>7 DEF PullInv, SeenOK
<1>14. AnnouncedOK'
  <2> SUFFICES ASSUME ~feed.filtered, NEW i \in 1..Len(changes)
               PROVE  SkipsNothing(i)' /\ EndsComplete(i)'
    BY <1>1 DEF AnnouncedOK
  <2>1. SkipsNothing(i) /\ EndsComplete(i)
    BY DEF PullInv, AnnouncedOK
  <2>2. SkipsNothing(i)'
    BY <1>1, <1>7, <1>8, <2>1 DEF SkipsNothing
  <2>3. EndsComplete(i)'
    BY <1>1, <2>1 DEF EndsComplete
  <2> QED
    BY <2>2, <2>3
<1>15. FeedOK'
  BY <1>1, <1>7, <1>8 DEF PullInv, FeedOK
<1>16. NothingForgotten'
  BY <1>1 DEF PullInv, NothingForgotten
<1>17. ASSUME NEW d \in Docs, NEW a, InFlight(d, a)
       PROVE  a \in client'.has[d] \/ client'.refused[d] # {} \/ InFlight(d, a)'
  <2>1. PICK k \in revs : k.found /\ k.row.doc = d /\ a \in k.oldest..k.row.rev
    BY <1>17 DEF InFlight
  <2>2. CASE k = m
    BY <1>3, <2>1, <2>2
  <2>3. CASE k # m
    BY <1>1, <2>1, <2>3 DEF InFlight
  <2> QED
    BY <2>2, <2>3
<1>18. KnownOK'
  <2> SUFFICES ASSUME NEW r \in responders, NEW d \in Docs, NEW a \in r.known[d]
               PROVE  \/ a \in client'.has[d] \/ client'.refused[d] # {} \/ r.maxHistory > 0
                      \/ InFlight(d, a)'
    BY <1>1 DEF KnownOK
  <2>1. \/ a \in client.has[d] \/ client.refused[d] # {} \/ r.maxHistory > 0
        \/ InFlight(d, a)
    BY DEF PullInv, KnownOK
  <2> QED
    BY <1>2, <1>17, <2>1
<1>19. HistoryConnects'
  <2> SUFFICES ASSUME NEW k \in revs, k # m, k.found
               PROVE  \/ k.oldest = 1 \/ k.limit > 0 \/ client'.refused[k.row.doc] # {}
                      \/ (k.oldest..k.row.rev) \cap client'.has[k.row.doc] # {}
                      \/ \E l \in revs' \ {k} : /\ l.found /\ l.row.doc = k.row.doc
                                                /\ k.oldest \in l.oldest..l.row.rev
    BY <1>1 DEF HistoryConnects
  <2>1. k.row.doc \in Docs /\ k.row.rev \in Nat /\ k.oldest \in k.oldest..k.row.rev
    <3>1. k.row.doc \in Docs /\ k.row.rev \in Nat
      BY SMTT(30), BlipAssumption DEF PullInv, PullTypes, RevMessages, Rows, Revs
    <3>2. k.oldest \in 1..k.row.rev
      BY DEF PullInv, RevsOK
    <3> QED
      BY <3>1, <3>2
  <2>2. \/ k.oldest = 1 \/ k.limit > 0 \/ client.refused[k.row.doc] # {}
        \/ (k.oldest..k.row.rev) \cap client.has[k.row.doc] # {}
        \/ \E l \in revs \ {k} : /\ l.found /\ l.row.doc = k.row.doc
                                 /\ k.oldest \in l.oldest..l.row.rev
    BY DEF PullInv, HistoryConnects
  <2>3. ASSUME NEW l \in revs \ {k}, l.found, l.row.doc = k.row.doc,
               k.oldest \in l.oldest..l.row.rev
        PROVE  \/ client'.refused[k.row.doc] # {}
               \/ (k.oldest..k.row.rev) \cap client'.has[k.row.doc] # {}
               \/ l \in revs' \ {k}
    <3>1. CASE l = m
      BY <1>3, <2>1, <2>3, <3>1
    <3>2. CASE l # m
      BY <1>1, <3>2
    <3> QED
      BY <3>1, <3>2
  <2>4. (client.refused[k.row.doc] # {} => client'.refused[k.row.doc] # {})
        /\ ((k.oldest..k.row.rev) \cap client.has[k.row.doc] # {}
              => (k.oldest..k.row.rev) \cap client'.has[k.row.doc] # {})
    BY <1>2, <2>1
  <2> QED
    BY <2>2, <2>3, <2>4
<1> QED
  BY <1>9, <1>10, <1>11, <1>12, <1>13, <1>14, <1>15, <1>16, <1>18, <1>19 DEF PullInv

(* A row that is answered with "norev" is not the last change of its       *)
(* document, or is noted as denied.                                        *)
LEMMA ClientNoRevStep ==
    ASSUME PullInv, NEW m \in revs, ClientNoRev(m)
    PROVE  PullInv'
<1> DEFINE doc == m.row.doc
           waiting == client.waiting \ {m.row}
           denied == [client.denied EXCEPT ![doc] = client.denied[doc]
                                              \cup ({m.row.rev} \cap {current[doc]})]
<1>1. /\ ~m.found /\ revs' = revs \ {m}
      /\ client' = [client EXCEPT !.waiting = waiting, !.denied = denied]
      /\ current' = current /\ seqOf' = seqOf /\ context' = context /\ feed' = feed
      /\ changes' = changes /\ responders' = responders /\ removers' = removers
      /\ allowedAttachments' = allowedAttachments /\ used' = used
  BY DEF ClientNoRev, server
<1>2. /\ client \in Clients /\ used \in Counters /\ client.denied \in RevSets
      /\ waiting \in SUBSET Rows
  BY DEF PullInv, PullTypes, Clients
<1>3. doc \in Docs /\ m.row.rev \in Revs
  BY DEF PullInv, PullTypes, RevMessages, Rows
<1>4. /\ denied \in RevSets
      /\ \A d \in Docs : client.denied[d] \subseteq denied[d]
      /\ m.row.rev = current[doc] => m.row.rev \in denied[doc]
  <2> HIDE DEF doc
  <2> QED
    BY <1>2, <1>3 DEF RevSets
<1> HIDE DEF waiting, denied
<1>5. /\ client' \in Clients /\ client'.seen = client.seen /\ client'.told = client.told
      /\ client'.misled = client.misled /\ client'.waiting = waiting
      /\ client'.has = client.has /\ client'.refused = client.refused
      /\ client'.denied = denied
  BY <1>1, <1>2, <1>4, Zenon DEF Clients
<1>6. Answers(m)
  <2>1. client'.waiting = client.waiting \ {m.row}
    BY <1>5 DEF waiting
  <2> QED
    BY <1>1, <1>2, <1>4, <1>5, <2>1 DEF Answers
<1> QED
  BY <1>6, AnswersStep

(* A revision that is taken brings its history, and one that is refused is *)
(* marked.                                                                 *)
LEMMA ClientRevStep ==
    ASSUME PullInv, NEW m \in revs, NEW refuse \in BOOLEAN, ClientRev(m, refuse)
    PROVE  PullInv'
<1> DEFINE n == m.row.rev
           doc == m.row.doc
           got == IF n = 1 THEN {1} ELSE m.oldest..n
           has == [client.has EXCEPT ![doc] = IF refuse THEN client.has[doc]
                                              ELSE client.has[doc] \cup got]
           refused == [client.refused EXCEPT ![doc] = IF refuse THEN client.refused[doc] \cup {n}
                                                      ELSE client.refused[doc]]
           faults == IF refuse THEN used.faults + 1 ELSE used.faults
           waiting == client.waiting \ {m.row}
<1>1. /\ m.found /\ revs' = revs \ {m}
      /\ client' = [client EXCEPT !.waiting = waiting, !.has = has, !.refused = refused]
      /\ used' = [used EXCEPT !.faults = faults]
      /\ current' = current /\ seqOf' = seqOf /\ context' = context /\ feed' = feed
      /\ changes' = changes /\ responders' = responders /\ removers' = removers
      /\ allowedAttachments' = allowedAttachments
  BY DEF ClientRev, server
<1>2. client \in Clients /\ used \in Counters /\ client.has \in RevSets
      /\ client.refused \in RevSets /\ waiting \in SUBSET Rows /\ faults \in Nat
  BY DEF PullInv, PullTypes, Clients, Counters
<1>3. /\ doc \in Docs /\ n \in Revs /\ n \in Nat /\ m.oldest \in 1..n
  <2>1. m \in RevMessages
    BY DEF PullInv, PullTypes
  <2>2. doc \in Docs /\ n \in Revs /\ n \in Nat
    BY <2>1, BlipAssumption DEF RevMessages, Rows, Revs
  <2>3. m.oldest \in 1..n
    BY <1>1 DEF PullInv, RevsOK
  <2> QED
    BY <2>2, <2>3
<1>4. got \subseteq Revs /\ m.oldest..n \subseteq got
  <2>1. MaxRev \in Nat
    BY BlipAssumption
  <2> HIDE DEF n
  <2> QED
    BY <1>3, <2>1 DEF Revs
<1> HIDE DEF got
<1>5. /\ has \in RevSets
      /\ \A d \in Docs : client.has[d] \subseteq has[d]
      /\ ~refuse => got \subseteq has[doc]
  <2> HIDE DEF doc, n
  <2> QED
    BY <1>2, <1>3, <1>4 DEF RevSets
<1>6. /\ refused \in RevSets
      /\ \A d \in Docs : client.refused[d] \subseteq refused[d]
      /\ refuse => n \in refused[doc]
  <2> HIDE DEF doc, n
  <2> QED
    BY <1>2, <1>3 DEF RevSets
<1> HIDE DEF has, refused, waiting, faults
<1>7. /\ client' \in Clients /\ client'.seen = client.seen /\ client'.told = client.told
      /\ client'.misled = client.misled /\ client'.waiting = waiting
      /\ client'.has = has /\ client'.refused = refused /\ client'.denied = client.denied
  BY <1>1, <1>2, <1>5, <1>6, Zenon DEF Clients
<1>8. used' \in Counters /\ used'.subs = used.subs /\ used'.batches = used.batches
  BY <1>1, <1>2, Zenon DEF Counters
<1>9. Answers(m)
  <2>1. m.row.rev \in client'.refused[m.row.doc] \/ m.oldest..m.row.rev \subseteq client'.has[m.row.doc]
    BY <1>4, <1>5, <1>6, <1>7
  <2>2. \A d \in Docs : client.has[d] \subseteq client'.has[d]
                        /\ client.refused[d] \subseteq client'.refused[d]
                        /\ client.denied[d] \subseteq client'.denied[d]
    BY <1>5, <1>6, <1>7
  <2>3. client'.waiting = client.waiting \ {m.row}
    BY <1>7 DEF waiting
  <2> QED
    BY <1>1, <1>7, <1>8, <2>1, <2>2, <2>3 DEF Answers
<1> QED
  BY <1>9, AnswersStep

----------------------------------------------------------------------------
(* The theorems.                                                           *)

(* Every step of the gateway and of the client keeps the invariant.        *)
LEMMA PullNext ==
    ASSUME PullInv, [Next]_vars
    PROVE  PullInv'
<1>1. CASE UNCHANGED vars
  <2>1. /\ current' = current /\ seqOf' = seqOf /\ context' = context /\ feed' = feed
        /\ changes' = changes /\ responders' = responders /\ revs' = revs
        /\ removers' = removers /\ allowedAttachments' = allowedAttachments
        /\ client' = client /\ used' = used
    BY <1>1 DEF vars
  <2>2. Quiet
    BY <2>1 DEF Quiet
  <2>3. (PullTypes /\ RespondersOK /\ RevsOK)'
    BY <2>1 DEF PullInv, PullTypes, RespondersOK, RevsOK
  <2>4. (NothingForgotten /\ AllowedOK /\ KnownOK /\ HistoryConnects)'
    BY <2>1 DEF PullInv, NothingForgotten, AllowedOK, KnownOK, HistoryConnects, Holding, InFlight
  <2> QED
    BY <2>2, <2>3, <2>4, QuietStep DEF PullInv
<1>2. ASSUME NEW d \in Docs, NEW n \in 1..2, Update(d, n) PROVE PullInv'
  BY <1>2, UpdateStep
<1>3. ASSUME NEW rq \in Requests, HandleSubChanges(rq) PROVE PullInv'
  BY <1>3, HandleSubChangesStep
<1>4. ASSUME NEW last \in BOOLEAN, SendChange(last) PROVE PullInv'
  BY <1>4, SendChangeStep
<1>5. CASE CaughtUp
  BY <1>5, CaughtUpStep
<1>6. CASE FeedFails
  BY <1>6, FeedFailsStep
<1>7. ASSUME NEW n \in MaxHistories, ClientChanges(n) PROVE PullInv'
  BY <1>7, ClientChangesStep
<1>8. ASSUME NEW r \in responders, SendRevision(r) \/ SendNoRev(r) \/ ReplyReceived(r)
      PROVE  PullInv'
  BY <1>8, SendRevisionStep, SendNoRevStep, ReplyReceivedStep
<1>9. ASSUME NEW m \in revs, ClientNoRev(m) PROVE PullInv'
  BY <1>9, ClientNoRevStep
<1>10. ASSUME NEW m \in revs, NEW refuse \in BOOLEAN, ClientRev(m, refuse) PROVE PullInv'
  BY <1>10, ClientRevStep
<1>11. ASSUME NEW m \in removers, RemoveAllowed(m) PROVE PullInv'
  BY <1>11, RemoveAllowedStep
<1>12. CASE Reconnect
  BY <1>12, ReconnectStep
<1> QED
  BY <1>1, <1>2, <1>3, <1>4, <1>5, <1>6, <1>7, <1>8, <1>9, <1>10, <1>11, <1>12 DEF Next

(* The inductive invariant of a pull: sendChanges passes no change that is *)
(* not the client's, refused, pending, in a "changes" message or requested *)
(* from a handleChangesResponse goroutine, and what those goroutines take  *)
(* to be known to the client is so or is on its way.                       *)
THEOREM PullInvariant == Spec => []PullInv
<1>1. Init => PullInv
  BY PullInit
<1>2. PullInv /\ [Next]_vars => PullInv'
  BY PullNext
<1> QED
  BY <1>1, <1>2, PTL DEF Spec

(* A client that pulls through handleSubChanges, sendBatchOfChanges and    *)
(* sendRevision resumes from a checkpoint below which nothing is missing,  *)
(* is sent everything that it asked for with a history that connects, is   *)
(* told the truth about being caught up, and may download an attachment    *)
(* exactly while a revision that has it awaits the reply: for any          *)
(* documents, batch size, lost connections, failed feeds and refusals.     *)
THEOREM PullsAreSafe == Spec => []PullSafe
<1>1. PullInv => PullSafe
  BY InvSafe
<1> QED
  BY <1>1, PullInvariant, PTL

----------------------------------------------------------------------------
(* Pushing: revision trees.                                                *)

TreeNodes == [parent : RevIds, deleted : BOOLEAN, body : {"stored", "none"}]

(* The trees pushes build: a revision comes with all of its ancestors.     *)
TreeOK(t) ==
    /\ t \in [DOMAIN t -> TreeNodes]
    /\ DOMAIN t \subseteq RevIds \ {NoRev} /\ IsFiniteSet(DOMAIN t)
    /\ \A r \in DOMAIN t : t[r].parent = Front(r) /\ Front(r) \in DOMAIN t \cup {NoRev}

(* The trees that pushes build are forests, so that the lemmas about       *)
(* revision trees hold of them.                                            *)
LEMMA TreeForest ==
    ASSUME NEW t, TreeOK(t)
    PROVE  Forest(t)
BY DEF TreeOK, Forest

(* The winning revision of a tree is a leaf, and not a deleted one if      *)
(* there is another.                                                       *)
LEMMA WinnerFacts ==
    ASSUME NEW t, TreeOK(t)
    PROVE  /\ t = EmptyTree => WinningRevision(t) = NoRev
           /\ t # EmptyTree =>
                /\ WinningRevision(t) \in Leaves(t) /\ WinningRevision(t) \in DOMAIN t
                /\ WinningRevision(t) # NoRev
                /\ LiveLeaves(t) # {} => WinningRevision(t) \in LiveLeaves(t)
BY TreeForest, CurrentFacts

(* A tree has every ancestor of its revisions.                             *)
LEMMA AncestorsInTree ==
    ASSUME NEW t, TreeOK(t), NEW r \in DOMAIN t, NEW n \in 1..Len(r)
    PROVE  Prefix(r, n) \in DOMAIN t
<1> DEFINE Missing(m) == m <= Len(r) - 1 /\ Prefix(r, Len(r) - m) \notin DOMAIN t
           T == {m \in Nat : Missing(m)}
<1> SUFFICES ASSUME Prefix(r, n) \notin DOMAIN t PROVE FALSE
  OBVIOUS
<1>1. r \in RevIds /\ r # NoRev /\ Len(r) \in Nat
  BY LenProperties DEF TreeOK, RevIds
<1>2. Len(r) - n \in T
  <2>1. n \in Nat /\ Len(r) - n \in Nat /\ Len(r) - (Len(r) - n) = n /\ Len(r) - n <= Len(r) - 1
    BY <1>1
  <2> QED
    BY <2>1
<1>3. PICK m \in T : \A k \in T : m <= k
  <2>1. T \subseteq Nat /\ T # {}
    BY <1>2
  <2> HIDE DEF T
  <2> QED
    BY <2>1, LeastExists
<1>4. m \in Nat /\ m <= Len(r) - 1 /\ Prefix(r, Len(r) - m) \notin DOMAIN t
  OBVIOUS
<1>5. m # 0
  <2>1. Len(r) \in 0..Len(r)
    BY <1>1
  <2>2. Prefix(r, Len(r)) = r
    BY <1>1, <2>1, PrefixOf
  <2>3. Len(r) - 0 = Len(r)
    BY <1>1
  <2> QED
    BY <1>4, <2>2, <2>3
<1> DEFINE d == Len(r) - m
           e == Len(r) - (m - 1)
<1>6. e \in 0..Len(r) /\ e > 0 /\ e - 1 = d /\ d \in 0..Len(r) /\ d > 0
  BY <1>1, <1>4, <1>5
<1>7. Prefix(r, e) \in DOMAIN t
  <2>1. m - 1 \in Nat /\ ~(m <= m - 1) /\ m - 1 <= Len(r) - 1
    BY <1>1, <1>4, <1>5
  <2>2. m - 1 \notin T
    <3> HIDE DEF T
    <3> QED
      BY <1>3, <2>1
  <2> QED
    BY <2>1, <2>2
<1>8. Front(Prefix(r, e)) = Prefix(r, d)
  <2> HIDE DEF d, e
  <2>1. Front(Prefix(r, e)) = Prefix(r, e - 1)
    BY <1>1, <1>6, PrefixOf
  <2> QED
    BY <1>6, <2>1
<1>9. Prefix(r, d) # NoRev
  <2> HIDE DEF d, e
  <2>1. Len(Prefix(r, d)) = d
    BY <1>1, <1>6, PrefixFacts
  <2> QED
    BY <1>6, <2>1 DEF NoRev
<1>10. Front(Prefix(r, e)) \in DOMAIN t \cup {NoRev}
  <2> HIDE DEF e
  <2> QED
    BY <1>7 DEF TreeOK
<1> QED
  BY <1>4, <1>8, <1>9, <1>10

(* getHistory returns revisions of the tree.                               *)
LEMMA HistoryInTree ==
    ASSUME NEW t, TreeOK(t), NEW rev \in DOMAIN t
    PROVE  ToSet(History(t, rev)) \subseteq DOMAIN t
<1> DEFINE h == History(t, rev)
<1>1. Len(h) \in 1..Len(rev) /\ h \in Seq(DOMAIN t)
  BY TreeForest, HistoryFacts
<1> HIDE DEF h
<1>2. ASSUME NEW x \in ToSet(h) PROVE x \in DOMAIN t
  <2>1. PICK i \in DOMAIN h : x = h[i]
    BY DEF ToSet
  <2>2. i \in 1..Len(h)
    BY <1>1, <2>1, LenProperties
  <2> QED
    BY <1>1, <2>1, <2>2, ElementOfSeq
<1> QED
  BY <1>2 DEF h

----------------------------------------------------------------------------
(* The history that comes with a revision.                                 *)

(* h is the revision's history back to the first revision or to one that   *)
(* is in D.                                                                *)
SentFrom(h, rev, D) ==
    \E k \in 1..Len(rev) : h = Since(rev, k) /\ (k = 1 \/ Prefix(rev, k) \in D)

(* A client sends the history back to the newest of the possible ancestors *)
(* that it has, so that one of them that it has is never left out.         *)
LEMMA SentFacts ==
    ASSUME NEW rev \in RevIds \ {NoRev}, NEW possible
    PROVE  /\ SentFrom(SentHistory(rev, possible), rev, possible)
           /\ \A b \in 1..Len(rev) :
                possible = {Prefix(rev, b)} => Prefix(rev, b) \in SentHistory(rev, possible)
<1> DEFINE L == Len(rev)
           all == {SubSeq(rev, 1, n) : n \in 1..L}
           stop == {Generation(a) : a \in all \cap possible}
<1>1. L \in Nat \ {0}
  BY FrontFacts
<1>2. \A n \in 1..L : Len(Prefix(rev, n)) = n
  BY <1>1, PrefixFacts
<1>3. all = Since(rev, 1)
  BY DEF Since, Prefix
<1>4. SentHistory(rev, possible)
        = IF stop = {} THEN all ELSE {r \in all : Generation(r) >= Max(stop)}
  BY Zenon DEF SentHistory
<1>5. \A n : n \in stop <=> n \in 1..L /\ Prefix(rev, n) \in possible
  <2> TAKE n
  <2>1. ASSUME n \in stop PROVE n \in 1..L /\ Prefix(rev, n) \in possible
    <3>1. PICK a \in all \cap possible : n = Generation(a)
      BY <2>1
    <3>2. PICK i \in 1..L : a = SubSeq(rev, 1, i)
      OBVIOUS
    <3>3. a = Prefix(rev, i)
      BY <3>2 DEF Prefix
    <3>4. n = i
      <4> HIDE DEF L
      <4> QED
        BY <1>2, <3>1, <3>3 DEF Generation
    <3> QED
      BY <3>3, <3>4
  <2>2. ASSUME n \in 1..L, Prefix(rev, n) \in possible PROVE n \in stop
    <3>1. SubSeq(rev, 1, n) \in all \cap possible
      BY <2>2 DEF Prefix
    <3>2. Generation(SubSeq(rev, 1, n)) \in stop
      BY <3>1
    <3>3. Generation(SubSeq(rev, 1, n)) = n
      <4> HIDE DEF L
      <4> QED
        BY <1>2, <2>2 DEF Generation, Prefix
    <3> QED
      BY <3>2, <3>3
  <2> QED
    BY <2>1, <2>2
<1> HIDE DEF stop, all, L
<1>6. CASE stop = {}
  <2>1. SentHistory(rev, possible) = Since(rev, 1) /\ 1 \in 1..L
    BY <1>1, <1>3, <1>4, <1>6
  <2>2. \A b \in 1..L : possible # {Prefix(rev, b)}
    BY <1>5, <1>6
  <2> QED
    BY <2>1, <2>2 DEF SentFrom, L
<1>7. CASE stop # {}
  <2> DEFINE k == Max(stop)
  <2>1. k \in stop /\ \A y \in stop : y <= k
    <3>1. stop \subseteq 0..L
      BY <1>1, <1>5
    <3> QED
      BY <1>1, <1>7, <3>1, GreatestExists
  <2> HIDE DEF k
  <2>2. k \in 1..L /\ Prefix(rev, k) \in possible
    BY <1>5, <2>1
  <2>3. SentHistory(rev, possible) = {r \in all : Generation(r) >= k}
    BY <1>4, <1>7 DEF k
  <2>4. ASSUME NEW r PROVE r \in {x \in all : Generation(x) >= k} <=> r \in Since(rev, k)
    <3>1. ASSUME r \in all, Generation(r) >= k PROVE r \in Since(rev, k)
      <4>1. PICK n \in 1..L : r = Prefix(rev, n)
        BY <1>3, <3>1 DEF Since, L
      <4>2. n >= k
        BY <1>2, <3>1, <4>1 DEF Generation
      <4>3. n \in k..L
        BY <1>1, <2>2, <4>2
      <4> QED
        BY <4>1, <4>3 DEF Since, L
    <3>2. ASSUME r \in Since(rev, k) PROVE r \in all /\ Generation(r) >= k
      <4>1. PICK n \in k..L : r = Prefix(rev, n)
        BY <3>2 DEF Since, L
      <4>2. n \in 1..L /\ n >= k
        BY <1>1, <2>2
      <4> QED
        BY <1>2, <1>3, <4>1, <4>2 DEF Since, L, Generation
    <3> QED
      BY <3>1, <3>2
  <2>5. SentHistory(rev, possible) = Since(rev, k)
    BY <2>3, <2>4
  <2>6. ASSUME NEW b \in 1..L, possible = {Prefix(rev, b)}
        PROVE  Prefix(rev, b) \in SentHistory(rev, possible)
    <3>1. k \in 0..Len(rev) /\ b \in 0..Len(rev) /\ Prefix(rev, k) = Prefix(rev, b)
      BY <1>1, <2>2, <2>6 DEF L
    <3>2. k = b
      BY <3>1, PrefixInjective
    <3>3. b \in k..L
      BY <1>1, <2>2, <3>2
    <3> QED
      BY <2>5, <3>3 DEF Since, L
  <2> QED
    BY <2>2, <2>5, <2>6 DEF SentFrom, L
<1> QED
  BY <1>6, <1>7

(* What KnownAncestor finds: the newest revision of the history that is in *)
(* the tree, or nothing, and then the history goes back to the first one.  *)
KnownAt(rev, h, D, j) ==
    /\ j \in 0..(Len(rev) - 1) /\ (j > 0 => Prefix(rev, j) \in D)
    /\ \A n \in (j + 1)..Len(rev) : Prefix(rev, n) \in h /\ Prefix(rev, n) \notin D
    /\ h \subseteq Since(rev, 1)

(* KnownAncestor finds such a generation for a revision the tree lacks.    *)
LEMMA KnownAncestorFacts ==
    ASSUME NEW p, p.rev \in RevIds \ {NoRev}, SentFrom(p.history, p.rev, DOMAIN pushTree),
           p.rev \notin DOMAIN pushTree
    PROVE  \E j \in 0..(Len(p.rev) - 1) :
              KnownAncestor(p) = Prefix(p.rev, j) /\ KnownAt(p.rev, p.history, DOMAIN pushTree, j)
<1> DEFINE rev == p.rev
           L == Len(rev)
           D == DOMAIN pushTree
           known == p.history \cap D
<1>1. L \in Nat \ {0}
  BY FrontFacts
<1>2. PICK k \in 1..L : p.history = Since(rev, k) /\ (k = 1 \/ Prefix(rev, k) \in D)
  BY DEF SentFrom
<1>3. k \in Nat /\ k >= 1 /\ k <= L
  BY <1>1
<1>4. Prefix(rev, L) = rev /\ Prefix(rev, 0) = NoRev
  <2>1. L \in 0..L /\ 0 \in 0..L
    BY <1>1
  <2> QED
    BY <2>1, PrefixOf
<1>5. KnownAncestor(p) = IF known = {} THEN NoRev
                         ELSE CHOOSE a \in known : \A b \in known : ~Greater(b, a)
  BY Zenon DEF KnownAncestor
<1>6. \A n \in k..L : Prefix(rev, n) \in p.history
  BY <1>2 DEF Since
<1>7. p.history \subseteq Since(rev, 1)
  <2>1. \A n \in k..L : n \in 1..L
    BY <1>3
  <2> QED
    BY <1>2, <2>1 DEF Since
<1>8. CASE known = {}
  <2>1. k = 1
    <3>1. k \in k..L
      BY <1>1, <1>3
    <3> QED
      BY <1>2, <1>6, <1>8, <3>1
  <2>2. \A n \in (0 + 1)..L : Prefix(rev, n) \in p.history /\ Prefix(rev, n) \notin D
    BY <1>6, <1>8, <2>1
  <2>3. 0 \in 0..(L - 1)
    BY <1>1
  <2>4. KnownAt(rev, p.history, D, 0)
    BY <1>7, <2>2, <2>3 DEF KnownAt
  <2> QED
    BY <1>4, <1>5, <1>8, <2>3, <2>4
<1>9. CASE known # {}
  <2> DEFINE J == {n \in k..L : Prefix(rev, n) \in D}
             m == Max(J)
             a == KnownAncestor(p)
  <2>1. \A x \in known : \E n \in J : x = Prefix(rev, n)
    BY <1>2 DEF Since
  <2>2. m \in J /\ \A n \in J : n <= m
    <3>1. J \subseteq 0..L /\ J # {}
      BY <1>1, <1>3, <1>9, <2>1
    <3> HIDE DEF J
    <3> QED
      BY <1>1, <3>1, GreatestExists
  <2>3. m \in 0..L /\ m \in Nat /\ m >= k /\ Prefix(rev, m) \in known
    <3>1. m \in k..L /\ Prefix(rev, m) \in D
      BY <2>2
    <3> HIDE DEF m, J
    <3> QED
      BY <1>1, <1>3, <1>6, <3>1
  <2>4. \A n \in J : n \in 0..L
    BY <1>1, <1>3
  <2> HIDE DEF m, J, known
  <2>5. \A b \in known : ~Greater(b, Prefix(rev, m))
    <3> TAKE b \in known
    <3>1. PICK n \in J : b = Prefix(rev, n)
      BY <2>1
    <3>2. n \in 0..L /\ n \in Nat /\ n <= m
      BY <1>1, <2>2, <2>4
    <3>3. Len(b) = n /\ Len(Prefix(rev, m)) = m
      BY <2>3, <3>1, <3>2, PrefixFacts
    <3>4. CASE n = m
      <4>1. b \in RevIds
        BY <3>1, <3>2, PrefixFacts
      <4>2. \A i \in 1..Len(b) : b[i] \in Nat /\ ~(b[i] > b[i])
        BY <4>1, ElementOfSeq DEF RevIds
      <4> QED
        BY <3>1, <3>2, <3>3, <3>4, <4>2 DEF Greater, Generation
    <3>5. CASE n # m
      BY <2>3, <3>2, <3>3, <3>5 DEF Greater, Generation
    <3> QED
      BY <3>4, <3>5
  <2>6. a \in known /\ \A b \in known : ~Greater(b, a)
    <3>1. \E x \in known : \A b \in known : ~Greater(b, x)
      BY <2>3, <2>5
    <3>2. a = CHOOSE x \in known : \A b \in known : ~Greater(b, x)
      BY <1>5, <1>9
    <3> HIDE DEF a
    <3> QED
      BY <3>1, <3>2, Zenon
  <2>7. PICK j \in J : a = Prefix(rev, j)
    BY <2>1, <2>6
  <2>8. j = m
    <3>1. j \in 0..L /\ j \in Nat /\ j <= m
      BY <1>1, <2>2, <2>4
    <3>2. Len(a) = j /\ Len(Prefix(rev, m)) = m
      BY <2>3, <2>7, <3>1, PrefixFacts
    <3>3. ~Greater(Prefix(rev, m), a)
      BY <2>3, <2>6
    <3>4. ~(m > j)
      BY <3>2, <3>3 DEF Greater, Generation
    <3> QED
      BY <2>3, <3>1, <3>4
  <2>9. m # L /\ Prefix(rev, m) \in D
    BY <1>4, <2>3 DEF known
  <2>10. m \in 0..(L - 1)
    BY <1>1, <2>3, <2>9
  <2>11. \A n \in (m + 1)..L : Prefix(rev, n) \in p.history /\ Prefix(rev, n) \notin D
    <3> TAKE n \in (m + 1)..L
    <3>1. n \in k..L /\ ~(n <= m)
      BY <1>1, <1>3, <2>3
    <3>2. n \notin J
      BY <2>2, <3>1
    <3> QED
      BY <1>6, <3>1, <3>2 DEF J
  <2>12. KnownAt(rev, p.history, D, m)
    BY <1>7, <2>9, <2>10, <2>11 DEF KnownAt
  <2> QED
    BY <2>7, <2>8, <2>10, <2>12
<1> QED
  BY <1>8, <1>9

----------------------------------------------------------------------------
(* Saving a revision.                                                      *)

(* The revisions that PutExistingRev adds, and the tree it writes.         *)
Added(p) == {r \in p.history : Generation(r) > Generation(KnownAncestor(p))}
ParentAdded(p, r) ==
    IF Front(r) \in Added(p) \cup {KnownAncestor(p)} THEN Front(r) ELSE NoRev
SavedTree(p) ==
    [r \in DOMAIN pushTree \cup Added(p) |->
        IF r \notin Added(p) THEN pushTree[r]
        ELSE [parent |-> ParentAdded(p, r), deleted |-> r = p.rev /\ p.deleted,
              body |-> IF r = p.rev THEN "stored" ELSE "none"]]

(* A push that can be saved.                                               *)
Savable(p) ==
    /\ TreeOK(pushTree) /\ p.rev \in RevIds \ {NoRev} /\ p.rev \notin DOMAIN pushTree
    /\ SentFrom(p.history, p.rev, DOMAIN pushTree) /\ p.deleted \in BOOLEAN

(* What is added is what follows the known ancestor, up to the revision.   *)
LEMMA AddedFacts ==
    ASSUME NEW p, Savable(p)
    PROVE  \E j \in 0..(Len(p.rev) - 1) :
              /\ KnownAncestor(p) = Prefix(p.rev, j) /\ (j > 0 => Prefix(p.rev, j) \in DOMAIN pushTree)
              /\ Added(p) = Since(p.rev, j + 1)
              /\ Added(p) \cap DOMAIN pushTree = {}
<1> DEFINE rev == p.rev
           L == Len(rev)
<1>1. L \in Nat \ {0}
  BY FrontFacts DEF Savable
<1>2. PICK j \in 0..(L - 1) :
         KnownAncestor(p) = Prefix(rev, j) /\ KnownAt(rev, p.history, DOMAIN pushTree, j)
  BY KnownAncestorFacts DEF Savable
<1>3. \A n \in 0..L : Len(Prefix(rev, n)) = n
  BY PrefixFacts DEF Savable
<1>4. j \in Nat /\ j \in 0..L
  BY <1>1
<1>5. ASSUME NEW r PROVE r \in Added(p) <=> r \in Since(rev, j + 1)
  <2>1. ASSUME r \in Added(p) PROVE r \in Since(rev, j + 1)
    <3>1. r \in Since(rev, 1) /\ Generation(r) > Generation(KnownAncestor(p))
      BY <1>2, <2>1 DEF Added, KnownAt
    <3>2. PICK n \in 1..L : r = Prefix(rev, n)
      BY <3>1 DEF Since
    <3>3. n > j
      BY <1>1, <1>2, <1>3, <1>4, <3>1, <3>2 DEF Generation
    <3>4. n \in (j + 1)..L
      BY <1>1, <1>4, <3>3
    <3> QED
      BY <3>2, <3>4 DEF Since
  <2>2. ASSUME r \in Since(rev, j + 1) PROVE r \in Added(p)
    <3>1. PICK n \in (j + 1)..L : r = Prefix(rev, n)
      BY <2>2 DEF Since
    <3>2. r \in p.history
      BY <1>2, <3>1 DEF KnownAt
    <3>3. n \in 0..L /\ n > j
      BY <1>1, <1>4
    <3>4. Generation(r) > Generation(KnownAncestor(p))
      BY <1>2, <1>3, <1>4, <3>1, <3>3 DEF Generation
    <3> QED
      BY <3>2, <3>4 DEF Added
  <2> QED
    BY <2>1, <2>2
<1>6. Added(p) = Since(rev, j + 1)
  BY <1>5
<1>7. ASSUME NEW r \in Added(p) PROVE r \notin DOMAIN pushTree
  <2>1. PICK n \in (j + 1)..L : r = Prefix(rev, n)
    BY <1>6 DEF Since
  <2> QED
    BY <1>2, <2>1 DEF KnownAt
<1> QED
  BY <1>2, <1>6, <1>7 DEF KnownAt

(* What saving does to the tree.                                           *)
Grown(p, t) ==
    /\ DOMAIN t = DOMAIN pushTree \cup Added(p) /\ p.rev \in Added(p)
    /\ Added(p) \cap DOMAIN pushTree = {}
    /\ \A r \in DOMAIN pushTree : t[r] = pushTree[r]
    /\ KnownAncestor(p) \in DOMAIN pushTree \cup {NoRev}
    /\ KnownAncestor(p) \notin Leaves(t)
    /\ Leaves(t) \subseteq Leaves(pushTree) \cup {p.rev}
    /\ LiveLeaves(t) \subseteq LiveLeaves(pushTree) \cup {p.rev}

(* The tree stays one, and the revision takes the place of its ancestor    *)
(* among the leaves.                                                       *)
LEMMA SavedTreeFacts ==
    ASSUME NEW p, Savable(p)
    PROVE  TreeOK(SavedTree(p)) /\ Grown(p, SavedTree(p))
<1> DEFINE rev == p.rev
           L == Len(rev)
           D == DOMAIN pushTree
           t == SavedTree(p)
<1>1. L \in Nat \ {0} /\ rev \in RevIds \ {NoRev} /\ rev \notin D
  BY FrontFacts DEF Savable
<1>2. PICK j \in 0..(L - 1) :
         /\ KnownAncestor(p) = Prefix(rev, j) /\ (j > 0 => Prefix(rev, j) \in D)
         /\ Added(p) = Since(rev, j + 1)
         /\ Added(p) \cap D = {}
  BY AddedFacts
<1>3. j \in Nat /\ j \in 0..L /\ L \in 0..L /\ 0 \in 0..L /\ L \in (j + 1)..L
      /\ \A n \in (j + 1)..L : n \in 0..L /\ n - 1 \in 0..L /\ n > 0 /\ n - 1 \in j..L
  BY <1>1
<1>4. ASSUME NEW n \in (j + 1)..L
      PROVE  /\ Prefix(rev, n) \in RevIds \ {NoRev} /\ Len(Prefix(rev, n)) = n
             /\ Prefix(rev, n) \in Added(p)
             /\ Front(Prefix(rev, n)) = Prefix(rev, n - 1)
             /\ Prefix(rev, n - 1) \in Added(p) \cup {KnownAncestor(p)}
  <2>1. n \in 0..L /\ n > 0 /\ n \in Nat
    BY <1>1, <1>3
  <2>2. Prefix(rev, n) \in RevIds /\ Len(Prefix(rev, n)) = n
    BY <1>1, <2>1, PrefixFacts
  <2>3. Prefix(rev, n) # NoRev
    BY <2>1, <2>2 DEF NoRev
  <2>4. Prefix(rev, n) \in Added(p)
    BY <1>2 DEF Since
  <2>5. Front(Prefix(rev, n)) = Prefix(rev, n - 1)
    BY <1>1, <2>1, PrefixOf
  <2>6. Prefix(rev, n - 1) \in Added(p) \cup {KnownAncestor(p)}
    <3>1. CASE n - 1 = j
      BY <1>2, <3>1
    <3>2. CASE n - 1 # j
      <4>1. n - 1 \in (j + 1)..L
        BY <1>1, <1>3, <2>1, <3>2
      <4> QED
        BY <1>2, <4>1 DEF Since
    <3> QED
      BY <3>1, <3>2
  <2> QED
    BY <2>2, <2>3, <2>4, <2>5, <2>6
<1>5. Prefix(rev, L) = rev /\ Prefix(rev, 0) = NoRev
  BY <1>1, <1>3, PrefixOf
<1>6. rev \in Added(p)
  BY <1>3, <1>4, <1>5
<1>7. KnownAncestor(p) \in D \cup {NoRev}
  BY <1>2, <1>3, <1>5
<1>8. DOMAIN t = D \cup Added(p)
  BY Zenon DEF SavedTree
<1>9. \A r \in D : t[r] = pushTree[r]
  BY <1>2, Zenon DEF SavedTree
<1>10. ASSUME NEW r \in Added(p)
       PROVE  /\ r \in RevIds \ {NoRev} /\ Front(r) \in RevIds
              /\ t[r].parent = Front(r) /\ Front(r) \in D \cup Added(p) \cup {NoRev}
              /\ t[r] \in TreeNodes
  <2>1. PICK n \in (j + 1)..L : r = Prefix(rev, n)
    BY <1>2 DEF Since
  <2>2. r \in RevIds \ {NoRev} /\ Front(r) \in Added(p) \cup {KnownAncestor(p)}
    BY <1>4, <2>1
  <2>3. ParentAdded(p, r) = Front(r)
    BY <2>2 DEF ParentAdded
  <2>4. t[r] = [parent |-> ParentAdded(p, r), deleted |-> r = p.rev /\ p.deleted,
                body |-> IF r = p.rev THEN "stored" ELSE "none"]
    BY Zenon DEF SavedTree
  <2>5. Front(r) \in RevIds
    BY <2>2, FrontFacts
  <2>6. (r = p.rev /\ p.deleted) \in BOOLEAN
        /\ (IF r = p.rev THEN "stored" ELSE "none") \in {"stored", "none"}
    BY Zenon DEF Savable
  <2>7. t[r] \in TreeNodes
    <3>1. ASSUME NEW x \in RevIds, NEW y \in BOOLEAN, NEW z \in {"stored", "none"}
          PROVE  [parent |-> x, deleted |-> y, body |-> z] \in TreeNodes
      BY DEF TreeNodes
    <3> QED
      BY <2>3, <2>4, <2>5, <2>6, <3>1, Zenon
  <2>8. t[r].parent = Front(r)
    BY <2>3, <2>4
  <2> QED
    BY <1>7, <2>2, <2>5, <2>7, <2>8
<1>11. TreeOK(t)
  <2>1. TreeOK(pushTree)
    BY DEF Savable
  <2>2. \A r \in D : pushTree[r] \in TreeNodes /\ r \in RevIds \ {NoRev}
                     /\ pushTree[r].parent = Front(r) /\ Front(r) \in D \cup {NoRev}
    BY <2>1, Zenon DEF TreeOK
  <2>3. \A r \in DOMAIN t : t[r] \in TreeNodes /\ r \in RevIds \ {NoRev}
                     /\ t[r].parent = Front(r) /\ Front(r) \in DOMAIN t \cup {NoRev}
    <3> TAKE r \in DOMAIN t
    <3> HIDE DEF t
    <3>1. CASE r \in D
      BY <1>8, <1>9, <2>2, <3>1
    <3>2. CASE r \in Added(p)
      BY <1>8, <1>10, <3>2
    <3> QED
      BY <1>8, <3>1, <3>2
  <2>4. t \in [DOMAIN t -> TreeNodes]
    <3>1. t = [r \in DOMAIN t |-> t[r]]
      BY Zenon DEF SavedTree
    <3> HIDE DEF t
    <3> QED
      BY <2>3, <3>1, Zenon
  <2>5. IsFiniteSet(DOMAIN t)
    <3>1. IsFiniteSet((j + 1)..L)
      BY <1>1, <1>3, FS_Interval
    <3>2. IsFiniteSet(Since(rev, j + 1))
      <4> DEFINE f == [n \in (j + 1)..L |-> Prefix(rev, n)]
      <4>1. f \in Surjection((j + 1)..L, Since(rev, j + 1))
        BY DEF Since, Surjection
      <4> HIDE DEF f
      <4> QED
        BY <3>1, <4>1, FS_Surjection
    <3>3. IsFiniteSet(D)
      BY <2>1 DEF TreeOK
    <3>4. IsFiniteSet(D \cup Added(p))
      BY <1>2, <3>2, <3>3, FS_Union
    <3> QED
      BY <1>8, <3>4
  <2> HIDE DEF t
  <2> QED
    BY <2>3, <2>4, <2>5 DEF TreeOK
<1>12. KnownAncestor(p) \notin Leaves(t)
  <2>1. j + 1 \in (j + 1)..L /\ j + 1 - 1 = j
    BY <1>1, <1>3
  <2>2. Prefix(rev, j + 1) \in Added(p) /\ Front(Prefix(rev, j + 1)) = Prefix(rev, j)
    BY <1>4, <2>1
  <2>3. t[Prefix(rev, j + 1)].parent = KnownAncestor(p) /\ Prefix(rev, j + 1) \in DOMAIN t
    BY <1>2, <1>8, <1>10, <2>2
  <2> HIDE DEF t
  <2> QED
    BY <2>3 DEF Leaves
<1>13. ASSUME NEW r \in Leaves(t), r # rev PROVE r \in Leaves(pushTree)
  <2> HIDE DEF t
  <2>1. r \in DOMAIN t /\ \A s \in DOMAIN t : t[s].parent # r
    BY DEF Leaves
  <2>2. r \notin Added(p)
    <3> SUFFICES ASSUME r \in Added(p) PROVE FALSE
      OBVIOUS
    <3>1. PICK n \in (j + 1)..L : r = Prefix(rev, n)
      BY <1>2 DEF Since
    <3>2. n # L
      BY <1>5, <1>13, <3>1
    <3>3. n + 1 \in (j + 1)..L /\ n + 1 - 1 = n
      BY <1>1, <1>3, <3>2
    <3>4. Prefix(rev, n + 1) \in Added(p) /\ Front(Prefix(rev, n + 1)) = r
      BY <1>4, <3>1, <3>3
    <3>5. t[Prefix(rev, n + 1)].parent = r /\ Prefix(rev, n + 1) \in DOMAIN t
      BY <1>8, <1>10, <3>4
    <3> QED
      BY <2>1, <3>5
  <2>3. r \in D
    BY <1>8, <2>1, <2>2
  <2>4. \A s \in D : pushTree[s].parent # r
    BY <1>8, <1>9, <2>1
  <2> QED
    BY <2>3, <2>4 DEF Leaves
<1>14. ASSUME NEW r \in LiveLeaves(t), r # rev PROVE r \in LiveLeaves(pushTree)
  <2> HIDE DEF t
  <2>1. r \in Leaves(t) /\ ~t[r].deleted
    BY DEF LiveLeaves
  <2>2. r \in Leaves(pushTree)
    BY <1>13, <1>14, <2>1
  <2>3. r \in D
    BY <2>2 DEF Leaves
  <2>4. ~pushTree[r].deleted
    BY <1>9, <2>1, <2>3
  <2> QED
    BY <2>2, <2>4 DEF LiveLeaves
<1> HIDE DEF t
<1>15. Leaves(t) \subseteq Leaves(pushTree) \cup {p.rev}
  BY <1>13
<1>16. LiveLeaves(t) \subseteq LiveLeaves(pushTree) \cup {p.rev}
  BY <1>14
<1>17. Grown(p, t)
  BY <1>2, <1>6, <1>7, <1>8, <1>9, <1>12, <1>15, <1>16 DEF Grown
<1> QED
  BY <1>11, <1>17 DEF t

(* The revision is saved with the attachment that came with it, or, when   *)
(* that was not sent, possibly with one that another revision has.         *)
LEMMA StoredFacts ==
    ASSUME NEW p, Savable(p), DOMAIN pushAtt = DOMAIN pushTree, NEW a \in StoredAttachments(p)
    PROVE  a.digest = p.digest \/ (~p.inline /\ \E r \in DOMAIN pushAtt : a = pushAtt[r])
<1> DEFINE own == [digest |-> p.digest, revpos |-> Generation(p.rev)]
           known == KnownAncestor(p)
           ancestors == IF known = NoRev THEN {} ELSE ToSet(History(pushTree, known))
           bodies == {x \in ancestors : pushTree[x].body = "stored"}
           common == ToSet(History(pushTree, CurrentRev)) \cap p.history
           old == pushAtt[CurrentRev].revpos <= Max({Generation(x) : x \in common})
<1>1. own.digest = p.digest /\ NoAtt.digest = NoDigest
  BY DEF NoAtt
<1>2. CASE p.digest = NoDigest
  <2>1. a = NoAtt
    BY <1>2 DEF StoredAttachments
  <2> QED
    BY <1>1, <1>2, <2>1
<1>3. CASE p.digest # NoDigest /\ p.inline
  <2>1. a = own
    BY <1>3 DEF StoredAttachments
  <2> QED
    BY <1>1, <2>1
<1>4. CASE p.digest # NoDigest /\ ~p.inline
  <2>1. PICK x \in AncestorAttachments(p) : a = IF x = NoAtt THEN own ELSE x
    <3>1. StoredAttachments(p) = {IF x = NoAtt THEN own ELSE x : x \in AncestorAttachments(p)}
      BY <1>4, Zenon DEF StoredAttachments
    <3> HIDE DEF own
    <3> QED
      BY <3>1
  <2>2. CASE x = NoAtt
    BY <1>1, <2>1, <2>2
  <2>3. CASE x # NoAtt
    <3>1. ancestors \subseteq DOMAIN pushTree
      <4>1. CASE known = NoRev
        BY <4>1
      <4>2. CASE known # NoRev
        <5>1. known \in DOMAIN pushTree
          BY <4>2, SavedTreeFacts DEF Grown
        <5>2. ToSet(History(pushTree, known)) \subseteq DOMAIN pushTree
          <6> HIDE DEF known
          <6> QED
            BY <5>1, HistoryInTree DEF Savable
        <5> QED
          BY <4>2, <5>2
      <4> QED
        BY <4>1, <4>2
    <3>2. AncestorAttachments(p) =
            IF CurrentRev \in ancestors
            THEN {pushAtt[y] : y \in {y \in bodies : Generation(y) >= Generation(CurrentRev)}}
            ELSE {pushAtt[y] : y \in bodies}
                 \cup {IF CurrentRev = NoRev \/ common = {} THEN NoAtt
                       ELSE IF old THEN pushAtt[CurrentRev] ELSE NoAtt}
      BY Zenon DEF AncestorAttachments
    <3>3. bodies \subseteq DOMAIN pushTree
      BY <3>1
    <3>4. CurrentRev = NoRev \/ CurrentRev \in DOMAIN pushTree
      BY WinnerFacts DEF CurrentRev, Savable
    <3>5. \E r \in DOMAIN pushTree : x = pushAtt[r]
      <4> HIDE DEF ancestors, bodies, common, old
      <4> QED
        BY <2>3, <3>2, <3>3, <3>4
    <3> QED
      BY <1>4, <2>1, <2>3, <3>5
  <2> QED
    BY <2>2, <2>3
<1> QED
  BY <1>2, <1>3, <1>4

----------------------------------------------------------------------------
(* The inductive invariant of pushes.                                      *)

HandlerRecords ==
    [pc : {"idle", "announced", "attachments", "proving", "fetching", "saving"},
     rev : RevIds, base : RevIds, deleted : BOOLEAN, digest : AttDigests \cup {NoDigest},
     history : SUBSET RevIds, noConflicts : BOOLEAN, inline : BOOLEAN, seen : RevIds,
     result : {"none", "exists", "conflict", "failed", "saved"}]
PushCounters == [pushes : Nat, faults : Nat]

PushTypes ==
    /\ conflictFree \in BOOLEAN /\ TreeOK(pushTree) /\ DOMAIN pushAtt = DOMAIN pushTree
    /\ attData \subseteq AttDigests /\ handler \in [Handlers -> HandlerRecords]
    /\ pushUsed \in PushCounters

(* The revision follows one that its client knows the gateway to have, and *)
(* its history goes back to it or to another that the tree has.            *)
Coming(p, free, D) ==
    /\ p.rev # NoRev /\ \E b \in 0..(Len(p.rev) - 1) : p.base = Prefix(p.rev, b)
    /\ p.base \in D \cup {NoRev} /\ SentFrom(p.history, p.rev, D)
    /\ free /\ p.base # NoRev => p.base \in p.history

(* An attachment is asked for if there is one, and what the client has     *)
(* proved to have is there.                                                *)
AttachmentOK(p, data) ==
    /\ p.pc \in {"attachments", "proving", "fetching"} \/ p.inline => p.digest # NoDigest
    /\ p.pc = "proving" \/ (p.pc = "saving" /\ ~p.inline) => p.digest \in data \cup {NoDigest}

HandlerOK(p, free, D, data) ==
    (p.pc # "idle" => Coming(p, free, D)) /\ AttachmentOK(p, data)

(* Without conflicts, the revision that was current when the handler's was *)
(* announced is never current again once it was followed by another.       *)
SeenKept(p, free, t) ==
    free => \/ p.seen = WinningRevision(t)
            \/ p.seen = NoRev /\ t # EmptyTree
            \/ p.seen \in DOMAIN t \ Leaves(t)

(* CheckProposedRev would answer other than 0 to a revision with a base.   *)
Refused(p, w) == w # NoRev /\ (w = p.rev \/ w # p.base)

(* What the handler has answered is still justified.                       *)
ResultOK(p, free, t, att) ==
    /\ p.result = "conflict" => p.rev # NoRev /\ p.rev # p.base
    /\ free /\ p.pc = "idle" /\ p.result = "conflict" /\ p.base # NoRev =>
          p.seen # WinningRevision(t) \/ Refused(p, WinningRevision(t))
    /\ p.pc = "idle" /\ p.result = "saved" =>
          /\ p.rev \in DOMAIN att
          /\ \/ att[p.rev].digest = p.digest
             \/ ~p.inline /\ \E r \in DOMAIN att \ {p.rev} : att[r] = att[p.rev]

PushOK(p, free, t, att, data) ==
    HandlerOK(p, free, DOMAIN t, data) /\ SeenKept(p, free, t) /\ ResultOK(p, free, t, att)

OneBranch(free, t) == free => \A a, b \in LiveLeaves(t) : a = b

PushInv ==
    /\ PushTypes /\ AttachmentsStored /\ OneBranch(conflictFree, pushTree)
    /\ \A h \in Handlers : PushOK(handler[h], conflictFree, pushTree, pushAtt, attData)

(* CheckProposedRev, for a revision with a base.                           *)
LEMMA CheckFacts ==
    ASSUME NEW rev, NEW base, rev # NoRev, rev # base, base # NoRev
    PROVE  CheckProposedRev(rev, base) # 0
             <=> CurrentRev # NoRev /\ (CurrentRev = rev \/ CurrentRev # base)
<1>1. CASE CurrentRev = NoRev
  <2>1. CheckProposedRev(rev, base) = 0
    BY <1>1 DEF CheckProposedRev
  <2> QED
    BY <1>1, <2>1
<1>2. CASE CurrentRev # NoRev /\ CurrentRev = rev
  <2>1. CheckProposedRev(rev, base) = 304
    BY <1>2 DEF CheckProposedRev
  <2> QED
    BY <1>2, <2>1
<1>3. CASE CurrentRev # NoRev /\ CurrentRev # rev /\ CurrentRev = base
  <2>1. CheckProposedRev(rev, base) = 0
    BY <1>3 DEF CheckProposedRev
  <2> QED
    BY <1>3, <2>1
<1>4. CASE CurrentRev # NoRev /\ CurrentRev # rev /\ CurrentRev # base
  <2>1. CheckProposedRev(rev, base) = 409
    BY <1>4 DEF CheckProposedRev
  <2> QED
    BY <1>4, <2>1
<1> QED
  BY <1>1, <1>2, <1>3, <1>4

(* The invariant is what a push relies on.                                 *)
LEMMA PushInvSafe == PushInv => PushSafe
<1> SUFFICES ASSUME PushInv PROVE PushSafe
  OBVIOUS
<1>1. PushTypeOK
  <2>1. ASSUME NEW h \in Handlers
        PROVE  handler[h].pc \in {"idle", "announced", "attachments", "proving", "fetching", "saving"}
    BY DEF PushInv, PushTypes, HandlerRecords
  <2> QED
    BY <2>1 DEF PushInv, PushTypes, PushTypeOK
<1>2. SingleBranch
  <2> SUFFICES ASSUME conflictFree PROVE Cardinality(LiveLeaves(pushTree)) <= 1
    BY DEF SingleBranch
  <2>1. \A a, b \in LiveLeaves(pushTree) : a = b
    BY DEF PushInv, OneBranch
  <2>2. CASE LiveLeaves(pushTree) = {}
    BY <2>2, FS_EmptySet
  <2>3. CASE LiveLeaves(pushTree) # {}
    <3>1. PICK a : LiveLeaves(pushTree) = {a}
      BY <2>1, <2>3
    <3>2. Cardinality({a}) = 1
      BY FS_Singleton, Zenon
    <3> QED
      BY <3>1, <3>2
  <2> QED
    BY <2>2, <2>3
<1>3. ProposalKeptOtherwise
  <2>1. ASSUME conflictFree, NEW h \in Handlers, handler[h].result = "conflict", handler[h].pc = "idle",
               handler[h].base # NoRev
        PROVE  \/ handler[h].seen # CurrentRev
               \/ CheckProposedRev(handler[h].rev, handler[h].base) # 0
    <3> DEFINE p == handler[h]
    <3>1. p.seen # CurrentRev \/ Refused(p, CurrentRev)
      BY <2>1 DEF PushInv, PushOK, ResultOK, CurrentRev
    <3>2. p.rev # NoRev /\ p.rev # p.base
      BY <2>1 DEF PushInv, PushOK, ResultOK
    <3>3. CheckProposedRev(p.rev, p.base) # 0
            <=> CurrentRev # NoRev /\ (CurrentRev = p.rev \/ CurrentRev # p.base)
      <4> HIDE DEF p
      <4> QED
        BY <2>1, <3>2, CheckFacts DEF p
    <3> QED
      BY <3>1, <3>3 DEF Refused
  <2> QED
    BY <2>1 DEF ProposalKeptOtherwise
<1>4. AttachmentKept
  <2>1. ASSUME NEW h \in Handlers, handler[h].pc = "idle", handler[h].result = "saved"
        PROVE  \/ pushAtt[handler[h].rev].digest = handler[h].digest
               \/ /\ ~handler[h].inline
                  /\ \E r \in DOMAIN pushAtt \ {handler[h].rev} : pushAtt[r] = pushAtt[handler[h].rev]
    BY <2>1 DEF PushInv, PushOK, ResultOK
  <2> QED
    BY <2>1, Zenon DEF AttachmentKept
<1> QED
  BY <1>1, <1>2, <1>3, <1>4 DEF PushSafe, PushInv

(* The invariant holds of a document without revisions.                    *)
LEMMA PushInit_Inv == PushInit => PushInv
<1> SUFFICES ASSUME PushInit PROVE PushInv
  OBVIOUS
<1>1. DOMAIN pushTree = {} /\ DOMAIN pushAtt = {} /\ pushTree = EmptyTree
  BY DEF PushInit, EmptyTree
<1>2. TreeOK(pushTree)
  <2>1. IsFiniteSet({})
    BY FS_EmptySet
  <2>2. pushTree \in [{} -> TreeNodes]
    BY DEF PushInit, EmptyTree
  <2> QED
    BY <1>1, <2>1, <2>2 DEF TreeOK
<1>3. NoRev \in RevIds
  BY EmptySeq DEF NoRev, RevIds
<1>4. IdleHandler \in HandlerRecords
  BY <1>3 DEF IdleHandler, HandlerRecords
<1>5. PushTypes
  <2>1. pushUsed \in PushCounters
    BY DEF PushInit, PushCounters
  <2>2. handler \in [Handlers -> HandlerRecords]
    BY <1>4, Zenon DEF PushInit
  <2> QED
    BY <1>1, <1>2, <2>1, <2>2 DEF PushTypes, PushInit
<1>6. AttachmentsStored /\ OneBranch(conflictFree, pushTree)
  BY <1>1 DEF AttachmentsStored, OneBranch, LiveLeaves, Leaves
<1>7. ASSUME NEW h \in Handlers
      PROVE  PushOK(handler[h], conflictFree, pushTree, pushAtt, attData)
  <2>1. handler[h] = IdleHandler
    BY Zenon DEF PushInit
  <2>2. handler[h].pc = "idle" /\ ~handler[h].inline /\ handler[h].result = "none"
        /\ handler[h].seen = NoRev
    BY <2>1 DEF IdleHandler
  <2>3. WinningRevision(pushTree) = NoRev
    BY <1>1, <1>2, WinnerFacts
  <2> QED
    BY <2>2, <2>3 DEF PushOK, HandlerOK, AttachmentOK, SeenKept, ResultOK
<1> QED
  BY <1>5, <1>6, <1>7 DEF PushInv

----------------------------------------------------------------------------
(* Steps that leave the document alone.                                    *)

DocUnchanged == UNCHANGED <<conflictFree, pushTree, pushAtt, attData>>

(* Only h changes.                                                         *)
OnlyHandler(h) ==
    /\ handler' \in [Handlers -> HandlerRecords]
    /\ \A g \in Handlers \ {h} : handler'[g] = handler[g]

(* What h has become is justified by the document as it is.                *)
LEMMA HandlerMoves ==
    ASSUME PushInv, NEW h \in Handlers, DocUnchanged, OnlyHandler(h), pushUsed' \in PushCounters,
           PushOK(handler'[h], conflictFree, pushTree, pushAtt, attData)
    PROVE  PushInv'
<1>1. /\ conflictFree' = conflictFree /\ pushTree' = pushTree
      /\ pushAtt' = pushAtt /\ attData' = attData
  BY DEF DocUnchanged
<1>2. PushTypes'
  BY <1>1 DEF PushInv, PushTypes, OnlyHandler
<1>3. AttachmentsStored'
  BY <1>1 DEF PushInv, AttachmentsStored
<1>4. OneBranch(conflictFree', pushTree')
  BY <1>1 DEF PushInv
<1>5. ASSUME NEW g \in Handlers
      PROVE  PushOK(handler'[g], conflictFree', pushTree', pushAtt', attData')
  <2>1. CASE g = h
    BY <1>1, <2>1
  <2>2. CASE g # h
    <3>1. handler'[g] = handler[g]
      BY <2>2 DEF OnlyHandler
    <3>2. PushOK(handler[g], conflictFree, pushTree, pushAtt, attData)
      BY DEF PushInv
    <3> QED
      BY <1>1, <3>1, <3>2
  <2> QED
    BY <2>1, <2>2
<1> QED
  BY <1>2, <1>3, <1>4, <1>5 DEF PushInv

(* What a handler keeps from the announcement to the answer.               *)
SamePush(p, q) ==
    /\ q.rev = p.rev /\ q.base = p.base /\ q.deleted = p.deleted /\ q.digest = p.digest
    /\ q.history = p.history /\ q.seen = p.seen

(* Move changes where the handler stands and nothing else.                 *)
LEMMA MoveFacts ==
    ASSUME PushTypes, NEW h \in Handlers, NEW pc, Move(h, pc),
           pc \in {"idle", "announced", "attachments", "proving", "fetching", "saving"}
    PROVE  /\ OnlyHandler(h) /\ SamePush(handler[h], handler'[h])
           /\ handler'[h].pc = pc /\ handler'[h].inline = handler[h].inline
           /\ handler'[h].result = handler[h].result
<1>1. handler[h] \in HandlerRecords
  BY DEF PushTypes
<1> DEFINE q == [handler[h] EXCEPT !.pc = pc]
<1>2. q \in HandlerRecords /\ SamePush(handler[h], q) /\ q.pc = pc
      /\ q.inline = handler[h].inline /\ q.result = handler[h].result
  BY <1>1 DEF HandlerRecords, SamePush
<1>3. handler' = [handler EXCEPT ![h] = q]
  BY DEF Move
<1> HIDE DEF q
<1>4. handler'[h] = q /\ OnlyHandler(h)
  BY <1>2, <1>3 DEF PushTypes, OnlyHandler
<1> QED
  BY <1>2, <1>4

(* Finish ends the handler with its answer and changes nothing else.       *)
LEMMA FinishFacts ==
    ASSUME PushTypes, NEW h \in Handlers, NEW result, Finish(h, result),
           result \in {"none", "exists", "conflict", "failed", "saved"}
    PROVE  /\ OnlyHandler(h) /\ SamePush(handler[h], handler'[h])
           /\ handler'[h].pc = "idle" /\ handler'[h].inline = handler[h].inline
           /\ handler'[h].result = result
<1>1. handler[h] \in HandlerRecords
  BY DEF PushTypes
<1> DEFINE q == [handler[h] EXCEPT !.pc = "idle", !.result = result, !.noConflicts = FALSE]
<1>2. q \in HandlerRecords /\ SamePush(handler[h], q) /\ q.pc = "idle"
      /\ q.inline = handler[h].inline /\ q.result = result
  BY <1>1 DEF HandlerRecords, SamePush
<1>3. handler' = [handler EXCEPT ![h] = q]
  BY DEF Finish, PushTypes
<1> HIDE DEF q
<1>4. handler'[h] = q /\ OnlyHandler(h)
  BY <1>2, <1>3 DEF PushTypes, OnlyHandler
<1> QED
  BY <1>2, <1>4

(* A handler that goes on keeps the invariant if its attachment is right.  *)
LEMMA HandlerGoesOn ==
    ASSUME PushInv, NEW h \in Handlers, DocUnchanged, OnlyHandler(h), pushUsed' \in PushCounters,
           SamePush(handler[h], handler'[h]), handler'[h].result = handler[h].result,
           handler[h].pc # "idle", handler'[h].pc # "idle", AttachmentOK(handler'[h], attData)
    PROVE  PushInv'
<1> DEFINE p == handler[h]
           q == handler'[h]
<1>1. PushOK(p, conflictFree, pushTree, pushAtt, attData)
  BY DEF PushInv
<1>2. /\ q.rev = p.rev /\ q.base = p.base /\ q.digest = p.digest /\ q.history = p.history
      /\ q.seen = p.seen /\ q.result = p.result /\ q.pc # "idle" /\ p.pc # "idle"
      /\ AttachmentOK(q, attData)
  BY DEF SamePush
<1> HIDE DEF p, q
<1>3. Coming(q, conflictFree, DOMAIN pushTree)
  <2>1. Coming(p, conflictFree, DOMAIN pushTree)
    BY <1>1, <1>2 DEF PushOK, HandlerOK
  <2> QED
    BY <1>2, <2>1 DEF Coming
<1>4. HandlerOK(q, conflictFree, DOMAIN pushTree, attData)
  BY <1>2, <1>3 DEF HandlerOK
<1>5. SeenKept(q, conflictFree, pushTree)
  BY <1>1, <1>2 DEF PushOK, SeenKept
<1>6. ResultOK(q, conflictFree, pushTree, pushAtt)
  BY <1>1, <1>2 DEF PushOK, ResultOK
<1>7. PushOK(handler'[h], conflictFree, pushTree, pushAtt, attData)
  BY <1>4, <1>5, <1>6 DEF PushOK, q
<1> QED
  BY <1>7, HandlerMoves

(* A handler that ends keeps the invariant if its answer is justified.     *)
LEMMA HandlerEnds ==
    ASSUME PushInv, NEW h \in Handlers, DocUnchanged, pushUsed' \in PushCounters,
           NEW result \in {"none", "exists", "conflict", "failed", "saved"}, Finish(h, result),
           ResultOK(handler'[h], conflictFree, pushTree, pushAtt)
    PROVE  PushInv'
<1> DEFINE p == handler[h]
           q == handler'[h]
<1>1. PushOK(p, conflictFree, pushTree, pushAtt, attData) /\ PushTypes
  BY DEF PushInv
<1>2. /\ OnlyHandler(h) /\ SamePush(p, q)
      /\ q.pc = "idle" /\ q.inline = p.inline /\ q.result = result
  BY <1>1, FinishFacts
<1>3. HandlerOK(q, conflictFree, DOMAIN pushTree, attData)
  <2>1. (p.inline => p.digest # NoDigest) /\ q.digest = p.digest
    BY <1>1, <1>2 DEF PushOK, HandlerOK, AttachmentOK, SamePush
  <2> HIDE DEF p, q
  <2> QED
    BY <1>2, <2>1 DEF HandlerOK, AttachmentOK
<1>4. SeenKept(q, conflictFree, pushTree)
  <2>1. q.seen = p.seen
    BY <1>2 DEF SamePush
  <2> HIDE DEF p, q
  <2> QED
    BY <1>1, <2>1 DEF PushOK, SeenKept
<1>5. PushOK(q, conflictFree, pushTree, pushAtt, attData)
  BY <1>3, <1>4 DEF PushOK
<1> QED
  BY <1>2, <1>5, HandlerMoves

(* The client sends the revision it announced.                             *)
LEMMA HandleRevStep ==
    ASSUME PushInv, NEW h \in Handlers, NEW flag \in BOOLEAN, HandleRev(h, flag)
    PROVE  PushInv'
<1> DEFINE p == handler[h]
           pc == IF p.digest = NoDigest THEN "saving" ELSE "attachments"
           q == [p EXCEPT !.noConflicts = flag, !.pc = pc]
<1>1. p.pc = "announced" /\ DocUnchanged /\ pushUsed' = pushUsed
  BY DEF HandleRev, DocUnchanged
<1>2. PushTypes /\ AttachmentOK(p, attData) /\ pushUsed \in PushCounters /\ p \in HandlerRecords
  BY DEF PushInv, PushOK, HandlerOK, PushTypes
<1>3. pc \in {"saving", "attachments"} /\ (pc = "saving" <=> p.digest = NoDigest)
  OBVIOUS
<1>4. /\ OnlyHandler(h) /\ SamePush(p, handler'[h])
      /\ handler'[h].pc = pc /\ handler'[h].inline = p.inline /\ handler'[h].result = p.result
  <2>1. handler' = [handler EXCEPT ![h] = q]
    BY <1>2 DEF HandleRev, PushTypes
  <2>2. /\ q \in HandlerRecords /\ SamePush(p, q) /\ q.pc = pc /\ q.inline = p.inline
        /\ q.result = p.result
    <3> HIDE DEF pc, p
    <3> QED
      BY <1>2, <1>3 DEF HandlerRecords, SamePush
  <2> HIDE DEF q
  <2>3. handler'[h] = q /\ OnlyHandler(h)
    BY <1>2, <2>1, <2>2 DEF PushTypes, OnlyHandler
  <2> QED
    BY <2>2, <2>3
<1>5. AttachmentOK(handler'[h], attData)
  BY <1>2, <1>3, <1>4 DEF AttachmentOK, SamePush
<1>6. p.pc # "idle" /\ handler'[h].pc # "idle"
  BY <1>1, <1>3, <1>4
<1> QED
  BY <1>1, <1>2, <1>4, <1>5, <1>6, HandlerGoesOn

(* An attachment whose data is in the bucket is proved, another fetched.   *)
LEMMA LookUpStep ==
    ASSUME PushInv, NEW h \in Handlers, LookUpAttachment(h)
    PROVE  PushInv'
<1> DEFINE p == handler[h]
           pc == IF p.digest \in attData THEN "proving" ELSE "fetching"
<1>1. p.pc = "attachments" /\ Move(h, pc) /\ DocUnchanged /\ pushUsed' = pushUsed
  BY DEF LookUpAttachment, DocUnchanged
<1>2. PushTypes /\ AttachmentOK(p, attData) /\ pushUsed \in PushCounters
  BY DEF PushInv, PushOK, HandlerOK, PushTypes
<1>3. pc \in {"proving", "fetching"} /\ (pc = "proving" => p.digest \in attData)
  OBVIOUS
<1>4. /\ OnlyHandler(h) /\ SamePush(p, handler'[h])
      /\ handler'[h].pc = pc /\ handler'[h].inline = p.inline /\ handler'[h].result = p.result
  <2> HIDE DEF pc
  <2> QED
    BY <1>1, <1>2, <1>3, MoveFacts
<1>5. AttachmentOK(handler'[h], attData)
  BY <1>1, <1>2, <1>3, <1>4 DEF AttachmentOK, SamePush
<1>6. p.pc # "idle" /\ handler'[h].pc # "idle"
  BY <1>1, <1>3, <1>4
<1> QED
  BY <1>1, <1>2, <1>4, <1>5, <1>6, HandlerGoesOn

(* The client proves that it has the data, which stays in the bucket.      *)
LEMMA ProofStep ==
    ASSUME PushInv, NEW h \in Handlers, ProofReceived(h)
    PROVE  PushInv'
<1> DEFINE p == handler[h]
<1>1. p.pc = "proving" /\ Move(h, "saving") /\ DocUnchanged /\ pushUsed' = pushUsed
  BY DEF ProofReceived, DocUnchanged
<1>2. PushTypes /\ AttachmentOK(p, attData) /\ pushUsed \in PushCounters
  BY DEF PushInv, PushOK, HandlerOK, PushTypes
<1>3. /\ OnlyHandler(h) /\ SamePush(p, handler'[h])
      /\ handler'[h].pc = "saving" /\ handler'[h].inline = p.inline /\ handler'[h].result = p.result
  BY <1>1, <1>2, MoveFacts
<1>4. AttachmentOK(handler'[h], attData)
  BY <1>1, <1>2, <1>3 DEF AttachmentOK, SamePush
<1>5. p.pc # "idle" /\ handler'[h].pc # "idle"
  BY <1>1, <1>3
<1> QED
  BY <1>1, <1>2, <1>3, <1>4, <1>5, HandlerGoesOn

(* The client sends the data of an attachment.                             *)
LEMMA DataStep ==
    ASSUME PushInv, NEW h \in Handlers, DataReceived(h)
    PROVE  PushInv'
<1> DEFINE p == handler[h]
           q == [p EXCEPT !.pc = "saving", !.inline = TRUE]
<1>1. p.pc = "fetching" /\ DocUnchanged /\ pushUsed' = pushUsed
  BY DEF DataReceived, DocUnchanged
<1>2. PushTypes /\ AttachmentOK(p, attData) /\ pushUsed \in PushCounters /\ p \in HandlerRecords
  BY DEF PushInv, PushOK, HandlerOK, PushTypes
<1>3. /\ q \in HandlerRecords /\ SamePush(p, q) /\ q.pc = "saving" /\ q.inline
      /\ q.result = p.result
  BY <1>2 DEF HandlerRecords, SamePush
<1>4. handler' = [handler EXCEPT ![h] = q]
  BY <1>2 DEF DataReceived, PushTypes
<1>5. handler'[h] = q /\ OnlyHandler(h)
  <2> HIDE DEF q
  <2> QED
    BY <1>2, <1>3, <1>4 DEF PushTypes, OnlyHandler
<1> HIDE DEF q
<1>6. AttachmentOK(handler'[h], attData)
  BY <1>1, <1>2, <1>3, <1>5 DEF AttachmentOK, SamePush
<1>7. p.pc # "idle" /\ handler'[h].pc # "idle" /\ handler'[h].result = p.result
      /\ SamePush(p, handler'[h])
  BY <1>1, <1>3, <1>5
<1> QED
  BY <1>1, <1>2, <1>5, <1>6, <1>7, HandlerGoesOn

(* A handler that is cut off leaves nothing behind.                        *)
LEMMA AttachmentFailsStep ==
    ASSUME PushInv, NEW h \in Handlers, AttachmentFails(h)
    PROVE  PushInv'
<1>1. Finish(h, "failed") /\ DocUnchanged /\ pushUsed' = [pushUsed EXCEPT !.faults = @ + 1]
  BY DEF AttachmentFails, DocUnchanged
<1>2. PushTypes
  BY DEF PushInv
<1>3. pushUsed' \in PushCounters
  BY <1>1, <1>2 DEF PushTypes, PushCounters
<1>4. handler'[h].result = "failed"
  BY <1>1, <1>2, FinishFacts
<1>5. ResultOK(handler'[h], conflictFree, pushTree, pushAtt)
  BY <1>4 DEF ResultOK
<1> QED
  BY <1>1, <1>3, <1>5, HandlerEnds

----------------------------------------------------------------------------
(* Announcing.                                                             *)

(* A base that a client may announce a revision with.                      *)
Based(rev, base) ==
    /\ rev \in RevIds \ {NoRev} /\ base \in RevIds
    /\ \E b \in 0..(Len(rev) - 1) : base = Prefix(rev, b)
    /\ base \in DOMAIN pushTree \cup {NoRev}

(* A revision is not its own base.                                         *)
LEMMA BasedDiffers ==
    ASSUME NEW rev, NEW base, Based(rev, base)
    PROVE  rev # base
<1>1. PICK b \in 0..(Len(rev) - 1) : base = Prefix(rev, b)
  BY DEF Based
<1>2. Len(rev) \in Nat \ {0}
  BY FrontFacts DEF Based
<1>3. b \in 0..Len(rev)
  BY <1>2
<1>4. Len(base) = b
  BY <1>1, <1>3, PrefixFacts DEF Based
<1> QED
  BY <1>2, <1>4

(* The history a client sends goes back to what the gateway has.           *)
LEMMA AnnouncedHistory ==
    ASSUME PushTypes, NEW rev, NEW base, Based(rev, base), NEW history,
           history = SentHistory(rev, IF conflictFree THEN {base} \ {NoRev}
                                      ELSE PossibleAncestors(rev))
    PROVE  /\ history \subseteq RevIds /\ SentFrom(history, rev, DOMAIN pushTree)
           /\ conflictFree /\ base # NoRev => base \in history
<1> DEFINE possible == IF conflictFree THEN {base} \ {NoRev} ELSE PossibleAncestors(rev)
           L == Len(rev)
<1>1. rev \in RevIds \ {NoRev} /\ L \in Nat \ {0}
  BY FrontFacts DEF Based
<1>2. possible \subseteq DOMAIN pushTree
  <2>1. CASE conflictFree
    BY <2>1 DEF Based
  <2>2. CASE ~conflictFree
    <3>1. Leaves(pushTree) \subseteq DOMAIN pushTree
      BY DEF Leaves
    <3>2. \A l \in DOMAIN pushTree : pushTree[l].parent \in DOMAIN pushTree \cup {NoRev}
      BY DEF PushTypes, TreeOK
    <3>3. PossibleAncestors(rev) \subseteq DOMAIN pushTree
      BY <3>1, <3>2 DEF PossibleAncestors
    <3> QED
      BY <2>2, <3>3
  <2> QED
    BY <2>1, <2>2
<1>3. history = SentHistory(rev, possible)
  OBVIOUS
<1>4. conflictFree /\ base # NoRev => possible = {base}
  OBVIOUS
<1> HIDE DEF possible
<1>5. SentFrom(history, rev, possible)
  BY <1>1, <1>3, SentFacts
<1>6. SentFrom(history, rev, DOMAIN pushTree)
  BY <1>2, <1>5 DEF SentFrom
<1>7. history \subseteq RevIds
  <2>1. PICK k \in 1..L : history = Since(rev, k)
    BY <1>5 DEF SentFrom
  <2>2. \A n \in k..L : n \in 0..Len(rev)
    BY <1>1
  <2>3. \A n \in k..L : Prefix(rev, n) \in RevIds
    BY <1>1, <2>2, PrefixFacts
  <2> QED
    BY <2>1, <2>3 DEF Since
<1>8. ASSUME conflictFree, base # NoRev PROVE base \in history
  <2>1. PICK b \in 0..(L - 1) : base = Prefix(rev, b)
    BY DEF Based
  <2>2. b # 0
    <3>1. 0 \in 0..Len(rev)
      BY <1>1
    <3>2. Prefix(rev, 0) = NoRev
      BY <1>1, <3>1, PrefixOf
    <3> QED
      BY <1>8, <2>1, <3>2
  <2>3. b \in 1..Len(rev)
    BY <1>1, <2>2
  <2>4. possible = {Prefix(rev, b)}
    BY <1>4, <1>8, <2>1
  <2> QED
    BY <1>1, <1>3, <2>1, <2>3, <2>4, SentFacts
<1> QED
  BY <1>6, <1>7, <1>8

(* An announcement that is refused is refused for what is current.         *)
LEMMA AnnounceStep ==
    ASSUME PushInv, NEW h \in Handlers, NEW rev, NEW base, Based(rev, base),
           NEW deleted \in BOOLEAN, NEW digest \in AttDigests \cup {NoDigest},
           Announce(h, rev, base, deleted, digest), pushUsed' \in PushCounters
    PROVE  PushInv'
<1> DEFINE status == IF conflictFree THEN CheckProposedRev(rev, base)
                     ELSE IF rev \in DOMAIN pushTree THEN 304 ELSE 0
           history == SentHistory(rev, IF conflictFree THEN {base} \ {NoRev}
                                       ELSE PossibleAncestors(rev))
           result == CASE status = 0 -> "none" [] status = 304 -> "exists"
                       [] OTHER -> "conflict"
           pc == IF status = 0 THEN "announced" ELSE "idle"
           q == [pc |-> pc, rev |-> rev, base |-> base, deleted |-> deleted, digest |-> digest,
                 history |-> history, noConflicts |-> FALSE, inline |-> FALSE,
                 seen |-> CurrentRev, result |-> result]
<1>1. DocUnchanged /\ handler' = [handler EXCEPT ![h] = q]
  BY Zenon DEF Announce, DocUnchanged
<1>2. PushTypes /\ TreeOK(pushTree) /\ conflictFree \in BOOLEAN
  BY DEF PushInv, PushTypes
<1>3. /\ history \subseteq RevIds /\ SentFrom(history, rev, DOMAIN pushTree)
      /\ conflictFree /\ base # NoRev => base \in history
  <2> HIDE DEF history
  <2> QED
    BY <1>2, AnnouncedHistory DEF history
<1>4. CurrentRev \in RevIds
  <2>1. NoRev \in RevIds /\ DOMAIN pushTree \subseteq RevIds
    BY <1>2, EmptySeq DEF TreeOK, NoRev, RevIds
  <2> QED
    BY <1>2, <2>1, WinnerFacts DEF CurrentRev
<1>5. result \in {"none", "exists", "conflict"} /\ (result = "conflict" => status # 0 /\ status # 304)
  <2> HIDE DEF status
  <2>1. CASE status = 0
    <3>1. result = "none"
      BY <2>1
    <3> QED
      BY <3>1
  <2>2. CASE status = 304
    <3>1. result = "exists"
      BY <2>2
    <3> QED
      BY <3>1
  <2>3. CASE status # 0 /\ status # 304
    <3>1. result = "conflict"
      BY <2>3
    <3> QED
      BY <2>3, <3>1
  <2> QED
    BY <2>1, <2>2, <2>3
<1>6. status # 0 /\ status # 304 => conflictFree /\ CheckProposedRev(rev, base) # 0
  OBVIOUS
<1>7. pc \in {"announced", "idle"}
  OBVIOUS
<1> HIDE DEF status, history, result, pc
<1>8. q \in HandlerRecords
  <2>1. rev \in RevIds /\ base \in RevIds /\ FALSE \in BOOLEAN
    BY DEF Based
  <2> QED
    BY <1>3, <1>4, <1>5, <1>7, <2>1 DEF HandlerRecords
<1>9. /\ q.pc = pc /\ q.rev = rev /\ q.base = base /\ q.digest = digest /\ q.history = history
      /\ ~q.inline /\ q.seen = CurrentRev /\ q.result = result
  OBVIOUS
<1> HIDE DEF q
<1>10. handler'[h] = q /\ OnlyHandler(h)
  BY <1>1, <1>2, <1>8 DEF PushTypes, OnlyHandler
<1>11. rev # NoRev /\ rev # base
  BY BasedDiffers DEF Based
<1>12. HandlerOK(q, conflictFree, DOMAIN pushTree, attData)
  <2>1. Coming(q, conflictFree, DOMAIN pushTree)
    BY <1>3, <1>9 DEF Coming, Based
  <2> QED
    BY <1>7, <1>9, <2>1 DEF HandlerOK, AttachmentOK
<1>13. SeenKept(q, conflictFree, pushTree)
  BY <1>9 DEF SeenKept, CurrentRev
<1>14. ResultOK(q, conflictFree, pushTree, pushAtt)
  <2>1. result # "saved"
    BY <1>5
  <2>2. ASSUME result = "conflict", base # NoRev PROVE Refused(q, CurrentRev)
    <3>1. CheckProposedRev(rev, base) # 0
      BY <1>5, <1>6, <2>2
    <3>2. CurrentRev # NoRev /\ (CurrentRev = rev \/ CurrentRev # base)
      BY <1>11, <2>2, <3>1, CheckFacts
    <3> QED
      BY <1>9, <3>2 DEF Refused
  <2> QED
    BY <1>9, <1>11, <2>1, <2>2 DEF ResultOK, CurrentRev
<1> QED
  BY <1>1, <1>10, <1>12, <1>13, <1>14, HandlerMoves DEF PushOK

(* A revision on top of one with a base has the same base.                 *)
LEMMA AppendBased ==
    ASSUME NEW parent \in RevIds, NEW x \in Nat, NEW b \in 0..Len(parent), NEW base,
           base = Prefix(parent, b), base \in DOMAIN pushTree \cup {NoRev}
    PROVE  Based(CreateRevID(parent, x), base)
<1> DEFINE rev == Append(parent, x)
<1>1. Len(parent) \in Nat
  BY LenProperties DEF RevIds
<1>2. rev \in RevIds /\ Len(rev) = Len(parent) + 1 /\ \A i \in 1..Len(parent) : rev[i] = parent[i]
  BY AppendProperties DEF RevIds
<1>3. rev # NoRev
  BY <1>1, <1>2 DEF NoRev
<1>4. b \in 0..(Len(rev) - 1) /\ b \in 0..Len(rev) /\ b \in Nat
  BY <1>1, <1>2
<1>5. base \in RevIds /\ Len(base) = b /\ \A i \in 1..b : base[i] = parent[i]
  BY PrefixFacts
<1> HIDE DEF rev
<1>6. Prefix(rev, b) \in RevIds /\ Len(Prefix(rev, b)) = b /\ \A i \in 1..b : Prefix(rev, b)[i] = rev[i]
  BY <1>2, <1>4, PrefixFacts
<1>7. \A i \in 1..b : i \in 1..Len(parent)
  BY <1>1
<1>8. \A i \in 1..b : base[i] = Prefix(rev, b)[i]
  BY <1>2, <1>5, <1>6, <1>7
<1>9. base = Prefix(rev, b)
  BY <1>5, <1>6, <1>8, SameRev
<1>10. Based(rev, base)
  BY <1>2, <1>3, <1>4, <1>5, <1>9 DEF Based
<1> QED
  BY <1>10 DEF rev, CreateRevID

(* A client announces a revision on top of a known one or a pushed one.    *)
LEMMA NewPushStep ==
    ASSUME PushInv, NEW h \in Handlers, NEW parent \in RevIds, NEW b \in 0..Len(parent), NEW base,
           base = Prefix(parent, b), base \in DOMAIN pushTree \cup {NoRev},
           NEW deleted \in BOOLEAN, NEW digest \in AttDigests \cup {NoDigest},
           NewPush(h, parent, base, deleted, digest)
    PROVE  PushInv'
<1>1. pushUsed \in PushCounters /\ pushUsed.pushes \in Nat
  BY DEF PushInv, PushTypes, PushCounters
<1>2. pushUsed' = [pushUsed EXCEPT !.pushes = @ + 1]
      /\ Announce(h, CreateRevID(parent, pushUsed.pushes), base, deleted, digest)
  BY DEF NewPush
<1>3. pushUsed' \in PushCounters
  BY <1>1, <1>2 DEF PushCounters
<1>4. Based(CreateRevID(parent, pushUsed.pushes), base)
  BY <1>1, AppendBased
<1> QED
  BY <1>2, <1>3, <1>4, AnnounceStep

(* A client announces a revision again while its first handler runs.       *)
LEMMA PushAgainStep ==
    ASSUME PushInv, NEW h \in Handlers, NEW g \in Handlers, PushAgain(h, g)
    PROVE  PushInv'
<1> DEFINE p == handler[g]
<1>1. /\ p.pc # "idle" /\ pushUsed' = [pushUsed EXCEPT !.faults = @ + 1]
      /\ Announce(h, p.rev, p.base, p.deleted, p.digest)
  BY DEF PushAgain
<1>2. pushUsed' \in PushCounters
  BY <1>1 DEF PushInv, PushTypes, PushCounters
<1>3. p.rev \in RevIds /\ p.base \in RevIds /\ p.deleted \in BOOLEAN
      /\ p.digest \in AttDigests \cup {NoDigest}
  BY DEF PushInv, PushTypes, HandlerRecords
<1>4. Coming(p, conflictFree, DOMAIN pushTree)
  BY <1>1 DEF PushInv, PushOK, HandlerOK
<1>5. Based(p.rev, p.base)
  BY <1>3, <1>4 DEF Based, Coming
<1> HIDE DEF p
<1> QED
  BY <1>1, <1>2, <1>3, <1>5, AnnounceStep

----------------------------------------------------------------------------
(* Saving.                                                                 *)

(* A handler that is about to save a revision the tree lacks can do it.    *)
LEMMA SavingSavable ==
    ASSUME PushInv, NEW h \in Handlers, handler[h].pc = "saving",
           handler[h].rev \notin DOMAIN pushTree
    PROVE  Savable(handler[h]) /\ Based(handler[h].rev, handler[h].base)
<1> DEFINE p == handler[h]
<1>1. p.rev \in RevIds /\ p.base \in RevIds /\ p.deleted \in BOOLEAN /\ TreeOK(pushTree)
  BY DEF PushInv, PushTypes, HandlerRecords
<1>2. Coming(p, conflictFree, DOMAIN pushTree)
  BY DEF PushInv, PushOK, HandlerOK
<1> QED
  BY <1>1, <1>2 DEF Savable, Based, Coming

(* The current revision, if the history has it, is the known ancestor.     *)
LEMMA CurrentIsKnown ==
    ASSUME NEW p, Savable(p), CurrentRev # NoRev, CurrentRev \in p.history
    PROVE  KnownAncestor(p) = CurrentRev
<1> DEFINE rev == p.rev
           L == Len(rev)
<1>1. L \in Nat \ {0} /\ rev \in RevIds /\ TreeOK(pushTree)
  BY FrontFacts DEF Savable
<1>2. CurrentRev \in Leaves(pushTree) /\ CurrentRev \in DOMAIN pushTree
  BY <1>1, WinnerFacts DEF CurrentRev
<1>3. PICK j \in 0..(L - 1) :
         /\ KnownAncestor(p) = Prefix(rev, j) /\ (j > 0 => Prefix(rev, j) \in DOMAIN pushTree)
         /\ Added(p) = Since(rev, j + 1)
         /\ Added(p) \cap DOMAIN pushTree = {}
  BY AddedFacts
<1>4. PICK m \in 1..L : CurrentRev = Prefix(rev, m)
  <2>1. PICK k \in 1..L : p.history = Since(rev, k)
    BY DEF Savable, SentFrom
  <2>2. PICK m \in k..L : CurrentRev = Prefix(rev, m)
    BY <2>1 DEF Since
  <2>3. m \in 1..L
    BY <1>1
  <2> QED
    BY <2>2, <2>3
<1>5. m <= j
  <2> SUFFICES ASSUME ~(m <= j) PROVE FALSE
    OBVIOUS
  <2>1. m \in (j + 1)..L
    BY <1>1
  <2>2. CurrentRev \in Added(p)
    BY <1>3, <1>4, <2>1 DEF Since
  <2> QED
    BY <1>2, <1>3, <2>2
<1>6. CASE m = j
  BY <1>3, <1>4, <1>6
<1>7. CASE m # j
  <2>1. j \in 0..L /\ j > 0 /\ m + 1 \in 0..j /\ m + 1 \in 1..j /\ m \in 0..j /\ m + 1 \in 0..L
        /\ m + 1 > 0 /\ m + 1 - 1 = m
    BY <1>1, <1>5, <1>7
  <2>2. Prefix(rev, j) \in DOMAIN pushTree /\ Len(Prefix(rev, j)) = j
    BY <1>1, <1>3, <2>1, PrefixFacts
  <2>3. Prefix(Prefix(rev, j), m + 1) \in DOMAIN pushTree
    BY <1>1, <2>1, <2>2, AncestorsInTree
  <2>4. Prefix(Prefix(rev, j), m + 1) = Prefix(rev, m + 1)
    BY <1>1, <2>1, PrefixOf
  <2>5. Front(Prefix(rev, m + 1)) = CurrentRev
    BY <1>1, <1>4, <2>1, PrefixOf
  <2>6. Prefix(rev, m + 1) \in DOMAIN pushTree /\ pushTree[Prefix(rev, m + 1)].parent = CurrentRev
    BY <1>1, <2>3, <2>4, <2>5 DEF TreeOK
  <2> QED
    BY <1>2, <2>6 DEF Leaves
<1> QED
  BY <1>6, <1>7

(* A save that is refused is refused for what is current.                  *)
LEMMA ConflictJustified ==
    ASSUME PushInv, NEW p, Savable(p), Based(p.rev, p.base), IsConflict(p),
           Coming(p, conflictFree, DOMAIN pushTree), conflictFree, p.base # NoRev
    PROVE  Refused(p, CurrentRev)
<1>1. KnownAncestor(p) # CurrentRev /\ CurrentRev # NoRev
  BY DEF IsConflict
<1>2. p.base \in p.history
  BY DEF Coming
<1>3. CurrentRev # p.base
  BY <1>1, <1>2, CurrentIsKnown
<1> QED
  BY <1>1, <1>3 DEF Refused

(* Without conflicts, a revision that is saved follows the current one, or *)
(* is the document's first.                                                *)
LEMMA SavedOnCurrent ==
    ASSUME PushInv, NEW p, Savable(p), ~IsConflict(p), conflictFree
    PROVE  /\ CurrentRev # NoRev => KnownAncestor(p) = CurrentRev
           /\ LiveLeaves(pushTree) \subseteq {KnownAncestor(p)}
<1>1. TreeOK(pushTree) /\ \A a, b \in LiveLeaves(pushTree) : a = b
  BY DEF PushInv, PushTypes, OneBranch
<1>2. CASE pushTree = EmptyTree
  <2>1. CurrentRev = NoRev /\ DOMAIN pushTree = {}
    BY <1>1, <1>2, WinnerFacts DEF CurrentRev, EmptyTree
  <2> QED
    BY <2>1 DEF LiveLeaves, Leaves
<1>3. CASE pushTree # EmptyTree
  <2>1. CurrentRev # NoRev /\ (LiveLeaves(pushTree) # {} => CurrentRev \in LiveLeaves(pushTree))
    BY <1>1, <1>3, WinnerFacts DEF CurrentRev
  <2>2. KnownAncestor(p) = CurrentRev \/ KnownAncestor(p) \in LiveLeaves(pushTree)
    BY <2>1 DEF IsConflict
  <2> QED
    BY <1>1, <2>1, <2>2
<1> QED
  BY <1>2, <1>3

(* What saving does to the attachments.                                    *)
SavedAtt(p, a) ==
    [r \in DOMAIN pushAtt \cup Added(p) |->
        IF r \notin Added(p) THEN pushAtt[r] ELSE IF r = p.rev THEN a ELSE NoAtt]

(* A handler other than the one that saves keeps its part.                 *)
LEMMA OthersKept ==
    ASSUME PushInv, NEW p, Savable(p), conflictFree => ~IsConflict(p), NEW g \in Handlers,
           NEW a, NEW data, attData \subseteq data
    PROVE  PushOK(handler[g], conflictFree, SavedTree(p), SavedAtt(p, a), data)
<1> DEFINE q == handler[g]
           t == SavedTree(p)
           att == SavedAtt(p, a)
           w == WinningRevision(t)
<1>1. PushOK(q, conflictFree, pushTree, pushAtt, attData) /\ TreeOK(pushTree)
      /\ DOMAIN pushAtt = DOMAIN pushTree
  BY DEF PushInv, PushTypes
<1>2. TreeOK(t) /\ Grown(p, t)
  BY SavedTreeFacts
<1>3. DOMAIN pushTree \subseteq DOMAIN t /\ p.rev \in DOMAIN t
  BY <1>2 DEF Grown
<1>4. t # EmptyTree /\ w # NoRev /\ w \in Leaves(t)
  <2>1. t # EmptyTree
    BY <1>3 DEF EmptyTree
  <2> HIDE DEF t
  <2> QED
    BY <1>2, <2>1, WinnerFacts
<1>5. HandlerOK(q, conflictFree, DOMAIN t, data)
  <2> HIDE DEF q, t
  <2>1. ASSUME Coming(q, conflictFree, DOMAIN pushTree) PROVE Coming(q, conflictFree, DOMAIN t)
    <3>1. SentFrom(q.history, q.rev, DOMAIN t)
      BY <1>3, <2>1 DEF Coming, SentFrom
    <3> QED
      BY <1>3, <2>1, <3>1 DEF Coming
  <2>2. AttachmentOK(q, data)
    BY <1>1 DEF PushOK, HandlerOK, AttachmentOK
  <2> QED
    BY <1>1, <2>1, <2>2 DEF PushOK, HandlerOK
<1>6. ASSUME NEW r \in DOMAIN pushTree \ Leaves(pushTree) PROVE r \in DOMAIN t \ Leaves(t)
  <2> HIDE DEF t
  <2>1. r # p.rev /\ r \in DOMAIN t
    BY <1>3 DEF Savable
  <2> QED
    BY <1>2, <2>1 DEF Grown
<1>7. ASSUME conflictFree PROVE (q.seen = NoRev \/ q.seen \in DOMAIN t \ Leaves(t)) /\ q.seen # w
  <2> HIDE DEF q, t, w
  <2>1. CASE q.seen = CurrentRev /\ CurrentRev # NoRev
    <3>1. KnownAncestor(p) = CurrentRev
      BY <1>7, <2>1, SavedOnCurrent
    <3>2. CurrentRev \in DOMAIN pushTree
      <4>1. pushTree # EmptyTree
        BY <1>1, <2>1, WinnerFacts DEF CurrentRev
      <4> QED
        BY <1>1, <4>1, WinnerFacts DEF CurrentRev
    <3> QED
      BY <1>2, <1>3, <1>4, <2>1, <3>1, <3>2 DEF Grown
  <2>2. CASE q.seen = NoRev
    BY <1>4, <2>2
  <2>3. CASE q.seen \in DOMAIN pushTree \ Leaves(pushTree)
    <3>1. q.seen \in DOMAIN t \ Leaves(t)
      BY <1>6, <2>3
    <3> QED
      BY <1>4, <3>1
  <2> QED
    BY <1>1, <1>7, <2>1, <2>2, <2>3 DEF PushOK, SeenKept, CurrentRev
<1>8. SeenKept(q, conflictFree, t)
  <2> HIDE DEF q, t, w
  <2> QED
    BY <1>4, <1>7 DEF SeenKept
<1>9. DOMAIN pushAtt \subseteq DOMAIN att /\ \A r \in DOMAIN pushAtt : att[r] = pushAtt[r]
  <2>1. \A r \in DOMAIN pushAtt : r \notin Added(p)
    BY <1>1, <1>2 DEF Grown
  <2> QED
    BY <2>1, Zenon DEF SavedAtt
<1>10. ResultOK(q, conflictFree, t, att)
  <2> HIDE DEF q, t, w, att
  <2>1. ResultOK(q, conflictFree, pushTree, pushAtt)
    BY <1>1 DEF PushOK
  <2>2. q.result = "conflict" => q.rev # NoRev /\ q.rev # q.base
    BY <2>1 DEF ResultOK
  <2>3. conflictFree => q.seen # w
    BY <1>7
  <2>4. ASSUME q.pc = "idle", q.result = "saved"
        PROVE  /\ q.rev \in DOMAIN att
               /\ \/ att[q.rev].digest = q.digest
                  \/ ~q.inline /\ \E r \in DOMAIN att \ {q.rev} : att[r] = att[q.rev]
    <3>1. /\ q.rev \in DOMAIN pushAtt
          /\ \/ pushAtt[q.rev].digest = q.digest
             \/ ~q.inline /\ \E r \in DOMAIN pushAtt \ {q.rev} : pushAtt[r] = pushAtt[q.rev]
      BY <2>1, <2>4 DEF ResultOK
    <3>2. att[q.rev] = pushAtt[q.rev] /\ q.rev \in DOMAIN att
      BY <1>9, <3>1
    <3>3. CASE pushAtt[q.rev].digest = q.digest
      BY <3>2, <3>3
    <3>4. CASE ~q.inline /\ \E r \in DOMAIN pushAtt \ {q.rev} : pushAtt[r] = pushAtt[q.rev]
      <4>1. PICK r \in DOMAIN pushAtt \ {q.rev} : pushAtt[r] = pushAtt[q.rev]
        BY <3>4
      <4>2. r \in DOMAIN att \ {q.rev} /\ att[r] = att[q.rev]
        BY <1>9, <3>2, <4>1
      <4> QED
        BY <3>2, <3>4, <4>2
    <3> QED
      BY <3>1, <3>3, <3>4
  <2> QED
    BY <2>2, <2>3, <2>4 DEF ResultOK, w
<1> QED
  BY <1>5, <1>8, <1>10 DEF PushOK

(* The revision is saved.                                                  *)
LEMMA SavedStep ==
    ASSUME PushInv, NEW h \in Handlers, handler[h].pc = "saving", Savable(handler[h]),
           ~IsConflict(handler[h]), Finish(h, "saved"), NEW a \in StoredAttachments(handler[h]),
           pushTree' = SavedTree(handler[h]), pushAtt' = SavedAtt(handler[h], a),
           attData' = IF handler[h].inline THEN attData \cup {handler[h].digest} ELSE attData,
           UNCHANGED <<conflictFree, pushUsed>>
    PROVE  PushInv'
<1> DEFINE p == handler[h]
           q == handler'[h]
<1>1. PushTypes /\ AttachmentOK(p, attData) /\ p \in HandlerRecords /\ DOMAIN pushAtt = DOMAIN pushTree
  BY DEF PushInv, PushTypes, PushOK, HandlerOK
<1>2. TreeOK(pushTree') /\ Grown(p, pushTree')
  BY SavedTreeFacts
<1>3. /\ OnlyHandler(h) /\ SamePush(p, q)
      /\ q.pc = "idle" /\ q.inline = p.inline /\ q.result = "saved"
  <2> HIDE DEF q
  <2> QED
    BY <1>1, FinishFacts DEF q
<1>4. DOMAIN pushAtt' = DOMAIN pushTree'
  <2>1. DOMAIN pushAtt' = DOMAIN pushAtt \cup Added(p)
    BY DEF SavedAtt
  <2> QED
    BY <1>1, <1>2, <2>1 DEF Grown
<1>5. p.inline \in BOOLEAN /\ p.digest \in AttDigests \cup {NoDigest}
  BY <1>1, Zenon DEF HandlerRecords
<1>6. attData \subseteq attData' /\ attData' \subseteq AttDigests
      /\ p.digest \in attData' \cup {NoDigest}
  <2>1. attData \subseteq AttDigests
    BY <1>1 DEF PushTypes
  <2>2. CASE p.inline
    <3>1. p.digest \in AttDigests
      BY <1>1, <1>5, <2>2 DEF AttachmentOK
    <3> QED
      BY <2>1, <2>2, <3>1
  <2>3. CASE ~p.inline
    <3>1. p.digest \in attData \cup {NoDigest}
      BY <1>1, <2>3 DEF AttachmentOK
    <3> QED
      BY <2>1, <2>3, <3>1
  <2> QED
    BY <2>2, <2>3
<1>7. PushTypes'
  BY <1>1, <1>2, <1>3, <1>4, <1>6 DEF PushTypes, OnlyHandler
<1>8. a.digest = p.digest \/ (~p.inline /\ \E r \in DOMAIN pushAtt : a = pushAtt[r])
  BY <1>1, StoredFacts
<1>9. /\ p.rev \in Added(p) /\ Added(p) \cap DOMAIN pushAtt = {}
      /\ DOMAIN pushAtt' = DOMAIN pushAtt \cup Added(p)
  BY <1>1, <1>2, <1>4 DEF Grown
<1>10. /\ \A r \in DOMAIN pushAtt : pushAtt'[r] = pushAtt[r]
       /\ pushAtt'[p.rev] = a
       /\ \A r \in Added(p) \ {p.rev} : pushAtt'[r] = NoAtt
  BY <1>9 DEF SavedAtt
<1>11. \A r \in DOMAIN pushAtt : pushAtt[r].digest \in attData \cup {NoDigest}
  BY DEF PushInv, AttachmentsStored
<1>12. a.digest \in attData' \cup {NoDigest}
  BY <1>6, <1>8, <1>11
<1>13. AttachmentsStored'
  <2>1. ASSUME NEW r \in DOMAIN pushAtt' PROVE pushAtt'[r].digest \in attData' \cup {NoDigest}
    <3>1. CASE r \in DOMAIN pushAtt
      BY <1>6, <1>10, <1>11, <3>1
    <3>2. CASE r = p.rev
      BY <1>10, <1>12, <3>2
    <3>3. CASE r \in Added(p) \ {p.rev}
      BY <1>10, <3>3 DEF NoAtt
    <3> QED
      BY <1>9, <3>1, <3>2, <3>3
  <2> QED
    BY <2>1 DEF AttachmentsStored
<1>14. OneBranch(conflictFree', pushTree')
  <2> SUFFICES ASSUME conflictFree PROVE \A x, y \in LiveLeaves(pushTree') : x = y
    BY DEF OneBranch
  <2>1. LiveLeaves(pushTree) \subseteq {KnownAncestor(p)}
    BY SavedOnCurrent
  <2>2. LiveLeaves(pushTree') \subseteq Leaves(pushTree')
    BY DEF LiveLeaves
  <2>3. LiveLeaves(pushTree') \subseteq {p.rev}
    BY <1>2, <2>1, <2>2 DEF Grown
  <2> QED
    BY <2>3
<1>15. ASSUME NEW g \in Handlers
       PROVE  PushOK(handler[g], conflictFree', pushTree', pushAtt', attData')
  <2>1. PushOK(handler[g], conflictFree, SavedTree(p), SavedAtt(p, a), attData')
    BY <1>6, OthersKept
  <2> QED
    BY <2>1
<1>16. PushOK(q, conflictFree', pushTree', pushAtt', attData')
  <2>1. /\ q.rev = p.rev /\ q.base = p.base /\ q.digest = p.digest /\ q.seen = p.seen
        /\ q.pc = "idle" /\ q.inline = p.inline /\ q.result = "saved"
    BY <1>3 DEF SamePush
  <2>2. HandlerOK(q, conflictFree', DOMAIN pushTree', attData')
    <3>1. p.inline => p.digest # NoDigest
      BY <1>1 DEF AttachmentOK
    <3> HIDE DEF p, q
    <3> QED
      BY <2>1, <3>1 DEF HandlerOK, AttachmentOK
  <2>3. SeenKept(q, conflictFree', pushTree')
    <3>1. SeenKept(p, conflictFree', pushTree')
      BY <1>15 DEF PushOK
    <3> HIDE DEF p, q
    <3> QED
      BY <2>1, <3>1 DEF SeenKept
  <2>4. p.rev \in DOMAIN pushAtt' /\ p.rev \notin DOMAIN pushAtt
    BY <1>9
  <2>5. \/ pushAtt'[p.rev].digest = p.digest
        \/ ~p.inline /\ \E r \in DOMAIN pushAtt' \ {p.rev} : pushAtt'[r] = pushAtt'[p.rev]
    <3>1. CASE a.digest = p.digest
      BY <1>10, <3>1
    <3>2. CASE ~p.inline /\ \E r \in DOMAIN pushAtt : a = pushAtt[r]
      <4>1. PICK r \in DOMAIN pushAtt : a = pushAtt[r]
        BY <3>2
      <4>2. r \in DOMAIN pushAtt' \ {p.rev} /\ pushAtt'[r] = pushAtt'[p.rev]
        BY <1>9, <1>10, <2>4, <4>1
      <4> QED
        BY <3>2, <4>2
    <3> QED
      BY <1>8, <3>1, <3>2
  <2>6. ResultOK(q, conflictFree', pushTree', pushAtt')
    <3> HIDE DEF p, q
    <3> QED
      BY <2>1, <2>4, <2>5 DEF ResultOK
  <2> QED
    BY <2>2, <2>3, <2>6 DEF PushOK
<1>17. ASSUME NEW g \in Handlers
       PROVE  PushOK(handler'[g], conflictFree', pushTree', pushAtt', attData')
  <2>1. CASE g = h
    BY <1>16, <2>1
  <2>2. CASE g # h
    <3>1. handler'[g] = handler[g]
      BY <1>3, <2>2 DEF OnlyHandler
    <3> QED
      BY <1>15, <3>1
  <2> QED
    BY <2>1, <2>2
<1> QED
  BY <1>7, <1>13, <1>14, <1>17 DEF PushInv

(* The revision exists, is refused as a conflict, or is saved.             *)
LEMMA PutExistingRevStep ==
    ASSUME PushInv, NEW h \in Handlers, PutExistingRev(h)
    PROVE  PushInv'
<1> DEFINE p == handler[h]
<1>1. p.pc = "saving" /\ UNCHANGED <<conflictFree, pushUsed>>
  BY Zenon DEF PutExistingRev
<1>2. PushTypes /\ pushUsed' \in PushCounters
  BY <1>1 DEF PushInv, PushTypes
<1>3. CASE p.rev \in DOMAIN pushTree /\ Finish(h, "exists") /\ UNCHANGED <<pushTree, pushAtt, attData>>
  <2>1. DocUnchanged
    BY <1>1, <1>3 DEF DocUnchanged
  <2>2. handler'[h].result = "exists"
    BY <1>2, <1>3, FinishFacts
  <2>3. ResultOK(handler'[h], conflictFree, pushTree, pushAtt)
    BY <2>2 DEF ResultOK
  <2> QED
    BY <1>2, <1>3, <2>1, <2>3, HandlerEnds
<1>4. CASE /\ p.rev \notin DOMAIN pushTree /\ IsConflict(p)
           /\ Finish(h, "conflict") /\ UNCHANGED <<pushTree, pushAtt, attData>>
  <2> DEFINE q == handler'[h]
  <2>1. DocUnchanged
    BY <1>1, <1>4 DEF DocUnchanged
  <2>2. q.result = "conflict" /\ SamePush(p, q)
    BY <1>2, <1>4, FinishFacts
  <2>3. Savable(p) /\ Based(p.rev, p.base)
    BY <1>1, <1>4, SavingSavable
  <2>4. Coming(p, conflictFree, DOMAIN pushTree)
    BY <1>1 DEF PushInv, PushOK, HandlerOK
  <2>5. p.rev # NoRev /\ p.rev # p.base
    BY <2>3, BasedDiffers DEF Based
  <2>6. conflictFree /\ p.base # NoRev => Refused(p, CurrentRev)
    BY <1>4, <2>3, <2>4, ConflictJustified
  <2>7. ResultOK(q, conflictFree, pushTree, pushAtt)
    <3>1. q.rev = p.rev /\ q.base = p.base /\ q.seen = p.seen
      BY <2>2 DEF SamePush
    <3> HIDE DEF p, q
    <3> QED
      BY <2>2, <2>5, <2>6, <3>1 DEF ResultOK, Refused, CurrentRev
  <2> QED
    BY <1>2, <1>4, <2>1, <2>7, HandlerEnds
<1>5. CASE /\ p.rev \notin DOMAIN pushTree /\ ~IsConflict(p) /\ Finish(h, "saved")
           /\ pushTree' = SavedTree(p) /\ \E a \in StoredAttachments(p) : pushAtt' = SavedAtt(p, a)
           /\ attData' = IF p.inline THEN attData \cup {p.digest} ELSE attData
  <2>1. PICK a \in StoredAttachments(p) : pushAtt' = SavedAtt(p, a)
    BY <1>5
  <2>2. Savable(p)
    BY <1>1, <1>5, SavingSavable
  <2> QED
    BY <1>1, <1>5, <2>1, <2>2, SavedStep
<1> QED
  BY <1>3, <1>4, <1>5, Zenon DEF PutExistingRev, SavedTree, SavedAtt, Added, ParentAdded

(* Every step keeps the invariant.                                         *)
LEMMA PushNext_Inv ==
    ASSUME PushInv, [PushNext]_pushVars
    PROVE  PushInv'
<1>1. CASE UNCHANGED pushVars
  <2>1. /\ conflictFree' = conflictFree /\ pushTree' = pushTree /\ pushAtt' = pushAtt
        /\ attData' = attData /\ handler' = handler /\ pushUsed' = pushUsed
    BY <1>1 DEF pushVars
  <2>2. PushTypes' /\ AttachmentsStored' /\ OneBranch(conflictFree', pushTree')
    BY <2>1 DEF PushInv, PushTypes, AttachmentsStored
  <2>3. \A h \in Handlers : PushOK(handler'[h], conflictFree', pushTree', pushAtt', attData')
    BY <2>1 DEF PushInv
  <2> QED
    BY <2>2, <2>3 DEF PushInv
<1>2. CASE PushNext
  <2>1. PICK h \in Handlers :
          \/ \E deleted \in BOOLEAN, digest \in AttDigests \cup {NoDigest} :
                \/ \E r \in DOMAIN pushTree \cup {NoRev} : NewPush(h, r, r, deleted, digest)
                \/ \E g \in Handlers \ {h} :
                      /\ handler[g].pc # "idle"
                      /\ NewPush(h, handler[g].rev, handler[g].base, deleted, digest)
          \/ \E g \in Handlers \ {h} : PushAgain(h, g)
          \/ (\E noConflicts \in BOOLEAN : HandleRev(h, noConflicts)) \/ LookUpAttachment(h) \/ ProofReceived(h) \/ DataReceived(h)
          \/ AttachmentFails(h) \/ PutExistingRev(h)
    BY <1>2, Zenon DEF PushNext
  <2>2. ASSUME NEW deleted \in BOOLEAN, NEW digest \in AttDigests \cup {NoDigest},
               NEW r \in DOMAIN pushTree \cup {NoRev}, NewPush(h, r, r, deleted, digest)
        PROVE  PushInv'
    <3>1. r \in RevIds
      BY EmptySeq DEF PushInv, PushTypes, TreeOK, NoRev, RevIds
    <3>2. Len(r) \in 0..Len(r)
      BY <3>1, LenProperties DEF RevIds
    <3>3. r = Prefix(r, Len(r))
      BY <3>1, <3>2, PrefixOf
    <3> QED
      BY <2>2, <3>1, <3>2, <3>3, NewPushStep
  <2>3. ASSUME NEW deleted \in BOOLEAN, NEW digest \in AttDigests \cup {NoDigest},
               NEW g \in Handlers, handler[g].pc # "idle",
               NewPush(h, handler[g].rev, handler[g].base, deleted, digest)
        PROVE  PushInv'
    <3>1. handler[g].rev \in RevIds
      BY DEF PushInv, PushTypes, HandlerRecords
    <3>2. Coming(handler[g], conflictFree, DOMAIN pushTree)
      BY <2>3 DEF PushInv, PushOK, HandlerOK
    <3>3. PICK b \in 0..(Len(handler[g].rev) - 1) : handler[g].base = Prefix(handler[g].rev, b)
      BY <3>2 DEF Coming
    <3>4. b \in 0..Len(handler[g].rev)
      BY <3>1, LenProperties DEF RevIds
    <3>5. handler[g].base \in DOMAIN pushTree \cup {NoRev}
      BY <3>2 DEF Coming
    <3> QED
      BY <2>3, <3>1, <3>3, <3>4, <3>5, NewPushStep
  <2> QED
    BY <2>1, <2>2, <2>3, PushAgainStep, HandleRevStep, LookUpStep, ProofStep, DataStep,
       AttachmentFailsStep, PutExistingRevStep, Zenon
<1> QED
  BY <1>1, <1>2

(* However the handlers of several pushes interleave, lose their           *)
(* connections and push again (rest/blip_sync.go handleRev and             *)
(* db/crud.go PutExistingRev): every saved revision's attachment is in the *)
(* bucket, a database without conflicts keeps one branch that is not       *)
(* deleted, a proposal is refused only for what is current, and a revision *)
(* has the attachment that was pushed or one that was there.               *)
THEOREM PushesAreSafe == PushSpec => []PushSafe
<1>1. PushInit => PushInv
  BY PushInit_Inv
<1>2. PushInv /\ [PushNext]_pushVars => PushInv'
  BY PushNext_Inv
<1>3. PushInv => PushSafe
  BY PushInvSafe
<1> QED
  BY <1>1, <1>2, <1>3, PTL DEF PushSpec

=============================================================================
