------------------------------- MODULE Blip -------------------------------
(***************************************************************************)
(* A pull over one BLIP connection (rest/blip_sync.go): the client         *)
(* subscribes with "subChanges", a goroutine turns the changes feed into   *)
(* batches of "changes" messages, one goroutine per batch awaits the       *)
(* client's answer and sends every wanted revision as "rev" or "norev",    *)
(* and the attachments of a revision may be downloaded while it is sent.   *)
(*                                                                         *)
(* Revisions of a document form one chain 1 .. n: conflicting branches are *)
(* never sent on this connection.  The edition modelled has no deltas.     *)
(* What the client does is external: it answers batches in the order they  *)
(* were sent, takes revisions in any order, and resumes from the sequence  *)
(* below which everything announced to it has been settled.                *)
(***************************************************************************)
EXTENDS Integers, Sequences, FiniteSets, FiniteSetsExt, Functions

CONSTANTS
    Docs,           \* documents
    Existing,       \* the documents that exist when the model starts
    Filtered,       \* the documents in the channel a filtered subscription names
    Digests,        \* attachment digests
    Attachments,    \* [Docs -> [1..MaxRev -> SUBSET Digests]]
    MaxRev,         \* revisions per document
    MaxSeq,         \* changes in the database
    BatchSize,      \* batch property of subChanges
    MaxHistories,   \* maxHistory values a client answers with; 0 is unlimited
    Requests,       \* what a client may ask subChanges for
    MaxSubs,        \* subscriptions a client requests
    MaxFaults       \* connections lost, feeds failed, revisions refused or not read

ASSUME BlipAssumption ==
    /\ Docs # {} /\ Filtered \cup Existing \subseteq Docs
    /\ IsFiniteSet(Existing) /\ Cardinality(Existing) <= MaxSeq
    /\ Attachments \in [Docs -> [1..MaxRev -> SUBSET Digests]]
    /\ {MaxRev, MaxSeq, BatchSize} \subseteq Nat \ {0}
    /\ {MaxSubs, MaxFaults} \cup MaxHistories \subseteq Nat
    /\ Requests \subseteq [continuous : BOOLEAN, filter : {"none", "bychannel", "invalid"}]

VARIABLES
    current,            \* [Docs -> 0..MaxRev], current revision in the database
    seqOf,              \* [Docs -> 0..MaxSeq], sequence of the document's last change
    context,            \* blipSyncContext: activeSubChanges and channels
    feed,               \* the goroutine that runs sendChanges
    changes,            \* "changes" messages on their way to the client, in order
    responders,         \* goroutines of handleChangesResponse
    revs,               \* "rev" and "norev" messages on their way to the client
    removers,           \* goroutines that await the reply to a rev with attachments
    allowedAttachments, \* [Digests -> Nat]
    client,             \* what the client has, expects and has been told
    used                \* how often each bounded event has happened

vars == <<current, seqOf, context, feed, changes, responders, revs, removers,
          allowedAttachments, client, used>>

server == <<context, feed, responders, removers, allowedAttachments>>

----------------------------------------------------------------------------
Seqs == 1..MaxSeq
Revs == 1..MaxRev
Rows == [seq : Seqs, doc : Docs, rev : Revs]

\* A batch of changes is in the order of their sequences.
NextRow(rows) == CHOOSE x \in rows : \A y \in rows : x.seq <= y.seq

\* A connection before its first subscription.  stuck and inherited are
\* history variables: the flag is set although nothing runs, and a
\* subscription took over the channels of an earlier one.
NewContext == [active |-> FALSE, channels |-> Docs, stuck |-> FALSE, inherited |-> FALSE]

\* No goroutine runs sendChanges.
NoFeed == [on |-> FALSE, sub |-> 0, continuous |-> FALSE, filtered |-> FALSE, since |-> 0,
           caughtUp |-> FALSE, pending |-> {}, goal |-> 0, failed |-> FALSE]

\* A client that has some revisions: refused are the ones it answered with an
\* error, seen the last sequence announced to it, waiting the rows it asked for
\* and told the last subscription it was told to be caught up with.  misled and
\* denied are history variables: it took changes of some channels for changes of
\* all, and it got a norev for revisions that were current.
NewClient(revisions, seq) ==
    [has |-> revisions, refused |-> [d \in Docs |-> {}],
     denied |-> [d \in Docs |-> {}], seen |-> seq, waiting |-> {}, told |-> 0, misled |-> FALSE]

Checkpoint(c) ==
    Min({c.seen} \cup {r.seq - 1 : r \in c.waiting})

Init ==
    /\ current = [d \in Docs |-> IF d \in Existing THEN 1 ELSE 0]
    /\ \E order \in Injection(Existing, 1..Cardinality(Existing)) :
          seqOf = [d \in Docs |-> IF d \in Existing THEN order[d] ELSE 0]
    /\ context = NewContext
    /\ feed = NoFeed
    /\ changes = <<>>
    /\ responders = {}
    /\ revs = {}
    /\ removers = {}
    /\ allowedAttachments = [x \in Digests |-> 0]
    /\ client \in {NewClient([d \in Docs |-> {}], 0),
                   NewClient([d \in Docs |-> 1..current[d]], Max({seqOf[d] : d \in Docs}))}
    /\ used = [subs |-> 0, batches |-> 0, faults |-> 0]

----------------------------------------------------------------------------
(* The database.                                                           *)

LastSeq == Max({seqOf[d] : d \in Docs})

\* A document gets one new revision, or two pushed at once.
Update(d, n) ==
    /\ LastSeq < MaxSeq
    /\ current[d] + n \in Revs
    /\ current' = [current EXCEPT ![d] = @ + n]
    /\ seqOf' = [seqOf EXCEPT ![d] = LastSeq + 1]
    /\ UNCHANGED <<server, changes, revs, client, used>>

----------------------------------------------------------------------------
(* Subscribing.                                                            *)

\* The channels a subscription reads: those of its own filter, or what the
\* connection has from an earlier filter.
ChannelsOf(rq) == IF rq.filter = "bychannel" THEN Filtered ELSE context.channels

\* Where the client resumes.  A filtered pull has a checkpoint of its own,
\* which is not modelled: it starts at zero.
SinceOf(rq) == IF rq.filter = "none" THEN Checkpoint(client) ELSE 0

\* The goroutine of a subscription starts.  goal is the last change that it
\* has to announce before it is caught up.
Subscribed(rq) ==
    [NoFeed EXCEPT !.on = TRUE, !.sub = used.subs + 1, !.continuous = rq.continuous, !.since = SinceOf(rq),
                   !.filtered = rq.filter = "bychannel", !.goal = LastSeq]

\* The client requests a subscription when it has taken all it was sent.
MayRequest == used.subs < MaxSubs /\ changes = <<>> /\ client.waiting = {}

\* A connection takes one subscription at a time.  "invalid" stands for every
\* parameter that is refused after the subscription was marked as active: an
\* unknown filter, an empty channel list, document IDs of a continuous
\* subscription.  The flag is set before the rest of the
\* request is checked, and a request that fails leaves it set.
HandleSubChanges(rq) ==
    /\ MayRequest
    /\ ~context.active
    /\ used' = [used EXCEPT !.subs = @ + 1]
    /\ \/ /\ rq.filter = "invalid"
          /\ context' = [context EXCEPT !.active = TRUE, !.stuck = TRUE]
          /\ UNCHANGED feed
       \/ /\ rq.filter # "invalid"
          /\ context' = [context EXCEPT !.active = TRUE, !.channels = ChannelsOf(rq),
                            !.inherited = rq.filter = "none" /\ ChannelsOf(rq) # Docs]
          /\ feed' = Subscribed(rq)
    /\ UNCHANGED <<current, seqOf, changes, responders, revs, removers,
                   allowedAttachments, client>>

----------------------------------------------------------------------------
(* Sending changes.                                                        *)

\* The changes the feed has not returned yet, of the channels it reads.
Available == {d \in context.channels : seqOf[d] > feed.since}

NextDoc == CHOOSE d \in Available : \A e \in Available : seqOf[d] <= seqOf[e]

\* A goroutine that awaits the answer to a batch.
NewResponder == [id |-> used.batches, answered |-> FALSE, queue |-> {},
                 known |-> [d \in Docs |-> {}], maxHistory |-> 0, awaiting |-> FALSE]

\* sendBatchOfChanges for a batch, if it has rows, and for the empty one that
\* says the client is caught up.
SendBatches(rows, caughtUp, faults) ==
    LET n == IF rows = {} THEN 0 ELSE 1
        message(r) == [id |-> used.batches, sub |-> feed.sub, filtered |-> feed.filtered,
                       rows |-> r]
    IN /\ changes' = changes \o (IF n = 1 THEN <<message(rows)>> ELSE <<>>)
                             \o (IF caughtUp THEN <<message({})>> ELSE <<>>)
       /\ responders' = responders \cup (IF n = 1 THEN {NewResponder} ELSE {})
       /\ used' = [used EXCEPT !.batches = @ + n, !.faults = @ + faults]

\* The callback adds one change; last says that it is the last one at hand.  A
\* batch goes out when it is full and, once the client has been told that it is
\* caught up, at the end of the callback.
SendChange(last) ==
    /\ feed.on
    /\ Available # {}
    /\ last \/ Cardinality(Available) > 1
    /\ LET d    == NextDoc
           rows == feed.pending \cup {[seq |-> seqOf[d], doc |-> d, rev |-> current[d]]}
           full == Cardinality(rows) >= BatchSize \/ (last /\ feed.caughtUp)
       IN /\ feed' = [feed EXCEPT !.since = seqOf[d], !.pending = IF full THEN {} ELSE rows]
          /\ SendBatches(IF full THEN rows ELSE {}, FALSE, 0)
    /\ UNCHANGED <<current, seqOf, context, revs, removers,
                   allowedAttachments, client>>

\* The feed has nothing more and is about to wait, or a one-shot feed is over:
\* what is pending goes out, then the first time the empty batch.  Only a
\* one-shot subscription ends here.
CaughtUp ==
    /\ feed.on
    /\ Available = {}
    /\ feed.pending # {} \/ ~feed.caughtUp
    /\ SendBatches(feed.pending, ~feed.caughtUp, 0)
    /\ feed' = [feed EXCEPT !.pending = {}, !.caughtUp = TRUE, !.on = feed.continuous]
    /\ context' = [context EXCEPT !.active = feed.continuous]
    /\ UNCHANGED <<current, seqOf, revs, removers, allowedAttachments, client>>

\* The feed ends with an error.  A continuous subscription just stops; a
\* one-shot one sends what is pending and tells the client it is caught up.
FeedFails ==
    /\ feed.on
    /\ used.faults < MaxFaults
    /\ feed' = [feed EXCEPT !.on = FALSE, !.pending = {}, !.failed = TRUE]
    /\ context' = [context EXCEPT !.active = FALSE]
    /\ SendBatches(IF feed.continuous THEN {} ELSE feed.pending,
                   ~feed.continuous /\ ~feed.caughtUp, 1)
    /\ UNCHANGED <<current, seqOf, revs, removers, allowedAttachments, client>>

----------------------------------------------------------------------------
(* The client's answer to a batch.                                         *)

Wanted(rows) == {x \in rows : x.rev \notin client.has[x.doc]}

\* The client answers with the rows it wants and, for each, the revisions of
\* the document that it has.  A responder with nothing to send is done.
ClientChanges(maxHistory) ==
    /\ changes # <<>>
    /\ changes' = Tail(changes)
    /\ LET m == Head(changes)
           seen == IF m.filtered THEN 0 ELSE Max({x.seq : x \in m.rows})
       IN \/ /\ m.rows = {}
             /\ client' = [client EXCEPT !.told = m.sub]
             /\ UNCHANGED responders
          \/ /\ m.rows # {}
             /\ client' = [client EXCEPT !.seen = Max({@, seen}),
                                         !.misled = @ \/ (context.inherited /\ ~m.filtered),
                                         !.waiting = @ \cup Wanted(m.rows)]
             /\ LET r == CHOOSE r \in responders : r.id = m.id
                IN responders' = (responders \ {r}) \cup
                     {q \in {[r EXCEPT !.answered = TRUE, !.queue = Wanted(m.rows),
                                       !.maxHistory = maxHistory, !.known = client.has]} :
                         q.queue # {}}
    /\ UNCHANGED <<current, seqOf, context, feed, revs, removers,
                   allowedAttachments, used>>

----------------------------------------------------------------------------
(* Sending revisions.                                                      *)

\* The responder's next row is dealt with.
Advance(r, known, awaiting) ==
    IF r.queue = {NextRow(r.queue)} /\ ~awaiting
      THEN responders \ {r}
      ELSE (responders \ {r}) \cup
           {[r EXCEPT !.queue = @ \ {NextRow(@)}, !.known[NextRow(r.queue).doc] = known,
                      !.awaiting = awaiting]}

\* The oldest ancestor in the history that is sent: the first one known to the
\* client, or the last that maxHistory has room for.
Oldest(n, known, maxHistory) ==
    LET stop == {a \in 1..(n - 1) : a \in known \/ (maxHistory > 0 /\ n - a >= maxHistory)}
    IN IF stop = {} THEN 1 ELSE Max(stop)

\* The ancestors that the loop marks as known: those it passes without stopping.
Passed(n, known, maxHistory) ==
    LET stop == {a \in 1..(n - 1) : a \in known \/ (maxHistory > 0 /\ n - a >= maxHistory)}
    IN IF stop = {} THEN 1..(n - 1) ELSE (Max(stop) + 1)..(n - 1)

\* Everything that the attachments of a revision make allowed or no longer so.
AddAllowedAttachments(atts) ==
    [x \in Digests |-> allowedAttachments[x] + (IF x \in atts THEN 1 ELSE 0)]

\* As if a digest were forgotten with the first revision that used it.
RemoveAllowedAttachmentsAll(atts) ==
    [x \in Digests |-> IF x \in atts THEN 0 ELSE allowedAttachments[x]]

RemoveAllowedAttachments(atts) ==
    [x \in Digests |-> IF x \in atts /\ allowedAttachments[x] > 0
                         THEN allowedAttachments[x] - 1 ELSE allowedAttachments[x]]

IsAttachmentAllowed(x) == allowedAttachments[x] > 0

\* sendRevision: the history is cut, the attachments become allowed before the
\* message leaves, and the responder blocks until the client replies to a
\* message that asks for a reply.
SendRevision(r) ==
    /\ r.answered /\ r.queue # {} /\ ~r.awaiting
    /\ LET row   == NextRow(r.queue)
           known == r.known[row.doc]
           atts  == Attachments[row.doc][row.rev]
           m     == [id |-> r.id, row |-> row, found |-> TRUE,
                     oldest |-> Oldest(row.rev, known, r.maxHistory),
                     limit |-> r.maxHistory]
       IN /\ revs' = revs \cup {m}
          /\ allowedAttachments' = AddAllowedAttachments(atts)
          /\ removers' = IF atts = {} THEN removers ELSE removers \cup {m}
          /\ responders' = Advance(r, known \cup Passed(row.rev, known, r.maxHistory),
                                   atts # {})
    /\ UNCHANGED <<current, seqOf, context, feed, changes, client, used>>

\* GetRev fails: the revision has been replaced and its body is gone, or the
\* current one could not be read.
SendNoRev(r) ==
    /\ r.answered /\ r.queue # {} /\ ~r.awaiting
    /\ LET row   == NextRow(r.queue)
           error == row.rev = current[row.doc]
       IN /\ error => used.faults < MaxFaults
          /\ used' = [used EXCEPT !.faults = IF error THEN @ + 1 ELSE @]
          /\ revs' = revs \cup {[id |-> r.id, row |-> row, found |-> FALSE,
                                 oldest |-> 0, limit |-> 0]}
          /\ responders' = Advance(r, r.known[row.doc], FALSE)
    /\ UNCHANGED <<current, seqOf, context, feed, changes, removers,
                   allowedAttachments, client>>

\* The client takes a revision and replies, or refuses it with an error.
ClientRev(m, refuse) ==
    /\ m.found
    /\ refuse => used.faults < MaxFaults
    /\ revs' = revs \ {m}
    /\ LET n == m.row.rev
           got == IF n = 1 THEN {1} ELSE m.oldest..n
       IN client' = [client EXCEPT
             !.waiting = @ \ {m.row},
             !.has[m.row.doc] = IF refuse THEN @ ELSE @ \cup got,
             !.refused[m.row.doc] = IF refuse THEN @ \cup {n} ELSE @]
    /\ used' = [used EXCEPT !.faults = IF refuse THEN @ + 1 ELSE @]
    /\ UNCHANGED <<current, seqOf, server, changes>>

\* The client stops waiting for a revision that it does not get.
ClientNoRev(m) ==
    /\ ~m.found
    /\ revs' = revs \ {m}
    /\ client' = [client EXCEPT !.waiting = @ \ {m.row},
                                !.denied[m.row.doc] = @ \cup ({m.row.rev}
                                                         \cap {current[m.row.doc]})]
    /\ UNCHANGED <<current, seqOf, server, changes, used>>

\* The reply reaches the goroutine that allowed the attachments ...
RemoveAllowed(m) ==
    /\ m \in removers \ revs
    /\ removers' = removers \ {m}
    /\ allowedAttachments' = RemoveAllowedAttachments(Attachments[m.row.doc][m.row.rev])
    /\ UNCHANGED <<current, seqOf, context, feed, changes, responders, revs,
                   client, used>>


\* ... and, independently, the responder that sent the revision.
ReplyReceived(r) ==
    /\ r.awaiting
    /\ \A m \in revs \cap removers : m.id # r.id
    /\ responders' = IF r.queue = {} THEN responders \ {r}
                     ELSE (responders \ {r}) \cup {[r EXCEPT !.awaiting = FALSE]}
    /\ UNCHANGED <<current, seqOf, context, feed, changes, revs, removers,
                   allowedAttachments, client, used>>

----------------------------------------------------------------------------
(* Losing the connection.                                                  *)

\* Everything that belongs to the connection ends with it; the client keeps its
\* revisions and its checkpoint and connects again.
Reconnect ==
    /\ context.active
    /\ used.faults < MaxFaults
    /\ context' = NewContext
    /\ feed' = NoFeed
    /\ changes' = <<>>
    /\ responders' = {}
    /\ revs' = {}
    /\ removers' = {}
    /\ allowedAttachments' = [x \in Digests |-> 0]
    /\ client' = [client EXCEPT !.seen = Checkpoint(client), !.waiting = {}, !.told = 0]
    /\ used' = [used EXCEPT !.faults = @ + 1, !.batches = 0]
    /\ UNCHANGED <<current, seqOf>>

Next ==
    \/ \E d \in Docs, n \in 1..2 : Update(d, n)
    \/ \E rq \in Requests : HandleSubChanges(rq)
    \/ \E last \in BOOLEAN : SendChange(last)
    \/ CaughtUp \/ FeedFails
    \/ \E n \in MaxHistories : ClientChanges(n)
    \/ \E r \in responders : SendRevision(r) \/ SendNoRev(r) \/ ReplyReceived(r)
    \/ \E m \in revs : ClientNoRev(m) \/ \E refuse \in BOOLEAN : ClientRev(m, refuse)
    \/ \E m \in removers : RemoveAllowed(m)
    \/ Reconnect

\* The goroutines of the gateway run, and the client answers what it is sent.
Fairness ==
    /\ WF_vars(\E last \in BOOLEAN : SendChange(last))
    /\ WF_vars(CaughtUp)
    /\ WF_vars(\E n \in MaxHistories : ClientChanges(n))
    /\ WF_vars(\E r \in responders : SendRevision(r) \/ SendNoRev(r) \/ ReplyReceived(r))
    /\ WF_vars(\E m \in revs : ClientNoRev(m) \/ ClientRev(m, FALSE))
    /\ WF_vars(\E m \in removers : RemoveAllowed(m))

Spec == Init /\ [][Next]_vars /\ Fairness

----------------------------------------------------------------------------
(* Properties.                                                             *)

\* Every variable holds a value of its kind: rows and messages name changes of
\* the database and no attachment counter is negative.
TypeOK ==
    /\ current \in [Docs -> 0..MaxRev] /\ seqOf \in [Docs -> 0..MaxSeq]
    /\ context.active \in BOOLEAN /\ context.channels \in {Docs, Filtered}
    /\ feed.pending \subseteq Rows
    /\ \A i \in DOMAIN changes : changes[i].rows \subseteq Rows
    /\ \A r \in responders : r.queue \subseteq Rows
    /\ \A m \in revs \cup removers : m.row \in Rows
    /\ allowedAttachments \in [Digests -> Nat]
    /\ client.waiting \subseteq Rows /\ client.seen \in 0..MaxSeq

SettledRevs(c, d) == c.has[d] \cup c.refused[d] \cup c.denied[d]

\* A client that resumes from its checkpoint misses nothing: every change up to
\* it is the client's, or was refused by it.  The exceptions are a revision that
\* is still current but was answered with norev, after which the client neither
\* waits for it nor is told of it again, and a subscription without a filter that
\* silently read the channels of an earlier one.
CheckpointSafe ==
    \A d \in Docs :
        seqOf[d] \in 1..Checkpoint(client) =>
            \/ current[d] \in SettledRevs(client, d)
            \/ client.misled

\* Every revision the client waits for is still on its way: some goroutine of
\* handleChangesResponse has it in its queue, or a rev or norev message does.
NothingForgotten ==
    \A row \in client.waiting :
        \/ \E r \in responders : row \in r.queue
        \/ \E m \in revs : m.row = row

\* The empty batch is the truth: everything that had changed when the
\* subscription began has been announced, unless the feed failed or read the
\* channels of an earlier subscription.
CaughtUpComplete ==
    feed.sub > 0 /\ client.told = feed.sub /\ ~feed.filtered =>
        \/ \A d \in Docs : seqOf[d] <= feed.goal => seqOf[d] <= client.seen
        \/ feed.failed \/ context.inherited

\* A client may download an attachment as long as it has not replied to the
\* revision that needs it, and the attachment is no longer allowed when every
\* reply has been taken.
AllowedWhilePulling ==
    /\ \A m \in revs \cap removers : \A x \in Attachments[m.row.doc][m.row.rev] :
          IsAttachmentAllowed(x)
    /\ \A x \in Digests : IsAttachmentAllowed(x) =>
          \E m \in removers : x \in Attachments[m.row.doc][m.row.rev]

\* The history of every revision on its way reaches a revision that the client
\* has, the first one, or one that is in the history of another message on its
\* way, unless the client asked for a shorter history or refused a revision of
\* the document.
HistoryConnects ==
    \A m \in revs : m.found =>
        \/ m.oldest = 1 \/ m.limit > 0 \/ client.refused[m.row.doc] # {}
        \/ (m.oldest..m.row.rev) \cap client.has[m.row.doc] # {}
        \/ \E k \in revs \ {m} : /\ k.found /\ k.row.doc = m.row.doc
                                 /\ m.oldest \in k.oldest..k.row.rev

\* The flag that keeps a second subscription out is set exactly while one runs,
\* or for good after a request that was refused too late.
OneSubscription ==
    /\ feed.on => context.active
    /\ context.active => feed.on \/ context.stuck

\* What a replication that pulls relies on, whatever is lost or answered late:
\* its checkpoint is safe, and the messages on their way and the state of the
\* context account for what it waits for.
PullSafe ==
    /\ TypeOK /\ OneSubscription /\ CheckpointSafe /\ NothingForgotten
    /\ CaughtUpComplete /\ AllowedWhilePulling /\ HistoryConnects

\* A subscription that stays open and reads every channel brings the client up
\* to date, but for the revisions it refused or could not be given.
FullFeed == feed.on /\ feed.continuous /\ context.channels = Docs

UpToDate ==
    \A d \in Docs : current[d] \in {0} \cup SettledRevs(client, d)

PullConverges == <>[]FullFeed => <>[]UpToDate

============================================================================
