---------------------------- MODULE ImportProofs ----------------------------
(***************************************************************************)
(* Proofs about the import of documents written by the SDK, for any number *)
(* of clients, writes, requests and faults, any contents, filter and       *)
(* sync function.                                                          *)
(***************************************************************************)
EXTENDS Import, SequenceTheorems, TLAPS

Revs == [c : Says, v : 0..MaxSdkOps]
Xattrs == [cas : Nat, crc : Says, revs : Seq(Revs)]
Versions == [cas : Nat, body : Bodies, xattr : Xattrs]
ProcessRecords ==
    [pc : {"idle", "import", "put", "purge", "remove"}, snap : Versions, imported : Versions,
     isDelete : BOOLEAN, match : Seq(Says), c : Says, get : BOOLEAN]

ImportTyped ==
    /\ doc \in Versions /\ clock \in Nat /\ feed \in Seq(Versions)
    /\ process \in [Processes -> ProcessRecords]
    /\ sdkOps \in 0..MaxSdkOps /\ exposed \subseteq 0..MaxSdkOps /\ dropped \in 0..clock

(* The bucket has not given out later CAS values than its clock shows.     *)
Past(d, now) == d.cas <= now /\ d.xattr.cas <= now

Distinct(revs) ==
    \A i, j \in DOMAIN revs : revs[i].v # 0 /\ revs[i].v = revs[j].v => i = j

(* The document d after n writes of the SDK: a body of the SDK that a      *)
(* revision says carries the stamp of the write that made the revision.    *)
DocSound(d, n, now) ==
    /\ Past(d, now) /\ d.xattr.cas <= d.cas
    /\ d.cas = 0 => d = Gone
    /\ d.body.v # 0 => d.body.present /\ d.body.c # Deletion
    /\ d.body.v <= n
    /\ \A i \in DOMAIN d.xattr.revs : d.xattr.revs[i].v <= n
    /\ Distinct(d.xattr.revs)
    /\ \A i \in DOMAIN d.xattr.revs :
          d.body.v # 0 /\ d.xattr.revs[i].v = d.body.v => d.cas = d.xattr.cas

(* A mutation with the document's CAS is the document.                     *)
EntrySound(e, d, now) == Past(e, now) /\ e.cas >= 1 /\ (e.cas = d.cas => e = d)

(* What an update that would pass the CAS check was decided on.            *)
DecidedOn(q, d) ==
    \/ q.snap = d /\ (IsSGWrite(d) \/ q.c = Deletion)
    \/ /\ q.snap = [d EXCEPT !.xattr = NoXattr]
       /\ ~IsSGWrite(d) /\ d.body.c \in Filtered

(* A version with the document's CAS which a process holds is the document.*)
HoldsSound(p, q, d, now) ==
    /\ Past(q.snap, now) /\ Past(q.imported, now)
    /\ q.pc = "idle" => q = Idle
    /\ q.pc = "import" => q.imported.cas >= 1 /\ (q.imported.cas = d.cas => q.imported = d)
    /\ q.pc = "import" /\ p # "feed" /\ ~q.get =>
          /\ q.isDelete <=> q.c = Deletion
          /\ q.snap.cas >= 1 /\ ~IsSGWrite(q.snap)
          /\ q.snap.cas = d.cas => q.snap = d /\ q.imported = d
    /\ q.pc = "put" =>
          /\ ~q.get
          /\ q.snap.cas = 0 => q.snap = Gone
          /\ q.snap.cas = d.cas => DecidedOn(q, d)

ImportInv ==
    /\ ImportTyped
    /\ DocSound(doc, sdkOps, clock)
    /\ \A i \in DOMAIN feed : EntrySound(feed[i], doc, clock)
    /\ \A p \in Processes : HoldsSound(p, process[p], doc, clock)

-----------------------------------------------------------------------------

(* What a document that is not there, and an idle process, are.            *)
LEMMA GoneFacts ==
    /\ NoBody \in Bodies /\ NoXattr \in Xattrs /\ Gone \in Versions /\ Idle \in ProcessRecords
    /\ Gone.cas = 0 /\ Gone.body = NoBody /\ Gone.xattr = NoXattr
    /\ NoXattr.cas = 0 /\ NoXattr.revs = <<>> /\ NoBody.v = 0 /\ NoBody.c = Deletion /\ ~NoBody.present
    /\ IsSGWrite(Gone)
<1>1. 0 \in 0..MaxSdkOps /\ Deletion \in Says /\ 0 \in Nat BY ImportAssumption DEF Says
<1>2. <<>> \in Seq(Revs) /\ <<>> \in Seq(Says) OBVIOUS
<1>3. NoBody \in Bodies /\ NoXattr \in Xattrs
    BY <1>1, <1>2 DEF NoBody, Bodies, NoXattr, Xattrs, Says, Deletion
<1>4. Gone \in Versions BY <1>1, <1>3 DEF Gone, Versions
<1>5. Idle \in ProcessRecords BY <1>1, <1>2, <1>4 DEF Idle, ProcessRecords, Says, Deletion
<1> QED BY <1>3, <1>4, <1>5 DEF Gone, NoBody, NoXattr, IsSGWrite

(* A document that is not there satisfies the invariant.                   *)
LEMMA GoneSound ==
    ASSUME NEW n \in Nat, NEW now \in Nat
    PROVE  DocSound(Gone, n, now)
BY GoneFacts DEF DocSound, Past, Distinct

(* An idle process holds nothing.                                          *)
LEMMA IdleSound ==
    ASSUME NEW p, NEW d, NEW now \in Nat
    PROVE  HoldsSound(p, Idle, d, now)
BY GoneFacts DEF HoldsSound, Idle, Past

(* A mutation makes stale what mutations and processes hold.               *)
LEMMA HeldStale ==
    ASSUME NEW p, NEW q \in ProcessRecords, NEW d \in Versions, NEW e \in Versions, NEW now \in Nat,
           HoldsSound(p, q, d, now), e.cas = now + 1 \/ e = Gone
    PROVE  HoldsSound(p, q, e, now + 1)
<1>1. /\ q.snap.cas \in Nat /\ q.snap.xattr.cas \in Nat /\ q.imported.cas \in Nat
      /\ q.imported.xattr.cas \in Nat
    BY DEF ProcessRecords, Versions, Xattrs
<1>2. Past(q.snap, now + 1) /\ Past(q.imported, now + 1) BY <1>1 DEF HoldsSound, Past
<1>3. q.snap.cas <= now /\ q.imported.cas <= now BY DEF HoldsSound, Past
<1>4. e.cas = now + 1 \/ e.cas = 0 BY GoneFacts
<1>5. q.snap.cas = e.cas => q.snap.cas = 0 /\ e = Gone BY <1>1, <1>3, <1>4
<1>6. q.imported.cas = e.cas => q.imported.cas = 0 BY <1>1, <1>3, <1>4
<1>7. q.pc = "put" /\ q.snap.cas = e.cas => DecidedOn(q, e) BY <1>5, GoneFacts DEF HoldsSound, DecidedOn
<1> QED BY <1>1, <1>2, <1>5, <1>6, <1>7 DEF HoldsSound

(* The next mutation makes stale the mutations already sent.               *)
LEMMA EntryStale ==
    ASSUME NEW f \in Versions, NEW d \in Versions, NEW e \in Versions, NEW now \in Nat,
           EntrySound(f, d, now), e.cas = now + 1 \/ e = Gone
    PROVE  EntrySound(f, e, now + 1)
<1>1. f.cas \in Nat /\ f.xattr.cas \in Nat BY DEF Versions, Xattrs
<1> QED BY <1>1, GoneFacts DEF EntrySound, Past

-----------------------------------------------------------------------------
(* A step that mutates the document, and process p if any.                 *)
LEMMA MutationStep ==
    ASSUME ImportInv, NEW body \in Bodies, NEW xattr \in Xattrs, Mutated(body, xattr),
           DocSound([cas |-> clock + 1, body |-> body, xattr |-> xattr], sdkOps', clock + 1),
           sdkOps' \in 0..MaxSdkOps, exposed' \subseteq 0..MaxSdkOps, dropped' = dropped,
           NEW p \in Processes, NEW r \in ProcessRecords, process' = [process EXCEPT ![p] = r],
           \/ r = Idle \/ r = process[p]
           \/ r.pc = "put" /\ ~r.get /\ r.snap.cas >= 1 /\ Past(r.snap, clock) /\ Past(r.imported, clock)
    PROVE  ImportInv'
<1> DEFINE d == [cas |-> clock + 1, body |-> body, xattr |-> xattr]
<1>1. /\ doc \in Versions /\ clock \in Nat /\ feed \in Seq(Versions)
      /\ process \in [Processes -> ProcessRecords] /\ sdkOps' \in Nat
    BY ImportAssumption DEF ImportInv, ImportTyped
<1>2. d \in Versions /\ d.cas = clock + 1 BY <1>1 DEF Versions
<1>3. doc' = d \/ doc' = Gone BY DEF Mutated
<1>4. clock' = clock + 1 /\ feed' = Append(feed, d) BY DEF Mutated
<1> HIDE DEF d
<1>5. doc' \in Versions /\ (doc'.cas = clock + 1 \/ doc' = Gone) BY <1>2, <1>3, GoneFacts
<1>6. DocSound(doc', sdkOps', clock')
    <2>1. DocSound(d, sdkOps', clock + 1) BY DEF d
    <2>2. DocSound(Gone, sdkOps', clock + 1) BY <1>1, GoneSound
    <2> QED BY <1>3, <1>4, <2>1, <2>2
<1>7. feed' \in Seq(Versions) /\ \A i \in DOMAIN feed' : EntrySound(feed'[i], doc', clock')
    <2>1. /\ feed' \in Seq(Versions) /\ Len(feed') = Len(feed) + 1 /\ feed'[Len(feed) + 1] = d
          /\ \A i \in 1..Len(feed) : feed'[i] = feed[i]
        BY <1>1, <1>2, <1>4, AppendProperties
    <2>2. DOMAIN feed' = 1..(Len(feed) + 1) /\ DOMAIN feed = 1..Len(feed) /\ Len(feed) \in Nat
        BY <1>1, <2>1, LenProperties
    <2>3. \A i \in 1..Len(feed) : feed[i] \in Versions /\ EntrySound(feed[i], doc, clock)
        BY <1>1, <2>2, ElementOfSeq DEF ImportInv
    <2>4. \A i \in 1..Len(feed) : EntrySound(feed'[i], doc', clock')
        BY <1>1, <1>4, <1>5, <2>1, <2>3, EntryStale
    <2>5. EntrySound(d, doc', clock')
        <3>1. DocSound(d, sdkOps', clock + 1) BY DEF d
        <3> QED BY <1>1, <1>2, <1>3, <1>4, <3>1, GoneFacts DEF EntrySound, DocSound
    <2> QED BY <2>1, <2>2, <2>4, <2>5
<1>8. process' \in [Processes -> ProcessRecords] BY <1>1
<1>9. \A o \in Processes : HoldsSound(o, process'[o], doc', clock')
    <2> TAKE o \in Processes
    <2>1. CASE o # p
        <3>1. process'[o] = process[o] /\ process[o] \in ProcessRecords BY <1>1, <2>1
        <3>2. HoldsSound(o, process[o], doc, clock) BY DEF ImportInv
        <3> QED BY <1>1, <1>4, <1>5, <3>1, <3>2, HeldStale
    <2>2. CASE o = p
        <3>1. process'[o] = r BY <1>1, <2>2
        <3>2. HoldsSound(p, Idle, doc', clock + 1) BY <1>1, IdleSound
        <3>3. r = process[p] => HoldsSound(p, r, doc', clock + 1)
            <4>1. HoldsSound(p, process[p], doc, clock) BY DEF ImportInv
            <4> QED BY <1>1, <1>5, <4>1, HeldStale
        <3>4. r.pc = "put" /\ ~r.get /\ r.snap.cas >= 1 /\ Past(r.snap, clock) /\ Past(r.imported, clock)
              => HoldsSound(p, r, doc', clock + 1)
            <4>1. /\ r.snap.cas \in Nat /\ r.snap.xattr.cas \in Nat /\ r.imported.cas \in Nat
                  /\ r.imported.xattr.cas \in Nat
                BY DEF ProcessRecords, Versions, Xattrs
            <4> QED BY SMTT(30), <1>1, <1>5, <4>1, GoneFacts DEF HoldsSound, Past
        <3> QED BY <1>4, <2>2, <3>1, <3>2, <3>3, <3>4
    <2> QED BY <2>1, <2>2
<1>10. clock' \in Nat BY <1>1, <1>4
<1>11. ImportTyped' BY <1>1, <1>4, <1>5, <1>7, <1>8, <1>10 DEF ImportTyped, ImportInv
<1> QED BY <1>6, <1>7, <1>9, <1>11 DEF ImportInv

(* A step that leaves the document alone.                                  *)
LEMMA ProcessStep ==
    ASSUME ImportInv, UNCHANGED <<doc, clock, sdkOps, exposed>>, dropped' \in 0..clock,
           feed' \in Seq(Versions), \A i \in DOMAIN feed' : EntrySound(feed'[i], doc, clock),
           process' \in [Processes -> ProcessRecords],
           \A p \in Processes : HoldsSound(p, process'[p], doc, clock)
    PROVE  ImportInv'
BY DEF ImportInv, ImportTyped

(* A step of one process that leaves the document alone preserves the      *)
(* invariant if what the process then holds is sound.                      *)
LEMMA OneProcessStep ==
    ASSUME ImportInv, UNCHANGED <<doc, clock, feed, sdkOps, exposed, dropped>>,
           NEW p \in Processes, NEW r \in ProcessRecords, process' = [process EXCEPT ![p] = r],
           HoldsSound(p, r, doc, clock)
    PROVE  ImportInv'
<1>1. process \in [Processes -> ProcessRecords] /\ feed \in Seq(Versions) BY DEF ImportInv, ImportTyped
<1>2. process' \in [Processes -> ProcessRecords]
      /\ \A o \in Processes : process'[o] = IF o = p THEN r ELSE process[o]
    BY <1>1
<1>3. \A o \in Processes : HoldsSound(o, process'[o], doc, clock) BY <1>2 DEF ImportInv
<1>4. feed' \in Seq(Versions) /\ \A i \in DOMAIN feed' : EntrySound(feed'[i], doc, clock)
    BY <1>1 DEF ImportInv
<1>5. dropped' \in 0..clock BY DEF ImportInv, ImportTyped
<1> QED BY <1>2, <1>3, <1>4, <1>5, ProcessStep

-----------------------------------------------------------------------------
(* Writes.                                                                 *)

(* A history with one more revision.                                       *)
LEMMA AppendFacts ==
    ASSUME NEW revs \in Seq(Revs), NEW rev \in Revs
    PROVE  /\ Append(revs, rev) \in Seq(Revs) /\ Last(Append(revs, rev)) = rev
           /\ DOMAIN Append(revs, rev) = DOMAIN revs \cup {Len(revs) + 1} /\ Len(revs) + 1 \notin DOMAIN revs
           /\ Append(revs, rev)[Len(revs) + 1] = rev
           /\ \A i \in DOMAIN revs : Append(revs, rev)[i] = revs[i]
<1> DEFINE s == Append(revs, rev)
<1>1. /\ s \in Seq(Revs) /\ Len(s) = Len(revs) + 1 /\ s[Len(revs) + 1] = rev
      /\ \A i \in 1..Len(revs) : s[i] = revs[i]
    BY AppendProperties
<1>2. DOMAIN s = 1..(Len(revs) + 1) /\ DOMAIN revs = 1..Len(revs) /\ Len(revs) \in Nat
    BY <1>1, LenProperties
<1>3. Last(s) = s[Len(s)] BY DEF Last
<1> HIDE DEF s
<1>4. Last(s) = rev BY <1>1, <1>3
<1>5. DOMAIN s = DOMAIN revs \cup {Len(revs) + 1} /\ Len(revs) + 1 \notin DOMAIN revs BY <1>2
<1> QED BY <1>1, <1>2, <1>4, <1>5 DEF s

(* The parts of a version have their types.                                *)
LEMMA DocTyped ==
    ASSUME NEW d \in Versions
    PROVE  /\ d.cas \in Nat /\ d.body \in Bodies /\ d.xattr \in Xattrs /\ d.xattr.cas \in Nat
           /\ d.xattr.revs \in Seq(Revs) /\ d.body.v \in 0..MaxSdkOps /\ d.body.c \in Says
           /\ d.body.present \in BOOLEAN
           /\ \A i \in DOMAIN d.xattr.revs : d.xattr.revs[i] \in Revs
<1>1. d.cas \in Nat /\ d.body \in Bodies /\ d.xattr \in Xattrs BY DEF Versions
<1>2. d.xattr.cas \in Nat /\ d.xattr.revs \in Seq(Revs) BY <1>1 DEF Xattrs
<1>3. d.body.v \in 0..MaxSdkOps /\ d.body.c \in Says /\ d.body.present \in BOOLEAN
    BY <1>1 DEF Bodies, Says
<1>4. \A i \in DOMAIN d.xattr.revs : d.xattr.revs[i] \in Revs BY <1>2, LenProperties, ElementOfSeq
<1> QED BY <1>1, <1>2, <1>3, <1>4

(* What a write by the gateway stores: the new revision and, but for a     *)
(* deletion, its body.                                                     *)
LEMMA WriteFacts ==
    ASSUME ImportInv, NEW revs \in Seq(Revs), NEW rev \in Revs, NEW snap,
           WriteWithXattr(Append(revs, rev), snap),
           \A i \in DOMAIN revs : revs[i].v <= sdkOps, rev.v <= sdkOps,
           Distinct(revs), \A i \in DOMAIN revs : rev.v # 0 => revs[i].v # rev.v
    PROVE  \E body \in Bodies :
              /\ Mutated(body, Stamped(Append(revs, rev), body)) /\ Stamped(Append(revs, rev), body) \in Xattrs
              /\ DocSound([cas |-> clock + 1, body |-> body, xattr |-> Stamped(Append(revs, rev), body)],
                          sdkOps, clock + 1)
              /\ rev.c # Deletion => body = Body(rev.c, rev.v)
<1> DEFINE new == Append(revs, rev)
           body == IF rev.c # Deletion THEN Body(rev.c, rev.v)
                   ELSE IF HasBody(snap) THEN NoBody
                   ELSE IF snap.cas = 0 /\ ~doc.body.present THEN Body(Deletion, 0)
                   ELSE doc.body
           d == [cas |-> clock + 1, body |-> body, xattr |-> Stamped(new, body)]
<1>1. /\ new \in Seq(Revs) /\ Last(new) = rev /\ DOMAIN new = DOMAIN revs \cup {Len(revs) + 1}
      /\ Len(revs) + 1 \notin DOMAIN revs /\ new[Len(revs) + 1] = rev /\ \A i \in DOMAIN revs : new[i] = revs[i]
    BY AppendFacts
<1>2. rev.c \in Says /\ rev.v \in 0..MaxSdkOps BY DEF Revs
<1>3. clock \in Nat /\ doc \in Versions /\ sdkOps \in Nat BY ImportAssumption DEF ImportInv, ImportTyped
<1>4. /\ doc.body \in Bodies /\ doc.body.v <= sdkOps
      /\ doc.body.v # 0 => doc.body.present /\ doc.body.c # Deletion
    BY <1>3, DocTyped DEF ImportInv, DocSound
<1>5. 0 \in 0..MaxSdkOps BY ImportAssumption
<1>6. body \in Bodies /\ body.v <= sdkOps /\ (body.v # 0 => body.present /\ body.c # Deletion)
    <2>1. CASE rev.c # Deletion
        BY <1>2, <2>1 DEF Body, Bodies, Says
    <2>2. ASSUME rev.c = Deletion PROVE body \in {NoBody, Body(Deletion, 0), doc.body} BY <2>2
    <2>3. Body(Deletion, 0) \in Bodies /\ Body(Deletion, 0).v = 0 BY <1>5 DEF Body, Bodies, Says
    <2>4. CASE rev.c = Deletion
        BY <1>3, <1>4, <2>2, <2>3, <2>4, GoneFacts
    <2> QED BY <2>1, <2>4
<1>7. Mutated(body, Stamped(new, body)) BY <1>1 DEF WriteWithXattr
<1>8. rev.c # Deletion => body = Body(rev.c, rev.v) OBVIOUS
<1> HIDE DEF body, new
<1>9. Stamped(new, body) \in Xattrs /\ Stamped(new, body).cas = clock + 1 /\ Stamped(new, body).revs = new
    <2>1. body.c \in Says BY <1>6 DEF Bodies, Says
    <2> QED BY <1>1, <1>3, <2>1 DEF Stamped, Xattrs
<1>10. Distinct(new)
    BY <1>1, <1>2 DEF Distinct
<1>11. \A i \in DOMAIN new : new[i].v <= sdkOps BY <1>1
<1>12. d.cas = clock + 1 /\ d.body = body /\ d.xattr.cas = clock + 1 /\ d.xattr.revs = new BY <1>9
<1> HIDE DEF d
<1>13. DocSound(d, sdkOps, clock + 1) BY <1>3, <1>6, <1>10, <1>11, <1>12 DEF DocSound, Past
<1> QED BY <1>6, <1>7, <1>8, <1>9, <1>13 DEF d, new

(* A process holds versions of the past.                                   *)
LEMMA ProcessFacts ==
    ASSUME ImportInv, NEW p \in Processes
    PROVE  process[p] \in ProcessRecords /\ HoldsSound(p, process[p], doc, clock)
           /\ process[p].snap \in Versions /\ process[p].imported \in Versions /\ process[p].c \in Says
BY DEF ImportInv, ImportTyped, ProcessRecords

(* An import that writes holds the document, whose body no revision says.  *)
LEMMA ImportWriteFacts ==
    ASSUME ImportInv, NEW p \in Processes, process[p].pc = "import",
           ImportOutcome(process[p]) = "write", doc.cas = process[p].imported.cas
    PROVE  /\ process[p].imported = doc /\ ~IsSGWrite(doc) /\ doc.body.c \notin Filtered
           /\ \A i \in DOMAIN doc.xattr.revs : doc.body.v # 0 => doc.xattr.revs[i].v # doc.body.v
<1>1. process[p].imported = doc BY ProcessFacts DEF HoldsSound
<1>2. ~IsSGWrite(doc) /\ doc.body.c \notin Filtered BY <1>1 DEF ImportOutcome
<1>3. doc.cas # doc.xattr.cas BY <1>2 DEF IsSGWrite
<1> QED BY <1>1, <1>2, <1>3 DEF ImportInv, DocSound

(* Where a process continues after its import, it is idle or holds for its *)
(* update the version it may be decided on.                                *)
LEMMA AfterImportSound ==
    ASSUME ImportInv, NEW p \in Processes, process[p].pc = "import", NEW outcome \in Outcomes,
           outcome # "write" => ImportOutcome(process[p]) = outcome
    PROVE  /\ AfterImport(p, outcome) \in ProcessRecords
           /\ \/ AfterImport(p, outcome) = Idle
              \/ outcome # "write" /\ HoldsSound(p, AfterImport(p, outcome), doc, clock)
              \/ outcome = "write" /\ AfterImport(p, outcome) = [process[p] EXCEPT !.pc = "put"]
                 /\ p # "feed" /\ ~process[p].get
<1> DEFINE q == process[p]
<1>1. /\ q \in ProcessRecords /\ HoldsSound(p, q, doc, clock) /\ q.pc = "import"
      /\ q.snap \in Versions /\ q.imported \in Versions
    BY ProcessFacts
<1>2. doc \in Versions /\ clock \in Nat BY DEF ImportInv, ImportTyped
<1>3. CASE p = "feed" \/ q.get \/ outcome = "failed"
    BY <1>3, GoneFacts DEF AfterImport
<1>4. CASE ~(p = "feed" \/ q.get \/ outcome = "failed") /\ outcome = "filtered"
    <2> DEFINE r == [q EXCEPT !.pc = "put", !.snap.xattr = NoXattr]
               n == [q.snap EXCEPT !.xattr = NoXattr]
    <2>1. AfterImport(p, outcome) = r BY <1>4 DEF AfterImport
    <2>2. n \in Versions /\ n.cas = q.snap.cas /\ n.xattr = NoXattr BY <1>1, GoneFacts DEF Versions
    <2>3. r \in ProcessRecords /\ r.pc = "put" /\ r.snap = n /\ r.imported = q.imported /\ r.c = q.c /\ ~r.get
        BY <1>1, <1>4, <2>2 DEF ProcessRecords
    <2> HIDE DEF r
    <2>4. /\ q.snap.cas >= 1 /\ q.snap.cas <= clock /\ Past(q.imported, clock)
          /\ q.snap.cas = doc.cas => q.snap = doc /\ q.imported = doc
        BY <1>1, <1>4 DEF HoldsSound, Past
    <2>5. ~IsSGWrite(q.imported) /\ q.imported.body.c \in Filtered BY <1>4 DEF ImportOutcome
    <2>6. r.snap.cas = doc.cas => DecidedOn(r, doc) BY <2>2, <2>3, <2>4, <2>5 DEF DecidedOn
    <2>7. Past(n, clock) BY <1>2, <2>2, <2>4, GoneFacts DEF Past
    <2>8. n.cas # 0 BY <1>1, <2>2, <2>4 DEF Versions
    <2>9. HoldsSound(p, r, doc, clock) BY <2>3, <2>4, <2>6, <2>7, <2>8 DEF HoldsSound
    <2> QED BY <1>4, <2>1, <2>3, <2>9
<1>5. CASE ~(p = "feed" \/ q.get \/ outcome = "failed") /\ outcome # "filtered"
    <2> DEFINE r == [q EXCEPT !.pc = "put"]
    <2>1. AfterImport(p, outcome) = r BY <1>5 DEF AfterImport
    <2>2. r \in ProcessRecords /\ r.pc = "put" /\ r.snap = q.snap /\ r.imported = q.imported /\ r.c = q.c /\ ~r.get
        BY <1>1, <1>5 DEF ProcessRecords
    <2>3. CASE outcome = "write" BY <1>5, <2>1, <2>2, <2>3
    <2>4. CASE outcome # "write"
        <3> HIDE DEF r
        <3>1. /\ q.snap.cas >= 1 /\ ~IsSGWrite(q.snap) /\ Past(q.snap, clock) /\ Past(q.imported, clock)
              /\ q.snap.cas = doc.cas => q.snap = doc /\ q.imported = doc
              /\ q.isDelete <=> q.c = Deletion
            BY <1>1, <1>5 DEF HoldsSound
        <3>2. outcome \in {"cancelled", "already"} BY <1>5, <2>4 DEF Outcomes
        <3>3. q.isDelete \/ IsSGWrite(q.imported) BY <2>4, <3>2 DEF ImportOutcome
        <3>4. r.snap.cas = doc.cas => DecidedOn(r, doc) BY <2>2, <3>1, <3>3 DEF DecidedOn
        <3>5. q.snap.cas # 0 BY <1>1, <3>1 DEF Versions
        <3>6. HoldsSound(p, r, doc, clock) BY <2>2, <3>1, <3>4, <3>5 DEF HoldsSound
        <3> QED BY <2>1, <2>2, <2>4, <3>6
    <2> QED BY <2>3, <2>4
<1> QED BY <1>3, <1>4, <1>5

(* A successful import preserves the invariant.                            *)
LEMMA ImportWriteStep ==
    ASSUME ImportInv, NEW p \in Processes, ImportWrite(p)
    PROVE  ImportInv'
<1> DEFINE q == process[p]
           rev == [c |-> ImportContent(q), v |-> IF q.isDelete THEN 0 ELSE q.imported.body.v]
           r == AfterImport(p, "write")
<1>1. /\ q \in ProcessRecords /\ HoldsSound(p, q, doc, clock) /\ q.imported \in Versions
      /\ q.pc = "import" /\ ImportOutcome(q) = "write" /\ doc.cas = q.imported.cas
    BY ProcessFacts DEF ImportWrite
<1>2. /\ q.imported = doc /\ \A i \in DOMAIN doc.xattr.revs : doc.body.v # 0 => doc.xattr.revs[i].v # doc.body.v
    BY <1>1, ImportWriteFacts
<1>3. /\ doc \in Versions /\ clock \in Nat /\ sdkOps \in 0..MaxSdkOps /\ exposed \subseteq 0..MaxSdkOps
      /\ DocSound(doc, sdkOps, clock)
    BY DEF ImportInv, ImportTyped
<1>4. /\ doc.body.v \in 0..MaxSdkOps /\ doc.body.c \in Says /\ doc.xattr.revs \in Seq(Revs)
    BY <1>3, DocTyped
<1>5. 0 \in 0..MaxSdkOps /\ Deletion \in Says /\ Hollow \in Says BY ImportAssumption DEF Says
<1>6. rev \in Revs /\ (rev.v = 0 \/ rev.v = doc.body.v)
    BY <1>2, <1>4, <1>5 DEF Revs, ImportContent
<1>7. WriteWithXattr(Append(doc.xattr.revs, rev), doc) BY DEF ImportWrite
<1>8. /\ exposed' \subseteq 0..MaxSdkOps /\ sdkOps' = sdkOps /\ process' = [process EXCEPT ![p] = r]
    BY <1>3, <1>4 DEF ImportWrite
<1>9. r \in ProcessRecords /\ (r = Idle \/ (r = [q EXCEPT !.pc = "put"] /\ p # "feed" /\ ~q.get))
    BY <1>1, AfterImportSound DEF Outcomes
<1>10. \/ r = Idle
       \/ r.pc = "put" /\ ~r.get /\ r.snap.cas >= 1 /\ Past(r.snap, clock) /\ Past(r.imported, clock)
    BY <1>1, <1>9 DEF HoldsSound, ProcessRecords
<1> HIDE DEF rev, r
<1>11. \A i \in DOMAIN doc.xattr.revs : rev.v # 0 => doc.xattr.revs[i].v # rev.v BY <1>2, <1>6
<1>12. rev.v <= sdkOps /\ (\A i \in DOMAIN doc.xattr.revs : doc.xattr.revs[i].v <= sdkOps) /\ Distinct(doc.xattr.revs)
    BY <1>3, <1>6, ImportAssumption DEF DocSound
<1>13. PICK body \in Bodies :
          /\ Mutated(body, Stamped(Append(doc.xattr.revs, rev), body))
          /\ Stamped(Append(doc.xattr.revs, rev), body) \in Xattrs
          /\ DocSound([cas |-> clock + 1, body |-> body,
                       xattr |-> Stamped(Append(doc.xattr.revs, rev), body)], sdkOps, clock + 1)
    BY <1>4, <1>6, <1>7, <1>11, <1>12, WriteFacts
<1> DEFINE x == Stamped(Append(doc.xattr.revs, rev), body)
<1>14. Mutated(body, x) /\ x \in Xattrs
       /\ DocSound([cas |-> clock + 1, body |-> body, xattr |-> x], sdkOps', clock + 1)
    BY <1>8, <1>13
<1>15. sdkOps' \in 0..MaxSdkOps BY <1>3, <1>8
<1> HIDE DEF x
<1>16. dropped' = dropped BY DEF ImportWrite
<1> QED BY <1>16, <1>8, <1>9, <1>10, <1>14, <1>15, MutationStep

(* An import that writes nothing preserves the invariant.                  *)
LEMMA ImportCancelledStep ==
    ASSUME ImportInv, NEW p \in Processes, ImportCancelled(p)
    PROVE  ImportInv'
<1> DEFINE outcome == ImportOutcome(process[p])
           r == AfterImport(p, outcome)
<1>1. process[p].pc = "import" /\ outcome # "write" /\ outcome \in Outcomes
      /\ process' = [process EXCEPT ![p] = r] /\ UNCHANGED <<doc, clock, feed, sdkOps, exposed, dropped>>
    BY DEF ImportCancelled, ImportOutcome, Outcomes, history
<1>2. clock \in Nat BY DEF ImportInv, ImportTyped
<1>3. r \in ProcessRecords /\ (r = Idle \/ HoldsSound(p, r, doc, clock)) BY <1>1, AfterImportSound
<1>4. HoldsSound(p, r, doc, clock) BY <1>2, <1>3, IdleSound
<1> HIDE DEF r
<1> QED BY <1>1, <1>3, <1>4, OneProcessStep

(* An import that finds another version preserves the invariant.           *)
LEMMA ImportRetryStep ==
    ASSUME ImportInv, NEW p \in Processes, ImportRetry(p)
    PROVE  ImportInv'
<1> DEFINE q == process[p]
           r == IF p = "feed" \/ doc = Gone THEN Idle ELSE [q EXCEPT !.imported = doc]
<1>1. /\ q.pc = "import" /\ doc.cas # q.imported.cas /\ process' = [process EXCEPT ![p] = r]
      /\ UNCHANGED <<doc, clock, feed, sdkOps, exposed, dropped>>
    BY DEF ImportRetry, history
<1>2. /\ q \in ProcessRecords /\ HoldsSound(p, q, doc, clock) /\ q.snap \in Versions
    BY ProcessFacts
<1>3. clock \in Nat /\ doc \in Versions /\ DocSound(doc, sdkOps, clock) BY DEF ImportInv, ImportTyped
<1>4. CASE p = "feed" \/ doc = Gone
    BY <1>1, <1>3, <1>4, GoneFacts, IdleSound, OneProcessStep
<1>5. CASE ~(p = "feed" \/ doc = Gone)
    <2> DEFINE s == [q EXCEPT !.imported = doc]
    <2>1. /\ s \in ProcessRecords /\ s.pc = "import" /\ s.imported = doc /\ s.snap = q.snap
          /\ s.isDelete = q.isDelete /\ s.c = q.c /\ s.get = q.get
        BY <1>1, <1>2, <1>3 DEF ProcessRecords
    <2>2. process' = [process EXCEPT ![p] = s] BY <1>1, <1>5
    <2>3. doc.cas # 0 /\ doc.cas \in Nat BY <1>3, <1>5, GoneFacts, DocTyped DEF DocSound
    <2>4. Past(doc, clock) BY <1>3 DEF DocSound
    <2> HIDE DEF s
    <2>5. q.snap.cas = doc.cas /\ p # "feed" /\ ~q.get => FALSE
        BY <1>1, <1>2 DEF HoldsSound
    <2>6. HoldsSound(p, s, doc, clock) BY <1>1, <1>2, <2>1, <2>3, <2>4, <2>5 DEF HoldsSound
    <2> QED BY <1>1, <2>1, <2>2, <2>6, OneProcessStep
<1> QED BY <1>4, <1>5

(* An import that fails preserves the invariant.                           *)
LEMMA ImportErrorStep ==
    ASSUME ImportInv, NEW p \in Processes, ImportError(p)
    PROVE  ImportInv'
<1>1. /\ process' = [process EXCEPT ![p] = Idle] /\ UNCHANGED <<doc, clock, feed, sdkOps, exposed>>
      /\ dropped' = dropped \/ dropped' = process[p].imported.cas
    BY DEF ImportError
<1>2. /\ process \in [Processes -> ProcessRecords] /\ clock \in Nat /\ dropped \in 0..clock
      /\ feed \in Seq(Versions) /\ \A i \in DOMAIN feed : EntrySound(feed[i], doc, clock)
    BY DEF ImportInv, ImportTyped
<1>3. HoldsSound(p, process[p], doc, clock) /\ process[p].imported \in Versions BY ProcessFacts
<1>4. dropped' \in 0..clock BY <1>1, <1>2, <1>3, DocTyped DEF HoldsSound, Past
<1>5. process' \in [Processes -> ProcessRecords]
      /\ \A o \in Processes : process'[o] = process[o] \/ process'[o] = Idle
    BY <1>1, <1>2, GoneFacts
<1>6. \A o \in Processes : HoldsSound(o, process'[o], doc, clock) BY <1>2, <1>5, IdleSound DEF ImportInv
<1> QED BY <1>1, <1>2, <1>4, <1>5, <1>6, ProcessStep

(* An update that passes its check of the CAS was decided on the history   *)
(* of the document, or on none.                                            *)
LEMMA PutWriteFacts ==
    ASSUME ImportInv, NEW p \in Processes, process[p].pc = "put", CasMatches(process[p])
    PROVE  LET snap == process[p].snap IN
           \/ snap.xattr = doc.xattr \/ snap.xattr = NoXattr
<1>1. HoldsSound(p, process[p], doc, clock) /\ doc \in Versions BY ProcessFacts DEF ImportInv, ImportTyped
<1>2. CASE process[p].snap.cas = doc.cas
    BY <1>1, <1>2 DEF HoldsSound, DecidedOn, Versions
<1>3. CASE process[p].snap.cas = 0 BY <1>1, <1>3, GoneFacts DEF HoldsSound
<1> QED BY <1>2, <1>3 DEF CasMatches, BlindTombstone

(* A successful update preserves the invariant.                            *)
LEMMA PutWriteStep ==
    ASSUME ImportInv, NEW p \in Processes, PutWrite(p)
    PROVE  ImportInv'
<1> DEFINE q == process[p]
           revs == q.snap.xattr.revs
           rev == [c |-> q.c, v |-> 0]
<1>1. /\ q \in ProcessRecords /\ q.c \in Says /\ q.pc = "put" /\ CasMatches(q)
    BY ProcessFacts DEF PutWrite
<1>2. q.snap.xattr = doc.xattr \/ q.snap.xattr = NoXattr BY <1>1, PutWriteFacts
<1>3. /\ doc \in Versions /\ clock \in Nat /\ sdkOps \in 0..MaxSdkOps /\ exposed \subseteq 0..MaxSdkOps
      /\ DocSound(doc, sdkOps, clock)
    BY DEF ImportInv, ImportTyped
<1>4. doc.body.v \in 0..MaxSdkOps /\ doc.xattr.revs \in Seq(Revs) BY <1>3, DocTyped
<1>5. 0 \in 0..MaxSdkOps /\ 0 <= sdkOps BY <1>3, ImportAssumption
<1>6. revs = doc.xattr.revs \/ revs = <<>> BY <1>2, GoneFacts
<1>7. revs \in Seq(Revs) /\ (\A i \in DOMAIN revs : revs[i].v <= sdkOps) /\ Distinct(revs)
    <2> HIDE DEF revs
    <2>1. CASE revs = doc.xattr.revs BY <1>3, <1>4, <2>1 DEF DocSound
    <2>2. CASE revs = <<>>
        <3>1. DOMAIN revs = {} BY <2>2
        <3> QED BY <2>2, <3>1 DEF Distinct
    <2> QED BY <1>6, <2>1, <2>2
<1>8. rev \in Revs /\ rev.v = 0 BY <1>1, <1>5 DEF Revs
<1>9. WriteWithXattr(Append(revs, rev), q.snap) BY DEF PutWrite
<1>10. exposed' \subseteq 0..MaxSdkOps /\ sdkOps' = sdkOps /\ process' = [process EXCEPT ![p] = Idle]
    BY <1>3, <1>4 DEF PutWrite
<1> HIDE DEF rev, revs
<1>11. PICK body \in Bodies :
          /\ Mutated(body, Stamped(Append(revs, rev), body))
          /\ Stamped(Append(revs, rev), body) \in Xattrs
          /\ DocSound([cas |-> clock + 1, body |-> body,
                       xattr |-> Stamped(Append(revs, rev), body)], sdkOps, clock + 1)
    BY <1>5, <1>7, <1>8, <1>9, WriteFacts
<1> DEFINE x == Stamped(Append(revs, rev), body)
<1>12. Mutated(body, x) /\ x \in Xattrs
       /\ DocSound([cas |-> clock + 1, body |-> body, xattr |-> x], sdkOps', clock + 1)
    BY <1>10, <1>11
<1>13. sdkOps' \in 0..MaxSdkOps BY <1>3, <1>10
<1> HIDE DEF x
<1>14. dropped' = dropped BY DEF PutWrite
<1> QED BY <1>14, <1>10, <1>12, <1>13, GoneFacts, MutationStep

(* A write or delete by the SDK preserves the invariant: its version is    *)
(* one that no revision says.                                              *)
LEMMA SdkStep ==
    ASSUME ImportInv, SdkDelete \/ \E c \in Contents : SdkWrite(c)
    PROVE  ImportInv'
<1>1. PICK body \in Bodies : /\ Mutated(body, doc.xattr)
                             /\ body = NoBody \/ (body.v = sdkOps' /\ body.present /\ body.c # Deletion)
    <2>1. CASE SdkDelete BY <2>1, GoneFacts DEF SdkDelete
    <2>2. ASSUME NEW c \in Contents, SdkWrite(c)
          PROVE  \E body \in Bodies : /\ Mutated(body, doc.xattr)
                                      /\ body = NoBody \/ (body.v = sdkOps' /\ body.present /\ body.c # Deletion)
        <3>1. sdkOps' \in 0..MaxSdkOps BY <2>2, ImportAssumption DEF SdkWrite, ImportInv, ImportTyped
        <3> DEFINE body == Body(c, sdkOps')
        <3>2. body \in Bodies /\ body.v = sdkOps' /\ body.present /\ body.c = c BY <3>1 DEF Body, Bodies, Says
        <3>3. Mutated(body, doc.xattr) BY <2>2 DEF SdkWrite
        <3>4. c # Deletion BY ImportAssumption DEF Deletion
        <3> HIDE DEF body
        <3> QED BY <3>2, <3>3, <3>4
    <2> QED BY <2>1, <2>2
<1>2. /\ sdkOps' = sdkOps + 1 /\ sdkOps < MaxSdkOps /\ process' = process /\ exposed' = exposed
    BY DEF SdkDelete, SdkWrite, history
<1>3. /\ doc \in Versions /\ clock \in Nat /\ sdkOps \in 0..MaxSdkOps /\ exposed \subseteq 0..MaxSdkOps
      /\ DocSound(doc, sdkOps, clock) /\ process \in [Processes -> ProcessRecords]
    BY DEF ImportInv, ImportTyped
<1>4. sdkOps' \in 0..MaxSdkOps BY <1>2, <1>3, ImportAssumption
<1> DEFINE d == [cas |-> clock + 1, body |-> body, xattr |-> doc.xattr]
<1>5. d.cas = clock + 1 /\ d.body = body /\ d.xattr = doc.xattr OBVIOUS
<1>6. doc.xattr.cas \in Nat /\ doc.xattr \in Xattrs /\ \A i \in DOMAIN doc.xattr.revs : doc.xattr.revs[i] \in Revs
    BY <1>3, DocTyped
<1> HIDE DEF d
<1>7. DocSound(d, sdkOps', clock + 1)
    <2>1. Past(d, clock + 1) /\ d.xattr.cas <= d.cas /\ d.cas # 0
        BY <1>3, <1>5, <1>6 DEF DocSound, Past
    <2>2. d.body.v # 0 => d.body.present /\ d.body.c # Deletion BY <1>1, <1>5, GoneFacts
    <2>3. d.body.v <= sdkOps' BY <1>1, <1>2, <1>3, <1>5, GoneFacts, ImportAssumption
    <2>4. \A i \in DOMAIN d.xattr.revs : d.xattr.revs[i].v \in Nat /\ d.xattr.revs[i].v <= sdkOps
        BY <1>3, <1>5, <1>6 DEF DocSound, Revs
    <2>5. \A i \in DOMAIN d.xattr.revs : d.xattr.revs[i].v <= sdkOps' /\ d.xattr.revs[i].v # sdkOps'
        BY <1>2, <1>3, <2>4, ImportAssumption
    <2>6. \A i \in DOMAIN d.xattr.revs : d.body.v # 0 => d.xattr.revs[i].v # d.body.v
        BY <1>1, <1>5, <2>5, GoneFacts
    <2>7. Distinct(d.xattr.revs) BY <1>3, <1>5 DEF DocSound
    <2> QED BY <2>1, <2>2, <2>3, <2>5, <2>6, <2>7 DEF DocSound
<1>8. "feed" \in Processes BY DEF Processes
<1> DEFINE r == process["feed"]
<1>9. r \in ProcessRecords /\ process' = [process EXCEPT !["feed"] = r] BY <1>2, <1>3, <1>8
<1>10. exposed' \subseteq 0..MaxSdkOps BY <1>2, <1>3
<1> HIDE DEF r
<1>11. r = process["feed"] BY DEF r
<1>12. DocSound([cas |-> clock + 1, body |-> body, xattr |-> doc.xattr], sdkOps', clock + 1) BY <1>7 DEF d
<1>13. dropped' = dropped BY DEF SdkDelete, SdkWrite, history
<1> QED BY <1>13, <1>1, <1>4, <1>6, <1>8, <1>9, <1>10, <1>11, <1>12, MutationStep

(* A removal of the body: nothing to import is left.                       *)
LEMMA RemovalStep ==
    ASSUME ImportInv, NEW xattr, xattr = doc.xattr \/ xattr = NoXattr, Mutated(NoBody, xattr),
           NEW p \in Processes, NEW r \in ProcessRecords, r = Idle \/ r = process[p],
           process' = [process EXCEPT ![p] = r], UNCHANGED <<sdkOps, exposed, dropped>>
    PROVE  ImportInv'
<1>1. /\ doc \in Versions /\ clock \in Nat /\ sdkOps \in 0..MaxSdkOps /\ exposed \subseteq 0..MaxSdkOps
      /\ DocSound(doc, sdkOps, clock)
    BY DEF ImportInv, ImportTyped
<1>2. /\ doc.xattr \in Xattrs /\ doc.xattr.cas \in Nat BY <1>1, DocTyped
<1>3. xattr \in Xattrs BY <1>2, GoneFacts
<1>4. xattr.cas \in Nat /\ xattr.cas <= clock BY <1>1, <1>2, GoneFacts DEF DocSound, Past
<1>5. (\A i \in DOMAIN xattr.revs : xattr.revs[i].v <= sdkOps) /\ Distinct(xattr.revs)
    <2>1. CASE xattr = doc.xattr BY <1>1, <2>1 DEF DocSound
    <2>2. CASE xattr = NoXattr
        <3>1. DOMAIN xattr.revs = {} BY <2>2, GoneFacts
        <3> QED BY <3>1 DEF Distinct
    <2> QED BY <2>1, <2>2
<1> DEFINE d == [cas |-> clock + 1, body |-> NoBody, xattr |-> xattr]
<1>6. d.cas = clock + 1 /\ d.body = NoBody /\ d.xattr = xattr OBVIOUS
<1>7. DocSound(d, sdkOps', clock + 1)
    <2> HIDE DEF d
    <2> QED BY <1>1, <1>4, <1>5, <1>6, GoneFacts DEF DocSound, Past
<1>8. sdkOps' \in 0..MaxSdkOps /\ exposed' \subseteq 0..MaxSdkOps BY <1>1
<1> QED BY <1>3, <1>7, <1>8, GoneFacts, MutationStep

(* A purge that begins preserves the invariant.                            *)
LEMMA PurgeStep ==
    ASSUME ImportInv, NEW p \in Clients, Purge(p)
    PROVE  ImportInv'
<1>1. p \in Processes BY DEF Processes
<1>2. doc \in Versions /\ clock \in Nat /\ process \in [Processes -> ProcessRecords] /\ DocSound(doc, sdkOps, clock)
    BY DEF ImportInv, ImportTyped
<1>3. CASE doc.body.present /\ HasRev(doc)
    <2>1. Mutated(NoBody, NoXattr) /\ UNCHANGED <<process, sdkOps, exposed, dropped>> BY <1>3 DEF Purge, history
    <2> DEFINE r == process[p]
    <2>2. r \in ProcessRecords /\ process' = [process EXCEPT ![p] = r] BY <1>1, <1>2, <2>1
    <2>3. r = process[p] OBVIOUS
    <2> HIDE DEF r
    <2> QED BY <1>1, <2>1, <2>2, <2>3, RemovalStep
<1>4. CASE ~(doc.body.present /\ HasRev(doc))
    <2> DEFINE r == [Idle EXCEPT !.pc = "purge", !.snap = doc]
    <2>1. process' = [process EXCEPT ![p] = r] /\ UNCHANGED <<doc, clock, feed, sdkOps, exposed, dropped>>
        BY <1>4 DEF Purge, history
    <2>2. r \in ProcessRecords /\ r.pc = "purge" /\ r.snap = doc /\ r.imported = Idle.imported
        BY <1>2, GoneFacts DEF ProcessRecords
    <2>3. Past(Idle.imported, clock) BY <1>2, IdleSound DEF HoldsSound
    <2> HIDE DEF r
    <2>4. HoldsSound(p, r, doc, clock) BY <1>2, <2>2, <2>3 DEF HoldsSound, DocSound
    <2> QED BY <1>1, <2>1, <2>2, <2>4, OneProcessStep
<1> QED BY <1>3, <1>4

(* A purge that loads the document preserves the invariant.                *)
LEMMA PurgeLoadStep ==
    ASSUME ImportInv, NEW p \in Clients, PurgeLoad(p)
    PROVE  ImportInv'
<1> DEFINE q == process[p]
           r == IF doc.body.present = q.snap.body.present /\ doc # Gone
                THEN [q EXCEPT !.pc = "remove", !.imported = doc] ELSE Idle
<1>1. p \in Processes BY DEF Processes
<1>2. doc \in Versions /\ clock \in Nat /\ DocSound(doc, sdkOps, clock) BY DEF ImportInv, ImportTyped
<1>3. q \in ProcessRecords /\ HoldsSound(p, q, doc, clock) BY <1>1, ProcessFacts
<1>4. process' = [process EXCEPT ![p] = r] /\ UNCHANGED <<doc, clock, feed, sdkOps, exposed, dropped>>
    BY DEF PurgeLoad, history
<1>5. r \in ProcessRecords /\ HoldsSound(p, r, doc, clock)
    <2> DEFINE s == [q EXCEPT !.pc = "remove", !.imported = doc]
    <2>1. s \in ProcessRecords /\ s.pc = "remove" /\ s.snap = q.snap /\ s.imported = doc
        BY <1>2, <1>3 DEF ProcessRecords
    <2> HIDE DEF s
    <2>2. HoldsSound(p, s, doc, clock) BY <1>2, <1>3, <2>1 DEF HoldsSound, DocSound
    <2>3. r = s \/ r = Idle BY DEF s
    <2> HIDE DEF r
    <2> QED BY <1>2, <2>1, <2>2, <2>3, GoneFacts, IdleSound
<1> HIDE DEF r
<1> QED BY <1>1, <1>4, <1>5, OneProcessStep

(* A purge that removes what is left preserves the invariant.              *)
LEMMA PurgeRemoveStep ==
    ASSUME ImportInv, NEW p \in Clients, PurgeRemove(p)
    PROVE  ImportInv'
<1>1. p \in Processes BY DEF Processes
<1>2. clock \in Nat BY DEF ImportInv, ImportTyped
<1>3. process' = [process EXCEPT ![p] = Idle] /\ UNCHANGED <<sdkOps, exposed, dropped>> BY DEF PurgeRemove, history
<1>4. CASE doc.cas = process[p].imported.cas
    <2> DEFINE x == IF doc.body.present THEN doc.xattr ELSE NoXattr
    <2>1. Mutated(NoBody, x) BY <1>4 DEF PurgeRemove, history
    <2>2. x = doc.xattr \/ x = NoXattr OBVIOUS
    <2> HIDE DEF x
    <2> QED BY <1>1, <1>3, <2>1, <2>2, GoneFacts, RemovalStep
<1>5. CASE doc.cas # process[p].imported.cas
    <2>1. UNCHANGED <<doc, clock, feed, sdkOps, exposed, dropped>> BY <1>3, <1>5 DEF PurgeRemove, history
    <2> QED BY <1>1, <1>2, <1>3, <2>1, GoneFacts, IdleSound, OneProcessStep
<1> QED BY <1>4, <1>5

-----------------------------------------------------------------------------
(* The feed.                                                               *)

(* What is received is a mutation of the past, and so are the others.      *)
LEMMA TailFacts ==
    ASSUME ImportInv, feed # <<>>
    PROVE  /\ Head(feed) \in Versions /\ EntrySound(Head(feed), doc, clock)
           /\ Tail(feed) \in Seq(Versions)
           /\ \A i \in DOMAIN Tail(feed) : EntrySound(Tail(feed)[i], doc, clock)
<1>1. feed \in Seq(Versions) /\ \A i \in DOMAIN feed : EntrySound(feed[i], doc, clock)
    BY DEF ImportInv, ImportTyped
<1>2. Len(feed) \in Nat /\ Len(feed) # 0 /\ DOMAIN feed = 1..Len(feed) BY <1>1, EmptySeq, LenProperties
<1>3. /\ Head(feed) \in Versions /\ Tail(feed) \in Seq(Versions) /\ Len(Tail(feed)) = Len(feed) - 1
      /\ \A i \in 1..Len(Tail(feed)) : Tail(feed)[i] = feed[i + 1]
    BY <1>1, HeadTailProperties
<1>4. Head(feed) = feed[1] BY <1>1
<1>5. DOMAIN Tail(feed) = 1..Len(Tail(feed)) BY <1>3, LenProperties
<1>6. EntrySound(Head(feed), doc, clock) BY <1>1, <1>2, <1>4
<1>7. ASSUME NEW i \in DOMAIN Tail(feed) PROVE EntrySound(Tail(feed)[i], doc, clock)
    <2>1. i \in 1..Len(Tail(feed)) /\ i + 1 \in 1..Len(feed) BY <1>2, <1>3, <1>5
    <2> QED BY <1>1, <1>2, <1>3, <2>1
<1> QED BY <1>3, <1>6, <1>7

(* An import of a version read in the past, by the feed or by a read.      *)
LEMMA StartImportSound ==
    ASSUME ImportInv, NEW p \in Processes, NEW e \in Versions, EntrySound(e, doc, clock),
           NEW r \in ProcessRecords, r.pc = "import", r.imported = e, r.snap = process[p].snap,
           p = "feed" \/ r.get
    PROVE  HoldsSound(p, r, doc, clock)
<1>1. HoldsSound(p, process[p], doc, clock) BY ProcessFacts
<1> QED BY <1>1 DEF HoldsSound, EntrySound

(* Receiving a mutation preserves the invariant.                           *)
LEMMA ReceiveMutationStep ==
    ASSUME ImportInv, ReceiveMutation
    PROVE  ImportInv'
<1> DEFINE e == Head(feed)
           r == StartImport("feed", e, ~e.body.present)
<1>1. /\ feed # <<>> /\ feed' = Tail(feed) /\ UNCHANGED <<doc, clock, sdkOps, exposed, dropped>>
      /\ process' = process \/ process' = [process EXCEPT !["feed"] = r]
    BY DEF ReceiveMutation, history
<1>2. /\ e \in Versions /\ EntrySound(e, doc, clock) /\ feed' \in Seq(Versions)
      /\ \A i \in DOMAIN feed' : EntrySound(feed'[i], doc, clock)
    BY <1>1, TailFacts
<1>3. "feed" \in Processes BY DEF Processes
<1>4. process["feed"] \in ProcessRecords /\ process \in [Processes -> ProcessRecords]
    BY <1>3 DEF ImportInv, ImportTyped
<1>5. (~e.body.present) \in BOOLEAN OBVIOUS
<1>6. r \in ProcessRecords /\ r.pc = "import" /\ r.imported = e /\ r.snap = process["feed"].snap
    BY <1>2, <1>4, <1>5 DEF StartImport, ProcessRecords
<1> HIDE DEF r, e
<1>7. HoldsSound("feed", r, doc, clock) BY <1>2, <1>3, <1>6, StartImportSound
<1>8. process' \in [Processes -> ProcessRecords]
      /\ \A o \in Processes : process'[o] = process[o] \/ (o = "feed" /\ process'[o] = r)
    BY <1>1, <1>3, <1>4, <1>6
<1>9. \A o \in Processes : HoldsSound(o, process'[o], doc, clock) BY <1>7, <1>8 DEF ImportInv
<1>10. dropped' \in 0..clock BY <1>1 DEF ImportInv, ImportTyped
<1> QED BY <1>10, <1>1, <1>2, <1>8, <1>9, ProcessStep

(* Leaving out a mutation preserves the invariant.                         *)
LEMMA DeduplicateStep ==
    ASSUME ImportInv, Deduplicate
    PROVE  ImportInv'
<1>1. Len(feed) > 1 /\ feed' = Tail(feed) /\ UNCHANGED <<doc, clock, process, sdkOps, exposed, dropped>>
    BY DEF Deduplicate, history
<1>2. feed # <<>> BY <1>1
<1>3. feed' \in Seq(Versions) /\ \A i \in DOMAIN feed' : EntrySound(feed'[i], doc, clock)
    BY <1>1, <1>2, TailFacts
<1>4. process' \in [Processes -> ProcessRecords] /\ \A p \in Processes : HoldsSound(p, process'[p], doc, clock)
    BY <1>1 DEF ImportInv, ImportTyped
<1>5. dropped' \in 0..clock BY <1>1 DEF ImportInv, ImportTyped
<1> QED BY <1>5, <1>1, <1>3, <1>4, ProcessStep

(* A restart preserves the invariant: what was in memory is gone, and the  *)
(* feed sends the document as it is, or nothing.                           *)
LEMMA RestartStep ==
    ASSUME ImportInv, Restart
    PROVE  ImportInv'
<1>1. /\ process' = [p \in Processes |-> Idle] /\ UNCHANGED <<doc, clock, sdkOps, exposed>>
      /\ feed' = <<>> \/ (doc # Gone /\ feed' = <<doc>>)
      /\ dropped' = dropped \/ dropped' = doc.cas
    BY DEF Restart
<1>2. doc \in Versions /\ clock \in Nat /\ DocSound(doc, sdkOps, clock) BY DEF ImportInv, ImportTyped
<1>3. doc.cas \in Nat /\ Past(doc, clock) BY <1>2, DocTyped DEF DocSound
<1>4. feed' \in Seq(Versions) /\ \A i \in DOMAIN feed' : EntrySound(feed'[i], doc, clock)
    <2>1. CASE feed' = <<>>
        <3>1. feed' = <<>> /\ DOMAIN feed' = {} BY <2>1
        <3> QED BY <3>1
    <2>2. CASE doc # Gone /\ feed' = <<doc>>
        <3>2. feed' \in Seq(Versions) /\ DOMAIN feed' = {1} /\ feed'[1] = doc BY <1>2, <2>2
        <3>3. EntrySound(doc, doc, clock) BY <1>2, <1>3, <2>2 DEF EntrySound, DocSound
        <3> QED BY <3>2, <3>3
    <2> QED BY <1>1, <2>1, <2>2
<1>5. process' \in [Processes -> ProcessRecords] /\ \A p \in Processes : HoldsSound(p, process'[p], doc, clock)
    BY <1>1, <1>2, GoneFacts, IdleSound
<1>6. dropped' \in 0..clock BY <1>1, <1>2, <1>3 DEF Past, ImportInv, ImportTyped
<1> QED BY <1>1, <1>4, <1>5, <1>6, ProcessStep

-----------------------------------------------------------------------------
(* Reads and updates.                                                      *)

(* A read that imports preserves the invariant.                            *)
LEMMA GetDocumentStep ==
    ASSUME ImportInv, NEW p \in Clients, GetDocument(p)
    PROVE  ImportInv'
<1> DEFINE s == StartImport(p, doc, ~doc.body.present)
           r == [s EXCEPT !.get = TRUE]
<1>1. /\ ~IsSGWrite(doc) /\ process' = [process EXCEPT ![p] = r]
      /\ UNCHANGED <<doc, clock, feed, sdkOps, exposed, dropped>>
    BY DEF GetDocument, history
<1>2. p \in Processes BY DEF Processes
<1>3. /\ process[p] \in ProcessRecords /\ doc \in Versions /\ clock \in Nat /\ DocSound(doc, sdkOps, clock)
    BY <1>2, ProcessFacts DEF ImportInv, ImportTyped
<1>4. doc.cas \in Nat /\ doc.cas # 0 BY <1>1, <1>3, DocTyped, GoneFacts DEF DocSound
<1>5. EntrySound(doc, doc, clock) BY <1>3, <1>4 DEF EntrySound, DocSound
<1>6. (~doc.body.present) \in BOOLEAN OBVIOUS
<1>7. s \in ProcessRecords /\ s.pc = "import" /\ s.imported = doc /\ s.snap = process[p].snap
    BY <1>3, <1>6 DEF StartImport, ProcessRecords
<1> HIDE DEF s
<1>8. r \in ProcessRecords /\ r.pc = "import" /\ r.imported = doc /\ r.snap = process[p].snap /\ r.get
    BY <1>7 DEF ProcessRecords
<1> HIDE DEF r
<1>9. HoldsSound(p, r, doc, clock) BY <1>2, <1>3, <1>5, <1>8, StartImportSound
<1> QED BY <1>1, <1>2, <1>8, <1>9, OneProcessStep

(* The identifier of a revision is a history of contents.                  *)
LEMMA RevIDTyped ==
    ASSUME NEW d \in Versions
    PROVE  RevID(d) \in Seq(Says) /\ DOMAIN RevID(d) = DOMAIN d.xattr.revs
           /\ Len(RevID(d)) = Len(d.xattr.revs)
<1> DEFINE revs == d.xattr.revs
<1>1. revs \in Seq(Revs) /\ \A i \in DOMAIN revs : revs[i] \in Revs BY DocTyped
<1>2. DOMAIN revs = 1..Len(revs) /\ Len(revs) \in Nat BY <1>1, LenProperties
<1>3. \A i \in 1..Len(revs) : revs[i].c \in Says BY <1>1, <1>2 DEF Revs
<1>4. RevID(d) = [i \in 1..Len(revs) |-> revs[i].c] BY <1>2 DEF RevID
<1> HIDE DEF revs
<1>5. RevID(d) \in [1..Len(revs) -> Says] BY <1>3, <1>4
<1>6. RevID(d) \in Seq(Says) BY <1>2, <1>5, SeqDef
<1>7. DOMAIN RevID(d) = 1..Len(revs) BY <1>4
<1>8. Len(RevID(d)) \in Nat /\ DOMAIN RevID(d) = 1..Len(RevID(d)) BY <1>6, LenProperties
<1>9. Len(RevID(d)) = Len(revs) BY <1>2, <1>7, <1>8
<1> QED BY <1>2, <1>6, <1>7, <1>9 DEF revs

(* An update that loads the document decides on what it loaded, or imports *)
(* it first.                                                               *)
LEMMA LoadForPutSound ==
    ASSUME ImportInv, NEW p \in Clients, NEW q \in ProcessRecords, ~q.get, Past(q.imported, clock)
    PROVE  LoadForPut(q) \in ProcessRecords /\ HoldsSound(p, LoadForPut(q), doc, clock)
<1> DEFINE a == [q EXCEPT !.pc = "put", !.snap = doc]
           b == [a EXCEPT !.pc = "import", !.imported = doc, !.isDelete = q.c = Deletion]
<1>1. doc \in Versions /\ clock \in Nat /\ DocSound(doc, sdkOps, clock) BY DEF ImportInv, ImportTyped
<1>2. Past(doc, clock) /\ doc.cas \in Nat BY <1>1, DocTyped DEF DocSound
<1>3. (q.c = Deletion) \in BOOLEAN OBVIOUS
<1>4. LoadForPut(q) = IF IsSGWrite(doc) THEN a ELSE b BY DEF LoadForPut
<1>5. a \in ProcessRecords /\ a.pc = "put" /\ a.snap = doc /\ a.imported = q.imported /\ a.c = q.c /\ a.get = q.get
    BY <1>1 DEF ProcessRecords
<1> HIDE DEF a
<1>6. /\ b \in ProcessRecords /\ b.pc = "import" /\ b.snap = doc /\ b.imported = doc /\ b.c = q.c
      /\ b.isDelete = (q.c = Deletion)
    BY <1>1, <1>3, <1>5 DEF ProcessRecords
<1> HIDE DEF b
<1>7. CASE IsSGWrite(doc)
    <2>1. LoadForPut(q) = a BY <1>4, <1>7
    <2>2. doc.cas = 0 => doc = Gone BY <1>1 DEF DocSound
    <2>3. DecidedOn(a, doc) BY <1>5, <1>7 DEF DecidedOn
    <2>4. HoldsSound(p, a, doc, clock) BY <1>2, <1>5, <2>2, <2>3 DEF HoldsSound
    <2> QED BY <1>5, <2>1, <2>4
<1>8. CASE ~IsSGWrite(doc)
    <2>1. LoadForPut(q) = b BY <1>4, <1>8
    <2>2. doc.cas >= 1 BY <1>1, <1>2, <1>8, GoneFacts DEF DocSound
    <2>3. b.isDelete <=> b.c = Deletion BY <1>6
    <2>4. HoldsSound(p, b, doc, clock) BY <1>2, <1>6, <1>8, <2>2, <2>3 DEF HoldsSound
    <2> QED BY <1>6, <2>1, <2>4
<1> QED BY <1>7, <1>8

(* An update that begins preserves the invariant.                          *)
LEMMA PutStep ==
    ASSUME ImportInv, NEW p \in Clients, NEW c \in Says, NEW match \in {<<>>, RevID(doc)},
           Put(p, c, match)
    PROVE  ImportInv'
<1> DEFINE q == [Idle EXCEPT !.c = c, !.match = match]
           r == LoadForPut(q)
<1>1. process' = [process EXCEPT ![p] = r] /\ UNCHANGED <<doc, clock, feed, sdkOps, exposed, dropped>> BY DEF Put, history
<1>2. p \in Processes /\ clock \in Nat /\ doc \in Versions BY DEF Processes, ImportInv, ImportTyped
<1>3. match \in Seq(Says)
    <2>1. <<>> \in Seq(Says) OBVIOUS
    <2>2. RevID(doc) \in Seq(Says) BY <1>2, RevIDTyped
    <2> QED BY <2>1, <2>2
<1>4. q \in ProcessRecords /\ q.get = Idle.get /\ q.imported = Idle.imported
    BY <1>3, GoneFacts DEF ProcessRecords
<1>5. ~Idle.get /\ Idle.imported = Gone BY DEF Idle
<1>6. Past(Gone, clock) BY <1>2, GoneFacts DEF Past
<1> HIDE DEF q
<1>7. r \in ProcessRecords /\ HoldsSound(p, r, doc, clock) BY <1>4, <1>5, <1>6, LoadForPutSound
<1> HIDE DEF r
<1> QED BY <1>1, <1>2, <1>7, OneProcessStep

(* An update that begins again preserves the invariant.                    *)
LEMMA PutRetryStep ==
    ASSUME ImportInv, NEW p \in Clients, PutRetry(p)
    PROVE  ImportInv'
<1> DEFINE o == process[p]
           m == IF o.match = <<>> THEN RevID(o.snap) ELSE o.match
           q == [o EXCEPT !.match = m]
           r == LoadForPut(q)
<1>1. /\ UNCHANGED <<doc, clock, feed, sdkOps, exposed, dropped>> /\ q.pc = "put"
      /\ process' = [process EXCEPT ![p] = r] \/ process' = [process EXCEPT ![p] = Idle]
    BY DEF PutRetry, history
<1>2. p \in Processes /\ clock \in Nat BY DEF Processes, ImportInv, ImportTyped
<1>3. o \in ProcessRecords /\ HoldsSound(p, o, doc, clock) /\ o.snap \in Versions /\ o.match \in Seq(Says)
    BY <1>2, ProcessFacts DEF ProcessRecords
<1>4. m \in Seq(Says) BY <1>3, RevIDTyped
<1> HIDE DEF m
<1>5. q \in ProcessRecords /\ q.get = o.get /\ q.imported = o.imported /\ q.pc = o.pc
    BY <1>3, <1>4 DEF ProcessRecords
<1>6. ~q.get /\ Past(q.imported, clock) BY <1>1, <1>3, <1>5 DEF HoldsSound
<1> HIDE DEF q
<1>7. r \in ProcessRecords /\ HoldsSound(p, r, doc, clock) BY <1>5, <1>6, LoadForPutSound
<1>8. HoldsSound(p, Idle, doc, clock) BY <1>2, IdleSound
<1> HIDE DEF r
<1>9. CASE process' = [process EXCEPT ![p] = r] BY <1>1, <1>2, <1>7, <1>9, OneProcessStep
<1>10. CASE process' = [process EXCEPT ![p] = Idle] BY <1>1, <1>2, <1>8, <1>10, GoneFacts, OneProcessStep
<1> QED BY <1>1, <1>9, <1>10

(* An update that is refused preserves the invariant.                      *)
LEMMA PutRefusedStep ==
    ASSUME ImportInv, NEW p \in Clients, PutRefused(p)
    PROVE  ImportInv'
<1>1. process' = [process EXCEPT ![p] = Idle] /\ UNCHANGED <<doc, clock, feed, sdkOps, exposed, dropped>>
    BY DEF PutRefused, history
<1>2. p \in Processes /\ HoldsSound(p, Idle, doc, clock) BY IdleSound DEF Processes, ImportInv, ImportTyped
<1> QED BY <1>1, <1>2, GoneFacts, OneProcessStep

-----------------------------------------------------------------------------

(* Before anything happened the invariant holds.                           *)
LEMMA ImportInitially == Init => ImportInv
<1> SUFFICES ASSUME Init PROVE ImportInv OBVIOUS
<1>1. doc = Gone /\ clock = 0 /\ feed = <<>> /\ sdkOps = 0 /\ exposed = {} /\ dropped = 0 BY DEF Init
<1>2. process = [p \in Processes |-> Idle] BY DEF Init
<1>3. DOMAIN feed = {} /\ feed \in Seq(Versions) BY <1>1
<1>4. 0 \in 0..MaxSdkOps BY ImportAssumption
<1>5. ImportTyped BY <1>1, <1>2, <1>3, <1>4, GoneFacts DEF ImportTyped
<1>6. DocSound(doc, sdkOps, clock) BY <1>1, GoneSound
<1>7. \A p \in Processes : HoldsSound(p, process[p], doc, clock) BY <1>1, <1>2, IdleSound
<1> QED BY <1>3, <1>5, <1>6, <1>7 DEF ImportInv

(* Every step preserves the invariant.                                     *)
LEMMA ImportInductive == ImportInv /\ [Next]_vars => ImportInv'
<1> SUFFICES ASSUME ImportInv, [Next]_vars PROVE ImportInv' OBVIOUS
<1>1. CASE UNCHANGED vars BY <1>1 DEF vars, history, ImportInv, ImportTyped
<1>2. CASE SdkDelete \/ \E c \in Contents : SdkWrite(c) BY <1>2, SdkStep
<1>3. CASE ReceiveMutation BY <1>3, ReceiveMutationStep
<1>4. CASE Deduplicate BY <1>4, DeduplicateStep
<1>5. CASE Restart BY <1>5, RestartStep
<1>6. ASSUME NEW p \in Processes, ImportStep(p) PROVE ImportInv'
    BY <1>6, ImportCancelledStep, ImportWriteStep, ImportRetryStep, ImportErrorStep DEF ImportStep
<1>7. ASSUME NEW p \in Clients, Request(p) PROVE ImportInv'
    <2>1. CASE GetDocument(p) BY <2>1, GetDocumentStep
    <2>2. CASE Purge(p) BY <2>2, PurgeStep
    <2>3. ASSUME NEW c \in (Contents \ Rejected) \cup {Deletion}, NEW match \in {<<>>, RevID(doc)},
                 Put(p, c, match)
          PROVE  ImportInv'
        <3>1. c \in Says BY DEF Says
        <3> QED BY <2>3, <3>1, PutStep
    <2> QED BY <1>7, <2>1, <2>2, <2>3 DEF Request
<1>8. ASSUME NEW p \in Clients, RequestStep(p) PROVE ImportInv'
    <2>1. p \in Processes BY DEF Processes
    <2> QED BY <1>8, <2>1, PutRefusedStep, PutWriteStep, PutRetryStep, PurgeLoadStep, PurgeRemoveStep
            DEF RequestStep
<1>9. CASE Terminating BY <1>1, <1>9 DEF Terminating
<1> QED BY <1>1, <1>2, <1>3, <1>4, <1>5, <1>6, <1>7, <1>8, <1>9 DEF Next

(* The invariant implies the property.                                     *)
LEMMA ImportInvImpliesOnce == ImportInv => ImportedOnce
<1> SUFFICES ASSUME ImportInv PROVE ImportedOnce OBVIOUS
<1>1. clock \in Nat /\ doc \in Versions /\ DocSound(doc, sdkOps, clock)
      /\ exposed \subseteq 0..MaxSdkOps /\ dropped \in 0..clock
    BY DEF ImportInv, ImportTyped
<1>2. ASSUME NEW d \in Versions, Past(d, clock) PROVE IsVersion(d)
    <2>1. d.cas \in Nat /\ d.xattr.cas \in Nat /\ d.body \in Bodies
          /\ \A i \in DOMAIN d.xattr.revs : d.xattr.revs[i] \in Revs
        BY DocTyped
    <2>2. d.cas \in 0..clock /\ d.xattr.cas \in 0..clock BY <1>1, <1>2, <2>1 DEF Past
    <2>3. IsHistory(d.xattr.revs) BY <2>1 DEF IsHistory, Revs, Says
    <2> QED BY <2>1, <2>2, <2>3 DEF IsVersion
<1>3. IsVersion(doc) /\ doc.xattr.cas <= doc.cas BY <1>1, <1>2 DEF DocSound
<1>4. \A i \in DOMAIN feed : IsVersion(feed[i])
    <2>1. feed \in Seq(Versions) BY DEF ImportInv, ImportTyped
    <2>2. \A i \in DOMAIN feed : feed[i] \in Versions BY <2>1, LenProperties, ElementOfSeq
    <2> QED BY <1>2, <2>2 DEF ImportInv, EntrySound
<1>5. ASSUME NEW p \in Processes
      PROVE  /\ process[p].pc \in {"idle", "import", "put", "purge", "remove"}
             /\ IsVersion(process[p].snap) /\ IsVersion(process[p].imported)
    <2>1. /\ process[p] \in ProcessRecords /\ HoldsSound(p, process[p], doc, clock)
          /\ process[p].snap \in Versions /\ process[p].imported \in Versions
        BY ProcessFacts
    <2>2. process[p].pc \in {"idle", "import", "put", "purge", "remove"} BY <2>1 DEF ProcessRecords
    <2> QED BY <1>2, <2>1, <2>2 DEF HoldsSound
<1>6. TypeOK BY <1>1, <1>3, <1>4, <1>5 DEF TypeOK
<1> QED BY <1>1, <1>6 DEF ImportedOnce, DocSound, Distinct

(* A write by the SDK becomes at most one revision, whoever imports it and *)
(* however they race.                                                      *)
THEOREM SdkWritesImportedOnce == Spec => []ImportedOnce
<1>1. Init => ImportInv BY ImportInitially
<1>2. ImportInv /\ [Next]_vars => ImportInv' BY ImportInductive
<1>3. ImportInv => ImportedOnce BY ImportInvImpliesOnce
<1> QED BY <1>1, <1>2, <1>3, PTL DEF Spec

-----------------------------------------------------------------------------
(* What steps may not do to the document.                                  *)

(* A history is a prefix of itself and of what a revision is added to.     *)
LEMMA HistoryExtended ==
    ASSUME NEW d \in Versions, NEW e \in Versions, NEW rev \in Revs,
           e.xattr.revs = d.xattr.revs \/ e.xattr.revs = Append(d.xattr.revs, rev)
    PROVE  IsPrefix(RevID(d), RevID(e))
<1> DEFINE s == RevID(d)
           t == RevID(e)
           m == Len(d.xattr.revs)
<1>1. /\ s \in Seq(Says) /\ t \in Seq(Says) /\ DOMAIN s = DOMAIN d.xattr.revs
      /\ DOMAIN t = DOMAIN e.xattr.revs /\ Len(s) = m /\ Len(t) = Len(e.xattr.revs)
    BY RevIDTyped
<1>2. d.xattr.revs \in Seq(Revs) /\ m \in Nat /\ DOMAIN d.xattr.revs = 1..m BY DocTyped, LenProperties
<1>3. DOMAIN d.xattr.revs \subseteq DOMAIN e.xattr.revs
      /\ \A i \in DOMAIN d.xattr.revs : e.xattr.revs[i] = d.xattr.revs[i]
    BY <1>2, AppendFacts
<1>4. \A i \in 1..m : s[i] = t[i] BY <1>2, <1>3 DEF RevID
<1>5. Len(t) \in Nat /\ DOMAIN t = 1..Len(t) /\ 1..m \subseteq 1..Len(t) BY <1>1, <1>2, <1>3, LenProperties
<1> HIDE DEF s, t, m
<1>6. m <= Len(t) BY <1>2, <1>5
<1>7. SubSeq(s, 1, m) = SubSeq(t, 1, m)
    <2>1. SubSeq(s, 1, m) = [i \in 1..m |-> s[i]] BY <1>1, <1>2
    <2>2. SubSeq(t, 1, m) = [i \in 1..m |-> t[i]] BY <1>1, <1>2, <1>6
    <2> QED BY <1>4, <2>1, <2>2
<1>8. IsPrefix(s, t) BY <1>1, <1>6, <1>7 DEF IsPrefix
<1> QED BY <1>8 DEF s, t

(* A step that leaves the document alone changes nothing.                  *)
LEMMA DocumentKept ==
    ASSUME ImportInv, doc' = doc
    PROVE  KeepsBody /\ ExtendsHistory
<1>1. doc \in Versions BY DEF ImportInv, ImportTyped
<1>2. Deletion \in Says /\ 0 \in 0..MaxSdkOps BY ImportAssumption DEF Says
<1>3. [c |-> Deletion, v |-> 0] \in Revs BY <1>2 DEF Revs
<1>4. IsPrefix(RevID(doc), RevID(doc)) BY <1>1, <1>3, HistoryExtended
<1>5. RevID(doc)' = RevID(doc) BY DEF RevID
<1> QED BY <1>4, <1>5 DEF KeepsBody, ByTheGateway, ExtendsHistory

(* A write by the gateway removes the document or stores one more          *)
(* revision than the history it was decided on has.                        *)
LEMMA WriteStores ==
    ASSUME ImportInv, NEW revs \in Seq(Revs), NEW rev \in Revs, NEW snap,
           WriteWithXattr(Append(revs, rev), snap)
    PROVE  \/ doc' = Gone
           \/ /\ doc'.xattr.revs = Append(revs, rev) /\ Last(doc'.xattr.revs) = rev
              /\ rev.c # Deletion => doc'.body = Body(rev.c, rev.v)
<1>1. Last(Append(revs, rev)) = rev BY AppendFacts
<1> QED BY <1>1 DEF WriteWithXattr, Mutated, Stamped

(* An import replaces the body by itself.                                  *)
LEMMA ImportWriteKeeps ==
    ASSUME ImportInv, ImportInv', NEW p \in Processes, ImportWrite(p)
    PROVE  KeepsBody /\ ExtendsHistory
<1> DEFINE q == process[p]
           rev == [c |-> ImportContent(q), v |-> IF q.isDelete THEN 0 ELSE q.imported.body.v]
<1>1. /\ q.pc = "import" /\ ImportOutcome(q) = "write" /\ doc.cas = q.imported.cas
      /\ WriteWithXattr(Append(doc.xattr.revs, rev), doc)
      /\ exposed' = exposed \cup (IF TakenForDeletion(q) THEN {doc.body.v} ELSE {})
    BY DEF ImportWrite
<1>2. q.imported = doc BY <1>1, ImportWriteFacts
<1>3. doc \in Versions /\ doc' \in Versions /\ DocSound(doc, sdkOps, clock) BY DEF ImportInv, ImportTyped
<1>4. doc.body.v \in 0..MaxSdkOps /\ doc.body.c \in Says /\ doc.xattr.revs \in Seq(Revs) BY <1>3, DocTyped
<1>5. 0 \in 0..MaxSdkOps /\ Deletion \in Says /\ Hollow \in Says BY ImportAssumption DEF Says
<1>6. rev \in Revs BY <1>2, <1>4, <1>5 DEF Revs, ImportContent
<1>7. ~q.isDelete /\ doc.body.present => rev.c = doc.body.c /\ rev.v = doc.body.v BY <1>2 DEF ImportContent
<1> HIDE DEF rev
<1>8. \/ doc' = Gone
      \/ /\ doc'.xattr.revs = Append(doc.xattr.revs, rev) /\ Last(doc'.xattr.revs) = rev
         /\ rev.c # Deletion => doc'.body = Body(rev.c, rev.v)
    BY <1>1, <1>4, <1>6, WriteStores
<1>9. CASE doc' = Gone BY <1>9 DEF KeepsBody, ExtendsHistory, PurgesNow
<1>10. CASE doc' # Gone
    <2>1. ExtendsHistory
        <3>1. IsPrefix(RevID(doc), RevID(doc')) BY <1>3, <1>6, <1>8, <1>10, HistoryExtended
        <3>2. RevID(doc)' = RevID(doc') BY DEF RevID
        <3> QED BY <3>1, <3>2 DEF ExtendsHistory
    <2>2. KeepsBody
        <3>1. SUFFICES ASSUME Unimported(doc)
                       PROVE  \/ doc'.body.v = doc.body.v /\ Last(doc'.xattr.revs).v = doc.body.v
                              \/ doc.body.v \in exposed'
            BY DEF KeepsBody
        <3>2. doc.body.present /\ doc.body.v # 0 /\ doc.body.c # Deletion BY <1>3, <3>1 DEF Unimported, DocSound
        <3>3. CASE q.isDelete BY <1>1, <1>2, <3>2, <3>3 DEF TakenForDeletion
        <3>4. CASE ~q.isDelete
            <4>1. doc'.body = Body(doc.body.c, doc.body.v) /\ Last(doc'.xattr.revs) = rev
                BY <1>7, <1>8, <1>10, <3>2, <3>4
            <4> QED BY <1>7, <3>2, <3>4, <4>1 DEF Body
        <3> QED BY <3>3, <3>4
    <2> QED BY <2>1, <2>2
<1> QED BY <1>9, <1>10

(* An update replaces a body the gateway knows, or one it filters.         *)
LEMMA PutWriteKeeps ==
    ASSUME ImportInv, ImportInv', NEW p \in Clients, PutWrite(p)
    PROVE  KeepsBody /\ ExtendsHistory
<1> DEFINE q == process[p]
           rev == [c |-> q.c, v |-> 0]
<1>1. /\ q.pc = "put" /\ CasMatches(q) /\ WriteWithXattr(Append(q.snap.xattr.revs, rev), q.snap)
      /\ exposed' = exposed \cup (IF q.c = Deletion /\ ~IsSGWrite(doc) THEN {doc.body.v} ELSE {})
    BY DEF PutWrite
<1>2. p \in Processes BY DEF Processes
<1>3. q.c \in Says /\ q.snap \in Versions /\ HoldsSound(p, q, doc, clock) BY <1>2, ProcessFacts
<1>4. doc \in Versions /\ doc' \in Versions BY DEF ImportInv, ImportTyped
<1>5. 0 \in 0..MaxSdkOps BY ImportAssumption
<1>6. rev \in Revs /\ q.snap.xattr.revs \in Seq(Revs) BY <1>3, <1>5, DocTyped DEF Revs
<1> HIDE DEF rev
<1>7. doc' = Gone \/ doc'.xattr.revs = Append(q.snap.xattr.revs, rev) BY <1>1, <1>6, WriteStores
<1>8. q.snap.cas = doc.cas \/ BlindTombstone(q) BY <1>1 DEF CasMatches
<1>9. \/ q.snap = doc /\ (IsSGWrite(doc) \/ q.c = Deletion)
      \/ ~IsSGWrite(doc) /\ doc.body.c \in Filtered
      \/ BlindTombstone(q)
    BY <1>1, <1>3, <1>8 DEF HoldsSound, DecidedOn
<1>10. CASE doc' = Gone BY <1>10 DEF KeepsBody, ExtendsHistory, PurgesNow
<1>11. CASE doc' # Gone
    <2>1. KeepsBody BY <1>1, <1>9 DEF KeepsBody, Unimported, BlindTombstone
    <2>2. ExtendsHistory
        <3>1. CASE q.snap = doc
            <4>1. IsPrefix(RevID(doc), RevID(doc')) BY <1>4, <1>6, <1>7, <1>11, <3>1, HistoryExtended
            <4>2. RevID(doc)' = RevID(doc') BY DEF RevID
            <4> QED BY <4>1, <4>2 DEF ExtendsHistory
        <3>2. CASE ~IsSGWrite(doc) /\ doc.body.c \in Filtered BY <3>2 DEF ExtendsHistory
        <3>3. CASE BlindTombstone(q) BY <1>1, <3>3 DEF ExtendsHistory
        <3> QED BY <1>9, <3>1, <3>2, <3>3
    <2> QED BY <2>1, <2>2
<1> QED BY <1>10, <1>11

(* The SDK leaves the history alone.                                       *)
LEMMA SdkKeeps ==
    ASSUME ImportInv, ImportInv', SdkDelete \/ \E c \in Contents : SdkWrite(c)
    PROVE  KeepsBody /\ ExtendsHistory
<1>1. sdkOps' # sdkOps BY ImportAssumption DEF SdkDelete, SdkWrite, ImportInv, ImportTyped
<1>2. doc' = Gone \/ doc'.xattr = doc.xattr
    <2>1. ASSUME NEW body, Mutated(body, doc.xattr) PROVE doc' = Gone \/ doc'.xattr = doc.xattr
        BY <2>1 DEF Mutated
    <2>2. \E body : Mutated(body, doc.xattr) BY DEF SdkDelete, SdkWrite, history
    <2> QED BY <2>1, <2>2
<1>3. doc \in Versions /\ doc' \in Versions BY DEF ImportInv, ImportTyped
<1>4. Deletion \in Says /\ 0 \in 0..MaxSdkOps BY ImportAssumption DEF Says
<1>5. [c |-> Deletion, v |-> 0] \in Revs BY <1>4 DEF Revs
<1>6. doc'.xattr = doc.xattr => IsPrefix(RevID(doc), RevID(doc')) BY <1>3, <1>5, HistoryExtended
<1>7. RevID(doc)' = RevID(doc') BY DEF RevID
<1> QED BY <1>1, <1>2, <1>6, <1>7 DEF KeepsBody, ByTheGateway, ExtendsHistory, PurgesNow

(* A purge is a purge.                                                     *)
LEMMA PurgeKeeps ==
    ASSUME ImportInv, NEW p \in Clients, Purge(p) \/ PurgeRemove(p)
    PROVE  KeepsBody /\ ExtendsHistory
<1>1. CASE Purge(p)
    <2>1. doc' = doc \/ doc' = Gone BY <1>1 DEF Purge, Mutated
    <2> QED BY <2>1, DocumentKept DEF KeepsBody, ExtendsHistory, PurgesNow
<1>2. CASE PurgeRemove(p)
    <2>1. p \in Processes /\ process \in [Processes -> ProcessRecords]
        BY DEF Processes, ImportInv, ImportTyped
    <2>2. process[p].pc = "remove" /\ process'[p].pc = "idle" BY <1>2, <2>1 DEF PurgeRemove, Idle
    <2> QED BY <2>2 DEF KeepsBody, ExtendsHistory, PurgesNow
<1> QED BY <1>1, <1>2

(* No step overwrites a body that was not imported or forgets revisions.   *)
LEMMA StepKeeps == ImportInv /\ ImportInv' /\ [Next]_vars => [KeepsBody /\ ExtendsHistory]_vars
<1> SUFFICES ASSUME ImportInv, ImportInv', Next PROVE KeepsBody /\ ExtendsHistory OBVIOUS
<1>1. CASE SdkDelete \/ \E c \in Contents : SdkWrite(c) BY <1>1, SdkKeeps
<1>2. CASE ReceiveMutation \/ Deduplicate \/ Restart
    BY <1>2, DocumentKept DEF ReceiveMutation, Deduplicate, Restart
<1>3. ASSUME NEW p \in Processes, ImportStep(p) PROVE KeepsBody /\ ExtendsHistory
    <2>1. CASE ImportWrite(p) BY <2>1, ImportWriteKeeps
    <2>2. CASE ImportCancelled(p) \/ ImportRetry(p) \/ ImportError(p)
        BY <2>2, DocumentKept DEF ImportCancelled, ImportRetry, ImportError
    <2> QED BY <1>3, <2>1, <2>2 DEF ImportStep
<1>4. ASSUME NEW p \in Clients, Request(p) PROVE KeepsBody /\ ExtendsHistory
    <2>1. CASE Purge(p) BY <2>1, PurgeKeeps
    <2>2. CASE ~Purge(p)
        <3>1. doc' = doc BY ZenonT(30), <1>4, <2>2 DEF Request, GetDocument, Put
        <3> QED BY Zenon, <3>1, DocumentKept
    <2> QED BY <2>1, <2>2
<1>5. ASSUME NEW p \in Clients, RequestStep(p) PROVE KeepsBody /\ ExtendsHistory
    <2>1. CASE PutWrite(p) BY <2>1, PutWriteKeeps
    <2>2. CASE PurgeRemove(p) BY <2>2, PurgeKeeps
    <2>3. CASE PutRefused(p) \/ PutRetry(p) \/ PurgeLoad(p)
        BY <2>3, DocumentKept DEF PutRefused, PutRetry, PurgeLoad
    <2> QED BY <1>5, <2>1, <2>2, <2>3 DEF RequestStep
<1>6. CASE Terminating BY <1>6, DocumentKept DEF Terminating, vars
<1> QED BY <1>1, <1>2, <1>3, <1>4, <1>5, <1>6 DEF Next

(* A write by the gateway never replaces a body of the SDK that was not    *)
(* imported, and never takes back a revision, but by a purge, over a       *)
(* filtered version, and in the two races the module names.                *)
THEOREM NothingIsOverwritten == Spec => NothingOverwritten
<1>1. Init => ImportInv BY ImportInitially
<1>2. ImportInv /\ [Next]_vars => ImportInv' BY ImportInductive
<1>3. ImportInv /\ ImportInv' /\ [Next]_vars => [KeepsBody /\ ExtendsHistory]_vars BY StepKeeps
<1> QED BY <1>1, <1>2, <1>3, PTL DEF Spec, NothingOverwritten

=============================================================================
