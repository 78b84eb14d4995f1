------------------------------- MODULE Access -------------------------------
(***************************************************************************)
(* Who may see which channel since when (auth/auth.go, auth/user.go,       *)
(* auth/role.go, channels/timed_set.go, db/users.go and the access parts   *)
(* of db/crud.go), for one user and the roles it may have.                 *)
(*                                                                         *)
(* Grants come from administrators (explicit channels and roles, kept with *)
(* the principal) and from documents (the sync function's access() and     *)
(* role() calls, kept with each document).  A principal stores the union,  *)
(* computed by a query when it is next loaded; a document that changes a   *)
(* grant is saved first and invalidates the stored union afterwards, which *)
(* is where everything can go wrong.                                       *)
(***************************************************************************)
EXTENDS Integers, FiniteSets, FiniteSetsExt, Functions

CONSTANTS
    User, Roles,   \* the principals
    Nil,           \* a computed set that is marked invalid
    Channels,
    Docs,          \* documents whose sync function grants access
    Requests,      \* concurrent requests, numbered
    MaxCasRetries, \* PrincipalUpdateMaxCasRetries
    MaxSeq,        \* bound: sequences, so also document and admin updates
    MaxRequests,   \* bound: requests
    MaxFailures    \* bound: crashes and bucket errors

ASSUME AccessAssumption ==
    /\ User \notin Roles /\ Requests \subseteq Nat /\ MaxCasRetries \in Nat \ {0}
    /\ MaxSeq \in Nat \ {0} /\ MaxRequests \in Nat /\ MaxFailures \in Nat

VARIABLES
    docs,      \* [Docs -> sequence and grants of its current revision]
    princ,     \* [Principals -> the stored principal]
    seq,       \* the last sequence allocated
    reserved,  \* sequences some node has reserved for a bulk update
    request,   \* [Requests -> local state of a request]
    requests, failures,
    lost       \* history: grants whose invalidation was lost by a named race

accessVars == <<docs, princ, seq, reserved, request, requests, failures, lost>>

Principals == {User} \cup Roles

-----------------------------------------------------------------------------
(* TimedSet: names with the sequence each was added at.                    *)

None == << >>
IsTimedSet(set, names) == DOMAIN set \subseteq names /\ \A n \in DOMAIN set : set[n] \in 1..MaxSeq

(* Members not in names leave, new ones get the sequence.                  *)
UpdateAtSequence(set, names, s) ==
    [n \in names |-> IF n \in DOMAIN set THEN set[n] ELSE s]

(* The union; the earliest sequence wins, and none is before atSequence.   *)
AddAtSequence(set, other, atSequence) ==
    LET later(n) == Max({other[n], atSequence})
    IN  [n \in DOMAIN set \cup DOMAIN other |->
            IF n \notin DOMAIN other THEN set[n]
            ELSE IF n \notin DOMAIN set THEN later(n)
            ELSE Min({set[n], later(n)})]

Add(set, other) == AddAtSequence(set, other, 0)

-----------------------------------------------------------------------------

(* A principal; roles have no roles.  Computed sets are Nil when invalid.  *)
Absent == [exists |-> FALSE, cas |-> 0, seq |-> 0,
           explicit |-> None, channels |-> Nil, explicitRoles |-> None, roles |-> Nil]

IdleRequest == [pc |-> "idle", op |-> "none", name |-> User, what |-> "channels", snap |-> Absent,
         tries |-> 0, todo |-> {}, channels |-> {}, roles |-> {}]

(* A principal without grants, as an administrator creates it.             *)
Created == [Absent EXCEPT !.exists = TRUE, !.cas = 1, !.seq = 1, !.channels = None, !.roles = None]

(* The principals are created before or during the run.                    *)
AccessInit ==
    /\ docs = [d \in Docs |-> [seq |-> 0, access |-> [p \in Principals |-> None], roles |-> None]]
    /\ \E existing \in {{}, Principals} :
           princ = [p \in Principals |-> IF p \in existing THEN Created ELSE Absent]
    /\ seq = 1 /\ reserved = {} /\ request = [q \in Requests |-> IdleRequest]
    /\ requests = 0 /\ failures = 0 /\ lost = {}

(* The union of timed sets, each name since the earliest of them.          *)
AddAll(sets) ==
    [n \in UNION {DOMAIN set : set \in sets} |->
        Min({set[n] : set \in {other \in sets : n \in DOMAIN other}})]

(* ComputeChannelsForPrincipal, ComputeRolesForUser: the query over what   *)
(* documents grant.                                                        *)
QueryAccess(p) == AddAll({docs[d].access[p] : d \in Docs})
QueryRoleAccess == AddAll({docs[d].roles : d \in Docs})

RebuildChannels(p, explicit) == Add(explicit, QueryAccess(p))
RebuildRoles(p, explicit) == IF p = User THEN Add(QueryRoleAccess, explicit) ELSE None

-----------------------------------------------------------------------------
(* Loading a principal: getPrincipal.                                      *)

(* Idle requests are alike: the first one is taken.                        *)
FirstIdle(q) ==
    /\ request[q].pc = "idle" /\ requests < MaxRequests
    /\ \A x \in Requests : x < q => request[x].pc # "idle"

(* A request on a principal begins by loading it.                          *)
Begin(q, op) ==
    /\ FirstIdle(q)
    /\ requests' = requests + 1
    /\ request' = [request EXCEPT ![q] = op]
    /\ UNCHANGED <<docs, princ, seq, reserved, failures, lost>>

GetPrincipal(q, name) == Begin(q, [IdleRequest EXCEPT !.pc = "get", !.op = "get", !.name = name])

Invalid(p) == p.channels = Nil \/ p.roles = Nil

(* The principal is loaded and valid: a request that only reads it ends.   *)
Proceed(r, p) == IF r.op = "get" THEN IdleRequest ELSE [r EXCEPT !.pc = "act", !.snap = p]

(* The next principal to invalidate, if any.                               *)
Continue(r) == IF r.todo = {} THEN IdleRequest ELSE [r EXCEPT !.pc = "next"]

(* A principal that does not exist ends a request, except that an update   *)
(* creates it.                                                             *)
LoadedPrincipal(r) ==
    LET p == princ[r.name]
        rebuild == [r EXCEPT !.snap = p, !.pc = "rebuild"]
    IN  IF p.exists THEN IF Invalid(p) THEN rebuild ELSE Proceed(r, p)
        ELSE IF r.op = "update" THEN rebuild
        ELSE IF r.op = "invalidate" THEN Continue(r)
        ELSE IdleRequest

Load(q) ==
    /\ request[q].pc = "get"
    /\ request' = [request EXCEPT ![q] = LoadedPrincipal(@)]
    /\ UNCHANGED <<docs, princ, seq, reserved, requests, failures, lost>>

(* rebuildChannels, rebuildRoles: what is still valid is kept.             *)
Recomputed(p, s) ==
    [s EXCEPT !.channels = IF @ = Nil THEN RebuildChannels(p, s.explicit) ELSE @,
              !.roles = IF @ = Nil THEN RebuildRoles(p, s.explicitRoles) ELSE @]

(* The queries run between the load and the save of the principal.         *)
Rebuild(q) ==
    LET r == request[q]
    IN  /\ r.pc = "rebuild"
        /\ request' = [request EXCEPT ![q] =
               [r EXCEPT !.pc = IF r.snap.exists THEN "store" ELSE "act",
                         !.snap = Recomputed(r.name, r.snap)]]
        /\ UNCHANGED <<docs, princ, seq, reserved, requests, failures, lost>>

CasMatchesAlways(q) == TRUE

CasMatches(q) ==
    LET r == request[q]
    IN  /\ princ[r.name].exists = r.snap.exists
        /\ r.snap.exists => princ[r.name].cas = r.snap.cas

(* The stored principal after a write, with the CAS the bucket gives it.   *)
Saved(name, p) == [p EXCEPT !.exists = TRUE, !.cas = princ[name].cas + 1]

Store(q) ==
    LET r == request[q]
    IN  /\ r.pc = "store"
        /\ IF CasMatches(q)
           THEN /\ princ' = [princ EXCEPT ![r.name] = Saved(r.name, r.snap)]
                /\ request' = [request EXCEPT ![q] = Proceed(r, Saved(r.name, r.snap))]
           ELSE /\ request' = [request EXCEPT ![q].pc = "get"]
                /\ UNCHANGED princ
        /\ UNCHANGED <<docs, seq, reserved, requests, failures, lost>>

-----------------------------------------------------------------------------
(* A document is saved with new grants, then invalidates every principal   *)
(* whose grants changed (updateAccess, MarkPrincipalsChanged).             *)

UpdateAccess(d, access, roles, s) ==
    [seq |-> s,
     access |-> [p \in Principals |-> UpdateAtSequence(docs[d].access[p], access[p], s)],
     roles  |-> UpdateAtSequence(docs[d].roles, roles, s)]

ChangedPrincipalsAdded(d, access, roles) ==
    {<<p, "channels">> : p \in {x \in Principals : ~(access[x] \subseteq DOMAIN docs[d].access[x])}}
    \cup (IF roles \subseteq DOMAIN docs[d].roles THEN {} ELSE {<<User, "roles">>})

ChangedPrincipals(d, access, roles) ==
    {<<p, "channels">> : p \in {x \in Principals : DOMAIN docs[d].access[x] # access[x]}}
    \cup (IF DOMAIN docs[d].roles # roles THEN {<<User, "roles">>} ELSE {})

(* ReserveSequences: a node reserves a sequence for a bulk update, if none *)
(* is left of the last batch.                                              *)
Reserve ==
    /\ requests < MaxRequests /\ seq < MaxSeq /\ reserved = {}
    /\ requests' = requests + 1
    /\ seq' = seq + 1 /\ reserved' = reserved \cup {seq'}
    /\ UNCHANGED <<docs, princ, request, failures, lost>>

(* nextSequence: what the node has reserved comes first.                   *)
NextSequence(s) ==
    \/ /\ s = seq + 1 /\ s <= MaxSeq
       /\ seq' = s /\ UNCHANGED reserved
    \/ /\ s \in reserved
       /\ reserved' = reserved \ {s} /\ UNCHANGED seq

(* A document is saved with a sequence above the one it has.               *)
SaveDocument(q, d, access, roles) ==
    /\ FirstIdle(q)
    /\ requests' = requests + 1
    /\ \E s \in (docs[d].seq + 1)..MaxSeq :
        /\ NextSequence(s)
        /\ docs' = [docs EXCEPT ![d] = UpdateAccess(d, access, roles, s)]
    /\ request' = [request EXCEPT ![q] =
           Continue([IdleRequest EXCEPT !.op = "invalidate", !.todo = ChangedPrincipals(d, access, roles)])]
    /\ UNCHANGED <<princ, failures, lost>>

(* UpdateAllDocChannels: the changed sync function runs on a document      *)
(* again, without a new sequence, and the channels of every principal are  *)
(* invalidated.  Their roles are not, and nothing is when the query over   *)
(* the documents or the one over the principals reports an error.          *)
Resync(q, d, access, roles) ==
    LET changed == ChangedPrincipals(d, access, roles)
        all == {<<p, "channels">> : p \in Principals}
    IN  /\ FirstIdle(q) /\ docs[d].seq > 0 /\ changed # {}
        /\ requests' = requests + 1
        /\ docs' = [docs EXCEPT ![d] = UpdateAccess(d, access, roles, @.seq)]
        /\ \/ /\ request' = [request EXCEPT ![q] = Continue([IdleRequest EXCEPT !.op = "invalidate", !.todo = all])]
              /\ lost' = lost \cup (changed \ all)
           \/ lost' = lost \cup changed /\ UNCHANGED request
        /\ UNCHANGED <<princ, seq, reserved, failures>>

(* First those whose channels changed, then those whose roles did; each in *)
(* any order: they come out of a map.                                      *)
NextInvalidation(q) ==
    LET r == request[q]
    IN  /\ r.pc = "next"
        /\ \E t \in r.todo :
            /\ t[2] = "roles" => \A x \in r.todo : x[2] = "roles"
            /\ request' = [request EXCEPT ![q] =
                   LoadedPrincipal([r EXCEPT !.pc = "get", !.name = t[1], !.what = t[2],
                                    !.tries = 0, !.todo = r.todo \ {t}])]
        /\ UNCHANGED <<docs, princ, seq, reserved, requests, failures, lost>>

(* InvalidateChannels, InvalidateRoles through casUpdatePrincipal, which   *)
(* gives up after so many CAS failures (other errors: see Fail).           *)
Invalidate(q) ==
    LET r == request[q]
        cleared == IF r.what = "channels" THEN [r.snap EXCEPT !.channels = Nil]
                   ELSE [r.snap EXCEPT !.roles = Nil]
    IN  /\ r.pc = "act" /\ r.op = "invalidate" /\ r.tries < MaxCasRetries
        /\ IF CasMatches(q)
           THEN /\ princ' = [princ EXCEPT ![r.name] = Saved(r.name, cleared)]
                /\ request' = [request EXCEPT ![q] = Continue(r)]
           ELSE /\ request' = [request EXCEPT ![q].pc = "get", ![q].tries = @ + 1]
                /\ UNCHANGED princ
        /\ UNCHANGED <<docs, seq, reserved, requests, failures, lost>>

GiveUp(q) ==
    LET r == request[q]
    IN  /\ r.pc = "act" /\ r.op = "invalidate" /\ r.tries = MaxCasRetries
        /\ request' = [request EXCEPT ![q] = Continue(r)]
        /\ lost' = lost \cup {<<r.name, r.what>>}
        /\ UNCHANGED <<docs, princ, seq, reserved, requests, failures>>

(* Loading, rebuilding or saving the principal fails: getPrincipal returns *)
(* the error, which ends a request.  The next principal is invalidated all *)
(* the same: the error of GetUser or GetRole is ignored, and               *)
(* casUpdatePrincipal returns nil for an error that is no CAS mismatch.    *)
(* The sequence of an update that fails to save is gone.                   *)
Fail(q) ==
    LET r == request[q]
    IN  /\ r.pc \notin {"idle", "next"} /\ failures < MaxFailures
        /\ failures' = failures + 1
        /\ IF r.op = "invalidate"
           THEN /\ request' = [request EXCEPT ![q] = Continue(r)]
                /\ lost' = lost \cup {<<r.name, r.what>>}
           ELSE /\ request' = [request EXCEPT ![q] = IdleRequest]
                /\ UNCHANGED lost
        /\ \/ UNCHANGED <<seq, reserved>>
           \/ r.pc = "act" /\ r.op = "update" /\ \E s \in 1..MaxSeq : NextSequence(s)
        /\ UNCHANGED <<docs, princ, requests>>

(* The node stops with invalidations still to do, or the document was      *)
(* saved and its writer told of an error: nobody repeats them.  (Other     *)
(* requests leave nothing half done.)                                      *)
CrashDuring(q) ==
    LET r == request[q]
        undone == IF r.pc = "next" THEN r.todo ELSE r.todo \cup {<<r.name, r.what>>}
    IN  /\ r.op = "invalidate" /\ undone # {} /\ failures < MaxFailures
        /\ failures' = failures + 1
        /\ lost' = lost \cup undone
        /\ request' = [request EXCEPT ![q] = IdleRequest]
        /\ UNCHANGED <<docs, princ, seq, reserved, requests>>

-----------------------------------------------------------------------------
(* Administration.                                                         *)

UpdatePrincipal(q, name, channels, roles) ==
    Begin(q, [IdleRequest EXCEPT !.pc = "get", !.op = "update", !.name = name,
                          !.channels = channels, !.roles = roles])

(* The principal as requested: explicit sets that change invalidate the    *)
(* computed ones.                                                          *)
Requested(r, s) ==
    LET p == r.snap
    IN  [p EXCEPT !.seq = s,
            !.explicit = UpdateAtSequence(@, r.channels, s),
            !.channels = IF DOMAIN p.explicit # r.channels THEN Nil ELSE @,
            !.explicitRoles = UpdateAtSequence(@, r.roles, s),
            !.roles = IF DOMAIN p.explicitRoles # r.roles THEN Nil ELSE @]

Changes(r) ==
    \/ ~r.snap.exists \/ DOMAIN r.snap.explicit # r.channels
    \/ DOMAIN r.snap.explicitRoles # r.roles

(* A new principal was computed before it could be invalidated: a grant    *)
(* saved in between found nothing to invalidate.                           *)
StaleWhenCreated(r, s) ==
    LET p == Requested(r, s)
    IN  IF r.snap.exists THEN {}
        ELSE {<<r.name, w>> : w \in
                 {x \in {"channels", "roles"} :
                     IF x = "channels"
                     THEN p.channels # Nil /\ p.channels # RebuildChannels(r.name, p.explicit)
                     ELSE p.roles # Nil /\ p.roles # RebuildRoles(r.name, p.explicitRoles)}}

(* A sequence is taken for every attempt, also for one that fails.  It is  *)
(* not compared with the sequence of the principal and may be lower.       *)
SavePrincipal(q) ==
    LET r == request[q]
    IN  /\ r.pc = "act" /\ r.op = "update" /\ Changes(r)
        /\ \E s \in 1..MaxSeq :
            /\ NextSequence(s)
            /\ IF CasMatches(q)
               THEN /\ princ' = [princ EXCEPT ![r.name] = Saved(r.name, Requested(r, s))]
                    /\ lost' = lost \cup StaleWhenCreated(r, s)
                    /\ request' = [request EXCEPT ![q] = IdleRequest]
               ELSE /\ request' = [request EXCEPT ![q] =
                           IF r.tries + 1 = MaxCasRetries THEN IdleRequest
                           ELSE [r EXCEPT !.pc = "get", !.tries = @ + 1]]
                    /\ UNCHANGED <<princ, lost>>
        /\ UNCHANGED <<docs, requests, failures>>

(* Nothing to save, or (bound) no sequence left.                           *)
NotSaved(q) ==
    LET r == request[q]
    IN  /\ r.pc = "act" /\ r.op = "update"
        /\ ~Changes(r) \/ (seq = MaxSeq /\ reserved = {})
        /\ request' = [request EXCEPT ![q] = IdleRequest]
        /\ UNCHANGED <<docs, princ, seq, reserved, requests, failures, lost>>

(* deleteUser, deleteRole: loaded first, then deleted whatever its CAS.    *)
DeletePrincipal(q, name) ==
    Begin(q, [IdleRequest EXCEPT !.pc = "get", !.op = "delete", !.name = name])

Delete(q) ==
    LET r == request[q]
    IN  /\ r.pc = "act" /\ r.op = "delete"
        /\ princ' = [princ EXCEPT ![r.name] = [Absent EXCEPT !.cas = princ[r.name].cas + 1]]
        /\ request' = [request EXCEPT ![q] = IdleRequest]
        /\ lost' = {x \in lost : x[1] # r.name}
        /\ UNCHANGED <<docs, seq, reserved, requests, failures>>

-----------------------------------------------------------------------------

Step(q) ==
    \/ Load(q) \/ Rebuild(q) \/ Store(q)
    \/ NextInvalidation(q) \/ Invalidate(q) \/ GiveUp(q)
    \/ SavePrincipal(q) \/ NotSaved(q) \/ Delete(q)

(* Bound: a document grants channels to one principal, or roles.           *)
Grants ==
    {g \in [Principals -> SUBSET Channels] \X SUBSET Roles :
        /\ \A p, x \in Principals : g[1][p] # {} /\ g[1][x] # {} => p = x
        /\ g[2] # {} => \A p \in Principals : g[1][p] = {}}

Request(q) ==
    \/ \E p \in Principals : GetPrincipal(q, p) \/ DeletePrincipal(q, p)
    \/ \E p \in Principals : \E c \in SUBSET Channels :
           \E r \in IF p = User THEN SUBSET Roles ELSE {{}} : UpdatePrincipal(q, p, c, r)
    \/ \E d \in Docs : \E g \in Grants : SaveDocument(q, d, g[1], g[2]) \/ Resync(q, d, g[1], g[2])

AccessNext ==
    \/ Reserve
    \/ \E q \in Requests : Request(q) \/ Step(q) \/ Fail(q) \/ CrashDuring(q)

AccessSpec == AccessInit /\ [][AccessNext]_accessVars /\ \A q \in Requests : WF_accessVars(Step(q))

-----------------------------------------------------------------------------
(* PROPERTIES                                                              *)

AccessTypeOK ==
    /\ \A d \in Docs : /\ \A p \in Principals : IsTimedSet(docs[d].access[p], Channels)
                       /\ IsTimedSet(docs[d].roles, Roles)
    /\ \A p \in Principals :
        /\ IsTimedSet(princ[p].explicit, Channels) /\ IsTimedSet(princ[p].explicitRoles, Roles)
        /\ princ[p].channels = Nil \/ IsTimedSet(princ[p].channels, Channels)
        /\ princ[p].roles = Nil \/ IsTimedSet(princ[p].roles, Roles)
        /\ princ[p].seq \in 0..seq
    /\ seq \in 1..MaxSeq /\ reserved \subseteq 2..seq
    /\ \A q \in Requests :
        request[q].pc \in {"idle", "get", "rebuild", "store", "act", "next"}

(* A request still has to invalidate this set.                             *)
Pending(p, what) ==
    \E q \in Requests :
        /\ request[q].op = "invalidate"
        /\ \/ <<p, what>> \in request[q].todo
           \/ request[q].pc \notin {"idle", "next"} /\ request[q].name = p /\ request[q].what = what

(* The access a principal is stored with is exactly what its explicit      *)
(* grants and all documents grant, each channel since its earliest grant,  *)
(* whatever loads, updates and invalidations interleaved; unless it is     *)
(* marked invalid, an invalidation is still on its way, or one was lost:   *)
(* by a crash or an error nobody repeats it after, by MaxCasRetries CAS    *)
(* failures, by a resync, or for a principal created while a document      *)
(* granted it access.                                                      *)
AccessCurrent ==
    /\ AccessTypeOK
    /\ \A p \in Principals : princ[p].exists =>
        /\ \/ princ[p].channels = Nil \/ Pending(p, "channels") \/ <<p, "channels">> \in lost
           \/ princ[p].channels = RebuildChannels(p, princ[p].explicit)
        /\ \/ princ[p].roles = Nil \/ Pending(p, "roles") \/ <<p, "roles">> \in lost
           \/ princ[p].roles = RebuildRoles(p, princ[p].explicitRoles)

(* Only an administrator's request changes explicit grants: a load or an   *)
(* invalidation that holds an older copy of the principal never puts it    *)
(* back, nor does it bring a deleted principal back to life.               *)
ExplicitKept ==
    [][\A p \in Principals : princ'[p].exists =>
        \/ /\ princ[p].exists
           /\ princ'[p].explicit = princ[p].explicit /\ princ'[p].explicitRoles = princ[p].explicitRoles
        \/ \E q \in Requests : request[q].op = "update" /\ request[q].name = p
                               /\ request'[q] = IdleRequest]_accessVars

=============================================================================
