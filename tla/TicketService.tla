---------------------------- MODULE TicketService ----------------------------
(***************************************************************************)
(* TicketService::issue, consume and revoke over the TTL store             *)
(* (crates/qingyin-security/src/ticket/service.rs, model.rs, codec.rs;     *)
(* principal.rs for who may hold a binding).                               *)
(*                                                                         *)
(* The service holds no lock of its own: each of its calls is a sequence   *)
(* of store operations with other callers between them.  A step of the     *)
(* service is a step of TtlStore joined with what the service does on the  *)
(* answer, so everything TtlStore guarantees holds here too.               *)
(*                                                                         *)
(* The service only ever compares the HMAC digest of a secret, so a secret *)
(* is modelled by its digest, which is also its store key.  Entropy is any *)
(* choice of digest: a collision is choosing one already in use.           *)
(***************************************************************************)
EXTENDS TtlStore

CONSTANTS Requests,     \* what callers ask a binding for, see ForContext
          TicketTtl,    \* TicketPolicy.ttl, in ticks
          NoTask

MAX_TICKET_GENERATION_ATTEMPTS == 4

\* TicketPolicy::new admits whole milliseconds only.
ASSUME PolicyAssumption ==
    /\ TicketTtl \in Ttls \ {0}
    /\ TicketTtl % TicksPerMilli = 0

VARIABLES task,         \* where each caller stands in a service call
          outcome,      \* what its last service call returned
          consumed      \* history: successful consumptions of each revision

ticketVars == <<task, outcome, consumed>>
allVars == <<vars, ticketVars>>

-----------------------------------------------------------------------------
(* Bindings *)

authorize_resource(context, scope) ==
    /\ "StreamConnect" \in context.scopes
    /\ context.tenant_scope = scope

\* TicketBinding::for_context refuses every other request.
for_context(q) ==
    [tenant_scope |-> q.target_scope, session_id |-> q.session_id,
     principal_digest |-> q.context.principal_digest,
     channel |-> q.channel, client_binding |-> q.client_binding]

Bindings == {for_context(q) : q \in {p \in Requests :
                                        authorize_resource(p.context, p.target_scope)}}

StoredTicket(b) == [lifecycle |-> "unused", binding |-> b]

\* The stored records are the only values this service puts in its namespace, and
\* the tenants of its bindings are those of the store.
ASSUME ValuesAssumption ==
    /\ Values = {StoredTicket(b) : b \in Bindings}
    /\ \A b \in Bindings : b.tenant_scope \in Scopes

ConsumedTicket == [tag : {"Consumed"}, binding : Bindings, slot : Slots,
                   revision : Revisions, expires_at : Times]

ASSUME NoTaskAssumption == NoTask \notin ConsumedTicket

\* Mutant: the client binding is not compared.
MatchesAnyClient(stored, expected) ==
    /\ stored.lifecycle = "unused"
    /\ [stored.binding EXCEPT !.client_binding = expected.client_binding] = expected

matches(stored, expected) ==
    /\ stored.lifecycle = "unused"
    /\ stored.binding.tenant_scope = expected.tenant_scope
    /\ stored.binding.session_id = expected.session_id
    /\ stored.binding.channel = expected.channel
    /\ stored.binding.principal_digest = expected.principal_digest
    /\ stored.binding.client_binding = expected.client_binding

-----------------------------------------------------------------------------
TicketInit ==
    /\ Init
    /\ task = [c \in Callers |-> NoTask]
    /\ outcome = [c \in Callers |-> NoTask]
    /\ consumed = [r \in Revisions |-> 0]

Continue(c, next) ==
    /\ task' = [task EXCEPT ![c] = next]
    /\ outcome' = [outcome EXCEPT ![c] = NoTask]
    /\ UNCHANGED consumed

Finish(c, result) ==
    /\ task' = [task EXCEPT ![c] = NoTask]
    /\ outcome' = [outcome EXCEPT ![c] = result]

Fail(c, error) == Finish(c, [tag |-> error]) /\ UNCHANGED consumed

At(c, where) == task[c] # NoTask /\ task[c].at = where

-----------------------------------------------------------------------------
(* issue *)

\* One turn of the loop up to the store's lock: a secret is drawn and the ttl
\* sampled.  `left` counts this attempt and those still allowed after it.
Draw(c, b, left) ==
    \/ \E digest \in Keys :
          /\ BeginPut(c, <<b.tenant_scope, digest>>, StoredTicket(b), TicketTtl)
          /\ Continue(c, [at |-> "put", binding |-> b, digest |-> digest, left |-> left])
    \/ /\ RefuseTtl(c, TicketTtl)
       /\ Fail(c, "EncodingFailure")
    \/ /\ Fail(c, "EntropyUnavailable")
       /\ UNCHANGED vars

issue(c, b) ==
    /\ task[c] = NoTask
    /\ Draw(c, b, MAX_TICKET_GENERATION_ATTEMPTS)

\* Mutant: the loop does not count its attempts.
CollideForever(c) ==
    Continue(c, [at |-> "draw", binding |-> task[c].binding, left |-> task[c].left])

\* Existing: the loop goes round, or the attempts are used up.
Collide(c) ==
    \/ /\ task[c].left > 1
       /\ Continue(c, [at |-> "draw", binding |-> task[c].binding,
                       left |-> task[c].left - 1])
    \/ /\ task[c].left = 1
       /\ Fail(c, "TicketCollision")

IssuePut(c) ==
    /\ At(c, "put")
    /\ put_if_absent(c)
    /\ \/ /\ reply'[c].tag = "Inserted"
          /\ Continue(c, [at |-> "inserted", binding |-> task[c].binding,
                          digest |-> task[c].digest, revision |-> reply'[c].revision])
       \/ /\ reply'[c].tag = "Existing"
          /\ Collide(c)
       \/ /\ reply'[c].tag = "Conflict"
          /\ Fail(c, "StateUnavailable")

IssueAgain(c) ==
    /\ At(c, "draw")
    /\ Draw(c, task[c].binding, task[c].left)

IssueReread(c) ==
    /\ At(c, "inserted")
    /\ BeginPlain(c, <<task[c].binding.tenant_scope, task[c].digest>>, "get")
    /\ Continue(c, [task[c] EXCEPT !.at = "reread"])

\* Mutant: issued_at is the time the entry was read back.
IssuedWhenRead(expires_at) == clock

IssuedAt(expires_at) == expires_at - AsMillis(TicketTtl)

\* The ticket handed out carries the store's expiry; issued_at is worked back
\* from it.  A missing entry, or another revision in its place, is an error.
IssueConfirm(c) ==
    /\ At(c, "reread")
    /\ get(c)
    /\ \/ /\ reply'[c].tag = "Some"
          /\ reply'[c].revision = task[c].revision
          /\ Finish(c, [tag |-> "Issued", binding |-> task[c].binding,
                        slot |-> reply'[c].slot, revision |-> task[c].revision,
                        issued_at |-> IssuedAt(reply'[c].expires_at),
                        expires_at |-> reply'[c].expires_at])
          /\ UNCHANGED consumed
       \/ /\ \/ reply'[c].tag = "None"
             \/ reply'[c].tag = "Some" /\ reply'[c].revision # task[c].revision
          /\ Fail(c, "StateUnavailable")

-----------------------------------------------------------------------------
(* consume and revoke *)

consume(c, b, digest) ==
    /\ task[c] = NoTask
    /\ BeginPlain(c, <<b.tenant_scope, digest>>, "get")
    /\ Continue(c, [at |-> "look", binding |-> b])

ConsumeLook(c) ==
    /\ At(c, "look")
    /\ get(c)
    /\ \/ /\ reply'[c].tag = "Some"
          /\ matches(reply'[c].value, task[c].binding)
          /\ Continue(c, [at |-> "matched", binding |-> task[c].binding,
                          entry |-> reply'[c]])
       \/ /\ \/ reply'[c].tag = "None"
             \/ reply'[c].tag = "Some" /\ ~matches(reply'[c].value, task[c].binding)
          /\ Fail(c, "TicketRejected")

ConsumeTry(c) ==
    /\ At(c, "matched")
    /\ BeginTake(c, task[c].entry.slot, task[c].entry.revision)
    /\ Continue(c, [task[c] EXCEPT !.at = "take"])

\* The taken value is matched once more; expires_at is the one read before.
ConsumeTake(c) ==
    /\ At(c, "take")
    /\ compare_and_take(c)
    /\ \/ /\ reply'[c].tag = "Taken"
          /\ matches(reply'[c].value, task[c].binding)
          /\ Finish(c, [tag |-> "Consumed", binding |-> task[c].binding,
                        slot |-> reply'[c].slot, revision |-> reply'[c].revision,
                        expires_at |-> task[c].entry.expires_at])
          /\ consumed' = [consumed EXCEPT ![reply'[c].revision] = @ + 1]
       \/ /\ \/ reply'[c].tag \in {"Missing", "RevisionMismatch"}
             \/ reply'[c].tag = "Taken" /\ ~matches(reply'[c].value, task[c].binding)
          /\ Fail(c, "TicketRejected")

revoke(c, s) ==
    /\ task[c] = NoTask
    /\ BeginPlain(c, s, "remove")
    /\ Continue(c, [at |-> "revoke"])

RevokeRemove(c) ==
    /\ At(c, "revoke")
    /\ remove(c)
    /\ Finish(c, [tag |-> IF reply'[c].tag = "Applied" THEN "Revoked" ELSE "NotRevoked"])
    /\ UNCHANGED consumed

-----------------------------------------------------------------------------
\* What a caller does once it is inside a service call.
Work(c) ==
    \/ IssuePut(c) \/ IssueAgain(c) \/ IssueReread(c) \/ IssueConfirm(c)
    \/ ConsumeLook(c) \/ ConsumeTry(c) \/ ConsumeTake(c)
    \/ RevokeRemove(c)

TicketNext ==
    \/ \E d \in Advances : advance(d) /\ UNCHANGED ticketVars
    \/ \E c \in Callers :
          \/ \E b \in Bindings : issue(c, b)
          \/ \E b \in Bindings, digest \in Keys : consume(c, b, digest)
          \/ \E s \in Slots : revoke(c, s)
          \/ Work(c)

TicketSpec == TicketInit /\ [][TicketNext]_allVars

\* Every thread inside a call is scheduled again and gets the lock in the end;
\* nothing makes a client start a call or time pass.
FairTicketSpec == TicketSpec /\ \A c \in Callers : WF_allVars(Work(c))

-----------------------------------------------------------------------------
\* A ticket is consumed at most once, only by the take that ended it, and never
\* when it was revoked or ran out.
ConsumedOnce ==
    \A r \in Revisions :
        /\ consumed[r] <= 1
        /\ consumed[r] = 1 <=> ledger[r].fate = "taken"

\* A live ticket leaves the store by a take only into the hands of a caller
\* whose binding is the one it was issued for: a wrong tenant, session,
\* principal, channel or client costs its owner nothing.
TakenOnlyByOwner ==
    [][\A r \in Revisions :
          (ledger[r].fate = "live" /\ ledger'[r].fate = "taken") =>
            \E c \in Callers :
                /\ outcome'[c] # NoTask /\ outcome'[c].tag = "Consumed"
                /\ outcome'[c].revision = r
                /\ StoredTicket(outcome'[c].binding) = ledger[r].value]_allVars

\* The validity a ticket states is the one the store enforces: its issue instant
\* is the clock sample the expiry was computed from, its slot and binding are
\* those of its revision, and as long as it lives the store holds that expiry.
IssuedIsBacked ==
    \A c \in Callers :
        (outcome[c] # NoTask /\ outcome[c].tag = "Issued") =>
            LET h == ledger[outcome[c].revision] IN
            /\ h.slot = outcome[c].slot
            /\ h.value = StoredTicket(outcome[c].binding)
            /\ h.granted = outcome[c].issued_at
            /\ h.fate = "live" =>
                  entries[h.slot].expires_at = outcome[c].expires_at

\* An issue that fails after it wrote the ticket leaves none behind: no session
\* can be entered with a ticket whose issuer was told it failed.
FailedIssueLeavesNoTicket ==
    [][\A c \in Callers :
          (At(c, "reread") /\ task'[c] = NoTask /\ outcome'[c].tag # "Issued")
          => ledger'[task[c].revision].fate # "live"]_allVars

\* Every call of the service returns, also when every digest drawn is taken.
CallsReturn == \A c \in Callers : task[c] # NoTask ~> task[c] = NoTask
=============================================================================
