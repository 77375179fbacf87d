--------------------------- MODULE MCTicketService ---------------------------
\* A small instance of TicketService: two bindings that differ in the client
\* they are tied to, and two requests that for_context refuses.
EXTENDS TicketService, TLC

CONSTANTS a, b, p1, p2, ses, asr, None, tls

Context(p, scope, scopes) ==
    [principal_digest |-> p, tenant_scope |-> scope, scopes |-> scopes]

Ask(context, scope, client) ==
    [context |-> context, target_scope |-> scope, session_id |-> ses,
     channel |-> asr, client_binding |-> client]

MCRequests ==
    {Ask(Context(p1, a, {"StreamConnect"}), a, None),
     Ask(Context(p1, a, {"StreamConnect"}), a, tls),
     Ask(Context(p2, a, {"SessionRead"}), a, None),
     Ask(Context(p1, b, {"StreamConnect"}), a, None)}

MCValues ==
    {StoredTicket([tenant_scope |-> a, session_id |-> ses, principal_digest |-> p1,
                   channel |-> asr, client_binding |-> client]) : client \in {None, tls}}

Symmetry == Permutations(Callers) \cup Permutations(Keys)
=============================================================================
