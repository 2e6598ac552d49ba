----------------------------- MODULE Middleware -----------------------------
(***************************************************************************)
(* What happens in a matched route of mycppwebfw: the global middlewares   *)
(* and those of the route, sorted by priority (the handler match_route()   *)
(* returns, routing/router.cpp), run as a MiddlewareChain with the error   *)
(* handler, request-id, auth and session middlewares of middleware/, and   *)
(* middlewares of the application's own.                                   *)
(*                                                                         *)
(* A chain runs on one thread's stack: a frame for every middleware that   *)
(* has been called and has not returned, and at last one for the handler   *)
(* of the route.  The requests are those of one thread, one after another; *)
(* other threads share with it only the API keys.                          *)
(***************************************************************************)
EXTENDS Integers, Sequences, FiniteSets, SequencesExt, TLC

CONSTANTS
    Registered,   \* middlewares use() is called with
    Groups,       \* the middlewares of a route's groups, from the outermost
    Own,          \* the middlewares given to add_route()
    Requests,     \* requests: their Authorization, X-Request-ID, Cookie and Accept headers,
                  \* of Cookie the values of the pairs named session_id
    Keys,         \* keys that can be added to the registry
    Token,        \* the token that JwtParser verifies
    MaxGlobals,   \* bound: the global middlewares
    MaxRequests   \* bound: the requests

Kinds == {"errors", "request_id", "auth", "session", "user"}
ErrorHandler == [kind |-> "errors", priority |-> 100]
RequestId == [kind |-> "request_id", priority |-> 90]
Auth == [kind |-> "auth", priority |-> 0]
Session == [kind |-> "session", priority |-> 0]
User(priority) == [kind |-> "user", priority |-> priority]

Middlewares == [kind : Kinds, priority : Int]

\* What requests are made of; they come without X-Session-ID.
Arriving == [scheme : {r.scheme : r \in Requests}, secret : {r.secret : r \in Requests},
             id : {r.id : r \in Requests}, cookies : {r.cookies : r \in Requests},
             accept : {r.accept : r \in Requests}, sessions : {<<>>}]

ASSUME MiddlewareAssumption ==
    /\ \A mws \in Groups \cup Own : mws \in Seq(Middlewares)
    /\ Registered \subseteq Middlewares
    /\ Requests \subseteq Arriving
    /\ \A r \in Requests : r.cookies \in Seq(ToSet(r.cookies))
    /\ MaxGlobals \in Nat /\ MaxRequests \in Nat

VARIABLES
    globals,    \* m_global_middlewares
    keys,       \* keys_ of the ApiKeyRegistry
    current,    \* current_request_id
    generated,  \* how many identifiers have been generated
    req, res,   \* the request and the response
    chain,      \* m_middlewares
    index,      \* m_current_middleware_index
    stack,      \* the frames
    raised,     \* the exception that is unwinding them
    thrown,     \* the frames when an exception was last thrown for this request
    again,      \* a middleware of this request has called next more than once
    before,     \* how many identifiers had been generated before this request
    handled     \* the requests so far

vars == <<globals, keys, current, generated, req, res, chain, index, stack, raised, thrown, again,
          before, handled>>

None == <<>>   \* no header, no identifier

\* Nothing sets the status of a new Response.
NewResponse == [status |-> "unset", ids |-> <<>>, cookies |-> <<>>, types |-> <<>>]
NoRequest == [scheme |-> "none", secret |-> "", id |-> None, cookies |-> <<>>, accept |-> "text",
              sessions |-> <<>>]

Init ==
    /\ globals = <<ErrorHandler>>
    /\ keys = {}
    /\ current = None
    /\ generated = 0
    /\ req = NoRequest
    /\ res = NewResponse
    /\ chain = <<>> /\ index = 0 /\ stack = <<>>
    /\ raised = "no" /\ thrown = <<>> /\ again = FALSE
    /\ before = 0 /\ handled = 0

-----------------------------------------------------------------------------
(* The chain.                                                              *)

Before(a, b) == a.priority < b.priority

\* Groups hand theirs down to the route, the outer before the inner.
RouteMiddlewares(group, own) == group \o own

\* Said of functions too, since the prover knows Permutations of TLC by name only.
Rearrangements(places) == Permutations(places) \cap [places -> places]

\* std::sort leaves middlewares of one priority in any order.
Sorted(mws) ==
    {c \in {[i \in DOMAIN mws |-> mws[p[i]]] : p \in Rearrangements(DOMAIN mws)} :
        \A i, j \in DOMAIN c : i < j => ~Before(c[j], c[i])}

\* The frame after all middlewares is the handler's.
Handler == Len(chain) + 1
Idle == stack = <<>>
Top == Last(stack)

BugMoreToRun(i) == i <= Len(chain)

MoreToRun(i) == i < Len(chain)

\* next(), called by the middleware in the top frame.
CallNext ==
    /\ index' = IF MoreToRun(index) THEN index + 1 ELSE index
    /\ stack' = Append([stack EXCEPT ![Len(stack)].calls = @ + 1],
                       [at |-> IF MoreToRun(index) THEN index + 1 ELSE Handler, calls |-> 0])
    /\ again' = (again \/ Top.calls > 0)
    /\ UNCHANGED <<globals, keys, chain, raised, thrown, before, handled>>

Return ==
    /\ stack' = Front(stack)
    /\ UNCHANGED <<globals, keys, current, generated, req, chain, index, thrown, again, before,
                   handled>>

Running == ~Idle /\ raised = "no"
In(kind) == Running /\ Top.at # Handler /\ chain[Top.at].kind = kind
InHandler == Running /\ Top.at = Handler

-----------------------------------------------------------------------------
(* The application and its clients.                                        *)

Use(mw) ==
    /\ Idle /\ Len(globals) < MaxGlobals
    /\ globals' = Append(globals, mw)
    /\ UNCHANGED <<keys, current, generated, req, res, chain, index, stack, raised, thrown, again,
                   before, handled>>

\* At any time, also while requests are being handled.
AddKey(key) ==
    /\ key \notin keys
    /\ keys' = keys \cup {key}
    /\ UNCHANGED <<globals, current, generated, req, res, chain, index, stack, raised, thrown,
                   again, before, handled>>

Receive(r, group, own) ==
    /\ Idle /\ handled < MaxRequests
    /\ req' = r /\ res' = NewResponse
    /\ chain' \in Sorted(globals \o RouteMiddlewares(group, own))
    /\ index' = 1 /\ stack' = <<[at |-> 1, calls |-> 0]>>
    /\ raised' = "no" /\ thrown' = <<>> /\ again' = FALSE
    /\ before' = generated /\ handled' = handled + 1
    /\ UNCHANGED <<globals, keys, current, generated>>

-----------------------------------------------------------------------------
(* The middlewares of the framework.  Each calls next() at most once, and  *)
(* returns when that has returned.                                         *)

ErrorHandlerCalls ==
    /\ In("errors") /\ Top.calls = 0
    /\ CallNext
    /\ UNCHANGED <<current, generated, req, res>>

\* Random, and taken not to repeat.
Generated == <<"generated", generated + 1>>
Generate(needed) == generated' = IF needed THEN generated + 1 ELSE generated

BugRequestIdOf(r) ==
    IF r.id # None THEN r.id ELSE IF current # None THEN current ELSE Generated

RequestIdOf(r) == IF r.id # None THEN r.id ELSE Generated

RequestIdCalls ==
    /\ In("request_id") /\ Top.calls = 0
    /\ current' = RequestIdOf(req)
    /\ Generate(req.id = None)
    /\ res' = [res EXCEPT !.ids = Append(@, current')]
    /\ CallNext
    /\ UNCHANGED req

verify(token) == token = Token
is_valid(key) == key \in keys

BugAuthorised(r) ==
    \/ r.scheme = "Bearer"
    \/ r.scheme = "ApiKey" /\ is_valid(r.secret)

Authorised(r) ==
    \/ r.scheme = "Bearer" /\ verify(r.secret)
    \/ r.scheme = "ApiKey" /\ is_valid(r.secret)

AuthCalls ==
    /\ In("auth") /\ Top.calls = 0 /\ Authorised(req)
    /\ CallNext
    /\ UNCHANGED <<current, generated, req, res>>

AuthDenies ==
    /\ In("auth") /\ Top.calls = 0 /\ ~Authorised(req)
    /\ res' = [res EXCEPT !.status = "unauthorized"]
    /\ Return
    /\ UNCHANGED raised

\* parse_cookies() keeps the last value of a name.
HasSession(r) == r.cookies # <<>>
SessionOf(r) == IF HasSession(r) THEN Last(r.cookies) ELSE Generated

SessionCalls ==
    LET session == SessionOf(req)
    IN /\ In("session") /\ Top.calls = 0
       /\ Generate(~HasSession(req))
       /\ res' = IF HasSession(req) THEN res ELSE [res EXCEPT !.cookies = Append(@, session)]
       /\ req' = [req EXCEPT !.sessions = Append(@, session)]
       /\ CallNext
       /\ UNCHANGED current

Returns ==
    /\ Running /\ ~InHandler /\ Top.calls > 0
    /\ Return
    /\ UNCHANGED <<res, raised>>

-----------------------------------------------------------------------------
(* The middlewares of the application, which call next() any number of     *)
(* times up to two, and the handler of the route; both may throw.          *)

UserCalls ==
    /\ In("user") /\ Top.calls < 2
    /\ CallNext
    /\ UNCHANGED <<current, generated, req, res>>

UserStops ==
    /\ In("user") /\ Top.calls = 0
    /\ Return
    /\ UNCHANGED <<res, raised>>

HandlerResponds ==
    /\ InHandler
    /\ res' = [res EXCEPT !.status = "ok", !.types = Append(@, "html")]
    /\ Return
    /\ UNCHANGED raised

\* The frame that throws is left like the others, by the unwinding.
Throws(e) ==
    /\ In("user") \/ InHandler
    /\ raised' = e /\ thrown' = stack
    /\ UNCHANGED <<globals, keys, current, generated, req, res, chain, index, stack, again, before,
                   handled>>

-----------------------------------------------------------------------------
(* Unwinding.                                                              *)

BugCatches(e) == e = "std"

Catches(e) == e \in {"std", "other"}

AtErrorHandler == Top.at # Handler /\ chain[Top.at].kind = "errors"

Unwind ==
    /\ ~Idle /\ raised # "no"
    /\ ~(AtErrorHandler /\ Catches(raised))
    /\ Return
    /\ UNCHANGED <<res, raised>>

\* What a handler has put into the headers stays there.
render(response, accept) ==
    [response EXCEPT !.status = "internal_server_error", !.types = Append(@, accept)]

Catch ==
    /\ ~Idle /\ raised # "no"
    /\ AtErrorHandler /\ Catches(raised)
    /\ res' = render(res, req.accept)
    /\ raised' = "no"
    /\ Return

Next ==
    \/ \E mw \in Registered : Use(mw)
    \/ \E key \in Keys : AddKey(key)
    \/ \E r \in Requests, group \in Groups, own \in Own : Receive(r, group, own)
    \/ ErrorHandlerCalls \/ RequestIdCalls \/ AuthCalls \/ AuthDenies \/ SessionCalls \/ Returns
    \/ UserCalls \/ UserStops \/ HandlerResponds
    \/ \E e \in {"std", "other"} : Throws(e)
    \/ Unwind \/ Catch

Spec == Init /\ [][Next]_vars

-----------------------------------------------------------------------------
(* The position in the chain, which all frames share, stays in the chain,  *)
(* and frames are stacked in the order of the chain.                       *)
TypeOK ==
    /\ globals \in Seq(Middlewares) /\ chain \in Seq(Middlewares)
    /\ keys \subseteq Keys
    /\ index \in 0..Len(chain)
    /\ \A i \in DOMAIN stack : stack[i].at \in 1..Handler /\ stack[i].calls \in 0..2
    /\ \A i, j \in DOMAIN stack : i < j => stack[i].at < stack[j].at
    /\ raised \in {"no", "std", "other"}

Frames(kind) == {i \in DOMAIN stack : stack[i].at # Handler /\ chain[stack[i].at].kind = kind}

(* The handler of a route runs with the consent of everybody: if none of   *)
(* the middlewares that are running has called next() again, each one of   *)
(* the chain is on the stack, in the order of the priorities, and where an *)
(* auth middleware is among them the request carries a valid credential.   *)
(* One that does call next() again resumes the chain where it had stopped, *)
(* past those that refused.                                                *)
HandlerIsGated ==
    InHandler /\ (\A i \in DOMAIN stack : stack[i].calls <= 1) =>
        /\ Len(stack) = Handler
        /\ \A i \in DOMAIN chain : i + 1 \in DOMAIN chain => chain[i].priority <= chain[i + 1].priority
        /\ Frames("auth") # {} =>
              \/ req.scheme = "Bearer" /\ req.secret = Token
              \/ req.scheme = "ApiKey" /\ req.secret \in keys

Behind(p) == \E i \in DOMAIN chain : i < p /\ chain[i].kind = "errors"

(* An exception leaves the route exactly if it was thrown before the error *)
(* handler in the chain, where middlewares of a lower priority are: one    *)
(* thrown behind it has become a 500 in the form the request accepts.      *)
ExceptionsAreReported ==
    Idle /\ ~again /\ thrown # <<>> =>
        IF Behind(Last(thrown).at)
        THEN raised = "no" /\ res.status = "internal_server_error" /\ Last(res.types) = req.accept
        ELSE raised # "no"

OwnId(id) == id[1] = "generated" /\ id[2] > before

(* What a handler sees of the request's identity is this request's own,    *)
(* and what the client is told: current_request_id, thread-local and never *)
(* cleared, and X-Session-ID, unless the session middleware runs twice.    *)
IdentityIsOwn ==
    InHandler =>
        /\ Frames("request_id") # {} =>
              /\ current = Last(res.ids)
              /\ IF req.id # None THEN current = req.id ELSE OwnId(current)
        /\ Frames("session") # {} /\ Len(req.sessions) = 1 =>
              IF req.cookies # <<>>
              THEN Head(req.sessions) = Last(req.cookies) /\ res.cookies = <<>>
              ELSE OwnId(Head(req.sessions)) /\ res.cookies = req.sessions
=============================================================================
