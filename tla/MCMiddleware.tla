---------------------------- MODULE MCMiddleware ----------------------------
(* A small instance of Middleware for TLC.                                 *)
EXTENDS Middleware

MCRegistered == {RequestId, Auth, User(95)}
MCGroups == {<<>>, <<Auth>>, <<User(0)>>}
MCOwn == {<<>>, <<Session>>, <<User(100)>>, <<User(1), RequestId>>}

Request(scheme, secret) == [NoRequest EXCEPT !.scheme = scheme, !.secret = secret]
Client(name) == <<"client", name>>

MCRequests == {
    NoRequest,
    [Request("ApiKey", "key") EXCEPT !.id = Client(1), !.accept = "json"],
    [Request("Bearer", "token") EXCEPT !.cookies = <<Client(3), Client(2)>>, !.accept = "html"],
    Request("Bearer", "key"),
    Request("other", "token") }
=============================================================================
