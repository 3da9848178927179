---------------------------- MODULE MCHttpServer ----------------------------
(***************************************************************************)
(* A small instance of HttpServer for TLC.                                 *)
(***************************************************************************)
EXTENDS HttpServer, TLC

CONSTANTS c1, c2, proxy, client, stranger, traced, malformed, good, bad, u1

UserOfGood == good :> u1

\* A request through the proxy, with a token and a body that fits, ...
Msg(method, path) ==
    [method |-> method, path |-> path, peer |-> proxy, forwarded |-> client,
     id |-> None, token |-> good, body |-> 1]

\* ... and its variations.
SomeRequests ==
    {Msg("OPTIONS", "/api/1/"),
     [Msg("HEAD", "/healthz") EXCEPT !.token = None, !.id = traced],
     [Msg("POST", "/healthz") EXCEPT !.forwarded = malformed],
     [Msg("GET", "/api/1/") EXCEPT !.id = malformed],
     [Msg("GET", "/api/1/") EXCEPT !.token = bad, !.peer = stranger],
     [Msg("POST", "/api/1/") EXCEPT !.body = 2],
     [Msg("POST", "/") EXCEPT !.body = Broken]}
=============================================================================
