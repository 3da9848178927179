----------------------------- MODULE HttpServer -----------------------------
(***************************************************************************)
(* The HTTP server around the API handlers: server.Run and the middleware  *)
(* chain of server.buildHandler.  A request descends through the layers,   *)
(* outermost first; one of them answers it, and the answer (or a panic)    *)
(* passes the two layers that act on the way out, Recover and AccessLog,   *)
(* each of which sees the response through a statusRecorder of its own.    *)
(*                                                                         *)
(* The limiter (module RateLimit) and the handlers (module ConfigService)  *)
(* appear by their outcomes; a token stands for an Authorization header.   *)
(***************************************************************************)
EXTENDS Integers, Sequences, FiniteSets

CONSTANTS
    Conns,       \* client connections
    Requests,    \* the requests clients may send
    Addresses,   \* IP addresses
    Private,     \* those of defaultTrustedProxyCIDRs
    RequestIds,  \* well-formed X-Request-Id values
    UserOf,      \* token -> user, for the tokens of enabled users
    Statuses,    \* statuses of the API handlers
    BodyLimit,   \* DefaultMaxBodyBytes
    Broken,      \* a body that cannot be read
    None         \* an absent header, no user, no bucket

Users == {UserOf[t] : t \in DOMAIN UserOf}

VARIABLES
    run,         \* where server.Run is
    pc,          \* connection -> the layer its request has reached
    ex           \* connection -> its current or last exchange

vars == <<run, pc, ex>>

\* What of the header map matters here: X-Request-Id and the two sets of headers.
NoHeader == [security |-> FALSE, cors |-> FALSE, id |-> None]

\* An exchange before its request has met a layer.
Exchange(m) ==
    [m |-> m, addr |-> m.peer, id |-> None, user |-> None, bucket |-> None,
     header |-> NoHeader,                            \* header map of the response
     inner |-> FALSE,                                \* wroteHeader of Recover's recorder
     outer |-> [status |-> 200, wrote |-> FALSE],    \* AccessLog's recorder
     wire |-> [status |-> 0, header |-> NoHeader, authors |-> {}],
     panic |-> "no", log |-> <<>>]

Go(c, x, to) ==
    /\ pc' = [pc EXCEPT ![c] = to]
    /\ ex' = [ex EXCEPT ![c] = x]
    /\ UNCHANGED run
----------------------------------------------------------------------------
(***************************************************************************)
(* Writing a response.                                                     *)
(***************************************************************************)

\* net/http sends the status line and the header map as it is, once.
Send(x, code) ==
    IF x.wire.status # 0 THEN x
    ELSE [x EXCEPT !.wire = [status |-> code, header |-> x.header, authors |-> @.authors]]

\* Mutant of WriteHeader: the status is forwarded but not recorded.
WriteHeaderUnrecorded(x, code) == Send([x EXCEPT !.inner = TRUE], code)

\* WriteHeader of the two recorders, one around the other.
WriteHeader(x, code) ==
    IF x.inner THEN x
    ELSE Send([x EXCEPT !.inner = TRUE,
                        !.outer = IF @.wrote THEN @ ELSE [status |-> code, wrote |-> TRUE]],
              code)

\* Write: bytes of the body, by the layer they come from.
Write(x, author) == [x EXCEPT !.wire.authors = @ \cup {author}]

Reply(x, code, author) == Write(WriteHeader(x, code), author)
----------------------------------------------------------------------------
(***************************************************************************)
(* The way in.                                                             *)
(***************************************************************************)

Resting == {"idle", "done", "cut"}
Active(c) == pc[c] \notin Resting

\* The listener hands out connections; one kept alive outlives it.
Accepting == run \in {"serving", "broken"}

Accept(c, m) ==
    /\ Accepting
    /\ ~Active(c)
    /\ pc' = [pc EXCEPT ![c] = "headers"]
    /\ ex' = [ex EXCEPT ![c] = Exchange(m)]
    /\ UNCHANGED run

\* Mutant of SecurityHeaders: the headers are set after the chain has run.
SecurityHeadersLate(c) == pc[c] = "headers" /\ Go(c, ex[c], "cors")

SecurityHeaders(c) ==
    pc[c] = "headers" /\ Go(c, [ex[c] EXCEPT !.header.security = TRUE], "cors")

\* CORS answers a preflight itself.
CORS(c) ==
    /\ pc[c] = "cors"
    /\ LET x == [ex[c] EXCEPT !.header.cors = TRUE]
       IN  IF x.m.method = "OPTIONS"
           THEN Go(c, Send(x, 204), "finish")
           ELSE Go(c, x, "proxy")

\* The client's address: X-Forwarded-For if it parses and the peer is trusted.
ClientAddr(m) ==
    IF m.forwarded \in Addresses /\ m.peer \in Private THEN m.forwarded ELSE m.peer

TrustedProxy(c) == pc[c] = "proxy" /\ Go(c, [ex[c] EXCEPT !.addr = ClientAddr(ex[c].m)], "id")

\* newRequestID: nobody else's.
NewId(c) == [conn |-> c]

\* A connection has a peer, a handler a status; nothing is absent and present.
ASSUME HttpAssumption ==
    /\ \A m \in Requests : m.peer \in Addresses /\ m.body \in Nat \cup {Broken}
    /\ Statuses \subseteq Nat \ {0}
    /\ BodyLimit \in Nat
    /\ None \notin Users \cup RequestIds \cup {NewId(c) : c \in Conns}

RequestID(c) ==
    /\ pc[c] = "id"
    /\ LET given == ex[c].m.id
           id == IF given \in RequestIds THEN given ELSE NewId(c)
       IN  Go(c, [ex[c] EXCEPT !.id = id, !.header.id = id], "body")

\* MaxBodyBytes reads up to BodyLimit + 1 bytes before anything else runs.
BodyError(m) ==
    IF m.body = Broken THEN 400 ELSE IF m.body > BodyLimit THEN 413 ELSE 0

MaxBodyBytes(c) ==
    /\ pc[c] = "body"
    /\ LET code == BodyError(ex[c].m)
       IN  IF code = 0 THEN Go(c, ex[c], "auth")
           ELSE Go(c, Reply(ex[c], code, "body"), "recover")

\* Mutant of TimedOut: a server without ReadTimeout.
TimedOutNever(c) == FALSE

\* The client is slow; ReadTimeout ends the read.
TimedOut(c) == pc[c] = "body"

ReadTimeout(c) ==
    /\ TimedOut(c)
    /\ Go(c, Reply(ex[c], 400, "body"), "recover")

\* Mutant of Exempt: any path.
ExemptMethod(m) == m.method \in {"GET", "HEAD"}

\* routeAwareAuth: liveness probes need no token.
Exempt(m) == m.path = "/healthz" /\ m.method \in {"GET", "HEAD"}

Authenticate(c) ==
    /\ pc[c] = "auth"
    /\ LET m == ex[c].m
       IN  IF Exempt(m) THEN Go(c, ex[c], "limit")
           ELSE IF m.token \in DOMAIN UserOf
                THEN Go(c, [ex[c] EXCEPT !.user = UserOf[m.token]], "limit")
                ELSE Go(c, Reply(ex[c], 401, "auth"), "recover")

\* extractKey.
BucketKey(x) == IF x.user # None THEN x.user ELSE x.addr

\* The limiter admits the request or does not.
Limit(c) ==
    /\ pc[c] = "limit"
    /\ LET x == [ex[c] EXCEPT !.bucket = BucketKey(ex[c])]
       IN  \/ Go(c, x, "mux")
           \/ Go(c, Reply(x, 429, "limit"), "recover")

\* The two muxes; 404 stands for 405 too.
Mux(c) ==
    /\ pc[c] = "mux"
    /\ LET m == ex[c].m
       IN  IF m.path = "/api/1/" THEN Go(c, ex[c], "handler")
           ELSE IF Exempt(m) THEN Go(c, Reply(ex[c], 200, "healthz"), "recover")
           ELSE Go(c, Reply(ex[c], 404, "mux"), "recover")

\* An API handler: writeJSON writes the header, then the body.
Handle(c) ==
    \/ pc[c] = "handler" /\ \E code \in Statuses : Go(c, WriteHeader(ex[c], code), "respond")
    \/ pc[c] = "respond" /\ Go(c, Write(ex[c], "handler"), "return")
    \/ pc[c] = "return" /\ Go(c, ex[c], "recover")
----------------------------------------------------------------------------
(***************************************************************************)
(* The way out.                                                            *)
(***************************************************************************)

Inside == {"body", "auth", "limit", "mux", "handler", "respond", "return"}

\* Something below Recover panics, with http.ErrAbortHandler or another value.
Panic(c) ==
    /\ pc[c] \in Inside
    /\ \E kind \in {"panic", "abort"} :
         Go(c, [ex[c] EXCEPT !.panic = kind], "recover")

\* Mutant of Recovered: the error text is written in any case.
RecoveredLoudly(x) == Reply([x EXCEPT !.panic = "no"], 500, "recover")

\* A panic becomes a 500, unless the response has begun.
Recovered(x) ==
    LET y == [x EXCEPT !.panic = "no"]
    IN  IF x.inner THEN y ELSE Reply(y, 500, "recover")

\* Recover's deferred function; ErrAbortHandler passes it and AccessLog.
Recover(c) ==
    /\ pc[c] = "recover"
    /\ CASE ex[c].panic = "no" -> Go(c, ex[c], "log")
         [] ex[c].panic = "panic" -> Go(c, Recovered(ex[c]), "log")
         [] ex[c].panic = "abort" -> Go(c, ex[c], "finish")

\* AccessLog's record of the request.
Entry(x) == [status |-> x.outer.status, addr |-> x.addr, id |-> x.id]

AccessLog(c) ==
    pc[c] = "log" /\ Go(c, [ex[c] EXCEPT !.log = Append(@, Entry(ex[c]))], "finish")

\* net/http ends the response, or closes the connection if it was aborted.
Finish(c) == pc[c] = "finish" /\ Go(c, ex[c], "done")
----------------------------------------------------------------------------
(***************************************************************************)
(* server.Run.                                                             *)
(***************************************************************************)

To(from, to) == run = from /\ run' = to /\ UNCHANGED <<pc, ex>>

\* The context is cancelled: Shutdown stops accepting.
Cancelled == To("serving", "draining")

\* Mutant of Quiet: Close instead of Shutdown.
QuietAnyway == TRUE

Quiet == \A c \in Conns : ~Active(c)

\* Shutdown waits for the requests in flight, up to its timeout.
Drained == Quiet /\ To("draining", "returned")
DeadlineExpires == ~Quiet /\ To("draining", "expired")

\* Serve fails: Run returns without draining.
ServeFails == To("serving", "broken")

\* The process exits; what is in flight goes with it.
Exit ==
    /\ run \in {"returned", "expired", "broken"}
    /\ run' = "down"
    /\ pc' = [c \in Conns |-> IF Active(c) THEN "cut" ELSE pc[c]]
    /\ UNCHANGED ex

\* The supervisor starts it again.
Restart == To("down", "serving")
----------------------------------------------------------------------------
Init ==
    /\ run = "serving"
    /\ pc = [c \in Conns |-> "idle"]
    /\ ex = [c \in Conns |-> None]

\* What the server does with a request once it has its body, or gives up on it.
Layer(c) ==
    \/ SecurityHeaders(c) \/ CORS(c) \/ TrustedProxy(c) \/ RequestID(c) \/ ReadTimeout(c)
    \/ Authenticate(c) \/ Limit(c) \/ Mux(c) \/ Handle(c)
    \/ Recover(c) \/ AccessLog(c) \/ Finish(c)

Next ==
    \/ \E c \in Conns :
         (\E m \in Requests : Accept(c, m)) \/ Layer(c) \/ MaxBodyBytes(c) \/ Panic(c)
    \/ Cancelled \/ Drained \/ DeadlineExpires \/ ServeFails \/ Exit \/ Restart

Spec == Init /\ [][Next]_vars

\* Goroutines run, timers fire, and a process that has left Run exits.  A client
\* may never send the rest of its body.
Fairness ==
    /\ \A c \in Conns : WF_vars(Layer(c))
    /\ WF_vars(Drained \/ DeadlineExpires)
    /\ WF_vars(Exit)

FairSpec == Spec /\ Fairness
----------------------------------------------------------------------------
Layers == {"headers", "cors", "proxy", "id", "recover", "log", "finish"} \cup Inside
Ids == RequestIds \cup {NewId(c) : c \in Conns}
Response == [status : Nat,
             header : [security : BOOLEAN, cors : BOOLEAN, id : Ids \cup {None}],
             authors : SUBSET {"body", "auth", "limit", "mux", "healthz", "handler", "recover"}]

TypeOK ==
    /\ run \in {"serving", "draining", "returned", "expired", "broken", "down"}
    /\ pc \in [Conns -> Layers \cup Resting]
    /\ \A c \in Conns : pc[c] # "idle" =>
         /\ ex[c].m \in Requests /\ ex[c].addr \in Addresses
         /\ ex[c].user \in Users \cup {None}
         /\ ex[c].bucket \in Users \cup Addresses \cup {None}
         /\ ex[c].wire \in Response
         /\ ex[c].outer \in [status : Nat, wrote : BOOLEAN]
         /\ ex[c].panic \in {"no", "panic", "abort"}
         /\ Len(ex[c].log) <= 1

\* A request that the server finished has exactly one access record, with the
\* status that went over the wire, the id the response carries and the address the
\* request came from, wherever in the chain it was answered or a handler
\* panicked.  Excepted are preflights, which CORS answers outside of AccessLog,
\* and requests aborted with http.ErrAbortHandler.
RecordsTruthful ==
    \A c \in Conns : pc[c] = "done" /\ ex[c].m.method # "OPTIONS" /\ ex[c].panic = "no" =>
        /\ ex[c].log = <<[status |-> ex[c].wire.status, addr |-> ClientAddr(ex[c].m),
                          id |-> ex[c].wire.header.id]>>
        /\ ex[c].wire.header.id # None

\* Every response has the security and CORS headers: 204, 413, 401, 429 and the
\* 500 of a panic included (the order of the chain in buildHandler).
HeadersOnEveryResponse ==
    \A c \in Conns : pc[c] # "idle" /\ ex[c].wire.status # 0 =>
        ex[c].wire.header.security /\ ex[c].wire.header.cors

\* A response body is the work of one layer: the text of Recover is never appended
\* to a response that had begun when its handler panicked.
OneAuthor == \A c \in Conns : pc[c] # "idle" => Cardinality(ex[c].wire.authors) <= 1

\* What reaches an API handler was sent by a user, is charged to that user's
\* bucket, and has a body within the limit.
HandlerGuarded ==
    \A c \in Conns : pc[c] \in {"handler", "respond", "return"} =>
        /\ ex[c].user # None /\ ex[c].user = UserOf[ex[c].m.token]
        /\ ex[c].bucket = ex[c].user
        /\ ex[c].m.body \in 0..BodyLimit

\* A request is cut off only by an expired shutdown or a failed listener: a
\* shutdown that Run reports as complete loses none.
CutOnlyByForce ==
    [][\A c \in Conns : pc[c] # "cut" /\ pc'[c] = "cut" => run \in {"expired", "broken"}]_vars

\* Every request ends and every shutdown returns, even if a client stops in the
\* middle of its body.
EveryRequestEnds ==
    /\ \A c \in Conns : Active(c) ~> ~Active(c)
    /\ run = "draining" ~> run = "down"
=============================================================================
