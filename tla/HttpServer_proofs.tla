------------------------- MODULE HttpServer_proofs -------------------------
(***************************************************************************)
(* The middleware chain, for any number of connections, any requests and   *)
(* any handlers: what a request has behind it at each layer decides what   *)
(* its response and its access record say in the end.                      *)
(***************************************************************************)
EXTENDS HttpServer, FiniteSetTheorems, TLAPS

Headers == [security : BOOLEAN, cors : BOOLEAN, id : Ids \cup {None}]
Authors == {"body", "auth", "limit", "mux", "healthz", "handler", "recover"}

Exchanges ==
    [m : Requests, addr : Addresses, id : Ids \cup {None}, user : Users \cup {None},
     bucket : Users \cup Addresses \cup {None}, header : Headers, inner : BOOLEAN,
     outer : [status : Nat, wrote : BOOLEAN], wire : Response,
     panic : {"no", "panic", "abort"},
     log : Seq([status : Nat, addr : Addresses, id : Ids \cup {None}])]

\* Nobody has written anything.
Unwritten(x) ==
    /\ ~x.inner /\ ~x.outer.wrote
    /\ x.wire.status = 0 /\ x.wire.authors = {}
    /\ x.log = <<>>

Untouched(x) == Unwritten(x) /\ x.panic = "no"

\* Both recorders know the status on the wire, which went out with the headers.
Answered(x) ==
    /\ x.inner
    /\ x.outer = [status |-> x.wire.status, wrote |-> TRUE]
    /\ x.wire.header = x.header

\* The layers above Recover have done their part.
Named(x) ==
    /\ x.m.method # "OPTIONS"
    /\ x.header.security /\ x.header.cors
    /\ x.addr = ClientAddr(x.m)
    /\ x.id # None /\ x.header.id = x.id

Short(x) == x.m.body \in 0..BodyLimit
Known(x) == Exempt(x.m) \/ (x.user # None /\ x.user = UserOf[x.m.token])
Charged(x) == Short(x) /\ Known(x) /\ x.bucket = BucketKey(x)
Served(x) == Charged(x) /\ x.user # None /\ x.user = UserOf[x.m.token]

\* The one record that tells the truth about x.
Logged(x) ==
    /\ x.log = <<[status |-> x.wire.status, addr |-> ClientAddr(x.m),
                  id |-> x.wire.header.id]>>
    /\ x.wire.header.id # None

\* What an exchange has behind it at each layer.
OkIn(at, x) ==
    /\ at = "headers" => Untouched(x)
    /\ at = "cors" => Untouched(x) /\ x.header.security
    /\ at \in {"proxy", "id"} =>
         /\ Untouched(x) /\ x.header.security /\ x.header.cors
         /\ x.m.method # "OPTIONS"
    /\ at = "id" => x.addr = ClientAddr(x.m)
    /\ at \in {"body", "auth", "limit", "mux", "handler"} => Untouched(x) /\ Named(x)
    /\ at \in {"auth", "limit", "mux"} => Short(x)
    /\ at \in {"limit", "mux"} => Known(x)
    /\ at = "mux" => Charged(x)
    /\ at \in {"handler", "respond", "return"} => Served(x)

OkOut(at, x) ==
    /\ at \in {"respond", "return"} =>
         /\ Answered(x) /\ Named(x) /\ x.panic = "no" /\ x.log = <<>>
         /\ x.wire.authors \subseteq {"handler"}
    /\ at = "recover" =>
         /\ Named(x) /\ x.log = <<>>
         /\ Answered(x) \/ (x.panic # "no" /\ Unwritten(x))
    /\ at = "log" => Answered(x) /\ Named(x) /\ x.panic = "no" /\ x.log = <<>>
    /\ at \in {"finish", "done"} =>
         (x.m.method # "OPTIONS" /\ x.panic = "no" => Logged(x))

\* At every layer, and after.
Sound(x) ==
    /\ x \in Exchanges
    /\ x.wire.status # 0 => x.wire.header.security /\ x.wire.header.cors
    /\ \E a : x.wire.authors \subseteq {a}
    /\ Len(x.log) <= 1

Ok(at, x) == at = "idle" \/ (Sound(x) /\ OkIn(at, x) /\ OkOut(at, x))

Inv ==
    /\ pc \in [Conns -> Layers \cup Resting]
    /\ DOMAIN ex = Conns /\ ex = [c \in Conns |-> ex[c]]
    /\ \A c \in Conns : Ok(pc[c], ex[c])
----------------------------------------------------------------------------
\* The exchange x once its response has begun.
Begun(x, code, authors) ==
    [x EXCEPT !.inner = TRUE, !.outer = [status |-> code, wrote |-> TRUE],
              !.wire = [status |-> code, header |-> x.header, authors |-> authors]]

\* Its fields.
LEMMA BegunFields ==
    ASSUME NEW x \in Exchanges, NEW code \in Nat \ {0}, NEW authors \in SUBSET Authors
    PROVE  /\ Begun(x, code, authors) \in Exchanges
           /\ Begun(x, code, authors).inner
           /\ Begun(x, code, authors).outer = [status |-> code, wrote |-> TRUE]
           /\ Begun(x, code, authors).wire =
                [status |-> code, header |-> x.header, authors |-> authors]
           /\ Begun(x, code, authors).m = x.m
           /\ Begun(x, code, authors).addr = x.addr
           /\ Begun(x, code, authors).id = x.id
           /\ Begun(x, code, authors).user = x.user
           /\ Begun(x, code, authors).bucket = x.bucket
           /\ Begun(x, code, authors).header = x.header
           /\ Begun(x, code, authors).panic = x.panic
           /\ Begun(x, code, authors).log = x.log
BY Zenon DEF Begun, Exchanges, Response, Headers, Authors

\* The first WriteHeader reaches both recorders and the wire.
LEMMA WriteHeaderBegins ==
    ASSUME NEW x \in Exchanges, NEW code \in Nat \ {0}, Unwritten(x)
    PROVE  WriteHeader(x, code) = Begun(x, code, {})
<1> DEFINE y == [x EXCEPT !.inner = TRUE, !.outer = [status |-> code, wrote |-> TRUE]]
<1>1. WriteHeader(x, code) = Send(y, code)
  BY DEF WriteHeader, Unwritten
<1>2. y.wire = x.wire /\ y.header = x.header /\ x.wire.status = 0 /\ x.wire.authors = {}
  BY DEF Exchanges, Unwritten
<1>3. Send(y, code) =
        [y EXCEPT !.wire = [status |-> code, header |-> x.header, authors |-> {}]]
  BY <1>2, Zenon DEF Send
<1> QED BY <1>1, <1>3 DEF Begun, Exchanges

\* A layer that answers does both at once.
LEMMA ReplyBegins ==
    ASSUME NEW x \in Exchanges, NEW code \in Nat \ {0}, NEW author \in Authors, Unwritten(x)
    PROVE  Reply(x, code, author) = Begun(x, code, {author})
<1> DEFINE y == Begun(x, code, {})
           w == [status |-> code, header |-> x.header, authors |-> {author}]
<1>1. Reply(x, code, author) = Write(y, author)
  BY WriteHeaderBegins DEF Reply
<1>2. y.wire = [status |-> code, header |-> x.header, authors |-> {}]
  <2>1. {} \in SUBSET Authors
    OBVIOUS
  <2> QED BY <2>1, BegunFields, Zenon
<1>3. [y.wire EXCEPT !.authors = @ \cup {author}] = w
  BY <1>2
<1>4. Write(y, author) = [y EXCEPT !.wire = w]
  BY <1>3 DEF Write
<1> QED BY <1>1, <1>4, Zenon DEF Begun, Exchanges
----------------------------------------------------------------------------
\* One connection moves; the others keep what they have.
LEMMA GoKeeps ==
    ASSUME Inv, NEW c \in Conns, NEW x, NEW to \in Layers \cup Resting, Go(c, x, to), Ok(to, x)
    PROVE  Inv'
<1>1. pc' \in [Conns -> Layers \cup Resting]
  BY DEF Inv, Go
<1>2. DOMAIN ex' = Conns /\ ex' = [d \in Conns |-> ex'[d]]
  BY DEF Inv, Go
<1>3. ASSUME NEW d \in Conns PROVE Ok(pc'[d], ex'[d])
  <2>1. CASE d = c
    BY <2>1 DEF Inv, Go
  <2>2. CASE d # c
    BY <2>2 DEF Inv, Go
  <2> QED BY <2>1, <2>2
<1>4. (\A d \in Conns : Ok(pc[d], ex[d]))'
  BY <1>3, Zenon DEF Ok, OkIn, OkOut, Sound
<1> QED BY <1>1, <1>2, <1>4 DEF Inv

\* No connection moves.
LEMMA StutterKeeps ==
    ASSUME Inv, UNCHANGED <<pc, ex>>
    PROVE  Inv'
<1>1. ASSUME NEW d \in Conns PROVE Ok(pc'[d], ex'[d])
  BY DEF Inv
<1>2. (\A d \in Conns : Ok(pc[d], ex[d]))'
  BY <1>1 DEF Ok, OkIn, OkOut, Sound
<1> QED BY <1>2 DEF Inv

\* What an active exchange has behind it.
LEMMA ActiveOk ==
    ASSUME Inv, NEW c \in Conns, pc[c] # "idle"
    PROVE  Sound(ex[c]) /\ OkIn(pc[c], ex[c]) /\ OkOut(pc[c], ex[c])
BY DEF Inv, Ok

\* A layer that answers finds nothing written, and leaves one response.
LEMMA ReplyFacts ==
    ASSUME NEW x, Sound(x), Unwritten(x), Named(x),
           NEW code \in Nat \ {0}, NEW author \in Authors
    PROVE  /\ Sound(Reply(x, code, author))
           /\ Named(Reply(x, code, author))
           /\ Answered(Reply(x, code, author))
           /\ Reply(x, code, author).log = <<>>
           /\ Reply(x, code, author).panic = x.panic
<1> DEFINE y == Begun(x, code, {author})
<1>1. x \in Exchanges /\ Reply(x, code, author) = y
  BY ReplyBegins DEF Sound
<1>2. /\ y \in Exchanges /\ y.inner /\ y.outer = [status |-> code, wrote |-> TRUE]
      /\ y.wire = [status |-> code, header |-> x.header, authors |-> {author}]
      /\ y.m = x.m /\ y.addr = x.addr /\ y.id = x.id /\ y.header = x.header
      /\ y.panic = x.panic /\ y.log = x.log
  BY <1>1, BegunFields
<1> HIDE DEF y
<1>3. Sound(y)
  BY <1>2 DEF Sound, Named
<1>4. Named(y) /\ Answered(y) /\ y.log = <<>>
  BY <1>2 DEF Named, Answered, Unwritten
<1> QED BY <1>1, <1>2, <1>3, <1>4

\* Its answer goes to Recover.
LEMMA ReplyOk ==
    ASSUME NEW x, Sound(x), Unwritten(x), Named(x),
           NEW code \in Nat \ {0}, NEW author \in Authors
    PROVE  Ok("recover", Reply(x, code, author))
BY ReplyFacts DEF Ok, OkIn, OkOut
----------------------------------------------------------------------------
\* A request enters the chain.
LEMMA AcceptKeeps ==
    ASSUME Inv, NEW c \in Conns, NEW m \in Requests, Accept(c, m)
    PROVE  Inv'
<1> DEFINE x == Exchange(m)
<1>1. m.peer \in Addresses
  BY HttpAssumption
<1>2. x.wire = [status |-> 0, header |-> NoHeader, authors |-> {}]
  BY DEF Exchange
<1>3. x \in Exchanges
  BY <1>1 DEF Exchange, NoHeader, Exchanges, Headers, Response
<1>4. Untouched(x)
  BY DEF Exchange, Untouched, Unwritten
<1> HIDE DEF x
<1>5. Ok("headers", x)
  BY <1>2, <1>3, <1>4 DEF Ok, Sound, OkIn, OkOut, Untouched, Unwritten
<1>6. "headers" \in Layers
  BY DEF Layers
<1>7. Go(c, x, "headers")
  BY DEF Accept, Go, x
<1> QED BY <1>5, <1>6, <1>7, GoKeeps

\* SecurityHeaders and CORS set their headers before anything is written.
LEMMA HeadersKeep ==
    ASSUME Inv, NEW c \in Conns, SecurityHeaders(c) \/ CORS(c)
    PROVE  Inv'
<1> DEFINE x == ex[c]
<1>0. {"cors", "proxy", "finish"} \subseteq Layers
  BY DEF Layers
<1>1. CASE SecurityHeaders(c)
  <2> DEFINE y == [x EXCEPT !.header.security = TRUE]
  <2>1. pc[c] = "headers" /\ Go(c, y, "cors")
    BY <1>1 DEF SecurityHeaders
  <2>2. Sound(x) /\ Untouched(x)
    BY <2>1, ActiveOk DEF OkIn
  <2>3. /\ y \in Exchanges /\ y.header.security
        /\ y.inner = x.inner /\ y.outer = x.outer /\ y.wire = x.wire
        /\ y.panic = x.panic /\ y.log = x.log
    BY <2>2, Zenon DEF Sound, Exchanges, Headers
  <2> HIDE DEF y
  <2>4. Ok("cors", y)
    BY <2>2, <2>3 DEF Ok, Sound, OkIn, OkOut, Untouched, Unwritten
  <2> QED BY <1>0, <2>1, <2>4, GoKeeps
<1>2. CASE CORS(c)
  <2> DEFINE y == [x EXCEPT !.header.cors = TRUE]
             w == [status |-> 204, header |-> y.header, authors |-> {}]
             z == [y EXCEPT !.wire = w]
  <2>1. pc[c] = "cors"
    BY <1>2 DEF CORS
  <2>2. Sound(x) /\ Untouched(x) /\ x.header.security
    BY <2>1, ActiveOk DEF OkIn
  <2>3. /\ y \in Exchanges /\ y.header.security /\ y.header.cors
        /\ y.inner = x.inner /\ y.outer = x.outer /\ y.wire = x.wire
        /\ y.panic = x.panic /\ y.log = x.log /\ y.m = x.m
    BY <2>2, Zenon DEF Sound, Exchanges, Headers
  <2>4. IF y.m.method = "OPTIONS" THEN Go(c, Send(y, 204), "finish") ELSE Go(c, y, "proxy")
    BY <1>2 DEF CORS
  <2> HIDE DEF y
  <2>5. CASE y.m.method = "OPTIONS"
    <3>0. y.wire.status = 0 /\ y.wire.authors = {}
      BY <2>2, <2>3 DEF Untouched, Unwritten
    <3>1. Send(y, 204) = z
      BY <3>0 DEF Send
    <3>2. z \in Exchanges /\ z.wire = w /\ z.m = y.m /\ z.log = y.log
      <4>1. w \in Response
        BY <2>3 DEF Exchanges, Headers, Response
      <4> HIDE DEF w
      <4> QED BY <2>3, <4>1 DEF Exchanges
    <3> HIDE DEF z
    <3>3. Ok("finish", z)
      BY <2>2, <2>3, <2>5, <3>2 DEF Ok, Sound, OkIn, OkOut
    <3> QED BY <1>0, <2>4, <2>5, <3>1, <3>3, GoKeeps
  <2>6. CASE y.m.method # "OPTIONS"
    <3>1. Ok("proxy", y)
      BY <2>2, <2>3, <2>6 DEF Ok, Sound, OkIn, OkOut, Untouched, Unwritten
    <3> QED BY <1>0, <2>4, <2>6, <3>1, GoKeeps
  <2> QED BY <2>5, <2>6
<1> QED BY <1>1, <1>2

\* TrustedProxy and RequestID say who asks and name the request.
LEMMA NamesKeep ==
    ASSUME Inv, NEW c \in Conns, TrustedProxy(c) \/ RequestID(c)
    PROVE  Inv'
<1> DEFINE x == ex[c]
<1>0. {"id", "body"} \subseteq Layers
  BY DEF Layers, Inside
<1>1. CASE TrustedProxy(c)
  <2> DEFINE y == [x EXCEPT !.addr = ClientAddr(x.m)]
  <2>1. pc[c] = "proxy" /\ Go(c, y, "id")
    BY <1>1 DEF TrustedProxy
  <2>2. /\ Sound(x) /\ Untouched(x) /\ x.header.security /\ x.header.cors
        /\ x.m.method # "OPTIONS"
    BY <2>1, ActiveOk DEF OkIn
  <2>3. ClientAddr(x.m) \in Addresses
    BY <2>2, HttpAssumption DEF ClientAddr, Sound, Exchanges
  <2>4. /\ y \in Exchanges /\ y.addr = ClientAddr(x.m) /\ y.m = x.m /\ y.header = x.header
        /\ y.inner = x.inner /\ y.outer = x.outer /\ y.wire = x.wire
        /\ y.panic = x.panic /\ y.log = x.log
    BY <2>2, <2>3 DEF Sound, Exchanges
  <2> HIDE DEF y
  <2>5. Ok("id", y)
    BY <2>2, <2>4 DEF Ok, Sound, OkIn, OkOut, Untouched, Unwritten
  <2> QED BY <1>0, <2>1, <2>5, GoKeeps
<1>2. CASE RequestID(c)
  <2> DEFINE id == IF x.m.id \in RequestIds THEN x.m.id ELSE NewId(c)
             h == [x.header EXCEPT !.id = id]
             y == [x EXCEPT !.id = id, !.header = h]
  <2>1. pc[c] = "id"
    BY <1>2 DEF RequestID
  <2>2. /\ Sound(x) /\ Untouched(x) /\ x.header.security /\ x.header.cors
        /\ x.m.method # "OPTIONS" /\ x.addr = ClientAddr(x.m)
    BY <2>1, ActiveOk DEF OkIn
  <2>3. id \in Ids /\ id # None
    BY HttpAssumption DEF Ids
  <2>4. Go(c, y, "body")
    <3>1. [x EXCEPT !.id = id, !.header.id = id] = y
      BY <2>2 DEF Sound, Exchanges
    <3> QED BY <1>2, <3>1 DEF RequestID
  <2> HIDE DEF id
  <2>5. h \in Headers /\ h.id = id /\ h.security /\ h.cors
    BY <2>2, <2>3 DEF Sound, Exchanges, Headers
  <2> HIDE DEF h
  <2>6. /\ y \in Exchanges /\ y.addr = x.addr /\ y.m = x.m /\ y.header = h /\ y.id = id
        /\ y.inner = x.inner /\ y.outer = x.outer /\ y.wire = x.wire
        /\ y.panic = x.panic /\ y.log = x.log
    BY <2>2, <2>3, <2>5, Zenon DEF Sound, Exchanges
  <2> HIDE DEF y
  <2>7. Ok("body", y)
    BY <2>2, <2>3, <2>5, <2>6 DEF Ok, Sound, OkIn, OkOut, Untouched, Unwritten, Named
  <2> QED BY <1>0, <2>4, <2>7, GoKeeps
<1> QED BY <1>1, <1>2

\* MaxBodyBytes, Bearer, the limiter and the muxes answer, or let pass what they
\* vouch for.
LEMMA BodyKeeps ==
    ASSUME Inv, NEW c \in Conns, MaxBodyBytes(c) \/ ReadTimeout(c)
    PROVE  Inv'
<1> DEFINE x == ex[c]
           code == BodyError(x.m)
<1>0. {"auth", "recover"} \subseteq Layers /\ "body" \in Authors
  BY DEF Layers, Inside, Authors
<1>1. pc[c] = "body"
  BY DEF MaxBodyBytes, ReadTimeout, TimedOut
<1>2. Sound(x) /\ Untouched(x) /\ Named(x)
  BY <1>1, ActiveOk DEF OkIn
<1>3. code \in Nat /\ (code = 0 => Short(x))
  <2>1. x.m.body \in Nat \cup {Broken} /\ BodyLimit \in Nat
    BY <1>2, HttpAssumption DEF Sound, Exchanges
  <2> QED BY <2>1 DEF BodyError, Short
<1>4. CASE Go(c, x, "auth") /\ code = 0
  <2>1. Ok("auth", x)
    BY <1>2, <1>3, <1>4 DEF Ok, OkIn, OkOut
  <2> QED BY <1>0, <1>4, <2>1, GoKeeps
<1>5. ASSUME NEW status \in Nat \ {0}, Go(c, Reply(x, status, "body"), "recover") PROVE Inv'
  BY <1>0, <1>2, <1>5, ReplyOk, GoKeeps DEF Untouched
<1>6. CASE MaxBodyBytes(c)
  <2>1. IF code = 0 THEN Go(c, x, "auth") ELSE Go(c, Reply(x, code, "body"), "recover")
    BY <1>6 DEF MaxBodyBytes
  <2> HIDE DEF code
  <2> QED BY <1>3, <1>4, <1>5, <2>1
<1>7. CASE ReadTimeout(c)
  BY <1>5, <1>7 DEF ReadTimeout
<1> QED BY <1>6, <1>7

\* Bearer and routeAwareAuth.
LEMMA AuthKeeps ==
    ASSUME Inv, NEW c \in Conns, Authenticate(c)
    PROVE  Inv'
<1> DEFINE x == ex[c]
           y == [x EXCEPT !.user = UserOf[x.m.token]]
<1>0. {"limit", "recover"} \subseteq Layers /\ "auth" \in Authors
  BY DEF Layers, Inside, Authors
<1>1. pc[c] = "auth"
  BY DEF Authenticate
<1>2. Sound(x) /\ Untouched(x) /\ Named(x) /\ Short(x)
  BY <1>1, ActiveOk DEF OkIn
<1>3. CASE Go(c, x, "limit") /\ Exempt(x.m)
  <2>1. Ok("limit", x)
    BY <1>2, <1>3 DEF Ok, OkIn, OkOut, Known
  <2> QED BY <1>0, <1>3, <2>1, GoKeeps
<1>4. CASE Go(c, y, "limit") /\ x.m.token \in DOMAIN UserOf
  <2>1. UserOf[x.m.token] \in Users /\ None \notin Users
    BY <1>4, HttpAssumption DEF Users
  <2>2. /\ y \in Exchanges /\ y.user = UserOf[x.m.token] /\ y.user # None /\ y.m = x.m
        /\ y.addr = x.addr /\ y.id = x.id /\ y.header = x.header /\ y.inner = x.inner
        /\ y.outer = x.outer /\ y.wire = x.wire /\ y.panic = x.panic /\ y.log = x.log
    BY <1>2, <2>1 DEF Sound, Exchanges
  <2> HIDE DEF y
  <2>3. Ok("limit", y)
    BY <1>2, <2>2 DEF Ok, Sound, OkIn, OkOut, Untouched, Unwritten, Named, Short, Known
  <2> QED BY <1>0, <1>4, <2>3, GoKeeps
<1>5. CASE Go(c, Reply(x, 401, "auth"), "recover")
  BY <1>0, <1>2, <1>5, ReplyOk, GoKeeps DEF Untouched
<1> QED BY <1>3, <1>4, <1>5, Zenon DEF Authenticate

\* The limiter charges the user, or the address of a request without one.
LEMMA LimitKeeps ==
    ASSUME Inv, NEW c \in Conns, Limit(c)
    PROVE  Inv'
<1> DEFINE x == ex[c]
           y == [x EXCEPT !.bucket = BucketKey(x)]
<1>0. {"mux", "recover"} \subseteq Layers /\ "limit" \in Authors
  BY DEF Layers, Inside, Authors
<1>1. pc[c] = "limit"
  BY DEF Limit
<1>2. Sound(x) /\ Untouched(x) /\ Named(x) /\ Short(x) /\ Known(x)
  BY <1>1, ActiveOk DEF OkIn
<1>3. BucketKey(x) \in Users \cup Addresses \cup {None}
  BY <1>2 DEF BucketKey, Sound, Exchanges
<1>4. /\ y \in Exchanges /\ y.bucket = BucketKey(x) /\ y.m = x.m /\ y.user = x.user
      /\ y.addr = x.addr /\ y.id = x.id /\ y.header = x.header /\ y.inner = x.inner
      /\ y.outer = x.outer /\ y.wire = x.wire /\ y.panic = x.panic /\ y.log = x.log
  BY <1>2, <1>3 DEF Sound, Exchanges
<1>5. Go(c, y, "mux") \/ Go(c, Reply(y, 429, "limit"), "recover")
  BY DEF Limit
<1> HIDE DEF y
<1>6. Sound(y) /\ Untouched(y) /\ Named(y) /\ Charged(y)
  BY <1>2, <1>4 DEF Sound, Untouched, Unwritten, Named, Charged, Short, Known, BucketKey
<1>7. Ok("mux", y)
  BY <1>6 DEF Ok, OkIn, OkOut, Charged
<1>8. Ok("recover", Reply(y, 429, "limit"))
  BY <1>0, <1>6, ReplyOk DEF Untouched
<1> QED BY <1>0, <1>5, <1>7, <1>8, GoKeeps

\* Only a request of a user reaches an API handler.
LEMMA MuxKeeps ==
    ASSUME Inv, NEW c \in Conns, Mux(c)
    PROVE  Inv'
<1> DEFINE x == ex[c]
<1>0. {"handler", "recover"} \subseteq Layers /\ {"healthz", "mux"} \subseteq Authors
  BY DEF Layers, Inside, Authors
<1>1. pc[c] = "mux"
  BY DEF Mux
<1>2. Sound(x) /\ Untouched(x) /\ Named(x) /\ Charged(x)
  BY <1>1, ActiveOk DEF OkIn
<1>3. CASE Go(c, x, "handler") /\ x.m.path = "/api/1/"
  <2>1. Served(x)
    BY <1>2, <1>3 DEF Served, Charged, Known, Exempt
  <2>2. Ok("handler", x)
    BY <1>2, <2>1 DEF Ok, OkIn, OkOut
  <2> QED BY <1>0, <1>3, <2>2, GoKeeps
<1>4. ASSUME NEW code \in Nat \ {0}, NEW author \in Authors,
             Go(c, Reply(x, code, author), "recover")
      PROVE  Inv'
  BY <1>0, <1>2, <1>4, ReplyOk, GoKeeps DEF Untouched
<1>5. \/ Go(c, x, "handler") /\ x.m.path = "/api/1/"
      \/ Go(c, Reply(x, 200, "healthz"), "recover")
      \/ Go(c, Reply(x, 404, "mux"), "recover")
  BY Zenon DEF Mux
<1> QED BY <1>0, <1>3, <1>4, <1>5

\* writeJSON.
LEMMA HandleKeeps ==
    ASSUME Inv, NEW c \in Conns, Handle(c)
    PROVE  Inv'
<1> DEFINE x == ex[c]
<1>0. {"respond", "return", "recover"} \subseteq Layers
  BY DEF Layers, Inside
<1>1. ASSUME pc[c] = "handler", NEW code \in Statuses, Go(c, WriteHeader(x, code), "respond")
      PROVE  Inv'
  <2> DEFINE y == Begun(x, code, {})
  <2>1. Sound(x) /\ Untouched(x) /\ Named(x) /\ Served(x)
    BY <1>1, ActiveOk DEF OkIn
  <2>2. code \in Nat \ {0} /\ {} \in SUBSET Authors
    BY HttpAssumption
  <2>3. WriteHeader(x, code) = y
    BY <2>1, <2>2, WriteHeaderBegins DEF Sound, Untouched
  <2>4. /\ y \in Exchanges /\ y.inner /\ y.outer = [status |-> code, wrote |-> TRUE]
        /\ y.wire = [status |-> code, header |-> x.header, authors |-> {}]
        /\ y.m = x.m /\ y.addr = x.addr /\ y.id = x.id /\ y.user = x.user
        /\ y.bucket = x.bucket /\ y.header = x.header /\ y.panic = x.panic /\ y.log = x.log
    <3>1. x \in Exchanges
      BY <2>1 DEF Sound
    <3> QED BY <2>2, <3>1, Zenon DEF Begun, Exchanges, Response, Headers, Authors
  <2> HIDE DEF y
  <2>5. Sound(y)
    BY <2>1, <2>4 DEF Sound, Named
  <2>6. Answered(y) /\ Named(y) /\ y.panic = "no" /\ y.log = <<>> /\ y.wire.authors = {}
    BY <2>1, <2>4 DEF Answered, Named, Untouched, Unwritten
  <2>7. Served(y)
    BY <2>1, <2>4 DEF Served, Charged, Short, Known, BucketKey
  <2>8. Ok("respond", y)
    BY <2>5, <2>6, <2>7 DEF Ok, OkIn, OkOut
  <2> QED BY <1>0, <1>1, <2>3, <2>8, GoKeeps
<1>2. CASE pc[c] = "respond" /\ Go(c, Write(x, "handler"), "return")
  <2> DEFINE w == [x.wire EXCEPT !.authors = @ \cup {"handler"}]
             y == [x EXCEPT !.wire = w]
  <2>1. /\ Sound(x) /\ Served(x) /\ Answered(x) /\ Named(x) /\ x.panic = "no"
        /\ x.log = <<>> /\ x.wire.authors \subseteq {"handler"}
    BY <1>2, ActiveOk DEF OkIn, OkOut
  <2>2. Write(x, "handler") = y
    BY DEF Write
  <2>3. /\ w \in Response /\ w.status = x.wire.status /\ w.header = x.wire.header
        /\ w.authors \subseteq {"handler"}
    BY <2>1 DEF Sound, Exchanges, Response
  <2> HIDE DEF w
  <2>4. /\ y \in Exchanges /\ y.wire = w /\ y.inner = x.inner /\ y.outer = x.outer
        /\ y.m = x.m /\ y.addr = x.addr /\ y.id = x.id /\ y.user = x.user
        /\ y.bucket = x.bucket /\ y.header = x.header /\ y.panic = x.panic /\ y.log = x.log
    BY <2>1, <2>3 DEF Sound, Exchanges
  <2> HIDE DEF y
  <2>5. Sound(y) /\ Answered(y) /\ Named(y)
    BY <2>1, <2>3, <2>4, Zenon DEF Sound, Answered, Named
  <2>6. Served(y)
    BY <2>1, <2>4 DEF Served, Charged, Short, Known, BucketKey
  <2>7. Ok("return", y)
    BY <2>1, <2>3, <2>4, <2>5, <2>6 DEF Ok, OkIn, OkOut
  <2> QED BY <1>0, <1>2, <2>2, <2>7, GoKeeps
<1>3. CASE pc[c] = "return" /\ Go(c, x, "recover")
  <2>1. Sound(x) /\ Answered(x) /\ Named(x) /\ x.log = <<>>
    BY <1>3, ActiveOk DEF OkOut
  <2>2. Ok("recover", x)
    BY <2>1 DEF Ok, OkIn, OkOut
  <2> QED BY <1>0, <1>3, <2>2, GoKeeps
<1> QED BY <1>1, <1>2, <1>3 DEF Handle
----------------------------------------------------------------------------
\* A panic below Recover, and what Recover makes of it.
LEMMA RecoverKeeps ==
    ASSUME Inv, NEW c \in Conns, Panic(c) \/ Recover(c)
    PROVE  Inv'
<1> DEFINE x == ex[c]
<1>0. {"recover", "log", "finish"} \subseteq Layers /\ "recover" \in Authors
  BY DEF Layers, Authors
<1>1. ASSUME NEW kind \in {"no", "panic", "abort"}, x \in Exchanges
      PROVE  LET y == [x EXCEPT !.panic = kind]
             IN  /\ y \in Exchanges /\ y.panic = kind /\ y.m = x.m /\ y.addr = x.addr
                 /\ y.id = x.id /\ y.header = x.header /\ y.inner = x.inner
                 /\ y.outer = x.outer /\ y.wire = x.wire /\ y.log = x.log
  BY <1>1 DEF Exchanges
<1>2. ASSUME pc[c] \in Inside, NEW kind \in {"panic", "abort"},
             Go(c, [x EXCEPT !.panic = kind], "recover")
      PROVE  Inv'
  <2> DEFINE y == [x EXCEPT !.panic = kind]
  <2>1. Sound(x) /\ Named(x) /\ x.log = <<>> /\ (Answered(x) \/ Unwritten(x))
    BY <1>2, ActiveOk DEF Inside, OkIn, OkOut, Untouched, Unwritten
  <2>2. /\ y \in Exchanges /\ y.panic = kind /\ y.m = x.m /\ y.addr = x.addr
        /\ y.id = x.id /\ y.header = x.header /\ y.inner = x.inner
        /\ y.outer = x.outer /\ y.wire = x.wire /\ y.log = x.log
    BY <1>1, <2>1 DEF Sound
  <2> HIDE DEF y
  <2>3. Sound(y) /\ Named(y) /\ y.log = <<>> /\ (Answered(y) \/ Unwritten(y))
    BY <2>1, <2>2 DEF Sound, Named, Answered, Unwritten
  <2>4. Ok("recover", y)
    BY <2>2, <2>3 DEF Ok, OkIn, OkOut
  <2> QED BY <1>0, <1>2, <2>4, GoKeeps DEF y
<1>3. CASE Recover(c)
  <2> DEFINE y == [x EXCEPT !.panic = "no"]
  <2>1. pc[c] = "recover"
    BY <1>3 DEF Recover
  <2>2. /\ Sound(x) /\ Named(x) /\ x.log = <<>>
        /\ Answered(x) \/ (x.panic # "no" /\ Unwritten(x))
    BY <2>1, ActiveOk DEF OkOut
  <2>3. CASE x.panic = "no" /\ Go(c, x, "log")
    <3>1. Ok("log", x)
      BY <2>2, <2>3 DEF Ok, OkIn, OkOut
    <3> QED BY <1>0, <2>3, <3>1, GoKeeps
  <2>4. CASE x.panic = "panic" /\ Go(c, Recovered(x), "log")
    <3>1. /\ y \in Exchanges /\ y.panic = "no" /\ y.m = x.m /\ y.addr = x.addr
          /\ y.id = x.id /\ y.header = x.header /\ y.inner = x.inner
          /\ y.outer = x.outer /\ y.wire = x.wire /\ y.log = x.log
      BY <1>1, <2>2 DEF Sound
    <3>2. Recovered(x) = IF x.inner THEN y ELSE Reply(y, 500, "recover")
      BY DEF Recovered
    <3> HIDE DEF y
    <3>3. Sound(y) /\ Named(y) /\ y.log = <<>> /\ (Answered(y) \/ Unwritten(y))
      BY <2>2, <3>1 DEF Sound, Named, Answered, Unwritten
    <3>4. CASE x.inner
      <4>1. Answered(y)
        BY <3>1, <3>3, <3>4 DEF Unwritten
      <4>2. Ok("log", y)
        BY <3>1, <3>3, <4>1 DEF Ok, OkIn, OkOut
      <4> QED BY <1>0, <2>4, <3>2, <3>4, <4>2, GoKeeps
    <3>5. CASE ~x.inner
      <4> DEFINE z == Reply(y, 500, "recover")
      <4>1. Unwritten(y)
        BY <3>1, <3>3, <3>5 DEF Answered
      <4>2. Sound(z) /\ Named(z) /\ Answered(z) /\ z.log = <<>> /\ z.panic = "no"
        BY <1>0, <3>1, <3>3, <4>1, ReplyFacts
      <4> HIDE DEF z
      <4>3. Ok("log", z)
        BY <4>2 DEF Ok, OkIn, OkOut
      <4> QED BY <1>0, <2>4, <3>2, <3>5, <4>3, GoKeeps DEF z
    <3> QED BY <3>4, <3>5
  <2>5. CASE x.panic = "abort" /\ Go(c, x, "finish")
    <3>1. Ok("finish", x)
      BY <2>2, <2>5 DEF Ok, OkIn, OkOut
    <3> QED BY <1>0, <2>5, <3>1, GoKeeps
  <2>6. x.panic \in {"no", "panic", "abort"}
    BY <2>2 DEF Sound, Exchanges
  <2> QED BY <1>3, <2>3, <2>4, <2>5, <2>6, Zenon DEF Recover
<1> QED BY <1>2, <1>3 DEF Panic

\* AccessLog, and the end of the response.
LEMMA LogKeeps ==
    ASSUME Inv, NEW c \in Conns, AccessLog(c) \/ Finish(c)
    PROVE  Inv'
<1> DEFINE x == ex[c]
<1>0. {"finish", "done"} \subseteq Layers \cup Resting
  BY DEF Layers, Resting
<1>1. CASE AccessLog(c)
  <2> DEFINE e == Entry(x)
             y == [x EXCEPT !.log = Append(@, e)]
  <2>1. pc[c] = "log" /\ Go(c, y, "finish")
    BY <1>1 DEF AccessLog
  <2>2. Sound(x) /\ Answered(x) /\ Named(x) /\ x.log = <<>>
    BY <2>1, ActiveOk DEF OkOut
  <2>3. /\ e = [status |-> x.wire.status, addr |-> ClientAddr(x.m), id |-> x.wire.header.id]
        /\ e \in [status : Nat, addr : Addresses, id : Ids \cup {None}]
        /\ x.wire.header.id # None
    BY <2>2 DEF Entry, Sound, Answered, Named, Exchanges, Headers
  <2> HIDE DEF e
  <2>4. Append(x.log, e) = <<e>>
    BY <2>2
  <2>5. /\ <<e>> \in Seq([status : Nat, addr : Addresses, id : Ids \cup {None}])
        /\ Len(<<e>>) = 1
    BY <2>3
  <2>6. y \in Exchanges /\ y.log = <<e>> /\ y.wire = x.wire /\ y.m = x.m
    BY <2>2, <2>4, <2>5, Zenon DEF Sound, Exchanges
  <2> HIDE DEF y
  <2>7. Ok("finish", y)
    <3>1. Len(y.log) <= 1
      BY <2>5, <2>6
    <3>2. Sound(y)
      BY <2>2, <2>6, <3>1, Zenon DEF Sound
    <3>3. Logged(y)
      BY <2>3, <2>6, Zenon DEF Logged
    <3> QED BY <3>2, <3>3 DEF Ok, OkIn, OkOut
  <2> QED BY <1>0, <2>1, <2>7, GoKeeps
<1>2. CASE Finish(c)
  <2>1. pc[c] = "finish" /\ Go(c, x, "done")
    BY <1>2 DEF Finish
  <2>2. Ok("done", x)
    BY <2>1, ActiveOk DEF Ok, OkIn, OkOut
  <2> QED BY <1>0, <2>1, <2>2, GoKeeps
<1> QED BY <1>1, <1>2

\* What server.Run does leaves the exchanges alone; an exit cuts them off.
LEMMA RunKeeps ==
    ASSUME Inv, Cancelled \/ Drained \/ DeadlineExpires \/ ServeFails \/ Exit \/ Restart
    PROVE  Inv'
<1>1. CASE Exit
  <2>1. pc' = [c \in Conns |-> IF Active(c) THEN "cut" ELSE pc[c]] /\ ex' = ex
    BY <1>1 DEF Exit
  <2>2. pc' \in [Conns -> Layers \cup Resting]
    BY <2>1 DEF Inv, Resting
  <2>3. ASSUME NEW c \in Conns PROVE Ok(pc'[c], ex'[c])
    <3>1. CASE Active(c)
      <4>1. pc'[c] = "cut" /\ pc[c] # "idle"
        BY <2>1, <3>1 DEF Active, Resting
      <4>2. Ok("cut", ex[c])
        BY <4>1, ActiveOk DEF Ok, OkIn, OkOut
      <4> QED BY <2>1, <4>1, <4>2
    <3>2. CASE ~Active(c)
      BY <2>1, <3>2 DEF Inv
    <3> QED BY <3>1, <3>2
  <2>4. (\A c \in Conns : Ok(pc[c], ex[c]))'
    BY <2>3, Zenon DEF Ok, OkIn, OkOut, Sound
  <2> QED BY <2>1, <2>2, <2>4 DEF Inv
<1>2. CASE UNCHANGED <<pc, ex>>
  BY <1>2, StutterKeeps
<1> QED BY <1>1, <1>2 DEF Cancelled, Drained, DeadlineExpires, ServeFails, Restart, To

\* The invariant holds in every state.
LEMMA ChainInvariant == Spec => []Inv
<1>1. Init => Inv
  <2> SUFFICES ASSUME Init PROVE Inv
    OBVIOUS
  <2>1. pc \in [Conns -> Layers \cup Resting] /\ DOMAIN ex = Conns /\ ex = [c \in Conns |-> ex[c]]
    BY DEF Init, Resting
  <2> QED BY <2>1 DEF Init, Inv, Ok
<1>2. Inv /\ [Next]_vars => Inv'
  <2> SUFFICES ASSUME Inv, [Next]_vars PROVE Inv'
    OBVIOUS
  <2>1. ASSUME NEW c \in Conns, Layer(c) \/ MaxBodyBytes(c) \/ Panic(c) PROVE Inv'
    BY <2>1, HeadersKeep, NamesKeep, BodyKeeps, AuthKeeps, LimitKeeps, MuxKeeps, HandleKeeps,
       RecoverKeeps, LogKeeps DEF Layer
  <2>2. CASE UNCHANGED vars
    BY <2>2, StutterKeeps DEF vars
  <2> QED BY <2>1, <2>2, AcceptKeeps, RunKeeps DEF Next
<1> QED BY <1>1, <1>2, PTL DEF Spec

\* For any requests, handlers and panics, the access record of a finished request
\* says what went over the wire and who asked (AccessLog around Recover, a
\* statusRecorder for each).
THEOREM RecordsAreTruthful == Spec => []RecordsTruthful
<1>1. Inv => RecordsTruthful
  <2> SUFFICES ASSUME Inv, NEW c \in Conns, pc[c] = "done", ex[c].m.method # "OPTIONS",
                      ex[c].panic = "no"
               PROVE  Logged(ex[c])
    BY DEF RecordsTruthful, Logged
  <2> QED BY ActiveOk DEF OkOut
<1> QED BY <1>1, ChainInvariant, PTL

\* Whatever layer answers, the response has the security and CORS headers.
THEOREM ResponsesHaveHeaders == Spec => []HeadersOnEveryResponse
<1>1. Inv => HeadersOnEveryResponse
  BY ActiveOk DEF HeadersOnEveryResponse, Sound
<1> QED BY <1>1, ChainInvariant, PTL

\* For any requests, handlers and panics, at most one layer writes to the body of
\* a response: Recover adds nothing to one that had begun.
THEOREM ResponsesHaveOneAuthor == Spec => []OneAuthor
<1>1. Inv => OneAuthor
  <2> SUFFICES ASSUME Inv, NEW c \in Conns, pc[c] # "idle"
               PROVE  Cardinality(ex[c].wire.authors) <= 1
    BY DEF OneAuthor
  <2>1. Sound(ex[c])
    BY ActiveOk
  <2>2. PICK a : ex[c].wire.authors \subseteq {a}
    BY <2>1 DEF Sound
  <2>3. IsFiniteSet({a}) /\ Cardinality({a}) = 1
    BY FS_Singleton, Zenon
  <2>4. Cardinality(ex[c].wire.authors) <= Cardinality({a})
    BY <2>2, <2>3, FS_Subset
  <2> QED BY <2>3, <2>4
<1> QED BY <1>1, ChainInvariant, PTL

\* What reaches an API handler has a user, is charged to that user, and has a
\* body within the limit, for any requests (the order of buildHandler).
THEOREM HandlersAreGuarded == Spec => []HandlerGuarded
<1>1. Inv => HandlerGuarded
  <2> SUFFICES ASSUME Inv, NEW c \in Conns, pc[c] \in {"handler", "respond", "return"}
               PROVE  /\ ex[c].user # None /\ ex[c].user = UserOf[ex[c].m.token]
                      /\ ex[c].bucket = ex[c].user
                      /\ ex[c].m.body \in 0..BodyLimit
    BY DEF HandlerGuarded
  <2>1. Served(ex[c])
    BY ActiveOk DEF OkIn
  <2> QED BY <2>1 DEF Served, Charged, Short, BucketKey
<1> QED BY <1>1, ChainInvariant, PTL
----------------------------------------------------------------------------
(***************************************************************************)
(* server.Run: what a shutdown leaves behind.                              *)
(***************************************************************************)

\* Once Shutdown has returned without an error there is no request left, and
\* none can come.
RunInv ==
    /\ run \in {"serving", "draining", "returned", "expired", "broken", "down"}
    /\ run = "returned" => Quiet

\* The chain takes a step only with a request, to another layer or to its end,
\* and run is none of its business.
LEMMA LayersGo ==
    ASSUME Inv, NEW c \in Conns, Layer(c) \/ MaxBodyBytes(c) \/ Panic(c)
    PROVE  /\ Active(c)
           /\ run' = run
           /\ \E to \in Layers \cup {"done"} : pc' = [pc EXCEPT ![c] = to]
<1> DEFINE Moves == \E to \in Layers \cup {"done"} : pc' = [pc EXCEPT ![c] = to]
<1>0. Layers \cap Resting = {} /\ Inside \subseteq Layers
  BY DEF Layers, Inside, Resting
<1>1. ASSUME NEW x, NEW to \in Layers \cup {"done"}, Go(c, x, to)
      PROVE  run' = run /\ Moves
  BY <1>1, Zenon DEF Go
<1> SUFFICES Active(c) /\ run' = run /\ Moves
  BY DEF Moves
<1> HIDE DEF Moves
<1>2. CASE SecurityHeaders(c)
  <2>1. pc[c] \in Layers
    BY <1>0, <1>2 DEF SecurityHeaders, Layers, Inside
  <2>2. run' = run /\ Moves
    BY <1>1, <1>2 DEF SecurityHeaders, Layers, Inside
  <2> QED BY <1>0, <2>1, <2>2 DEF Active
<1>3. CASE CORS(c)
  <2>1. pc[c] \in Layers
    BY <1>0, <1>3 DEF CORS, Layers, Inside
  <2>2. run' = run /\ Moves
    BY <1>1, <1>3 DEF CORS, Layers, Inside
  <2> QED BY <1>0, <2>1, <2>2 DEF Active
<1>4. CASE TrustedProxy(c)
  <2>1. pc[c] \in Layers
    BY <1>0, <1>4 DEF TrustedProxy, Layers, Inside
  <2>2. run' = run /\ Moves
    BY <1>1, <1>4 DEF TrustedProxy, Layers, Inside
  <2> QED BY <1>0, <2>1, <2>2 DEF Active
<1>5. CASE RequestID(c)
  <2>1. pc[c] \in Layers
    BY <1>0, <1>5 DEF RequestID, Layers, Inside
  <2>2. run' = run /\ Moves
    BY <1>1, <1>5 DEF RequestID, Layers, Inside
  <2> QED BY <1>0, <2>1, <2>2 DEF Active
<1>6. CASE ReadTimeout(c)
  <2>1. pc[c] \in Layers
    BY <1>0, <1>6 DEF ReadTimeout, Layers, Inside, TimedOut
  <2>2. run' = run /\ Moves
    BY <1>1, <1>6 DEF ReadTimeout, Layers, Inside
  <2> QED BY <1>0, <2>1, <2>2 DEF Active
<1>7. CASE Authenticate(c)
  <2>1. pc[c] \in Layers
    BY <1>0, <1>7 DEF Authenticate, Layers, Inside
  <2>2. run' = run /\ Moves
    BY <1>1, <1>7 DEF Authenticate, Layers, Inside
  <2> QED BY <1>0, <2>1, <2>2 DEF Active
<1>8. CASE Limit(c)
  <2>1. pc[c] \in Layers
    BY <1>0, <1>8 DEF Limit, Layers, Inside
  <2>2. run' = run /\ Moves
    BY <1>1, <1>8 DEF Limit, Layers, Inside
  <2> QED BY <1>0, <2>1, <2>2 DEF Active
<1>9. CASE Mux(c)
  <2>1. pc[c] \in Layers
    BY <1>0, <1>9 DEF Mux, Layers, Inside
  <2>2. run' = run /\ Moves
    BY <1>1, <1>9 DEF Mux, Layers, Inside
  <2> QED BY <1>0, <2>1, <2>2 DEF Active
<1>10. CASE Handle(c)
  <2>1. pc[c] \in Layers
    BY <1>0, <1>10 DEF Handle, Layers, Inside
  <2>2. run' = run /\ Moves
    BY <1>1, <1>10 DEF Handle, Layers, Inside
  <2> QED BY <1>0, <2>1, <2>2 DEF Active
<1>11. CASE Recover(c)
  <2>1. pc[c] \in Layers
    BY <1>0, <1>11 DEF Recover, Layers, Inside
  <2>2. run' = run /\ Moves
    <3>1. ex[c].panic \in {"no", "panic", "abort"}
      BY <2>1, <1>0, ActiveOk DEF Sound, Exchanges, Resting
    <3> QED BY <3>1, <1>1, <1>11 DEF Recover, Layers, Inside
  <2> QED BY <1>0, <2>1, <2>2 DEF Active
<1>12. CASE AccessLog(c)
  <2>1. pc[c] \in Layers
    BY <1>0, <1>12 DEF AccessLog, Layers, Inside
  <2>2. run' = run /\ Moves
    BY <1>1, <1>12 DEF AccessLog, Layers, Inside
  <2> QED BY <1>0, <2>1, <2>2 DEF Active
<1>13. CASE Finish(c)
  <2>1. pc[c] \in Layers
    BY <1>0, <1>13 DEF Finish, Layers, Inside
  <2>2. run' = run /\ Moves
    BY <1>1, <1>13 DEF Finish, Layers, Inside
  <2> QED BY <1>0, <2>1, <2>2 DEF Active
<1>14. CASE MaxBodyBytes(c)
  <2>1. pc[c] \in Layers
    BY <1>0, <1>14 DEF MaxBodyBytes, Layers, Inside
  <2>2. run' = run /\ Moves
    BY <1>1, <1>14 DEF MaxBodyBytes, Layers, Inside
  <2> QED BY <1>0, <2>1, <2>2 DEF Active
<1>15. CASE Panic(c)
  <2>1. pc[c] \in Layers
    BY <1>0, <1>15 DEF Panic, Layers, Inside
  <2>2. run' = run /\ Moves
    BY <1>1, <1>15 DEF Panic, Layers, Inside
  <2> QED BY <1>0, <2>1, <2>2 DEF Active
<1> QED BY <1>2, <1>3, <1>4, <1>5, <1>6, <1>7, <1>8, <1>9, <1>10, <1>11, <1>12, <1>13, <1>14, <1>15
        DEF Layer

\* A shutdown reported as complete has nothing in flight, until the process exits.
LEMMA RunInvariant == Spec => []RunInv
<1>1. Init => RunInv
  BY DEF Init, RunInv
<1>2. Inv /\ RunInv /\ [Next]_vars => RunInv'
  <2> SUFFICES ASSUME Inv, RunInv, [Next]_vars PROVE RunInv'
    OBVIOUS
  <2>1. ASSUME NEW c \in Conns, Layer(c) \/ MaxBodyBytes(c) \/ Panic(c) PROVE RunInv'
    BY <2>1, LayersGo DEF RunInv, Quiet
  <2>2. ASSUME NEW c \in Conns, NEW m \in Requests, Accept(c, m) PROVE RunInv'
    BY <2>2 DEF Accept, Accepting, RunInv
  <2>3. CASE Drained
    BY <2>3 DEF Drained, To, RunInv, Quiet, Active
  <2>4. CASE Cancelled \/ DeadlineExpires \/ ServeFails \/ Exit \/ Restart
    BY <2>4 DEF Cancelled, DeadlineExpires, ServeFails, Exit, Restart, To, RunInv
  <2>5. CASE UNCHANGED vars
    BY <2>5 DEF vars, RunInv, Quiet, Active
  <2> QED BY <2>1, <2>2, <2>3, <2>4, <2>5 DEF Next
<1> QED BY <1>1, <1>2, ChainInvariant, PTL DEF Spec

\* For any number of connections, only an expired deadline or a failed listener
\* cuts a request off: a shutdown that Run reports as complete loses none
\* (Shutdown waits, then Run returns nil).
THEOREM ShutdownCutsNothing == Spec => CutOnlyByForce
<1> DEFINE Cut(c) == pc[c] # "cut" /\ pc'[c] = "cut"
<1>1. Inv /\ RunInv /\ [Next]_vars =>
        [\A c \in Conns : Cut(c) => run \in {"expired", "broken"}]_vars
  <2> SUFFICES ASSUME Inv, RunInv, Next, NEW c \in Conns, Cut(c)
               PROVE  run \in {"expired", "broken"}
    OBVIOUS
  <2>1. CASE Exit
    <3>1. Active(c)
      BY <2>1 DEF Exit
    <3>2. run # "returned"
      BY <3>1 DEF RunInv, Quiet
    <3> QED BY <2>1, <3>2 DEF Exit
  <2>2. ASSUME NEW d \in Conns, Layer(d) \/ MaxBodyBytes(d) \/ Panic(d) PROVE FALSE
    <3>1. PICK to \in Layers \cup {"done"} : pc' = [pc EXCEPT ![d] = to]
      BY <2>2, LayersGo
    <3>2. to # "cut"
      BY DEF Layers, Inside
    <3> QED BY <3>1, <3>2 DEF Inv
  <2>3. ASSUME NEW d \in Conns, NEW m \in Requests, Accept(d, m) PROVE FALSE
    BY <2>3 DEF Accept, Inv
  <2>4. CASE Cancelled \/ Drained \/ DeadlineExpires \/ ServeFails \/ Restart
    BY <2>4 DEF Cancelled, Drained, DeadlineExpires, ServeFails, Restart, To
  <2> QED BY <2>1, <2>2, <2>3, <2>4 DEF Next
<1> QED BY <1>1, ChainInvariant, RunInvariant, PTL DEF Spec, CutOnlyByForce

\* The exchanges keep their types, and no request is ever recorded twice.
THEOREM ExchangesTyped == Spec => []TypeOK
<1>1. Inv /\ RunInv => TypeOK
  <2> SUFFICES ASSUME Inv, RunInv, NEW c \in Conns, pc[c] # "idle"
               PROVE  /\ ex[c].m \in Requests /\ ex[c].addr \in Addresses
                      /\ ex[c].user \in Users \cup {None}
                      /\ ex[c].bucket \in Users \cup Addresses \cup {None}
                      /\ ex[c].wire \in Response
                      /\ ex[c].outer \in [status : Nat, wrote : BOOLEAN]
                      /\ ex[c].panic \in {"no", "panic", "abort"}
                      /\ Len(ex[c].log) <= 1
    BY DEF TypeOK, Inv, RunInv
  <2>1. Sound(ex[c])
    BY ActiveOk
  <2> QED BY <2>1 DEF Sound, Exchanges
<1> QED BY <1>1, ChainInvariant, RunInvariant, PTL
=============================================================================
