------------------------------ MODULE Middleware ------------------------------
(***************************************************************************)
(* The chain every HTTP request passes in one process (api/middleware.py,  *)
(* composed in app.py):                                                    *)
(*                                                                         *)
(*   RequestLogging -> CORS -> RateLimit -> Csrf -> ErrorEnvelope -> app   *)
(*                                                                         *)
(* The limiter keeps, for each client, the moments of the requests it let  *)
(* pass.  Moments are those of the process's monotonic clock.              *)
(***************************************************************************)
EXTENDS Integers, Sequences, FiniteSets, FiniteSetsExt

CONSTANTS
  Clients, Requests,
  Limit, Window,      \* rate_limit_requests, rate_limit_window_seconds
  AllowedOrigins,     \* {"*"} for any
  MaxMoment, MaxPassed  \* bounds of the model

Origins == {"none", "null", "own", "front", "other"}

MiddlewareAssumption ==
  /\ Limit \in Nat \ {0} /\ Window \in Nat \ {0}
  /\ AllowedOrigins \in {{"*"}, {"front"}}
  /\ MaxMoment \in Nat /\ MaxPassed \in Nat
  /\ Requests \subseteq [path : {"probe", "admin", "api"}, unsafe : BOOLEAN,
                         cookie : BOOLEAN, header : BOOLEAN, origin : Origins]

VARIABLES
  now,
  times,    \* _request_times by client
  passed,   \* history: moments at which a client's requests passed the limiter
  answer    \* the last answer: [status, request, headers]

vars == <<now, times, passed, answer>>

-----------------------------------------------------------------------------
(* RateLimitMiddleware                                                     *)

\* Health probes and the admin panel's static files.
Exempt(r) == r.path = "probe"

\* Moments that have left the window are dropped from the left.
Gone(client) == Max({n \in 0..Len(times[client]) : \A m \in 1..n : now - times[client][m] >= Window})
Kept(client) == SubSeq(times[client], Gone(client) + 1, Len(times[client]))

\* Mutant: one request too many.
Limited_Past(client) == Len(Kept(client)) > Limit
Limited(client) == Len(Kept(client)) >= Limit

-----------------------------------------------------------------------------
(* CsrfMiddleware                                                          *)

\* A form of the panel must come from the panel, where the browser says
\* where it comes from; "null" says nothing.
AdminOriginRefused(r) == r.origin \notin {"none", "null", "own"}

CsrfRejected(r) ==
  /\ r.unsafe
  /\ \/ r.path = "admin" /\ AdminOriginRefused(r)
     \/ /\ r.path # "admin" /\ r.cookie
        /\ \/ ~r.header
           \/ r.origin # "none" /\ AllowedOrigins # {"*"} /\ r.origin \notin AllowedOrigins

-----------------------------------------------------------------------------
(* The chain                                                               *)

\* Mutant: CORS inside of the limiter.
Chain_LimitFirst == <<"logging", "limit", "cors", "csrf", "envelope">>
\* add_middleware, in reverse: outermost first.
Chain == <<"logging", "cors", "limit", "csrf", "envelope">>

Foreign(r) == r.origin # "none" /\ (AllowedOrigins = {"*"} \/ r.origin \in AllowedOrigins)

\* Which layer answers by itself, and with what (preflights, which CORS
\* answers, are not among the requests); the innermost turns what
\* the app raises into a response.
Stops(layer, client, r) ==
  CASE layer = "limit" -> ~Exempt(r) /\ Limited(client)
    [] layer = "csrf" -> CsrfRejected(r)
    [] layer = "envelope" -> TRUE
    [] OTHER -> FALSE
Statuses(layer) ==
  CASE layer = "limit" -> {429} [] layer = "csrf" -> {403} [] OTHER -> {200, 500}

Answerer(client, r) ==
  CHOOSE n \in DOMAIN Chain :
    Stops(Chain[n], client, r) /\ \A m \in 1..(n - 1) : ~Stops(Chain[m], client, r)

\* The layers around it add their headers to whatever starts a response.
Headers(n, r) ==
  {"x-request-id" : m \in {m \in 1..(n - 1) : Chain[m] = "logging"}} \cup
  {"access-control" : m \in {m \in 1..(n - 1) : Chain[m] = "cors" /\ Foreign(r)}}

Receive(client, r) ==
  LET n == Answerer(client, r)
      counted == ~Exempt(r) /\ \E m \in 1..n : Chain[m] = "limit" IN
  /\ Len(passed[client]) < MaxPassed
  /\ times' = IF ~counted THEN times
              ELSE [times EXCEPT ![client] =
                      IF Limited(client) THEN Kept(client) ELSE Append(Kept(client), now)]
  /\ passed' = IF ~counted \/ Limited(client) THEN passed
               ELSE [passed EXCEPT ![client] = Append(@, now)]
  /\ \E status \in Statuses(Chain[n]) :
       answer' = [status |-> status, request |-> r, headers |-> Headers(n, r)]
  /\ UNCHANGED now

Tick ==
  /\ now < MaxMoment
  /\ now' = now + 1
  /\ UNCHANGED <<times, passed, answer>>

NoAnswer == [status |-> 0, request |-> [origin |-> "none"], headers |-> {"x-request-id"}]

\* A new process counts from nothing.
Restart ==
  /\ times' = [client \in Clients |-> <<>>]
  /\ passed' = [client \in Clients |-> <<>>] /\ answer' = NoAnswer
  /\ UNCHANGED now

Init ==
  /\ now = 0 /\ times = [client \in Clients |-> <<>>]
  /\ passed = [client \in Clients |-> <<>>] /\ answer = NoAnswer

Next ==
  \/ Tick \/ Restart
  \/ \E client \in Clients, r \in Requests : Receive(client, r)

Spec == Init /\ [][Next]_vars

-----------------------------------------------------------------------------
(* Properties                                                              *)

TypeOK ==
  /\ now \in 0..MaxMoment
  /\ \A client \in Clients :
       /\ \A n \in DOMAIN times[client] : times[client][n] \in 0..now
       /\ Len(times[client]) <= Limit
  /\ answer.status \in {0, 200, 403, 429, 500}

\* The limiter's promise, at every edge: within any span shorter than the
\* window no client passes it more than Limit times in one process.
WindowBound ==
  \A client \in Clients :
    LET p == passed[client] IN
    \A n \in DOMAIN p :
      Cardinality({m \in DOMAIN p : p[m] >= p[n] /\ p[m] - p[n] < Window}) <= Limit

\* The order of the chain (the comment at app.py's add_middleware): whoever
\* answers, limiter, guard or a failing app, the browser's headers are there
\* and the operator's id too; and a write the guard refused was counted,
\* unless it went to a path the limiter exempts.
ChainHolds ==
  /\ "x-request-id" \in answer.headers
  /\ Foreign(answer.request) => "access-control" \in answer.headers
  /\ answer.status = 403 /\ ~Exempt(answer.request) =>
       \E client \in Clients : passed[client] # <<>>
=============================================================================
