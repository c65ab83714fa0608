----------------------------- MODULE WebRequests -----------------------------
(***************************************************************************)
(* HTTP requests to a server of web modules: what the client sends, the     *)
(* middleware that finds out the caller, the controller, the checks of the  *)
(* module and of its service, and the store a service runs in. What the     *)
(* services then do is another module's.                                    *)
(*                                                                         *)
(* What runs between two awaits is one action. Times are in units of the    *)
(* token lifetimes; a body is abstracted to what the checks tell apart.     *)
(***************************************************************************)
EXTENDS Naturals, Sequences, SequencesExt

CONSTANTS
  Requests,
  Inputs,       \* what clients may ask for, see InputOf
  Controllers,  \* a sequence of [urls, module]; module NoModule: of the server itself
  Services,     \* Services[m][s]: the supportedCallers of service s of module m
  Commands,     \* the services that run in a TransactionStrategy
  RunMode,      \* "test", "dev" or "prod"
  Lifetime,     \* of an access token
  RefreshLifetime,
  ClientShift,  \* expiredTimeShiftAsMs of the front end's decoder; 0 on the server
  MaxTime,      \* bound
  NoModule, NoToken, None

VARIABLES
  now,
  input,    \* input[r]: what the client of r asked for
  pc,       \* where the promise chain of fetch stands
  caller,   \* caller[r]: what InjectCallerMiddleware wrote to r
  stack,    \* stack[r]: the services in progress, a module's call of another on top
  store,    \* store[r]: the callers in the payloads of the stores they run in
  thrown,   \* thrown[r]: the error on its way up the stack
  answer,   \* answer[r]: status and name of the error
  ran       \* history: the services that ran, with the caller they ran for

web == <<now, input, pc, caller, stack, store, thrown, answer, ran>>

Scope == INSTANCE CommandScope WITH
  Keys <- {}, Writes <- [r \in Requests |-> <<>>], Seed <- NoModule

Anonymous == [type |-> "AnonymousUser"]
DomainUser(user) == [type |-> "DomainUser", user |-> user]

Goto(r, from, to) == pc[r] = from /\ pc' = [pc EXCEPT ![r] = to]

WebInit ==
  /\ now = 0
  /\ input = [r \in Requests |-> None]
  /\ pc = [r \in Requests |-> "idle"]
  /\ caller = [r \in Requests |-> None]
  /\ stack = [r \in Requests |-> <<>>]
  /\ store = [r \in Requests |-> <<>>]
  /\ thrown = [r \in Requests |-> None]
  /\ answer = [r \in Requests |-> None]
  /\ ran = {}

-------------------------------------------------------------------------------
\* Tokens.

Sign(payload, secret) == [payload |-> payload, sign |-> secret]

CreateToken(user, typ, at, secret) ==
  Sign([user |-> user, typ |-> typ,
        exp |-> at + (IF typ = "access" THEN Lifetime ELSE RefreshLifetime)], secret)

\* A token is good up to and including the time it expires.
DateIsExpired(token, shift) == now + shift > token.payload.exp

\* What decodeJwt makes something of.
IsDecoded(token) == token.payload.typ \in {"access", "refresh"}

GetTokenPayload(token) ==
  IF ~IsDecoded(token) THEN "IncorrectTokenError"
  ELSE IF DateIsExpired(token, 0) THEN "TokenExpiredError"
  ELSE IF token.payload.user = None THEN "NotValidTokenPayloadError"
  ELSE "ok"

Verify(token, secret) == token.sign = secret

VerifyToken(token) ==
  IF ~Verify(token, "serverSecret") THEN "JwtVerifyError" ELSE GetTokenPayload(token)

-------------------------------------------------------------------------------
\* The client.

\* JwtBackendApi refuses an expired token, and otherwise calls request of BackendApi,
\* which has no token to pass to getRequestBody. Other clients send what they have.
Authorization(in) == IF in.client = "jwtApi" THEN NoToken ELSE in.token

Send(r) ==
  \E in \in Inputs :
    /\ pc[r] = "idle"
    /\ input' = [input EXCEPT ![r] = in]
    /\ IF in.client = "jwtApi" /\ in.token # NoToken /\ DateIsExpired(in.token, ClientShift)
       THEN /\ Goto(r, "idle", "answered")
            /\ answer' = [answer EXCEPT ![r] = [status |-> 0, name |-> "TokenExpiredError"]]
       ELSE /\ Goto(r, "idle", "sent")
            /\ UNCHANGED answer
    /\ UNCHANGED <<now, caller, stack, store, thrown, ran>>

-------------------------------------------------------------------------------
\* The server.

STATUS_CODES ==
  [name \in {"Not found", "Permission denied", "Internal error"} |->
     CASE name = "Not found" -> 404
       [] name = "Permission denied" -> 403
       [] name = "Internal error" -> 500]

\* InjectCallerMiddleware: its answer, and the caller it writes to the request.
Verified(token) == IF token = NoToken THEN "ok" ELSE VerifyToken(token)

InjectCaller(token) ==
  CASE Verified(token) # "ok" -> None
    [] token = NoToken -> Anonymous
    [] token # NoToken /\ Verified(token) = "ok" -> DomainUser(token.payload.user)

FailureStatus(name) == IF name \in DOMAIN STATUS_CODES THEN STATUS_CODES[name] ELSE 400

Answer(r, name) ==
  /\ pc' = [pc EXCEPT ![r] = "answered"]
  /\ answer' = [answer EXCEPT ![r] =
       [status |-> IF name = "ok" THEN 200 ELSE FailureStatus(name), name |-> name]]

\* The catch block of fetch: in mode test the error goes on to whoever called it.
CatchOfFetch(r) ==
  IF RunMode = "test" THEN pc' = [pc EXCEPT ![r] = "rejected"] /\ UNCHANGED answer
  ELSE Answer(r, "Internal error")

\* setControllerUrls: of several controllers with one url the last one is registered.
ControllerOf(path) ==
  LET having == SelectSeq(Controllers, LAMBDA c : path \in c.urls)
  IN IF having = <<>> THEN None ELSE Last(having)

\* The middleware, the routing and the synchronous part of the controller.
Fetch(r) ==
  LET token == Authorization(input[r])
      verified == Verified(token)
      controller == ControllerOf(input[r].path)
  IN /\ pc[r] = "sent"
     /\ caller' = [caller EXCEPT ![r] = InjectCaller(token)]
     /\ CASE verified # "ok" -> Answer(r, verified)
          [] verified = "ok" /\ controller = None -> Answer(r, "Not found")
          [] verified = "ok" /\ controller # None /\ controller.module = NoModule ->
               Answer(r, "ok")
          [] OTHER ->
               IF input[r].method # "POST" THEN Answer(r, "Bad request")
               ELSE Goto(r, "sent", "body") /\ UNCHANGED answer
     /\ UNCHANGED <<now, input, stack, store, thrown, ran>>

-------------------------------------------------------------------------------
\* Services.

\* getInputData: json; checkInputData: an object with attrs and the meta of a request or
\* an event.
IsJson(body) == body.kind # "notJson"
IsInputDod(body) == body.kind = "inputDod"

ModuleOf(service) == CHOOSE m \in DOMAIN Services : service \in DOMAIN Services[m]

GetService(module, name) == {s \in DOMAIN Services[module] : s = name}

\* Of a service that is not there: a failure for a request, an error for an event.
CatchServiceTypeError(body) == IF body.domainType = "request" THEN "Bad request" ELSE "error"

CheckCallerPermission(module, service, who) == who.type \in Services[module][service]

\* The checks before a service runs.
Refusal(module, body, who) ==
  IF GetService(module, body.service) = {} THEN CatchServiceTypeError(body)
  ELSE IF ~CheckCallerPermission(module, body.service, who) THEN "Permission denied"
  ELSE IF ~body.valid THEN "Validation error"
  ELSE "ok"

\* Mutant: one store for the server instead of one for each chain of promises.
StoreRunGlobally(r, who) ==
  store' = [q \in Requests |->
              IF q = r THEN Append(store[r], who) ELSE [i \in DOMAIN store[q] |-> who]]

\* store.run: whatever the service calls finds this payload until it returns.
StoreRun(r, who) == store' = [store EXCEPT ![r] = Append(@, who)]

\* requestStore.getPayload().caller
PayloadCaller(r) == Last(store[r])

Frame(body) == [service |-> body.service, at |-> "start", arg |-> body.arg,
                user |-> None, got |-> None, attempts |-> 1]

\* runService of a request that was not refused.
RunService(r, body, who) ==
  /\ stack' = [stack EXCEPT ![r] = Append(@, Frame(body))]
  /\ StoreRun(r, who)
  /\ ran' = ran \union {[request |-> r, service |-> body.service, caller |-> who]}

\* req.json() settles. An error of runService passes the catch block of executeService,
\* which does not await it, on to that of fetch.
ReadBody(r) ==
  LET body == input[r].body
      module == ControllerOf(input[r].path).module
      refusal == IF ~IsJson(body) \/ ~IsInputDod(body) THEN "Bad request"
                 ELSE Refusal(module, body, caller[r])
  IN /\ pc[r] = "body"
     /\ IF refusal = "ok"
        THEN /\ Goto(r, "body", "run")
             /\ RunService(r, body, caller[r])
             /\ UNCHANGED answer
        ELSE /\ IF refusal = "error" THEN CatchOfFetch(r) ELSE Answer(r, refusal)
             /\ UNCHANGED <<stack, store, ran>>
     /\ UNCHANGED <<now, input, caller, thrown>>

Top(r) == Last(stack[r])

\* The top frame goes on at its next step.
Step(r, at) == stack' = [stack EXCEPT ![r][Len(stack[r])].at = at]

\* A module asks another one for a service, for the user it works for itself.
Call(r, user, service, arg, then) ==
  LET body == [service |-> service, domainType |-> "request", valid |-> TRUE, arg |-> arg]
      who == [type |-> "ModuleCaller", user |-> user]
      waiting == [stack[r] EXCEPT ![Len(stack[r])] = [@ EXCEPT !.at = then, !.user = user]]
  IN /\ Refusal(ModuleOf(service), body, who) = "ok"
     /\ stack' = [stack EXCEPT ![r] = Append(waiting, Frame(body))]
     /\ StoreRun(r, who)
     /\ ran' = ran \union {[request |-> r, service |-> service, caller |-> who]}

\* A service succeeds: the module that called it goes on with the value, or the
\* controller answers.
Return(r, value) ==
  LET below == Front(stack[r])
  IN /\ stack' = [stack EXCEPT ![r] =
                    IF below = <<>> THEN <<>> ELSE [below EXCEPT ![Len(below)].got = value]]
     /\ store' = [store EXCEPT ![r] = Front(@)]
     /\ IF below = <<>> THEN Answer(r, "ok") ELSE UNCHANGED <<pc, answer>>

\* A service fails, and whatever called it returns the failure as its own.
Fail(r, name) ==
  /\ Answer(r, name)
  /\ stack' = [stack EXCEPT ![r] = <<>>]
  /\ store' = [store EXCEPT ![r] = <<>>]
  /\ UNCHANGED thrown

\* Anything a service calls may throw, without effect.
Throw(r) ==
  /\ pc[r] = "run" /\ thrown[r] = None
  /\ \E error \in Scope!Errors : thrown' = [thrown EXCEPT ![r] = error]
  /\ UNCHANGED <<now, input, pc, caller, stack, store, answer, ran>>

\* The catch block of executeDatabaseScope; other services have none, and
\* what they throw reaches that of fetch.
Catch(r) ==
  /\ pc[r] = "run" /\ thrown[r] # None
  /\ IF Top(r).service \in Commands /\ Scope!Restarts(thrown[r], Top(r).attempts)
     THEN /\ stack' = [stack EXCEPT ![r][Len(stack[r])] =
               [Frame(@) EXCEPT !.attempts = Scope!AttemptsAfter(thrown[r], Top(r).attempts)]]
          /\ thrown' = [thrown EXCEPT ![r] = None]
          /\ UNCHANGED <<pc, store, answer>>
     ELSE /\ stack' = [stack EXCEPT ![r] = Front(@)]
          /\ store' = [store EXCEPT ![r] = Front(@)]
          /\ IF Len(stack[r]) = 1
             THEN /\ CatchOfFetch(r)
                  /\ thrown' = [thrown EXCEPT ![r] = None]
             ELSE UNCHANGED <<pc, answer, thrown>>
  /\ UNCHANGED <<now, input, caller, ran>>

\* Nothing reads the clock any more once every token is verified.
Tick ==
  /\ now < MaxTime
  /\ \E r \in Requests : pc[r] \in {"idle", "sent"}
  /\ now' = now + 1
  /\ UNCHANGED <<input, pc, caller, stack, store, thrown, answer, ran>>
===============================================================================
