------------------------------ MODULE ServerData ------------------------------
(***************************************************************************)
(* The data a server makes of other data: its configuration from the        *)
(* environment, the objects dodUtility makes of a request and of its store, *)
(* its answers, and what the client makes of those. Values are those of     *)
(* Validators; an optional argument that is not given is Undefined.         *)
(***************************************************************************)
EXTENDS DataUtilities

\* a ?? b; an error is thrown where b is Thrown.
Or(a, b) == IF CanBeNullable(a) THEN b ELSE a

-------------------------------------------------------------------------------
\* configs.ts. A variable of env is Undefined or a word.

Word(w) == [t |-> "string", s |-> w]
NaN == [t |-> "number", sort |-> "NaN", n |-> 0]

\* What Number makes of a variable.
NumberOf(variable) ==
  LET numbers == ("" :> 0) @@ ("80" :> 80) @@ ("443" :> 443) @@ ("3000" :> 3000)
  IN IF variable # Undefined /\ variable.s \in DOMAIN numbers
     THEN Num(numbers[variable.s]) ELSE NaN

GetJwtSecretKey(env, key) == Or(env.JWT_SECRET, Or(key, Thrown))
GetPublicHost(env, host) == Or(env.PUBLIC_HOST, Or(host, Thrown))
GetAppName(env, name) == Or(env.APP_NAME, Or(name, Thrown))

GetPublicPort(env, port) ==
  IF NumberOf(env.PUBLIC_PORT) = NaN THEN Or(port, Num(80)) ELSE NumberOf(env.PUBLIC_PORT)

DefaultServerConfig == [localHost |-> Word("localhost"), localPort |-> Num(3000),
                        loggerModes |-> {"all"}]

GetServerConfig(env, config) ==
  LET envPort == IF NumberOf(env.LOCAL_PORT) = NaN THEN Undefined ELSE NumberOf(env.LOCAL_PORT)
      modes == EnvLogMode(env.LOG_MODE)
  IN [localPort |-> Or(envPort, Or(Get(config, "localPort"), DefaultServerConfig.localPort)),
      localHost |-> Or(env.LOCAL_HOST, Or(Get(config, "localHost"),
                                          DefaultServerConfig.localHost)),
      loggerModes |-> IF modes # {} THEN modes
                      ELSE (config.attrs @@ DefaultServerConfig).loggerModes]

DefaultJwtConfig == [algorithm |-> Word("HS256"), jwtLifetimeAsHour |-> Num(24),
                     jwtRefreshLifetimeAsHour |-> Num(72)]

GetJwtConfig(config) == ExtendAttrs(DefaultJwtConfig, config.attrs)

GetEnvRunMode(env) ==
  CASE env.NODE_ENV \in {Word("prod"), Word("production")} -> Word("prod")
    [] env.NODE_ENV \in {Word("dev"), Word("development")} -> Word("dev")
    [] env.NODE_ENV = Word("test") -> Word("test")
    [] OTHER -> Undefined

GetRunMode(env, defMode) == Or(GetEnvRunMode(env), Or(defMode, Word("test")))

\* The url the server is known by: the port is left out where it is the scheme's own.
HttpUrl(host, port) == [scheme |-> "http", host |-> host, port |-> port \ {80}]
HttpsUrl(host, port) == [scheme |-> "https", host |-> host, port |-> port \ {443}]
PublicUrl(host, port, httpsPorts) ==
  IF port \in httpsPorts THEN HttpsUrl(host, {port}) ELSE HttpUrl(host, {port})

-------------------------------------------------------------------------------
\* DodUtility. id stands for the new uuid.

Error(name, type, hint) ==
  Dto([name |-> Word(name), errorType |-> Word(type), hint |-> hint])
GetAppError(name, hint) == Error(name, "app-error", hint)
GetDomainError(name, hint) == Error(name, "domain-error", hint)
GetValidationError(errors) == Error("Validation error", "app-error", errors)

GetRequestDod(name, attrs, requestId, id) ==
  Dto([meta |-> Dto([name |-> name, requestId |-> Or(requestId, id),
                     domainType |-> Word("request")]),
       attrs |-> attrs])

\* getCurrent...: throws where there is no store, or nothing in its payload.
GetCurrent(payload, field) ==
  IF payload = Undefined THEN Thrown ELSE Or(payload[field], Thrown)

\* The store is asked for what storeData does not have, and only for that.
GetEventDod(name, attrs, aRootAttrs, storeData, payload, id) ==
  LET field == [f \in {"requestId", "moduleName", "serviceName", "caller"} |->
                  Or(Get(storeData, f), GetCurrent(payload, f))]
  IN IF Thrown \in Range(field) THEN Thrown
     ELSE Dto([attrs |-> attrs, aRoot |-> aRootAttrs, caller |-> field["caller"],
               meta |-> Dto([eventId |-> id, requestId |-> field["requestId"], name |-> name,
                             moduleName |-> field["moduleName"],
                             serviceName |-> field["serviceName"],
                             domainType |-> Word("event")])])

RegenerateEvent(event, serviceName, moduleName, newName, id) ==
  Dto(ReplaceAttrs(event.attrs,
    [meta |-> Dto([name |-> Or(newName, Get(Get(event, "meta"), "name")), eventId |-> id,
                   moduleName |-> moduleName, serviceName |-> serviceName])]))

\* WebModule: what a module takes for a request or an event, and the payload of the store
\* its service runs in.
CheckInputData(input) ==
  LET meta == IF input.t = "object" THEN Get(input, "meta") ELSE Undefined
  IN IF ~IsDto(meta) THEN "Bad request"
     ELSE IF \/ Get(meta, "name") = Undefined \/ Get(meta, "requestId") = Undefined
             \/ Get(meta, "domainType") \notin {Word("request"), Word("event")}
          THEN "Bad request"
     ELSE IF Get(input, "attrs").t \notin {"object", "array"} THEN "Bad request"
     ELSE "ok"

GetStorePayload(inputDod, moduleName, caller) ==
  LET meta == Get(inputDod, "meta")
  IN [serviceName |-> Get(meta, "name"), moduleName |-> moduleName, caller |-> caller,
      requestId |-> Get(meta, "requestId")]

\* DomainStore: the payload that was there decides whether replacing it is worth a warning.
SetPayload(domainStore, payload) ==
  LET old == domainStore.payload
      runMode == Or(IF old = Undefined THEN Undefined ELSE Get(old, "runMode"),
                    Or(Get(payload, "runMode"), Word("prod")))
  IN [payload |-> payload, setCount |-> domainStore.setCount + 1,
      warned |-> domainStore.setCount > 0 /\ runMode # Word("test")]

GetPayload(domainStore) == Or(domainStore.payload, Thrown)

-------------------------------------------------------------------------------
\* Answers.

\* There is no JSON of undefined: its length cannot be taken.
CreateJsonResponse(data, status) ==
  IF data = Undefined THEN [status |-> 500, body |-> Word("message")]
  ELSE [status |-> status, body |-> data]

GetFailure(err, status) ==
  CreateJsonResponse(
    Dto([httpStatus |-> Num(status), success |-> Bool(FALSE), payload |-> err]), status)

GetNotFoundError(path) == GetFailure(GetAppError("Not found", Dto([url |-> path])), 404)

GetInternalError(runMode, e) ==
  GetFailure(GetAppError("Internal error",
                         IF runMode = Word("dev") THEN Dto([error |-> e, stack |-> e])
                         ELSE Dto(<<>>)), 500)

\* BackendApi: what was answered, as a result.
ResultDtoToResult(dto) ==
  LET success == IF IsDto(dto) THEN Get(dto, "success") ELSE Undefined
  IN IF success = Bool(FALSE) THEN [failure |-> Get(dto, "payload")]
     ELSE IF success = Bool(TRUE) THEN [success |-> Get(dto, "payload")]
     ELSE [failure |-> GetDomainError("Bad request", Dto(<<>>))]

MimeTypesMap ==
  [html |-> "text/html", txt |-> "text/plain", json |-> "application/json",
   js |-> "application/javascript", css |-> "text/css", jpeg |-> "image/jpeg",
   jpg |-> "image/jpeg", png |-> "image/png", pdf |-> "application/pdf",
   zip |-> "application/zip", mp3 |-> "audio/mpeg", ico |-> "image/x-icon"]

BlobTypes == {"jpeg", "jpg", "png", "pdf", "zip", "mp3", "ico"}

\* parts: the path of the file, split at its dots.
FileMimeType(parts) == IF Last(parts) \in DOMAIN MimeTypesMap THEN Last(parts) ELSE "txt"

CreateFileResponse(parts, exists, options) ==
  LET mimeType == Or(options.mimeType, Word(FileMimeType(parts))).s
  IN IF ~exists THEN CreateJsonResponse(Word("message"), 500)
     ELSE [status |-> Or(options.status, Num(200)).n,
           contentType |-> MimeTypesMap[mimeType],
           disposition |-> IF options.disposition \in {Undefined, Word("inline")}
                           THEN "inline" ELSE "attachment",
           read |-> IF mimeType \in BlobTypes THEN "blob" ELSE "text"]
===============================================================================
