----------------------------- MODULE MCDomainData -----------------------------
(***************************************************************************)
(* The pure parts of core and domain against reference definitions, over    *)
(* every sample of a bounded set: a step takes one sample.                  *)
(***************************************************************************)
EXTENDS ServerData, ConversionLaws

-------------------------------------------------------------------------------
\* Validators: every value of depth two against each of these declarations.

Chars == {"a", "B", "ya", " ", "-"}
Strings == UNION {[1..n -> Chars] : n \in 0..2}

NoArray == [mustBeFilled |-> FALSE, max |-> -1, min |-> -1]

Literal(name, required, type, rules) ==
  [attrName |-> name, isRequired |-> required, isArray |-> FALSE, arrayConfig |-> NoArray,
   dataType |-> type, rules |-> rules, dtoMap |-> <<>>]
ArrayOf(f, filled, min, max) ==
  [f EXCEPT !.isArray = TRUE, !.arrayConfig = [mustBeFilled |-> filled, max |-> max, min |-> min]]
DtoOf(name, required, map) == [Literal(name, required, "dto", <<>>) EXCEPT !.dtoMap = map]

NameRules == <<Limit("minChars", 1), Rule("noSpace"), Rule("onlyLatinicOrCyrillic")>>
AgeRules == <<Rule("positive"), Limit("maxNumber", 1)>>

NameField(required) == Literal("name", required, "string", NameRules)
AgeField(required) == Literal("age", required, "number", AgeRules)

Declarations ==
  [name |-> NameField(TRUE), nick |-> NameField(FALSE),
   age |-> AgeField(TRUE), years |-> AgeField(FALSE),
   flag |-> Literal("flag", TRUE, "boolean", <<>>),
   text |-> Literal("text", TRUE, "string", <<>>),
   names |-> ArrayOf(Literal("names", TRUE, "string", <<>>), TRUE, -1, 2),
   ages |-> ArrayOf(AgeField(FALSE), FALSE, 1, -1),
   person |-> DtoOf("person", TRUE, <<NameField(TRUE), AgeField(FALSE)>>),
   persons |-> ArrayOf(DtoOf("persons", FALSE, <<AgeField(TRUE)>>), FALSE, -1, -1)]

\* What the rules of a declaration leave of a type, said without the rules.
Accepted(f, v) ==
  CASE f.rules = NameRules ->
         v.s # <<>> /\ (Range(v.s) \subseteq {"a", "B"} \/ Range(v.s) \subseteq {"ya"})
    [] f.rules = AgeRules -> v.n \in 0..1
    [] OTHER -> TRUE

RECURSIVE Conforms(_, _)

ConformsItem(f, v) ==
  CASE f.dataType = "string" -> v.t = "string" /\ Accepted(f, v)
    [] f.dataType = "number" -> v.t = "number" /\ v.sort = "finite" /\ Accepted(f, v)
    [] f.dataType = "boolean" -> v.t = "boolean"
    [] f.dataType = "dto" ->
         /\ v.t = "object"
         /\ \A i \in DOMAIN f.dtoMap : Conforms(f.dtoMap[i], Get(v, f.dtoMap[i].attrName))

\* The values of the type a declaration describes (types.ts).
Conforms(f, v) ==
  \/ v \in {Undefined, Null} /\ ~f.isRequired
  \/ /\ f.isArray
     /\ v.t = "array"
     /\ f.arrayConfig.mustBeFilled => v.items # <<>>
     /\ f.arrayConfig.min >= 0 => Len(v.items) >= f.arrayConfig.min
     /\ f.arrayConfig.max >= 0 => Len(v.items) <= f.arrayConfig.max
     /\ \A i \in DOMAIN v.items : ConformsItem(f, v.items[i])
  \/ /\ ~f.isArray
     /\ ConformsItem(f, v)
     /\ f.isRequired /\ f.dataType = "string" => v # Str(<<>>)

Scalars == {Undefined, Null, Bool(TRUE), Num(-1), Num(1), Num(2), Str(<<>>), Str(<<"a">>),
            Str(<<"a", " ">>)} \union NotFinite
Persons ==
  {Dto(<<>>)} \union {Dto("name" :> a @@ "age" :> b) : a, b \in Scalars}
Lists(S) == {Arr(q) : q \in UNION {[1..n -> S] : n \in 0..2}} \union {Arr([i \in 1..3 |-> Null])}

Values == Scalars \union {Str(s) : s \in Strings} \union Lists(Scalars) \union Persons
          \union {Arr(<<p, q>>) : p \in Persons, q \in {Dto(<<>>), Dto("age" :> Num(1))}}

ValidationSamples == {[of |-> "validation", field |-> f, value |-> v] :
                        f \in DOMAIN Declarations, v \in Values}

\* A validator lets exactly the values of its declared type pass, however its rules are
\* ordered and wherever validateByRules breaks off; and the errors of an object name each
\* of its attributes that is neither an array nor an object and does not conform
\* (field-validator.ts:56-66, dto-field-validator.ts:30-57).
ValidatorsDecide ==
  sample.of = "validation" =>
    LET f == Declarations[sample.field]
        result == Validate(f, sample.value)
        g == f.dtoMap
    IN /\ (result = Success) <=> Conforms(f, sample.value)
       /\ (NewAggregate("Person", f, sample.value, 0, <<>>) = Thrown)
            <=> ~Conforms(f, sample.value)
       /\ f.dataType = "dto" /\ ~f.isArray /\ sample.value.t = "object" =>
            \A i \in DOMAIN g :
              Conforms(g[i], Get(sample.value, g[i].attrName))
                \/ g[i].attrName \in DOMAIN result[f.attrName].fields

-------------------------------------------------------------------------------
\* Rules that say the same, or the opposite, of one another.

RuleSamples == [of : {"rules"}, n : -1..2, min : -1..2, max : -1..2, s : Strings,
                chars : {{}, {"a"}, {"a", "B"}, {" "}, {"-", "ya"}}]

RulesAgree(n, min, max, s, chars) ==
  /\ RangeNumber(n, min, max) <=> MinNumber(n, min) /\ MaxNumber(n, max)
  /\ RangeDate(n, min, max) <=> MinDate(n, min) /\ MaxDate(n, max)
  /\ PositiveNumber(n) <=> IsTimestamp(n) \/ RangeNumber(n, 0, 0)
  /\ EqualCharsCount(s, min) <=> MinCharsCount(s, min) /\ MaxCharsCount(s, min)
  /\ NoContainedChars(s, chars) <=> ContainedOnlyChars(s, Chars \ chars)
  /\ NoContainedSpace(s) <=> NoContainedChars(s, Spaces)
  /\ ContainedAllChars(s, chars) <=> \A c \in chars : ~NoContainedChars(s, {c})
  /\ RegexMatches(s, {s.s}) /\ ~RegexDoesntMatch(s, {s.s})
  /\ TextStrictEqual(s, <<"a">>) <=> StringChoice(s, {<<"a">>})
  /\ OnlyLatinicOrCyrillic(s) /\ OnlyDashAndLatinicOrCyrillic(s) =>
       NoContainedChars(s, {"-", " "})
  /\ MustBeFilledString(s) <=> CannotBeEmptyString(s)

\* No rule that allows a null lets one pass that forbids it.
NullRulesAgree ==
  \A v \in {Undefined, Null, Bool(TRUE)} :
    /\ CanBeNullable(v) <=> CanBeOnlyNull(v) \/ CanBeOnlyUndefined(v)
    /\ CannotBeNullable(v) <=> CannotBeNull(v) /\ CannotBeUndefined(v)
    /\ CannotBeNullable(v) <=> ~CanBeNullable(v)

-------------------------------------------------------------------------------
\* Objects of depth two and three.

Leaves == {Undefined, Null, Num(1)}
Inner == {Dto(<<>>)} \union {Dto("c" :> x) : x \in Leaves}
Objects == {"a" :> x : x \in Leaves \union Inner}
           \union {"a" :> x @@ "b" :> y : x \in Leaves \union Inner, y \in Leaves \union {Num(2)}}

ObjectSamples == {[of |-> "objects", first |-> o, second |-> n] : o, n \in Objects}

RECURSIVE DefinedAttrs(_)
DefinedAttrs(obj) ==
  [k \in {n \in DOMAIN obj : obj[n] # Undefined} |->
     IF IsDto(obj[k]) THEN Dto(DefinedAttrs(obj[k].attrs)) ELSE obj[k]]

Swap == [a |-> "b", b |-> "a"]
Both == [a |-> "x", b |-> "x"]

ObjectsAgree(o, n) ==
  LET hard == HardReplaceAttrs(o, n)
      soft == ReplaceAttrs(o, n)
      merged == MergeObjects(o, n)
      keys == SetToSeq(DOMAIN o)
  IN /\ DOMAIN hard = DOMAIN o /\ DOMAIN soft = DOMAIN o
     /\ ReplaceAttrs(soft, n) = soft
     /\ \A k \in DOMAIN o :
          /\ n = DefinedAttrs(n) => soft = hard
          /\ soft[k] = Undefined => o[k] = Undefined
          /\ k \in DOMAIN n /\ ~(IsDto(o[k]) /\ IsDto(n[k])) => hard[k] = n[k]
          /\ IsDto(o[k]) /\ IsDto(soft[k]) => DOMAIN soft[k].attrs \in
               {DOMAIN o[k].attrs} \union (IF IsDto(n[k]) THEN {DOMAIN n[k].attrs} ELSE {})
     /\ DOMAIN merged = GetUniqueKeys(<<o, n>>)
     /\ \A k \in DOMAIN merged :
          merged[k] = Get(Dto(ExtendAttrs(n, [a \in {x \in DOMAIN o : o[x] # Undefined} |->
                                                o[a]])), k)
     /\ ExcludeAttrs(ExtendAttrs(o, n), DOMAIN n) = ExcludeAttrs(o, DOMAIN n)
     /\ \A k \in DOMAIN o : EditKeys(o, keys, Swap)[Swap[k]] = o[k]
     /\ EditKeys(o, keys, Both)["x"] = o[Last(keys)]
     /\ LET Copied(v) == IF IsDto(v) THEN Dto(ReplaceAttrs(v.attrs, v.attrs)) ELSE v
        IN EditValues(o, [v \in {o[k] : k \in DOMAIN o} |-> Copied(v)]) = o

\* An aggregate's attributes, and what it must not let out.
Contacts == {Undefined, Null, Num(1), Dto(<<>>), Arr(<<Dto("no" :> Num(1))>>)}
            \union {Dto("no" :> x @@ "yes" :> y) : x \in Leaves, y \in {Num(1), Dto("no" :> Num(2))}}
Attributes == {Dto("id" :> Num(1) @@ "contacts" :> c) : c \in Contacts} \union {Dto("id" :> Num(1))}
Paths == {<<"contacts">>, <<"contacts", "no">>, <<"contacts", "yes", "no">>, <<"id">>,
          <<"no">>, <<"contacts", "phones", "no">>}

PathSamples == {[of |-> "paths", attrs |-> v, no |-> p] : v \in Attributes, p \in Paths}

\* The output lacks the excluded attribute and has every other one; it is not made when
\* a value on the way to the attribute is null, or missing above the last level.
OutputAgrees(v, p) ==
  LET aggregate == [name |-> "Person", attrs |-> v, version |-> 0, noOutKeys |-> <<p>>,
                    events |-> <<>>]
      out == GetOutput(aggregate).attrs
      told == RegisterEvent(aggregate, "Added", Num(1))
      above == [i \in 1..(Len(p) - 1) |-> GetValueByDeepAttr(v, SubSeq(p, 1, i))]
  IN /\ (out = Thrown) <=> \/ \E i \in DOMAIN above : above[i] = Null
                           \/ \E i \in 1..(Len(p) - 2) : above[i] = Undefined
     /\ out # Thrown => \A q \in Paths :
          IF IsPrefix(p, q) THEN GetValueByDeepAttr(out, q) = Undefined
          ELSE IsPrefix(q, p) \/ GetValueByDeepAttr(out, q) = GetValueByDeepAttr(v, q)
     /\ Last(told.events).aRoot.attrs = out
     /\ CleanEvents(told) = aggregate

-------------------------------------------------------------------------------
\* Arrays, sets, enumerations, flags.

Arrays == UNION {[1..n -> 1..3] : n \in 0..3}
ArraySamples == [of : {"arrays"}, first : Arrays, second : Arrays]

Draws(n) == {d \in [1..n -> 1..n] : \A i \in 1..n : d[i] <= i}

ArraysAgree(a, b) ==
  LET once == RemoveDuplicateValues(a)
      zipped == ZipValues(a, b)
      A == Range(a)
      B == Range(b)
  IN /\ IsInjective(once) /\ Range(once) = A
     /\ ArraysEqualAsSet(a, b) <=> A = B
     /\ IsInjective(a) /\ IsInjective(b) => (ArrayValuesAreEqual(a, b) <=> A = B)
     /\ \A i \in DOMAIN a : zipped[i][1] = a[i]
     /\ \A i \in DOMAIN b : zipped[i][2] = b[i]
     /\ SetUnion(SetDifference(A, B), SetIntersection(A, B)) = A
     /\ Join(<<a, b>>) = SetUnion(A, B)
     /\ a = b /\ IsInjective(a) =>
          \A p \in {q \in [DOMAIN a -> A] : IsInjective(q)} :
            Cardinality({d \in Draws(Len(a)) : Shuffle(a, d) = p}) = 1

Levels == DOMAIN loggerModes
Modes == {{"all"}, {"off"}} \union (SUBSET Levels \ {{}})
FlagSamples == [of : {"flags"}, keys : SUBSET Levels, mode : Modes, n : {0, 5, 20, 31}]

FlagsAgree(keys, mode, n) ==
  LET env == EnvLogMode([t |-> "number", n |-> n])
      logger == NewLogger(mode)
  IN /\ GetFlagKeys(OrFlags(keys)) = keys
     /\ IsAny(FlagState(mode), keys) <=>
          \E k \in keys : mode = {"all"} \/ k \in mode
     /\ IsAll(OrFlags(keys), mode \intersect Levels) <=> mode \intersect Levels \subseteq keys
     /\ FlagState(env) = Bits(n) \intersect (0..3)
     /\ \A k \in Levels :
          /\ EnvLogMode([t |-> "string", s |-> k]) = {k}
          /\ Writes(logger, k) <=> mode = {"all"} \/ k \in mode
          /\ CompositeWrites(<<logger, NewLogger({k})>>, k) \in {{1, 2}, {2}}

\* The mode a server runs with.
ModeOf(env, modes) ==
  GetServerConfig([LOG_MODE |-> env, LOCAL_PORT |-> Undefined, LOCAL_HOST |-> Undefined],
                  Dto([loggerModes |-> modes])).loggerModes

\* What some values of LOG_MODE name.
Named ==
  [env \in {Word(k) : k \in Levels \union {"all", "off"}} |-> {env.s}]
    @@ Num(0) :> {"off"}
    @@ Num(5) :> {"info", "error"}

LogModeSamples == [of : {"logModes"}, modes : Modes, env : {Undefined} \union DOMAIN Named]

\* A mode that LOG_MODE names comes before the program's, which is in force where it is not
\* set. Of any other value a comment says that it means all (logger-modes.ts:31), and the
\* code that the program's mode is in force (logger-modes.ts:50, configs.ts:62): nothing is
\* stated of it.
LogModesAgree(env, modes) ==
  /\ env \in DOMAIN Named => ModeOf(env, modes) = Named[env]
  /\ env = Undefined => ModeOf(env, modes) = modes


EnumSamples ==
  {[of |-> "enums", eNum |-> [keys |-> <<"0", "1", "A", "B">>, names |-> {"A", "B"},
                              values |-> [A |-> x, B |-> y]]] : x, y \in 0..1}

EnumsAgree(eNum) ==
  LET keys == GetNumberEnumKeys(eNum)
      asStrings == [eNum EXCEPT !.keys = keys]
  IN /\ GetStringEnumKeys(asStrings) = keys
     /\ GetStringEnumValues(asStrings) = GetNumberEnumValues(eNum)
     /\ GetKeyByValue(eNum, 7, keys) = Thrown
     /\ \A i \in DOMAIN keys :
          LET value == GetNumberEnumValues(eNum)[i]
          IN /\ eNum.values[GetKeyByValue(eNum, value, keys)] = value
             /\ eNum.values["A"] # eNum.values["B"] => GetKeyByValue(eNum, value, keys) = keys[i]

-------------------------------------------------------------------------------
\* Configuration, requests and events, answers.

Variables == {Undefined, Word(""), Word("80"), Word("3000"), Word("other"), Word("dev")}
Ports == {Undefined, Num(443)}
ConfigSamples == [of : {"config"}, variable : Variables, port : Ports,
                  lifetime : {Undefined, Num(1)}, set : BOOLEAN]

\* What the environment says comes before what the program says; a port that is there
\* and empty is port 0, and an option that is there and undefined replaces its default.
ConfigAgrees(v, port, lifetime, set) ==
  LET env == [x \in {"JWT_SECRET", "PUBLIC_HOST", "APP_NAME", "PUBLIC_PORT", "LOCAL_PORT",
                     "LOCAL_HOST", "NODE_ENV"} |-> v] @@ [LOG_MODE |-> Undefined]
      numeric == v \in {Word(""), Word("80"), Word("3000")}
      config == GetServerConfig(env, Dto([localPort |-> port]))
      jwt == GetJwtConfig(Dto(IF set THEN [jwtLifetimeAsHour |-> lifetime] ELSE <<>>))
  IN /\ \A found \in {GetJwtSecretKey(env, port), GetPublicHost(env, port),
                       GetAppName(env, port)} :
          /\ (found = Thrown) <=> v = Undefined /\ port = Undefined
          /\ v # Undefined => found = v
     /\ ~numeric => config.localPort = Or(port, Num(3000))
                    /\ GetPublicPort(env, port) = Or(port, Num(80))
     /\ numeric => config.localPort = GetPublicPort(env, port)
     /\ (config.localPort = Num(0)) <=> v = Word("")
     /\ config.loggerModes = {"all"}
     /\ config.localHost = Or(v, Word("localhost"))
     /\ (jwt.jwtLifetimeAsHour = Undefined) <=> set /\ lifetime = Undefined
     /\ jwt.jwtRefreshLifetimeAsHour = Num(72)
     /\ GetRunMode(env, port) =
          IF v = Word("dev") THEN v ELSE Or(port, Word("test"))

\* The port a browser takes of the url is the server's, whatever is left out of the url.
UrlsAgree ==
  \A port \in {80, 443, 3000}, httpsPorts \in SUBSET {80, 443, 3000} :
    LET url == PublicUrl("host", port, httpsPorts)
    IN /\ url.port \union (IF url.port # {} THEN {}
                           ELSE IF url.scheme = "https" THEN {443} ELSE {80}) = {port}
       /\ url.scheme = "https" <=> port \in httpsPorts

Fields == {"requestId", "moduleName", "serviceName", "caller"}
DodSamples ==
  [of : {"dods"}, name : {Word("AddPerson"), Null, Undefined},
   requestId : {Word("r"), Null, Undefined},
   domainType : {Word("request"), Word("event"), Word("error")},
   attrs : {Undefined, Null, Dto(<<>>), Arr(<<>>), Num(1)},
   given : {{}, {"requestId"}, {"requestId", "caller"}, Fields}, inStore : BOOLEAN]

\* An event is made wherever each of its fields is found, passes the checks of the module
\* that handles it and, reissued there, still belongs to the request it came from. A
\* request whose id is null passes the checks and has no event.
DodsAgree(d) ==
  LET input == Dto([meta |-> Dto([name |-> d.name, requestId |-> d.requestId,
                                  domainType |-> d.domainType]), attrs |-> d.attrs])
      store == IF d.inStore THEN GetStorePayload(input, Word("module"), Word("user"))
               ELSE Undefined
      event == GetEventDod(Word("Added"), Dto(<<>>), Dto("id" :> Num(1)),
                           Dto([f \in d.given |-> Word("given")]), store, Word("e1"))
      again == RegenerateEvent(event, Word("service"), Word("read"), Undefined, Word("e2"))
      made == GetRequestDod(d.name, d.attrs, d.requestId, Word("new"))
      Meta(v, field) == Get(Get(v, "meta"), field)
  IN /\ (event = Thrown) <=>
          /\ d.given # Fields
          /\ \/ ~d.inStore
             \/ "requestId" \notin d.given /\ CanBeNullable(d.requestId)
             \/ CanBeNullable(d.name)
     /\ CheckInputData(input) = "ok" =>
          /\ CheckInputData(made) = "ok"
          /\ d.inStore /\ d.name # Null =>
               ((event = Thrown) <=> d.requestId = Null /\ d.given = {})
     /\ event # Thrown =>
          /\ CheckInputData(event) = "ok" /\ CheckInputData(again) = "ok"
          /\ \A f \in {"attrs", "aRoot", "caller"} : Get(again, f) = Get(event, f)
          /\ \A f \in {"requestId", "name"} : Meta(again, f) = Meta(event, f)
          /\ \A f \in {"eventId", "serviceName"} : Meta(again, f) # Meta(event, f)
     /\ \A v \in {Undefined, Null, Num(1), Arr(<<>>), Dto(<<>>), Dto("meta" :> Null)} :
          CheckInputData(v) = "Bad request"

ReplySamples ==
  [of : {"replies"}, parts : {<<"a", "pdf">>, <<"a", "b">>, <<"html">>, <<"a", "json", "gz">>},
   exists : BOOLEAN, mimeType : {Undefined, Word("png"), Word("js")},
   disposition : {Undefined, Word("inline"), Word("attachment")},
   mode : {Word("dev"), Word("prod")}, old : {Undefined, Word("test"), Word("prod")}]

\* What a browser must not read as text is sent as bytes; the client gets the failure that
\* was answered; the details of an error leave the server only in mode dev.
RepliesAgree(r) ==
  LET options == [mimeType |-> r.mimeType, disposition |-> r.disposition,
                  status |-> Undefined]
      file == CreateFileResponse(r.parts, r.exists, options)
      err == GetAppError("Gone", Null)
      internal == ResultDtoToResult(GetInternalError(r.mode, Word("secret")).body)
      Payload(mode) == Dto([runMode |-> mode, logger |-> Null])
      nothing == [payload |-> Undefined, setCount |-> 0, warned |-> FALSE]
      first == SetPayload(nothing, Payload(r.old))
      second == SetPayload(first, Payload(r.mode))
  IN /\ (file.status = 500) <=> ~r.exists
     /\ r.exists => (file.read = "text") <=>
          file.contentType \in {"text/html", "text/plain", "text/css", "application/json",
                                "application/javascript"}
     /\ r.exists => (file.disposition = "inline") <=> r.disposition # Word("attachment")
     /\ ResultDtoToResult(GetFailure(err, 400).body) = [failure |-> err]
     /\ Get(internal.failure, "hint") = Dto(<<>>) <=> r.mode # Word("dev")
     /\ ResultDtoToResult(GetNotFoundError(Word("/a")).body).failure #
          ResultDtoToResult(Word("message")).failure
     /\ ResultDtoToResult(Dto([success |-> Bool(TRUE), payload |-> Undefined])) =
          [success |-> Undefined]
     /\ CreateJsonResponse(Undefined, 200).status = 500
     /\ GetValidationError(err) # err
     /\ GetPayload(nothing) = Thrown /\ ~first.warned
     /\ second.warned <=> r.old # Word("test")
     /\ GetPayload(second) = Payload(r.mode)

\* Replacing keeps the shape of an object, and undefined values out of it; what an
\* aggregate excludes, and nothing else, is missing from its output and its events;
\* sets that were arrays, keys that were flags and rules that speak of one another agree
\* (dto-utility.ts:46-61, aggregate-helper.ts:34-42, array-utility.ts:36-51,
\* binary-flag.ts:11-43). The environment overrides the program, and an event made and
\* made again stays with its request and passes the checks of a module (configs.ts:22-80,
\* dod-utility.ts:57-100, web.module.ts:124-146); an answer reads as it was sent
\* (response-utility.ts:27-58, backend-api.ts:52-62).
UtilitiesAgree ==
  CASE sample.of = "rules" ->
         /\ RulesAgree(Num(sample.n), sample.min, sample.max, Str(sample.s), sample.chars)
         /\ NullRulesAgree
    [] sample.of = "objects" -> ObjectsAgree(sample.first, sample.second)
    [] sample.of = "paths" -> OutputAgrees(sample.attrs, sample.no)
    [] sample.of = "arrays" -> ArraysAgree(sample.first, sample.second)
    [] sample.of = "flags" -> FlagsAgree(sample.keys, sample.mode, sample.n)
    [] sample.of = "logModes" -> LogModesAgree(sample.env, sample.modes)
    [] sample.of = "enums" -> EnumsAgree(sample.eNum)
    [] sample.of = "config" ->
         /\ ConfigAgrees(sample.variable, sample.port, sample.lifetime, sample.set)
         /\ UrlsAgree
    [] sample.of = "dods" -> DodsAgree(sample)
    [] sample.of = "replies" -> RepliesAgree(sample)
    [] OTHER -> TRUE

-------------------------------------------------------------------------------
\* Conversions.

Letters == {Lower(1), Lower(2), Upper(1), Upper(2), Digit(3)}
SomeNames == UNION {[1..n -> Letters] : n \in 0..4}
NameSamples == [of : {"names"}, name : SomeNames]

SomeBytes == {0, 1, 15, 16, 62, 255}
ByteSamples == {[of |-> "bytes", bytes |-> b] : b \in UNION {[1..n -> SomeBytes] : n \in 0..4}}

\* Texts are sequences of code points: of one byte to four of UTF-8, and what these
\* documents are, or look like, as text.
Utf8Of(c) ==
  LET Six(n) == 128 + ((c \div n) % 64)
  IN IF c < 128 THEN <<c>>
     ELSE IF c < 2048 THEN <<192 + c \div 64, Six(1)>>
     ELSE IF c < 65536 THEN <<224 + c \div 4096, Six(64), Six(1)>>
     ELSE <<240 + c \div 262144, Six(4096), Six(64), Six(1)>>

MCStringify ==
  Null :> Str(<<110, 117, 108, 108>>)
    @@ Num(555) :> Str(<<53, 53, 53>>)
    @@ Num(5) :> Str(<<53>>)
    @@ Arr(<<Num(5), Null>>) :> Str(<<91, 53, 44, 110, 117, 108, 108, 93>>)
    @@ Dto("a" :> Str(<<53>>)) :> Str(<<123, 34, 97, 34, 58, 34, 53, 34, 125>>)
MCParse ==
  [text \in Range(MCStringify) |-> CHOOSE v \in DOMAIN MCStringify : MCStringify[v] = text]
    @@ Str(<<34, 53, 34>>) :> Str(<<53>>)
    @@ Str(<<32, 53>>) :> Num(5)
MCDocuments == DOMAIN MCStringify
MCTexts ==
  {Str(s) : s \in UNION {[1..n -> {97, 256, 25991, 129412}] : n \in 0..3}} \union DOMAIN MCParse
MCUtf8 == [text \in MCTexts |-> FlattenSeq([i \in DOMAIN text.s |-> Utf8Of(text.s[i])])]

PayloadSamples == {[of |-> "payloads", payload |-> p] : p \in MCTexts \union MCDocuments}

RandomSamples == {[of |-> "random", char |-> c] : c \in Formats}

-------------------------------------------------------------------------------
Sample(samples) == sample.of = "nothing" /\ sample' \in samples

Init == sample = [of |-> "nothing"]

Next ==
  \/ Sample(ValidationSamples)
  \/ Sample(RuleSamples)
  \/ Sample(ObjectSamples)
  \/ Sample(PathSamples)
  \/ Sample(ArraySamples)
  \/ Sample(FlagSamples)
  \/ Sample(LogModeSamples)
  \/ Sample(EnumSamples)
  \/ Sample(ConfigSamples)
  \/ Sample(DodSamples)
  \/ Sample(ReplySamples)
  \/ Sample(NameSamples)
  \/ Sample(ByteSamples)
  \/ Sample(PayloadSamples)
  \/ Sample(RandomSamples)

Spec == Init /\ [][Next]_sample
===============================================================================
