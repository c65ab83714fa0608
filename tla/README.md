# rilata, verified

TLA+ specifications of the framework in `src/`, TLC configurations that check
them on small instances, and TLAPS proofs for every instance.

## The system

rilata is a TypeScript framework for back ends on Bun. A server holds modules; a
module holds services, a database and, where it publishes events, an outbox. Its
parts, their state, and what makes each hard:

| part | state it keeps | operations | what is hard |
|---|---|---|---|
| transaction strategies (`api/service/transaction-strategy`, `bun-sqlite/transaction`) | in the request's store payload: restarts left, unit of work id; in the database: open transactions | `executeDatabaseScope`, `executeWithTransaction` | commands interleave at every await; anything may throw, also commit and rollback; restarts |
| outbox, deliverer, bus (`repositories/event.ts`, `deliverer-to-bus`, `bus`) | event rows, timers, subscriptions | `addEvents`, `handle`, `publish`, `markAsPublished` | the timer races the commit; a handler throws; the process is killed between two steps |
| event services (`event.service.ts`, `web.module.ts`) | none of their own | `execute`, `getService` | a failure result becomes an error that has to stop the mark |
| bot dialogues (`repositories/bot-dialogue.ts`, `api/bot`) | table of contexts, cache of the active ones | `findActive`, `findAll`, `add`, `updateContext`, `finishContext` | the cache against the table; webhook updates of one user run at once |
| bot subscription (`bot.module.ts`) | offset, timer, poll mode | `subscribeToUpdates`, `getAndProcessUpdates`, `stop` | an offset moved too early loses updates; the chain of timers must not break |
| server and request pipeline (`bun-server.ts`, middlewares, controllers, `web.module.ts`, request store) | routes, modules, the payload of each chain of promises | `fetch`, `execute`, `executeService` | errors of un-awaited promises; the payload of one request read by another |
| sample application (`tests/service-oriented-impl`) | three databases and a proxy | `registerCompany`, `addPerson`, `addUser`, `getFullCompany` | commands nested over databases that commit by themselves |
| database lifecycle (`database.ts`, `repository.ts`, `migrations.ts`, `db-service-manager.ts`) | tables, registered migrations | `createDb`, `migrateDb`, `clear`, statuses, command line | killed half way; runs of two versions at once; statuses of partial databases |
| JWT (`api-infra/jwt`, `ui/backend-api`) | none | decode, verify, send | what is accepted at the edge of a lifetime; what the client sends |
| validators (`domain/validator`) | none | `validate` | answers of several rules, arrays and nested dtos put together |
| logger modes, utilities, server data (`core`, `configs.ts`, `dod-utility.ts`) | the logger's mode | data conversions | edges: empty, nested and missing values |
| templates, dates, colours, static files | none | text | nothing: see below |

They meet as follows. A request reaches a controller, which executes a service of
its module inside a request store. A command service runs its domain inside a
transaction strategy. The domain writes to repositories and adds its events to the
outbox, in the same transaction; the outbox calls the deliverer at once, which sets
a timer; the timer publishes to the bus; the bus executes an event service of
another module, itself a command; then the event is marked as published. A bot
module does not use that path: telegram's updates reach it by webhook or polling,
and its states call the dialogue repository directly.

Outside of the server, runs of the service manager create and migrate the databases
of its modules, from whatever version of the program they were started.

What makes the parts correct: a command is atomic, whatever is thrown, restarted or
interleaved; a sound event is never marked without having been handled, and none takes
effect twice; the dialogue cache never contradicts its table and a user has one
dialogue; polling loses no update; a service runs for the user the token names; a
client that is told of success has its records, in every database; a migration is
applied if and only if it is registered, in order, once; a value is valid when each
of its attributes is.

## Modules

| module | models | state and actions in the code |
|---|---|---|
| `CommandScope` | `strategy.ts`, the repositories' checks | the writes of a domain (`Planned`, `Accepted`, `Effect`) and the restart decision (`Restarts`, `AttemptsAfter`), shared by both strategies |
| `AtomicCommands` | nothing: the abstract specification of both strategies, and of the sample application's registrations over three databases | a command succeeds, with all of its writes in one step, or ends without effect |
| `UowCommands` | `uow.strategy.ts` over `TestMemoryDatabase` | `uow`, `attempts` are the fields of the store payload; `records`, `open`, `cache` those of the repositories; `pc` is where the promise chain of a request stands; an action is what runs between two awaits |
| `SqliteCommands` | `bun-sqlite.strategy.ts` | one action for a synchronous transaction, steps of their own for what an async domain does after the transaction |
| `EventDelivery` | `addEvents`, `TimeoutCallbackDelivererToBus`, `OneServerBus`, `subscribeToBus`, `getService`, `EventService` | `row` is the event's row, `timers` the pending `setTimeout`s, `inBus` and `toMark` the two awaits of the deliverer's callback, `marked` the events it marks; `Delivers` tells the two repositories apart |
| `EventOutbox` | nothing: the abstract specification | an event is registered by an attempt, handled once or not at all, and marked only when it was |
| `BotDialogues` | `BotDialogueRepositorySqlite`, `BotDialogueService`, `BotModuleController` | `rows` is the table, `cache` the cache; `pc` follows an update through middlewares and a state; `saw` is what its code last read |
| `DialogueTable` | nothing: the abstract specification | a table of contexts without a cache: insert when no row is active, update the active row, finish it |
| `BotPolling` | `bot.module.ts`, mode `getUpdates` | `loop` is what the chain awaits, `newUpdateId` its field; `sent` and `forgotten` are telegram's |
| `Conversations` | nothing: the abstract specification | each user's messages are answered in the order they were sent, a replaced one perhaps never |
| `OrderedMigrations` | nothing: the abstract specification | a table goes through its migrations one by one, in order |
| `DatabaseLifecycle` | `BunSqliteDatabase`, its repositories and `DbServiceManager` | `tables`, `registered`, `schema` and `filled` are the files; `pc`, `queue`, `repo`, `row` follow each run of the manager, an action is one sqlite transaction or one query; `report` is what it prints |
| `WebRequests` | `fetch` of `bun-server.ts`, `InjectCallerMiddleware`, `ModuleController`, `WebModule`, `WebService`, JWT, the clients of `ui/backend-api` | `pc` is where the promise chain of `fetch` stands, `stack` holds the services in progress, `store` the callers in their payloads, `thrown` the error on its way up |
| `CompanyRegistration` | `tests/service-oriented-impl` | EXTENDS `WebRequests`: an action for what each service does between two awaits; `tables` are the committed records |
| `ValidationRules` | `domain/validator` | operators: the rules, and the literal, array and dto validators, by the results of the fields below |
| `Validators` | `FieldValidator.validate` | its recursion through the fields below, kept apart from what is proved about |
| `DataUtilities` | utilities of `core` for dtos, arrays, sets, flags; log modes | operators |
| `Conversions` | names, uuids, bytes, base64 | operators |
| `ConversionLaws` | nothing: what the conversions promise one another | `sample` is what is converted |
| `ServerData` | `configs.ts`, `dod-utility.ts`, answers, aggregates' output | operators |
| `DataProofs` | nothing: theorems about `ConversionLaws` and `ValidationRules` | bytes, uuids, names and text of any length; rules, arrays and nested declarations of any size |

`MC*` modules give the constants their values, `*Proofs` modules hold the theorems.
The modules meet by what they are shown to be. A command is atomic (`UowCommands`),
so `EventDelivery` and `CompanyRegistration` have its attempts and their ends as
single steps. A committed write of one command is what the next one finds.
`CompanyRegistration` and `WebRequests` are one state machine: a request goes from
the client through the server to the services of several modules and back. The mode
constant of `BotDialogues` stands for the rest of the bot: a poller runs one update
at a time (`processUpdates`), a webhook any number.

The pure modules have no state. `MCDomainData` takes a sample at a time and compares
what the operators make of it with reference definitions of its own, so that each
sample is a state; some of these operators are recursive, and nothing else uses them.

Definitions that a comment calls a mutant are changed versions of the definition
below them, each with a bug one could make in that place. No specification uses
them; with one in the place of its original the property it was written for fails.

## What the runs show

`UowCommands`, `SqliteCommands`: a write is abstracted to the request that made it,
since no property tells contents apart.

* `MCUowCommands` (two commands that write the same two records and may not both succeed
  in every order, three transaction ids, one throwing rollback). Every call may throw
  any of the three kinds of errors the strategy tells apart. `ImplementsAtomicCommands`
  is the main result. `NoTransactionLeak` and `WritesToOwnTransaction` are about what a
  throw leaves behind, `OneSavingRestart` about the restart counter, and
  `AnsweredUnlessLockedForever` says that the unbounded restart after lock mismatches is
  the only way not to be answered. Two commands are enough for every pair of steps to
  interleave, and a command's own writes are never read by it.
* `MCSqliteCommands` (three commands, one of them with an async domain): the
  synchronous ones leave nothing when they end in an error, also next to the async one.
* `MCSqliteAsyncDomain`: the async one is not. `WebService.runDomain` may be async
  and `executeDatabaseScope` awaits what it returns, but sqlite's transaction
  function has committed by then. An error rolls nothing back.
* `MCEventDelivery` (three commands, two with two attempts; three services, two of
  them subscribed to the same event; one event nobody subscribed to, one malformed; one
  kill, 393 thousand states). `ImplementsEventOutbox` maps rows, timers and calls of the
  bus to an outbox in which an event goes one way, from registered to handled to marked,
  so that no kill and no timer has it handled twice. `PublishedWasHandled` is about the
  calls of `markAsPublished`, and excepts malformed events: `executeService` answers
  them with a failure that the bus does not look at. No row is ever published: the
  repository of the tests, which delivers, sets the flag of a copy, and that of
  bun-sqlite, which could keep it, does not deliver. After a kill the committed rows are
  there or gone, for one is in memory and the other in a file. `HandlersAfterCommand`
  holds because the timer waits for the event loop to run dry, which it does not do
  while a database awaits I/O: it is checked for databases and domains that do not
  (`IoAwaits = FALSE`); the two databases in the repository do not.
  `CommittedIsHandled` excepts handlers that threw and kills, for which the code
  has no second attempt: `getNotPublished` is never called.
  It is checked with `Delivers = TRUE`, the repository of the tests. That of bun-sqlite
  is handed the deliverer and never calls it: with `FALSE` the property fails at the
  first commit, and the others hold, since no event moves.
* `MCEventIoDatabase`: with a database that does, a handler runs before the commit,
  although the deliverer's comment says that it waits for every promise.
* `MCEventSubscribers`: with two services subscribed to an event, one of them never
  sees it.
* `MCBotDialogues` (three updates of two users, two writes for each, one kill; the
  table starts with up to two rows for each user, active or not). The cache agrees
  with the table for users whose rows only the repository's own methods write; for
  all users `ImplementsDialogueTable` says that with the cache in front every read and
  write is one that the table alone would allow. Both modes are checked;
  `PollingWritesFresh` is about the poller only: by webhook a state may overwrite
  a context it has not seen.
* `MCBotPolling` (five updates of two users, answers of up to three, two kills).
  An answer then holds updates of both users, several of one user, or leaves some
  behind; after a kill updates come again with newer ones.
  `ImplementsConversations` forgets offsets, batches and kills: a user is answered in
  the order of what he sent, and never for less than he was answered before.
  `UpdatesAnswered` excepts the ways polling ends for good in this code: an update that
  throws, a `deleteWebhook` that fails, `stop`, a kill.
* `MCDatabaseLifecycle` (three runs of the manager, two versions of the program, two
  modules; version 2 adds a migration to one table and a repository to one database;
  six command lines, some of them refused; any run killed at any point, 1.0 million
  states). Two runs are needed to overlap, the third to find what they left.
  `RegisteredIffApplied` says that a migration and its row in the migrations table
  never part; `ReportHolds` that what a run has printed stays true;
  `PartialIsFinal` that nothing completes a database whose creation was killed,
  because `createDb` refuses any database with tables and `migrateDb` any without
  all of them. `ImplementsOrderedMigrations` maps the databases to the abstract
  specification.
* `MCCompanyRegistration` (two requests of two users, 181 thousand states). Both may
  register one company, with a new person or with the one the other is adding, or
  read what the other registered; some have a bad token, path, method or body.
  Lifetimes are 0 and 1, the client's clock shift 1 and the clock stops at 1, so that
  tokens are good, at their very end and expired, and client and server disagree.
  Anything a service calls may throw any of the three kinds of errors.
  `NoLateDuplicate` excepts registrations that overlap, which is the next run's
  question. A registration that is restarted after its user was committed adds another
  user; a third is not told from the second (`AnotherUser`).
  `ImplementsAtomicCommands` says that a registration is one command to its client,
  though it calls two other modules whose databases commit by themselves.
* `MCCompanyOverlap`: `addCompany` looks for the BIN in committed records, and nothing
  looks for it at the commit. Two registrations that overlap both find none and leave
  two companies with one BIN, which the user story excludes.
* `MCDomainData` (24 395 samples: every value of depth two over a few characters and
  numbers against ten validators, small dtos, arrays, sets, names, bytes and payloads).
  `ValidatorsDecide` compares the verdict and the place of each error with a
  definition that walks the value once; `UtilitiesAgree` and `ConversionsInvert` do
  so for the utilities and for conversions and their inverses. One conversion has no
  inverse: `decodeFromBase64Url` reads what it decodes as JSON first, so that the string
  555 comes back as a number. `PayloadInverts` says that nothing else changes; tokens
  encode objects only. JSON and UTF-8 are functions the configuration gives for texts of
  one to four bytes a character.

The code also disagrees with what is said of it in places that need no run. A `LOG_MODE`
that is an unknown word, negative or without a flag leaves the server with the mode of
the program, off included, though the comment at `logger-modes.ts:31` says that it means
all; the model follows the code and `UtilitiesAgree` says nothing of such values.
`setLogMode` changes what `getLogMode` says and nothing that is written. `JwtBackendApi`
checks the token it is given and sends none (`Authorization`), so that its requests are
served as anonymous ones.

Fairness. An event loop that has something to run runs it: `UowCommands` assumes
weak fairness of the steps of each accepted request, `EventDelivery` of ending
transactions, firing timers and the calls in progress, `BotPolling` of the chain,
`CompanyRegistration` of serving each request that has arrived. Runs of the service
manager need none: nothing there is promised to happen.
In each this includes that what is awaited settles, one way or the other: which way
is left open. Nothing is assumed to arrive, to be started again, or to be killed.

## What is proved

Each theorem holds for all values of the constants that satisfy the assumptions
named; none of the bounds of the runs is needed. In every module the argument is
the same: an inductive invariant `IInv`, checked by TLC first, a lemma for each
action or group of actions that it is kept, and the theorems drawn from it.

* `UowCommandsProofs`, from `WritesAssumption`, `SentinelAssumption` and
  `TxIdsAssumption`: the four safety invariants of `MCUowCommands`, and
  `AtomicRefinement`, `Spec => ImplementsAtomicCommands`. None of the invariants is
  inductive. `NoTransactionLeak` needs that the transaction a request holds is its
  own (`WritesToOwnTransaction`), which needs that orphaned transactions stay open,
  so that their ids are not given out again. `OneSavingRestart` needs
  `AttemptsBalance`: restarts left and saving errors caught add up to one while a
  command is in progress. The refinement needs `CacheMatchesPlan`: when a commit
  begins, the cache holds exactly the writes of the plan, so that the step is
  `Succeed` of `AtomicCommands`.
* `SqliteCommandsProofs`, from the same and `AsyncAssumption`: all three properties
  of `MCSqliteCommands`. `IInv` adds `AttemptsBalance` and that only async domains
  leave a promise to wait for. `ErrorsOfSyncDomains` states the property that
  `MCSqliteAsyncDomain` shows violated, with the hypothesis that no domain is async:
  nothing else breaks it.
* `EventDeliveryProofs`, from `DeliveryAssumption` (event ids are unique):
  `PublishedWasHandled`, `HandledAtMostOnce`, `HandlersAfterCommand` unless commands
  await I/O, and `DeliveryRefinement`, `Spec => ImplementsEventOutbox`. The key is
  `EventOK`, which says where an event is: nowhere before the attempt that adds it, then
  in one timer (`TimersOnce`), then in one call of the bus, then handled by the service
  that call executes. An attempt that is rolled back never registers the same event
  again, since the next one has an event of its own. `NotEarly` says that an event whose
  row waits for a commit is not in the bus yet, which is where I/O breaks the argument.
  For the refinement the events of the attempts that are open have to be the ones whose
  rows wait for a commit (`CachedIsOpen`), so that a rollback or a kill loses just
  those. `SoleSubscribersHandle` is the other half of `MCEventSubscribers`: if no two
  services subscribe to one event and no module names the event of two services alike,
  every subscriber of a marked event has handled it, if the event is well-formed.
* `BotDialoguesProofs`, from `BotAssumption`: the properties of the run, that a cached
  context stands for an active row (`CacheBlocksNoUser`), and `DialoguesRefinement`, in
  which findActive from the cache and from the table are one action, `Find`.
  `CacheStands` carries the cache: it holds an active row's content, or nothing.
  `NoSecondDialogue` follows from it, since a state looks and inserts in one step.
  `PollingWritesFresh` needs `OneAtATime` (the poller awaits each update) and
  `SawFresh`.
* `BotPollingProofs`, from `PollingAssumption`: everything but `UpdatesAnswered`.
  `ForgottenWasAnswered` needs `OffsetAnswered` (what the next request confirms has
  been answered), which needs `InProgress` (what was skipped has a later update of
  its user waiting). That no update is executed after a later one of its user
  (`UserOrder`) needs `Horizon`: whatever earlier processes
  executed comes again in the first answer, so that an older update always comes with
  the newer one that replaces it. Both together give
  `PollingRefinement`: telegram forgets only what a conversation has passed.
* `DatabaseLifecycleProofs`, from `LifecycleAssumption`, `ReposAssumption` and
  `RowsAssumption` (a later version only appends migrations; ids are unique; no two
  databases share a table): all six properties, and `MigrationsRefinement`.
  `RegisteredIffApplied` is strengthened to `InOrder` (a table has gone through a
  prefix of its migrations) and `RegisteredPrefix` (and just these are registered).
  `EarlierRows` says that a run that looks at a row has left none unregistered
  before it, so that migrating the row it found missing extends the prefix;
  the row is looked for again by its insertion, whose unique key throws if another
  run was faster. `ReportHolds` needs `Progress` (what a run has done so far), and
  `OneCreator` needs `Creators`: the migrations table, which every creation begins
  with, can be created once.
* `CompanyRegistrationProofs`, from `RegistrationAssumption` (no service is for
  anonymous users; the controllers lead to modules the server has; `None` is neither an
  input nor an answer): all safety invariants, `AnswersTrue` (a company is there if and
  only if its client was told so) and `RegistrationRefinement`. A request has at most
  two services on its stack (`Alone`, `Called`): `Bottom` says for whom the first one
  runs, `OnTop` how far the registration below had come when it called the second, and
  `Registering` what is in the databases of persons and users at each of its steps. An
  answer is true because the company is committed in the step that also answers: its
  writes are buffered until then, and whatever throws or restarts does so before. The
  step is `Succeed` of `AtomicCommands`, and every other one ends a command without
  effect or stutters. Records are only added, so that whatever a registration has found
  or left stays in place while others run (`OthersKept`).
* `DataProofs`. `ConversionsHold` states the property `ConversionsInvert` for every
  sample and not only those of the run, from four results. `Base64Inverts`, from
  `PlatformAssumption` (UTF-8 tells any two texts apart, JSON reads what it wrote): any
  payload is decoded to itself, unless it is a string that reads as JSON. It rests on
  `BytesDigitsBytes`: the hash lacks its padding and the decoder still finds the number of
  bytes (`HashLengths`), since a digit that is cut off would have been zero (`CutOff`).
  `UuidInverts`: any sixteen bytes and valid uuids correspond
  one to one. `TrimExact`: what is trimmed is the longest run at either end, and only
  that. `NamesSurvive`: a name of any length is read back from its spelling. `Reduce` is a
  recursive function on an interval; that it exists, and what holds of each of its values,
  is proved from a least counterexample (`LeastOf`) in place of an induction. The invariant
  of spelling (`WellSpelled`) is that no delimiter stands at the end or before anything but
  a small letter, which is what lets the reader take each delimiter away with the letter
  after it (`ReadFurther`): the names are letters and digits, so that none has a delimiter
  of its own (`Names`).
* `DataProofs` also says what validators accept, for any rules that a validator may be
  given. `FieldsDecide` and `ArraysDecide` are about one level. A rule that breaks off the
  validation hides later errors, and never makes an invalid value valid, since the first
  rule that breaks off has an error of its own or is the nullable one (`Broken`,
  `NoErrors`). `MergedResults`: an attribute's failure survives the spread of later
  results over it. `LiteralArraysDecide` composes the two levels of an array of literals: a
  field that may be missing still has no element that is. `NestedDecide` puts all levels
  together: for declarations nested to a finite depth, any `result` that satisfies the
  equation of `validate` (`Validates`, by the operators that `Validators` recurs over)
  accepts exactly the values of any `type` that satisfies the equation of the declared
  types (`Describes`). A declaration of least depth that is judged wrongly would have
  fields below it that are judged rightly, and `LevelDecided` refutes it.

Only model-checked: the liveness properties (`AnsweredUnlessLockedForever`,
`CommittedIsHandled`, `UpdatesAnswered`, `EveryRequestAnswered`), which are out of
the prover's reach; `UtilitiesAgree`, whose utilities are recursive operators; and
`ValidatorsDecide`, which compares the recursive operator itself with a definition that
does not know the rules, for the declarations of the run, and goes on to what an aggregate
made of such a value is. `NestedDecide` is about the same recursion, as an equation, and
about every declaration.

## Not modelled

* Starting and stopping a server or a module: `init` and `run` assign fields once,
  synchronously, before a request can arrive. Static files, `fetch`, sqlite,
  telegram and the JWT library are met as nondeterministic choices or not at all.
* Text: templates, dates, colours, console output, log lines. Unit tests compare it
  line by line and no state depends on it.
* `getNotPublished` of the outbox has no caller in `src/`. The webhook subscription is
  two calls to telegram.
* What states of a dialogue and a subclass of its repository do to objects they were
  handed by reference: contents are values here.
* The help text of the service manager, which prints, and the modes of it that run on a
  database in memory.
* A commit whose answer is lost: calls that throw are assumed to have had no effect.

`components` in `PROJECT.json` says the same part by part, and its hazards without
a property carry the reason.
