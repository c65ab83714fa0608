------------------------- MODULE CompanyRegistration -------------------------
(***************************************************************************)
(* The service-oriented application of tests/service-oriented-impl: four    *)
(* modules with a database each, that call one another through facades      *)
(* inside a request. Registering a company adds a person and a user to the  *)
(* databases of two other modules first; each of the three is a command of  *)
(* its own, which commits, restarts and fails by itself (UowCommands).      *)
(*                                                                         *)
(* A record's generated id is the request that made it, and for a user      *)
(* whether it had made one before: restarted after the commit of its user,  *)
(* a registration adds another. A third is not told from the second, the    *)
(* bound AnotherUser. Attributes are those the repositories look up by.     *)
(***************************************************************************)
EXTENDS WebRequests

CompanyPath == "/api/company-module/"

\* What a client may be answered.
AnswerNames ==
  {"ok", "Bad request", "Not found", "Permission denied", "Validation error",
   "Internal error", "JwtVerifyError", "IncorrectTokenError", "TokenExpiredError",
   "NotValidTokenPayloadError", "CompanyAlreadyExistError", "CompanyDoesntExistByIdError",
   "PersonAlreadyExistsError", "PersonDoesntExistByIinError"}

Answers == [status : {0, 200, 400, 403, 404, 500}, name : AnswerNames]

\* No service of the application is for anonymous users, and its controllers lead to
\* modules that it has.
ASSUME RegistrationAssumption ==
  /\ MaxTime \in Nat
  /\ \A m \in DOMAIN Services : \A s \in DOMAIN Services[m] :
       "AnonymousUser" \notin Services[m][s]
  /\ NoModule \notin DOMAIN Services
  /\ \A in \in Inputs :
       LET controller == ControllerOf(in.path)
       IN controller = None \/ controller.module \in DOMAIN Services \union {NoModule}
  /\ None \notin Requests \union Inputs \union Answers

VARIABLES
  tables,  \* the committed records of the modules
  before   \* history: before[r] are the BINs committed when r was read

app == <<tables, before>>
vars == <<web, app>>

Users == {"DomainUser"}
UsersAndModules == {"DomainUser", "ModuleCaller"}

\* supportedCallers
AppServices ==
  [company |-> [registerCompany |-> Users, getCompany |-> UsersAndModules],
   subject |-> [addPerson |-> UsersAndModules, getPersonByIin |-> UsersAndModules],
   auth |-> [addUser |-> UsersAndModules, getUsers |-> UsersAndModules],
   proxy |-> [getFullCompany |-> Users]]

AppCommands == {"registerCompany", "addPerson", "addUser"}

\* The server's own controllers come before those of its modules.
AppControllers ==
  << [urls |-> {"/about/"}, module |-> NoModule],
     [urls |-> {"/api/auth-module/"}, module |-> "auth"],
     [urls |-> {"/api/subject-module/"}, module |-> "subject"],
     [urls |-> {CompanyPath}, module |-> "company"],
     [urls |-> {"/api/frontend-proxy-module/"}, module |-> "proxy"] >>

Init ==
  /\ WebInit
  /\ tables = [company |-> {}, person |-> {}, user |-> {}]
  /\ before = [r \in Requests |-> {}]

At(r, service, at) ==
  /\ pc[r] = "run" /\ thrown[r] = None
  /\ Top(r).service = service /\ Top(r).at = at

Arg(r) == Top(r).arg

\* Mutant: the repository looks records up in its open transaction, which has none yet.
OwnRecords(table) == {}

AnotherUser(r) == \E u \in tables.user : u.by = r

\* What findByAttrs and find look records up in: the committed ones.
Records(table) == tables[table]

\* addRecordByTransaction and the commit of the transaction it wrote to.
Commit(table, record) == tables' = [tables EXCEPT ![table] = @ \union {record}]

-------------------------------------------------------------------------------
\* Module company.

\* runDomain from its start, or from its restart: the caller, and existCompany.
ExistCompany(r) ==
  LET who == PayloadCaller(r)
  IN /\ At(r, "registerCompany", "start")
     /\ ran' = ran \union {[request |-> r, service |-> "registerCompany", caller |-> who]}
     /\ IF {c \in Records("company") : c.bin = Arg(r).bin} # {}
        THEN Fail(r, "CompanyAlreadyExistError")
        ELSE /\ stack' = [stack EXCEPT ![r][Len(stack[r])] =
                            [@ EXCEPT !.at = "person", !.user = who]]
             /\ UNCHANGED <<pc, answer, store, thrown>>
     /\ UNCHANGED <<now, input, caller, app>>

ProcessPerson(r) ==
  /\ At(r, "registerCompany", "person")
  /\ LET service == IF Arg(r).newPerson THEN "addPerson" ELSE "getPersonByIin"
     IN Call(r, Top(r).user, service, Arg(r), "user")
  /\ UNCHANGED <<now, input, pc, caller, thrown, answer, app>>

\* Mutant: the company is added before its user.
AddUserLast(r) ==
  /\ At(r, "registerCompany", "user")
  /\ stack' = [stack EXCEPT ![r][Len(stack[r])] =
                 [@ EXCEPT !.at = "company",
                           !.got = [iin |-> Arg(r).iin, by |-> r, again |-> AnotherUser(r)]]]
  /\ UNCHANGED <<now, input, pc, caller, store, thrown, answer, ran, app>>

AddUser(r) ==
  /\ At(r, "registerCompany", "user")
  /\ Call(r, Top(r).user, "addUser", Arg(r), "company")
  /\ UNCHANGED <<now, input, pc, caller, thrown, answer, app>>

\* addCompany of the repository looks for the BIN again, since others may have
\* committed it meanwhile.
AddCompany(r) ==
  /\ At(r, "registerCompany", "company")
  /\ IF {c \in Records("company") : c.bin = Arg(r).bin} # {}
     THEN Fail(r, "CompanyAlreadyExistError")
     ELSE Step(r, "commit") /\ UNCHANGED <<pc, answer, store, thrown>>
  /\ UNCHANGED <<now, input, caller, ran, app>>

\* Mutant: the command is answered without its commit.
AnswerWithoutCommit(r) ==
  /\ At(r, "registerCompany", "commit")
  /\ Return(r, r)
  /\ UNCHANGED <<now, input, caller, thrown, ran, app>>

CommitCompany(r) ==
  /\ At(r, "registerCompany", "commit")
  /\ Commit("company", [bin |-> Arg(r).bin, employee |-> Top(r).got, by |-> r])
  /\ Return(r, r)
  /\ UNCHANGED <<now, input, caller, thrown, ran, before>>

\* The result of a service that finds something: it, or a failure. The proxy does not
\* return a failure of the services it calls: it throws, or returns what is no result,
\* which its controller trips over.
Result(r, found, error) ==
  \/ /\ \E value \in found : Return(r, value)
     /\ UNCHANGED thrown
  \/ /\ found = {}
     /\ IF Len(stack[r]) > 1 /\ stack[r][1].service = "getFullCompany"
        THEN /\ stack' = [stack EXCEPT ![r] = Front(@)]
             /\ store' = [store EXCEPT ![r] = Front(@)]
             /\ thrown' = [thrown EXCEPT ![r] = "other"]
             /\ UNCHANGED <<pc, answer>>
        ELSE Fail(r, error)

GetCompany(r) ==
  /\ At(r, "getCompany", "start")
  /\ Result(r, {c \in Records("company") : c.by = Arg(r).id}, "CompanyDoesntExistByIdError")
  /\ UNCHANGED <<now, input, caller, ran, app>>

-------------------------------------------------------------------------------
\* Module subject.

FindPerson(r) ==
  /\ At(r, "addPerson", "start")
  /\ IF {p \in Records("person") : p.iin = Arg(r).iin} # {}
     THEN Fail(r, "PersonAlreadyExistsError")
     ELSE Step(r, "commit") /\ UNCHANGED <<pc, answer, store, thrown>>
  /\ UNCHANGED <<now, input, caller, ran, app>>

CommitPerson(r) ==
  LET person == [iin |-> Arg(r).iin, by |-> r]
  IN /\ At(r, "addPerson", "commit")
     /\ Commit("person", person)
     /\ Return(r, person)
     /\ UNCHANGED <<now, input, caller, thrown, ran, before>>

GetPersonByIin(r) ==
  /\ At(r, "getPersonByIin", "start")
  /\ Result(r, {p \in Records("person") : p.iin = Arg(r).iin}, "PersonDoesntExistByIinError")
  /\ UNCHANGED <<now, input, caller, ran, app>>

-------------------------------------------------------------------------------
\* Module auth.

\* addUser looks for no other user of the IIN: each call adds one.
CommitUser(r) ==
  LET user == [iin |-> Arg(r).iin, by |-> r, again |-> AnotherUser(r)]
  IN /\ At(r, "addUser", "start")
     /\ Commit("user", user)
     /\ Return(r, user)
     /\ UNCHANGED <<now, input, caller, thrown, ran, before>>

\* The users of these ids that there are.
GetUsers(r) ==
  /\ At(r, "getUsers", "start")
  /\ Return(r, {u \in Records("user") : u \in Arg(r)})
  /\ UNCHANGED <<now, input, caller, thrown, ran, app>>

-------------------------------------------------------------------------------
\* The proxy module.

FullCompany(r) ==
  LET user == Top(r).user
      got == Top(r).got
  IN \/ /\ At(r, "getFullCompany", "start")
        /\ Call(r, PayloadCaller(r), "getCompany", Arg(r), "users")
        /\ UNCHANGED <<pc, answer>>
     \/ /\ At(r, "getFullCompany", "users")
        /\ Call(r, user, "getUsers", {got.employee}, "persons")
        /\ UNCHANGED <<pc, answer>>
     \/ /\ At(r, "getFullCompany", "persons")
        /\ IF got = {} THEN Return(r, got) /\ UNCHANGED ran
           ELSE \E u \in got : /\ Call(r, user, "getPersonByIin", [iin |-> u.iin], "done")
                                /\ UNCHANGED <<pc, answer>>
     \/ /\ At(r, "getFullCompany", "done")
        /\ Return(r, got)
        /\ UNCHANGED ran
  /\ UNCHANGED <<now, input, caller, thrown, app>>

-------------------------------------------------------------------------------
Serve(r) ==
  \/ (Fetch(r) \/ Catch(r)) /\ UNCHANGED app
  \/ /\ ReadBody(r)
     /\ before' = [before EXCEPT ![r] = {c.bin : c \in tables.company}]
     /\ UNCHANGED tables
  \/ ExistCompany(r) \/ ProcessPerson(r) \/ AddUser(r) \/ AddCompany(r) \/ CommitCompany(r)
  \/ GetCompany(r)
  \/ FindPerson(r) \/ CommitPerson(r) \/ GetPersonByIin(r)
  \/ CommitUser(r) \/ GetUsers(r)
  \/ FullCompany(r)

Over == {"answered", "rejected"}

AllOver == (\A r \in Requests : pc[r] \in Over) /\ UNCHANGED vars

Next ==
  \/ \E r \in Requests : Serve(r) \/ ((Send(r) \/ Throw(r)) /\ UNCHANGED app)
  \/ Tick /\ UNCHANGED app
  \/ AllOver

\* What a request waits for settles, one way or the other.
Spec == Init /\ [][Next]_vars /\ \A r \in Requests : WF_vars(Serve(r))

-------------------------------------------------------------------------------
CallerTypes == {"AnonymousUser", "DomainUser", "ModuleCaller"}

TypeOK ==
  /\ now \in 0..MaxTime
  /\ input \in [Requests -> Inputs \union {None}]
  /\ pc \in [Requests -> {"idle", "sent", "body", "run"} \union Over]
  /\ \A r \in Requests :
       /\ (pc[r] = "run") <=> (stack[r] # <<>>)
       /\ Len(store[r]) = Len(stack[r])
       /\ Len(stack[r]) <= 2
       /\ thrown[r] # None => pc[r] = "run"
       /\ (answer[r] # None) <=> (pc[r] = "answered")
       /\ \A i \in DOMAIN stack[r] :
            stack[r][i].attempts \in 0..1 /\ store[r][i].type \in CallerTypes

\* The user at the bottom of a chain of modules that call one another.
UserOf(who) == IF who.type = "ModuleCaller" THEN who.user ELSE who

\* Whatever a request runs, also in other modules and after restarts, runs for the user
\* its own token names, and for one whose token the server has signed
\* (inject-caller.ts:17-31, web.service.ts:55-59, request-store.ts:43-47).
RunsForItsUser ==
  \A run \in ran :
    LET token == input[run.request].token
    IN /\ token # NoToken
       /\ token.sign = "serverSecret"
       /\ UserOf(run.caller) = DomainUser(token.payload.user)

\* The path of r leads to a module with services.
Routed(r) ==
  LET controller == ControllerOf(input[r].path)
  IN controller # None /\ controller.module \in DOMAIN Services

\* The client asked a module to register a company.
Registers(r) ==
  /\ input[r] # None
  /\ Routed(r)
  /\ input[r].body.service = "registerCompany"

RegisteredBy(r) == \E c \in tables.company : c.by = r

\* A client that is told of success has its company, and one that is told of a failure
\* or an error has none, whichever of the three commands failed (service.ts:52-63).
AnswerMatchesCompany ==
  \A r \in Requests :
    pc[r] \in Over /\ Registers(r) =>
      ((answer[r] # None /\ answer[r].status = 200) <=> RegisteredBy(r))

\* Nobody reads a company whose employee, or whose employee's person, is missing,
\* although the three are committed to different databases (service.ts:55-63).
CompanyHasItsPeople ==
  \A c \in tables.company :
    /\ c.employee \in tables.user
    /\ \E p \in tables.person : p.iin = c.employee.iin

\* Once a company is committed, a request that is read only then registers no second
\* one with its BIN; two that overlap may (service.ts:66-79, company.ts:40-47).
NoLateDuplicate ==
  \A c \in tables.company : c.bin \notin before[c.by]

\* Two registrations never leave two companies with one BIN: there must be no company
\* with it (user-story.md:32). Each looks for the BIN among committed companies only, so
\* that two that overlap both find none (company.ts:40-47).
BinsAreUnique ==
  \A c, d \in tables.company : c.bin = d.bin => c = d

\* Every request is answered, unless lock mismatches restart its commands for ever
\* (bun-server.ts:67-88, strategy.ts:26-30).
EveryRequestAnswered ==
  \A r \in Requests : pc[r] # "idle" ~> (pc[r] \in Over \/ thrown[r] = "lock")

\* How a registration has ended; other requests end without a company.
Outcome(r) ==
  IF pc[r] \notin Over THEN "pending"
  ELSE IF answer[r] # None /\ answer[r].status = 200 /\ Registers(r) THEN "success"
  ELSE "failure"

Atomic == INSTANCE AtomicCommands WITH
  Keys <- Requests,
  Writes <- [r \in Requests |-> [k \in Requests |-> IF k = r THEN "add" ELSE "nothing"]],
  Seed <- None,
  records <- [r \in Requests |-> IF RegisteredBy(r) THEN r ELSE None],
  outcome <- [r \in Requests |-> Outcome(r)]

\* Registering a company looks like one command although it is made of three, with
\* databases, restarts and failures of their own: the company is there at once when the
\* client is told of success, and otherwise never (service.ts:52-79).
ImplementsAtomicCommands == Atomic!Spec
===============================================================================
