--------------------------- MODULE DatabaseLifecycle ---------------------------
(***************************************************************************)
(* The databases of a server's modules (BunSqliteDatabase, its repositories *)
(* and their migrations) and the service manager that creates, migrates and *)
(* clears them. Each run of the manager is a process of its own, started    *)
(* from some version of the program; a later version may have new           *)
(* migrations and new repositories. Runs may overlap, and each may be       *)
(* killed, or end with an error, between any two sqlite transactions.       *)
(*                                                                         *)
(* A migration's SQL is abstracted to its row, the records of a database to *)
(* whether there are any. The runs are those of mode prod: in the others    *)
(* the same createDb runs on a database in memory that nobody shares.       *)
(***************************************************************************)
EXTENDS Naturals, Sequences, SequencesExt

CONSTANTS
  Managers,    \* runs of the service manager
  Argvs,       \* the command lines they may have
  Modules,     \* the server's modules, a sequence
  MaxVersion,  \* bound: versions of the program
  ReposOf,     \* ReposOf[v][d]: the repositories of module d in version v
  RowsOf,      \* RowsOf[v][r]: the migrationRows of repository r in version v
  Migrations,  \* the table that migrations are registered in
  NoKey        \* parseArgs: no option was seen yet

Versions == 1..MaxVersion
Databases == ToSet(Modules)

\* The first of ds that a loop over the server's modules comes to.
FirstOf(ds) ==
  Modules[CHOOSE i \in DOMAIN Modules :
            Modules[i] \in ds /\ \A j \in 1..(i - 1) : Modules[j] \notin ds]

Repos == UNION {ToSet(ReposOf[v][d]) : v \in Versions, d \in Databases}
Tables == Repos \union {Migrations}
Rows == UNION {ToSet(RowsOf[v][r]) : v \in Versions, r \in Repos}

Options == {"list", "status", "create", "migrate", "clear", "sql", "help", "module",
            "method"}

ASSUME LifecycleAssumption ==
  /\ MaxVersion \in Nat \ {0}
  /\ Argvs \subseteq Seq(STRING)
  /\ Migrations \notin Repos
  /\ NoKey \notin Options

\* Each module has a database file of its own, and tables of its own in it.
ASSUME ReposAssumption ==
  /\ Modules \in Seq(Databases)
  /\ \A v \in Versions, d \in Databases : ReposOf[v][d] \in Seq(Repos)
  /\ \A v, w \in Versions, d, e \in Databases :
       d # e => ToSet(ReposOf[v][d]) \intersect ToSet(ReposOf[w][e]) = {}

ASSUME RowsAssumption ==
  /\ \A v \in Versions, r \in Tables : RowsOf[v][r] \in Seq(Rows)
  /\ \A v \in Versions : RowsOf[v][Migrations] = <<>>
  \* A later version only appends, and ids are unique.
  /\ \A v \in Versions, r \in Tables : IsPrefix(RowsOf[v][r], RowsOf[MaxVersion][r])
  /\ \A r, s \in Tables : \A i \in DOMAIN RowsOf[MaxVersion][r],
                             j \in DOMAIN RowsOf[MaxVersion][s] :
       RowsOf[MaxVersion][r][i] = RowsOf[MaxVersion][s][j] => r = s /\ i = j

VARIABLES
  tables,      \* tables[d]: the tables of d's file
  registered,  \* registered[d]: the ids in its migrations table
  schema,      \* schema[r]: the migrations table r has gone through
  filled,      \* the databases that hold records
  pc, version, command,
  queue,       \* the modules a run has yet to deal with, in the server's order
  repo, row,   \* where it stands in createRepositories and in migrateDb
  report       \* report[p][d]: what a run has printed about d

files == <<tables, registered, schema, filled>>
vars == <<files, pc, version, command, queue, repo, row, report>>

Over == {"over", "failed"}

TypeOK ==
  /\ tables \in [Databases -> SUBSET Tables]
  /\ registered \in [Databases -> SUBSET Rows]
  /\ schema \in [Repos -> Seq(Rows)]
  /\ filled \subseteq Databases
  /\ pc \in [Managers ->
       {"idle", "next", "createDb", "createTable", "checkRow", "applyRow", "clear", "sql"}
         \union Over]
  /\ version \in [Managers -> Versions]
  /\ command \in [Managers -> Options]
  /\ queue \in [Managers -> SUBSET Databases]
  /\ repo \in [Managers -> Nat \ {0}]
  /\ row \in [Managers -> Nat \ {0}]
  /\ report \in [Managers -> [Databases -> {"nothing", "done", "notNeeded"}]]

Init ==
  /\ tables = [d \in Databases |-> {}]
  /\ registered = [d \in Databases |-> {}]
  /\ schema = [r \in Repos |-> <<>>]
  /\ filled = {}
  /\ pc = [p \in Managers |-> "idle"]
  /\ version \in [Managers -> Versions]
  /\ command = [p \in Managers |-> "help"]
  /\ queue = [p \in Managers |-> {}]
  /\ repo = [p \in Managers |-> 1]
  /\ row = [p \in Managers |-> 1]
  /\ report = [p \in Managers |-> [d \in Databases |-> "nothing"]]

Goto(p, from, to) == pc[p] = from /\ pc' = [pc EXCEPT ![p] = to]

-------------------------------------------------------------------------------
\* Statuses of a repository and a database, as version v sees them.

Repositories(v, d) == <<Migrations>> \o ReposOf[v][d]

StatusOf(all, none) == IF all THEN "complete" ELSE IF none THEN "none" ELSE "partial"

CreationStatus(v, d) ==
  LET repos == ToSet(Repositories(v, d))
  IN StatusOf(repos \subseteq tables[d], repos \intersect tables[d] = {})

RepoMigrateStatus(v, d, r) ==
  LET rows == ToSet(RowsOf[v][r])
  IN IF r \notin tables[d] THEN "none"
     ELSE IF rows = {} THEN "notRequired"
     ELSE StatusOf(rows \subseteq registered[d], rows \intersect registered[d] = {})

MigrationStatus(v, d) ==
  LET statuses == {RepoMigrateStatus(v, d, r) : r \in ToSet(Repositories(v, d))}
  IN StatusOf(statuses \subseteq {"complete", "notRequired"}, statuses = {"none"})

-------------------------------------------------------------------------------
\* The command line.

\* parseArgs: every option with the words after it.
ParseArgs(argv) ==
  LET Closed(acc) == IF acc.key = NoKey THEN acc.args
                     ELSE [o \in DOMAIN acc.args \union {acc.key} |->
                             IF o = acc.key THEN acc.words ELSE acc.args[o]]
      Take(acc, word) ==
        IF word \in Options THEN [args |-> Closed(acc), key |-> word, words |-> <<>>]
        ELSE IF acc.key = NoKey THEN acc
        ELSE [acc EXCEPT !.words = Append(@, word)]
  IN Closed(FoldLeft(Take, [args |-> <<>>, key |-> NoKey, words |-> <<>>], argv))

\* The commands, in the order run tests them.
Commands == <<"list", "status", "create", "migrate", "clear", "sql">>

CommandOf(args) ==
  IF \A i \in DOMAIN Commands : Commands[i] \notin DOMAIN args THEN "help"
  ELSE Commands[CHOOSE i \in DOMAIN Commands :
         /\ Commands[i] \in DOMAIN args
         /\ \A j \in 1..(i - 1) : Commands[j] \notin DOMAIN args]

\* Mutant: the names are taken as they were given.
ModulesAsGiven(args) ==
  IF "module" \notin DOMAIN args THEN {}
  ELSE IF args["module"] = <<"all">> THEN Databases
  ELSE ToSet(args["module"])

\* The modules of --module; names the server does not have are passed over. Without
\* --module there are none.
ModulesOf(args) ==
  IF "module" \notin DOMAIN args THEN {}
  ELSE IF args["module"] = <<"all">> THEN Databases
  ELSE Databases \intersect ToSet(args["module"])

\* processSql: one module, named, and a method there is or none.
IsSql(args) ==
  /\ "module" \in DOMAIN args /\ \E d \in Databases : args["module"] = <<d>>
  /\ "method" \in DOMAIN args => args["method"] \in {<<"all">>, <<"get">>, <<"run">>, <<>>}

-------------------------------------------------------------------------------
\* What is refused, and the other commands, print something and change nothing.
Run(p) ==
  \E argv \in Argvs :
    LET args == ParseArgs(argv)
        then == IF CommandOf(args) \in {"create", "migrate", "clear"} THEN "next"
                ELSE IF CommandOf(args) = "sql" /\ IsSql(args) THEN "sql"
                ELSE "over"
    IN /\ Goto(p, "idle", then)
       /\ command' = [command EXCEPT ![p] = CommandOf(args)]
       /\ queue' = [queue EXCEPT ![p] = IF then = "over" THEN {} ELSE ModulesOf(args)]
       /\ UNCHANGED <<files, version, repo, row, report>>

Database(p) == FirstOf(queue[p])

\* A statement about records: whoever defines tables with it does without migrations.
Sql(p) ==
  /\ Goto(p, "sql", "over")
  /\ \/ filled' \in {filled, filled \ {Database(p)}}
     \/ /\ tables[Database(p)] \ {Migrations} # {}
        /\ filled' = filled \union {Database(p)}
  /\ UNCHANGED <<tables, registered, schema, version, command, queue, repo, row, report>>

Finish(p) ==
  /\ Goto(p, "next", "over")
  /\ queue[p] = {}
  /\ UNCHANGED <<files, version, command, queue, repo, row, report>>

Printed(p, what) ==
  /\ report' = [report EXCEPT ![p][Database(p)] = what]
  /\ queue' = [queue EXCEPT ![p] = @ \ {Database(p)}]

StatusFor(p) ==
  CASE command[p] = "create" -> CreationStatus(version[p], Database(p))
    [] command[p] = "migrate" -> MigrationStatus(version[p], Database(p))
    [] command[p] = "clear" -> "none"

NotNeeded(p) ==
  /\ Goto(p, "next", "next")
  /\ queue[p] # {}
  /\ StatusFor(p) = "complete"
  /\ Printed(p, "notNeeded")
  /\ UNCHANGED <<files, version, command, repo, row>>

Begin(p) ==
  /\ pc[p] = "next"
  /\ queue[p] # {}
  /\ StatusFor(p) # "complete"
  /\ Goto(p, "next", CASE command[p] = "create" -> "createDb"
                       [] command[p] = "migrate" -> "checkRow"
                       [] command[p] = "clear" -> "clear")
  /\ repo' = [repo EXCEPT ![p] = 1]
  /\ row' = [row EXCEPT ![p] = 1]
  /\ UNCHANGED <<files, version, command, queue, report>>

-------------------------------------------------------------------------------
Repository(p) == Repositories(version[p], Database(p))[repo[p]]

LastRepository(p) == Len(Repositories(version[p], Database(p)))

\* Mutant: tables that exist are left alone, and the others created.
ContinueCreation(p) ==
  /\ Goto(p, "createDb", "createTable")
  /\ UNCHANGED <<files, version, command, queue, repo, row, report>>

\* createDb: throws unless none of the tables is there.
CreateDb(p) ==
  /\ pc[p] = "createDb"
  /\ Goto(p, "createDb", IF CreationStatus(version[p], Database(p)) = "none"
                         THEN "createTable" ELSE "failed")
  /\ UNCHANGED <<files, version, command, queue, repo, row, report>>

\* Mutant: CREATE TABLE IF NOT EXISTS.
CreateTableIfNotExists(p) ==
  /\ pc[p] = "createTable"
  /\ tables' = [tables EXCEPT ![Database(p)] = @ \union {Repository(p)}]
  /\ IF repo[p] < LastRepository(p)
     THEN /\ Goto(p, "createTable", "createTable")
          /\ repo' = [repo EXCEPT ![p] = @ + 1]
     ELSE /\ Goto(p, "createTable", "checkRow")
          /\ repo' = [repo EXCEPT ![p] = 1]
  /\ UNCHANGED <<registered, schema, filled, version, command, queue, row, report>>

\* createRepositories, one CREATE TABLE of it; after the last, migrateDb begins.
CreateTable(p) ==
  /\ pc[p] = "createTable"
  /\ Repository(p) \notin tables[Database(p)]
  /\ tables' = [tables EXCEPT ![Database(p)] = @ \union {Repository(p)}]
  /\ IF repo[p] < LastRepository(p)
     THEN /\ Goto(p, "createTable", "createTable")
          /\ repo' = [repo EXCEPT ![p] = @ + 1]
     ELSE /\ Goto(p, "createTable", "checkRow")
          /\ repo' = [repo EXCEPT ![p] = 1]
  /\ UNCHANGED <<registered, schema, filled, version, command, queue, row, report>>

-------------------------------------------------------------------------------
RowsLeft(p) == repo[p] <= LastRepository(p) /\ row[p] <= Len(RowsOf[version[p]][Repository(p)])

Row(p) == RowsOf[version[p]][Repository(p)][row[p]]

NextRepository(p) ==
  /\ Goto(p, "checkRow", "checkRow")
  /\ repo[p] <= LastRepository(p)
  /\ ~RowsLeft(p)
  /\ repo' = [repo EXCEPT ![p] = @ + 1]
  /\ row' = [row EXCEPT ![p] = 1]
  /\ UNCHANGED <<files, version, command, queue, report>>

\* rowIsMigrated, a query of its own before the transaction.
CheckRow(p) ==
  /\ pc[p] = "checkRow"
  /\ RowsLeft(p)
  /\ Migrations \in tables[Database(p)]
  /\ IF Row(p) \in registered[Database(p)]
     THEN /\ Goto(p, "checkRow", "checkRow")
          /\ row' = [row EXCEPT ![p] = @ + 1]
     ELSE /\ Goto(p, "checkRow", "applyRow")
          /\ UNCHANGED row
  /\ UNCHANGED <<files, version, command, queue, repo, report>>

\* Mutant: the row is registered whether it was already or not.
ApplyRowAgain(p) ==
  /\ Goto(p, "applyRow", "checkRow")
  /\ Repository(p) \in tables[Database(p)]
  /\ schema' = [schema EXCEPT ![Repository(p)] = Append(@, Row(p))]
  /\ registered' = [registered EXCEPT ![Database(p)] = @ \union {Row(p)}]
  /\ row' = [row EXCEPT ![p] = @ + 1]
  /\ UNCHANGED <<tables, filled, version, command, queue, repo, report>>

\* The transaction of migrate: the row's SQL, which needs the table, and its
\* registration, which the primary key refuses when the row is registered already.
ApplyRow(p) ==
  /\ Goto(p, "applyRow", "checkRow")
  /\ Repository(p) \in tables[Database(p)]
  /\ Row(p) \notin registered[Database(p)]
  /\ schema' = [schema EXCEPT ![Repository(p)] = Append(@, Row(p))]
  /\ registered' = [registered EXCEPT ![Database(p)] = @ \union {Row(p)}]
  /\ row' = [row EXCEPT ![p] = @ + 1]
  /\ UNCHANGED <<tables, filled, version, command, queue, repo, report>>

\* createDb or migrateDb returns.
Done(p) ==
  /\ Goto(p, "checkRow", "next")
  /\ repo[p] > LastRepository(p)
  /\ Printed(p, "done")
  /\ UNCHANGED <<files, version, command, repo, row>>

\* Mutant: clear deletes the registered migrations with the other records.
ClearEverything(p) ==
  /\ Goto(p, "clear", "next")
  /\ ToSet(Repositories(version[p], Database(p))) \subseteq tables[Database(p)]
  /\ filled' = filled \ {Database(p)}
  /\ registered' = [registered EXCEPT ![Database(p)] = {}]
  /\ Printed(p, "done")
  /\ UNCHANGED <<tables, schema, version, command, repo, row>>

\* clearDb, one transaction; it needs all of its tables, and does not know those of a
\* later version. Registered migrations stay.
ClearDb(p) ==
  /\ Goto(p, "clear", "next")
  /\ ToSet(ReposOf[version[p]][Database(p)]) \subseteq tables[Database(p)]
  /\ \/ filled' = filled \ {Database(p)}
     \/ /\ ~(tables[Database(p)] \subseteq ToSet(Repositories(version[p], Database(p))))
        /\ UNCHANGED filled
  /\ Printed(p, "done")
  /\ UNCHANGED <<tables, registered, schema, version, command, repo, row>>

\* Mutant: a row that fails is logged, and the next one tried.
SkipFailedRow(p) ==
  \/ /\ Goto(p, "applyRow", "checkRow")
     /\ row' = [row EXCEPT ![p] = @ + 1]
     /\ UNCHANGED <<files, version, command, queue, repo, report>>
  \/ /\ pc[p] \notin {"idle"} \union Over
     /\ pc' = [pc EXCEPT ![p] = "failed"]
     /\ UNCHANGED <<files, version, command, queue, repo, row, report>>

\* The process is killed, or a statement throws: because its table is there already,
\* or is not, because the row is registered, another process holds the file's lock,
\* the SQL is wrong, or the disk full. Nothing catches it; the open transaction is
\* rolled back.
Fail(p) ==
  /\ pc[p] \notin {"idle"} \union Over
  /\ pc' = [pc EXCEPT ![p] = "failed"]
  /\ UNCHANGED <<files, version, command, queue, repo, row, report>>

\* addBatch, by a server that runs meanwhile.
AddBatch(d) ==
  /\ tables[d] \ {Migrations} # {}
  /\ filled' = filled \union {d}
  /\ UNCHANGED <<tables, registered, schema, pc, version, command, queue, repo, row, report>>

-------------------------------------------------------------------------------
ManagerStep(p) ==
  \/ Run(p) \/ Finish(p) \/ NotNeeded(p) \/ Begin(p)
  \/ CreateDb(p) \/ CreateTable(p)
  \/ NextRepository(p) \/ CheckRow(p) \/ ApplyRow(p) \/ Done(p)
  \/ ClearDb(p) \/ Sql(p)
  \/ Fail(p)

AllOver == (\A p \in Managers : pc[p] \in Over) /\ UNCHANGED vars

Next ==
  \/ \E p \in Managers : ManagerStep(p)
  \/ \E d \in Databases : AddBatch(d)
  \/ AllOver

Spec == Init /\ [][Next]_vars

-------------------------------------------------------------------------------
\* A table has gone through exactly the migrations that are registered for it: no kill
\* separates the two, and clear does not make the program forget them
\* (repository.ts:60-64, migrations.ts:38).
RegisteredIffApplied ==
  \A d \in Databases, v \in Versions : \A r \in ToSet(ReposOf[v][d]) :
    ToSet(schema[r]) = registered[d] \intersect ToSet(RowsOf[MaxVersion][r])

\* Every table goes through its migrations in order and through each of them once,
\* also when two runs find the same row missing (repository.ts:58-64).
OrderedMigrations ==
  INSTANCE OrderedMigrations WITH
    Tables <- Repos, Planned <- RowsOf[MaxVersion], schema <- schema

ImplementsOrderedMigrations == OrderedMigrations!Spec

\* What a run has printed about a database stays true, whatever other runs and versions
\* do: created or migrated databases have all the migrations of its version, and
\* created ones, or ones found created, all tables (db-service-manager.ts:236-242).
ReportHolds ==
  \A p \in Managers, d \in Databases :
    report[p][d] # "nothing" =>
      /\ command[p] = "create" => CreationStatus(version[p], d) = "complete"
      /\ command[p] = "migrate" \/ (command[p] = "create" /\ report[p][d] = "done") =>
           \A r \in ToSet(ReposOf[version[p]][d]) :
             ToSet(RowsOf[version[p]][r]) \subseteq registered[d]

\* Of the runs that create a database at the same time one at most succeeds
\* (database.ts:63-66, repositories/migrations.ts:12-22).
OneCreator ==
  \A p, q \in Managers, d \in Databases :
    /\ command[p] = "create" /\ report[p][d] = "done"
    /\ command[q] = "create" /\ report[q][d] = "done"
    => p = q

\* A database that has some of its tables only, since its creation was interrupted or
\* since it is of an earlier version, and that no run is creating just now.
Partial(v, d) ==
  /\ CreationStatus(v, d) = "partial"
  /\ \A p \in Managers : pc[p] = "createTable" => Database(p) # d

\* It stays so: no run creates the missing tables (database.ts:63-65).
PartialIsFinal ==
  [][\A v \in Versions, d \in Databases : Partial(v, d) => Partial(v, d)']_vars
===============================================================================
