------------------------ MODULE DatabaseLifecycleProofs ------------------------
(***************************************************************************)
(* Proofs about DatabaseLifecycle, for any modules, versions, migrations    *)
(* and runs of the service manager: its type invariant, that migrations and *)
(* their registrations never part, that tables go through their migrations  *)
(* in order and once, and that a database has one creator.                  *)
(***************************************************************************)
EXTENDS DatabaseLifecycle, SequenceTheorems, WellFoundedInduction, TLAPS

Planned(r) == RowsOf[MaxVersion][r]

\* A table has gone through the first of its migrations, in their order.
InOrder ==
  \A r \in Repos :
    /\ Len(schema[r]) <= Len(Planned(r))
    /\ \A i \in 1..Len(schema[r]) : schema[r][i] = Planned(r)[i]

\* And just these are registered.
RegisteredPrefix ==
  \A d \in Databases, v \in Versions : \A r \in ToSet(ReposOf[v][d]) :
    \A i \in 1..Len(Planned(r)) : Planned(r)[i] \in registered[d] <=> i <= Len(schema[r])

AtWork == {"createDb", "createTable", "checkRow", "applyRow"}

\* A run that has not finished its list is one of the three commands.
AtWorkOnSome ==
  \A p \in Managers :
    /\ pc[p] \in AtWork \union {"clear", "sql"} => queue[p] # {}
    /\ pc[p] \in AtWork \union {"next", "clear"} =>
         command[p] \in {"create", "migrate", "clear"}
    /\ pc[p] \in {"createDb", "createTable"} => command[p] = "create"
    /\ pc[p] = "clear" => command[p] = "clear"
    /\ pc[p] = "idle" => \A d \in Databases : report[p][d] = "nothing"

\* Where a run stands in its two loops.
Position ==
  \A p \in Managers :
    /\ pc[p] \in {"createDb", "createTable"} => row[p] = 1
    /\ pc[p] = "createDb" => repo[p] = 1
    /\ pc[p] = "createTable" => repo[p] <= LastRepository(p)
    /\ pc[p] = "applyRow" => RowsLeft(p)

\* The rows of its table before the one a run stands at are registered.
EarlierRows ==
  \A p \in Managers :
    pc[p] \in {"checkRow", "applyRow"} /\ repo[p] <= LastRepository(p) =>
      \A i \in 1..(row[p] - 1) :
        /\ i <= Len(RowsOf[version[p]][Repository(p)])
        /\ RowsOf[version[p]][Repository(p)][i] \in registered[Database(p)]

\* What a run has got through, in the loop over the tables and in that over the rows.
Progress ==
  \A p \in Managers :
    LET all == Repositories(version[p], Database(p)) IN
    /\ pc[p] = "createTable" =>
         \A i \in 1..(repo[p] - 1) : all[i] \in tables[Database(p)]
    /\ pc[p] \in {"checkRow", "applyRow"} /\ command[p] = "create" =>
         \A i \in 1..Len(all) : all[i] \in tables[Database(p)]
    /\ pc[p] \in {"checkRow", "applyRow"} =>
         \A i \in 1..(repo[p] - 1) :
           i <= Len(all) => ToSet(RowsOf[version[p]][all[i]]) \subseteq registered[Database(p)]

\* The run has made the migrations table of d, or found d to be made by it.
Creates(p, d) ==
  /\ command[p] = "create"
  /\ \/ report[p][d] = "done"
     \/ /\ pc[p] = "createTable" /\ repo[p] > 1
        /\ Database(p) = d
     \/ /\ pc[p] \in {"checkRow", "applyRow"}
        /\ Database(p) = d

\* What is created begins with its migrations table, and nobody else can create that.
Creators ==
  \A d \in Databases :
    /\ tables[d] # {} => Migrations \in tables[d]
    /\ \A p \in Managers : Creates(p, d) => Migrations \in tables[d]
    /\ \A p, q \in Managers : Creates(p, d) /\ Creates(q, d) => p = q

IInv ==
  /\ TypeOK
  /\ InOrder
  /\ RegisteredPrefix
  /\ AtWorkOnSome
  /\ Position
  /\ EarlierRows
  /\ Progress
  /\ ReportHolds
  /\ Creators

\* Every nonempty set of naturals has a least element.
LEMMA LeastOf ==
  ASSUME NEW T, T \subseteq Nat, T # {}
  PROVE  \E x \in T : \A y \in T : x <= y
<1>1. PICK x \in T : \A y \in T : ~(<<y, x>> \in OpToRel(<, Nat))
  BY NatLessThanWellFounded, WFMin
<1>2. \A y \in T : ~(y < x)
  BY <1>1 DEF OpToRel
<1> QED BY <1>2

-------------------------------------------------------------------------------
\* The loop over the modules comes to one that was asked for.
LEMMA FirstOfType ==
  ASSUME NEW ds \in SUBSET Databases, ds # {}
  PROVE  FirstOf(ds) \in ds
<1> DEFINE T == {i \in DOMAIN Modules : Modules[i] \in ds}
<1>1. DOMAIN Modules = 1..Len(Modules) /\ Len(Modules) \in Nat
  BY ReposAssumption
<1>2. T # {}
  BY DEF Databases, ToSet
<1>3. T \subseteq Nat
  BY <1>1
<1> HIDE DEF T
<1>4. PICK x \in T : \A y \in T : x <= y
  BY <1>2, <1>3, LeastOf
<1> USE DEF T
<1>5. \A j \in 1..(x - 1) : Modules[j] \notin ds
  BY <1>1, <1>4
<1> QED BY <1>4, <1>5 DEF FirstOf

\* Whatever is given, run does one of the commands or prints the help.
LEMMA CommandOfType ==
  ASSUME NEW args
  PROVE  CommandOf(args) \in {"list", "status", "create", "migrate", "clear", "sql", "help"}
<1> DEFINE T == {i \in DOMAIN Commands : Commands[i] \in DOMAIN args}
<1>1. DOMAIN Commands = 1..6
  BY DEF Commands
<1>2. CASE T = {}
  BY <1>2 DEF CommandOf
<1>3. CASE T # {}
  <2>1. PICK x \in T : \A y \in T : x <= y
    BY <1>1, <1>3, LeastOf
  <2>2. \A j \in 1..(x - 1) : Commands[j] \notin DOMAIN args
    BY <1>1, <2>1
  <2>3. PICK i \in DOMAIN Commands : CommandOf(args) = Commands[i]
    BY <2>1, <2>2 DEF CommandOf
  <2> QED BY <1>1, <2>3 DEF Commands
<1> QED BY <1>2, <1>3

\* Rows of a version are the first of the planned ones.
LEMMA RowsFacts ==
  ASSUME NEW v \in Versions, NEW r \in Tables
  PROVE  /\ RowsOf[v][r] \in Seq(Rows)
         /\ Len(RowsOf[v][r]) <= Len(Planned(r))
         /\ Planned(r) \in Seq(Rows)
         /\ \A i \in 1..Len(RowsOf[v][r]) : RowsOf[v][r][i] = Planned(r)[i]
<1>1. MaxVersion \in Versions
  BY LifecycleAssumption DEF Versions
<1>2. RowsOf[v][r] \in Seq(Rows) /\ Planned(r) \in Seq(Rows)
  BY <1>1, RowsAssumption DEF Planned
<1>3. IsPrefix(RowsOf[v][r], Planned(r))
  BY RowsAssumption DEF Planned
<1> QED BY <1>2, <1>3 DEF IsPrefix

\* The migrations table comes first, and then tables of the module.
LEMMA RepositoriesFacts ==
  ASSUME NEW v \in Versions, NEW d \in Databases
  PROVE  /\ Len(Repositories(v, d)) \in Nat \ {0}
         /\ Repositories(v, d)[1] = Migrations
         /\ \A i \in 2..Len(Repositories(v, d)) :
              Repositories(v, d)[i] \in ToSet(ReposOf[v][d])
         /\ ToSet(ReposOf[v][d]) \subseteq Repos
         /\ \A i \in 1..Len(Repositories(v, d)) : Repositories(v, d)[i] \in Tables
<1>1. ReposOf[v][d] \in Seq(Repos)
  BY ReposAssumption
<1>2. Repositories(v, d) = <<Migrations>> \o ReposOf[v][d]
  BY DEF Repositories
<1>3. Len(Repositories(v, d)) = 1 + Len(ReposOf[v][d])
  BY <1>1, <1>2
<1>4. \A i \in 2..Len(Repositories(v, d)) : Repositories(v, d)[i] = ReposOf[v][d][i - 1]
  BY <1>1, <1>2
<1>5. \A i \in 2..Len(Repositories(v, d)) : Repositories(v, d)[i] \in ToSet(ReposOf[v][d])
  BY <1>1, <1>3, <1>4 DEF ToSet
<1>6. ToSet(ReposOf[v][d]) \subseteq Repos
  BY <1>1 DEF ToSet
<1>7. Repositories(v, d)[1] = Migrations
  BY <1>1, <1>2
<1> QED BY <1>1, <1>3, <1>5, <1>6, <1>7 DEF Tables

\* The repositories of a database are its migrations table's and those of the module.
LEMMA RepositoriesHold ==
  ASSUME NEW v \in Versions, NEW d \in Databases
  PROVE  /\ Repositories(v, d) \in Seq(Tables)
         /\ ToSet(ReposOf[v][d]) \subseteq ToSet(Repositories(v, d))
<1>1. ReposOf[v][d] \in Seq(Repos)
  BY ReposAssumption
<1>2. Repositories(v, d) \in Seq(Tables)
  BY <1>1 DEF Repositories, Tables
<1>3. \A i \in 1..Len(ReposOf[v][d]) : /\ Repositories(v, d)[i + 1] = ReposOf[v][d][i]
                                      /\ i + 1 \in 1..Len(Repositories(v, d))
  BY <1>1 DEF Repositories
<1>4. ASSUME NEW r \in ToSet(ReposOf[v][d])
      PROVE  r \in ToSet(Repositories(v, d))
  <2>1. PICK i \in 1..Len(ReposOf[v][d]) : ReposOf[v][d][i] = r
    BY <1>1 DEF ToSet
  <2>2. DOMAIN Repositories(v, d) = 1..Len(Repositories(v, d))
    BY <1>2
  <2> QED BY <1>3, <2>1, <2>2 DEF ToSet
<1> QED BY <1>2, <1>4

-------------------------------------------------------------------------------
\* The database a run is at work on is one of the server's.
LEMMA DatabaseType ==
  ASSUME TypeOK, NEW p \in Managers, queue[p] # {}
  PROVE  Database(p) \in queue[p] /\ Database(p) \in Databases
<1>1. queue[p] \in SUBSET Databases
  BY DEF TypeOK
<1> QED BY <1>1, FirstOfType DEF Database

\* A step of one run leaves the others where they are.
LEMMA Others ==
  ASSUME TypeOK, NEW p \in Managers, ManagerStep(p), NEW q \in Managers, q # p
  PROVE  /\ pc'[q] = pc[q] /\ row'[q] = row[q] /\ repo'[q] = repo[q]
         /\ version' = version /\ command'[q] = command[q]
         /\ queue'[q] = queue[q] /\ report'[q] = report[q]
<1> USE DEF TypeOK, Goto, Printed
<1>1. CASE Run(p)
  BY <1>1 DEF Run
<1>2. CASE Finish(p) \/ NotNeeded(p) \/ Begin(p) \/ CreateDb(p) \/ CreateTable(p)
  BY <1>2 DEF Finish, NotNeeded, Begin, CreateDb, CreateTable
<1>3. CASE NextRepository(p) \/ CheckRow(p) \/ ApplyRow(p) \/ Done(p)
  BY <1>3 DEF NextRepository, CheckRow, ApplyRow, Done
<1>4. CASE ClearDb(p) \/ Sql(p) \/ Fail(p)
  BY <1>4 DEF ClearDb, Sql, Fail
<1> QED BY <1>1, <1>2, <1>3, <1>4 DEF ManagerStep

\* Tables and registrations are never taken away, and only the run at work on a database
\* adds to them.
LEMMA Growth ==
  ASSUME TypeOK, NEW p \in Managers, ManagerStep(p)
  PROVE  /\ version' = version
         /\ ~CreateTable(p) => UNCHANGED tables
         /\ ~ApplyRow(p) => UNCHANGED <<schema, registered>>
         /\ \A d \in Databases : tables[d] \subseteq tables'[d]
         /\ \A d \in Databases : registered[d] \subseteq registered'[d]
<1> USE DEF TypeOK, files
<1>1. CASE Run(p) \/ Finish(p) \/ NotNeeded(p) \/ Begin(p) \/ CreateDb(p)
  BY <1>1 DEF Run, Finish, NotNeeded, Begin, CreateDb
<1>2. CASE CreateTable(p)
  BY <1>2 DEF CreateTable
<1>3. CASE NextRepository(p) \/ CheckRow(p) \/ Done(p)
  BY <1>3 DEF NextRepository, CheckRow, Done
<1>4. CASE ApplyRow(p)
  BY <1>4 DEF ApplyRow
<1>5. CASE ClearDb(p) \/ Sql(p) \/ Fail(p)
  BY <1>5 DEF ClearDb, Sql, Fail
<1> QED BY <1>1, <1>2, <1>3, <1>4, <1>5 DEF ManagerStep

-------------------------------------------------------------------------------
\* The row a run applies is the next one of its table.
LEMMA NextRow ==
  ASSUME IInv, NEW p \in Managers, ApplyRow(p)
  PROVE  /\ Database(p) \in Databases
         /\ Repository(p) \in ToSet(ReposOf[version[p]][Database(p)])
         /\ Repository(p) \in Repos
         /\ Len(schema[Repository(p)]) < Len(Planned(Repository(p)))
         /\ Row(p) = Planned(Repository(p))[Len(schema[Repository(p)]) + 1]
         /\ row[p] = Len(schema[Repository(p)]) + 1
<1> DEFINE v == version[p]
           d == Database(p)
           r == Repository(p)
           k == row[p]
           n == Len(schema[r])
<1>1. v \in Versions /\ k \in Nat \ {0} /\ repo[p] \in Nat \ {0}
  BY DEF IInv, TypeOK
<1>2. pc[p] = "applyRow" /\ Row(p) \notin registered[d]
  BY DEF ApplyRow, Goto
<1>3. d \in Databases
  BY <1>2, DatabaseType DEF IInv, AtWorkOnSome, AtWork
<1>4. repo[p] <= Len(Repositories(v, d)) /\ k <= Len(RowsOf[v][r])
  BY <1>2 DEF IInv, Position, RowsLeft, LastRepository
<1>5. r = Repositories(v, d)[repo[p]]
  BY DEF Repository
<1>6. r \in Tables
  BY <1>1, <1>3, <1>4, <1>5, RepositoriesFacts
<1>7. r # Migrations
  BY <1>1, <1>4, RowsAssumption
<1>8. r \in ToSet(ReposOf[v][d]) /\ r \in Repos
  <2>1. repo[p] \in 2..Len(Repositories(v, d))
    BY <1>1, <1>3, <1>4, <1>5, <1>7, RepositoriesFacts
  <2> QED BY <2>1, <1>1, <1>3, <1>5, RepositoriesFacts
<1>9. /\ RowsOf[v][r] \in Seq(Rows)
      /\ Planned(r) \in Seq(Rows)
      /\ Len(RowsOf[v][r]) <= Len(Planned(r))
      /\ \A i \in 1..Len(RowsOf[v][r]) : RowsOf[v][r][i] = Planned(r)[i]
  BY <1>1, <1>6, RowsFacts
<1>10. n \in Nat
  BY <1>8 DEF IInv, TypeOK
<1>11. Row(p) = Planned(r)[k] /\ k \in 1..Len(Planned(r))
  BY <1>1, <1>4, <1>9 DEF Row
<1>12. \A i \in 1..Len(Planned(r)) : Planned(r)[i] \in registered[d] <=> i <= n
  BY <1>1, <1>3, <1>8 DEF IInv, RegisteredPrefix
<1>13. k > n
  BY <1>1, <1>2, <1>10, <1>11, <1>12
<1>14. k - 1 <= n
  <2>1. CASE k = 1
    BY <2>1, <1>10
  <2>2. CASE k > 1
    <3>1. /\ k - 1 \in 1..(k - 1) /\ k - 1 \in 1..Len(RowsOf[v][r])
          /\ k - 1 \in 1..Len(Planned(r))
      BY <2>2, <1>1, <1>4, <1>9
    <3>2. RowsOf[v][r][k - 1] \in registered[d]
      BY <3>1, <1>2, <1>4 DEF IInv, EarlierRows, LastRepository
    <3>3. Planned(r)[k - 1] \in registered[d]
      BY <3>1, <3>2, <1>9
    <3> QED BY <3>1, <3>3, <1>12
  <2> QED BY <2>1, <2>2, <1>1
<1>15. k = n + 1
  BY <1>1, <1>10, <1>13, <1>14
<1> QED BY <1>3, <1>8, <1>9, <1>10, <1>11, <1>15

-------------------------------------------------------------------------------
\* IInv holds at the start.
LEMMA Initially ==
  Init => IInv
<1> SUFFICES ASSUME Init PROVE IInv
  OBVIOUS
<1> USE DEF Init
<1>1. TypeOK
  BY DEF TypeOK, Options, Over
<1>2. InOrder
  <2>1. \A r \in Repos : Len(schema[r]) = 0
    OBVIOUS
  <2>2. \A r \in Repos : Len(Planned(r)) \in Nat
    BY RowsFacts, LifecycleAssumption DEF Tables, Versions
  <2> QED BY <2>1, <2>2 DEF InOrder
<1>3. RegisteredPrefix
  <2>1. \A d \in Databases, v \in Versions : \A r \in ToSet(ReposOf[v][d]) :
          Len(schema[r]) = 0 /\ registered[d] = {}
    BY RepositoriesFacts
  <2>2. ASSUME NEW d \in Databases, NEW v \in Versions, NEW r \in ToSet(ReposOf[v][d]),
               NEW i \in 1..Len(Planned(r))
        PROVE  Planned(r)[i] \in registered[d] <=> i <= Len(schema[r])
    <3>1. Len(schema[r]) = 0 /\ registered[d] = {} /\ i >= 1 /\ i \in Int
      BY <2>1
    <3> HIDE DEF Init
    <3> QED BY <3>1
  <2> HIDE DEF Init
  <2> QED BY <2>2 DEF RegisteredPrefix
<1>4. AtWorkOnSome /\ Position /\ EarlierRows /\ Progress /\ ReportHolds
  BY DEF AtWorkOnSome, AtWork, Position, EarlierRows, Progress, ReportHolds
<1>5. Creators
  BY DEF Creators, Creates
<1> QED BY <1>1, <1>2, <1>3, <1>4, <1>5 DEF IInv

-------------------------------------------------------------------------------
\* The steps of a run keep the types.
LEMMA TypeStep ==
  ASSUME IInv, NEW p \in Managers, ManagerStep(p)
  PROVE  TypeOK'
<1> DEFINE d == Database(p)
<1>0. TypeOK /\ AtWorkOnSome /\ Position
  BY DEF IInv
<1>d. pc[p] \in AtWork \union {"clear", "sql"} \/ queue[p] # {} => d \in Databases
  BY <1>0, DatabaseType DEF AtWorkOnSome
<1> USE DEF Goto, files, AtWork
<1>1. CASE Run(p)
  <2>1. PICK argv \in Argvs :
          LET args == ParseArgs(argv)
          IN /\ pc' = [pc EXCEPT ![p] =
                         IF CommandOf(args) \in {"create", "migrate", "clear"} THEN "next"
                         ELSE IF CommandOf(args) = "sql" /\ IsSql(args) THEN "sql"
                         ELSE "over"]
             /\ command' = [command EXCEPT ![p] = CommandOf(args)]
             /\ \E ds \in {{}, ModulesOf(args)} : queue' = [queue EXCEPT ![p] = ds]
             /\ UNCHANGED <<files, version, repo, row, report>>
    BY <1>1 DEF Run
  <2>2. ModulesOf(ParseArgs(argv)) \in SUBSET Databases
    BY DEF ModulesOf
  <2>3. CommandOf(ParseArgs(argv)) \in Options
    BY CommandOfType DEF Options
  <2> QED BY <1>0, <2>1, <2>2, <2>3 DEF TypeOK, Over
<1>2. CASE Finish(p) \/ CreateDb(p) \/ Fail(p)
  BY <1>0, <1>2 DEF Finish, CreateDb, Fail, TypeOK, Over
<1>3. CASE NotNeeded(p)
  BY <1>0, <1>d, <1>3 DEF NotNeeded, Printed, TypeOK
<1>4. CASE Done(p)
  BY <1>0, <1>d, <1>4 DEF Done, Printed, TypeOK
<1>5. CASE Begin(p)
  <2>1. command[p] \in {"create", "migrate", "clear"}
    BY <1>0, <1>5 DEF Begin, AtWorkOnSome
  <2> QED BY <1>0, <1>5, <2>1 DEF Begin, TypeOK
<1>6. CASE CreateTable(p)
  <2>1. Repository(p) \in Tables
    BY <1>0, <1>d, <1>6, RepositoriesFacts
    DEF CreateTable, Repository, Position, LastRepository, TypeOK
  <2>2. tables' \in [Databases -> SUBSET Tables]
    BY <1>0, <1>d, <1>6, <2>1 DEF CreateTable, TypeOK
  <2>3. /\ repo' \in [Managers -> Nat \ {0}]
        /\ \E l \in {"createTable", "checkRow"} : pc' = [pc EXCEPT ![p] = l]
    BY <1>0, <1>6 DEF CreateTable, TypeOK
  <2> QED BY <1>0, <1>6, <2>2, <2>3 DEF CreateTable, TypeOK
<1>7. CASE NextRepository(p)
  BY <1>0, <1>7 DEF NextRepository, TypeOK
<1>8. CASE CheckRow(p)
  <2>1. CASE Row(p) \in registered[d]
    <3>1. row' = [row EXCEPT ![p] = row[p] + 1] /\ pc' = [pc EXCEPT ![p] = "checkRow"]
      BY <1>8, <2>1 DEF CheckRow
    <3>2. row' \in [Managers -> Nat \ {0}]
      BY <1>0, <3>1 DEF TypeOK
    <3> QED BY <1>0, <1>8, <3>1, <3>2 DEF CheckRow, TypeOK
  <2>2. CASE Row(p) \notin registered[d]
    BY <1>0, <1>8, <2>2 DEF CheckRow, TypeOK
  <2> QED BY <2>1, <2>2
<1>9. CASE ApplyRow(p)
  <2>1. Repository(p) \in Repos /\ d \in Databases
    BY <1>9, NextRow
  <2>2. RowsLeft(p) /\ version[p] \in Versions /\ row[p] \in Nat \ {0}
    BY <1>0, <1>9 DEF ApplyRow, Position, TypeOK
  <2>3. Row(p) \in Rows
    BY <2>1, <2>2, RowsFacts DEF Row, RowsLeft, Tables
  <2>4. registered' \in [Databases -> SUBSET Rows] /\ row' \in [Managers -> Nat \ {0}]
    BY <1>0, <1>9, <2>1, <2>3 DEF ApplyRow, TypeOK
  <2>5. schema' \in [Repos -> Seq(Rows)]
    BY <1>0, <1>9, <2>1, <2>3 DEF ApplyRow, TypeOK
  <2> QED BY <1>0, <1>9, <2>4, <2>5 DEF ApplyRow, TypeOK
<1>10. CASE ClearDb(p)
  BY <1>0, <1>d, <1>10 DEF ClearDb, Printed, TypeOK
<1>11. CASE Sql(p)
  BY <1>0, <1>d, <1>11 DEF Sql, TypeOK, Over
<1> QED
  BY <1>1, <1>2, <1>3, <1>4, <1>5, <1>6, <1>7, <1>8, <1>9, <1>10, <1>11 DEF ManagerStep

\* A table's next migration is registered with it, and nothing else changes.
LEMMA SchemaStep ==
  ASSUME IInv, NEW p \in Managers, ManagerStep(p)
  PROVE  InOrder' /\ RegisteredPrefix'
<1>1. CASE ~ApplyRow(p)
  <2>1. UNCHANGED <<schema, registered>>
    BY <1>1, Growth DEF IInv
  <2> QED BY <2>1 DEF IInv, InOrder, RegisteredPrefix, Planned
<1>2. CASE ApplyRow(p)
  <2> DEFINE d == Database(p)
             r == Repository(p)
             n == Len(schema[r])
  <2>1. /\ d \in Databases /\ r \in ToSet(ReposOf[version[p]][d]) /\ r \in Repos
        /\ n < Len(Planned(r)) /\ Row(p) = Planned(r)[n + 1]
    BY <1>2, NextRow
  <2>2. /\ schema' = [schema EXCEPT ![r] = Append(schema[r], Planned(r)[n + 1])]
        /\ registered' = [registered EXCEPT ![d] = registered[d] \union {Planned(r)[n + 1]}]
    BY <1>2, <2>1 DEF ApplyRow
  <2>3. /\ schema \in [Repos -> Seq(Rows)] /\ registered \in [Databases -> SUBSET Rows]
        /\ version[p] \in Versions
    BY DEF IInv, TypeOK
  <2>4. \A s \in Repos : Planned(s) \in Seq(Rows)
    BY LifecycleAssumption, RowsFacts DEF Versions, Tables
  <2>5. n \in Nat /\ n + 1 \in 1..Len(Planned(r)) /\ Planned(r)[n + 1] \in Rows
    BY <2>1, <2>3, <2>4
  <2> HIDE DEF d, r, n
  <2>6. /\ schema'[r] = Append(schema[r], Planned(r)[n + 1])
        /\ Len(schema'[r]) = n + 1
        /\ \A i \in 1..n : schema'[r][i] = schema[r][i]
        /\ schema'[r][n + 1] = Planned(r)[n + 1]
        /\ \A s \in Repos : s # r => schema'[s] = schema[s]
    <3>1. schema[r] \in Seq(Rows) /\ n = Len(schema[r])
      BY <2>1, <2>3 DEF n
    <3> QED BY <2>1, <2>2, <2>3, <2>5, <3>1
  <2>7. InOrder'
    <3> SUFFICES ASSUME NEW s \in Repos
                 PROVE  /\ Len(schema'[s]) <= Len(Planned(s))
                        /\ \A i \in 1..Len(schema'[s]) : schema'[s][i] = Planned(s)[i]
      BY DEF InOrder, Planned
    <3>1. /\ Len(schema[s]) <= Len(Planned(s))
          /\ \A i \in 1..Len(schema[s]) : schema[s][i] = Planned(s)[i]
      BY DEF IInv, InOrder
    <3>2. CASE s # r
      BY <2>6, <3>1, <3>2
    <3>3. CASE s = r
      <4>1. \A i \in 1..(n + 1) : i \in 1..n \/ i = n + 1
        BY <2>5
      <4>2. n <= Len(Planned(r)) /\ \A i \in 1..n : schema[r][i] = Planned(r)[i]
        BY <3>1, <3>3 DEF n
      <4> QED BY <2>5, <2>6, <3>3, <4>1, <4>2
    <3> QED BY <3>2, <3>3
  <2>8. RegisteredPrefix'
    <3> SUFFICES ASSUME NEW e \in Databases, NEW v \in Versions,
                        NEW s \in ToSet(ReposOf[v][e]), NEW i \in 1..Len(Planned(s))
                 PROVE  Planned(s)[i] \in registered'[e] <=> i <= Len(schema'[s])
      BY DEF RegisteredPrefix, Planned
    <3>1. s \in Repos
      BY RepositoriesFacts
    <3>2. Planned(s)[i] \in registered[e] <=> i <= Len(schema[s])
      BY DEF IInv, RegisteredPrefix
    <3>3. Planned(s)[i] = Planned(r)[n + 1] => s = r /\ i = n + 1
      <4>1. /\ DOMAIN RowsOf[MaxVersion][s] = 1..Len(Planned(s))
            /\ DOMAIN RowsOf[MaxVersion][r] = 1..Len(Planned(r))
        BY <2>1, <2>4, <3>1 DEF Planned
      <4> QED BY <2>1, <2>5, <3>1, <4>1, RowsAssumption DEF Tables, Planned
    <3>4. CASE s # r
      <4>1. schema'[s] = schema[s]
        BY <2>6, <3>1, <3>4
      <4>2. Planned(s)[i] \in registered'[e] <=> Planned(s)[i] \in registered[e]
        BY <2>2, <2>3, <3>3, <3>4
      <4> QED BY <3>2, <4>1, <4>2
    <3>5. CASE s = r
      <4>1. e = d
        BY <2>1, <2>3, <3>5, ReposAssumption
      <4>2. registered'[e] = registered[e] \union {Planned(r)[n + 1]}
        BY <2>2, <2>3, <4>1
      <4>3. Planned(s)[i] \in registered'[e] <=> i <= n \/ i = n + 1
        BY <3>2, <3>3, <3>5, <4>2 DEF n
      <4> QED BY <2>5, <2>6, <3>5, <4>3
    <3> QED BY <3>4, <3>5
  <2> QED BY <2>7, <2>8
<1> QED BY <1>1, <1>2

\* A run is given something to do before it begins, and reports when it has done it.
LEMMA WorkStep ==
  ASSUME IInv, NEW p \in Managers, ManagerStep(p)
  PROVE  AtWorkOnSome'
<1> DEFINE W(q) ==
      /\ pc[q] \in AtWork \union {"clear", "sql"} => queue[q] # {}
      /\ pc[q] \in AtWork \union {"next", "clear"} =>
           command[q] \in {"create", "migrate", "clear"}
      /\ pc[q] \in {"createDb", "createTable"} => command[q] = "create"
      /\ pc[q] = "clear" => command[q] = "clear"
      /\ pc[q] = "idle" => \A d \in Databases : report[q][d] = "nothing"
<1>1. TypeOK /\ \A q \in Managers : W(q)
  BY DEF IInv, AtWorkOnSome
<1>2. \A q \in Managers : q # p => W(q)'
  BY <1>1, Others
<1>3. W(p)'
  <2> USE DEF Goto, AtWork
  <2>1. CASE Run(p)
    <3>1. PICK argv \in Argvs :
            LET args == ParseArgs(argv)
                then == IF CommandOf(args) \in {"create", "migrate", "clear"} THEN "next"
                        ELSE IF CommandOf(args) = "sql" /\ IsSql(args) THEN "sql"
                        ELSE "over"
            IN /\ pc' = [pc EXCEPT ![p] = then]
               /\ command' = [command EXCEPT ![p] = CommandOf(args)]
               /\ queue' = [queue EXCEPT ![p] = IF then = "over" THEN {} ELSE ModulesOf(args)]
      BY <2>1 DEF Run
    <3>2. IsSql(ParseArgs(argv)) => ModulesOf(ParseArgs(argv)) # {}
      BY DEF IsSql, ModulesOf, ToSet
    <3> QED BY <1>1, <3>1, <3>2 DEF TypeOK
  <2>2. CASE Finish(p) \/ NotNeeded(p) \/ Begin(p) \/ Done(p) \/ ClearDb(p)
    BY <1>1, <2>2 DEF Finish, NotNeeded, Begin, Done, ClearDb, TypeOK
  <2>3. CASE CreateDb(p) \/ CreateTable(p)
    BY <1>1, <2>3 DEF CreateDb, CreateTable, TypeOK
  <2>4. CASE NextRepository(p) \/ CheckRow(p) \/ ApplyRow(p)
    BY <1>1, <2>4 DEF NextRepository, CheckRow, ApplyRow, TypeOK
  <2>5. CASE Sql(p) \/ Fail(p)
    BY <1>1, <2>5 DEF Sql, Fail, TypeOK
  <2> QED BY <2>1, <2>2, <2>3, <2>4, <2>5 DEF ManagerStep
<1> QED BY <1>2, <1>3 DEF AtWorkOnSome

\* Where a run stands depends on its own program counters only.
LEMMA Unmoved ==
  ASSUME NEW p, repo'[p] = repo[p], row'[p] = row[p], version' = version,
         queue'[p] = queue[p]
  PROVE  /\ Database(p)' = Database(p) /\ Repository(p)' = Repository(p)
         /\ LastRepository(p)' = LastRepository(p) /\ RowsLeft(p)' = RowsLeft(p)
BY DEF Database, Repository, LastRepository, RowsLeft, Repositories

\* The two loops stay within their ends.
LEMMA PositionStep ==
  ASSUME IInv, NEW p \in Managers, ManagerStep(p)
  PROVE  Position'
<1> DEFINE P(q) ==
      /\ pc[q] \in {"createDb", "createTable"} => row[q] = 1
      /\ pc[q] = "createDb" => repo[q] = 1
      /\ pc[q] = "createTable" => repo[q] <= LastRepository(q)
      /\ pc[q] = "applyRow" => RowsLeft(q)
<1>1. TypeOK /\ AtWorkOnSome /\ \A q \in Managers : P(q)
  BY DEF IInv, Position
<1>2. \A q \in Managers : q # p => P(q)'
  BY <1>1, Others, Unmoved
<1>3. P(p)'
  <2> USE DEF Goto
  <2>1. CASE Run(p) \/ Finish(p) \/ NotNeeded(p) \/ Done(p)
    <3>1. pc'[p] \in {"next", "sql", "over"}
      BY <1>1, <2>1 DEF Run, Finish, NotNeeded, Done, TypeOK
    <3> QED BY <3>1
  <2>2. CASE ClearDb(p) \/ Sql(p) \/ Fail(p) \/ NextRepository(p) \/ ApplyRow(p)
    <3>1. pc'[p] \in {"next", "over", "failed", "checkRow"}
      BY <1>1, <2>2 DEF ClearDb, Sql, Fail, NextRepository, ApplyRow, TypeOK
    <3> QED BY <3>1
  <2>3. CASE Begin(p)
    <3>1. pc'[p] \in {"createDb", "checkRow", "clear"} /\ repo'[p] = 1 /\ row'[p] = 1
      BY <1>1, <2>3 DEF Begin, AtWorkOnSome, TypeOK
    <3> QED BY <3>1
  <2>4. CASE CreateDb(p)
    <3>1. pc'[p] \in {"createTable", "failed"} /\ repo'[p] = 1 /\ row'[p] = 1
      BY <1>1, <2>4 DEF CreateDb, TypeOK
    <3>2. LastRepository(p)' = LastRepository(p)
      BY <2>4 DEF CreateDb, LastRepository, Repositories, Database
    <3>3. LastRepository(p) \in Nat \ {0}
      BY <1>1, <2>4, DatabaseType, RepositoriesFacts
      DEF CreateDb, LastRepository, AtWorkOnSome, AtWork, TypeOK
    <3> QED BY <3>1, <3>2, <3>3
  <2>5. CASE CreateTable(p)
    <3>1. LastRepository(p)' = LastRepository(p)
      BY <2>5 DEF CreateTable, LastRepository, Repositories, Database
    <3>2. LastRepository(p) \in Nat \ {0}
      BY <1>1, <2>5, DatabaseType, RepositoriesFacts
      DEF CreateTable, LastRepository, AtWorkOnSome, AtWork, TypeOK
    <3>3. \/ pc'[p] = "checkRow"
          \/ pc'[p] = "createTable" /\ repo'[p] = repo[p] + 1 /\ repo[p] < LastRepository(p)
      BY <1>1, <2>5 DEF CreateTable, TypeOK
    <3>4. row'[p] = 1 /\ repo[p] \in Nat
      BY <1>1, <2>5 DEF CreateTable, TypeOK
    <3> QED BY <3>1, <3>2, <3>3, <3>4
  <2>6. CASE CheckRow(p)
    <3>1. pc'[p] \in {"checkRow", "applyRow"}
      BY <1>1, <2>6 DEF CheckRow, TypeOK
    <3>2. pc'[p] = "applyRow" => UNCHANGED row
      BY <1>1, <2>6 DEF CheckRow, TypeOK
    <3>3. RowsLeft(p) /\ UNCHANGED <<repo, version, queue>>
      BY <2>6 DEF CheckRow
    <3>4. pc'[p] = "applyRow" => RowsLeft(p)'
      BY <3>2, <3>3, Unmoved
    <3> QED BY <3>1, <3>4
  <2> QED BY <2>1, <2>2, <2>3, <2>4, <2>5, <2>6 DEF ManagerStep
<1> QED BY <1>2, <1>3 DEF Position

\* A run passes a row when it is registered, and registered rows stay so.
LEMMA EarlierRowsStep ==
  ASSUME IInv, NEW p \in Managers, ManagerStep(p)
  PROVE  EarlierRows'
<1> DEFINE E(q) ==
      pc[q] \in {"checkRow", "applyRow"} /\ repo[q] <= LastRepository(q) =>
        \A i \in 1..(row[q] - 1) :
          /\ i <= Len(RowsOf[version[q]][Repository(q)])
          /\ RowsOf[version[q]][Repository(q)][i] \in registered[Database(q)]
<1>1. /\ TypeOK /\ AtWorkOnSome /\ Position
      /\ \A q \in Managers : E(q)
  BY DEF IInv, EarlierRows
<1>2. \A d \in Databases : registered[d] \subseteq registered'[d]
  BY <1>1, Growth
<1>3. ASSUME NEW q \in Managers, q # p
      PROVE  E(q)'
  <2>1. /\ pc'[q] = pc[q] /\ repo'[q] = repo[q] /\ row'[q] = row[q] /\ version' = version
        /\ queue'[q] = queue[q]
    BY <1>1, <1>3, Others
  <2>2. /\ Database(q)' = Database(q) /\ Repository(q)' = Repository(q)
        /\ LastRepository(q)' = LastRepository(q)
    BY <2>1, Unmoved
  <2>3. pc[q] \in {"checkRow", "applyRow"} => Database(q) \in Databases
    BY <1>1, DatabaseType DEF AtWorkOnSome, AtWork
  <2> QED BY <1>1, <1>2, <2>1, <2>2, <2>3
<1>4. E(p)'
  <2> USE DEF Goto
  <2>1. CASE Run(p) \/ Finish(p) \/ NotNeeded(p) \/ Done(p)
    <3>1. pc'[p] \in {"next", "sql", "over"}
      BY <1>1, <2>1 DEF Run, Finish, NotNeeded, Done, TypeOK
    <3> QED BY <3>1
  <2>2. CASE ClearDb(p) \/ Sql(p) \/ Fail(p) \/ CreateDb(p)
    <3>1. pc'[p] \in {"next", "over", "failed", "createTable"}
      BY <1>1, <2>2 DEF ClearDb, Sql, Fail, CreateDb, TypeOK
    <3> QED BY <3>1
  <2>3. CASE Begin(p) \/ NextRepository(p) \/ CreateTable(p)
    <3>1. row'[p] = 1
      BY <1>1, <2>3 DEF Begin, NextRepository, CreateTable, Position, TypeOK
    <3> QED BY <3>1
  <2>4. CASE CheckRow(p) \/ ApplyRow(p)
    <3>1. /\ UNCHANGED <<repo, version, queue>>
          /\ RowsLeft(p) /\ row[p] \in Nat \ {0}
          /\ pc[p] \in {"checkRow", "applyRow"}
      BY <1>1, <2>4 DEF CheckRow, ApplyRow, Position, TypeOK
    <3>2. /\ Database(p)' = Database(p) /\ Repository(p)' = Repository(p)
          /\ LastRepository(p)' = LastRepository(p)
      BY <3>1 DEF Database, Repository, LastRepository, Repositories
    <3>3. Database(p) \in Databases
      BY <1>1, <3>1, DatabaseType DEF AtWorkOnSome, AtWork
    <3>4. /\ row'[p] \in {row[p], row[p] + 1}
          /\ row'[p] = row[p] + 1 => Row(p) \in registered'[Database(p)]
      <4>1. CASE CheckRow(p)
        BY <1>1, <4>1 DEF CheckRow, files, TypeOK
      <4>2. CASE ApplyRow(p)
        BY <1>1, <3>3, <4>2 DEF ApplyRow, TypeOK
      <4> QED BY <2>4, <4>1, <4>2
    <3>5. ASSUME NEW i \in 1..(row'[p] - 1)
          PROVE  /\ i <= Len(RowsOf[version[p]][Repository(p)])
                 /\ RowsOf[version[p]][Repository(p)][i] \in registered'[Database(p)]
      <4>1. CASE i \in 1..(row[p] - 1)
        BY <1>1, <1>2, <3>1, <3>3, <4>1 DEF RowsLeft
      <4>2. CASE i \notin 1..(row[p] - 1)
        <5>1. i = row[p] /\ row'[p] = row[p] + 1
          BY <3>1, <3>4, <4>2
        <5> QED BY <3>1, <3>4, <5>1 DEF RowsLeft, Row
      <4> QED BY <4>1, <4>2
    <3> QED BY <3>1, <3>2, <3>5
  <2> QED BY <2>1, <2>2, <2>3, <2>4 DEF ManagerStep
<1> QED BY <1>3, <1>4 DEF EarlierRows

\* A run passes a repository when its table is made, or its rows are registered.
LEMMA ProgressStep ==
  ASSUME IInv, NEW p \in Managers, ManagerStep(p)
  PROVE  Progress'
<1> DEFINE all(q) == Repositories(version[q], Database(q))
           P(q) ==
             /\ pc[q] = "createTable" =>
                  \A i \in 1..(repo[q] - 1) : all(q)[i] \in tables[Database(q)]
             /\ pc[q] \in {"checkRow", "applyRow"} /\ command[q] = "create" =>
                  \A i \in 1..Len(all(q)) : all(q)[i] \in tables[Database(q)]
             /\ pc[q] \in {"checkRow", "applyRow"} =>
                  \A i \in 1..(repo[q] - 1) :
                    i <= Len(all(q)) =>
                      ToSet(RowsOf[version[q]][all(q)[i]]) \subseteq registered[Database(q)]
<1>1. /\ TypeOK /\ AtWorkOnSome /\ Position
      /\ \A q \in Managers : P(q)
  BY DEF IInv, Progress
<1>2. \A d \in Databases :
        registered[d] \subseteq registered'[d] /\ tables[d] \subseteq tables'[d]
  BY <1>1, Growth
<1>3. \A q \in Managers : pc[q] \in AtWork => Database(q) \in Databases
  BY <1>1, DatabaseType DEF AtWorkOnSome
<1>4. ASSUME NEW q \in Managers,
             UNCHANGED <<pc[q], command[q], repo[q], version, queue[q]>>
      PROVE  P(q)'
  <2>1. Database(q)' = Database(q) /\ all(q)' = all(q)
    BY <1>4 DEF Database, Repositories
  <2> QED BY <1>1, <1>2, <1>3, <1>4, <2>1 DEF AtWork
<1>5. \A q \in Managers : q # p => P(q)'
  BY <1>1, <1>4, Others
<1>6. P(p)'
  <2> USE DEF Goto
  <2>1. CASE Run(p) \/ Finish(p) \/ NotNeeded(p) \/ Done(p)
    <3>1. pc'[p] \in {"next", "sql", "over"}
      BY <1>1, <2>1 DEF Run, Finish, NotNeeded, Done, TypeOK
    <3> QED BY <3>1
  <2>2. CASE ClearDb(p) \/ Sql(p) \/ Fail(p)
    <3>1. pc'[p] \in {"next", "over", "failed"}
      BY <1>1, <2>2 DEF ClearDb, Sql, Fail, TypeOK
    <3> QED BY <3>1
  <2>3. CASE Begin(p)
    <3>1. /\ pc'[p] \in {"createDb", "checkRow", "clear"} /\ repo'[p] = 1
          /\ command'[p] = "create" => pc'[p] = "createDb"
      BY <1>1, <2>3 DEF Begin, AtWorkOnSome, TypeOK
    <3> QED BY <3>1
  <2>4. CASE CreateDb(p)
    <3>1. pc'[p] \in {"createTable", "failed"} /\ repo'[p] = 1
      BY <1>1, <2>4 DEF CreateDb, Position, TypeOK
    <3> QED BY <3>1
  <2>5. CASE CreateTable(p)
    <3>1. /\ Database(p)' = Database(p) /\ all(p)' = all(p) /\ version' = version
          /\ Database(p) \in Databases /\ repo[p] \in Nat \ {0} /\ pc[p] = "createTable"
      BY <1>1, <1>3, <2>5 DEF CreateTable, Database, Repositories, AtWork, TypeOK
    <3>2. /\ repo[p] <= Len(all(p)) /\ Len(all(p)) \in Nat
          /\ \/ pc'[p] = "checkRow" /\ repo'[p] = 1 /\ repo[p] = Len(all(p))
             \/ pc'[p] = "createTable" /\ repo'[p] = repo[p] + 1
      <4>1. Len(all(p)) \in Nat
        BY <1>1, <3>1, RepositoriesFacts DEF TypeOK
      <4>2. repo[p] <= Len(all(p))
        BY <1>1, <2>5 DEF CreateTable, Position, LastRepository
      <4> QED BY <1>1, <2>5, <3>1, <4>1, <4>2 DEF CreateTable, LastRepository, TypeOK
    <3>3. \A i \in 1..repo[p] : all(p)[i] \in tables'[Database(p)]
      <4>1. all(p)[repo[p]] \in tables'[Database(p)]
        BY <1>1, <2>5, <3>1 DEF CreateTable, Repository, TypeOK
      <4>2. \A i \in 1..(repo[p] - 1) : all(p)[i] \in tables'[Database(p)]
        BY <1>1, <1>2, <3>1
      <4> QED BY <3>1, <4>1, <4>2
    <3> HIDE DEF all
    <3> QED BY <3>1, <3>2, <3>3
  <2>6. CASE NextRepository(p)
    <3>1. /\ Database(p)' = Database(p) /\ all(p)' = all(p) /\ UNCHANGED <<version, command>>
          /\ Database(p) \in Databases /\ version[p] \in Versions
          /\ repo[p] \in Nat \ {0} /\ row[p] \in Nat \ {0} /\ pc[p] = "checkRow"
          /\ repo[p] <= Len(all(p)) /\ ~RowsLeft(p) /\ tables' = tables
          /\ repo'[p] = repo[p] + 1 /\ pc'[p] = "checkRow" /\ registered' = registered
      BY <1>1, <1>3, <2>6
      DEF NextRepository, Database, Repositories, LastRepository, AtWork, TypeOK, files
    <3>2. ToSet(RowsOf[version[p]][all(p)[repo[p]]]) \subseteq registered[Database(p)]
      <4> DEFINE rows == RowsOf[version[p]][Repository(p)]
      <4>1. Repository(p) = all(p)[repo[p]] /\ LastRepository(p) = Len(all(p))
        BY DEF Repository, LastRepository
      <4>2. Repository(p) \in Tables
        BY <3>1, <4>1, RepositoriesFacts
      <4>3. rows \in Seq(Rows)
        BY <3>1, <4>2, RowsFacts
      <4>4. Len(rows) < row[p]
        BY <3>1, <4>1, <4>3 DEF RowsLeft
      <4>5. \A i \in 1..(row[p] - 1) : rows[i] \in registered[Database(p)]
        BY <3>1, <4>1 DEF IInv, EarlierRows
      <4>6. \A i \in 1..Len(rows) : rows[i] \in registered[Database(p)]
        BY <3>1, <4>3, <4>4, <4>5
      <4> QED BY <4>1, <4>3, <4>6 DEF ToSet
    <3>3. /\ command[p] = "create" =>
               \A i \in 1..Len(all(p)) : all(p)[i] \in tables[Database(p)]
          /\ \A i \in 1..(repo[p] - 1) : i <= Len(all(p)) =>
               ToSet(RowsOf[version[p]][all(p)[i]]) \subseteq registered[Database(p)]
      BY <1>1, <3>1
    <3> HIDE DEF all
    <3>4. \A i \in 1..repo[p] : i <= Len(all(p)) =>
            ToSet(RowsOf[version[p]][all(p)[i]]) \subseteq registered[Database(p)]
      BY <3>1, <3>2, <3>3
    <3> QED BY <3>1, <3>3, <3>4
  <2>7. CASE CheckRow(p) \/ ApplyRow(p)
    <3>1. /\ UNCHANGED <<repo, version, queue, command>>
          /\ pc[p] \in {"checkRow", "applyRow"} /\ pc'[p] \in {"checkRow", "applyRow"}
      BY <1>1, <2>7 DEF CheckRow, ApplyRow, TypeOK
    <3>2. Database(p)' = Database(p) /\ all(p)' = all(p) /\ Database(p) \in Databases
      BY <1>3, <3>1 DEF Database, Repositories, AtWork
    <3>3. P(p)
      BY <1>1
    <3> HIDE DEF all
    <3> QED BY <1>2, <3>1, <3>2, <3>3
  <2> QED BY <2>1, <2>2, <2>3, <2>4, <2>5, <2>6, <2>7 DEF ManagerStep
<1> QED BY <1>5, <1>6 DEF Progress

\* Only the run that makes the migrations table becomes a creator.
LEMMA CreatorsStep ==
  ASSUME IInv, NEW p \in Managers, ManagerStep(p)
  PROVE  Creators'
<1>1. /\ TypeOK /\ AtWorkOnSome /\ Position
      /\ \A d \in Databases : tables[d] # {} => Migrations \in tables[d]
      /\ \A d \in Databases, q \in Managers : Creates(q, d) => Migrations \in tables[d]
      /\ \A d \in Databases, q, s \in Managers : Creates(q, d) /\ Creates(s, d) => q = s
  BY DEF IInv, Creators
<1>2. ASSUME NEW q \in Managers, q # p, NEW d \in Databases, Creates(q, d)'
      PROVE  Creates(q, d)
  <2>1. /\ pc'[q] = pc[q] /\ repo'[q] = repo[q] /\ command'[q] = command[q]
        /\ report'[q] = report[q] /\ queue'[q] = queue[q]
    BY <1>1, <1>2, Others
  <2> QED BY <1>2, <2>1 DEF Creates, Database
<1>3. CASE CreateTable(p) /\ repo[p] = 1
  <2>1. PICK e \in Databases : e = Database(p) /\ version[p] \in Versions
    BY <1>1, <1>3, DatabaseType DEF CreateTable, Goto, AtWorkOnSome, AtWork, TypeOK
  <2>2. Repository(p) = Migrations
    BY <1>3, <2>1, RepositoriesFacts DEF Repository
  <2>3. /\ Migrations \notin tables[e]
        /\ tables' = [tables EXCEPT ![e] = tables[e] \union {Migrations}]
    BY <1>3, <2>1, <2>2 DEF CreateTable
  <2>4. UNCHANGED <<command, report, queue>>
    BY <1>3 DEF CreateTable
  <2>5. \A d \in Databases : Creates(p, d)' => Creates(p, d) \/ d = e
    BY <2>1, <2>4 DEF Creates, Database
  <2>6. \A d \in Databases : d # e => tables'[d] = tables[d]
    BY <1>1, <2>1, <2>3 DEF TypeOK
  <2>7. Migrations \in tables'[e]
    BY <1>1, <2>1, <2>3 DEF TypeOK
  <2>8. \A q \in Managers : ~Creates(q, e)
    BY <1>1, <2>1, <2>3
  <2>9. \A q \in Managers : Creates(q, e)' => q = p
    BY <1>2, <2>1, <2>8
  <2>10. \A q \in Managers, d \in Databases : d # e /\ Creates(q, d)' => Creates(q, d)
    BY <1>2, <2>5
  <2> QED BY <1>1, <2>6, <2>7, <2>9, <2>10 DEF Creators
<1>4. CASE ~(CreateTable(p) /\ repo[p] = 1)
  <2>1. ASSUME NEW d \in Databases, Creates(p, d)'
        PROVE  Creates(p, d)
    <3> USE <1>1, <2>1 DEF Goto, Creates
    <3>1. CASE Run(p)
      <4>1. pc'[p] \in {"next", "sql", "over"} /\ pc[p] = "idle" /\ report' = report
        BY <3>1 DEF Run, TypeOK
      <4> QED BY <4>1 DEF AtWorkOnSome
    <3>2. CASE Finish(p) \/ Sql(p) \/ Fail(p)
      <4>1. pc'[p] \in {"over", "failed"} /\ UNCHANGED <<report, command>>
        BY <3>2 DEF Finish, Sql, Fail, TypeOK
      <4> QED BY <4>1
    <3>3. CASE NotNeeded(p)
      <4>1. /\ pc'[p] = "next" /\ command' = command
            /\ report' = [report EXCEPT ![p][Database(p)] = "notNeeded"]
        BY <3>3 DEF NotNeeded, Printed, TypeOK
      <4>2. report'[p][d] = "done" => report[p][d] = "done"
        BY <4>1 DEF TypeOK
      <4> QED BY <4>1, <4>2
    <3>4. CASE Begin(p)
      <4>1. /\ command' = command /\ report' = report
            /\ command[p] = "create" => pc'[p] = "createDb"
        BY <3>4 DEF Begin, TypeOK
      <4> QED BY <4>1
    <3>5. CASE CreateDb(p)
      <4>1. /\ UNCHANGED <<command, report>> /\ repo'[p] = 1
            /\ pc'[p] \in {"createTable", "failed"}
        BY <3>5 DEF CreateDb, Position, TypeOK
      <4> QED BY <4>1
    <3>6. CASE CreateTable(p)
      <4>1. /\ UNCHANGED <<command, report, queue>> /\ repo[p] > 1 /\ pc[p] = "createTable"
            /\ pc'[p] \in {"createTable", "checkRow"}
        BY <1>4, <3>6 DEF CreateTable, TypeOK
      <4>2. Database(p)' = Database(p)
        BY <4>1 DEF Database
      <4> QED BY <4>1, <4>2
    <3>7. CASE NextRepository(p) \/ CheckRow(p) \/ ApplyRow(p)
      <4>1. /\ UNCHANGED <<command, report, queue>> /\ pc[p] \in {"checkRow", "applyRow"}
            /\ pc'[p] \in {"checkRow", "applyRow"}
        BY <3>7 DEF NextRepository, CheckRow, ApplyRow, TypeOK
      <4>2. Database(p)' = Database(p)
        BY <4>1 DEF Database
      <4> QED BY <4>1, <4>2
    <3>8. CASE Done(p)
      <4>1. /\ pc[p] = "checkRow" /\ pc'[p] = "next" /\ command' = command
            /\ report' = [report EXCEPT ![p][Database(p)] = "done"]
        BY <3>8 DEF Done, Printed, TypeOK
      <4>2. d # Database(p) => report'[p][d] = report[p][d]
        BY <4>1 DEF TypeOK
      <4> QED BY <4>1, <4>2
    <3>9. CASE ClearDb(p)
      <4>1. command'[p] = "clear"
        BY <3>9 DEF ClearDb, AtWorkOnSome
      <4> QED BY <4>1
    <3> QED
      BY <3>1, <3>2, <3>3, <3>4, <3>5, <3>6, <3>7, <3>8, <3>9 DEF ManagerStep
  <2>2. \A d \in Databases : tables[d] \subseteq tables'[d]
    BY <1>1, Growth
  <2>3. \A d \in Databases : tables'[d] # {} => Migrations \in tables'[d]
    <3>1. CASE CreateTable(p)
      <4>1. Database(p) \in Databases /\ Creates(p, Database(p)) /\ TRUE
        <5>1. command[p] = "create" /\ pc[p] = "createTable" /\ repo[p] > 1
          BY <1>1, <1>4, <3>1 DEF CreateTable, Goto, AtWorkOnSome, TypeOK
        <5>2. Database(p) \in Databases
          BY <1>1, <5>1, DatabaseType DEF AtWorkOnSome, AtWork
        <5> QED BY <5>1, <5>2 DEF Creates
      <4>2. \A d \in Databases : d # Database(p) => tables'[d] = tables[d]
        BY <1>1, <3>1 DEF CreateTable, TypeOK
      <4> QED BY <1>1, <2>2, <4>1, <4>2
    <3>2. CASE ~CreateTable(p)
      BY <1>1, <3>2, Growth
    <3> QED BY <3>1, <3>2
  <2> QED BY <1>1, <1>2, <2>1, <2>2, <2>3 DEF Creators
<1> QED BY <1>3, <1>4

\* A run that reports on a database has got through all of its loop, or found nothing to
\* do, and what it reports is never undone.
LEMMA ReportStep ==
  ASSUME IInv, NEW p \in Managers, ManagerStep(p)
  PROVE  ReportHolds'
<1> DEFINE created(q, d) == CreationStatus(version[q], d) = "complete"
           migrated(q, d) == \A r \in ToSet(ReposOf[version[q]][d]) :
                               ToSet(RowsOf[version[q]][r]) \subseteq registered[d]
           R(q, d) == report[q][d] # "nothing" =>
             /\ command[q] = "create" => created(q, d)
             /\ command[q] = "migrate" \/ (command[q] = "create" /\ report[q][d] = "done") =>
                  migrated(q, d)
<1>1. TypeOK /\ AtWorkOnSome /\ Progress /\ \A q \in Managers, d \in Databases : R(q, d)
  BY DEF IInv, ReportHolds
<1>2. version' = version /\ \A q \in Managers : version[q] \in Versions
  BY <1>1, Growth DEF TypeOK
<1>3. \A q \in Managers, d \in Databases : created(q, d) <=>
        ToSet(Repositories(version[q], d)) \subseteq tables[d]
  BY DEF CreationStatus, StatusOf
<1>4. \A q \in Managers, d \in Databases : created(q, d)' <=>
        ToSet(Repositories(version[q], d)) \subseteq tables'[d]
  BY <1>2 DEF CreationStatus, StatusOf, Repositories
<1>5. \A d \in Databases :
        registered[d] \subseteq registered'[d] /\ tables[d] \subseteq tables'[d]
  BY <1>1, Growth
<1>6. \A q \in Managers, d \in Databases :
        /\ created(q, d) => created(q, d)'
        /\ migrated(q, d) => migrated(q, d)'
  BY <1>2, <1>3, <1>4, <1>5
<1> HIDE DEF created, migrated
<1>7. ASSUME NEW q \in Managers, NEW d \in Databases, command'[q] = command[q],
             report'[q][d] = report[q][d]
      PROVE  R(q, d)'
  BY <1>1, <1>6, <1>7
<1>8. \A q \in Managers, d \in Databases : q # p => R(q, d)'
  BY <1>1, <1>7, Others
<1>9. ASSUME NEW d \in Databases
      PROVE  R(p, d)'
  <2> USE DEF Goto
  <2>1. CASE Run(p)
    <3>1. report'[p][d] = "nothing"
      BY <1>1, <2>1 DEF Run, AtWorkOnSome
    <3> QED BY <3>1
  <2>2. CASE NotNeeded(p) /\ d = Database(p)
    <3>1. /\ report'[p][d] = "notNeeded" /\ command' = command
          /\ StatusFor(p) = "complete" /\ pc[p] = "next"
      BY <1>1, <2>2 DEF NotNeeded, Printed, TypeOK
    <3>2. CASE command[p] = "create"
      <4>1. created(p, d)
        BY <2>2, <3>1, <3>2 DEF StatusFor, created
      <4> QED BY <1>6, <3>1, <3>2, <4>1
    <3>3. CASE command[p] = "migrate"
      <4>1. MigrationStatus(version[p], d) = "complete"
        BY <2>2, <3>1, <3>3 DEF StatusFor
      <4>2. \A r \in ToSet(Repositories(version[p], d)) :
              RepoMigrateStatus(version[p], d, r) \in {"complete", "notRequired"}
        BY <4>1 DEF MigrationStatus, StatusOf
      <4>3. \A r \in ToSet(Repositories(version[p], d)) :
              ToSet(RowsOf[version[p]][r]) \subseteq registered[d]
        BY <4>2 DEF RepoMigrateStatus, StatusOf
      <4>4. ToSet(ReposOf[version[p]][d]) \subseteq ToSet(Repositories(version[p], d))
        BY <1>2, RepositoriesHold
      <4>5. migrated(p, d)
        BY <4>3, <4>4 DEF migrated
      <4> QED BY <1>6, <3>1, <3>3, <4>5
    <3>4. CASE command[p] \notin {"create", "migrate"}
      BY <3>1, <3>4
    <3> QED BY <3>2, <3>3, <3>4
  <2>3. CASE Done(p) /\ d = Database(p)
    <3> DEFINE all == Repositories(version[p], d)
    <3>1. /\ report'[p][d] = "done" /\ command' = command /\ pc[p] = "checkRow"
          /\ repo[p] > Len(all)
      BY <1>1, <2>3 DEF Done, Printed, LastRepository, TypeOK
    <3>2. Len(all) \in Nat /\ repo[p] \in Nat /\ all \in Seq(Tables)
      BY <1>1, <1>2, RepositoriesFacts, RepositoriesHold DEF TypeOK
    <3>3. /\ command[p] = "create" => \A i \in 1..Len(all) : all[i] \in tables[d]
          /\ \A i \in 1..Len(all) : ToSet(RowsOf[version[p]][all[i]]) \subseteq registered[d]
      BY <1>1, <2>3, <3>1, <3>2 DEF Progress
    <3>4. command[p] = "create" => created(p, d)
      BY <1>3, <3>2, <3>3 DEF ToSet
    <3>5. migrated(p, d)
      <4>1. ToSet(ReposOf[version[p]][d]) \subseteq ToSet(all)
        BY <1>2, RepositoriesHold
      <4>2. \A r \in ToSet(all) : \E i \in 1..Len(all) : r = all[i]
        BY <3>2 DEF ToSet
      <4> QED BY <3>3, <4>1, <4>2 DEF migrated
    <3> QED BY <1>6, <3>1, <3>4, <3>5
  <2>4. CASE ClearDb(p)
    <3>1. command'[p] = "clear"
      BY <1>1, <2>4 DEF ClearDb, AtWorkOnSome
    <3> QED BY <3>1
  <2>5. CASE (NotNeeded(p) \/ Done(p)) /\ d # Database(p)
    <3>1. command' = command /\ report'[p][d] = report[p][d]
      BY <1>1, <2>5 DEF NotNeeded, Done, Printed, TypeOK
    <3> QED BY <1>7, <3>1
  <2>6. CASE Finish(p) \/ Begin(p) \/ CreateDb(p) \/ CreateTable(p)
    <3>1. UNCHANGED <<command, report>>
      BY <2>6 DEF Finish, Begin, CreateDb, CreateTable
    <3> QED BY <1>7, <3>1
  <2>7. CASE NextRepository(p) \/ CheckRow(p) \/ ApplyRow(p) \/ Sql(p) \/ Fail(p)
    <3>1. UNCHANGED <<command, report>>
      BY <2>7 DEF NextRepository, CheckRow, ApplyRow, Sql, Fail
    <3> QED BY <1>7, <3>1
  <2> QED BY <2>1, <2>2, <2>3, <2>4, <2>5, <2>6, <2>7 DEF ManagerStep
<1> USE DEF created, migrated
<1> QED BY <1>8, <1>9 DEF ReportHolds

\* Records are not part of the invariant, but for which databases hold them.
LEMMA Still ==
  ASSUME IInv, filled' \subseteq Databases,
         UNCHANGED <<tables, registered, schema, pc, version, command, queue, repo, row,
                     report>>
  PROVE  IInv'
<1>1. TypeOK'
  BY DEF IInv, TypeOK
<1>2. InOrder' /\ RegisteredPrefix' /\ AtWorkOnSome'
  BY DEF IInv, InOrder, RegisteredPrefix, AtWorkOnSome, Planned
<1>3. Position' /\ EarlierRows'
  BY DEF IInv, Position, EarlierRows, RowsLeft, LastRepository, Repository, Repositories,
         Database
<1>4. Progress'
  BY DEF IInv, Progress, Repositories, Database
<1>5. ReportHolds'
  BY DEF IInv, ReportHolds, CreationStatus, Repositories
<1>6. Creators'
  BY DEF IInv, Creators, Creates, Database
<1> QED BY <1>1, <1>2, <1>3, <1>4, <1>5, <1>6 DEF IInv

\* Tables are only created where createDb has begun.
LEMMA Enters ==
  ASSUME TypeOK, AtWorkOnSome, NEW p \in Managers, ManagerStep(p), pc'[p] = "createTable"
  PROVE  CreateDb(p) \/ CreateTable(p)
<1> USE DEF TypeOK, Goto
<1>1. CASE Run(p) \/ Finish(p) \/ NotNeeded(p) \/ Done(p)
  BY <1>1 DEF Run, Finish, NotNeeded, Done
<1>2. CASE Begin(p)
  BY <1>2 DEF Begin, AtWorkOnSome
<1>3. CASE NextRepository(p) \/ CheckRow(p) \/ ApplyRow(p)
  BY <1>3 DEF NextRepository, CheckRow, ApplyRow
<1>4. CASE ClearDb(p) \/ Sql(p) \/ Fail(p)
  BY <1>4 DEF ClearDb, Sql, Fail
<1> QED BY <1>1, <1>2, <1>3, <1>4 DEF ManagerStep

\* Every step keeps IInv.
LEMMA Step ==
  IInv /\ [Next]_vars => IInv'
<1> SUFFICES ASSUME IInv, [Next]_vars PROVE IInv'
  OBVIOUS
<1>1. CASE \E p \in Managers : ManagerStep(p)
  <2>1. PICK p \in Managers : ManagerStep(p)
    BY <1>1
  <2> QED
    BY <2>1, TypeStep, SchemaStep, WorkStep, PositionStep, EarlierRowsStep, ProgressStep,
       ReportStep, CreatorsStep
    DEF IInv
<1>2. CASE \E d \in Databases : AddBatch(d)
  <2>1. /\ UNCHANGED <<tables, registered, schema, pc, version, command, queue, repo, row,
                      report>>
        /\ filled' \subseteq Databases
    BY <1>2 DEF AddBatch, IInv, TypeOK
  <2> QED BY <2>1, Still
<1>3. CASE AllOver \/ UNCHANGED vars
  <2>1. /\ UNCHANGED <<tables, registered, schema, pc, version, command, queue, repo, row,
                      report>>
        /\ filled' \subseteq Databases
    BY <1>3 DEF AllOver, vars, files, IInv, TypeOK
  <2> QED BY <2>1, Still
<1> QED BY <1>1, <1>2, <1>3 DEF Next

-------------------------------------------------------------------------------
\* In every reachable state the strengthened invariant holds, for any modules, versions,
\* migrations and runs (db-service-manager.ts:221-243, database.ts:60-111).
THEOREM LifecycleInvariant == Spec => []IInv
BY Initially, Step, PTL DEF Spec

\* The variables keep their types; in particular runs only work on the server's own
\* databases, whatever the command line names (db-service-manager.ts:44-52).
THEOREM LifecycleTypes == Spec => []TypeOK
<1>1. IInv => TypeOK
  BY DEF IInv
<1> QED BY <1>1, LifecycleInvariant, PTL

\* A migration is registered if and only if its table has gone through it
\* (repository.ts:60-64).
THEOREM RegistrationsTrue == Spec => []RegisteredIffApplied
<1>1. ASSUME IInv
      PROVE  RegisteredIffApplied
  <2> SUFFICES ASSUME NEW d \in Databases, NEW v \in Versions, NEW r \in ToSet(ReposOf[v][d])
               PROVE  ToSet(schema[r]) = registered[d] \intersect ToSet(Planned(r))
    BY DEF RegisteredIffApplied, Planned
  <2>1. r \in Repos
    BY RepositoriesFacts
  <2>2. schema[r] \in Seq(Rows) /\ Planned(r) \in Seq(Rows)
    BY <1>1, <2>1, RowsFacts, LifecycleAssumption DEF IInv, TypeOK, Tables, Versions
  <2>3. /\ Len(schema[r]) <= Len(Planned(r))
        /\ \A i \in 1..Len(schema[r]) : schema[r][i] = Planned(r)[i]
    BY <1>1, <2>1 DEF IInv, InOrder
  <2>4. \A i \in 1..Len(Planned(r)) : Planned(r)[i] \in registered[d] <=> i <= Len(schema[r])
    BY <1>1 DEF IInv, RegisteredPrefix
  <2>5. \A x : x \in ToSet(schema[r]) <=> \E i \in 1..Len(schema[r]) : x = schema[r][i]
    BY <2>2 DEF ToSet
  <2>6. \A x : x \in ToSet(Planned(r)) <=> \E i \in 1..Len(Planned(r)) : x = Planned(r)[i]
    BY <2>2 DEF ToSet
  <2>7. ASSUME NEW x \in ToSet(schema[r])
        PROVE  x \in registered[d] /\ x \in ToSet(Planned(r))
    <3>1. PICK i \in 1..Len(schema[r]) : x = schema[r][i]
      BY <2>5
    <3>2. i \in 1..Len(Planned(r)) /\ x = Planned(r)[i]
      BY <2>2, <2>3, <3>1
    <3> QED BY <2>2, <2>4, <2>6, <3>2
  <2>8. ASSUME NEW x \in registered[d], x \in ToSet(Planned(r))
        PROVE  x \in ToSet(schema[r])
    <3>1. PICK i \in 1..Len(Planned(r)) : x = Planned(r)[i]
      BY <2>6, <2>8
    <3>2. i \in 1..Len(schema[r]) /\ x = schema[r][i]
      BY <2>2, <2>3, <2>4, <3>1
    <3> QED BY <2>5, <3>2
  <2> QED BY <2>7, <2>8
<1> QED BY <1>1, LifecycleInvariant, PTL

\* What a run has printed about a database stays true (db-service-manager.ts:236-242).
THEOREM ReportsStayTrue == Spec => []ReportHolds
<1>1. IInv => ReportHolds
  BY DEF IInv
<1> QED BY <1>1, LifecycleInvariant, PTL

\* However many runs create a database at the same time, one at most says that it did
\* (database.ts:63-66).
THEOREM SingleCreator == Spec => []OneCreator
<1>1. IInv => OneCreator
  BY DEF IInv, Creators, Creates, OneCreator
<1> QED BY <1>1, LifecycleInvariant, PTL

\* A partial database that no run is creating stays partial (database.ts:63-65).
THEOREM PartialForGood == Spec => PartialIsFinal
<1>1. ASSUME IInv, [Next]_vars, NEW v \in Versions, NEW d \in Databases, Partial(v, d)
      PROVE  Partial(v, d)'
  <2>1. /\ CreationStatus(v, d) = "partial" /\ tables[d] # {}
        /\ \A p \in Managers : pc[p] = "createTable" => Database(p) # d
    BY <1>1 DEF Partial, CreationStatus, StatusOf
  <2>2. Migrations \in tables[d]
    BY <1>1, <2>1 DEF IInv, Creators
  <2>3. CASE \E p \in Managers : ManagerStep(p)
    <3>1. PICK p \in Managers : ManagerStep(p)
      BY <2>3
    <3>2. tables'[d] = tables[d]
      <4>1. CASE CreateTable(p)
        <5>1. Database(p) # d
          BY <2>1, <4>1 DEF CreateTable, Goto
        <5> QED BY <1>1, <4>1, <5>1 DEF CreateTable, IInv, TypeOK
      <4>2. CASE ~CreateTable(p)
        BY <1>1, <3>1, <4>2, Growth DEF IInv
      <4> QED BY <4>1, <4>2
    <3>3. CreationStatus(v, d)' = "partial"
      BY <2>1, <3>2 DEF CreationStatus, Repositories
    <3>4. ASSUME NEW q \in Managers, q # p, pc'[q] = "createTable"
          PROVE  Database(q)' # d
      <4>1. pc'[q] = pc[q] /\ queue'[q] = queue[q]
        BY <1>1, <3>1, <3>4, Others DEF IInv
      <4> QED BY <2>1, <3>4, <4>1 DEF Database
    <3>5. ASSUME pc'[p] = "createTable"
          PROVE  Database(p)' # d
      <4>1. CreateDb(p) \/ CreateTable(p)
        BY <1>1, <3>1, <3>5, Enters DEF IInv
      <4>2. queue' = queue
        BY <4>1 DEF CreateDb, CreateTable
      <4>3. Database(p) # d
        <5>1. CASE CreateTable(p)
          BY <2>1, <5>1 DEF CreateTable, Goto
        <5>2. CASE CreateDb(p) /\ Database(p) = d
          <6>1. CreationStatus(version[p], d) = "none"
            BY <1>1, <3>5, <5>2 DEF CreateDb, Goto, IInv, TypeOK
          <6>2. Migrations \in ToSet(Repositories(version[p], d))
            <7>1. version[p] \in Versions
              BY <1>1 DEF IInv, TypeOK
            <7>2. Repositories(version[p], d) \in Seq(Tables)
              BY <7>1, RepositoriesHold
            <7>3. 1 \in DOMAIN Repositories(version[p], d)
              BY <7>1, <7>2, RepositoriesFacts
            <7> QED BY <7>1, <7>3, RepositoriesFacts DEF ToSet
          <6> QED BY <2>2, <6>1, <6>2 DEF CreationStatus, StatusOf
        <5> QED BY <4>1, <5>1, <5>2
      <4> QED BY <4>2, <4>3 DEF Database
    <3> QED BY <3>3, <3>4, <3>5 DEF Partial
  <2>4. CASE (\E e \in Databases : AddBatch(e)) \/ AllOver \/ UNCHANGED vars
    <3>1. UNCHANGED <<tables, pc, queue>>
      BY <2>4 DEF AddBatch, AllOver, vars, files
    <3> QED BY <1>1, <3>1 DEF Partial, CreationStatus, Repositories, Database
  <2> QED BY <1>1, <2>3, <2>4 DEF Next
<1>2. IInv /\ [Next]_vars =>
        [\A v \in Versions, d \in Databases : Partial(v, d) => Partial(v, d)']_vars
  BY <1>1
<1> QED BY <1>2, LifecycleInvariant, PTL DEF Spec, PartialIsFinal

\* The databases implement ordered migrations: every step of a run is the next migration
\* of one table, or none (repository.ts:55-75).
THEOREM MigrationsRefinement == Spec => ImplementsOrderedMigrations
<1>1. Init => OrderedMigrations!Init
  BY DEF Init, OrderedMigrations!Init
<1>2. ASSUME IInv, [Next]_vars
      PROVE  [OrderedMigrations!Next]_schema
  <2>1. CASE \E p \in Managers : ApplyRow(p)
    <3>1. PICK p \in Managers : ApplyRow(p)
      BY <2>1
    <3>2. /\ Repository(p) \in Repos
          /\ Len(schema[Repository(p)]) < Len(RowsOf[MaxVersion][Repository(p)])
          /\ Row(p) = RowsOf[MaxVersion][Repository(p)][Len(schema[Repository(p)]) + 1]
      BY <1>2, <3>1, NextRow DEF Planned
    <3>3. schema' = [schema EXCEPT ![Repository(p)] = Append(@, Row(p))]
      BY <3>1 DEF ApplyRow
    <3>4. OrderedMigrations!Migrate(Repository(p))
      BY <3>2, <3>3 DEF OrderedMigrations!Migrate
    <3> QED BY <3>2, <3>4 DEF OrderedMigrations!Next
  <2>2. CASE \E p \in Managers : ManagerStep(p) /\ ~ApplyRow(p)
    BY <1>2, <2>2, Growth DEF IInv
  <2>3. CASE (\E d \in Databases : AddBatch(d)) \/ AllOver \/ UNCHANGED vars
    BY <2>3 DEF AddBatch, AllOver, vars, files
  <2> QED BY <1>2, <2>1, <2>2, <2>3 DEF Next
<1> QED
  BY <1>1, <1>2, LifecycleInvariant, PTL
  DEF Spec, ImplementsOrderedMigrations, OrderedMigrations!Spec
===============================================================================
