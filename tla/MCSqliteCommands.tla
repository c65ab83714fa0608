--------------------------- MODULE MCSqliteCommands ---------------------------
(***************************************************************************)
(* Three commands on two records: r1 and r2 have synchronous domains, that *)
(* of r3 is async in the runs that name it so.                             *)
(***************************************************************************)
EXTENDS SqliteCommands, TLC

CONSTANTS r1, r2, r3, a, b

MCWrites ==
  r1 :> (a :> "add" @@ b :> "update")
    @@ r2 :> (a :> "remove" @@ b :> "update")
    @@ r3 :> (a :> "add" @@ b :> "add")
===============================================================================
