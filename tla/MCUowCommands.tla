----------------------------- MODULE MCUowCommands -----------------------------
(***************************************************************************)
(* Two commands that meet on a record: r1 adds a and updates b, r2 adds a  *)
(* and removes b.                                                          *)
(***************************************************************************)
EXTENDS UowCommands, TLC

CONSTANTS r1, r2, a, b

MCWrites ==
  r1 :> (a :> "add" @@ b :> "update") @@ r2 :> (a :> "add" @@ b :> "remove")
===============================================================================
