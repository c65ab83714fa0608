---------------------------- MODULE AtomicCommands ----------------------------
(***************************************************************************)
(* What a caller of CommandService.execute is promised: a command ends     *)
(* once; if it ends in success all of its writes took effect in one step,  *)
(* and if it ends in a failure result or an error none did.                *)
(***************************************************************************)
EXTENDS CommandScope

VARIABLES
  records,  \* the committed records
  outcome   \* how each command has ended, "pending" until then

vars == <<records, outcome>>

Init ==
  /\ records \in [Keys -> {None, Seed}]
  /\ outcome = [r \in Requests |-> "pending"]

Succeed(r) ==
  /\ outcome[r] = "pending"
  /\ records' = Effect(records, r, Planned(r))
  /\ outcome' = [outcome EXCEPT ![r] = "success"]

EndWithoutEffect(r) ==
  /\ outcome[r] = "pending"
  /\ \E end \in {"failure", "error"} : outcome' = [outcome EXCEPT ![r] = end]
  /\ UNCHANGED records

Next == \E r \in Requests : Succeed(r) \/ EndWithoutEffect(r)

Spec == Init /\ [][Next]_vars
===============================================================================
