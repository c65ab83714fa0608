------------------------------ MODULE EventOutbox ------------------------------
(***************************************************************************)
(* What a module that publishes events is promised: an event is registered  *)
(* once, takes effect at most once and in the service that handles it, not  *)
(* before its command has ended unless commands await I/O, and is marked    *)
(* only when it has taken effect or nobody handles it.                     *)
(*                                                                         *)
(* It is not promised that the event of a command that is rolled back has   *)
(* no effect.                                                              *)
(***************************************************************************)
EXTENDS Naturals

CONSTANTS
  Events,
  Services,
  Handler,  \* Handler[e]: the service that handles e, 0 if there is none or e is malformed
  IoAwaits  \* TRUE if commands await I/O

VARIABLES
  registered,  \* the events that were ever registered
  row,         \* "none", "cached" or "unpublished", for each event
  marked,      \* the events that were marked
  effects      \* effects[e][i]: how often e took effect in service i

vars == <<registered, row, marked, effects>>

Init ==
  /\ registered = {}
  /\ row = [e \in Events |-> "none"]
  /\ marked = {}
  /\ effects = [e \in Events |-> [i \in Services |-> 0]]

Register(e) ==
  /\ e \notin registered
  /\ registered' = registered \union {e}
  /\ row' = [row EXCEPT ![e] = "cached"]
  /\ UNCHANGED <<marked, effects>>

Commit(e) ==
  /\ row[e] = "cached"
  /\ row' = [row EXCEPT ![e] = "unpublished"]
  /\ UNCHANGED <<registered, marked, effects>>

\* Commands are rolled back, or killed with their process.
RollBack(lost) ==
  /\ \A e \in lost : row[e] = "cached"
  /\ row' = [e \in Events |-> IF e \in lost THEN "none" ELSE row[e]]
  /\ UNCHANGED <<registered, marked, effects>>

\* The rows were in the memory of a process that is killed.
Forget ==
  /\ row' = [e \in Events |-> "none"]
  /\ UNCHANGED <<registered, marked, effects>>

TakeEffect(e) ==
  /\ e \in registered
  /\ IoAwaits \/ row[e] # "cached"
  /\ Handler[e] # 0
  /\ \A i \in Services : effects[e][i] = 0
  /\ effects' = [effects EXCEPT ![e][Handler[e]] = 1]
  /\ UNCHANGED <<registered, row, marked>>

Mark(e) ==
  /\ e \in registered
  /\ Handler[e] # 0 => effects[e][Handler[e]] = 1
  /\ marked' = marked \union {e}
  /\ UNCHANGED <<registered, row, effects>>

Next ==
  \/ \E e \in Events : Register(e) \/ Commit(e) \/ TakeEffect(e) \/ Mark(e)
  \/ \E lost \in SUBSET Events : RollBack(lost)
  \/ Forget

Spec == Init /\ [][Next]_vars
===============================================================================
