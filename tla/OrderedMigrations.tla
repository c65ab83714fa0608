-------------------------- MODULE OrderedMigrations --------------------------
(***************************************************************************)
(* What the migrations of a database promise, whoever runs them and however *)
(* often they are interrupted: a table goes through the rows planned for it *)
(* one by one, in their order, each of them once.                          *)
(***************************************************************************)
EXTENDS Naturals, Sequences

CONSTANTS
  Tables,
  Planned  \* Planned[t]: the rows of t, in order

VARIABLE schema  \* schema[t]: the rows t has gone through

Init == schema = [t \in Tables |-> <<>>]

Migrate(t) ==
  /\ Len(schema[t]) < Len(Planned[t])
  /\ schema' = [schema EXCEPT ![t] = Append(@, Planned[t][Len(@) + 1])]

Next == \E t \in Tables : Migrate(t)

Spec == Init /\ [][Next]_schema
===============================================================================
