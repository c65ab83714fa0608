---------------------------- MODULE MCBotDialogues ----------------------------
(***************************************************************************)
(* Two users: one whose two messages use the repository's own methods, and *)
(* one whose message also pushes to the payload with SQL of a subclass.    *)
(***************************************************************************)
EXTENDS BotDialogues

CONSTANTS u1, u2, m1, m2, push

MCUserOf == [x \in Updates |-> IF x = push THEN u2 ELSE u1]
===============================================================================
