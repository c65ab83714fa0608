----------------------------- MODULE MCBotPolling -----------------------------
(***************************************************************************)
(* Two users who write in turn; a response holds three updates at most, so *)
(* that some hold two of one user and some leave updates behind.           *)
(***************************************************************************)
EXTENDS BotPolling

CONSTANTS u1, u2

MCUserOf == [i \in 1..MaxUpdates |-> IF i % 2 = 1 THEN u1 ELSE u2]
===============================================================================
