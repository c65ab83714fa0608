----------------------------- MODULE Conversations -----------------------------
(***************************************************************************)
(* What a bot that polls promises its users, whatever fails, is killed or   *)
(* comes twice: each conversation moves forward only, from update to later  *)
(* update, and telegram forgets nothing that it has not passed.            *)
(***************************************************************************)
EXTENDS Naturals

CONSTANTS
  MaxUpdates,
  UserOf  \* UserOf[i]: the user who sends update i

VARIABLES
  sent,       \* the last update sent
  forgotten,  \* the last update telegram has forgotten
  handled     \* handled[i]: how often update i was executed

vars == <<sent, forgotten, handled>>

Init ==
  /\ sent = 0
  /\ forgotten = 0
  /\ handled = [i \in 1..MaxUpdates |-> 0]

\* The conversation of its user has come to i or further.
Passed(i) == \E j \in i..sent : UserOf[j] = UserOf[i] /\ handled[j] > 0

Send ==
  /\ sent < MaxUpdates
  /\ sent' = sent + 1
  /\ UNCHANGED <<forgotten, handled>>

\* Telegram still has the update, and its conversation has not gone past it.
Execute(i) ==
  /\ forgotten < i
  /\ \A j \in i + 1..sent : UserOf[j] = UserOf[i] => handled[j] = 0
  /\ handled' = [handled EXCEPT ![i] = @ + 1]
  /\ UNCHANGED <<sent, forgotten>>

Forget(n) ==
  /\ \A i \in 1..n : Passed(i)
  /\ forgotten' = n
  /\ UNCHANGED <<sent, handled>>

Next ==
  \/ Send
  \/ \E i \in 1..sent : Execute(i)
  \/ \E n \in forgotten..sent : Forget(n)

Spec == Init /\ [][Next]_vars
===============================================================================
