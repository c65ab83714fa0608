------------------------------ MODULE BotPolling ------------------------------
(***************************************************************************)
(* BotModule in mode getUpdates: the chain of timers, requests and updates *)
(* in progress that takes updates from telegram (bot.module.ts:92-240).    *)
(* Telegram numbers updates in the order they are sent, answers with the   *)
(* oldest ones it has, and forgets those below the offset of a request.    *)
(*                                                                         *)
(* Time is left out, and with it the choice between the timeouts of active *)
(* and passive mode: a timer fires some time after it was set.             *)
(***************************************************************************)
EXTENDS Naturals, FiniteSets, FiniteSetsExt

CONSTANTS
  Users,       \* telegram ids
  MaxUpdates,  \* bound: updates the users send
  UserOf,      \* UserOf[i]: the user who sends update i
  Limit,       \* how many updates telegram answers with at most
  MaxCrashes   \* bound: how often the process is killed and started again

ASSUME PollingAssumption ==
  /\ MaxUpdates \in Nat
  /\ UserOf \in [1..MaxUpdates -> Users]
  /\ Limit \in Nat \ {0}
  /\ MaxCrashes \in Nat

VARIABLES
  sent,         \* telegram: the last update sent
  forgotten,    \* telegram: the last update it will not answer with again
  loop,         \* what the chain is waiting for
  newUpdateId,  \* updatesData.newUpdateId, 0 if there is none
  last,         \* the last of the updates in progress
  todo,         \* the updates still to execute before the next timer
  handled,      \* history: how often each update was executed
  failed,       \* history: the last request for updates failed
  crashes

vars == <<sent, forgotten, loop, newUpdateId, last, todo, handled, failed, crashes>>

Ids == 1..MaxUpdates

Over == {"off", "stopped", "dead"}

TypeOK ==
  /\ sent \in 0..MaxUpdates
  /\ forgotten \in 0..sent
  /\ loop \in {"unsubscribing", "timer", "request", "processing"} \union Over
  /\ newUpdateId \in 0..sent + 1
  /\ last \in 0..sent
  /\ todo \subseteq forgotten + 1..last
  /\ handled \in [Ids -> Nat]
  /\ failed \in BOOLEAN
  /\ crashes \in 0..MaxCrashes

Init ==
  /\ sent = 0
  /\ forgotten = 0
  /\ loop = "off"
  /\ newUpdateId = 0
  /\ last = 0
  /\ todo = {}
  /\ handled = [i \in Ids |-> 0]
  /\ failed = FALSE
  /\ crashes = 0

Goto(from, to) == loop = from /\ loop' = to

-------------------------------------------------------------------------------
Send ==
  /\ sent < MaxUpdates
  /\ sent' = sent + 1
  /\ UNCHANGED <<forgotten, loop, newUpdateId, last, todo, handled, failed, crashes>>

\* subscribeToUpdates, when the module is initialised.
Start ==
  /\ Goto("off", "unsubscribing")
  /\ UNCHANGED <<sent, forgotten, newUpdateId, last, todo, handled, failed, crashes>>

\* deleteWebhook succeeds and sets the first timer, or nothing handles its error.
Unsubscribe ==
  /\ \E to \in {"timer", "dead"} : Goto("unsubscribing", to)
  /\ UNCHANGED <<sent, forgotten, newUpdateId, last, todo, handled, failed, crashes>>

TimerFires ==
  /\ Goto("timer", "request")
  /\ UNCHANGED <<sent, forgotten, newUpdateId, last, todo, handled, failed, crashes>>

-------------------------------------------------------------------------------
\* What telegram forgets when a request reaches it.
Confirmed == IF newUpdateId = 0 THEN forgotten ELSE Max({forgotten, newUpdateId - 1})

\* What it answers with then.
Answer == Confirmed + 1..Min({sent, Confirmed + Limit})

\* Mutant: every update is executed, users in no particular order.
EveryOne(updates) == updates

\* Mutant: a user's first update is taken for the last one.
FirstOfUsers(updates) ==
  {i \in updates : \A j \in updates : UserOf[j] = UserOf[i] => i <= j}

\* The last update of every user (processUpdates, getUpdatesByUsers).
LastOfUsers(updates) ==
  {i \in updates : \A j \in updates : UserOf[j] = UserOf[i] => j <= i}

\* The response holds updates.
PollBringsUpdates ==
  /\ Goto("request", "processing")
  /\ Answer # {}
  /\ forgotten' = Confirmed
  /\ last' = Max(Answer)
  /\ todo' = LastOfUsers(Answer)
  /\ failed' = FALSE
  /\ UNCHANGED <<sent, newUpdateId, handled, crashes>>

\* The response holds none.
PollBringsNothing ==
  /\ Goto("request", "timer")
  /\ Answer = {}
  /\ forgotten' = Confirmed
  /\ failed' = FALSE
  /\ UNCHANGED <<sent, newUpdateId, last, todo, handled, crashes>>

\* No response, or not one to use: getUpdates logs that and answers []. Telegram
\* may have seen the offset.
PollFails ==
  /\ Goto("request", "timer")
  /\ forgotten' \in {forgotten, Confirmed}
  /\ failed' = TRUE
  /\ UNCHANGED <<sent, newUpdateId, last, todo, handled, crashes>>

-------------------------------------------------------------------------------
\* executeUpdate for one user: its service has run and its reply is sent.
Execute(i) ==
  /\ loop = "processing"
  /\ i \in todo
  /\ handled' = [handled EXCEPT ![i] = @ + 1]
  /\ todo' = todo \ {i}
  /\ UNCHANGED <<sent, forgotten, loop, newUpdateId, last, failed, crashes>>

\* Finding the users of an answer, the service, or sending the reply throws, before or
\* after the update was executed: getAndProcessUpdates rejects in a timer's callback, and
\* no timer is set any more.
UpdateThrows(i) ==
  /\ Goto("processing", "dead")
  /\ i \in todo
  /\ handled' \in {handled, [handled EXCEPT ![i] = @ + 1]}
  /\ todo' = {}
  /\ UNCHANGED <<sent, forgotten, newUpdateId, last, failed, crashes>>

\* Mutant: the next request asks for the last update again.
SubscribeFromLast ==
  /\ Goto("processing", "timer")
  /\ todo = {}
  /\ newUpdateId' = last
  /\ UNCHANGED <<sent, forgotten, last, todo, handled, failed, crashes>>

\* Mutant: the next request skips an update.
SubscribePastNext ==
  /\ Goto("processing", "timer")
  /\ todo = {}
  /\ newUpdateId' = last + 2
  /\ UNCHANGED <<sent, forgotten, last, todo, handled, failed, crashes>>

\* Mutant: the timer is set without waiting for processUpdates.
SubscribeWithoutAwait ==
  /\ Goto("processing", "timer")
  /\ newUpdateId' = last + 1
  /\ UNCHANGED <<sent, forgotten, last, todo, handled, failed, crashes>>

\* subscribeGetUpdates(lastUpdate) sets the next timer.
SubscribeGetUpdates ==
  /\ Goto("processing", "timer")
  /\ todo = {}
  /\ newUpdateId' = last + 1
  /\ UNCHANGED <<sent, forgotten, last, todo, handled, failed, crashes>>

-------------------------------------------------------------------------------
\* stop clears the timer. While a request or an update is in progress the timer it
\* clears has fired already, and the chain goes on.
Stop ==
  /\ Goto("timer", "stopped")
  /\ UNCHANGED <<sent, forgotten, newUpdateId, last, todo, handled, failed, crashes>>

\* The process is killed; Start starts it again.
Crash ==
  /\ crashes < MaxCrashes
  /\ crashes' = crashes + 1
  /\ loop' = "off"
  /\ newUpdateId' = 0
  /\ last' = 0
  /\ todo' = {}
  /\ UNCHANGED <<sent, forgotten, handled, failed>>

-------------------------------------------------------------------------------
\* What the chain does by itself.
ChainStep ==
  \/ Unsubscribe
  \/ TimerFires
  \/ PollBringsUpdates
  \/ PollBringsNothing
  \/ PollFails
  \/ \E i \in Ids : Execute(i) \/ UpdateThrows(i)
  \/ SubscribeGetUpdates

Next == Send \/ Start \/ ChainStep \/ Stop \/ Crash \/ (loop \in Over /\ UNCHANGED vars)

\* Timers fire, and what the chain awaits settles one way or the other.
Spec == Init /\ [][Next]_vars /\ WF_vars(ChainStep)

-------------------------------------------------------------------------------
\* i was executed, or a later update of its user was in its place.
Answered(i) == \E j \in i..MaxUpdates : UserOf[j] = UserOf[i] /\ handled[j] > 0

\* Telegram forgets no update before it was answered: no kill, failed request or
\* failed reply on the way loses one (bot.module.ts:181-183).
ForgottenWasAnswered == \A i \in 1..forgotten : Answered(i)

\* An update is executed again only after a restart (bot.module.ts:160, 197).
OncePerProcess == \A i \in Ids : handled[i] <= 1 + crashes

\* No update is executed after a later one of the same user, not even when telegram
\* sends updates again (bot.module.ts:223).
NeverOutOfDate ==
  [][\A i, j \in Ids :
       UserOf[i] = UserOf[j] /\ i < j /\ handled'[i] > handled[i] => handled[j] = 0]_vars

\* A sent update is answered, unless the chain was stopped, killed or broken by an
\* error, or requests to telegram fail again and again (bot.module.ts:178-186).
UpdatesAnswered ==
  \A i \in Ids : []<>failed \/ (sent >= i ~> Answered(i) \/ loop \in Over)

Promised == INSTANCE Conversations

\* Each user's conversation moves forward only, update by update, and telegram forgets
\* none that it has not passed, through failures, kills and redelivery
\* (bot.module.ts:145-240).
ImplementsConversations == Promised!Spec
===============================================================================
