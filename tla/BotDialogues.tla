----------------------------- MODULE BotDialogues -----------------------------
(***************************************************************************)
(* The dialogues of a telegram bot: BotDialogueRepositorySqlite with its   *)
(* cache of active contexts, and BotDialogueService, which routes each     *)
(* update to a state by the active context of its user.                    *)
(*                                                                         *)
(* Every call of the repository is synchronous. Middlewares and states     *)
(* belong to the application and may await between two calls; here they    *)
(* call the repository in any order. Of a context we keep which update has *)
(* last written it, and of its table one sequence of rows for each user.   *)
(***************************************************************************)
EXTENDS Naturals, Sequences, FiniteSets, FiniteSetsExt

CONSTANTS
  Users,      \* telegram ids
  Updates,    \* updates telegram sends
  UserOf,     \* UserOf[x]: the user update x is from
  Pushes,     \* updates whose state writes the payload with SQL of its own
  None,       \* no context
  Seed,       \* the content of the rows the table starts with
  Modes,      \* subscribe modes of the bot module
  MaxWrites,  \* bound: rows one update writes
  MaxCrashes  \* bound: how often the process is killed and started again

ASSUME BotAssumption ==
  /\ UserOf \in [Updates -> Users]
  /\ Pushes \subseteq Updates
  /\ None \notin Updates \union {Seed}
  /\ Modes \subseteq {"webhook", "getUpdates"}
  /\ MaxWrites \in Nat
  /\ MaxCrashes \in Nat

VARIABLES
  rows,    \* the rows of each user, in the order they were inserted
  cache,   \* the cached active context of each user, or None
  pc,      \* "idle", "middleware", "state" or "done", for each update
  saw,     \* the active context each update believes its user to have
  writes,  \* history: rows each update has written while it runs
  mode,    \* how the module is subscribed to updates
  crashes

vars == <<rows, cache, pc, saw, writes, mode, crashes>>

Contents == Updates \union {Seed}

Rows == [isActive : BOOLEAN, content : Contents]

TypeOK ==
  /\ rows \in [Users -> Seq(Rows)]
  /\ cache \in [Users -> Contents \union {None}]
  /\ pc \in [Updates -> {"idle", "middleware", "state", "done"}]
  /\ saw \in [Updates -> Contents \union {None}]
  /\ writes \in [Updates -> 0..MaxWrites]
  /\ mode \in Modes
  /\ crashes \in 0..MaxCrashes

\* addBatch seeds a table as it is told to, with several active rows if need be.
Seeds == {<<>>} \union UNION {[1..n -> [isActive : BOOLEAN, content : {Seed}]] : n \in 1..2}

Init ==
  /\ rows \in [Users -> Seeds]
  /\ cache = [u \in Users |-> None]
  /\ pc = [x \in Updates |-> "idle"]
  /\ saw = [x \in Updates |-> None]
  /\ writes = [x \in Updates |-> 0]
  /\ mode \in Modes
  /\ crashes = 0

-------------------------------------------------------------------------------
ActiveAt(u) == {i \in DOMAIN rows[u] : rows[u][i].isActive}

\* Mutant: a query without a row is not told apart from one with.
FirstRow(u) ==
  IF ActiveAt(u) = {} THEN "undefined" ELSE rows[u][Min(ActiveAt(u))].content

\* SELECT ... WHERE telegramId = ? AND isActive = 1, its first row.
Queried(u) ==
  IF ActiveAt(u) = {} THEN None ELSE rows[u][Min(ActiveAt(u))].content

FindActive(u) == IF cache[u] # None THEN cache[u] ELSE Queried(u)

\* findAll caches every active row it meets, the last one stays.
LastActive(u) ==
  IF ActiveAt(u) = {} THEN cache[u] ELSE rows[u][Max(ActiveAt(u))].content

Cache(u, context) == cache' = [cache EXCEPT ![u] = context]

Goto(x, from, to) == pc[x] = from /\ pc' = [pc EXCEPT ![x] = to]

\* The promise of x settles.
Ends(x, from) ==
  /\ Goto(x, from, "done")
  /\ saw' = [saw EXCEPT ![x] = None]
  /\ writes' = [writes EXCEPT ![x] = 0]

\* The state of x is running and calls the repository to write.
Writing(x) ==
  /\ pc[x] = "state"
  /\ writes[x] < MaxWrites
  /\ writes' = [writes EXCEPT ![x] = @ + 1]

-------------------------------------------------------------------------------
\* Mutant: the poller starts all the updates it got at once.
ReceiveAtOnce(x) ==
  /\ Goto(x, "idle", "middleware")
  /\ UNCHANGED <<rows, cache, saw, writes, mode, crashes>>

\* A webhook request starts its update and does not await it; processUpdates of
\* the poller awaits each one before the next.
Receive(x) ==
  /\ Goto(x, "idle", "middleware")
  /\ mode = "getUpdates" => \A y \in Updates : pc[y] \in {"idle", "done"}
  /\ UNCHANGED <<rows, cache, saw, writes, mode, crashes>>

MiddlewareReplies(x) ==
  /\ Ends(x, "middleware")
  /\ UNCHANGED <<rows, cache, mode, crashes>>

\* No middleware replied: the active context names the state that will run.
RouteToState(x) ==
  /\ Goto(x, "middleware", "state")
  /\ LET u == UserOf[x] IN
       /\ saw' = [saw EXCEPT ![x] = FindActive(u)]
       /\ Cache(u, FindActive(u))
  /\ UNCHANGED <<rows, writes, mode, crashes>>

\* A state, or a middleware that looks for the context, reads.
Reads(x) ==
  /\ pc[x] \in {"middleware", "state"}
  /\ LET u == UserOf[x] IN
       \E context \in {FindActive(u), LastActive(u)} :
         /\ Cache(u, context)
         /\ saw' = [saw EXCEPT ![x] = context]
  /\ UNCHANGED <<rows, pc, writes, mode, crashes>>

\* Mutant: add does not look for an active context.
StateAddsAnother(x) ==
  /\ Writing(x)
  /\ LET u == UserOf[x] IN
       rows' = [rows EXCEPT ![u] = Append(@, [isActive |-> TRUE, content |-> x])]
  /\ saw' = [saw EXCEPT ![x] = x]
  /\ UNCHANGED <<cache, pc, mode, crashes>>

StateAdds(x) ==
  /\ Writing(x)
  /\ LET u == UserOf[x] IN
       /\ FindActive(u) = None
       /\ rows' = [rows EXCEPT ![u] = Append(@, [isActive |-> TRUE, content |-> x])]
  /\ saw' = [saw EXCEPT ![x] = x]
  /\ UNCHANGED <<cache, pc, mode, crashes>>

\* Mutant: updateRecord leaves the cache alone.
StateUpdatesBehindCache(x) ==
  /\ Writing(x)
  /\ \E i \in ActiveAt(UserOf[x]) :
       /\ ActiveAt(UserOf[x]) = {i}
       /\ rows' = [rows EXCEPT ![UserOf[x]][i].content = x]
  /\ saw' = [saw EXCEPT ![x] = x]
  /\ UNCHANGED <<cache, pc, mode, crashes>>

\* updateContext on exactly one active row.
StateUpdates(x) ==
  /\ Writing(x)
  /\ \E i \in ActiveAt(UserOf[x]) :
       /\ ActiveAt(UserOf[x]) = {i}
       /\ rows' = [rows EXCEPT ![UserOf[x]][i].content = x]
  /\ Cache(UserOf[x], None)
  /\ saw' = [saw EXCEPT ![x] = x]
  /\ UNCHANGED <<pc, mode, crashes>>

\* Mutant: finishContext leaves the cache alone.
StateFinishesBehindCache(x) ==
  /\ Writing(x)
  /\ \E i \in ActiveAt(UserOf[x]) :
       /\ ActiveAt(UserOf[x]) = {i}
       /\ rows' = [rows EXCEPT ![UserOf[x]][i].isActive = FALSE]
  /\ saw' = [saw EXCEPT ![x] = None]
  /\ UNCHANGED <<cache, pc, mode, crashes>>

\* finishContext on exactly one active row, with or without other attributes.
StateFinishes(x) ==
  /\ Writing(x)
  /\ \E i \in ActiveAt(UserOf[x]) :
       /\ ActiveAt(UserOf[x]) = {i}
       /\ \E content \in {rows[UserOf[x]][i].content, x} :
            rows' = [rows EXCEPT ![UserOf[x]][i] = [isActive |-> FALSE, content |-> content]]
  /\ Cache(UserOf[x], None)
  /\ saw' = [saw EXCEPT ![x] = None]
  /\ UNCHANGED <<pc, mode, crashes>>

\* A method like pushNumberForJson, that a subclass of the repository adds: it
\* updates the payload of the active rows and knows nothing of the cache.
StatePushes(x) ==
  /\ Writing(x)
  /\ x \in Pushes
  /\ LET u == UserOf[x] IN
       rows' = [rows EXCEPT ![u] = [i \in DOMAIN @ |->
                  IF @[i].isActive THEN [@[i] EXCEPT !.content = x] ELSE @[i]]]
  /\ saw' = [saw EXCEPT ![x] = x]
  /\ UNCHANGED <<cache, pc, mode, crashes>>

StateReturns(x) ==
  /\ Ends(x, "state")
  /\ UNCHANGED <<rows, cache, mode, crashes>>

-------------------------------------------------------------------------------
\* Something threw: processCatch looks for the context once more and replies.
Throws(x) ==
  /\ \E from \in {"middleware", "state"} : Ends(x, from)
  /\ Cache(UserOf[x], FindActive(UserOf[x]))
  /\ UNCHANGED <<rows, mode, crashes>>

\* updateRecord found no active row, or several: the cached context was removed
\* before BEGIN, the rows are rolled back, processCatch reads the table again.
UpdateRejected(x) ==
  /\ Ends(x, "state")
  /\ Cardinality(ActiveAt(UserOf[x])) # 1
  /\ Cache(UserOf[x], Queried(UserOf[x]))
  /\ UNCHANGED <<rows, mode, crashes>>

\* The process is killed and started again: the table survives. The updates in
\* progress are lost, or asked for again by a poller that had not confirmed them,
\* together with any it had finished.
Crash ==
  /\ crashes < MaxCrashes
  /\ crashes' = crashes + 1
  /\ cache' = [u \in Users |-> None]
  /\ LET running == {x \in Updates : pc[x] \in {"middleware", "state"}} IN
       \/ /\ mode = "webhook"
          /\ pc' = [x \in Updates |-> IF x \in running THEN "done" ELSE pc[x]]
       \/ /\ mode = "getUpdates"
          /\ \E again \in SUBSET {x \in Updates : pc[x] = "done"} :
               pc' = [x \in Updates |-> IF x \in running \union again THEN "idle" ELSE pc[x]]
  /\ saw' = [x \in Updates |-> None]
  /\ writes' = [x \in Updates |-> 0]
  /\ UNCHANGED <<rows, mode>>

\* clearDb, while no update is in progress.
Clear ==
  /\ \A x \in Updates : pc[x] \in {"idle", "done"}
  /\ rows' = [u \in Users |-> <<>>]
  /\ cache' = [u \in Users |-> None]
  /\ UNCHANGED <<pc, saw, writes, mode, crashes>>

-------------------------------------------------------------------------------
StateStep(x) ==
  \/ StateAdds(x)
  \/ StateUpdates(x)
  \/ StateFinishes(x)
  \/ StatePushes(x)
  \/ StateReturns(x)

Handle(x) ==
  \/ Receive(x)
  \/ MiddlewareReplies(x)
  \/ RouteToState(x)
  \/ Reads(x)
  \/ StateStep(x)
  \/ Throws(x)
  \/ UpdateRejected(x)

Next == (\E x \in Updates : Handle(x)) \/ Crash \/ Clear

Spec == Init /\ [][Next]_vars

-------------------------------------------------------------------------------
CachedActive(u) == \E i \in ActiveAt(u) : rows[u][i].content = cache[u]

\* Users whose rows are written by the methods of the repository only.
Plain == {u \in Users : \A x \in Pushes : UserOf[x] # u}

\* What findActive answers from the cache is an active row of the table as it is
\* now, whatever was read, written, rejected or lost before
\* (bot-dialogue.ts:54-56, 141, 152).
CacheMatchesTable == \A u \in Plain : cache[u] # None => CachedActive(u)

\* A cached context stands for some active row even when its content is stale, so
\* that add refuses no user who may start a dialogue (bot-dialogue.ts:78-81).
CachedDialogueExists == \A u \in Users : cache[u] # None => ActiveAt(u) # {}

\* A user never gets a second active dialogue, also when two first messages are
\* handled at once (bot-dialogue.ts:75-92).
NoSecondDialogue ==
  [][\A u \in Users : ActiveAt(u)' \subseteq ActiveAt(u) \/ ActiveAt(u) = {}]_vars

\* While the bot polls, what a state writes replaces the context that it saw: one
\* update at a time means that no message is answered in a state that another
\* message has left ("run one after the other to make errors less probable",
\* bot.module.ts:224).
PollingWritesFresh ==
  [][\A x \in Updates :
       mode = "getUpdates" /\ UserOf[x] \in Plain /\ writes'[x] > writes[x] =>
         \/ saw[x] = None /\ ActiveAt(UserOf[x]) = {}
         \/ \E i \in ActiveAt(UserOf[x]) : rows[UserOf[x]][i].content = saw[x]]_vars

Uncached == INSTANCE DialogueTable

\* The cache is transparent: whoever reads or writes through the repository could do
\* the same on a table without a cache (bot-dialogue.ts:50-155).
ImplementsDialogueTable == Uncached!Spec
===============================================================================
