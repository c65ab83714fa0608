----------------------------- MODULE EventDelivery -----------------------------
(***************************************************************************)
(* The way of a domain event from the command that registers it to the     *)
(* service of another module that handles it: EventRepository.addEvents    *)
(* inside the command's transaction, TimeoutCallbackDelivererToBus,        *)
(* OneServerBus, and the EventService that the handling module executes.   *)
(*                                                                         *)
(* A command is what UowCommands shows it to be, atomic; here it is its    *)
(* attempts, each with an event of its own, that commit or roll back.      *)
(*                                                                         *)
(* Two repositories implement the outbox. That of tests/fixtures, in       *)
(* memory, notifies the deliverer from addEvents; its markAsPublished      *)
(* changes a copy of the row. That of bun-sqlite keeps the deliverer it is *)
(* handed and calls it nowhere. So no row changes when its event is        *)
(* delivered: marked holds the events that the deliverer has marked, whose *)
(* rows would be published in a repository that kept the mark.             *)
(***************************************************************************)
EXTENDS Naturals, Sequences, SequencesExt

CONSTANTS
  Commands,   \* command requests
  Events,     \* event ids: every attempt of a command makes new ones
  Emits,      \* Emits[c]: the events of the successive attempts of c
  Publisher,  \* Publisher[e]: the module whose command registers e
  Name,       \* Name[e]: the event's name
  Services,   \* the event services in the order subscribeToBus meets them
  Malformed,  \* the events that checkInputData of the handling module refuses
  Delivers,   \* TRUE if addEvents of the repository calls the deliverer
  IoAwaits,   \* TRUE if a command awaits I/O, its database's for one, so that timers run
  MaxCrashes  \* bound: how often the process is killed and started again

ASSUME DeliveryAssumption ==
  /\ Emits \in [Commands -> Seq(Events)]
  /\ \A c, d \in Commands : \A i \in DOMAIN Emits[c], j \in DOMAIN Emits[d] :
       Emits[c][i] = Emits[d][j] => c = d /\ i = j
  /\ Services \in Seq(Range(Services))
  /\ \A i \in DOMAIN Services :
       DOMAIN Services[i] = {"eventName", "eventModuleName", "moduleName"}
  /\ Malformed \subseteq Events
  /\ Delivers \in BOOLEAN
  /\ IoAwaits \in BOOLEAN
  /\ MaxCrashes \in Nat

VARIABLES
  phase,    \* "idle", "open" (its transaction is) or "done", for each command
  attempt,  \* how many attempts of each command have started
  row,      \* the event's row: "none", "cached" (uncommitted) or "unpublished"
  timers,   \* callbacks of setTimeout(..., 0), in the order they will fire
  inBus,    \* calls of bus.publish that await the handling module, for each event
  toMark,   \* calls of bus.publish that have returned, for each event
  marked,   \* history: events that markAsPublished was called with
  handled,  \* handled[e][i]: transactions of service i for e that committed
  refused,  \* history: events whose handler threw
  crashes

vars == <<phase, attempt, row, timers, inBus, toMark, marked, handled, refused, crashes>>

ServiceIds == DOMAIN Services

TypeOK ==
  /\ phase \in [Commands -> {"idle", "open", "done"}]
  /\ attempt \in [Commands -> Nat]
  /\ \A c \in Commands : attempt[c] <= Len(Emits[c])
  /\ row \in [Events -> {"none", "cached", "unpublished"}]
  /\ timers \in Seq(Events)
  /\ inBus \in [Events -> Nat]
  /\ toMark \in [Events -> Nat]
  /\ marked \subseteq Events
  /\ handled \in [Events -> [ServiceIds -> Nat]]
  /\ refused \subseteq Events
  /\ crashes \in 0..MaxCrashes

Init ==
  /\ phase = [c \in Commands |-> "idle"]
  /\ attempt = [c \in Commands |-> 0]
  /\ row = [e \in Events |-> "none"]
  /\ timers = <<>>
  /\ inBus = [e \in Events |-> 0]
  /\ toMark = [e \in Events |-> 0]
  /\ marked = {}
  /\ handled = [e \in Events |-> [i \in ServiceIds |-> 0]]
  /\ refused = {}
  /\ crashes = 0

-------------------------------------------------------------------------------
\* OneServerBus.publish: the first subscription to this name at this publisher, 0
\* if there is none.
Route == [e \in Events |->
  SelectInSeq(Services, LAMBDA s : s.eventModuleName = Publisher[e] /\ s.eventName = Name[e])]

\* Module.getService: the first service of the subscribed module whose handleName
\* is the event's name.
Executed == [e \in {x \in Events : Route[x] # 0} |->
  SelectInSeq(Services, LAMBDA s :
    s.moduleName = Services[Route[e]].moduleName /\ s.eventName = Name[e])]

\* Every service that asked, through subscribeToBus, for the events e is one of.
Subscribed(e) ==
  {i \in ServiceIds :
     Services[i].eventModuleName = Publisher[e] /\ Services[i].eventName = Name[e]}

-------------------------------------------------------------------------------
\* The event of the running attempt.
Current(c) == Emits[c][attempt[c]]

\* Mutant: the deliverer keeps one timer, and a new event takes the place of the last.
AddEventsOneTimer(c) ==
  /\ phase[c] = "idle"
  /\ attempt[c] < Len(Emits[c])
  /\ phase' = [phase EXCEPT ![c] = "open"]
  /\ attempt' = [attempt EXCEPT ![c] = @ + 1]
  /\ LET e == Emits[c][attempt[c] + 1] IN
       /\ row' = [row EXCEPT ![e] = "cached"]
       /\ timers' = IF Delivers THEN <<e>> ELSE timers
  /\ UNCHANGED <<inBus, toMark, marked, handled, refused, crashes>>

\* An attempt reaches addEvents: the row waits for the commit, the deliverer, if the
\* repository calls it, is called at once and sets a timer.
AddEvents(c) ==
  /\ phase[c] = "idle"
  /\ attempt[c] < Len(Emits[c])
  /\ phase' = [phase EXCEPT ![c] = "open"]
  /\ attempt' = [attempt EXCEPT ![c] = @ + 1]
  /\ LET e == Emits[c][attempt[c] + 1] IN
       /\ row' = [row EXCEPT ![e] = "cached"]
       /\ timers' = IF Delivers THEN Append(timers, e) ELSE timers
  /\ UNCHANGED <<inBus, toMark, marked, handled, refused, crashes>>

Commit(c) ==
  /\ phase[c] = "open"
  /\ phase' = [phase EXCEPT ![c] = "done"]
  /\ row' = [row EXCEPT ![Current(c)] = "unpublished"]
  /\ UNCHANGED <<attempt, timers, inBus, toMark, marked, handled, refused, crashes>>

\* The attempt is rolled back, and the scope restarts it or gives up. Its timer
\* stays set.
Rollback(c) ==
  /\ phase[c] = "open"
  /\ \E next \in {"idle", "done"} : phase' = [phase EXCEPT ![c] = next]
  /\ row' = [row EXCEPT ![Current(c)] = "none"]
  /\ UNCHANGED <<attempt, timers, inBus, toMark, marked, handled, refused, crashes>>

-------------------------------------------------------------------------------
\* Mutant: handle publishes at once instead of setting a timer.
LoopIsAlwaysFree == TRUE

\* Timers fire when the event loop has run every promise that is ready; if neither
\* database nor domain awaits I/O, no transaction is open then.
LoopIsFree == IoAwaits \/ \A c \in Commands : phase[c] # "open"

FireTimer ==
  /\ timers # <<>>
  /\ LoopIsFree
  /\ timers' = Tail(timers)
  /\ LET e == Head(timers) IN
       IF Route[e] = 0
       THEN toMark' = [toMark EXCEPT ![e] = @ + 1] /\ UNCHANGED inBus
       ELSE inBus' = [inBus EXCEPT ![e] = @ + 1] /\ UNCHANGED toMark
  /\ UNCHANGED <<phase, attempt, row, marked, handled, refused, crashes>>

\* The executed service commits its own transaction and publish returns.
HandlerSucceeds(e) ==
  /\ inBus[e] > 0
  /\ e \notin Malformed
  /\ inBus' = [inBus EXCEPT ![e] = @ - 1]
  /\ toMark' = [toMark EXCEPT ![e] = @ + 1]
  /\ handled' = [handled EXCEPT ![e][Executed[e]] = @ + 1]
  /\ UNCHANGED <<phase, attempt, row, timers, marked, refused, crashes>>

\* executeService answers a malformed event with a failure result before any service
\* runs. The bus does not look at results: publish returns as after a success.
InputRefused(e) ==
  /\ inBus[e] > 0
  /\ e \in Malformed
  /\ inBus' = [inBus EXCEPT ![e] = @ - 1]
  /\ toMark' = [toMark EXCEPT ![e] = @ + 1]
  /\ UNCHANGED <<phase, attempt, row, timers, marked, handled, refused, crashes>>

\* Mutant: the deliverer marks the event although its handler threw.
HandlerThrowsIntoMark(e) ==
  /\ inBus[e] > 0
  /\ inBus' = [inBus EXCEPT ![e] = @ - 1]
  /\ toMark' = [toMark EXCEPT ![e] = @ + 1]
  /\ refused' = refused \union {e}
  /\ UNCHANGED <<phase, attempt, row, timers, marked, handled, crashes>>

\* The service rolls back and throws, or returns a failure and EventService.execute
\* throws, or publish does for an event without meta: the deliverer's callback rejects
\* and the event is never marked.
HandlerThrows(e) ==
  /\ inBus[e] > 0
  /\ inBus' = [inBus EXCEPT ![e] = @ - 1]
  /\ refused' = refused \union {e}
  /\ UNCHANGED <<phase, attempt, row, timers, toMark, marked, handled, crashes>>

\* Mutant: one return of publish marks the event twice.
MarkTwice(e) ==
  /\ toMark[e] > 0
  /\ toMark' = [toMark EXCEPT ![e] = @ - 2]
  /\ marked' = marked \union {e}
  /\ UNCHANGED <<phase, attempt, row, timers, inBus, handled, refused, crashes>>

\* markAsPublished sets the flag of the copy that find returned, or throws where no
\* caller waits, if it found no committed row.
MarkAsPublished(e) ==
  /\ toMark[e] > 0
  /\ toMark' = [toMark EXCEPT ![e] = @ - 1]
  /\ marked' = marked \union {e}
  /\ UNCHANGED <<phase, attempt, row, timers, inBus, handled, refused, crashes>>

-------------------------------------------------------------------------------
\* The events whose rows are committed.
Committed == {e \in Events : row[e] = "unpublished"}

\* What a killed process forgets: open transactions, timers and calls in progress.
\* Committed rows survive on a disk, and not in memory.
LostInCrash ==
  /\ crashes < MaxCrashes
  /\ crashes' = crashes + 1
  /\ phase' = [c \in Commands |-> IF phase[c] = "open" THEN "done" ELSE phase[c]]
  /\ \E kept \in {Committed, {}} :
       row' = [e \in Events |-> IF e \in kept THEN "unpublished" ELSE "none"]
  /\ inBus' = [e \in Events |-> 0]
  /\ toMark' = [e \in Events |-> 0]

\* Mutant: at the start, every event getNotPublished finds is handed over again.
CrashAndRedeliver ==
  /\ LostInCrash
  /\ timers' = SetToSeq(Committed)
  /\ UNCHANGED <<attempt, marked, handled, refused>>

\* The process is killed and started again. Nothing at the start reads getNotPublished.
Crash ==
  /\ LostInCrash
  /\ timers' = <<>>
  /\ UNCHANGED <<attempt, marked, handled, refused>>

-------------------------------------------------------------------------------
CommandStep == \E c \in Commands : AddEvents(c) \/ Commit(c) \/ Rollback(c)

BusStep(e) ==
  HandlerSucceeds(e) \/ InputRefused(e) \/ HandlerThrows(e) \/ MarkAsPublished(e)

\* Nothing is left to run.
Quiet ==
  /\ \A c \in Commands :
       phase[c] = "done" \/ (phase[c] = "idle" /\ attempt[c] = Len(Emits[c]))
  /\ timers = <<>>
  /\ \A e \in Events : inBus[e] = 0 /\ toMark[e] = 0
  /\ UNCHANGED vars

Next == CommandStep \/ FireTimer \/ (\E e \in Events : BusStep(e)) \/ Crash \/ Quiet

\* The event loop never rests while something is ready to run; requests may stop
\* coming and processes need not be killed.
Fairness ==
  /\ WF_vars(\E c \in Commands : Commit(c) \/ Rollback(c))
  /\ WF_vars(FireTimer)
  /\ WF_vars(\E e \in Events : BusStep(e))

Spec == Init /\ [][Next]_vars /\ Fairness

-------------------------------------------------------------------------------
\* The service the bus found for e has committed, or there was nothing it could do.
WasHandled(e) == Route[e] = 0 \/ e \in Malformed \/ handled[e][Executed[e]] > 0

\* An event that the deliverer marks was handled by the service the bus found for it,
\* unless the bus found none or the event was malformed: a crash, a throwing handler or
\* a rollback on the way never leads to a mark (timeout-callback-impl.ts:23-29).
PublishedWasHandled == \A e \in marked : WasHandled(e)

\* No event takes effect twice, whatever is restarted or killed in between.
HandledAtMostOnce ==
  \A e \in Events : \A i, j \in ServiceIds :
    handled[e][i] > 0 /\ handled[e][j] > 0 => i = j /\ handled[e][i] = 1

\* No handler is started while the transaction that registered its event is still
\* open: "start the handler after all promises are done"
\* (timeout-callback-impl.ts:22).
HandlersAfterCommand ==
  \A e \in Events :
    row[e] = "cached" => inBus[e] = 0 /\ \A i \in ServiceIds : handled[e][i] = 0

\* A committed event reaches the service the bus finds for it, and takes effect there
\* unless the service throws or the process is killed: "delivery new event to bus"
\* (src/api/bus/deliverer-to-bus.ts:6).
CommittedIsHandled ==
  \A e \in Events :
    row[e] = "unpublished" ~> (WasHandled(e) \/ e \in refused \/ crashes > 0)

\* The services that subscribed to an event have handled it once it is marked:
\* handlerServiceName is the "name of the service that will handle the event"
\* (src/api/bus/types.ts:11).
SubscribersHandleEvent ==
  \A e \in marked \ Malformed : \A i \in Subscribed(e) : handled[e][i] > 0

\* Some attempt has registered e already.
Emitted(e) == \E c \in Commands : \E i \in 1..attempt[c] : Emits[c][i] = e

Outbox == INSTANCE EventOutbox WITH
  Services <- ServiceIds,
  Handler <- [e \in Events |->
                IF Route[e] = 0 \/ e \in Malformed THEN 0 ELSE Executed[e]],
  registered <- {e \in Events : Emitted(e)},
  effects <- handled

\* An event takes effect at most once, in the service that handles it and not before its
\* command has ended, and is marked only after that, through restarts, rollbacks and
\* kills (timeout-callback-impl.ts:15-30).
ImplementsEventOutbox == Outbox!Spec
===============================================================================
