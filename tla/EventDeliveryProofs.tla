-------------------------- MODULE EventDeliveryProofs --------------------------
(***************************************************************************)
(* Proofs about EventDelivery, for any commands, events and services: no    *)
(* event takes effect twice, none is marked that was not handled, and no    *)
(* handler runs before its command has ended unless commands await I/O.    *)
(***************************************************************************)
EXTENDS EventDelivery, SequenceTheorems, WellFoundedInduction, TLAPS

InTimers(e) == \E i \in 1..Len(timers) : timers[i] = e

Unhandled(e) == \A i \in ServiceIds : handled[e][i] = 0

\* Where an event is: nowhere before its attempt, then in one timer, then in one call of
\* the bus, and handled by the one service that call executes.
EventOK(e) ==
  /\ ~Emitted(e) =>
       row[e] = "none" /\ ~InTimers(e) /\ inBus[e] = 0 /\ toMark[e] = 0 /\ Unhandled(e)
  /\ InTimers(e) => inBus[e] = 0 /\ Unhandled(e)
  /\ inBus[e] > 0 => inBus[e] = 1 /\ Unhandled(e) /\ Route[e] # 0
  /\ \A i \in ServiceIds : handled[e][i] > 0 => handled[e][i] = 1 /\ i = Executed[e]
  /\ toMark[e] > 0 \/ e \in marked => WasHandled(e)

TimersOnce == \A i, j \in 1..Len(timers) : timers[i] = timers[j] => i = j

\* Rows wait for a commit exactly while the transaction of their attempt is open.
CachedIsOpen ==
  /\ \A c \in Commands :
       phase[c] = "open" => attempt[c] > 0 /\ row[Current(c)] = "cached"
  /\ \A e \in Events : row[e] = "cached" =>
       \E c \in Commands : phase[c] = "open" /\ Current(c) = e

\* It is not in the bus while promises run to their end before any timer fires.
NotEarly(e) == ~IoAwaits /\ row[e] = "cached" => inBus[e] = 0 /\ Unhandled(e)

IInv ==
  /\ TypeOK
  /\ TimersOnce
  /\ CachedIsOpen
  /\ \A e \in Events : EventOK(e) /\ NotEarly(e)

\* Every nonempty set of naturals has a least element.
LEMMA LeastOf ==
  ASSUME NEW T, T \subseteq Nat, T # {}
  PROVE  \E x \in T : \A y \in T : x <= y
<1>1. PICK x \in T : \A y \in T : ~(<<y, x>> \in OpToRel(<, Nat))
  BY NatLessThanWellFounded, WFMin
<1>2. \A y \in T : ~(y < x)
  BY <1>1 DEF OpToRel
<1> QED BY <1>2

\* Min is one of the elements, and the least.
LEMMA MinOf ==
  ASSUME NEW T, T \subseteq Nat, T # {}
  PROVE  Min(T) \in T /\ \A y \in T : Min(T) <= y
BY LeastOf DEF Min

-------------------------------------------------------------------------------
\* The service that the handling module executes is one of those subscribed.
LEMMA ExecutedIsService ==
  ASSUME NEW e \in Events, Route[e] # 0
  PROVE  Executed[e] \in ServiceIds
<1> DEFINE R == {i \in 1..Len(Services) :
                   /\ Services[i].eventModuleName = Publisher[e]
                   /\ Services[i].eventName = Name[e]}
           X == {i \in 1..Len(Services) :
                   /\ Services[i].moduleName = Services[Route[e]].moduleName
                   /\ Services[i].eventName = Name[e]}
<1>1. Len(Services) \in Nat /\ ServiceIds = 1..Len(Services)
  BY DeliveryAssumption DEF ServiceIds
<1>2. Route[e] = IF R # {} THEN Min(R) ELSE 0
  BY DEF Route, SelectInSeq
<1>3. R # {} /\ R \subseteq Nat
  BY <1>1, <1>2
<1>4. Route[e] \in R
  <2> HIDE DEF R
  <2> QED BY <1>2, <1>3, MinOf
<1>5. X # {} /\ X \subseteq Nat
  BY <1>1, <1>4
<1>6. Executed[e] = IF X # {} THEN Min(X) ELSE 0
  BY DEF Executed, SelectInSeq
<1>7. Executed[e] \in X
  <2> HIDE DEF X
  <2> QED BY <1>5, <1>6, MinOf
<1> QED BY <1>1, <1>7

\* What the invariant says of the types, in the words the provers need.
LEMMA Types ==
  ASSUME TypeOK
  PROVE  /\ \A c \in Commands : attempt[c] \in Nat /\ attempt[c] <= Len(Emits[c])
         /\ \A c \in Commands :
              Emits[c] \in Seq(Events) /\ Len(Emits[c]) \in Nat
              /\ DOMAIN Emits[c] = 1..Len(Emits[c])
              /\ \A i \in 1..Len(Emits[c]) : Emits[c][i] \in Events
         /\ timers \in Seq(Events) /\ Len(timers) \in Nat
         /\ \A i \in 1..Len(timers) : timers[i] \in Events
         /\ \A e \in Events : inBus[e] \in Nat /\ toMark[e] \in Nat
         /\ \A e \in Events : \A i \in ServiceIds : handled[e][i] \in Nat
<1>1. \A c \in Commands : Emits[c] \in Seq(Events)
  BY DeliveryAssumption
<1>2. \A c \in Commands : Len(Emits[c]) \in Nat /\ DOMAIN Emits[c] = 1..Len(Emits[c])
                          /\ \A i \in 1..Len(Emits[c]) : Emits[c][i] \in Events
  BY <1>1
<1>3. timers \in Seq(Events) /\ Len(timers) \in Nat
      /\ \A i \in 1..Len(timers) : timers[i] \in Events
  BY DEF TypeOK
<1> QED BY <1>1, <1>2, <1>3 DEF TypeOK

\* The running attempt has an event, and one that was emitted.
LEMMA CurrentIsEvent ==
  ASSUME IInv, NEW c \in Commands, phase[c] = "open"
  PROVE  Current(c) \in Events /\ Emitted(Current(c))
<1>1. attempt[c] \in Nat /\ attempt[c] > 0 /\ attempt[c] <= Len(Emits[c])
      /\ Len(Emits[c]) \in Nat
  BY Types DEF IInv, CachedIsOpen
<1>2. attempt[c] \in 1..attempt[c] /\ attempt[c] \in 1..Len(Emits[c])
  BY <1>1
<1>3. Emits[c][attempt[c]] \in Events
  BY <1>2, Types DEF IInv
<1> QED BY <1>2, <1>3 DEF Current, Emitted

\* No two running attempts have the same event.
LEMMA CurrentDiffers ==
  ASSUME IInv, NEW c \in Commands, NEW d \in Commands, c # d,
         phase[c] = "open", phase[d] = "open"
  PROVE  Current(c) # Current(d)
<1>1. ASSUME NEW x \in {c, d}
      PROVE  attempt[x] \in DOMAIN Emits[x]
  <2>1. x \in Commands /\ phase[x] = "open"
    OBVIOUS
  <2>2. attempt[x] \in Nat /\ attempt[x] > 0 /\ attempt[x] <= Len(Emits[x])
    BY <2>1, Types DEF IInv, CachedIsOpen
  <2> QED BY <2>1, <2>2, Types DEF IInv
<1> QED BY <1>1, DeliveryAssumption DEF Current

\* An event that a step leaves where it is.
LEMMA Undisturbed ==
  ASSUME NEW e \in Events, EventOK(e), Emitted(e) => Emitted(e)', InTimers(e)' => InTimers(e),
         row'[e] = row[e] \/ Emitted(e), inBus'[e] = inBus[e], toMark'[e] = toMark[e],
         e \in marked' => e \in marked, handled'[e] = handled[e]
  PROVE  EventOK(e)'
BY DEF EventOK, Unhandled, WasHandled

-------------------------------------------------------------------------------
\* Before the first step no event was emitted.
LEMMA Initially ==
  Init => IInv
<1> SUFFICES ASSUME Init PROVE IInv
  OBVIOUS
<1>1. \A c \in Commands : Len(Emits[c]) \in Nat
  BY DeliveryAssumption
<1>2. TypeOK
  <2>1. timers \in Seq(Events) /\ crashes \in 0..MaxCrashes
    BY DeliveryAssumption DEF Init
  <2>2. attempt \in [Commands -> Nat] /\ \A c \in Commands : attempt[c] <= Len(Emits[c])
    BY <1>1 DEF Init
  <2> QED BY <2>1, <2>2 DEF Init, TypeOK
<1>3. TimersOnce /\ CachedIsOpen
  BY DEF Init, TimersOnce, CachedIsOpen
<1>4. ASSUME NEW e \in Events
      PROVE  EventOK(e) /\ NotEarly(e)
  BY DEF Init, EventOK, NotEarly, InTimers, Unhandled
<1> QED BY <1>2, <1>3, <1>4 DEF IInv

\* addEvents: an event that was nowhere gets its row and its timer.
LEMMA AddStep ==
  ASSUME IInv, NEW c \in Commands, AddEvents(c)
  PROVE  IInv'
<1>0. /\ TypeOK /\ TimersOnce /\ CachedIsOpen /\ phase[c] = "idle"
      /\ attempt[c] \in Nat /\ Len(Emits[c]) \in Nat /\ attempt[c] + 1 \in 1..Len(Emits[c])
  BY Types DEF IInv, AddEvents
<1> PICK n \in 1..Len(Emits[c]) : n = attempt[c] + 1
  BY <1>0
<1> PICK new \in Events : new = Emits[c][n]
  BY <1>0, Types
<1>1. /\ TypeOK /\ TimersOnce /\ CachedIsOpen /\ phase[c] = "idle"
      /\ attempt[c] \in Nat /\ Len(Emits[c]) \in Nat /\ n = attempt[c] + 1
      /\ new = Emits[c][n]
  BY <1>0
<1>2. /\ phase' = [phase EXCEPT ![c] = "open"] /\ attempt' = [attempt EXCEPT ![c] = n]
      /\ row' = [row EXCEPT ![new] = "cached"]
      /\ timers' = IF Delivers THEN Append(timers, new) ELSE timers
      /\ UNCHANGED <<inBus, toMark, marked, handled, refused, crashes>>
  BY <1>1 DEF AddEvents
<1>3. ~Emitted(new)
  <2> SUFFICES ASSUME NEW d \in Commands, NEW i \in 1..attempt[d], Emits[d][i] = new
               PROVE  FALSE
    BY DEF Emitted
  <2>1. i \in DOMAIN Emits[d] /\ n \in DOMAIN Emits[c]
    BY <1>1, Types
  <2>2. d = c /\ i = n
    BY <2>1, DeliveryAssumption
  <2> QED BY <1>1, <2>2
<1>4. /\ attempt'[c] = n /\ phase'[c] = "open"
      /\ \A d \in Commands \ {c} : attempt'[d] = attempt[d] /\ phase'[d] = phase[d]
      /\ row'[new] = "cached" /\ \A e \in Events \ {new} : row'[e] = row[e]
  BY <1>1, <1>2 DEF TypeOK
<1>5. /\ timers' \in Seq(Events) /\ Len(timers) \in Nat
      /\ \A i \in 1..Len(timers') :
           \/ i \in 1..Len(timers) /\ timers'[i] = timers[i]
           \/ i = Len(timers) + 1 /\ timers'[i] = new
  <2>1. timers \in Seq(Events) /\ Len(timers) \in Nat
    BY <1>1, Types
  <2>2. CASE Delivers
    <3>1. timers' = Append(timers, new)
      BY <1>2, <2>2
    <3>2. /\ timers' \in Seq(Events) /\ Len(timers') = Len(timers) + 1
          /\ timers'[Len(timers) + 1] = new
          /\ \A i \in 1..Len(timers) : timers'[i] = timers[i]
      BY <2>1, <3>1, AppendProperties
    <3> QED BY <2>1, <3>2
  <2>3. CASE ~Delivers
    <3>1. timers' = timers
      BY <1>2, <2>3
    <3> QED BY <2>1, <3>1
  <2> QED BY <2>2, <2>3
<1>6. TypeOK'
  BY <1>1, <1>2, <1>4, <1>5 DEF TypeOK
<1>7. /\ ~InTimers(new) /\ inBus[new] = 0 /\ toMark[new] = 0 /\ Unhandled(new)
  BY <1>1, <1>3 DEF IInv, EventOK
<1>8. TimersOnce'
  BY <1>1, <1>5, <1>7 DEF TimersOnce, InTimers
<1>9. CachedIsOpen'
  <2>2. Current(c)' = new
    BY <1>4 DEF Current
  <2>3. \A d \in Commands \ {c} : Current(d)' = Current(d)
    BY <1>4 DEF Current
  <2>1. ASSUME NEW d \in Commands, phase'[d] = "open"
        PROVE  attempt'[d] > 0 /\ row'[Current(d)'] = "cached"
    <3>1. CASE d = c
      BY <1>1, <1>4, <2>2, <3>1
    <3>2. CASE d # c
      <4>1. phase[d] = "open" /\ attempt'[d] = attempt[d] /\ Current(d)' = Current(d)
        BY <1>4, <2>1, <2>3, <3>2
      <4>2. Current(d) \in Events /\ row[Current(d)] = "cached" /\ attempt[d] > 0
        BY <4>1, CurrentIsEvent DEF IInv, CachedIsOpen
      <4> QED BY <1>4, <4>1, <4>2
    <3> QED BY <3>1, <3>2
  <2>4. \A e \in Events : row'[e] = "cached" =>
          \E d \in Commands : phase'[d] = "open" /\ Current(d)' = e
    BY <1>1, <1>4, <2>2, <2>3 DEF CachedIsOpen
  <2> QED BY <2>1, <2>4 DEF CachedIsOpen
<1>10. Emitted(new)'
  <2>1. n \in 1..attempt'[c]
    BY <1>1, <1>4
  <2> QED BY <2>1 DEF Emitted
<1>11. ASSUME NEW e \in Events
       PROVE  EventOK(e)' /\ NotEarly(e)'
  <2>1. CASE e = new
    <3>1. inBus'[e] = 0 /\ toMark'[e] = 0 /\ row'[e] = "cached" /\ Emitted(e)'
      BY <1>2, <1>4, <1>7, <1>10, <2>1
    <3>2. Unhandled(e)' /\ \A i \in ServiceIds : handled'[e][i] = 0
      BY <1>2, <1>7, <2>1 DEF Unhandled
    <3>3. EventOK(e) /\ (e \in marked' => WasHandled(e)')
      BY <1>2, <2>1 DEF IInv, EventOK, WasHandled
    <3> QED BY <3>1, <3>2, <3>3 DEF EventOK, NotEarly
  <2>2. CASE e # new
    <3>1. Emitted(e) => Emitted(e)'
      <4> SUFFICES ASSUME NEW d \in Commands, NEW i \in 1..attempt[d], Emits[d][i] = e
                   PROVE  i \in 1..attempt'[d]
        BY DEF Emitted
      <4>1. attempt[d] \in Nat
        BY <1>1, Types
      <4>2. CASE d = c
        BY <1>1, <1>4, <4>2
      <4>3. CASE d # c
        BY <1>4, <4>3
      <4> QED BY <4>2, <4>3
    <3>2. InTimers(e)' => InTimers(e)
      BY <1>5, <2>2 DEF InTimers
    <3>3. /\ EventOK(e) /\ row'[e] = row[e] /\ inBus'[e] = inBus[e] /\ marked' = marked
          /\ toMark'[e] = toMark[e] /\ handled'[e] = handled[e]
      BY <1>2, <1>4, <2>2 DEF IInv
    <3>5. EventOK(e)'
      BY <3>1, <3>2, <3>3, Undisturbed
    <3>4. NotEarly(e)'
      BY <1>2, <1>4, <2>2 DEF IInv, NotEarly, Unhandled
    <3> QED BY <3>4, <3>5
  <2> QED BY <2>1, <2>2
<1> QED BY <1>6, <1>8, <1>9, <1>11 DEF IInv

\* The attempt ends, and only the row of its event changes.
LEMMA EndStep ==
  ASSUME IInv, NEW c \in Commands, Commit(c) \/ Rollback(c)
  PROVE  IInv'
<1>1. /\ TypeOK /\ CachedIsOpen /\ phase[c] = "open"
      /\ Current(c) \in Events /\ Emitted(Current(c))
  BY CurrentIsEvent DEF IInv, Commit, Rollback
<1>2. PICK p \in {"idle", "done"}, r \in {"unpublished", "none"} :
        phase' = [phase EXCEPT ![c] = p] /\ row' = [row EXCEPT ![Current(c)] = r]
  BY DEF Commit, Rollback
<1>3. UNCHANGED <<attempt, timers, inBus, toMark, marked, handled, refused, crashes>>
  BY DEF Commit, Rollback
<1>4. /\ phase'[c] = p /\ \A d \in Commands \ {c} : phase'[d] = phase[d]
      /\ row'[Current(c)] = r /\ \A e \in Events \ {Current(c)} : row'[e] = row[e]
  BY <1>1, <1>2 DEF TypeOK
<1>5. TypeOK'
  BY <1>1, <1>2, <1>3 DEF TypeOK
<1>6. TimersOnce'
  BY <1>3 DEF IInv, TimersOnce
<1>7. CachedIsOpen'
  <2>1. \A d \in Commands : Current(d)' = Current(d) /\ attempt'[d] = attempt[d]
    BY <1>3 DEF Current
  <2>2. ASSUME NEW d \in Commands, phase'[d] = "open"
        PROVE  attempt[d] > 0 /\ row'[Current(d)] = "cached"
    <3>1. d # c /\ phase[d] = "open"
      BY <1>2, <1>4, <2>2
    <3>2. Current(d) \in Events \ {Current(c)}
      BY <1>1, <3>1, CurrentIsEvent, CurrentDiffers
    <3> QED BY <1>1, <1>4, <3>1, <3>2 DEF CachedIsOpen
  <2>3. ASSUME NEW e \in Events, row'[e] = "cached"
        PROVE  \E d \in Commands : phase'[d] = "open" /\ Current(d) = e
    <3>1. e # Current(c) /\ row[e] = "cached"
      BY <1>2, <1>4, <2>3
    <3> QED BY <1>1, <1>4, <3>1 DEF CachedIsOpen
  <2> QED BY <2>1, <2>2, <2>3 DEF CachedIsOpen
<1>8. ASSUME NEW e \in Events
      PROVE  EventOK(e)' /\ NotEarly(e)'
  <2>1. (Emitted(e)' <=> Emitted(e)) /\ (InTimers(e)' <=> InTimers(e))
    BY <1>3 DEF Emitted, InTimers
  <2>2. row'[e] = row[e] \/ Emitted(e)
    <3>1. CASE e = Current(c)
      BY <1>1, <1>4, <3>1
    <3>2. CASE e # Current(c)
      <4>1. row'[e] = row[e]
        BY <1>4, <3>2
      <4> QED BY <4>1
    <3> QED BY <3>1, <3>2
  <2>5. /\ EventOK(e) /\ inBus'[e] = inBus[e] /\ marked' = marked
        /\ toMark'[e] = toMark[e] /\ handled'[e] = handled[e]
    BY <1>3 DEF IInv
  <2>3. EventOK(e)'
    BY <2>1, <2>2, <2>5, Undisturbed
  <2>4. NotEarly(e)'
    BY <1>3, <1>4 DEF IInv, NotEarly, Unhandled
  <2> QED BY <2>3, <2>4
<1> QED BY <1>5, <1>6, <1>7, <1>8 DEF IInv

\* A timer fires: the event goes from the timer to the bus.
LEMMA TimerStep ==
  ASSUME IInv, FireTimer
  PROVE  IInv'
<1>1. /\ TypeOK /\ TimersOnce /\ CachedIsOpen /\ timers \in Seq(Events) /\ timers # <<>>
      /\ Len(timers) \in Nat /\ LoopIsFree
  BY Types DEF IInv, FireTimer
<1>2. PICK e \in Events : e = timers[1]
  BY <1>1, Types DEF IInv
<1>3. /\ timers' = Tail(timers) /\ Head(timers) = e
      /\ UNCHANGED <<phase, attempt, row, marked, handled, refused, crashes>>
  BY <1>1, <1>2 DEF FireTimer
<1>4. \/ Route[e] = 0 /\ toMark' = [toMark EXCEPT ![e] = @ + 1] /\ inBus' = inBus
      \/ Route[e] # 0 /\ inBus' = [inBus EXCEPT ![e] = @ + 1] /\ toMark' = toMark
  BY <1>3 DEF FireTimer
<1>5. /\ timers' \in Seq(Events) /\ Len(timers') = Len(timers) - 1
      /\ \A i \in 1..Len(timers') : timers'[i] = timers[i + 1]
  BY <1>1, <1>3
<1>6. TypeOK'
  <2>1. inBus \in [Events -> Nat] /\ toMark \in [Events -> Nat]
    BY <1>1 DEF TypeOK
  <2>2. inBus' \in [Events -> Nat]
    <3>1. CASE inBus' = inBus
      BY <2>1, <3>1
    <3>2. CASE inBus' = [inBus EXCEPT ![e] = @ + 1]
      BY <2>1, <3>2
    <3> QED BY <1>4, <3>1, <3>2
  <2>3. toMark' \in [Events -> Nat]
    <3>1. CASE toMark' = toMark
      BY <2>1, <3>1
    <3>2. CASE toMark' = [toMark EXCEPT ![e] = @ + 1]
      BY <2>1, <3>2
    <3> QED BY <1>4, <3>1, <3>2
  <2> QED BY <1>1, <1>3, <1>5, <2>2, <2>3 DEF TypeOK
<1>7. TimersOnce'
  BY <1>1, <1>5 DEF TimersOnce
<1>8. CachedIsOpen'
  BY <1>1, <1>3 DEF CachedIsOpen, Current
<1>9. InTimers(e)
  BY <1>1, <1>2 DEF InTimers
<1>10. inBus[e] = 0 /\ Unhandled(e) /\ Emitted(e) /\ EventOK(e)
  BY <1>9 DEF IInv, EventOK
<1>11. \A f \in Events : InTimers(f)' => InTimers(f) /\ f # e
  <2> SUFFICES ASSUME NEW i \in 1..Len(timers')
               PROVE  /\ i + 1 \in 1..Len(timers)
                      /\ timers'[i] = timers[i + 1] /\ timers[i + 1] # e
    BY DEF InTimers
  <2>1. i + 1 \in 1..Len(timers) /\ 1 \in 1..Len(timers) /\ i + 1 # 1
    BY <1>1, <1>5
  <2> QED BY <1>1, <1>2, <1>5, <2>1 DEF TimersOnce
<1>12. ASSUME NEW f \in Events
       PROVE  EventOK(f)'
  <2>1. Emitted(f)' <=> Emitted(f)
    BY <1>3 DEF Emitted
  <2>2. CASE f = e
    <3>1. ~InTimers(e)' /\ Emitted(e)' /\ Unhandled(e)' /\ row'[e] = row[e]
      BY <1>3, <1>10, <1>11, <2>1, <2>2 DEF Unhandled
    <3>2. \A i \in ServiceIds : handled'[e][i] = 0
      BY <3>1 DEF Unhandled
    <3>3. CASE Route[e] = 0
      <4>1. inBus'[e] = 0
        BY <1>4, <1>10, <3>3
      <4> QED BY <2>2, <3>1, <3>2, <3>3, <4>1 DEF EventOK, WasHandled
    <3>4. CASE Route[e] # 0
      <4>1. inBus'[e] = 1 /\ toMark'[e] = toMark[e] /\ handled' = handled /\ marked' = marked
        BY <1>1, <1>3, <1>4, <1>10, <3>4 DEF TypeOK
      <4> QED BY <1>10, <2>2, <3>1, <3>2, <3>4, <4>1 DEF EventOK, WasHandled
    <3> QED BY <3>3, <3>4
  <2>3. CASE f # e
    <3>1. /\ row'[f] = row[f] /\ inBus'[f] = inBus[f] /\ marked' = marked
          /\ toMark'[f] = toMark[f] /\ handled'[f] = handled[f]
      BY <1>1, <1>3, <1>4, <2>3 DEF TypeOK
    <3>2. EventOK(f) /\ (InTimers(f)' => InTimers(f))
      BY <1>11 DEF IInv
    <3> QED BY <2>1, <3>1, <3>2, Undisturbed
  <2> QED BY <2>2, <2>3
<1>13. ASSUME NEW f \in Events
       PROVE  NotEarly(f)'
  BY <1>1, <1>3 DEF CachedIsOpen, LoopIsFree, NotEarly
<1> QED BY <1>6, <1>7, <1>8, <1>12, <1>13 DEF IInv

\* The executed service commits.
LEMMA HandledStep ==
  ASSUME IInv, NEW e \in Events, HandlerSucceeds(e)
  PROVE  IInv'
<1>1. TypeOK /\ EventOK(e) /\ inBus[e] \in Nat /\ inBus[e] > 0
  BY Types DEF IInv, HandlerSucceeds
<1>2. inBus[e] = 1 /\ Unhandled(e) /\ Route[e] # 0 /\ Emitted(e) /\ ~InTimers(e)
  BY <1>1 DEF EventOK
<1>3. PICK x \in ServiceIds : x = Executed[e]
  BY <1>2, ExecutedIsService
<1>4. /\ inBus' = [inBus EXCEPT ![e] = @ - 1] /\ toMark' = [toMark EXCEPT ![e] = @ + 1]
      /\ handled' = [handled EXCEPT ![e][x] = @ + 1]
      /\ UNCHANGED <<phase, attempt, row, timers, marked, refused, crashes>>
  BY <1>3 DEF HandlerSucceeds
<1>5. /\ handled \in [Events -> [ServiceIds -> Nat]] /\ handled[e] \in [ServiceIds -> Nat]
      /\ handled[e][x] = 0
  BY <1>1, <1>2 DEF TypeOK, Unhandled
<1>6. /\ handled'[e] = [handled[e] EXCEPT ![x] = 1] /\ handled'[e] \in [ServiceIds -> Nat]
      /\ \A f \in Events \ {e} : handled'[f] = handled[f]
      /\ DOMAIN handled' = Events
  BY <1>4, <1>5
<1>7. handled'[e][x] = 1 /\ \A i \in ServiceIds \ {x} : handled'[e][i] = 0
  BY <1>2, <1>5, <1>6 DEF Unhandled
<1>8. TypeOK'
  <2>1. handled' \in [Events -> [ServiceIds -> Nat]]
    BY <1>4, <1>5
  <2>2. inBus' \in [Events -> Nat]
    BY <1>1, <1>2, <1>4 DEF TypeOK
  <2>3. toMark' \in [Events -> Nat]
    BY <1>1, <1>4 DEF TypeOK
  <2> QED BY <1>1, <1>4, <2>1, <2>2, <2>3 DEF TypeOK
<1>9. TimersOnce' /\ CachedIsOpen'
  BY <1>4 DEF IInv, TimersOnce, CachedIsOpen, Current
<1>10. ASSUME NEW f \in Events
       PROVE  EventOK(f)' /\ NotEarly(f)'
  <2>1. (Emitted(f)' <=> Emitted(f)) /\ (InTimers(f)' <=> InTimers(f)) /\ row'[f] = row[f]
    BY <1>4 DEF Emitted, InTimers
  <2>2. CASE f = e
    <3>1. inBus'[e] = 0
      BY <1>1, <1>2, <1>4 DEF TypeOK
    <3>2. EventOK(e)'
      BY <1>2, <1>3, <1>7, <2>1, <2>2, <3>1 DEF EventOK, WasHandled
    <3>3. NotEarly(e)'
      BY <1>2, <2>1, <2>2 DEF IInv, NotEarly
    <3> QED BY <2>2, <3>2, <3>3
  <2>3. CASE f # e
    <3>1. /\ inBus'[f] = inBus[f] /\ toMark'[f] = toMark[f] /\ handled'[f] = handled[f]
          /\ marked' = marked
      BY <1>1, <1>4, <1>6, <2>3 DEF TypeOK
    <3>2. EventOK(f)'
      BY <2>1, <3>1, Undisturbed DEF IInv
    <3>3. NotEarly(f)'
      BY <2>1, <3>1 DEF IInv, NotEarly, Unhandled
    <3> QED BY <3>2, <3>3
  <2> QED BY <2>2, <2>3
<1> QED BY <1>8, <1>9, <1>10 DEF IInv

\* The executed service throws: the call ends and nothing is marked.
LEMMA ThrowsStep ==
  ASSUME IInv, NEW e \in Events, HandlerThrows(e)
  PROVE  IInv'
<1>1. TypeOK /\ EventOK(e) /\ inBus[e] \in Nat /\ inBus[e] > 0 /\ inBus[e] = 1
  BY Types DEF IInv, HandlerThrows, EventOK
<1>2. /\ inBus' = [inBus EXCEPT ![e] = @ - 1] /\ refused' = refused \union {e}
      /\ UNCHANGED <<phase, attempt, row, timers, toMark, marked, handled, crashes>>
  BY DEF HandlerThrows
<1>3. inBus'[e] = 0 /\ \A f \in Events \ {e} : inBus'[f] = inBus[f]
  BY <1>1, <1>2 DEF TypeOK
<1>4. TypeOK'
  <2>1. inBus' \in [Events -> Nat]
    BY <1>1, <1>2 DEF TypeOK
  <2> QED BY <1>1, <1>2, <2>1 DEF TypeOK
<1>5. TimersOnce' /\ CachedIsOpen'
  BY <1>2 DEF IInv, TimersOnce, CachedIsOpen, Current
<1>6. ASSUME NEW f \in Events
      PROVE  EventOK(f)' /\ NotEarly(f)'
  <2>1. (Emitted(f)' <=> Emitted(f)) /\ (InTimers(f)' <=> InTimers(f)) /\ row'[f] = row[f]
    BY <1>2 DEF Emitted, InTimers
  <2>2. inBus'[f] = 0 \/ inBus'[f] = inBus[f]
    BY <1>3
  <2>3. /\ EventOK(f) /\ NotEarly(f) /\ toMark'[f] = toMark[f] /\ handled'[f] = handled[f]
        /\ marked' = marked
    BY <1>2 DEF IInv
  <2> QED BY <2>1, <2>2, <2>3 DEF EventOK, NotEarly, Unhandled, WasHandled
<1> QED BY <1>4, <1>5, <1>6 DEF IInv

\* A malformed event: the call ends as if it had been handled.
LEMMA RefusedStep ==
  ASSUME IInv, NEW e \in Events, InputRefused(e)
  PROVE  IInv'
<1>1. /\ TypeOK /\ EventOK(e) /\ inBus[e] \in Nat /\ inBus[e] > 0 /\ inBus[e] = 1
      /\ e \in Malformed /\ toMark[e] \in Nat
  BY Types DEF IInv, InputRefused, EventOK
<1>2. /\ inBus' = [inBus EXCEPT ![e] = @ - 1] /\ toMark' = [toMark EXCEPT ![e] = @ + 1]
      /\ UNCHANGED <<phase, attempt, row, timers, marked, handled, refused, crashes>>
  BY DEF InputRefused
<1>3. /\ inBus'[e] = 0 /\ \A f \in Events \ {e} : inBus'[f] = inBus[f]
      /\ \A f \in Events \ {e} : toMark'[f] = toMark[f]
  BY <1>1, <1>2 DEF TypeOK
<1>4. TypeOK'
  <2>1. inBus' \in [Events -> Nat]
    BY <1>1, <1>2 DEF TypeOK
  <2>2. toMark' \in [Events -> Nat]
    BY <1>1, <1>2 DEF TypeOK
  <2> QED BY <1>1, <1>2, <2>1, <2>2 DEF TypeOK
<1>5. TimersOnce' /\ CachedIsOpen'
  BY <1>2 DEF IInv, TimersOnce, CachedIsOpen, Current
<1>6. ASSUME NEW f \in Events
      PROVE  EventOK(f)' /\ NotEarly(f)'
  <2>1. (Emitted(f)' <=> Emitted(f)) /\ (InTimers(f)' <=> InTimers(f)) /\ row'[f] = row[f]
    BY <1>2 DEF Emitted, InTimers
  <2>2. EventOK(f) /\ NotEarly(f) /\ handled'[f] = handled[f] /\ marked' = marked
    BY <1>2 DEF IInv
  <2>3. NotEarly(f)'
    BY <1>3, <2>1, <2>2 DEF NotEarly, Unhandled
  <2>4. CASE f = e
    <3>1. Emitted(e) /\ WasHandled(e)' /\ inBus'[e] = 0
      BY <1>1, <1>3 DEF EventOK, WasHandled
    <3>2. EventOK(e)'
      BY <2>1, <2>2, <2>4, <3>1 DEF EventOK, Unhandled
    <3> QED BY <2>3, <2>4, <3>2
  <2>5. CASE f # e
    <3>1. inBus'[f] = inBus[f] /\ toMark'[f] = toMark[f]
      BY <1>3, <2>5
    <3> QED BY <2>1, <2>2, <2>3, <3>1, Undisturbed
  <2> QED BY <2>4, <2>5
<1> QED BY <1>4, <1>5, <1>6 DEF IInv

\* An event is marked, and no row changes.
LEMMA MarkStep ==
  ASSUME IInv, NEW e \in Events, MarkAsPublished(e)
  PROVE  IInv'
<1>1. TypeOK /\ EventOK(e) /\ toMark[e] \in Nat /\ toMark[e] > 0
  BY Types DEF IInv, MarkAsPublished
<1>2. /\ toMark' = [toMark EXCEPT ![e] = @ - 1] /\ marked' = marked \union {e}
      /\ UNCHANGED <<phase, attempt, row, timers, inBus, handled, refused, crashes>>
  BY DEF MarkAsPublished
<1>3. toMark'[e] \in Nat /\ \A f \in Events \ {e} : toMark'[f] = toMark[f]
  BY <1>1, <1>2 DEF TypeOK
<1>4. TypeOK'
  <2>1. toMark' \in [Events -> Nat]
    BY <1>1, <1>2 DEF TypeOK
  <2> QED BY <1>1, <1>2, <2>1 DEF TypeOK
<1>5. TimersOnce' /\ CachedIsOpen'
  BY <1>2 DEF IInv, TimersOnce, CachedIsOpen, Current
<1>6. Emitted(e) /\ WasHandled(e)
  BY <1>1 DEF EventOK
<1>7. ASSUME NEW f \in Events
      PROVE  EventOK(f)' /\ NotEarly(f)'
  <2>1. /\ (Emitted(f)' <=> Emitted(f)) /\ (InTimers(f)' <=> InTimers(f))
        /\ inBus'[f] = inBus[f] /\ handled'[f] = handled[f] /\ row'[f] = row[f]
    BY <1>2 DEF Emitted, InTimers
  <2>2. EventOK(f) /\ NotEarly(f)
    BY DEF IInv
  <2>3. NotEarly(f)'
    BY <2>1, <2>2 DEF NotEarly, Unhandled
  <2>4. CASE f = e
    <3>1. WasHandled(e)'
      BY <1>6, <2>1, <2>4 DEF WasHandled
    <3>2. EventOK(e)'
      BY <1>6, <2>1, <2>2, <2>4, <3>1 DEF EventOK, Unhandled
    <3> QED BY <2>3, <2>4, <3>2
  <2>5. CASE f # e
    <3>1. toMark'[f] = toMark[f] /\ (f \in marked' => f \in marked)
      BY <1>2, <1>3, <2>5
    <3> QED BY <2>1, <2>2, <2>3, <3>1, Undisturbed
  <2> QED BY <2>4, <2>5
<1> QED BY <1>4, <1>5, <1>7 DEF IInv

\* A kill: only committed rows and committed effects of handlers survive.
LEMMA CrashStep ==
  ASSUME IInv, Crash
  PROVE  IInv'
<1>1. TypeOK
  BY DEF IInv
<1> PICK kept \in {Committed, {}} :
       row' = [e \in Events |-> IF e \in kept THEN "unpublished" ELSE "none"]
  BY DEF Crash, LostInCrash
<1>2. /\ phase' = [c \in Commands |-> IF phase[c] = "open" THEN "done" ELSE phase[c]]
      /\ row' = [e \in Events |-> IF e \in kept THEN "unpublished" ELSE "none"]
      /\ inBus' = [e \in Events |-> 0] /\ toMark' = [e \in Events |-> 0]
      /\ timers' = <<>> /\ crashes < MaxCrashes /\ crashes' = crashes + 1
      /\ UNCHANGED <<attempt, marked, handled, refused>>
  BY DEF Crash, LostInCrash
<1>3. TypeOK'
  <2>1. phase' \in [Commands -> {"idle", "open", "done"}]
    BY <1>1, <1>2 DEF TypeOK
  <2>2. row' \in [Events -> {"none", "cached", "unpublished"}]
    BY <1>2
  <2>3. crashes' \in 0..MaxCrashes
    BY <1>1, <1>2, DeliveryAssumption DEF TypeOK
  <2> QED BY <1>1, <1>2, <2>1, <2>2, <2>3 DEF TypeOK
<1>4. \A e \in Events : row'[e] # "cached" /\ (row'[e] = row[e] \/ row'[e] = "none")
  BY <1>2 DEF Committed
<1>5. TimersOnce' /\ CachedIsOpen'
  BY <1>2, <1>4 DEF IInv, TimersOnce, CachedIsOpen
<1>6. ASSUME NEW e \in Events
      PROVE  EventOK(e)' /\ NotEarly(e)'
  <2>1. /\ (Emitted(e)' <=> Emitted(e)) /\ ~InTimers(e)'
        /\ inBus'[e] = 0 /\ toMark'[e] = 0 /\ handled'[e] = handled[e] /\ marked' = marked
    BY <1>2 DEF Emitted, InTimers
  <2>2. EventOK(e) /\ row'[e] # "cached" /\ (row'[e] = row[e] \/ row'[e] = "none")
    BY <1>4 DEF IInv
  <2> QED BY <2>1, <2>2 DEF EventOK, NotEarly, Unhandled, WasHandled
<1> QED BY <1>3, <1>5, <1>6 DEF IInv

-------------------------------------------------------------------------------
\* The invariant is inductive (timeout-callback-impl.ts:15-30, one-server-bus.ts:38-50).
THEOREM DeliveryInvariant ==
  Spec => []IInv
<1>1. ASSUME IInv, [Next]_vars
      PROVE  IInv'
  <2>1. CASE UNCHANGED vars
    <3>1. /\ UNCHANGED <<phase, attempt, row, timers, inBus, toMark>>
          /\ UNCHANGED <<marked, handled, refused, crashes>>
      BY <2>1 DEF vars
    <3>2. TypeOK' /\ TimersOnce' /\ CachedIsOpen'
      BY <1>1, <3>1 DEF IInv, TypeOK, TimersOnce, CachedIsOpen, Current
    <3>3. ASSUME NEW e \in Events
          PROVE  EventOK(e)' /\ NotEarly(e)'
      <4>1. (Emitted(e)' <=> Emitted(e)) /\ (InTimers(e)' <=> InTimers(e))
        BY <3>1 DEF Emitted, InTimers
      <4>2. EventOK(e) /\ NotEarly(e)
        BY <1>1 DEF IInv
      <4> QED BY <3>1, <4>1, <4>2 DEF EventOK, NotEarly, Unhandled, WasHandled
    <3> QED BY <3>2, <3>3 DEF IInv
  <2>2. CASE CommandStep
    BY <1>1, <2>2, AddStep, EndStep DEF CommandStep
  <2>3. CASE FireTimer
    BY <1>1, <2>3, TimerStep
  <2>4. CASE \E e \in Events : BusStep(e)
    BY <1>1, <2>4, HandledStep, RefusedStep, ThrowsStep, MarkStep DEF BusStep
  <2>5. CASE Crash
    BY <1>1, <2>5, CrashStep
  <2> QED BY <1>1, <2>1, <2>2, <2>3, <2>4, <2>5 DEF Next, Quiet
<1> QED BY Initially, <1>1, PTL DEF Spec

\* The variables keep their types.
THEOREM DeliveryTypes ==
  Spec => []TypeOK
<1>1. IInv => TypeOK
  BY DEF IInv
<1> QED BY DeliveryInvariant, <1>1, PTL

\* An event that the deliverer marks was handled by the service the bus found for it,
\* unless the bus found none or the event is malformed (timeout-callback-impl.ts:23-29).
THEOREM MarkedWasHandled ==
  Spec => []PublishedWasHandled
<1>1. IInv => PublishedWasHandled
  BY DEF IInv, TypeOK, EventOK, PublishedWasHandled
<1> QED BY DeliveryInvariant, <1>1, PTL

\* No event takes effect twice, whatever is restarted or killed in between
\* (timeout-callback-impl.ts:15-30).
THEOREM HandledOnce ==
  Spec => []HandledAtMostOnce
<1>1. IInv => HandledAtMostOnce
  BY DEF IInv, EventOK, HandledAtMostOnce
<1> QED BY DeliveryInvariant, <1>1, PTL

\* Unless commands await I/O, no handler is started while the transaction that
\* registered its event is still open (timeout-callback-impl.ts:22).
THEOREM HandlersWait ==
  ASSUME ~IoAwaits
  PROVE  Spec => []HandlersAfterCommand
<1>1. IInv => HandlersAfterCommand
  BY DEF IInv, NotEarly, Unhandled, HandlersAfterCommand
<1> QED BY DeliveryInvariant, <1>1, PTL

\* A subscriber that no other shares its event with, and whose module has no other
\* service for events of that name, is the one executed.
LEMMA SoleIsExecuted ==
  ASSUME NEW e \in Events, NEW i \in Subscribed(e),
         \A j \in Subscribed(e) : j = i,
         \A j \in ServiceIds :
           /\ Services[j].moduleName = Services[i].moduleName
           /\ Services[j].eventName = Services[i].eventName
           => j = i
  PROVE  Route[e] # 0 /\ Executed[e] = i
<1> DEFINE R == {j \in 1..Len(Services) :
                   /\ Services[j].eventModuleName = Publisher[e]
                   /\ Services[j].eventName = Name[e]}
           X == {j \in 1..Len(Services) :
                   /\ Services[j].moduleName = Services[Route[e]].moduleName
                   /\ Services[j].eventName = Name[e]}
<1>1. Len(Services) \in Nat /\ ServiceIds = 1..Len(Services)
  BY DeliveryAssumption DEF ServiceIds
<1>2. R = {i} /\ Services[i].eventName = Name[e]
  BY <1>1 DEF Subscribed
<1>3. Route[e] = IF R # {} THEN Min(R) ELSE 0
  BY DEF Route, SelectInSeq
<1>4. Route[e] = i /\ i # 0
  <2>1. R # {} /\ R \subseteq Nat
    BY <1>1, <1>2
  <2>2. Min(R) \in R
    <3> HIDE DEF R
    <3> QED BY <2>1, MinOf
  <2> QED BY <1>1, <1>2, <1>3, <2>1, <2>2 DEF Subscribed
<1>5. Executed[e] = IF X # {} THEN Min(X) ELSE 0
  BY <1>4 DEF Executed, SelectInSeq
<1>6. X = {i}
  BY <1>1, <1>2, <1>4 DEF Subscribed
<1>7. Executed[e] = i
  <2>1. X # {} /\ X \subseteq Nat
    BY <1>1, <1>6
  <2>2. Min(X) \in X
    <3> HIDE DEF X
    <3> QED BY <2>1, MinOf
  <2> QED BY <1>5, <1>6, <2>1, <2>2
<1> QED BY <1>4, <1>7

\* Every subscriber of a marked event handled it, as long as no two services subscribe to
\* one event and a module names each of its services' events once: what the run
\* MCEventSubscribers shows to fail is all that can (one-server-bus.ts:31-43).
THEOREM SoleSubscribersHandle ==
  ASSUME \A e \in Events : \A i, j \in Subscribed(e) : i = j,
         \A i, j \in ServiceIds :
           /\ Services[i].moduleName = Services[j].moduleName
           /\ Services[i].eventName = Services[j].eventName
           => i = j
  PROVE  Spec => []SubscribersHandleEvent
<1>1. ASSUME IInv, NEW e \in marked \ Malformed, NEW i \in Subscribed(e)
      PROVE  handled[e][i] > 0
  <2>1. e \in Events /\ i \in ServiceIds
    BY <1>1 DEF IInv, TypeOK, Subscribed
  <2>2. Route[e] # 0 /\ Executed[e] = i
    BY <2>1, SoleIsExecuted
  <2>3. WasHandled(e)
    BY <1>1, <2>1 DEF IInv, EventOK
  <2> QED BY <1>1, <2>2, <2>3 DEF WasHandled
<1>2. IInv => SubscribersHandleEvent
  BY <1>1 DEF SubscribersHandleEvent
<1> QED BY DeliveryInvariant, <1>2, PTL

-------------------------------------------------------------------------------
\* An attempt that reaches addEvents registers an event for the first time.
LEMMA RegisterStep ==
  ASSUME IInv, NEW c \in Commands, AddEvents(c)
  PROVE  \E e \in Events : Outbox!Register(e)
<1> DEFINE n == attempt[c] + 1
           new == Emits[c][n]
<1>1. /\ TypeOK /\ attempt[c] \in Nat /\ Len(Emits[c]) \in Nat /\ n \in 1..Len(Emits[c])
      /\ attempt \in [Commands -> Nat] /\ new \in Events
  <2>1. TypeOK /\ attempt \in [Commands -> Nat] /\ attempt[c] < Len(Emits[c])
    BY DEF IInv, AddEvents, TypeOK
  <2>2. /\ attempt[c] \in Nat /\ Len(Emits[c]) \in Nat
        /\ \A i \in 1..Len(Emits[c]) : Emits[c][i] \in Events
    BY <2>1, Types
  <2>3. n \in 1..Len(Emits[c])
    BY <2>1, <2>2
  <2> QED BY <2>1, <2>2, <2>3
<1>2. /\ attempt' = [attempt EXCEPT ![c] = n] /\ row' = [row EXCEPT ![new] = "cached"]
      /\ UNCHANGED <<marked, handled>>
  BY DEF AddEvents
<1>3. attempt'[c] = n /\ \A d \in Commands \ {c} : attempt'[d] = attempt[d]
  BY <1>1, <1>2
<1>4. ~Emitted(new)
  <2> SUFFICES ASSUME NEW d \in Commands, NEW i \in 1..attempt[d], Emits[d][i] = new
               PROVE  FALSE
    BY DEF Emitted
  <2>1. i \in DOMAIN Emits[d] /\ n \in DOMAIN Emits[c] /\ i \in Nat /\ i <= attempt[d]
    BY <1>1, Types
  <2>2. d = c /\ i = n
    BY <2>1, DeliveryAssumption
  <2> QED BY <1>1, <2>1, <2>2
<1> HIDE DEF new
<1>5. \A e : Emitted(e)' <=> Emitted(e) \/ e = new
  <2>1. \A i : i \in 1..n <=> i \in 1..attempt[c] \/ i = n
    BY <1>1
  <2>2. \A d \in Commands : \A i : i \in 1..attempt'[d] <=>
          i \in 1..attempt[d] \/ (d = c /\ i = n)
    BY <1>3, <2>1
  <2> QED BY <2>2 DEF Emitted, new
<1>6. {e \in Events : Emitted(e)}' = {e \in Events : Emitted(e)} \union {new}
  <2>1. {e \in Events : Emitted(e)'} = {e \in Events : Emitted(e)} \union {new}
    BY <1>1, <1>5
  <2> QED BY <2>1
<1>7. Outbox!Register(new)
  BY <1>2, <1>4, <1>6 DEF Outbox!Register
<1> QED BY <1>1, <1>7

\* Every step is a step of the outbox, or none.
LEMMA OutboxStep ==
  ASSUME IInv, Next
  PROVE  Outbox!Next \/ UNCHANGED Outbox!vars
<1>1. TypeOK /\ row \in [Events -> {"none", "cached", "unpublished"}]
  BY DEF IInv, TypeOK
<1>2. attempt' = attempt => {e \in Events : Emitted(e)}' = {e \in Events : Emitted(e)}
  BY DEF Emitted
<1>3. ASSUME NEW c \in Commands, AddEvents(c)
      PROVE  Outbox!Next
  BY <1>3, RegisterStep DEF Outbox!Next
<1>4. ASSUME NEW c \in Commands, Commit(c) \/ Rollback(c)
      PROVE  Outbox!Next
  <2> DEFINE e == Current(c)
  <2>1. phase[c] = "open" /\ UNCHANGED <<attempt, marked, handled>>
    BY <1>4 DEF Commit, Rollback
  <2>2. e \in Events
    BY <2>1, CurrentIsEvent
  <2>3. row[e] = "cached"
    BY <2>1, <2>2 DEF IInv, CachedIsOpen
  <2>4. CASE Commit(c)
    <3>1. Outbox!Commit(e)
      BY <1>2, <2>1, <2>3, <2>4 DEF Commit, Outbox!Commit
    <3> QED BY <2>2, <3>1 DEF Outbox!Next
  <2>5. CASE Rollback(c)
    <3>1. row' = [f \in Events |-> IF f \in {e} THEN "none" ELSE row[f]]
      BY <1>1, <2>2, <2>5 DEF Rollback
    <3>2. Outbox!RollBack({e})
      BY <1>2, <2>1, <2>3, <3>1 DEF Outbox!RollBack
    <3> QED BY <2>2, <3>2 DEF Outbox!Next
  <2> QED BY <1>4, <2>4, <2>5
<1>5. ASSUME NEW e \in Events, HandlerSucceeds(e)
      PROVE  Outbox!Next
  <2>1. /\ inBus[e] > 0 /\ e \notin Malformed /\ UNCHANGED <<attempt, row, marked>>
        /\ handled' = [handled EXCEPT ![e][Executed[e]] = @ + 1]
    BY <1>5 DEF HandlerSucceeds
  <2>2. Unhandled(e) /\ Route[e] # 0 /\ Emitted(e)
    BY <1>1, <2>1, Types DEF IInv, EventOK
  <2>3. IoAwaits \/ row[e] # "cached"
    BY <2>1, <2>2 DEF IInv, NotEarly
  <2>4. Executed[e] \in ServiceIds /\ Executed[e] # 0
    BY <2>2, ExecutedIsService, DeliveryAssumption DEF ServiceIds
  <2>5. handled \in [Events -> [ServiceIds -> Nat]] /\ handled[e][Executed[e]] = 0
    BY <1>1, <2>2, <2>4 DEF TypeOK, Unhandled
  <2>6. handled' = [handled EXCEPT ![e][Executed[e]] = 1]
    BY <2>1, <2>4, <2>5
  <2>7. Outbox!TakeEffect(e)
    BY <1>2, <2>1, <2>2, <2>3, <2>4, <2>6 DEF Outbox!TakeEffect, Unhandled
  <2> QED BY <2>7 DEF Outbox!Next
<1>6. ASSUME NEW e \in Events, MarkAsPublished(e)
      PROVE  Outbox!Next
  <2>1. /\ toMark[e] > 0 /\ UNCHANGED <<attempt, row, handled>>
        /\ marked' = marked \union {e}
    BY <1>6 DEF MarkAsPublished
  <2>2. Emitted(e) /\ WasHandled(e)
    BY <1>1, <2>1, Types DEF IInv, EventOK
  <2>3. Route[e] # 0 /\ e \notin Malformed => handled[e][Executed[e]] = 1
    <3>1. Route[e] # 0 /\ e \notin Malformed => handled[e][Executed[e]] > 0
      BY <2>2 DEF WasHandled
    <3> QED BY <3>1, ExecutedIsService DEF IInv, EventOK
  <2>4. Outbox!Mark(e)
    BY <1>2, <2>1, <2>2, <2>3 DEF Outbox!Mark
  <2> QED BY <2>4 DEF Outbox!Next
<1>7. CASE Crash
  <2> DEFINE lost == {e \in Events : row[e] = "cached"}
  <2>1. UNCHANGED <<attempt, marked, handled>>
    BY <1>7 DEF Crash
  <2>2. PICK kept \in {Committed, {}} :
          row' = [e \in Events |-> IF e \in kept THEN "unpublished" ELSE "none"]
    BY <1>7 DEF Crash, LostInCrash
  <2>3. CASE kept = {}
    <3>1. Outbox!Forget
      BY <1>2, <2>1, <2>2, <2>3 DEF Outbox!Forget
    <3> QED BY <3>1 DEF Outbox!Next
  <2>4. CASE kept = Committed
    <3>1. row' = [e \in Events |-> IF e \in lost THEN "none" ELSE row[e]]
      BY <1>1, <2>2, <2>4 DEF Committed
    <3>2. lost \in SUBSET Events /\ \A e \in lost : row[e] = "cached"
      OBVIOUS
    <3> HIDE DEF lost
    <3>3. Outbox!RollBack(lost)
      BY <1>2, <2>1, <3>1, <3>2 DEF Outbox!RollBack
    <3> QED BY <3>2, <3>3 DEF Outbox!Next
  <2> QED BY <2>2, <2>3, <2>4
<1>8. CASE FireTimer \/ (\E e \in Events : HandlerThrows(e) \/ InputRefused(e)) \/ Quiet
  <2>1. UNCHANGED <<attempt, row, marked, handled>>
    BY <1>8 DEF FireTimer, HandlerThrows, InputRefused, Quiet, vars
  <2> QED BY <1>2, <2>1 DEF Outbox!vars
<1> QED BY <1>3, <1>4, <1>5, <1>6, <1>7, <1>8 DEF Next, CommandStep, BusStep

\* Events take effect at most once, where they should and not too early, and are marked
\* only after that (timeout-callback-impl.ts:15-30).
THEOREM DeliveryRefinement ==
  Spec => ImplementsEventOutbox
<1>1. Init => Outbox!Init
  BY DEF Init, Outbox!Init, Emitted
<1>2. ASSUME IInv, [Next]_vars
      PROVE  [Outbox!Next]_(Outbox!vars)
  <2>1. CASE Next
    BY <1>2, <2>1, OutboxStep
  <2>2. CASE UNCHANGED vars
    <3>1. UNCHANGED <<attempt, row, marked, handled>>
      BY <2>2 DEF vars
    <3>2. {e \in Events : Emitted(e)}' = {e \in Events : Emitted(e)}
      BY <3>1 DEF Emitted
    <3> QED BY <3>1, <3>2 DEF Outbox!vars
  <2> QED BY <1>2, <2>1, <2>2
<1> QED
  BY <1>1, <1>2, DeliveryInvariant, PTL DEF Spec, ImplementsEventOutbox, Outbox!Spec
================================================================================
