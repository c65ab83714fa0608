---------------------------- MODULE BotPollingProofs ----------------------------
(***************************************************************************)
(* Proofs about BotPolling, for any number of users, updates, kills and     *)
(* updates in an answer: no update is lost, none is executed twice by one   *)
(* process, and none after a later one of its user.                        *)
(***************************************************************************)
EXTENDS BotPolling, SequenceTheorems, WellFoundedInduction, TLAPS

\* Updates wait for execution only while they are processed.
Idle == loop # "processing" => todo = {}

\* What the next request confirms has been answered.
OffsetAnswered == \A i \in 1..(newUpdateId - 1) : Answered(i)

\* What is in progress has been answered, or will be by an update that waits.
InProgress ==
  loop = "processing" =>
    \A i \in 1..last :
      Answered(i) \/ \E j \in todo : j >= i /\ UserOf[j] = UserOf[i]

\* The last update this process has seen.
Seen == IF loop = "processing" THEN last ELSE IF newUpdateId = 0 THEN 0 ELSE newUpdateId - 1

\* Updates it has not seen, or not executed yet, were executed by earlier processes only.
FirstTime ==
  loop # "dead" => \A i \in Ids : i > Seen \/ i \in todo => handled[i] <= crashes

\* What was ever executed is within the answer telegram gives next.
Horizon ==
  /\ \A i \in Ids : handled[i] > 0 => i <= sent /\ i <= forgotten + Limit
  /\ \A i \in todo : i <= forgotten + Limit

\* What waits for execution is the last update of its user that was ever brought.
LatestOfUser ==
  \A i \in todo, j \in Ids : UserOf[i] = UserOf[j] /\ i < j => handled[j] = 0 /\ j \notin todo

IInv ==
  /\ TypeOK
  /\ Idle
  /\ ForgottenWasAnswered
  /\ OffsetAnswered
  /\ InProgress
  /\ OncePerProcess
  /\ FirstTime
  /\ Horizon
  /\ LatestOfUser

\* Every nonempty set of naturals has a least element.
LEMMA LeastOf ==
  ASSUME NEW T, T \subseteq Nat, T # {}
  PROVE  \E x \in T : \A y \in T : x <= y
<1>1. PICK x \in T : \A y \in T : ~(<<y, x>> \in OpToRel(<, Nat))
  BY NatLessThanWellFounded, WFMin
<1>2. \A y \in T : ~(y < x)
  BY <1>1 DEF OpToRel
<1> QED BY <1>2

\* Every nonempty set of naturals that has a bound has a greatest element.
LEMMA GreatestOf ==
  ASSUME NEW T, NEW n \in Nat, T \subseteq 0..n, T # {}
  PROVE  \E x \in T : \A y \in T : y <= x
<1> DEFINE U == {n - y : y \in T}
<1>1. U \subseteq Nat /\ U # {}
  <2>1. \A y \in T : n - y \in Nat
    OBVIOUS
  <2> QED BY <2>1
<1>2. PICK u \in U : \A w \in U : u <= w
  <2> HIDE DEF U
  <2> QED BY <1>1, LeastOf
<1>3. PICK x \in T : u = n - x
  OBVIOUS
<1>4. \A y \in T : n - x <= n - y
  BY <1>2, <1>3
<1> QED BY <1>4

\* Min is one of the elements, and the least.
LEMMA MinOf ==
  ASSUME NEW T, T \subseteq Nat, T # {}
  PROVE  Min(T) \in T /\ \A y \in T : Min(T) <= y
BY LeastOf DEF Min

\* Max is one of the elements, and the greatest.
LEMMA MaxOf ==
  ASSUME NEW T, NEW n \in Nat, T \subseteq 0..n, T # {}
  PROVE  Max(T) \in T /\ \A y \in T : y <= Max(T)
<1>1. \E x \in T : \A y \in T : x >= y
  BY GreatestOf
<1> QED BY <1>1 DEF Max

-------------------------------------------------------------------------------
\* Once answered, an update stays answered.
LEMMA AnsweredStays ==
  ASSUME TypeOK, \A i \in Ids : handled'[i] \in Nat /\ handled'[i] >= handled[i],
         NEW i \in Nat \ {0}, Answered(i)
  PROVE  Answered(i)'
<1>1. PICK j \in i..MaxUpdates : UserOf[j] = UserOf[i] /\ handled[j] > 0
  BY DEF Answered
<1>2. j \in Ids
  BY PollingAssumption, <1>1 DEF Ids
<1>3. handled'[j] > 0
  BY <1>1, <1>2 DEF TypeOK
<1> QED BY <1>1, <1>3 DEF Answered

\* What telegram forgets was answered, and its answer goes on from there, and from what
\* the process has seen.
LEMMA AnswerFacts ==
  ASSUME IInv, loop # "processing"
  PROVE  /\ Confirmed \in forgotten..sent /\ Confirmed >= Seen
         /\ \A i \in 1..Confirmed : Answered(i)
         /\ \E top \in 0..sent :
              /\ top <= Confirmed + Limit /\ (top = sent \/ top = Confirmed + Limit)
              /\ Answer = Confirmed + 1..top
              /\ Answer # {} => Max(Answer) = top /\ top > Confirmed
<1>1. /\ sent \in Nat /\ forgotten \in 0..sent /\ newUpdateId \in 0..sent + 1
      /\ Limit \in Nat \ {0} /\ MaxUpdates \in Nat /\ sent <= MaxUpdates
  BY PollingAssumption DEF IInv, TypeOK
<1>2. /\ Confirmed \in forgotten..sent /\ Confirmed >= Seen
      /\ Confirmed = forgotten \/ Confirmed = newUpdateId - 1
  <2>1. CASE newUpdateId = 0
    BY <1>1, <2>1 DEF Confirmed, Seen
  <2>2. CASE newUpdateId # 0
    <3> DEFINE T == {forgotten, newUpdateId - 1}
    <3>1. T \subseteq 0..sent /\ T # {}
      BY <1>1, <2>2
    <3> HIDE DEF T
    <3>2. Max(T) \in T /\ \A y \in T : y <= Max(T)
      BY <1>1, <3>1, MaxOf
    <3> USE DEF T
    <3>3. Confirmed = Max(T)
      BY <2>2 DEF Confirmed
    <3> QED BY <1>1, <2>2, <3>2, <3>3 DEF Seen
  <2> QED BY <2>1, <2>2
<1>3. \A i \in 1..Confirmed : Answered(i)
  BY <1>2 DEF IInv, ForgottenWasAnswered, OffsetAnswered
<1> DEFINE top == Min({sent, Confirmed + Limit})
<1>4. /\ top \in {sent, Confirmed + Limit} /\ top <= sent /\ top <= Confirmed + Limit
      /\ top \in Nat
  <2> DEFINE T == {sent, Confirmed + Limit}
  <2>1. T \subseteq Nat /\ T # {}
    BY <1>1, <1>2
  <2> HIDE DEF T
  <2>2. Min(T) \in T /\ \A y \in T : Min(T) <= y
    BY <2>1, MinOf
  <2> USE DEF T
  <2> QED BY <1>1, <1>2, <2>2
<1>5. Answer = Confirmed + 1..top
  BY DEF Answer
<1> HIDE DEF top
<1>6. ASSUME Answer # {}
      PROVE  Max(Answer) = top /\ top > Confirmed
  <2>1. top > Confirmed /\ Answer \subseteq 0..top /\ top \in Answer
    BY <1>1, <1>2, <1>4, <1>5, <1>6
  <2>2. Max(Answer) \in Answer /\ \A y \in Answer : y <= Max(Answer)
    BY <1>4, <1>6, <2>1, MaxOf
  <2>3. Max(Answer) <= top
    BY <1>2, <1>4, <1>5, <2>2
  <2> QED BY <1>2, <1>4, <1>5, <2>1, <2>2, <2>3
<1> QED BY <1>1, <1>2, <1>3, <1>4, <1>5, <1>6

\* The last update of every user is among those that are executed.
LEMMA LastFacts ==
  ASSUME NEW n \in Nat, NEW updates, updates \subseteq 0..n
  PROVE  \A i \in updates : \E j \in LastOfUsers(updates) : j >= i /\ UserOf[j] = UserOf[i]
<1> SUFFICES ASSUME NEW i \in updates
             PROVE  \E j \in LastOfUsers(updates) : j >= i /\ UserOf[j] = UserOf[i]
  OBVIOUS
<1> DEFINE T == {j \in updates : UserOf[j] = UserOf[i]}
<1>1. T \subseteq 0..n /\ T # {}
  OBVIOUS
<1> HIDE DEF T
<1>2. PICK j \in T : \A k \in T : k <= j
  BY <1>1, GreatestOf
<1> USE DEF T
<1>3. j \in LastOfUsers(updates)
  BY <1>2 DEF LastOfUsers
<1> QED BY <1>2, <1>3

-------------------------------------------------------------------------------
\* Before the first step nothing was sent and nothing executed.
LEMMA Initially ==
  Init => IInv
<1> SUFFICES ASSUME Init PROVE IInv
  OBVIOUS
<1>1. TypeOK
  <2>1. MaxUpdates \in Nat /\ MaxCrashes \in Nat
    BY PollingAssumption
  <2>2. sent \in 0..MaxUpdates /\ forgotten \in 0..sent /\ last \in 0..sent
    BY <2>1 DEF Init
  <2>3. newUpdateId \in 0..sent + 1 /\ crashes \in 0..MaxCrashes
    BY <2>1 DEF Init
  <2>4. loop \in Over /\ failed \in BOOLEAN /\ todo = {} /\ handled \in [Ids -> Nat]
    BY DEF Init, Over
  <2> QED BY <2>2, <2>3, <2>4 DEF TypeOK
<1>2. Idle /\ ForgottenWasAnswered /\ OffsetAnswered /\ InProgress
  BY DEF Init, Idle, ForgottenWasAnswered, OffsetAnswered, InProgress
<1>3. OncePerProcess /\ FirstTime /\ Horizon /\ LatestOfUser
  BY DEF Init, OncePerProcess, FirstTime, Horizon, LatestOfUser
<1> QED BY <1>1, <1>2, <1>3 DEF IInv

\* What the invariant says of the types, in the words the provers need.
LEMMA Numbers ==
  ASSUME TypeOK
  PROVE  /\ MaxUpdates \in Nat /\ MaxCrashes \in Nat /\ Limit \in Nat \ {0}
         /\ sent \in Nat /\ sent <= MaxUpdates
         /\ forgotten \in Nat /\ forgotten <= sent
         /\ newUpdateId \in Nat /\ newUpdateId <= sent + 1
         /\ last \in Nat /\ last <= sent
         /\ crashes \in Nat /\ crashes <= MaxCrashes
         /\ \A i \in todo : i \in Ids /\ i > forgotten /\ i <= last
         /\ \A i \in Ids : handled[i] \in Nat
<1>1. MaxUpdates \in Nat /\ MaxCrashes \in Nat /\ Limit \in Nat \ {0}
  BY PollingAssumption
<1>2. sent \in Nat /\ sent <= MaxUpdates
  BY <1>1 DEF TypeOK
<1>3. forgotten \in Nat /\ forgotten <= sent /\ newUpdateId \in Nat /\ newUpdateId <= sent + 1
  BY <1>2 DEF TypeOK
<1>4. last \in Nat /\ last <= sent /\ crashes \in Nat /\ crashes <= MaxCrashes
  BY <1>1, <1>2 DEF TypeOK
<1>5. \A i \in todo : i \in Ids /\ i > forgotten /\ i <= last
  BY <1>1, <1>2, <1>3, <1>4 DEF TypeOK, Ids
<1> QED BY <1>1, <1>2, <1>3, <1>4, <1>5 DEF TypeOK

\* A user sends an update.
LEMMA SendStep ==
  ASSUME IInv, Send
  PROVE  IInv'
<1> USE DEF Send
<1>1. TypeOK
  BY DEF IInv
<1>2. \A i : Answered(i)' <=> Answered(i)
  BY DEF Answered
<1>3. sent' \in 0..MaxUpdates /\ forgotten' \in 0..sent' /\ last' \in 0..sent'
  BY <1>1, Numbers
<1>4. newUpdateId' \in 0..sent' + 1
  BY <1>1, Numbers
<1>5. TypeOK'
  BY <1>1, <1>3, <1>4 DEF TypeOK
<1>6. Idle' /\ ForgottenWasAnswered' /\ OffsetAnswered' /\ InProgress'
  BY <1>2 DEF IInv, Idle, ForgottenWasAnswered, OffsetAnswered, InProgress
<1>7. OncePerProcess' /\ FirstTime' /\ LatestOfUser'
  BY DEF IInv, OncePerProcess, FirstTime, Seen, LatestOfUser
<1>8. Horizon'
  BY <1>1, Numbers DEF IInv, Horizon, Ids
<1> QED BY <1>5, <1>6, <1>7, <1>8 DEF IInv

\* Steps of an idle chain that execute nothing and show the process nothing new.
LEMMA QuietStep ==
  ASSUME IInv, loop \notin {"processing", "dead"},
         loop' \in {"unsubscribing", "timer", "request"} \union Over,
         forgotten' \in {forgotten, Confirmed}, failed' \in BOOLEAN,
         UNCHANGED <<sent, newUpdateId, last, todo, handled, crashes>>
  PROVE  IInv'
<1>1. TypeOK /\ todo = {} /\ loop' # "processing"
  BY DEF IInv, Idle, Over
<1>2. /\ forgotten' \in forgotten..sent
      /\ \A i \in 1..forgotten' : Answered(i)
  <2>1. CASE forgotten' = forgotten
    BY <1>1, <2>1, Numbers DEF IInv, ForgottenWasAnswered
  <2>2. CASE forgotten' = Confirmed
    BY <2>2, AnswerFacts
  <2> QED BY <2>1, <2>2
<1>3. \A i : Answered(i)' <=> Answered(i)
  BY DEF Answered
<1>4. TypeOK'
  <2>1. forgotten' \in 0..sent'
    BY <1>1, <1>2, Numbers
  <2>2. todo' \subseteq forgotten' + 1..last'
    BY <1>1
  <2> QED BY <1>1, <2>1, <2>2 DEF TypeOK
<1>5. Idle' /\ ForgottenWasAnswered' /\ OffsetAnswered' /\ InProgress'
  BY <1>1, <1>2, <1>3
     DEF IInv, Idle, ForgottenWasAnswered, OffsetAnswered, InProgress
<1>6. OncePerProcess' /\ FirstTime' /\ LatestOfUser'
  BY <1>1 DEF IInv, OncePerProcess, FirstTime, Seen, LatestOfUser
<1>7. Horizon'
  <2>1. forgotten' \in Nat /\ forgotten' >= forgotten
    BY <1>1, <1>2, Numbers
  <2> QED BY <1>1, <2>1, Numbers DEF IInv, Horizon, Ids
<1> QED BY <1>4, <1>5, <1>6, <1>7 DEF IInv

\* A response with updates: the last one of every user is taken.
LEMMA PollStep ==
  ASSUME IInv, PollBringsUpdates
  PROVE  IInv'
<1> USE DEF PollBringsUpdates, Goto
<1>1. TypeOK /\ loop = "request"
  BY DEF IInv
<1>2. PICK top \in 0..sent :
        /\ top <= Confirmed + Limit /\ (top = sent \/ top = Confirmed + Limit)
        /\ Answer = Confirmed + 1..top
        /\ Max(Answer) = top /\ top > Confirmed
  BY <1>1, AnswerFacts
<1>3. /\ Confirmed \in Nat /\ forgotten <= Confirmed /\ Confirmed <= sent
      /\ Confirmed >= Seen /\ \A i \in 1..Confirmed : Answered(i)
  BY <1>1, AnswerFacts, Numbers
<1>4. /\ forgotten' = Confirmed /\ last' = top /\ sent' = sent
      /\ top \in Nat /\ top <= sent /\ todo' = LastOfUsers(Answer)
  BY <1>1, <1>2, Numbers
<1>5. \A i \in todo' : i \in Confirmed + 1..top /\ i \in Ids
  BY <1>1, <1>2, <1>3, <1>4, Numbers DEF LastOfUsers, Ids
<1>6. \A i : Answered(i)' <=> Answered(i)
  BY DEF Answered
<1>7. TypeOK'
  <2>1. forgotten' \in 0..sent' /\ last' \in 0..sent'
    BY <1>1, <1>3, <1>4, Numbers
  <2>2. todo' \subseteq forgotten' + 1..last'
    BY <1>4, <1>5
  <2> QED BY <1>1, <2>1, <2>2 DEF TypeOK
<1>8. Idle' /\ ForgottenWasAnswered' /\ OffsetAnswered'
  BY <1>3, <1>4, <1>6 DEF IInv, Idle, ForgottenWasAnswered, OffsetAnswered
<1>9. InProgress'
  <2> SUFFICES ASSUME NEW i \in 1..top
               PROVE  Answered(i) \/ \E j \in todo' : j >= i /\ UserOf[j] = UserOf[i]
    BY <1>4, <1>6 DEF InProgress
  <2>1. CASE i <= Confirmed
    BY <1>3, <1>4, <2>1
  <2>2. CASE i > Confirmed
    <3>1. i \in Answer /\ Answer \subseteq 0..top
      BY <1>2, <1>3, <1>4, <2>2
    <3> QED BY <1>4, <3>1, LastFacts
  <2> QED BY <1>3, <1>4, <2>1, <2>2
<1>10. OncePerProcess'
  BY DEF IInv, OncePerProcess
<1>11. FirstTime'
  <2>1. Seen' = top
    BY <1>4 DEF Seen
  <2>2. Seen \in Nat
    BY <1>1, Numbers DEF Seen
  <2> SUFFICES ASSUME NEW i \in Ids, i > top \/ i \in todo'
               PROVE  handled[i] <= crashes
    BY <2>1 DEF FirstTime
  <2>3. i > Seen
    BY <1>1, <1>3, <1>4, <1>5, <1>2, <2>2, Numbers DEF Ids
  <2> QED BY <1>1, <2>3 DEF IInv, FirstTime
<1>12. Horizon'
  <2>1. \A i \in Ids : handled'[i] > 0 => i <= sent' /\ i <= forgotten' + Limit
    BY <1>1, <1>3, <1>4, Numbers DEF IInv, Horizon, Ids
  <2>2. \A i \in todo' : i <= forgotten' + Limit
    BY <1>1, <1>2, <1>3, <1>4, <1>5, Numbers
  <2> QED BY <2>1, <2>2 DEF Horizon
<1>13. LatestOfUser'
  <2> SUFFICES ASSUME NEW i \in todo', NEW j \in Ids, UserOf[i] = UserOf[j], i < j
               PROVE  handled[j] = 0 /\ j \notin todo'
    BY DEF LatestOfUser
  <2>1. j \in Nat /\ i \in Nat /\ i >= Confirmed + 1 /\ i \in Answer
    BY <1>2, <1>3, <1>4, <1>5, Numbers DEF Ids, LastOfUsers
  <2>2. j \notin Answer
    BY <1>4, <2>1 DEF LastOfUsers
  <2>3. j > top
    BY <1>2, <1>3, <1>4, <2>1, <2>2
  <2>4. ~(handled[j] > 0)
    <3>1. CASE top = sent
      BY <1>4, <2>1, <2>3, <3>1 DEF IInv, Horizon
    <3>2. CASE top = Confirmed + Limit
      BY <1>1, <1>3, <2>1, <2>3, <3>2, Numbers DEF IInv, Horizon
    <3> QED BY <1>2, <3>1, <3>2
  <2>5. handled[j] = 0
    BY <1>1, <2>4, Numbers
  <2>6. j \notin todo'
    BY <1>4, <2>2 DEF LastOfUsers
  <2> QED BY <2>5, <2>6
<1> QED BY <1>7, <1>8, <1>9, <1>10, <1>11, <1>12, <1>13 DEF IInv

\* An error before the update at hand is executed ends the chain.
LEMMA BreakStep ==
  ASSUME IInv, loop = "processing", loop' = "dead", todo' = {},
         UNCHANGED <<sent, forgotten, newUpdateId, last, handled, failed, crashes>>
  PROVE  IInv'
<1>1. TypeOK'
  BY DEF IInv, TypeOK, Over
<1>2. Idle' /\ InProgress' /\ FirstTime' /\ LatestOfUser'
  BY DEF Idle, InProgress, FirstTime, LatestOfUser
<1>3. ForgottenWasAnswered' /\ OffsetAnswered' /\ OncePerProcess' /\ Horizon'
  BY DEF IInv, ForgottenWasAnswered, OffsetAnswered, Answered, OncePerProcess, Horizon
<1> QED BY <1>1, <1>2, <1>3 DEF IInv

\* An update is executed, after which the chain goes on or is broken.
LEMMA ExecuteStep ==
  ASSUME IInv, NEW i \in todo, loop = "processing", loop' \in {"processing", "dead"},
         todo' \subseteq todo \ {i}, loop' = "processing" => todo' = todo \ {i},
         loop' = "dead" => todo' = {},
         handled' = [handled EXCEPT ![i] = @ + 1],
         UNCHANGED <<sent, forgotten, newUpdateId, last, failed, crashes>>
  PROVE  IInv'
<1>1. TypeOK /\ i \in Ids /\ handled \in [Ids -> Nat] /\ handled[i] \in Nat
  BY Numbers DEF IInv, TypeOK
<1>2. /\ handled'[i] = handled[i] + 1
      /\ \A j \in Ids : j # i => handled'[j] = handled[j]
  BY <1>1
<1>3. \A j \in Ids : handled'[j] \in Nat /\ handled'[j] >= handled[j]
  <2> SUFFICES ASSUME NEW j \in Ids
               PROVE  handled'[j] \in Nat /\ handled'[j] >= handled[j]
    OBVIOUS
  <2>1. handled[j] \in Nat
    BY <1>1
  <2> QED BY <1>2, <2>1
<1>4. \A j \in Nat \ {0} : Answered(j) => Answered(j)'
  BY <1>1, <1>3, AnsweredStays
<1>5. TypeOK'
  <2>1. handled' \in [Ids -> Nat]
    BY <1>1
  <2> QED BY <1>1, <2>1 DEF TypeOK, Over
<1>6. Idle'
  BY DEF Idle
<1>7. ForgottenWasAnswered'
  BY <1>1, <1>4, Numbers DEF IInv, ForgottenWasAnswered
<1>8. OffsetAnswered'
  BY <1>1, <1>4, Numbers DEF IInv, OffsetAnswered
<1>9. InProgress'
  <2> SUFFICES ASSUME loop' = "processing", NEW k \in 1..last
               PROVE  Answered(k)' \/ \E j \in todo' : j >= k /\ UserOf[j] = UserOf[k]
    BY DEF InProgress
  <2>1. Answered(k) \/ \E j \in todo : j >= k /\ UserOf[j] = UserOf[k]
    BY DEF IInv, InProgress
  <2>2. CASE Answered(k)
    BY <1>1, <1>4, <2>2, Numbers
  <2>3. ASSUME NEW j \in todo, j >= k, UserOf[j] = UserOf[k]
        PROVE  Answered(k)' \/ \E jj \in todo' : jj >= k /\ UserOf[jj] = UserOf[k]
    <3>1. CASE j # i
      BY <2>3, <3>1
    <3>2. CASE j = i
      <4>1. i \in k..MaxUpdates /\ handled'[i] > 0
        BY <1>1, <1>2, <2>3, <3>2, Numbers DEF Ids
      <4> QED BY <2>3, <3>2, <4>1 DEF Answered
    <3> QED BY <3>1, <3>2
  <2> QED BY <2>1, <2>2, <2>3
<1>10. handled[i] <= crashes
  BY <1>1 DEF IInv, FirstTime
<1>11. OncePerProcess'
  <2> SUFFICES ASSUME NEW j \in Ids PROVE handled'[j] <= 1 + crashes
    BY DEF OncePerProcess
  <2>1. CASE j = i
    BY <1>1, <1>2, <1>10, <2>1, Numbers
  <2>2. CASE j # i
    BY <1>2, <2>2 DEF IInv, OncePerProcess
  <2> QED BY <2>1, <2>2
<1>12. FirstTime'
  <2> SUFFICES ASSUME loop' = "processing", NEW j \in Ids, j > last \/ j \in todo'
               PROVE  handled'[j] <= crashes
    BY DEF FirstTime, Seen
  <2>1. j # i
    <3>1. i \in Nat /\ last \in Nat /\ i <= last /\ i \notin todo'
      BY <1>1, Numbers DEF Ids
    <3> QED BY <3>1
  <2>2. j > Seen \/ j \in todo
    BY DEF Seen
  <2> QED BY <1>2, <2>1, <2>2 DEF IInv, FirstTime
<1>13. Horizon'
  <2>1. \A j \in Ids : handled'[j] > 0 => j <= sent /\ j <= forgotten + Limit
    <3> SUFFICES ASSUME NEW j \in Ids, handled'[j] > 0
                 PROVE  j <= sent /\ j <= forgotten + Limit
      OBVIOUS
    <3>1. CASE j = i
      BY <1>1, <3>1, Numbers DEF IInv, Horizon, Ids
    <3>2. CASE j # i
      BY <1>2, <3>2 DEF IInv, Horizon
    <3> QED BY <3>1, <3>2
  <2>2. \A j \in todo' : j <= forgotten + Limit
    BY DEF IInv, Horizon
  <2> QED BY <2>1, <2>2 DEF Horizon
<1>14. LatestOfUser'
  <2> SUFFICES ASSUME NEW k \in todo', NEW j \in Ids, UserOf[k] = UserOf[j], k < j
               PROVE  handled'[j] = 0 /\ j \notin todo'
    BY DEF LatestOfUser
  <2>1. k \in todo /\ handled[j] = 0 /\ j \notin todo
    BY DEF IInv, LatestOfUser
  <2> QED BY <1>2, <2>1
<1> QED BY <1>5, <1>6, <1>7, <1>8, <1>9, <1>11, <1>12, <1>13, <1>14 DEF IInv

\* The next timer is set, with the offset after the last update.
LEMMA SubscribeStep ==
  ASSUME IInv, SubscribeGetUpdates
  PROVE  IInv'
<1> USE DEF SubscribeGetUpdates, Goto
<1>1. TypeOK
  BY DEF IInv
<1>2. \A i : Answered(i)' <=> Answered(i)
  BY DEF Answered
<1>3. \A i \in 1..last : Answered(i)
  BY DEF IInv, InProgress
<1>4. newUpdateId' = last + 1 /\ newUpdateId' - 1 = last /\ newUpdateId' \in 0..sent + 1
  BY <1>1, Numbers
<1>5. TypeOK'
  BY <1>1, <1>4 DEF TypeOK
<1>6. Idle' /\ ForgottenWasAnswered' /\ OffsetAnswered' /\ InProgress'
  BY <1>2, <1>3, <1>4 DEF IInv, Idle, ForgottenWasAnswered, OffsetAnswered, InProgress
<1>7. Seen' = last /\ Seen = last
  BY <1>1, <1>4, Numbers DEF Seen
<1>8. OncePerProcess' /\ FirstTime' /\ Horizon' /\ LatestOfUser'
  BY <1>7 DEF IInv, OncePerProcess, FirstTime, Horizon, LatestOfUser
<1> QED BY <1>5, <1>6, <1>8 DEF IInv

\* A kill loses what the process knew, and allows every update to be executed again.
LEMMA CrashStep ==
  ASSUME IInv, Crash
  PROVE  IInv'
<1> USE DEF Crash
<1>1. TypeOK
  BY DEF IInv
<1>2. \A i : Answered(i)' <=> Answered(i)
  BY DEF Answered
<1>3. crashes' \in 0..MaxCrashes /\ newUpdateId' \in 0..sent' + 1 /\ last' \in 0..sent'
  BY <1>1, Numbers
<1>4. TypeOK'
  BY <1>1, <1>3 DEF TypeOK, Over
<1>5. Idle' /\ ForgottenWasAnswered' /\ OffsetAnswered' /\ InProgress'
  BY <1>2 DEF IInv, Idle, ForgottenWasAnswered, OffsetAnswered, InProgress
<1>6. OncePerProcess' /\ FirstTime'
  BY <1>1, Numbers DEF IInv, OncePerProcess, FirstTime
<1>7. Horizon' /\ LatestOfUser'
  BY DEF IInv, Horizon, LatestOfUser
<1> QED BY <1>4, <1>5, <1>6, <1>7 DEF IInv

-------------------------------------------------------------------------------
\* The invariant is inductive (bot.module.ts:92-240).
THEOREM PollingInvariant ==
  Spec => []IInv
<1>1. ASSUME IInv, [Next]_vars
      PROVE  IInv'
  <2>1. CASE Send
    BY <1>1, <2>1, SendStep
  <2>2. CASE Start \/ Unsubscribe \/ TimerFires \/ Stop
    <3>1. /\ loop \notin {"processing", "dead"}
          /\ loop' \in {"unsubscribing", "timer", "request"} \union Over
          /\ forgotten' = forgotten /\ failed' = failed
          /\ UNCHANGED <<sent, newUpdateId, last, todo, handled, crashes>>
      BY <2>2 DEF Start, Unsubscribe, TimerFires, Stop, Goto, Over
    <3>2. failed' \in BOOLEAN
      BY <1>1, <3>1 DEF IInv, TypeOK
    <3> QED BY <1>1, <3>1, <3>2, QuietStep
  <2>3. CASE PollBringsNothing \/ PollFails
    BY <1>1, <2>3, QuietStep DEF PollBringsNothing, PollFails, Goto
  <2>4. CASE PollBringsUpdates
    BY <1>1, <2>4, PollStep
  <2>5. ASSUME NEW i \in Ids, Execute(i) \/ UpdateThrows(i)
        PROVE  IInv'
    <3>1. CASE Execute(i)
      BY <1>1, <3>1, ExecuteStep DEF Execute
    <3>2. CASE UpdateThrows(i) /\ handled' = handled
      BY <1>1, <3>2, BreakStep DEF UpdateThrows, Goto
    <3>3. CASE UpdateThrows(i) /\ handled' = [handled EXCEPT ![i] = @ + 1]
      BY <1>1, <3>3, ExecuteStep DEF UpdateThrows, Goto
    <3> QED BY <2>5, <3>1, <3>2, <3>3 DEF UpdateThrows
  <2>6. CASE SubscribeGetUpdates
    BY <1>1, <2>6, SubscribeStep
  <2>7. CASE Crash
    BY <1>1, <2>7, CrashStep
  <2>8. CASE UNCHANGED vars
    BY <1>1, <2>8
       DEF vars, IInv, TypeOK, Idle, ForgottenWasAnswered, OffsetAnswered, InProgress,
           Answered, OncePerProcess, FirstTime, Seen, Horizon, LatestOfUser
  <2> QED BY <1>1, <2>1, <2>2, <2>3, <2>4, <2>5, <2>6, <2>7, <2>8 DEF Next, ChainStep
<1> QED BY Initially, <1>1, PTL DEF Spec

\* The variables keep their types (bot.module.ts:92-240).
THEOREM PollingTypes ==
  Spec => []TypeOK
<1>1. IInv => TypeOK
  BY DEF IInv
<1> QED BY PollingInvariant, <1>1, PTL

\* Telegram forgets no update before it was answered: no kill, failed request or
\* failed reply on the way loses one (bot.module.ts:181-183).
THEOREM NothingForgotten ==
  Spec => []ForgottenWasAnswered
<1>1. IInv => ForgottenWasAnswered
  BY DEF IInv
<1> QED BY PollingInvariant, <1>1, PTL

\* An update is executed again only after a restart (bot.module.ts:160, 197).
THEOREM ExecutedOncePerProcess ==
  Spec => []OncePerProcess
<1>1. IInv => OncePerProcess
  BY DEF IInv
<1> QED BY PollingInvariant, <1>1, PTL

\* No update is executed after a later one of the same user, not even when telegram
\* sends updates again (bot.module.ts:223).
THEOREM UserOrder ==
  Spec => NeverOutOfDate
<1> DEFINE InOrder == \A i, j \in Ids :
             UserOf[i] = UserOf[j] /\ i < j /\ handled'[i] > handled[i] => handled[j] = 0
<1>1. ASSUME IInv, Next
      PROVE  InOrder
  <2> SUFFICES ASSUME NEW i \in Ids, NEW j \in Ids, UserOf[i] = UserOf[j], i < j,
                      handled'[i] > handled[i]
               PROVE  handled[j] = 0
    OBVIOUS
  <2>1. handled \in [Ids -> Nat] /\ handled[i] \in Nat
    BY <1>1 DEF IInv, TypeOK
  <2>2. handled' # handled
    BY <2>1
  <2>3. PICK k \in todo : handled' = [handled EXCEPT ![k] = @ + 1]
    BY <1>1, <2>2
       DEF Next, ChainStep, Send, Start, Unsubscribe, TimerFires, Stop, PollBringsNothing,
           PollFails, PollBringsUpdates, SubscribeGetUpdates, Crash, Execute, UpdateThrows, vars
  <2>4. i = k
    BY <2>1, <2>3
  <2> QED BY <1>1, <2>3, <2>4 DEF IInv, LatestOfUser
<1>2. IInv /\ [Next]_vars => [InOrder]_vars
  BY <1>1
<1>3. [][InOrder]_vars <=> NeverOutOfDate
  BY DEF NeverOutOfDate
<1> HIDE DEF InOrder
<1> QED BY PollingInvariant, <1>2, <1>3, PTL DEF Spec

-------------------------------------------------------------------------------
\* What is executed is still with telegram, and its user's conversation not past it.
LEMMA ExecuteMoves ==
  ASSUME IInv, NEW i \in todo, handled' = [handled EXCEPT ![i] = @ + 1],
         UNCHANGED <<sent, forgotten>>
  PROVE  i \in 1..sent /\ Promised!Execute(i)
<1>1. /\ i \in Ids /\ i \in 1..sent /\ forgotten < i
      /\ sent \in Nat /\ sent <= MaxUpdates /\ MaxUpdates \in Nat
  BY Numbers DEF IInv, Ids
<1>2. ASSUME NEW j \in i + 1..sent, UserOf[j] = UserOf[i]
      PROVE  handled[j] = 0
  <2>1. j \in Ids /\ i < j
    BY <1>1 DEF Ids
  <2> QED BY <1>2, <2>1 DEF IInv, LatestOfUser
<1> QED BY <1>1, <1>2 DEF Promised!Execute

\* What telegram forgets, its user's conversation has passed.
LEMMA ForgetPassed ==
  ASSUME IInv, loop # "processing", forgotten' \in {forgotten, Confirmed},
         UNCHANGED <<sent, handled>>
  PROVE  forgotten' \in forgotten..sent /\ Promised!Forget(forgotten')
<1>1. /\ TypeOK /\ forgotten \in Nat /\ sent \in Nat /\ forgotten <= sent
      /\ sent <= MaxUpdates /\ MaxUpdates \in Nat
  BY Numbers DEF IInv
<1>2. forgotten' \in forgotten..sent /\ \A i \in 1..forgotten' : Answered(i)
  <2>1. CASE forgotten' = forgotten
    BY <1>1, <2>1 DEF IInv, ForgottenWasAnswered
  <2>2. CASE forgotten' = Confirmed
    BY <2>2, AnswerFacts
  <2> QED BY <2>1, <2>2
<1>3. ASSUME NEW i \in 1..forgotten'
      PROVE  Promised!Passed(i)
  <2>1. PICK j \in i..MaxUpdates : UserOf[j] = UserOf[i] /\ handled[j] > 0
    BY <1>2 DEF Answered
  <2>2. j \in Ids /\ i <= j
    BY <1>1, <1>2, <2>1 DEF Ids
  <2>3. j <= sent
    BY <2>1, <2>2 DEF IInv, Horizon
  <2> QED BY <1>1, <2>1, <2>2, <2>3 DEF Promised!Passed
<1> QED BY <1>2, <1>3 DEF Promised!Forget

\* Each user's conversation moves forward only, and telegram forgets none of it that it
\* has not passed (bot.module.ts:145-240).
THEOREM PollingRefinement ==
  Spec => ImplementsConversations
<1>1. Init => Promised!Init
  BY DEF Init, Promised!Init, Ids
<1>2. ASSUME IInv, [Next]_vars
      PROVE  [Promised!Next]_(Promised!vars)
  <2>1. ASSUME UNCHANGED <<sent, forgotten, handled>>
        PROVE  UNCHANGED Promised!vars
    BY <2>1 DEF Promised!vars
  <2>2. CASE Send
    <3>1. Promised!Send
      BY <2>2 DEF Send, Promised!Send
    <3> QED BY <3>1 DEF Promised!Next
  <2>3. CASE Start \/ Unsubscribe \/ TimerFires \/ Stop \/ SubscribeGetUpdates \/ Crash
             \/ UNCHANGED vars
    BY <2>1, <2>3
       DEF Start, Unsubscribe, TimerFires, Stop, SubscribeGetUpdates, Crash, vars
  <2>4. CASE PollBringsUpdates \/ PollBringsNothing \/ PollFails
    BY <1>2, <2>4, ForgetPassed
       DEF PollBringsUpdates, PollBringsNothing, PollFails, Goto, Promised!Next
  <2>5. ASSUME NEW i \in Ids, Execute(i) \/ UpdateThrows(i)
        PROVE  Promised!Next \/ UNCHANGED Promised!vars
    <3>1. i \in todo /\ UNCHANGED <<sent, forgotten>>
      BY <2>5 DEF Execute, UpdateThrows
    <3>2. CASE handled' = handled
      BY <2>1, <3>1, <3>2
    <3>3. CASE handled' = [handled EXCEPT ![i] = @ + 1]
      BY <1>2, <3>1, <3>3, ExecuteMoves DEF Promised!Next
    <3> QED BY <2>5, <3>2, <3>3 DEF Execute, UpdateThrows
  <2> QED BY <1>2, <2>2, <2>3, <2>4, <2>5 DEF Next, ChainStep
<1> QED
  BY <1>1, <1>2, PollingInvariant, PTL DEF Spec, ImplementsConversations, Promised!Spec
================================================================================
