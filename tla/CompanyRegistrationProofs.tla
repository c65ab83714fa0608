----------------------- MODULE CompanyRegistrationProofs -----------------------
(***************************************************************************)
(* Proofs about CompanyRegistration, for any number of requests and any     *)
(* inputs of clients: whom services run for, what a client may conclude     *)
(* from its answer, and what the three databases owe one another.          *)
(***************************************************************************)
EXTENDS CompanyRegistration, SequenceTheorems, TLAPS

\* The user that the token of r names, and that the server has signed.
Whom(r) == DomainUser(input[r].token.payload.user)

Signed(r) ==
  /\ input[r].token # NoToken
  /\ input[r].token.sign = "serverSecret"

FrameOK(f) ==
  /\ DOMAIN f = {"service", "at", "arg", "user", "got", "attempts"}
  /\ f.attempts \in 0..1

\* A service runs by itself, or is one that another module called.
Empty(r) == stack[r] = <<>> /\ store[r] = <<>>
Alone(r) ==
  /\ Len(stack[r]) = 1
  /\ stack[r] = <<stack[r][1]>> /\ store[r] = <<store[r][1]>>
Called(r) ==
  /\ Len(stack[r]) = 2
  /\ stack[r] = <<stack[r][1], stack[r][2]>> /\ store[r] = <<store[r][1], store[r][2]>>

Callers == {"registerCompany", "getFullCompany"}

\* The service that the client asked for, and whom it runs for.
Bottom(r) ==
  LET f == stack[r][1]
  IN /\ FrameOK(f) /\ Signed(r)
     /\ store[r][1] = Whom(r)
     /\ f.service = input[r].body.service
     /\ f.service \in Callers /\ f.at # "start" => f.user = Whom(r)

\* The service that another module called, and how far the caller had come.
OnTop(r) ==
  LET f == stack[r][1]
      g == stack[r][2]
  IN /\ FrameOK(g)
     /\ store[r][2] = [type |-> "ModuleCaller", user |-> Whom(r)]
     /\ f.service \in Callers /\ g.service \notin Callers
     /\ f.service = "registerCompany" =>
          /\ g.arg = f.arg
          /\ \/ f.at = "user" /\ g.service \in {"addPerson", "getPersonByIin"}
             \/ f.at = "company" /\ g.service = "addUser"

HasPerson(arg) == \E p \in tables.person : p.iin = arg.iin

\* What a registration has found or left in the three databases, step by step.
Registering(r) ==
  LET f == stack[r][1]
  IN f.service = "registerCompany" =>
       /\ f.at # "start" => f.arg.bin \notin before[r]
       /\ f.at \in {"company", "commit"} => HasPerson(f.arg)
       /\ Alone(r) /\ thrown[r] = None =>
            /\ f.at = "user" => HasPerson(f.arg)
            /\ f.at \in {"company", "commit"} =>
                 f.got \in tables.user /\ f.got.iin = f.arg.iin

\* What is known of r at each point of its way through the server.
RequestOK(r) ==
  /\ pc[r] # "idle" => input[r] \in Inputs
  /\ pc[r] # "run" => Empty(r) /\ thrown[r] = None
  /\ pc[r] = "run" =>
       /\ Alone(r) \/ Called(r)
       /\ Bottom(r) /\ Registering(r)
       /\ Called(r) => OnTop(r)
  /\ pc[r] = "body" => caller[r] = Anonymous \/ (Signed(r) /\ caller[r] = Whom(r))
  /\ pc[r] \in {"body", "run"} => Routed(r)
  /\ answer[r] \in Answers \union {None} /\ (answer[r] # None <=> pc[r] = "answered")
  /\ RegisteredBy(r) => pc[r] = "answered" /\ answer[r].status = 200 /\ Registers(r)
  /\ pc[r] = "answered" /\ answer[r].status = 200 /\ Registers(r) => RegisteredBy(r)
  /\ before[r] \subseteq {c.bin : c \in tables.company}

Places == {"idle", "sent", "body", "run"} \union Over

\* What is known of everything else.
Global ==
  /\ now \in 0..MaxTime
  /\ input \in [Requests -> Inputs \union {None}] /\ pc \in [Requests -> Places]
  /\ DOMAIN caller = Requests
  /\ DOMAIN stack = Requests /\ DOMAIN store = Requests /\ DOMAIN thrown = Requests
  /\ DOMAIN answer = Requests /\ DOMAIN before = Requests
  /\ DOMAIN tables = {"company", "person", "user"}
  /\ \A run \in ran : run.request \in Requests /\ pc[run.request] # "idle"
  /\ \A c \in tables.company : c.by \in Requests
  /\ RunsForItsUser
  /\ CompanyHasItsPeople
  /\ NoLateDuplicate

IInv == Global /\ \A r \in Requests : RequestOK(r)

-------------------------------------------------------------------------------
\* A user, and a module that works for that user, are that user.
LEMMA UserOfCallers ==
  ASSUME NEW r
  PROVE  /\ UserOf(Whom(r)) = Whom(r)
         /\ UserOf([type |-> "ModuleCaller", user |-> Whom(r)]) = Whom(r)
<1>1. Whom(r).type = "DomainUser"
  BY DEF Whom, DomainUser
<1> QED BY <1>1 DEF UserOf

\* A request that keeps its input keeps the user its token names.
LEMMA SameClient ==
  ASSUME NEW r, input'[r] = input[r]
  PROVE  Whom(r)' = Whom(r) /\ (Signed(r)' <=> Signed(r))
  BY DEF Whom, DomainUser, Signed

\* A request that keeps its input keeps where it leads and what it asks for.
LEMMA SameAim ==
  ASSUME NEW r, input'[r] = input[r]
  PROVE  (Routed(r)' <=> Routed(r)) /\ (Registers(r)' <=> Registers(r))
  BY DEF Routed, Registers

\* Stacks of one or two frames.
LEMMA Tuples ==
  ASSUME NEW a, NEW b
  PROVE  /\ Append(<<>>, a) = <<a>> /\ Append(<<a>>, b) = <<a, b>>
         /\ Len(<<a>>) = 1 /\ Len(<<a, b>>) = 2
         /\ Last(<<a>>) = a /\ Last(<<a, b>>) = b
         /\ Front(<<a>>) = <<>> /\ Front(<<a, b>>) = <<a>>
<1> DEFINE S == {a, b}
<1>1. <<>> \in Seq(S) /\ <<a>> \in Seq(S) /\ <<a, b>> \in Seq(S) /\ a \in S /\ b \in S
  OBVIOUS
<1>2. Len(<<>>) = 0 /\ Len(<<a>>) = 1 /\ Len(<<a, b>>) = 2
  OBVIOUS
<1>3. Append(<<>>, a) = <<a>>
  <2> DEFINE s == Append(<<>>, a)
  <2>1. s \in Seq(S) /\ Len(s) = 1 /\ s[1] = a
    BY <1>1, <1>2, AppendProperties
  <2> HIDE DEF s, S
  <2> QED BY <1>1, <1>2, <2>1, SeqEqual
<1>4. Append(<<a>>, b) = <<a, b>>
  <2> DEFINE s == Append(<<a>>, b)
  <2>1. s \in Seq(S) /\ Len(s) = 2 /\ s[1] = a /\ s[2] = b
    BY <1>1, <1>2, AppendProperties
  <2> DEFINE t == <<a, b>>
  <2>2. t \in Seq(S) /\ Len(s) = Len(t) /\ \A i \in 1..Len(s) : s[i] = t[i]
    BY <1>1, <1>2, <2>1
  <2>3. s = t
    <3> HIDE DEF s, t, S
    <3> QED BY <2>1, <2>2, SeqEqual
  <2> QED BY <2>3
<1>5. Front(<<a>>) = <<>>
  <2>1. SubSeq(<<a>>, 1, 0) = <<>>
    BY SubSeqEmpty
  <2> QED BY <1>2, <2>1 DEF Front
<1>6. Front(<<a, b>>) = <<a>>
  <2> DEFINE s == SubSeq(<<a, b>>, 1, 1)
  <2>1. s \in Seq(S) /\ Len(s) = 1 /\ s[1] = <<a, b>>[1]
    <3>1. \A i \in 1..1 : <<a, b>>[i] \in S
      OBVIOUS
    <3> QED BY <3>1, SubSeqProperties
  <2>2. <<a, b>>[1] = <<a>>[1]
    OBVIOUS
  <2>3. s = <<a>>
    <3> HIDE DEF s, S
    <3> QED BY <1>1, <1>2, <2>1, <2>2, SeqEqual
  <2> QED BY <1>2, <2>3 DEF Front
<1>7. Last(<<a>>) = a /\ Last(<<a, b>>) = b
  BY <1>2 DEF Last
<1> QED BY <1>2, <1>3, <1>4, <1>5, <1>6, <1>7

\* The items of a stack of one or two frames.
LEMMA Items ==
  ASSUME NEW a, NEW b
  PROVE  <<a>>[1] = a /\ <<a, b>>[1] = a /\ <<a, b>>[2] = b
OBVIOUS

\* One of their frames is replaced.
LEMMA Replaced ==
  ASSUME NEW a, NEW b, NEW c
  PROVE  /\ [<<a>> EXCEPT ![1] = c] = <<c>>
         /\ [<<a, b>> EXCEPT ![2] = c] = <<a, c>>
<1>1. [<<a>> EXCEPT ![1] = c] = <<c>>
  <2> DEFINE s == [<<a>> EXCEPT ![1] = c]
  <2>1. <<a>> \in Seq({a, c}) /\ <<c>> \in Seq({a, c})
    OBVIOUS
  <2>2. s \in Seq({a, c}) /\ Len(s) = 1 /\ s[1] = c
    BY <2>1, ExceptSeq
  <2> QED BY <2>1, <2>2, SeqEqual
<1>2. [<<a, b>> EXCEPT ![2] = c] = <<a, c>>
  <2> DEFINE s == [<<a, b>> EXCEPT ![2] = c]
  <2>1. <<a, b>> \in Seq({a, b, c}) /\ <<a, c>> \in Seq({a, b, c})
    OBVIOUS
  <2>2. s \in Seq({a, b, c}) /\ Len(s) = 2 /\ s[1] = a /\ s[2] = c
    BY <2>1, ExceptSeq
  <2> QED BY <2>1, <2>2, SeqEqual
<1> QED BY <1>1, <1>2

\* A step of r leaves the other requests alone, and records are never removed.
OnlyOf(r) ==
  /\ input' \in [Requests -> Inputs \union {None}] /\ pc' \in [Requests -> Places]
  /\ DOMAIN caller' = Requests
  /\ DOMAIN stack' = Requests /\ DOMAIN store' = Requests /\ DOMAIN thrown' = Requests
  /\ DOMAIN answer' = Requests /\ DOMAIN before' = Requests
  /\ \A q \in Requests \ {r} :
       /\ input'[q] = input[q] /\ pc'[q] = pc[q] /\ caller'[q] = caller[q]
       /\ stack'[q] = stack[q] /\ store'[q] = store[q] /\ thrown'[q] = thrown[q]
       /\ answer'[q] = answer[q] /\ before'[q] = before[q]

Grow(r) ==
  /\ DOMAIN tables' = {"company", "person", "user"}
  /\ \A t \in {"company", "person", "user"} : tables[t] \subseteq tables'[t]
  /\ \A c \in tables'["company"] : c \in tables["company"] \/ c.by = r

\* What is known of the other requests survives a step of r that only adds records.
LEMMA OthersKept ==
  ASSUME IInv, NEW r \in Requests, OnlyOf(r), Grow(r), NEW q \in Requests \ {r}
  PROVE  RequestOK(q)'
<1>1. /\ input'[q] = input[q] /\ pc'[q] = pc[q] /\ caller'[q] = caller[q]
      /\ stack'[q] = stack[q] /\ store'[q] = store[q] /\ thrown'[q] = thrown[q]
      /\ answer'[q] = answer[q] /\ before'[q] = before[q]
  BY DEF OnlyOf
<1>2. /\ tables.company \subseteq tables'.company /\ tables.person \subseteq tables'.person
      /\ tables.user \subseteq tables'.user
      /\ \A c \in tables'.company : c \in tables.company \/ c.by = r
  BY DEF Grow
<1>3. RequestOK(q)
  BY DEF IInv
<1>4. (RegisteredBy(q)' <=> RegisteredBy(q)) /\ (Registers(q)' <=> Registers(q))
      /\ (Routed(q)' <=> Routed(q))
  BY <1>1, <1>2, SameAim DEF RegisteredBy
<1>5. /\ (Empty(q)' <=> Empty(q)) /\ (Alone(q)' <=> Alone(q)) /\ (Called(q)' <=> Called(q))
      /\ (Bottom(q)' <=> Bottom(q)) /\ (OnTop(q)' <=> OnTop(q))
      /\ (Signed(q)' <=> Signed(q)) /\ Whom(q)' = Whom(q)
  BY <1>1 DEF Empty, Alone, Called, Bottom, OnTop, Signed, Whom, FrameOK
<1>6. Registering(q) => Registering(q)'
  BY <1>1, <1>2, <1>5 DEF Registering, HasPerson
<1>7. before[q] \subseteq {c.bin : c \in tables.company} =>
        before'[q] \subseteq {c.bin : c \in tables'.company}
  BY <1>1, <1>2
<1> QED BY <1>1, <1>3, <1>4, <1>5, <1>6, <1>7 DEF RequestOK

\* A step of r that commits no company and runs services for its user keeps what is
\* known of everything else.
LEMMA GlobalKept ==
  ASSUME IInv, NEW r \in Requests, OnlyOf(r), now' \in 0..MaxTime,
         Grow(r), tables'.company = tables.company,
         pc[r] = "idle" \/ (pc'[r] # "idle" /\ input'[r] = input[r]),
         before'[r] = before[r] \/ pc[r] = "body",
         \A run \in ran' : run \in ran \/
           (run.request = r /\ pc'[r] # "idle" /\ Signed(r)' /\ UserOf(run.caller) = Whom(r)')
  PROVE  Global'
<1>2. \A run \in ran' : run.request \in Requests /\ pc'[run.request] # "idle"
  BY DEF IInv, Global, OnlyOf
<1>3. RunsForItsUser'
  <2> SUFFICES ASSUME NEW run \in ran'
               PROVE  LET token == input'[run.request].token
                      IN /\ token # NoToken
                         /\ token.sign = "serverSecret"
                         /\ UserOf(run.caller) = DomainUser(token.payload.user)
    BY DEF RunsForItsUser, UserOf, DomainUser
  <2>1. CASE run \in ran
    <3>1. input'[run.request] = input[run.request]
      BY <2>1 DEF IInv, Global, OnlyOf
    <3> QED BY <2>1, <3>1 DEF IInv, Global, RunsForItsUser
  <2>2. CASE run \notin ran
    BY <2>2 DEF Signed, Whom, DomainUser
  <2> QED BY <2>1, <2>2
<1>4. CompanyHasItsPeople'
  BY DEF IInv, Global, Grow, CompanyHasItsPeople
<1>5. NoLateDuplicate'
  <2> SUFFICES ASSUME NEW c \in tables.company
               PROVE  c.bin \notin before'[c.by]
    BY DEF NoLateDuplicate
  <2>1. c.by \in Requests /\ RegisteredBy(c.by) /\ c.bin \notin before[c.by]
    BY DEF IInv, Global, RegisteredBy, NoLateDuplicate
  <2>2. pc[c.by] = "answered"
    BY <2>1 DEF IInv, RequestOK
  <2> QED BY <2>1, <2>2 DEF OnlyOf
<1> QED BY <1>2, <1>3, <1>4, <1>5 DEF IInv, Global, OnlyOf, Grow

-------------------------------------------------------------------------------
\* What there is on the stack of a request that runs.
LEMMA Shapes ==
  ASSUME IInv, NEW r \in Requests, pc[r] = "run"
  PROVE  /\ Alone(r) \/ Called(r)
         /\ FrameOK(Top(r))
         /\ Top(r).service \in Callers => Alone(r)
         /\ Alone(r) =>
              /\ ~Called(r) /\ Len(stack[r]) = 1
              /\ Top(r) = stack[r][1] /\ PayloadCaller(r) = Whom(r)
              /\ Front(stack[r]) = <<>> /\ Front(store[r]) = <<>>
         /\ Called(r) =>
              /\ ~Alone(r) /\ Len(stack[r]) = 2
              /\ Top(r) = stack[r][2]
              /\ Front(stack[r]) = <<stack[r][1]>> /\ Front(store[r]) = <<store[r][1]>>
<1>1. /\ Alone(r) \/ Called(r)
      /\ Bottom(r) /\ (Called(r) => OnTop(r))
  BY DEF IInv, RequestOK
<1>2. CASE Alone(r)
  <2> PICK a, b : a = stack[r][1] /\ b = store[r][1]
    OBVIOUS
  <2>1. stack[r] = <<a>> /\ store[r] = <<b>> /\ Len(stack[r]) = 1 /\ ~Called(r)
    BY <1>2 DEF Alone, Called
  <2>2. Last(<<a>>) = a /\ Last(<<b>>) = b /\ Front(<<a>>) = <<>> /\ Front(<<b>>) = <<>>
    BY Tuples
  <2>4. /\ Top(r) = a /\ PayloadCaller(r) = b
        /\ Front(stack[r]) = <<>> /\ Front(store[r]) = <<>>
    BY <2>1, <2>2 DEF Top, PayloadCaller
  <2>3. FrameOK(a) /\ b = Whom(r)
    BY <1>1, <1>2 DEF Bottom
  <2> QED BY <1>2, <2>1, <2>3, <2>4
<1>3. CASE Called(r)
  <2> PICK a, b, c, d : /\ a = stack[r][1] /\ b = stack[r][2]
                        /\ c = store[r][1] /\ d = store[r][2]
    OBVIOUS
  <2>1. stack[r] = <<a, b>> /\ store[r] = <<c, d>> /\ Len(stack[r]) = 2 /\ ~Alone(r)
    BY <1>3 DEF Alone, Called
  <2>2. Last(<<a, b>>) = b /\ Front(<<a, b>>) = <<a>> /\ Front(<<c, d>>) = <<c>>
    BY Tuples
  <2>3. Top(r) = b /\ Front(stack[r]) = <<a>> /\ Front(store[r]) = <<c>>
    BY <2>1, <2>2 DEF Top
  <2> QED BY <1>1, <1>3, <2>1, <2>3 DEF OnTop
<1> QED BY <1>1, <1>2, <1>3

\* Only the stack of r changes, or that of its stores.
StackOf(r) == DOMAIN stack' = Requests /\ \A q \in Requests \ {r} : stack'[q] = stack[q]
StoreOf(r) == DOMAIN store' = Requests /\ \A q \in Requests \ {r} : store'[q] = store[q]
AnswerOf(r) ==
  /\ pc' \in [Requests -> Places] /\ \A q \in Requests \ {r} : pc'[q] = pc[q]
  /\ DOMAIN answer' = Requests /\ \A q \in Requests \ {r} : answer'[q] = answer[q]

\* The frame on top changes.
TopIs(r, f) == stack' = [stack EXCEPT ![r][Len(stack[r])] = f]

LEMMA NewTop ==
  ASSUME IInv, NEW r \in Requests, pc[r] = "run", NEW f, TopIs(r, f)
  PROVE  /\ StackOf(r)
         /\ Alone(r) => stack'[r] = <<f>>
         /\ Called(r) => stack'[r] = <<stack[r][1], f>>
<1>1. DOMAIN stack = Requests
  BY DEF IInv, Global
<1>2. CASE Alone(r)
  <2> PICK a : a = stack[r][1]
    OBVIOUS
  <2>1. stack[r] = <<a>> /\ Len(stack[r]) = 1
    BY <1>2 DEF Alone
  <2>2. stack'[r] = [<<a>> EXCEPT ![1] = f]
    BY <1>1, <2>1 DEF TopIs
  <2> QED BY <1>1, <1>2, <2>1, <2>2, Replaced, Shapes DEF StackOf, TopIs
<1>3. CASE Called(r)
  <2> PICK a, b : a = stack[r][1] /\ b = stack[r][2]
    OBVIOUS
  <2>1. stack[r] = <<a, b>> /\ Len(stack[r]) = 2
    BY <1>3 DEF Called
  <2>2. stack'[r] = [<<a, b>> EXCEPT ![2] = f]
    BY <1>1, <2>1 DEF TopIs
  <2> QED BY <1>1, <1>3, <2>1, <2>2, Replaced, Shapes DEF StackOf, TopIs
<1> QED BY <1>2, <1>3, Shapes

\* A step of a service within its frame.
LEMMA StepTop ==
  ASSUME IInv, NEW r \in Requests, pc[r] = "run", NEW at, Step(r, at)
  PROVE  /\ StackOf(r)
         /\ Alone(r) => stack'[r] = <<[Top(r) EXCEPT !.at = at]>>
         /\ Called(r) => stack'[r] = <<stack[r][1], [Top(r) EXCEPT !.at = at]>>
<1> PICK f : f = [Top(r) EXCEPT !.at = at]
  OBVIOUS
<1>1. TopIs(r, f)
  BY DEF Step, Top, Last, TopIs
<1> QED BY <1>1, NewTop

\* A failure never has the status of a success.
LEMMA FailureStatuses == \A name : FailureStatus(name) \in {400, 403, 404, 500}
<1> SUFFICES ASSUME NEW name PROVE FailureStatus(name) \in {400, 403, 404, 500}
  OBVIOUS
<1> DEFINE Failures == {400, 403, 404, 500}
<1>1. ASSUME name \in DOMAIN STATUS_CODES PROVE STATUS_CODES[name] \in Failures
  <2>1. STATUS_CODES["Not found"] \in Failures
    BY DEF STATUS_CODES
  <2>2. STATUS_CODES["Permission denied"] \in Failures
    BY DEF STATUS_CODES
  <2>3. STATUS_CODES["Internal error"] \in Failures
    BY DEF STATUS_CODES
  <2>4. name \in {"Not found", "Permission denied", "Internal error"}
    BY <1>1, Zenon DEF STATUS_CODES
  <2> HIDE DEF Failures
  <2> QED BY <2>1, <2>2, <2>3, <2>4, Zenon
<1>2. 400 \in Failures
  OBVIOUS
<1> HIDE DEF Failures
<1>3. FailureStatus(name) \in Failures
  BY <1>1, <1>2, Zenon DEF FailureStatus
<1> QED BY <1>3 DEF Failures

\* The answer to a client, and its status.
LEMMA AnswerFacts ==
  ASSUME IInv, NEW r \in Requests, NEW name \in AnswerNames, Answer(r, name)
  PROVE  /\ AnswerOf(r) /\ pc'[r] = "answered"
         /\ answer'[r] \in Answers
         /\ answer'[r].status = 200 <=> name = "ok"
<1>1. pc \in [Requests -> Places] /\ DOMAIN answer = Requests
  BY DEF IInv, Global
<1>2. FailureStatus(name) \in {400, 403, 404, 500}
  BY FailureStatuses
<1> PICK status : status = IF name = "ok" THEN 200 ELSE FailureStatus(name)
  OBVIOUS
<1>3. [status |-> status, name |-> name] \in Answers /\ (status = 200 <=> name = "ok")
  <2>1. name = "ok" <=> status = 200
    BY <1>2
  <2>2. status \in {0, 200, 400, 403, 404, 500}
    BY <1>2
  <2> QED BY <2>1, <2>2 DEF Answers
<1>4. answer' = [answer EXCEPT ![r] = [status |-> status, name |-> name]]
  BY DEF Answer
<1> QED BY <1>1, <1>3, <1>4 DEF Answer, AnswerOf, Places, Over

\* A service returns: to the client, or to the service that called it.
LEMMA ReturnShape ==
  ASSUME IInv, NEW r \in Requests, pc[r] = "run", NEW value, Return(r, value)
  PROVE  /\ StackOf(r) /\ StoreOf(r) /\ AnswerOf(r)
         /\ Alone(r) =>
              /\ stack'[r] = <<>> /\ store'[r] = <<>> /\ pc'[r] = "answered"
              /\ answer'[r] \in Answers /\ answer'[r].status = 200
         /\ Called(r) =>
              /\ stack'[r] = <<[stack[r][1] EXCEPT !.got = value]>>
              /\ store'[r] = <<store[r][1]>>
              /\ pc'[r] = "run" /\ answer'[r] = answer[r]
<1>1. /\ DOMAIN stack = Requests /\ DOMAIN store = Requests
      /\ pc \in [Requests -> Places] /\ DOMAIN answer = Requests
  BY DEF IInv, Global
<1>2. store'[r] = Front(store[r]) /\ StoreOf(r)
  BY <1>1 DEF Return, StoreOf
<1>3. CASE Alone(r)
  <2>1. Front(stack[r]) = <<>> /\ Front(store[r]) = <<>> /\ ~Called(r)
    BY <1>3, Shapes
  <2>2. stack' = [stack EXCEPT ![r] = <<>>] /\ Answer(r, "ok")
    BY <2>1 DEF Return
  <2>3. /\ AnswerOf(r) /\ pc'[r] = "answered"
        /\ answer'[r] \in Answers /\ answer'[r].status = 200
    <3>1. "ok" \in AnswerNames
      BY DEF AnswerNames
    <3> QED BY <2>2, <3>1, AnswerFacts
  <2> QED BY <1>1, <1>2, <2>1, <2>2, <2>3 DEF StackOf
<1>4. CASE Called(r)
  <2> PICK f : f = stack[r][1]
    OBVIOUS
  <2> PICK g : g = [f EXCEPT !.got = value]
    OBVIOUS
  <2>1. Front(stack[r]) = <<f>> /\ Front(store[r]) = <<store[r][1]>> /\ ~Alone(r)
    BY <1>4, Shapes
  <2>2. <<f>> # <<>> /\ Len(<<f>>) = 1 /\ <<f>>[1] = f
    OBVIOUS
  <2>3. /\ stack' = [stack EXCEPT ![r] = [<<f>> EXCEPT ![1] = g]]
        /\ pc' = pc /\ answer' = answer
    BY <2>1, <2>2 DEF Return
  <2> QED BY <1>1, <1>2, <2>1, <2>3, Replaced DEF StackOf, AnswerOf
<1> QED BY <1>3, <1>4, Shapes

\* A service fails, and with it whatever called it.
LEMMA FailShape ==
  ASSUME IInv, NEW r \in Requests, NEW name \in AnswerNames, name # "ok", Fail(r, name)
  PROVE  /\ StackOf(r) /\ StoreOf(r) /\ AnswerOf(r) /\ thrown' = thrown
         /\ stack'[r] = <<>> /\ store'[r] = <<>> /\ pc'[r] = "answered"
         /\ answer'[r] \in Answers /\ answer'[r].status # 200
<1>1. DOMAIN stack = Requests /\ DOMAIN store = Requests
  BY DEF IInv, Global
<1>2. Answer(r, name)
  BY DEF Fail
<1> QED BY <1>1, <1>2, AnswerFacts DEF Fail, StackOf, StoreOf

-------------------------------------------------------------------------------
\* What a step of r has to keep.
Kept(r) == OnlyOf(r) /\ Grow(r) /\ Global' /\ RequestOK(r)'

\* A step of r that keeps what is known of r and of the rest keeps the invariant.
LEMMA KeptIInv ==
  ASSUME IInv, NEW r \in Requests, Kept(r)
  PROVE  IInv'
<1>1. \A q \in Requests \ {r} : RequestOK(q)'
  BY OthersKept DEF Kept
<1> QED BY <1>1 DEF Kept, IInv

\* What a client asked for stays, and no company is committed.
Unnoticed(r) ==
  /\ input'[r] = input[r] /\ before'[r] = before[r]
  /\ tables'.company = tables.company

\* r goes on running.
LEMMA RunsOn ==
  ASSUME IInv, NEW r \in Requests, pc[r] = "run",
         OnlyOf(r), Grow(r), Unnoticed(r),
         pc'[r] = "run", answer'[r] = answer[r],
         Alone(r)' \/ Called(r)', Bottom(r)', Registering(r)', Called(r)' => OnTop(r)',
         \A run \in ran' : run \in ran \/
           (run.request = r /\ UserOf(run.caller) = Whom(r)),
         now' = now
  PROVE  Kept(r)
<1>1. RequestOK(r) /\ now \in 0..MaxTime
  BY DEF IInv, Global
<1>2. ~RegisteredBy(r)' /\ (Routed(r)' <=> Routed(r))
  BY <1>1, SameAim DEF RequestOK, RegisteredBy, Unnoticed
<1>3. RequestOK(r)'
  BY <1>1, <1>2 DEF RequestOK, Unnoticed, Over
<1>4. Signed(r)' /\ Whom(r)' = Whom(r)
  BY DEF Bottom, Whom, Unnoticed
<1>5. Global'
  BY <1>1, <1>4, GlobalKept DEF Unnoticed
<1> QED BY <1>3, <1>5 DEF Kept

\* r ends, but not with the success of a registration.
LEMMA EndsUnregistered ==
  ASSUME IInv, NEW r \in Requests, pc[r] \in {"sent", "body", "run"},
         OnlyOf(r), Grow(r), now' = now, ran' = ran,
         input'[r] = input[r], tables'.company = tables.company,
         before'[r] = before[r] \/
           (pc[r] = "body" /\ before'[r] = {c.bin : c \in tables.company}),
         pc'[r] \in Over, Empty(r)', thrown'[r] = None,
         IF pc'[r] = "answered" THEN answer'[r] \in Answers ELSE answer'[r] = None,
         pc'[r] = "answered" /\ answer'[r].status = 200 => ~Registers(r)
  PROVE  Kept(r)
<1>1. RequestOK(r) /\ now \in 0..MaxTime
  BY DEF IInv, Global
<1>2. ~RegisteredBy(r)' /\ (Registers(r)' <=> Registers(r))
  BY <1>1, SameAim DEF RequestOK, RegisteredBy
<1>3. None \notin Answers
  BY RegistrationAssumption
<1>4. RequestOK(r)'
  BY <1>1, <1>2, <1>3 DEF RequestOK, Over
<1>5. Global'
  BY <1>1, GlobalKept DEF Over
<1> QED BY <1>4, <1>5 DEF Kept

-------------------------------------------------------------------------------
\* A client sends its request, or keeps it to itself.
LEMMA SendKeeps ==
  ASSUME IInv, NEW r \in Requests, Send(r), app' = app
  PROVE  Kept(r)
<1>1. PICK in \in Inputs :
        /\ pc[r] = "idle"
        /\ input' = [input EXCEPT ![r] = in]
        /\ \/ /\ Goto(r, "idle", "answered")
              /\ answer' = [answer EXCEPT ![r] = [status |-> 0, name |-> "TokenExpiredError"]]
           \/ Goto(r, "idle", "sent") /\ answer' = answer
        /\ now' = now /\ caller' = caller /\ stack' = stack /\ store' = store
        /\ thrown' = thrown /\ ran' = ran
  BY DEF Send
<1>2. tables' = tables /\ before' = before
  BY DEF app
<1>3. OnlyOf(r)
  BY <1>1, <1>2 DEF OnlyOf, IInv, Global, Goto, Places, Over
<1>4. Grow(r)
  BY <1>2 DEF Grow, IInv, Global
<1>5. Global'
  BY <1>1, <1>2, <1>3, <1>4, GlobalKept DEF IInv, Global
<1>6. RequestOK(r) /\ DOMAIN pc = Requests /\ DOMAIN input = Requests /\ DOMAIN answer = Requests
  BY DEF IInv, Global
<1>7. ~RegisteredBy(r)' /\ Empty(r)'
  BY <1>1, <1>2, <1>6 DEF RequestOK, RegisteredBy, Empty
<1>8. [status |-> 0, name |-> "TokenExpiredError"] \in Answers
  BY DEF Answers, AnswerNames
<1>9. RequestOK(r)'
  BY <1>1, <1>2, <1>6, <1>7, <1>8, RegistrationAssumption DEF RequestOK, Goto, Over
<1> QED BY <1>3, <1>4, <1>5, <1>9 DEF Kept

\* What the verifier answers, and what it takes to be let through.
LEMMA VerifiedFacts ==
  ASSUME NEW token
  PROVE  /\ Verified(token) \in AnswerNames
         /\ Verified(token) = "ok" /\ token # NoToken => token.sign = "serverSecret"
<1>1. GetTokenPayload(token) \in
        {"ok", "IncorrectTokenError", "TokenExpiredError", "NotValidTokenPayloadError"}
  BY DEF GetTokenPayload
<1>2. Verified(token) \in {"ok", "JwtVerifyError", GetTokenPayload(token)}
  BY DEF Verified, VerifyToken
<1>3. Verified(token) \in AnswerNames
  BY <1>1, <1>2 DEF AnswerNames
<1>4. ASSUME Verified(token) = "ok", token # NoToken
      PROVE  token.sign = "serverSecret"
  BY <1>4 DEF Verified, VerifyToken, Verify
<1> QED BY <1>3, <1>4

\* The middleware, the routing and the controller.
LEMMA FetchKeeps ==
  ASSUME IInv, NEW r \in Requests, Fetch(r), app' = app
  PROVE  Kept(r)
<1> DEFINE token == Authorization(input[r])
           controller == ControllerOf(input[r].path)
<1>1. /\ pc[r] = "sent" /\ caller' = [caller EXCEPT ![r] = InjectCaller(token)]
      /\ now' = now /\ input' = input /\ stack' = stack /\ store' = store
      /\ thrown' = thrown /\ ran' = ran
  BY DEF Fetch
<1>2. tables' = tables /\ before' = before
  BY DEF app
<1>3. \/ \E name \in AnswerNames :
           /\ Answer(r, name)
           /\ name = "ok" => controller # None /\ controller.module = NoModule
      \/ /\ Verified(token) = "ok" /\ controller # None /\ controller.module # NoModule
         /\ Goto(r, "sent", "body") /\ answer' = answer
  <2>1. CASE Verified(token) # "ok"
    <3>1. Answer(r, Verified(token))
      BY <2>1 DEF Fetch
    <3>2. Verified(token) \in AnswerNames
      BY VerifiedFacts
    <3> QED BY <2>1, <3>1, <3>2
  <2>2. CASE Verified(token) = "ok" /\ controller = None
    <3>1. Answer(r, "Not found")
      BY <2>2 DEF Fetch
    <3> QED BY <3>1 DEF AnswerNames
  <2>3. CASE Verified(token) = "ok" /\ controller # None /\ controller.module = NoModule
    <3>1. Answer(r, "ok")
      BY <2>3 DEF Fetch
    <3> QED BY <2>3, <3>1 DEF AnswerNames
  <2>4. CASE Verified(token) = "ok" /\ controller # None /\ controller.module # NoModule
    <3>1. \/ Answer(r, "Bad request")
          \/ Goto(r, "sent", "body") /\ answer' = answer
      BY <2>4 DEF Fetch
    <3> QED BY <2>4, <3>1 DEF AnswerNames
  <2> QED BY <2>1, <2>2, <2>3, <2>4
<1>4. Grow(r)
  BY <1>2 DEF Grow, IInv, Global
<1>5. RequestOK(r) /\ DOMAIN pc = Requests /\ DOMAIN caller = Requests
  BY DEF IInv, Global
<1>6. ASSUME NEW name \in AnswerNames, Answer(r, name),
             name = "ok" => controller # None /\ controller.module = NoModule
      PROVE  Kept(r)
  <2>1. /\ AnswerOf(r) /\ pc'[r] = "answered" /\ answer'[r] \in Answers
        /\ answer'[r].status = 200 <=> name = "ok"
    BY <1>6, AnswerFacts
  <2>2. OnlyOf(r)
    BY <1>1, <1>2, <2>1 DEF OnlyOf, AnswerOf, IInv, Global
  <2>3. name = "ok" => ~Registers(r)
    BY <1>6, RegistrationAssumption DEF Registers, Routed
  <2>4. Empty(r)' /\ thrown'[r] = None
    BY <1>1, <1>5 DEF RequestOK, Empty
  <2> QED BY <1>1, <1>2, <1>4, <2>1, <2>2, <2>3, <2>4, EndsUnregistered DEF Over
<1>7. ASSUME Verified(token) = "ok", controller # None, controller.module # NoModule,
             Goto(r, "sent", "body"), answer' = answer
      PROVE  Kept(r)
  <2>1. OnlyOf(r) /\ pc'[r] = "body"
    BY <1>1, <1>2, <1>5, <1>7 DEF OnlyOf, Goto, IInv, Global, Places
  <2>2. Global'
    BY <1>1, <1>2, <1>4, <2>1, GlobalKept DEF IInv, Global
  <2>3. controller.module \in DOMAIN Services /\ input[r] \in Inputs
    BY <1>1, <1>5, <1>7, RegistrationAssumption DEF RequestOK
  <2>4. caller'[r] = Anonymous \/ (Signed(r)' /\ caller'[r] = Whom(r)')
    <3>1. caller'[r] = InjectCaller(token)
      BY <1>1, <1>5
    <3>2. CASE token = NoToken
      BY <1>7, <3>1, <3>2 DEF InjectCaller
    <3>3. CASE token # NoToken
      <4>1. caller'[r] = DomainUser(token.payload.user)
        BY <1>7, <3>1, <3>3 DEF InjectCaller
      <4>2. token = input[r].token
        BY <3>3 DEF Authorization
      <4>3. token.sign = "serverSecret"
        BY <1>7, <3>3, VerifiedFacts
      <4> QED BY <1>1, <3>3, <4>1, <4>2, <4>3 DEF Signed, Whom
    <3> QED BY <3>2, <3>3
  <2>5. ~RegisteredBy(r)' /\ Empty(r)' /\ Routed(r)'
    BY <1>1, <1>2, <1>5, <1>7, <2>3 DEF RequestOK, RegisteredBy, Empty, Routed
  <2>6. RequestOK(r)'
    BY <1>1, <1>2, <1>5, <1>7, <2>1, <2>3, <2>4, <2>5 DEF RequestOK, Over
  <2> QED BY <1>4, <2>1, <2>2, <2>6 DEF Kept
<1> QED BY <1>3, <1>6, <1>7

\* The catch block of fetch answers, or hands the error on.
LEMMA CatchOfFetchFacts ==
  ASSUME IInv, NEW r \in Requests, CatchOfFetch(r), answer[r] = None
  PROVE  /\ AnswerOf(r) /\ pc'[r] \in Over
         /\ IF pc'[r] = "answered" THEN answer'[r] \in Answers ELSE answer'[r] = None
         /\ pc'[r] = "answered" => answer'[r].status # 200
<1>1. CASE RunMode = "test"
  BY <1>1 DEF CatchOfFetch, AnswerOf, Over, Places, IInv, Global
<1>2. CASE RunMode # "test"
  <2>1. PICK name \in AnswerNames : Answer(r, name) /\ name # "ok"
    <3>1. Answer(r, "Internal error") /\ "Internal error" \in AnswerNames
      BY <1>2 DEF CatchOfFetch, AnswerNames
    <3> QED BY <3>1
  <2>2. /\ AnswerOf(r) /\ pc'[r] = "answered" /\ answer'[r] \in Answers
        /\ answer'[r].status = 200 <=> name = "ok"
    BY <2>1, AnswerFacts
  <2>3. answer'[r].status # 200
    BY <2>1, <2>2
  <2> QED BY <2>2, <2>3 DEF Over
<1> QED BY <1>1, <1>2

\* The checks of a module and of its service.
LEMMA RefusalFacts ==
  ASSUME NEW module, NEW body, NEW who
  PROVE  /\ Refusal(module, body, who) \in
              {"ok", "error", "Bad request", "Permission denied", "Validation error"}
         /\ Refusal(module, body, who) = "ok" =>
              /\ body.service \in DOMAIN Services[module]
              /\ who.type \in Services[module][body.service]
  BY DEF Refusal, CatchServiceTypeError, GetService, CheckCallerPermission

\* The body arrives: a service starts, or the answer is known.
LEMMA ReadBodyKeeps ==
  ASSUME IInv, NEW r \in Requests, ReadBody(r),
         before' = [before EXCEPT ![r] = {c.bin : c \in tables.company}], tables' = tables
  PROVE  Kept(r)
<1> DEFINE body == input[r].body
           module == ControllerOf(input[r].path).module
           refusal == IF ~IsJson(body) \/ ~IsInputDod(body) THEN "Bad request"
                      ELSE Refusal(module, body, caller[r])
<1>1. /\ pc[r] = "body"
      /\ now' = now /\ input' = input /\ caller' = caller /\ thrown' = thrown
      /\ IF refusal = "ok"
         THEN /\ Goto(r, "body", "run")
              /\ RunService(r, body, caller[r])
              /\ answer' = answer
         ELSE /\ IF refusal = "error" THEN CatchOfFetch(r) ELSE Answer(r, refusal)
              /\ stack' = stack /\ store' = store /\ ran' = ran
  BY DEF ReadBody
<1>2. RequestOK(r)
  BY DEF IInv
<1>3. /\ DOMAIN pc = Requests /\ DOMAIN before = Requests
      /\ DOMAIN stack = Requests /\ DOMAIN store = Requests
  BY DEF IInv, Global
<1>4. Grow(r)
  BY DEF Grow, IInv, Global
<1>6. ASSUME refusal # "ok"
      PROVE  Kept(r)
  <2>1. /\ AnswerOf(r) /\ pc'[r] \in Over
        /\ IF pc'[r] = "answered" THEN answer'[r] \in Answers ELSE answer'[r] = None
        /\ pc'[r] = "answered" => answer'[r].status # 200
    <3>1. CASE refusal = "error"
      <4>1. answer[r] = None /\ CatchOfFetch(r)
        BY <1>1, <1>2, <1>6, <3>1 DEF RequestOK
      <4> QED BY <4>1, CatchOfFetchFacts
    <3>2. CASE refusal # "error"
      <4>1. refusal \in {"Bad request", "Permission denied", "Validation error"}
        BY <1>6, <3>2, RefusalFacts
      <4>2. refusal \in AnswerNames /\ Answer(r, refusal)
        BY <1>1, <1>6, <3>2, <4>1 DEF AnswerNames
      <4> HIDE DEF refusal
      <4>3. /\ AnswerOf(r) /\ pc'[r] = "answered" /\ answer'[r] \in Answers
            /\ answer'[r].status = 200 <=> refusal = "ok"
        BY <4>2, AnswerFacts
      <4> QED BY <1>6, <4>3 DEF Over
    <3> QED BY <3>1, <3>2
  <2>2. stack' = stack /\ store' = store /\ ran' = ran
    BY <1>1, <1>6
  <2>3. OnlyOf(r)
    BY <1>1, <1>3, <2>1, <2>2 DEF OnlyOf, AnswerOf, IInv, Global
  <2>4. Empty(r)' /\ thrown'[r] = None
    BY <1>1, <1>2, <2>2 DEF RequestOK, Empty
  <2> QED BY <1>1, <1>3, <1>4, <2>1, <2>2, <2>3, <2>4, EndsUnregistered
<1>7. ASSUME refusal = "ok"
      PROVE  Kept(r)
  <2> PICK f : f = Frame(body)
    OBVIOUS
  <2> PICK who : who = caller[r]
    OBVIOUS
  <2>1. /\ Goto(r, "body", "run") /\ answer' = answer
        /\ stack' = [stack EXCEPT ![r] = Append(stack[r], f)]
        /\ store' = [store EXCEPT ![r] = Append(store[r], who)]
        /\ ran' = ran \union {[request |-> r, service |-> body.service, caller |-> who]}
    BY <1>1, <1>7 DEF RunService, StoreRun
  <2>2. stack[r] = <<>> /\ store[r] = <<>>
    BY <1>1, <1>2 DEF RequestOK, Empty
  <2>3. stack'[r] = <<f>> /\ store'[r] = <<who>>
    BY <1>3, <2>1, <2>2, Tuples
  <2>4. Signed(r) /\ who = Whom(r)
    <3>1. module \in DOMAIN Services /\ (caller[r] = Anonymous \/ (Signed(r) /\ who = Whom(r)))
      BY <1>1, <1>2 DEF RequestOK, Routed
    <3>2. body.service \in DOMAIN Services[module]
          /\ who.type \in Services[module][body.service]
      BY <1>7, RefusalFacts
    <3>3. who.type # "AnonymousUser"
      BY <3>1, <3>2, RegistrationAssumption
    <3> QED BY <3>1, <3>3 DEF Anonymous
  <2>5. OnlyOf(r) /\ pc'[r] = "run"
    BY <1>1, <1>3, <2>1 DEF OnlyOf, Goto, IInv, Global, Places
  <2>6. UserOf(who) = Whom(r) /\ Signed(r)' /\ Whom(r)' = Whom(r)
    BY <1>1, <2>4, UserOfCallers, SameClient
  <2>7. Global'
    <3>1. \A run \in ran' : run \in ran \/
            (run.request = r /\ pc'[r] # "idle" /\ Signed(r)' /\ UserOf(run.caller) = Whom(r)')
      BY <2>1, <2>4, <2>5, <2>6
    <3> QED BY <1>1, <1>4, <2>5, <3>1, GlobalKept DEF IInv, Global
  <2>8. /\ f.service = body.service /\ f.at = "start" /\ FrameOK(f)
    BY DEF Frame, FrameOK
  <2>9. Alone(r)' /\ ~Called(r)'
    BY <2>3 DEF Alone, Called
  <2>10. Bottom(r)' /\ Registering(r)'
    <3>1. stack'[r][1] = f /\ store'[r][1] = who /\ input'[r] = input[r]
      BY <1>1, <2>3, Items
    <3>2. f.service = "registerCompany" => f.at \notin {"company", "commit", "user"}
      BY <2>8
    <3> QED BY <2>4, <2>6, <2>8, <3>1, <3>2 DEF Bottom, Registering
  <2>11. ~RegisteredBy(r)' /\ Routed(r)'
    BY <1>1, <1>2, SameAim DEF RequestOK, RegisteredBy
  <2>12. RequestOK(r)'
    BY <1>1, <1>2, <1>3, <2>1, <2>5, <2>9, <2>10, <2>11 DEF RequestOK, Over
  <2> QED BY <1>4, <2>5, <2>7, <2>12 DEF Kept
<1> QED BY <1>6, <1>7

-------------------------------------------------------------------------------
\* A service that runs by itself: its frame afterwards.
LEMMA AloneAfter ==
  ASSUME IInv, NEW r \in Requests, pc[r] = "run", NEW f,
         stack'[r] = <<f>>,
         store'[r] = <<store[r][1]>>, input'[r] = input[r],
         FrameOK(f), f.service = stack[r][1].service,
         f.service \in Callers /\ f.at # "start" => f.user = Whom(r)
  PROVE  Alone(r)' /\ ~Called(r)' /\ Bottom(r)' /\ stack'[r][1] = f
<1> PICK w : w = store[r][1]
  OBVIOUS
<1>1. stack'[r][1] = f /\ store'[r][1] = w /\ store'[r] = <<w>>
  BY Items
<1>2. Alone(r)' /\ ~Called(r)'
  BY <1>1 DEF Alone, Called
<1>3. Bottom(r)
  BY DEF IInv, RequestOK
<1> QED BY <1>1, <1>2, <1>3, SameClient DEF Bottom

\* A service that another one has called: its frame afterwards.
LEMMA CalledAfter ==
  ASSUME IInv, NEW r \in Requests, pc[r] = "run", Called(r), NEW g,
         stack'[r] = <<stack[r][1], g>>,
         store'[r] = store[r], input'[r] = input[r],
         FrameOK(g), g.service = stack[r][2].service, g.arg = stack[r][2].arg
  PROVE  Called(r)' /\ ~Alone(r)' /\ Bottom(r)' /\ OnTop(r)' /\ stack'[r][1] = stack[r][1]
<1> PICK f : f = stack[r][1]
  OBVIOUS
<1>1. stack'[r] = <<f, g>> /\ stack'[r][1] = f /\ stack'[r][2] = g
  BY Items
<1>2. Called(r)' /\ ~Alone(r)'
  BY <1>1 DEF Alone, Called
<1>3. Bottom(r) /\ OnTop(r)
  BY DEF IInv, RequestOK
<1>4. Bottom(r)'
  BY <1>1, <1>3, SameClient DEF Bottom
<1> QED BY <1>1, <1>2, <1>3, <1>4, SameClient DEF OnTop

\* Anything a service calls may throw.
LEMMA ThrowKeeps ==
  ASSUME IInv, NEW r \in Requests, Throw(r), app' = app
  PROVE  Kept(r)
<1>1. /\ pc[r] = "run" /\ thrown[r] = None
      /\ \E error : thrown' = [thrown EXCEPT ![r] = error]
      /\ now' = now /\ input' = input /\ pc' = pc /\ caller' = caller /\ stack' = stack
      /\ store' = store /\ answer' = answer /\ ran' = ran
      /\ tables' = tables /\ before' = before
  BY DEF Throw, app
<1>2. OnlyOf(r) /\ Grow(r) /\ Unnoticed(r)
  BY <1>1 DEF OnlyOf, Grow, Unnoticed, IInv, Global
<1>3. /\ Alone(r) \/ Called(r)
      /\ Bottom(r) /\ Registering(r) /\ (Called(r) => OnTop(r))
  BY <1>1 DEF IInv, RequestOK
<1>4. (Alone(r)' <=> Alone(r)) /\ (Called(r)' <=> Called(r))
  BY <1>1 DEF Alone, Called
<1>5. Bottom(r)' /\ (Called(r)' => OnTop(r)')
  BY <1>1, <1>3, <1>4, SameClient DEF Bottom, OnTop
<1>6. Registering(r)'
  BY <1>1, <1>3, <1>4 DEF Registering, HasPerson
<1> QED BY <1>1, <1>2, <1>3, <1>4, <1>5, <1>6, RunsOn

\* The frame of a command that starts again.
Restarted(r) ==
  [Frame(Top(r)) EXCEPT !.attempts = Scope!AttemptsAfter(thrown[r], Top(r).attempts)]

\* The catch block of a command restarts it, at most once after saving errors.
LEMMA RestartKeeps ==
  ASSUME IInv, NEW r \in Requests, pc[r] = "run", thrown[r] # None,
         NEW f, f = Restarted(r), TopIs(r, f),
         thrown' = [thrown EXCEPT ![r] = None],
         pc' = pc, store' = store, answer' = answer, now' = now, input' = input,
         caller' = caller, ran' = ran, app' = app
  PROVE  Kept(r)
<1>1. tables' = tables /\ before' = before /\ DOMAIN thrown = Requests
  BY DEF app, IInv, Global
<1>2. FrameOK(Top(r))
  BY Shapes
<1>3. /\ FrameOK(f) /\ f.service = Top(r).service /\ f.arg = Top(r).arg
      /\ f.at = "start"
  <2>1. Scope!AttemptsAfter(thrown[r], Top(r).attempts) \in 0..1
    BY <1>2 DEF FrameOK, Scope!AttemptsAfter
  <2> QED BY <2>1 DEF Frame, FrameOK, Restarted
<1>4. StackOf(r)
  BY NewTop
<1>5. OnlyOf(r) /\ Grow(r) /\ Unnoticed(r)
  BY <1>1, <1>4 DEF OnlyOf, Grow, Unnoticed, StackOf, IInv, Global
<1>6. CASE Alone(r)
  <2>1. stack'[r] = <<f>> /\ store'[r] = <<store[r][1]>> /\ Top(r) = stack[r][1]
    BY <1>6, NewTop, Shapes DEF Alone
  <2>2. Alone(r)' /\ ~Called(r)' /\ Bottom(r)' /\ stack'[r][1] = f
    <3>1. FrameOK(f) /\ f.service = stack[r][1].service /\ f.at = "start"
      BY <1>3, <2>1
    <3>2. stack'[r] = <<f>> /\ store'[r] = <<store[r][1]>> /\ input'[r] = input[r]
      BY <2>1
    <3>3. f.service \in Callers /\ f.at # "start" => f.user = Whom(r)
      BY <3>1
    <3> QED BY <3>1, <3>2, <3>3, AloneAfter
  <2>3. Registering(r)'
    BY <1>3, <2>2 DEF Registering
  <2> QED BY <1>1, <1>5, <2>2, <2>3, RunsOn
<1>7. CASE Called(r)
  <2>1. stack'[r] = <<stack[r][1], f>> /\ Top(r) = stack[r][2]
    BY <1>7, NewTop, Shapes
  <2>2. /\ Called(r)' /\ ~Alone(r)' /\ Bottom(r)' /\ OnTop(r)'
        /\ stack'[r][1] = stack[r][1]
    BY <1>3, <1>7, <2>1, CalledAfter
  <2>3. Registering(r)
    BY DEF IInv, RequestOK
  <2>4. Registering(r)'
    BY <1>1, <2>2, <2>3 DEF Registering, HasPerson
  <2> QED BY <1>1, <1>5, <2>2, <2>4, RunsOn
<1> QED BY <1>6, <1>7, Shapes

\* An error, or what the proxy trips over, goes up to the service below.
LEMMA PopKeeps ==
  ASSUME IInv, NEW r \in Requests, pc[r] = "run", Called(r),
         stack' = [stack EXCEPT ![r] = Front(stack[r])],
         store' = [store EXCEPT ![r] = Front(store[r])],
         thrown' = thrown \/ stack[r][1].service = "getFullCompany",
         thrown[r] # None \/ stack[r][1].service = "getFullCompany",
         DOMAIN thrown' = Requests, \A q \in Requests \ {r} : thrown'[q] = thrown[q],
         pc' = pc, answer' = answer, now' = now, input' = input,
         caller' = caller, ran' = ran, app' = app
  PROVE  Kept(r)
<1> PICK f : f = stack[r][1]
  OBVIOUS
<1>1. tables' = tables /\ before' = before
  BY DEF app
<1>2. Front(stack[r]) = <<f>> /\ Front(store[r]) = <<store[r][1]>>
  BY Shapes
<1>3. /\ stack'[r] = <<f>> /\ store'[r] = <<store[r][1]>>
      /\ OnlyOf(r) /\ Grow(r) /\ Unnoticed(r)
  BY <1>1, <1>2 DEF OnlyOf, Grow, Unnoticed, IInv, Global
<1>4. FrameOK(f) /\ (f.service \in Callers /\ f.at # "start" => f.user = Whom(r))
  BY DEF IInv, RequestOK, Bottom
<1>5. Alone(r)' /\ ~Called(r)' /\ Bottom(r)' /\ stack'[r][1] = f
  BY <1>3, <1>4, AloneAfter
<1>6. Registering(r)'
  <2>1. Registering(r)
    BY DEF IInv, RequestOK
  <2>2. CASE f.service = "getFullCompany"
    BY <1>5, <2>2 DEF Registering
  <2>3. CASE f.service # "getFullCompany"
    <3>1. thrown'[r] # None
      BY <2>3
    <3> QED BY <1>1, <1>5, <2>1, <3>1 DEF Registering, HasPerson
  <2> QED BY <2>2, <2>3
<1> QED BY <1>3, <1>5, <1>6, RunsOn

\* The catch block of executeDatabaseScope, or that of fetch.
LEMMA CatchKeeps ==
  ASSUME IInv, NEW r \in Requests, Catch(r), app' = app
  PROVE  Kept(r)
<1> PICK f : f = Restarted(r)
  OBVIOUS
<1>1. /\ pc[r] = "run" /\ thrown[r] # None
      /\ now' = now /\ input' = input /\ caller' = caller /\ ran' = ran
  BY DEF Catch
<1>2. \/ /\ TopIs(r, f)
         /\ thrown' = [thrown EXCEPT ![r] = None]
         /\ pc' = pc /\ store' = store /\ answer' = answer
      \/ /\ stack' = [stack EXCEPT ![r] = Front(stack[r])]
         /\ store' = [store EXCEPT ![r] = Front(store[r])]
         /\ \/ /\ Len(stack[r]) = 1 /\ CatchOfFetch(r)
               /\ thrown' = [thrown EXCEPT ![r] = None]
            \/ /\ Len(stack[r]) # 1
               /\ pc' = pc /\ answer' = answer /\ thrown' = thrown
  BY DEF Catch, Top, Last, Restarted, TopIs
<1>3. CASE /\ TopIs(r, f)
           /\ thrown' = [thrown EXCEPT ![r] = None]
           /\ pc' = pc /\ store' = store /\ answer' = answer
  BY <1>1, <1>3, RestartKeeps
<1>4. CASE /\ stack' = [stack EXCEPT ![r] = Front(stack[r])]
           /\ store' = [store EXCEPT ![r] = Front(store[r])]
           /\ Len(stack[r]) = 1 /\ CatchOfFetch(r)
           /\ thrown' = [thrown EXCEPT ![r] = None]
  <2>1. answer[r] = None /\ Alone(r)
    BY <1>1, <1>4, Shapes DEF IInv, RequestOK
  <2>2. Front(stack[r]) = <<>> /\ Front(store[r]) = <<>>
    BY <1>1, <2>1, Shapes
  <2>3. /\ AnswerOf(r) /\ pc'[r] \in Over
        /\ IF pc'[r] = "answered" THEN answer'[r] \in Answers ELSE answer'[r] = None
        /\ pc'[r] = "answered" => answer'[r].status # 200
    BY <1>4, <2>1, CatchOfFetchFacts
  <2>4. tables' = tables /\ before' = before
    BY <1>1 DEF app
  <2>5. OnlyOf(r)
    BY <1>1, <1>4, <2>3, <2>4 DEF OnlyOf, AnswerOf, IInv, Global
  <2>6. Grow(r) /\ Empty(r)' /\ thrown'[r] = None
    BY <1>4, <2>2, <2>4 DEF Grow, Empty, IInv, Global
  <2> QED BY <1>1, <2>3, <2>4, <2>5, <2>6, EndsUnregistered
<1>5. CASE /\ stack' = [stack EXCEPT ![r] = Front(stack[r])]
           /\ store' = [store EXCEPT ![r] = Front(store[r])]
           /\ Len(stack[r]) # 1
           /\ pc' = pc /\ answer' = answer /\ thrown' = thrown
  <2>1. Called(r)
    BY <1>1, <1>5, Shapes
  <2>2. DOMAIN thrown = Requests
    BY DEF IInv, Global
  <2> QED BY <1>1, <1>5, <2>1, <2>2, PopKeeps
<1> QED BY <1>2, <1>3, <1>4, <1>5

-------------------------------------------------------------------------------
\* A module calls another one, for the user it works for itself.
LEMMA CallKeeps ==
  ASSUME IInv, NEW r \in Requests, pc[r] = "run", Alone(r), Top(r).service \in Callers,
         NEW user, NEW service, NEW arg, NEW then,
         Call(r, user, service, arg, then),
         user = Whom(r), service \notin Callers,
         Top(r).service = "registerCompany" =>
           /\ arg = Top(r).arg
           /\ \/ then = "user" /\ service \in {"addPerson", "getPersonByIin"}
              \/ then = "company" /\ service = "addUser"
           /\ Top(r).arg.bin \notin before[r]
           /\ then = "company" => HasPerson(Top(r).arg),
         now' = now, input' = input, pc' = pc, caller' = caller, thrown' = thrown,
         answer' = answer, app' = app
  PROVE  Kept(r)
<1> PICK f : f = [Top(r) EXCEPT !.at = then, !.user = user]
  OBVIOUS
<1> PICK g : g = Frame([service |-> service, domainType |-> "request", valid |-> TRUE,
                        arg |-> arg])
  OBVIOUS
<1> PICK who : who = [type |-> "ModuleCaller", user |-> user]
  OBVIOUS
<1> PICK w : w = store[r][1]
  OBVIOUS
<1> PICK waiting : waiting = [stack[r] EXCEPT ![Len(stack[r])] = f]
  OBVIOUS
<1>1. tables' = tables /\ before' = before
  BY DEF app
<1>2. /\ stack' = [stack EXCEPT ![r] = Append(waiting, g)]
      /\ store' = [store EXCEPT ![r] = Append(store[r], who)]
      /\ ran' = ran \union {[request |-> r, service |-> service, caller |-> who]}
  BY DEF Call, StoreRun, Top, Last
<1>3. waiting = <<f>> /\ store[r] = <<w>>
  <2> PICK a : a = stack[r][1]
    OBVIOUS
  <2>1. stack[r] = <<a>> /\ Len(stack[r]) = 1
    BY DEF Alone
  <2> QED BY <2>1, Replaced DEF Alone
<1>4. DOMAIN stack = Requests /\ DOMAIN store = Requests
  BY DEF IInv, Global
<1>5. stack'[r] = <<f, g>> /\ store'[r] = <<w, who>>
  <2>1. stack'[r] = Append(waiting, g) /\ store'[r] = Append(store[r], who)
    BY <1>2, <1>4
  <2>2. Append(<<f>>, g) = <<f, g>> /\ Append(<<w>>, who) = <<w, who>>
    BY Tuples
  <2> QED BY <1>3, <2>1, <2>2
<1>6. OnlyOf(r) /\ Grow(r) /\ Unnoticed(r)
  BY <1>1, <1>2, <1>4 DEF OnlyOf, Grow, Unnoticed, IInv, Global
<1>7. /\ stack'[r][1] = f /\ stack'[r][2] = g /\ store'[r][1] = w /\ store'[r][2] = who
      /\ Called(r)' /\ ~Alone(r)'
  <2>1. stack'[r][1] = f /\ stack'[r][2] = g /\ store'[r][1] = w /\ store'[r][2] = who
    BY <1>5, Items
  <2> QED BY <1>5, <2>1 DEF Called, Alone
<1>8. /\ FrameOK(Top(r)) /\ Top(r) = stack[r][1]
      /\ Bottom(r) /\ Registering(r)
  BY Shapes DEF IInv, RequestOK
<1>9. /\ FrameOK(f) /\ f.at = then /\ f.user = user
      /\ f.service = Top(r).service /\ f.arg = Top(r).arg
      /\ FrameOK(g) /\ g.service = service /\ g.arg = arg
  BY <1>8 DEF FrameOK, Frame
<1>10. Bottom(r)'
  BY <1>7, <1>8, <1>9, SameClient DEF Bottom
<1>11. OnTop(r)'
  BY <1>7, <1>9, SameClient DEF OnTop
<1>12. Registering(r)'
  BY <1>1, <1>7, <1>9 DEF Registering, HasPerson
<1>13. \A run \in ran' : run \in ran \/
         (run.request = r /\ UserOf(run.caller) = Whom(r))
  BY <1>2, UserOfCallers
<1> QED BY <1>6, <1>7, <1>10, <1>11, <1>12, <1>13, RunsOn

HasNow(arg) == \E p \in tables'.person : p.iin = arg.iin

\* A service other than the registration returns, perhaps having committed a person or
\* a user.
LEMMA ReturnKeeps ==
  ASSUME IInv, NEW r \in Requests, pc[r] = "run", NEW value, Return(r, value),
         Top(r).service # "registerCompany",
         Grow(r), tables'.company = tables.company,
         Called(r) /\ stack[r][1].service = "registerCompany" =>
           /\ stack[r][1].at = "user" => HasNow(stack[r][1].arg)
           /\ stack[r][1].at = "company" =>
                value \in tables'.user /\ value.iin = stack[r][1].arg.iin,
         now' = now, input' = input, caller' = caller, thrown' = thrown,
         thrown[r] = None, ran' = ran, before' = before
  PROVE  Kept(r)
<1>1. StackOf(r) /\ StoreOf(r) /\ AnswerOf(r)
  BY ReturnShape
<1>2. OnlyOf(r) /\ Unnoticed(r)
  BY <1>1 DEF OnlyOf, Unnoticed, StackOf, StoreOf, AnswerOf, IInv, Global
<1>3. CASE Alone(r)
  <2>1. /\ stack'[r] = <<>> /\ store'[r] = <<>> /\ pc'[r] = "answered"
        /\ answer'[r] \in Answers
    BY <1>3, ReturnShape
  <2>0. Top(r) = stack[r][1]
    BY <1>3, Shapes
  <2>2. Empty(r)'
    BY <2>1 DEF Empty
  <2>3. ~Registers(r)
    BY <2>0, <2>1 DEF IInv, RequestOK, Bottom, Registers
  <2> QED BY <1>2, <2>1, <2>2, <2>3, EndsUnregistered DEF Over
<1>4. CASE Called(r)
  <2> PICK f : f = [stack[r][1] EXCEPT !.got = value]
    OBVIOUS
  <2>1. /\ stack'[r] = <<f>> /\ store'[r] = <<store[r][1]>>
        /\ pc'[r] = "run" /\ answer'[r] = answer[r]
    BY <1>4, ReturnShape
  <2>2. Bottom(r) /\ OnTop(r) /\ Registering(r)
    BY <1>4 DEF IInv, RequestOK
  <2>3. /\ FrameOK(f) /\ f.service = stack[r][1].service /\ f.at = stack[r][1].at
        /\ f.user = stack[r][1].user /\ f.arg = stack[r][1].arg /\ f.got = value
    BY <2>2 DEF Bottom, FrameOK
  <2>4. Alone(r)' /\ ~Called(r)' /\ Bottom(r)' /\ stack'[r][1] = f
    <3>1. f.service \in Callers /\ f.at # "start" => f.user = Whom(r)
      BY <2>2, <2>3 DEF Bottom
    <3>2. FrameOK(f) /\ f.service = stack[r][1].service /\ input'[r] = input[r]
      BY <2>3
    <3>3. stack'[r] = <<f>> /\ store'[r] = <<store[r][1]>>
      BY <2>1
    <3> QED BY <3>1, <3>2, <3>3, AloneAfter
  <2>5. Registering(r)'
    <3> SUFFICES ASSUME f.service = "registerCompany"
                 PROVE  /\ f.at # "start" => f.arg.bin \notin before[r]
                        /\ f.at \in {"user", "company", "commit"} => HasPerson(f.arg)'
                        /\ f.at \in {"company", "commit"} =>
                             f.got \in tables'.user /\ f.got.iin = f.arg.iin
      BY <2>4 DEF Registering, HasPerson
    <3>1. f.at \in {"user", "company"}
      BY <2>2, <2>3 DEF OnTop
    <3>2. HasPerson(f.arg) => HasPerson(f.arg)'
      BY DEF HasPerson, Grow
    <3>3. /\ f.arg.bin \notin before[r]
          /\ f.at = "company" => HasPerson(f.arg)
      BY <2>2, <2>3, <3>1 DEF Registering
    <3>4. /\ f.at = "user" => HasPerson(f.arg)'
          /\ f.at = "company" => f.got \in tables'.user /\ f.got.iin = f.arg.iin
      <4>1. stack[r][1].service = "registerCompany"
        BY <2>3
      <4>2. /\ stack[r][1].at = "user" => HasNow(stack[r][1].arg)
            /\ stack[r][1].at = "company" =>
                 value \in tables'.user /\ value.iin = stack[r][1].arg.iin
        BY <1>4, <4>1
      <4> QED BY <2>3, <4>2 DEF HasPerson, HasNow
    <3> QED BY <3>1, <3>2, <3>3, <3>4
  <2> QED BY <1>2, <2>1, <2>4, <2>5, RunsOn
<1> QED BY <1>3, <1>4, Shapes

\* A failure ends the request.
LEMMA FailKeeps ==
  ASSUME IInv, NEW r \in Requests, pc[r] = "run", thrown[r] = None,
         NEW name \in AnswerNames, name # "ok", Fail(r, name),
         now' = now, input' = input, caller' = caller, ran' = ran, app' = app
  PROVE  Kept(r)
<1>1. tables' = tables /\ before' = before
  BY DEF app
<1>2. /\ StackOf(r) /\ StoreOf(r) /\ AnswerOf(r) /\ thrown' = thrown
      /\ stack'[r] = <<>> /\ store'[r] = <<>> /\ pc'[r] = "answered"
      /\ answer'[r] \in Answers /\ answer'[r].status # 200
  BY FailShape
<1>3. OnlyOf(r) /\ Grow(r)
  BY <1>1, <1>2 DEF OnlyOf, Grow, StackOf, StoreOf, AnswerOf, IInv, Global
<1>4. Empty(r)'
  BY <1>2 DEF Empty
<1> QED BY <1>1, <1>2, <1>3, <1>4, EndsUnregistered DEF Over

\* A step of a service within its frame, to which a registration brings what it needs.
LEMMA StepKeeps ==
  ASSUME IInv, NEW r \in Requests, pc[r] = "run", thrown[r] = None, NEW at,
         Step(r, at), Top(r).service \notin Callers \/ (Top(r).at = "company" /\ at = "commit"),
         now' = now, input' = input, pc' = pc, caller' = caller, store' = store,
         thrown' = thrown, answer' = answer, ran' = ran, app' = app
  PROVE  Kept(r)
<1> PICK f : f = [Top(r) EXCEPT !.at = at]
  OBVIOUS
<1>1. tables' = tables /\ before' = before
  BY DEF app
<1>2. StackOf(r)
  BY StepTop
<1>3. OnlyOf(r) /\ Grow(r) /\ Unnoticed(r)
  BY <1>1, <1>2 DEF OnlyOf, Grow, Unnoticed, StackOf, IInv, Global
<1>4. /\ FrameOK(f) /\ f.service = Top(r).service /\ f.arg = Top(r).arg /\ f.at = at
      /\ f.user = Top(r).user /\ f.got = Top(r).got
  BY Shapes DEF FrameOK
<1>5. /\ Bottom(r) /\ Registering(r)
  BY DEF IInv, RequestOK
<1>6. CASE Alone(r)
  <2>1. /\ stack'[r] = <<f>> /\ store'[r] = <<store[r][1]>> /\ Top(r) = stack[r][1]
    BY <1>6, StepTop, Shapes DEF Alone
  <2>2. f.service \in Callers /\ f.at # "start" => f.user = Whom(r)
    BY <1>4, <1>5, <2>1 DEF Bottom
  <2>3. Alone(r)' /\ ~Called(r)' /\ Bottom(r)' /\ stack'[r][1] = f
    <3>1. FrameOK(f) /\ f.service = stack[r][1].service /\ input'[r] = input[r]
      BY <1>4, <2>1
    <3>2. stack'[r] = <<f>> /\ store'[r] = <<store[r][1]>>
      BY <2>1
    <3> QED BY <2>2, <3>1, <3>2, AloneAfter
  <2>4. Registering(r)'
    <3>1. f.service = "registerCompany" => stack[r][1].at = "company" /\ f.at = "commit"
      BY <1>4, <2>1 DEF Callers
    <3>2. /\ f.service = stack[r][1].service /\ f.arg = stack[r][1].arg
          /\ f.got = stack[r][1].got
      BY <1>4, <2>1
    <3>3. HasPerson(f.arg) => HasPerson(f.arg)'
      BY <1>1, <1>4 DEF HasPerson
    <3> QED BY <1>1, <1>5, <1>6, <2>3, <3>1, <3>2, <3>3 DEF Registering
  <2> QED BY <1>3, <2>3, <2>4, RunsOn
<1>7. CASE Called(r)
  <2>1. stack'[r] = <<stack[r][1], f>> /\ Top(r) = stack[r][2]
    BY <1>7, StepTop, Shapes
  <2>2. /\ Called(r)' /\ ~Alone(r)' /\ Bottom(r)' /\ OnTop(r)'
        /\ stack'[r][1] = stack[r][1]
    BY <1>4, <1>7, <2>1, CalledAfter
  <2>3. Registering(r)'
    BY <1>1, <1>5, <2>2 DEF Registering, HasPerson
  <2> QED BY <1>3, <2>2, <2>3, RunsOn
<1> QED BY <1>6, <1>7, Shapes

-------------------------------------------------------------------------------
\* A registration starts, or finds the company.
LEMMA ExistCompanyKeeps ==
  ASSUME IInv, NEW r \in Requests, ExistCompany(r)
  PROVE  Kept(r)
<1> PICK who : who = PayloadCaller(r)
  OBVIOUS
<1> PICK f : f = [Top(r) EXCEPT !.at = "person", !.user = who]
  OBVIOUS
<1>1. /\ pc[r] = "run" /\ thrown[r] = None
      /\ Top(r).service = "registerCompany" /\ Top(r).at = "start"
      /\ ran' = ran \union {[request |-> r, service |-> "registerCompany", caller |-> who]}
      /\ now' = now /\ input' = input /\ caller' = caller /\ app' = app
  BY DEF ExistCompany, At
<1>2. Alone(r) /\ who = Whom(r) /\ Top(r) = stack[r][1]
  BY <1>1, Shapes DEF Callers
<1>3. tables' = tables /\ before' = before
  BY <1>1 DEF app
<1>4. \A run \in ran' : run \in ran \/
        (run.request = r /\ UserOf(run.caller) = Whom(r))
  <2>1. UserOf(who) = Whom(r)
    BY <1>2, UserOfCallers
  <2> QED BY <1>1, <2>1
<1>5. CASE {c \in Records("company") : c.bin = Arg(r).bin} # {}
  <2>1. Fail(r, "CompanyAlreadyExistError") /\ "CompanyAlreadyExistError" \in AnswerNames
    BY <1>5 DEF ExistCompany, AnswerNames
  <2>2. /\ StackOf(r) /\ StoreOf(r) /\ AnswerOf(r) /\ thrown' = thrown
        /\ stack'[r] = <<>> /\ store'[r] = <<>> /\ pc'[r] = "answered"
        /\ answer'[r] \in Answers /\ answer'[r].status # 200
    BY <2>1, FailShape
  <2>3. OnlyOf(r) /\ Grow(r)
    BY <1>1, <1>3, <2>2
    DEF OnlyOf, Grow, StackOf, StoreOf, AnswerOf, IInv, Global
  <2>4. RequestOK(r) /\ Bottom(r)
    BY <1>1 DEF IInv, RequestOK
  <2>5. Signed(r)' /\ Whom(r)' = Whom(r)
    BY <1>1, <2>4, SameClient DEF Bottom
  <2>6. Global'
    <3>1. \A run \in ran' : run \in ran \/
            (run.request = r /\ pc'[r] # "idle" /\ Signed(r)' /\ UserOf(run.caller) = Whom(r)')
      BY <1>4, <2>2, <2>5
    <3> QED BY <1>1, <1>3, <2>2, <2>3, <3>1, GlobalKept DEF IInv, Global
  <2>7. ~RegisteredBy(r)' /\ Empty(r)' /\ None \notin Answers
    BY <1>1, <1>3, <2>2, <2>4, RegistrationAssumption DEF RequestOK, RegisteredBy, Empty
  <2>8. RequestOK(r)'
    BY <1>1, <1>3, <2>2, <2>4, <2>7 DEF RequestOK, Over
  <2> QED BY <2>3, <2>6, <2>8 DEF Kept
<1>6. CASE {c \in Records("company") : c.bin = Arg(r).bin} = {}
  <2>1. /\ TopIs(r, f)
        /\ pc' = pc /\ answer' = answer /\ store' = store /\ thrown' = thrown
    BY <1>6 DEF ExistCompany, Top, Last, TopIs
  <2>2. StackOf(r) /\ stack'[r] = <<f>> /\ store'[r] = <<store[r][1]>>
    BY <1>1, <1>2, <2>1, NewTop DEF Alone
  <2>3. FrameOK(Top(r))
    BY <1>1, Shapes
  <2>4. /\ FrameOK(f) /\ f.service = stack[r][1].service /\ f.arg = Top(r).arg
        /\ f.user = Whom(r) /\ f.at = "person"
    BY <1>2, <2>3 DEF FrameOK
  <2>5. Alone(r)' /\ ~Called(r)' /\ Bottom(r)' /\ stack'[r][1] = f
    <3>1. input'[r] = input[r]
      BY <1>1
    <3> QED BY <1>1, <2>2, <2>4, <3>1, AloneAfter
  <2>6. f.arg.bin \notin before[r]
    <3>1. before[r] \subseteq {c.bin : c \in tables.company}
      BY DEF IInv, RequestOK
    <3>2. Arg(r).bin \notin {c.bin : c \in tables.company}
      BY <1>6 DEF Records
    <3> QED BY <2>4, <3>1, <3>2 DEF Arg
  <2>7. Registering(r)'
    BY <1>3, <2>4, <2>5, <2>6 DEF Registering
  <2>8. OnlyOf(r) /\ Grow(r) /\ Unnoticed(r)
    BY <1>1, <1>3, <2>1, <2>2 DEF OnlyOf, Grow, Unnoticed, StackOf, IInv, Global
  <2>9. pc'[r] = "run" /\ answer'[r] = answer[r] /\ now' = now
    BY <1>1, <2>1
  <2> QED BY <1>1, <1>4, <2>5, <2>7, <2>8, <2>9, RunsOn
<1> QED BY <1>5, <1>6

\* It has a person added, or looked for.
LEMMA ProcessPersonKeeps ==
  ASSUME IInv, NEW r \in Requests, ProcessPerson(r)
  PROVE  Kept(r)
<1> PICK service : service = IF Arg(r).newPerson THEN "addPerson" ELSE "getPersonByIin"
  OBVIOUS
<1> PICK user, arg : user = Top(r).user /\ arg = Arg(r)
  OBVIOUS
<1>1. /\ pc[r] = "run" /\ thrown[r] = None
      /\ Top(r).service = "registerCompany" /\ Top(r).at = "person"
      /\ Call(r, user, service, arg, "user")
      /\ now' = now /\ input' = input /\ pc' = pc /\ caller' = caller /\ thrown' = thrown
      /\ answer' = answer /\ app' = app
  BY DEF ProcessPerson, At
<1>2. Top(r).service \in Callers /\ Alone(r) /\ Top(r) = stack[r][1]
  BY <1>1, Shapes DEF Callers
<1>3. Bottom(r) /\ Registering(r)
  BY <1>1 DEF IInv, RequestOK
<1>4. user = Whom(r) /\ Top(r).arg.bin \notin before[r]
  BY <1>1, <1>2, <1>3 DEF Bottom, Registering
<1>5. service \in {"addPerson", "getPersonByIin"} /\ service \notin Callers /\ arg = Top(r).arg
  BY DEF Callers, Arg
<1> QED BY <1>1, <1>2, <1>4, <1>5, CallKeeps

\* It has a user added.
LEMMA AddUserKeeps ==
  ASSUME IInv, NEW r \in Requests, AddUser(r)
  PROVE  Kept(r)
<1> PICK user, arg : user = Top(r).user /\ arg = Arg(r)
  OBVIOUS
<1>1. /\ pc[r] = "run" /\ thrown[r] = None
      /\ Top(r).service = "registerCompany" /\ Top(r).at = "user"
      /\ Call(r, user, "addUser", arg, "company")
      /\ now' = now /\ input' = input /\ pc' = pc /\ caller' = caller /\ thrown' = thrown
      /\ answer' = answer /\ app' = app
  BY DEF AddUser, At
<1>2. Top(r).service \in Callers /\ Alone(r) /\ Top(r) = stack[r][1]
  BY <1>1, Shapes DEF Callers
<1>3. Bottom(r) /\ Registering(r)
  BY <1>1 DEF IInv, RequestOK
<1>4. user = Whom(r) /\ Top(r).arg.bin \notin before[r] /\ HasPerson(Top(r).arg)
  BY <1>1, <1>2, <1>3 DEF Bottom, Registering
<1>5. "addUser" \notin Callers /\ arg = Top(r).arg
  BY DEF Callers, Arg
<1> QED BY <1>1, <1>2, <1>4, <1>5, CallKeeps

\* It looks for the company again.
LEMMA AddCompanyKeeps ==
  ASSUME IInv, NEW r \in Requests, AddCompany(r)
  PROVE  Kept(r)
<1>1. /\ pc[r] = "run" /\ thrown[r] = None /\ Top(r).at = "company"
      /\ now' = now /\ input' = input /\ caller' = caller /\ ran' = ran /\ app' = app
      /\ \/ Fail(r, "CompanyAlreadyExistError")
         \/ /\ Step(r, "commit")
            /\ pc' = pc /\ answer' = answer /\ store' = store /\ thrown' = thrown
  BY DEF AddCompany, At
<1>2. "CompanyAlreadyExistError" \in AnswerNames
  BY DEF AnswerNames
<1>3. CASE Fail(r, "CompanyAlreadyExistError")
  BY <1>1, <1>2, <1>3, FailKeeps
<1>4. CASE /\ Step(r, "commit")
           /\ pc' = pc /\ answer' = answer /\ store' = store /\ thrown' = thrown
  BY <1>1, <1>4, StepKeeps
<1> QED BY <1>1, <1>3, <1>4

\* It commits the company, with its person and its user in place.
LEMMA CommitCompanyKeeps ==
  ASSUME IInv, NEW r \in Requests, CommitCompany(r)
  PROVE  Kept(r)
<1> PICK c : c = [bin |-> Arg(r).bin, employee |-> Top(r).got, by |-> r]
  OBVIOUS
<1>1. /\ pc[r] = "run" /\ thrown[r] = None
      /\ Top(r).service = "registerCompany" /\ Top(r).at = "commit"
      /\ tables' = [tables EXCEPT !["company"] = tables["company"] \union {c}]
      /\ Return(r, r)
      /\ now' = now /\ input' = input /\ caller' = caller /\ thrown' = thrown /\ ran' = ran
      /\ before' = before
  BY DEF CommitCompany, Commit, At
<1>2. Alone(r) /\ Top(r) = stack[r][1]
  BY <1>1, Shapes DEF Callers
<1>3. RequestOK(r) /\ Bottom(r) /\ Registering(r) /\ Global
  BY <1>1 DEF IInv, RequestOK
<1>4. /\ StackOf(r) /\ StoreOf(r) /\ AnswerOf(r)
      /\ stack'[r] = <<>> /\ store'[r] = <<>> /\ pc'[r] = "answered"
      /\ answer'[r] \in Answers /\ answer'[r].status = 200
  BY <1>1, <1>2, ReturnShape
<1>5. OnlyOf(r)
  BY <1>1, <1>3, <1>4 DEF OnlyOf, StackOf, StoreOf, AnswerOf, Global
<1>6. /\ tables'.company = tables.company \union {c}
      /\ tables'.person = tables.person /\ tables'.user = tables.user
      /\ DOMAIN tables' = {"company", "person", "user"}
  BY <1>1, <1>3 DEF Global
<1>7. Grow(r) /\ c.by = r
  BY <1>6 DEF Grow
<1>8. /\ c.bin \notin before[r] /\ c.employee \in tables.user
      /\ \E p \in tables.person : p.iin = c.employee.iin
  BY <1>1, <1>2, <1>3 DEF Registering, HasPerson, Arg
<1>9. Global'
  <2>1. RunsForItsUser'
    BY <1>1, <1>3 DEF Global, RunsForItsUser, UserOf, DomainUser
  <2>2. CompanyHasItsPeople'
    BY <1>3, <1>6, <1>8 DEF Global, CompanyHasItsPeople
  <2>3. NoLateDuplicate'
    BY <1>1, <1>3, <1>6, <1>7, <1>8 DEF Global, NoLateDuplicate
  <2> QED BY <1>1, <1>3, <1>4, <1>5, <1>6, <1>7, <2>1, <2>2, <2>3
          DEF Global, OnlyOf
<1>10. RegisteredBy(r)' /\ Empty(r)' /\ None \notin Answers
  BY <1>4, <1>6, <1>7, RegistrationAssumption DEF RegisteredBy, Empty
<1>11. before'[r] \subseteq {d.bin : d \in tables'.company}
  BY <1>1, <1>3, <1>6 DEF RequestOK
<1>12. Registers(r)'
  <2>1. input[r] # None /\ Routed(r)
    BY <1>1, <1>3, RegistrationAssumption DEF RequestOK
  <2>2. input[r].body.service = "registerCompany"
    BY <1>1, <1>2, <1>3 DEF Bottom
  <2> QED BY <1>1, <2>1, <2>2, SameAim DEF Registers
<1>13. RequestOK(r)'
  BY <1>1, <1>3, <1>4, <1>10, <1>11, <1>12 DEF RequestOK, Over
<1> QED BY <1>5, <1>7, <1>9, <1>13 DEF Kept

\* The result of a service that looks something up.
LEMMA ResultKeeps ==
  ASSUME IInv, NEW r \in Requests, pc[r] = "run", thrown[r] = None,
         Top(r).service # "registerCompany",
         NEW found, NEW error \in AnswerNames, error # "ok",
         Result(r, found, error),
         Called(r) /\ stack[r][1].service = "registerCompany" =>
           /\ stack[r][1].at = "user"
           /\ \A value \in found : HasPerson(stack[r][1].arg),
         now' = now, input' = input, caller' = caller, ran' = ran, app' = app
  PROVE  Kept(r)
<1>1. /\ tables' = tables /\ before' = before /\ Grow(r)
      /\ DOMAIN thrown = Requests
  BY DEF app, Grow, IInv, Global
<1>2. \/ \E value \in found : Return(r, value) /\ thrown' = thrown
      \/ /\ Len(stack[r]) > 1 /\ stack[r][1].service = "getFullCompany"
         /\ stack' = [stack EXCEPT ![r] = Front(stack[r])]
         /\ store' = [store EXCEPT ![r] = Front(store[r])]
         /\ thrown' = [thrown EXCEPT ![r] = "other"]
         /\ pc' = pc /\ answer' = answer
      \/ Fail(r, error)
  BY DEF Result
<1>3. ASSUME NEW value \in found, Return(r, value), thrown' = thrown
      PROVE  Kept(r)
  <2>1. Called(r) /\ stack[r][1].service = "registerCompany" =>
          stack[r][1].at = "user" /\ HasNow(stack[r][1].arg)
    BY <1>1 DEF HasPerson, HasNow
  <2> QED BY <1>1, <1>3, <2>1, ReturnKeeps
<1>4. CASE /\ Len(stack[r]) > 1 /\ stack[r][1].service = "getFullCompany"
           /\ stack' = [stack EXCEPT ![r] = Front(stack[r])]
           /\ store' = [store EXCEPT ![r] = Front(store[r])]
           /\ thrown' = [thrown EXCEPT ![r] = "other"]
           /\ pc' = pc /\ answer' = answer
  <2>1. Called(r)
    <3>1. ~(1 > 1)
      OBVIOUS
    <3>2. Len(stack[r]) # 1
      BY <1>4, <3>1
    <3> QED BY <3>2, Shapes
  <2> QED BY <1>1, <1>4, <2>1, PopKeeps
<1>5. CASE Fail(r, error)
  BY <1>5, FailKeeps
<1> QED BY <1>2, <1>3, <1>4, <1>5

\* A service that a registration has called is one of three.
LEMMA CalledByRegistration ==
  ASSUME IInv, NEW r \in Requests, pc[r] = "run",
         Called(r), stack[r][1].service = "registerCompany"
  PROVE  /\ Top(r).arg = stack[r][1].arg
         /\ \/ stack[r][1].at = "user" /\ Top(r).service \in {"addPerson", "getPersonByIin"}
            \/ stack[r][1].at = "company" /\ Top(r).service = "addUser"
<1>1. OnTop(r)
  BY DEF IInv, RequestOK
<1> QED BY <1>1, Shapes DEF OnTop

\* A company is looked up by its id.
LEMMA GetCompanyKeeps ==
  ASSUME IInv, NEW r \in Requests, GetCompany(r)
  PROVE  Kept(r)
<1> PICK found : found = {c \in Records("company") : c.by = Arg(r).id}
  OBVIOUS
<1>1. /\ pc[r] = "run" /\ thrown[r] = None /\ Top(r).service = "getCompany"
      /\ Result(r, found, "CompanyDoesntExistByIdError")
      /\ now' = now /\ input' = input /\ caller' = caller /\ ran' = ran /\ app' = app
  BY DEF GetCompany, At
<1>2. ~(Called(r) /\ stack[r][1].service = "registerCompany")
  BY <1>1, CalledByRegistration
<1>3. "CompanyDoesntExistByIdError" \in AnswerNames
  BY DEF AnswerNames
<1> QED BY <1>1, <1>2, <1>3, ResultKeeps

\* A person is looked up by its IIN, also for a registration.
LEMMA GetPersonKeeps ==
  ASSUME IInv, NEW r \in Requests, GetPersonByIin(r)
  PROVE  Kept(r)
<1> PICK found : found = {p \in Records("person") : p.iin = Arg(r).iin}
  OBVIOUS
<1>1. /\ pc[r] = "run" /\ thrown[r] = None /\ Top(r).service = "getPersonByIin"
      /\ Result(r, found, "PersonDoesntExistByIinError")
      /\ now' = now /\ input' = input /\ caller' = caller /\ ran' = ran /\ app' = app
  BY DEF GetPersonByIin, At
<1>2. Called(r) /\ stack[r][1].service = "registerCompany" =>
        /\ stack[r][1].at = "user"
        /\ \A value \in found : HasPerson(stack[r][1].arg)
  <2> SUFFICES ASSUME Called(r), stack[r][1].service = "registerCompany"
               PROVE  /\ stack[r][1].at = "user"
                      /\ \A value \in found : HasPerson(stack[r][1].arg)
    OBVIOUS
  <2>1. Top(r).arg = stack[r][1].arg /\ stack[r][1].at = "user"
    BY <1>1, CalledByRegistration
  <2> QED BY <2>1 DEF HasPerson, Records, Arg
<1>3. "PersonDoesntExistByIinError" \in AnswerNames
  BY DEF AnswerNames
<1> QED BY <1>1, <1>2, <1>3, ResultKeeps

\* A person is looked for before it is added.
LEMMA FindPersonKeeps ==
  ASSUME IInv, NEW r \in Requests, FindPerson(r)
  PROVE  Kept(r)
<1>1. /\ pc[r] = "run" /\ thrown[r] = None /\ Top(r).service \notin Callers
      /\ now' = now /\ input' = input /\ caller' = caller /\ ran' = ran /\ app' = app
      /\ \/ Fail(r, "PersonAlreadyExistsError")
         \/ /\ Step(r, "commit")
            /\ pc' = pc /\ answer' = answer /\ store' = store /\ thrown' = thrown
  BY DEF FindPerson, At, Callers
<1>2. "PersonAlreadyExistsError" \in AnswerNames
  BY DEF AnswerNames
<1>3. CASE Fail(r, "PersonAlreadyExistsError")
  BY <1>1, <1>2, <1>3, FailKeeps
<1>4. CASE /\ Step(r, "commit")
           /\ pc' = pc /\ answer' = answer /\ store' = store /\ thrown' = thrown
  BY <1>1, <1>4, StepKeeps
<1> QED BY <1>1, <1>3, <1>4

\* A person is committed: the registration that asked for it has it.
LEMMA CommitPersonKeeps ==
  ASSUME IInv, NEW r \in Requests, CommitPerson(r)
  PROVE  Kept(r)
<1> PICK person : person = [iin |-> Arg(r).iin, by |-> r]
  OBVIOUS
<1>1. /\ pc[r] = "run" /\ thrown[r] = None /\ Top(r).service = "addPerson"
      /\ tables' = [tables EXCEPT !["person"] = tables["person"] \union {person}]
      /\ Return(r, person)
      /\ now' = now /\ input' = input /\ caller' = caller /\ thrown' = thrown /\ ran' = ran
      /\ before' = before
  BY DEF CommitPerson, Commit, At
<1>2. DOMAIN tables = {"company", "person", "user"}
  BY DEF IInv, Global
<1>3. Grow(r) /\ tables'.company = tables.company /\ person \in tables'.person
  BY <1>1, <1>2 DEF Grow
<1>4. Called(r) /\ stack[r][1].service = "registerCompany" =>
        stack[r][1].at = "user" /\ HasNow(stack[r][1].arg)
  <2>1. HasNow(Top(r).arg)
    BY <1>3 DEF HasNow, Arg
  <2> QED BY <1>1, <2>1, CalledByRegistration
<1> QED BY <1>1, <1>3, <1>4, ReturnKeeps

\* A user is committed, as the employee of the registration that asked for it.
LEMMA CommitUserKeeps ==
  ASSUME IInv, NEW r \in Requests, CommitUser(r)
  PROVE  Kept(r)
<1> PICK user : user = [iin |-> Arg(r).iin, by |-> r, again |-> AnotherUser(r)]
  OBVIOUS
<1>1. /\ pc[r] = "run" /\ thrown[r] = None /\ Top(r).service = "addUser"
      /\ tables' = [tables EXCEPT !["user"] = tables["user"] \union {user}]
      /\ Return(r, user)
      /\ now' = now /\ input' = input /\ caller' = caller /\ thrown' = thrown /\ ran' = ran
      /\ before' = before
  BY DEF CommitUser, Commit, At
<1>2. DOMAIN tables = {"company", "person", "user"}
  BY DEF IInv, Global
<1>3. Grow(r) /\ tables'.company = tables.company /\ user \in tables'.user
  BY <1>1, <1>2 DEF Grow
<1>4. Called(r) /\ stack[r][1].service = "registerCompany" =>
        stack[r][1].at = "company" /\ user.iin = stack[r][1].arg.iin
  <2>1. user.iin = Top(r).arg.iin
    BY DEF Arg
  <2> QED BY <1>1, <2>1, CalledByRegistration
<1> QED BY <1>1, <1>3, <1>4, ReturnKeeps

\* Users are looked up, which no registration asks for.
LEMMA GetUsersKeeps ==
  ASSUME IInv, NEW r \in Requests, GetUsers(r)
  PROVE  Kept(r)
<1> PICK found : found = {u \in Records("user") : u \in Arg(r)}
  OBVIOUS
<1>1. /\ pc[r] = "run" /\ thrown[r] = None /\ Top(r).service = "getUsers"
      /\ Return(r, found)
      /\ now' = now /\ input' = input /\ caller' = caller /\ thrown' = thrown /\ ran' = ran
      /\ tables' = tables /\ before' = before
  BY DEF GetUsers, At, app
<1>2. Grow(r)
  BY <1>1 DEF Grow, IInv, Global
<1>3. ~(Called(r) /\ stack[r][1].service = "registerCompany")
  BY <1>1, CalledByRegistration
<1> QED BY <1>1, <1>2, <1>3, ReturnKeeps

\* The proxy asks three modules, one after the other.
LEMMA FullCompanyKeeps ==
  ASSUME IInv, NEW r \in Requests, FullCompany(r)
  PROVE  Kept(r)
<1> PICK user, got : user = Top(r).user /\ got = Top(r).got
  OBVIOUS
<1>1. /\ pc[r] = "run" /\ thrown[r] = None /\ Top(r).service = "getFullCompany"
      /\ now' = now /\ input' = input /\ caller' = caller /\ thrown' = thrown /\ app' = app
  BY DEF FullCompany, At
<1>2. /\ Top(r).service \in Callers /\ Alone(r) /\ Top(r) = stack[r][1] /\ ~Called(r)
      /\ PayloadCaller(r) = Whom(r)
  BY <1>1, Shapes DEF Callers
<1>3. Bottom(r)
  BY <1>1 DEF IInv, RequestOK
<1>4. Top(r).at # "start" => user = Whom(r)
  BY <1>2, <1>3 DEF Bottom
<1>5. /\ tables' = tables /\ before' = before /\ Grow(r)
  BY <1>1 DEF Grow, app, IInv, Global
<1>6. \/ \E who, service, arg, then :
           /\ Call(r, who, service, arg, then) /\ who = Whom(r) /\ service \notin Callers
           /\ pc' = pc /\ answer' = answer
      \/ \E value : Return(r, value) /\ ran' = ran
  <2>1. \/ /\ Top(r).at = "start"
           /\ Call(r, PayloadCaller(r), "getCompany", Arg(r), "users")
           /\ pc' = pc /\ answer' = answer
        \/ /\ Top(r).at = "users"
           /\ Call(r, user, "getUsers", {got.employee}, "persons")
           /\ pc' = pc /\ answer' = answer
        \/ /\ Top(r).at = "persons"
           /\ Return(r, got) /\ ran' = ran
        \/ /\ Top(r).at = "persons"
           /\ \E u \in got : /\ Call(r, user, "getPersonByIin", [iin |-> u.iin], "done")
                             /\ pc' = pc /\ answer' = answer
        \/ /\ Top(r).at = "done"
           /\ Return(r, got) /\ ran' = ran
    BY DEF FullCompany, At
  <2>2. /\ "getCompany" \notin Callers /\ "getUsers" \notin Callers
        /\ "getPersonByIin" \notin Callers
    BY DEF Callers
  <2> QED BY <1>2, <1>4, <2>1, <2>2
<1>7. ASSUME NEW who, NEW service, NEW arg, NEW then,
             Call(r, who, service, arg, then), who = Whom(r), service \notin Callers,
             pc' = pc, answer' = answer
      PROVE  Kept(r)
  BY <1>1, <1>2, <1>7, CallKeeps
<1>8. ASSUME NEW value, Return(r, value), ran' = ran
      PROVE  Kept(r)
  BY <1>1, <1>2, <1>5, <1>8, ReturnKeeps
<1> QED BY <1>6, <1>7, <1>8

-------------------------------------------------------------------------------
\* Nothing has arrived.
LEMMA InitIInv == Init => IInv
<1> SUFFICES ASSUME Init PROVE IInv
  OBVIOUS
<1> USE DEF Init, WebInit
<1>1. Global
  BY RegistrationAssumption
  DEF Global, Places, RunsForItsUser, CompanyHasItsPeople, NoLateDuplicate
<1>2. ASSUME NEW r \in Requests
      PROVE  RequestOK(r)
  BY DEF RequestOK, Empty, RegisteredBy, Over
<1> QED BY <1>1, <1>2 DEF IInv

\* Whatever serves a request keeps what is known of all.
LEMMA ServeKeeps ==
  ASSUME IInv, NEW r \in Requests, Serve(r)
  PROVE  Kept(r)
<1>1. CASE Fetch(r) /\ app' = app
  BY <1>1, FetchKeeps
<1>2. CASE Catch(r) /\ app' = app
  BY <1>2, CatchKeeps
<1>3. CASE /\ ReadBody(r)
           /\ before' = [before EXCEPT ![r] = {c.bin : c \in tables.company}]
           /\ tables' = tables
  BY <1>3, ReadBodyKeeps
<1>4. CASE ExistCompany(r)
  BY <1>4, ExistCompanyKeeps
<1>5. CASE ProcessPerson(r)
  BY <1>5, ProcessPersonKeeps
<1>6. CASE AddUser(r)
  BY <1>6, AddUserKeeps
<1>7. CASE AddCompany(r)
  BY <1>7, AddCompanyKeeps
<1>8. CASE CommitCompany(r)
  BY <1>8, CommitCompanyKeeps
<1>9. CASE GetCompany(r)
  BY <1>9, GetCompanyKeeps
<1>10. CASE FindPerson(r)
  BY <1>10, FindPersonKeeps
<1>11. CASE CommitPerson(r)
  BY <1>11, CommitPersonKeeps
<1>12. CASE GetPersonByIin(r)
  BY <1>12, GetPersonKeeps
<1>13. CASE CommitUser(r)
  BY <1>13, CommitUserKeeps
<1>14. CASE GetUsers(r)
  BY <1>14, GetUsersKeeps
<1>15. CASE FullCompany(r)
  BY <1>15, FullCompanyKeeps
<1> QED
  BY <1>1, <1>2, <1>3, <1>4, <1>5, <1>6, <1>7, <1>8, <1>9, <1>10, <1>11, <1>12, <1>13,
     <1>14, <1>15 DEF Serve

\* A step that changes nothing but the clock.
LEMMA ClockKeeps ==
  ASSUME IInv, now' \in 0..MaxTime, input' = input, pc' = pc, caller' = caller,
         stack' = stack, store' = store, thrown' = thrown, answer' = answer, ran' = ran,
         app' = app
  PROVE  IInv'
<1>1. tables' = tables /\ before' = before
  BY DEF app
<1>2. Global'
  BY <1>1 DEF IInv, Global, RunsForItsUser, UserOf, DomainUser, CompanyHasItsPeople,
             NoLateDuplicate
<1>3. ASSUME NEW r \in Requests
      PROVE  RequestOK(r)'
  <2>1. RequestOK(r)
    BY DEF IInv
  <2>2. /\ (Empty(r)' <=> Empty(r)) /\ (Alone(r)' <=> Alone(r)) /\ (Called(r)' <=> Called(r))
        /\ (Bottom(r)' <=> Bottom(r)) /\ (OnTop(r)' <=> OnTop(r))
        /\ (Registers(r)' <=> Registers(r)) /\ (RegisteredBy(r)' <=> RegisteredBy(r))
        /\ (Signed(r)' <=> Signed(r)) /\ Whom(r)' = Whom(r) /\ (Routed(r)' <=> Routed(r))
    BY <1>1, SameClient, SameAim
    DEF Empty, Alone, Called, Bottom, OnTop, RegisteredBy
  <2>3. Registering(r)' <=> Registering(r)
    BY <1>1, <2>2 DEF Registering, HasPerson
  <2> QED BY <1>1, <2>1, <2>2, <2>3 DEF RequestOK
<1> QED BY <1>2, <1>3 DEF IInv

\* Every step keeps the invariant.
LEMMA StepIInv == IInv /\ [Next]_vars => IInv'
<1> SUFFICES ASSUME IInv, [Next]_vars PROVE IInv'
  OBVIOUS
<1>1. ASSUME NEW r \in Requests, Serve(r)
      PROVE  IInv'
  BY <1>1, ServeKeeps, KeptIInv
<1>2. ASSUME NEW r \in Requests, Send(r), app' = app
      PROVE  IInv'
  BY <1>2, SendKeeps, KeptIInv
<1>3. ASSUME NEW r \in Requests, Throw(r), app' = app
      PROVE  IInv'
  BY <1>3, ThrowKeeps, KeptIInv
<1>4. CASE Tick /\ app' = app
  <2>1. now' \in 0..MaxTime
    BY <1>4, RegistrationAssumption DEF Tick, IInv, Global
  <2> QED BY <1>4, <2>1, ClockKeeps DEF Tick
<1>5. CASE vars' = vars
  <2>1. now' \in 0..MaxTime
    BY <1>5 DEF vars, web, IInv, Global
  <2> QED BY <1>5, <2>1, ClockKeeps DEF vars, web
<1> QED BY <1>1, <1>2, <1>3, <1>4, <1>5 DEF Next, AllOver

\* The invariant contains what the runs check.
LEMMA IInvFacts ==
  IInv => /\ TypeOK /\ RunsForItsUser /\ AnswerMatchesCompany
          /\ CompanyHasItsPeople /\ NoLateDuplicate
<1> SUFFICES ASSUME IInv
             PROVE  /\ TypeOK /\ RunsForItsUser /\ AnswerMatchesCompany
                    /\ CompanyHasItsPeople /\ NoLateDuplicate
  OBVIOUS
<1>1. Global /\ \A r \in Requests : RequestOK(r)
  BY DEF IInv
<1>2. AnswerMatchesCompany
  BY <1>1 DEF AnswerMatchesCompany, RequestOK, Over, RegisteredBy
<1>3. ASSUME NEW r \in Requests
      PROVE  /\ (pc[r] = "run") <=> (stack[r] # <<>>)
             /\ Len(store[r]) = Len(stack[r]) /\ Len(stack[r]) <= 2
             /\ thrown[r] # None => pc[r] = "run"
             /\ (answer[r] # None) <=> (pc[r] = "answered")
             /\ \A i \in DOMAIN stack[r] :
                  stack[r][i].attempts \in 0..1 /\ store[r][i].type \in CallerTypes
  <2>1. RequestOK(r)
    BY <1>1
  <2>2. CASE pc[r] # "run"
    BY <2>1, <2>2 DEF RequestOK, Empty
  <2>3. CASE pc[r] = "run" /\ Alone(r)
    <3> PICK a, b : a = stack[r][1] /\ b = store[r][1]
      OBVIOUS
    <3>1. stack[r] = <<a>> /\ store[r] = <<b>>
      BY <2>3 DEF Alone
    <3>2. a.attempts \in 0..1 /\ b.type \in CallerTypes
      BY <2>1, <2>3 DEF RequestOK, Bottom, FrameOK, Whom, DomainUser, CallerTypes
    <3> QED BY <2>1, <2>3, <3>1, <3>2 DEF RequestOK
  <2>4. CASE pc[r] = "run" /\ Called(r)
    <3> PICK a, b, c, d : /\ a = stack[r][1] /\ b = stack[r][2]
                          /\ c = store[r][1] /\ d = store[r][2]
      OBVIOUS
    <3>1. stack[r] = <<a, b>> /\ store[r] = <<c, d>>
      BY <2>4 DEF Called
    <3>2. /\ a.attempts \in 0..1 /\ c.type \in CallerTypes
          /\ b.attempts \in 0..1 /\ d.type \in CallerTypes
      BY <2>1, <2>4 DEF RequestOK, Bottom, OnTop, FrameOK, Whom, DomainUser, CallerTypes
    <3> QED BY <2>1, <2>4, <3>1, <3>2 DEF RequestOK
  <2> QED BY <2>1, <2>2, <2>3, <2>4 DEF RequestOK
<1>4. TypeOK
  <2>1. input \in [Requests -> Inputs \union {None}]
    BY <1>1 DEF Global
  <2>2. pc \in [Requests -> {"idle", "sent", "body", "run"} \union Over]
    BY <1>1 DEF Global, Places
  <2> QED BY <1>1, <1>3, <2>1, <2>2 DEF TypeOK, Global
<1> QED BY <1>1, <1>2, <1>4 DEF Global

-------------------------------------------------------------------------------
\* The strengthened invariant, for any requests and inputs.
THEOREM RegistrationInvariant == Spec => []IInv
BY InitIInv, StepIInv, PTL DEF Spec

\* The type invariant of the server's requests.
THEOREM RegistrationTypes == Spec => []TypeOK
BY RegistrationInvariant, IInvFacts, PTL

\* Whatever a request runs runs for the user its token names, and for one whose token the
\* server has signed.
THEOREM ServicesForTheirUser == Spec => []RunsForItsUser
BY RegistrationInvariant, IInvFacts, PTL

\* A client has its company if and only if it was told so.
THEOREM AnswersTrue == Spec => []AnswerMatchesCompany
BY RegistrationInvariant, IInvFacts, PTL

\* No company is without its employee and that employee's person.
THEOREM PeopleInPlace == Spec => []CompanyHasItsPeople
BY RegistrationInvariant, IInvFacts, PTL

\* A registration that begins after another has committed never repeats its BIN.
THEOREM LateDuplicatesRefused == Spec => []NoLateDuplicate
BY RegistrationInvariant, IInvFacts, PTL

-------------------------------------------------------------------------------
\* A request that is over is served no more.
LEMMA OnlyLiveServed ==
  ASSUME NEW r \in Requests, Serve(r)
  PROVE  pc[r] \notin Over
<1>1. CASE Fetch(r) \/ Catch(r) \/ ReadBody(r)
  BY <1>1 DEF Fetch, Catch, ReadBody, Over
<1>2. CASE \/ ExistCompany(r) \/ ProcessPerson(r) \/ AddUser(r) \/ AddCompany(r)
           \/ CommitCompany(r) \/ GetCompany(r) \/ FindPerson(r) \/ CommitPerson(r)
           \/ GetPersonByIin(r) \/ CommitUser(r) \/ GetUsers(r) \/ FullCompany(r)
  <2>1. pc[r] = "run"
    BY <1>2 DEF At, ExistCompany, ProcessPerson, AddUser, AddCompany, CommitCompany,
                GetCompany, FindPerson, CommitPerson, GetPersonByIin, CommitUser,
                GetUsers, FullCompany
  <2> QED BY <2>1 DEF Over
<1> QED BY <1>1, <1>2 DEF Serve

\* What a request has come to is its answer and its company alone.
LEMMA OutcomeFacts ==
  ASSUME NEW r \in Requests, RequestOK(r)
  PROVE  /\ pc[r] \notin Over => Outcome(r) = "pending" /\ ~RegisteredBy(r)
         /\ pc[r] \in Over /\ RegisteredBy(r) => Outcome(r) = "success"
         /\ pc[r] \in Over /\ ~RegisteredBy(r) => Outcome(r) = "failure"
<1>1. None \notin Answers
  BY RegistrationAssumption
<1> QED BY <1>1 DEF RequestOK, Outcome, Over

\* A step of a request that was not over ends its command, or is none of the command's.
LEMMA AtomicStep ==
  ASSUME IInv, NEW r \in Requests, pc[r] \notin Over, Kept(r)
  PROVE  Atomic!Next \/ UNCHANGED Atomic!vars
<1> DEFINE company == [q \in Requests |-> IF RegisteredBy(q) THEN q ELSE None]
           outcome == [q \in Requests |-> Outcome(q)]
<1>1. RequestOK(r) /\ RequestOK(r)' /\ OnlyOf(r) /\ Grow(r)
  BY DEF IInv, Kept
<1>2. Outcome(r) = "pending" /\ ~RegisteredBy(r)
  BY <1>1, OutcomeFacts
<1>3. /\ pc'[r] \notin Over => Outcome(r)' = "pending" /\ ~RegisteredBy(r)'
      /\ pc'[r] \in Over /\ RegisteredBy(r)' => Outcome(r)' = "success"
      /\ pc'[r] \in Over /\ ~RegisteredBy(r)' => Outcome(r)' = "failure"
  BY <1>1, RegistrationAssumption DEF RequestOK, Outcome, Over
<1>4. ASSUME NEW q \in Requests \ {r}
      PROVE  Outcome(q)' = Outcome(q) /\ (RegisteredBy(q)' <=> RegisteredBy(q))
  <2>1. input'[q] = input[q] /\ pc'[q] = pc[q] /\ answer'[q] = answer[q]
    BY <1>1 DEF OnlyOf
  <2>2. Registers(q)' <=> Registers(q)
    BY <2>1, SameAim
  <2>3. Outcome(q)' = Outcome(q)
    BY <2>1, <2>2 DEF Outcome
  <2>4. RegisteredBy(q)' <=> RegisteredBy(q)
    BY <1>1 DEF Grow, RegisteredBy
  <2> QED BY <2>3, <2>4
<1>5. Atomic!Planned(r) = {r}
  BY DEF Atomic!Planned
<1>6. CASE pc'[r] \notin Over
  <2>1. company' = company /\ outcome' = outcome
    BY <1>2, <1>3, <1>4, <1>6
  <2> QED BY <2>1 DEF Atomic!vars
<1>7. CASE pc'[r] \in Over /\ RegisteredBy(r)'
  <2>1. company' = [q \in Requests |-> IF q = r THEN r ELSE company[q]]
    BY <1>4, <1>7
  <2>2. company' = Atomic!Effect(company, r, Atomic!Planned(r))
    BY <1>5, <2>1 DEF Atomic!Effect
  <2>3. outcome[r] = "pending" /\ outcome' = [outcome EXCEPT ![r] = "success"]
    BY <1>2, <1>3, <1>4, <1>7
  <2>4. Atomic!Succeed(r)
    BY <2>2, <2>3 DEF Atomic!Succeed
  <2> QED BY <2>4 DEF Atomic!Next
<1>8. CASE pc'[r] \in Over /\ ~RegisteredBy(r)'
  <2>1. company' = company
    BY <1>2, <1>4, <1>8
  <2>2. outcome[r] = "pending" /\ outcome' = [outcome EXCEPT ![r] = "failure"]
    BY <1>2, <1>3, <1>4, <1>8
  <2>3. Atomic!EndWithoutEffect(r)
    BY <2>1, <2>2 DEF Atomic!EndWithoutEffect
  <2> QED BY <2>3 DEF Atomic!Next
<1> QED BY <1>6, <1>7, <1>8

\* A registration is one command to its client: the company appears in the step that
\* tells of success, and in no other way, whatever is made for it in other modules.
THEOREM RegistrationRefinement == Spec => ImplementsAtomicCommands
<1>1. Init => Atomic!Init
  <2> SUFFICES ASSUME Init PROVE Atomic!Init
    OBVIOUS
  <2>1. ASSUME NEW r \in Requests
        PROVE  Outcome(r) = "pending" /\ ~RegisteredBy(r)
    BY DEF Init, WebInit, Outcome, RegisteredBy, Over
  <2> QED BY <2>1 DEF Atomic!Init
<1>2. ASSUME IInv, [Next]_vars
      PROVE  [Atomic!Next]_(Atomic!vars)
  <2>1. ASSUME NEW r \in Requests, Serve(r)
        PROVE  Atomic!Next \/ UNCHANGED Atomic!vars
    BY <1>2, <2>1, ServeKeeps, OnlyLiveServed, AtomicStep
  <2>2. ASSUME NEW r \in Requests, Send(r), app' = app
        PROVE  Atomic!Next \/ UNCHANGED Atomic!vars
    <3>1. pc[r] \notin Over
      BY <2>2 DEF Send, Over
    <3> QED BY <1>2, <2>2, <3>1, SendKeeps, AtomicStep
  <2>3. ASSUME NEW r \in Requests, Throw(r), app' = app
        PROVE  Atomic!Next \/ UNCHANGED Atomic!vars
    <3>1. pc[r] \notin Over
      BY <2>3 DEF Throw, Over
    <3> QED BY <1>2, <2>3, <3>1, ThrowKeeps, AtomicStep
  <2>4. CASE (Tick /\ app' = app) \/ vars' = vars
    <3>1. input' = input /\ pc' = pc /\ answer' = answer /\ tables' = tables
      BY <2>4 DEF Tick, vars, web, app
    <3>2. ASSUME NEW r \in Requests
          PROVE  Outcome(r)' = Outcome(r) /\ (RegisteredBy(r)' <=> RegisteredBy(r))
      BY <3>1, SameAim DEF Outcome, RegisteredBy
    <3> QED BY <3>2 DEF Atomic!vars
  <2> QED BY <1>2, <2>1, <2>2, <2>3, <2>4 DEF Next, AllOver
<1> QED
  BY <1>1, <1>2, RegistrationInvariant, PTL DEF Spec, ImplementsAtomicCommands, Atomic!Spec
===============================================================================
