--------------------------- MODULE BotDialoguesProofs ---------------------------
(***************************************************************************)
(* Proofs about BotDialogues, for any number of users, updates, writes and  *)
(* kills: the cache never contradicts the table, no user gets a second      *)
(* dialogue, and a polling bot writes only over what it saw.               *)
(***************************************************************************)
EXTENDS BotDialogues, SequenceTheorems, WellFoundedInduction, TLAPS

\* What may stand for the active context of u: one of its active rows, or nothing if
\* there are none. Contents written behind the repository's back count as any.
Stands(u, context) ==
  /\ context # None => ActiveAt(u) # {}
  /\ context # None /\ u \in Plain => \E i \in ActiveAt(u) : rows[u][i].content = context

\* The cache may hold nothing although there is an active row.
CacheStands == \A u \in Users : Stands(u, cache[u])

Running == {"middleware", "state"}

\* The poller awaits each update before the next.
OneAtATime ==
  mode = "getUpdates" => \A x, y \in Updates : pc[x] \in Running /\ pc[y] \in Running => x = y

\* What the state of x believes to be active is, while nothing else runs.
SawFresh(x) ==
  mode = "getUpdates" /\ pc[x] = "state" /\ UserOf[x] \in Plain =>
    \/ saw[x] = None /\ ActiveAt(UserOf[x]) = {}
    \/ \E i \in ActiveAt(UserOf[x]) : rows[UserOf[x]][i].content = saw[x]

IInv ==
  /\ TypeOK
  /\ CacheStands
  /\ OneAtATime
  /\ \A x \in Updates : SawFresh(x)

\* Every nonempty set of naturals has a least element.
LEMMA LeastOf ==
  ASSUME NEW T, T \subseteq Nat, T # {}
  PROVE  \E x \in T : \A y \in T : x <= y
<1>1. PICK x \in T : \A y \in T : ~(<<y, x>> \in OpToRel(<, Nat))
  BY NatLessThanWellFounded, WFMin
<1>2. \A y \in T : ~(y < x)
  BY <1>1 DEF OpToRel
<1> QED BY <1>2

\* Every nonempty set of naturals that has a bound has a greatest element.
LEMMA GreatestOf ==
  ASSUME NEW T, NEW n \in Nat, T \subseteq 0..n, T # {}
  PROVE  \E x \in T : \A y \in T : y <= x
<1> DEFINE U == {n - y : y \in T}
<1>1. U \subseteq Nat /\ U # {}
  <2>1. \A y \in T : n - y \in Nat
    OBVIOUS
  <2> QED BY <2>1
<1>2. PICK u \in U : \A w \in U : u <= w
  <2> HIDE DEF U
  <2> QED BY <1>1, LeastOf
<1>3. PICK x \in T : u = n - x
  OBVIOUS
<1>4. \A y \in T : n - x <= n - y
  BY <1>2, <1>3
<1> QED BY <1>4

\* Min is one of the elements, and the least.
LEMMA MinOf ==
  ASSUME NEW T, T \subseteq Nat, T # {}
  PROVE  Min(T) \in T /\ \A y \in T : Min(T) <= y
BY LeastOf DEF Min

\* Max is one of the elements, and the greatest.
LEMMA MaxOf ==
  ASSUME NEW T, NEW n \in Nat, T \subseteq 0..n, T # {}
  PROVE  Max(T) \in T /\ \A y \in T : y <= Max(T)
<1>1. \E x \in T : \A y \in T : x >= y
  BY GreatestOf
<1> QED BY <1>1 DEF Max

-------------------------------------------------------------------------------
\* Active rows are rows, and their contents are not None.
LEMMA ActiveRows ==
  ASSUME TypeOK, NEW u \in Users
  PROVE  /\ rows[u] \in Seq(Rows) /\ Len(rows[u]) \in Nat
         /\ DOMAIN rows[u] = 1..Len(rows[u])
         /\ \A i \in DOMAIN rows[u] : rows[u][i] \in Rows
         /\ ActiveAt(u) \subseteq 1..Len(rows[u])
         /\ \A i \in ActiveAt(u) : rows[u][i].content \in Contents
         /\ None \notin Contents
<1>1. rows[u] \in Seq(Rows)
  BY DEF TypeOK
<1>2. /\ Len(rows[u]) \in Nat /\ DOMAIN rows[u] = 1..Len(rows[u])
      /\ \A i \in DOMAIN rows[u] : rows[u][i] \in Rows
  BY <1>1
<1>3. None \notin Contents
  BY BotAssumption DEF Contents
<1> QED BY <1>1, <1>2, <1>3 DEF ActiveAt, Rows

\* What a query of the repository finds stands for the active context, and None says
\* that there is no active row.
LEMMA Found ==
  ASSUME TypeOK, CacheStands, NEW u \in Users,
         NEW context \in {Queried(u), FindActive(u), LastActive(u)}
  PROVE  /\ context \in Contents \union {None}
         /\ Stands(u, context)
         /\ context = None => ActiveAt(u) = {}
<1>1. cache[u] \in Contents \union {None} /\ Stands(u, cache[u])
  BY DEF TypeOK, CacheStands
<1>2. CASE ActiveAt(u) = {}
  <2>1. cache[u] = None
    BY <1>1, <1>2 DEF Stands
  <2> QED BY <1>1, <1>2, <2>1 DEF Queried, FindActive, LastActive
<1>3. CASE ActiveAt(u) # {}
  <2>1. /\ ActiveAt(u) \subseteq 0..Len(rows[u]) /\ ActiveAt(u) \subseteq Nat
        /\ Len(rows[u]) \in Nat
    BY ActiveRows
  <2>2. Min(ActiveAt(u)) \in ActiveAt(u)
    BY <1>3, <2>1, MinOf
  <2>3. Max(ActiveAt(u)) \in ActiveAt(u)
    BY <1>3, <2>1, MaxOf
  <2>4. \/ context = cache[u] /\ cache[u] # None
        \/ \E i \in ActiveAt(u) : context = rows[u][i].content
    BY <1>3, <2>2, <2>3 DEF Queried, FindActive, LastActive
  <2>5. context \in Contents /\ context # None
    BY <1>1, <2>4, ActiveRows
  <2> QED BY <1>1, <1>3, <2>4, <2>5 DEF Stands
<1> QED BY <1>2, <1>3

\* A row replaced.
Replaces(u, i, r) == rows' = [rows EXCEPT ![u] = [@ EXCEPT ![i] = r]]

LEMMA Replaced ==
  ASSUME TypeOK, NEW u \in Users, NEW i \in ActiveAt(u), NEW r \in Rows, Replaces(u, i, r)
  PROVE  /\ rows' \in [Users -> Seq(Rows)]
         /\ \A v \in Users \ {u} : rows'[v] = rows[v]
         /\ DOMAIN rows'[u] = DOMAIN rows[u]
         /\ rows'[u][i] = r
         /\ \A j \in DOMAIN rows[u] \ {i} : rows'[u][j] = rows[u][j]
<1>1. rows \in [Users -> Seq(Rows)] /\ rows[u] \in Seq(Rows) /\ i \in 1..Len(rows[u])
  BY ActiveRows DEF TypeOK
<1>2. rows'[u] = [rows[u] EXCEPT ![i] = r]
  BY <1>1 DEF Replaces
<1>3. rows'[u] \in Seq(Rows)
  BY <1>1, <1>2, ExceptSeq
<1> QED BY <1>1, <1>2, <1>3 DEF Replaces

\* A row added at the end.
LEMMA Added ==
  ASSUME TypeOK, NEW u \in Users, NEW r \in Rows,
         rows' = [rows EXCEPT ![u] = Append(@, r)]
  PROVE  /\ rows' \in [Users -> Seq(Rows)]
         /\ \A v \in Users \ {u} : rows'[v] = rows[v]
         /\ DOMAIN rows'[u] = DOMAIN rows[u] \union {Len(rows[u]) + 1}
         /\ rows'[u][Len(rows[u]) + 1] = r
         /\ \A j \in DOMAIN rows[u] : rows'[u][j] = rows[u][j]
<1>1. /\ rows \in [Users -> Seq(Rows)] /\ rows[u] \in Seq(Rows)
      /\ Len(rows[u]) \in Nat /\ DOMAIN rows[u] = 1..Len(rows[u])
  BY ActiveRows DEF TypeOK
<1>2. rows'[u] = Append(rows[u], r)
  BY <1>1
<1>3. /\ rows'[u] \in Seq(Rows) /\ Len(rows'[u]) = Len(rows[u]) + 1
      /\ \A j \in 1..Len(rows[u]) : rows'[u][j] = rows[u][j]
      /\ rows'[u][Len(rows[u]) + 1] = r
  BY <1>1, <1>2, AppendProperties
<1>4. DOMAIN rows'[u] = 1..Len(rows[u]) + 1
  BY <1>3
<1> QED BY <1>1, <1>3, <1>4

-------------------------------------------------------------------------------
\* The rows of the table the bot starts with are rows.
LEMMA Initially ==
  Init => IInv
<1> SUFFICES ASSUME Init PROVE IInv
  OBVIOUS
<1>1. Seeds \subseteq Seq(Rows)
  <2>1. <<>> \in Seq(Rows)
    OBVIOUS
  <2>2. ASSUME NEW n \in 1..2, NEW s \in [1..n -> [isActive : BOOLEAN, content : {Seed}]]
        PROVE  s \in Seq(Rows)
    <3>1. s \in [1..n -> Rows] /\ n \in Nat
      BY DEF Rows, Contents
    <3> QED BY <3>1, IsASeq
  <2> QED BY <2>1, <2>2 DEF Seeds
<1>2. TypeOK
  <2>1. rows \in [Users -> Seq(Rows)]
    BY <1>1 DEF Init
  <2>2. writes \in [Updates -> 0..MaxWrites] /\ crashes \in 0..MaxCrashes
    BY BotAssumption DEF Init
  <2> QED BY <2>1, <2>2 DEF Init, TypeOK
<1>3. CacheStands /\ OneAtATime /\ \A x \in Updates : SawFresh(x)
  BY DEF Init, CacheStands, Stands, OneAtATime, Running, SawFresh
<1> QED BY <1>2, <1>3 DEF IInv

\* Update x runs, and disturbs only what is its user's.
LEMMA RunningStep ==
  ASSUME IInv, NEW x \in Updates, pc[x] \in Running,
         NEW to \in {"middleware", "state", "done"}, pc' = [pc EXCEPT ![x] = to],
         rows' \in [Users -> Seq(Rows)], cache' \in [Users -> Contents \union {None}],
         \A v \in Users \ {UserOf[x]} : rows'[v] = rows[v] /\ cache'[v] = cache[v],
         saw' \in [Updates -> Contents \union {None}],
         \A y \in Updates \ {x} : saw'[y] = saw[y],
         writes' \in [Updates -> 0..MaxWrites], UNCHANGED <<mode, crashes>>,
         Stands(UserOf[x], cache[UserOf[x]])', SawFresh(x)'
  PROVE  IInv'
<1>1. TypeOK /\ UserOf[x] \in Users
  BY BotAssumption DEF IInv
<1>2. /\ pc \in [Updates -> {"idle", "middleware", "state", "done"}] /\ pc'[x] = to
      /\ \A y \in Updates \ {x} : pc'[y] = pc[y]
  BY <1>1 DEF TypeOK
<1>3. TypeOK'
  BY <1>1, <1>2 DEF TypeOK
<1>4. CacheStands'
  <2> SUFFICES ASSUME NEW v \in Users, v # UserOf[x] PROVE Stands(v, cache[v])'
    BY DEF CacheStands
  <2>1. Stands(v, cache[v])
    BY DEF IInv, CacheStands
  <2>2. cache'[v] = cache[v] /\ rows'[v] = rows[v] /\ ActiveAt(v)' = ActiveAt(v)
    BY DEF ActiveAt
  <2> QED BY <2>1, <2>2 DEF Stands
<1>5. OneAtATime'
  <2> SUFFICES ASSUME mode = "getUpdates", NEW y \in Updates, NEW z \in Updates,
                      pc'[y] \in Running, pc'[z] \in Running
               PROVE  y = z
    BY DEF OneAtATime
  <2>1. pc[y] \in Running /\ pc[z] \in Running
    BY <1>2
  <2> QED BY <2>1 DEF IInv, OneAtATime
<1>6. \A y \in Updates : SawFresh(y)'
  <2> SUFFICES ASSUME NEW y \in Updates, y # x, mode = "getUpdates" PROVE pc'[y] # "state"
    BY DEF SawFresh
  <2> QED BY <1>2 DEF IInv, OneAtATime, Running
<1> QED BY <1>3, <1>4, <1>5, <1>6 DEF IInv

\* A query: what it finds goes into the cache, and a state may have seen it.
LEMMA ReadStep ==
  ASSUME IInv, NEW x \in Updates, pc[x] \in Running,
         NEW context \in {Queried(UserOf[x]), FindActive(UserOf[x]), LastActive(UserOf[x])},
         Cache(UserOf[x], context), UNCHANGED <<rows, mode, crashes>>,
         NEW to \in {"middleware", "state", "done"}, pc' = [pc EXCEPT ![x] = to],
         to # "done" => saw' = [saw EXCEPT ![x] = context],
         to = "done" => saw' = [saw EXCEPT ![x] = None],
         writes' \in [Updates -> 0..MaxWrites]
  PROVE  IInv'
<1> DEFINE u == UserOf[x]
<1>1. TypeOK /\ CacheStands /\ u \in Users
  BY BotAssumption DEF IInv
<1> HIDE DEF u
<1>2. /\ context \in Contents \union {None} /\ Stands(u, context)
      /\ context = None => ActiveAt(u) = {}
  BY <1>1, Found DEF u
<1>3. /\ cache' \in [Users -> Contents \union {None}] /\ cache'[u] = context
      /\ \A v \in Users \ {u} : cache'[v] = cache[v]
  BY <1>1, <1>2 DEF TypeOK, Cache, u
<1>4. /\ saw' \in [Updates -> Contents \union {None}]
      /\ \A y \in Updates \ {x} : saw'[y] = saw[y]
      /\ to # "done" => saw'[x] = context
  BY <1>1, <1>2 DEF TypeOK
<1>5. pc'[x] = to /\ rows' \in [Users -> Seq(Rows)] /\ \A v : rows'[v] = rows[v]
  BY <1>1 DEF TypeOK
<1>6. ActiveAt(u)' = ActiveAt(u)
  BY DEF ActiveAt
<1>7. Stands(u, cache[u])'
  BY <1>2, <1>3, <1>6 DEF Stands
<1>8. SawFresh(x)'
  BY <1>2, <1>4, <1>5, <1>6 DEF SawFresh, Stands, u
<1> QED BY <1>3, <1>4, <1>5, <1>7, <1>8, RunningStep DEF u

\* A state writes: it runs, and one row more is counted.
LEMMA WritingFacts ==
  ASSUME IInv, NEW x \in Updates, Writing(x)
  PROVE  /\ pc[x] \in Running
         /\ pc' = pc => pc' = [pc EXCEPT ![x] = "state"]
         /\ writes' \in [Updates -> 0..MaxWrites]
<1>1. pc \in [Updates -> {"idle", "middleware", "state", "done"}] /\ pc[x] = "state"
  BY DEF IInv, TypeOK, Writing
<1>2. writes \in [Updates -> 0..MaxWrites] /\ writes[x] < MaxWrites /\ MaxWrites \in Nat
  BY BotAssumption DEF IInv, TypeOK, Writing
<1>3. writes[x] + 1 \in 0..MaxWrites
  BY <1>2
<1> QED BY <1>1, <1>2, <1>3 DEF Writing, Running

\* add: there was no active row, and now there is one.
LEMMA AddStep ==
  ASSUME IInv, NEW x \in Updates, StateAdds(x)
  PROVE  IInv'
<1> DEFINE u == UserOf[x]
           r == [isActive |-> TRUE, content |-> x]
           n == Len(rows[u]) + 1
<1>1. TypeOK /\ CacheStands /\ u \in Users /\ r \in Rows
  BY BotAssumption DEF IInv, Rows, Contents
<1>2. /\ Writing(x) /\ FindActive(u) = None /\ rows' = [rows EXCEPT ![u] = Append(@, r)]
      /\ saw' = [saw EXCEPT ![x] = x] /\ UNCHANGED <<cache, pc, mode, crashes>>
  BY DEF StateAdds
<1> HIDE DEF u, r
<1>3. /\ rows' \in [Users -> Seq(Rows)]
      /\ \A v \in Users \ {u} : rows'[v] = rows[v]
      /\ n \in DOMAIN rows'[u] /\ rows'[u][n] = r
  BY <1>1, <1>2, Added
<1>4. n \in ActiveAt(u)' /\ rows'[u][n].content = x
  BY <1>3 DEF ActiveAt, r
<1>5. cache[u] = None
  BY <1>2 DEF FindActive
<1>6. Stands(u, cache[u])'
  BY <1>2, <1>5 DEF Stands
<1>7. saw' \in [Updates -> Contents \union {None}] /\ saw'[x] = x
      /\ \A y \in Updates \ {x} : saw'[y] = saw[y]
  BY <1>1, <1>2 DEF TypeOK, Contents
<1>8. SawFresh(x)'
  BY <1>4, <1>7 DEF SawFresh, u
<1>9. cache' \in [Users -> Contents \union {None}]
  BY <1>1, <1>2 DEF TypeOK
<1>10. pc[x] \in Running /\ pc' = [pc EXCEPT ![x] = "state"]
       /\ writes' \in [Updates -> 0..MaxWrites]
  BY <1>2, WritingFacts
<1> QED BY <1>2, <1>3, <1>6, <1>7, <1>8, <1>9, <1>10, RunningStep DEF u

\* updateContext: the cache forgets, the only active row has new content.
LEMMA UpdateStep ==
  ASSUME IInv, NEW x \in Updates, StateUpdates(x)
  PROVE  IInv'
<1> DEFINE u == UserOf[x]
<1>1. TypeOK /\ CacheStands /\ u \in Users
  BY BotAssumption DEF IInv
<1>2. PICK i \in ActiveAt(u) : rows' = [rows EXCEPT ![u][i].content = x]
  BY DEF StateUpdates
<1>3. /\ rows \in [Users -> Seq(Rows)] /\ rows[u] \in Seq(Rows) /\ i \in DOMAIN rows[u]
      /\ rows[u][i] \in Rows /\ rows[u][i].isActive
  BY <1>1, ActiveRows DEF TypeOK, ActiveAt
<1>4. PICK r \in Rows : r = [rows[u][i] EXCEPT !.content = x]
  BY <1>3 DEF Rows, Contents
<1>0. r.isActive /\ r.content = x
  BY <1>3, <1>4 DEF Rows
<1>5. Replaces(u, i, r)
  BY <1>2, <1>3, <1>4 DEF Replaces
<1>6. /\ Writing(x) /\ Cache(u, None) /\ saw' = [saw EXCEPT ![x] = x]
      /\ UNCHANGED <<pc, mode, crashes>>
  BY DEF StateUpdates
<1> HIDE DEF u
<1>7. /\ rows' \in [Users -> Seq(Rows)]
      /\ \A v \in Users \ {u} : rows'[v] = rows[v]
      /\ DOMAIN rows'[u] = DOMAIN rows[u] /\ rows'[u][i] = r
  BY <1>1, <1>5, Replaced
<1>8. i \in ActiveAt(u)' /\ rows'[u][i].content = x
  BY <1>0, <1>3, <1>7 DEF ActiveAt
<1>9. /\ cache' \in [Users -> Contents \union {None}] /\ cache'[u] = None
      /\ \A v \in Users \ {u} : cache'[v] = cache[v]
  BY <1>1, <1>6 DEF TypeOK, Cache
<1>10. Stands(u, cache[u])'
  BY <1>9 DEF Stands
<1>11. saw' \in [Updates -> Contents \union {None}] /\ saw'[x] = x
       /\ \A y \in Updates \ {x} : saw'[y] = saw[y]
  BY <1>1, <1>6 DEF TypeOK, Contents
<1>12. SawFresh(x)'
  BY <1>8, <1>11 DEF SawFresh, u
<1>13. pc[x] \in Running /\ pc' = [pc EXCEPT ![x] = "state"]
       /\ writes' \in [Updates -> 0..MaxWrites]
  BY <1>6, WritingFacts
<1> QED BY <1>6, <1>7, <1>9, <1>10, <1>11, <1>12, <1>13, RunningStep DEF u

\* finishContext: the cache forgets, and no active row is left.
LEMMA FinishStep ==
  ASSUME IInv, NEW x \in Updates, StateFinishes(x)
  PROVE  IInv'
<1> DEFINE u == UserOf[x]
<1>1. TypeOK /\ CacheStands /\ u \in Users
  BY BotAssumption DEF IInv
<1>2. PICK i \in ActiveAt(u) :
        /\ ActiveAt(u) = {i}
        /\ \E content \in {rows[u][i].content, x} :
             rows' = [rows EXCEPT ![u][i] = [isActive |-> FALSE, content |-> content]]
  BY DEF StateFinishes
<1>0. PICK content \in {rows[u][i].content, x} :
        rows' = [rows EXCEPT ![u][i] = [isActive |-> FALSE, content |-> content]]
  BY <1>2
<1> DEFINE r == [isActive |-> FALSE, content |-> content]
<1>3. content \in Contents /\ rows \in [Users -> Seq(Rows)] /\ i \in DOMAIN rows[u]
  BY <1>1, <1>0, ActiveRows DEF Contents, TypeOK, ActiveAt
<1>4. r \in Rows /\ Replaces(u, i, r)
  BY <1>0, <1>3 DEF Rows, Replaces
<1>5. /\ Writing(x) /\ Cache(u, None) /\ saw' = [saw EXCEPT ![x] = None]
      /\ UNCHANGED <<pc, mode, crashes>>
  BY DEF StateFinishes
<1> HIDE DEF u, r
<1>6. /\ rows' \in [Users -> Seq(Rows)]
      /\ \A v \in Users \ {u} : rows'[v] = rows[v]
      /\ DOMAIN rows'[u] = DOMAIN rows[u] /\ rows'[u][i] = r
      /\ \A j \in DOMAIN rows[u] \ {i} : rows'[u][j] = rows[u][j]
  BY <1>1, <1>4, Replaced
<1>7. ActiveAt(u)' = {}
  <2> SUFFICES ASSUME NEW j \in DOMAIN rows[u], rows'[u][j].isActive PROVE FALSE
    BY <1>6 DEF ActiveAt
  <2>1. CASE j = i
    BY <1>6, <2>1 DEF r
  <2>2. CASE j # i
    <3>1. j \in ActiveAt(u)
      BY <1>6, <2>2 DEF ActiveAt
    <3> QED BY <1>2, <2>2, <3>1 DEF u
  <2> QED BY <2>1, <2>2
<1>8. /\ cache' \in [Users -> Contents \union {None}] /\ cache'[u] = None
      /\ \A v \in Users \ {u} : cache'[v] = cache[v]
  BY <1>1, <1>5 DEF TypeOK, Cache
<1>9. Stands(u, cache[u])'
  BY <1>8 DEF Stands
<1>10. saw' \in [Updates -> Contents \union {None}] /\ saw'[x] = None
       /\ \A y \in Updates \ {x} : saw'[y] = saw[y]
  BY <1>1, <1>5 DEF TypeOK
<1>11. SawFresh(x)'
  BY <1>7, <1>10 DEF SawFresh, u
<1>12. pc[x] \in Running /\ pc' = [pc EXCEPT ![x] = "state"]
       /\ writes' \in [Updates -> 0..MaxWrites]
  BY <1>5, WritingFacts
<1> QED BY <1>5, <1>6, <1>8, <1>9, <1>10, <1>11, <1>12, RunningStep DEF u

\* A method of a subclass: the same rows are active, and its user is none of Plain.
LEMMA PushStep ==
  ASSUME IInv, NEW x \in Updates, StatePushes(x)
  PROVE  /\ IInv'
         /\ ActiveAt(UserOf[x])' = ActiveAt(UserOf[x])
<1> DEFINE u == UserOf[x]
           next(row) == IF row.isActive THEN [row EXCEPT !.content = x] ELSE row
<1>1. TypeOK /\ CacheStands /\ u \in Users /\ u \notin Plain
  BY BotAssumption DEF IInv, StatePushes, Plain
<1>2. /\ rows \in [Users -> Seq(Rows)] /\ rows[u] \in Seq(Rows) /\ Len(rows[u]) \in Nat
      /\ DOMAIN rows[u] = 1..Len(rows[u]) /\ \A i \in DOMAIN rows[u] : rows[u][i] \in Rows
  BY <1>1, ActiveRows DEF TypeOK
<1>3. /\ Writing(x) /\ saw' = [saw EXCEPT ![x] = x] /\ UNCHANGED <<cache, pc, mode, crashes>>
      /\ rows' = [rows EXCEPT ![u] = [i \in DOMAIN rows[u] |-> next(rows[u][i])]]
  BY <1>2 DEF StatePushes
<1> HIDE DEF u
<1>4. \A row \in Rows : next(row) \in Rows /\ next(row).isActive = row.isActive
  BY DEF Rows, Contents
<1> HIDE DEF next
<1>5. /\ rows'[u] = [i \in 1..Len(rows[u]) |-> next(rows[u][i])]
      /\ \A v \in Users \ {u} : rows'[v] = rows[v]
      /\ DOMAIN rows' = Users
  BY <1>1, <1>2, <1>3
<1>6. rows'[u] \in Seq(Rows)
  <2>1. rows'[u] \in [1..Len(rows[u]) -> Rows]
    BY <1>2, <1>4, <1>5
  <2> QED BY <1>2, <2>1, IsASeq
<1>7. rows' \in [Users -> Seq(Rows)]
  BY <1>2, <1>3, <1>5, <1>6
<1>8. ActiveAt(u)' = ActiveAt(u)
  BY <1>2, <1>4, <1>5 DEF ActiveAt
<1>9. Stands(u, cache[u])'
  BY <1>1, <1>3, <1>8 DEF CacheStands, Stands, Plain
<1>10. saw' \in [Updates -> Contents \union {None}]
       /\ \A y \in Updates \ {x} : saw'[y] = saw[y]
  BY <1>1, <1>3 DEF TypeOK, Contents
<1>11. SawFresh(x)'
  BY <1>1 DEF SawFresh, u, Plain
<1>12. cache' \in [Users -> Contents \union {None}]
  BY <1>1, <1>3 DEF TypeOK
<1>13. pc[x] \in Running /\ pc' = [pc EXCEPT ![x] = "state"]
       /\ writes' \in [Updates -> 0..MaxWrites]
  BY <1>3, WritingFacts
<1>14. IInv'
  BY <1>3, <1>5, <1>7, <1>9, <1>10, <1>11, <1>12, <1>13, RunningStep DEF u
<1> QED BY <1>8, <1>14 DEF u

\* An update ends without another call of the repository.
LEMMA EndStep ==
  ASSUME IInv, NEW x \in Updates, NEW from \in Running, Ends(x, from),
         UNCHANGED <<rows, cache, mode, crashes>>
  PROVE  IInv'
<1>1. /\ TypeOK /\ CacheStands /\ UserOf[x] \in Users /\ pc[x] = from
      /\ pc' = [pc EXCEPT ![x] = "done"] /\ pc'[x] = "done"
  BY BotAssumption DEF IInv, Ends, Goto, TypeOK
<1>2. /\ saw' \in [Updates -> Contents \union {None}]
      /\ \A y \in Updates \ {x} : saw'[y] = saw[y]
      /\ writes' \in [Updates -> 0..MaxWrites]
  BY <1>1, BotAssumption DEF Ends, TypeOK
<1>3. Stands(UserOf[x], cache[UserOf[x]])' /\ SawFresh(x)'
  BY <1>1 DEF CacheStands, Stands, ActiveAt, SawFresh
<1>4. rows' \in [Users -> Seq(Rows)] /\ cache' \in [Users -> Contents \union {None}]
  BY <1>1 DEF TypeOK
<1> QED BY <1>1, <1>2, <1>3, <1>4, RunningStep

\* The poller starts an update when none runs, and a webhook needs no such care.
LEMMA ReceiveStep ==
  ASSUME IInv, NEW x \in Updates, Receive(x)
  PROVE  IInv'
<1> USE DEF Receive, Goto
<1>1. TypeOK
  BY DEF IInv
<1>2. pc'[x] = "middleware" /\ \A y \in Updates \ {x} : pc'[y] = pc[y]
  BY <1>1 DEF TypeOK
<1>3. TypeOK'
  BY <1>1 DEF TypeOK
<1>4. CacheStands'
  BY DEF IInv, CacheStands, Stands, ActiveAt
<1>5. OneAtATime'
  BY <1>2 DEF OneAtATime, Running
<1>6. \A y \in Updates : SawFresh(y)'
  BY <1>2 DEF IInv, SawFresh, ActiveAt
<1> QED BY <1>3, <1>4, <1>5, <1>6 DEF IInv

\* A kill empties the cache, and nothing runs after it.
LEMMA CrashStep ==
  ASSUME IInv, Crash
  PROVE  IInv'
<1>1. TypeOK
  BY DEF IInv
<1>2. /\ pc' \in [Updates -> {"idle", "middleware", "state", "done"}]
      /\ \A x \in Updates : pc'[x] \notin Running
  BY <1>1 DEF Crash, TypeOK, Running
<1>3. crashes' \in 0..MaxCrashes /\ writes' \in [Updates -> 0..MaxWrites]
  BY <1>1, BotAssumption DEF Crash, TypeOK
<1>4. /\ saw' \in [Updates -> Contents \union {None}]
      /\ cache' = [u \in Users |-> None] /\ mode' = mode /\ rows' = rows
  BY DEF Crash
<1>5. TypeOK'
  BY <1>1, <1>2, <1>3, <1>4 DEF TypeOK
<1>6. CacheStands' /\ OneAtATime' /\ \A x \in Updates : SawFresh(x)'
  BY <1>2, <1>4 DEF CacheStands, Stands, OneAtATime, SawFresh, Running
<1> QED BY <1>5, <1>6 DEF IInv

\* clearDb, while nothing runs.
LEMMA ClearStep ==
  ASSUME IInv, Clear
  PROVE  IInv'
<1>1. TypeOK
  BY DEF IInv
<1>2. rows' \in [Users -> Seq(Rows)]
  BY DEF Clear
<1>3. TypeOK'
  BY <1>1, <1>2 DEF TypeOK, Clear
<1>4. CacheStands' /\ OneAtATime' /\ \A x \in Updates : SawFresh(x)'
  BY DEF Clear, CacheStands, Stands, OneAtATime, SawFresh, Running
<1> QED BY <1>3, <1>4 DEF IInv

-------------------------------------------------------------------------------
\* What every step may do: one lemma for each.
LEMMA HandleStep ==
  ASSUME IInv, NEW x \in Updates, Handle(x)
  PROVE  IInv'
<1>1. /\ TypeOK /\ pc \in [Updates -> {"idle", "middleware", "state", "done"}]
      /\ saw \in [Updates -> Contents \union {None}]
      /\ writes \in [Updates -> 0..MaxWrites]
  BY DEF IInv, TypeOK
<1>2. [writes EXCEPT ![x] = 0] \in [Updates -> 0..MaxWrites]
  BY <1>1, BotAssumption
<1>3. CASE Receive(x)
  BY <1>3, ReceiveStep
<1>4. CASE MiddlewareReplies(x) \/ StateReturns(x)
  BY <1>4, EndStep DEF MiddlewareReplies, StateReturns, Running
<1>5. CASE RouteToState(x)
  BY <1>1, <1>5, ReadStep DEF RouteToState, Goto, Running
<1>6. CASE Reads(x)
  <2>1. PICK context \in {FindActive(UserOf[x]), LastActive(UserOf[x])} :
          /\ Cache(UserOf[x], context)
          /\ saw' = [saw EXCEPT ![x] = context]
    BY <1>6 DEF Reads
  <2>2. pc[x] \in Running /\ pc' = [pc EXCEPT ![x] = pc[x]]
        /\ UNCHANGED <<rows, writes, mode, crashes>>
    BY <1>1, <1>6 DEF Reads, Running
  <2>3. PICK to \in {"middleware", "state"} : pc' = [pc EXCEPT ![x] = to]
    BY <2>2 DEF Running
  <2>4. writes' \in [Updates -> 0..MaxWrites]
    BY <1>1, <2>2
  <2>5. context \in {Queried(UserOf[x]), FindActive(UserOf[x]), LastActive(UserOf[x])}
    OBVIOUS
  <2>6. to \in {"middleware", "state", "done"} /\ to # "done"
    OBVIOUS
  <2> HIDE DEF IInv
  <2> QED BY <2>1, <2>2, <2>3, <2>4, <2>5, <2>6, ReadStep, Zenon
<1>7. CASE StateStep(x)
  BY <1>4, <1>7, AddStep, UpdateStep, FinishStep, PushStep DEF StateStep
<1>8. CASE Throws(x)
  BY <1>2, <1>8, ReadStep DEF Throws, Ends, Goto, Running
<1>9. CASE UpdateRejected(x)
  BY <1>2, <1>9, ReadStep DEF UpdateRejected, Ends, Goto, Running
<1> QED BY <1>3, <1>4, <1>5, <1>6, <1>7, <1>8, <1>9 DEF Handle

\* The invariant is inductive (bot-dialogue.ts:50-155).
THEOREM DialogueInvariant ==
  Spec => []IInv
<1>1. ASSUME IInv, [Next]_vars
      PROVE  IInv'
  <2>1. CASE UNCHANGED vars
    <3>1. /\ UNCHANGED <<rows, cache, pc, saw, writes, mode, crashes>>
          /\ \A u : ActiveAt(u)' = ActiveAt(u)
      BY <2>1 DEF vars, ActiveAt
    <3>2. TypeOK'
      BY <1>1, <3>1 DEF IInv, TypeOK
    <3>3. CacheStands' /\ OneAtATime'
      BY <1>1, <3>1 DEF IInv, CacheStands, Stands, OneAtATime
    <3>4. \A x \in Updates : SawFresh(x)'
      BY <1>1, <3>1 DEF IInv, SawFresh
    <3> QED BY <3>2, <3>3, <3>4 DEF IInv
  <2> QED BY <1>1, <2>1, HandleStep, CrashStep, ClearStep DEF Next
<1> QED BY Initially, <1>1, PTL DEF Spec

\* The variables keep their types (bot-dialogue.ts:50-155).
THEOREM DialogueTypes ==
  Spec => []TypeOK
<1>1. IInv => TypeOK
  BY DEF IInv
<1> QED BY DialogueInvariant, <1>1, PTL

\* What findActive answers from the cache is an active row of the table as it is
\* now (bot-dialogue.ts:54-56, 141, 152).
THEOREM CacheIsTrue ==
  Spec => []CacheMatchesTable
<1>1. IInv => CacheMatchesTable
  BY DEF IInv, CacheStands, Stands, CacheMatchesTable, CachedActive, Plain
<1> QED BY DialogueInvariant, <1>1, PTL

\* A cached context stands for some active row even when its content is stale
\* (bot-dialogue.ts:78-81).
THEOREM CacheBlocksNoUser ==
  Spec => []CachedDialogueExists
<1>1. IInv => CachedDialogueExists
  BY DEF IInv, CacheStands, Stands, CachedDialogueExists
<1> QED BY DialogueInvariant, <1>1, PTL

\* A user never gets a second active dialogue (bot-dialogue.ts:75-92).
THEOREM OneDialogue ==
  Spec => NoSecondDialogue
<1> DEFINE NoSecond == \A u \in Users : ActiveAt(u)' \subseteq ActiveAt(u) \/ ActiveAt(u) = {}
<1>1. ASSUME IInv, Next
      PROVE  NoSecond
  <2>1. TypeOK /\ CacheStands
    BY <1>1 DEF IInv
  <2>2. CASE rows' = rows
    BY <2>2 DEF ActiveAt
  <2>3. CASE Clear
    BY <2>3 DEF Clear, ActiveAt
  <2>4. ASSUME NEW x \in Updates,
               StateAdds(x) \/ StateUpdates(x) \/ StateFinishes(x) \/ StatePushes(x)
        PROVE  NoSecond
    <3> DEFINE u == UserOf[x]
    <3>1. u \in Users /\ rows \in [Users -> Seq(Rows)]
      BY <2>1, BotAssumption DEF TypeOK
    <3>2. \A v \in Users \ {u} : ActiveAt(v)' = ActiveAt(v)
      <4>1. PICK s : rows' = [rows EXCEPT ![u] = s]
        BY <2>4, <3>1 DEF StateAdds, StateUpdates, StateFinishes, StatePushes
      <4>2. \A v \in Users \ {u} : rows'[v] = rows[v]
        BY <3>1, <4>1
      <4> QED BY <4>2 DEF ActiveAt
    <3>3. CASE StateAdds(x)
      <4>1. ActiveAt(u) = {}
        BY <2>1, <3>1, <3>3, Found DEF StateAdds
      <4> QED BY <3>2, <4>1
    <3>4. CASE StateUpdates(x) \/ StateFinishes(x)
      <4>1. PICK i : /\ ActiveAt(u) = {i}
                     /\ \E r : rows' = [rows EXCEPT ![u] = [@ EXCEPT ![i] = r]]
        BY <3>1, <3>4 DEF StateUpdates, StateFinishes
      <4>2. PICK r : rows'[u] = [rows[u] EXCEPT ![i] = r]
        BY <3>1, <4>1
      <4>3. ActiveAt(u)' \subseteq ActiveAt(u)
        BY <4>1, <4>2 DEF ActiveAt
      <4> QED BY <3>2, <4>3
    <3>5. CASE StatePushes(x)
      BY <1>1, <3>2, <3>5, PushStep
    <3> QED BY <2>4, <3>3, <3>4, <3>5
  <2> QED BY <1>1, <2>2, <2>3, <2>4
       DEF Next, Handle, StateStep, Receive, MiddlewareReplies, RouteToState, Reads,
           StateReturns, Throws, UpdateRejected, Crash
<1>2. IInv /\ [Next]_vars => [NoSecond]_vars
  BY <1>1
<1>3. [][NoSecond]_vars <=> NoSecondDialogue
  BY DEF NoSecondDialogue
<1> HIDE DEF NoSecond
<1> QED BY DialogueInvariant, <1>2, <1>3, PTL DEF Spec

\* While the bot polls, what a state writes replaces the context that it saw
\* (bot.module.ts:224).
THEOREM PollingIsFresh ==
  Spec => PollingWritesFresh
<1> DEFINE Fresh == \A x \in Updates :
             mode = "getUpdates" /\ UserOf[x] \in Plain /\ writes'[x] > writes[x] =>
               \/ saw[x] = None /\ ActiveAt(UserOf[x]) = {}
               \/ \E i \in ActiveAt(UserOf[x]) : rows[UserOf[x]][i].content = saw[x]
<1>1. ASSUME IInv, Next
      PROVE  Fresh
  <2> SUFFICES ASSUME NEW x \in Updates, mode = "getUpdates", UserOf[x] \in Plain,
                      writes'[x] > writes[x]
               PROVE  pc[x] = "state"
    BY <1>1 DEF IInv, SawFresh
  <2>1. writes \in [Updates -> 0..MaxWrites] /\ MaxWrites \in Nat /\ writes[x] \in Nat
    BY <1>1, BotAssumption DEF IInv, TypeOK
  <2>2. writes'[x] # writes[x] /\ writes'[x] # 0
    BY <2>1
  <2>3. PICK y \in Updates : Writing(y)
    BY <1>1, <2>1, <2>2
       DEF Next, Handle, StateStep, Receive, MiddlewareReplies, RouteToState, Reads, Ends,
           StateAdds, StateUpdates, StateFinishes, StatePushes, StateReturns, Throws,
           UpdateRejected, Crash, Clear
  <2>4. x = y
    BY <2>1, <2>2, <2>3 DEF Writing
  <2> QED BY <2>3, <2>4 DEF Writing
<1>2. IInv /\ [Next]_vars => [Fresh]_vars
  BY <1>1
<1>3. [][Fresh]_vars <=> PollingWritesFresh
  BY DEF PollingWritesFresh
<1> HIDE DEF Fresh
<1> QED BY DialogueInvariant, <1>2, <1>3, PTL DEF Spec

-------------------------------------------------------------------------------
\* The refinement speaks of the same active rows and of the same users.
LEMMA SameTable ==
  /\ Uncached!Plain = Plain /\ Uncached!Contents = Contents
  /\ \A u : Uncached!ActiveAt(u) = ActiveAt(u)
BY DEF Uncached!Plain, Plain, Uncached!Contents, Contents, Uncached!ActiveAt, ActiveAt

\* What a query answers, from the cache or not, may be found in the table.
LEMMA FindStep ==
  ASSUME IInv, NEW x \in Updates, UNCHANGED rows,
         NEW context \in {Queried(UserOf[x]), FindActive(UserOf[x]), LastActive(UserOf[x])},
         saw' = [saw EXCEPT ![x] = context]
  PROVE  Uncached!Find(x)
<1>1. TypeOK /\ CacheStands /\ UserOf[x] \in Users
  BY BotAssumption DEF IInv
<1>2. /\ context \in Contents \union {None} /\ Stands(UserOf[x], context)
      /\ context = None => ActiveAt(UserOf[x]) = {}
  BY <1>1, Found
<1>3. None \notin Contents
  BY BotAssumption DEF Contents
<1>4. context \in Uncached!Found(UserOf[x])
  BY <1>2, <1>3, SameTable DEF Stands, Uncached!Found
<1> QED BY <1>4 DEF Uncached!Find, Uncached!See

\* An update of the repository changes or finishes the only active row.
LEMMA ReplaceStep ==
  ASSUME IInv, NEW x \in Updates, StateUpdates(x) \/ StateFinishes(x)
  PROVE  Uncached!Replace(x)
<1> DEFINE u == UserOf[x]
<1>1. TypeOK /\ u \in Users
  BY BotAssumption DEF IInv
<1>2. PICK i : /\ ActiveAt(u) = {i}
               /\ \/ /\ rows' = [rows EXCEPT ![u][i].content = x]
                     /\ saw' = [saw EXCEPT ![x] = x]
                  \/ /\ \E content \in {rows[u][i].content, x} :
                          rows' = [rows EXCEPT ![u][i] =
                                     [isActive |-> FALSE, content |-> content]]
                     /\ saw' = [saw EXCEPT ![x] = None]
  BY DEF StateUpdates, StateFinishes
<1>3. /\ rows[u][i] \in Rows /\ rows[u][i].isActive /\ rows[u][i].content \in Contents
      /\ rows \in [Users -> Seq(Rows)] /\ i \in DOMAIN rows[u]
  BY <1>1, <1>2, ActiveRows DEF ActiveAt, TypeOK
<1>4. ASSUME NEW row \in Rows, row.content \in {rows[u][i].content, x},
             rows' = [rows EXCEPT ![u][i] = row],
             saw' = [saw EXCEPT ![x] = IF row.isActive THEN x ELSE None]
      PROVE  Uncached!Replace(x)
  <2>1. row \in [isActive : BOOLEAN, content : Uncached!Contents]
    BY SameTable DEF Rows
  <2>2. Uncached!ActiveAt(u) = {i}
    BY <1>2, SameTable
  <2> QED BY <1>4, <2>1, <2>2 DEF Uncached!Replace, Uncached!See
<1>5. CASE rows' = [rows EXCEPT ![u][i].content = x] /\ saw' = [saw EXCEPT ![x] = x]
  <2>1. PICK row \in Rows : row = [rows[u][i] EXCEPT !.content = x]
    BY <1>3 DEF Rows, Contents
  <2>2. row.isActive /\ row.content = x
    BY <1>3, <2>1 DEF Rows
  <2>3. rows' = [rows EXCEPT ![u][i] = row]
    BY <1>3, <1>5, <2>1
  <2> QED BY <1>4, <1>5, <2>2, <2>3
<1>6. CASE saw' = [saw EXCEPT ![x] = None]
           /\ \E content \in {rows[u][i].content, x} :
                rows' = [rows EXCEPT ![u][i] = [isActive |-> FALSE, content |-> content]]
  <2>1. PICK content \in {rows[u][i].content, x} :
          rows' = [rows EXCEPT ![u][i] = [isActive |-> FALSE, content |-> content]]
    BY <1>6
  <2> DEFINE row == [isActive |-> FALSE, content |-> content]
  <2>2. row \in Rows /\ row.content = content /\ ~row.isActive
    BY <1>3 DEF Rows, Contents
  <2> HIDE DEF row
  <2> QED BY <1>4, <1>6, <2>1, <2>2 DEF row
<1> QED BY <1>2, <1>5, <1>6

\* Every step of an update is a step on the table without a cache, or none.
LEMMA UncachedStep ==
  ASSUME IInv, NEW x \in Updates, Handle(x)
  PROVE  Uncached!Next \/ UNCHANGED <<rows, saw>>
<1>1. TypeOK /\ CacheStands /\ UserOf[x] \in Users
  BY BotAssumption DEF IInv
<1>2. CASE Receive(x)
  BY <1>2 DEF Receive
<1>3. CASE MiddlewareReplies(x) \/ StateReturns(x) \/ Throws(x) \/ UpdateRejected(x)
  <2>1. Uncached!Forget(x)
    BY <1>3 DEF MiddlewareReplies, StateReturns, Throws, UpdateRejected, Ends,
      Uncached!Forget, Uncached!See
  <2> QED BY <2>1 DEF Uncached!Next
<1>4. CASE RouteToState(x) \/ Reads(x)
  <2>1. Uncached!Find(x)
    BY <1>4, FindStep DEF RouteToState, Reads
  <2> QED BY <2>1 DEF Uncached!Next
<1>5. CASE StateAdds(x)
  <2>1. ActiveAt(UserOf[x]) = {}
    BY <1>1, <1>5, Found DEF StateAdds
  <2>2. Uncached!Begin(x)
    BY <1>5, <2>1, SameTable DEF StateAdds, Uncached!Begin, Uncached!See
  <2> QED BY <2>2 DEF Uncached!Next
<1>6. CASE StateUpdates(x) \/ StateFinishes(x)
  BY <1>6, ReplaceStep DEF Uncached!Next
<1>7. CASE StatePushes(x)
  <2>1. Uncached!Push(x)
    BY <1>7 DEF StatePushes, Uncached!Push, Uncached!See
  <2> QED BY <2>1 DEF Uncached!Next
<1> QED BY <1>2, <1>3, <1>4, <1>5, <1>6, <1>7 DEF Handle, StateStep

\* The cache is transparent: the repository does what a table without a cache could do
\* (bot-dialogue.ts:50-155).
THEOREM DialoguesRefinement ==
  Spec => ImplementsDialogueTable
<1>1. Init => Uncached!Init
  <2>1. Seeds \subseteq Seq([isActive : BOOLEAN, content : {Seed}])
    <3> DEFINE S == [isActive : BOOLEAN, content : {Seed}]
    <3>1. Seeds = {<<>>} \union UNION {[1..n -> S] : n \in 1..2}
      BY DEF Seeds
    <3> HIDE DEF S
    <3>2. <<>> \in Seq(S)
      OBVIOUS
    <3>3. ASSUME NEW n \in 1..2, NEW s \in [1..n -> S]
          PROVE  s \in Seq(S)
      <4>1. n \in Nat
        OBVIOUS
      <4> QED BY <4>1, IsASeq
    <3>4. Seeds \subseteq Seq(S)
      BY <3>1, <3>2, <3>3
    <3> QED BY <3>4 DEF S
  <2> QED BY <2>1 DEF Init, Uncached!Init
<1>2. ASSUME IInv, [Next]_vars
      PROVE  [Uncached!Next]_(Uncached!vars)
  <2>1. CASE \E x \in Updates : Handle(x)
    BY <1>2, <2>1, UncachedStep DEF Uncached!vars
  <2>2. CASE Crash
    <3>1. Uncached!ForgetAll
      BY <2>2 DEF Crash, Uncached!ForgetAll
    <3> QED BY <3>1 DEF Uncached!Next
  <2>3. CASE Clear
    <3>1. Uncached!Clear
      BY <2>3 DEF Clear, Uncached!Clear
    <3> QED BY <3>1 DEF Uncached!Next
  <2>4. CASE UNCHANGED vars
    BY <2>4 DEF vars, Uncached!vars
  <2> QED BY <1>2, <2>1, <2>2, <2>3, <2>4 DEF Next
<1> QED
  BY <1>1, <1>2, DialogueInvariant, PTL DEF Spec, ImplementsDialogueTable, Uncached!Spec
================================================================================
