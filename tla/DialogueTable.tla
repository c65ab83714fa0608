----------------------------- MODULE DialogueTable -----------------------------
(***************************************************************************)
(* What the users of BotDialogueRepository are promised: a table of         *)
(* contexts, and no cache. Whoever looks for the active context finds an    *)
(* active row as it is now; a dialogue begins only where there is none, and *)
(* only the one that there is can change or finish.                        *)
(***************************************************************************)
EXTENDS Naturals, Sequences

CONSTANTS
  Users, Updates,
  UserOf,  \* UserOf[x]: the user update x is from
  Pushes,  \* updates that write the rows with SQL of their own
  None,    \* no context
  Seed     \* the content of the rows the table starts with

VARIABLES
  rows,  \* the rows of each user, in the order they were inserted
  saw    \* the active context each update believes its user to have

vars == <<rows, saw>>

Contents == Updates \union {Seed}

Init ==
  /\ rows \in [Users -> Seq([isActive : BOOLEAN, content : {Seed}])]
  /\ saw = [x \in Updates |-> None]

ActiveAt(u) == {i \in DOMAIN rows[u] : rows[u][i].isActive}

\* Users whose rows are written by the methods of the repository only.
Plain == {u \in Users : \A x \in Pushes : UserOf[x] # u}

\* What may be found; of a user that is not plain only whether there is anything.
Found(u) ==
  IF ActiveAt(u) = {} THEN {None}
  ELSE IF u \in Plain THEN {rows[u][i].content : i \in ActiveAt(u)}
  ELSE Contents

See(x, context) == saw' = [saw EXCEPT ![x] = context]

Find(x) ==
  /\ \E context \in Found(UserOf[x]) : See(x, context)
  /\ UNCHANGED rows

Begin(x) ==
  /\ ActiveAt(UserOf[x]) = {}
  /\ rows' = [rows EXCEPT ![UserOf[x]] = Append(@, [isActive |-> TRUE, content |-> x])]
  /\ See(x, x)

\* The only active row gets another content, or stops being active.
Replace(x) ==
  \E i \in ActiveAt(UserOf[x]), row \in [isActive : BOOLEAN, content : Contents] :
    /\ ActiveAt(UserOf[x]) = {i}
    /\ row.content \in {rows[UserOf[x]][i].content, x}
    /\ rows' = [rows EXCEPT ![UserOf[x]][i] = row]
    /\ See(x, IF row.isActive THEN x ELSE None)

Push(x) ==
  /\ x \in Pushes
  /\ rows' = [rows EXCEPT ![UserOf[x]] = [i \in DOMAIN @ |->
                IF @[i].isActive THEN [@[i] EXCEPT !.content = x] ELSE @[i]]]
  /\ See(x, x)

Forget(x) == See(x, None) /\ UNCHANGED rows

\* The process is killed.
ForgetAll == saw' = [x \in Updates |-> None] /\ UNCHANGED rows

Clear == rows' = [u \in Users |-> <<>>] /\ UNCHANGED saw

Next ==
  \/ \E x \in Updates : Find(x) \/ Begin(x) \/ Replace(x) \/ Push(x) \/ Forget(x)
  \/ ForgetAll
  \/ Clear

Spec == Init /\ [][Next]_vars
===============================================================================
