------------------------- MODULE MCDatabaseLifecycle -------------------------
(***************************************************************************)
(* Two modules. Version 2 adds a migration to the first table of users and  *)
(* a repository to that module.                                            *)
(***************************************************************************)
EXTENDS DatabaseLifecycle, TLC

CONSTANTS p1, p2, p3

MCReposOf ==
  << [users |-> <<"user", "group">>, posts |-> <<"post">>],
     [users |-> <<"user", "group", "role">>, posts |-> <<"post">>] >>

MCRowsOf ==
  << [user |-> <<"u1">>, group |-> <<"g1">>, role |-> <<>>, post |-> <<>>, migrations |-> <<>>],
     [user |-> <<"u1", "u2">>, group |-> <<"g1">>, role |-> <<>>, post |-> <<>>,
      migrations |-> <<>>] >>

MCModules == <<"users", "posts">>

MCArgvs ==
  { <<"create", "module", "all">>, <<"migrate", "module", "users", "nobody">>,
    <<"module", "users", "posts", "clear">>, <<"create">>, <<"sql", "module", "all">>,
    <<"sql", "module", "users", "method", "run">> }

Symmetry == Permutations(Managers)
===============================================================================
