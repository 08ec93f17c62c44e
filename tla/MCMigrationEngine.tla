------------------------- MODULE MCMigrationEngine -------------------------
(***************************************************************************)
(* MigrationEngine for the model checker.  Workers are interchangeable in  *)
(* every definition, and so are clients; task ids are ordered.             *)
(***************************************************************************)
EXTENDS MigrationEngine, TLC

\* A block on its way out and back: enough to charge two tiers both ways.
OutAndBack == {<<"HOT", "WARM">>, <<"WARM", "HOT">>}

\* One route, where the direction does not matter.
Out == {<<"HOT", "WARM">>}

ThreadSymmetry == Permutations(Workers) \cup Permutations(Clients)

=============================================================================
