---------------------------- MODULE MCConfigStore ---------------------------
(***************************************************************************)
(* Three source definitions: two that share an identifier, two that share  *)
(* an alias, one without a credential.                                     *)
(***************************************************************************)
EXTENDS ConfigStore, TLC

CONSTANTS i, j, a, b

MCSource ==
  {[id |-> i, alias |-> a, secret |-> TRUE],
   [id |-> i, alias |-> b, secret |-> FALSE],
   [id |-> j, alias |-> b, secret |-> TRUE]}

(* For racing commands: two sources that want one alias.                   *)
RaceSource ==
  {[id |-> i, alias |-> a, secret |-> TRUE],
   [id |-> j, alias |-> a, secret |-> FALSE]}

Commands == Permutations(Proc)
=============================================================================
