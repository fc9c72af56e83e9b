---------------------------- MODULE MCLifecycle -----------------------------
(***************************************************************************)
(* A database source, a file source that may move to another path; the     *)
(* file may also be dropped.                                               *)
(***************************************************************************)
EXTENDS Lifecycle, TLC

CONSTANTS i, j, p, q

MCSource == {[id |-> i, path |-> NONE], [id |-> j, path |-> p], [id |-> j, path |-> q]}
MCDocuments ==
  {{[id |-> i, path |-> NONE]},
   {[id |-> i, path |-> NONE], [id |-> j, path |-> p]},
   {[id |-> i, path |-> NONE], [id |-> j, path |-> q]},
   {[id |-> j, path |-> p]}}
=============================================================================
