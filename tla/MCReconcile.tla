----------------------------- MODULE MCReconcile ----------------------------
(***************************************************************************)
(* Instances of Reconcile.  Two sources; source 1 has two possible         *)
(* databases, so that a reload can replace it, source 2 can be added and   *)
(* removed.                                                                *)
(***************************************************************************)
EXTENDS Reconcile, TLC

CONSTANTS a, b, d1, d2, d3

Def(id, alias, db) == [id |-> id, alias |-> alias, db |-> db]

MCId == {1, 2}
MCSourceID == {1, 2, -1, -2}
MCLiveAlias == {a, b}
MCDatabase == {d1, d2, d3}

(* Every source keeps its alias.                                           *)
FixedDocuments ==
  {{Def(1, a, d1), Def(2, b, d3)}, {Def(1, a, d2), Def(2, b, d3)},
   {Def(1, a, d1)}, {Def(2, b, d3)}}
FixedAlias == MCLiveAlias \cup UNION FixedDocuments
FixedKind == d1 :> "file" @@ d2 :> "remote" @@ d3 :> "remote"

(* Aliases move between sources: 1 from a to b, 2 onto a.                  *)
MovingDocuments ==
  {{Def(1, a, d1)}, {Def(1, b, d1)}, {Def(1, b, d1), Def(2, a, d2)}}
MovingAlias == MCLiveAlias \cup UNION MovingDocuments

(* The theorems that speak of stable aliases speak of the first instance,  *)
(* not of the second.                                                      *)
ASSUME StableInstance == Stable(FixedDocuments) /\ ~Stable(MovingDocuments)

(* Source 1 is an ODBC source that becomes a file source and back.         *)
ODBCKind == d1 :> "odbc" @@ d2 :> "file" @@ d3 :> "remote"
=============================================================================
