------------------------------- MODULE Policy -------------------------------
(***************************************************************************)
(* internal/policy/policy.go: the decision whether a statement a client    *)
(* submits may run.  DuckDB's parser counts the statements and turns a     *)
(* SELECT into a JSON tree, which inspectTree walks with a deny list, an   *)
(* allow list of table functions and a check of table names, and           *)
(* collectSources walks again for the log.                                 *)
(*                                                                         *)
(* A tree is a sequence of nodes, the root first, each naming its parent.  *)
(* What the name lists and the regular expressions say of a node or of a   *)
(* text is its kind or form here.                                          *)
(***************************************************************************)
EXTENDS Naturals, Sequences

CONSTANT Catalog   \* catalogs a table can be in; MEMORY is "memory" or none

MEMORY == "memory"

(* "list": a JSON array.  "denied": an object with the name of a forbidden *)
(* function.  "listed", "unlisted": a TABLE_FUNCTION whose function is on  *)
(* the allow list, or is not or has no name.  "table", "path": a           *)
(* BASE_TABLE, in the second case with the name of a file.  "object": any  *)
(* other object.                                                           *)
Kind == {"list", "object", "denied", "listed", "unlisted", "table", "path"}
TreeNode == [kind : Kind, parent : Nat, catalog : Catalog \cup {MEMORY}]

Tree(t) ==
  /\ t \in Seq(TreeNode)
  /\ \A n \in DOMAIN t : t[n].parent < n /\ (t[n].parent = 0 <=> n = 1)

(* size: the text is empty, fits or exceeds 1 MiB.  statements: what the   *)
(* parser extracts, 0 if it finds an error.  form: a SELECT, CREATE TEMP   *)
(* TABLE qr_tmp_.. AS with a SELECT or with something else, a statement of *)
(* transaction control, or other.  tree: of the SELECT, if there is one.   *)
Form == {"select", "temp", "tempOther", "transaction", "other"}
Query(q) ==
  /\ q.size \in {"empty", "fits", "large"}
  /\ q.statements \in Nat
  /\ q.form \in Form
  /\ Tree(q.tree)
  /\ q.form \in {"select", "temp"} <=> q.tree # <<>>

-----------------------------------------------------------------------------
Children(t, n) == {m \in DOMAIN t : t[m].parent = n}

Refused == {"denied", "unlisted", "path"}

(* inspectTree.                                                            *)
InspectTree(t) ==
  LET accepted[n \in DOMAIN t] ==
        /\ t[n].kind \notin Refused
        /\ \A m \in Children(t, n) : accepted[m]
  IN accepted[1]

(* collectSources: the catalogs of the tables below a node and its own.    *)
CollectSources(t) ==
  LET below[n \in DOMAIN t] ==
        (IF t[n].kind \in {"table", "path"} THEN {t[n].catalog} \ {MEMORY} ELSE {})
        \cup UNION {below[m] : m \in Children(t, n)}
  IN below[1]

Denial == [allowed |-> FALSE, sources |-> {}]

(* The two branches of Evaluate that end in a walk of a tree.              *)
Walked(t) ==
  IF InspectTree(t) THEN [allowed |-> TRUE, sources |-> CollectSources(t)] ELSE Denial

(* Evaluate, from the kind of the one statement on.                        *)
Judged(q) ==
  IF q.form \in {"select", "temp"} THEN Walked(q.tree)
  ELSE [Denial EXCEPT !.allowed = q.form = "transaction"]

(* Faulty variant: the first of several statements is judged.              *)
EvaluateFirst(open, q) ==
  IF q.size # "fits" \/ ~open \/ q.statements = 0 THEN Denial ELSE Judged(q)

(* Evaluate: open says whether Close has come before.  The parser of a     *)
(* closed evaluator extracts no statement.                                 *)
Evaluate(open, q) ==
  IF q.size # "fits" \/ ~open \/ q.statements # 1 THEN Denial ELSE Judged(q)

-----------------------------------------------------------------------------
(* What the decision is to be: one statement, and everywhere in it nothing *)
(* that is refused.                                                        *)
Harmless(q) ==
  /\ q.size = "fits"
  /\ q.statements = 1
  /\ q.form \in {"select", "temp", "transaction"}
  /\ \A n \in DOMAIN q.tree : q.tree[n].kind \notin Refused

Named(q) ==
  {q.tree[n].catalog : n \in {m \in DOMAIN q.tree : q.tree[m].kind = "table"}} \ {MEMORY}
=============================================================================
