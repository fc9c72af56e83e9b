------------------------------- MODULE MCGate -------------------------------
(***************************************************************************)
(* Two sources that compete for two aliases, two handles, one probe; one   *)
(* client whose statements take in each kind of node inside an object,     *)
(* nodes inside an array, two tables, and every other way a statement is   *)
(* told apart.  The two walks are also compared with their definitions by  *)
(* quantification on every tree of up to three nodes.                      *)
(***************************************************************************)
EXTENDS Gate, TLC

CONSTANT x   \* a catalog other than memory

N(kind, parent) ==
  [kind |-> kind, parent |-> parent,
   catalog |-> IF kind \in {"table", "path"} THEN x ELSE MEMORY]
MemoryTable(parent) == [kind |-> "table", parent |-> parent, catalog |-> MEMORY]

Trees ==
  {<<N("object", 0), N(k, 1)>> : k \in Kind}
  \cup {<<N("object", 0), N("list", 1), N(k, 2)>> : k \in {"denied", "table"}}
  \cup {<<N("object", 0), MemoryTable(1), N("table", 1)>>}

SmallTrees ==
  {<<N(k, 0)>> : k \in Kind} \cup {<<N(k, 0), N(l, 1)>> : k, l \in Kind}
  \cup {<<N(k, 0), N(l, 1), N(m, n)>> : k, l, m \in Kind, n \in {1, 2}}

ASSUME WalksAreExact ==
  \A t \in SmallTrees :
    /\ InspectTree(t) <=> \A n \in DOMAIN t : t[n].kind \notin Refused
    /\ CollectSources(t) =
         {t[n].catalog : n \in {m \in DOMAIN t : t[m].kind \in {"table", "path"}}} \ {MEMORY}

Statement(form, tree) == [size |-> "fits", statements |-> 1, form |-> form, tree |-> tree]
Plain == Statement("select", <<N("object", 0), N("table", 1)>>)

MCSubmitted ==
  {Statement("select", t) : t \in Trees}
  \cup {Statement("temp", <<N(k, 0)>>) : k \in {"table", "denied"}}
  \cup {Statement(f, <<>>) : f \in {"tempOther", "transaction", "other"}}
  \cup {[Plain EXCEPT !.size = s] : s \in {"empty", "large"}}
  \cup {[Plain EXCEPT !.statements = k] : k \in {0, 2}}

GateSymmetry == Permutations(SourceID) \cup Permutations(Alias) \cup Permutations(Handle)
=============================================================================
