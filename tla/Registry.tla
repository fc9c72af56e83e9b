------------------------------ MODULE Registry ------------------------------
(***************************************************************************)
(* What internal/config promises its callers: a set of sources with unique *)
(* identifiers and aliases that changes by one source at a time, and a     *)
(* credential store that holds the credential of every source that needs   *)
(* one.  A credential may outlive its source (a crash in the middle of an  *)
(* operation), never the other way round.                                  *)
(***************************************************************************)
CONSTANT Source   \* [id, alias, secret]: secret if a credential belongs to it

VARIABLES sources, credentials

registryVars == <<sources, credentials>>

Distinct(S) ==
  \A s, t \in S : s.id = t.id \/ s.alias = t.alias => s = t

Covered(S, refs) == \A s \in S : s.secret => s.id \in refs

Init ==
  /\ sources \subseteq Source
  /\ Distinct(sources)
  /\ Covered(sources, credentials)

Insert(s) ==
  /\ s \notin sources
  /\ sources' = sources \cup {s}
  /\ Distinct(sources')
  /\ Covered({s}, credentials)
  /\ UNCHANGED credentials

Withdraw(s) ==
  /\ s \in sources
  /\ sources' = sources \ {s}
  /\ UNCHANGED credentials

Keep(id) ==
  /\ credentials' = credentials \cup {id}
  /\ UNCHANGED sources

Drop(id) ==
  /\ \A s \in sources : s.secret => s.id # id
  /\ credentials' = credentials \ {id}
  /\ UNCHANGED sources

Next ==
  \E s \in Source :
    \/ Insert(s)
    \/ Withdraw(s)
    \/ Keep(s.id)
    \/ Drop(s.id)

Spec == Init /\ [][Next]_registryVars
=============================================================================
