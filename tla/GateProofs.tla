----------------------------- MODULE GateProofs -----------------------------
(***************************************************************************)
(* The engine that starts and stops step by step is the engine of module   *)
(* Engine, so it inherits the invariants proved there; and its listener    *)
(* and its resources are in order, for any sources, clients and            *)
(* statements.  The resources that are open are a function of the stage    *)
(* (ResourcesInOrder), which neither property says by itself: an error     *)
(* path releases what the stage it is in has taken.  Every decision about  *)
(* a statement is exact, however large its tree: the two recursive walks   *)
(* compute what a look at all nodes at once says.                          *)
(***************************************************************************)
EXTENDS Gate, EngineProofs, WellFoundedInduction

Started == {"resolve", "authorize", "publish", "lock", "serve"}

ResourcesInOrder ==
  /\ stage \in {"idle"} \cup StartStages \cup StopStages
  /\ stage = "idle" => open = IF running THEN Resource ELSE {}
  /\ stage = "sandbox" => open = {"db"}
  /\ stage \in {"configure", "install"} => open = {"db", "sandbox"}
  /\ stage = "connect" => open = {"db", "sandbox", "policy"}
  /\ stage \in Started \cup {"stopQuack", "closePolicy"} => open = Resource
  /\ stage = "closeHandles" => open = {"db", "sandbox", "odbc"}
  /\ stage = "closeDatabase" => open = {"db", "sandbox"}
  /\ evaluating <=> "policy" \in open

ListenerInOrder ==
  /\ stage \in StartStages => ~running
  /\ stage \in StopStages => running
  /\ listening => running /\ guarded /\ locked
  /\ stage \in {"publish", "lock", "serve"} => guarded
  /\ stage = "serve" => locked
  /\ {running, listening, guarded, locked, evaluating} \subseteq BOOLEAN

GateInv == ResourcesInOrder /\ ListenerInOrder

(* The stages have different names.                                        *)
LEMMA Stages ==
  /\ StartStages \cap StopStages = {}
  /\ "idle" \notin StartStages \cup StopStages
  BY DEF StartStages, StopStages

(* The operations between Start and Stop neither start nor stop the engine.*)
LEMMA OperatesKeepsRunning ==
  ASSUME EngineOperation PROVE UNCHANGED running
<1>1. ASSUME NEW id \in SourceID, NEW alias \in Alias, AttachAny(id, alias)
      PROVE  UNCHANGED running
  BY <1>1 DEF AttachAny, Attach, AttachUnprepared, AttachRefused, AttachUnregistered, AttachUndescribed
<1>2. ASSUME NEW id \in SourceID, NEW alias \in Alias, AttachODBCAny(id, alias)
      PROVE  UNCHANGED running
  BY <1>2 DEF AttachODBCAny, AttachODBC, AttachODBCRefused, AttachODBCUndescribed, engineVars
<1>3. ASSUME NEW id \in SourceID, NEW alias \in Alias, DetachAny(alias, id)
      PROVE  UNCHANGED running
  BY <1>3 DEF DetachAny, Detach, DetachCutShort, DetachRefused, ForgetSource, engineVars
<1>4. ASSUME NEW p \in Probe, ProbeBegins(p) \/ ODBCQuery(p) \/ ClearODBC(p)
      PROVE  UNCHANGED running
  BY <1>4 DEF ProbeBegins, ODBCQuery, ClearODBC
<1> QED
  BY <1>1, <1>2, <1>3, <1>4 DEF EngineOperation

-----------------------------------------------------------------------------
(* Every step of Start or Stop is a step of the engine or leaves it alone. *)
LEMMA GateStepRefines == [GateNext]_allVars => [EngineNext]_engineVars
<1> SUFFICES ASSUME [GateNext]_allVars PROVE [EngineNext]_engineVars
  OBVIOUS
<1>1. CASE Operates
  BY <1>1 DEF Operates, EngineNext
<1>2. CASE StartStep
  <2>1. CASE Serves
    BY <2>1 DEF Serves, EngineNext
  <2>2. CASE StartStep /\ ~Serves
    BY <2>2 DEF StartStep, StartProceeds, StartOpens, MakesSandbox, Configures, InstallsPolicy,
      ConnectsODBC, InstallsResolver, ActivatesPolicy, Publishes, LocksConfiguration, StartFails
  <2> QED
    BY <1>2, <2>1, <2>2
<1>3. CASE StopStep
  <2>1. CASE ClosesDatabase
    BY <2>1 DEF ClosesDatabase, EngineNext
  <2>2. CASE StopBegins \/ StopsQuack \/ ClosesPolicy \/ ClosesHandles
    BY <2>2 DEF StopBegins, StopsQuack, ClosesPolicy, ClosesHandles
  <2> QED
    BY <1>3, <2>1, <2>2 DEF StopStep
<1>4. CASE \E c \in Client : Submits(c) \/ Decides(c)
  BY <1>4 DEF Submits, Decides
<1>5. CASE UNCHANGED allVars
  BY <1>5 DEF allVars
<1> QED
  BY <1>1, <1>2, <1>3, <1>4, <1>5 DEF GateNext

(* Start and Stop, step by step with their error paths, and the statements *)
(* decided meanwhile implement the engine whose Start and Stop are one     *)
(* step (engine.go, Start and Stop).                                       *)
THEOREM GateImplementsEngine == GateSpec => EngineSpec
<1>1. GateInit => EngineInit
  BY DEF GateInit
<1> QED
  BY <1>1, GateStepRefines, PTL DEF GateSpec, EngineSpec

-----------------------------------------------------------------------------
LEMMA StartKeepsOrder ==
  ASSUME GateInv, StartStep PROVE GateInv'
<1> USE Stages DEF StartStages, StopStages, Started, Resource
<1>1. CASE StartOpens
  BY <1>1 DEF StartOpens, StartProceeds, engineVars, GateInv, ResourcesInOrder, ListenerInOrder
<1>2. CASE MakesSandbox
  BY <1>2 DEF MakesSandbox, StartProceeds, engineVars, GateInv, ResourcesInOrder, ListenerInOrder
<1>3. CASE Configures
  BY <1>3 DEF Configures, StartProceeds, engineVars, GateInv, ResourcesInOrder, ListenerInOrder
<1>4. CASE InstallsPolicy
  BY <1>4 DEF InstallsPolicy, StartProceeds, engineVars, GateInv, ResourcesInOrder, ListenerInOrder
<1>5. CASE ConnectsODBC
  BY <1>5 DEF ConnectsODBC, StartProceeds, engineVars, GateInv, ResourcesInOrder, ListenerInOrder
<1>6. CASE InstallsResolver
  BY <1>6 DEF InstallsResolver, StartProceeds, engineVars, GateInv, ResourcesInOrder, ListenerInOrder
<1>7. CASE ActivatesPolicy
  BY <1>7 DEF ActivatesPolicy, StartProceeds, engineVars, GateInv, ResourcesInOrder, ListenerInOrder
<1>8. CASE Publishes
  BY <1>8 DEF Publishes, StartProceeds, engineVars, GateInv, ResourcesInOrder, ListenerInOrder
<1>9. CASE LocksConfiguration
  BY <1>9 DEF LocksConfiguration, StartProceeds, engineVars, GateInv, ResourcesInOrder, ListenerInOrder
<1>10. CASE Serves
  BY <1>10 DEF Serves, StartOK, GateInv, ResourcesInOrder, ListenerInOrder
<1>11. CASE StartFails
  <2>1. open' = {} /\ evaluating' = FALSE /\ stage' = "idle" /\ UNCHANGED <<running, guarded, locked, listening>>
    BY <1>11 DEF StartFails, Released, engineVars, GateInv, ResourcesInOrder, ListenerInOrder
  <2>2. ~running
    BY <1>11 DEF StartFails, GateInv, ListenerInOrder
  <2> QED
    BY <2>1, <2>2 DEF GateInv, ResourcesInOrder, ListenerInOrder
<1> QED
  BY <1>1, <1>2, <1>3, <1>4, <1>5, <1>6, <1>7, <1>8, <1>9, <1>10, <1>11 DEF StartStep

LEMMA StopKeepsOrder ==
  ASSUME GateInv, StopStep PROVE GateInv'
<1> USE Stages DEF StartStages, StopStages, Started, Resource
<1>1. CASE StopBegins
  BY <1>1 DEF StopBegins, engineVars, GateInv, ResourcesInOrder, ListenerInOrder
<1>2. CASE StopsQuack
  <2>1. UNCHANGED <<running, open, guarded, locked, evaluating>>
    BY <1>2 DEF StopsQuack, engineVars
  <2>2. stage = "stopQuack" /\ stage' = "closePolicy"
    BY <1>2 DEF StopsQuack
  <2>3. CASE listening' = FALSE
    BY <2>1, <2>2, <2>3 DEF GateInv, ResourcesInOrder, ListenerInOrder
  <2>4. CASE UNCHANGED listening
    BY <2>1, <2>2, <2>4 DEF GateInv, ResourcesInOrder, ListenerInOrder
  <2> QED
    BY <1>2, <2>3, <2>4 DEF StopsQuack
<1>3. CASE ClosesPolicy
  BY <1>3 DEF ClosesPolicy, engineVars, GateInv, ResourcesInOrder, ListenerInOrder
<1>4. CASE ClosesHandles
  BY <1>4 DEF ClosesHandles, engineVars, GateInv, ResourcesInOrder, ListenerInOrder
<1>5. CASE ClosesDatabase
  BY <1>5 DEF ClosesDatabase, StopEngine, GateInv, ResourcesInOrder, ListenerInOrder
<1> QED
  BY <1>1, <1>2, <1>3, <1>4, <1>5 DEF StopStep

(* Resources and listener are in order in every behaviour.                 *)
THEOREM GateSafe == GateSpec => []GateInv
<1>1. GateInit => GateInv
  BY Stages DEF GateInit, EngineInit, GateInv, ResourcesInOrder, ListenerInOrder,
    StartStages, StopStages, Started, Resource
<1>2. GateInv /\ [GateNext]_allVars => GateInv'
  <2> SUFFICES ASSUME GateInv, [GateNext]_allVars PROVE GateInv'
    OBVIOUS
  <2>1. CASE Operates
    <3>1. UNCHANGED <<running, stage, open, guarded, locked, listening, evaluating>>
      BY <2>1, OperatesKeepsRunning DEF Operates, gateVars
    <3> QED
      BY <3>1 DEF GateInv, ResourcesInOrder, ListenerInOrder
  <2>2. CASE StartStep
    BY <2>2, StartKeepsOrder
  <2>3. CASE StopStep
    BY <2>3, StopKeepsOrder
  <2>4. CASE (\E c \in Client : Submits(c) \/ Decides(c)) \/ UNCHANGED allVars
    <3>1. UNCHANGED <<running, stage, open, guarded, locked, listening, evaluating>>
      BY <2>4 DEF Submits, Decides, allVars, gateVars, engineVars
    <3> QED
      BY <3>1 DEF GateInv, ResourcesInOrder, ListenerInOrder
  <2> QED
    BY <2>1, <2>2, <2>3, <2>4 DEF GateNext
<1> QED
  BY <1>1, <1>2, PTL DEF GateSpec

(* No statement meets a listener without its gate, whatever fails in Start *)
(* and in Stop (engine.go, the order of their calls).                      *)
THEOREM ListenerStaysGuarded == GateSpec => []ListenerGuarded
<1>1. GateInv => ListenerGuarded
  BY Stages DEF GateInv, ResourcesInOrder, ListenerInOrder, ListenerGuarded, Resource, StartStages, StopStages
<1> QED
  BY <1>1, GateSafe, PTL

(* No error path of Start and no failure in Stop leaves anything open      *)
(* (engine.go, Start and Stop).                                            *)
THEOREM NothingStaysOpen == GateSpec => []NothingLeftOpen
<1>1. GateInv /\ EngineInv => NothingLeftOpen
  BY DEF GateInv, ResourcesInOrder, ListenerInOrder, EngineInv, NothingLeftOpen
<1> QED
  BY <1>1, GateSafe, GateImplementsEngine, EngineSafe, PTL
-----------------------------------------------------------------------------
(* The nodes below n, and n: what a walk that starts at n comes to.        *)
ClosedBelow(t, S) == \A k \in S : Children(t, k) \subseteq S
Subtree(t, n) ==
  {m \in DOMAIN t : \A S \in SUBSET DOMAIN t : n \in S /\ ClosedBelow(t, S) => m \in S}

(* A node that is not the first has a parent, which comes before it.       *)
LEMMA Nodes ==
  ASSUME NEW t, Tree(t)
  PROVE  /\ DOMAIN t \in SUBSET (Nat \ {0})
         /\ \A n \in DOMAIN t : \A m \in Children(t, n) : m \in DOMAIN t /\ m > n
         /\ \A n \in DOMAIN t : n # 1 => t[n].parent \in DOMAIN t /\ t[n].parent < n
                                         /\ n \in Children(t, t[n].parent)
         /\ t # <<>> => 1 \in DOMAIN t
<1>1. t \in Seq(TreeNode) /\ DOMAIN t = 1..Len(t) /\ Len(t) \in Nat
  BY DEF Tree
<1>2. ASSUME NEW n \in DOMAIN t
      PROVE  t[n].parent \in Nat /\ t[n].parent < n /\ (t[n].parent = 0 <=> n = 1)
  <2>1. t[n] \in TreeNode
    BY <1>1
  <2> QED
    BY <2>1 DEF Tree, TreeNode
<1>3. ASSUME NEW n \in DOMAIN t, NEW m \in Children(t, n) PROVE m \in DOMAIN t /\ m > n
  BY <1>1, <1>2 DEF Children
<1>4. \A n \in DOMAIN t : n # 1 => t[n].parent \in DOMAIN t
  BY <1>1, <1>2
<1>5. t # <<>> => 1 \in DOMAIN t
  BY <1>1
<1> QED
  BY <1>1, <1>2, <1>3, <1>4, <1>5 DEF Children

(* Below a node are the subtrees of its children.                          *)
LEMMA SubtreeOfChildren ==
  ASSUME NEW t, Tree(t), NEW n \in DOMAIN t
  PROVE  Subtree(t, n) = {n} \cup UNION {Subtree(t, m) : m \in Children(t, n)}
<1> DEFINE Rest == UNION {Subtree(t, m) : m \in Children(t, n)}
<1>1. Children(t, n) \subseteq DOMAIN t
  BY DEF Children
<1>2. n \in Subtree(t, n)
  BY DEF Subtree
<1>3. ASSUME NEW m \in Children(t, n), NEW k \in Subtree(t, m) PROVE k \in Subtree(t, n)
  <2>1. ASSUME NEW S \in SUBSET DOMAIN t, n \in S, ClosedBelow(t, S) PROVE k \in S
    <3>1. m \in S
      BY <2>1 DEF ClosedBelow
    <3> QED
      BY <1>3, <2>1, <3>1 DEF Subtree
  <2>2. k \in DOMAIN t
    BY <1>3 DEF Subtree
  <2> QED
    BY <2>1, <2>2 DEF Subtree
<1>4. Subtree(t, n) \subseteq {n} \cup Rest
  <2>1. {n} \cup Rest \in SUBSET DOMAIN t
    BY DEF Subtree
  <2>2. ASSUME NEW k \in {n} \cup Rest PROVE Children(t, k) \subseteq {n} \cup Rest
    <3>1. CASE k = n
      <4>1. \A m \in Children(t, n) : m \in Subtree(t, m)
        BY <1>1 DEF Subtree
      <4> QED
        BY <3>1, <4>1
    <3>2. ASSUME NEW m \in Children(t, n), k \in Subtree(t, m) PROVE Children(t, k) \subseteq Subtree(t, m)
      <4> SUFFICES ASSUME NEW j \in Children(t, k), NEW S \in SUBSET DOMAIN t, m \in S, ClosedBelow(t, S)
                   PROVE  j \in S
        BY DEF Subtree, Children
      <4>1. k \in S
        BY <3>2 DEF Subtree
      <4> QED
        BY <4>1 DEF ClosedBelow
    <3> QED
      BY <2>2, <3>1, <3>2
  <2>3. ClosedBelow(t, {n} \cup Rest)
    BY <2>2 DEF ClosedBelow
  <2> HIDE DEF Rest
  <2> QED
    BY <2>1, <2>3 DEF Subtree
<1> QED
  BY <1>2, <1>3, <1>4

(* A set of natural numbers has a least element.                           *)
LEMMA LeastNumber ==
  ASSUME NEW T \in SUBSET Nat, T # {}
  PROVE  \E n \in T : \A m \in T : n <= m
<1>1. PICK n \in T : \A m \in T : ~(<<m, n>> \in OpToRel(<, Nat))
  BY NatLessThanWellFounded, WFMin
<1>2. ASSUME NEW m \in T PROVE n <= m
  <2>1. <<m, n>> \in Nat \X Nat
    OBVIOUS
  <2>2. ~(m < n)
    BY <1>1, <2>1 DEF OpToRel
  <2> QED
    BY <2>2
<1> QED
  BY <1>2

(* Of the nodes in a set there is a first and a last one.                  *)
LEMMA FirstNode ==
  ASSUME NEW t, Tree(t), NEW S \in SUBSET DOMAIN t, S # {}
  PROVE  \E n \in S : \A m \in S : n <= m
<1>1. S \in SUBSET Nat
  BY Nodes
<1> QED
  BY <1>1, LeastNumber

LEMMA LastNode ==
  ASSUME NEW t, Tree(t), NEW S \in SUBSET DOMAIN t, S # {}
  PROVE  \E n \in S : \A m \in S : m <= n
<1>1. DOMAIN t = 1..Len(t) /\ Len(t) \in Nat
  BY DEF Tree
<1> DEFINE T == {Len(t) - n : n \in S}
<1>2. T \in SUBSET Nat /\ T # {}
  BY <1>1
<1>3. PICK k \in T : \A j \in T : k <= j
  BY <1>2, LeastNumber
<1>4. PICK n \in S : k = Len(t) - n
  BY <1>3
<1>5. ASSUME NEW m \in S PROVE m <= n
  <2>1. Len(t) - n <= Len(t) - m
    BY <1>3, <1>4
  <2> QED
    BY <1>1, <2>1
<1> QED
  BY <1>5

-----------------------------------------------------------------------------
(* inspectTree: the walk refuses a tree if it has a refused node anywhere. *)
(* What the subtrees say satisfies the recursion, so there is such a walk; *)
(* if it accepted the root and refused a node, the first node it refuses   *)
(* would have an accepted parent; and the last one it refuses is itself to *)
(* be refused.                                                             *)
LEMMA InspectionIsExact ==
  ASSUME NEW t, Tree(t), t # <<>>
  PROVE  InspectTree(t) <=> \A n \in DOMAIN t : t[n].kind \notin Refused
<1> DEFINE Good(n) == t[n].kind \notin Refused
           Walk(f) == f = [n \in DOMAIN t |-> /\ t[n].kind \notin Refused
                                              /\ \A m \in Children(t, n) : f[m]]
<1>1. \E f : Walk(f)
  <2> DEFINE g == [n \in DOMAIN t |-> \A m \in Subtree(t, n) : Good(m)]
  <2>1. ASSUME NEW n \in DOMAIN t PROVE g[n] = (Good(n) /\ \A m \in Children(t, n) : g[m])
    <3>1. \A m \in Children(t, n) : g[m] = \A k \in Subtree(t, m) : Good(k)
      BY DEF Children
    <3>2. Subtree(t, n) = {n} \cup UNION {Subtree(t, m) : m \in Children(t, n)}
      BY SubtreeOfChildren
    <3>3. g[n] = \A m \in Subtree(t, n) : Good(m)
      OBVIOUS
    <3> HIDE DEF g, Good
    <3> QED
      BY <3>1, <3>2, <3>3
  <2>2. g = [n \in DOMAIN t |-> Good(n) /\ \A m \in Children(t, n) : g[m]]
    <3>1. g = [n \in DOMAIN t |-> g[n]]
      OBVIOUS
    <3> HIDE DEF g
    <3> QED
      BY <2>1, <3>1
  <2> QED
    BY <2>2
<1>2. PICK f : Walk(f) /\ InspectTree(t) = f[1]
  <2>1. InspectTree(t) = (CHOOSE f : Walk(f))[1]
    BY DEF InspectTree
  <2> HIDE DEF Walk
  <2> QED
    BY <1>1, <2>1
<1>3. \A n \in DOMAIN t : f[n] = (Good(n) /\ \A m \in Children(t, n) : f[m])
  BY <1>2
<1> HIDE DEF Good, Walk
<1>4. ASSUME f[1], NEW n \in DOMAIN t, ~Good(n) PROVE FALSE
  <2> DEFINE S == {m \in DOMAIN t : ~f[m]}
  <2>1. n \in S
    BY <1>3, <1>4
  <2>2. PICK m \in S : \A k \in S : m <= k
    BY <2>1, FirstNode
  <2>3. m \in DOMAIN t /\ m # 1 /\ ~f[m]
    BY <1>4, <2>2
  <2>4. /\ t[m].parent \in DOMAIN t /\ t[m].parent < m /\ m \in Children(t, t[m].parent)
        /\ m \in Nat /\ t[m].parent \in Nat
    BY <2>3, Nodes
  <2>5. ~f[t[m].parent]
    BY <1>3, <2>3, <2>4
  <2> QED
    BY <2>2, <2>4, <2>5
<1>5. ASSUME \A n \in DOMAIN t : Good(n), ~f[1] PROVE FALSE
  <2> DEFINE S == {m \in DOMAIN t : ~f[m]}
  <2>1. 1 \in S
    BY <1>5, Nodes
  <2>2. PICK m \in S : \A k \in S : k <= m
    BY <2>1, LastNode
  <2>3. PICK k \in Children(t, m) : ~f[k]
    BY <1>3, <1>5, <2>2
  <2>4. k \in S /\ k > m /\ k \in Nat /\ m \in Nat
    BY <2>2, <2>3, Nodes
  <2> QED
    BY <2>2, <2>4
<1>6. 1 \in DOMAIN t
  BY Nodes
<1> QED
  BY <1>2, <1>3, <1>4, <1>5, <1>6 DEF Good

(* collectSources: the walk collects the catalogs of all tables, by the    *)
(* same argument.                                                          *)
Own(t, n) == IF t[n].kind \in {"table", "path"} THEN {t[n].catalog} \ {MEMORY} ELSE {}

LEMMA CollectionIsExact ==
  ASSUME NEW t, Tree(t), t # <<>>
  PROVE  CollectSources(t) = UNION {Own(t, n) : n \in DOMAIN t}
<1> DEFINE Walk(f) ==
             f = [n \in DOMAIN t |->
                   (IF t[n].kind \in {"table", "path"} THEN {t[n].catalog} \ {MEMORY} ELSE {})
                   \cup UNION {f[m] : m \in Children(t, n)}]
<1>1. \E f : Walk(f)
  <2> DEFINE g == [n \in DOMAIN t |-> UNION {Own(t, m) : m \in Subtree(t, n)}]
  <2>1. ASSUME NEW n \in DOMAIN t PROVE g[n] = Own(t, n) \cup UNION {g[m] : m \in Children(t, n)}
    <3>1. \A m \in Children(t, n) : g[m] = UNION {Own(t, k) : k \in Subtree(t, m)}
      BY DEF Children
    <3>2. Subtree(t, n) = {n} \cup UNION {Subtree(t, m) : m \in Children(t, n)}
      BY SubtreeOfChildren
    <3>3. g[n] = UNION {Own(t, m) : m \in Subtree(t, n)}
      OBVIOUS
    <3> HIDE DEF g
    <3> QED
      BY <3>1, <3>2, <3>3
  <2>2. g = [n \in DOMAIN t |-> Own(t, n) \cup UNION {g[m] : m \in Children(t, n)}]
    <3>1. g = [n \in DOMAIN t |-> g[n]]
      OBVIOUS
    <3> HIDE DEF g
    <3> QED
      BY <2>1, <3>1
  <2> QED
    BY <2>2 DEF Own
<1>2. PICK f : Walk(f) /\ CollectSources(t) = f[1]
  <2>1. CollectSources(t) = (CHOOSE f : Walk(f))[1]
    BY DEF CollectSources
  <2> HIDE DEF Walk
  <2> QED
    BY <1>1, <2>1
<1>3. \A n \in DOMAIN t : f[n] = Own(t, n) \cup UNION {f[m] : m \in Children(t, n)}
  BY <1>2 DEF Own
<1> HIDE DEF Walk
<1>4. ASSUME NEW n \in DOMAIN t, NEW x \in Own(t, n) PROVE x \in f[1]
  <2> SUFFICES ASSUME x \notin f[1] PROVE FALSE
    OBVIOUS
  <2> DEFINE S == {m \in DOMAIN t : x \in f[m]}
  <2>1. n \in S
    BY <1>3, <1>4
  <2>2. PICK m \in S : \A k \in S : m <= k
    BY <2>1, FirstNode
  <2>3. m \in DOMAIN t /\ m # 1 /\ x \in f[m]
    BY <2>2
  <2>4. /\ t[m].parent \in DOMAIN t /\ t[m].parent < m /\ m \in Children(t, t[m].parent)
        /\ m \in Nat /\ t[m].parent \in Nat
    BY <2>3, Nodes
  <2>5. x \in f[t[m].parent]
    BY <1>3, <2>3, <2>4
  <2> QED
    BY <2>2, <2>4, <2>5
<1>5. ASSUME NEW x \in f[1] PROVE \E n \in DOMAIN t : x \in Own(t, n)
  <2> DEFINE S == {m \in DOMAIN t : x \in f[m]}
  <2>1. 1 \in S
    BY Nodes
  <2>2. PICK m \in S : \A k \in S : k <= m
    BY <2>1, LastNode
  <2>3. ASSUME NEW k \in Children(t, m), x \in f[k] PROVE FALSE
    <3>1. k \in S /\ k > m /\ k \in Nat /\ m \in Nat
      BY <2>2, <2>3, Nodes
    <3> QED
      BY <2>2, <3>1
  <2> QED
    BY <1>3, <2>2, <2>3
<1> QED
  BY <1>2, <1>4, <1>5

-----------------------------------------------------------------------------
(* Evaluate decides like a reader of the statement as a whole.             *)
Right(alive, q) ==
  IF alive /\ Harmless(q) THEN [allowed |-> TRUE, sources |-> Named(q)] ELSE Denial

LEMMA WalkIsExact ==
  ASSUME NEW q, Query(q), q.form \in {"select", "temp"}, q.size = "fits", q.statements = 1
  PROVE  Walked(q.tree) = Right(TRUE, q)
<1> DEFINE t == q.tree
<1>1. Tree(t) /\ t # <<>>
  BY DEF Query
<1>2. InspectTree(t) <=> Harmless(q)
  BY <1>1, InspectionIsExact DEF Harmless
<1>3. Harmless(q) => CollectSources(t) = Named(q)
  <2> SUFFICES ASSUME Harmless(q) PROVE CollectSources(t) = Named(q)
    OBVIOUS
  <2>1. \A n \in DOMAIN t : t[n].kind # "path"
    BY DEF Harmless, Refused
  <2>2. CollectSources(t) = UNION {Own(t, n) : n \in DOMAIN t}
    BY <1>1, CollectionIsExact
  <2>3. ASSUME NEW x \in CollectSources(t) PROVE x \in Named(q)
    <3>1. PICK n \in DOMAIN t : x \in Own(t, n)
      BY <2>2
    <3>2. t[n].kind = "table" /\ x = t[n].catalog /\ x # MEMORY
      BY <2>1, <3>1 DEF Own
    <3> QED
      BY <3>2 DEF Named
  <2>4. ASSUME NEW x \in Named(q) PROVE x \in CollectSources(t)
    <3>1. PICK n \in DOMAIN t : t[n].kind = "table" /\ x = t[n].catalog /\ x # MEMORY
      BY DEF Named
    <3>2. x \in Own(t, n)
      BY <3>1 DEF Own
    <3> QED
      BY <2>2, <3>2
  <2> QED
    BY <2>3, <2>4
<1> QED
  BY <1>2, <1>3 DEF Walked, Right

LEMMA EvaluationIsExact ==
  ASSUME NEW alive \in BOOLEAN, NEW q, Query(q)
  PROVE  Evaluate(alive, q) = Right(alive, q)
<1>1. CASE q.size # "fits" \/ ~alive \/ q.statements # 1
  BY <1>1 DEF Evaluate, Right, Harmless
<1>2. CASE q.size = "fits" /\ alive /\ q.statements = 1 /\ q.form \in {"select", "temp"}
  BY <1>2, WalkIsExact DEF Evaluate, Judged, Right
<1>3. CASE q.size = "fits" /\ alive /\ q.statements = 1 /\ q.form \notin {"select", "temp"}
  <2>1. q.tree = <<>> /\ DOMAIN q.tree = {}
    BY <1>3 DEF Query
  <2>2. Harmless(q) <=> q.form = "transaction"
    BY <1>3, <2>1 DEF Harmless
  <2>3. Named(q) = {}
    BY <2>1 DEF Named
  <2>4. Evaluate(alive, q) = [Denial EXCEPT !.allowed = q.form = "transaction"]
    BY <1>3 DEF Evaluate, Judged
  <2>5. CASE q.form = "transaction"
    BY <1>3, <2>2, <2>3, <2>4, <2>5 DEF Right, Denial
  <2>6. CASE q.form # "transaction"
    BY <1>3, <2>2, <2>4, <2>6 DEF Right, Denial
  <2> QED
    BY <2>5, <2>6
<1> QED
  BY <1>1, <1>2, <1>3

(* What a client waits for was submitted; what it was told is right.       *)
Submission ==
  /\ pending \in [Client -> Submitted \cup {NONE}]
  /\ DOMAIN verdict = Client
  /\ evaluating \in BOOLEAN

DecisionInv == Submission /\ DecisionIsExact

(* No decision is wrong for any statements, of whatever size their trees   *)
(* are, before and after Close (policy.go, Evaluate, inspectTree,          *)
(* collectSources, Close).                                                 *)
THEOREM DecisionsAreExact == GateSpec => []DecisionIsExact
<1>1. GateInit => DecisionInv
  <2> SUFFICES ASSUME GateInit PROVE DecisionInv
    OBVIOUS
  <2>1. Submission
    BY DEF GateInit, Submission
  <2>2. \A c \in Client : verdict[c].query = NONE
    BY DEF GateInit, NoVerdict
  <2> QED
    BY <2>1, <2>2 DEF DecisionInv, DecisionIsExact
<1>2. GateInv /\ GateInv' /\ DecisionInv /\ [GateNext]_allVars => DecisionInv'
  <2> SUFFICES ASSUME GateInv', DecisionInv, [GateNext]_allVars PROVE DecisionInv'
    OBVIOUS
  <2>1. evaluating' \in BOOLEAN
    BY DEF GateInv, ListenerInOrder
  <2>2. ASSUME UNCHANGED verdict, pending' \in [Client -> Submitted \cup {NONE}] PROVE DecisionInv'
    BY <2>1, <2>2 DEF DecisionInv, Submission, DecisionIsExact
  <2>3. ASSUME UNCHANGED <<pending, verdict>> PROVE DecisionInv'
    BY <2>2, <2>3 DEF DecisionInv, Submission
  <2>4. ASSUME NEW c \in Client, Submits(c) PROVE DecisionInv'
    <3>1. PICK q \in Submitted : pending' = [pending EXCEPT ![c] = q]
      BY <2>4 DEF Submits
    <3>2. pending' \in [Client -> Submitted \cup {NONE}]
      BY <3>1 DEF DecisionInv, Submission
    <3>3. verdict' = [verdict EXCEPT ![c] = NoVerdict]
      BY <2>4 DEF Submits
    <3>4. DOMAIN verdict' = Client /\ \A d \in Client : verdict'[d] = IF d = c THEN NoVerdict ELSE verdict[d]
      BY <3>3 DEF DecisionInv, Submission
    <3>5. DecisionIsExact'
      BY <3>4 DEF DecisionInv, DecisionIsExact, NoVerdict
    <3> QED
      BY <2>1, <3>2, <3>4, <3>5 DEF DecisionInv, Submission
  <2>5. ASSUME NEW c \in Client, Decides(c) PROVE DecisionInv'
    <3> DEFINE v == [query |-> pending[c], decision |-> Evaluate(evaluating, pending[c]), open |-> evaluating]
    <3>1. pending[c] \in Submitted
      BY <2>5 DEF Decides, DecisionInv, Submission
    <3>2. v.decision = Right(v.open, v.query)
      BY <3>1, EvaluationIsExact, GateAssumption DEF DecisionInv, Submission
    <3>3. verdict' = [verdict EXCEPT ![c] = v] /\ pending' = [pending EXCEPT ![c] = NONE]
      BY <2>5 DEF Decides
    <3> HIDE DEF v
    <3>4. DOMAIN verdict' = Client /\ \A d \in Client : verdict'[d] = IF d = c THEN v ELSE verdict[d]
      BY <3>3 DEF DecisionInv, Submission
    <3>5. DecisionIsExact'
      BY <3>2, <3>4 DEF DecisionInv, DecisionIsExact, Right
    <3>6. pending' \in [Client -> Submitted \cup {NONE}]
      BY <3>3 DEF DecisionInv, Submission
    <3> QED
      BY <2>1, <3>4, <3>5, <3>6 DEF DecisionInv, Submission
  <2>6. CASE Operates
    BY <2>3, <2>6 DEF Operates, gateVars
  <2>7. CASE StartStep
    <3>1. CASE Serves
      BY <2>3, <3>1 DEF Serves
    <3>2. CASE StartFails
      BY <2>3, <3>2 DEF StartFails
    <3>3. CASE StartStep /\ ~Serves /\ ~StartFails
      BY <2>3, <3>3 DEF StartStep, StartProceeds, StartOpens, MakesSandbox, Configures, InstallsPolicy,
        ConnectsODBC, InstallsResolver, ActivatesPolicy, Publishes, LocksConfiguration
    <3> QED
      BY <2>7, <3>1, <3>2, <3>3
  <2>8. CASE StopStep
    <3>1. CASE ClosesDatabase
      BY <2>2, <3>1 DEF ClosesDatabase
    <3>2. CASE StopBegins \/ StopsQuack \/ ClosesPolicy \/ ClosesHandles
      BY <2>3, <3>2 DEF StopBegins, StopsQuack, ClosesPolicy, ClosesHandles
    <3> QED
      BY <2>8, <3>1, <3>2 DEF StopStep
  <2>9. CASE UNCHANGED allVars
    BY <2>3, <2>9 DEF allVars, gateVars
  <2> QED
    BY <2>4, <2>5, <2>6, <2>7, <2>8, <2>9 DEF GateNext
<1>3. DecisionInv => DecisionIsExact
  BY DEF DecisionInv
<1> QED
  BY <1>1, <1>2, <1>3, GateSafe, PTL DEF GateSpec
=============================================================================
