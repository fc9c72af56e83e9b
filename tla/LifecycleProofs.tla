--------------------------- MODULE LifecycleProofs ---------------------------
(***************************************************************************)
(* For any set of sources, documents and callers of Status: one engine at  *)
(* a time, and no dead one under a service that says it runs but after a   *)
(* failed restoration; and, where rolling a reload back loses no source,   *)
(* reloads are exact, ready means complete, and failed reloads keep what   *)
(* there was.                                                              *)
(*                                                                         *)
(* Alive follows the engine through the places of a call.  Agree relates   *)
(* what the call has read to the manager's active set and the engine's     *)
(* sources and allowlist; it survives faults.  Kept relates them to the    *)
(* stored document, and holds until the first fault.                       *)
(***************************************************************************)
EXTENDS Lifecycle, TLAPS

(* The engine runs where a call relies on it, and only one does.           *)
Down == {"load", "start", "replace", "reattach", "restore", "notStarted", "stopped"}
Served == {"reload", "manager", "ping", "probe", "stopOld", "notReloaded"}

Alive ==
  /\ spare.on <=> pc = "reattach"
  /\ pc \in Down => ~engine.on
  /\ pc \in {"bootstrap", "started", "reloaded"} => engine.on
  /\ pc \in Served => engine.on \/ unrestored
  /\ pc \in Served \cup {"replace", "reattach", "restore"} => previous \in {"ready", "degraded"}
  /\ DeadOnlyUnrestored

(* What the call has read, and what the manager and the engine hold.       *)
Loaded == {"start", "bootstrap", "manager", "ping", "probe", "stopOld", "replace", "reattach"}

Agree ==
  /\ engine.on => engine.allowed = options
  /\ pc = "reattach" => spare = Fresh(FilePaths(loaded))
  /\ pc \in {"manager", "ping"} => options = FilePaths(loaded)
  /\ pc \in Loaded /\ ~edited => loaded = file
  /\ pc \in {"ping", "reloaded"} /\ ~edited => active = file
  /\ pc = "reloaded" /\ ~edited => document = file /\ options = FilePaths(file)
  /\ engine.on /\ pc # "bootstrap" =>
       engine.attached \subseteq active /\ (~ghost => active \subseteq engine.attached)
  /\ pc = "bootstrap" => engine.attached = {} /\ document = loaded

(* Without faults the document tells what is attached.                     *)
Kept ==
  /\ calm => ~edited /\ ~unrestored
  /\ calm /\ engine.on /\ pc # "ping" => engine.attached \subseteq document
  /\ calm /\ engine.on /\ pc \notin {"ping", "bootstrap"} /\ ~ghost /\ ~failures =>
       document \subseteq engine.attached
  /\ calm /\ pc \in Served \ {"ping"} => before \subseteq engine.attached
  /\ calm /\ pc \in (Served \ {"ping", "notReloaded"}) \cup {"replace", "reattach", "restore"} =>
       before \subseteq document
-----------------------------------------------------------------------------
Paths == {s.path : s \in Source}

(* The engine's records.                                                   *)
LEMMA OffFields == Off \in Engine /\ Off.on = FALSE
  BY DEF Off, Engine

LEMMA FreshFields ==
  ASSUME NEW paths \in SUBSET Paths
  PROVE  /\ Fresh(paths) \in Engine
         /\ Fresh(paths).on = TRUE
         /\ Fresh(paths).allowed = paths
         /\ Fresh(paths).attached = {}
         /\ Fresh(paths).unavailable = FALSE
  BY DEF Fresh, Off, Engine, Paths

LEMMA WithFields ==
  ASSUME NEW e \in Engine, NEW attached \in SUBSET Source, NEW u \in BOOLEAN
  PROVE  /\ With(e, attached, u) \in Engine
         /\ With(e, attached, u).on = e.on
         /\ With(e, attached, u).allowed = e.allowed
         /\ With(e, attached, u).attached = attached
  BY DEF With, Engine

LEMMA EngineFields ==
  ASSUME NEW e \in Engine
  PROVE  /\ e.on \in BOOLEAN /\ e.unavailable \in BOOLEAN
         /\ e.allowed \subseteq Paths /\ e.attached \subseteq Source
  BY DEF Engine, Paths

LEMMA DocumentFacts ==
  ASSUME NEW doc \in Documents \cup {{}}
  PROVE  doc \subseteq Source /\ FilePaths(doc) \subseteq Paths
  BY LifecycleAssumption DEF FilePaths, Paths

(* What a reload of the manager does to the engine.                        *)
LEMMA ReplacedFields ==
  ASSUME NEW e \in Engine, NEW m \in SUBSET Source, NEW doc \in Documents \cup {{}},
         NEW u \in BOOLEAN
  PROVE  /\ Replaced(e, m, doc, u) \in Engine
         /\ Replaced(e, m, doc, u).on = e.on
         /\ Replaced(e, m, doc, u).allowed = e.allowed
         /\ Replaced(e, m, doc, u).attached = (e.attached \ (m \ doc)) \cup (doc \ m)
  BY WithFields, EngineFields, DocumentFacts DEF Replaced

LEMMA RolledBackFields ==
  ASSUME NEW e \in Engine, NEW m \in SUBSET Source, NEW doc, NEW u \in BOOLEAN,
         NEW new \in RolledBack(e, m, doc, u)
  PROVE  /\ new \in Engine
         /\ new.on = e.on
         /\ new.allowed = e.allowed
         /\ "loss" \notin Faults => new.attached = e.attached
<1>1. PICK lost \in IF "loss" \in Faults THEN SUBSET (m \ doc) ELSE {{}} :
        new = With(e, e.attached \ lost, u)
  BY DEF RolledBack
<1> DEFINE rest == e.attached \ lost
<1>2. rest \in SUBSET Source /\ ("loss" \notin Faults => rest = e.attached)
  BY <1>1, EngineFields
<1>3. new = With(e, rest, u)
  BY <1>1
<1> HIDE DEF rest
<1> QED
  BY <1>2, <1>3, WithFields

(* Whether or not it succeeds, the same engine runs.                       *)
LEMMA ManagerFields ==
  ASSUME engine \in Engine, active \in SUBSET Source, file \in Documents \cup {{}}, ManagerReloads
  PROVE  engine' \in Engine /\ engine'.on = engine.on /\ engine'.allowed = engine.allowed
<1> DEFINE Same(e) == e \in Engine /\ e.on = engine.on /\ e.allowed = engine.allowed
           sources == (engine.attached \ (active \ file)) \cup (file \ active)
<1>1. sources \in SUBSET Source
  BY EngineFields, DocumentFacts
<1>2. /\ Replaced(engine, active, file, TRUE) = With(engine, sources, TRUE)
      /\ Replaced(engine, active, file, FALSE) = With(engine, sources, FALSE)
  BY DEF Replaced
<1> HIDE DEF sources
<1>3. Same(With(engine, sources, TRUE)) /\ Same(With(engine, sources, FALSE))
  BY <1>1, WithFields
<1>4. Same(Replaced(engine, active, file, TRUE)) /\ Same(Replaced(engine, active, file, FALSE))
  BY <1>2, <1>3
<1>5. CASE \E u \in {engine.on /\ engine.unavailable, engine.on} :
             engine' \in RolledBack(engine, active, file, u)
  <2>1. PICK u \in BOOLEAN : engine' \in RolledBack(engine, active, file, u)
    BY <1>5, EngineFields
  <2> QED
    BY <2>1, RolledBackFields
<1>6. engine.unavailable = TRUE \/ engine.unavailable = FALSE
  BY EngineFields
<1> QED
  BY <1>4, <1>5, <1>6 DEF ManagerReloads

-----------------------------------------------------------------------------
LEMMA StartsBounded == MaxStarts \in Nat
  BY LifecycleAssumption

LEMMA TypeInit == Init => TypeOK
<1> SUFFICES ASSUME Init PROVE TypeOK
  OBVIOUS
<1> USE DEF Init
<1>1. engine \in Engine /\ spare \in Engine
  BY OffFields
<1>2. reader \in [Caller -> {"idle", "sources"}]
  OBVIOUS
<1>3. starts \in 0..MaxStarts
  BY StartsBounded
<1>4. options \subseteq {s.path : s \in Source} /\ active \subseteq Source /\ before \subseteq Source
  OBVIOUS
<1>5. loaded \in Documents \cup {{}} /\ document \in Documents \cup {{}} /\ file \in Documents
  OBVIOUS
<1> QED
  BY <1>1, <1>2, <1>3, <1>4, <1>5 DEF TypeOK

LEMMA CallsKeepTypes ==
  ASSUME TypeOK, \/ CallStart \/ CallReload \/ CallStop \/ Started \/ Reloaded \/ Stopped \/ Edit
                 \/ \E c \in Caller : StatusSnapshot(c) \/ StatusSources(c)
  PROVE  TypeOK'
<1> USE DEF TypeOK, appVars, faultVars, historyVars
<1>1. CASE CallStart
  <2>1. starts' \in 0..MaxStarts
    BY <1>1, StartsBounded DEF CallStart
  <2> QED
    BY <1>1, <2>1 DEF CallStart, Accept
<1>2. CASE CallReload
  BY <1>2, EngineFields DEF CallReload, Accept, Running
<1>3. CASE CallStop
  BY <1>3 DEF CallStop, Accept
<1>4. CASE Started \/ Reloaded \/ Stopped
  BY <1>4 DEF Started, Reloaded, Stopped, Return, Health
<1>5. CASE Edit
  BY <1>5 DEF Edit
<1>6. CASE \E c \in Caller : StatusSnapshot(c) \/ StatusSources(c)
  BY <1>6 DEF StatusSnapshot, StatusSources
<1> QED
  BY <1>1, <1>2, <1>3, <1>4, <1>5, <1>6

LEMMA StartKeepsTypes ==
  ASSUME TypeOK, StartLoads \/ StartsEngine \/ Bootstraps \/ BootstrapUnloadable \/ StopsEngine
  PROVE  TypeOK'
<1> USE DEF TypeOK, Goes, GoesAlive, GoesBooted, Moves, appVars, faultVars
<1>1. CASE StartLoads
  BY <1>1 DEF StartLoads
<1>2. CASE StartsEngine
  <2>1. FilePaths(loaded) \subseteq {s.path : s \in Source} /\ Fresh(FilePaths(loaded)) \in Engine
    BY DocumentFacts, FreshFields DEF Paths
  <2>2. /\ engine' \in Engine /\ options' \subseteq {s.path : s \in Source}
        /\ document' \in Documents \cup {{}}
    BY <1>2, <2>1 DEF StartsEngine
  <2>3. /\ pc' \in {"bootstrap", "notStarted"} /\ unrestored' \in BOOLEAN
        /\ UNCHANGED <<file, state, previous, reader, starts, edited, before, calm, ghost,
                       loaded, spare, active, failures>>
    BY <1>2 DEF StartsEngine
  <2> QED
    BY <2>2, <2>3
<1>3. CASE Bootstraps
  <2>1. PICK attached \in SUBSET file, u \in BOOLEAN :
          /\ engine' = With(engine, attached, u)
          /\ active' = Renewed(attached)
          /\ failures' = (attached # file)
    BY <1>3 DEF Bootstraps
  <2>2. attached \in SUBSET Source
    BY DocumentFacts
  <2>3. active' \subseteq Source
    BY <2>1, <2>2 DEF Renewed
  <2>4. engine' \in Engine
    BY <2>1, <2>2, WithFields
  <2>5. /\ pc' = "started" /\ ghost' \in BOOLEAN /\ failures' \in BOOLEAN
        /\ UNCHANGED <<file, state, previous, reader, starts, edited, before, calm, unrestored,
                       loaded, spare, options, document>>
    BY <1>3, <2>1 DEF Bootstraps
  <2> QED
    BY <2>3, <2>4, <2>5
<1>4. CASE BootstrapUnloadable
  <2>1. engine' \in Engine
    BY <1>4, OffFields DEF BootstrapUnloadable
  <2>2. pc' = "notStarted" /\ UNCHANGED <<file, state, previous, reader, starts, edited, before, calm,
          unrestored, ghost, loaded, spare, options, document, active, failures>>
    BY <1>4 DEF BootstrapUnloadable
  <2> QED
    BY <2>1, <2>2
<1>5. CASE StopsEngine
  <2>1. engine' \in Engine
    BY <1>5, OffFields DEF StopsEngine
  <2>2. pc' = "stopped" /\ failures' = FALSE
        /\ UNCHANGED <<file, state, previous, reader, starts, edited, before, calm,
                       unrestored, ghost, loaded, spare, options, document, active>>
    BY <1>5 DEF StopsEngine
  <2>3. pc' \in {"stop", "stopped"} /\ failures' \in BOOLEAN
    BY <2>2
  <2> QED
    BY <2>1, <2>2, <2>3
<1> QED
  BY <1>1, <1>2, <1>3, <1>4, <1>5

LEMMA ReloadKeepsTypes ==
  ASSUME TypeOK, ReloadLoads \/ ManagerReloads \/ EngineReloads
  PROVE  TypeOK'
<1> USE DEF TypeOK, Goes, GoesFaulty, Moves, appVars, faultVars
<1>1. CASE ReloadLoads
  BY <1>1 DEF ReloadLoads
<1>2. CASE ManagerReloads
  <2>1. engine' \in Engine
    BY <1>2, ManagerFields
  <2>2. active' \subseteq Source
    BY <1>2, DocumentFacts DEF ManagerReloads
  <2>3. pc' \in {"ping", "notReloaded"} /\ UNCHANGED <<file, state, previous, reader, starts, edited,
          before, calm, unrestored, ghost, loaded, spare, options, document, failures>>
    BY <1>2 DEF ManagerReloads
  <2> QED
    BY <2>1, <2>2, <2>3
<1>3. CASE EngineReloads
  <2>1. /\ pc' \in {"reloaded", "notReloaded"} /\ calm' \in BOOLEAN
        /\ failures' \in {failures, FALSE} /\ document' \in {document, loaded}
        /\ UNCHANGED <<file, state, previous, reader, starts, edited, before, unrestored, ghost,
                       loaded, engine, spare, options, active>>
    BY <1>3 DEF EngineReloads
  <2>2. document' \in Documents \cup {{}} /\ failures' \in BOOLEAN
    BY <2>1
  <2> QED
    BY <2>1, <2>2
<1> QED
  BY <1>1, <1>2, <1>3

LEMMA RebuildKeepsTypes ==
  ASSUME TypeOK, Probes \/ StopsOldEngine \/ StartsReplacement \/ Reattaches \/ Restores
  PROVE  TypeOK'
<1> USE DEF TypeOK, Goes, GoesAlive, Moves, appVars, faultVars
<1>1. CASE Probes
  BY <1>1 DEF Probes
<1>2. CASE StopsOldEngine
  BY <1>2, OffFields DEF StopsOldEngine
<1>3. CASE StartsReplacement
  <2>1. Fresh(FilePaths(loaded)) \in Engine
    BY DocumentFacts, FreshFields
  <2> QED
    BY <1>3, <2>1 DEF StartsReplacement
<1>4. CASE Reattaches
  <2>1. Replaced(spare, {}, file, FALSE) \in Engine
    BY ReplacedFields
  <2>2. engine' \in Engine /\ spare' \in Engine
    BY <1>4, <2>1, OffFields DEF Reattaches
  <2>3. active' \subseteq Source /\ options' \subseteq {s.path : s \in Source}
    BY <1>4, DocumentFacts DEF Reattaches, Paths
  <2>4. /\ pc' \in {"reloaded", "restore"} /\ failures' \in BOOLEAN
        /\ unrestored' \in BOOLEAN /\ ghost' \in BOOLEAN /\ document' \in {document, loaded}
        /\ UNCHANGED <<file, state, previous, reader, starts, edited, before, calm, loaded>>
    BY <1>4 DEF Reattaches
  <2>5. document' \in Documents \cup {{}}
    BY <2>4
  <2> QED
    BY <2>2, <2>3, <2>4, <2>5
<1>5. CASE Restores
  <2>1. options \in SUBSET Paths /\ document \in SUBSET Source
    BY DocumentFacts DEF Paths
  <2>2. With(Fresh(options), document, FALSE) \in Engine
    BY <2>1, FreshFields, WithFields
  <2>3. engine' \in Engine /\ active' \subseteq Source
    BY <1>5, <2>1, <2>2 DEF Restores
  <2>4. /\ pc' = "notReloaded" /\ calm' \in BOOLEAN /\ unrestored' \in BOOLEAN
        /\ UNCHANGED <<file, state, previous, reader, starts, edited, before, ghost,
                       loaded, spare, options, document, failures>>
    BY <1>5 DEF Restores
  <2> QED
    BY <2>3, <2>4
<1> QED
  BY <1>1, <1>2, <1>3, <1>4, <1>5

LEMMA TypeStep == TypeOK /\ [Next]_vars => TypeOK'
<1>1. TypeOK /\ UNCHANGED vars => TypeOK'
  BY DEF TypeOK, vars, appVars, faultVars, historyVars
<1>2. TypeOK /\ Next => TypeOK'
  BY CallsKeepTypes, StartKeepsTypes, ReloadKeepsTypes, RebuildKeepsTypes DEF Next, OpStep
<1> QED
  BY <1>1, <1>2

(* Type correctness of the facade and of the runtime under it (service.go, *)
(* runtime.go).                                                            *)
THEOREM LifecycleTypeCorrect == Spec => []TypeOK
  BY TypeInit, TypeStep, PTL DEF Spec

-----------------------------------------------------------------------------
AliveInv == TypeOK /\ Alive

LEMMA AliveInit == Init => AliveInv
  BY TypeInit, OffFields DEF Init, AliveInv, Alive, Down, Served, DeadOnlyUnrestored, Running

LEMMA AliveStep == AliveInv /\ [Next]_vars => AliveInv'
<1> SUFFICES ASSUME AliveInv, [Next]_vars PROVE AliveInv'
  OBVIOUS
<1>1. TypeOK'
  BY TypeStep DEF AliveInv
<1>2. engine.on \in BOOLEAN /\ engine'.on \in BOOLEAN
  BY <1>1, EngineFields DEF AliveInv, TypeOK
<1> USE <1>1, <1>2 DEF AliveInv, Alive, Down, Served, DeadOnlyUnrestored, Running,
        Goes, GoesAlive, GoesFaulty, GoesBooted, Moves, appVars, faultVars, historyVars
<1>3. CASE UNCHANGED vars
  BY <1>3 DEF vars
<1>4. CASE CallStart \/ CallReload \/ CallStop
  BY <1>4 DEF CallStart, CallReload, CallStop, Accept
<1>5. CASE Started \/ Reloaded \/ Stopped
  BY <1>5 DEF Started, Reloaded, Stopped, Return, Health
<1>6. CASE Edit \/ \E c \in Caller : StatusSnapshot(c) \/ StatusSources(c)
  BY <1>6 DEF Edit, StatusSnapshot, StatusSources
<1>7. CASE StartLoads \/ ReloadLoads \/ EngineReloads \/ Probes
  BY <1>7 DEF StartLoads, ReloadLoads, EngineReloads, Probes
<1>8. CASE BootstrapUnloadable \/ StopsEngine \/ StopsOldEngine
  BY <1>8, OffFields DEF BootstrapUnloadable, StopsEngine, StopsOldEngine
<1>9. CASE StartsEngine
  <2>1. Fresh(FilePaths(loaded)).on = TRUE
    BY DocumentFacts, FreshFields DEF TypeOK
  <2> QED
    BY <1>9, <2>1 DEF StartsEngine
<1>10. CASE Bootstraps
  <2>1. \A attached \in SUBSET file, u \in BOOLEAN : With(engine, attached, u).on = engine.on
    BY DocumentFacts, WithFields DEF TypeOK
  <2>2. engine'.on = engine.on
    BY <1>10, <2>1 DEF Bootstraps
  <2> QED
    BY <1>10, <2>2 DEF Bootstraps
<1>11. CASE ManagerReloads
  <2>1. engine'.on = engine.on
    BY <1>11, ManagerFields DEF TypeOK
  <2> QED
    BY <1>11, <2>1 DEF ManagerReloads
<1>12. CASE StartsReplacement
  <2>1. Fresh(FilePaths(loaded)).on = TRUE
    BY DocumentFacts, FreshFields DEF TypeOK
  <2> QED
    BY <1>12, <2>1 DEF StartsReplacement
<1>13. CASE Reattaches
  <2>0. spare \in Engine /\ {} \in SUBSET Source /\ file \in Documents \cup {{}}
    BY DEF TypeOK
  <2>1. Replaced(spare, {}, file, FALSE).on = spare.on
    BY <2>0, ReplacedFields
  <2>2. CASE pc' = "reloaded" /\ engine' = Replaced(spare, {}, file, FALSE)
    BY <1>13, <2>1, <2>2, OffFields DEF Reattaches
  <2>3. CASE pc' = "restore" /\ UNCHANGED engine
    BY <1>13, <2>3, OffFields DEF Reattaches
  <2> QED
    BY <1>13, <2>2, <2>3 DEF Reattaches
<1>14. CASE Restores
  <2>1. With(Fresh(options), document, FALSE).on = TRUE
    BY DocumentFacts, FreshFields, WithFields DEF TypeOK, Paths
  <2> QED
    BY <1>14, <2>1 DEF Restores
<1> QED
  BY <1>3, <1>4, <1>5, <1>6, <1>7, <1>8, <1>9, <1>10, <1>11, <1>12, <1>13, <1>14 DEF Next, OpStep

(* Two engines never listen on the endpoint at once, and no replacement    *)
(* outlives the call that made it (runtime.go, rebuild and restore).       *)
THEOREM OneEngineAtATime == Spec => []OneEngine
<1>1. AliveInv => OneEngine
  BY DEF AliveInv, Alive, OneEngine, Down
<1> QED
  BY <1>1, AliveInit, AliveStep, PTL DEF Spec

(* Only a failed restoration leaves a dead engine under a service that     *)
(* says it runs (runtime.go, restore; service.go).                         *)
THEOREM NoOtherWayToDie == Spec => []DeadOnlyUnrestored
<1>1. AliveInv => DeadOnlyUnrestored
  BY DEF AliveInv, Alive
<1> QED
  BY <1>1, AliveInit, AliveStep, PTL DEF Spec

-----------------------------------------------------------------------------
(* The steps that change what is attached, where nothing is lost.          *)
LEMMA BootstrapEffect ==
  ASSUME TypeOK, Bootstraps
  PROVE  /\ engine'.allowed = engine.allowed
         /\ engine'.attached \subseteq active'
         /\ engine'.attached \subseteq file
         /\ ~failures' => engine'.attached = file
         /\ ghost' = ~(active' \subseteq engine'.attached)
<1>1. PICK attached \in SUBSET file, u \in BOOLEAN :
        /\ engine' = With(engine, attached, u)
        /\ active' = Renewed(attached)
        /\ failures' = (attached # file)
  BY DEF Bootstraps
<1>2. attached \in SUBSET Source /\ engine \in Engine
  BY DocumentFacts DEF TypeOK
<1>3. With(engine, attached, u).allowed = engine.allowed /\ With(engine, attached, u).attached = attached
  BY <1>2, WithFields
<1>4. ghost' = ~(active' \subseteq engine'.attached)
  BY DEF Bootstraps, GoesBooted
<1>5. attached \subseteq active'
  BY <1>1 DEF Renewed
<1> QED
  BY <1>1, <1>3, <1>4, <1>5

LEMMA ManagerEffect ==
  ASSUME TypeOK, "loss" \notin Faults, ManagerReloads
  PROVE  \/ /\ pc' = "ping" /\ active' = file
            /\ active \ file \subseteq engine.attached
            /\ engine'.attached = (engine.attached \ (active \ file)) \cup (file \ active)
            /\ file \subseteq active \/ engine.on
         \/ /\ pc' = "notReloaded" /\ active' = active /\ engine'.attached = engine.attached
<1> DEFINE sources == (engine.attached \ (active \ file)) \cup (file \ active)
<1>1. engine \in Engine /\ active \in SUBSET Source /\ file \in Documents \cup {{}}
  BY DEF TypeOK
<1>2. sources \in SUBSET Source
  BY <1>1, EngineFields, DocumentFacts
<1>3. /\ Replaced(engine, active, file, TRUE) = With(engine, sources, TRUE)
      /\ Replaced(engine, active, file, FALSE) = With(engine, sources, FALSE)
  BY DEF Replaced
<1> HIDE DEF sources
<1>4. With(engine, sources, TRUE).attached = sources /\ With(engine, sources, FALSE).attached = sources
  BY <1>1, <1>2, WithFields
<1>5. engine.unavailable = TRUE \/ engine.unavailable = FALSE
  BY <1>1, EngineFields
<1>6. ASSUME NEW u \in {engine.unavailable, FALSE}, engine' = Replaced(engine, active, file, u)
      PROVE  engine'.attached = sources
  <2>1. engine' = With(engine, sources, TRUE) \/ engine' = With(engine, sources, FALSE)
    BY <1>3, <1>5, <1>6
  <2> QED
    BY <1>4, <2>1
<1>7. CASE /\ Replaceable(engine, active, file)
           /\ \E u \in {engine.unavailable, FALSE} : engine' = Replaced(engine, active, file, u)
           /\ active' = file
           /\ Goes("ping")
  BY <1>6, <1>7 DEF Goes, Moves, Replaceable, sources
<1>8. CASE /\ \E u \in {engine.on /\ engine.unavailable, engine.on} :
                engine' \in RolledBack(engine, active, file, u)
           /\ Goes("notReloaded")
           /\ UNCHANGED active
  <2>1. PICK u \in BOOLEAN : engine' \in RolledBack(engine, active, file, u)
    BY <1>1, <1>8, EngineFields
  <2> QED
    BY <1>1, <1>8, <2>1, RolledBackFields DEF Goes, Moves
<1> QED
  BY <1>7, <1>8 DEF ManagerReloads

LEMMA ReattachEffect ==
  ASSUME TypeOK, Agree, Reattaches
  PROVE  \/ /\ pc' = "reloaded" /\ active' = file /\ engine'.attached = file
            /\ engine'.allowed = FilePaths(loaded) /\ options' = FilePaths(loaded)
            /\ document' = loaded /\ failures' = FALSE /\ ghost' = FALSE
         \/ pc' = "restore" /\ UNCHANGED <<engine, active, options, failures, document, ghost>>
<1>1. FilePaths(loaded) \in SUBSET Paths /\ file \in SUBSET Source
  BY DocumentFacts DEF TypeOK
<1>2. /\ spare = Fresh(FilePaths(loaded)) /\ spare \in Engine
      /\ spare.attached = {} /\ spare.allowed = FilePaths(loaded)
  BY <1>1, FreshFields DEF Agree, Reattaches, TypeOK
<1>3. Replaced(spare, {}, file, FALSE) = With(spare, file, FALSE)
  BY <1>2 DEF Replaced
<1>4. With(spare, file, FALSE).attached = file /\ With(spare, file, FALSE).allowed = FilePaths(loaded)
  BY <1>1, <1>2, WithFields
<1> QED
  BY <1>3, <1>4 DEF Reattaches, Goes, Moves, faultVars

LEMMA RestoreEffect ==
  ASSUME TypeOK, Restores
  PROVE  /\ pc' = "notReloaded" /\ UNCHANGED <<options, document, failures, ghost>>
         /\ \/ /\ engine'.attached = document /\ active' = document
               /\ engine'.allowed = options /\ UNCHANGED calm
            \/ UNCHANGED <<engine, active>> /\ calm' = FALSE
<1>1. options \in SUBSET Paths /\ document \in SUBSET Source
  BY DocumentFacts DEF TypeOK, Paths
<1>2. Fresh(options) \in Engine /\ Fresh(options).allowed = options
  BY <1>1, FreshFields
<1>3. /\ With(Fresh(options), document, FALSE).attached = document
      /\ With(Fresh(options), document, FALSE).allowed = options
  BY <1>1, <1>2, WithFields
<1> QED
  BY <1>3 DEF Restores, GoesAlive, Moves

-----------------------------------------------------------------------------
AgreeInv == AliveInv /\ Agree

LEMMA AgreeInit == Init => AgreeInv
  BY AliveInit, OffFields DEF Init, AgreeInv, Agree, Loaded

LEMMA CallsKeepAgree ==
  ASSUME AgreeInv, \/ CallStart \/ CallReload \/ CallStop \/ Started \/ Reloaded \/ Stopped \/ Edit
                   \/ \E c \in Caller : StatusSnapshot(c) \/ StatusSources(c)
                   \/ UNCHANGED vars
  PROVE  Agree'
<1> USE DEF AgreeInv, Agree, Loaded, appVars, faultVars, historyVars
<1>1. CASE CallStart \/ CallReload \/ CallStop
  BY <1>1 DEF CallStart, CallReload, CallStop, Accept
<1>2. CASE Started \/ Reloaded \/ Stopped
  BY <1>2 DEF Started, Reloaded, Stopped, Return
<1>3. CASE Edit
  BY <1>3 DEF Edit
<1>4. CASE (\E c \in Caller : StatusSnapshot(c) \/ StatusSources(c)) \/ UNCHANGED vars
  BY <1>4 DEF StatusSnapshot, StatusSources, vars
<1> QED
  BY <1>1, <1>2, <1>3, <1>4

LEMMA AgreeStep ==
  ASSUME "loss" \notin Faults PROVE AgreeInv /\ [Next]_vars => AgreeInv'
<1> SUFFICES ASSUME AgreeInv, [Next]_vars PROVE AgreeInv'
  OBVIOUS
<1>1. TypeOK /\ TypeOK' /\ AliveInv'
  BY AliveStep DEF AgreeInv, AliveInv
<1>2. engine.on \in BOOLEAN /\ engine'.on \in BOOLEAN
  BY <1>1, EngineFields DEF TypeOK
<1>3. CASE \/ CallStart \/ CallReload \/ CallStop \/ Started \/ Reloaded \/ Stopped \/ Edit
           \/ \E c \in Caller : StatusSnapshot(c) \/ StatusSources(c)
           \/ UNCHANGED vars
  BY <1>1, <1>3, CallsKeepAgree DEF AgreeInv
<1> USE <1>1, <1>2 DEF AgreeInv, AliveInv, Alive, Down, Agree, Loaded,
        Goes, GoesAlive, GoesFaulty, Moves, appVars, faultVars
<1>4. CASE StartLoads \/ ReloadLoads \/ Probes
  BY <1>4 DEF StartLoads, ReloadLoads, Probes
<1>5. CASE EngineReloads
  BY <1>5 DEF EngineReloads
<1>6. CASE BootstrapUnloadable \/ StopsEngine \/ StopsOldEngine
  BY <1>6, OffFields DEF BootstrapUnloadable, StopsEngine, StopsOldEngine
<1>7. CASE StartsEngine
  <2>1. /\ Fresh(FilePaths(loaded)).allowed = FilePaths(loaded)
        /\ Fresh(FilePaths(loaded)).attached = {}
    BY DocumentFacts, FreshFields DEF TypeOK
  <2> QED
    BY <1>7, <2>1 DEF StartsEngine
<1>8. CASE Bootstraps
  BY <1>8, BootstrapEffect DEF Bootstraps, GoesBooted
<1>9. CASE ManagerReloads
  <2>1. engine'.allowed = engine.allowed /\ engine'.on = engine.on
    BY <1>9, ManagerFields DEF TypeOK
  <2> QED
    BY <1>9, <2>1, ManagerEffect DEF ManagerReloads
<1>10. CASE StartsReplacement
  BY <1>10 DEF StartsReplacement
<1>11. CASE Reattaches
  BY <1>11, ReattachEffect DEF Reattaches
<1>12. CASE Restores
  BY <1>12, RestoreEffect DEF Restores
<1> QED
  BY <1>3, <1>4, <1>5, <1>6, <1>7, <1>8, <1>9, <1>10, <1>11, <1>12 DEF Next, OpStep

(* Where rolling back loses nothing, a reload that succeeds on a file that *)
(* nobody edits leaves exactly the file, whatever earlier calls and faults *)
(* left behind (runtime.go, Reload and rebuild).                           *)
THEOREM ReloadsAreExact ==
  ASSUME "loss" \notin Faults PROVE Spec => []ReloadIsExact
<1>1. AgreeInv => ReloadIsExact
  BY DEF AgreeInv, AliveInv, Alive, Agree, ReloadIsExact
<1> QED
  BY <1>1, AgreeInit, AgreeStep, PTL DEF Spec

-----------------------------------------------------------------------------
KeptInv == AgreeInv /\ Kept

LEMMA KeptInit == Init => KeptInv
  BY AgreeInit, OffFields DEF Init, KeptInv, Kept, Served

LEMMA CallsKeepKept ==
  ASSUME KeptInv, \/ CallStart \/ CallReload \/ CallStop \/ Started \/ Reloaded \/ Stopped \/ Edit
                  \/ \E c \in Caller : StatusSnapshot(c) \/ StatusSources(c)
                  \/ UNCHANGED vars
  PROVE  Kept'
<1> USE DEF KeptInv, Kept, Served, appVars, faultVars, historyVars
<1>1. CASE CallStart \/ CallStop
  BY <1>1 DEF CallStart, CallStop, Accept
<1>2. CASE CallReload
  <2>1. calm => engine.on
    BY <1>2 DEF CallReload, Accept, AgreeInv, AliveInv, Alive, DeadOnlyUnrestored
  <2> QED
    BY <1>2, <2>1 DEF CallReload, Accept
<1>3. CASE Started \/ Reloaded \/ Stopped
  BY <1>3 DEF Started, Reloaded, Stopped, Return
<1>4. CASE Edit
  BY <1>4 DEF Edit
<1>5. CASE (\E c \in Caller : StatusSnapshot(c) \/ StatusSources(c)) \/ UNCHANGED vars
  BY <1>5 DEF StatusSnapshot, StatusSources, vars
<1> QED
  BY <1>1, <1>2, <1>3, <1>4, <1>5

LEMMA KeptStep ==
  ASSUME "loss" \notin Faults PROVE KeptInv /\ [Next]_vars => KeptInv'
<1> SUFFICES ASSUME KeptInv, [Next]_vars PROVE KeptInv'
  OBVIOUS
<1>1. AgreeInv /\ AgreeInv' /\ AliveInv /\ AliveInv' /\ TypeOK /\ TypeOK'
  BY AgreeStep DEF KeptInv, AgreeInv, AliveInv
<1>2. engine.on \in BOOLEAN /\ engine'.on \in BOOLEAN
  BY <1>1, EngineFields DEF TypeOK
<1>3. CASE \/ CallStart \/ CallReload \/ CallStop \/ Started \/ Reloaded \/ Stopped \/ Edit
           \/ \E c \in Caller : StatusSnapshot(c) \/ StatusSources(c)
           \/ UNCHANGED vars
  BY <1>1, <1>3, CallsKeepKept DEF KeptInv
<1> USE <1>1, <1>2 DEF KeptInv, Kept, Served, Goes, GoesAlive, GoesFaulty, Moves, appVars, faultVars
<1>4. CASE StartLoads \/ ReloadLoads \/ Probes
  BY <1>4 DEF StartLoads, ReloadLoads, Probes
<1>5. CASE EngineReloads
  BY <1>5 DEF EngineReloads, Agree, AgreeInv, Alive, AliveInv, Loaded
<1>6. CASE BootstrapUnloadable \/ StopsEngine \/ StopsOldEngine
  BY <1>6, OffFields DEF BootstrapUnloadable, StopsEngine, StopsOldEngine
<1>7. CASE StartsEngine
  <2>1. Fresh(FilePaths(loaded)).attached = {}
    BY DocumentFacts, FreshFields DEF TypeOK
  <2> QED
    BY <1>7, <2>1 DEF StartsEngine
<1>8. CASE Bootstraps
  <2>1. calm => document = file
    BY <1>8 DEF Bootstraps, Agree, AgreeInv, Loaded
  <2>2. UNCHANGED <<calm, unrestored, document, edited>> /\ pc' = "started"
    BY <1>8 DEF Bootstraps, GoesBooted
  <2> QED
    BY <1>8, <2>1, <2>2, BootstrapEffect
<1>9. CASE ManagerReloads
  <2>1. engine'.on <=> engine.on
    BY <1>9, ManagerFields DEF TypeOK
  <2>2. pc = "manager" /\ UNCHANGED <<calm, unrestored, ghost, edited, before, document, failures>>
    BY <1>9 DEF ManagerReloads
  <2>3. CASE pc' = "ping"
    BY <2>2, <2>3
  <2>4. CASE pc' = "notReloaded" /\ engine'.attached = engine.attached
    BY <2>1, <2>2, <2>4
  <2> QED
    BY <1>9, <2>3, <2>4, ManagerEffect
<1>10. CASE StartsReplacement
  BY <1>10 DEF StartsReplacement
<1>11. CASE Reattaches
  <2>1. /\ pc = "reattach" /\ calm' = calm /\ edited' = edited /\ before' = before
        /\ unrestored' = unrestored \/ unrestored' = FALSE
    BY <1>11 DEF Reattaches
  <2>2. calm => loaded = file
    BY <2>1 DEF Agree, AgreeInv, Loaded
  <2>3. CASE pc' = "reloaded" /\ engine'.attached = file /\ document' = loaded
    BY <2>1, <2>2, <2>3
  <2>4. CASE pc' = "restore" /\ UNCHANGED <<engine, document, failures, ghost>>
    BY <2>1, <2>4
  <2> QED
    BY <1>11, <2>3, <2>4, ReattachEffect DEF AgreeInv
<1>12. CASE Restores
  <2>1. pc = "restore" /\ pc' = "notReloaded" /\ UNCHANGED <<edited, before, document, failures, ghost>>
    BY <1>12 DEF Restores
  <2>2. CASE calm' = FALSE
    BY <2>1, <2>2
  <2>3. CASE engine'.attached = document /\ calm' = calm
    <3>1. unrestored' = FALSE \/ calm' = FALSE
      BY <1>12 DEF Restores
    <3> QED
      BY <2>1, <2>3, <3>1
  <2> QED
    BY <1>12, <2>2, <2>3, RestoreEffect
<1> QED
  BY <1>3, <1>4, <1>5, <1>6, <1>7, <1>8, <1>9, <1>10, <1>11, <1>12 DEF Next, OpStep

(* Until the first fault, ready between calls means that the sources of    *)
(* the document are attached (runtime.go, sourcesLocked; service.go,       *)
(* Status).                                                                *)
THEOREM ReadyMeansComplete ==
  ASSUME "loss" \notin Faults PROVE Spec => []ReadyIsComplete
<1>1. KeptInv => ReadyIsComplete
  <2> SUFFICES ASSUME KeptInv, calm, ~ghost, pc = "idle", Running, Health = "ready"
               PROVE  engine.attached = document
    BY DEF ReadyIsComplete
  <2>1. ~failures
    BY DEF Health
  <2>2. engine.on
    BY DEF KeptInv, Kept, AgreeInv, AliveInv, Alive, DeadOnlyUnrestored
  <2> QED
    BY <2>1, <2>2 DEF KeptInv, Kept
<1> QED
  BY <1>1, KeptInit, KeptStep, PTL DEF Spec

(* Until the first fault, a reload that fails at whichever of its steps    *)
(* leaves attached what was attached (runtime.go, rebuild and restore).    *)
THEOREM FailedReloadsKeep ==
  ASSUME "loss" \notin Faults PROVE Spec => []FailedReloadKeepsSources
<1>1. KeptInv => FailedReloadKeepsSources
  BY DEF KeptInv, Kept, Served, FailedReloadKeepsSources
<1> QED
  BY <1>1, KeptInit, KeptStep, PTL DEF Spec
=============================================================================
