----------------------------- MODULE Lifecycle ------------------------------
(***************************************************************************)
(* The public facade (service.go) over the application runtime             *)
(* (internal/app/runtime.go): Start, Reload and Stop, one at a time under  *)
(* opMu, with Status reading beside them.  A reload whose file sources     *)
(* change the allowlist cannot use the locked engine: rebuild validates    *)
(* the candidate in a disposable engine, replaces the engine, and restores *)
(* the previous one if the replacement fails.                              *)
(*                                                                         *)
(* The configuration file is loaded anew at several points of one call,    *)
(* and commands may edit it in between.  reconcile.Manager.Reload is one   *)
(* step here, with the outcomes module Reconcile finds for it.             *)
(***************************************************************************)
EXTENDS Integers, FiniteSets

CONSTANTS
  Source,     \* [id, path]: a source definition, path NONE unless it is a file
  NONE,
  Documents,  \* the configurations the file may hold
  Caller,     \* concurrent callers of Status
  MaxStarts,  \* bound: calls of Start
  Faults      \* the faults that may happen, of AllFaults

(* "edit": the file is edited while a call runs.  "ping": the final check  *)
(* of a reload fails.  "restore": the previous engine does not come back.  *)
(* "loss": rolling a reload back loses a source.                           *)
AllFaults == {"edit", "ping", "restore", "loss"}

ASSUME LifecycleAssumption ==
  /\ Documents \subseteq SUBSET Source
  /\ MaxStarts \in Nat
  /\ Faults \subseteq AllFaults
  /\ \A doc \in Documents : \A s, t \in doc : s.id = t.id => s = t

VARIABLES
  file,      \* the document the loader would return
  state,     \* Service.status.State
  previous,  \* Reload: the state to go back to
  pc,        \* where the call that holds opMu is
  loaded,    \* the document the call loaded first
  engine,    \* Runtime.engine: on, the locked allowlist, what is attached,
             \* whether its source map has an unavailable entry
  spare,     \* rebuild: the replacement before it is adopted
  options,   \* Runtime.options.AllowedPaths
  document,  \* Runtime.document
  active,    \* the manager's active set
  failures,  \* Runtime.failures is not empty
  reader,    \* Status callers: "idle", or "sources" before runtime.Sources()
  starts,
  edited,    \* history: the file was edited while the last call ran
  before,    \* history: what was attached when the last Reload began
  calm,      \* history: no file edited during a call, no failed ping and no
             \* failed restoration so far
  unrestored,\* history: a restoration failed and no engine started since
  ghost      \* history: the last Bootstrap left a source active that only an
             \* earlier Bootstrap had attached

appVars == <<engine, spare, options, document, active, failures>>
faultVars == <<calm, unrestored, ghost>>
historyVars == <<starts, edited, before, faultVars>>
vars == <<file, state, previous, pc, loaded, appVars, reader, historyVars>>

FilePaths(doc) == {s.path : s \in doc} \ {NONE}

Off == [on |-> FALSE, allowed |-> {}, attached |-> {}, unavailable |-> FALSE]
Fresh(paths) == [Off EXCEPT !.on = TRUE, !.allowed = paths]
With(e, attached, u) == [e EXCEPT !.attached = attached, !.unavailable = u]

Init ==
  /\ file \in Documents
  /\ state = "stopped"
  /\ previous = "stopped"
  /\ pc = "idle"
  /\ loaded = {}
  /\ engine = Off
  /\ spare = Off
  /\ options = {}
  /\ document = {}
  /\ active = {}
  /\ failures = FALSE
  /\ reader = [c \in Caller |-> "idle"]
  /\ starts = 0
  /\ edited = FALSE
  /\ before = {}
  /\ calm = TRUE
  /\ unrestored = FALSE
  /\ ghost = FALSE

(* The call goes on at place; only the application runtime changes.        *)
Moves(place) ==
  /\ pc' = place
  /\ UNCHANGED <<file, state, previous, reader, starts, edited, before>>

Goes(place) == Moves(place) /\ UNCHANGED faultVars

(* The same with an engine that has started, or after a fault.             *)
GoesAlive(place) == Moves(place) /\ unrestored' = FALSE /\ UNCHANGED <<calm, ghost>>
GoesFaulty(place) == Moves(place) /\ calm' = FALSE /\ UNCHANGED <<unrestored, ghost>>

Running == state \in {"ready", "degraded"}

(* hasUnavailableSource(runtime.Sources()).                                *)
Health == IF failures \/ engine.unavailable THEN "degraded" ELSE "ready"

-----------------------------------------------------------------------------
(* The facade: a call is accepted in the states that allow it; any other   *)
(* call returns at once and changes nothing.                               *)
Accept(place, transient) ==
  /\ pc = "idle"
  /\ pc' = place
  /\ state' = transient
  /\ edited' = FALSE
  /\ UNCHANGED <<file, loaded, appVars, reader, faultVars>>

CallStart ==
  /\ state \in {"stopped", "failed"}
  /\ starts < MaxStarts
  /\ starts' = starts + 1
  /\ Accept("load", "starting")
  /\ UNCHANGED <<previous, before>>

CallReload ==
  /\ Running
  /\ previous' = state
  /\ before' = engine.attached
  /\ Accept("reload", "reloading")
  /\ UNCHANGED starts

CallStop ==
  /\ state # "stopped"
  /\ Accept("stop", "stopping")
  /\ UNCHANGED <<previous, starts, before>>

(* The runtime call has returned: the status is updated under mu.          *)
Return(outcome) ==
  /\ pc' = "idle"
  /\ state' = outcome
  /\ loaded' = {}
  /\ UNCHANGED <<file, previous, appVars, reader, historyVars>>

Started ==
  \/ pc = "started" /\ Return(Health)
  \/ pc = "notStarted" /\ Return("failed")

Reloaded ==
  \/ pc = "reloaded" /\ Return(Health)
  \/ pc = "notReloaded" /\ Return(previous)

Stopped ==
  /\ pc = "stopped"
  /\ \E outcome \in {"stopped", "failed"} : Return(outcome)

-----------------------------------------------------------------------------
(* app.Runtime.Start.                                                      *)
StartLoads ==
  /\ pc = "load"
  /\ \/ loaded' = file /\ Goes("start")
     \/ Goes("notStarted") /\ UNCHANGED loaded
  /\ UNCHANGED appVars

StartsEngine ==
  /\ pc = "start"
  /\ \/ /\ ~engine.on
        /\ engine' = Fresh(FilePaths(loaded))
        /\ options' = FilePaths(loaded)
        /\ document' = loaded
        /\ GoesAlive("bootstrap")
     \/ /\ Goes("notStarted")
        /\ UNCHANGED <<engine, options, document>>
  /\ UNCHANGED <<loaded, spare, active, failures>>

(* Bootstrap loads again and attaches what it can; the manager keeps what  *)
(* it held active before.                                                  *)
Renewed(attached) == {s \in active : \A t \in attached : t.id # s.id} \cup attached

GoesBooted(place) ==
  /\ Moves(place)
  /\ ghost' = ~(active' \subseteq engine'.attached)
  /\ UNCHANGED <<calm, unrestored>>

(* Faulty variant: the failures of Bootstrap are only logged.              *)
BootstrapsSilently ==
  /\ pc = "bootstrap"
  /\ \E attached \in SUBSET {s \in file : s.path \in engine.allowed \cup {NONE}} :
       /\ engine' = With(engine, attached, FALSE)
       /\ active' = Renewed(attached)
  /\ failures' = FALSE
  /\ GoesBooted("started")
  /\ UNCHANGED <<loaded, spare, options, document>>

Bootstraps ==
  /\ pc = "bootstrap"
  /\ \E attached \in SUBSET {s \in file : s.path \in engine.allowed \cup {NONE}} :
       /\ \E u \in {FALSE, attached # file} : engine' = With(engine, attached, u)
       /\ active' = Renewed(attached)
       /\ failures' = (attached # file)
  /\ GoesBooted("started")
  /\ UNCHANGED <<loaded, spare, options, document>>

(* Faulty variant: the engine is left running.                             *)
AbandonsBootstrap ==
  /\ pc = "bootstrap"
  /\ Goes("notStarted")
  /\ UNCHANGED <<loaded, appVars>>

BootstrapUnloadable ==
  /\ pc = "bootstrap"
  /\ engine' = Off
  /\ Goes("notStarted")
  /\ UNCHANGED <<loaded, spare, options, document, active, failures>>

-----------------------------------------------------------------------------
(* app.Runtime.Reload.                                                     *)

(* Faulty variant: only a missing path asks for a new engine.              *)
ReloadLoadsForMore ==
  /\ pc = "reload"
  /\ \/ /\ loaded' = file
        /\ Goes(IF FilePaths(file) \subseteq options THEN "manager" ELSE "probe")
     \/ Goes("notReloaded") /\ UNCHANGED loaded
  /\ UNCHANGED appVars

ReloadLoads ==
  /\ pc = "reload"
  /\ \/ /\ loaded' = file
        /\ Goes(IF FilePaths(file) = options THEN "manager" ELSE "probe")
     \/ Goes("notReloaded") /\ UNCHANGED loaded
  /\ UNCHANGED appVars

(* Manager.Reload on engine e with active set m succeeds for document doc: *)
(* only what differs is touched, which has to be allowed to come and able  *)
(* to go.                                                                  *)
Replaceable(e, m, doc) ==
  /\ FilePaths(doc \ m) \subseteq e.allowed
  /\ m \ doc \subseteq e.attached
  /\ doc \subseteq m \/ e.on

Replaced(e, m, doc, u) == With(e, (e.attached \ (m \ doc)) \cup (doc \ m), u)

(* What a failed Manager.Reload may leave of the engine.                   *)
RolledBack(e, m, doc, u) ==
  {With(e, e.attached \ lost, u) :
     lost \in IF "loss" \in Faults THEN SUBSET (m \ doc) ELSE {{}}}

ManagerReloads ==
  /\ pc = "manager"
  /\ \/ /\ Replaceable(engine, active, file)
        /\ \E u \in {engine.unavailable, FALSE} : engine' = Replaced(engine, active, file, u)
        /\ active' = file
        /\ Goes("ping")
     \/ /\ \E u \in {engine.on /\ engine.unavailable, engine.on} :
             engine' \in RolledBack(engine, active, file, u)
        /\ Goes("notReloaded")
        /\ UNCHANGED active
  /\ UNCHANGED <<loaded, spare, options, document, failures>>

EngineReloads ==
  /\ pc = "ping"
  /\ \/ /\ engine.on
        /\ failures' = FALSE
        /\ document' = loaded
        /\ Goes("reloaded")
     \/ /\ \/ ~engine.on /\ Goes("notReloaded")
           \/ engine.on /\ "ping" \in Faults /\ GoesFaulty("notReloaded")
        /\ UNCHANGED <<failures, document>>
  /\ UNCHANGED <<loaded, engine, spare, options, active>>

(* rebuild: the disposable engine attaches a freshly loaded document.      *)
Probes ==
  /\ pc = "probe"
  /\ \/ /\ FilePaths(file) \subseteq FilePaths(loaded)
        /\ Goes("stopOld")
     \/ Goes("notReloaded")
  /\ UNCHANGED <<loaded, appVars>>

(* Faulty variant: the old engine keeps serving until it is replaced.      *)
KeepsOldEngine ==
  /\ pc = "stopOld"
  /\ Goes("replace")
  /\ UNCHANGED <<loaded, appVars>>

(* A Stop that returns an error has stopped the engine all the same.       *)
StopsOldEngine ==
  /\ pc = "stopOld"
  /\ engine' = Off
  /\ Goes("replace") \/ Goes("restore")
  /\ UNCHANGED <<loaded, spare, options, document, active, failures>>

StartsReplacement ==
  /\ pc = "replace"
  /\ \/ spare' = Fresh(FilePaths(loaded)) /\ Goes("reattach")
     \/ Goes("restore") /\ UNCHANGED spare
  /\ UNCHANGED <<loaded, engine, options, document, active, failures>>

(* Faulty variant: a failed replacement is tried again.                    *)
ReattachesAgain ==
  /\ pc = "reattach"
  /\ spare' = Off
  /\ Goes("replace")
  /\ UNCHANGED <<loaded, engine, options, document, active, failures>>

Reattaches ==
  /\ pc = "reattach"
  /\ spare' = Off
  /\ \/ /\ Replaceable(spare, {}, file)
        /\ engine' = Replaced(spare, {}, file, FALSE)
        /\ active' = file
        /\ options' = FilePaths(loaded)
        /\ failures' = FALSE
        /\ document' = loaded
        /\ Moves("reloaded") /\ unrestored' = FALSE /\ ghost' = FALSE /\ UNCHANGED calm
     \/ /\ Goes("restore")
        /\ UNCHANGED <<engine, active, options, failures, document>>
  /\ UNCHANGED loaded

(* Faulty variant: the restored engine gets no sources.                    *)
RestoresEmpty ==
  /\ pc = "restore"
  /\ engine' = Fresh(options)
  /\ active' = document
  /\ Goes("notReloaded")
  /\ UNCHANGED <<loaded, spare, options, document, failures>>

(* restore: a new engine with the previous options and all the sources of  *)
(* the previous document; if one of them fails there is no engine.         *)
Restores ==
  /\ pc = "restore"
  /\ \/ /\ FilePaths(document) \subseteq options
        /\ engine' = With(Fresh(options), document, FALSE)
        /\ active' = document
        /\ GoesAlive("notReloaded")
     \/ /\ "restore" \in Faults \/ ~(FilePaths(document) \subseteq options)
        /\ UNCHANGED <<engine, active>>
        /\ Moves("notReloaded") /\ calm' = FALSE /\ unrestored' = TRUE /\ UNCHANGED ghost
  /\ UNCHANGED <<loaded, spare, options, document, failures>>

-----------------------------------------------------------------------------
(* app.Runtime.Stop: the manager keeps its active set.                     *)
StopsEngine ==
  /\ pc = "stop"
  /\ engine' = Off
  /\ failures' = FALSE
  /\ Goes("stopped")
  /\ UNCHANGED <<loaded, spare, options, document, active>>

OpStep ==
  \/ Started \/ Reloaded \/ Stopped
  \/ StartLoads \/ StartsEngine \/ Bootstraps \/ BootstrapUnloadable
  \/ ReloadLoads \/ ManagerReloads \/ EngineReloads
  \/ Probes \/ StopsOldEngine \/ StartsReplacement \/ Reattaches \/ Restores
  \/ StopsEngine

-----------------------------------------------------------------------------
(* Status: the snapshot is taken under mu; if the service runs, Sources    *)
(* needs the lock that a runtime call holds from its start to its return.  *)
RuntimeLocked == pc \notin {"idle", "started", "notStarted", "reloaded", "notReloaded", "stopped"}

StatusSnapshot(c) ==
  /\ reader[c] = "idle"
  /\ Running
  /\ reader' = [reader EXCEPT ![c] = "sources"]
  /\ UNCHANGED <<file, state, previous, pc, loaded, appVars, historyVars>>

StatusSources(c) ==
  /\ reader[c] = "sources"
  /\ ~RuntimeLocked
  /\ reader' = [reader EXCEPT ![c] = "idle"]
  /\ UNCHANGED <<file, state, previous, pc, loaded, appVars, historyVars>>

(* `quackridge source add` and `remove`.                                   *)
Edit ==
  /\ pc = "idle" \/ "edit" \in Faults
  /\ file' \in Documents \ {file}
  /\ edited' = (edited \/ pc # "idle")
  /\ calm' = (calm /\ pc = "idle")
  /\ UNCHANGED <<state, previous, pc, loaded, appVars, reader, starts, before, unrestored, ghost>>

Next ==
  \/ CallStart \/ CallReload \/ CallStop
  \/ OpStep
  \/ \E c \in Caller : StatusSnapshot(c) \/ StatusSources(c)
  \/ Edit

Spec == Init /\ [][Next]_vars

(* Every call the runtime makes returns (they have contexts with           *)
(* deadlines), and sync.RWMutex lets a waiting reader in before the next   *)
(* writer.                                                                 *)
FairSpec ==
  /\ Spec
  /\ WF_vars(OpStep)
  /\ \A c \in Caller : SF_vars(StatusSources(c))

-----------------------------------------------------------------------------
Engine == [on : BOOLEAN, allowed : SUBSET {s.path : s \in Source},
           attached : SUBSET Source, unavailable : BOOLEAN]

TypeOK ==
  /\ file \in Documents
  /\ state \in {"stopped", "starting", "ready", "degraded", "reloading", "stopping", "failed"}
  /\ previous \in {"stopped", "ready", "degraded"}
  /\ pc \in {"idle", "load", "start", "bootstrap", "started", "notStarted", "reload", "manager",
             "ping", "probe", "stopOld", "replace", "reattach", "restore", "reloaded",
             "notReloaded", "stop", "stopped"}
  /\ loaded \in Documents \cup {{}}
  /\ engine \in Engine /\ spare \in Engine
  /\ options \subseteq {s.path : s \in Source}
  /\ document \in Documents \cup {{}}
  /\ active \subseteq Source
  /\ failures \in BOOLEAN
  /\ reader \in [Caller -> {"idle", "sources"}]
  /\ starts \in 0..MaxStarts
  /\ edited \in BOOLEAN
  /\ before \subseteq Source
  /\ calm \in BOOLEAN /\ unrestored \in BOOLEAN /\ ghost \in BOOLEAN

(* Between calls the published state tells the truth about the engine:     *)
(* ready and degraded mean it runs, stopped and failed that it does not    *)
(* (service.go, the state after each call; runtime.go, every error path).  *)
StateMatchesEngine ==
  pc = "idle" => (Running <=> engine.on)

(* The one way to a dead engine under a service that says it runs is a     *)
(* restoration that failed; no other error path leaves the published state *)
(* and the engine apart, and the next engine that starts mends it          *)
(* (runtime.go, Start, rebuild, restore, Stop; service.go).                *)
DeadOnlyUnrestored ==
  pc = "idle" => (Running <=> engine.on) \/ (Running /\ unrestored)

(* Two engines never listen on the endpoint at the same time, and no       *)
(* replacement outlives the call that made it (runtime.go, rebuild and     *)
(* restore).                                                               *)
OneEngine ==
  /\ ~(engine.on /\ spare.on)
  /\ pc \notin {"reattach"} => ~spare.on

(* A reload that succeeds while nobody edits the file leaves exactly the   *)
(* file attached and exactly its paths readable, whatever earlier calls    *)
(* left behind: half-applied documents, failed pings, a dead engine        *)
(* (runtime.go, Reload and rebuild).  Not so when the service was stopped  *)
(* and started again and a source failed only the second time: the manager *)
(* counts it as active and skips it (ghost; manager.go, Bootstrap).        *)
ReloadIsExact ==
  pc = "reloaded" /\ ~edited /\ ~ghost =>
    /\ engine.attached = file
    /\ active = file
    /\ document = file
    /\ engine.allowed = FilePaths(file)

(* As long as no fault has come in between, a service that shows itself    *)
(* ready between calls has every source of its document attached, after a  *)
(* restart too unless that made a ghost (see ReloadIsExact; runtime.go,    *)
(* Start, sourcesLocked; service.go, Status).                              *)
ReadyIsComplete ==
  calm /\ ~ghost /\ pc = "idle" /\ Running /\ Health = "ready" => engine.attached = document

(* As long as no fault has come in between, a reload that fails, at        *)
(* whichever of its steps, leaves attached what was attached before it     *)
(* (runtime.go, rebuild and restore; service.go, Reload).                  *)
FailedReloadKeepsSources ==
  calm /\ pc = "notReloaded" => before \subseteq engine.attached

(* Status answers although calls follow one another and a reload holds the *)
(* runtime for as long as it takes (service.go, Status).                   *)
StatusAnswers == \A c \in Caller : reader[c] = "sources" ~> reader[c] = "idle"
=============================================================================
