----------------------------- MODULE Reconcile ------------------------------
(***************************************************************************)
(* internal/reconcile/manager.go over the connector adapters of            *)
(* internal/source and the engine: Bootstrap attaches every configured     *)
(* source on its own, Reload replaces the active set as one transaction    *)
(* with undo actions.  Manager.mu is held for the whole call and app.      *)
(* Runtime.mu keeps Status out, so the steps below interleave only with    *)
(* the environment: the configuration file is edited and the databases     *)
(* behind the sources go away and come back between two adapter calls.     *)
(*                                                                         *)
(* An adapter call (Attach, Cleanup) is one step: nothing can observe the  *)
(* engine between its own calls.  It ends well or badly; badly only if     *)
(*   - its database is down (this includes a missing connector extension   *)
(*     and a role that fails the read-only check),                         *)
(*   - the deadline of the reload passes (Timeouts; never for the undo     *)
(*     calls, which run with context.Background()), or                     *)
(*   - DuckDB refuses a statement in the state the engine is in.           *)
(***************************************************************************)
EXTENDS Engine, Sequences, FiniteSets

CONSTANTS
  Id,          \* identifiers of configured sources, positive numbers
  LiveAlias,   \* the aliases a configuration may use
  Kind,        \* Kind[db] is the connector: "file", "remote" or "odbc"
  Documents,   \* the configurations the file may hold
  MaxOutages,  \* bound: how many times a database goes down
  Timeouts     \* whether the deadline of a reload may pass

(* "stage_" + id: an identifier no configured source has.                  *)
StageID(id) == -id

(* A configured source.  Two definitions of one id with different fields   *)
(* have different fingerprints.                                            *)
Definition == [id : Id, alias : LiveAlias, db : Database]

(* stageAlias(alias, fingerprint) is different for every definition, so    *)
(* the definition itself stands for it.                                    *)
StageAlias(d) == d

ASSUME ReconcileAssumption ==
  /\ Id \subseteq Nat \ {0}
  /\ Id \cup {StageID(i) : i \in Id} \subseteq SourceID
  /\ Documents \subseteq SUBSET Definition
  /\ LiveAlias \cup {StageAlias(d) : d \in UNION Documents} \subseteq Alias
  /\ Kind \in [Database -> {"file", "remote", "odbc"}]
  /\ MaxOutages \in Nat
  /\ Timeouts \in BOOLEAN
  \* Document.Validate: identifiers and aliases are unique
  /\ \A doc \in Documents : \A c, d \in doc :
       c.id = d.id \/ c.alias = d.alias => c = d

(* The absent definition is none, and no configured alias is a staging     *)
(* name; ValidateAlias does not forbid one that spells the hash of some    *)
(* definition.                                                             *)
ASSUME StagingAssumption ==
  /\ NONE \notin Definition
  /\ \A d \in UNION Documents : StageAlias(d) \notin LiveAlias

VARIABLES
  config,     \* the configuration file
  active,     \* m.active: id -> definition, or NONE
  prepared,   \* the prepared candidate of this call, same shape
  pc,         \* where the call is
  todo,       \* ids of prepared the loop has still to visit
  doomed,     \* ids of active the removal loop has still to visit
  undo,       \* the undo actions, oldest first
  expired,    \* the deadline of this reload has passed
  overran,    \* history: the deadline of some reload has passed
  result,     \* how the last reload ended
  down,       \* databases that are unreachable now
  outages,    \* how many outages there have been
  everDown,   \* history: databases that have ever been unreachable
  before      \* history: the engine was in order when the reload began

deadline == <<expired, overran>>
managerVars == <<config, active, prepared, pc, todo, doomed, undo, deadline, result>>
envVars == <<down, outages, everDown>>
vars == <<engineVars, managerVars, envVars, before>>

MaybeDefinition == Definition \cup {NONE}
Places == {"boot", "idle", "apply", "staged", "unstaged", "detached", "reinstate", "rollback"}

TypeOK ==
  /\ EngineTypeOK
  /\ config \in Documents
  /\ active \in [Id -> MaybeDefinition]
  /\ prepared \in [Id -> MaybeDefinition]
  /\ pc \in Places
  /\ todo \subseteq Id
  /\ doomed \subseteq Id
  /\ undo \in Seq({"attach", "detach"} \X Definition)
  /\ expired \in BOOLEAN /\ overran \in BOOLEAN
  /\ result \in {"none", "ok", "failed"}
  /\ down \subseteq Database
  /\ outages \in 0..MaxOutages
  /\ everDown \subseteq Database
  /\ before \in BOOLEAN

-----------------------------------------------------------------------------
Candidate(doc) ==
  [i \in Id |-> IF \E d \in doc : d.id = i THEN CHOOSE d \in doc : d.id = i ELSE NONE]

(* Source d is attached under its alias and shown as ready.                *)
Serving(d) ==
  /\ catalogs[d.alias] = d.db
  /\ registry[d.id] = ReadyRow(d.alias)
  /\ sources[d.id] = "ready"

Actives == {active[i] : i \in Id} \ {NONE}

(* The catalogs are those of the active set, and no others.                *)
Exact ==
  /\ \A d \in Actives : Serving(d)
  /\ \A a \in Alias : catalogs[a] # NONE => \E d \in Actives : d.alias = a

Init ==
  /\ running = TRUE
  /\ Blank
  /\ probing = {}
  /\ config \in Documents
  /\ active = [i \in Id |-> NONE]
  /\ prepared = Candidate(config)
  /\ pc = "boot"
  /\ todo = {d.id : d \in config}
  /\ doomed = {}
  /\ undo = <<>>
  /\ expired = FALSE /\ overran = FALSE
  /\ result = "none"
  /\ down \in SUBSET Database
  /\ Cardinality(down) <= MaxOutages
  /\ outages = Cardinality(down)
  /\ everDown = down
  /\ before = TRUE

-----------------------------------------------------------------------------
(* The adapters.  bg: the call runs with context.Background().             *)
NeedsSecret(db) == Kind[db] = "remote"

AdapterAttach(id, alias, db, bg) ==
  /\ db \notin down
  /\ bg \/ ~expired
  /\ \/ Kind[db] = "odbc" /\ AttachODBC(id, alias, db)
     \/ Kind[db] # "odbc" /\ Attach(id, alias, db, NeedsSecret(db))
  /\ UNCHANGED deadline

(* The attach went well, a check that follows it did not: read-only        *)
(* posture or server version, or loading the object types.  The adapter    *)
(* detaches with context.Background().                                     *)
AttachUnverified(id, alias) ==
  /\ running
  /\ catalogs[alias] = NONE
  /\ Claimable(id, alias)
  /\ secrets' = secrets \ {alias}
  /\ registry' = [registry EXCEPT ![id] = NoRow]
  /\ UNCHANGED catalogs
  /\ ForgetSource(id)

AdapterAttachFails(id, alias, db, bg) ==
  \E late \in {l \in BOOLEAN : l => Timeouts /\ ~bg} :
    LET remote == db \in down IN
    /\ expired' = (expired \/ late) /\ overran' = (overran \/ late)
    /\ \/ (remote \/ late) /\ UNCHANGED engineVars   \* Validate or discover
       \/ /\ Kind[db] = "odbc"
          /\ \/ AttachODBCRefused(id, alias, remote, late)
             \/ AttachODBCUndescribed(id, alias, late)
       \/ /\ Kind[db] # "odbc"
          /\ \/ AttachUnprepared(id, alias, remote, late)
             \/ AttachRefused(id, alias, NeedsSecret(db), remote, late)
             \/ AttachUnregistered(id, alias, NeedsSecret(db), late)
             \/ AttachUndescribed(id, alias, NeedsSecret(db), late)
       \/ /\ Kind[db] = "remote"
          /\ remote \/ late
          /\ AttachUnverified(id, alias)

AdapterCleanup(id, alias, bg) ==
  /\ bg \/ ~expired
  /\ \/ Detach(alias, id) /\ UNCHANGED deadline
     \/ Timeouts /\ ~bg /\ DetachCutShort(alias, id) /\ expired' = TRUE /\ overran' = TRUE

AdapterCleanupFails(alias, bg) ==
  \E late \in {l \in BOOLEAN : l => Timeouts /\ ~bg} :
    /\ expired' = (expired \/ late) /\ overran' = (overran \/ late)
    /\ DetachRefused(alias, late)

-----------------------------------------------------------------------------
(* Bootstrap: every source on its own, in the order of the document; a     *)
(* failure is reported and skipped.                                        *)
BootAttach(id) ==
  /\ pc = "boot"
  /\ id \in todo
  /\ AdapterAttach(id, prepared[id].alias, prepared[id].db, TRUE)
  /\ active' = [active EXCEPT ![id] = prepared[id]]
  /\ todo' = todo \ {id}
  /\ UNCHANGED <<config, prepared, pc, doomed, undo, result, envVars, before>>

BootSkip(id) ==
  /\ pc = "boot"
  /\ id \in todo
  /\ AdapterAttachFails(id, prepared[id].alias, prepared[id].db, TRUE)
  /\ todo' = todo \ {id}
  /\ UNCHANGED <<config, active, prepared, pc, doomed, undo, result, envVars, before>>

Booted ==
  /\ pc = "boot"
  /\ todo = {}
  /\ pc' = "idle"
  /\ UNCHANGED <<engineVars, config, active, prepared, todo, doomed, undo, deadline, result, envVars, before>>

-----------------------------------------------------------------------------
(* Reload: prepare validates the whole candidate first.  Validate only     *)
(* dials a remote server or stats a file, so a database that is down may   *)
(* still pass.                                                             *)
PrepareFails ==
  /\ pc = "idle"
  /\ \/ (\E d \in config : d.db \in down) /\ UNCHANGED overran
     \/ Timeouts /\ overran' = TRUE
  /\ result' = "failed"
  /\ before' = Exact
  /\ UNCHANGED <<engineVars, config, active, prepared, pc, todo, doomed, undo, expired, envVars>>

(* Faulty variant: the fingerprints are not compared.                      *)
BeginReloadOfAll ==
  /\ pc = "idle"
  /\ pc' = "apply"
  /\ prepared' = Candidate(config)
  /\ todo' = {i \in Id : Candidate(config)[i] # NONE}
  /\ doomed' = {i \in Id : active[i] # NONE /\ Candidate(config)[i] = NONE}
  /\ undo' = <<>>
  /\ expired' = FALSE
  /\ before' = Exact
  /\ UNCHANGED <<engineVars, config, active, result, overran, envVars>>

BeginReload ==
  /\ pc = "idle"
  /\ pc' = "apply"
  /\ prepared' = Candidate(config)
  /\ todo' = {i \in Id : Candidate(config)[i] \notin {NONE, active[i]}}
  /\ doomed' = {i \in Id : active[i] # NONE /\ Candidate(config)[i] = NONE}
  /\ undo' = <<>>
  /\ expired' = FALSE
  /\ before' = Exact
  /\ UNCHANGED <<engineVars, config, active, result, overran, envVars>>

(* apply visits the identifiers in sorted order.                           *)
Due(id) == id \in todo /\ \A other \in todo : id <= other

GoTo(place) ==
  /\ pc' = place
  /\ UNCHANGED <<config, active, prepared, todo, doomed, undo, result, envVars, before>>

Visited(id, actions) ==
  /\ pc' = "apply"
  /\ todo' = todo \ {id}
  /\ undo' = undo \o actions
  /\ UNCHANGED <<config, active, prepared, doomed, result, envVars, before>>

(* Faulty variant: a new source leaves no undo action.                     *)
AttachNewForGood(id) ==
  /\ pc = "apply"
  /\ Due(id)
  /\ active[id] = NONE
  /\ LET new == prepared[id] IN
     \/ /\ AdapterAttach(id, new.alias, new.db, FALSE)
        /\ Visited(id, <<>>)
     \/ /\ AdapterAttachFails(id, new.alias, new.db, FALSE)
        /\ GoTo("rollback")

(* A source that is not active yet.                                        *)
AttachNew(id) ==
  /\ pc = "apply"
  /\ Due(id)
  /\ active[id] = NONE
  /\ LET new == prepared[id] IN
     \/ /\ AdapterAttach(id, new.alias, new.db, FALSE)
        /\ Visited(id, <<<<"detach", new>>>>)
     \/ /\ AdapterAttachFails(id, new.alias, new.db, FALSE)
        /\ GoTo("rollback")

(* Faulty variant: the candidate is staged under its own alias.            *)
StageInPlace(id) ==
  /\ pc = "apply"
  /\ Due(id)
  /\ active[id] # NONE
  /\ LET new == prepared[id] IN
     \/ /\ AdapterAttach(StageID(id), new.alias, new.db, FALSE)
        /\ GoTo("staged")
     \/ /\ AdapterAttachFails(StageID(id), new.alias, new.db, FALSE)
        /\ GoTo("rollback")

(* A changed source: attach the candidate under a staging name, take that  *)
(* down again, take the current one down, attach the candidate.            *)
Stage(id) ==
  /\ pc = "apply"
  /\ Due(id)
  /\ active[id] # NONE
  /\ LET new == prepared[id] IN
     \/ /\ AdapterAttach(StageID(id), StageAlias(new), new.db, FALSE)
        /\ GoTo("staged")
     \/ /\ AdapterAttachFails(StageID(id), StageAlias(new), new.db, FALSE)
        /\ GoTo("rollback")

Unstage(id) ==
  /\ pc = "staged"
  /\ Due(id)
  /\ LET new == prepared[id] IN
     \/ /\ AdapterCleanup(StageID(id), StageAlias(new), FALSE)
        /\ GoTo("unstaged")
     \/ /\ AdapterCleanupFails(StageAlias(new), FALSE)
        /\ GoTo("rollback")

DetachCurrent(id) ==
  /\ pc = "unstaged"
  /\ Due(id)
  /\ \/ /\ AdapterCleanup(id, active[id].alias, FALSE)
        /\ GoTo("detached")
     \/ /\ AdapterCleanupFails(active[id].alias, FALSE)
        /\ GoTo("rollback")

AttachReplacement(id) ==
  /\ pc = "detached"
  /\ Due(id)
  /\ LET new == prepared[id] IN
     \/ /\ AdapterAttach(id, new.alias, new.db, FALSE)
        /\ Visited(id, <<<<"attach", active[id]>>, <<"detach", new>>>>)
     \/ /\ AdapterAttachFails(id, new.alias, new.db, FALSE)
        /\ GoTo("reinstate")

(* Faulty variant: the reinstatement runs with the context of the reload.  *)
ReinstateInTime(id) ==
  /\ pc = "reinstate"
  /\ Due(id)
  /\ LET old == active[id] IN
       \/ AdapterAttach(id, old.alias, old.db, FALSE)
       \/ AdapterAttachFails(id, old.alias, old.db, FALSE)
  /\ GoTo("rollback")

Reinstate(id) ==
  /\ pc = "reinstate"
  /\ Due(id)
  /\ LET old == active[id] IN
       \/ AdapterAttach(id, old.alias, old.db, TRUE)
       \/ AdapterAttachFails(id, old.alias, old.db, TRUE)
  /\ GoTo("rollback")

(* The sources that are gone from the configuration, in map order.         *)
RemoveSource(id) ==
  /\ pc = "apply"
  /\ todo = {}
  /\ id \in doomed
  /\ LET old == active[id] IN
     \/ /\ AdapterCleanup(id, old.alias, FALSE)
        /\ doomed' = doomed \ {id}
        /\ undo' = Append(undo, <<"attach", old>>)
        /\ UNCHANGED <<config, active, prepared, pc, todo, result, envVars, before>>
     \/ /\ AdapterCleanupFails(old.alias, FALSE)
        /\ GoTo("rollback")

(* Faulty variant: the removal loop is left before its end.                *)
CommitEarly ==
  /\ pc = "apply"
  /\ todo = {}
  /\ active' = prepared
  /\ pc' = "idle"
  /\ result' = "ok"
  /\ undo' = <<>>
  /\ UNCHANGED <<engineVars, config, prepared, todo, doomed, deadline, envVars, before>>

Commit ==
  /\ pc = "apply"
  /\ todo = {}
  /\ doomed = {}
  /\ active' = prepared
  /\ pc' = "idle"
  /\ result' = "ok"
  /\ undo' = <<>>
  /\ UNCHANGED <<engineVars, config, prepared, todo, doomed, deadline, envVars, before>>

(* One undo action, undone with context.Background().                      *)
UndoOne(action) ==
  LET d == action[2] IN
    \/ /\ action[1] = "attach"
       /\ \/ AdapterAttach(d.id, d.alias, d.db, TRUE)
          \/ AdapterAttachFails(d.id, d.alias, d.db, TRUE)
    \/ /\ action[1] = "detach"
       /\ \/ AdapterCleanup(d.id, d.alias, TRUE)
          \/ AdapterCleanupFails(d.alias, TRUE)

(* Faulty variant: the list is not shortened.                              *)
UndoAgain ==
  /\ pc = "rollback"
  /\ undo # <<>>
  /\ UndoOne(undo[Len(undo)])
  /\ UNCHANGED <<config, active, prepared, pc, todo, doomed, undo, result, envVars, before>>

(* The deferred function: the undo actions, newest first, errors ignored.  *)
Undo ==
  /\ pc = "rollback"
  /\ undo # <<>>
  /\ UndoOne(undo[Len(undo)])
  /\ undo' = SubSeq(undo, 1, Len(undo) - 1)
  /\ UNCHANGED <<config, active, prepared, pc, todo, doomed, result, envVars, before>>

Abort ==
  /\ pc = "rollback"
  /\ undo = <<>>
  /\ pc' = "idle"
  /\ result' = "failed"
  /\ todo' = {}
  /\ doomed' = {}
  /\ UNCHANGED <<engineVars, config, active, prepared, undo, deadline, envVars, before>>

-----------------------------------------------------------------------------
(* The environment.                                                        *)
Edit ==
  /\ config' \in Documents
  /\ UNCHANGED <<engineVars, active, prepared, pc, todo, doomed, undo, deadline, result, envVars, before>>

GoDown(db) ==
  /\ outages < MaxOutages
  /\ db \notin down
  /\ down' = down \cup {db}
  /\ outages' = outages + 1
  /\ everDown' = everDown \cup {db}
  /\ UNCHANGED <<engineVars, managerVars, before>>

ComeBack(db) ==
  /\ db \in down
  /\ down' = down \ {db}
  /\ UNCHANGED <<engineVars, managerVars, outages, everDown, before>>

(* What the goroutine of a call does; each adapter call returns.           *)
ManagerStep ==
  \/ Booted
  \/ Commit
  \/ Undo
  \/ Abort
  \/ \E id \in Id :
       \/ BootAttach(id)
       \/ BootSkip(id)
       \/ AttachNew(id)
       \/ Stage(id)
       \/ Unstage(id)
       \/ DetachCurrent(id)
       \/ AttachReplacement(id)
       \/ Reinstate(id)
       \/ RemoveSource(id)

Request == BeginReload \/ PrepareFails

Environment ==
  \/ Edit
  \/ \E db \in Database : GoDown(db) \/ ComeBack(db)

Next == ManagerStep \/ Request \/ Environment

Spec == Init /\ [][Next]_vars

FairSpec == Spec /\ WF_vars(ManagerStep)

(* And somebody asks for a reload again and again.                         *)
RetrySpec == FairSpec /\ SF_vars(BeginReload)

-----------------------------------------------------------------------------
(* A source the manager holds active whose database never went away is     *)
(* attached and ready whenever no call runs, also when the deadline of a   *)
(* reload passes at any point: "a failed reload preserves the previous     *)
(* active set" (manager.go, apply and its undo actions).  ODBC sources are *)
(* left out: the INSERT of AttachODBC does not replace a row in its way.   *)
NeverDownNeverLost ==
  pc = "idle" =>
    \A d \in Actives : d.db \notin everDown /\ Kind[d.db] # "odbc" => Serving(d)

(* A reload that began with the engine in order and returned without an    *)
(* error leaves exactly the prepared configuration attached, whatever      *)
(* failed and expired on the way (manager.go, apply).                      *)
CommitIsExact ==
  pc = "idle" /\ result = "ok" /\ before => active = prepared /\ Exact

(* Whenever no call runs, every attached catalog is the one the active     *)
(* source of that alias asks for: no half-added source stays visible to    *)
(* queries, and no staging catalog either unless a deadline has passed     *)
(* between its ATTACH and its DETACH (manager.go, apply, stageAlias).      *)
NoStrayCatalog ==
  pc = "idle" =>
    \A a \in Alias : catalogs[a] # NONE =>
      \/ \E d \in Actives : d.alias = a /\ d.db = catalogs[a]
      \/ overran /\ a \notin LiveAlias

(* As long as no deadline has passed, the metadata relation lists no       *)
(* catalog as ready that is not attached when no call runs, after any      *)
(* failed attach, undo or removal (engine.go, Attach, recordSource,        *)
(* Detach; the adapters' compensation).                                    *)
ListedIsAttached ==
  pc = "idle" /\ ~overran =>
    \A i \in SourceID :
      registry[i].health = "ready" => catalogs[registry[i].catalog] # NONE

(* A reload never takes down a source whose definition it does not change, *)
(* in no step, committed or rolled back (manager.go, apply: same           *)
(* fingerprint).                                                           *)
UnchangedStaysUp ==
  [][\A d \in Actives :
       pc \notin {"boot", "idle"} /\ prepared[d.id] = d /\ Serving(d) => Serving(d)']_vars

(* While every database is reachable and no deadline passes, no reload of  *)
(* a valid configuration fails: nothing the bootstrap or an earlier reload *)
(* left behind (rows, staging names, secrets) gets in its way (manager.go, *)
(* apply; engine.go, Attach).                                              *)
FailureHasCause ==
  pc = "idle" /\ result = "failed" => everDown # {} \/ overran

(* No alias moves from one source to another in the life of the daemon,    *)
(* and no source changes its alias.  Where this does not hold a reload may *)
(* meet the alias it wants still taken by a source it takes down later,    *)
(* which fails the reload, or stands in the way of an undo action.         *)
Stable(documents) ==
  \A c, d \in UNION documents : c.id = d.id <=> c.alias = d.alias

(* Every call ends: an error on the way leads through the undo actions to  *)
(* the end, never into a loop (manager.go, apply).                         *)
ReloadEnds == pc # "idle" ~> pc = "idle"

(* A configured source whose database is reachable for good and that the   *)
(* file names for good is attached at last.                                *)
SourceComesBack ==
  \A d \in UNION Documents :
    <>[](d \in config /\ d.db \notin down) => <>[](pc = "idle" => Serving(d))
=============================================================================
