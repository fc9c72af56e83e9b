-------------------------- MODULE ReconcileProofs ---------------------------
(***************************************************************************)
(* For any number of sources, documents, outages and deadlines: no step of *)
(* a reload takes down a source whose definition it does not change, and   *)
(* whatever the manager does, the engine's invariant holds.                *)
(*                                                                         *)
(* Every adapter call touches the rows of one identifier and the catalog   *)
(* of one alias.  That these are never those of an unchanged source is     *)
(* what Changes says: the identifiers the call still has to visit, to      *)
(* remove or to undo are those whose definitions differ.                   *)
(*                                                                         *)
(* That a reload that answers well leaves exactly its document follows     *)
(* from how far the call has come (Progress), that no catalog strays from  *)
(* who still answers for each catalog (Accounted).                         *)
(*                                                                         *)
(* The last three results are about configurations in which every alias    *)
(* stays with its source (Stable).  Then the row of a source is never in   *)
(* the way of another (Home), so that nothing is listed in vain (Listed),  *)
(* nothing fails without a cause (Undisturbed), and every source that a    *)
(* call takes down has its way back (Mended, with the order of the undo    *)
(* actions, InOrder).                                                      *)
(***************************************************************************)
EXTENDS Reconcile, EngineProofs, SequenceTheorems

Call(id, alias) ==
  \E bg \in BOOLEAN :
    \/ \E db \in Database : AdapterAttach(id, alias, db, bg) \/ AdapterAttachFails(id, alias, db, bg)
    \/ AdapterCleanup(id, alias, bg)
    \/ AdapterCleanupFails(alias, bg)

(* What the failed calls of the adapters are for the engine.               *)
LEMMA FailedAttach ==
  ASSUME NEW id, NEW alias, NEW db, NEW bg, AdapterAttachFails(id, alias, db, bg)
  PROVE  \/ UNCHANGED engineVars
         \/ AttachODBCUndescribed(id, alias, TRUE)
         \/ AttachUnprepared(id, alias, TRUE, TRUE)
         \/ \E sec \in BOOLEAN : \/ AttachRefused(id, alias, sec, TRUE, TRUE)
                                 \/ AttachUnregistered(id, alias, sec, TRUE)
                                 \/ AttachUndescribed(id, alias, sec, TRUE)
         \/ AttachUnverified(id, alias)
<1>1. NeedsSecret(db) \in BOOLEAN
  BY DEF NeedsSecret
<1>2. PICK late \in BOOLEAN :
        \/ UNCHANGED engineVars
        \/ AttachODBCRefused(id, alias, db \in down, late)
        \/ AttachODBCUndescribed(id, alias, late)
        \/ AttachUnprepared(id, alias, db \in down, late)
        \/ AttachRefused(id, alias, NeedsSecret(db), db \in down, late)
        \/ AttachUnregistered(id, alias, NeedsSecret(db), late)
        \/ AttachUndescribed(id, alias, NeedsSecret(db), late)
        \/ AttachUnverified(id, alias)
  BY DEF AdapterAttachFails
<1>3. ASSUME AttachODBCRefused(id, alias, db \in down, late) PROVE UNCHANGED engineVars
  BY <1>3 DEF AttachODBCRefused
<1>4. ASSUME AttachODBCUndescribed(id, alias, late) PROVE AttachODBCUndescribed(id, alias, TRUE)
  BY <1>4 DEF AttachODBCUndescribed
<1>5. ASSUME AttachUnprepared(id, alias, db \in down, late) PROVE AttachUnprepared(id, alias, TRUE, TRUE)
  BY <1>5 DEF AttachUnprepared
<1>6. ASSUME AttachRefused(id, alias, NeedsSecret(db), db \in down, late)
      PROVE  AttachRefused(id, alias, NeedsSecret(db), TRUE, TRUE)
  BY <1>6 DEF AttachRefused
<1>7. ASSUME AttachUnregistered(id, alias, NeedsSecret(db), late)
      PROVE  AttachUnregistered(id, alias, NeedsSecret(db), TRUE)
  BY <1>7 DEF AttachUnregistered
<1>8. ASSUME AttachUndescribed(id, alias, NeedsSecret(db), late)
      PROVE  AttachUndescribed(id, alias, NeedsSecret(db), TRUE)
  BY <1>8 DEF AttachUndescribed
<1> QED
  BY <1>1, <1>2, <1>3, <1>4, <1>5, <1>6, <1>7, <1>8

(* The compensation of a check that failed after the attach.               *)
LEMMA UnverifiedHolds ==
  ASSUME NEW id \in SourceID, NEW alias \in Alias, EngineInv, AttachUnverified(id, alias)
  PROVE  EngineInv'
<1>1. /\ running' = running /\ running /\ catalogs' = catalogs /\ probing' = probing
      /\ resolver' = resolver /\ secrets' \subseteq secrets
      /\ registry' = [registry EXCEPT ![id] = NoRow]
      /\ ForgetSource(id)
  BY DEF AttachUnverified, ForgetSource
<1>2. /\ registry' \in [SourceID -> Row]
      /\ sources' \in [SourceID -> Health \cup {"none"}]
      /\ handles' \in [SourceID -> Handle \cup {NONE}]
      /\ native' \subseteq Handle
      /\ HandlesOwned' /\ HandleHasRow' /\ ReadyIsRegistered'
  BY <1>1, ForgetHolds
<1> QED
  BY <1>1, <1>2 DEF EngineInv, EngineTypeOK, ProbeCredentialsErased, StoppedHoldsNothing

(* Whatever an adapter does, the engine's invariant holds afterwards.      *)
LEMMA CallHolds ==
  ASSUME NEW id \in SourceID, NEW alias \in Alias, EngineInv, Call(id, alias)
  PROVE  EngineInv'
<1>1. ASSUME NEW db \in Database, NEW bg \in BOOLEAN, AdapterAttach(id, alias, db, bg) PROVE EngineInv'
  <2>1. AttachODBC(id, alias, db) \/ Attach(id, alias, db, NeedsSecret(db))
    BY <1>1 DEF AdapterAttach
  <2>2. NeedsSecret(db) \in BOOLEAN
    BY DEF NeedsSecret
  <2>3. AttachODBCAny(id, alias) \/ AttachAny(id, alias)
    BY <2>1, <2>2 DEF AttachODBCAny, AttachAny
  <2> QED
    BY <2>3, AttachHolds, AttachODBCHolds
<1>2. ASSUME NEW db \in Database, NEW bg \in BOOLEAN, AdapterAttachFails(id, alias, db, bg) PROVE EngineInv'
  <2>1. \/ UNCHANGED engineVars \/ AttachUnverified(id, alias)
        \/ AttachAny(id, alias) \/ AttachODBCAny(id, alias)
    BY <1>2, FailedAttach DEF AttachAny, AttachODBCAny
  <2> QED
    BY <2>1, StutterHolds, UnverifiedHolds, AttachHolds, AttachODBCHolds
<1>3. ASSUME NEW bg \in BOOLEAN, AdapterCleanup(id, alias, bg) PROVE EngineInv'
  <2>1. DetachAny(alias, id)
    BY <1>3 DEF AdapterCleanup, DetachAny
  <2> QED
    BY <2>1, DetachHolds
<1>4. ASSUME NEW bg \in BOOLEAN, AdapterCleanupFails(alias, bg) PROVE EngineInv'
  BY <1>4, StutterHolds DEF AdapterCleanupFails, DetachRefused
<1> QED
  BY <1>1, <1>2, <1>3, <1>4 DEF Call

(* A call on another identifier and another alias leaves a source serving. *)
LEMMA Elsewhere ==
  ASSUME NEW id \in SourceID, NEW alias \in Alias, NEW d \in Definition, EngineTypeOK,
         d.id \in SourceID, d.alias \in Alias, Serving(d), Call(id, alias),
         d.id # id, d.alias # alias
  PROVE  Serving(d)'
<1> SUFFICES /\ catalogs'[d.alias] = catalogs[d.alias]
             /\ registry'[d.id] = registry[d.id]
             /\ sources'[d.id] = sources[d.id]
  BY DEF Serving
<1> USE DEF EngineTypeOK, engineVars
<1>1. ASSUME NEW db \in Database, Attach(id, alias, db, NeedsSecret(db)) \/ AttachODBC(id, alias, db)
      PROVE  /\ catalogs'[d.alias] = catalogs[d.alias]
             /\ registry'[d.id] = registry[d.id]
             /\ sources'[d.id] = sources[d.id]
  BY <1>1 DEF Attach, AttachODBC
<1>2. ASSUME NEW db \in Database, NEW bg \in BOOLEAN, AdapterAttachFails(id, alias, db, bg)
      PROVE  /\ catalogs'[d.alias] = catalogs[d.alias]
             /\ registry'[d.id] = registry[d.id]
             /\ sources'[d.id] = sources[d.id]
  <2>1. CASE UNCHANGED engineVars
    BY <2>1
  <2>2. CASE AttachUnverified(id, alias) \/ AttachODBCUndescribed(id, alias, TRUE)
    BY <2>2 DEF AttachUnverified, AttachODBCUndescribed, ForgetSource
  <2>3. CASE AttachUnprepared(id, alias, TRUE, TRUE)
    BY <2>3 DEF AttachUnprepared, RecordUnavailable
  <2>4. ASSUME NEW sec \in BOOLEAN, AttachRefused(id, alias, sec, TRUE, TRUE)
        PROVE  /\ catalogs'[d.alias] = catalogs[d.alias]
               /\ registry'[d.id] = registry[d.id]
               /\ sources'[d.id] = sources[d.id]
    BY <2>4 DEF AttachRefused, RecordUnavailable
  <2>5. ASSUME NEW sec \in BOOLEAN,
               AttachUnregistered(id, alias, sec, TRUE) \/ AttachUndescribed(id, alias, sec, TRUE)
        PROVE  /\ catalogs'[d.alias] = catalogs[d.alias]
               /\ registry'[d.id] = registry[d.id]
               /\ sources'[d.id] = sources[d.id]
    BY <2>5 DEF AttachUnregistered, AttachUndescribed
  <2> QED
    BY <1>2, <2>1, <2>2, <2>3, <2>4, <2>5, FailedAttach
<1>3. ASSUME Detach(alias, id) \/ DetachCutShort(alias, id)
      PROVE  /\ catalogs'[d.alias] = catalogs[d.alias]
             /\ registry'[d.id] = registry[d.id]
             /\ sources'[d.id] = sources[d.id]
  BY <1>3 DEF Detach, DetachCutShort, DetachCatalog, ForgetSource
<1>4. CASE UNCHANGED engineVars
  BY <1>4
<1> QED
  BY <1>1, <1>2, <1>3, <1>4 DEF Call, AdapterAttach, AdapterCleanup, AdapterCleanupFails, DetachRefused

-----------------------------------------------------------------------------
(* The active set and the candidate come from valid documents.             *)
Valid(set) ==
  /\ set \in [Id -> MaybeDefinition]
  /\ \A i \in Id : set[i] # NONE => set[i] \in UNION Documents /\ set[i].id = i
  /\ \A i, j \in Id : set[i] # NONE /\ set[j] # NONE /\ set[i].alias = set[j].alias => i = j

(* What a reload has done so far, as undo actions: only to changed sources. *)
Entries ==
  {e \in {"attach", "detach"} \X Definition :
     /\ e[2].id \in Id
     /\ e[1] = "attach" => active[e[2].id] = e[2] /\ prepared[e[2].id] # e[2]
     /\ e[1] = "detach" => prepared[e[2].id] = e[2] /\ active[e[2].id] # e[2]}

Replacing == {"staged", "unstaged", "detached", "reinstate"}

Changes ==
  /\ config \in Documents
  /\ Valid(active) /\ Valid(prepared)
  /\ todo \subseteq Id /\ doomed \subseteq Id
  /\ undo \in Seq(Entries)
  /\ pc \in {"boot", "idle"} => undo = <<>>
  /\ pc = "boot" => /\ \A i \in Id : active[i] \in {NONE, prepared[i]}
                    /\ \A i \in todo : prepared[i] # NONE
  /\ pc \notin {"boot", "idle"} =>
       /\ \A i \in todo : prepared[i] \notin {NONE, active[i]}
       /\ \A i \in doomed : active[i] # NONE /\ prepared[i] = NONE
  /\ pc \in Replacing => \A i \in Id : Due(i) => active[i] # NONE

ChangeInv == EngineInv /\ Changes

(* Where the next call of an adapter may go.                               *)
Apart(id, alias) ==
  \A d \in Actives : prepared[d.id] = d => d.id # id /\ d.alias # alias

LEMMA DefinitionFacts ==
  ASSUME NEW d \in Definition
  PROVE  /\ d.id \in Id /\ d.id \in SourceID /\ StageID(d.id) \in SourceID /\ StageID(d.id) \notin Id
         /\ d.alias \in LiveAlias /\ d.alias \in Alias /\ d.db \in Database /\ d # NONE
<1>1. d.id \in Id /\ d.alias \in LiveAlias /\ d.db \in Database
  BY DEF Definition
<1>2. d.id \in Nat \ {0} /\ Id \subseteq Nat \ {0}
  BY <1>1, ReconcileAssumption
<1>3. StageID(d.id) \notin Id
  BY <1>2 DEF StageID
<1>4. Id \cup {StageID(i) : i \in Id} \subseteq SourceID /\ LiveAlias \subseteq Alias
  BY ReconcileAssumption
<1>5. d # NONE
  BY StagingAssumption
<1> QED
  BY <1>1, <1>3, <1>4, <1>5

LEMMA ValidFacts ==
  ASSUME NEW set, Valid(set), NEW i \in Id, set[i] # NONE
  PROVE  set[i] \in Definition /\ set[i].id = i /\ StageAlias(set[i]) \in Alias \ LiveAlias
<1>1. set[i] \in UNION Documents /\ set[i].id = i
  BY DEF Valid
<1>2. set[i] \in Definition
  BY <1>1, ReconcileAssumption
<1>3. StageAlias(set[i]) \in Alias
  BY <1>1, ReconcileAssumption
<1> QED
  BY <1>1, <1>2, <1>3, StagingAssumption

LEMMA CandidateValid == ASSUME NEW doc \in Documents PROVE Valid(Candidate(doc))
<1>1. doc \subseteq Definition
  BY ReconcileAssumption
<1>2. ASSUME NEW i \in Id, Candidate(doc)[i] # NONE
      PROVE  Candidate(doc)[i] \in doc /\ Candidate(doc)[i].id = i
  BY <1>2 DEF Candidate
<1>3. \A i \in Id : Candidate(doc)[i] \in MaybeDefinition
  BY <1>1, <1>2 DEF MaybeDefinition
<1>4. Candidate(doc) \in [Id -> MaybeDefinition]
  BY <1>3 DEF Candidate
<1>5. ASSUME NEW i \in Id, NEW j \in Id, Candidate(doc)[i] # NONE, Candidate(doc)[j] # NONE,
             Candidate(doc)[i].alias = Candidate(doc)[j].alias
      PROVE  i = j
  BY <1>2, <1>5, ReconcileAssumption
<1> QED
  BY <1>2, <1>4, <1>5 DEF Valid

-----------------------------------------------------------------------------
LEMMA Calls ==
  ASSUME NEW id, NEW alias, NEW db \in Database,
         \/ AdapterAttach(id, alias, db, TRUE) \/ AdapterAttachFails(id, alias, db, TRUE)
         \/ AdapterAttach(id, alias, db, FALSE) \/ AdapterAttachFails(id, alias, db, FALSE)
         \/ AdapterCleanup(id, alias, TRUE) \/ AdapterCleanupFails(alias, TRUE)
         \/ AdapterCleanup(id, alias, FALSE) \/ AdapterCleanupFails(alias, FALSE)
  PROVE  Call(id, alias)
  BY DEF Call

(* A source that does not change has an identifier and an alias of its own *)
(* in the active set and in the candidate, and no staging name.            *)
LEMMA ApartFromActive ==
  ASSUME Changes, NEW i \in Id, active[i] # NONE, active[i] # prepared[i]
  PROVE  Apart(i, active[i].alias)
  BY ValidFacts DEF Changes, Apart, Actives, Valid

LEMMA ApartFromPrepared ==
  ASSUME Changes, NEW i \in Id, prepared[i] # NONE, active[i] # prepared[i]
  PROVE  Apart(i, prepared[i].alias)
  BY ValidFacts DEF Changes, Apart, Actives, Valid

LEMMA ApartFromStaging ==
  ASSUME Changes, NEW i \in Id, prepared[i] # NONE
  PROVE  Apart(StageID(i), StageAlias(prepared[i]))
<1>1. StageID(i) \notin Id
  BY ValidFacts, DefinitionFacts DEF Changes
<1>2. \A d \in Actives : d.id \in Id /\ d.alias \in LiveAlias
  BY ValidFacts, DefinitionFacts DEF Changes, Actives
<1> QED
  BY <1>1, <1>2, ValidFacts DEF Apart, Changes

(* The manager calls an adapter for a configured source, or for the        *)
(* candidate of one under its staging identifier and name.                 *)
Belongs(id, alias) ==
  \E d \in UNION Documents :
    \/ id = d.id /\ alias = d.alias
    \/ id = StageID(d.id) /\ alias = StageAlias(d)

LEMMA Belonging ==
  ASSUME NEW set, Valid(set), NEW i \in Id, set[i] # NONE
  PROVE  Belongs(i, set[i].alias) /\ Belongs(StageID(i), StageAlias(set[i]))
<1>1. set[i] \in UNION Documents /\ set[i].id = i
  BY DEF Valid
<1> QED
  BY <1>1 DEF Belongs

Somewhere ==
  \E id \in SourceID, alias \in Alias : Call(id, alias) /\ Apart(id, alias) /\ Belongs(id, alias)

(* Every step of a reload that calls an adapter calls it apart from what   *)
(* does not change.                                                        *)
LEMMA LoopCalls ==
  ASSUME Changes, NEW id \in Id,
         AttachNew(id) \/ Stage(id) \/ Unstage(id) \/ DetachCurrent(id)
         \/ AttachReplacement(id) \/ Reinstate(id)
  PROVE  Somewhere
<1>1. id \in todo /\ prepared[id] # NONE /\ prepared[id] # active[id]
  BY DEF Changes, AttachNew, Stage, Unstage, DetachCurrent, AttachReplacement, Reinstate, Due
<1>2. /\ prepared[id] \in Definition /\ prepared[id].id = id
      /\ StageAlias(prepared[id]) \in Alias
  BY <1>1, ValidFacts DEF Changes
<1>3. /\ prepared[id].alias \in Alias /\ prepared[id].db \in Database
      /\ id \in SourceID /\ StageID(id) \in SourceID
  BY <1>2, DefinitionFacts
<1>4. CASE AttachNew(id) \/ AttachReplacement(id)
  <2>1. Call(id, prepared[id].alias)
    BY <1>3, <1>4, Calls DEF AttachNew, AttachReplacement
  <2> QED
    BY <1>1, <1>3, <2>1, ApartFromPrepared, Belonging DEF Somewhere, Changes
<1>5. CASE Stage(id) \/ Unstage(id)
  <2>1. Call(StageID(id), StageAlias(prepared[id]))
    BY <1>3, <1>5, Calls DEF Stage, Unstage
  <2> QED
    BY <1>1, <1>2, <1>3, <2>1, ApartFromStaging, Belonging DEF Somewhere, Changes
<1>6. CASE DetachCurrent(id) \/ Reinstate(id)
  <2>1. active[id] # NONE
    BY <1>6 DEF DetachCurrent, Reinstate, Changes, Replacing
  <2>2. active[id].alias \in Alias /\ active[id].db \in Database
    BY <2>1, ValidFacts, DefinitionFacts DEF Changes
  <2>3. Call(id, active[id].alias)
    BY <1>6, <2>2, Calls DEF DetachCurrent, Reinstate
  <2> QED
    BY <1>1, <1>3, <2>1, <2>2, <2>3, ApartFromActive, Belonging DEF Somewhere, Changes
<1> QED
  BY <1>4, <1>5, <1>6

LEMMA RemovalCalls ==
  ASSUME Changes, NEW id \in Id, RemoveSource(id) PROVE Somewhere
<1>1. active[id] # NONE /\ prepared[id] = NONE
  BY DEF Changes, RemoveSource
<1>2. active[id].alias \in Alias /\ active[id].db \in Database /\ id \in SourceID
  BY <1>1, ValidFacts, DefinitionFacts DEF Changes
<1>3. Call(id, active[id].alias)
  BY <1>2, Calls DEF RemoveSource
<1> QED
  BY <1>1, <1>2, <1>3, ApartFromActive, Belonging DEF Somewhere, Changes

LEMMA LastEntry == ASSUME Changes, undo # <<>> PROVE undo[Len(undo)] \in Entries
<1>1. undo \in Seq(Entries) /\ Len(undo) \in Nat \ {0}
  BY EmptySeq DEF Changes
<1> QED
  BY <1>1, ElementOfSeq

LEMMA UndoCalls ==
  ASSUME Changes, Undo PROVE Somewhere
<1> DEFINE e == undo[Len(undo)]
<1>1. e \in Entries
  BY LastEntry DEF Undo
<1>2. /\ e[2] \in Definition /\ e[2].id \in Id
      /\ e[1] = "attach" => active[e[2].id] = e[2] /\ prepared[e[2].id] # e[2]
      /\ e[1] = "detach" => prepared[e[2].id] = e[2] /\ active[e[2].id] # e[2]
  BY <1>1 DEF Entries
<1>3. e[2].id \in SourceID /\ e[2].alias \in Alias /\ e[2].db \in Database /\ e[2] # NONE
  BY <1>2, DefinitionFacts
<1>4. UndoOne(e)
  BY DEF Undo
<1> HIDE DEF e
<1>5. Call(e[2].id, e[2].alias)
  BY <1>3, <1>4, Calls DEF UndoOne
<1>6. Apart(e[2].id, e[2].alias)
  BY <1>2, <1>3, <1>4, ApartFromActive, ApartFromPrepared DEF UndoOne
<1>7. Belongs(e[2].id, e[2].alias)
  <2>1. e[1] \in {"attach", "detach"}
    BY <1>1 DEF Entries
  <2>2. active[e[2].id] = e[2] \/ prepared[e[2].id] = e[2]
    BY <1>2, <2>1
  <2>3. Valid(active) /\ Valid(prepared)
    BY DEF Changes
  <2>4. PICK set : Valid(set) /\ set[e[2].id] = e[2]
    BY <2>2, <2>3
  <2> QED
    BY <1>2, <1>3, <2>4, Belonging
<1> QED
  BY <1>3, <1>5, <1>6, <1>7 DEF Somewhere

LEMMA BootCalls ==
  ASSUME Changes, NEW id \in Id, BootAttach(id) \/ BootSkip(id)
  PROVE  \E i \in SourceID, alias \in Alias : Call(i, alias) /\ Belongs(i, alias)
<1>1. prepared[id] # NONE
  BY DEF Changes, BootAttach, BootSkip
<1>2. prepared[id].alias \in Alias /\ prepared[id].db \in Database /\ id \in SourceID
  BY <1>1, ValidFacts, DefinitionFacts DEF Changes
<1>3. Call(id, prepared[id].alias)
  BY <1>2, Calls DEF BootAttach, BootSkip
<1>4. Belongs(id, prepared[id].alias)
  BY <1>1, Belonging DEF Changes, BootAttach, BootSkip
<1> QED
  BY <1>2, <1>3, <1>4

-----------------------------------------------------------------------------
LEMMA ChangesInit == Init => ChangeInv
<1> SUFFICES ASSUME Init PROVE ChangeInv
  OBVIOUS
<1>1. EngineInv
  BY EngineAssumption DEF Init, Blank, EngineInv, EngineTypeOK, HandlesOwned, HandleHasRow,
     ReadyIsRegistered, ProbeCredentialsErased, StoppedHoldsNothing, Row, NoRow
<1>2. config \in Documents /\ config \subseteq Definition
  BY ReconcileAssumption DEF Init
<1>3. Valid(prepared)
  BY <1>2, CandidateValid DEF Init
<1>4. Valid(active)
  BY DEF Init, Valid, MaybeDefinition
<1>5. \A d \in config : d.id \in Id /\ prepared[d.id] # NONE
  BY <1>2, DefinitionFacts DEF Init, Candidate
<1>6. undo \in Seq(Entries)
  BY EmptySeq DEF Init
<1> QED
  BY <1>1, <1>2, <1>3, <1>4, <1>5, <1>6 DEF Init, ChangeInv, Changes, Replacing

(* The active set and the candidate stay as they are through a reload.     *)
LEMMA SameEntries == UNCHANGED <<active, prepared>> => Entries' = Entries
  BY DEF Entries

LEMMA DueOnce == ASSUME todo \subseteq Id, NEW i \in Id, NEW j \in Id, Due(i), Due(j) PROVE i = j
  BY ReconcileAssumption DEF Due

LEMMA GoToKeeps ==
  ASSUME Changes, NEW place, GoTo(place), pc \notin {"boot", "idle"},
         place \in Replacing \cup {"rollback"},
         place \in Replacing => \A i \in Id : Due(i) => active[i] # NONE
  PROVE  Changes'
<1>1. /\ pc' = place /\ UNCHANGED <<config, active, prepared, todo, doomed, undo>>
  BY DEF GoTo
<1>2. undo' \in Seq(Entries')
  BY <1>1, SameEntries DEF Changes
<1>3. \A i \in Id : Due(i)' <=> Due(i)
  BY <1>1 DEF Due
<1> QED
  BY <1>1, <1>2, <1>3 DEF Changes, Valid, Replacing

LEMMA VisitedKeeps ==
  ASSUME Changes, NEW id, NEW actions \in Seq(Entries), Visited(id, actions), pc \notin {"boot", "idle"}
  PROVE  Changes'
<1>1. /\ pc' = "apply" /\ todo' = todo \ {id} /\ undo' = undo \o actions
      /\ UNCHANGED <<config, active, prepared, doomed>>
  BY DEF Visited
<1>2. undo' \in Seq(Entries')
  BY <1>1, SameEntries, ConcatProperties DEF Changes
<1> QED
  BY <1>1, <1>2 DEF Changes, Valid, Replacing

LEMMA Marks ==
  ASSUME NEW d \in Definition, d.id \in Id, active[d.id] # prepared[d.id]
  PROVE  /\ active[d.id] = d => <<"attach", d>> \in Entries
         /\ prepared[d.id] = d => <<"detach", d>> \in Entries
  BY DEF Entries

LEMMA LoopKeeps ==
  ASSUME Changes, NEW id \in Id,
         AttachNew(id) \/ Stage(id) \/ Unstage(id) \/ DetachCurrent(id)
         \/ AttachReplacement(id) \/ Reinstate(id)
  PROVE  Changes'
<1>1. id \in todo /\ prepared[id] # NONE /\ prepared[id] # active[id] /\ pc \notin {"boot", "idle"}
  BY DEF Changes, AttachNew, Stage, Unstage, DetachCurrent, AttachReplacement, Reinstate, Due
<1>2. prepared[id] \in Definition /\ prepared[id].id = id
  BY <1>1, ValidFacts DEF Changes
<1>3. <<"detach", prepared[id]>> \in Entries
  BY <1>1, <1>2, Marks
<1>4. CASE AttachNew(id)
  <2>1. <<<<"detach", prepared[id]>>>> \in Seq(Entries)
    BY <1>3
  <2> QED
    BY <1>1, <1>4, <2>1, GoToKeeps, VisitedKeeps DEF AttachNew, Replacing
<1>5. CASE Stage(id)
  <2>1. active[id] # NONE /\ Due(id)
    BY <1>5 DEF Stage
  <2>2. \A i \in Id : Due(i) => active[i] # NONE
    BY <2>1, DueOnce DEF Changes
  <2> QED
    BY <1>1, <1>5, <2>2, GoToKeeps DEF Stage, Replacing
<1>6. CASE Unstage(id) \/ DetachCurrent(id) \/ Reinstate(id)
  <2>1. \A i \in Id : Due(i) => active[i] # NONE
    BY <1>6 DEF Unstage, DetachCurrent, Reinstate, Changes, Replacing
  <2> QED
    BY <1>1, <1>6, <2>1, GoToKeeps DEF Unstage, DetachCurrent, Reinstate, Replacing
<1>7. CASE AttachReplacement(id)
  <2>1. \A i \in Id : Due(i) => active[i] # NONE
    BY <1>7 DEF AttachReplacement, Changes, Replacing
  <2>2. active[id] # NONE
    BY <1>7, <2>1 DEF AttachReplacement
  <2>3. active[id] \in Definition /\ active[id].id = id
    BY <2>2, ValidFacts DEF Changes
  <2>4. <<"attach", active[id]>> \in Entries
    BY <1>1, <2>3, Marks
  <2>5. <<<<"attach", active[id]>>, <<"detach", prepared[id]>>>> \in Seq(Entries)
    BY <1>3, <2>4
  <2> QED
    BY <1>1, <1>7, <2>1, <2>5, GoToKeeps, VisitedKeeps DEF AttachReplacement, Replacing
<1> QED
  BY <1>4, <1>5, <1>6, <1>7

LEMMA RemovalKeeps ==
  ASSUME Changes, NEW id \in Id, RemoveSource(id) PROVE Changes'
<1>1. id \in doomed /\ active[id] # NONE /\ prepared[id] = NONE /\ pc = "apply"
  BY DEF Changes, RemoveSource
<1>2. active[id] \in Definition /\ active[id].id = id
  BY <1>1, ValidFacts DEF Changes
<1>3. <<"attach", active[id]>> \in Entries
  BY <1>1, <1>2, Marks
<1>4. CASE GoTo("rollback")
  BY <1>1, <1>4, GoToKeeps DEF Replacing
<1>5. CASE /\ doomed' = doomed \ {id}
           /\ undo' = Append(undo, <<"attach", active[id]>>)
           /\ UNCHANGED <<config, active, prepared, pc, todo>>
  <2>1. undo' \in Seq(Entries')
    BY <1>3, <1>5, SameEntries, AppendProperties DEF Changes
  <2> QED
    BY <1>1, <1>5, <2>1 DEF Changes, Valid, Replacing
<1> QED
  BY <1>4, <1>5 DEF RemoveSource

LEMMA UndoKeeps == ASSUME Changes, Undo PROVE Changes'
<1>1. /\ UNCHANGED <<config, active, prepared, pc, todo, doomed>>
      /\ undo' = SubSeq(undo, 1, Len(undo) - 1) /\ pc = "rollback" /\ undo # <<>>
  BY DEF Undo
<1>2. undo \in Seq(Entries) /\ Len(undo) \in Nat \ {0}
  BY <1>1, EmptySeq DEF Changes
<1>3. \A i \in 1..(Len(undo) - 1) : undo[i] \in Entries
  BY <1>2, ElementOfSeq
<1>4. undo' \in Seq(Entries)
  BY <1>1, <1>2, <1>3, SubSeqProperties
<1>5. undo' \in Seq(Entries')
  BY <1>1, <1>4, SameEntries
<1> QED
  BY <1>1, <1>5 DEF Changes, Valid, Replacing

LEMMA BootKeeps ==
  ASSUME Changes, NEW id \in Id, BootAttach(id) \/ BootSkip(id) PROVE Changes'
<1>1. /\ pc = "boot" /\ id \in todo /\ todo' = todo \ {id}
      /\ UNCHANGED <<config, prepared, pc, doomed, undo>> /\ undo = <<>>
      /\ active' \in {active, [active EXCEPT ![id] = prepared[id]]}
  BY DEF BootAttach, BootSkip, Changes
<1>2. \A i \in Id : active'[i] \in {NONE, prepared[i]}
  BY <1>1 DEF Changes, Valid
<1>3. active' \in [Id -> MaybeDefinition]
  BY <1>1 DEF Changes, Valid
<1>4. Valid(active)' /\ Valid(prepared)'
  BY <1>1, <1>2, <1>3 DEF Changes, Valid
<1>5. undo' \in Seq(Entries')
  BY <1>1, EmptySeq
<1> QED
  BY <1>1, <1>2, <1>4, <1>5 DEF Changes, Replacing

(* The beginning and the end of a call, and the environment.               *)
LEMMA RestKeeps ==
  ASSUME Changes, \/ Booted \/ Commit \/ Abort \/ BeginReload \/ PrepareFails \/ Edit
                  \/ \E db \in Database : GoDown(db) \/ ComeBack(db)
                  \/ UNCHANGED vars
  PROVE  Changes'
<1>1. CASE Booted
  <2>1. undo' \in Seq(Entries')
    BY <1>1, SameEntries DEF Booted, Changes
  <2> QED
    BY <1>1, <2>1 DEF Booted, Changes, Valid, Replacing
<1>2. CASE Commit
  <2>1. undo' \in Seq(Entries')
    BY <1>2, EmptySeq DEF Commit
  <2> QED
    BY <1>2, <2>1 DEF Commit, Changes, Valid, Replacing
<1>3. CASE Abort
  <2>1. undo' \in Seq(Entries')
    BY <1>3, SameEntries DEF Abort, Changes
  <2> QED
    BY <1>3, <2>1 DEF Abort, Changes, Valid, Replacing
<1>4. CASE BeginReload
  <2>1. undo' \in Seq(Entries')
    BY <1>4, EmptySeq DEF BeginReload
  <2>2. Valid(prepared)'
    BY <1>4, CandidateValid DEF BeginReload, Changes, Valid
  <2>3. /\ todo' = {i \in Id : prepared'[i] \notin {NONE, active'[i]}}
        /\ doomed' = {i \in Id : active'[i] # NONE /\ prepared'[i] = NONE}
    BY <1>4 DEF BeginReload
  <2> QED
    BY <1>4, <2>1, <2>2, <2>3 DEF BeginReload, Changes, Valid, Replacing
<1>5. CASE \/ PrepareFails \/ Edit \/ UNCHANGED vars
           \/ \E db \in Database : GoDown(db) \/ ComeBack(db)
  <2>1. UNCHANGED <<active, prepared, pc, todo, doomed, undo>> /\ config' \in Documents
    BY <1>5 DEF PrepareFails, Edit, GoDown, ComeBack, managerVars, vars, Changes
  <2>2. undo' \in Seq(Entries')
    BY <2>1, SameEntries DEF Changes
  <2>3. \A i \in Id : Due(i)' <=> Due(i)
    BY <2>1 DEF Due
  <2> QED
    BY <2>1, <2>2, <2>3 DEF Changes, Valid, Replacing
<1> QED
  BY <1>1, <1>2, <1>3, <1>4, <1>5

(* The steps that call no adapter leave the engine alone.                  *)
LEMMA RestIsQuiet ==
  ASSUME \/ Booted \/ Commit \/ Abort \/ BeginReload \/ PrepareFails \/ Edit
         \/ \E db \in Database : GoDown(db) \/ ComeBack(db)
         \/ UNCHANGED vars
  PROVE  UNCHANGED engineVars
  BY DEF Booted, Commit, Abort, BeginReload, PrepareFails, Edit, GoDown, ComeBack, vars

LEMMA SomewhereHolds == ASSUME EngineInv, Somewhere PROVE EngineInv'
  BY CallHolds DEF Somewhere

LEMMA ChangesStep == ChangeInv /\ [Next]_vars => ChangeInv'
<1> SUFFICES ASSUME EngineInv, Changes, [Next]_vars PROVE EngineInv' /\ Changes'
  BY DEF ChangeInv
<1>1. CASE \/ Booted \/ Commit \/ Abort \/ BeginReload \/ PrepareFails \/ Edit
           \/ \E db \in Database : GoDown(db) \/ ComeBack(db)
           \/ UNCHANGED vars
  BY <1>1, RestKeeps, RestIsQuiet, StutterHolds
<1>2. CASE Undo
  BY <1>2, UndoKeeps, UndoCalls, SomewhereHolds
<1>3. ASSUME NEW id \in Id, BootAttach(id) \/ BootSkip(id) PROVE EngineInv' /\ Changes'
  BY <1>3, BootKeeps, BootCalls, CallHolds
<1>4. ASSUME NEW id \in Id, RemoveSource(id) PROVE EngineInv' /\ Changes'
  BY <1>4, RemovalKeeps, RemovalCalls, SomewhereHolds
<1>5. ASSUME NEW id \in Id, AttachNew(id) \/ Stage(id) \/ Unstage(id) \/ DetachCurrent(id)
                            \/ AttachReplacement(id) \/ Reinstate(id)
      PROVE  EngineInv' /\ Changes'
  BY <1>5, LoopKeeps, LoopCalls, SomewhereHolds
<1> QED
  BY <1>1, <1>2, <1>3, <1>4, <1>5 DEF Next, ManagerStep, Request, Environment

(* Whatever a reload attaches, fails to attach, stages, cleans up or       *)
(* undoes, no ODBC handle leaks or is closed twice, and ready sources are  *)
(* registered (manager.go over engine.go).                                 *)
THEOREM ReloadsLeakNothing == Spec => [](HandlesOwned /\ ReadyIsRegistered)
<1>1. ChangeInv => HandlesOwned /\ ReadyIsRegistered
  BY DEF ChangeInv, EngineInv
<1> QED
  BY <1>1, ChangesInit, ChangesStep, PTL DEF Spec

(* A step of a reload keeps an unchanged source serving.                   *)
LEMMA UnchangedStep ==
  ASSUME ChangeInv, [Next]_vars, NEW d \in Actives, pc \notin {"boot", "idle"},
         prepared[d.id] = d, Serving(d)
  PROVE  Serving(d)'
<1>1. d \in Definition /\ d.id \in SourceID /\ d.alias \in Alias
  BY ValidFacts, DefinitionFacts DEF ChangeInv, Changes, Actives
<1>2. CASE UNCHANGED engineVars
  BY <1>2 DEF Serving, engineVars
<1>3. CASE Somewhere
  <2>1. PICK id \in SourceID, alias \in Alias : Call(id, alias) /\ Apart(id, alias)
    BY <1>3 DEF Somewhere
  <2>2. d.id # id /\ d.alias # alias
    BY <2>1 DEF Apart
  <2> QED
    BY <1>1, <2>1, <2>2, Elsewhere DEF ChangeInv, EngineInv
<1>4. ~(\E id \in Id : BootAttach(id) \/ BootSkip(id))
  BY DEF BootAttach, BootSkip
<1> QED
  BY <1>2, <1>3, <1>4, RestIsQuiet, UndoCalls, RemovalCalls, LoopCalls
     DEF ChangeInv, Next, ManagerStep, Request, Environment

(* A reload never takes down a source whose definition it does not change, *)
(* in no step, committed or rolled back (manager.go, apply).               *)
THEOREM UnchangedNeverDown == Spec => UnchangedStaysUp
<1>1. ChangeInv /\ [Next]_vars =>
        [\A d \in Actives :
           pc \notin {"boot", "idle"} /\ prepared[d.id] = d /\ Serving(d) => Serving(d)']_vars
  BY UnchangedStep
<1> QED
  BY <1>1, ChangesInit, ChangesStep, PTL DEF Spec, UnchangedStaysUp
-----------------------------------------------------------------------------
(* The definitions of S are attached and ready, each under an alias of its *)
(* own, and besides them only catalogs of the names E.                     *)
Orderly(S, E) ==
  /\ \A d \in S : Serving(d)
  /\ \A c, d \in S : c.id = d.id \/ c.alias = d.alias => c = d
  /\ \A a \in Alias : catalogs[a] # NONE => a \in E \/ \E d \in S : d.alias = a

Attaching(id, alias, db) == \E bg \in BOOLEAN : AdapterAttach(id, alias, db, bg)
Cleaning(id, alias) == \E bg \in BOOLEAN : AdapterCleanup(id, alias, bg)

(* What a call that ends well does at its own place.                       *)
LEMMA Attaches ==
  ASSUME EngineTypeOK, NEW id \in SourceID, NEW alias \in Alias, NEW db \in Database,
         Attaching(id, alias, db)
  PROVE  /\ Call(id, alias)
         /\ catalogs[alias] = NONE
         /\ catalogs' = [catalogs EXCEPT ![alias] = db]
         /\ registry'[id] = ReadyRow(alias)
         /\ sources'[id] = "ready"
<1>1. Call(id, alias)
  BY DEF Call, Attaching
<1>2. Attach(id, alias, db, NeedsSecret(db)) \/ AttachODBC(id, alias, db)
  BY DEF Attaching, AdapterAttach
<1> QED
  BY <1>1, <1>2 DEF Attach, AttachODBC, EngineTypeOK

LEMMA Cleans ==
  ASSUME EngineTypeOK, NEW id \in SourceID, NEW alias \in Alias, Cleaning(id, alias)
  PROVE  /\ Call(id, alias)
         /\ catalogs[alias] # NONE
         /\ catalogs' = [catalogs EXCEPT ![alias] = NONE]
<1>1. Call(id, alias)
  BY DEF Call, Cleaning
<1>2. Detach(alias, id) \/ DetachCutShort(alias, id)
  BY DEF Cleaning, AdapterCleanup
<1> QED
  BY <1>1, <1>2 DEF Detach, DetachCutShort, DetachCatalog

(* Sources that are served keep their aliases from others.                 *)
LEMMA Taken ==
  ASSUME NEW d \in Definition, Serving(d)
  PROVE  catalogs[d.alias] # NONE
  BY DefinitionFacts, EngineAssumption DEF Serving

LEMMA OrderlyAttach ==
  ASSUME EngineTypeOK, NEW S \in SUBSET Definition, Orderly(S, {}), NEW new \in Definition,
         Attaching(new.id, new.alias, new.db),
         \A d \in S : d.id # new.id
  PROVE  Orderly(S \cup {new}, {})'
<1>1. new.id \in SourceID /\ new.alias \in Alias /\ new.db \in Database
  BY DefinitionFacts
<1>2. /\ Call(new.id, new.alias) /\ catalogs[new.alias] = NONE
      /\ catalogs' = [catalogs EXCEPT ![new.alias] = new.db]
      /\ registry'[new.id] = ReadyRow(new.alias) /\ sources'[new.id] = "ready"
  BY <1>1, Attaches
<1>3. \A d \in S : d.alias # new.alias
  BY <1>2, Taken DEF Orderly
<1>4. \A d \in S : Serving(d)'
  BY <1>1, <1>2, <1>3, DefinitionFacts, Elsewhere DEF Orderly
<1>5. Serving(new)'
  BY <1>1, <1>2 DEF Serving, EngineTypeOK
<1>6. \A a \in Alias : catalogs'[a] # NONE => \E d \in S \cup {new} : d.alias = a
  BY <1>1, <1>2 DEF Orderly, EngineTypeOK
<1> QED
  BY <1>3, <1>4, <1>5, <1>6 DEF Orderly

LEMMA OrderlyCleanup ==
  ASSUME EngineTypeOK, NEW S \in SUBSET Definition, Orderly(S, {}), NEW old \in S,
         Cleaning(old.id, old.alias)
  PROVE  Orderly(S \ {old}, {})'
<1>1. old \in Definition /\ old.id \in SourceID /\ old.alias \in Alias
  BY DefinitionFacts
<1>2. Call(old.id, old.alias) /\ catalogs' = [catalogs EXCEPT ![old.alias] = NONE]
  BY <1>1, Cleans
<1>3. \A d \in S \ {old} : d.id # old.id /\ d.alias # old.alias
  BY DEF Orderly
<1>4. \A d \in S \ {old} : Serving(d)'
  BY <1>1, <1>2, <1>3, DefinitionFacts, Elsewhere DEF Orderly
<1>5. \A a \in Alias : catalogs'[a] # NONE => \E d \in S \ {old} : d.alias = a
  BY <1>1, <1>2 DEF Orderly, EngineTypeOK
<1> QED
  BY <1>4, <1>5 DEF Orderly

(* A candidate is tried and taken back under a name no source has.         *)
LEMMA OrderlyStaging ==
  ASSUME EngineTypeOK, NEW S \in SUBSET Definition, NEW new \in Definition, NEW alias \in Alias \ LiveAlias
  PROVE  /\ Orderly(S, {}) /\ Attaching(StageID(new.id), alias, new.db) => Orderly(S, {alias})'
         /\ Orderly(S, {alias}) /\ Cleaning(StageID(new.id), alias) => Orderly(S, {})'
<1>1. StageID(new.id) \in SourceID /\ new.db \in Database /\ StageID(new.id) \notin Id
  BY DefinitionFacts
<1>2. \A d \in S : d.id # StageID(new.id) /\ d.alias # alias
  BY <1>1, DefinitionFacts
<1>3. ASSUME Orderly(S, {}), Attaching(StageID(new.id), alias, new.db)
      PROVE  Orderly(S, {alias})'
  <2>1. Call(StageID(new.id), alias) /\ catalogs' = [catalogs EXCEPT ![alias] = new.db]
    BY <1>1, <1>3, Attaches
  <2>2. \A d \in S : Serving(d)'
    BY <1>1, <1>2, <1>3, <2>1, DefinitionFacts, Elsewhere DEF Orderly
  <2>3. \A a \in Alias : catalogs'[a] # NONE => a \in {alias} \/ \E d \in S : d.alias = a
    BY <1>3, <2>1 DEF Orderly, EngineTypeOK
  <2> QED
    BY <1>3, <2>2, <2>3 DEF Orderly
<1>4. ASSUME Orderly(S, {alias}), Cleaning(StageID(new.id), alias)
      PROVE  Orderly(S, {})'
  <2>1. Call(StageID(new.id), alias) /\ catalogs' = [catalogs EXCEPT ![alias] = NONE]
    BY <1>1, <1>4, Cleans
  <2>2. \A d \in S : Serving(d)'
    BY <1>1, <1>2, <1>4, <2>1, DefinitionFacts, Elsewhere DEF Orderly
  <2>3. \A a \in Alias : catalogs'[a] # NONE => \E d \in S : d.alias = a
    BY <1>4, <2>1 DEF Orderly, EngineTypeOK
  <2> QED
    BY <1>4, <2>2, <2>3 DEF Orderly
<1> QED
  BY <1>3, <1>4
-----------------------------------------------------------------------------
(* What is attached in the middle of a reload that has met no error: of    *)
(* the candidate what the call has visited, of the active set what it has  *)
(* still to visit or to remove, without the one it has just taken down.    *)
Underway == {"apply", "staged", "unstaged", "detached"}
Gone == {i \in Id : pc = "detached" /\ Due(i)}
Left == (todo \cup doomed) \ Gone
Attached == ({prepared[i] : i \in Id \ todo} \cup {active[i] : i \in Left}) \ {NONE}
Staged == {StageAlias(prepared[i]) : i \in {j \in Id : pc = "staged" /\ Due(j)}}

Progress ==
  /\ pc = "boot" => result = "none"
  /\ pc \in Underway /\ before => Orderly(Attached, Staged)

CommitInv == ChangeInv /\ Progress /\ CommitIsExact

LEMMA OrderlySame ==
  ASSUME NEW S, NEW E, Orderly(S, E), UNCHANGED engineVars PROVE Orderly(S, E)'
  BY DEF Orderly, Serving, engineVars

(* The order of a set of sources is the order the property speaks of.      *)
LEMMA OrderlyIsExact == ASSUME Valid(active) PROVE Exact <=> Orderly(Actives, {})
<1>1. \A c, d \in Actives : c.id = d.id \/ c.alias = d.alias => c = d
  BY ValidFacts DEF Valid, Actives
<1> QED
  BY <1>1 DEF Exact, Orderly

LEMMA AttachedFacts ==
  ASSUME Changes
  PROVE  Attached \in SUBSET Definition
  BY ValidFacts DEF Changes, Attached, Left, Actives

(* The sets through the steps of the loop.                                 *)
LEMMA Visiting ==
  ASSUME Changes, NEW id \in Id, Due(id), id \in todo, pc \in {"apply", "detached"},
         pc = "apply" => active[id] = NONE,
         pc' = "apply", todo' = todo \ {id}, UNCHANGED <<active, prepared, doomed>>
  PROVE  /\ Attached' = Attached \cup {prepared[id]}
         /\ \A d \in Attached : d.id # id
         /\ Staged = {} /\ Staged' = {}
<1>1. \A i \in Id : Due(i) => i = id
  BY DueOnce DEF Changes
<1>2. \A i \in Left : i = id => active[i] = NONE
  BY <1>1 DEF Left, Gone
<1>3. Gone' = {} /\ Gone \subseteq {id}
  BY <1>1 DEF Gone
<1>4. doomed \subseteq Id /\ todo \subseteq Id /\ id \notin doomed /\ prepared[id] # NONE
  BY DEF Changes
<1>5. Left \subseteq Id /\ Left' \subseteq Left /\ Left \subseteq Left' \cup {id}
  BY <1>3, <1>4 DEF Left
<1>6. Attached' = Attached \cup {prepared[id]}
  BY <1>2, <1>4, <1>5 DEF Attached
<1>7. \A d \in Attached : d.id # id
  <2> TAKE d \in Attached
  <2>1. CASE \E i \in Id \ todo : d = prepared[i]
    BY <2>1, <1>4, ValidFacts DEF Changes, Attached
  <2>2. CASE \E i \in Left : d = active[i]
    BY <2>2, <1>2, <1>5, ValidFacts DEF Changes, Attached
  <2> QED
    BY <2>1, <2>2 DEF Attached
<1>8. Staged = {} /\ Staged' = {}
  BY DEF Staged
<1> QED
  BY <1>6, <1>7, <1>8

LEMMA Removing ==
  ASSUME Changes, NEW id \in Id, active[id] # NONE, prepared[id] # active[id], id \in Left, pc \in {"apply", "unstaged"},
         pc' # "staged", UNCHANGED <<active, prepared, todo>>,
         Left' = Left \ {id}
  PROVE  /\ Attached' = Attached \ {active[id]} /\ active[id] \in Attached
         /\ Staged = {} /\ Staged' = {}
<1>1. Left \subseteq Id
  BY DEF Left, Changes
<1>2. \A i \in Id : prepared[i] # active[id]
  BY ValidFacts DEF Changes
<1>3. \A i \in Id : i # id => active[i] # active[id]
  BY ValidFacts DEF Changes
<1>4. Attached' = Attached \ {active[id]} /\ active[id] \in Attached
  BY <1>1, <1>2, <1>3 DEF Attached
<1> QED
  BY <1>4 DEF Staged

LEMMA VisitOrderly ==
  ASSUME EngineTypeOK, Changes, NEW id \in Id, Due(id), id \in todo, pc \in {"apply", "detached"},
         pc = "apply" => active[id] = NONE,
         pc' = "apply", todo' = todo \ {id}, UNCHANGED <<active, prepared, doomed>>,
         AdapterAttach(id, prepared[id].alias, prepared[id].db, FALSE),
         prepared[id] # NONE, Orderly(Attached, Staged)
  PROVE  Orderly(Attached, Staged)'
<1>1. /\ Attached' = Attached \cup {prepared[id]} /\ \A d \in Attached : d.id # id
      /\ Staged = {} /\ Staged' = {}
  BY Visiting
<1>2. PICK S \in SUBSET Definition : S = Attached
  BY AttachedFacts
<1>3. PICK new \in Definition : new = prepared[id] /\ new.id = id
  BY ValidFacts DEF Changes
<1>4. Attaching(new.id, new.alias, new.db)
  BY <1>3 DEF Attaching
<1>5. Orderly(S, {}) /\ \A d \in S : d.id # new.id
  BY <1>1, <1>2, <1>3 DEF Orderly
<1>6. Orderly(S \cup {new}, {})'
  BY <1>4, <1>5, OrderlyAttach
<1> QED
  BY <1>1, <1>2, <1>3, <1>6 DEF Orderly

LEMMA RemoveOrderly ==
  ASSUME EngineTypeOK, Changes, NEW id \in Id, active[id] # NONE, prepared[id] # active[id],
         id \in Left, pc \in {"apply", "unstaged"}, pc' # "staged",
         UNCHANGED <<active, prepared, todo>>, Left' = Left \ {id},
         AdapterCleanup(id, active[id].alias, FALSE), Orderly(Attached, Staged)
  PROVE  Orderly(Attached, Staged)'
<1>1. /\ Attached' = Attached \ {active[id]} /\ active[id] \in Attached
      /\ Staged = {} /\ Staged' = {}
  BY Removing
<1>2. PICK S \in SUBSET Definition : S = Attached
  BY AttachedFacts
<1>3. PICK old \in S : old = active[id] /\ old.id = id
  BY <1>1, <1>2, ValidFacts DEF Changes
<1>4. Cleaning(old.id, old.alias)
  BY <1>3 DEF Cleaning
<1>5. Orderly(S, {})
  BY <1>1, <1>2 DEF Orderly
<1>6. Orderly(S \ {old}, {})'
  BY <1>4, <1>5, OrderlyCleanup
<1> QED
  BY <1>1, <1>2, <1>3, <1>6 DEF Orderly

(* The candidate under its staging name, and without it again.             *)
LEMMA StageOrderly ==
  ASSUME EngineTypeOK, Changes, NEW id \in Id, Due(id), id \in todo, prepared[id] # NONE,
         UNCHANGED <<active, prepared, todo, doomed>>,
         \/ /\ pc = "apply" /\ pc' = "staged"
            /\ AdapterAttach(StageID(id), StageAlias(prepared[id]), prepared[id].db, FALSE)
         \/ /\ pc = "staged" /\ pc' = "unstaged"
            /\ AdapterCleanup(StageID(id), StageAlias(prepared[id]), FALSE),
         Orderly(Attached, Staged)
  PROVE  Orderly(Attached, Staged)'
<1>1. /\ Gone = {} /\ Gone' = {}
      /\ \A i \in Id : Due(i) <=> i = id
      /\ \A i \in Id : Due(i)' <=> Due(i)
  BY DueOnce DEF Gone, Due, Changes
<1>2. Attached' = Attached
  BY <1>1 DEF Attached, Left
<1>3. PICK S \in SUBSET Definition : S = Attached
  BY AttachedFacts
<1>4. PICK new \in Definition : new = prepared[id] /\ new.id = id /\ StageAlias(new) \in Alias \ LiveAlias
  BY ValidFacts DEF Changes
<1>5. PICK alias \in Alias \ LiveAlias : alias = StageAlias(new)
  BY <1>4
<1>6. CASE /\ pc = "apply" /\ pc' = "staged"
           /\ AdapterAttach(StageID(id), StageAlias(prepared[id]), prepared[id].db, FALSE)
  <2>1. Staged = {} /\ Staged' = {alias}
    BY <1>1, <1>4, <1>5, <1>6 DEF Staged
  <2>2. Attaching(StageID(new.id), alias, new.db)
    BY <1>4, <1>5, <1>6 DEF Attaching
  <2>3. Orderly(S, {})
    BY <1>3, <2>1 DEF Orderly
  <2>4. Orderly(S, {alias})'
    BY <2>2, <2>3, OrderlyStaging
  <2> QED
    BY <1>2, <1>3, <2>1, <2>4 DEF Orderly
<1>7. CASE /\ pc = "staged" /\ pc' = "unstaged"
           /\ AdapterCleanup(StageID(id), StageAlias(prepared[id]), FALSE)
  <2>1. Staged = {alias} /\ Staged' = {}
    BY <1>1, <1>4, <1>5, <1>7 DEF Staged
  <2>2. Cleaning(StageID(new.id), alias)
    BY <1>4, <1>5, <1>7 DEF Cleaning
  <2>3. Orderly(S, {alias})
    BY <1>3, <2>1 DEF Orderly
  <2>4. Orderly(S, {})'
    BY <2>2, <2>3, OrderlyStaging
  <2> QED
    BY <1>2, <1>3, <2>1, <2>4 DEF Orderly
<1> QED
  BY <1>6, <1>7

(* The loop, step by step.  Whatever fails leads out of it.                *)
LEMMA LoopProgress ==
  ASSUME EngineTypeOK, Changes, Progress, NEW id \in Id,
         AttachNew(id) \/ Stage(id) \/ Unstage(id) \/ DetachCurrent(id)
         \/ AttachReplacement(id) \/ Reinstate(id) \/ RemoveSource(id)
  PROVE  Progress'
<1> SUFFICES ASSUME pc' \in Underway, before' PROVE Orderly(Attached, Staged)'
  BY DEF Progress, AttachNew, Stage, Unstage, DetachCurrent, AttachReplacement, Reinstate,
     RemoveSource, GoTo, Visited
<1>1. pc \in Underway => Orderly(Attached, Staged)
  BY DEF Progress, AttachNew, Stage, Unstage, DetachCurrent, AttachReplacement, Reinstate,
     RemoveSource, GoTo, Visited
<1>2. todo \subseteq Id /\ doomed \subseteq Id
  BY DEF Changes
<1>3. Due(id) /\ pc \notin {"boot", "idle"} =>
        id \in todo /\ prepared[id] # NONE /\ prepared[id] # active[id]
  BY DEF Changes, Due
<1>4. CASE AttachNew(id)
  <2>1. /\ AdapterAttach(id, prepared[id].alias, prepared[id].db, FALSE)
        /\ pc = "apply" /\ Due(id) /\ active[id] = NONE
        /\ pc' = "apply" /\ todo' = todo \ {id} /\ UNCHANGED <<active, prepared, doomed>>
    BY <1>4 DEF AttachNew, GoTo, Visited, Underway
  <2> QED
    BY <1>1, <1>3, <2>1, VisitOrderly DEF Underway, Due
<1>5. CASE AttachReplacement(id)
  <2>1. /\ AdapterAttach(id, prepared[id].alias, prepared[id].db, FALSE)
        /\ pc = "detached" /\ Due(id)
        /\ pc' = "apply" /\ todo' = todo \ {id} /\ UNCHANGED <<active, prepared, doomed>>
    BY <1>5 DEF AttachReplacement, GoTo, Visited, Underway
  <2> QED
    BY <1>1, <1>3, <2>1, VisitOrderly DEF Underway, Due
<1>6. CASE Stage(id)
  <2>1. /\ AdapterAttach(StageID(id), StageAlias(prepared[id]), prepared[id].db, FALSE)
        /\ pc = "apply" /\ pc' = "staged" /\ Due(id) /\ UNCHANGED <<active, prepared, todo, doomed>>
    BY <1>6 DEF Stage, GoTo, Underway
  <2> QED
    BY <1>1, <1>3, <2>1, StageOrderly DEF Underway, Due
<1>7. CASE Unstage(id)
  <2>1. /\ AdapterCleanup(StageID(id), StageAlias(prepared[id]), FALSE)
        /\ pc = "staged" /\ pc' = "unstaged" /\ Due(id) /\ UNCHANGED <<active, prepared, todo, doomed>>
    BY <1>7 DEF Unstage, GoTo, Underway
  <2> QED
    BY <1>1, <1>3, <2>1, StageOrderly DEF Underway, Due
<1>8. CASE DetachCurrent(id)
  <2>1. /\ AdapterCleanup(id, active[id].alias, FALSE)
        /\ pc = "unstaged" /\ pc' = "detached" /\ Due(id) /\ UNCHANGED <<active, prepared, todo, doomed>>
    BY <1>8 DEF DetachCurrent, GoTo, Underway
  <2>2. active[id] # NONE
    BY <2>1 DEF Changes, Replacing
  <2>3. Gone = {} /\ Gone' = {id}
    BY <1>2, <2>1, DueOnce DEF Gone, Due
  <2>4. id \in Left /\ Left' = Left \ {id}
    BY <2>1, <2>3 DEF Left, Due
  <2> QED
    BY <1>1, <1>3, <2>1, <2>2, <2>4, RemoveOrderly DEF Underway, Due
<1>9. CASE RemoveSource(id)
  <2>1. /\ AdapterCleanup(id, active[id].alias, FALSE)
        /\ pc = "apply" /\ pc' = "apply" /\ todo = {} /\ id \in doomed
        /\ doomed' = doomed \ {id} /\ UNCHANGED <<active, prepared, todo>>
    BY <1>9 DEF RemoveSource, GoTo, Underway
  <2>2. active[id] # NONE /\ prepared[id] = NONE
    BY <2>1 DEF Changes
  <2>3. Gone = {} /\ Gone' = {}
    BY <2>1 DEF Gone
  <2>4. id \in Left /\ Left' = Left \ {id}
    BY <2>1, <2>3 DEF Left
  <2> QED
    BY <1>1, <2>1, <2>2, <2>4, RemoveOrderly DEF Underway
<1>10. CASE Reinstate(id)
  BY <1>10 DEF Reinstate, GoTo, Underway
<1> QED
  BY <1>4, <1>5, <1>6, <1>7, <1>8, <1>9, <1>10

(* A call that begins: all of the active set is there, and nothing else.   *)
LEMMA BeginProgress ==
  ASSUME Changes, Valid(active)', BeginReload PROVE Progress'
<1> SUFFICES ASSUME before' PROVE Orderly(Attached, Staged)'
  BY DEF Progress, BeginReload
<1>1. /\ before' = Exact /\ pc' = "apply"
      /\ prepared' = Candidate(config)
      /\ todo' = {i \in Id : prepared'[i] \notin {NONE, active[i]}}
      /\ doomed' = {i \in Id : active[i] # NONE /\ prepared'[i] = NONE}
      /\ UNCHANGED <<engineVars, active>>
  BY DEF BeginReload
<1>2. Exact
  BY <1>1, Zenon
<1>3. Orderly(Actives, {})
  BY <1>2, OrderlyIsExact DEF Changes
<1>4. Gone' = {} /\ Staged' = {}
  BY <1>1 DEF Gone, Staged
<1>5. Attached' = Actives
  <2>1. Left' = todo' \cup doomed'
    BY <1>4 DEF Left
  <2>2. Attached' = ({prepared'[i] : i \in Id \ todo'} \cup {active[i] : i \in Left'}) \ {NONE}
    BY <1>1 DEF Attached
  <2>3. \A i \in Id : /\ i \notin todo' => prepared'[i] \in {NONE, active[i]}
                      /\ i \notin Left' /\ active[i] # NONE => i \notin todo' /\ prepared'[i] = active[i]
    BY <1>1, <2>1
  <2>4. Left' \subseteq Id
    BY <1>1, <2>1
  <2> QED
    BY <2>2, <2>3, <2>4 DEF Actives
<1>6. Orderly(Actives, {})'
  <2>1. Actives' = Actives
    BY <1>1 DEF Actives
  <2> QED
    BY <1>1, <1>3, <2>1 DEF Orderly, Serving, engineVars
<1>7. Actives' = Actives
  BY <1>1 DEF Actives
<1> QED
  BY <1>4, <1>5, <1>6, <1>7 DEF Orderly

LEMMA CommitKeeps ==
  ASSUME Changes, Valid(active)', Progress, Commit PROVE CommitIsExact'
<1> SUFFICES ASSUME before' PROVE active' = prepared' /\ Exact'
  BY DEF CommitIsExact
<1>1. /\ pc = "apply" /\ todo = {} /\ doomed = {} /\ active' = prepared
      /\ UNCHANGED <<engineVars, prepared, before>>
  BY DEF Commit
<1>2. Gone = {} /\ Staged = {}
  BY <1>1 DEF Gone, Staged
<1>3. Attached = Actives'
  BY <1>1, <1>2 DEF Attached, Left, Actives
<1>4. Orderly(Attached, Staged)
  BY <1>1 DEF Progress, Underway
<1>5. Orderly(Actives, {})'
  BY <1>1, <1>2, <1>3, <1>4 DEF Orderly, Serving, engineVars
<1>6. Exact'
  BY <1>5 DEF Exact, Orderly
<1> QED
  BY <1>1, <1>6

(* Nothing but the environment moves.                                      *)
LEMMA IdleKeeps ==
  ASSUME UNCHANGED <<engineVars, active, prepared, pc, todo, doomed, before, result>>
  PROVE  (Progress => Progress') /\ (CommitIsExact => CommitIsExact')
<1>1. Attached' = Attached /\ Staged' = Staged /\ Actives' = Actives
  <2>1. \A i \in Id : Due(i)' <=> Due(i)
    BY DEF Due
  <2> QED
    BY <2>1 DEF Attached, Left, Gone, Staged, Actives
<1>2. Progress => Progress'
  BY <1>1 DEF Progress, Orderly, Serving, engineVars
<1>3. Exact => Exact'
  BY <1>1 DEF Exact, Serving, engineVars
<1> QED
  BY <1>2, <1>3 DEF CommitIsExact

LEMMA CommitStep == CommitInv /\ [Next]_vars => CommitInv'
<1> SUFFICES ASSUME CommitInv, [Next]_vars PROVE Progress' /\ CommitIsExact'
  BY ChangesStep DEF CommitInv
<1>1. EngineTypeOK /\ Changes /\ Progress /\ CommitIsExact /\ Valid(active)'
  BY ChangesStep DEF CommitInv, ChangeInv, EngineInv, Changes
<1>2. CASE Commit
  <2>1. CommitIsExact'
    BY <1>1, <1>2, CommitKeeps
  <2> QED
    BY <1>2, <2>1 DEF Commit, Progress, Underway
<1>3. CASE BeginReload
  <2>1. Progress'
    BY <1>1, <1>3, BeginProgress
  <2> QED
    BY <1>3, <2>1 DEF BeginReload, CommitIsExact
<1>4. CASE Booted \/ Abort \/ PrepareFails \/ Undo
  BY <1>1, <1>4 DEF Booted, Abort, PrepareFails, Undo, Progress, CommitIsExact, Underway
<1>5. CASE Edit \/ (\E db \in Database : GoDown(db) \/ ComeBack(db)) \/ UNCHANGED vars
  BY <1>1, <1>5, IdleKeeps DEF Edit, GoDown, ComeBack, managerVars, vars
<1>6. ASSUME NEW id \in Id, BootAttach(id) \/ BootSkip(id) PROVE Progress' /\ CommitIsExact'
  BY <1>1, <1>6 DEF BootAttach, BootSkip, Progress, CommitIsExact, Underway
<1>7. ASSUME NEW id \in Id, AttachNew(id) \/ Stage(id) \/ Unstage(id) \/ DetachCurrent(id)
                            \/ AttachReplacement(id) \/ Reinstate(id) \/ RemoveSource(id)
      PROVE  Progress' /\ CommitIsExact'
  <2>1. Progress'
    BY <1>1, <1>7, LoopProgress
  <2>2. pc' # "idle"
    BY <1>7 DEF AttachNew, Stage, Unstage, DetachCurrent, AttachReplacement, Reinstate,
       RemoveSource, GoTo, Visited
  <2> QED
    BY <2>1, <2>2 DEF CommitIsExact
<1> QED
  BY <1>2, <1>3, <1>4, <1>5, <1>6, <1>7 DEF CommitInv, Next, ManagerStep, Request, Environment

(* A reload that began with the engine in order and returned without an    *)
(* error leaves exactly the prepared configuration attached, whatever      *)
(* failed and expired on the way (manager.go, apply).                      *)
THEOREM CommitsAreExact == Spec => []CommitIsExact
<1>1. Init => CommitInv
  BY ChangesInit DEF Init, CommitInv, Progress, CommitIsExact, Underway
<1>2. CommitInv => CommitIsExact
  BY DEF CommitInv
<1> QED
  BY <1>1, <1>2, CommitStep, PTL DEF Spec
-----------------------------------------------------------------------------
(* Every catalog is that of a definition in S, or has a name in E, or is a *)
(* staging catalog that a passed deadline has left behind.                 *)
Accounted(S, E) ==
  \A a \in Alias : catalogs[a] # NONE =>
    \/ \E d \in S : d.alias = a /\ d.db = catalogs[a]
    \/ a \in E
    \/ overran /\ a \notin LiveAlias

(* The definitions that account for a catalog: of the active set all, but  *)
(* in the loop only those it has not taken down, and the new ones that the *)
(* undo actions would detach.                                              *)
Kept == {active[i] : i \in {j \in Id : pc \in Underway => j \in Left \/ active[j] = prepared[j]}} \ {NONE}
Fresh == {d \in Definition : \E k \in 1..Len(undo) : undo[k] = <<"detach", d>>}
Accountable == Kept \cup Fresh

AccountInv == ChangeInv /\ running /\ Accounted(Accountable, Staged)

(* The engine goes on running; a call changes one catalog at most.         *)
LEMMA CallsRun ==
  ASSUME NEW id, NEW alias, NEW db, NEW bg,
         \/ AdapterAttach(id, alias, db, bg) \/ AdapterAttachFails(id, alias, db, bg)
         \/ AdapterCleanup(id, alias, bg) \/ AdapterCleanupFails(alias, bg)
  PROVE  (running => running') /\ (overran => overran')
<1>1. CASE AdapterAttach(id, alias, db, bg)
  BY <1>1 DEF AdapterAttach, Attach, AttachODBC, deadline
<1>2. CASE AdapterAttachFails(id, alias, db, bg)
  <2>1. overran => overran'
    BY <1>2 DEF AdapterAttachFails
  <2>2. running => running'
    BY <1>2, FailedAttach DEF AttachODBCUndescribed, AttachUnprepared, AttachRefused,
       AttachUnregistered, AttachUndescribed, AttachUnverified, ForgetSource, engineVars
  <2> QED
    BY <2>1, <2>2
<1>3. CASE AdapterCleanup(id, alias, bg)
  BY <1>3 DEF AdapterCleanup, Detach, DetachCutShort, ForgetSource, deadline
<1>4. CASE AdapterCleanupFails(alias, bg)
  <2>1. UNCHANGED engineVars
    BY <1>4 DEF AdapterCleanupFails, DetachRefused
  <2>2. overran => overran'
    BY <1>4, Zenon DEF AdapterCleanupFails
  <2> QED
    BY <2>1, <2>2, Zenon DEF engineVars
<1> QED
  BY <1>1, <1>2, <1>3, <1>4

(* A failed attach leaves the catalogs as they are, and so does a cleanup  *)
(* that fails: the catalog is not there, or a deadline has passed.         *)
LEMMA FailedCalls ==
  ASSUME NEW id, NEW alias, NEW db, NEW bg
  PROVE  /\ AdapterAttachFails(id, alias, db, bg) => catalogs' = catalogs
         /\ AdapterCleanupFails(alias, bg) => catalogs' = catalogs
         /\ AdapterCleanupFails(alias, bg) /\ running => catalogs[alias] = NONE \/ overran'
         /\ AdapterCleanupFails(alias, TRUE) /\ running => catalogs[alias] = NONE
<1>1. AdapterAttachFails(id, alias, db, bg) => catalogs' = catalogs
  BY FailedAttach DEF AttachODBCUndescribed, AttachUnprepared, AttachRefused,
     AttachUnregistered, AttachUndescribed, AttachUnverified, engineVars
<1>2. AdapterCleanupFails(alias, bg) => catalogs' = catalogs
  BY DEF AdapterCleanupFails, DetachRefused, engineVars
<1>3. AdapterCleanupFails(alias, bg) /\ running => catalogs[alias] = NONE \/ overran'
  BY DEF AdapterCleanupFails, DetachRefused
<1>4. AdapterCleanupFails(alias, TRUE) /\ running => catalogs[alias] = NONE
  BY DEF AdapterCleanupFails, DetachRefused
<1> QED
  BY <1>1, <1>2, <1>3, <1>4

LEMMA AccountAttach ==
  ASSUME EngineTypeOK, NEW S, NEW E, NEW T, NEW F, NEW id \in SourceID, NEW alias \in Alias, NEW db \in Database,
         Accounted(S, E), AdapterAttach(id, alias, db, TRUE) \/ AdapterAttach(id, alias, db, FALSE),
         S \subseteq T, E \subseteq F, alias \in F \/ \E d \in T : d.alias = alias /\ d.db = db
  PROVE  Accounted(T, F)'
<1>1. Attaching(id, alias, db) /\ (overran => overran')
  BY CallsRun DEF Attaching
<1>2. catalogs' = [catalogs EXCEPT ![alias] = db]
  BY <1>1, Attaches
<1> QED
  BY <1>1, <1>2 DEF Accounted, EngineTypeOK

LEMMA AccountBack ==
  ASSUME EngineTypeOK, NEW S, NEW T, NEW id \in SourceID, NEW new \in T, new.alias \in Alias, new.db \in Database,
         Accounted(S, {}), AdapterAttach(id, new.alias, new.db, TRUE), S \subseteq T
  PROVE  Accounted(T, {})'
<1>1. {} \subseteq {} /\ \E d \in T : d.alias = new.alias /\ d.db = new.db
  OBVIOUS
<1> QED
  BY <1>1, AccountAttach

LEMMA AccountCleanup ==
  ASSUME EngineTypeOK, NEW S, NEW E, NEW T, NEW F, NEW id \in SourceID, NEW alias \in Alias,
         Accounted(S, E), AdapterCleanup(id, alias, TRUE) \/ AdapterCleanup(id, alias, FALSE),
         \A d \in S : d.alias # alias => d \in T, E \ {alias} \subseteq F
  PROVE  Accounted(T, F)'
<1>1. Cleaning(id, alias) /\ (overran => overran')
  BY CallsRun DEF Cleaning
<1>2. catalogs' = [catalogs EXCEPT ![alias] = NONE]
  BY <1>1, Cleans
<1> QED
  BY <1>1, <1>2 DEF Accounted, EngineTypeOK

LEMMA AccountSame ==
  ASSUME NEW S, NEW E, NEW T, NEW F, NEW alias, Accounted(S, E), catalogs' = catalogs,
         overran => overran', catalogs[alias] = NONE,
         \A d \in S : d.alias # alias => d \in T, E \ {alias} \subseteq F
  PROVE  Accounted(T, F)'
  BY DEF Accounted

LEMMA AccountMore ==
  ASSUME NEW S, NEW E, NEW T, NEW F, Accounted(S, E), catalogs' = catalogs,
         overran => overran', S \subseteq T, E \subseteq F
  PROVE  Accounted(T, F)'
  BY DEF Accounted

LEMMA KeptFacts ==
  ASSUME Changes
  PROVE  /\ Actives \subseteq Definition
         /\ Kept \subseteq Actives
         /\ pc \notin Underway => Kept = Actives
  BY ValidFacts DEF Changes, Actives, Kept

LEMMA FreshGrows ==
  ASSUME Changes, NEW actions \in Seq(Entries), undo' = undo \o actions
  PROVE  /\ Fresh \subseteq Fresh'
         /\ \A k \in 1..Len(actions), d \in Definition : actions[k] = <<"detach", d>> => d \in Fresh'
<1>1. undo \in Seq(Entries) /\ Len(undo) \in Nat /\ Len(actions) \in Nat
  BY LenProperties DEF Changes
<1>2. /\ Len(undo') = Len(undo) + Len(actions)
      /\ \A k \in 1..(Len(undo) + Len(actions)) :
           undo'[k] = IF k <= Len(undo) THEN undo[k] ELSE actions[k - Len(undo)]
  BY <1>1, ConcatProperties
<1>3. ASSUME NEW d \in Fresh PROVE d \in Fresh'
  <2>1. PICK k \in 1..Len(undo) : undo[k] = <<"detach", d>>
    BY DEF Fresh
  <2>2. k \in 1..Len(undo') /\ undo'[k] = <<"detach", d>>
    BY <1>1, <1>2, <2>1
  <2> QED
    BY <2>2 DEF Fresh
<1>4. ASSUME NEW k \in 1..Len(actions), NEW d \in Definition, actions[k] = <<"detach", d>>
      PROVE  d \in Fresh'
  <2>1. Len(undo) + k \in 1..Len(undo') /\ undo'[Len(undo) + k] = <<"detach", d>>
    BY <1>1, <1>2, <1>4
  <2> QED
    BY <2>1 DEF Fresh
<1> QED
  BY <1>3, <1>4

(* The entries of a list that is shortened.                                *)
LEMMA Shorter ==
  ASSUME Changes, undo # <<>>, undo' = SubSeq(undo, 1, Len(undo) - 1)
  PROVE  /\ Len(undo) \in Nat \ {0} /\ Len(undo') = Len(undo) - 1
         /\ \A k \in 1..(Len(undo) - 1) : undo'[k] = undo[k]
<1>1. undo \in Seq(Entries) /\ Len(undo) \in Nat \ {0}
  BY EmptySeq DEF Changes
<1>2. \A k \in 1..(Len(undo) - 1) : undo[k] \in Entries
  BY <1>1, ElementOfSeq
<1>3. /\ Len(undo') = IF 1 <= Len(undo) - 1 THEN (Len(undo) - 1) - 1 + 1 ELSE 0
      /\ \A k \in 1..((Len(undo) - 1) - 1 + 1) : undo'[k] = undo[1 + k - 1]
  BY <1>1, <1>2, SubSeqProperties
<1>4. ASSUME NEW k \in 1..(Len(undo) - 1) PROVE undo'[k] = undo[k]
  <2>1. k \in 1..((Len(undo) - 1) - 1 + 1) /\ 1 + k - 1 = k
    BY <1>1
  <2> QED
    BY <1>3, <2>1
<1>5. Len(undo') = Len(undo) - 1
  <2>1. PICK n \in Nat \ {0} : n = Len(undo)
    BY <1>1
  <2>2. Len(undo') = IF 1 <= n - 1 THEN (n - 1) - 1 + 1 ELSE 0
    BY <1>3, <2>1
  <2> QED
    BY <2>1, <2>2
<1> QED
  BY <1>1, <1>4, <1>5

LEMMA FreshShrinks ==
  ASSUME Changes, undo # <<>>, undo' = SubSeq(undo, 1, Len(undo) - 1)
  PROVE  \A d \in Fresh : d \in Fresh' \/ undo[Len(undo)] = <<"detach", d>>
<1>1. PICK n \in Nat \ {0} : n = Len(undo) /\ Len(undo') = n - 1 /\ \A k \in 1..(n - 1) : undo'[k] = undo[k]
  BY Shorter
<1> QED
  BY <1>1 DEF Fresh

LEMMA FreshSame == UNCHANGED undo => Fresh' = Fresh
  BY DEF Fresh

(* The end of the call in an error: everything accounts again.             *)
LEMMA AccountError ==
  ASSUME Changes, NEW place \in {"rollback", "reinstate"}, GoTo(place), pc \notin {"boot", "idle"}
  PROVE  /\ Accountable \subseteq Accountable' /\ Actives \subseteq Accountable'
         /\ Staged' = {} /\ Actives' = Actives
<1>1. Fresh' = Fresh /\ Actives' = Actives /\ Kept' = Actives'
  BY FreshSame DEF GoTo, Actives, Kept, Underway
<1> QED
  BY <1>1, KeptFacts DEF Accountable, GoTo, Staged

LEMMA LoopAccounts ==
  ASSUME EngineTypeOK, Changes, running, Accounted(Accountable, Staged), NEW id \in Id,
         AttachNew(id) \/ AttachReplacement(id)
  PROVE  running' /\ Accounted(Accountable, Staged)'
<1> DEFINE new == prepared[id]
<1>1. /\ Due(id) /\ id \in todo /\ new # NONE /\ new # active[id] /\ new \in Definition /\ new.id = id
      /\ id \in SourceID /\ new.alias \in Alias /\ new.db \in Database /\ Staged = {}
      /\ pc \in {"apply", "detached"} /\ (pc = "apply" => active[id] = NONE)
  <2>1. pc \in {"apply", "detached"} /\ Due(id) /\ id \in todo /\ (pc = "apply" => active[id] = NONE)
    BY DEF AttachNew, AttachReplacement, Due
  <2>2. new # NONE /\ new # active[id] /\ new \in Definition /\ new.id = id
    BY <2>1, ValidFacts DEF Changes
  <2>3. id \in SourceID /\ new.alias \in Alias /\ new.db \in Database
    BY <2>2, DefinitionFacts
  <2> QED
    BY <2>1, <2>2, <2>3 DEF Staged
<1>2. CASE AdapterAttachFails(id, new.alias, new.db, FALSE) /\ (GoTo("rollback") \/ GoTo("reinstate"))
  <2>1. catalogs' = catalogs /\ running' /\ (overran => overran')
    BY <1>2, FailedCalls, CallsRun
  <2>2. Accountable \subseteq Accountable' /\ Staged' = {}
    BY <1>1, <1>2, AccountError
  <2> QED
    BY <1>1, <2>1, <2>2, AccountMore DEF Accounted
<1>3. CASE /\ AdapterAttach(id, new.alias, new.db, FALSE)
           /\ \E actions \in Seq(Entries) : /\ Visited(id, actions)
                                            /\ \E k \in 1..Len(actions) : actions[k] = <<"detach", new>>
  <2>1. PICK actions \in Seq(Entries) :
          Visited(id, actions) /\ \E k \in 1..Len(actions) : actions[k] = <<"detach", new>>
    BY <1>3
  <2>2. Fresh \subseteq Fresh' /\ new \in Fresh'
    BY <1>1, <2>1, FreshGrows DEF Visited
  <2>3. Kept \subseteq Kept'
    <3>1. \A i \in Id : Due(i) => i = id
      BY <1>1, DueOnce DEF Changes
    <3>2. \A i \in Id : i \in Left => i \in Left' \/ active[i] = NONE
      BY <1>1, <2>1, <3>1 DEF Left, Gone, Visited
    <3> QED
      BY <1>1, <2>1, <3>2 DEF Kept, Visited, Underway
  <2>4. Staged' = {}
    BY <2>1 DEF Visited, Staged
  <2>5. running'
    BY <1>3, CallsRun
  <2>6. PICK S, T : S = Accountable /\ T = Accountable' /\ S \subseteq T /\ new \in T
    BY <2>2, <2>3 DEF Accountable
  <2>7. Accounted(S, {})
    BY <1>1, <2>6 DEF Accounted
  <2>8. Accounted(T, {})'
    <3>1. AdapterAttach(id, new.alias, new.db, FALSE)
      BY <1>3
    <3>2. \E d \in T : d.alias = new.alias /\ d.db = new.db
      BY <2>6
    <3> HIDE DEF new
    <3> QED
      BY <1>1, <2>6, <2>7, <3>1, <3>2, AccountAttach
  <2> QED
    BY <2>4, <2>5, <2>6, <2>8 DEF Accounted
<1>4. <<"detach", new>> \in Entries /\ (active[id] # NONE => <<"attach", active[id]>> \in Entries)
  BY <1>1, ValidFacts, Marks DEF Changes
<1>5. CASE AttachNew(id)
  <2>1. /\ <<<<"detach", new>>>> \in Seq(Entries)
        /\ \E k \in 1..Len(<<<<"detach", new>>>>) : <<<<"detach", new>>>>[k] = <<"detach", new>>
    BY <1>4
  <2> QED
    BY <1>2, <1>3, <1>5, <2>1 DEF AttachNew
<1>6. CASE AttachReplacement(id)
  <2>1. active[id] # NONE
    BY <1>1, <1>6 DEF AttachReplacement, Changes, Replacing
  <2>2. <<<<"attach", active[id]>>, <<"detach", new>>>> \in Seq(Entries)
    BY <1>4, <2>1
  <2>3. \E k \in 1..Len(<<<<"attach", active[id]>>, <<"detach", new>>>>) :
          <<<<"attach", active[id]>>, <<"detach", new>>>>[k] = <<"detach", new>>
    <3>1. 2 \in 1..Len(<<<<"attach", active[id]>>, <<"detach", new>>>>)
      OBVIOUS
    <3> QED
      BY <3>1
  <2> QED
    BY <1>2, <1>3, <1>6, <2>2, <2>3 DEF AttachReplacement
<1> QED
  BY <1>5, <1>6

LEMMA StagingAccounts ==
  ASSUME EngineTypeOK, Changes, running, Accounted(Accountable, Staged), NEW id \in Id,
         Stage(id) \/ Unstage(id)
  PROVE  running' /\ Accounted(Accountable, Staged)'
<1> DEFINE new == prepared[id]
<1>1. Due(id) /\ id \in todo /\ pc \in {"apply", "staged"}
  BY DEF Stage, Unstage, Due
<1>2. new # NONE
  BY <1>1 DEF Changes
<1>3. PICK alias \in Alias \ LiveAlias : alias = StageAlias(new)
  BY <1>2, ValidFacts DEF Changes
<1>4. new \in Definition /\ new.id = id /\ new.db \in Database /\ StageID(id) \in SourceID
  BY <1>2, ValidFacts, DefinitionFacts DEF Changes
<1>5. \A i \in Id : Due(i) <=> i = id
  BY <1>1, DueOnce DEF Changes
<1>6. (pc = "apply" => Staged = {}) /\ (pc = "staged" => Staged = {alias})
  BY <1>3, <1>5 DEF Staged
<1> HIDE DEF new
<1>7. PICK S : S = Accountable
  OBVIOUS
<1>8. ASSUME GoTo("staged") \/ GoTo("unstaged")
      PROVE  Accountable' = S
  <2>1. /\ pc' \in {"staged", "unstaged"} /\ UNCHANGED <<active, prepared, todo, doomed, undo>>
    BY <1>8 DEF GoTo
  <2>2. Gone = {} /\ Gone' = {}
    BY <1>1, <2>1 DEF Gone
  <2>3. Left' = Left
    BY <2>1, <2>2 DEF Left
  <2>4. Kept' = Kept
    BY <1>1, <2>1, <2>3 DEF Kept, Underway
  <2> QED
    BY <1>7, <2>1, <2>4, FreshSame DEF Accountable
<1>9. CASE AdapterAttach(StageID(id), alias, new.db, FALSE) /\ GoTo("staged") /\ pc = "apply"
  <2>1. Staged' = {alias}
    <3>1. \A i \in Id : Due(i)' <=> Due(i)
      BY <1>9 DEF GoTo, Due
    <3> QED
      BY <1>3, <1>5, <1>9, <3>1 DEF GoTo, Staged, new
  <2>2. Accounted(S, {})
    BY <1>6, <1>7, <1>9 DEF Accounted
  <2>3. Accounted(S, {alias})'
    <3>1. AdapterAttach(StageID(id), alias, new.db, FALSE) /\ alias \in {alias}
      BY <1>9
    <3>2. {} \subseteq {alias} /\ S \subseteq S
      OBVIOUS
    <3> QED
      BY <1>3, <1>4, <2>2, <3>1, <3>2, AccountAttach
  <2> QED
    BY <1>8, <1>9, <2>1, <2>3, CallsRun DEF Accounted
<1>10. CASE AdapterCleanup(StageID(id), alias, FALSE) /\ GoTo("unstaged") /\ pc = "staged"
  <2>1. Staged' = {}
    BY <1>10 DEF GoTo, Staged
  <2>2. Accounted(S, {alias})
    BY <1>6, <1>7, <1>10 DEF Accounted
  <2>3. Accounted(S, {})'
    BY <1>3, <1>4, <1>10, <2>2, AccountCleanup
  <2> QED
    BY <1>8, <1>10, <2>1, <2>3, CallsRun DEF Accounted
<1>11. CASE AdapterAttachFails(StageID(id), alias, new.db, FALSE) /\ GoTo("rollback") /\ pc = "apply"
  <2>1. catalogs' = catalogs /\ running' /\ (overran => overran')
    BY <1>11, FailedCalls, CallsRun
  <2>2. S \subseteq Accountable' /\ Staged' = {}
    BY <1>7, <1>11, AccountError
  <2>3. Accounted(S, {})
    BY <1>6, <1>7, <1>11 DEF Accounted
  <2> QED
    BY <2>1, <2>2, <2>3 DEF Accounted
<1>12. CASE AdapterCleanupFails(alias, FALSE) /\ GoTo("rollback") /\ pc = "staged"
  <2>1. catalogs' = catalogs /\ running' /\ (overran => overran') /\ (catalogs[alias] = NONE \/ overran')
    BY <1>12, FailedCalls, CallsRun
  <2>2. S \subseteq Accountable' /\ Staged' = {}
    BY <1>7, <1>12, AccountError
  <2>3. Accounted(S, {alias})
    BY <1>6, <1>7, <1>12 DEF Accounted
  <2> QED
    BY <1>3, <2>1, <2>2, <2>3 DEF Accounted
<1> QED
  BY <1>3, <1>9, <1>10, <1>11, <1>12 DEF Stage, Unstage, new

(* What is taken down accounts for nothing any more.                       *)
LEMMA RemovalAccounts ==
  ASSUME EngineTypeOK, Changes, running, Accounted(Accountable, Staged), NEW id \in Id,
         DetachCurrent(id) \/ RemoveSource(id)
  PROVE  running' /\ Accounted(Accountable, Staged)'
<1> DEFINE old == active[id]
<1>1. /\ pc \in {"unstaged", "apply"} /\ (pc = "unstaged" => Due(id) /\ DetachCurrent(id))
      /\ (pc = "apply" => todo = {} /\ id \in doomed /\ RemoveSource(id))
  BY DEF DetachCurrent, RemoveSource
<1>2. old # NONE
  BY <1>1 DEF Changes, Replacing
<1>3. id \in SourceID /\ old.alias \in Alias /\ old \in Definition /\ old.id = id
  BY <1>2, ValidFacts, DefinitionFacts DEF Changes
<1>4. Staged = {}
  BY <1>1 DEF Staged
<1>5. PICK S : S = Accountable
  OBVIOUS
<1>6. Accounted(S, {})
  BY <1>4, <1>5 DEF Accounted
<1>7. CASE AdapterCleanupFails(old.alias, FALSE) /\ GoTo("rollback")
  <2>1. catalogs' = catalogs /\ running' /\ (overran => overran')
    BY <1>7, FailedCalls, CallsRun
  <2>2. S \subseteq Accountable' /\ Staged' = {}
    BY <1>1, <1>5, <1>7, AccountError
  <2> QED
    BY <1>6, <2>1, <2>2 DEF Accounted
<1>8. CASE /\ AdapterCleanup(id, old.alias, FALSE)
           /\ pc' \in {"detached", "apply"} /\ UNCHANGED <<active, prepared, todo>>
           /\ (pc = "unstaged" => pc' = "detached" /\ UNCHANGED <<doomed, undo>>)
           /\ (pc = "apply" => pc' = "apply" /\ doomed' = doomed \ {id}
                               /\ undo' = Append(undo, <<"attach", old>>))
  <2>1. \A i \in Id : i \in Left => i \in Left' \/ i = id
    BY <1>1, <1>8, DueOnce DEF Left, Gone, Due, Changes
  <2>2. \A d \in Kept : d.alias # old.alias => d \in Kept'
    BY <1>1, <1>8, <2>1 DEF Kept, Underway
  <2>3. Fresh \subseteq Fresh'
    <3>1. CASE UNCHANGED undo
      BY <3>1, FreshSame
    <3>2. CASE undo' = Append(undo, <<"attach", old>>)
      <4>1. /\ Len(undo) \in Nat /\ Len(undo') = Len(undo) + 1
            /\ \A k \in 1..Len(undo) : undo'[k] = undo[k]
        BY <3>2, AppendProperties DEF Changes
      <4> QED
        BY <4>1 DEF Fresh
    <3> QED
      BY <1>1, <1>8, <3>1, <3>2
  <2>4. Staged' = {}
    BY <1>8 DEF Staged
  <2>5. PICK T : T = Accountable' /\ \A d \in S : d.alias # old.alias => d \in T
    BY <1>5, <2>2, <2>3 DEF Accountable
  <2>6. AdapterCleanup(id, old.alias, FALSE)
    BY <1>8
  <2>7. Accounted(T, {})'
    <3> HIDE DEF old
    <3> QED
      BY <1>3, <1>6, <2>5, <2>6, AccountCleanup
  <2> QED
    BY <2>4, <2>5, <2>6, <2>7, CallsRun DEF Accounted
<1> QED
  BY <1>1, <1>7, <1>8 DEF DetachCurrent, RemoveSource, GoTo

LEMMA ReinstateAccounts ==
  ASSUME EngineTypeOK, Changes, running, Accounted(Accountable, Staged), NEW id \in Id, Reinstate(id)
  PROVE  running' /\ Accounted(Accountable, Staged)'
<1>1. PICK old \in Actives : old = active[id]
  BY DEF Changes, Replacing, Reinstate, Actives
<1>2. id \in SourceID /\ old.alias \in Alias /\ old.db \in Database
  BY <1>1, ValidFacts, DefinitionFacts DEF Changes, Actives
<1>3. PICK S, T : S = Accountable /\ T = Accountable'
  OBVIOUS
<1>4. S \subseteq T /\ old \in T /\ Staged' = {} /\ Staged = {}
  BY <1>1, <1>3, AccountError DEF Reinstate, Staged
<1>5. Accounted(S, {})
  BY <1>3, <1>4 DEF Accounted
<1>6. AdapterAttach(id, old.alias, old.db, TRUE) \/ AdapterAttachFails(id, old.alias, old.db, TRUE)
  BY <1>1 DEF Reinstate
<1>7. running' /\ (overran => overran')
  BY <1>6, CallsRun
<1>8. CASE AdapterAttach(id, old.alias, old.db, TRUE)
  <2>1. Accounted(T, {})'
    BY <1>2, <1>4, <1>5, <1>8, AccountBack
  <2> QED
    BY <1>3, <1>4, <1>7, <2>1 DEF Accounted
<1>9. CASE AdapterAttachFails(id, old.alias, old.db, TRUE)
  <2>1. catalogs' = catalogs
    BY <1>9, FailedCalls
  <2> QED
    BY <1>3, <1>4, <1>5, <1>7, <2>1 DEF Accounted
<1> QED
  BY <1>6, <1>8, <1>9

LEMMA UndoAccounts ==
  ASSUME EngineTypeOK, Changes, running, Accounted(Accountable, Staged), Undo
  PROVE  running' /\ Accounted(Accountable, Staged)'
<1>1. PICK e \in Entries : e = undo[Len(undo)] /\ UndoOne(e)
  BY LastEntry DEF Undo
<1>2. PICK d \in Definition : d = e[2] /\ e[1] \in {"attach", "detach"} /\ e = <<e[1], d>>
  BY <1>1 DEF Entries
<1>3. d.id \in SourceID /\ d.alias \in Alias /\ d.db \in Database
  BY DefinitionFacts
<1>4. Kept' = Kept /\ Kept = Actives /\ Staged = {} /\ Staged' = {}
  BY KeptFacts DEF Undo, Kept, Staged, Underway
<1>5. \A c \in Fresh : c \in Fresh' \/ (c = d /\ e[1] = "detach")
  <2>1. \A c \in Fresh : c \in Fresh' \/ e = <<"detach", c>>
    BY <1>1, FreshShrinks DEF Undo
  <2> QED
    BY <1>2, <2>1
<1>6. e[1] = "attach" => d \in Kept
  BY <1>1, <1>2, <1>4, DefinitionFacts DEF Entries, Actives
<1>7. PICK S, T : S = Accountable /\ T = Accountable'
  OBVIOUS
<1>8. Accounted(S, {})
  BY <1>4, <1>7 DEF Accounted
<1>9. CASE e[1] = "attach"
  <2>1. S \subseteq T /\ d \in T
    BY <1>4, <1>5, <1>6, <1>7, <1>9 DEF Accountable
  <2>2. AdapterAttach(d.id, d.alias, d.db, TRUE) \/ AdapterAttachFails(d.id, d.alias, d.db, TRUE)
    BY <1>1, <1>2, <1>9 DEF UndoOne
  <2>3. running' /\ (overran => overran')
    BY <2>2, CallsRun
  <2>4. CASE AdapterAttach(d.id, d.alias, d.db, TRUE)
    <3>1. Accounted(T, {})'
      BY <1>3, <1>8, <2>1, <2>4, AccountBack
    <3> QED
      BY <1>4, <1>7, <2>3, <3>1 DEF Accounted
  <2>5. CASE AdapterAttachFails(d.id, d.alias, d.db, TRUE)
    <3>1. catalogs' = catalogs
      BY <2>5, FailedCalls
    <3> QED
      BY <1>4, <1>7, <1>8, <2>1, <2>3, <3>1 DEF Accounted
  <2> QED
    BY <2>2, <2>4, <2>5
<1>10. CASE e[1] = "detach"
  <2>1. \A c \in S : c.alias # d.alias => c \in T
    BY <1>4, <1>5, <1>7 DEF Accountable
  <2>2. AdapterCleanup(d.id, d.alias, TRUE) \/ AdapterCleanupFails(d.alias, TRUE)
    BY <1>1, <1>2, <1>10 DEF UndoOne
  <2>3. running' /\ (overran => overran')
    BY <2>2, CallsRun
  <2>4. CASE AdapterCleanup(d.id, d.alias, TRUE)
    <3>1. Accounted(T, {})'
      BY <1>3, <1>8, <2>1, <2>4, AccountCleanup
    <3> QED
      BY <1>4, <1>7, <2>3, <3>1 DEF Accounted
  <2>5. CASE AdapterCleanupFails(d.alias, TRUE)
    <3>1. catalogs' = catalogs /\ catalogs[d.alias] = NONE
      BY <2>5, FailedCalls
    <3> QED
      BY <1>4, <1>7, <1>8, <2>1, <2>3, <3>1 DEF Accounted
  <2> QED
    BY <2>2, <2>4, <2>5
<1> QED
  BY <1>2, <1>9, <1>10

LEMMA BootAccounts ==
  ASSUME EngineTypeOK, Changes, running, Accounted(Accountable, Staged), NEW id \in Id,
         BootAttach(id) \/ BootSkip(id)
  PROVE  running' /\ Accounted(Accountable, Staged)'
<1>1. /\ pc = "boot" /\ pc' = "boot" /\ id \in todo /\ UNCHANGED undo
  BY DEF BootAttach, BootSkip
<1>2. PICK new \in Definition : new = prepared[id] /\ new.id = id /\ active[id] \in {NONE, new}
  BY <1>1, ValidFacts DEF Changes
<1>3. id \in SourceID /\ new.alias \in Alias /\ new.db \in Database /\ new # NONE
  BY <1>2, DefinitionFacts
<1>4. Staged = {} /\ Staged' = {} /\ Fresh' = Fresh /\ Kept = Actives /\ Kept' = Actives'
  BY <1>1, FreshSame DEF Staged, Kept, Actives, Underway
<1>5. PICK S, T : S = Accountable /\ T = Accountable'
  OBVIOUS
<1>6. Accounted(S, {})
  BY <1>4, <1>5 DEF Accounted
<1>7. CASE BootAttach(id)
  <2>1. AdapterAttach(id, new.alias, new.db, TRUE) /\ active' = [active EXCEPT ![id] = new]
    BY <1>2, <1>7 DEF BootAttach
  <2>2. Actives \subseteq Actives' /\ new \in Actives'
    BY <1>2, <1>3, <2>1 DEF Actives, Changes, Valid
  <2>3. S \subseteq T /\ new \in T
    BY <1>4, <1>5, <2>2 DEF Accountable
  <2>4. AdapterAttach(id, new.alias, new.db, TRUE)
    BY <2>1
  <2>5. running' /\ (overran => overran')
    BY <2>4, CallsRun
  <2>6. Accounted(T, {})'
    BY <1>3, <1>6, <2>3, <2>4, AccountBack
  <2> QED
    BY <1>4, <1>5, <2>5, <2>6 DEF Accounted
<1>8. CASE BootSkip(id)
  <2>1. AdapterAttachFails(id, new.alias, new.db, TRUE) /\ Actives' = Actives
    BY <1>2, <1>8 DEF BootSkip, Actives
  <2>2. running' /\ (overran => overran') /\ catalogs' = catalogs
    BY <2>1, CallsRun, FailedCalls
  <2> QED
    BY <1>4, <1>5, <1>6, <2>1, <2>2 DEF Accounted, Accountable
<1> QED
  BY <1>7, <1>8

(* The beginning and the end of a call, and the environment.               *)
LEMMA LateStays ==
  ASSUME \/ Booted \/ Commit \/ Abort \/ BeginReload \/ PrepareFails \/ Edit
         \/ \E db \in Database : GoDown(db) \/ ComeBack(db)
         \/ UNCHANGED vars
  PROVE  overran => overran'
<1>1. CASE PrepareFails
  BY <1>1, Zenon DEF PrepareFails
<1>2. CASE Booted \/ Commit \/ Abort \/ BeginReload \/ Edit
  BY <1>2 DEF Booted, Commit, Abort, BeginReload, Edit, deadline
<1>3. CASE (\E db \in Database : GoDown(db) \/ ComeBack(db)) \/ UNCHANGED vars
  BY <1>3 DEF GoDown, ComeBack, vars, managerVars, deadline
<1> QED
  BY <1>1, <1>2, <1>3

LEMMA RestAccounts ==
  ASSUME Changes, running, Accounted(Accountable, Staged),
         \/ Booted \/ Commit \/ Abort \/ BeginReload \/ PrepareFails \/ Edit
         \/ \E db \in Database : GoDown(db) \/ ComeBack(db)
         \/ UNCHANGED vars
  PROVE  running' /\ Accounted(Accountable, Staged)'
<1>1. running' = running /\ catalogs' = catalogs
  BY RestIsQuiet DEF engineVars
<1>2. overran => overran'
  BY LateStays
<1>3. CASE PrepareFails \/ Edit \/ UNCHANGED vars \/ \E db \in Database : GoDown(db) \/ ComeBack(db)
  <2>1. UNCHANGED <<active, prepared, pc, todo, doomed, undo>>
    BY <1>3 DEF PrepareFails, Edit, GoDown, ComeBack, managerVars, vars
  <2>2. \A i \in Id : Due(i)' <=> Due(i)
    BY <2>1 DEF Due
  <2>3. Accountable' = Accountable /\ Staged' = Staged
    BY <2>1, <2>2, FreshSame DEF Accountable, Kept, Left, Gone, Staged
  <2> QED
    BY <1>1, <1>2, <2>3 DEF Accounted
<1>4. CASE Booted \/ Abort \/ BeginReload
  <2>1. pc \notin Underway /\ Staged = {} /\ Staged' = {} /\ UNCHANGED active
    BY <1>4 DEF Booted, Abort, BeginReload, Underway, Staged
  <2>2. undo' = undo
    BY <1>4 DEF Booted, Abort, BeginReload, Changes
  <2>3. Kept = Actives
    BY <2>1, KeptFacts
  <2>4. Actives \subseteq Kept'
    <3>1. CASE Booted \/ Abort
      BY <3>1 DEF Booted, Abort, Kept, Actives, Underway
    <3>2. CASE BeginReload
      <4>1. /\ todo' = {i \in Id : prepared'[i] \notin {NONE, active[i]}}
            /\ doomed' = {i \in Id : active[i] # NONE /\ prepared'[i] = NONE}
            /\ pc' = "apply"
        BY <3>2 DEF BeginReload
      <4>2. \A i \in Id : active[i] # NONE => i \in Left' \/ active[i] = prepared'[i]
        BY <4>1 DEF Left, Gone
      <4> QED
        BY <2>1, <4>2 DEF Kept, Actives
    <3> QED
      BY <1>4, <3>1, <3>2
  <2>5. Accountable \subseteq Accountable'
    BY <2>2, <2>3, <2>4, FreshSame DEF Accountable
  <2> QED
    BY <1>1, <1>2, <2>1, <2>5 DEF Accounted
<1>5. CASE Commit
  <2>1. /\ pc = "apply" /\ todo = {} /\ doomed = {} /\ active' = prepared /\ pc' = "idle"
    BY <1>5 DEF Commit
  <2>2. Staged = {} /\ Staged' = {} /\ Kept' = Actives'
    BY <2>1 DEF Staged, Kept, Actives, Underway
  <2>3. Kept \subseteq Actives'
    BY <2>1 DEF Kept, Left, Actives, Underway
  <2>4. Fresh \subseteq Actives'
    <3>1. ASSUME NEW d \in Fresh PROVE d \in Definition /\ <<"detach", d>> \in Entries
      BY ElementOfSeq DEF Fresh, Changes
    <3>2. ASSUME NEW d \in Fresh PROVE d \in Definition /\ d.id \in Id /\ prepared[d.id] = d
      BY <3>1 DEF Entries
    <3> QED
      BY <2>1, <3>2, DefinitionFacts DEF Actives
  <2>5. Accountable \subseteq Accountable'
    BY <2>2, <2>3, <2>4 DEF Accountable
  <2> QED
    BY <1>1, <1>2, <2>2, <2>5 DEF Accounted
<1> QED
  BY <1>3, <1>4, <1>5

LEMMA AccountStep == AccountInv /\ [Next]_vars => AccountInv'
<1> SUFFICES ASSUME AccountInv, [Next]_vars PROVE running' /\ Accounted(Accountable, Staged)'
  BY ChangesStep DEF AccountInv
<1>1. EngineTypeOK /\ Changes /\ running /\ Accounted(Accountable, Staged)
  BY DEF AccountInv, ChangeInv, EngineInv
<1>2. CASE \/ Booted \/ Commit \/ Abort \/ BeginReload \/ PrepareFails \/ Edit
           \/ \E db \in Database : GoDown(db) \/ ComeBack(db)
           \/ UNCHANGED vars
  BY <1>1, <1>2, RestAccounts
<1>3. CASE Undo
  BY <1>1, <1>3, UndoAccounts
<1>4. ASSUME NEW id \in Id,
             BootAttach(id) \/ BootSkip(id) \/ AttachNew(id) \/ Stage(id) \/ Unstage(id)
             \/ DetachCurrent(id) \/ AttachReplacement(id) \/ Reinstate(id) \/ RemoveSource(id)
      PROVE  running' /\ Accounted(Accountable, Staged)'
  BY <1>1, <1>4, BootAccounts, LoopAccounts, StagingAccounts, RemovalAccounts, ReinstateAccounts
<1> QED
  BY <1>2, <1>3, <1>4 DEF Next, ManagerStep, Request, Environment

LEMMA AccountInit == Init => AccountInv
<1> SUFFICES ASSUME Init PROVE AccountInv
  OBVIOUS
<1>1. running /\ \A a \in Alias : catalogs[a] = NONE
  BY DEF Init, Blank
<1> QED
  BY <1>1, ChangesInit DEF AccountInv, Accounted

(* Whenever no call runs, every attached catalog is the one the active     *)
(* source of that alias asks for, but for the staging catalogs that a      *)
(* passed deadline leaves behind, whichever sources are added, changed,    *)
(* removed or renamed and whatever failed (manager.go, apply).             *)
THEOREM NothingStrays == Spec => []NoStrayCatalog
<1>1. AccountInv => NoStrayCatalog
  <2> SUFFICES ASSUME AccountInv, pc = "idle" PROVE NoStrayCatalog
    BY DEF NoStrayCatalog
  <2>1. Changes /\ Accounted(Accountable, Staged)
    BY DEF AccountInv, ChangeInv
  <2>2. Staged = {} /\ Fresh = {} /\ Kept = Actives
    BY <2>1, EmptySeq, KeptFacts DEF Staged, Fresh, Changes, Underway
  <2> QED
    BY <2>1, <2>2 DEF Accounted, Accountable, NoStrayCatalog
<1> QED
  BY <1>1, AccountInit, AccountStep, PTL DEF Spec
-----------------------------------------------------------------------------
(* With stable aliases an alias says who it belongs to, so the row a call  *)
(* writes is never in the way of another source.                           *)
Home == \A i \in SourceID : registry[i] # NoRow => Belongs(i, registry[i].catalog)

(* While no deadline has passed, what is listed as ready is attached.      *)
Listed ==
  ~overran => \A i \in SourceID : registry[i].health = "ready" => catalogs[registry[i].catalog] # NONE

(* What the bootstrap has still to visit is not active, and the history    *)
(* knows of every database that is down.                                   *)
Unbooted == pc = "boot" => \A i \in todo : active[i] = NONE
Known == down \subseteq everDown

HomeInv == AccountInv /\ Home /\ Unbooted /\ Known

UnavailableRow(alias) == [catalog |-> alias, health |-> "unavailable"]

(* One alias, one source.                                                  *)
LEMMA OneHome ==
  ASSUME Stable(Documents), NEW i, NEW j, NEW alias, Belongs(i, alias), Belongs(j, alias)
  PROVE  i = j
<1>1. PICK c \in UNION Documents :
        (i = c.id /\ alias = c.alias) \/ (i = StageID(c.id) /\ alias = StageAlias(c))
  BY DEF Belongs
<1>2. PICK d \in UNION Documents :
        (j = d.id /\ alias = d.alias) \/ (j = StageID(d.id) /\ alias = StageAlias(d))
  BY DEF Belongs
<1>3. c \in Definition /\ d \in Definition
  BY ReconcileAssumption
<1>4. /\ c.alias \in LiveAlias /\ StageAlias(c) \notin LiveAlias
      /\ d.alias \in LiveAlias /\ StageAlias(d) \notin LiveAlias
  BY <1>3, DefinitionFacts, StagingAssumption
<1>5. c.alias = d.alias => c.id = d.id
  BY DEF Stable
<1>6. StageAlias(c) = StageAlias(d) => c = d
  BY DEF StageAlias
<1> QED
  BY <1>1, <1>2, <1>4, <1>5, <1>6

LEMMA Free ==
  ASSUME Stable(Documents), Home, NEW id \in SourceID, NEW alias \in Alias, Belongs(id, alias)
  PROVE  Claimable(id, alias)
<1> SUFFICES ASSUME NEW other \in SourceID \ {id}, registry[other].catalog = alias PROVE FALSE
  BY DEF Claimable
<1>1. registry[other] # NoRow
  BY EngineAssumption DEF NoRow
<1> QED
  BY <1>1, OneHome DEF Home

(* What a call does to the rows: to those of others nothing.               *)
LEMMA CallRows ==
  ASSUME EngineTypeOK, NEW id \in SourceID, NEW alias \in Alias, Call(id, alias)
  PROVE  /\ \A i \in SourceID \ {id} : registry'[i] = registry[i]
         /\ registry'[id] \in {registry[id], NoRow, ReadyRow(alias), UnavailableRow(alias)}
<1> USE DEF EngineTypeOK, engineVars
<1>1. ASSUME NEW r, registry' = [registry EXCEPT ![id] = r]
      PROVE  registry'[id] = r /\ \A i \in SourceID \ {id} : registry'[i] = registry[i]
  BY <1>1
<1>2. CASE registry' = registry
  BY <1>2
<1>3. ASSUME NEW db \in Database, Attach(id, alias, db, NeedsSecret(db)) \/ AttachODBC(id, alias, db)
      PROVE  registry' = [registry EXCEPT ![id] = ReadyRow(alias)]
  BY <1>3 DEF Attach, AttachODBC
<1>4. ASSUME NEW db \in Database, NEW bg \in BOOLEAN, AdapterAttachFails(id, alias, db, bg)
      PROVE  \/ registry' = registry
             \/ \E r \in {NoRow, ReadyRow(alias), UnavailableRow(alias)} :
                  registry' = [registry EXCEPT ![id] = r]
  <2>1. CASE UNCHANGED engineVars
    BY <2>1
  <2>2. CASE AttachUnverified(id, alias) \/ AttachODBCUndescribed(id, alias, TRUE)
    BY <2>2 DEF AttachUnverified, AttachODBCUndescribed
  <2>3. CASE AttachUnprepared(id, alias, TRUE, TRUE)
    BY <2>3 DEF AttachUnprepared, RecordUnavailable, UnavailableRow
  <2>4. ASSUME NEW sec \in BOOLEAN, AttachRefused(id, alias, sec, TRUE, TRUE)
        PROVE  registry' = registry \/ registry' = [registry EXCEPT ![id] = UnavailableRow(alias)]
    BY <2>4 DEF AttachRefused, RecordUnavailable, UnavailableRow
  <2>5. ASSUME NEW sec \in BOOLEAN,
               AttachUnregistered(id, alias, sec, TRUE) \/ AttachUndescribed(id, alias, sec, TRUE)
        PROVE  registry' = registry \/ registry' = [registry EXCEPT ![id] = ReadyRow(alias)]
    BY <2>5 DEF AttachUnregistered, AttachUndescribed
  <2> QED
    BY <1>4, <2>1, <2>2, <2>3, <2>4, <2>5, FailedAttach
<1>5. ASSUME Detach(alias, id) \/ DetachCutShort(alias, id)
      PROVE  registry' = registry \/ registry' = [registry EXCEPT ![id] = NoRow]
  BY <1>5 DEF Detach, DetachCutShort
<1>6. CASE UNCHANGED engineVars
  BY <1>2, <1>6
<1> QED
  BY <1>1, <1>2, <1>3, <1>4, <1>5, <1>6
     DEF Call, AdapterAttach, AdapterCleanup, AdapterCleanupFails, DetachRefused

LEMMA HomeKeeps ==
  ASSUME EngineTypeOK, Home, NEW id \in SourceID, NEW alias \in Alias,
         Call(id, alias), Belongs(id, alias)
  PROVE  Home'
<1> SUFFICES ASSUME NEW i \in SourceID, registry'[i] # NoRow PROVE Belongs(i, registry'[i].catalog)
  BY DEF Home, Belongs
<1>1. i # id => registry'[i] = registry[i]
  BY CallRows
<1>2. registry'[id] \in {registry[id], NoRow, ReadyRow(alias), UnavailableRow(alias)}
  BY CallRows
<1> QED
  BY <1>1, <1>2 DEF Home, ReadyRow, UnavailableRow

(* Every step is a call where it belongs, or leaves the engine alone.      *)
LEMMA EveryStep ==
  ASSUME Changes, [Next]_vars
  PROVE  \/ \E id \in SourceID, alias \in Alias : Call(id, alias) /\ Belongs(id, alias)
         \/ UNCHANGED engineVars /\ (overran => overran')
<1>1. CASE \/ Booted \/ Commit \/ Abort \/ BeginReload \/ PrepareFails \/ Edit
           \/ \E db \in Database : GoDown(db) \/ ComeBack(db)
           \/ UNCHANGED vars
  BY <1>1, RestIsQuiet, LateStays
<1>2. CASE Undo
  BY <1>2, UndoCalls DEF Somewhere
<1>3. ASSUME NEW id \in Id, BootAttach(id) \/ BootSkip(id)
      PROVE  \E i \in SourceID, alias \in Alias : Call(i, alias) /\ Belongs(i, alias)
  BY <1>3, BootCalls
<1>4. ASSUME NEW id \in Id, RemoveSource(id) PROVE Somewhere
  BY <1>4, RemovalCalls
<1>5. ASSUME NEW id \in Id, AttachNew(id) \/ Stage(id) \/ Unstage(id) \/ DetachCurrent(id)
                            \/ AttachReplacement(id) \/ Reinstate(id)
      PROVE  Somewhere
  BY <1>5, LoopCalls
<1> QED
  BY <1>1, <1>2, <1>3, <1>4, <1>5 DEF Next, ManagerStep, Request, Environment, Somewhere

LEMMA KnownStep == ASSUME Known, [Next]_vars PROVE Known'
<1>1. CASE UNCHANGED <<down, everDown>>
  BY <1>1 DEF Known
<1>2. CASE \E db \in Database : GoDown(db) \/ ComeBack(db)
  BY <1>2 DEF Known, GoDown, ComeBack
<1>3. CASE Booted \/ Commit \/ Undo \/ Abort \/ BeginReload \/ PrepareFails \/ Edit \/ UNCHANGED vars
  BY <1>1, <1>3 DEF Booted, Commit, Undo, Abort, BeginReload, PrepareFails, Edit, envVars, vars
<1>4. ASSUME NEW id \in Id,
             BootAttach(id) \/ BootSkip(id) \/ AttachNew(id) \/ Stage(id) \/ Unstage(id)
             \/ DetachCurrent(id) \/ AttachReplacement(id) \/ Reinstate(id) \/ RemoveSource(id)
      PROVE  UNCHANGED <<down, everDown>>
  BY <1>4 DEF BootAttach, BootSkip, AttachNew, Stage, Unstage, DetachCurrent, AttachReplacement,
     Reinstate, RemoveSource, GoTo, Visited, envVars
<1> QED
  BY <1>1, <1>2, <1>3, <1>4 DEF Next, ManagerStep, Request, Environment

LEMMA UnbootedStep == ASSUME Changes, Unbooted, [Next]_vars PROVE Unbooted'
<1> SUFFICES ASSUME pc' = "boot" PROVE \A i \in todo' : active'[i] = NONE
  BY DEF Unbooted
<1>1. CASE UNCHANGED <<pc, todo, active>>
  BY <1>1 DEF Unbooted
<1>2. ASSUME NEW id \in Id, BootAttach(id) \/ BootSkip(id) PROVE Unbooted'
  BY <1>2 DEF BootAttach, BootSkip, Unbooted, Changes, Valid
<1>3. CASE PrepareFails \/ Edit \/ (\E db \in Database : GoDown(db) \/ ComeBack(db)) \/ UNCHANGED vars
  BY <1>1, <1>3 DEF PrepareFails, Edit, GoDown, ComeBack, managerVars, vars
<1>4. CASE Booted \/ Commit \/ Abort \/ BeginReload
  BY <1>4 DEF Booted, Commit, Abort, BeginReload
<1>5. CASE Undo
  BY <1>1, <1>5 DEF Undo
<1>6. ASSUME NEW id \in Id, AttachNew(id) \/ Stage(id) \/ Unstage(id) \/ DetachCurrent(id)
                            \/ AttachReplacement(id) \/ Reinstate(id) \/ RemoveSource(id)
      PROVE  FALSE
  BY <1>6 DEF AttachNew, Stage, Unstage, DetachCurrent, AttachReplacement, Reinstate, RemoveSource,
     GoTo, Visited
<1> QED
  BY <1>2, <1>3, <1>4, <1>5, <1>6 DEF Next, ManagerStep, Request, Environment, Unbooted

LEMMA HomeStep == HomeInv /\ [Next]_vars => HomeInv'
<1> SUFFICES ASSUME HomeInv, [Next]_vars PROVE HomeInv'
  OBVIOUS
<1>1. AccountInv'
  BY AccountStep DEF HomeInv
<1>2. EngineTypeOK /\ Changes
  BY DEF HomeInv, AccountInv, ChangeInv, EngineInv
<1>3. Home'
  <2>1. CASE UNCHANGED engineVars
    BY <2>1 DEF HomeInv, Home, Belongs, engineVars
  <2> QED
    BY <1>2, <2>1, EveryStep, HomeKeeps DEF HomeInv
<1> QED
  BY <1>1, <1>2, <1>3, KnownStep, UnbootedStep DEF HomeInv

LEMMA HomeInit == Init => HomeInv
<1> SUFFICES ASSUME Init PROVE HomeInv
  OBVIOUS
<1>1. AccountInv
  BY AccountInit
<1>2. Home /\ Unbooted /\ Known
  BY <1>1 DEF Init, Blank, Home, Unbooted, Known, Changes, AccountInv, ChangeInv
<1> QED
  BY <1>1, <1>2 DEF HomeInv
-----------------------------------------------------------------------------
(* A failed attach that was not late leaves no ready row of its own.       *)
LEMMA FailedRow ==
  ASSUME EngineTypeOK, NEW id \in SourceID, NEW alias \in Alias, NEW db, NEW bg,
         AdapterAttachFails(id, alias, db, bg), ~overran'
  PROVE  registry'[id] \in {registry[id], NoRow, UnavailableRow(alias)}
<1> USE DEF EngineTypeOK, engineVars
<1>1. PICK late \in BOOLEAN :
        /\ overran' = (overran \/ late)
        /\ \/ UNCHANGED engineVars
           \/ AttachODBCRefused(id, alias, db \in down, late)
           \/ AttachODBCUndescribed(id, alias, late)
           \/ AttachUnprepared(id, alias, db \in down, late)
           \/ AttachRefused(id, alias, NeedsSecret(db), db \in down, late)
           \/ AttachUnregistered(id, alias, NeedsSecret(db), late)
           \/ AttachUndescribed(id, alias, NeedsSecret(db), late)
           \/ AttachUnverified(id, alias)
  BY DEF AdapterAttachFails
<1>2. ~late
  BY <1>1
<1>3. CASE UNCHANGED engineVars \/ AttachODBCRefused(id, alias, db \in down, late)
  BY <1>3 DEF AttachODBCRefused
<1>4. CASE AttachODBCUndescribed(id, alias, late) \/ AttachUndescribed(id, alias, NeedsSecret(db), late)
  BY <1>2, <1>4 DEF AttachODBCUndescribed, AttachUndescribed
<1>5. CASE AttachUnprepared(id, alias, db \in down, late)
  BY <1>5 DEF AttachUnprepared, RecordUnavailable, UnavailableRow
<1>6. CASE AttachRefused(id, alias, NeedsSecret(db), db \in down, late)
  BY <1>6 DEF AttachRefused, RecordUnavailable, UnavailableRow
<1>7. CASE AttachUnregistered(id, alias, NeedsSecret(db), late)
  BY <1>7 DEF AttachUnregistered
<1>8. CASE AttachUnverified(id, alias)
  BY <1>8 DEF AttachUnverified
<1> QED
  BY <1>1, <1>3, <1>4, <1>5, <1>6, <1>7, <1>8

(* A call changes the catalog of its alias at most.                        *)
LEMMA CallCatalogs ==
  ASSUME EngineTypeOK, NEW id \in SourceID, NEW alias \in Alias, Call(id, alias)
  PROVE  \A other \in Alias \ {alias} : catalogs'[other] = catalogs[other]
<1>1. ASSUME NEW db \in Database, NEW bg \in BOOLEAN, AdapterAttach(id, alias, db, bg)
      PROVE  catalogs' = [catalogs EXCEPT ![alias] = db]
  BY <1>1, Attaches DEF Attaching
<1>2. ASSUME NEW bg \in BOOLEAN, AdapterCleanup(id, alias, bg)
      PROVE  catalogs' = [catalogs EXCEPT ![alias] = NONE]
  BY <1>2, Cleans DEF Cleaning
<1>3. ASSUME NEW db \in Database, NEW bg \in BOOLEAN,
             AdapterAttachFails(id, alias, db, bg) \/ AdapterCleanupFails(alias, bg)
      PROVE  catalogs' = catalogs
  BY <1>3, FailedCalls
<1>4. ASSUME NEW bg \in BOOLEAN, AdapterCleanupFails(alias, bg)
      PROVE  catalogs' = catalogs
  BY <1>4, FailedCalls
<1> QED
  BY <1>1, <1>2, <1>3, <1>4 DEF Call, EngineTypeOK

LEMMA ListedKeeps ==
  ASSUME Stable(Documents), EngineTypeOK, Home, Listed, NEW id \in SourceID, NEW alias \in Alias,
         Call(id, alias), Belongs(id, alias)
  PROVE  Listed'
<1> SUFFICES ASSUME ~overran', NEW i \in SourceID, registry'[i].health = "ready"
             PROVE  catalogs'[registry'[i].catalog] # NONE
  BY DEF Listed
<1>1. ~overran
  BY CallsRun DEF Call
<1>2. ASSUME registry'[i] = registry[i], i # id PROVE catalogs'[registry'[i].catalog] # NONE
  <2>1. registry[i].health = "ready" /\ registry[i] # NoRow /\ registry[i].catalog \in Alias
    BY <1>2 DEF EngineTypeOK, Row, NoRow
  <2>2. registry[i].catalog # alias
    BY <1>2, <2>1, OneHome DEF Home
  <2>3. catalogs[registry[i].catalog] # NONE
    BY <1>1, <2>1 DEF Listed
  <2> QED
    BY <1>2, <2>1, <2>2, <2>3, CallCatalogs
<1>3. CASE i # id
  BY <1>2, <1>3, CallRows
<1>4. ASSUME registry'[i] = registry[i], catalogs' = catalogs PROVE catalogs'[registry'[i].catalog] # NONE
  BY <1>1, <1>4 DEF Listed
<1>5. CASE i = id
  <2>1. ASSUME NEW db \in Database, NEW bg \in BOOLEAN, AdapterAttach(id, alias, db, bg)
        PROVE  catalogs'[registry'[i].catalog] # NONE
    <3>1. registry'[id] = ReadyRow(alias) /\ catalogs' = [catalogs EXCEPT ![alias] = db]
      BY <2>1, Attaches DEF Attaching
    <3> QED
      BY <1>5, <3>1, EngineAssumption DEF ReadyRow, EngineTypeOK
  <2>2. ASSUME NEW db \in Database, NEW bg \in BOOLEAN, AdapterAttachFails(id, alias, db, bg)
        PROVE  catalogs'[registry'[i].catalog] # NONE
    <3>1. catalogs' = catalogs
      BY <2>2, FailedCalls
    <3>2. registry'[id] \in {registry[id], NoRow, UnavailableRow(alias)}
      BY <2>2, FailedRow
    <3> QED
      BY <1>4, <1>5, <3>1, <3>2 DEF NoRow, UnavailableRow
  <2>3. ASSUME NEW bg \in BOOLEAN, AdapterCleanup(id, alias, bg)
        PROVE  catalogs'[registry'[i].catalog] # NONE
    <3>1. Detach(alias, id)
      BY <2>3 DEF AdapterCleanup
    <3>2. registry'[id] = NoRow
      BY <3>1 DEF Detach, EngineTypeOK
    <3> QED
      BY <1>5, <3>2 DEF NoRow
  <2>4. ASSUME NEW bg \in BOOLEAN, AdapterCleanupFails(alias, bg)
        PROVE  catalogs'[registry'[i].catalog] # NONE
    BY <1>4, <2>4 DEF AdapterCleanupFails, DetachRefused, engineVars
  <2> QED
    BY <2>1, <2>2, <2>3, <2>4 DEF Call
<1> QED
  BY <1>3, <1>5

ListedInv == HomeInv /\ Listed

LEMMA ListedStep ==
  ASSUME Stable(Documents), ListedInv, [Next]_vars PROVE ListedInv'
<1>1. HomeInv'
  BY HomeStep DEF ListedInv
<1>2. EngineTypeOK /\ Changes /\ Home /\ Listed
  BY DEF ListedInv, HomeInv, AccountInv, ChangeInv, EngineInv
<1>3. CASE UNCHANGED engineVars /\ (overran => overran')
  BY <1>1, <1>2, <1>3 DEF ListedInv, Listed, engineVars
<1> QED
  BY <1>1, <1>2, <1>3, EveryStep, ListedKeeps DEF ListedInv

LEMMA ListedInit == Init => ListedInv
  BY HomeInit DEF Init, Blank, ListedInv, Listed, NoRow

(* As long as no deadline has passed, the metadata relation lists no       *)
(* catalog as ready that is not attached, after any failed attach, undo or *)
(* removal, if every alias stays with its source (engine.go, Attach,       *)
(* recordSource, Detach; the adapters' compensation).                      *)
THEOREM NothingListedInVain == ASSUME Stable(Documents) PROVE Spec => []ListedIsAttached
<1>1. ListedInv /\ [Next]_vars => ListedInv'
  BY ListedStep
<1>2. ListedInv => ListedIsAttached
  BY DEF ListedInv, Listed, ListedIsAttached
<1> QED
  BY <1>1, <1>2, ListedInit, PTL DEF Spec
-----------------------------------------------------------------------------
(* An attach fails for a reason: the database is down, the deadline has    *)
(* passed, or DuckDB has something in the way.                             *)
LEMMA AttachSucceeds ==
  ASSUME NEW id, NEW alias, NEW db, NEW bg, running, db \notin down, bg \/ ~overran',
         catalogs[alias] = NONE, Claimable(id, alias), Kind[db] = "odbc" => registry[id] = NoRow
  PROVE  ~AdapterAttachFails(id, alias, db, bg)
<1> SUFFICES ASSUME AdapterAttachFails(id, alias, db, bg) PROVE FALSE
  OBVIOUS
<1>1. PICK late \in BOOLEAN :
        /\ late => ~bg
        /\ overran' = (overran \/ late)
        /\ \/ db \in down \/ late
           \/ /\ Kind[db] = "odbc"
              /\ \/ AttachODBCRefused(id, alias, db \in down, late)
                 \/ AttachODBCUndescribed(id, alias, late)
           \/ AttachUnprepared(id, alias, db \in down, late)
           \/ AttachRefused(id, alias, NeedsSecret(db), db \in down, late)
           \/ AttachUnregistered(id, alias, NeedsSecret(db), late)
           \/ AttachUndescribed(id, alias, NeedsSecret(db), late)
  BY DEF AdapterAttachFails
<1>2. ~late
  BY <1>1
<1>3. ~(Kind[db] = "odbc" /\ AttachODBCRefused(id, alias, db \in down, late))
  BY <1>2 DEF AttachODBCRefused
<1>4. ~AttachODBCUndescribed(id, alias, late) /\ ~AttachUnprepared(id, alias, db \in down, late)
  BY <1>2 DEF AttachODBCUndescribed, AttachUnprepared
<1>5. ~AttachRefused(id, alias, NeedsSecret(db), db \in down, late)
  BY <1>2 DEF AttachRefused
<1>6. /\ ~AttachUnregistered(id, alias, NeedsSecret(db), late)
      /\ ~AttachUndescribed(id, alias, NeedsSecret(db), late)
  BY <1>2 DEF AttachUnregistered, AttachUndescribed
<1> QED
  BY <1>1, <1>2, <1>3, <1>4, <1>5, <1>6

(* Nothing has gone wrong so far: the engine is in order, no reload has    *)
(* failed, and no row says that a source is not available.                 *)
Quiet == everDown = {} /\ ~overran

Undisturbed ==
  Quiet =>
    /\ before
    /\ result # "failed"
    /\ pc \notin {"reinstate", "rollback"}
    /\ pc \in {"boot", "idle"} => Orderly(Actives, {})
    /\ \A i \in SourceID : registry[i].health # "unavailable"

(* The candidate that is staged is attached.                               *)
OnStage == pc = "staged" => \A i \in Id : Due(i) => catalogs[StageAlias(prepared[i])] # NONE

QuietInv == ListedInv /\ Progress /\ OnStage /\ Undisturbed

(* With the engine in order, nothing is in the way of a source that is     *)
(* neither attached nor staged.                                            *)
LEMMA NothingInTheWay ==
  ASSUME Stable(Documents), EngineTypeOK, Home, Listed, ~overran,
         \A i \in SourceID : registry[i].health # "unavailable",
         NEW S \in SUBSET UNION Documents, Orderly(S, {}), NEW new \in UNION Documents,
         NEW id \in SourceID, NEW alias \in Alias,
         \/ id = new.id /\ alias = new.alias /\ \A d \in S : d.id # id
         \/ id = StageID(new.id) /\ alias = StageAlias(new)
  PROVE  catalogs[alias] = NONE /\ Claimable(id, alias) /\ registry[id] = NoRow
<1>1. Belongs(id, alias)
  BY DEF Belongs
<1>2. new \in Definition /\ S \subseteq Definition
  BY ReconcileAssumption
<1>3. new.id \in Id /\ StageID(new.id) \notin Id /\ StageAlias(new) \notin LiveAlias
  BY <1>2, DefinitionFacts, StagingAssumption
<1>4. \A d \in S : d.alias \in LiveAlias /\ d.id \in Id
  BY <1>2, DefinitionFacts
<1>5. \A other \in Alias : catalogs[other] # NONE => ~Belongs(id, other)
  <2> SUFFICES ASSUME NEW other \in Alias, catalogs[other] # NONE, Belongs(id, other) PROVE FALSE
    OBVIOUS
  <2>1. PICK d \in S : d.alias = other
    BY DEF Orderly
  <2>2. Belongs(d.id, other)
    BY <2>1 DEF Belongs
  <2>3. d.id = id
    BY <2>2, OneHome
  <2> QED
    BY <1>3, <1>4, <2>3
<1>6. catalogs[alias] = NONE
  BY <1>1, <1>5
<1>7. registry[id] = NoRow
  <2> SUFFICES ASSUME registry[id] # NoRow PROVE FALSE
    OBVIOUS
  <2>1. registry[id].health = "ready" /\ registry[id].catalog \in Alias
    BY DEF EngineTypeOK, Row, Health
  <2>2. catalogs[registry[id].catalog] # NONE
    BY <2>1 DEF Listed
  <2>3. Belongs(id, registry[id].catalog)
    BY DEF Home
  <2> QED
    BY <1>5, <2>1, <2>2, <2>3
<1> QED
  BY <1>1, <1>6, <1>7, Free

(* What a reload attaches is a definition of some document.                *)
LEMMA AttachedDocuments ==
  ASSUME Changes
  PROVE  Attached \in SUBSET UNION Documents /\ Actives \in SUBSET UNION Documents
<1>1. todo \subseteq Id /\ doomed \subseteq Id
  BY DEF Changes
<1> QED
  BY <1>1 DEF Changes, Valid, Attached, Left, Actives

(* A source the loop has yet to visit is not attached, or only as the      *)
(* definition it replaces.                                                 *)
LEMMA NotYet ==
  ASSUME Changes, NEW id \in Id, Due(id), pc = "detached" \/ active[id] = NONE
  PROVE  \A d \in Attached : d.id # id
<1> SUFFICES ASSUME NEW d \in Attached, d.id = id PROVE FALSE
  OBVIOUS
<1>1. todo \subseteq Id /\ doomed \subseteq Id
  BY DEF Changes
<1>2. CASE \E i \in Id \ todo : d = prepared[i]
  <2>1. PICK i \in Id \ todo : d = prepared[i]
    BY <1>2
  <2>2. i = id
    BY <2>1, ValidFacts DEF Changes, Attached
  <2> QED
    BY <2>1, <2>2 DEF Due
<1>3. CASE \E i \in Left : d = active[i]
  <2>1. PICK i \in Left : d = active[i] /\ i \in Id
    BY <1>1, <1>3 DEF Left
  <2>2. i = id /\ active[id] # NONE
    BY <2>1, ValidFacts DEF Changes, Attached
  <2> QED
    BY <2>1, <2>2 DEF Left, Gone
<1> QED
  BY <1>2, <1>3 DEF Attached

(* With the engine in order the calls of the loop do not fail.             *)
LEMMA QuietLoop ==
  ASSUME Stable(Documents), QuietInv, Quiet, ~overran', NEW id \in Id,
         AttachNew(id) \/ Stage(id) \/ Unstage(id) \/ DetachCurrent(id)
         \/ AttachReplacement(id) \/ RemoveSource(id)
  PROVE  pc' \notin {"reinstate", "rollback"}
<1>1. /\ EngineTypeOK /\ Changes /\ Home /\ Listed /\ running /\ down = {} /\ ~overran
      /\ \A i \in SourceID : registry[i].health # "unavailable"
  BY DEF QuietInv, Quiet, ListedInv, HomeInv, AccountInv, ChangeInv, EngineInv, Known, Undisturbed
<1>2. pc \in Underway /\ Orderly(Attached, Staged)
  BY DEF QuietInv, Quiet, Progress, Undisturbed, Underway, AttachNew, Stage, Unstage,
     DetachCurrent, AttachReplacement, RemoveSource
<1>3. PICK S \in SUBSET UNION Documents : S = Attached
  BY <1>1, AttachedDocuments
<1>4. S \subseteq Definition
  BY <1>3, ReconcileAssumption
<1>5. pc # "staged" => Orderly(S, {})
  <2>1. pc # "staged" => Staged = {}
    BY DEF Staged
  <2> QED
    BY <1>2, <1>3, <2>1 DEF Orderly
<1>6. CASE AttachNew(id) \/ AttachReplacement(id) \/ Stage(id)
  <2>1. id \in todo /\ Due(id) /\ prepared[id] # NONE /\ pc # "staged"
    BY <1>1, <1>6 DEF Changes, AttachNew, AttachReplacement, Stage, Due
  <2>2. PICK new \in UNION Documents : new = prepared[id] /\ new.id = id /\ new \in Definition
    BY <1>1, <2>1, ValidFacts DEF Changes, Valid
  <2>3. /\ id \in SourceID /\ new.alias \in Alias /\ StageID(id) \in SourceID
        /\ StageAlias(new) \in Alias /\ new.db \notin down
    BY <1>1, <2>1, <2>2, DefinitionFacts, ValidFacts DEF Changes
  <2>4. CASE AttachNew(id) \/ AttachReplacement(id)
    <3>1. \A d \in S : d.id # id
      BY <1>1, <1>3, <2>1, <2>4, NotYet DEF AttachNew, AttachReplacement
    <3>2. catalogs[new.alias] = NONE /\ Claimable(id, new.alias) /\ registry[id] = NoRow
      BY <1>1, <1>5, <2>1, <2>2, <2>3, <3>1, NothingInTheWay
    <3>3. ~AdapterAttachFails(id, new.alias, new.db, FALSE)
      BY <1>1, <2>3, <3>2, AttachSucceeds
    <3> QED
      BY <2>2, <2>4, <3>3 DEF AttachNew, AttachReplacement, Visited
  <2>5. CASE Stage(id)
    <3>1. PICK sid \in SourceID, alias \in Alias : sid = StageID(new.id) /\ alias = StageAlias(new)
      BY <2>2, <2>3
    <3>2. catalogs[alias] = NONE /\ Claimable(sid, alias) /\ registry[sid] = NoRow
      BY <1>1, <1>5, <2>1, <3>1, NothingInTheWay
    <3>3. ~AdapterAttachFails(sid, alias, new.db, FALSE)
      BY <1>1, <2>3, <3>2, AttachSucceeds
    <3> QED
      BY <2>2, <2>5, <3>1, <3>3 DEF Stage, GoTo
  <2> QED
    BY <1>6, <2>4, <2>5
<1>7. CASE Unstage(id)
  <2>1. catalogs[StageAlias(prepared[id])] # NONE
    BY <1>7 DEF QuietInv, OnStage, Unstage
  <2>2. ~AdapterCleanupFails(StageAlias(prepared[id]), FALSE)
    BY <1>1, <2>1, FailedCalls
  <2> QED
    BY <1>7, <2>2 DEF Unstage, GoTo
<1>8. CASE DetachCurrent(id) \/ RemoveSource(id)
  <2>1. active[id] # NONE /\ id \in Left /\ pc # "staged"
    <3>1. CASE DetachCurrent(id)
      BY <1>1, <3>1 DEF DetachCurrent, Changes, Replacing, Left, Gone, Due
    <3>2. CASE RemoveSource(id)
      BY <1>1, <3>2 DEF RemoveSource, Changes, Left, Gone
    <3> QED
      BY <1>8, <3>1, <3>2
  <2>2. PICK d \in S : d = active[id]
    BY <1>3, <2>1 DEF Attached
  <2>3. catalogs[d.alias] # NONE
    BY <1>4, <1>5, <2>1, <2>2, Taken DEF Orderly
  <2>4. ~AdapterCleanupFails(d.alias, FALSE)
    BY <1>1, <2>3, FailedCalls
  <2> QED
    BY <1>8, <2>2, <2>4 DEF DetachCurrent, RemoveSource, GoTo
<1> QED
  BY <1>6, <1>7, <1>8

(* The calls that do not fail record nothing as unavailable.               *)
LEMMA QuietRows ==
  ASSUME EngineTypeOK, NEW id \in SourceID, NEW alias \in Alias,
         \E db \in Database : Attaching(id, alias, db) \/ Cleaning(id, alias),
         \A i \in SourceID : registry[i].health # "unavailable"
  PROVE  \A i \in SourceID : registry'[i].health # "unavailable"
<1>1. Call(id, alias)
  BY DEF Call, Attaching, Cleaning
<1>2. registry'[id] \in {registry[id], NoRow, ReadyRow(alias)}
  <2>1. ASSUME NEW db \in Database, Attaching(id, alias, db) PROVE registry'[id] = ReadyRow(alias)
    BY <2>1, Attaches
  <2>2. ASSUME Cleaning(id, alias) PROVE registry'[id] \in {registry[id], NoRow}
    BY <2>2 DEF Cleaning, AdapterCleanup, Detach, DetachCutShort, EngineTypeOK
  <2> QED
    BY <2>1, <2>2
<1>3. \A i \in SourceID \ {id} : registry'[i] = registry[i]
  BY <1>1, CallRows
<1> QED
  BY <1>2, <1>3 DEF NoRow, ReadyRow

LEMMA LoopUndisturbed ==
  ASSUME Stable(Documents), QuietInv, NEW id \in Id,
         AttachNew(id) \/ Stage(id) \/ Unstage(id) \/ DetachCurrent(id)
         \/ AttachReplacement(id) \/ Reinstate(id) \/ RemoveSource(id)
  PROVE  Undisturbed'
<1> SUFFICES ASSUME Quiet'
             PROVE  /\ before' /\ result' # "failed" /\ pc' \notin {"reinstate", "rollback"}
                    /\ pc' \notin {"boot", "idle"}
                    /\ \A i \in SourceID : registry'[i].health # "unavailable"
  BY DEF Undisturbed
<1>1. EngineTypeOK /\ Changes
  BY DEF QuietInv, ListedInv, HomeInv, AccountInv, ChangeInv, EngineInv
<1>2. UNCHANGED <<everDown, before, result>>
  BY DEF AttachNew, Stage, Unstage, DetachCurrent, AttachReplacement, Reinstate, RemoveSource,
     GoTo, Visited, envVars
<1>3. \E i \in SourceID, alias \in Alias : Call(i, alias)
  BY <1>1, LoopCalls, RemovalCalls DEF Somewhere
<1>4. ~overran
  BY <1>3, CallsRun DEF Call, Quiet
<1>5. Quiet /\ ~overran'
  BY <1>2, <1>4 DEF Quiet
<1>6. /\ before /\ result # "failed" /\ pc \notin {"reinstate", "rollback"}
      /\ \A i \in SourceID : registry[i].health # "unavailable"
  BY <1>5 DEF QuietInv, Undisturbed
<1>7. ~Reinstate(id)
  BY <1>6 DEF Reinstate
<1>8. pc' \notin {"reinstate", "rollback"}
  BY <1>5, <1>7, QuietLoop
<1>9. pc' \notin {"boot", "idle"}
  BY DEF AttachNew, Stage, Unstage, DetachCurrent, AttachReplacement, Reinstate, RemoveSource,
     GoTo, Visited
<1>10. \E i \in SourceID, alias \in Alias, db \in Database : Attaching(i, alias, db) \/ Cleaning(i, alias)
  <2>1. CASE AttachNew(id) \/ AttachReplacement(id) \/ Stage(id) \/ Unstage(id)
    <3>1. prepared[id] # NONE
      BY <1>1, <2>1 DEF Changes, AttachNew, AttachReplacement, Stage, Unstage, Due
    <3>2. PICK new \in Definition : new = prepared[id] /\ new.id = id /\ StageAlias(new) \in Alias
      BY <1>1, <3>1, ValidFacts DEF Changes
    <3>3. new.alias \in Alias /\ new.db \in Database /\ id \in SourceID /\ StageID(id) \in SourceID
      BY <3>2, DefinitionFacts
    <3>4. \/ AdapterAttach(id, new.alias, new.db, FALSE)
          \/ AdapterAttach(StageID(id), StageAlias(new), new.db, FALSE)
          \/ AdapterCleanup(StageID(id), StageAlias(new), FALSE)
      BY <1>8, <2>1, <3>2 DEF AttachNew, AttachReplacement, Stage, Unstage, GoTo
    <3> QED
      BY <3>2, <3>3, <3>4 DEF Attaching, Cleaning
  <2>2. CASE DetachCurrent(id) \/ RemoveSource(id)
    <3>1. active[id] # NONE
      BY <1>1, <2>2 DEF Changes, DetachCurrent, RemoveSource, Replacing
    <3>2. PICK old \in Definition : old = active[id] /\ old.id = id
      BY <1>1, <3>1, ValidFacts DEF Changes
    <3>3. old.alias \in Alias /\ old.db \in Database /\ id \in SourceID
      BY <3>2, DefinitionFacts
    <3>4. AdapterCleanup(id, old.alias, FALSE)
      BY <1>8, <2>2, <3>2 DEF DetachCurrent, RemoveSource, GoTo
    <3> QED
      BY <3>3, <3>4 DEF Cleaning
  <2> QED
    BY <1>7, <2>1, <2>2
<1>11. \A i \in SourceID : registry'[i].health # "unavailable"
  BY <1>1, <1>6, <1>10, QuietRows
<1> QED
  BY <1>2, <1>6, <1>8, <1>9, <1>11

(* The bootstrap of a quiet start attaches every source.                   *)
LEMMA BootUndisturbed ==
  ASSUME Stable(Documents), QuietInv, NEW id \in Id, BootAttach(id) \/ BootSkip(id)
  PROVE  Undisturbed'
<1> SUFFICES ASSUME Quiet'
             PROVE  /\ before' /\ result' # "failed" /\ pc' = "boot"
                    /\ Orderly(Actives, {})'
                    /\ \A i \in SourceID : registry'[i].health # "unavailable"
  BY DEF Undisturbed
<1>1. /\ EngineTypeOK /\ Changes /\ Home /\ Listed /\ running /\ Unbooted
  BY DEF QuietInv, ListedInv, HomeInv, AccountInv, ChangeInv, EngineInv
<1>2. pc = "boot" /\ pc' = "boot" /\ id \in todo /\ UNCHANGED <<everDown, before, result>>
  BY DEF BootAttach, BootSkip, envVars
<1>3. active[id] = NONE
  BY <1>1, <1>2 DEF Unbooted
<1>4. PICK new \in UNION Documents : new = prepared[id] /\ new.id = id /\ new \in Definition
  BY <1>1, <1>2, ValidFacts DEF Changes, Valid
<1>5. id \in SourceID /\ new.alias \in Alias /\ new.db \in Database
  BY <1>4, DefinitionFacts
<1>6. ~overran
  <2>1. Call(id, new.alias)
    BY <1>4, <1>5, Calls DEF BootAttach, BootSkip
  <2> QED
    BY <2>1, CallsRun DEF Call, Quiet
<1>7. Quiet /\ down = {}
  BY <1>2, <1>6 DEF Quiet, QuietInv, ListedInv, HomeInv, Known
<1>8. /\ before /\ result # "failed" /\ Orderly(Actives, {})
      /\ \A i \in SourceID : registry[i].health # "unavailable"
  BY <1>2, <1>7 DEF QuietInv, Undisturbed
<1>9. PICK S \in SUBSET UNION Documents : S = Actives
  BY <1>1, AttachedDocuments
<1>10. S \in SUBSET Definition /\ Orderly(S, {})
  BY <1>8, <1>9, ReconcileAssumption DEF Orderly
<1>11. \A d \in S : d.id # id
  BY <1>1, <1>3, <1>9, ValidFacts DEF Actives, Changes
<1>12. catalogs[new.alias] = NONE /\ Claimable(id, new.alias) /\ registry[id] = NoRow
  BY <1>1, <1>4, <1>5, <1>6, <1>8, <1>10, <1>11, NothingInTheWay
<1>13. ~AdapterAttachFails(id, new.alias, new.db, TRUE)
  BY <1>1, <1>7, <1>12, AttachSucceeds
<1>14. Attaching(id, new.alias, new.db) /\ active' = [active EXCEPT ![id] = new]
  BY <1>4, <1>13 DEF BootAttach, BootSkip, Attaching
<1>15. Actives' = S \cup {new}
  <2>1. new # NONE
    BY <1>4, DefinitionFacts
  <2>2. active \in [Id -> MaybeDefinition]
    BY <1>1 DEF Changes, Valid
  <2> QED
    BY <1>3, <1>9, <1>14, <2>1, <2>2 DEF Actives
<1>16. Orderly(S \cup {new}, {})'
  BY <1>1, <1>4, <1>10, <1>11, <1>14, OrderlyAttach
<1>17. Orderly(Actives, {})'
  BY <1>15, <1>16 DEF Orderly
<1>18. \A i \in SourceID : registry'[i].health # "unavailable"
  BY <1>1, <1>5, <1>8, <1>14, QuietRows
<1> QED
  BY <1>2, <1>8, <1>17, <1>18

(* The beginning and the end of a call, the undo actions, the environment. *)
LEMMA RestUndisturbed ==
  ASSUME QuietInv, CommitIsExact', Valid(active)',
         \/ Booted \/ Commit \/ Undo \/ Abort \/ BeginReload \/ PrepareFails \/ Edit
         \/ \E db \in Database : GoDown(db) \/ ComeBack(db)
         \/ UNCHANGED vars
  PROVE  Undisturbed'
<1> SUFFICES ASSUME Quiet' PROVE Undisturbed'
  BY DEF Undisturbed
<1>1. CASE Undo \/ Abort
  <2>1. pc = "rollback" /\ everDown' = everDown
    BY <1>1 DEF Undo, Abort, envVars
  <2>2. overran => overran'
    <3>1. CASE Abort
      BY <3>1, LateStays
    <3>2. CASE Undo
      <4>1. ChangeInv
        BY DEF QuietInv, ListedInv, HomeInv, AccountInv
      <4>2. Somewhere
        BY <3>2, <4>1, UndoCalls DEF ChangeInv
      <4> QED
        BY <4>2, CallsRun DEF Somewhere, Call
    <3> QED
      BY <1>1, <3>1, <3>2
  <2>3. Quiet
    BY <2>1, <2>2 DEF Quiet
  <2> QED
    BY <2>1, <2>3 DEF QuietInv, Undisturbed
<1>2. CASE \/ Booted \/ Commit \/ BeginReload \/ PrepareFails \/ Edit
           \/ \E db \in Database : GoDown(db) \/ ComeBack(db)
           \/ UNCHANGED vars
  <2>1. UNCHANGED engineVars /\ (overran => overran')
    BY <1>2, RestIsQuiet, LateStays
  <2>2. everDown \subseteq everDown'
    BY <1>2 DEF Booted, Commit, BeginReload, PrepareFails, Edit, GoDown, ComeBack, vars, envVars
  <2>3. Quiet
    BY <2>1, <2>2 DEF Quiet
  <2>4. /\ before /\ result # "failed" /\ pc \notin {"reinstate", "rollback"}
        /\ pc \in {"boot", "idle"} => Orderly(Actives, {})
        /\ \A i \in SourceID : registry'[i].health # "unavailable"
    BY <2>1, <2>3 DEF QuietInv, Undisturbed, engineVars
  <2>5. Actives' = Actives /\ Orderly(Actives, {}) => Orderly(Actives, {})'
    BY <2>1 DEF Orderly, Serving, engineVars
  <2>6. CASE Booted \/ Edit \/ (\E db \in Database : GoDown(db) \/ ComeBack(db)) \/ UNCHANGED vars
    <3>1. UNCHANGED <<active, before, result>> /\ (pc' = pc \/ (pc = "boot" /\ pc' = "idle"))
      BY <2>6 DEF Booted, Edit, GoDown, ComeBack, managerVars, vars
    <3>2. Actives' = Actives
      BY <3>1 DEF Actives
    <3> QED
      BY <2>4, <2>5, <3>1, <3>2 DEF Undisturbed
  <2>7. CASE BeginReload
    <3>1. pc = "idle" /\ pc' = "apply" /\ before' = Exact /\ result' = result
      BY <2>7 DEF BeginReload
    <3>2. Exact
      BY <2>4, <3>1 DEF Orderly, Exact
    <3> QED
      BY <2>4, <3>1, <3>2 DEF Undisturbed
  <2>8. CASE PrepareFails
    <3>1. down \subseteq everDown /\ everDown' = everDown
      BY <2>8 DEF QuietInv, ListedInv, HomeInv, Known, PrepareFails, envVars
    <3>2. overran' \/ \E db \in Database : db \in down
      <4>1. Changes
        BY DEF QuietInv, ListedInv, HomeInv, AccountInv, ChangeInv
      <4>2. \A d \in config : d.db \in Database
        BY <4>1, ReconcileAssumption, DefinitionFacts DEF Changes
      <4> QED
        BY <2>8, <4>2 DEF PrepareFails
    <3> QED
      BY <3>1, <3>2 DEF Quiet
  <2>9. CASE Commit
    <3>1. pc' = "idle" /\ result' = "ok" /\ before' = before
      BY <2>9 DEF Commit
    <3>2. Exact'
      BY <2>4, <3>1 DEF CommitIsExact
    <3>3. \A c, d \in Actives' : c.id = d.id \/ c.alias = d.alias => c = d
      <4>1. Valid(active')
        BY DEF Valid
      <4> QED
        BY <4>1, ValidFacts DEF Valid, Actives
    <3>4. Orderly(Actives, {})'
      BY <3>2, <3>3 DEF Exact, Orderly
    <3> QED
      BY <2>4, <3>1, <3>4 DEF Undisturbed
  <2> QED
    BY <1>2, <2>6, <2>7, <2>8, <2>9
<1> QED
  BY <1>1, <1>2

LEMMA OnStageStep ==
  ASSUME EngineTypeOK, Changes, OnStage, [Next]_vars PROVE OnStage'
<1> SUFFICES ASSUME pc' = "staged" PROVE OnStage'
  BY DEF OnStage
<1>1. CASE UNCHANGED <<engineVars, pc, todo, prepared>>
  <2>1. \A i \in Id : Due(i)' <=> Due(i)
    BY <1>1 DEF Due
  <2> QED
    BY <1>1, <2>1 DEF OnStage, engineVars
<1>2. CASE Edit \/ PrepareFails \/ (\E db \in Database : GoDown(db) \/ ComeBack(db)) \/ UNCHANGED vars
  BY <1>1, <1>2 DEF Edit, PrepareFails, GoDown, ComeBack, managerVars, vars
<1>3. ASSUME NEW id \in Id, Stage(id) PROVE OnStage'
  <2>1. Due(id) /\ id \in todo /\ UNCHANGED <<prepared, todo>>
        /\ AdapterAttach(StageID(id), StageAlias(prepared[id]), prepared[id].db, FALSE)
    BY <1>3 DEF Stage, GoTo, Due
  <2>2. prepared[id] # NONE
    BY <1>3, <2>1 DEF Stage, Changes
  <2>3. PICK new \in Definition : new = prepared[id] /\ new.id = id /\ StageAlias(new) \in Alias
    BY <2>2, ValidFacts DEF Changes
  <2>4. new.db \in Database /\ StageID(id) \in SourceID
    BY <2>3, DefinitionFacts
  <2>5. catalogs' = [catalogs EXCEPT ![StageAlias(new)] = new.db]
    <3>1. Attaching(StageID(id), StageAlias(new), new.db)
      BY <2>1, <2>3 DEF Attaching
    <3>2. PICK sid \in SourceID, alias \in Alias : sid = StageID(id) /\ alias = StageAlias(new)
      BY <2>3, <2>4
    <3>3. catalogs' = [catalogs EXCEPT ![alias] = new.db]
      BY <2>4, <3>1, <3>2, Attaches
    <3> QED
      BY <3>2, <3>3
  <2>6. catalogs'[StageAlias(new)] # NONE
    BY <2>3, <2>4, <2>5, EngineAssumption DEF EngineTypeOK
  <2>7. \A i \in Id : Due(i)' => i = id
    BY <2>1, DueOnce DEF Due, Changes
  <2> QED
    BY <2>1, <2>3, <2>6, <2>7 DEF OnStage
<1>4. CASE Booted \/ Commit \/ Abort \/ BeginReload \/ Undo
  BY <1>4 DEF Booted, Commit, Abort, BeginReload, Undo
<1>5. ASSUME NEW id \in Id, BootAttach(id) \/ BootSkip(id) \/ AttachNew(id) \/ Unstage(id) \/ DetachCurrent(id)
                            \/ AttachReplacement(id) \/ Reinstate(id) \/ RemoveSource(id)
      PROVE  FALSE
  BY <1>5 DEF BootAttach, BootSkip, AttachNew, Unstage, DetachCurrent, AttachReplacement,
     Reinstate, RemoveSource, GoTo, Visited
<1> QED
  BY <1>2, <1>3, <1>4, <1>5 DEF Next, ManagerStep, Request, Environment

LEMMA QuietStep ==
  ASSUME Stable(Documents), QuietInv, CommitIsExact, [Next]_vars PROVE QuietInv' /\ CommitIsExact'
<1>1. EngineTypeOK /\ Changes /\ OnStage /\ CommitInv
  BY DEF QuietInv, ListedInv, HomeInv, AccountInv, ChangeInv, EngineInv, CommitInv
<1>2. Progress' /\ CommitIsExact' /\ ListedInv' /\ OnStage' /\ Valid(active)'
  <2>1. CommitInv'
    BY <1>1, CommitStep
  <2>2. ListedInv'
    BY ListedStep DEF QuietInv
  <2>3. OnStage'
    BY <1>1, OnStageStep
  <2> QED
    BY <2>1, <2>2, <2>3 DEF CommitInv, ChangeInv, Changes
<1>3. Undisturbed'
  <2>1. ASSUME NEW id \in Id, BootAttach(id) \/ BootSkip(id) PROVE Undisturbed'
    BY <2>1, BootUndisturbed
  <2>2. ASSUME NEW id \in Id, AttachNew(id) \/ Stage(id) \/ Unstage(id) \/ DetachCurrent(id)
                              \/ AttachReplacement(id) \/ Reinstate(id) \/ RemoveSource(id)
        PROVE  Undisturbed'
    BY <2>2, LoopUndisturbed
  <2>3. CASE \/ Booted \/ Commit \/ Undo \/ Abort \/ BeginReload \/ PrepareFails \/ Edit
             \/ \E db \in Database : GoDown(db) \/ ComeBack(db)
             \/ UNCHANGED vars
    BY <1>2, <2>3, RestUndisturbed
  <2> QED
    BY <2>1, <2>2, <2>3 DEF Next, ManagerStep, Request, Environment
<1> QED
  BY <1>2, <1>3 DEF QuietInv

LEMMA QuietInit == Init => QuietInv /\ CommitIsExact
<1> SUFFICES ASSUME Init PROVE QuietInv /\ CommitIsExact
  OBVIOUS
<1>1. /\ pc = "boot" /\ result = "none" /\ before /\ Actives = {}
      /\ \A a \in Alias : catalogs[a] = NONE
      /\ \A i \in SourceID : registry[i] = NoRow
  BY DEF Init, Blank, Actives
<1>2. Progress /\ OnStage /\ CommitIsExact
  BY <1>1 DEF Progress, OnStage, CommitIsExact, Underway
<1>3. Undisturbed
  BY <1>1 DEF Undisturbed, Orderly, NoRow
<1> QED
  BY <1>2, <1>3, ListedInit DEF QuietInv

(* While every database is reachable and no deadline passes, no reload of  *)
(* a valid configuration fails, however many there have been before, if    *)
(* every alias stays with its source (manager.go, apply; engine.go).       *)
THEOREM NoFailureWithoutCause == ASSUME Stable(Documents) PROVE Spec => []FailureHasCause
<1>1. QuietInv /\ CommitIsExact /\ [Next]_vars => (QuietInv /\ CommitIsExact)'
  BY QuietStep
<1>2. QuietInv => FailureHasCause
  BY DEF QuietInv, Undisturbed, Quiet, FailureHasCause
<1> QED
  BY <1>1, <1>2, QuietInit, PTL DEF Spec
-----------------------------------------------------------------------------
(* How a source that a call takes down comes back.  An active source whose *)
(* database never went away is served and no undo action speaks of it, or  *)
(* an undo action will attach it again, and nothing will be left under its *)
(* alias by then, or the call has it in hand and its alias is free.        *)
Entry(id) == \E k \in 1..Len(undo) : undo[k][2].id = id
Has(e) == \E k \in 1..Len(undo) : undo[k] = e
InHand == {i \in Id : pc \in {"detached", "reinstate"} /\ Due(i)}

Sturdy(d) == d.db \notin everDown /\ Kind[d.db] # "odbc"

Mendable(d) ==
  \/ Serving(d) /\ ~Entry(d.id)
  \/ Has(<<"attach", d>>) /\ (Has(<<"detach", prepared[d.id]>>) \/ catalogs[d.alias] = NONE)
  \/ d.id \in InHand /\ ~Entry(d.id)

Mended == \A d \in Actives : Sturdy(d) => Mendable(d)

(* The actions that undo one source: detach the new one, then attach the   *)
(* old one, and none for a source the loops have still to visit.           *)
InOrder ==
  /\ \A j, k \in 1..Len(undo) :
       j < k /\ undo[j][2].id = undo[k][2].id => undo[j][1] = "attach" /\ undo[k][1] = "detach"
  /\ \A k \in 1..Len(undo) : undo[k][2].id \notin todo \cup doomed

Absent == \A i \in InHand : catalogs[active[i].alias] = NONE

(* What the loop has visited is served.                                    *)
Renewed ==
  pc \in Underway => \A i \in Id \ todo : prepared[i] \notin {NONE, active[i]} => Serving(prepared[i])

MendInv == HomeInv /\ InOrder /\ Absent /\ Renewed /\ Mended

(* A call disturbs no definition of another source.                        *)
LEMMA Framed ==
  ASSUME Stable(Documents), EngineTypeOK, NEW id \in SourceID, NEW alias \in Alias,
         Call(id, alias), Belongs(id, alias), NEW d \in UNION Documents, d.id # id
  PROVE  catalogs'[d.alias] = catalogs[d.alias] /\ (Serving(d) => Serving(d)')
<1>1. d \in Definition /\ d.id \in SourceID /\ d.alias \in Alias
  BY ReconcileAssumption, DefinitionFacts
<1>2. Belongs(d.id, d.alias)
  BY DEF Belongs
<1>3. d.alias # alias
  BY <1>2, OneHome
<1> QED
  BY <1>1, <1>3, CallCatalogs, Elsewhere

(* The list of undo actions grows by actions of one source.                *)
Grows(id) ==
  /\ Len(undo) \in Nat /\ Len(undo') \in Nat /\ Len(undo) <= Len(undo')
  /\ \A k \in 1..Len(undo) : undo'[k] = undo[k]
  /\ \A k \in 1..Len(undo') : k > Len(undo) => undo'[k][2].id = id

LEMMA GrowsFacts ==
  ASSUME NEW id, Grows(id)
  PROVE  (\A e : Has(e) => Has(e)') /\ (\A i : i # id => (Entry(i)' => Entry(i)))
<1>1. ASSUME NEW e, Has(e) PROVE Has(e)'
  BY <1>1 DEF Has, Grows
<1>2. ASSUME NEW i, i # id, Entry(i)' PROVE Entry(i)
  <2>1. PICK k \in 1..Len(undo') : undo'[k][2].id = i
    BY <1>2 DEF Entry
  <2>2. k \in 1..Len(undo) /\ undo'[k] = undo[k]
    BY <1>2, <2>1 DEF Grows
  <2> QED
    BY <2>1, <2>2 DEF Entry
<1> QED
  BY <1>1, <1>2

LEMMA VisitGrows ==
  ASSUME Changes, NEW id, NEW actions \in Seq(Entries), undo' = undo \o actions,
         \A k \in 1..Len(actions) : actions[k][2].id = id
  PROVE  /\ Grows(id) /\ Len(actions) \in Nat /\ Len(undo') = Len(undo) + Len(actions)
         /\ \A k \in 1..Len(actions) : Len(undo) + k \in 1..Len(undo') /\ undo'[Len(undo) + k] = actions[k]
<1>1. undo \in Seq(Entries) /\ Len(undo) \in Nat /\ Len(actions) \in Nat
  BY LenProperties DEF Changes
<1>2. /\ Len(undo') = Len(undo) + Len(actions)
      /\ \A k \in 1..(Len(undo) + Len(actions)) :
           undo'[k] = IF k <= Len(undo) THEN undo[k] ELSE actions[k - Len(undo)]
  BY <1>1, ConcatProperties
<1>3. \A k \in 1..Len(undo) : undo'[k] = undo[k]
  BY <1>1, <1>2
<1>4. ASSUME NEW k \in 1..Len(undo'), k > Len(undo) PROVE undo'[k][2].id = id
  <2>1. k - Len(undo) \in 1..Len(actions)
    BY <1>1, <1>2, <1>4
  <2>2. undo'[k] = actions[k - Len(undo)]
    BY <1>1, <1>2, <1>4
  <2> QED
    BY <2>1, <2>2
<1>5. ASSUME NEW k \in 1..Len(actions)
      PROVE  Len(undo) + k \in 1..Len(undo') /\ undo'[Len(undo) + k] = actions[k]
  BY <1>1, <1>2
<1> QED
  BY <1>1, <1>2, <1>3, <1>4, <1>5 DEF Grows

LEMMA OrderGrows ==
  ASSUME InOrder, NEW id \in todo \cup doomed, Grows(id),
         todo' \subseteq todo, doomed' \subseteq doomed, id \notin todo' \cup doomed',
         \A j, k \in 1..Len(undo') :
           j < k /\ j > Len(undo) => undo'[j][1] = "attach" /\ undo'[k][1] = "detach"
  PROVE  InOrder'
<1>1. \A k \in 1..Len(undo) : undo[k][2].id # id /\ undo'[k] = undo[k]
  BY DEF InOrder, Grows
<1>2. ASSUME NEW j \in 1..Len(undo'), NEW k \in 1..Len(undo'), j < k, undo'[j][2].id = undo'[k][2].id
      PROVE  undo'[j][1] = "attach" /\ undo'[k][1] = "detach"
  <2>1. CASE j > Len(undo)
    BY <1>2, <2>1
  <2>2. CASE j <= Len(undo)
    <3>1. j \in 1..Len(undo) /\ undo'[j] = undo[j] /\ undo[j][2].id # id
      BY <1>1, <2>2 DEF Grows
    <3>2. k \in 1..Len(undo)
      BY <1>2, <3>1 DEF Grows
    <3> QED
      BY <1>1, <1>2, <3>1, <3>2 DEF InOrder
  <2> QED
    BY <2>1, <2>2 DEF Grows
<1>3. ASSUME NEW k \in 1..Len(undo') PROVE undo'[k][2].id \notin todo' \cup doomed'
  <2>1. CASE k > Len(undo)
    BY <2>1 DEF Grows
  <2>2. CASE k <= Len(undo)
    <3>1. k \in 1..Len(undo)
      BY <2>2 DEF Grows
    <3> QED
      BY <1>1, <3>1 DEF InOrder
  <2> QED
    BY <2>1, <2>2 DEF Grows
<1> QED
  BY <1>2, <1>3 DEF InOrder

-----------------------------------------------------------------------------
LEMMA ActiveFacts ==
  ASSUME Changes, NEW d \in Actives
  PROVE  /\ d \in UNION Documents /\ d \in Definition /\ d.id \in Id /\ active[d.id] = d
         /\ d.id \in SourceID /\ d.alias \in Alias /\ d.db \in Database
<1>1. PICK i \in Id : d = active[i] /\ d # NONE
  BY DEF Actives
<1>2. d \in UNION Documents /\ d.id = i /\ d \in Definition
  BY <1>1, ValidFacts DEF Changes, Valid
<1> QED
  BY <1>1, <1>2, DefinitionFacts

(* What a call on another source leaves as it was.                         *)
LEMMA OtherMends ==
  ASSUME Stable(Documents), EngineTypeOK, Changes, NEW id \in SourceID, NEW alias \in Alias,
         Call(id, alias), Belongs(id, alias), NEW d \in Actives, d.id # id, d.id \notin InHand,
         Mendable(d), UNCHANGED prepared, Entry(d.id)' => Entry(d.id),
         \A e \in Entries : e[2].id = d.id /\ Has(e) => Has(e)'
  PROVE  Mendable(d)'
<1>1. d \in UNION Documents /\ d \in Definition /\ d.id \in Id
  BY ActiveFacts
<1>2. catalogs'[d.alias] = catalogs[d.alias] /\ (Serving(d) => Serving(d)')
  BY <1>1, Framed
<1>3. CASE Serving(d) /\ ~Entry(d.id)
  BY <1>2, <1>3 DEF Mendable
<1>4. CASE Has(<<"attach", d>>) /\ (Has(<<"detach", prepared[d.id]>>) \/ catalogs[d.alias] = NONE)
  <2>1. \A e : Has(e) => e \in Entries
    BY ElementOfSeq DEF Changes, Has
  <2>2. Has(<<"attach", d>>)'
    <3>1. <<"attach", d>>[2].id = d.id
      OBVIOUS
    <3> QED
      BY <1>4, <2>1, <3>1
  <2>3. Has(<<"detach", prepared[d.id]>>) => Has(<<"detach", prepared[d.id]>>)'
    <3> SUFFICES ASSUME Has(<<"detach", prepared[d.id]>>) PROVE Has(<<"detach", prepared[d.id]>>)'
      OBVIOUS
    <3>1. PICK p : p = prepared[d.id]
      OBVIOUS
    <3>2. <<"detach", p>> \in Entries /\ Has(<<"detach", p>>)
      BY <2>1, <3>1
    <3>3. p \in Definition
      BY <3>2 DEF Entries
    <3>4. p.id = d.id /\ <<"detach", p>>[2] = p
      BY <1>1, <3>1, <3>3, DefinitionFacts, ValidFacts DEF Changes
    <3>5. Has(<<"detach", p>>)'
      BY <3>2, <3>4
    <3> QED
      BY <3>1, <3>5
  <2> QED
    BY <1>2, <1>4, <2>2, <2>3 DEF Mendable
<1> QED
  BY <1>3, <1>4 DEF Mendable

(* The active set and the databases stay, each source is taken care of.    *)
LEMMA Each ==
  ASSUME Mended, UNCHANGED <<active, everDown>>,
         \A d \in Actives : Sturdy(d) /\ Mendable(d) => Mendable(d)'
  PROVE  Mended'
<1>1. Actives' = Actives /\ \A d \in Actives : Sturdy(d)' <=> Sturdy(d)
  BY DEF Actives, Sturdy
<1> QED
  BY <1>1 DEF Mended

LEMMA SameUndo == ASSUME UNCHANGED undo PROVE \A x : (Entry(x)' <=> Entry(x)) /\ (Has(x)' <=> Has(x))
  BY DEF Entry, Has

(* A sturdy source can be attached whenever its alias is free.             *)
LEMMA SturdyAttach ==
  ASSUME Stable(Documents), HomeInv, NEW d \in Actives, Sturdy(d), catalogs[d.alias] = NONE,
         \/ AdapterAttach(d.id, d.alias, d.db, TRUE)
         \/ AdapterAttachFails(d.id, d.alias, d.db, TRUE)
  PROVE  Serving(d)'
<1>1. EngineTypeOK /\ Changes /\ running /\ Home /\ Known
  BY DEF HomeInv, AccountInv, ChangeInv, EngineInv
<1>2. /\ d \in UNION Documents /\ d.id \in SourceID /\ d.alias \in Alias /\ d.db \in Database
      /\ Belongs(d.id, d.alias)
  BY <1>1, ActiveFacts DEF Belongs
<1>3. Claimable(d.id, d.alias)
  BY <1>1, <1>2, Free
<1>4. ~AdapterAttachFails(d.id, d.alias, d.db, TRUE)
  BY <1>1, <1>3, AttachSucceeds DEF Sturdy, Known
<1>5. Attaching(d.id, d.alias, d.db)
  BY <1>4 DEF Attaching
<1> QED
  BY <1>1, <1>2, <1>5, Attaches DEF Serving, EngineTypeOK

-----------------------------------------------------------------------------
(* The steps of the loop.  First what they have in common: a call for id   *)
(* at the head of todo, or for one that is to be removed.                  *)
LEMMA HandFacts ==
  ASSUME Changes
  PROVE  /\ InHand \subseteq todo
         /\ pc \notin {"detached", "reinstate"} => InHand = {}
         /\ \A id \in Id : Due(id) => InHand \subseteq {id}
  BY DueOnce DEF Changes, InHand, Due

LEMMA Lists ==
  ASSUME NEW S, NEW e \in S, NEW f \in S
  PROVE  /\ \E list \in Seq(S) : list = <<e>> /\ Len(list) = 1 /\ list[1] = e
         /\ \E list \in Seq(S) : list = <<e, f>> /\ Len(list) = 2 /\ list[1] = e /\ list[2] = f
<1>1. <<e>> \in Seq(S) /\ <<e, f>> \in Seq(S)
  OBVIOUS
<1> QED
  BY <1>1

LEMMA NewMends ==
  ASSUME Stable(Documents), MendInv, NEW id \in Id, AttachNew(id) PROVE Mended'
<1>1. EngineTypeOK /\ Changes /\ Mended /\ HomeInv
  BY DEF MendInv, HomeInv, AccountInv, ChangeInv, EngineInv
<1>2. /\ pc = "apply" /\ id \in todo /\ active[id] = NONE /\ prepared[id] # NONE
      /\ prepared[id] # active[id] /\ UNCHANGED <<active, prepared, everDown>>
  BY <1>1 DEF AttachNew, Due, Changes, GoTo, Visited, envVars
<1>3. PICK new \in Definition : new = prepared[id] /\ new.id = id
  BY <1>1, <1>2, ValidFacts DEF Changes
<1>4. new.alias \in Alias /\ new.db \in Database /\ id \in SourceID /\ Belongs(id, new.alias)
  BY <1>1, <1>2, <1>3, DefinitionFacts, Belonging DEF Changes
<1>5. Call(id, new.alias)
  BY <1>3, <1>4, Calls DEF AttachNew
<1>6. (\A e : Has(e) => Has(e)') /\ \A i : i # id => (Entry(i)' => Entry(i))
  <2>1. CASE UNCHANGED undo
    BY <2>1, SameUndo
  <2>2. CASE undo' = undo \o <<<<"detach", new>>>>
    <3>1. <<"detach", new>> \in Entries
      BY <1>2, <1>3, Marks
    <3>2. PICK actions \in Seq(Entries) :
            actions = <<<<"detach", new>>>> /\ Len(actions) = 1 /\ actions[1] = <<"detach", new>>
      <4>1. PICK e \in Entries : e = <<"detach", new>>
        BY <3>1
      <4>2. PICK list \in Seq(Entries) : list = <<e>> /\ Len(list) = 1 /\ list[1] = e
        BY Lists
      <4> QED
        BY <4>1, <4>2
    <3>3. \A k \in 1..Len(actions) : actions[k][2].id = id
      BY <1>3, <3>2
    <3>4. Grows(id)
      BY <1>1, <2>2, <3>2, <3>3, VisitGrows
    <3> QED
      BY <3>4, GrowsFacts
  <2> QED
    BY <1>3, <2>1, <2>2 DEF AttachNew, GoTo, Visited
<1>7. ASSUME NEW d \in Actives, Mendable(d) PROVE Mendable(d)'
  <2>1. d.id # id
    BY <1>1, <1>2, ActiveFacts, DefinitionFacts
  <2>2. d.id \notin InHand
    BY <1>1, <1>2, HandFacts
  <2> QED
    BY <1>1, <1>2, <1>4, <1>5, <1>6, <1>7, <2>1, <2>2, OtherMends
<1> QED
  BY <1>1, <1>2, <1>7, Each

LEMMA StagingMends ==
  ASSUME Stable(Documents), MendInv, NEW id \in Id, Stage(id) \/ Unstage(id) PROVE Mended'
<1>1. EngineTypeOK /\ Changes /\ Mended
  BY DEF MendInv, HomeInv, AccountInv, ChangeInv, EngineInv
<1>2. /\ pc \in {"apply", "staged"} /\ id \in todo /\ UNCHANGED <<active, prepared, everDown, undo>>
  BY DEF Stage, Unstage, Due, GoTo, envVars
<1>3. prepared[id] # NONE
  BY <1>1, <1>2 DEF Changes
<1>4. PICK new \in Definition : new = prepared[id] /\ new.id = id /\ StageAlias(new) \in Alias
  BY <1>1, <1>3, ValidFacts DEF Changes
<1>5. PICK sid \in SourceID, alias \in Alias : sid = StageID(id) /\ alias = StageAlias(new) /\ sid \notin Id
  BY <1>4, DefinitionFacts
<1>6. Belongs(sid, alias)
  BY <1>1, <1>3, <1>4, <1>5, Belonging DEF Changes
<1>7. Call(sid, alias)
  <2>1. new.db \in Database
    BY <1>4, DefinitionFacts
  <2> QED
    BY <1>4, <1>5, <2>1, Calls DEF Stage, Unstage
<1>8. ASSUME NEW d \in Actives, Mendable(d) PROVE Mendable(d)'
  <2>1. d.id # sid
    BY <1>1, <1>5, ActiveFacts
  <2>2. d.id \notin InHand
    BY <1>1, <1>2, HandFacts
  <2>3. (Entry(d.id)' => Entry(d.id)) /\ \A e : Has(e) => Has(e)'
    BY <1>2, SameUndo
  <2> QED
    BY <1>1, <1>2, <1>6, <1>7, <1>8, <2>1, <2>2, <2>3, OtherMends
<1> QED
  BY <1>1, <1>2, <1>8, Each

(* The current source is taken down: from now on it is in hand.            *)
LEMMA DetachMends ==
  ASSUME Stable(Documents), MendInv, NEW id \in Id, DetachCurrent(id) PROVE Mended'
<1>1. EngineTypeOK /\ Changes /\ Mended /\ InOrder
  BY DEF MendInv, HomeInv, AccountInv, ChangeInv, EngineInv
<1>2. /\ pc = "unstaged" /\ Due(id) /\ id \in todo /\ active[id] # NONE
      /\ UNCHANGED <<active, prepared, everDown, undo, todo>>
  BY <1>1 DEF DetachCurrent, Due, GoTo, envVars, Changes, Replacing
<1>3. PICK old \in Actives : old = active[id] /\ old.id = id
  BY <1>1, <1>2, ValidFacts DEF Actives, Changes
<1>4. old.alias \in Alias /\ old.db \in Database /\ id \in SourceID /\ Belongs(id, old.alias)
  BY <1>1, <1>2, <1>3, ActiveFacts, Belonging DEF Changes
<1>5. AdapterCleanup(id, old.alias, FALSE) \/ AdapterCleanupFails(old.alias, FALSE)
  BY <1>3 DEF DetachCurrent
<1>6. Call(id, old.alias)
  BY <1>4, <1>5, Calls
<1>7. ~Entry(id) /\ (Entry(id)' <=> Entry(id)) /\ \A x : (Entry(x)' <=> Entry(x)) /\ (Has(x)' <=> Has(x))
  BY <1>1, <1>2, SameUndo DEF Entry, InOrder
<1>8. InHand = {}
  BY <1>1, <1>2, HandFacts
<1>9. ASSUME NEW d \in Actives, Mendable(d) PROVE Mendable(d)'
  <2>1. CASE d.id # id
    <3>1. (Entry(d.id)' => Entry(d.id)) /\ \A e : Has(e) => Has(e)'
      BY <1>7
    <3> QED
      BY <1>1, <1>2, <1>4, <1>6, <1>8, <1>9, <2>1, <3>1, OtherMends
  <2>2. CASE d.id = id
    <3>1. ~Has(<<"attach", d>>)
      <4>1. Has(<<"attach", d>>) => Entry(d.id)
        BY DEF Has, Entry
      <4> QED
        BY <1>7, <2>2, <4>1
    <3>2. Serving(d)
      BY <1>8, <1>9, <3>1 DEF Mendable
    <3>3. CASE pc' = "detached"
      <4>1. id \in InHand'
        BY <1>2, <3>3 DEF InHand, Due
      <4> QED
        BY <1>7, <2>2, <4>1 DEF Mendable
    <3>4. CASE AdapterCleanupFails(old.alias, FALSE)
      <4>1. Serving(d)'
        BY <3>2, <3>4 DEF AdapterCleanupFails, DetachRefused, Serving, engineVars
      <4> QED
        BY <1>7, <2>2, <4>1 DEF Mendable
    <3> QED
      BY <1>3, <3>3, <3>4 DEF DetachCurrent, GoTo
  <2> QED
    BY <2>1, <2>2
<1> QED
  BY <1>1, <1>2, <1>9, Each

(* The new one takes its place, and both go on the list, or the call has   *)
(* to put the old one back.                                                *)
LEMMA ReplaceMends ==
  ASSUME Stable(Documents), MendInv, NEW id \in Id, AttachReplacement(id) PROVE Mended'
<1>1. EngineTypeOK /\ Changes /\ Mended /\ InOrder
  BY DEF MendInv, HomeInv, AccountInv, ChangeInv, EngineInv
<1>2. /\ pc = "detached" /\ Due(id) /\ id \in todo /\ active[id] # NONE
      /\ prepared[id] # NONE /\ prepared[id] # active[id]
      /\ UNCHANGED <<active, prepared, everDown>>
  <2>1. pc = "detached" /\ Due(id) /\ id \in todo /\ UNCHANGED <<active, prepared, everDown>>
    BY DEF AttachReplacement, Due, GoTo, Visited, envVars
  <2> QED
    BY <1>1, <2>1 DEF Changes, Replacing
<1>3. PICK new \in Definition : new = prepared[id] /\ new.id = id
  BY <1>1, <1>2, ValidFacts DEF Changes
<1>4. PICK old \in Actives : old = active[id] /\ old.id = id /\ old \in Definition
  BY <1>1, <1>2, ValidFacts DEF Actives, Changes
<1>5. new.alias \in Alias /\ new.db \in Database /\ id \in SourceID /\ Belongs(id, new.alias)
  BY <1>1, <1>2, <1>3, DefinitionFacts, Belonging DEF Changes
<1>6. Call(id, new.alias)
  BY <1>3, <1>5, Calls DEF AttachReplacement
<1>7. InHand \subseteq {id}
  BY <1>1, <1>2, HandFacts
<1>8. ~Entry(id)
  BY <1>1, <1>2 DEF Entry, InOrder
<1>9. CASE GoTo("reinstate")
  <2>1. UNCHANGED <<undo, todo>> /\ pc' = "reinstate"
    BY <1>9 DEF GoTo
  <2>2. ASSUME NEW d \in Actives, Mendable(d) PROVE Mendable(d)'
    <3>1. CASE d.id # id
      <4>1. d.id \notin InHand /\ (Entry(d.id)' => Entry(d.id)) /\ \A e : Has(e) => Has(e)'
        BY <1>7, <2>1, <3>1, SameUndo
      <4> QED
        BY <1>1, <1>2, <1>5, <1>6, <2>2, <3>1, <4>1, OtherMends
    <3>2. CASE d.id = id
      <4>1. id \in InHand'
        BY <1>2, <2>1 DEF InHand, Due
      <4>2. ~Entry(id)'
        BY <1>8, <2>1 DEF Entry
      <4> QED
        BY <3>2, <4>1, <4>2 DEF Mendable
    <3> QED
      BY <3>1, <3>2
  <2> QED
    BY <1>1, <1>2, <2>2, Each
<1>10. CASE undo' = undo \o <<<<"attach", old>>, <<"detach", new>>>>
  <2>1. <<"detach", new>> \in Entries /\ <<"attach", old>> \in Entries
    BY <1>2, <1>3, <1>4, Marks
  <2>2. PICK actions \in Seq(Entries) :
          actions = <<<<"attach", old>>, <<"detach", new>>>> /\ Len(actions) = 2
          /\ actions[1] = <<"attach", old>> /\ actions[2] = <<"detach", new>>
    <3>1. PICK e \in Entries, f \in Entries : e = <<"attach", old>> /\ f = <<"detach", new>>
      BY <2>1
    <3>2. \E list \in Seq(Entries) : list = <<e, f>> /\ Len(list) = 2 /\ list[1] = e /\ list[2] = f
      BY Lists
    <3> QED
      BY <3>1, <3>2
  <2>3. \A k \in 1..Len(actions) : actions[k][2].id = id
    BY <1>3, <1>4, <2>2
  <2>4. /\ Grows(id)
        /\ \A k \in 1..Len(actions) : Len(undo) + k \in 1..Len(undo') /\ undo'[Len(undo) + k] = actions[k]
    BY <1>1, <1>10, <2>2, <2>3, VisitGrows
  <2>5. (\A e : Has(e) => Has(e)') /\ \A i : i # id => (Entry(i)' => Entry(i))
    BY <2>4, GrowsFacts
  <2>6. Has(<<"attach", old>>)' /\ Has(<<"detach", new>>)'
    <3>1. 1 \in 1..Len(actions) /\ 2 \in 1..Len(actions)
      BY <2>2
    <3> QED
      BY <2>2, <2>4, <3>1 DEF Has
  <2>7. ASSUME NEW d \in Actives, Mendable(d) PROVE Mendable(d)'
    <3>1. CASE d.id # id
      <4>1. d.id \notin InHand
        BY <1>7, <3>1
      <4> QED
        BY <1>1, <1>2, <1>5, <1>6, <2>5, <2>7, <3>1, <4>1, OtherMends
    <3>2. CASE d.id = id
      <4>1. d = old
        BY <1>1, <1>4, <3>2, ActiveFacts
      <4>2. new = prepared'[d.id]
        BY <1>2, <1>3, <3>2
      <4> QED
        BY <2>6, <4>1, <4>2 DEF Mendable
    <3> QED
      BY <3>1, <3>2
  <2> QED
    BY <1>1, <1>2, <2>7, Each
<1> QED
  BY <1>3, <1>4, <1>9, <1>10 DEF AttachReplacement, Visited

(* Putting it back does not fail, if its database is there.                *)
LEMMA ReinstateMends ==
  ASSUME Stable(Documents), MendInv, NEW id \in Id, Reinstate(id) PROVE Mended'
<1>1. EngineTypeOK /\ Changes /\ Mended /\ InOrder /\ HomeInv /\ Absent
  BY DEF MendInv, HomeInv, AccountInv, ChangeInv, EngineInv
<1>2. /\ pc = "reinstate" /\ Due(id) /\ id \in todo /\ active[id] # NONE
      /\ UNCHANGED <<active, prepared, everDown, undo>>
  BY <1>1 DEF Reinstate, Due, GoTo, envVars, Changes, Replacing
<1>3. PICK old \in Actives : old = active[id] /\ old.id = id
  BY <1>1, <1>2, ValidFacts DEF Actives, Changes
<1>4. old.alias \in Alias /\ old.db \in Database /\ id \in SourceID /\ Belongs(id, old.alias)
  BY <1>1, <1>2, <1>3, ActiveFacts, Belonging DEF Changes
<1>5. AdapterAttach(old.id, old.alias, old.db, TRUE) \/ AdapterAttachFails(old.id, old.alias, old.db, TRUE)
  BY <1>3 DEF Reinstate
<1>6. Call(id, old.alias)
  BY <1>3, <1>4, <1>5, Calls
<1>7. InHand \subseteq {id} /\ id \in InHand
  BY <1>1, <1>2, HandFacts DEF InHand
<1>8. ~Entry(id) /\ \A x : (Entry(x)' <=> Entry(x)) /\ (Has(x)' <=> Has(x))
  BY <1>1, <1>2, SameUndo DEF Entry, InOrder
<1>9. catalogs[old.alias] = NONE
  BY <1>1, <1>3, <1>7 DEF Absent
<1>10. ASSUME NEW d \in Actives, Mendable(d), Sturdy(d) PROVE Mendable(d)'
  <2>1. CASE d.id # id
    <3>1. d.id \notin InHand /\ (Entry(d.id)' => Entry(d.id)) /\ \A e : Has(e) => Has(e)'
      BY <1>7, <1>8, <2>1
    <3> QED
      BY <1>1, <1>2, <1>4, <1>6, <1>10, <2>1, <3>1, OtherMends
  <2>2. CASE d.id = id
    <3>1. d = old
      BY <1>1, <1>3, <2>2, ActiveFacts
    <3>2. Serving(d)'
      BY <1>1, <1>5, <1>9, <1>10, <3>1, SturdyAttach
    <3> QED
      BY <1>8, <2>2, <3>2 DEF Mendable
  <2> QED
    BY <2>1, <2>2
<1> QED
  BY <1>1, <1>2, <1>10, Each

LEMMA RemoveMends ==
  ASSUME Stable(Documents), MendInv, NEW id \in Id, RemoveSource(id) PROVE Mended'
<1>1. EngineTypeOK /\ Changes /\ Mended /\ InOrder
  BY DEF MendInv, HomeInv, AccountInv, ChangeInv, EngineInv
<1>2. /\ pc = "apply" /\ id \in doomed /\ active[id] # NONE /\ prepared[id] # active[id]
      /\ UNCHANGED <<active, prepared, everDown>>
  BY <1>1 DEF RemoveSource, GoTo, envVars, Changes
<1>3. PICK old \in Actives : old = active[id] /\ old.id = id /\ old \in Definition
  BY <1>1, <1>2, ValidFacts DEF Actives, Changes
<1>4. old.alias \in Alias /\ old.db \in Database /\ id \in SourceID /\ Belongs(id, old.alias)
  BY <1>1, <1>2, <1>3, ActiveFacts, Belonging DEF Changes
<1>5. Call(id, old.alias)
  BY <1>3, <1>4, Calls DEF RemoveSource
<1>6. ~Entry(id) /\ InHand = {}
  BY <1>1, <1>2, HandFacts DEF Entry, InOrder
<1>7. CASE AdapterCleanupFails(old.alias, FALSE) /\ GoTo("rollback")
  <2>1. UNCHANGED <<engineVars, undo>>
    BY <1>7 DEF AdapterCleanupFails, DetachRefused, GoTo
  <2>2. ASSUME NEW d \in Actives, Mendable(d) PROVE Mendable(d)'
    <3>1. catalogs' = catalogs /\ (Serving(d) => Serving(d)')
      BY <2>1 DEF Serving, engineVars
    <3> QED
      BY <1>2, <1>6, <2>1, <2>2, <3>1, SameUndo DEF Mendable
  <2> QED
    BY <1>1, <1>2, <2>2, Each
<1>8. CASE AdapterCleanup(id, old.alias, FALSE) /\ undo' = Append(undo, <<"attach", old>>)
  <2>1. /\ Len(undo) \in Nat /\ Len(undo') = Len(undo) + 1
        /\ \A k \in 1..Len(undo) : undo'[k] = undo[k]
        /\ undo'[Len(undo) + 1] = <<"attach", old>>
    <3>1. undo \in Seq(Entries) /\ <<"attach", old>> \in Entries
      BY <1>1, <1>2, <1>3, Marks DEF Changes
    <3> QED
      BY <1>8, <3>1, AppendProperties
  <2>2. Grows(id) /\ Has(<<"attach", old>>)'
    <3>1. Len(undo) + 1 \in 1..Len(undo')
      BY <2>1
    <3>2. \A k \in 1..Len(undo') : k > Len(undo) => k = Len(undo) + 1
      BY <2>1
    <3> QED
      BY <1>3, <2>1, <3>1, <3>2 DEF Grows, Has
  <2>3. (\A e : Has(e) => Has(e)') /\ \A i : i # id => (Entry(i)' => Entry(i))
    BY <2>2, GrowsFacts
  <2>4. catalogs'[old.alias] = NONE
    <3>1. catalogs' = [catalogs EXCEPT ![old.alias] = NONE]
      BY <1>1, <1>4, <1>8, Cleans DEF Cleaning
    <3> QED
      BY <1>1, <1>4, <3>1 DEF EngineTypeOK
  <2>5. ASSUME NEW d \in Actives, Mendable(d) PROVE Mendable(d)'
    <3>1. CASE d.id # id
      BY <1>1, <1>2, <1>4, <1>5, <1>6, <2>3, <2>5, <3>1, OtherMends
    <3>2. CASE d.id = id
      <4>1. d = old
        BY <1>1, <1>3, <3>2, ActiveFacts
      <4> QED
        BY <2>2, <2>4, <4>1 DEF Mendable
    <3> QED
      BY <3>1, <3>2
  <2> QED
    BY <1>1, <1>2, <2>5, Each
<1> QED
  BY <1>3, <1>7, <1>8 DEF RemoveSource

(* The undo actions, newest first: the new source of a pair goes, then the *)
(* old one finds its alias free.                                           *)
LEMMA UndoMends ==
  ASSUME Stable(Documents), MendInv, Undo PROVE Mended'
<1>1. EngineTypeOK /\ Changes /\ Mended /\ InOrder /\ HomeInv /\ running
  BY DEF MendInv, HomeInv, AccountInv, ChangeInv, EngineInv
<1>2. /\ pc = "rollback" /\ undo # <<>> /\ undo' = SubSeq(undo, 1, Len(undo) - 1)
      /\ UNCHANGED <<active, prepared, everDown>>
  BY DEF Undo, envVars
<1>3. PICK n \in Nat \ {0} : n = Len(undo)
  BY <1>1, <1>2, Shorter
<1>4. Len(undo') = n - 1 /\ \A k \in 1..(n - 1) : undo'[k] = undo[k]
  BY <1>1, <1>2, <1>3, Shorter
<1>5. PICK e \in Entries : e = undo[n] /\ UndoOne(e)
  BY <1>1, <1>3, LastEntry DEF Undo
<1>6. PICK c \in Definition : c = e[2] /\ e[1] \in {"attach", "detach"} /\ e = <<e[1], c>>
  BY <1>5 DEF Entries
<1>7. /\ e[1] = "attach" => active[c.id] = c
      /\ e[1] = "detach" => prepared[c.id] = c
      /\ c.id \in Id
  BY <1>5, <1>6 DEF Entries
<1>8. c.id \in SourceID /\ c.alias \in Alias /\ c.db \in Database /\ c # NONE
  BY <1>6, DefinitionFacts
<1>9. c \in UNION Documents /\ Belongs(c.id, c.alias)
  <2>1. c \in UNION Documents
    BY <1>1, <1>6, <1>7, <1>8 DEF Changes, Valid
  <2> QED
    BY <2>1 DEF Belongs
<1>10. Call(c.id, c.alias)
  BY <1>5, <1>6, <1>8, Calls DEF UndoOne
<1>11. InHand = {}
  BY <1>1, <1>2, HandFacts
<1>12. \A i : Entry(i)' => Entry(i)
  BY <1>3, <1>4 DEF Entry
<1>13. \A x : Has(x) => x = e \/ Has(x)'
  BY <1>3, <1>4, <1>5 DEF Has
<1>14. \A k \in 1..(n - 1) : undo[k][2].id = c.id => undo[k][1] = "attach" /\ e[1] = "detach"
  <2> TAKE k \in 1..(n - 1)
  <2>1. k \in 1..Len(undo) /\ n \in 1..Len(undo) /\ k < n
    BY <1>3
  <2> QED
    BY <1>1, <1>5, <1>6, <2>1 DEF InOrder
<1>15. ASSUME NEW d \in Actives, Mendable(d), Sturdy(d) PROVE Mendable(d)'
  <2>1. d \in UNION Documents /\ d \in Definition /\ active[d.id] = d /\ d.id \in Id
    BY <1>1, ActiveFacts
  <2>2. CASE d.id # c.id
    <3>1. \A x \in Entries : x[2].id = d.id /\ Has(x) => Has(x)'
      BY <1>6, <1>13, <2>2
    <3> QED
      BY <1>1, <1>2, <1>8, <1>9, <1>10, <1>11, <1>12, <1>15, <2>2, <3>1, OtherMends
  <2>3. CASE d.id = c.id
    <3>1. Entry(d.id)
      <4>1. n \in 1..Len(undo) /\ undo[n][2].id = d.id
        BY <1>3, <1>5, <1>6, <2>3
      <4> QED
        BY <4>1 DEF Entry
    <3>2. Has(<<"attach", d>>) /\ (Has(<<"detach", prepared[d.id]>>) \/ catalogs[d.alias] = NONE)
      BY <1>11, <1>15, <3>1 DEF Mendable
    <3>3. c.alias = d.alias
      BY <1>9, <2>1, <2>3 DEF Stable
    <3>4. CASE e[1] = "attach"
      <4>1. c = d
        BY <1>7, <2>1, <2>3, <3>4
      <4>2. ~Has(<<"detach", prepared[d.id]>>)
        <5> SUFFICES ASSUME NEW k \in 1..Len(undo), undo[k] = <<"detach", prepared[d.id]>> PROVE FALSE
          BY DEF Has
        <5>1. k # n
          BY <1>5, <3>4
        <5>2. k \in 1..(n - 1)
          BY <1>3, <5>1
        <5>3. undo[k] \in Entries
          BY <1>1, ElementOfSeq DEF Changes
        <5>4. prepared[d.id] \in Definition
          BY <5>3 DEF Entries
        <5>5. prepared[d.id] # NONE
          BY <5>4, DefinitionFacts
        <5>6. prepared[d.id].id = d.id
          BY <1>1, <2>1, <5>5, ValidFacts DEF Changes
        <5>7. undo[k][2].id = c.id
          BY <2>3, <5>6
        <5> QED
          BY <1>14, <3>4, <5>2, <5>7
      <4>3. catalogs[d.alias] = NONE
        BY <3>2, <4>2
      <4>4. AdapterAttach(d.id, d.alias, d.db, TRUE) \/ AdapterAttachFails(d.id, d.alias, d.db, TRUE)
        BY <1>5, <1>6, <3>4, <4>1 DEF UndoOne
      <4>5. Serving(d)'
        BY <1>1, <1>15, <4>3, <4>4, SturdyAttach
      <4>6. ~Entry(d.id)'
        <5> SUFFICES ASSUME NEW k \in 1..Len(undo'), undo'[k][2].id = d.id PROVE FALSE
          BY DEF Entry
        <5>1. k \in 1..(n - 1) /\ undo[k][2].id = c.id
          BY <1>4, <2>3
        <5> QED
          BY <1>14, <3>4, <5>1
      <4> QED
        BY <4>5, <4>6 DEF Mendable
    <3>5. CASE e[1] = "detach"
      <4>1. AdapterCleanup(c.id, c.alias, TRUE) \/ AdapterCleanupFails(c.alias, TRUE)
        BY <1>5, <1>6, <3>5 DEF UndoOne
      <4>2. catalogs'[c.alias] = NONE
        <5>1. CASE AdapterCleanup(c.id, c.alias, TRUE)
          <6>1. catalogs' = [catalogs EXCEPT ![c.alias] = NONE]
            BY <1>1, <1>8, <5>1, Cleans DEF Cleaning
          <6> QED
            BY <1>1, <1>8, <6>1 DEF EngineTypeOK
        <5>2. CASE AdapterCleanupFails(c.alias, TRUE)
          BY <1>1, <5>2, FailedCalls
        <5> QED
          BY <4>1, <5>1, <5>2
      <4>3. <<"attach", d>> # e
        <5>1. <<"attach", d>>[1] = "attach"
          OBVIOUS
        <5> QED
          BY <3>5, <5>1
      <4>4. Has(<<"attach", d>>)'
        BY <1>13, <3>2, <4>3
      <4> QED
        BY <3>3, <4>2, <4>4 DEF Mendable
    <3> QED
      BY <1>6, <3>4, <3>5
  <2> QED
    BY <2>2, <2>3
<1> QED
  BY <1>1, <1>2, <1>15, Each

(* The bootstrap visits each source once.                                  *)
LEMMA BootMends ==
  ASSUME Stable(Documents), MendInv, NEW id \in Id, BootAttach(id) \/ BootSkip(id) PROVE Mended'
<1>1. EngineTypeOK /\ Changes /\ Mended /\ Unbooted
  BY DEF MendInv, HomeInv, AccountInv, ChangeInv, EngineInv
<1>2. /\ pc = "boot" /\ id \in todo /\ active[id] = NONE /\ prepared[id] # NONE /\ undo = <<>>
      /\ UNCHANGED <<prepared, everDown, undo>>
  BY <1>1 DEF BootAttach, BootSkip, envVars, Changes, Unbooted
<1>3. PICK new \in Definition : new = prepared[id] /\ new.id = id
  BY <1>1, <1>2, ValidFacts DEF Changes
<1>4. new.alias \in Alias /\ new.db \in Database /\ id \in SourceID /\ Belongs(id, new.alias) /\ new # NONE
  BY <1>1, <1>2, <1>3, DefinitionFacts, Belonging DEF Changes
<1>5. Call(id, new.alias)
  BY <1>3, <1>4, Calls DEF BootAttach, BootSkip
<1>6. InHand = {} /\ \A i : ~Entry(i)
  BY <1>1, <1>2, HandFacts, EmptySeq DEF Entry
<1>7. \A x : (Entry(x)' <=> Entry(x)) /\ (Has(x)' <=> Has(x))
  BY <1>2, SameUndo
<1>8. ASSUME NEW d \in Actives, Mendable(d) PROVE Mendable(d)'
  <2>1. d.id # id
    BY <1>1, <1>2, ActiveFacts, DefinitionFacts
  <2> QED
    BY <1>1, <1>2, <1>4, <1>5, <1>6, <1>7, <1>8, <2>1, OtherMends
<1>9. CASE BootSkip(id)
  BY <1>1, <1>2, <1>8, <1>9, Each DEF BootSkip
<1>10. CASE BootAttach(id)
  <2>1. Attaching(id, new.alias, new.db) /\ active' = [active EXCEPT ![id] = new]
    BY <1>3, <1>10 DEF BootAttach, Attaching
  <2>2. Serving(new)'
    BY <1>1, <1>3, <1>4, <2>1, Attaches DEF Serving, EngineTypeOK
  <2>3. Mendable(new)'
    BY <1>6, <1>7, <2>2 DEF Mendable
  <2>4. \A d \in Actives' : d \in Actives \/ d = new
    BY <1>1, <2>1 DEF Actives, Changes, Valid
  <2>5. \A d \in Actives' : Sturdy(d)' => Sturdy(d)
    BY <1>2 DEF Sturdy
  <2> QED
    BY <1>1, <1>8, <2>3, <2>4, <2>5 DEF Mended
<1> QED
  BY <1>9, <1>10

LEMMA RestMends ==
  ASSUME MendInv, \/ Booted \/ Commit \/ Abort \/ BeginReload \/ PrepareFails \/ Edit
                  \/ \E db \in Database : GoDown(db) \/ ComeBack(db)
                  \/ UNCHANGED vars
  PROVE  Mended'
<1>1. Changes /\ Mended /\ Renewed
  BY DEF MendInv, HomeInv, AccountInv, ChangeInv
<1>2. UNCHANGED engineVars
  BY RestIsQuiet
<1>3. \A d : Serving(d)' <=> Serving(d)
  BY <1>2 DEF Serving, engineVars
<1>4. everDown \subseteq everDown'
  BY DEF Booted, Commit, Abort, BeginReload, PrepareFails, Edit, GoDown, ComeBack, vars, envVars
<1>5. \A d : Sturdy(d)' => Sturdy(d)
  BY <1>4 DEF Sturdy
<1>6. CASE PrepareFails \/ Edit \/ (\E db \in Database : GoDown(db) \/ ComeBack(db)) \/ UNCHANGED vars
  <2>1. UNCHANGED <<active, prepared, pc, todo, undo, catalogs>>
    BY <1>2, <1>6 DEF PrepareFails, Edit, GoDown, ComeBack, managerVars, vars, engineVars
  <2>2. InHand' = InHand /\ Actives' = Actives
    BY <2>1 DEF InHand, Due, Actives
  <2>3. \A d \in Actives : Mendable(d) => Mendable(d)'
    BY <1>3, <2>1, <2>2, SameUndo DEF Mendable
  <2> QED
    BY <1>1, <1>5, <2>2, <2>3 DEF Mended
<1>7. CASE Booted \/ Abort \/ BeginReload
  <2>1. undo = <<>> /\ undo' = <<>> /\ pc \notin {"detached", "reinstate"} /\ UNCHANGED active
    BY <1>1, <1>7 DEF Booted, Abort, BeginReload, Changes
  <2>2. InHand = {} /\ Actives' = Actives
    BY <2>1 DEF InHand, Actives
  <2>3. \A i : ~Entry(i) /\ ~Entry(i)' /\ ~Has(i)
    BY <2>1, EmptySeq DEF Entry, Has
  <2>4. \A d \in Actives : Mendable(d) => Mendable(d)'
    BY <1>3, <2>2, <2>3 DEF Mendable
  <2> QED
    BY <1>1, <1>5, <2>2, <2>4 DEF Mended
<1>8. CASE Commit
  <2>1. pc = "apply" /\ todo = {} /\ active' = prepared /\ undo' = <<>>
    BY <1>8 DEF Commit
  <2>2. \A i : ~Entry(i)'
    BY <2>1, EmptySeq DEF Entry
  <2>3. InHand = {}
    BY <2>1 DEF InHand
  <2>4. ASSUME NEW d \in Actives', Sturdy(d) PROVE Serving(d)
    <3>1. PICK i \in Id : d = prepared[i] /\ d # NONE
      BY <2>1 DEF Actives
    <3>2. CASE active[i] # d
      BY <1>1, <2>1, <3>1, <3>2 DEF Renewed, Underway
    <3>3. CASE active[i] = d
      <4>1. d \in Actives /\ d.id = i
        BY <1>1, <3>1, <3>3, ValidFacts DEF Actives, Changes
      <4>2. ~Has(<<"attach", d>>)
        <5>1. Has(<<"attach", d>>) => <<"attach", d>> \in Entries
          BY <1>1, ElementOfSeq DEF Changes, Has
        <5>2. <<"attach", d>> \notin Entries
          BY <3>1, <4>1 DEF Entries
        <5> QED
          BY <5>1, <5>2
      <4> QED
        BY <1>1, <2>3, <2>4, <4>1, <4>2 DEF Mended, Mendable
    <3> QED
      BY <3>2, <3>3
  <2> QED
    BY <1>3, <1>5, <2>2, <2>4 DEF Mended, Mendable
<1> QED
  BY <1>6, <1>7, <1>8

LEMMA MendedStep == ASSUME Stable(Documents), MendInv, [Next]_vars PROVE Mended'
<1>1. CASE \/ Booted \/ Commit \/ Abort \/ BeginReload \/ PrepareFails \/ Edit
           \/ \E db \in Database : GoDown(db) \/ ComeBack(db)
           \/ UNCHANGED vars
  BY <1>1, RestMends
<1>2. CASE Undo
  BY <1>2, UndoMends
<1>3. ASSUME NEW id \in Id, BootAttach(id) \/ BootSkip(id) PROVE Mended'
  BY <1>3, BootMends
<1>4. ASSUME NEW id \in Id, AttachNew(id) \/ Stage(id) \/ Unstage(id) PROVE Mended'
  BY <1>4, NewMends, StagingMends
<1>5. ASSUME NEW id \in Id, DetachCurrent(id) \/ AttachReplacement(id) \/ Reinstate(id) PROVE Mended'
  BY <1>5, DetachMends, ReplaceMends, ReinstateMends
<1>6. ASSUME NEW id \in Id, RemoveSource(id) PROVE Mended'
  BY <1>6, RemoveMends
<1> QED
  BY <1>1, <1>2, <1>3, <1>4, <1>5, <1>6 DEF Next, ManagerStep, Request, Environment

(* The order of the undo actions.                                          *)
LEMMA InOrderStep == ASSUME Changes, InOrder, [Next]_vars PROVE InOrder'
<1>1. ASSUME UNCHANGED undo, todo' \subseteq todo, doomed' \subseteq doomed PROVE InOrder'
  BY <1>1 DEF InOrder
<1>2. ASSUME undo' = <<>> PROVE InOrder'
  BY <1>2, EmptySeq DEF InOrder
<1>3. CASE Commit \/ BeginReload
  BY <1>2, <1>3 DEF Commit, BeginReload
<1>4. CASE \/ Booted \/ Abort \/ PrepareFails \/ Edit
           \/ \E db \in Database : GoDown(db) \/ ComeBack(db)
           \/ UNCHANGED vars
  BY <1>1, <1>4 DEF Booted, Abort, PrepareFails, Edit, GoDown, ComeBack, managerVars, vars
<1>5. CASE Undo
  <2>1. undo # <<>> /\ undo' = SubSeq(undo, 1, Len(undo) - 1) /\ UNCHANGED <<todo, doomed>>
    BY <1>5 DEF Undo
  <2>2. PICK n \in Nat \ {0} : n = Len(undo) /\ Len(undo') = n - 1 /\ \A k \in 1..(n - 1) : undo'[k] = undo[k]
    BY <2>1, Shorter
  <2>3. \A k \in 1..Len(undo') : k \in 1..Len(undo) /\ undo'[k] = undo[k]
    BY <2>2
  <2> QED
    BY <2>1, <2>3 DEF InOrder
<1>6. ASSUME NEW id \in Id,
             BootAttach(id) \/ BootSkip(id) \/ Stage(id) \/ Unstage(id) \/ DetachCurrent(id) \/ Reinstate(id)
      PROVE  InOrder'
  BY <1>1, <1>6 DEF BootAttach, BootSkip, Stage, Unstage, DetachCurrent, Reinstate, GoTo
<1>7. ASSUME NEW id \in Id, AttachNew(id) \/ AttachReplacement(id) PROVE InOrder'
  <2>1. /\ id \in todo /\ prepared[id] # NONE /\ prepared[id] # active[id] /\ id \notin doomed
        /\ (AttachReplacement(id) => active[id] # NONE)
    BY <1>7 DEF AttachNew, AttachReplacement, Due, Changes, Replacing
  <2>2. PICK new \in Definition : new = prepared[id] /\ new.id = id
    BY <2>1, ValidFacts DEF Changes
  <2>3. <<"detach", new>> \in Entries
    BY <2>1, <2>2, Marks
  <2>4. CASE GoTo("rollback") \/ GoTo("reinstate")
    BY <1>1, <2>4 DEF GoTo
  <2>5. CASE Visited(id, <<<<"detach", new>>>>)
    <3>1. PICK actions \in Seq(Entries) :
            actions = <<<<"detach", new>>>> /\ Len(actions) = 1 /\ actions[1] = <<"detach", new>>
      <4>1. PICK e \in Entries : e = <<"detach", new>>
        BY <2>3
      <4>2. PICK list \in Seq(Entries) : list = <<e>> /\ Len(list) = 1 /\ list[1] = e
        BY Lists
      <4> QED
        BY <4>1, <4>2
    <3>2. /\ Grows(id) /\ Len(undo') = Len(undo) + 1 /\ Len(undo) \in Nat
          /\ todo' = todo \ {id} /\ doomed' = doomed
      <4>1. \A k \in 1..Len(actions) : actions[k][2].id = id
        BY <2>2, <3>1
      <4> QED
        BY <2>5, <3>1, <4>1, VisitGrows DEF Visited, Grows
    <3>3. \A j, k \in 1..Len(undo') : ~(j < k /\ j > Len(undo))
      BY <3>2
    <3> QED
      BY <2>1, <3>2, <3>3, OrderGrows
  <2>6. CASE active[id] # NONE /\ Visited(id, <<<<"attach", active[id]>>, <<"detach", new>>>>)
    <3>1. PICK old \in Definition : old = active[id] /\ old.id = id
      BY <2>6, ValidFacts DEF Changes
    <3>2. PICK e \in Entries, f \in Entries : e = <<"attach", old>> /\ f = <<"detach", new>>
      BY <2>1, <2>3, <3>1, Marks
    <3>3. PICK actions \in Seq(Entries) :
            actions = <<e, f>> /\ Len(actions) = 2 /\ actions[1] = e /\ actions[2] = f
      BY Lists
    <3>4. /\ Grows(id) /\ Len(undo') = Len(undo) + 2 /\ Len(undo) \in Nat
          /\ undo'[Len(undo) + 1] = e /\ undo'[Len(undo) + 2] = f
          /\ todo' = todo \ {id} /\ doomed' = doomed
      <4>1. \A k \in 1..Len(actions) : actions[k][2].id = id
        BY <2>2, <3>1, <3>2, <3>3
      <4>2. undo' = undo \o actions /\ todo' = todo \ {id} /\ doomed' = doomed
        BY <2>6, <3>1, <3>2, <3>3 DEF Visited
      <4>3. 1 \in 1..Len(actions) /\ 2 \in 1..Len(actions)
        BY <3>3
      <4>4. /\ Grows(id) /\ Len(undo') = Len(undo) + Len(actions)
            /\ \A k \in 1..Len(actions) : Len(undo) + k \in 1..Len(undo') /\ undo'[Len(undo) + k] = actions[k]
        BY <4>1, <4>2, VisitGrows
      <4>5. undo'[Len(undo) + 1] = e /\ undo'[Len(undo) + 2] = f
        BY <3>3, <4>3, <4>4
      <4>6. Len(undo') = Len(undo) + 2 /\ Len(undo) \in Nat
        BY <3>3, <4>4 DEF Grows
      <4> QED
        BY <4>2, <4>4, <4>5, <4>6
    <3>5. ASSUME NEW j \in 1..Len(undo'), NEW k \in 1..Len(undo'), j < k, j > Len(undo)
          PROVE  undo'[j][1] = "attach" /\ undo'[k][1] = "detach"
      <4>1. j = Len(undo) + 1 /\ k = Len(undo) + 2
        BY <3>4, <3>5
      <4> QED
        BY <3>2, <3>4, <4>1
    <3> QED
      BY <2>1, <3>4, <3>5, OrderGrows
  <2> QED
    <3>1. CASE AttachNew(id)
      BY <2>2, <2>4, <2>5, <3>1 DEF AttachNew
    <3>2. CASE AttachReplacement(id)
      <4>1. active[id] # NONE
        BY <2>1, <3>2
      <4> QED
        BY <2>2, <2>4, <2>6, <3>2, <4>1 DEF AttachReplacement
    <3> QED
      BY <1>7, <3>1, <3>2
<1>8. ASSUME NEW id \in Id, RemoveSource(id) PROVE InOrder'
  <2>1. todo = {} /\ id \in doomed /\ active[id] # NONE /\ prepared[id] # active[id]
    BY <1>8 DEF RemoveSource, Changes
  <2>2. PICK old \in Definition : old = active[id] /\ old.id = id
    BY <2>1, ValidFacts DEF Changes
  <2>5. <<"attach", old>> \in Entries
    BY <2>1, <2>2, Marks
  <2>3. CASE GoTo("rollback")
    BY <1>1, <2>3 DEF GoTo
  <2>4. CASE undo' = Append(undo, <<"attach", old>>) /\ doomed' = doomed \ {id} /\ todo' = todo
    <3>1. /\ Len(undo) \in Nat /\ Len(undo') = Len(undo) + 1
          /\ \A k \in 1..Len(undo) : undo'[k] = undo[k]
          /\ undo'[Len(undo) + 1] = <<"attach", old>>
      BY <2>4, <2>5, AppendProperties DEF Changes
    <3>2. \A k \in 1..Len(undo') : k > Len(undo) => k = Len(undo) + 1
      BY <3>1
    <3>3. Grows(id)
      BY <2>2, <3>1, <3>2 DEF Grows
    <3>4. \A j, k \in 1..Len(undo') : ~(j < k /\ j > Len(undo))
      BY <3>1
    <3> QED
      BY <2>1, <2>4, <3>3, <3>4, OrderGrows
  <2> QED
    BY <1>8, <2>2, <2>3, <2>4 DEF RemoveSource
<1> QED
  BY <1>3, <1>4, <1>5, <1>6, <1>7, <1>8 DEF Next, ManagerStep, Request, Environment

(* The alias of the source in hand is free.                                *)
LEMMA AbsentStep == ASSUME EngineTypeOK, Changes, Absent, [Next]_vars PROVE Absent'
<1> SUFFICES ASSUME pc' \in {"detached", "reinstate"} PROVE Absent'
  BY DEF Absent, InHand
<1>1. ASSUME UNCHANGED <<catalogs, active, todo>>, pc \in {"detached", "reinstate"} PROVE Absent'
  BY <1>1 DEF Absent, InHand, Due
<1>2. CASE Edit \/ PrepareFails \/ (\E db \in Database : GoDown(db) \/ ComeBack(db)) \/ UNCHANGED vars
  BY <1>1, <1>2 DEF Edit, PrepareFails, GoDown, ComeBack, managerVars, vars, engineVars
<1>3. ASSUME NEW id \in Id, DetachCurrent(id) PROVE Absent'
  <2>1. Due(id) /\ pc = "unstaged" /\ UNCHANGED <<active, todo>> /\ AdapterCleanup(id, active[id].alias, FALSE)
    BY <1>3 DEF DetachCurrent, GoTo
  <2>2. active[id] # NONE
    BY <2>1 DEF Changes, Replacing
  <2>3. PICK old \in Definition : old = active[id] /\ id \in SourceID /\ old.alias \in Alias
    BY <2>2, ValidFacts, DefinitionFacts DEF Changes
  <2>4. catalogs' = [catalogs EXCEPT ![old.alias] = NONE]
    BY <2>1, <2>3, Cleans DEF Cleaning
  <2>5. \A i \in InHand' : i = id
    BY <2>1, DueOnce DEF InHand, Due, Changes
  <2> QED
    BY <2>1, <2>3, <2>4, <2>5 DEF Absent, EngineTypeOK
<1>4. ASSUME NEW id \in Id, AttachReplacement(id) PROVE Absent'
  <2>1. /\ pc = "detached" /\ UNCHANGED <<active, todo>>
        /\ AdapterAttachFails(id, prepared[id].alias, prepared[id].db, FALSE)
    BY <1>4 DEF AttachReplacement, GoTo, Visited
  <2> QED
    BY <1>1, <2>1, FailedCalls
<1>5. CASE Booted \/ Commit \/ Abort \/ BeginReload \/ Undo
  BY <1>5 DEF Booted, Commit, Abort, BeginReload, Undo
<1>6. ASSUME NEW id \in Id, BootAttach(id) \/ BootSkip(id) \/ AttachNew(id) \/ Stage(id) \/ Unstage(id)
                            \/ Reinstate(id) \/ RemoveSource(id)
      PROVE  FALSE
  BY <1>6 DEF BootAttach, BootSkip, AttachNew, Stage, Unstage, Reinstate, RemoveSource, GoTo, Visited
<1> QED
  BY <1>2, <1>3, <1>4, <1>5, <1>6 DEF Next, ManagerStep, Request, Environment

LEMMA RenewedStep ==
  ASSUME Stable(Documents), EngineTypeOK, Changes, Renewed, [Next]_vars PROVE Renewed'
<1> SUFFICES ASSUME pc' \in Underway PROVE Renewed'
  BY DEF Renewed
<1>1. ASSUME UNCHANGED <<engineVars, active, prepared, todo, pc>> PROVE Renewed'
  BY <1>1 DEF Renewed, Serving, engineVars
<1>2. CASE Edit \/ PrepareFails \/ (\E db \in Database : GoDown(db) \/ ComeBack(db)) \/ UNCHANGED vars
  BY <1>1, <1>2 DEF Edit, PrepareFails, GoDown, ComeBack, managerVars, vars
<1>3. CASE BeginReload
  <2>1. todo' = {i \in Id : prepared'[i] \notin {NONE, active'[i]}}
    BY <1>3 DEF BeginReload
  <2> QED
    BY <2>1 DEF Renewed
<1>4. CASE Booted \/ Commit \/ Abort \/ Undo
  BY <1>4 DEF Booted, Commit, Abort, Undo, Underway
<1>5. ASSUME NEW id \in Id, BootAttach(id) \/ BootSkip(id) \/ Reinstate(id) PROVE FALSE
  BY <1>5 DEF BootAttach, BootSkip, Reinstate, GoTo, Underway
<1>6. ASSUME NEW i \in Id, prepared[i] # NONE
      PROVE  prepared[i] \in UNION Documents /\ prepared[i].id = i
  BY <1>6 DEF Changes, Valid
<1>7. ASSUME NEW id \in SourceID, NEW alias \in Alias, Call(id, alias), Belongs(id, alias),
             pc \in Underway, UNCHANGED <<active, prepared>>,
             NEW i \in Id \ todo, prepared[i] \notin {NONE, active[i]}, i # id
      PROVE  Serving(prepared[i])'
  <2>1. PICK d \in UNION Documents : d = prepared[i] /\ d.id = i
    BY <1>6, <1>7
  <2>2. Serving(d)
    BY <1>7, <2>1 DEF Renewed
  <2>3. Serving(d)'
    BY <1>7, <2>1, <2>2, Framed
  <2> QED
    BY <1>7, <2>1, <2>3 DEF Serving
<1>8. ASSUME NEW id \in Id, AttachNew(id) \/ AttachReplacement(id) PROVE Renewed'
  <2>1. /\ id \in todo /\ pc \in Underway /\ todo' = todo \ {id} /\ UNCHANGED <<active, prepared>>
        /\ AdapterAttach(id, prepared[id].alias, prepared[id].db, FALSE)
    BY <1>8 DEF AttachNew, AttachReplacement, Due, GoTo, Visited, Underway
  <2>2. prepared[id] # NONE
    BY <2>1 DEF Changes, Underway
  <2>3. PICK new \in Definition : new = prepared[id] /\ new.id = id
    BY <2>2, ValidFacts DEF Changes
  <2>4. new.alias \in Alias /\ new.db \in Database /\ id \in SourceID /\ Belongs(id, new.alias)
    BY <2>2, <2>3, DefinitionFacts, Belonging DEF Changes
  <2>5. Attaching(id, new.alias, new.db) /\ Call(id, new.alias)
    BY <2>1, <2>3, <2>4, Calls DEF Attaching
  <2>6. Serving(new)'
    BY <2>3, <2>4, <2>5, Attaches DEF Serving, EngineTypeOK
  <2>7. ASSUME NEW i \in Id \ todo', prepared'[i] \notin {NONE, active'[i]} PROVE Serving(prepared[i])'
    <3>1. CASE i = id
      BY <2>1, <2>3, <2>6, <3>1 DEF Serving
    <3>2. CASE i # id
      BY <1>7, <2>1, <2>4, <2>5, <2>7, <3>2
    <3> QED
      BY <3>1, <3>2
  <2> QED
    BY <2>7 DEF Renewed
<1>9. ASSUME NEW id \in Id, Stage(id) \/ Unstage(id) PROVE Renewed'
  <2>1. id \in todo /\ pc \in Underway /\ UNCHANGED <<active, prepared, todo>>
    BY <1>9 DEF Stage, Unstage, Due, GoTo, Underway
  <2>2. prepared[id] # NONE
    BY <2>1 DEF Changes, Underway
  <2>3. PICK new \in Definition : new = prepared[id] /\ new.id = id /\ StageAlias(new) \in Alias
    BY <2>2, ValidFacts DEF Changes
  <2>4. PICK sid \in SourceID, alias \in Alias : sid = StageID(id) /\ alias = StageAlias(new) /\ sid \notin Id
    BY <2>3, DefinitionFacts
  <2>5. Belongs(sid, alias) /\ new.db \in Database
    BY <2>2, <2>3, <2>4, Belonging, DefinitionFacts DEF Changes
  <2>6. Call(sid, alias)
    BY <1>9, <2>3, <2>4, <2>5, Calls DEF Stage, Unstage
  <2>7. ASSUME NEW i \in Id \ todo', prepared'[i] \notin {NONE, active'[i]} PROVE Serving(prepared[i])'
    BY <1>7, <2>1, <2>4, <2>5, <2>6, <2>7
  <2> QED
    BY <2>7 DEF Renewed
<1>10. ASSUME NEW id \in Id, DetachCurrent(id) \/ RemoveSource(id) PROVE Renewed'
  <2>1. /\ pc \in Underway /\ active[id] # NONE /\ (id \in todo \/ prepared[id] = NONE)
        /\ UNCHANGED <<active, prepared, todo>>
    BY <1>10 DEF DetachCurrent, RemoveSource, Due, GoTo, Underway, Changes, Replacing
  <2>2. PICK old \in Definition : old = active[id] /\ old.id = id
    BY <2>1, ValidFacts DEF Changes
  <2>3. old.alias \in Alias /\ old.db \in Database /\ id \in SourceID /\ Belongs(id, old.alias)
    BY <2>1, <2>2, DefinitionFacts, Belonging DEF Changes
  <2>4. Call(id, old.alias)
    BY <1>10, <2>2, <2>3, Calls DEF DetachCurrent, RemoveSource
  <2>5. ASSUME NEW i \in Id \ todo', prepared'[i] \notin {NONE, active'[i]} PROVE Serving(prepared[i])'
    <3>1. i # id
      BY <2>1, <2>5
    <3> QED
      BY <1>7, <2>1, <2>3, <2>4, <2>5, <3>1
  <2> QED
    BY <2>5 DEF Renewed
<1> QED
  BY <1>2, <1>3, <1>4, <1>5, <1>8, <1>9, <1>10 DEF Next, ManagerStep, Request, Environment

LEMMA MendStep ==
  ASSUME Stable(Documents), MendInv, [Next]_vars PROVE MendInv'
<1>1. EngineTypeOK /\ Changes
  BY DEF MendInv, HomeInv, AccountInv, ChangeInv, EngineInv
<1>2. HomeInv'
  BY HomeStep DEF MendInv
<1>3. InOrder' /\ Absent' /\ Renewed'
  BY <1>1, InOrderStep, AbsentStep, RenewedStep DEF MendInv
<1> QED
  BY <1>2, <1>3, MendedStep DEF MendInv

LEMMA MendInit == Init => MendInv
<1> SUFFICES ASSUME Init PROVE MendInv
  OBVIOUS
<1>1. undo = <<>> /\ pc = "boot" /\ Actives = {}
  BY DEF Init, Actives
<1>2. InOrder /\ Absent /\ Renewed /\ Mended
  BY <1>1, EmptySeq DEF InOrder, Absent, InHand, Renewed, Underway, Mended
<1> QED
  BY <1>2, HomeInit DEF MendInv

(* A source the manager holds active whose database never went away is     *)
(* attached and ready whenever no call runs, whatever failed and whichever *)
(* deadlines passed, if every alias stays with its source: "a failed       *)
(* reload preserves the previous active set" (manager.go, apply and its    *)
(* undo actions).                                                          *)
THEOREM SourcesComeBack == ASSUME Stable(Documents) PROVE Spec => []NeverDownNeverLost
<1>1. MendInv /\ [Next]_vars => MendInv'
  BY MendStep
<1>2. MendInv => NeverDownNeverLost
  <2> SUFFICES ASSUME MendInv, pc = "idle", NEW d \in Actives, d.db \notin everDown, Kind[d.db] # "odbc"
               PROVE  Serving(d)
    BY DEF NeverDownNeverLost
  <2>1. Mendable(d)
    BY DEF MendInv, Mended, Sturdy
  <2>2. undo = <<>> /\ InHand = {}
    BY DEF MendInv, HomeInv, AccountInv, ChangeInv, Changes, InHand
  <2>3. ~Has(<<"attach", d>>)
    BY <2>2, EmptySeq DEF Has
  <2> QED
    BY <2>1, <2>2, <2>3 DEF Mendable
<1> QED
  BY <1>1, <1>2, MendInit, PTL DEF Spec
=============================================================================
