---------------------------- MODULE EngineProofs ----------------------------
(***************************************************************************)
(* EngineInv is an invariant of EngineSpec, for every set of sources,      *)
(* aliases, databases, handles and probes.  EngineInv is inductive as it   *)
(* stands: HandleHasRow is what keeps a second AttachODBC of one source    *)
(* from overwriting the handle of the first.                               *)
(***************************************************************************)
EXTENDS Engine, TLAPS

(* The rows a statement can write are rows, and none of them is the absent  *)
(* row.                                                                     *)
LEMMA RowFacts == \A alias \in Alias :
                    /\ ReadyRow(alias) \in Row
                    /\ ReadyRow(alias) # NoRow
                    /\ [catalog |-> alias, health |-> "unavailable"] \in Row
                    /\ [catalog |-> alias, health |-> "unavailable"] # NoRow
  BY EngineAssumption DEF ReadyRow, Row, NoRow, Health

(* The engine of New(), and the one a Start leaves.                        *)
LEMMA InitHolds == EngineInit => EngineInv
  BY EngineAssumption DEF EngineInit, Blank, EngineInv, EngineTypeOK, HandlesOwned, HandleHasRow,
       ReadyIsRegistered, ProbeCredentialsErased, StoppedHoldsNothing, Row, NoRow

(* A stopped runtime has no handle in the map either, so Start forgets     *)
(* none.                                                                   *)
LEMMA StartHolds == EngineInv /\ StartOK => EngineInv'
  <1> SUFFICES ASSUME EngineInv, StartOK PROVE EngineInv'
    OBVIOUS
  <1>1. native = {} /\ native' = {}
    BY DEF StartOK, EngineInv, StoppedHoldsNothing
  <1>2. EngineTypeOK'
    BY <1>1 DEF StartOK, EngineInv, EngineTypeOK, Row, NoRow
  <1>3. \A i \in SourceID : handles'[i] = NONE /\ sources'[i] = "none"
    BY DEF StartOK
  <1>4. HandlesOwned' /\ HandleHasRow' /\ ReadyIsRegistered'
    BY <1>1, <1>3 DEF HandlesOwned, HandleHasRow, ReadyIsRegistered
  <1>5. ProbeCredentialsErased' /\ StoppedHoldsNothing'
    BY <1>1 DEF StartOK, ProbeCredentialsErased, StoppedHoldsNothing
  <1>6. QED
    BY <1>2, <1>4, <1>5 DEF EngineInv

(* HandlesOwned makes the handles of the map all the native ones.          *)
LEMMA StopHolds == EngineInv /\ StopEngine => EngineInv'
  <1> SUFFICES ASSUME EngineInv, StopEngine PROVE EngineInv'
    OBVIOUS
  <1>1. native' = {}
    BY DEF StopEngine, EngineInv, HandlesOwned
  <1>2. EngineTypeOK'
    BY <1>1 DEF StopEngine, EngineInv, EngineTypeOK, Row, NoRow
  <1>3. \A i \in SourceID : handles'[i] = NONE /\ sources'[i] = "none"
    BY DEF StopEngine
  <1>4. HandlesOwned' /\ HandleHasRow' /\ ReadyIsRegistered'
    BY <1>1, <1>3 DEF HandlesOwned, HandleHasRow, ReadyIsRegistered
  <1>5. ProbeCredentialsErased' /\ StoppedHoldsNothing'
    BY <1>1 DEF StopEngine, ProbeCredentialsErased, StoppedHoldsNothing
  <1>6. QED
    BY <1>2, <1>4, <1>5 DEF EngineInv

(* A step of somebody else leaves the invariant alone.                      *)
LEMMA StutterHolds == EngineInv /\ UNCHANGED engineVars => EngineInv'
  BY DEF engineVars, EngineInv, EngineTypeOK, HandlesOwned, HandleHasRow,
       ReadyIsRegistered, ProbeCredentialsErased, StoppedHoldsNothing

(* recordSource: the map says unavailable, whether the row follows or not.  *)
LEMMA RecordHolds ==
  ASSUME NEW id \in SourceID, NEW alias \in Alias,
         EngineInv, RecordUnavailable(id, alias),
         UNCHANGED <<handles, native>>
  PROVE  /\ registry' \in [SourceID -> Row]
         /\ sources' \in [SourceID -> Health \cup {"none"}]
         /\ HandlesOwned'
         /\ HandleHasRow'
         /\ ReadyIsRegistered'
  <1>1. CASE Claimable(id, alias)
    BY <1>1, RowFacts DEF RecordUnavailable, EngineInv, EngineTypeOK, HandlesOwned, HandleHasRow,
         ReadyIsRegistered, Health
  <1>2. CASE ~Claimable(id, alias)
    BY <1>2, RowFacts DEF RecordUnavailable, EngineInv, EngineTypeOK, HandlesOwned, HandleHasRow,
         ReadyIsRegistered, Health
  <1>3. QED
    BY <1>1, <1>2

(* Every outcome of Attach; a stale 'ready' row may be left, never a        *)
(* 'ready' map entry without its row.                                       *)
LEMMA AttachHolds ==
  ASSUME NEW id \in SourceID, NEW alias \in Alias, EngineInv, AttachAny(id, alias)
  PROVE  EngineInv'
  <1>1. PICK sec \in BOOLEAN :
          \/ \E db \in Database : Attach(id, alias, db, sec)
          \/ AttachUnprepared(id, alias, TRUE, TRUE)
          \/ AttachRefused(id, alias, sec, TRUE, TRUE)
          \/ AttachUnregistered(id, alias, sec, TRUE)
          \/ AttachUndescribed(id, alias, sec, TRUE)
    BY DEF AttachAny
  <1>2. ASSUME NEW db \in Database, Attach(id, alias, db, sec)
        PROVE  EngineInv'
    <2>1. EngineTypeOK'
      BY <1>2, RowFacts DEF Attach, WithSecret, EngineInv, EngineTypeOK, Health
    <2>2. HandlesOwned' /\ HandleHasRow'
      BY <1>2, RowFacts DEF Attach, EngineInv, EngineTypeOK, HandlesOwned, HandleHasRow
    <2>3. ReadyIsRegistered'
      BY <1>2 DEF Attach, ReadyRow, EngineInv, EngineTypeOK, ReadyIsRegistered
    <2>4. ProbeCredentialsErased' /\ StoppedHoldsNothing'
      BY <1>2 DEF Attach, EngineInv, ProbeCredentialsErased, StoppedHoldsNothing
    <2>5. QED
      BY <2>1, <2>2, <2>3, <2>4 DEF EngineInv
  <1>3. ASSUME \/ AttachUnprepared(id, alias, TRUE, TRUE)
               \/ AttachRefused(id, alias, sec, TRUE, TRUE)
        PROVE  EngineInv'
    <2>1. RecordUnavailable(id, alias) /\ UNCHANGED <<handles, native>>
      BY <1>3 DEF AttachUnprepared, AttachRefused
    <2>2. EngineTypeOK'
      BY <1>3, <2>1, RecordHolds
         DEF AttachUnprepared, AttachRefused, WithoutSecret, EngineInv, EngineTypeOK
    <2>3. ProbeCredentialsErased' /\ StoppedHoldsNothing'
      BY <1>3 DEF AttachUnprepared, AttachRefused, EngineInv, ProbeCredentialsErased, StoppedHoldsNothing
    <2>4. QED
      BY <2>1, <2>2, <2>3, RecordHolds DEF EngineInv
  <1>4. ASSUME AttachUnregistered(id, alias, sec, TRUE)
        PROVE  EngineInv'
    BY <1>4 DEF AttachUnregistered, WithSecret, EngineInv, EngineTypeOK, HandlesOwned, HandleHasRow,
         ReadyIsRegistered, ProbeCredentialsErased, StoppedHoldsNothing
  <1>5. ASSUME AttachUndescribed(id, alias, sec, TRUE)
        PROVE  EngineInv'
    <2>1. EngineTypeOK'
      BY <1>5, RowFacts DEF AttachUndescribed, WithSecret, EngineInv, EngineTypeOK
    <2>2. HandlesOwned' /\ HandleHasRow'
      BY <1>5, RowFacts DEF AttachUndescribed, EngineInv, EngineTypeOK, HandlesOwned, HandleHasRow
    <2>3. ReadyIsRegistered'
      BY <1>5 DEF AttachUndescribed, ReadyRow, EngineInv, EngineTypeOK, ReadyIsRegistered
    <2>4. ProbeCredentialsErased' /\ StoppedHoldsNothing'
      BY <1>5 DEF AttachUndescribed, EngineInv, ProbeCredentialsErased, StoppedHoldsNothing
    <2>5. QED
      BY <2>1, <2>2, <2>3, <2>4 DEF EngineInv
  <1>6. QED
    BY <1>1, <1>2, <1>3, <1>4, <1>5

(* The new handle was not open before, and HandleHasRow says the source    *)
(* had none: nothing is overwritten.                                       *)
LEMMA AttachODBCHolds ==
  ASSUME NEW id \in SourceID, NEW alias \in Alias, EngineInv, AttachODBCAny(id, alias)
  PROVE  EngineInv'
  <1>1. ASSUME NEW db \in Database, AttachODBC(id, alias, db)
        PROVE  EngineInv'
    <2>1. PICK h \in Handle \ native :
            /\ native' = native \cup {h}
            /\ handles' = [handles EXCEPT ![id] = h]
      BY <1>1 DEF AttachODBC
    <2>2. handles[id] = NONE
      BY <1>1 DEF AttachODBC, EngineInv, HandleHasRow
    <2>3. EngineTypeOK'
      BY <1>1, <2>1, RowFacts DEF AttachODBC, EngineInv, EngineTypeOK, Health
    <2>4. HandlesOwned'
      BY <2>1, <2>2, EngineAssumption DEF EngineInv, EngineTypeOK, HandlesOwned
    <2>5. HandleHasRow'
      BY <1>1, <2>1, RowFacts DEF AttachODBC, EngineInv, EngineTypeOK, HandleHasRow
    <2>6. ReadyIsRegistered'
      BY <1>1 DEF AttachODBC, ReadyRow, EngineInv, EngineTypeOK, ReadyIsRegistered
    <2>7. ProbeCredentialsErased' /\ StoppedHoldsNothing'
      BY <1>1 DEF AttachODBC, EngineInv, ProbeCredentialsErased, StoppedHoldsNothing
    <2>8. QED
      BY <2>3, <2>4, <2>5, <2>6, <2>7 DEF EngineInv
  <1>2. ASSUME AttachODBCUndescribed(id, alias, TRUE)
        PROVE  EngineInv'
    <2>1. EngineTypeOK'
      BY <1>2, RowFacts DEF AttachODBCUndescribed, EngineInv, EngineTypeOK
    <2>2. HandlesOwned' /\ HandleHasRow'
      BY <1>2, RowFacts DEF AttachODBCUndescribed, EngineInv, EngineTypeOK, HandlesOwned, HandleHasRow
    <2>3. ReadyIsRegistered'
      BY <1>2 DEF AttachODBCUndescribed, ReadyRow, EngineInv, EngineTypeOK, ReadyIsRegistered
    <2>4. ProbeCredentialsErased' /\ StoppedHoldsNothing'
      BY <1>2 DEF AttachODBCUndescribed, EngineInv, ProbeCredentialsErased, StoppedHoldsNothing
    <2>5. QED
      BY <2>1, <2>2, <2>3, <2>4 DEF EngineInv
  <1>3. CASE AttachODBCRefused(id, alias, TRUE, TRUE)
    BY <1>3, StutterHolds DEF AttachODBCRefused
  <1>4. QED
    BY <1>1, <1>2, <1>3 DEF AttachODBCAny

(* A detach always forgets the source and its handle; how much of the row  *)
(* it removes does not matter.                                             *)
LEMMA ForgetHolds ==
  ASSUME NEW id \in SourceID, EngineInv, ForgetSource(id),
         registry' \in {registry, [registry EXCEPT ![id] = NoRow]}
  PROVE  /\ registry' \in [SourceID -> Row]
         /\ sources' \in [SourceID -> Health \cup {"none"}]
         /\ handles' \in [SourceID -> Handle \cup {NONE}]
         /\ native' \subseteq Handle
         /\ HandlesOwned'
         /\ HandleHasRow'
         /\ ReadyIsRegistered'
  <1>1. /\ native' = native \ {handles[id]}
        /\ handles' = [handles EXCEPT ![id] = NONE]
        /\ sources' = [sources EXCEPT ![id] = "none"]
    BY DEF ForgetSource, CloseHandle
  <1>2. registry' \in [SourceID -> Row]
    BY DEF EngineInv, EngineTypeOK, Row
  <1>3. /\ sources' \in [SourceID -> Health \cup {"none"}]
        /\ handles' \in [SourceID -> Handle \cup {NONE}]
        /\ native' \subseteq Handle
    BY <1>1 DEF EngineInv, EngineTypeOK
  <1>4. HandlesOwned'
    BY <1>1, EngineAssumption DEF EngineInv, EngineTypeOK, HandlesOwned
  <1>5. \A i \in SourceID \ {id} : registry'[i] = registry[i]
    BY DEF EngineInv, EngineTypeOK
  <1>6. HandleHasRow'
    BY <1>1, <1>5 DEF EngineInv, EngineTypeOK, HandleHasRow
  <1>7. ReadyIsRegistered'
    BY <1>1, <1>5 DEF EngineInv, EngineTypeOK, ReadyIsRegistered
  <1>8. QED
    BY <1>2, <1>3, <1>4, <1>6, <1>7

(* Every outcome of Detach: whole, cut short by the context, refused.       *)
LEMMA DetachHolds ==
  ASSUME NEW id \in SourceID, NEW alias \in Alias, EngineInv, DetachAny(alias, id)
  PROVE  EngineInv'
  <1>1. ASSUME Detach(alias, id) \/ DetachCutShort(alias, id)
        PROVE  EngineInv'
    <2>1. /\ ForgetSource(id)
          /\ registry' \in {registry, [registry EXCEPT ![id] = NoRow]}
          /\ secrets' \in {secrets, secrets \ {alias}}
          /\ running
          /\ catalogs' = [catalogs EXCEPT ![alias] = NONE]
      BY <1>1 DEF Detach, DetachCutShort, DetachCatalog
    <2>2. UNCHANGED <<running, probing, resolver>>
      BY <2>1 DEF ForgetSource
    <2>3. EngineTypeOK'
      BY <2>1, <2>2, ForgetHolds DEF EngineInv, EngineTypeOK
    <2>4. ProbeCredentialsErased' /\ StoppedHoldsNothing'
      BY <2>1, <2>2 DEF EngineInv, ProbeCredentialsErased, StoppedHoldsNothing
    <2>5. QED
      BY <2>1, <2>3, <2>4, ForgetHolds DEF EngineInv
  <1>2. CASE DetachRefused(alias, TRUE)
    BY <1>2, StutterHolds DEF DetachRefused
  <1>3. QED
    BY <1>1, <1>2 DEF DetachAny

(* The deferred ClearODBC removes what ODBCQuery added, running or not.    *)
LEMMA ProbeHolds ==
  ASSUME NEW p \in Probe, EngineInv, ProbeBegins(p) \/ ODBCQuery(p) \/ ClearODBC(p)
  PROVE  EngineInv'
  <1>1. UNCHANGED <<running, catalogs, secrets, registry, sources, handles, native>>
    BY DEF ProbeBegins, ODBCQuery, ClearODBC
  <1>2. HandlesOwned' /\ HandleHasRow' /\ ReadyIsRegistered'
    BY <1>1 DEF EngineInv, HandlesOwned, HandleHasRow, ReadyIsRegistered
  <1>3. CASE ProbeBegins(p)
    BY <1>1, <1>2, <1>3 DEF ProbeBegins, EngineInv, EngineTypeOK, ProbeCredentialsErased, StoppedHoldsNothing
  <1>4. CASE ODBCQuery(p)
    BY <1>1, <1>2, <1>4 DEF ODBCQuery, EngineInv, EngineTypeOK, ProbeCredentialsErased, StoppedHoldsNothing
  <1>5. CASE ClearODBC(p)
    BY <1>1, <1>2, <1>5 DEF ClearODBC, EngineInv, EngineTypeOK, ProbeCredentialsErased, StoppedHoldsNothing
  <1>6. QED
    BY <1>3, <1>4, <1>5

(* The invariant is inductive: one case per operation of the engine.        *)
LEMMA NextHolds == EngineInv /\ [EngineNext]_engineVars => EngineInv'
  <1> SUFFICES ASSUME EngineInv, [EngineNext]_engineVars PROVE EngineInv'
    OBVIOUS
  <1>1. CASE StartOK
    BY <1>1, StartHolds
  <1>2. CASE StopEngine
    BY <1>2, StopHolds
  <1>3. ASSUME NEW id \in SourceID, NEW alias \in Alias, AttachAny(id, alias)
        PROVE  EngineInv'
    BY <1>3, AttachHolds
  <1>4. ASSUME NEW id \in SourceID, NEW alias \in Alias, AttachODBCAny(id, alias)
        PROVE  EngineInv'
    BY <1>4, AttachODBCHolds
  <1>5. ASSUME NEW id \in SourceID, NEW alias \in Alias, DetachAny(alias, id)
        PROVE  EngineInv'
    BY <1>5, DetachHolds
  <1>6. ASSUME NEW p \in Probe, ProbeBegins(p) \/ ODBCQuery(p) \/ ClearODBC(p)
        PROVE  EngineInv'
    BY <1>6, ProbeHolds
  <1>7. CASE UNCHANGED engineVars
    BY <1>7, StutterHolds
  <1>8. QED
    BY <1>1, <1>2, <1>3, <1>4, <1>5, <1>6, <1>7 DEF EngineNext, EngineOperation

(* The engine keeps all its invariants, whatever its callers do and        *)
(* whatever fails (engine.go, every operation of Runtime).                 *)
THEOREM EngineSafe == EngineSpec => []EngineInv
  <1>1. EngineInit => EngineInv
    BY InitHolds
  <1>2. EngineInv /\ [EngineNext]_engineVars => EngineInv'
    BY NextHolds
  <1>3. QED
    BY <1>1, <1>2, PTL DEF EngineSpec

(* Type correctness of the engine's state (engine.go, Runtime).            *)
THEOREM EngineTypeCorrect == EngineSpec => []EngineTypeOK
  BY EngineSafe, PTL DEF EngineInv

(* No ODBC handle leaks, none is closed twice or shared (engine.go,        *)
(* AttachODBC, Detach, Stop).                                              *)
THEOREM HandlesNeverLeak == EngineSpec => []HandlesOwned
  BY EngineSafe, PTL DEF EngineInv

(* What Status calls ready is a ready row of the metadata relation         *)
(* (engine.go, recordSource, Attach, Detach).                              *)
THEOREM ReadyNeverLies == EngineSpec => []ReadyIsRegistered
  BY EngineSafe, PTL DEF EngineInv

(* Credentials of a discovery probe end with the probe, and a stopped      *)
(* engine holds none (engine.go, ODBCQuery, ClearODBC, Stop).              *)
THEOREM CredentialsEnd == EngineSpec => [](ProbeCredentialsErased /\ StoppedHoldsNothing)
  BY EngineSafe, PTL DEF EngineInv
=============================================================================
