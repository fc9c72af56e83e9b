------------------------------- MODULE Engine -------------------------------
(***************************************************************************)
(* The embedded DuckDB engine of internal/engine/engine.go: which catalogs *)
(* are attached, the secrets, the two metadata tables, the in-memory       *)
(* source map that Status reads, and the ODBC handles.  Every public       *)
(* operation runs under Runtime.mu, so it is one atomic step; an operation *)
(* that runs several SQL statements has one action per way it can end.     *)
(*                                                                         *)
(* A statement fails only for a reason the code can meet:                  *)
(*   - DuckDB itself refuses it (the catalog exists, the row exists, the   *)
(*     catalog name is taken by another row);                              *)
(*   - the remote database refuses it (parameter "remote" of an action);   *)
(*   - the caller's context ends (parameter "late").  A statement run with *)
(*     context.Background() never fails for that reason.                   *)
(* A call that returns an error before it changes anything is a stuttering *)
(* step.  The rows of quackridge_objects and the database_type column are  *)
(* left out: no statement's outcome depends on them.                       *)
(***************************************************************************)
EXTENDS Integers

CONSTANTS
  SourceID,   \* source identifiers, the staging ones of a reload included
  Alias,      \* catalog names
  Database,   \* what a catalog can be attached to
  Handle,     \* native ODBC connection handles (bounds the open ones)
  Probe,      \* identifiers of ODBC discovery probes
  NONE        \* absent value

ASSUME EngineAssumption == NONE \notin Alias \cup Database \cup Handle

VARIABLES
  running,    \* r.db # nil
  catalogs,   \* DuckDB: alias -> attached database
  secrets,    \* DuckDB: aliases with a secret qr_secret_<alias>
  registry,   \* table quackridge_sources: id -> row
  sources,    \* r.sources: id -> health shown by Status
  handles,    \* r.odbcHandles: id -> handle
  native,     \* handles open in the ODBC driver
  probing,    \* discovery probes whose deferred ClearODBC is pending
  resolver    \* r.odbcResolver.values: probes whose credentials are held

engineVars == <<running, catalogs, secrets, registry, sources,
                handles, native, probing, resolver>>

Health == {"ready", "unavailable"}

NoRow == [catalog |-> NONE, health |-> "none"]
Row == [catalog : Alias, health : Health] \cup {NoRow}

EngineTypeOK ==
  /\ running \in BOOLEAN
  /\ catalogs \in [Alias -> Database \cup {NONE}]
  /\ secrets \subseteq Alias
  /\ registry \in [SourceID -> Row]
  /\ sources \in [SourceID -> Health \cup {"none"}]
  /\ handles \in [SourceID -> Handle \cup {NONE}]
  /\ native \subseteq Handle
  /\ probing \subseteq Probe
  /\ resolver \subseteq Probe

-----------------------------------------------------------------------------
(* Nothing attached, nothing registered: the maps Start makes and Stop     *)
(* drops, the tables of a new database.                                    *)
Blank ==
  /\ catalogs = [a \in Alias |-> NONE]
  /\ secrets = {}
  /\ registry = [i \in SourceID |-> NoRow]
  /\ sources = [i \in SourceID |-> "none"]
  /\ handles = [i \in SourceID |-> NONE]
  /\ native = {}
  /\ resolver = {}

EngineInit ==
  /\ running = FALSE
  /\ Blank
  /\ probing = {}

(* The UNIQUE constraint on catalog_name lets row id name this alias.      *)
Claimable(id, alias) ==
  \A other \in SourceID \ {id} : registry[other].catalog # alias

ReadyRow(alias) == [catalog |-> alias, health |-> "ready"]

(* Faulty variant: a health value outside the two the table's CHECK allows. *)
RecordUnavailableUnchecked(id, alias) ==
  /\ sources' = [sources EXCEPT ![id] = "failed"]
  /\ UNCHANGED registry

(* recordSource(.., "unavailable"): the map always, the row when the       *)
(* constraint allows it; the statement's error is ignored.                 *)
RecordUnavailable(id, alias) ==
  /\ sources' = [sources EXCEPT ![id] = "unavailable"]
  /\ registry' = IF Claimable(id, alias)
                 THEN [registry EXCEPT ![id] =
                         [catalog |-> alias, health |-> "unavailable"]]
                 ELSE registry

WithSecret(alias, sec) == IF sec THEN secrets \cup {alias} ELSE secrets
WithoutSecret(alias, sec) == IF sec THEN secrets \ {alias} ELSE secrets

CloseHandle(id) ==
  /\ native' = native \ {handles[id]}
  /\ handles' = [handles EXCEPT ![id] = NONE]

-----------------------------------------------------------------------------
(* Start: a failure closes what was opened and leaves the runtime as it    *)
(* was.                                                                    *)
StartOK ==
  /\ ~running
  /\ running' = TRUE
  /\ catalogs' = [a \in Alias |-> NONE]
  /\ secrets' = {}
  /\ registry' = [i \in SourceID |-> NoRow]
  /\ sources' = [i \in SourceID |-> "none"]
  /\ handles' = [i \in SourceID |-> NONE]
  /\ resolver' = {}
  /\ UNCHANGED <<native, probing>>

(* Stop: every ODBC handle is closed, then the database; the fields are    *)
(* cleared whatever the statements return.                                 *)
StopEngine ==
  /\ running
  /\ running' = FALSE
  /\ native' = native \ {handles[i] : i \in SourceID}
  /\ catalogs' = [a \in Alias |-> NONE]
  /\ secrets' = {}
  /\ registry' = [i \in SourceID |-> NoRow]
  /\ sources' = [i \in SourceID |-> "none"]
  /\ handles' = [i \in SourceID |-> NONE]
  /\ resolver' = {}
  /\ UNCHANGED probing

-----------------------------------------------------------------------------
(* Attach (file and remote SQL connectors).  sec: the attachment carries a *)
(* secret.                                                                 *)
Attach(id, alias, db, sec) ==
  /\ running
  /\ catalogs[alias] = NONE
  /\ Claimable(id, alias)
  /\ catalogs' = [catalogs EXCEPT ![alias] = db]
  /\ secrets' = WithSecret(alias, sec)
  /\ registry' = [registry EXCEPT ![id] = ReadyRow(alias)]
  /\ sources' = [sources EXCEPT ![id] = "ready"]
  /\ UNCHANGED <<running, handles, native, probing, resolver>>

(* The connector extension or the CREATE SECRET failed: no ATTACH was run. *)
AttachUnprepared(id, alias, remote, late) ==
  /\ running
  /\ remote \/ late
  /\ RecordUnavailable(id, alias)
  /\ UNCHANGED <<running, catalogs, secrets, handles, native, probing, resolver>>

(* The ATTACH statement failed, also because the name is taken: the secret *)
(* of that name is dropped, whoever created it.                            *)
AttachRefused(id, alias, sec, remote, late) ==
  /\ running
  /\ remote \/ late \/ catalogs[alias] # NONE
  /\ RecordUnavailable(id, alias)
  /\ secrets' = WithoutSecret(alias, sec)
  /\ UNCHANGED <<running, catalogs, handles, native, probing, resolver>>

(* Attached, but the row was refused: detached again, and only detached.   *)
AttachUnregistered(id, alias, sec, late) ==
  /\ running
  /\ catalogs[alias] = NONE
  /\ late \/ ~Claimable(id, alias)
  /\ secrets' = WithSecret(alias, sec)
  /\ UNCHANGED <<running, catalogs, registry, sources, handles, native, probing, resolver>>

(* Attached and registered 'ready', but the object rows were refused:      *)
(* detached again, the row stays.                                          *)
AttachUndescribed(id, alias, sec, late) ==
  /\ running
  /\ catalogs[alias] = NONE
  /\ Claimable(id, alias)
  /\ late
  /\ secrets' = WithSecret(alias, sec)
  /\ registry' = [registry EXCEPT ![id] = ReadyRow(alias)]
  /\ UNCHANGED <<running, catalogs, sources, handles, native, probing, resolver>>

-----------------------------------------------------------------------------
(* Faulty variant: the row is INSERTed with ON CONFLICT, as Attach does.   *)
AttachODBCReplacing(id, alias, db) ==
  /\ running
  /\ catalogs[alias] = NONE
  /\ Claimable(id, alias)
  /\ \E h \in Handle \ native :
       /\ native' = native \cup {h}
       /\ handles' = [handles EXCEPT ![id] = h]
  /\ catalogs' = [catalogs EXCEPT ![alias] = db]
  /\ registry' = [registry EXCEPT ![id] = ReadyRow(alias)]
  /\ sources' = [sources EXCEPT ![id] = "ready"]
  /\ UNCHANGED <<running, secrets, probing, resolver>>

(* AttachODBC: the row is INSERTed without ON CONFLICT.                    *)
AttachODBC(id, alias, db) ==
  /\ running
  /\ catalogs[alias] = NONE
  /\ registry[id] = NoRow
  /\ Claimable(id, alias)
  /\ \E h \in Handle \ native :
       /\ native' = native \cup {h}
       /\ handles' = [handles EXCEPT ![id] = h]
  /\ catalogs' = [catalogs EXCEPT ![alias] = db]
  /\ registry' = [registry EXCEPT ![id] = ReadyRow(alias)]
  /\ sources' = [sources EXCEPT ![id] = "ready"]
  /\ UNCHANGED <<running, secrets, probing, resolver>>

(* Any failure up to the INSERT: the new catalog is detached and the new   *)
(* handle closed, so nothing is left and nothing is recorded.              *)
AttachODBCRefused(id, alias, remote, late) ==
  /\ \/ ~running
     \/ remote
     \/ late
     \/ catalogs[alias] # NONE
     \/ registry[id] # NoRow
     \/ ~Claimable(id, alias)
  /\ UNCHANGED engineVars

(* The object rows were refused after the INSERT: the 'ready' row stays.   *)
AttachODBCUndescribed(id, alias, late) ==
  /\ running
  /\ late
  /\ catalogs[alias] = NONE
  /\ registry[id] = NoRow
  /\ Claimable(id, alias)
  /\ registry' = [registry EXCEPT ![id] = ReadyRow(alias)]
  /\ UNCHANGED <<running, catalogs, secrets, sources, handles, native, probing, resolver>>

-----------------------------------------------------------------------------
(* Detach: DETACH decides the result; the secret and then the row are      *)
(* removed with the same context and their errors ignored, so a context    *)
(* that ends part of the way leaves the row, or both.                      *)
DetachCatalog(alias) ==
  /\ running
  /\ catalogs[alias] # NONE
  /\ catalogs' = [catalogs EXCEPT ![alias] = NONE]

(* Faulty variant: the source stays in the map that Status reads.          *)
ForgetHandleOnly(id) ==
  /\ CloseHandle(id)
  /\ UNCHANGED <<running, sources, probing, resolver>>

ForgetSource(id) ==
  /\ sources' = [sources EXCEPT ![id] = "none"]
  /\ CloseHandle(id)
  /\ UNCHANGED <<running, probing, resolver>>

(* Faulty variant: the row survives the detach.                            *)
DetachKeepingRow(alias, id) ==
  /\ DetachCatalog(alias)
  /\ secrets' = secrets \ {alias}
  /\ UNCHANGED registry
  /\ ForgetSource(id)

Detach(alias, id) ==
  /\ DetachCatalog(alias)
  /\ secrets' = secrets \ {alias}
  /\ registry' = [registry EXCEPT ![id] = NoRow]
  /\ ForgetSource(id)

DetachCutShort(alias, id) ==
  /\ DetachCatalog(alias)
  /\ UNCHANGED registry
  /\ secrets' \in {secrets, secrets \ {alias}}
  /\ ForgetSource(id)

DetachRefused(alias, late) ==
  /\ ~running \/ late \/ catalogs[alias] = NONE
  /\ UNCHANGED engineVars

-----------------------------------------------------------------------------
(* discover and Health of the ODBC adapter: ODBCQuery hands the probe's    *)
(* credentials to the resolver, the deferred ClearODBC takes them back.    *)
ProbeBegins(p) ==
  /\ p \notin probing
  /\ probing' = probing \cup {p}
  /\ UNCHANGED <<running, catalogs, secrets, registry, sources, handles, native, resolver>>

ODBCQuery(p) ==
  /\ running
  /\ p \in probing
  /\ resolver' = resolver \cup {p}
  /\ UNCHANGED <<running, catalogs, secrets, registry, sources, handles, native, probing>>

(* Faulty variant: the credentials of the probe stay in the resolver.      *)
EndProbe(p) ==
  /\ p \in probing
  /\ probing' = probing \ {p}
  /\ UNCHANGED <<running, catalogs, secrets, registry, sources, handles, native, resolver>>

ClearODBC(p) ==
  /\ p \in probing
  /\ probing' = probing \ {p}
  /\ resolver' = resolver \ {p}
  /\ UNCHANGED <<running, catalogs, secrets, registry, sources, handles, native>>

-----------------------------------------------------------------------------
(* The engine under callers that may use any operation at any time, with   *)
(* any failure.                                                            *)
AttachAny(id, alias) ==
  \E sec \in BOOLEAN :
    \/ \E db \in Database : Attach(id, alias, db, sec)
    \/ AttachUnprepared(id, alias, TRUE, TRUE)
    \/ AttachRefused(id, alias, sec, TRUE, TRUE)
    \/ AttachUnregistered(id, alias, sec, TRUE)
    \/ AttachUndescribed(id, alias, sec, TRUE)

AttachODBCAny(id, alias) ==
  \/ \E db \in Database : AttachODBC(id, alias, db)
  \/ AttachODBCRefused(id, alias, TRUE, TRUE)
  \/ AttachODBCUndescribed(id, alias, TRUE)

DetachAny(alias, id) ==
  \/ Detach(alias, id)
  \/ DetachCutShort(alias, id)
  \/ DetachRefused(alias, TRUE)

EngineOperation ==
  \/ \E id \in SourceID, alias \in Alias :
       \/ AttachAny(id, alias)
       \/ AttachODBCAny(id, alias)
       \/ DetachAny(alias, id)
  \/ \E p \in Probe : ProbeBegins(p) \/ ODBCQuery(p) \/ ClearODBC(p)

EngineNext == StartOK \/ StopEngine \/ EngineOperation

EngineSpec == EngineInit /\ [][EngineNext]_engineVars

-----------------------------------------------------------------------------
(* Every handle open in the ODBC driver belongs to exactly one source of   *)
(* the map that Detach and Stop close from, and no source keeps a handle   *)
(* that is closed: over any sequence of attaches, failures, cut-short      *)
(* detaches and restarts nothing leaks and nothing is closed twice         *)
(* (engine.go, AttachODBC, Detach, Stop).                                  *)
HandlesOwned ==
  /\ \A h \in native : \E i \in SourceID : handles[i] = h
  /\ \A i \in SourceID : handles[i] # NONE => handles[i] \in native
  /\ \A i, j \in SourceID : handles[i] # NONE /\ handles[i] = handles[j] => i = j

(* A source with an open handle has a row: the row makes the INSERT of a   *)
(* second AttachODBC of that source fail before it overwrites the handle.  *)
HandleHasRow ==
  \A i \in SourceID : handles[i] # NONE => registry[i] # NoRow

(* What Status calls ready, the metadata relation calls ready too: the     *)
(* in-memory map and the table, updated by different statements with       *)
(* different contexts and ignored errors, never disagree in that direction *)
(* (engine.go, recordSource and Detach).                                   *)
ReadyIsRegistered ==
  \A i \in SourceID : sources[i] = "ready" => registry[i].health = "ready"

(* Credentials handed to the resolver for a discovery probe are gone when  *)
(* the probe is over, even when the engine stopped or restarted in between *)
(* (engine.go, ODBCQuery and ClearODBC; odbc.go, discover and Health).     *)
ProbeCredentialsErased == resolver \subseteq probing

(* A stopped engine holds no native handle and no credential.              *)
StoppedHoldsNothing ==
  ~running => native = {} /\ secrets = {} /\ resolver = {}

EngineInv ==
  /\ EngineTypeOK
  /\ HandlesOwned
  /\ HandleHasRow
  /\ ReadyIsRegistered
  /\ ProbeCredentialsErased
  /\ StoppedHoldsNothing
=============================================================================
