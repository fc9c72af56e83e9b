---------------------------- MODULE ConfigStore -----------------------------
(***************************************************************************)
(* internal/config: the configuration file with its backup, and the        *)
(* operations of config.Service that keep the file and the platform's      *)
(* credential store together.  Every `quackridge source ...` command is a  *)
(* process of its own and there is no lock between them, nor with the      *)
(* daemon that loads the file, so each file access, each credential call   *)
(* and each rename is a step.                                              *)
(*                                                                         *)
(* Faults: a process is killed between two steps; a file or credential     *)
(* operation fails; the directory sync that follows a rename fails         *)
(* although the file has been replaced; something else tears the file.     *)
(***************************************************************************)
EXTENDS Integers, FiniteSets

CONSTANTS
  Proc,         \* processes that run commands
  Source,       \* [id, alias, secret]: secret if it has a credential_ref,
                \* which the CLI derives from the id
  ABSENT, TORN, \* a file that does not exist, one that does not decode
  MaxCrashes,   \* bound: killed processes
  MaxFaults,    \* bound: failing file and credential operations
  SyncFaults,   \* whether a fault may be a failed sync after a rename
  MaxDamage     \* bound: how often something else tears the file

Document == [version : {0, 1}, sources : SUBSET Source]

(* Faulty variant: a version that Load does not know.                      *)
NextVersion(S) == [version |-> 2, sources |-> S]

Current(S) == [version |-> 1, sources |-> S]

ASSUME ConfigAssumption ==
  /\ ABSENT # TORN
  /\ {ABSENT, TORN} \cap Document = {}
  /\ MaxCrashes \in Nat /\ MaxFaults \in Nat /\ MaxDamage \in Nat
  /\ SyncFaults \in BOOLEAN

VARIABLES
  primary,      \* config.json
  backup,       \* config.json.bak
  credentials,  \* ids whose credential is in the credential store
  proc,         \* what each process is doing
  acked,        \* history: sources whose Add returned nil, not removed since
  crashes, faults, damage

vars == <<primary, backup, credentials, proc, acked, crashes, faults, damage>>

Distinct(S) == \A s, t \in S : s # t => s.id # t.id /\ s.alias # t.alias

(* Faulty variant: only identifiers are compared.                          *)
ValidIds(S) == \A s, t \in S : s.id = t.id => s = t

(* Document.Validate: identifiers and aliases are unique (a credential     *)
(* reference is unique because it is derived from the identifier).         *)
Valid(S) == ValidIds(S) /\ \A s, t \in S : s.alias = t.alias => s = t

(* What Load returns to a reader now; TORN if it returns an error.         *)
Visible ==
  CASE primary = ABSENT -> {}
    [] primary = TORN -> IF backup \in {ABSENT, TORN} THEN TORN ELSE backup.sources
    [] OTHER -> primary.sources

(* A process between two commands, and how its last one ended.             *)
Resting(op, result, start) ==
  [pc |-> "idle", op |-> op, result |-> result, start |-> start,
   target |-> {}, looked |-> FALSE, store |-> FALSE,
   loaded |-> {}, candidate |-> {}, purpose |-> "none", held |-> ABSENT]

Init ==
  /\ \/ primary = ABSENT
     \/ \E S \in SUBSET Source : Distinct(S) /\ primary \in {Current(S), [version |-> 0, sources |-> S]}
  /\ backup = ABSENT
  /\ credentials = IF primary = ABSENT THEN {}
                   ELSE {s.id : s \in {t \in primary.sources : t.secret}}
  /\ proc = [p \in Proc |-> Resting("none", "none", {})]
  /\ acked = {}
  /\ crashes = 0
  /\ faults = 0
  /\ damage = 0

-----------------------------------------------------------------------------
(* The local state r of a process after a step.                            *)
Finish(r, result) == Resting(r.op, result, r.start)

SaveThe(r, S, purpose) ==
  [r EXCEPT !.pc = "save", !.candidate = S, !.purpose = purpose, !.held = ABSENT]

Goes(p, r) == proc' = [proc EXCEPT ![p] = r]

(* Faulty variant: a source is removed by its alias.                       *)
NamedByAlias(S, r) == {s \in S : \E t \in r.target : s.alias = t.alias}

Named(S, r) == {s \in S : \E t \in r.target : s.id = t.id}

(* Faulty variant: the credential is never stored.                         *)
AddWithoutPut(r, S) ==
  IF Valid(S \cup r.target)
  THEN SaveThe([r EXCEPT !.loaded = S], S \cup r.target, "add")
  ELSE Finish(r, "error")

(* Add after Load: Document.Validate on the candidate, then Put, then Save. *)
AddAfterLoad(r, S) ==
  LET next == SaveThe([r EXCEPT !.loaded = S], S \cup r.target, "add")
  IN IF r.target \subseteq S \/ ~Valid(S \cup r.target) THEN Finish(r, "error")
     ELSE IF \E t \in r.target : t.secret THEN [next EXCEPT !.pc = "put"]
     ELSE next

(* sourceRemove loads once to learn whether it needs the credential store, *)
(* Remove loads again.                                                     *)
RemoveAfterLoad(r, S) ==
  IF ~r.looked
  THEN [r EXCEPT !.pc = "load", !.looked = TRUE, !.store = \E s \in Named(S, r) : s.secret]
  ELSE IF Named(S, r) = {}
       THEN Finish(r, "error")
       ELSE SaveThe([r EXCEPT !.loaded = S], S \ Named(S, r), "remove")

AfterLoad(r, S) ==
  CASE r.op = "read" -> Finish(r, "ok")
    [] r.op = "add" -> AddAfterLoad(r, S)
    [] r.op = "remove" -> RemoveAfterLoad(r, S)

AfterSave(r) ==
  CASE r.purpose = "migrate" -> AfterLoad(r, r.candidate)
    [] r.purpose = "add" -> Finish(r, "ok")
    [] r.purpose = "revert" -> Finish(r, "error")
    [] r.purpose = "remove" ->
         IF \A s \in Named(r.loaded, r) : ~s.secret THEN Finish(r, "ok")
         ELSE IF r.store THEN [r EXCEPT !.pc = "delete"]
         ELSE SaveThe(r, r.loaded, "revert")

AfterSaveError(r) ==
  IF r.purpose = "add" /\ \E t \in r.target : t.secret
  THEN [r EXCEPT !.pc = "undoPut"]
  ELSE Finish(r, "error")

-----------------------------------------------------------------------------
Begin(p, op, target) ==
  /\ proc[p].pc = "idle"
  /\ Goes(p, [Resting(op, "none", Visible) EXCEPT !.pc = "load", !.target = target])

BeginRead(p) ==
  /\ Begin(p, "read", {})
  /\ UNCHANGED <<primary, backup, credentials, acked, crashes, faults, damage>>

BeginAdd(p, s) ==
  /\ Begin(p, "add", {s})
  /\ UNCHANGED <<primary, backup, credentials, acked, crashes, faults, damage>>

BeginRemove(p, s) ==
  /\ Begin(p, "remove", {s})
  /\ acked' = {t \in acked : t.id # s.id}
  /\ UNCHANGED <<primary, backup, credentials, crashes, faults, damage>>

(* One failing operation.                                                  *)
Fault ==
  /\ faults < MaxFaults
  /\ faults' = faults + 1

(* Load, first read.  A version 0 document is migrated and saved.          *)
Load(p) ==
  /\ proc[p].pc = "load"
  /\ LET r == proc[p] IN
     CASE primary = ABSENT -> Goes(p, AfterLoad(r, {}))
       [] primary = TORN -> Goes(p, [r EXCEPT !.pc = "recover"])
       [] OTHER ->
            IF ~Valid(primary.sources) THEN Goes(p, Finish(r, "error"))
            ELSE IF primary.version = 0 THEN Goes(p, SaveThe(r, primary.sources, "migrate"))
            ELSE Goes(p, AfterLoad(r, primary.sources))
  /\ UNCHANGED <<primary, backup, credentials, acked, crashes, faults, damage>>

(* Load, the backup after the primary did not decode.                      *)
Recover(p) ==
  /\ proc[p].pc = "recover"
  /\ LET r == proc[p] IN
     IF backup \in {ABSENT, TORN} THEN Goes(p, Finish(r, "error"))
     ELSE IF ~Valid(backup.sources) THEN Goes(p, Finish(r, "error"))
     ELSE Goes(p, AfterLoad(r, backup.sources))
  /\ UNCHANGED <<primary, backup, credentials, acked, crashes, faults, damage>>

(* The command gives up before it has changed anything: the source does    *)
(* not validate, the credential store is not available.                    *)
GiveUp(p) ==
  /\ proc[p].op # "read"
  /\ \/ proc[p].pc = "load"
     \/ proc[p].pc = "recover"
     \/ proc[p].pc = "put"
  /\ Goes(p, Finish(proc[p], "error"))
  /\ UNCHANGED <<primary, backup, credentials, acked, crashes, faults, damage>>

PutCredential(p) ==
  /\ proc[p].pc = "put"
  /\ Goes(p, [proc[p] EXCEPT !.pc = "save"])
  /\ credentials' = credentials \cup {t.id : t \in proc[p].target}
  /\ UNCHANGED <<primary, backup, acked, crashes, faults, damage>>

(* Save: the present file is read for the backup.                          *)
SaveReads(p) ==
  /\ proc[p].pc = "save"
  /\ LET r == proc[p] IN
     IF ~Valid(r.candidate) THEN Goes(p, AfterSaveError(r))
     ELSE IF primary = ABSENT THEN Goes(p, [r EXCEPT !.pc = "install"])
     ELSE Goes(p, [r EXCEPT !.pc = "backup", !.held = primary])
  /\ UNCHANGED <<primary, backup, credentials, acked, crashes, faults, damage>>

(* writeAtomic: a failure before the rename leaves the file alone, a       *)
(* failed directory sync comes after it.                                   *)
WriteBackup(p) ==
  /\ proc[p].pc = "backup"
  /\ \/ /\ backup' = proc[p].held
        /\ Goes(p, [proc[p] EXCEPT !.pc = "install"])
        /\ UNCHANGED faults
     \/ /\ Fault
        /\ backup' \in {backup} \cup {proc[p].held : x \in {y \in {1} : SyncFaults}}
        /\ Goes(p, AfterSaveError(proc[p]))
  /\ UNCHANGED <<primary, credentials, acked, crashes, damage>>

Acknowledge(r) == IF r.purpose = "add" THEN acked \cup r.target ELSE acked

(* Faulty variant: the file is truncated and written in place.             *)
InstallInPlace(p) ==
  /\ proc[p].pc = "install"
  /\ \/ /\ primary' = Current(proc[p].candidate)
        /\ Goes(p, AfterSave(proc[p]))
        /\ acked' = Acknowledge(proc[p])
        /\ UNCHANGED faults
     \/ /\ Fault
        /\ primary' = TORN
        /\ Goes(p, AfterSaveError(proc[p]))
        /\ UNCHANGED acked
  /\ UNCHANGED <<backup, credentials, crashes, damage>>

Install(p) ==
  /\ proc[p].pc = "install"
  /\ \/ /\ primary' = Current(proc[p].candidate)
        /\ Goes(p, AfterSave(proc[p]))
        /\ acked' = Acknowledge(proc[p])
        /\ UNCHANGED faults
     \/ /\ Fault
        /\ \/ UNCHANGED primary
           \/ SyncFaults /\ primary' = Current(proc[p].candidate)
        /\ Goes(p, AfterSaveError(proc[p]))
        /\ UNCHANGED acked
  /\ UNCHANGED <<backup, credentials, crashes, damage>>

(* Add compensates a failed Save; the error of Delete is ignored.          *)
UndoPut(p) ==
  /\ proc[p].pc = "undoPut"
  /\ Goes(p, Finish(proc[p], "error"))
  /\ \/ credentials' = credentials \ {t.id : t \in proc[p].target} /\ UNCHANGED faults
     \/ Fault /\ UNCHANGED credentials
  /\ UNCHANGED <<primary, backup, acked, crashes, damage>>

(* Faulty variant: the failed Delete is not compensated.                   *)
DeleteForGood(p) ==
  /\ proc[p].pc = "delete"
  /\ LET ids == {t.id : t \in proc[p].target} IN
     \/ /\ credentials' = credentials \ ids
        /\ Goes(p, Finish(proc[p], "ok"))
        /\ UNCHANGED faults
     \/ /\ Fault
        /\ Goes(p, Finish(proc[p], "error"))
        /\ UNCHANGED credentials
  /\ UNCHANGED <<primary, backup, acked, crashes, damage>>

(* Remove deletes the credential last and puts the document back if that   *)
(* fails, also because there was none (ErrNotFound).                       *)
DeleteCredential(p) ==
  /\ proc[p].pc = "delete"
  /\ LET r == proc[p]
         ids == {t.id : t \in r.target}
     IN \/ /\ ids \subseteq credentials
           /\ credentials' = credentials \ ids
           /\ Goes(p, Finish(r, "ok"))
           /\ UNCHANGED faults
        \/ /\ \/ ~(ids \subseteq credentials) /\ UNCHANGED faults
              \/ Fault
           /\ Goes(p, SaveThe(r, r.loaded, "revert"))
           /\ UNCHANGED credentials
  /\ UNCHANGED <<primary, backup, acked, crashes, damage>>

Crash(p) ==
  /\ proc[p].pc # "idle"
  /\ crashes < MaxCrashes
  /\ crashes' = crashes + 1
  /\ Goes(p, Resting("none", "none", {}))
  /\ UNCHANGED <<primary, backup, credentials, acked, faults, damage>>

(* Something else leaves a truncated file behind.                          *)
Tear ==
  /\ primary \notin {ABSENT, TORN}
  /\ damage < MaxDamage
  /\ damage' = damage + 1
  /\ primary' = TORN
  /\ UNCHANGED <<backup, credentials, proc, acked, crashes, faults>>

Step(p) ==
  \/ BeginRead(p)
  \/ \E s \in Source : BeginAdd(p, s) \/ BeginRemove(p, s)
  \/ Load(p)
  \/ Recover(p)
  \/ GiveUp(p)
  \/ PutCredential(p)
  \/ SaveReads(p)
  \/ WriteBackup(p)
  \/ Install(p)
  \/ UndoPut(p)
  \/ DeleteCredential(p)
  \/ Crash(p)

Next == Tear \/ \E p \in Proc : Step(p)

Spec == Init /\ [][Next]_vars

-----------------------------------------------------------------------------
Quiet == \A p \in Proc : proc[p].pc = "idle"

Place == {"idle", "load", "recover", "put", "save", "backup", "install", "undoPut", "delete"}
Local ==
  [pc : Place, op : {"none", "read", "add", "remove"}, result : {"none", "ok", "error"},
   start : (SUBSET Source) \cup {TORN}, target : SUBSET Source, looked : BOOLEAN, store : BOOLEAN,
   loaded : SUBSET Source, candidate : SUBSET Source,
   purpose : {"none", "migrate", "add", "remove", "revert"}, held : Document \cup {ABSENT, TORN}]

TypeOK ==
  /\ primary \in Document \cup {ABSENT, TORN}
  /\ backup \in Document \cup {ABSENT, TORN}
  /\ credentials \subseteq {s.id : s \in Source}
  /\ proc \in [Proc -> Local]
  /\ acked \subseteq Source
  /\ crashes \in 0..MaxCrashes /\ faults \in 0..MaxFaults /\ damage \in 0..MaxDamage

(* However many commands interleave, fail or are killed, no file of the    *)
(* store ever holds two sources with one identifier or one alias           *)
(* (config.go, Validate, Save; service.go, Add).                           *)
FilesAreValid ==
  \A f \in {primary, backup} \ {ABSENT, TORN} : Distinct(f.sources)

(* No command leaves a truncated file, whenever it is killed and whatever  *)
(* fails (config.go, writeAtomic).                                         *)
NeverTorn == damage = 0 => primary # TORN /\ backup # TORN

(* One command at a time: a source whose Add returned nil is there for     *)
(* every later Load until somebody removes it, across crashes and failures *)
(* of later commands (config.go, Save; service.go, Add and Remove).        *)
AcknowledgedStays ==
  Visible # TORN => acked \subseteq Visible

(* One command at a time and one failing operation: a command that returns *)
(* an error has left the sources as it found them, the ones it had already *)
(* changed put back (service.go, Add and Remove).                          *)
OneFaultCompensated ==
  \A p \in Proc :
    proc[p].pc = "idle" /\ proc[p].result = "error" => Visible = proc[p].start

(* The store can be loaded whenever no command runs, even after the file   *)
(* was torn once: there is always a backup that decodes                    *)
(* (config.go, Load and Save).                                             *)
LoadableWhenQuiet ==
  Quiet /\ damage <= 1 /\ backup # ABSENT => Visible # TORN

(* One command at a time, without failed syncs: the files and the          *)
(* credential store together behave like the abstract registry.            *)
Abstract == INSTANCE Registry WITH sources <- Visible
ImplementsRegistry == Abstract!Spec
=============================================================================
