---------------------------- MODULE ConfigProofs ----------------------------
(***************************************************************************)
(* Proofs about ConfigStore for any set of processes and any bounds: no    *)
(* interleaving of commands, failures and kills lets an invalid or a       *)
(* truncated document reach a file.  With one command at a time, what was  *)
(* acknowledged stays; with one fault, a command that fails leaves the     *)
(* document it found; and without failed syncs, whatever else fails, the   *)
(* store implements the abstract registry.                                 *)
(***************************************************************************)
EXTENDS ConfigStore, TLAPS

(* What a process holds between its steps.  A command that runs knows its  *)
(* operation and, once it saves, the purpose of the Save; a candidate that *)
(* is about to be written passed Validate; what was read for the backup is *)
(* a document, and a torn one only if something else tore it.              *)
Sound(r) ==
  /\ r.pc # "idle" => r.op # "none"
  /\ r.pc \in {"put", "save", "backup", "install", "delete"} => r.purpose # "none"
  /\ r.pc \in {"backup", "install"} => Distinct(r.candidate)
  /\ r.held \notin {ABSENT, TORN} => Distinct(r.held.sources)
  /\ damage = 0 => r.held # TORN

ConfigInv ==
  /\ TypeOK
  /\ FilesAreValid
  /\ NeverTorn
  /\ \A p \in Proc : Sound(proc[p])

(* The state in which a command continues: well formed and sound, and not  *)
(* yet entitled to write a file.                                           *)
Continues(r) == r \in Local /\ Sound(r) /\ r.pc \notin {"backup", "install"}

-----------------------------------------------------------------------------
(* Validate, read as the property the files must have.                     *)
LEMMA ValidIsDistinct ==
  ASSUME NEW S \in SUBSET Source
  PROVE  Valid(S) <=> Distinct(S)
BY DEF Valid, ValidIds, Distinct

(* Load returns sources or an error.                                       *)
LEMMA VisibleType == TypeOK => Visible \in (SUBSET Source) \cup {TORN}
<1> SUFFICES ASSUME TypeOK PROVE Visible \in (SUBSET Source) \cup {TORN}
  OBVIOUS
<1>1. \A f \in (Document \cup {ABSENT, TORN}) \ {ABSENT, TORN} : f.sources \in SUBSET Source
  BY DEF Document
<1>2. primary \notin {ABSENT, TORN} => primary.sources \in SUBSET Source
  BY <1>1 DEF TypeOK
<1>3. backup \notin {ABSENT, TORN} => backup.sources \in SUBSET Source
  BY <1>1 DEF TypeOK
<1> QED BY <1>2, <1>3 DEF Visible

(* A command that has ended.                                               *)
LEMMA FinishContinues ==
  ASSUME ConfigAssumption, NEW r \in Local, NEW x \in {"ok", "error"}
  PROVE  Continues(Finish(r, x))
BY DEF Continues, Sound, Finish, Resting, Local, Place, ConfigAssumption

(* A Save that begins.                                                     *)
LEMMA SaveContinues ==
  ASSUME ConfigAssumption, NEW r \in Local, r.op # "none", NEW S \in SUBSET Source,
         NEW w \in {"migrate", "add", "remove", "revert"}
  PROVE  /\ Continues(SaveThe(r, S, w))
         /\ SaveThe(r, S, w).op = r.op
         /\ SaveThe(r, S, w).purpose = w
BY DEF Continues, Sound, SaveThe, Local, Place, ConfigAssumption

(* What follows a successful Load (service.go, Add and Remove).            *)
LEMMA AfterLoadContinues ==
  ASSUME ConfigAssumption, NEW r \in Local, Sound(r), r.op # "none",
         NEW S \in SUBSET Source
  PROVE  Continues(AfterLoad(r, S))
<1> DEFINE q == [r EXCEPT !.loaded = S]
<1>1. q \in Local /\ q.op = r.op
  BY DEF Local
<1>2. Named(S, r) \in SUBSET Source
  BY DEF Named
<1>3. r.target \in SUBSET Source
  BY DEF Local
<1>4. Continues(Finish(r, "ok")) /\ Continues(Finish(r, "error"))
  BY FinishContinues
<1>5. CASE r.op = "read"
  BY <1>4, <1>5 DEF AfterLoad
<1>6. CASE r.op = "add"
  <2> DEFINE n == SaveThe(q, S \cup r.target, "add")
  <2>0. S \cup r.target \in SUBSET Source
    BY <1>3
  <2>1. Continues(n) /\ n.op = r.op /\ n.purpose = "add"
    BY <1>1, <2>0, SaveContinues
  <2> HIDE DEF n
  <2>2. Continues([n EXCEPT !.pc = "put"])
    BY <2>1, <1>6 DEF Continues, Sound, Local, Place
  <2> USE DEF n
  <2>3. AfterLoad(r, S) = AddAfterLoad(r, S)
    BY <1>6 DEF AfterLoad
  <2> QED BY <2>1, <2>2, <2>3, <1>4 DEF AddAfterLoad
<1>7. CASE r.op = "remove"
  <2> DEFINE m(b) == [r EXCEPT !.pc = "load", !.looked = TRUE, !.store = b]
  <2>1. \A b \in BOOLEAN : Continues(m(b))
    BY <1>7 DEF Continues, Sound, Local, Place
  <2>2. Continues(SaveThe(q, S \ Named(S, r), "remove"))
    BY <1>1, <1>2, SaveContinues
  <2>3. AfterLoad(r, S) = RemoveAfterLoad(r, S)
    BY <1>7 DEF AfterLoad
  <2>4. (\E s \in Named(S, r) : s.secret) \in BOOLEAN
    OBVIOUS
  <2> QED BY <2>1, <2>2, <2>3, <2>4, <1>4 DEF RemoveAfterLoad
<1> QED BY <1>5, <1>6, <1>7 DEF Local

(* What follows a Save (config.go, Load; service.go, Add and Remove).      *)
LEMMA AfterSaveContinues ==
  ASSUME ConfigAssumption, NEW r \in Local, Sound(r), r.pc \in {"save", "backup", "install"}
  PROVE  Continues(AfterSave(r)) /\ Continues(AfterSaveError(r))
<1>1. r.op # "none" /\ r.purpose # "none" /\ r.candidate \in SUBSET Source /\ r.loaded \in SUBSET Source
  BY DEF Sound, Local
<1>2. Continues(Finish(r, "ok")) /\ Continues(Finish(r, "error"))
  BY FinishContinues
<1>3. Continues(AfterSaveError(r))
  <2>1. Continues([r EXCEPT !.pc = "undoPut"])
    BY <1>1 DEF Continues, Sound, Local, Place
  <2> QED BY <2>1, <1>2 DEF AfterSaveError
<1>4. CASE r.purpose = "migrate"
  BY <1>1, <1>3, <1>4, AfterLoadContinues DEF AfterSave
<1>5. CASE r.purpose \in {"add", "revert"}
  BY <1>2, <1>3, <1>5 DEF AfterSave
<1>6. CASE r.purpose = "remove"
  <2>1. Continues([r EXCEPT !.pc = "delete"])
    BY <1>1 DEF Continues, Sound, Local, Place
  <2>2. Continues(SaveThe(r, r.loaded, "revert"))
    BY <1>1, SaveContinues
  <2> QED BY <2>1, <2>2, <1>2, <1>3, <1>6 DEF AfterSave
<1> QED BY <1>1, <1>4, <1>5, <1>6 DEF Local

(* A step that moves one process and leaves the files well formed.         *)
LEMMA MoveHolds ==
  ASSUME ConfigInv, NEW p \in Proc, NEW r \in Local, Sound(r), Goes(p, r),
         primary' \in Document \cup {ABSENT, TORN}, backup' \in Document \cup {ABSENT, TORN},
         credentials' \subseteq {s.id : s \in Source}, acked' \subseteq Source,
         crashes' \in 0..MaxCrashes, faults' \in 0..MaxFaults, damage' = damage,
         FilesAreValid', NeverTorn'
  PROVE  ConfigInv'
<1>1. proc' \in [Proc -> Local]
  BY DEF ConfigInv, TypeOK, Goes
<1>2. \A q \in Proc : Sound(proc[q])'
  <2> TAKE q \in Proc
  <2>1. proc'[q] = IF q = p THEN r ELSE proc[q]
    BY DEF ConfigInv, TypeOK, Goes
  <2>2. Sound(r) /\ Sound(proc[q])
    BY DEF ConfigInv
  <2> QED BY <2>1, <2>2 DEF Sound
<1>3. TypeOK'
  BY <1>1 DEF ConfigInv, TypeOK
<1> QED BY <1>2, <1>3 DEF ConfigInv

(* A step that only moves one process.                                     *)
LEMMA LocalMoveHolds ==
  ASSUME ConfigInv, NEW p \in Proc, NEW r \in Local, Sound(r), Goes(p, r),
         UNCHANGED <<primary, backup, credentials, acked, crashes, faults, damage>>
  PROVE  ConfigInv'
<1>1. FilesAreValid' /\ NeverTorn'
  BY DEF ConfigInv, FilesAreValid, NeverTorn
<1> QED BY <1>1, MoveHolds DEF ConfigInv, TypeOK

-----------------------------------------------------------------------------
(* A file that a command reads.                                            *)
LEMMA FileFacts ==
  ASSUME ConfigInv, NEW f \in {primary, backup}, f \notin {ABSENT, TORN}
  PROVE  f \in Document /\ f.sources \in SUBSET Source /\ Distinct(f.sources)
<1>1. f \in Document
  BY DEF ConfigInv, TypeOK
<1>2. Distinct(f.sources)
  BY DEF ConfigInv, FilesAreValid
<1> QED BY <1>1, <1>2 DEF Document

(* A document that is about to be written.                                 *)
LEMMA CurrentFacts ==
  ASSUME ConfigAssumption, NEW S \in SUBSET Source
  PROVE  Current(S) \in Document /\ Current(S) \notin {ABSENT, TORN} /\ Current(S).sources = S
<1>1. Current(S) \in Document /\ Current(S).sources = S
  BY DEF Current, Document
<1> QED BY <1>1 DEF ConfigAssumption

(* Every state a command starts in satisfies the invariant.                *)
LEMMA InitHolds == ConfigAssumption /\ Init => ConfigInv
<1> SUFFICES ASSUME ConfigAssumption, Init PROVE ConfigInv
  OBVIOUS
<1>1. CASE primary = ABSENT
  <2>1. TypeOK
    BY <1>1 DEF Init, TypeOK, Resting, Local, Place, ConfigAssumption
  <2>2. FilesAreValid /\ NeverTorn
    BY <1>1 DEF Init, FilesAreValid, NeverTorn, ConfigAssumption
  <2> QED BY <2>1, <2>2 DEF ConfigInv, Init, Sound, Resting, ConfigAssumption
<1>2. CASE primary # ABSENT
  <2>1. PICK S \in SUBSET Source :
          Distinct(S) /\ primary \in {Current(S), [version |-> 0, sources |-> S]}
    BY <1>2 DEF Init
  <2>2. primary \in Document /\ primary.sources = S
    BY <2>1 DEF Current, Document
  <2>3. primary \notin {ABSENT, TORN}
    BY <2>2 DEF ConfigAssumption
  <2>4. credentials \subseteq {s.id : s \in Source}
    BY <1>2, <2>2 DEF Init
  <2>5. TypeOK
    BY <2>2, <2>4 DEF Init, TypeOK, Resting, Local, Place, ConfigAssumption
  <2>6. FilesAreValid /\ NeverTorn
    BY <2>1, <2>2, <2>3 DEF Init, FilesAreValid, NeverTorn, ConfigAssumption
  <2> QED BY <2>5, <2>6 DEF ConfigInv, Init, Sound, Resting, ConfigAssumption
<1> QED BY <1>1, <1>2

(* A command that begins, reads, gives up or handles a credential.         *)
LEMMA CommandHolds ==
  ASSUME ConfigAssumption, ConfigInv, NEW p \in Proc,
         \/ BeginRead(p)
         \/ \E s \in Source : BeginAdd(p, s) \/ BeginRemove(p, s)
         \/ GiveUp(p) \/ PutCredential(p) \/ UndoPut(p) \/ DeleteCredential(p) \/ Crash(p)
  PROVE  ConfigInv'
<1> DEFINE r == proc[p]
<1>1. r \in Local /\ Sound(r)
  BY DEF ConfigInv, TypeOK
<1>2. FilesAreValid' /\ NeverTorn'
  BY DEF ConfigInv, FilesAreValid, NeverTorn, BeginRead, BeginAdd, BeginRemove, GiveUp,
         PutCredential, UndoPut, DeleteCredential, Crash
<1>3. Continues(Finish(r, "ok")) /\ Continues(Finish(r, "error"))
  BY <1>1, FinishContinues
<1>4. {t.id : t \in r.target} \subseteq {s.id : s \in Source}
  BY <1>1 DEF Local
<1>5. ASSUME NEW op \in {"read", "add", "remove"}, NEW T \in SUBSET Source, Begin(p, op, T),
             acked' \subseteq Source,
             UNCHANGED <<primary, backup, credentials, crashes, faults, damage>>
      PROVE  ConfigInv'
  <2> DEFINE n == [Resting(op, "none", Visible) EXCEPT !.pc = "load", !.target = T]
  <2>1. Visible \in (SUBSET Source) \cup {TORN}
    BY VisibleType DEF ConfigInv
  <2>2. n \in Local /\ Sound(n)
    BY <2>1 DEF Resting, Local, Place, Sound, ConfigAssumption
  <2>3. Goes(p, n)
    BY <1>5 DEF Begin
  <2> HIDE DEF n
  <2> QED BY <1>2, <1>5, <2>2, <2>3, MoveHolds DEF ConfigInv, TypeOK
<1>6. CASE BeginRead(p)
  BY <1>5, <1>6 DEF BeginRead, ConfigInv, TypeOK
<1>7. ASSUME NEW s \in Source, BeginAdd(p, s) PROVE ConfigInv'
  BY <1>5, <1>7 DEF BeginAdd, ConfigInv, TypeOK
<1>8. ASSUME NEW s \in Source, BeginRemove(p, s) PROVE ConfigInv'
  <2>1. acked' \subseteq Source
    BY <1>8 DEF BeginRemove, ConfigInv, TypeOK
  <2> QED BY <1>5, <1>8, <2>1 DEF BeginRemove
<1>9. CASE GiveUp(p)
  BY <1>3, <1>9, LocalMoveHolds DEF GiveUp, Continues
<1>10. CASE PutCredential(p)
  <2> DEFINE n == [r EXCEPT !.pc = "save"]
  <2>1. n \in Local /\ Sound(n)
    BY <1>1, <1>10 DEF PutCredential, Local, Place, Sound
  <2>2. Goes(p, n) /\ credentials' \subseteq {s.id : s \in Source}
    BY <1>4, <1>10 DEF PutCredential, ConfigInv, TypeOK
  <2> HIDE DEF n
  <2> QED BY <1>2, <1>10, <2>1, <2>2, MoveHolds DEF PutCredential, ConfigInv, TypeOK
<1>11. CASE UndoPut(p)
  <2>1. credentials' \subseteq {s.id : s \in Source} /\ faults' \in 0..MaxFaults
    BY <1>11 DEF UndoPut, Fault, ConfigInv, TypeOK, ConfigAssumption
  <2> QED BY <1>2, <1>3, <1>11, <2>1, MoveHolds DEF UndoPut, Continues, ConfigInv, TypeOK
<1>12. CASE DeleteCredential(p)
  <2>1. credentials' \subseteq {s.id : s \in Source} /\ faults' \in 0..MaxFaults
    BY <1>12 DEF DeleteCredential, Fault, ConfigInv, TypeOK, ConfigAssumption
  <2>2. Continues(SaveThe(r, r.loaded, "revert"))
    <3>1. r.op # "none" /\ r.loaded \in SUBSET Source
      BY <1>1, <1>12 DEF DeleteCredential, Sound, Local
    <3> QED BY <1>1, <3>1, SaveContinues
  <2>3. Goes(p, Finish(r, "ok")) \/ Goes(p, SaveThe(r, r.loaded, "revert"))
    BY <1>12 DEF DeleteCredential
  <2> QED BY <1>2, <1>3, <1>12, <2>1, <2>2, <2>3, MoveHolds
          DEF DeleteCredential, Continues, ConfigInv, TypeOK
<1>13. CASE Crash(p)
  <2> DEFINE n == Resting("none", "none", {})
  <2>1. n \in Local /\ Sound(n)
    BY DEF Resting, Local, Place, Sound, ConfigAssumption
  <2>2. Goes(p, n) /\ crashes' \in 0..MaxCrashes
    BY <1>13 DEF Crash, ConfigInv, TypeOK, ConfigAssumption
  <2> HIDE DEF n
  <2> QED BY <1>2, <1>13, <2>1, <2>2, MoveHolds DEF Crash, ConfigInv, TypeOK
<1> QED BY <1>6, <1>7, <1>8, <1>9, <1>10, <1>11, <1>12, <1>13

(* Load: what it returns was validated when it was written.                *)
LEMMA LoadHolds ==
  ASSUME ConfigAssumption, ConfigInv, NEW p \in Proc, Load(p) \/ Recover(p)
  PROVE  ConfigInv'
<1> DEFINE r == proc[p]
<1>1. r \in Local /\ Sound(r) /\ r.op # "none"
  BY DEF ConfigInv, TypeOK, Load, Recover, Sound
<1>2. \A S \in SUBSET Source : Continues(AfterLoad(r, S))
  BY <1>1, AfterLoadContinues
<1>3. Continues(Finish(r, "error"))
  BY <1>1, FinishContinues
<1>4. CASE Load(p)
  <2>1. Continues([r EXCEPT !.pc = "recover"])
    BY <1>1 DEF Continues, Sound, Local, Place
  <2>2. primary \notin {ABSENT, TORN} =>
          primary.sources \in SUBSET Source /\ Continues(SaveThe(r, primary.sources, "migrate"))
    BY <1>1, FileFacts, SaveContinues
  <2>3. \E n : Goes(p, n) /\ Continues(n)
    BY <1>2, <1>3, <1>4, <2>1, <2>2 DEF Load
  <2> QED BY <1>4, <2>3, LocalMoveHolds DEF Load, Continues
<1>5. CASE Recover(p)
  <2>1. backup \notin {ABSENT, TORN} => backup.sources \in SUBSET Source
    BY FileFacts
  <2>2. \E n : Goes(p, n) /\ Continues(n)
    BY <1>2, <1>3, <1>5, <2>1 DEF Recover
  <2> QED BY <1>5, <2>2, LocalMoveHolds DEF Recover, Continues
<1> QED BY <1>4, <1>5

(* Save: the candidate is validated before anything is written, the        *)
(* backup is the document that was read.                                   *)
LEMMA SaveHolds ==
  ASSUME ConfigAssumption, ConfigInv, NEW p \in Proc,
         SaveReads(p) \/ WriteBackup(p) \/ Install(p)
  PROVE  ConfigInv'
<1> DEFINE r == proc[p]
<1>1. /\ r \in Local /\ Sound(r) /\ r.candidate \in SUBSET Source
      /\ r.held \in Document \cup {ABSENT, TORN}
  BY DEF ConfigInv, TypeOK, Local
<1>2. r.pc \in {"save", "backup", "install"} /\ r.op # "none" /\ r.purpose # "none"
  BY <1>1 DEF SaveReads, WriteBackup, Install, Sound
<1>3. Continues(AfterSave(r)) /\ Continues(AfterSaveError(r))
  BY <1>1, <1>2, AfterSaveContinues
<1>4. CASE SaveReads(p)
  <2>1. Valid(r.candidate) <=> Distinct(r.candidate)
    BY <1>1, ValidIsDistinct
  <2>2. CASE ~Valid(r.candidate)
    BY <1>3, <1>4, <2>2, LocalMoveHolds DEF SaveReads, Continues
  <2>3. CASE Valid(r.candidate) /\ primary = ABSENT
    <3> DEFINE n == [r EXCEPT !.pc = "install"]
    <3>1. n \in Local /\ Sound(n)
      BY <1>1, <1>2, <2>1, <2>3 DEF Local, Place, Sound
    <3>2. Goes(p, n)
      BY <1>4, <2>3 DEF SaveReads
    <3> HIDE DEF n
    <3> QED BY <1>4, <3>1, <3>2, LocalMoveHolds DEF SaveReads
  <2>4. CASE Valid(r.candidate) /\ primary # ABSENT
    <3> DEFINE n == [r EXCEPT !.pc = "backup", !.held = primary]
    <3>1. primary \in Document \cup {ABSENT, TORN} /\ (damage = 0 => primary # TORN)
      BY DEF ConfigInv, TypeOK, NeverTorn
    <3>2. primary \notin {ABSENT, TORN} => Distinct(primary.sources)
      BY FileFacts
    <3>3. n \in Local
      BY <1>1, <3>1 DEF Local, Place
    <3>4. Sound(n)
      BY <1>1, <1>2, <2>1, <2>4, <3>1, <3>2 DEF Local, Sound
    <3>5. Goes(p, n)
      BY <1>4, <2>4 DEF SaveReads
    <3> HIDE DEF n
    <3> QED BY <1>4, <3>3, <3>4, <3>5, LocalMoveHolds DEF SaveReads
  <2> QED BY <2>2, <2>3, <2>4
<1>5. CASE WriteBackup(p)
  <2>1. backup' \in {backup, r.held} /\ primary' = primary /\ damage' = damage
    BY <1>5 DEF WriteBackup
  <2>2. backup' \in Document \cup {ABSENT, TORN}
    BY <1>1, <2>1 DEF ConfigInv, TypeOK
  <2>3. FilesAreValid' /\ NeverTorn'
    BY <1>1, <2>1 DEF ConfigInv, FilesAreValid, NeverTorn, Sound
  <2>4. faults' \in 0..MaxFaults
    BY <1>5 DEF WriteBackup, Fault, ConfigInv, TypeOK, ConfigAssumption
  <2> DEFINE n == [r EXCEPT !.pc = "install"]
  <2>5. n \in Local /\ Sound(n)
    BY <1>1, <1>2, <1>5 DEF WriteBackup, Local, Place, Sound
  <2>6. Goes(p, n) \/ Goes(p, AfterSaveError(r))
    BY <1>5 DEF WriteBackup
  <2> HIDE DEF n
  <2> QED BY <1>3, <1>5, <2>2, <2>3, <2>4, <2>5, <2>6, MoveHolds
          DEF WriteBackup, Continues, ConfigInv, TypeOK
<1>6. CASE Install(p)
  <2> DEFINE c == Current(r.candidate)
  <2>1. c \in Document /\ c \notin {ABSENT, TORN} /\ c.sources = r.candidate
    BY <1>1, CurrentFacts
  <2>2. Distinct(c.sources)
    BY <1>1, <1>6, <2>1 DEF Install, Sound
  <2>3. primary' \in {primary, c} /\ backup' = backup /\ damage' = damage
    BY <1>6 DEF Install
  <2> HIDE DEF c
  <2>4. primary' \in Document \cup {ABSENT, TORN}
    BY <2>1, <2>3 DEF ConfigInv, TypeOK
  <2>5. FilesAreValid' /\ NeverTorn'
    BY <2>1, <2>2, <2>3 DEF ConfigInv, FilesAreValid, NeverTorn
  <2>6. faults' \in 0..MaxFaults
    BY <1>6 DEF Install, Fault, ConfigInv, TypeOK, ConfigAssumption
  <2>7. acked' \subseteq Source
    BY <1>1, <1>6 DEF Install, Acknowledge, Local, ConfigInv, TypeOK
  <2>8. Goes(p, AfterSave(r)) \/ Goes(p, AfterSaveError(r))
    BY <1>6 DEF Install
  <2> QED BY <1>3, <1>6, <2>4, <2>5, <2>6, <2>7, <2>8, MoveHolds
          DEF Install, Continues, ConfigInv, TypeOK
<1> QED BY <1>4, <1>5, <1>6

(* Every step: one of a command, or damage from outside.                   *)
LEMMA NextHolds == ConfigAssumption /\ ConfigInv /\ [Next]_vars => ConfigInv'
<1> SUFFICES ASSUME ConfigAssumption, ConfigInv, [Next]_vars PROVE ConfigInv'
  OBVIOUS
<1>1. CASE Tear
  <2>1. damage' \in 0..MaxDamage /\ damage' # 0
    BY <1>1 DEF Tear, ConfigInv, TypeOK, ConfigAssumption
  <2>2. TypeOK'
    BY <1>1, <2>1 DEF Tear, ConfigInv, TypeOK
  <2>3. FilesAreValid' /\ NeverTorn'
    BY <1>1, <2>1 DEF Tear, ConfigInv, FilesAreValid, NeverTorn
  <2>4. \A p \in Proc : Sound(proc[p])'
    BY <1>1, <2>1 DEF Tear, ConfigInv, Sound
  <2> QED BY <2>2, <2>3, <2>4 DEF ConfigInv
<1>2. ASSUME NEW p \in Proc, Step(p) PROVE ConfigInv'
  BY <1>2, CommandHolds, LoadHolds, SaveHolds DEF Step
<1>3. CASE UNCHANGED vars
  BY <1>3 DEF vars, ConfigInv, TypeOK, FilesAreValid, NeverTorn, Sound
<1> QED BY <1>1, <1>2, <1>3 DEF Next

-----------------------------------------------------------------------------
(* The invariant holds in every behaviour of the configuration store, for  *)
(* any number of processes and any number of faults, kills and damages.    *)
THEOREM ConfigSafe == Spec => []ConfigInv
<1>1. ConfigAssumption /\ Init => ConfigInv
  BY InitHolds
<1>2. ConfigAssumption /\ ConfigInv /\ [Next]_vars => ConfigInv'
  BY NextHolds
<1> QED BY <1>1, <1>2, ConfigAssumption, PTL DEF Spec

(* Type correctness.                                                       *)
THEOREM ConfigTypeCorrect == Spec => []TypeOK
<1>1. ConfigInv => TypeOK
  BY DEF ConfigInv
<1> QED BY <1>1, ConfigSafe, PTL

(* However commands race, fail and are killed, no file of the store ever   *)
(* holds two sources with one identifier or one alias (config.go, Save;    *)
(* service.go, Add).                                                       *)
THEOREM FilesStayValid == Spec => []FilesAreValid
<1>1. ConfigInv => FilesAreValid
  BY DEF ConfigInv
<1> QED BY <1>1, ConfigSafe, PTL

(* No command ever leaves a truncated file, primary or backup              *)
(* (config.go, writeAtomic).                                               *)
THEOREM NoFileIsTorn == Spec => []NeverTorn
<1>1. ConfigInv => NeverTorn
  BY DEF ConfigInv
<1> QED BY <1>1, ConfigSafe, PTL
-----------------------------------------------------------------------------
(* One command at a time, and nothing else touches the files.              *)
Alone == MaxDamage = 0 /\ \A p, q \in Proc : p = q

Saving == {"save", "backup", "install"}

(* What a command that runs may not forget of the acknowledged sources A:  *)
(* what it will write, or put back, contains them, but for the one it was  *)
(* asked to remove.                                                        *)
Remembers(r, A) ==
  /\ r.pc # "recover"
  /\ r.pc = "put" => r.purpose = "add"
  /\ r.pc \in Saving \cup {"put"} => A \subseteq r.candidate
  /\ r.pc \in Saving \cup {"put"} /\ r.purpose = "add" => r.target \subseteq r.candidate
  /\ r.pc = "delete" \/ (r.pc \in Saving /\ r.purpose \in {"remove", "revert"}) => A \subseteq r.loaded
  /\ r.pc # "idle" /\ r.op = "remove" => \A s \in A, t \in r.target : s.id # t.id

AckInv == ConfigInv /\ acked \subseteq Visible /\ \A p \in Proc : Remembers(proc[p], acked)

(* Without damage there is no torn file, and Load reads the primary.       *)
LEMMA AloneFacts ==
  ASSUME ConfigAssumption, ConfigInv, Alone
  PROVE  /\ damage = 0 /\ primary # TORN
         /\ Visible = IF primary = ABSENT THEN {} ELSE primary.sources
         /\ Visible \in SUBSET Source /\ Distinct(Visible)
<1>1. damage = 0 /\ primary # TORN
  BY DEF Alone, ConfigInv, TypeOK, NeverTorn
<1>2. primary # ABSENT => primary.sources \in SUBSET Source /\ Distinct(primary.sources)
  BY <1>1, FileFacts
<1>3. Visible = IF primary = ABSENT THEN {} ELSE primary.sources
  BY <1>1 DEF Visible
<1>4. Visible \in SUBSET Source /\ Distinct(Visible)
  BY <1>2, <1>3 DEF Distinct
<1> QED
  BY <1>1, <1>3, <1>4

LEMMA LoadRemembers ==
  ASSUME ConfigAssumption, NEW r \in Local, r.op # "none", r.pc # "idle", NEW S \in SUBSET Source,
         NEW A \in SUBSET S, Remembers(r, A)
  PROVE  Remembers(AfterLoad(r, S), A)
<1>1. Remembers(Finish(r, "ok"), A) /\ Remembers(Finish(r, "error"), A)
  BY DEF Remembers, Finish, Resting, Saving
<1>2. CASE r.op = "read"
  BY <1>1, <1>2 DEF AfterLoad
<1>3. CASE r.op = "add"
  <2> DEFINE n == SaveThe([r EXCEPT !.loaded = S], S \cup r.target, "add")
  <2>1. Remembers(n, A) /\ Remembers([n EXCEPT !.pc = "put"], A)
    BY <1>3 DEF Remembers, SaveThe, Saving, Local
  <2>2. AfterLoad(r, S) \in {Finish(r, "error"), n, [n EXCEPT !.pc = "put"]}
    BY <1>3 DEF AfterLoad, AddAfterLoad
  <2> QED
    BY <1>1, <2>1, <2>2
<1>4. CASE r.op = "remove"
  <2> DEFINE m(b) == [r EXCEPT !.pc = "load", !.looked = TRUE, !.store = b]
             n == SaveThe([r EXCEPT !.loaded = S], S \ Named(S, r), "remove")
  <2>1. \A s \in A, t \in r.target : s.id # t.id
    BY <1>4 DEF Remembers
  <2>2. Remembers(n, A)
    BY <1>4, <2>1 DEF Remembers, SaveThe, Saving, Local, Named
  <2>3. ASSUME NEW b \in BOOLEAN PROVE Remembers(m(b), A)
    BY <1>4, <2>1 DEF Remembers, Saving, Local
  <2>4. (\E s \in Named(S, r) : s.secret) \in BOOLEAN
    OBVIOUS
  <2>5. \/ \E b \in BOOLEAN : AfterLoad(r, S) = m(b)
        \/ AfterLoad(r, S) \in {Finish(r, "error"), n}
    BY <1>4, <2>4 DEF AfterLoad, RemoveAfterLoad
  <2> QED
    BY <1>1, <2>2, <2>3, <2>5
<1> QED
  BY <1>2, <1>3, <1>4 DEF Local

LEMMA SaveRemembers ==
  ASSUME ConfigAssumption, NEW r \in Local, r.op # "none", r.pc \in Saving, r.purpose # "none",
         NEW A \in SUBSET Source, Remembers(r, A)
  PROVE  /\ r.purpose # "add" => Remembers(AfterSave(r), A)
         /\ r.purpose = "add" => Remembers(AfterSave(r), A \cup r.target)
         /\ Remembers(AfterSaveError(r), A)
<1>1. \A B \in SUBSET Source : Remembers(Finish(r, "ok"), B) /\ Remembers(Finish(r, "error"), B)
  BY DEF Remembers, Finish, Resting, Saving
<1>2. r.target \in SUBSET Source /\ r.candidate \in SUBSET Source /\ A \subseteq r.candidate
  BY DEF Local, Remembers
<1>3. CASE r.purpose = "add"
  <2>1. Remembers([r EXCEPT !.pc = "undoPut"], A)
    BY DEF Remembers, Saving, Local
  <2> QED
    BY <1>1, <1>2, <1>3, <2>1 DEF AfterSave, AfterSaveError
<1>4. CASE r.purpose = "migrate"
  BY <1>1, <1>2, <1>4, LoadRemembers DEF AfterSave, AfterSaveError, Saving
<1>5. CASE r.purpose = "revert"
  BY <1>1, <1>5 DEF AfterSave, AfterSaveError
<1>6. CASE r.purpose = "remove"
  <2>1. Remembers([r EXCEPT !.pc = "delete"], A)
    BY <1>6 DEF Remembers, Saving, Local
  <2>2. Remembers(SaveThe(r, r.loaded, "revert"), A)
    BY <1>6 DEF Remembers, SaveThe, Saving, Local
  <2> QED
    BY <1>1, <1>6, <2>1, <2>2 DEF AfterSave, AfterSaveError
<1> QED
  BY <1>3, <1>4, <1>5, <1>6 DEF Local

(* A step of the only process.                                             *)
LEMMA OnlyProcess ==
  ASSUME ConfigInv, Alone, NEW p \in Proc, NEW r, Goes(p, r)
  PROVE  \A q \in Proc : proc'[q] = r
  BY DEF ConfigInv, TypeOK, Goes, Alone

LEMMA AckStep == ConfigAssumption /\ Alone /\ AckInv /\ [Next]_vars => AckInv'
<1> SUFFICES ASSUME ConfigAssumption, Alone, AckInv, [Next]_vars
             PROVE  acked' \subseteq Visible' /\ \A q \in Proc : Remembers(proc'[q], acked')
  BY NextHolds DEF AckInv
<1>1. /\ ConfigInv /\ ConfigInv' /\ acked \in SUBSET Source /\ acked \subseteq Visible
      /\ \A p \in Proc : proc[p] \in Local /\ Sound(proc[p]) /\ Remembers(proc[p], acked)
  BY NextHolds DEF AckInv, ConfigInv, TypeOK
<1>2. /\ damage = 0 /\ primary # TORN
      /\ Visible = IF primary = ABSENT THEN {} ELSE primary.sources
      /\ Visible \in SUBSET Source
  BY <1>1, AloneFacts
<1>3. /\ damage' = 0 /\ primary' # TORN
      /\ Visible' = IF primary' = ABSENT THEN {} ELSE primary'.sources
  <2>1. damage' = 0 /\ primary' # TORN
    BY <1>1 DEF Alone, ConfigInv, TypeOK, NeverTorn
  <2> QED
    BY <2>1 DEF Visible
<1>4. ASSUME acked' \subseteq acked, UNCHANGED primary PROVE acked' \subseteq Visible'
  BY <1>1, <1>2, <1>3, <1>4
<1>5. ASSUME NEW p \in Proc, NEW n, Goes(p, n), Remembers(n, acked')
      PROVE  \A q \in Proc : Remembers(proc'[q], acked')
  BY <1>1, <1>5, OnlyProcess
<1>6. ASSUME NEW p \in Proc, NEW n, Goes(p, n), Remembers(n, acked),
             UNCHANGED <<primary, acked>>
      PROVE  acked' \subseteq Visible' /\ \A q \in Proc : Remembers(proc'[q], acked')
  BY <1>4, <1>5, <1>6
<1>7. CASE Tear
  BY <1>2, <1>3, <1>7 DEF Tear, ConfigInv, TypeOK
<1>8. CASE UNCHANGED vars
  BY <1>1, <1>4, <1>8 DEF vars
<1>9. ASSUME NEW p \in Proc, Step(p)
      PROVE  acked' \subseteq Visible' /\ \A q \in Proc : Remembers(proc'[q], acked')
  <2>1. PICK r \in Local : r = proc[p] /\ Sound(r) /\ Remembers(r, acked)
    BY <1>1
  <2>2. /\ Remembers(Finish(r, "ok"), acked) /\ Remembers(Finish(r, "error"), acked)
        /\ Remembers(Resting("none", "none", {}), acked)
    BY DEF Remembers, Finish, Resting, Saving
  <2>3. ASSUME NEW op \in {"read", "add", "remove"}, NEW T \in SUBSET Source, Begin(p, op, T),
               UNCHANGED primary, acked' \subseteq acked,
               op = "remove" => \A s \in acked', t \in T : s.id # t.id
        PROVE  acked' \subseteq Visible' /\ \A q \in Proc : Remembers(proc'[q], acked')
    <3>1. PICK n : n = [Resting(op, "none", Visible) EXCEPT !.pc = "load", !.target = T]
      OBVIOUS
    <3>2. Remembers(n, acked')
      BY <2>3, <3>1 DEF Remembers, Resting, Saving
    <3> QED
      BY <1>4, <1>5, <2>3, <3>1, <3>2 DEF Begin
  <2>4. CASE Load(p)
    <3>1. r.op # "none" /\ r.pc # "idle" /\ UNCHANGED <<primary, acked>>
      BY <2>1, <2>4 DEF Load, Sound
    <3>2. \A S \in SUBSET Source : acked \subseteq S => Remembers(AfterLoad(r, S), acked)
      BY <1>1, <2>1, <3>1, LoadRemembers
    <3>3. primary # ABSENT => Remembers(SaveThe(r, primary.sources, "migrate"), acked)
      BY <1>1, <1>2, <2>1, <3>1 DEF Remembers, SaveThe, Saving, Local
    <3>4. \E n : Goes(p, n) /\ Remembers(n, acked)
      BY <1>1, <1>2, <2>1, <2>2, <2>4, <3>2, <3>3 DEF Load
    <3> QED
      BY <1>6, <3>1, <3>4
  <2>5. CASE GiveUp(p) \/ UndoPut(p) \/ Crash(p)
    <3>1. UNCHANGED <<primary, acked>> /\ \E n : Goes(p, n) /\ Remembers(n, acked)
      BY <2>1, <2>2, <2>5 DEF GiveUp, UndoPut, Crash
    <3> QED
      BY <1>6, <3>1
  <2>6. CASE PutCredential(p)
    <3>1. Remembers([r EXCEPT !.pc = "save"], acked)
      BY <2>1, <2>6 DEF PutCredential, Remembers, Saving, Local
    <3> QED
      BY <1>6, <2>1, <2>6, <3>1 DEF PutCredential
  <2>7. CASE DeleteCredential(p)
    <3>1. Remembers(SaveThe(r, r.loaded, "revert"), acked)
      BY <2>1, <2>7 DEF DeleteCredential, Remembers, SaveThe, Saving, Local
    <3>2. UNCHANGED <<primary, acked>> /\ \E n : Goes(p, n) /\ Remembers(n, acked)
      BY <2>1, <2>2, <2>7, <3>1 DEF DeleteCredential
    <3> QED
      BY <1>6, <3>2
  <2>8. ASSUME r.pc \in Saving
        PROVE  /\ r.op # "none" /\ r.purpose # "none"
               /\ r.purpose # "add" => Remembers(AfterSave(r), acked)
               /\ r.purpose = "add" => Remembers(AfterSave(r), acked \cup r.target)
               /\ Remembers(AfterSaveError(r), acked)
    <3>1. r.op # "none" /\ r.purpose # "none"
      BY <2>1, <2>8 DEF Sound, Saving
    <3> QED
      BY <1>1, <2>1, <2>8, <3>1, SaveRemembers
  <2>9. CASE SaveReads(p) \/ WriteBackup(p)
    <3>1. r.pc \in Saving /\ UNCHANGED <<primary, acked>>
      BY <2>1, <2>9 DEF SaveReads, WriteBackup, Saving
    <3>2. /\ Remembers([r EXCEPT !.pc = "install"], acked)
          /\ Remembers([r EXCEPT !.pc = "backup", !.held = primary], acked)
      BY <2>1, <3>1 DEF Remembers, Saving, Local
    <3>3. \E n : Goes(p, n) /\ Remembers(n, acked)
      BY <2>1, <2>8, <2>9, <3>1, <3>2 DEF SaveReads, WriteBackup
    <3> QED
      BY <1>6, <3>1, <3>3
  <2>10. CASE Install(p)
    <3>1. r.pc = "install" /\ r.pc \in Saving
      BY <2>1, <2>10 DEF Install, Saving
    <3>2. /\ Current(r.candidate).sources = r.candidate /\ Current(r.candidate) # ABSENT
          /\ acked \subseteq r.candidate /\ (r.purpose = "add" => r.target \subseteq r.candidate)
      BY <2>1, <3>1, CurrentFacts DEF Local, Remembers
    <3>3. CASE primary' = Current(r.candidate) /\ Goes(p, AfterSave(r)) /\ acked' = Acknowledge(r)
      <4>1. acked' \subseteq Visible'
        BY <1>3, <3>2, <3>3 DEF Acknowledge
      <4>2. Remembers(AfterSave(r), acked')
        BY <2>8, <3>1, <3>3 DEF Acknowledge
      <4> QED
        BY <1>5, <3>3, <4>1, <4>2
    <3>4. CASE primary' \in {primary, Current(r.candidate)} /\ Goes(p, AfterSaveError(r)) /\ UNCHANGED acked
      <4>1. acked' \subseteq Visible'
        BY <1>1, <1>2, <1>3, <3>2, <3>4
      <4> QED
        BY <1>5, <2>8, <3>1, <3>4, <4>1
    <3> QED
      BY <2>1, <2>10, <3>3, <3>4 DEF Install
  <2>11. ~Recover(p)
    BY <2>1 DEF Recover, Remembers
  <2>12. CASE BeginRead(p)
    BY <2>3, <2>12 DEF BeginRead
  <2>13. ASSUME NEW s \in Source, BeginAdd(p, s) \/ BeginRemove(p, s)
         PROVE  acked' \subseteq Visible' /\ \A q \in Proc : Remembers(proc'[q], acked')
    <3>1. {s} \in SUBSET Source
      OBVIOUS
    <3>2. CASE BeginAdd(p, s)
      BY <2>3, <3>1, <3>2 DEF BeginAdd
    <3>3. CASE BeginRemove(p, s)
      BY <2>3, <3>1, <3>3 DEF BeginRemove
    <3> QED
      BY <2>13, <3>2, <3>3
  <2> QED
    BY <1>9, <2>4, <2>5, <2>6, <2>7, <2>9, <2>10, <2>11, <2>12, <2>13 DEF Step
<1> QED
  BY <1>7, <1>8, <1>9 DEF Next

(* One command at a time: a source whose Add returned nil is there for     *)
(* every later Load until somebody removes it, whatever fails and whoever  *)
(* is killed on the way (config.go, Save; service.go, Add and Remove).     *)
THEOREM AcknowledgedStay == ASSUME Alone PROVE Spec => []AcknowledgedStays
<1>1. ConfigAssumption /\ Alone /\ Init => AckInv
  BY InitHolds DEF Init, AckInv, Remembers, Resting, Saving
<1>2. AckInv => AcknowledgedStays
  BY DEF AckInv, AcknowledgedStays
<1> QED
  BY Alone, <1>1, <1>2, AckStep, ConfigAssumption, PTL DEF Spec
-----------------------------------------------------------------------------
(* Besides, no sync fails after its rename.                                *)
Synced == Alone /\ ~SyncFaults

(* And at most one operation fails.                                        *)
OneFault == Synced /\ MaxFaults <= 1

(* The credentials of the sources S are there.                             *)
Stocked(S, C) == \A s \in S : s.secret => s.id \in C

Ids(S) == {s.id : s \in S}
HasSecret(S) == \E s \in S : s.secret

(* What a command knows at each of its places, with V the sources a Load   *)
(* would return, C the credentials and f the failures so far: the sources  *)
(* it began with are what is in the file, or the file has them but for the *)
(* one that was removed and it can still put that back.                    *)
AtPlace(r, V, C, f) ==
  /\ r.pc \notin {"idle", "recover", "delete"} /\ r.purpose # "revert" => V = r.start
  /\ r.pc = "load" => r.purpose # "revert"
  /\ r.pc = "put" => r.purpose = "add"
  /\ r.pc = "undoPut" => r.purpose = "add"
  /\ r.pc \in Saving => Stocked(r.candidate, C)
  /\ r.pc \in Saving /\ r.purpose \in {"migrate", "revert"} => r.candidate = r.start
  /\ r.pc \in Saving /\ r.purpose = "revert" =>
       f > 0 /\ r.op = "remove" /\ V = r.start \ Named(r.start, r)
  /\ r.pc \in Saving \cup {"put", "undoPut"} /\ r.purpose = "add" =>
       r.op = "add" /\ Ids(r.target) \cap Ids(r.start) = {}
  /\ r.pc \in Saving \cup {"put"} /\ r.purpose = "add" => r.candidate = r.start \cup r.target
  /\ r.pc \in {"put"} => Stocked(r.candidate, C \cup Ids(r.target))
  /\ r.pc \in Saving /\ r.purpose = "remove" =>
       /\ r.op = "remove" /\ r.looked
       /\ r.loaded = r.start /\ r.candidate = r.start \ Named(r.start, r)
  /\ r.pc = "delete" =>
       /\ r.op = "remove" /\ r.loaded = r.start /\ V = r.start \ Named(r.start, r)
       /\ HasSecret(Named(r.start, r))

Restores(r, V, C, f) ==
  /\ r.pc = "idle" /\ r.result = "error" /\ MaxFaults <= 1 => V = r.start
  /\ r.pc # "recover"
  /\ r.pc # "idle" => /\ Distinct(r.start) /\ Stocked(r.start, C)
                      /\ r.start \in SUBSET Source
                      /\ r.op \in {"add", "remove"} => \E t \in Source : r.target = {t}
                      /\ r.looked => r.store = HasSecret(Named(r.start, r))
  /\ AtPlace(r, V, C, f)

FaultInv ==
  /\ ConfigInv
  /\ Stocked(Visible, credentials)
  /\ \A p \in Proc : Restores(proc[p], Visible, credentials, faults)

LEMMA EndRestores ==
  ASSUME NEW r \in Local, NEW V, NEW C, NEW f, NEW x \in {"ok", "error"},
         x = "error" /\ MaxFaults <= 1 => V = r.start
  PROVE  Restores(Finish(r, x), V, C, f)
  BY DEF Restores, AtPlace, Finish, Resting, Saving

LEMMA LoadRestores ==
  ASSUME ConfigAssumption, NEW r \in Local, r.op # "none", r.pc \in {"load"} \cup Saving,
         r.purpose # "revert", NEW C, NEW f, Restores(r, r.start, C, f)
  PROVE  Restores(AfterLoad(r, r.start), r.start, C, f)
<1> DEFINE S == r.start
<1>1. Restores(Finish(r, "ok"), S, C, f) /\ Restores(Finish(r, "error"), S, C, f)
  BY EndRestores
<1>2. /\ Distinct(S) /\ Stocked(S, C) /\ S \in SUBSET Source
      /\ r.op \in {"add", "remove"} => \E t \in Source : r.target = {t}
      /\ r.looked => r.store = HasSecret(Named(S, r))
  BY DEF Restores, Saving
<1> HIDE DEF S
<1>3. CASE r.op = "read"
  BY <1>1, <1>3 DEF AfterLoad, S
<1>4. CASE r.op = "add"
  <2> DEFINE q == [r EXCEPT !.loaded = S]
             n == SaveThe(q, S \cup r.target, "add")
  <2>1. PICK t \in Source : r.target = {t}
    BY <1>2, <1>4
  <2>2. CASE r.target \subseteq S \/ ~Valid(S \cup r.target)
    BY <1>1, <1>4, <2>2 DEF AfterLoad, AddAfterLoad, S
  <2>3. CASE ~(r.target \subseteq S) /\ Valid(S \cup r.target)
    <3>1. Ids(r.target) \cap Ids(S) = {}
      BY <2>1, <2>3 DEF Ids, Valid, ValidIds
    <3>2. /\ n \in Local /\ n.pc = "save" /\ n.op = "add" /\ n.purpose = "add" /\ n.target = r.target
          /\ n.candidate = S \cup r.target /\ n.start = S /\ n.looked = r.looked /\ n.store = r.store
      BY <1>2, <1>4, <2>1 DEF SaveThe, Local, Place, S, ConfigAssumption
    <3>3. Named(S, n) = Named(S, r)
      BY <3>2 DEF Named
    <3> HIDE DEF n
    <3>4. CASE t.secret
      <4>1. AfterLoad(r, S) = [n EXCEPT !.pc = "put"]
        BY <1>4, <2>1, <2>3, <3>2, <1>3, <2>2, <3>4 DEF AfterLoad, AddAfterLoad, n
      <4>2. Stocked(S \cup r.target, C \cup Ids(r.target))
        BY <1>2 DEF Stocked, Ids
      <4>3. PICK m \in Local : /\ m = [n EXCEPT !.pc = "put"]
        BY <3>2 DEF Local, Place
      <4>4. /\ m.pc = "put" /\ m.op = "add" /\ m.purpose = "add" /\ m.target = r.target
            /\ m.candidate = S \cup r.target /\ m.start = S /\ m.looked = r.looked /\ m.store = r.store
        BY <3>2, <4>3 DEF Local
      <4>5. Named(S, m) = Named(S, r)
        BY <4>4 DEF Named
      <4>6. Restores(m, S, C, f)
        BY <1>2, <2>1, <3>1, <4>2, <4>4, <4>5 DEF Restores, AtPlace, Saving
      <4> QED
        BY <4>1, <4>3, <4>6 DEF S
    <3>5. CASE ~t.secret
      <4>1. AfterLoad(r, S) = n
        BY <1>4, <2>1, <2>3, <3>5 DEF AfterLoad, AddAfterLoad, n
      <4>2. Stocked(S \cup r.target, C)
        BY <1>2, <2>1, <3>5 DEF Stocked
      <4>3. Restores(n, S, C, f)
        BY <1>2, <2>1, <3>1, <3>2, <3>3, <4>2 DEF Restores, AtPlace, Saving
      <4> QED
        BY <4>1, <4>3 DEF S
    <3> QED
      BY <3>4, <3>5
  <2> QED
    BY <2>2, <2>3
<1>5. CASE r.op = "remove"
  <2>1. CASE ~r.looked
    <3>1. PICK m \in Local : m = [r EXCEPT !.pc = "load", !.looked = TRUE, !.store = HasSecret(Named(S, r))]
      BY DEF Local, Place, HasSecret
    <3>2. /\ m.pc = "load" /\ m.op = "remove" /\ m.purpose = r.purpose /\ m.target = r.target
          /\ m.start = S /\ m.looked /\ m.store = HasSecret(Named(S, r))
      BY <1>5, <3>1 DEF Local, S
    <3>3. Named(S, m) = Named(S, r)
      BY <3>2 DEF Named
    <3>4. Restores(m, S, C, f)
      BY <1>2, <1>5, <3>2, <3>3 DEF Restores, AtPlace, Saving
    <3>5. AfterLoad(r, S) = m
      BY <1>5, <2>1, <3>1 DEF AfterLoad, RemoveAfterLoad, HasSecret
    <3> QED
      BY <3>4, <3>5 DEF S
  <2>2. CASE r.looked /\ Named(S, r) = {}
    BY <1>1, <1>5, <2>2 DEF AfterLoad, RemoveAfterLoad, S
  <2>3. CASE r.looked /\ Named(S, r) # {}
    <3>1. PICK n \in Local : n = SaveThe([r EXCEPT !.loaded = S], S \ Named(S, r), "remove")
      BY <1>2 DEF SaveThe, Local, Place, ConfigAssumption
    <3>2. /\ n.pc = "save" /\ n.op = "remove" /\ n.purpose = "remove" /\ n.target = r.target
          /\ n.candidate = S \ Named(S, r) /\ n.start = S /\ n.looked /\ n.store = r.store /\ n.loaded = S
      BY <1>2, <1>5, <2>3, <3>1 DEF SaveThe, Local, S
    <3>3. Named(S, n) = Named(S, r) /\ Stocked(S \ Named(S, r), C)
      BY <1>2, <3>2 DEF Named, Stocked
    <3>4. Restores(n, S, C, f)
      BY <1>2, <1>5, <2>3, <3>2, <3>3 DEF Restores, AtPlace, Saving
    <3>5. AfterLoad(r, S) = n
      BY <1>5, <2>3, <3>1 DEF AfterLoad, RemoveAfterLoad
    <3> QED
      BY <3>4, <3>5 DEF S
  <2> QED
    BY <2>1, <2>2, <2>3
<1> QED
  BY <1>3, <1>4, <1>5 DEF Local

(* After a Save that succeeded, its candidate is what is there; one that   *)
(* failed has changed nothing.                                             *)
LEMMA SaveRestores ==
  ASSUME ConfigAssumption, NEW r \in Local, r.op # "none", r.pc \in Saving, r.purpose # "none",
         NEW V, NEW C, NEW f, Restores(r, V, C, f)
  PROVE  /\ Restores(AfterSave(r), r.candidate, C, f)
         /\ r.purpose # "revert" \/ ~(MaxFaults <= 1) => Restores(AfterSaveError(r), V, C, f)
<1>1. /\ Distinct(r.start) /\ Stocked(r.start, C) /\ r.start \in SUBSET Source
      /\ r.op \in {"add", "remove"} => \E t \in Source : r.target = {t}
      /\ r.looked => r.store = HasSecret(Named(r.start, r))
      /\ r.purpose # "revert" => V = r.start
  BY DEF Restores, AtPlace, Saving
<1>2. ASSUME r.purpose # "revert" \/ ~(MaxFaults <= 1) PROVE Restores(AfterSaveError(r), V, C, f)
  <2>1. PICK m \in Local : m = [r EXCEPT !.pc = "undoPut"]
    BY DEF Local, Place
  <2>2. /\ m.pc = "undoPut" /\ m.op = r.op /\ m.purpose = r.purpose /\ m.target = r.target
        /\ m.start = r.start /\ m.looked = r.looked /\ m.store = r.store
    BY <2>1 DEF Local
  <2>3. Named(m.start, m) = Named(r.start, r)
    BY <2>2 DEF Named
  <2>4. r.purpose = "add" => Restores(m, V, C, f)
    BY <1>1, <1>2, <2>2, <2>3 DEF Restores, AtPlace, Saving
  <2>5. Restores(Finish(r, "error"), V, C, f)
    BY <1>1, <1>2, EndRestores
  <2> QED
    BY <2>1, <2>4, <2>5 DEF AfterSaveError
<1>3. CASE r.purpose = "add"
  BY <1>2, <1>3, EndRestores DEF AfterSave
<1>4. CASE r.purpose = "revert"
  <2>1. r.candidate = r.start
    BY <1>4 DEF Restores, AtPlace
  <2> QED
    BY <1>2, <1>4, <2>1, EndRestores DEF AfterSave
<1>5. CASE r.purpose = "migrate"
  <2>1. r.candidate = r.start /\ V = r.start
    BY <1>1, <1>5 DEF Restores, AtPlace
  <2>2. Restores(AfterLoad(r, r.start), r.start, C, f)
    BY <1>5, <2>1, LoadRestores DEF Saving
  <2> QED
    BY <1>2, <1>5, <2>1, <2>2 DEF AfterSave
<1>6. CASE r.purpose = "remove"
  <2>1. /\ r.op = "remove" /\ r.looked
        /\ r.loaded = r.start /\ r.candidate = r.start \ Named(r.start, r)
    BY <1>6 DEF Restores, AtPlace
  <2>2. CASE ~HasSecret(Named(r.start, r))
    BY <1>2, <1>6, <2>1, <2>2, EndRestores DEF AfterSave, HasSecret
  <2>3. CASE HasSecret(Named(r.start, r))
    <3>1. r.store
      BY <1>1, <2>1, <2>3
    <3>2. AfterSave(r) = [r EXCEPT !.pc = "delete"]
      BY <1>6, <2>1, <2>3, <3>1 DEF AfterSave, HasSecret
    <3>3. PICK m \in Local : m = [r EXCEPT !.pc = "delete"]
      BY DEF Local, Place
    <3>4. /\ m.pc = "delete" /\ m.op = r.op /\ m.purpose = r.purpose /\ m.target = r.target
          /\ m.start = r.start /\ m.looked = r.looked /\ m.store = r.store /\ m.loaded = r.loaded
      BY <3>3 DEF Local
    <3>5. Named(m.start, m) = Named(r.start, r)
      BY <3>4 DEF Named
    <3>6. Restores(m, r.candidate, C, f)
      BY <1>1, <1>6, <2>1, <2>3, <3>4, <3>5 DEF Restores, AtPlace, Saving
    <3> QED
      BY <1>2, <1>6, <3>2, <3>3, <3>6
  <2> QED
    BY <2>2, <2>3
<1> QED
  BY <1>2, <1>3, <1>4, <1>5, <1>6 DEF Local

(* Only a Save that puts the sources back depends on the failures so far.  *)
LEMMA FaultsRestore ==
  ASSUME NEW r, NEW V, NEW C, NEW f, NEW g, Restores(r, V, C, f), r.pc \notin Saving
  PROVE  Restores(r, V, C, g)
  BY DEF Restores, AtPlace

LEMMA FaultStep == ConfigAssumption /\ Synced /\ FaultInv /\ [Next]_vars => FaultInv'
<1> SUFFICES ASSUME ConfigAssumption, Synced, FaultInv, [Next]_vars
             PROVE  /\ Stocked(Visible', credentials')
                    /\ \A q \in Proc : Restores(proc'[q], Visible', credentials', faults')
  BY NextHolds DEF FaultInv
<1> DEFINE Goal == /\ Stocked(Visible', credentials')
                   /\ \A q \in Proc : Restores(proc'[q], Visible', credentials', faults')
<1>1. /\ ConfigInv /\ ConfigInv' /\ Alone /\ Stocked(Visible, credentials)
      /\ \A p \in Proc : /\ proc[p] \in Local /\ Sound(proc[p])
                         /\ Restores(proc[p], Visible, credentials, faults)
  BY NextHolds DEF FaultInv, Synced, ConfigInv, TypeOK
<1>2. /\ damage = 0 /\ primary # TORN
      /\ Visible = IF primary = ABSENT THEN {} ELSE primary.sources
      /\ Visible \in SUBSET Source /\ Distinct(Visible)
  BY <1>1, AloneFacts
<1>3. /\ primary' # TORN
      /\ Visible' = IF primary' = ABSENT THEN {} ELSE primary'.sources
  <2>1. damage' = 0 /\ primary' # TORN
    BY <1>1 DEF Alone, ConfigInv, TypeOK, NeverTorn
  <2> QED
    BY <2>1 DEF Visible
<1>4. UNCHANGED primary => Visible' = Visible
  BY <1>2, <1>3
<1>5. faults \in Nat /\ faults <= MaxFaults /\ MaxFaults \in Nat /\ SyncFaults = FALSE
  BY <1>1 DEF ConfigInv, TypeOK, Synced, ConfigAssumption
<1>6. ASSUME NEW p \in Proc, NEW n, Goes(p, n), Restores(n, Visible', credentials', faults'),
             Stocked(Visible', credentials')
      PROVE  Goal
  BY <1>1, <1>6, OnlyProcess
<1>7. ASSUME NEW p \in Proc, NEW n, Goes(p, n), Restores(n, Visible, credentials, faults'),
             UNCHANGED <<primary, credentials>>
      PROVE  Goal
  BY <1>1, <1>4, <1>6, <1>7
<1> HIDE DEF Goal
<1>8. ~Tear
  BY <1>2 DEF Tear, Alone, Synced
<1>9. CASE UNCHANGED vars
  BY <1>1, <1>4, <1>9 DEF vars, Goal
<1>10. ASSUME NEW p \in Proc, Step(p) PROVE Goal
  <2>1. PICK r \in Local : r = proc[p] /\ Sound(r) /\ Restores(r, Visible, credentials, faults)
    BY <1>1
  <2>2. /\ r.pc # "idle" => /\ Distinct(r.start) /\ Stocked(r.start, credentials)
                            /\ r.start \in SUBSET Source
        /\ r.pc # "recover"
    BY <2>1 DEF Restores
  <2>3. CASE BeginRead(p) \/ \E s \in Source : BeginAdd(p, s) \/ BeginRemove(p, s)
    <3>1. ASSUME NEW op \in {"read", "add", "remove"}, NEW T \in SUBSET Source, Begin(p, op, T),
                 op \in {"add", "remove"} => \E t \in Source : T = {t},
                 UNCHANGED <<primary, credentials, faults>>
          PROVE  Goal
      <4>1. PICK n : n = [Resting(op, "none", Visible) EXCEPT !.pc = "load", !.target = T]
        OBVIOUS
      <4>2. Restores(n, Visible, credentials, faults)
        BY <1>1, <1>2, <3>1, <4>1 DEF Restores, AtPlace, Resting, Saving
      <4> QED
        BY <1>7, <3>1, <4>1, <4>2 DEF Begin
    <3>2. CASE BeginRead(p)
      BY <3>1, <3>2 DEF BeginRead
    <3>3. ASSUME NEW s \in Source, BeginAdd(p, s) \/ BeginRemove(p, s) PROVE Goal
      <4>1. {s} \in SUBSET Source /\ \E t \in Source : {s} = {t}
        OBVIOUS
      <4>2. CASE BeginAdd(p, s)
        BY <3>1, <4>1, <4>2 DEF BeginAdd
      <4>3. CASE BeginRemove(p, s)
        BY <3>1, <4>1, <4>3 DEF BeginRemove
      <4> QED
        BY <3>3, <4>2, <4>3
    <3> QED
      BY <2>3, <3>2, <3>3
  <2>4. CASE Load(p)
    <3>1. r.op # "none" /\ r.pc = "load" /\ UNCHANGED <<primary, credentials, faults>>
      BY <2>1, <2>4 DEF Load, Sound
    <3>2. r.purpose # "revert" /\ Visible = r.start
      BY <2>1, <3>1 DEF Restores, AtPlace
    <3>3. Restores(AfterLoad(r, r.start), r.start, credentials, faults)
      BY <2>1, <3>1, <3>2, LoadRestores
    <3>4. Restores(Finish(r, "error"), r.start, credentials, faults)
      BY EndRestores
    <3>5. PICK m \in Local : m = SaveThe(r, r.start, "migrate")
      BY <2>2, <3>1 DEF SaveThe, Local, Place, ConfigAssumption
    <3>6. /\ m.pc = "save" /\ m.op = r.op /\ m.purpose = "migrate" /\ m.target = r.target
          /\ m.candidate = r.start /\ m.start = r.start /\ m.looked = r.looked /\ m.store = r.store
      BY <3>5 DEF SaveThe, Local
    <3>7. Named(m.start, m) = Named(r.start, r)
      BY <3>6 DEF Named
    <3>8. Restores(m, r.start, credentials, faults)
      BY <2>1, <2>2, <3>1, <3>2, <3>6, <3>7 DEF Restores, AtPlace, Saving
    <3>9. \E n : Goes(p, n) /\ Restores(n, Visible, credentials, faults)
      BY <1>2, <2>1, <2>4, <3>2, <3>3, <3>4, <3>5, <3>8 DEF Load
    <3> QED
      BY <1>7, <3>1, <3>9
  <2>5. CASE GiveUp(p)
    <3>1. /\ r.pc \in {"load", "put"} /\ Goes(p, Finish(r, "error"))
          /\ UNCHANGED <<primary, credentials, faults>>
      BY <2>1, <2>2, <2>5 DEF GiveUp
    <3>2. Visible = r.start
      BY <2>1, <3>1 DEF Restores, AtPlace
    <3> QED
      BY <1>7, <3>1, <3>2, EndRestores
  <2>6. CASE Crash(p)
    <3>1. Restores(Resting("none", "none", {}), Visible, credentials, faults)
      BY DEF Restores, AtPlace, Resting, Saving
    <3> QED
      BY <1>7, <2>6, <3>1 DEF Crash
  <2>7. CASE PutCredential(p)
    <3>1. /\ r.pc = "put" /\ Goes(p, [r EXCEPT !.pc = "save"]) /\ UNCHANGED <<primary, faults>>
          /\ credentials' = credentials \cup Ids(r.target)
      BY <2>1, <2>7 DEF PutCredential, Ids
    <3>2. PICK m \in Local : m = [r EXCEPT !.pc = "save"]
      BY DEF Local, Place
    <3>3. /\ m.pc = "save" /\ m.op = r.op /\ m.purpose = r.purpose /\ m.target = r.target
          /\ m.candidate = r.candidate /\ m.start = r.start /\ m.looked = r.looked /\ m.store = r.store
      BY <3>2 DEF Local
    <3>4. Named(m.start, m) = Named(r.start, r)
      BY <3>3 DEF Named
    <3>5. Stocked(r.start, credentials') /\ Stocked(Visible, credentials')
      BY <1>1, <2>2, <3>1 DEF Stocked
    <3>6. Restores(m, Visible, credentials', faults)
      BY <2>1, <3>1, <3>3, <3>4, <3>5 DEF Restores, AtPlace, Saving
    <3> QED
      BY <1>4, <1>6, <3>1, <3>2, <3>5, <3>6
  <2>8. CASE UndoPut(p)
    <3>1. /\ r.pc = "undoPut" /\ Goes(p, Finish(r, "error")) /\ UNCHANGED primary
          /\ credentials' \in {credentials, credentials \ Ids(r.target)}
      BY <2>1, <2>8 DEF UndoPut, Ids
    <3>2. Visible = r.start /\ Ids(r.target) \cap Ids(r.start) = {}
      BY <2>1, <3>1 DEF Restores, AtPlace
    <3>3. Stocked(Visible, credentials')
      BY <1>1, <3>1, <3>2 DEF Stocked, Ids
    <3>4. Restores(Finish(r, "error"), Visible, credentials', faults')
      BY <3>2, EndRestores
    <3> QED
      BY <1>4, <1>6, <3>1, <3>3, <3>4
  <2>9. CASE DeleteCredential(p)
    <3>1. r.pc = "delete" /\ UNCHANGED primary
      BY <2>1, <2>9 DEF DeleteCredential
    <3>2. /\ r.op = "remove" /\ r.loaded = r.start /\ Visible = r.start \ Named(r.start, r)
          /\ HasSecret(Named(r.start, r)) /\ \E t \in Source : r.target = {t}
      BY <2>1, <3>1 DEF Restores, AtPlace
    <3>3. Ids(r.target) \subseteq credentials
      BY <2>2, <3>1, <3>2 DEF Ids, HasSecret, Named, Stocked
    <3>4. CASE credentials' = credentials \ Ids(r.target) /\ Goes(p, Finish(r, "ok"))
      <4>1. Stocked(Visible, credentials')
        BY <1>1, <3>2, <3>4 DEF Stocked, Ids, Named
      <4>2. Restores(Finish(r, "ok"), Visible, credentials', faults')
        BY EndRestores
      <4> QED
        BY <1>4, <1>6, <3>1, <3>4, <4>1, <4>2
    <3>5. CASE Fault /\ UNCHANGED credentials /\ Goes(p, SaveThe(r, r.loaded, "revert"))
      <4>1. faults' > 0
        BY <1>5, <3>5 DEF Fault
      <4>2. PICK m \in Local : m = SaveThe(r, r.start, "revert")
        BY <2>2, <3>1 DEF SaveThe, Local, Place, ConfigAssumption
      <4>3. /\ m.pc = "save" /\ m.op = r.op /\ m.purpose = "revert" /\ m.target = r.target
            /\ m.candidate = r.start /\ m.start = r.start /\ m.looked = r.looked /\ m.store = r.store
        BY <4>2 DEF SaveThe, Local
      <4>4. Named(m.start, m) = Named(r.start, r)
        BY <4>3 DEF Named
      <4>5. Restores(m, Visible, credentials, faults')
        BY <2>1, <2>2, <3>1, <3>2, <4>1, <4>3, <4>4 DEF Restores, AtPlace, Saving
      <4> QED
        BY <1>7, <3>1, <3>2, <3>5, <4>2, <4>5
    <3> QED
      BY <2>1, <2>9, <3>3, <3>4, <3>5 DEF DeleteCredential, Ids
  <2>10. ASSUME r.pc \in Saving
         PROVE  /\ r.op # "none" /\ r.purpose # "none" /\ r.candidate \in SUBSET Source
                /\ Stocked(r.candidate, credentials)
                /\ Restores(AfterSave(r), r.candidate, credentials, faults)
                /\ r.purpose # "revert" \/ ~(MaxFaults <= 1) =>
                     \A f : Restores(AfterSaveError(r), Visible, credentials, f)
                /\ r.purpose = "revert" => faults > 0 /\ Valid(r.candidate)
    <3>1. r.op # "none" /\ r.purpose # "none" /\ r.candidate \in SUBSET Source
      BY <2>1, <2>10 DEF Sound, Saving, Local
    <3>2. /\ Stocked(r.candidate, credentials)
          /\ r.purpose = "revert" => faults > 0 /\ r.candidate = r.start
      BY <2>1, <2>10 DEF Restores, AtPlace
    <3>3. r.purpose = "revert" => Valid(r.candidate)
      BY <2>2, <2>10, <3>1, <3>2, ValidIsDistinct DEF Saving
    <3>4. AfterSaveError(r).pc \notin Saving
      BY DEF AfterSaveError, Finish, Resting, Saving, Local
    <3> QED
      BY <2>1, <2>10, <3>1, <3>2, <3>3, <3>4, SaveRestores, FaultsRestore
  <2>11. ASSUME r.pc \in Saving, NEW m \in Local,
                m.pc \in Saving, m.op = r.op, m.purpose = r.purpose, m.target = r.target,
                m.candidate = r.candidate, m.start = r.start, m.looked = r.looked, m.store = r.store,
                m.loaded = r.loaded
         PROVE  Restores(m, Visible, credentials, faults)
    <3>1. Named(m.start, m) = Named(r.start, r)
      BY <2>11 DEF Named
    <3>2. AtPlace(m, Visible, credentials, faults)
      BY <2>1, <2>11, <3>1 DEF Restores, AtPlace, Saving
    <3> QED
      BY <2>1, <2>11, <3>1, <3>2 DEF Restores, Saving
  <2>12. CASE SaveReads(p)
    <3>1. r.pc \in Saving /\ UNCHANGED <<primary, credentials, faults>>
      BY <2>1, <2>12 DEF SaveReads, Saving
    <3>2. CASE ~Valid(r.candidate)
      <4>1. Goes(p, AfterSaveError(r))
        BY <2>1, <2>12, <3>2 DEF SaveReads
      <4> QED
        BY <1>7, <2>10, <3>1, <3>2, <4>1
    <3>3. CASE Goes(p, [r EXCEPT !.pc = "install"])
      <4>1. PICK m \in Local : m = [r EXCEPT !.pc = "install"]
        BY DEF Local, Place
      <4>2. Restores(m, Visible, credentials, faults)
        BY <2>11, <3>1, <4>1 DEF Local, Saving
      <4> QED
        BY <1>7, <3>1, <3>3, <4>1, <4>2
    <3>4. CASE Goes(p, [r EXCEPT !.pc = "backup", !.held = primary])
      <4>1. PICK m \in Local : m = [r EXCEPT !.pc = "backup", !.held = primary]
        BY <1>1 DEF Local, Place, ConfigInv, TypeOK
      <4>2. /\ m.pc = "backup" /\ m.op = r.op /\ m.purpose = r.purpose /\ m.target = r.target
            /\ m.candidate = r.candidate /\ m.start = r.start /\ m.looked = r.looked
            /\ m.store = r.store /\ m.loaded = r.loaded
        BY <4>1 DEF Local
      <4>3. m.pc \in Saving
        BY <4>2 DEF Saving
      <4>4. Restores(m, Visible, credentials, faults)
        BY <2>11, <3>1, <4>2, <4>3
      <4> QED
        BY <1>7, <3>1, <3>4, <4>1, <4>4
    <3> QED
      BY <2>1, <2>12, <3>2, <3>3, <3>4 DEF SaveReads
  <2>13. CASE WriteBackup(p)
    <3>1. r.pc \in Saving /\ UNCHANGED <<primary, credentials>>
      BY <2>1, <2>13 DEF WriteBackup, Saving
    <3>2. CASE Goes(p, [r EXCEPT !.pc = "install"]) /\ UNCHANGED faults
      <4>1. PICK m \in Local : m = [r EXCEPT !.pc = "install"]
        BY DEF Local, Place
      <4>2. Restores(m, Visible, credentials, faults)
        BY <2>11, <3>1, <4>1 DEF Local, Saving
      <4> QED
        BY <1>7, <3>1, <3>2, <4>1, <4>2
    <3>3. CASE Fault /\ Goes(p, AfterSaveError(r))
      <4>1. r.purpose # "revert" \/ ~(MaxFaults <= 1)
        BY <1>5, <2>10, <3>1, <3>3 DEF Fault
      <4> QED
        BY <1>7, <2>10, <3>1, <3>3, <4>1
    <3> QED
      BY <2>1, <2>13, <3>2, <3>3 DEF WriteBackup
  <2>14. CASE Install(p)
    <3>1. r.pc \in Saving /\ UNCHANGED credentials
      BY <2>1, <2>14 DEF Install, Saving
    <3>2. Current(r.candidate).sources = r.candidate /\ Current(r.candidate) # ABSENT
      BY <2>10, <3>1, CurrentFacts
    <3>3. CASE primary' = Current(r.candidate) /\ Goes(p, AfterSave(r)) /\ UNCHANGED faults
      <4>1. Visible' = r.candidate
        BY <1>3, <3>2, <3>3
      <4> QED
        BY <1>6, <2>10, <3>1, <3>3, <4>1
    <3>4. CASE Fault /\ UNCHANGED primary /\ Goes(p, AfterSaveError(r))
      <4>1. r.purpose # "revert" \/ ~(MaxFaults <= 1)
        BY <1>5, <2>10, <3>1, <3>4 DEF Fault
      <4> QED
        BY <1>7, <2>10, <3>1, <3>4, <4>1
    <3> QED
      BY <1>5, <2>1, <2>14, <3>3, <3>4 DEF Install
  <2>15. ~Recover(p)
    BY <2>1, <2>2 DEF Recover
  <2> QED
    BY <1>10, <2>3, <2>4, <2>5, <2>6, <2>7, <2>8, <2>9, <2>12, <2>13, <2>14, <2>15 DEF Step
<1> QED
  BY <1>8, <1>9, <1>10 DEF Next, Goal

LEMMA FaultInit == ConfigAssumption /\ Synced /\ Init => FaultInv
<1> SUFFICES ASSUME ConfigAssumption, Synced, Init PROVE FaultInv
  OBVIOUS
<1>1. ConfigInv
  BY InitHolds
<1>2. Visible = IF primary = ABSENT THEN {} ELSE primary.sources
  BY <1>1, AloneFacts DEF Synced
<1>3. Stocked(Visible, credentials)
  BY <1>2 DEF Init, Stocked
<1> QED
  BY <1>1, <1>3 DEF Init, FaultInv, Restores, AtPlace, Resting, Saving

(* One command at a time and one failing operation, which is not the sync  *)
(* after a rename: a command that returns an error has left the sources as *)
(* it found them, also when it had already changed them, and also after    *)
(* commands were killed before it (service.go, Add and Remove).            *)
THEOREM FaultsCompensated == ASSUME OneFault PROVE Spec => []OneFaultCompensated
<1>1. FaultInv => OneFaultCompensated
  BY OneFault DEF OneFault, FaultInv, OneFaultCompensated, Restores
<1> QED
  BY OneFault, <1>1, FaultInit, FaultStep, ConfigAssumption, PTL DEF Spec, OneFault
-----------------------------------------------------------------------------
(* The operations of the registry, as steps of what a Load would return    *)
(* and of the credential store.                                            *)
LEMMA RegistryInserts ==
  ASSUME NEW s \in Source, s \notin Visible, Visible' = Visible \cup {s}, Distinct(Visible'),
         s.secret => s.id \in credentials, UNCHANGED credentials
  PROVE  Abstract!Next
<1>1. Abstract!Distinct(Visible') /\ Abstract!Covered({s}, credentials)
  BY DEF Distinct, Abstract!Distinct, Abstract!Covered
<1> QED
  BY <1>1 DEF Abstract!Next, Abstract!Insert

LEMMA RegistryWithdraws ==
  ASSUME NEW s \in Source, s \in Visible, Visible' = Visible \ {s}, UNCHANGED credentials
  PROVE  Abstract!Next
  BY DEF Abstract!Next, Abstract!Withdraw

LEMMA RegistryKeeps ==
  ASSUME NEW s \in Source, credentials' = credentials \cup {s.id}, UNCHANGED Visible
  PROVE  Abstract!Next
  BY DEF Abstract!Next, Abstract!Keep

LEMMA RegistryDrops ==
  ASSUME NEW s \in Source, \A t \in Visible : t.id # s.id,
         credentials' = credentials \ {s.id}, UNCHANGED Visible
  PROVE  Abstract!Next
  BY DEF Abstract!Next, Abstract!Drop

(* A target names at most one of the sources S.                            *)
LEMMA NamesOne ==
  ASSUME NEW S \in SUBSET Source, Distinct(S), NEW t \in Source, NEW r, r.target = {t}
  PROVE  Named(S, r) = {} \/ \E s \in S : Named(S, r) = {s} /\ s.id = t.id
<1>1. \A s \in Named(S, r) : s \in S /\ s.id = t.id
  BY DEF Named
<1>2. \A s, u \in Named(S, r) : s = u
  BY <1>1 DEF Distinct
<1> QED
  BY <1>1, <1>2

(* What a successful Save does to the sources: the registry gains the one  *)
(* of an Add or of a Remove that failed, loses the one of a Remove, and    *)
(* sees nothing of a migration.                                            *)
LEMMA SaveRegistered ==
  ASSUME ConfigAssumption, NEW r \in Local, r.op # "none", r.pc \in Saving, r.purpose # "none",
         NEW f, Restores(r, Visible, credentials, f), Visible \in SUBSET Source, Distinct(Visible),
         Visible' = r.candidate, Distinct(Visible'), UNCHANGED credentials
  PROVE  Abstract!Next \/ UNCHANGED <<Visible, credentials>>
<1>1. /\ Distinct(r.start) /\ Stocked(r.start, credentials) /\ r.start \in SUBSET Source
      /\ r.op \in {"add", "remove"} => \E t \in Source : r.target = {t}
      /\ r.purpose # "revert" => Visible = r.start
      /\ Stocked(r.candidate, credentials)
  BY DEF Restores, AtPlace, Saving
<1>2. CASE r.purpose = "migrate"
  BY <1>1, <1>2 DEF Restores, AtPlace
<1>3. CASE r.purpose = "add"
  <2>1. r.op = "add" /\ Ids(r.target) \cap Ids(r.start) = {} /\ r.candidate = r.start \cup r.target
    BY <1>3 DEF Restores, AtPlace
  <2>2. PICK t \in Source : r.target = {t}
    BY <1>1, <2>1
  <2>3. t \notin Visible
    BY <1>1, <1>3, <2>1, <2>2 DEF Ids
  <2>4. Visible' = Visible \cup {t}
    BY <1>1, <1>3, <2>1, <2>2
  <2>5. t.secret => t.id \in credentials
    BY <1>1, <2>1, <2>2 DEF Stocked
  <2> QED
    BY <2>3, <2>4, <2>5, RegistryInserts
<1>4. ASSUME r.op = "remove" PROVE Named(r.start, r) = {} \/ \E s \in r.start : Named(r.start, r) = {s}
  <2>1. PICK t \in Source : r.target = {t}
    BY <1>1, <1>4
  <2> QED
    BY <1>1, <2>1, NamesOne
<1>5. CASE r.purpose = "remove"
  <2>1. r.op = "remove" /\ Visible = r.start /\ Visible' = Visible \ Named(r.start, r)
    BY <1>1, <1>5 DEF Restores, AtPlace
  <2>2. CASE Named(r.start, r) = {}
    BY <2>1, <2>2
  <2>3. ASSUME NEW s \in r.start, Named(r.start, r) = {s} PROVE Abstract!Next
    <3>1. s \in Source /\ s \in Visible /\ Visible' = Visible \ {s}
      BY <1>1, <2>1, <2>3
    <3> QED
      BY <3>1, RegistryWithdraws
  <2> QED
    BY <1>4, <2>1, <2>2, <2>3
<1>6. CASE r.purpose = "revert"
  <2>1. r.op = "remove" /\ Visible = r.start \ Named(r.start, r) /\ Visible' = r.start
    BY <1>1, <1>6 DEF Restores, AtPlace
  <2>2. CASE Named(r.start, r) = {}
    BY <2>1, <2>2
  <2>3. ASSUME NEW s \in r.start, Named(r.start, r) = {s} PROVE Abstract!Next
    <3>1. s \in Source /\ s \notin Visible /\ Visible' = Visible \cup {s}
      BY <1>1, <2>1, <2>3
    <3>2. s.secret => s.id \in credentials
      BY <1>1, <2>3 DEF Stocked
    <3> QED
      BY <3>1, <3>2, RegistryInserts
  <2> QED
    BY <1>4, <2>1, <2>2, <2>3
<1> QED
  BY <1>2, <1>3, <1>5, <1>6 DEF Local

(* Every step of a command is a step of the registry, or one it does not   *)
(* see.                                                                    *)
LEMMA RegistryStep ==
  ASSUME ConfigAssumption, Synced, FaultInv, [Next]_vars
  PROVE  [Abstract!Next]_(Abstract!registryVars)
<1> DEFINE Goal == Abstract!Next \/ UNCHANGED <<Visible, credentials>>
<1> SUFFICES Goal
  BY DEF Abstract!registryVars
<1>1. /\ ConfigInv /\ ConfigInv' /\ Alone /\ Stocked(Visible, credentials)
      /\ \A p \in Proc : /\ proc[p] \in Local /\ Sound(proc[p])
                         /\ Restores(proc[p], Visible, credentials, faults)
  BY NextHolds DEF FaultInv, Synced, ConfigInv, TypeOK
<1>2. /\ damage = 0 /\ primary # TORN
      /\ Visible = IF primary = ABSENT THEN {} ELSE primary.sources
      /\ Visible \in SUBSET Source /\ Distinct(Visible)
  BY <1>1, AloneFacts
<1>3. primary' # TORN /\ Visible' = IF primary' = ABSENT THEN {} ELSE primary'.sources
  <2>1. damage' = 0 /\ primary' # TORN
    BY <1>1 DEF Alone, ConfigInv, TypeOK, NeverTorn
  <2> QED
    BY <2>1 DEF Visible
<1>4. UNCHANGED primary => Visible' = Visible
  BY <1>2, <1>3
<1>5. UNCHANGED <<primary, credentials>> => Goal
  BY <1>4
<1> HIDE DEF Goal
<1>6. ~Tear
  BY <1>2 DEF Tear, Alone, Synced
<1>7. CASE UNCHANGED vars
  BY <1>5, <1>7 DEF vars
<1>8. ASSUME NEW p \in Proc, Step(p) PROVE Goal
  <2>1. PICK r \in Local : r = proc[p] /\ Sound(r) /\ Restores(r, Visible, credentials, faults)
    BY <1>1
  <2>2. CASE \/ BeginRead(p) \/ \E s \in Source : BeginAdd(p, s) \/ BeginRemove(p, s)
             \/ Load(p) \/ Recover(p) \/ GiveUp(p) \/ SaveReads(p) \/ WriteBackup(p) \/ Crash(p)
    BY <1>5, <2>2 DEF BeginRead, BeginAdd, BeginRemove, Load, Recover, GiveUp, SaveReads, WriteBackup, Crash
  <2>3. CASE PutCredential(p)
    <3>1. r.pc = "put" /\ UNCHANGED primary /\ credentials' = credentials \cup Ids(r.target)
      BY <2>1, <2>3 DEF PutCredential, Ids
    <3>2. r.op = "add" /\ \E t \in Source : r.target = {t}
      BY <2>1, <3>1 DEF Restores, AtPlace
    <3>3. PICK t \in Source : r.target = {t}
      BY <3>2
    <3>4. Visible' = Visible /\ credentials' = credentials \cup {t.id}
      BY <1>4, <3>1, <3>3 DEF Ids
    <3> QED
      BY <3>4, RegistryKeeps DEF Goal
  <2>4. CASE UndoPut(p)
    <3>1. r.pc = "undoPut" /\ UNCHANGED primary /\ credentials' \in {credentials, credentials \ Ids(r.target)}
      BY <2>1, <2>4 DEF UndoPut, Ids
    <3>2. Visible = r.start /\ Ids(r.target) \cap Ids(r.start) = {} /\ \E t \in Source : r.target = {t}
      BY <2>1, <3>1 DEF Restores, AtPlace
    <3>3. PICK t \in Source : r.target = {t}
      BY <3>2
    <3>4. \A s \in Visible : s.id # t.id
      BY <3>2, <3>3 DEF Ids
    <3>5. Visible' = Visible /\ credentials' \in {credentials, credentials \ {t.id}}
      BY <1>4, <3>1, <3>3 DEF Ids
    <3> QED
      BY <1>5, <3>1, <3>4, <3>5, RegistryDrops DEF Goal
  <2>5. CASE DeleteCredential(p)
    <3>1. r.pc = "delete" /\ UNCHANGED primary /\ credentials' \in {credentials, credentials \ Ids(r.target)}
      BY <2>1, <2>5 DEF DeleteCredential, Ids
    <3>2. /\ Visible = r.start \ Named(r.start, r) /\ r.start \in SUBSET Source
          /\ \E t \in Source : r.target = {t}
      BY <2>1, <3>1 DEF Restores, AtPlace
    <3>3. PICK t \in Source : r.target = {t}
      BY <3>2
    <3>4. \A s \in Visible : s.id # t.id
      BY <3>2, <3>3 DEF Named
    <3>5. Visible' = Visible /\ credentials' \in {credentials, credentials \ {t.id}}
      BY <1>4, <3>1, <3>3 DEF Ids
    <3> QED
      BY <1>5, <3>1, <3>4, <3>5, RegistryDrops DEF Goal
  <2>6. CASE Install(p)
    <3>1. r.pc \in Saving /\ r.op # "none" /\ r.purpose # "none" /\ r.candidate \in SUBSET Source
      BY <2>1, <2>6 DEF Install, Saving, Sound, Local
    <3>2. Current(r.candidate).sources = r.candidate /\ Current(r.candidate) # ABSENT
      BY <3>1, CurrentFacts
    <3>3. CASE primary' = Current(r.candidate)
      <4>1. Visible' = r.candidate /\ UNCHANGED credentials
        BY <1>3, <2>6, <3>2, <3>3 DEF Install
      <4>2. Distinct(Visible')
        BY <2>1, <2>6, <4>1 DEF Install, Sound
      <4> QED
        BY <1>2, <2>1, <3>1, <4>1, <4>2, SaveRegistered DEF Goal
    <3>4. CASE UNCHANGED primary
      BY <1>5, <2>6, <3>4 DEF Install
    <3> QED
      BY <2>1, <2>6, <3>3, <3>4 DEF Install
  <2> QED
    BY <1>8, <2>2, <2>3, <2>4, <2>5, <2>6 DEF Step
<1> QED
  BY <1>6, <1>7, <1>8 DEF Next

(* One command at a time and no failed sync after a rename, however many   *)
(* other operations fail and commands are killed: what a Load would return *)
(* and the credential store change like the registry, one source or one    *)
(* credential at a time, and no source is ever there whose credential is   *)
(* not (config.go, Load and Save; service.go, Add and Remove).             *)
THEOREM StoreImplementsRegistry == ASSUME Synced PROVE Spec => ImplementsRegistry
<1>1. ConfigAssumption /\ FaultInv /\ Init => Abstract!Init
  <2> SUFFICES ASSUME ConfigAssumption, FaultInv PROVE Abstract!Init
    OBVIOUS
  <2>1. Visible \in SUBSET Source /\ Distinct(Visible) /\ Stocked(Visible, credentials)
    BY Synced, AloneFacts DEF Synced, FaultInv
  <2> QED
    BY <2>1 DEF Abstract!Init, Abstract!Distinct, Abstract!Covered, Distinct, Stocked
<1>2. ConfigAssumption /\ Synced /\ FaultInv /\ [Next]_vars => [Abstract!Next]_(Abstract!registryVars)
  BY RegistryStep
<1> QED
  BY Synced, <1>1, <1>2, FaultInit, FaultStep, ConfigAssumption, PTL DEF Spec, ImplementsRegistry, Abstract!Spec
=============================================================================
