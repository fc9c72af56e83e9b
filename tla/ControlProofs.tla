---------------------------- MODULE ControlProofs ----------------------------
(***************************************************************************)
(* For any number of daemons and clients: a daemon that has the address to *)
(* itself is reachable there, and every client is told the truth.          *)
(*                                                                         *)
(* Neither property is inductive.  The first needs what listen has seen of *)
(* the path between two of its calls, that only daemons which overlap can  *)
(* disturb it (Exclusive), and that a file which is not a socket is never  *)
(* removed.  The second needs what each connection knows of its operation  *)
(* while nobody has been told yet, and that handlers run only as long as   *)
(* Close waits for them (HandledByLiving).                                 *)
(***************************************************************************)
EXTENDS Control, TLAPS

Phase == {"off", "listening", "clearing", "binding", "bound", "unbinding", "refused", "serving",
          "draining", "unlinked", "closed", "waiting", "ended"}

AddressType ==
  /\ daemon \in [Daemon -> Phase]
  /\ path \in Daemon \cup {NONE, FILE}
  /\ overlapped \subseteq Daemon

Exclusive ==
  \A d, e \in Daemon : d # e /\ UsesAddress(d) /\ UsesAddress(e) => d \in overlapped

SeenByListen ==
  \A d \in Daemon \ overlapped :
    /\ At(d, "clearing") => path # NONE
    /\ At(d, "binding") => path = NONE
    /\ daemon[d] \in {"bound", "serving"} => path = d
    /\ ~At(d, "unbinding")
    /\ At(d, "refused") => path = FILE

FileStays == path = FILE => \A d \in Daemon : daemon[d] \in {"off", "listening", "refused", "ended"}

OwnerHolds ==
  path \in Daemon => daemon[path] \in {"bound", "unbinding", "serving", "draining", "ended"}

AddressInv == AddressType /\ Exclusive /\ SeenByListen /\ FileStays /\ OwnerHolds

(* Clients, handlers, serve and the doctor leave the address alone.        *)
LEMMA OthersKeepAddress ==
  ASSUME \/ \E d \in Daemon : ServeReturns(d)
         \/ \E c \in Client : \/ Accepts(c) \/ Handles(c) \/ DeadlinePasses(c)
                              \/ ClientCalls(c) \/ GivesUp(c) \/ HangsUp(c)
         \/ DoctorAsks \/ DoctorAsksMore \/ DoctorLooks \/ DoctorConcludes
  PROVE  UNCHANGED <<daemon, path, overlapped>>
  BY DEF ServeReturns, Accepts, Handles, Reads, Dispatches, Encodes, DeadlinePasses, ClientCalls,
         GivesUp, HangsUp, DoctorAsks, DoctorAsksMore, DoctorLooks, DoctorConcludes, daemonVars

LEMMA AddressInit == Init => AddressInv
  BY ControlAssumption DEF Init, AddressInv, AddressType, Exclusive, SeenByListen, FileStays,
     OwnerHolds, UsesAddress, At, Phase

LEMMA AddressStep == AddressInv /\ [Next]_vars => AddressInv'
<1> SUFFICES ASSUME AddressInv, [Next]_vars PROVE AddressInv'
  OBVIOUS
<1> USE ControlAssumption DEF AddressInv, AddressType, Exclusive, SeenByListen, FileStays,
        OwnerHolds, UsesAddress, At, Goes, GoesWith, Phase
<1>1. ASSUME NEW d \in Daemon, Boots(d) PROVE AddressInv'
  BY <1>1 DEF Boots
<1>2. ASSUME NEW d \in Daemon, Inspects(d) PROVE AddressInv'
  BY <1>2 DEF Inspects
<1>3. ASSUME NEW d \in Daemon, Clears(d) PROVE AddressInv'
  BY <1>3 DEF Clears
<1>4. ASSUME NEW d \in Daemon, Binds(d) PROVE AddressInv'
  BY <1>4 DEF Binds
<1>5. ASSUME NEW d \in Daemon, Chmods(d) PROVE AddressInv'
  BY <1>5 DEF Chmods
<1>6. ASSUME NEW d \in Daemon, Unbinds(d) PROVE AddressInv'
  BY <1>6 DEF Unbinds
<1>7. ASSUME NEW d \in Daemon, Signal(d) PROVE AddressInv'
  BY <1>7 DEF Signal
<1>8. ASSUME NEW d \in Daemon, Unlinks(d) PROVE AddressInv'
  BY <1>8 DEF Unlinks
<1>9. ASSUME NEW d \in Daemon, ClosesListener(d) PROVE AddressInv'
  BY <1>9 DEF ClosesListener
<1>10. ASSUME NEW d \in Daemon, RemovesAgain(d) PROVE AddressInv'
  BY <1>10 DEF RemovesAgain
<1>11. ASSUME NEW d \in Daemon, Ends(d) PROVE AddressInv'
  BY <1>11 DEF Ends
<1>12. ASSUME NEW d \in Daemon, Crashes(d) PROVE AddressInv'
  BY <1>12 DEF Crashes
<1>13. ASSUME UNCHANGED <<daemon, path, overlapped>> PROVE AddressInv'
  BY <1>13
<1>14. CASE UNCHANGED vars
  BY <1>14, <1>13 DEF vars, daemonVars
<1>15. CASE Next
  BY <1>15, <1>1, <1>2, <1>3, <1>4, <1>5, <1>6, <1>7, <1>8, <1>9, <1>10, <1>11, <1>12, <1>13,
     OthersKeepAddress DEF Next, DaemonStep
<1> QED
  BY <1>14, <1>15

LEMMA AddressInvImplies == AddressInv => LoneDaemonReachable
  BY DEF AddressInv, AddressType, SeenByListen, FileStays, OwnerHolds, At, LoneDaemonReachable

(* A lone daemon comes up whatever was left at the address, stays          *)
(* reachable, and takes its socket along (transport_unix.go, listen and    *)
(* cleanupListener.Close).                                                 *)
THEOREM ControlReachable == Spec => []LoneDaemonReachable
  BY AddressInit, AddressStep, AddressInvImplies, PTL DEF Spec

-----------------------------------------------------------------------------
Draining == {"serving", "draining", "unlinked", "closed", "waiting"}
Place == {"none", "queued", "reading", "working", "encoding"}

Calling == [waits : BOOLEAN, deadline : BOOLEAN, outcome : {"none", "ok", "failure", "error"}]
Linking == [at : Place, to : Daemon \cup {NONE}, op : Operation \cup {"none"}, late : BOOLEAN,
            result : {"none", "ok", "failure"}]
Effect == {"none", "done", "unheard"}

CallType ==
  /\ daemon \in [Daemon -> Phase]
  /\ accepting \in [Daemon -> BOOLEAN]
  /\ path \in Daemon \cup {NONE, FILE}
  /\ call \in [Client -> Calling]
  /\ link \in [Client -> Linking]
  /\ effect \in [Client -> Effect]

AcceptedByLiving == \A d \in Daemon : accepting[d] => daemon[d] \in Draining

HandledByLiving(c) ==
  /\ link[c].at = "none" <=> link[c].to = NONE
  /\ Handling(c) => daemon[link[c].to] \in Draining

(* A client that was told knows; one that waits can still be told.         *)
Told(c) ==
  /\ call[c].outcome = "ok" => effect[c] = "done" /\ link[c].at = "none" /\ ~call[c].waits
  /\ call[c].outcome = "failure" => effect[c] = "none" /\ link[c].at = "none" /\ ~call[c].waits
  /\ call[c].outcome = "error" => effect[c] # "done" /\ ~call[c].waits

Waits(c) ==
  /\ effect[c] = "done" /\ call[c].waits => link[c].at = "encoding" /\ ~link[c].late
  /\ link[c].at = "encoding" => link[c].result \in {"ok", "failure"}
  /\ link[c].at = "encoding" /\ call[c].waits /\ ~link[c].late =>
       /\ link[c].result = "ok" => effect[c] = "done"
       /\ link[c].result = "failure" => effect[c] = "none"
  /\ link[c].op = "silent" => link[c].at \notin {"working", "encoding"}

AnswerInv ==
  /\ CallType
  /\ AcceptedByLiving
  /\ \A c \in Client : HandledByLiving(c) /\ Told(c) /\ Waits(c)

LEMMA AnswerInit == Init => AnswerInv
  BY ControlAssumption DEF Init, AnswerInv, CallType, AcceptedByLiving, HandledByLiving, Told, Waits,
     Handling, Idle, NoLink, Phase, Place, Draining, Operation, Calling, Linking, Effect

(* A step that changes one connection at most needs a look at that one.    *)
LEMMA OneConnection ==
  ASSUME AnswerInv, NEW c \in Client, UNCHANGED <<daemon, accepting, path>>,
         call' \in [Client -> Calling], link' \in [Client -> Linking], effect' \in [Client -> Effect],
         \A x \in Client \ {c} : call'[x] = call[x] /\ link'[x] = link[x] /\ effect'[x] = effect[x],
         HandledByLiving(c)', Told(c)', Waits(c)'
  PROVE  AnswerInv'
<1>1. ASSUME NEW x \in Client PROVE (HandledByLiving(x) /\ Told(x) /\ Waits(x))'
  <2>1. CASE x = c
    BY <2>1
  <2>2. CASE x # c
    BY <2>2 DEF AnswerInv, HandledByLiving, Handling, Told, Waits
  <2> QED
    BY <2>1, <2>2
<1> QED
  BY <1>1 DEF AnswerInv, CallType, AcceptedByLiving

(* A step that changes none needs a look at the daemons.                   *)
LEMMA NoConnection ==
  ASSUME AnswerInv, UNCHANGED callVars, daemon' \in [Daemon -> Phase],
         accepting' \in [Daemon -> BOOLEAN], path' \in Daemon \cup {NONE, FILE},
         \A d \in Daemon : daemon[d] \in Draining => daemon'[d] \in Draining, AcceptedByLiving'
  PROVE  AnswerInv'
  BY ControlAssumption DEF AnswerInv, callVars, CallType, HandledByLiving, Handling, Told, Waits,
     Linking, Place

LEMMA DaemonKeepsAnswers ==
  ASSUME AnswerInv, NEW d \in Daemon,
         \/ Boots(d) \/ Inspects(d) \/ Clears(d) \/ Binds(d) \/ Chmods(d) \/ Signal(d)
         \/ Unlinks(d) \/ RemovesAgain(d) \/ ServeReturns(d)
  PROVE  AnswerInv'
<1> USE NoConnection DEF AnswerInv, CallType, AcceptedByLiving, At, Goes, GoesWith, Phase, Draining
<1>1. CASE Boots(d)
  BY <1>1 DEF Boots
<1>2. CASE Inspects(d)
  BY <1>2 DEF Inspects
<1>3. CASE Clears(d)
  BY <1>3 DEF Clears
<1>4. CASE Binds(d)
  BY <1>4 DEF Binds
<1>5. CASE Chmods(d)
  BY <1>5 DEF Chmods
<1>6. CASE Signal(d)
  BY <1>6 DEF Signal
<1>7. CASE Unlinks(d)
  BY <1>7 DEF Unlinks
<1>8. CASE RemovesAgain(d)
  BY <1>8 DEF RemovesAgain
<1>9. CASE ServeReturns(d)
  BY <1>9 DEF ServeReturns, daemonVars
<1> QED
  BY <1>1, <1>2, <1>3, <1>4, <1>5, <1>6, <1>7, <1>8, <1>9

(* The steps of a daemon that drop connections: of those nobody handles,   *)
(* or in a crash.                                                          *)
LEMMA DropKeepsAnswers ==
  ASSUME AnswerInv, NEW d \in Daemon,
         Unbinds(d) \/ ClosesListener(d) \/ Ends(d) \/ Crashes(d)
  PROVE  AnswerInv'
<1> USE ControlAssumption DEF AnswerInv, CallType, AcceptedByLiving, HandledByLiving, Told, Waits, Handling, At,
        Goes, GoesWith, Phase, Place, Draining, Drop, LinksTo, Failed, Idle, NoLink, Operation,
        Calling, Linking, Effect
<1>1. CASE Unbinds(d)
  BY <1>1 DEF Unbinds
<1>2. CASE ClosesListener(d)
  BY <1>2 DEF ClosesListener
<1>3. CASE Ends(d)
  BY <1>3 DEF Ends
<1>4. CASE Crashes(d)
  BY <1>4 DEF Crashes, Unheard
<1> QED
  BY <1>1, <1>2, <1>3, <1>4

LEMMA DropIsTyped ==
  ASSUME CallType, NEW c \in Client, Drop({c})
  PROVE  call' \in [Client -> Calling] /\ link' \in [Client -> Linking]
<1>1. NoLink \in Linking
  BY DEF NoLink, Linking, Place
<1>2. Failed(c) \in Calling
  BY DEF CallType, Failed, Idle, Calling
<1> QED
  BY <1>1, <1>2 DEF Drop, CallType

LEMMA HandlersKeepAnswers ==
  ASSUME AnswerInv, NEW c \in Client, Accepts(c) \/ Handles(c) \/ DeadlinePasses(c)
  PROVE  AnswerInv'
<1> DEFINE Others == /\ UNCHANGED <<daemon, accepting, path>>
                     /\ \A x \in Client \ {c} : /\ call'[x] = call[x] /\ link'[x] = link[x]
                                               /\ effect'[x] = effect[x]
<1> USE ControlAssumption DEF daemonVars
<1>0. /\ CallType /\ AcceptedByLiving
      /\ link[c] \in Linking /\ call[c] \in Calling /\ effect[c] \in Effect
      /\ HandledByLiving(c) /\ Told(c) /\ Waits(c)
  BY DEF AnswerInv, CallType
<1>1. CASE Accepts(c)
  <2> USE <1>0, <1>1 DEF Accepts
  <2>1. Others
    BY DEF CallType
  <2>2. call' \in [Client -> Calling]
    BY DEF CallType, Calling
  <2>3. link' \in [Client -> Linking]
    BY DEF CallType, Linking, Place
  <2>4. effect' \in [Client -> Effect]
    BY DEF CallType, Effect
  <2>5. HandledByLiving(c)'
    BY DEF CallType, HandledByLiving, Handling, AcceptedByLiving, Linking, Place
  <2>6. Told(c)'
    BY DEF CallType, Told, Waits, Linking, Calling, Effect, Place
  <2>7. Waits(c)'
    BY DEF CallType, Told, Waits, Linking, Calling, Effect, Place
  <2> QED
    BY <2>1, <2>2, <2>3, <2>4, <2>5, <2>6, <2>7, OneConnection
<1>2. CASE Reads(c)
  <2> USE <1>0, <1>2 DEF Reads
  <2>1. Others
    BY DEF CallType, Drop
  <2>2. call' \in [Client -> Calling]
    BY DropIsTyped DEF CallType, Calling
  <2>3. link' \in [Client -> Linking]
    BY DropIsTyped DEF CallType, Linking, Place
  <2>4. effect' \in [Client -> Effect]
    BY DEF CallType, Effect
  <2>5. HandledByLiving(c)'
    BY DEF CallType, HandledByLiving, Handling, AcceptedByLiving, Linking, Place, Drop, NoLink
  <2>6. Told(c)'
    BY DEF CallType, Told, Waits, Linking, Calling, Effect, Place, Drop, Failed, Idle, NoLink
  <2>7. Waits(c)'
    BY DEF CallType, Told, Waits, Linking, Calling, Effect, Place, Drop, Failed, Idle, NoLink
  <2> QED
    BY <2>1, <2>2, <2>3, <2>4, <2>5, <2>6, <2>7, OneConnection
<1>3. CASE Dispatches(c)
  <2> USE <1>0, <1>3 DEF Dispatches
  <2>1. Others
    BY DEF CallType
  <2>2. call' \in [Client -> Calling]
    BY DEF CallType, Calling
  <2>3. link' \in [Client -> Linking]
    <3>1. PICK result \in {"ok", "failure"} :
            link' = [link EXCEPT ![c] = [@ EXCEPT !.at = "encoding", !.result = result]]
      OBVIOUS
    <3>2. [link[c] EXCEPT !.at = "encoding", !.result = result] \in Linking
      BY DEF Linking, Place
    <3> QED
      BY <3>1, <3>2 DEF CallType
  <2>4. effect' \in [Client -> Effect]
    BY DEF CallType, Effect
  <2>5. HandledByLiving(c)'
    BY DEF CallType, HandledByLiving, Handling, AcceptedByLiving, Linking, Place
  <2>6. Told(c)'
    BY DEF CallType, Told, Waits, Linking, Calling, Effect, Place
  <2>7. Waits(c)'
    BY DEF CallType, Told, Waits, Linking, Calling, Effect, Place
  <2> QED
    BY <2>1, <2>2, <2>3, <2>4, <2>5, <2>6, <2>7, OneConnection
<1>4. CASE Encodes(c)
  <2> USE <1>0, <1>4 DEF Encodes
  <2>1. Others
    BY DEF CallType, Drop
  <2>a. Idle(link[c].result) \in Calling /\ NoLink \in Linking
    BY DEF Idle, Calling, Linking, NoLink, Place
  <2>2. call' \in [Client -> Calling]
    BY <2>a, DropIsTyped DEF CallType
  <2>3. link' \in [Client -> Linking]
    BY <2>a, DropIsTyped DEF CallType
  <2>4. effect' \in [Client -> Effect]
    BY DEF CallType, Effect
  <2>5. HandledByLiving(c)'
    BY DEF CallType, HandledByLiving, Handling, AcceptedByLiving, Linking, Place, Drop, NoLink
  <2>6. Told(c)'
    BY DEF CallType, Told, Waits, Linking, Calling, Effect, Place, Drop, Failed, Idle, NoLink
  <2>7. Waits(c)'
    BY DEF CallType, Told, Waits, Linking, Calling, Effect, Place, Drop, Failed, Idle, NoLink
  <2> QED
    BY <2>1, <2>2, <2>3, <2>4, <2>5, <2>6, <2>7, OneConnection
<1>5. CASE DeadlinePasses(c)
  <2> USE <1>0, <1>5 DEF DeadlinePasses, Unheard
  <2>1. Others
    BY DEF CallType
  <2>2. call' \in [Client -> Calling]
    BY DEF CallType, Calling
  <2>3. link' \in [Client -> Linking]
    BY DEF CallType, Linking, Place
  <2>4. effect' \in [Client -> Effect]
    BY DEF CallType, Effect
  <2>5. HandledByLiving(c)'
    BY DEF CallType, HandledByLiving, Handling, AcceptedByLiving, Linking, Place
  <2>6. Told(c)'
    BY DEF CallType, Told, Waits, Linking, Calling, Effect, Place
  <2>7. Waits(c)'
    BY DEF CallType, Told, Waits, Linking, Calling, Effect, Place
  <2> QED
    BY <2>1, <2>2, <2>3, <2>4, <2>5, <2>6, <2>7, OneConnection
<1> QED
  BY <1>1, <1>2, <1>3, <1>4, <1>5 DEF Handles

LEMMA CallsKeepAnswers ==
  ASSUME AnswerInv, NEW c \in Client, NEW op \in Operation, NEW deadline \in BOOLEAN,
         Calls(c, op, deadline), UNCHANGED <<daemon, accepting, path>>
  PROVE  AnswerInv'
<1> USE ControlAssumption DEF AnswerInv, CallType, HandledByLiving, Told, Waits, Handling, Place,
        Calling, Linking, Effect, Idle, NoLink
<1>1. CASE path \in Daemon /\ Connectable(path)
  <2>1. /\ call' = [call EXCEPT ![c] = [waits |-> TRUE, deadline |-> deadline, outcome |-> "none"]]
        /\ link' = [link EXCEPT ![c] = [at |-> "queued", to |-> path, op |-> op, late |-> FALSE,
                                       result |-> "none"]]
        /\ effect' = [effect EXCEPT ![c] = "none"]
    BY <1>1 DEF Calls
  <2>2. HandledByLiving(c)' /\ Told(c)' /\ Waits(c)'
    BY <2>1, <1>1
  <2>3. call' \in [Client -> Calling] /\ link' \in [Client -> Linking] /\ effect' \in [Client -> Effect]
    BY <2>1, <1>1
  <2>4. \A x \in Client \ {c} : call'[x] = call[x] /\ link'[x] = link[x] /\ effect'[x] = effect[x]
    BY <2>1
  <2> QED
    BY <2>2, <2>3, <2>4, OneConnection
<1>2. CASE ~(path \in Daemon /\ Connectable(path))
  <2>1. /\ call' = [call EXCEPT ![c] = [waits |-> FALSE, deadline |-> FALSE, outcome |-> "error"]]
        /\ link' = link
        /\ effect' = [effect EXCEPT ![c] = "none"]
        /\ link[c].at = "none"
    BY <1>2 DEF Calls
  <2>2. HandledByLiving(c)' /\ Told(c)' /\ Waits(c)'
    BY <2>1
  <2>3. call' \in [Client -> Calling] /\ link' \in [Client -> Linking] /\ effect' \in [Client -> Effect]
    BY <2>1
  <2>4. \A x \in Client \ {c} : call'[x] = call[x] /\ link'[x] = link[x] /\ effect'[x] = effect[x]
    BY <2>1
  <2> QED
    BY <2>2, <2>3, <2>4, OneConnection
<1> QED
  BY <1>1, <1>2

LEMMA ClientsKeepAnswers ==
  ASSUME AnswerInv,
         \/ \E c \in Client : ClientCalls(c) \/ GivesUp(c) \/ HangsUp(c)
         \/ DoctorAsks \/ DoctorAsksMore \/ DoctorLooks \/ DoctorConcludes
  PROVE  AnswerInv'
<1>1. ASSUME NEW c \in Client, ClientCalls(c) PROVE AnswerInv'
  <2>1. PICK asked \in Asked : Calls(c, asked[1], asked[2])
    BY <1>1 DEF ClientCalls
  <2>2. asked[1] \in Operation /\ asked[2] \in BOOLEAN
    BY ControlAssumption
  <2> QED
    BY <1>1, <2>1, <2>2, CallsKeepAnswers DEF ClientCalls, daemonVars
<1>2. ASSUME NEW c \in Client, GivesUp(c) \/ HangsUp(c) PROVE AnswerInv'
  <2>1. /\ call[c].waits
        /\ call' = [call EXCEPT ![c] = Idle("error")]
        /\ UNCHANGED <<daemon, accepting, path, link>>
        /\ \/ effect' = [effect EXCEPT ![c] = Unheard(c)]
           \/ link[c].op = "silent" /\ UNCHANGED effect
    BY <1>2 DEF GivesUp, HangsUp, daemonVars, Failed
  <2>2. call' \in [Client -> Calling]
    BY <2>1 DEF AnswerInv, CallType, Idle, Calling
  <2>3. link' \in [Client -> Linking] /\ effect' \in [Client -> Effect]
    BY <2>1 DEF AnswerInv, CallType, Unheard, Effect
  <2>4. \A x \in Client \ {c} : call'[x] = call[x] /\ link'[x] = link[x] /\ effect'[x] = effect[x]
    BY <2>1 DEF AnswerInv, CallType
  <2>5. HandledByLiving(c)' /\ Told(c)' /\ Waits(c)'
    BY <2>1 DEF AnswerInv, CallType, HandledByLiving, Handling, Told, Waits, Unheard, Idle, Effect
  <2> QED
    BY <2>1, <2>2, <2>3, <2>4, <2>5, OneConnection
<1>3. CASE DoctorAsks
  BY <1>3, ControlAssumption, CallsKeepAnswers DEF DoctorAsks, Operation
<1>4. CASE DoctorAsksMore
  BY <1>4, ControlAssumption, CallsKeepAnswers DEF DoctorAsksMore, Operation, daemonVars
<1>5. CASE DoctorLooks \/ DoctorConcludes
  <2>1. UNCHANGED <<daemonVars, callVars>>
    BY <1>5 DEF DoctorLooks, DoctorConcludes
  <2> QED
    BY <2>1 DEF daemonVars, callVars, AnswerInv, CallType, AcceptedByLiving, HandledByLiving,
       Handling, Told, Waits
<1> QED
  BY <1>1, <1>2, <1>3, <1>4, <1>5

LEMMA AnswerStep == AnswerInv /\ [Next]_vars => AnswerInv'
<1> SUFFICES ASSUME AnswerInv, [Next]_vars PROVE AnswerInv'
  OBVIOUS
<1>1. CASE UNCHANGED vars
  BY <1>1 DEF AnswerInv, CallType, AcceptedByLiving, HandledByLiving, Told, Waits, Handling, vars, daemonVars, callVars
<1>2. CASE Next
  BY <1>2, DaemonKeepsAnswers, DropKeepsAnswers, HandlersKeepAnswers, ClientsKeepAnswers
     DEF Next, DaemonStep
<1> QED
  BY <1>1, <1>2

LEMMA AnswerInvImplies == AnswerInv => AnswersAreTrue
  BY DEF AnswerInv, Told, AnswersAreTrue

(* Every answer is true, and an error hides an effect only after a deadline*)
(* or a crash, never after a shutdown (control.go, handle and Close).      *)
THEOREM ControlHonest == Spec => []AnswersAreTrue
  BY AnswerInit, AnswerStep, AnswerInvImplies, PTL DEF Spec
-----------------------------------------------------------------------------
(* Since the doctor asked, there was a moment without a daemon to reach,   *)
(* or there has been one to reach all the time; DoctorLooks tells which.   *)
Observed == ServedAlone(daemon, overlapped) \/ unserved

DoctorInv == Observed /\ DoctorIsRight

LEMMA PathShowsLone == AddressInv /\ ServedAlone(daemon, overlapped) => path \in Daemon
  BY DEF AddressInv, SeenByListen, ServedAlone, At

LEMMA PhaseObserved ==
  ASSUME DoctorInv, NEW d \in Daemon, NEW phase, NEW overlaps, GoesWith(d, phase, overlaps),
         UNCHANGED doctor
  PROVE  DoctorInv'
<1>1. unserved => unserved'
  BY Zenon DEF GoesWith
<1>2. ServedAlone(daemon, overlapped)' \/ unserved'
  BY Zenon DEF GoesWith, ServedAlone
<1>3. DoctorIsRight'
  BY <1>1, Zenon DEF DoctorInv, DoctorIsRight
<1> QED
  BY <1>2, <1>3, Zenon DEF DoctorInv, Observed

LEMMA NothingObserved ==
  ASSUME DoctorInv, UNCHANGED <<daemon, overlapped, unserved>>,
         doctor' = "not running" => doctor = "not running" \/ unserved
  PROVE  DoctorInv'
  BY DEF DoctorInv, Observed, DoctorIsRight, ServedAlone

LEMMA DoctorStep == AddressInv /\ DoctorInv /\ [Next]_vars => DoctorInv'
<1> SUFFICES ASSUME AddressInv, DoctorInv, [Next]_vars PROVE DoctorInv'
  OBVIOUS
<1>1. ASSUME NEW d \in Daemon,
             \/ Boots(d) \/ Inspects(d) \/ Clears(d) \/ Binds(d) \/ Chmods(d) \/ Unbinds(d) \/ Signal(d)
             \/ Unlinks(d) \/ ClosesListener(d) \/ RemovesAgain(d) \/ Ends(d) \/ Crashes(d)
      PROVE  DoctorInv'
  <2>1. UNCHANGED doctor /\ \E phase, overlaps : GoesWith(d, phase, overlaps)
    BY <1>1 DEF Boots, Inspects, Clears, Binds, Chmods, Unbinds, Signal, Unlinks, ClosesListener,
       RemovesAgain, Ends, Crashes, Goes
  <2> QED
    BY <2>1, PhaseObserved
<1>2. CASE \/ \E d \in Daemon : ServeReturns(d)
           \/ \E c \in Client : \/ Accepts(c) \/ Handles(c) \/ DeadlinePasses(c)
                                \/ ClientCalls(c) \/ GivesUp(c) \/ HangsUp(c)
           \/ UNCHANGED vars
  <2>1. UNCHANGED <<daemon, overlapped, unserved, doctor>>
    BY <1>2 DEF ServeReturns, Accepts, Handles, Reads, Dispatches, Encodes, DeadlinePasses,
       ClientCalls, GivesUp, HangsUp, daemonVars, vars
  <2> QED
    BY <2>1, NothingObserved
<1>3. CASE DoctorAsks
  <2>1. /\ UNCHANGED <<daemon, overlapped>> /\ doctor' = "asking"
        /\ unserved' = ~ServedAlone(daemon, overlapped)
    BY <1>3, Zenon DEF DoctorAsks
  <2>2. ServedAlone(daemon, overlapped)' \/ unserved'
    BY <2>1, Zenon DEF ServedAlone
  <2> QED
    BY <2>1, <2>2 DEF DoctorInv, Observed, DoctorIsRight
<1>4. CASE DoctorAsksMore \/ DoctorConcludes
  BY <1>4, NothingObserved DEF DoctorAsksMore, DoctorConcludes, daemonVars
<1>5. CASE DoctorLooks
  <2>1. UNCHANGED <<daemon, overlapped, unserved>> /\ (doctor' = "not running" => path \notin Daemon)
    BY <1>5 DEF DoctorLooks, daemonVars
  <2>2. path \notin Daemon => unserved
    BY PathShowsLone DEF DoctorInv, Observed
  <2> QED
    BY <2>1, <2>2, NothingObserved
<1> QED
  BY <1>1, <1>2, <1>3, <1>4, <1>5 DEF Next, DaemonStep

(* However slow the daemons are, starting or stopping, the doctor reports  *)
(* one as not running only if there was a moment without one (doctor.go,   *)
(* checkDaemon).                                                           *)
THEOREM DoctorTellsTruth == Spec => []DoctorIsRight
<1>1. Init => DoctorInv
  BY DEF Init, DoctorInv, Observed, DoctorIsRight
<1>2. DoctorInv => DoctorIsRight
  BY DEF DoctorInv
<1> QED
  BY <1>1, <1>2, AddressInit, AddressStep, DoctorStep, PTL DEF Spec
=============================================================================
