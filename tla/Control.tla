------------------------------- MODULE Control -------------------------------
(***************************************************************************)
(* The control socket of `quackridge serve` (internal/control), the calls  *)
(* made through it (control.Call, with the deadlines the commands of       *)
(* internal/cli give it), and what `quackridge doctor` concludes from its  *)
(* two calls (internal/doctor, checkDaemon).                               *)
(*                                                                         *)
(* A daemon is one process: started once, ended by a signal, by a failure  *)
(* to listen, or by a crash.  What an operation does to the service is one *)
(* step here, with its success or failure (modules Lifecycle and Pairing). *)
(* A connection takes its deadline of five seconds when it is accepted;    *)
(* the deadlines of this code's callers, five seconds and three, run from  *)
(* before the dial and so end first.                                       *)
(***************************************************************************)
EXTENDS FiniteSets

CONSTANTS
  Daemon,    \* processes `quackridge serve`, one incarnation each
  Client,    \* callers, one connection each at a time
  Doctor,    \* the caller that is `quackridge doctor`
  Asked,     \* what they may ask for: <<operation, has a deadline>>
  NONE,
  FILE       \* something at the address that is not a socket

Operation == {"status", "diagnostics", "change", "silent"}

ASSUME ControlAssumption ==
  /\ Asked \subseteq Operation \X BOOLEAN
  /\ Doctor \in Client
  /\ NONE \notin Daemon \cup {FILE} /\ FILE \notin Daemon

VARIABLES
  daemon,      \* where each process is in serve, listen and Close
  accepting,   \* whether its goroutine Server.serve runs
  path,        \* whose socket the address names
  call,        \* what each client knows of its latest call
  link,        \* the server's side of its connection, with the request
  doctor,      \* where checkDaemon is, or its verdict
  effect,      \* history: whether the operation of the latest call was done,
               \* and whether a deadline or a crash kept that from the client
  overlapped,  \* history: daemons that used the address while another did
  unserved     \* history: during the doctor's run there was a moment when no
               \* daemon that had the address to itself was serving

daemonVars == <<daemon, accepting, path, overlapped, unserved>>
callVars == <<call, link, effect>>
vars == <<daemonVars, callVars, doctor>>

Idle(outcome) == [waits |-> FALSE, deadline |-> FALSE, outcome |-> outcome]
NoLink == [at |-> "none", to |-> NONE, op |-> "none", late |-> FALSE, result |-> "none"]

Init ==
  /\ daemon = [d \in Daemon |-> "off"]
  /\ accepting = [d \in Daemon |-> FALSE]
  /\ path \in {NONE, FILE}
  /\ call = [c \in Client |-> Idle("none")]
  /\ link = [c \in Client |-> NoLink]
  /\ doctor = "idle"
  /\ effect = [c \in Client |-> "none"]
  /\ overlapped = {}
  /\ unserved = TRUE

At(d, phase) == daemon[d] = phase

ServedAlone(phases, overlaps) == \E d \in Daemon : phases[d] = "serving" /\ d \notin overlaps

GoesWith(d, phase, overlaps) ==
  /\ daemon' = [daemon EXCEPT ![d] = phase]
  /\ overlapped' = overlaps
  /\ unserved' = (unserved \/ ~ServedAlone(daemon', overlaps))
Goes(d, phase) == GoesWith(d, phase, overlapped)

(* From the bind to the close of the descriptor the socket takes            *)
(* connections, into its backlog until serve accepts them.                 *)
Connectable(d) == daemon[d] \in {"bound", "unbinding", "serving", "draining", "unlinked"}

(* From the Lstat of listen to the last Remove of Close.                   *)
UsesAddress(d) == daemon[d] \in {"listening", "clearing", "binding", "bound", "unbinding",
                                 "serving", "draining", "unlinked", "closed"}
Handling(c) == link[c].at \in {"reading", "working", "encoding"}

(* A connection that ends unanswered: its client, if it still waits, gets  *)
(* an error.                                                               *)
Failed(c) == IF call[c].waits THEN Idle("error") ELSE call[c]
Drop(C) ==
  /\ link' = [c \in Client |-> IF c \in C THEN NoLink ELSE link[c]]
  /\ call' = [c \in Client |-> IF c \in C THEN Failed(c) ELSE call[c]]
Unheard(c) == IF effect[c] = "done" THEN "unheard" ELSE effect[c]
LinksTo(d) == {c \in Client : link[c].to = d}

-----------------------------------------------------------------------------
(* serve: the service is started, then the socket.                         *)
Boots(d) ==
  /\ At(d, "off")
  /\ \/ Goes(d, "ended")
     \/ LET others == {e \in Daemon : UsesAddress(e)} IN
        GoesWith(d, "listening", overlapped \cup (IF others = {} THEN {} ELSE others \cup {d}))
  /\ UNCHANGED <<accepting, path, callVars, doctor>>

(* listen: Lstat, Remove, net.Listen and Chmod are four calls on a path.   *)
Inspects(d) ==
  /\ At(d, "listening")
  /\ Goes(d, CASE path = NONE -> "binding" [] path = FILE -> "refused" [] OTHER -> "clearing")
  /\ UNCHANGED <<accepting, path, callVars, doctor>>

(* Faulty variant: a socket that is there already is left alone.           *)
ClearsNothing(d) ==
  /\ At(d, "clearing")
  /\ Goes(d, "binding")
  /\ UNCHANGED <<accepting, path, callVars, doctor>>

(* Remove takes whatever is there now, and fails when nothing is.          *)
Clears(d) ==
  /\ At(d, "clearing")
  /\ Goes(d, IF path = NONE THEN "refused" ELSE "binding")
  /\ path' = NONE
  /\ UNCHANGED <<accepting, callVars, doctor>>

Binds(d) ==
  /\ At(d, "binding")
  /\ IF path = NONE THEN Goes(d, "bound") /\ path' = d
                    ELSE Goes(d, "refused") /\ UNCHANGED path
  /\ UNCHANGED <<accepting, callVars, doctor>>

(* Chmod is by path too.  Start then starts serve.                         *)
Chmods(d) ==
  /\ At(d, "bound")
  /\ IF path = NONE
     THEN Goes(d, "unbinding") /\ UNCHANGED accepting
     ELSE Goes(d, "serving") /\ accepting' = [accepting EXCEPT ![d] = TRUE]
  /\ UNCHANGED <<path, callVars, doctor>>

(* The listener of Go unlinks the path it was bound to, whoever has it.    *)
Unbinds(d) ==
  /\ At(d, "unbinding")
  /\ Goes(d, "refused")
  /\ path' = NONE
  /\ Drop(LinksTo(d))
  /\ UNCHANGED <<accepting, effect, doctor>>

(* Server.Close: close(done); the listener unlinks the path and closes the *)
(* descriptor; cleanupListener removes the path once more; wg.Wait.        *)
Signal(d) ==
  /\ At(d, "serving")
  /\ Goes(d, "draining")
  /\ UNCHANGED <<accepting, path, callVars, doctor>>

Unlinks(d) ==
  /\ At(d, "draining")
  /\ Goes(d, "unlinked")
  /\ path' = NONE
  /\ UNCHANGED <<accepting, callVars, doctor>>

(* Connections that were not accepted yet are reset.                       *)
ClosesListener(d) ==
  /\ At(d, "unlinked")
  /\ Goes(d, "closed")
  /\ Drop({c \in LinksTo(d) : link[c].at = "queued"})
  /\ UNCHANGED <<accepting, path, effect, doctor>>

RemovesAgain(d) ==
  /\ At(d, "closed")
  /\ Goes(d, "waiting")
  /\ path' = NONE
  /\ UNCHANGED <<accepting, callVars, doctor>>

(* Faulty variant: only serve is counted, not the handlers it starts.      *)
EndsAfterServe(d) ==
  /\ At(d, "waiting")
  /\ ~accepting[d]
  /\ Goes(d, "ended")
  /\ Drop(LinksTo(d))
  /\ UNCHANGED <<accepting, path, effect, doctor>>

(* wg.Wait returns; the service is stopped, and the end of the process     *)
(* takes along whatever connection were still open.                        *)
Ends(d) ==
  /\ At(d, "waiting")
  /\ ~accepting[d]
  /\ \A c \in LinksTo(d) : ~Handling(c)
  /\ Goes(d, "ended")
  /\ Drop(LinksTo(d))
  /\ UNCHANGED <<accepting, path, effect, doctor>>

Crashes(d) ==
  /\ daemon[d] \notin {"off", "refused", "ended"}
  /\ Goes(d, "ended")
  /\ accepting' = [accepting EXCEPT ![d] = FALSE]
  /\ Drop(LinksTo(d))
  /\ effect' = [c \in Client |-> IF c \in LinksTo(d) THEN Unheard(c) ELSE effect[c]]
  /\ UNCHANGED <<path, doctor>>

-----------------------------------------------------------------------------
(* Server.serve: one goroutine accepts, wg counts a connection before the  *)
(* next is accepted, and each is handled by a goroutine of its own.        *)
Accepts(c) ==
  /\ link[c].at = "queued"
  /\ accepting[link[c].to]
  /\ link' = [link EXCEPT ![c].at = "reading"]
  /\ UNCHANGED <<daemonVars, call, effect, doctor>>

(* Accept fails once the descriptor is closed, and done is closed by then. *)
ServeReturns(d) ==
  /\ accepting[d]
  /\ daemon[d] \in {"closed", "waiting"}
  /\ accepting' = [accepting EXCEPT ![d] = FALSE]
  /\ UNCHANGED <<daemon, path, overlapped, unserved, callVars, doctor>>

(* Faulty variant: the deadline is set once the request has been read.     *)
DeadlinePassesLater(c) ==
  /\ link[c].at \in {"working", "encoding"}
  /\ ~link[c].late
  /\ call[c].waits /\ ~call[c].deadline
  /\ link' = [link EXCEPT ![c].late = TRUE]
  /\ effect' = [effect EXCEPT ![c] = Unheard(c)]
  /\ UNCHANGED <<daemonVars, call, doctor>>

(* The deadline of the connection, while the client waits without one of   *)
(* its own; once the client has gone, it changes nothing.                  *)
DeadlinePasses(c) ==
  /\ Handling(c)
  /\ ~link[c].late
  /\ call[c].waits /\ ~call[c].deadline
  /\ link' = [link EXCEPT ![c].late = TRUE]
  /\ effect' = [effect EXCEPT ![c] = Unheard(c)]
  /\ UNCHANGED <<daemonVars, call, doctor>>

(* handle: the request is decoded.  After the deadline, or when the client *)
(* has gone without a request, nothing can be written.                     *)
Reads(c) ==
  /\ link[c].at = "reading"
  /\ \/ /\ ~link[c].late
        /\ link[c].op # "silent"
        /\ link' = [link EXCEPT ![c].at = "working"]
        /\ UNCHANGED call
     \/ /\ link[c].late \/ (link[c].op = "silent" /\ ~call[c].waits)
        /\ Drop({c})
  /\ UNCHANGED <<daemonVars, effect, doctor>>

(* dispatch, however long the operation takes.  status always succeeds; a  *)
(* request that is malformed or unknown fails like any other, and does as  *)
(* little.                                                                 *)
Dispatches(c) ==
  /\ link[c].at = "working"
  /\ \E result \in {"ok", "failure"} :
       /\ link[c].op = "status" => result = "ok"
       /\ link' = [link EXCEPT ![c].at = "encoding", ![c].result = result]
       /\ effect' = [effect EXCEPT ![c] =
            CASE result = "failure" -> "none"
              [] result = "ok" /\ call[c].waits /\ ~link[c].late -> "done"
              [] OTHER -> "unheard"]
  /\ UNCHANGED <<daemonVars, call, doctor>>

(* Faulty variant: the connection is closed only after a written answer.   *)
EncodesOpen(c) ==
  /\ link[c].at = "encoding"
  /\ link' = [link EXCEPT ![c] = NoLink]
  /\ call' = [call EXCEPT ![c] =
       IF @.waits /\ ~link[c].late THEN Idle(link[c].result)
       ELSE @]
  /\ UNCHANGED <<daemonVars, effect, doctor>>

(* The answer is written, or cannot be; the connection is closed.          *)
Encodes(c) ==
  /\ link[c].at = "encoding"
  /\ IF call[c].waits /\ ~link[c].late
     THEN /\ link' = [link EXCEPT ![c] = NoLink]
          /\ call' = [call EXCEPT ![c] = Idle(link[c].result)]
     ELSE Drop({c})
  /\ UNCHANGED <<daemonVars, effect, doctor>>

Handles(c) == Reads(c) \/ Dispatches(c) \/ Encodes(c)

-----------------------------------------------------------------------------
(* control.Call, with or without a deadline.  The dial fails at once when  *)
(* nobody listens at the address.                                          *)
Calls(c, op, deadline) ==
  /\ ~call[c].waits /\ link[c] = NoLink
  /\ effect' = [effect EXCEPT ![c] = "none"]
  /\ IF path \in Daemon /\ Connectable(path)
     THEN /\ call' = [call EXCEPT ![c] = [waits |-> TRUE, deadline |-> deadline,
                                          outcome |-> "none"]]
          /\ link' = [link EXCEPT ![c] = [at |-> "queued", to |-> path, op |-> op, late |-> FALSE,
                                          result |-> "none"]]
     ELSE /\ call' = [call EXCEPT ![c] = Idle("error")]
          /\ UNCHANGED link

(* A command, another program that keeps its connection, or one that never *)
(* sends its request.                                                      *)
ClientCalls(c) ==
  /\ c # Doctor
  /\ \E asked \in Asked : Calls(c, asked[1], asked[2])
  /\ UNCHANGED <<daemonVars, doctor>>

GivesUp(c) ==
  /\ call[c].waits
  /\ call[c].deadline
  /\ call' = [call EXCEPT ![c] = Failed(c)]
  /\ effect' = [effect EXCEPT ![c] = Unheard(c)]
  /\ UNCHANGED <<daemonVars, link, doctor>>

HangsUp(c) ==
  /\ call[c].waits
  /\ link[c].op = "silent"
  /\ call' = [call EXCEPT ![c] = Failed(c)]
  /\ UNCHANGED <<daemonVars, link, effect, doctor>>

-----------------------------------------------------------------------------
(* checkDaemon: status, then diagnostics, within one deadline.  After an    *)
(* error of the first call the doctor looks at the address.                *)
DoctorAsks ==
  /\ doctor \in {"idle", "stale", "not running", "diagnosed"}
  /\ doctor' = "asking"
  /\ Calls(Doctor, "status", TRUE)
  /\ unserved' = ~ServedAlone(daemon, overlapped)
  /\ UNCHANGED <<daemon, accepting, path, overlapped>>

DoctorHears(phase, outcomes) == doctor = phase /\ ~call[Doctor].waits /\ call[Doctor].outcome \in outcomes

DoctorAsksMore ==
  /\ DoctorHears("asking", {"ok"})
  /\ doctor' = "diagnosing"
  /\ Calls(Doctor, "diagnostics", TRUE)
  /\ UNCHANGED daemonVars

(* Faulty variant: any error of the call means that no daemon runs.        *)
DoctorLooksNowhere ==
  /\ DoctorHears("asking", {"error"})
  /\ doctor' = "not running"
  /\ UNCHANGED <<daemonVars, callVars>>

DoctorLooks ==
  /\ DoctorHears("asking", {"error"})
  /\ doctor' = IF path \in Daemon THEN "stale" ELSE "not running"
  /\ UNCHANGED <<daemonVars, callVars>>

(* The outcome of the second call says whether diagnostics are available.  *)
DoctorConcludes ==
  /\ DoctorHears("diagnosing", {"ok", "failure", "error"})
  /\ doctor' = "diagnosed"
  /\ UNCHANGED <<daemonVars, callVars>>

-----------------------------------------------------------------------------
DaemonStep(d) ==
  \/ Inspects(d) \/ Clears(d) \/ Binds(d) \/ Chmods(d) \/ Unbinds(d)
  \/ Unlinks(d) \/ ClosesListener(d) \/ RemovesAgain(d) \/ Ends(d)
  \/ ServeReturns(d)

Next ==
  \/ \E d \in Daemon : Boots(d) \/ DaemonStep(d) \/ Signal(d) \/ Crashes(d)
  \/ \E c \in Client : \/ Accepts(c) \/ Handles(c) \/ DeadlinePasses(c)
                       \/ ClientCalls(c) \/ GivesUp(c) \/ HangsUp(c)
  \/ DoctorAsks \/ DoctorAsksMore \/ DoctorLooks \/ DoctorConcludes

Spec == Init /\ [][Next]_vars

(* Goroutines are scheduled, time passes, and every operation of the       *)
(* service ends (module Lifecycle).                                        *)
FairSpec ==
  /\ Spec
  /\ \A d \in Daemon : WF_<<daemon[d], accepting[d]>>(DaemonStep(d))
  /\ \A c \in Client : /\ WF_<<link[c]>>(Accepts(c) \/ Handles(c))
                       /\ WF_<<link[c], call[c]>>(DeadlinePasses(c) \/ GivesUp(c))

-----------------------------------------------------------------------------
(* A daemon that has the address to itself from its Lstat on comes up,     *)
(* whatever socket an earlier one left there when it crashed, and stays    *)
(* reachable at the address, also while an earlier one still waits for its *)
(* handlers; and no socket outlives a Close (transport_unix.go, listen and *)
(* cleanupListener.Close).                                                 *)
LoneDaemonReachable ==
  \A d \in Daemon :
    /\ d \notin overlapped /\ path # FILE => ~At(d, "refused")
    /\ d \notin overlapped /\ At(d, "serving") => path = d
    /\ At(d, "waiting") => path # d

(* A client that reads "ok" has its operation done, one that reads a       *)
(* failure has not, and one that gets an error while its operation took    *)
(* effect owes that to a deadline or a crash, never to the shutdown        *)
(* (control.go, dispatch, handle and Close).                               *)
AnswersAreTrue ==
  \A c \in Client :
    /\ call[c].outcome = "ok" => effect[c] = "done"
    /\ call[c].outcome = "failure" => effect[c] = "none"
    /\ call[c].outcome = "error" => effect[c] # "done"

(* The doctor says "not running" only if there was such a moment during    *)
(* its run: a daemon that is merely slow is not given up for dead          *)
(* (doctor.go, checkDaemon).                                               *)
DoctorIsRight == doctor = "not running" => unserved

(* After the signal the daemon ends, whoever holds a connection open       *)
(* (control.go, handle and Close).                                         *)
ShutdownEnds == \A d \in Daemon : At(d, "draining") ~> At(d, "ended")

(* Every call comes back, also one without a deadline of its own           *)
(* (control.go, serve, handle and Call).                                   *)
CallsEnd == \A c \in Client : call[c].waits ~> ~call[c].waits
=============================================================================
