------------------------------ MODULE Pairing -------------------------------
(***************************************************************************)
(* The data-plane token and the ways it leaves the daemon: token rotation  *)
(* (engine.go, runtime.go), the control server with one goroutine per      *)
(* connection (internal/control), the pairings a handler opens             *)
(* (internal/cli/daemon.go, internal/pairing) and the shutdown of          *)
(* `quackridge serve`.                                                     *)
(*                                                                         *)
(* The engine is its token and the token its listener accepts; a reload    *)
(* that rebuilds the engine is one step (module Lifecycle has its parts).  *)
(* A pairing request carries an allowed origin and the right nonce: any    *)
(* other request is refused and changes nothing.                           *)
(***************************************************************************)
EXTENDS Integers, FiniteSets

CONSTANTS
  Handler,    \* control connections open at a time
  Server,     \* pairing servers (bounds how many are ever opened)
  Request,    \* pairing requests in flight
  NONE,
  MaxTokens   \* bound: tokens ever drawn

Token == 1..MaxTokens

ASSUME PairingAssumption ==
  /\ MaxTokens \in Nat \ {0}
  /\ NONE \notin Handler \cup Server \cup Token

VARIABLES
  main,      \* the goroutine of serve
  handler,   \* control connections: where the operation is, what it has read
  lock,      \* app.Runtime.mu: the handler that rotates, or NONE
  drawn,     \* tokens drawn so far
  token,     \* engine.Runtime.token, NONE when the engine is down
  saved,     \* app.Runtime.options.Token
  listen,    \* the token the Quack listener accepts, NONE if it does not run
  server,    \* pairing servers
  listed,    \* daemon.pairing
  request,   \* the server whose handler a request is in, and where
  answers,   \* history: how many tokens each server has handed out
  stranded   \* history: since the listener last started, a rotation and its
             \* retry failed, or a rebuild and its restoration did

engineVars == <<lock, drawn, token, saved, listen, stranded>>
pairingVars == <<server, listed, request, answers>>
vars == <<main, handler, engineVars, pairingVars>>

Unopened == [phase |-> "new", token |-> NONE, consumed |-> FALSE, expired |-> FALSE]
In(at, srv) == [at |-> at, server |-> srv]
Waiting == In("none", NONE)
Place(at, tok, srv) == [at |-> at, token |-> tok, server |-> srv]
Free == Place("free", NONE, NONE)

(* What pairing.Start makes.                                               *)
Opening(tok) == [phase |-> "open", token |-> tok, consumed |-> FALSE, expired |-> FALSE]

InPhase(p, phase) == [p EXCEPT !.phase = phase]
Used(p) == [p EXCEPT !.consumed = TRUE]
Late(p) == [p EXCEPT !.expired = TRUE]

Init ==
  /\ main = "serving"
  /\ handler = [h \in Handler |-> Free]
  /\ lock = NONE
  /\ drawn = 1
  /\ token = 1
  /\ saved = 1
  /\ listen = 1
  /\ server = [s \in Server |-> Unopened]
  /\ listed = {}
  /\ request = [r \in Request |-> Waiting]
  /\ answers = [s \in Server |-> 0]
  /\ stranded = FALSE

At(h, place) == handler[h].at = place
Goes(h, next) == handler' = [handler EXCEPT ![h] = next]
Becomes(s, p) == server' = [server EXCEPT ![s] = p]
Visits(r, v) == request' = [request EXCEPT ![r] = v]

-----------------------------------------------------------------------------
(* control.Server: a connection is accepted until Close, its handler runs  *)
(* one operation.                                                          *)
Accept(h) ==
  /\ main = "serving"
  /\ At(h, "free")
  /\ \E operation \in {"pair", "rotate", "reload"} : Goes(h, Place(operation, NONE, NONE))
  /\ UNCHANGED <<main, engineVars, pairingVars>>

(* daemon.Pair: the state of the service first, its token later.           *)
PairChecksStatus(h) ==
  /\ At(h, "pair")
  /\ \E next \in {Place("token", NONE, NONE), Free} : Goes(h, next)
  /\ UNCHANGED <<main, engineVars, pairingVars>>

PairReadsToken(h) ==
  /\ At(h, "token")
  /\ lock = NONE
  /\ Goes(h, IF token = NONE THEN Free ELSE Place("open", token, NONE))
  /\ UNCHANGED <<main, engineVars, pairingVars>>

(* Faulty variant: the error is not looked at, the server is nil.          *)
PairStartsUnchecked(h) ==
  /\ At(h, "open")
  /\ \/ \E s \in Server :
          /\ server[s].phase = "new"
          /\ Becomes(s, Opening(handler[h].token))
          /\ Goes(h, Place("list", NONE, s))
     \/ Goes(h, Place("list", NONE, NONE)) /\ UNCHANGED server
  /\ UNCHANGED <<main, engineVars, listed, request, answers>>

(* pairing.Start; listening may fail.                                      *)
PairStarts(h) ==
  /\ At(h, "open")
  /\ \/ \E s \in Server :
          /\ server[s].phase = "new"
          /\ Becomes(s, Opening(handler[h].token))
          /\ Goes(h, Place("list", NONE, s))
     \/ Goes(h, Free) /\ UNCHANGED server
  /\ UNCHANGED <<main, engineVars, listed, request, answers>>

PairLists(h) ==
  /\ At(h, "list")
  /\ listed' = listed \cup {handler[h].server}
  /\ Goes(h, Free)
  /\ UNCHANGED <<main, engineVars, server, request, answers>>

(* RotateToken holds Runtime.mu to the end.  The listener is stopped, then *)
(* started with the new token; if that fails, with the previous one.       *)
RotateStops(h) ==
  /\ At(h, "rotate")
  /\ lock = NONE
  /\ \/ /\ token # NONE
        /\ drawn < MaxTokens
        /\ drawn' = drawn + 1
        /\ listen' = NONE
        /\ lock' = h
        /\ Goes(h, Place("serve", NONE, NONE))
     \/ Goes(h, Free) /\ UNCHANGED <<drawn, listen, lock>>
  /\ UNCHANGED <<main, token, saved, stranded, pairingVars>>

(* Faulty variant: the runtime keeps the options it was started with.      *)
RotateServesUnsaved(h) ==
  /\ At(h, "serve")
  /\ listen' = drawn
  /\ token' = drawn
  /\ lock' = NONE
  /\ Goes(h, Free)
  /\ UNCHANGED <<main, drawn, saved, stranded, pairingVars>>

RotateServes(h) ==
  /\ At(h, "serve")
  /\ \/ /\ listen' = drawn
        /\ token' = drawn
        /\ saved' = drawn
        /\ stranded' = FALSE
        /\ lock' = NONE
        /\ Goes(h, Free)
     \/ /\ Goes(h, Place("reserve", token, NONE))
        /\ UNCHANGED <<listen, token, saved, stranded, lock>>
  /\ UNCHANGED <<main, drawn, pairingVars>>

(* Faulty variant: the previous token is not served again.                 *)
RotateGivesUp(h) ==
  /\ At(h, "reserve")
  /\ lock' = NONE
  /\ Goes(h, Free)
  /\ UNCHANGED <<main, drawn, token, saved, listen, stranded, pairingVars>>

(* Faulty variant: the rotation is tried again until it succeeds.          *)
RotateRetries(h) ==
  /\ At(h, "reserve")
  /\ Goes(h, Place("serve", NONE, NONE))
  /\ UNCHANGED <<main, engineVars, pairingVars>>

(* The result of this second quack_serve is ignored.                       *)
RotateReverts(h) ==
  /\ At(h, "reserve")
  /\ \/ listen' = handler[h].token /\ stranded' = FALSE
     \/ stranded' = TRUE /\ UNCHANGED listen
  /\ lock' = NONE
  /\ Goes(h, Free)
  /\ UNCHANGED <<main, drawn, token, saved, pairingVars>>

(* A reload: nothing changes here, or the engine is rebuilt with the saved *)
(* options, or the rebuild fails and so does the restoration.              *)
Reload(h) ==
  /\ At(h, "reload")
  /\ lock = NONE
  /\ \/ UNCHANGED <<token, listen, stranded>>
     \/ token' = saved /\ listen' = saved /\ stranded' = FALSE
     \/ token' = NONE /\ listen' = NONE /\ stranded' = TRUE
  /\ Goes(h, Free)
  /\ UNCHANGED <<main, lock, drawn, saved, pairingVars>>

HandlerStep(h) ==
  \/ PairChecksStatus(h) \/ PairReadsToken(h) \/ PairStarts(h) \/ PairLists(h)
  \/ RotateStops(h) \/ RotateServes(h) \/ RotateReverts(h)
  \/ Reload(h)

-----------------------------------------------------------------------------
(* pairing.Server.  A request that has been accepted is served to its end, *)
(* also while Shutdown closes the listener.                                *)
RequestArrives(r) ==
  /\ request[r] = Waiting
  /\ \E s \in Server :
       /\ server[s].phase = "open"
       /\ Visits(r, In("check", s))
  /\ UNCHANGED <<main, handler, engineVars, server, listed, answers>>

(* Faulty variant: consumed is set after the answer.                       *)
RequestOnlyChecked(r) ==
  /\ request[r].at = "check"
  /\ LET s == request[r].server IN
     IF server[s].consumed \/ server[s].expired
     THEN Visits(r, Waiting)
     ELSE Visits(r, In("answer", s))
  /\ UNCHANGED <<main, handler, engineVars, server, listed, answers>>

(* The switch under Server.mu.                                             *)
RequestChecked(r) ==
  /\ request[r].at = "check"
  /\ LET s == request[r].server IN
     IF server[s].consumed \/ server[s].expired
     THEN /\ Visits(r, Waiting)
          /\ UNCHANGED server
     ELSE /\ Visits(r, In("answer", s))
          /\ Becomes(s, Used(server[s]))
  /\ UNCHANGED <<main, handler, engineVars, listed, answers>>

(* The token is sent, and `go s.Close()`.                                  *)
RequestAnswered(r) ==
  /\ request[r].at = "answer"
  /\ LET s == request[r].server IN
     /\ answers' = [answers EXCEPT ![s] = @ + 1]
     /\ Becomes(s, IF server[s].phase = "open" THEN InPhase(server[s], "closing") ELSE server[s])
  /\ Visits(r, Waiting)
  /\ UNCHANGED <<main, handler, engineVars, listed>>

Expires(s) ==
  /\ server[s].phase = "open"
  /\ ~server[s].expired
  /\ Becomes(s, Late(server[s]))
  /\ UNCHANGED <<main, handler, engineVars, listed, request, answers>>

(* Faulty variant: nothing waits for the timer.                            *)
ClosesUsed(s) ==
  /\ server[s].phase = "closing"
  /\ Becomes(s, InPhase(server[s], "closed"))
  /\ UNCHANGED <<main, handler, engineVars, listed, request, answers>>

(* The timer of pairing.Start, or the goroutine a success started.         *)
Closes(s) ==
  /\ \/ server[s].phase = "closing"
     \/ server[s].phase = "open" /\ server[s].expired
  /\ Becomes(s, InPhase(server[s], "closed"))
  /\ UNCHANGED <<main, handler, engineVars, listed, request, answers>>

-----------------------------------------------------------------------------
(* serve, after the signal: the control server is closed, which waits for  *)
(* its handlers; then the pairings; then the service.                      *)
MainGoes(place) == main' = place /\ UNCHANGED <<handler, engineVars, pairingVars>>

Signal == main = "serving" /\ MainGoes("draining")

(* Faulty variant: the handlers are not waited for.                        *)
ControlClosedAtOnce == main = "draining" /\ MainGoes("pairings")

ControlClosed ==
  /\ main = "draining"
  /\ \A h \in Handler : At(h, "free")
  /\ MainGoes("pairings")

ClosePairings ==
  /\ main = "pairings"
  /\ main' = "stopping"
  /\ server' = [s \in Server |->
       IF s \in listed THEN InPhase(server[s], "closed") ELSE server[s]]
  /\ listed' = {}
  /\ UNCHANGED <<handler, engineVars, request, answers>>

StopService ==
  /\ main = "stopping"
  /\ lock = NONE
  /\ main' = "exited"
  /\ token' = NONE
  /\ listen' = NONE
  /\ UNCHANGED <<handler, lock, drawn, saved, stranded, pairingVars>>

Terminated == main = "exited" /\ UNCHANGED vars

Next ==
  \/ Signal \/ ControlClosed \/ ClosePairings \/ StopService \/ Terminated
  \/ \E h \in Handler : Accept(h) \/ HandlerStep(h)
  \/ \E r \in Request : RequestArrives(r) \/ RequestChecked(r) \/ RequestAnswered(r)
  \/ \E s \in Server : Expires(s) \/ Closes(s)

Spec == Init /\ [][Next]_vars

(* Goroutines are scheduled, time passes, the mutex is handed over in the  *)
(* order of arrival.                                                       *)
FairSpec ==
  /\ Spec
  /\ WF_vars(ControlClosed) /\ WF_vars(ClosePairings) /\ WF_vars(StopService)
  /\ \A h \in Handler : SF_vars(HandlerStep(h))
  /\ \A r \in Request : WF_vars(RequestChecked(r)) /\ WF_vars(RequestAnswered(r))
  /\ \A s \in Server : WF_vars(Expires(s)) /\ WF_vars(Closes(s))

-----------------------------------------------------------------------------
MaybeToken == Token \cup {NONE}
MaybeServer == Server \cup {NONE}
Stop == {"free", "pair", "token", "open", "list", "rotate", "serve", "reserve", "reload"}
Connection == [at : Stop, token : MaybeToken, server : MaybeServer]
Pairing == [phase : {"new", "open", "closing", "closed"}, token : MaybeToken,
            consumed : BOOLEAN, expired : BOOLEAN]
Visit == [at : {"none", "check", "answer"}, server : MaybeServer]

TypeOK ==
  /\ main \in {"serving", "draining", "pairings", "stopping", "exited"}
  /\ handler \in [Handler -> Connection]
  /\ lock \in Handler \cup {NONE}
  /\ drawn \in Token
  /\ token \in MaybeToken
  /\ saved \in Token
  /\ listen \in MaybeToken
  /\ server \in [Server -> Pairing]
  /\ listed \subseteq Server
  /\ request \in [Request -> Visit]
  /\ answers \in [Server -> Nat]
  /\ stranded \in BOOLEAN

(* A pairing hands its token out once at most, however many requests with  *)
(* the right nonce race each other, the timer and the shutdown             *)
(* (pairing.go, handle).                                                   *)
SingleUse == \A s \in Server : answers[s] <= 1

(* The engine, the options a rebuild uses and the listener agree on one    *)
(* token whenever nobody rotates it: a token that was rotated away is      *)
(* never accepted again, and a rebuild keeps the token that paired clients *)
(* hold (engine.go, RotateToken; runtime.go, RotateToken and rebuild).     *)
OneToken ==
  lock = NONE =>
    /\ token # NONE => token = saved
    /\ listen # NONE => listen = token

(* While the daemon serves and nobody rotates the token, the listener runs, *)
(* unless the one retry of a failed rotation failed too or a rebuild left  *)
(* no engine (engine.go, RotateToken, its second quack_serve).             *)
Listening ==
  lock = NONE /\ main # "exited" /\ ~stranded => listen # NONE

(* After the end of serve no pairing of this daemon still listens: none    *)
(* slips in between the closing of the pairings and the end                *)
(* (cli.go, serve; daemon.go, Pair and closePairings).                     *)
NoPairingLeft ==
  main \in {"stopping", "exited"} => \A s \in Server : server[s].phase \notin {"open"}

(* A pairing that was used or has expired stops listening                  *)
(* (pairing.go, Start and handle).                                         *)
PairingsEnd == \A s \in Server : server[s].phase = "open" ~> server[s].phase = "closed"

(* After the signal serve ends, whatever the handlers are doing            *)
(* (cli.go, serve; control.go, Close).                                     *)
ServeEnds == main # "serving" ~> main = "exited"
=============================================================================
