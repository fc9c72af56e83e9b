---------------------------- MODULE PairingProofs ----------------------------
(***************************************************************************)
(* For any number of connections, pairings, requests and tokens: the data- *)
(* plane token is one token, each pairing hands it out once, the listener  *)
(* comes back after a rotation, and no pairing outlives serve.             *)
(*                                                                         *)
(* Each property needs what the goroutines hold on their way: the lock is  *)
(* held by exactly the handler that rotates, which knows the previous      *)
(* token (Rotating); a request that may answer has made the pairing        *)
(* consumed and nobody else may answer it (Answering); a pairing that      *)
(* listens is listed, or its handler is about to list it (Opened).         *)
(***************************************************************************)
EXTENDS Pairing, TLAPS

(* A place that uses a server has one.                                     *)
Placed ==
  /\ \A h \in Handler : At(h, "list") => handler[h].server \in Server
  /\ \A r \in Request : request[r].at # "none" => request[r].server \in Server

TypeInv == TypeOK /\ Placed

(* The records of the three record sets, and their fields.                 *)
LEMMA Records ==
  /\ \A p \in Stop, t \in MaybeToken, s \in MaybeServer : Place(p, t, s) \in Connection
  /\ Unopened \in Pairing
  /\ \A t \in MaybeToken : Opening(t) \in Pairing
  /\ Waiting \in Visit
  /\ \A s \in Server, a \in {"check", "answer"} : In(a, s) \in Visit
  BY DEF Place, Stop, Unopened, Opening, Waiting, In, Connection, Pairing, Visit, MaybeToken, MaybeServer

LEMMA Places ==
  \A p, t, s : Place(p, t, s).at = p /\ Place(p, t, s).token = t /\ Place(p, t, s).server = s
  BY DEF Place

LEMMA Fields ==
  /\ \A c \in Connection : c.token \in MaybeToken /\ c.server \in MaybeServer
  /\ \A p \in Pairing : p.token \in MaybeToken
  /\ \A v \in Visit : v.server \in MaybeServer
  BY DEF Connection, Pairing, Visit

LEMMA PairingUpdates ==
  ASSUME NEW p \in Pairing
  PROVE  /\ \A f \in {"new", "open", "closing", "closed"} :
              /\ InPhase(p, f) \in Pairing
              /\ InPhase(p, f).phase = f
              /\ InPhase(p, f).consumed = p.consumed
         /\ Used(p) \in Pairing /\ Used(p).consumed /\ Used(p).phase = p.phase
         /\ /\ Late(p) \in Pairing
            /\ Late(p).consumed = p.consumed
            /\ Late(p).phase = p.phase
  BY DEF Pairing, InPhase, Used, Late

LEMMA Stays ==
  /\ \A a, s : In(a, s).at = a /\ In(a, s).server = s
  /\ \A t : Opening(t).phase = "open" /\ Opening(t).consumed = FALSE
  /\ Unopened.phase = "new" /\ Unopened.consumed = FALSE
  BY DEF In, Opening, Unopened

LEMMA ServerChange ==
  ASSUME TypeInv, NEW s \in Server, NEW p \in Pairing, Becomes(s, p)
  PROVE  /\ server' \in [Server -> Pairing]
         /\ server'[s] = p
         /\ \A k \in Server \ {s} : server'[k] = server[k]
  BY DEF TypeInv, TypeOK, Becomes

LEMMA VisitChange ==
  ASSUME TypeInv, NEW r \in Request, NEW v \in Visit, Visits(r, v)
  PROVE  /\ request' \in [Request -> Visit]
         /\ request'[r] = v
         /\ \A q \in Request \ {r} : request'[q] = request[q]
  BY DEF TypeInv, TypeOK, Visits

LEMMA TypeInit == Init => TypeInv
<1> SUFFICES ASSUME Init PROVE TypeInv
  OBVIOUS
<1>1. 1 \in Token /\ NONE \in MaybeToken /\ NONE \in MaybeServer
  BY PairingAssumption DEF Token, MaybeToken, MaybeServer
<1>2. TypeOK
  BY <1>1, Records DEF Init, Free, Stop, TypeOK, MaybeToken
<1>3. Placed
  BY Places, Stays DEF Init, Free, Placed, At, Waiting
<1> QED
  BY <1>2, <1>3 DEF TypeInv

LEMMA Movement ==
  ASSUME TypeInv, NEW h \in Handler, NEW p \in Stop, NEW t \in MaybeToken, NEW s \in MaybeServer,
         Goes(h, Place(p, t, s)), p = "list" => s \in Server
  PROVE  /\ handler' \in [Handler -> Connection]
         /\ \A k \in Handler : handler'[k].at = "list" => handler'[k].server \in Server
         /\ \A k \in Handler \ {h} : handler'[k] = handler[k]
         /\ handler'[h] = Place(p, t, s)
<1>1. handler \in [Handler -> Connection] /\ \A k \in Handler : handler[k].at = "list" => handler[k].server \in Server
  BY DEF TypeInv, TypeOK, Placed, At
<1>2. Place(p, t, s) \in Connection
  BY Records
<1>3. /\ handler' \in [Handler -> Connection]
      /\ \A k \in Handler \ {h} : handler'[k] = handler[k]
      /\ handler'[h] = Place(p, t, s)
  BY <1>1, <1>2 DEF Goes
<1> QED
  BY <1>1, <1>3, Places

(* Where a step of a handler takes it.                                     *)
LEMMA Movements ==
  ASSUME TypeInv, NEW h \in Handler, Accept(h) \/ HandlerStep(h)
  PROVE  \E p \in Stop, t \in MaybeToken, s \in MaybeServer :
           Goes(h, Place(p, t, s)) /\ (p = "list" => s \in Server)
<1>1. NONE \in MaybeToken /\ NONE \in MaybeServer /\ Server \subseteq MaybeServer /\ token \in MaybeToken
  BY DEF MaybeToken, MaybeServer, TypeInv, TypeOK
<1>2. CASE Accept(h)
  BY <1>1, <1>2 DEF Accept, Stop
<1>3. CASE PairChecksStatus(h)
  BY <1>1, <1>3 DEF PairChecksStatus, Free, Stop
<1>4. CASE PairReadsToken(h)
  BY <1>1, <1>4 DEF PairReadsToken, Free, Stop
<1>5. CASE PairStarts(h)
  BY <1>1, <1>5 DEF PairStarts, Free, Stop
<1>6. CASE PairLists(h) \/ Reload(h) \/ RotateReverts(h)
  BY <1>1, <1>6 DEF PairLists, Reload, RotateReverts, Free, Stop
<1>7. CASE RotateStops(h)
  BY <1>1, <1>7 DEF RotateStops, Free, Stop
<1>8. CASE RotateServes(h)
  BY <1>1, <1>8 DEF RotateServes, Free, Stop
<1> QED
  BY <1>2, <1>3, <1>4, <1>5, <1>6, <1>7, <1>8 DEF HandlerStep

(* The handlers of the control connections.                                *)
LEMMA HandlersKeepTypes ==
  ASSUME TypeInv, NEW h \in Handler, Accept(h) \/ HandlerStep(h) PROVE TypeInv'
<1>1. /\ handler' \in [Handler -> Connection]
      /\ \A k \in Handler : handler'[k].at = "list" => handler'[k].server \in Server
  BY Movement, Movements
<1>2. \A k \in Handler : handler[k].token \in MaybeToken
  BY Fields DEF TypeInv, TypeOK
<1>3. NONE \in MaybeToken /\ Token \subseteq MaybeToken
  BY DEF MaybeToken
<1> USE DEF TypeInv, TypeOK, Placed, At, engineVars, pairingVars
<1>4. CASE Accept(h) \/ PairChecksStatus(h) \/ PairReadsToken(h)
  BY <1>1, <1>4 DEF Accept, PairChecksStatus, PairReadsToken
<1>5. CASE PairStarts(h)
  <2>1. server' \in [Server -> Pairing]
    BY <1>2, <1>5, Records, ServerChange DEF PairStarts
  <2> QED
    BY <1>1, <1>5, <2>1 DEF PairStarts
<1>6. CASE PairLists(h)
  BY <1>1, <1>6 DEF PairLists
<1>7. CASE RotateStops(h)
  <2>1. drawn < MaxTokens => drawn + 1 \in Token
    BY PairingAssumption DEF Token
  <2> QED
    BY <1>1, <1>3, <1>7, <2>1 DEF RotateStops
<1>8. CASE RotateServes(h)
  BY <1>1, <1>3, <1>8 DEF RotateServes
<1>9. CASE RotateReverts(h)
  BY <1>1, <1>2, <1>9 DEF RotateReverts
<1>10. CASE Reload(h)
  BY <1>1, <1>3, <1>10 DEF Reload
<1> QED
  BY <1>4, <1>5, <1>6, <1>7, <1>8, <1>9, <1>10 DEF HandlerStep

(* The requests and timers of the pairings, and serve itself.              *)
LEMMA OthersKeepTypes ==
  ASSUME TypeInv,
         \/ \E r \in Request : RequestArrives(r) \/ RequestChecked(r) \/ RequestAnswered(r)
         \/ \E s \in Server : Expires(s) \/ Closes(s)
         \/ Signal \/ ControlClosed \/ ClosePairings \/ StopService \/ Terminated
  PROVE  TypeInv'
<1> USE DEF TypeInv, TypeOK, Placed, At, engineVars, pairingVars
<1> DEFINE Arrived == /\ request' \in [Request -> Visit]
                      /\ \A q \in Request : request'[q].at # "none" => request'[q].server \in Server
<1> HIDE DEF Arrived
<1>0. ASSUME NEW r \in Request, NEW v \in Visit, Visits(r, v),
             v.at # "none" => v.server \in Server
      PROVE  Arrived
  BY <1>0, VisitChange DEF Arrived
<1>1. ASSUME NEW r \in Request, RequestArrives(r) PROVE TypeInv'
  <2>1. Arrived
    BY <1>0, <1>1, Records, Stays DEF RequestArrives
  <2> QED
    BY <1>1, <2>1 DEF RequestArrives, Arrived
<1>2. ASSUME NEW r \in Request, RequestChecked(r) PROVE TypeInv'
  <2>1. request[r].server \in Server /\ server[request[r].server] \in Pairing
    BY <1>2 DEF RequestChecked
  <2>2. server' \in [Server -> Pairing]
    BY <1>2, <2>1, PairingUpdates, ServerChange DEF RequestChecked
  <2>3. Arrived
    BY <1>0, <1>2, <2>1, Records, Stays DEF RequestChecked, Waiting
  <2> QED
    BY <1>2, <2>2, <2>3 DEF RequestChecked, Arrived
<1>3. ASSUME NEW r \in Request, RequestAnswered(r) PROVE TypeInv'
  <2>1. request[r].server \in Server /\ server[request[r].server] \in Pairing
    BY <1>3 DEF RequestAnswered
  <2>2. server' \in [Server -> Pairing]
    BY <1>3, <2>1, PairingUpdates, ServerChange DEF RequestAnswered
  <2>3. Arrived
    BY <1>0, <1>3, Records, Stays DEF RequestAnswered, Waiting
  <2>4. answers' \in [Server -> Nat]
    BY <1>3, <2>1 DEF RequestAnswered
  <2> QED
    BY <1>3, <2>2, <2>3, <2>4 DEF RequestAnswered, Arrived
<1>4. ASSUME NEW s \in Server, Expires(s) \/ Closes(s) PROVE TypeInv'
  <2>1. server' \in [Server -> Pairing]
    BY <1>4, PairingUpdates, ServerChange DEF Expires, Closes
  <2> QED
    BY <1>4, <2>1 DEF Expires, Closes
<1>5. CASE Signal \/ ControlClosed \/ StopService \/ Terminated
  BY <1>5 DEF Signal, ControlClosed, StopService, Terminated, MainGoes, MaybeToken, vars
<1>6. CASE ClosePairings
  <2>1. server' \in [Server -> Pairing]
    BY <1>6, PairingUpdates DEF ClosePairings
  <2> QED
    BY <1>6, <2>1 DEF ClosePairings
<1> QED
  BY <1>1, <1>2, <1>3, <1>4, <1>5, <1>6

LEMMA TypeStep == TypeInv /\ [Next]_vars => TypeInv'
<1> SUFFICES ASSUME TypeInv, [Next]_vars PROVE TypeInv'
  OBVIOUS
<1>1. CASE UNCHANGED vars
  BY <1>1 DEF TypeInv, TypeOK, Placed, At, vars, engineVars, pairingVars
<1>2. CASE Next
  BY <1>2, HandlersKeepTypes, OthersKeepTypes DEF Next
<1> QED
  BY <1>1, <1>2

(* Type correctness of tokens, handlers, pairings and requests (cli.go,    *)
(* serve; daemon.go; pairing.go).                                          *)
THEOREM PairingTypeCorrect == Spec => []TypeOK
<1>1. TypeInv => TypeOK
  BY DEF TypeInv
<1> QED
  BY <1>1, TypeInit, TypeStep, PTL DEF Spec

-----------------------------------------------------------------------------
(* The handler that rotates, and no other, has the lock.                   *)
Rotating ==
  /\ \A h \in Handler : handler[h].at \in {"serve", "reserve"} <=> lock = h
  /\ \A h \in Handler : At(h, "reserve") => handler[h].token = token
  /\ lock # NONE => token = saved /\ listen = NONE

RotationInv == TypeInv /\ Rotating /\ OneToken /\ Listening

LEMMA RotationInit == Init => RotationInv
  BY TypeInit, PairingAssumption DEF Init, RotationInv, Rotating, OneToken, Listening, At, Free, Place, Token

(* Only the handlers of rotations and reloads and the end of serve touch   *)
(* tokens, lock and listener.                                              *)
LEMMA OthersKeepTokens ==
  ASSUME \/ \E h \in Handler : Accept(h) \/ PairChecksStatus(h) \/ PairReadsToken(h)
                               \/ PairStarts(h) \/ PairLists(h)
         \/ \E r \in Request : RequestArrives(r) \/ RequestChecked(r) \/ RequestAnswered(r)
         \/ \E s \in Server : Expires(s) \/ Closes(s)
         \/ Signal \/ ControlClosed \/ ClosePairings \/ Terminated
  PROVE  UNCHANGED engineVars /\ (main' = "exited" <=> main = "exited")
  BY DEF Accept, PairChecksStatus, PairReadsToken, PairStarts, PairLists, RequestArrives,
     RequestChecked, RequestAnswered, Expires, Closes, Signal, ControlClosed, ClosePairings,
     Terminated, MainGoes, engineVars, vars

(* Pairing and accepting move a handler among places without the lock.     *)
LEMMA PairersKeepRotating ==
  ASSUME RotationInv, NEW h \in Handler,
         Accept(h) \/ PairChecksStatus(h) \/ PairReadsToken(h) \/ PairStarts(h) \/ PairLists(h)
  PROVE  Rotating'
<1>1. UNCHANGED engineVars
  BY OthersKeepTokens
<1>2. PICK next : /\ handler' = [handler EXCEPT ![h] = next]
                  /\ next.at \notin {"serve", "reserve"}
                  /\ handler[h].at \notin {"serve", "reserve"}
  BY DEF Accept, PairChecksStatus, PairReadsToken, PairStarts, PairLists, Goes, At, Free, Place
<1> QED
  BY <1>1, <1>2 DEF RotationInv, Rotating, TypeInv, TypeOK, At, engineVars

LEMMA RotationStep == RotationInv /\ [Next]_vars => RotationInv'
<1> SUFFICES ASSUME RotationInv, [Next]_vars PROVE RotationInv'
  OBVIOUS
<1>1. TypeInv'
  BY TypeStep DEF RotationInv
<1>2. CASE UNCHANGED vars
  BY <1>1, <1>2 DEF RotationInv, Rotating, OneToken, Listening, At, vars, engineVars
<1>3. ASSUME NEW h \in Handler,
             Accept(h) \/ PairChecksStatus(h) \/ PairReadsToken(h) \/ PairStarts(h) \/ PairLists(h)
      PROVE  RotationInv'
  BY <1>1, <1>3, OthersKeepTokens, PairersKeepRotating
     DEF RotationInv, OneToken, Listening, engineVars
<1>4. ASSUME \/ \E r \in Request : RequestArrives(r) \/ RequestChecked(r) \/ RequestAnswered(r)
             \/ \E s \in Server : Expires(s) \/ Closes(s)
             \/ Signal \/ ControlClosed \/ ClosePairings \/ Terminated
      PROVE  RotationInv'
  <2>1. UNCHANGED handler
    BY <1>4 DEF RequestArrives, RequestChecked, RequestAnswered, Expires, Closes, Signal,
       ControlClosed, ClosePairings, Terminated, MainGoes, vars
  <2> QED
    BY <1>1, <1>4, <2>1, OthersKeepTokens DEF RotationInv, Rotating, OneToken, Listening, At, engineVars
<1> USE PairingAssumption, <1>1 DEF RotationInv, Rotating, OneToken, Listening, TypeInv, TypeOK,
        At, Goes, Free, Place, Token, MaybeToken
<1>5. ASSUME NEW h \in Handler, RotateStops(h) PROVE RotationInv'
  BY <1>5 DEF RotateStops
<1>6. ASSUME NEW h \in Handler, RotateServes(h) PROVE RotationInv'
  BY <1>6 DEF RotateServes
<1>7. ASSUME NEW h \in Handler, RotateReverts(h) PROVE RotationInv'
  BY <1>7 DEF RotateReverts
<1>8. ASSUME NEW h \in Handler, Reload(h) PROVE RotationInv'
  BY <1>8 DEF Reload
<1>9. CASE StopService
  BY <1>9 DEF StopService
<1> QED
  BY <1>2, <1>3, <1>4, <1>5, <1>6, <1>7, <1>8, <1>9 DEF Next, HandlerStep

(* Engine, stored options and listener agree on one token whenever nobody  *)
(* rotates it (engine.go and runtime.go, RotateToken).                     *)
THEOREM TokensAgree == Spec => []OneToken
<1>1. RotationInv => OneToken
  BY DEF RotationInv
<1> QED
  BY <1>1, RotationInit, RotationStep, PTL DEF Spec

(* Unless its retry failed as well, a rotation leaves the listener up      *)
(* (engine.go, RotateToken).                                               *)
THEOREM ListenerComesBack == Spec => []Listening
<1>1. RotationInv => Listening
  BY DEF RotationInv
<1> QED
  BY <1>1, RotationInit, RotationStep, PTL DEF Spec

-----------------------------------------------------------------------------
(* Whoever may answer has taken the one answer there is.                   *)
Answers(r, s) == request[r].at = "answer" /\ request[r].server = s
Answering ==
  /\ \A s \in Server : server[s].phase = "new" => ~server[s].consumed
  /\ \A r \in Request : request[r].at # "none" => server[request[r].server].phase # "new"
  /\ \A s \in Server : answers[s] # 0 => answers[s] = 1 /\ server[s].consumed
  /\ \A r \in Request, s \in Server : Answers(r, s) => server[s].consumed /\ answers[s] = 0
  /\ \A q, r \in Request, s \in Server : Answers(q, s) /\ Answers(r, s) => q = r

UseInv == TypeInv /\ Answering

LEMMA UseInit == Init => UseInv
  BY TypeInit, Stays DEF Init, UseInv, Answering, Answers, Waiting

LEMMA UseStep == UseInv /\ [Next]_vars => UseInv'
<1> SUFFICES ASSUME UseInv, [Next]_vars PROVE UseInv'
  OBVIOUS
<1>1. TypeInv'
  BY TypeStep DEF UseInv
<1> USE <1>1 DEF UseInv, TypeInv, TypeOK, Placed, Answering, Answers
<1>2. CASE \/ UNCHANGED vars
           \/ Signal \/ ControlClosed \/ StopService \/ Terminated
           \/ \E h \in Handler : \/ Accept(h) \/ PairChecksStatus(h) \/ PairReadsToken(h)
                                 \/ PairLists(h) \/ RotateStops(h) \/ RotateServes(h)
                                 \/ RotateReverts(h) \/ Reload(h)
  <2>1. UNCHANGED <<server, request, answers>>
    BY <1>2 DEF Signal, ControlClosed, StopService, Terminated, MainGoes, Accept,
       PairChecksStatus, PairReadsToken, PairLists, RotateStops, RotateServes, RotateReverts,
       Reload, pairingVars, vars
  <2> QED
    BY <2>1
<1>3. ASSUME NEW h \in Handler, PairStarts(h) PROVE UseInv'
  <2>1. handler[h].token \in MaybeToken
    BY Fields
  <2>2. CASE UNCHANGED server
    BY <1>3, <2>2 DEF PairStarts
  <2>3. ASSUME NEW s \in Server, server[s].phase = "new", Becomes(s, Opening(handler[h].token))
        PROVE  UseInv'
    <3>1. /\ server'[s].phase = "open"
          /\ \A k \in Server \ {s} : server'[k] = server[k]
      BY <2>1, <2>3, Records, Stays, ServerChange
    <3>2. UNCHANGED <<request, answers>>
      BY <1>3 DEF PairStarts
    <3> QED
      BY <2>3, <3>1, <3>2
  <2> QED
    BY <1>3, <2>2, <2>3 DEF PairStarts
<1>4. ASSUME NEW r \in Request, RequestArrives(r) PROVE UseInv'
  <2>1. PICK s \in Server : server[s].phase = "open" /\ Visits(r, In("check", s))
    BY <1>4 DEF RequestArrives
  <2>2. /\ request'[r].at = "check" /\ request'[r].server = s
        /\ \A q \in Request \ {r} : request'[q] = request[q]
    BY <2>1, Records, Stays, VisitChange
  <2>3. UNCHANGED <<server, answers>>
    BY <1>4 DEF RequestArrives
  <2> QED
    BY <2>1, <2>2, <2>3
<1>5. ASSUME NEW r \in Request, RequestChecked(r) PROVE UseInv'
  <2> DEFINE s == request[r].server
  <2>1. s \in Server /\ server[s] \in Pairing /\ request[r].at = "check" /\ UNCHANGED answers
    BY <1>5 DEF RequestChecked
  <2>2. CASE server[s].consumed \/ server[s].expired
    <3>1. /\ request'[r].at = "none"
          /\ \A q \in Request \ {r} : request'[q] = request[q]
      BY <1>5, <2>2, Records, Stays, VisitChange DEF RequestChecked, Waiting
    <3>2. UNCHANGED server
      BY <1>5, <2>2 DEF RequestChecked
    <3> QED
      BY <2>1, <3>1, <3>2
  <2>3. CASE ~(server[s].consumed \/ server[s].expired)
    <3>1. /\ request'[r].at = "answer" /\ request'[r].server = s
          /\ \A q \in Request \ {r} : request'[q] = request[q]
      BY <1>5, <2>1, <2>3, Records, Stays, VisitChange DEF RequestChecked
    <3>2. /\ server'[s].consumed /\ server'[s].phase = server[s].phase
          /\ \A k \in Server \ {s} : server'[k] = server[k]
      BY <1>5, <2>1, <2>3, PairingUpdates, ServerChange DEF RequestChecked
    <3> QED
      BY <2>1, <2>3, <3>1, <3>2
  <2> QED
    BY <2>2, <2>3
<1>6. ASSUME NEW r \in Request, RequestAnswered(r) PROVE UseInv'
  <2> DEFINE s == request[r].server
  <2>1. /\ s \in Server /\ server[s] \in Pairing /\ request[r].at = "answer"
        /\ answers' = [answers EXCEPT ![s] = @ + 1]
    BY <1>6 DEF RequestAnswered
  <2>2. /\ request'[r].at = "none"
        /\ \A q \in Request \ {r} : request'[q] = request[q]
    BY <1>6, Records, Stays, VisitChange DEF RequestAnswered, Waiting
  <2>3. /\ server'[s].consumed = server[s].consumed
        /\ server[s].phase # "new" => server'[s].phase # "new"
        /\ \A k \in Server \ {s} : server'[k] = server[k]
    BY <1>6, <2>1, PairingUpdates, ServerChange DEF RequestAnswered
  <2>4. answers'[s] = 1 /\ \A k \in Server \ {s} : answers'[k] = answers[k]
    BY <2>1
  <2> QED
    BY <2>1, <2>2, <2>3, <2>4
<1>7. ASSUME NEW s \in Server, Expires(s) \/ Closes(s) PROVE UseInv'
  <2>1. /\ server'[s].consumed = server[s].consumed
        /\ server[s].phase # "new" /\ server'[s].phase # "new"
        /\ \A k \in Server \ {s} : server'[k] = server[k]
    BY <1>7, PairingUpdates, ServerChange DEF Expires, Closes
  <2>2. UNCHANGED <<request, answers>>
    BY <1>7 DEF Expires, Closes
  <2> QED
    BY <2>1, <2>2
<1>8. CASE ClosePairings
  <2>1. \A k \in Server : /\ server'[k].consumed = server[k].consumed
                         /\ server'[k].phase \in {server[k].phase, "closed"}
    BY <1>8, PairingUpdates DEF ClosePairings
  <2>2. UNCHANGED <<request, answers>>
    BY <1>8 DEF ClosePairings
  <2> QED
    BY <2>1, <2>2
<1> QED
  BY <1>2, <1>3, <1>4, <1>5, <1>6, <1>7, <1>8 DEF Next, HandlerStep

(* However many requests with the right nonce race each other, the timer   *)
(* and the shutdown, a pairing hands its token out once (pairing.go,       *)
(* handle).                                                                *)
THEOREM PairingsUsedOnce == Spec => []SingleUse
<1>1. UseInv => SingleUse
  BY DEF UseInv, TypeInv, TypeOK, Answering, SingleUse
<1> QED
  BY <1>1, UseInit, UseStep, PTL DEF Spec

-----------------------------------------------------------------------------
(* A pairing that listens can be found by closePairings, at the latest     *)
(* when the handlers are done; and they are, from then on.                 *)
Opened ==
  /\ \A s \in Server : server[s].phase = "open" =>
       \/ s \in listed
       \/ \E h \in Handler : At(h, "list") /\ handler[h].server = s
  /\ main \notin {"serving", "draining"} => \A h \in Handler : At(h, "free")

OpenInv == TypeInv /\ Opened /\ NoPairingLeft

LEMMA OpenInit == Init => OpenInv
  BY TypeInit DEF Init, OpenInv, Opened, NoPairingLeft, Unopened

LEMMA OpenStep == OpenInv /\ [Next]_vars => OpenInv'
<1> SUFFICES ASSUME OpenInv, [Next]_vars PROVE OpenInv'
  OBVIOUS
<1>1. TypeInv'
  BY TypeStep DEF OpenInv
<1> USE <1>1 DEF OpenInv, TypeInv, TypeOK, Placed, Opened, NoPairingLeft, At, Goes, Free, Place
<1>2. CASE UNCHANGED vars
  BY <1>2 DEF vars, pairingVars
<1>3. ASSUME NEW h \in Handler,
             \/ Accept(h) \/ PairChecksStatus(h) \/ PairReadsToken(h) \/ RotateStops(h)
             \/ RotateServes(h) \/ RotateReverts(h) \/ Reload(h)
      PROVE  OpenInv'
  <2>1. UNCHANGED <<main, server, listed>>
    BY <1>3 DEF Accept, PairChecksStatus, PairReadsToken, RotateStops, RotateServes,
       RotateReverts, Reload, pairingVars
  <2>2. PICK next : /\ handler' = [handler EXCEPT ![h] = next]
                    /\ handler[h].at # "list"
                    /\ main = "serving" \/ handler[h].at # "free"
    BY <1>3 DEF Accept, PairChecksStatus, PairReadsToken, RotateStops, RotateServes,
       RotateReverts, Reload
  <2> QED
    BY <2>1, <2>2
<1>4. ASSUME NEW h \in Handler, PairStarts(h) PROVE OpenInv'
  <2>1. handler[h].token \in MaybeToken /\ handler[h].at = "open" /\ UNCHANGED <<main, listed>>
    BY <1>4, Fields DEF PairStarts
  <2>2. CASE Goes(h, Place("free", NONE, NONE)) /\ UNCHANGED server
    BY <2>1, <2>2
  <2>3. ASSUME NEW s \in Server, Becomes(s, Opening(handler[h].token)), Goes(h, Place("list", NONE, s))
        PROVE  OpenInv'
    <3>1. \A k \in Server \ {s} : server'[k] = server[k]
      BY <2>1, <2>3, Records, ServerChange
    <3>2. /\ handler'[h].at = "list" /\ handler'[h].server = s
          /\ \A k \in Handler \ {h} : handler'[k] = handler[k]
      BY <2>3
    <3> QED
      BY <2>1, <3>1, <3>2
  <2> QED
    BY <1>4, <2>2, <2>3 DEF PairStarts
<1>5. ASSUME NEW h \in Handler, PairLists(h) PROVE OpenInv'
  BY <1>5 DEF PairLists
<1>6. ASSUME NEW r \in Request, RequestArrives(r) \/ RequestChecked(r) \/ RequestAnswered(r)
      PROVE  OpenInv'
  <2>1. UNCHANGED <<main, handler, listed>>
    BY <1>6 DEF RequestArrives, RequestChecked, RequestAnswered
  <2>2. \A s \in Server : server'[s].phase = "open" => server[s].phase = "open"
    <3>1. CASE RequestArrives(r)
      BY <3>1 DEF RequestArrives
    <3>2. request[r].at # "none" => request[r].server \in Server
      OBVIOUS
    <3>3. CASE RequestChecked(r)
      BY <3>2, <3>3, PairingUpdates, ServerChange DEF RequestChecked
    <3>4. CASE RequestAnswered(r)
      BY <3>2, <3>4, PairingUpdates, ServerChange DEF RequestAnswered
    <3> QED
      BY <1>6, <3>1, <3>3, <3>4
  <2> QED
    BY <2>1, <2>2
<1>7. ASSUME NEW s \in Server, Expires(s) \/ Closes(s) PROVE OpenInv'
  <2>1. \A k \in Server : server'[k].phase = "open" => server[k].phase = "open"
    BY <1>7, PairingUpdates, ServerChange DEF Expires, Closes
  <2>2. UNCHANGED <<main, handler, listed>>
    BY <1>7 DEF Expires, Closes
  <2> QED
    BY <2>1, <2>2
<1>8. CASE Signal \/ ControlClosed \/ StopService \/ Terminated
  BY <1>8 DEF Signal, ControlClosed, StopService, Terminated, MainGoes, vars, pairingVars
<1>9. CASE ClosePairings
  <2>1. \A k \in Server : server'[k].phase = "open" => server[k].phase = "open" /\ k \notin listed
    BY <1>9, PairingUpdates DEF ClosePairings
  <2>2. main' = "stopping" /\ UNCHANGED handler /\ main = "pairings"
    BY <1>9 DEF ClosePairings
  <2> QED
    BY <2>1, <2>2
<1> QED
  BY <1>2, <1>3, <1>4, <1>5, <1>6, <1>7, <1>8, <1>9 DEF Next, HandlerStep

(* No pairing slips in between the closing of the pairings and the end     *)
(* (cli.go, serve; daemon.go, closePairings).                              *)
THEOREM PairingsClosed == Spec => []NoPairingLeft
<1>1. OpenInv => NoPairingLeft
  BY DEF OpenInv
<1> QED
  BY <1>1, OpenInit, OpenStep, PTL DEF Spec
=============================================================================
