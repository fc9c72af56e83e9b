-------------------------------- MODULE Gate --------------------------------
(***************************************************************************)
(* The engine with its gate: Start and Stop of internal/engine/engine.go   *)
(* step by step, with the resources every error path has to release, and   *)
(* the authorization callback of internal/policy/policy.go that DuckDB     *)
(* calls for each statement while the listener is up.  The callback takes  *)
(* the evaluator's mutex and not Runtime.mu, so statements are decided     *)
(* while Stop is under way.                                                *)
(*                                                                         *)
(* The operations between Start and Stop are those of module Engine, which *)
(* need Runtime.mu: they find stage = "idle".                              *)
(***************************************************************************)
EXTENDS Engine, Policy, FiniteSets

CONSTANTS
  Client,    \* connections to the Quack listener
  Submitted  \* the statements they submit

ASSUME GateAssumption == \A q \in Submitted : Query(q)

VARIABLES
  stage,      \* what Start or Stop does next; "idle": none holds Runtime.mu
  open,       \* resources that exist: of Resource
  guarded,    \* quack_authorization_function is set in this database
  locked,     \* the configuration of this database is locked
  listening,  \* the Quack server accepts statements
  evaluating, \* the policy evaluator has not been closed
  pending,    \* client -> the statement whose callback has begun, or NONE
  verdict     \* history: client -> its last decision and when it was made

gateVars == <<stage, open, guarded, locked, listening, evaluating, pending, verdict>>
allVars == <<engineVars, gateVars>>

Resource == {"db", "sandbox", "policy", "odbc"}
StartStages == {"sandbox", "configure", "install", "connect", "resolve", "authorize",
                "publish", "lock", "serve"}
StopStages == {"stopQuack", "closePolicy", "closeHandles", "closeDatabase"}

NoVerdict == [query |-> NONE, decision |-> Denial, open |-> FALSE]

GateInit ==
  /\ EngineInit
  /\ stage = "idle"
  /\ open = {}
  /\ guarded = FALSE
  /\ locked = FALSE
  /\ listening = FALSE
  /\ evaluating = FALSE
  /\ pending = [c \in Client |-> NONE]
  /\ verdict = [c \in Client |-> NoVerdict]

-----------------------------------------------------------------------------
(* Start.  A step takes a resource or configures the database; until the   *)
(* last one the fields of Runtime are not touched.                         *)
StartProceeds(from, to, taken) ==
  /\ stage = from
  /\ stage' = to
  /\ open' = open \cup taken
  /\ UNCHANGED <<engineVars, listening, pending, verdict>>

(* DuckDB with its extensions, in the right versions; until then an error  *)
(* path closes the database and no more.                                   *)
StartOpens ==
  /\ ~running
  /\ StartProceeds("idle", "sandbox", {"db"})
  /\ guarded' = FALSE
  /\ locked' = FALSE
  /\ UNCHANGED evaluating

MakesSandbox == StartProceeds("sandbox", "configure", {"sandbox"}) /\ UNCHANGED <<guarded, locked, evaluating>>

Configures == StartProceeds("configure", "install", {}) /\ UNCHANGED <<guarded, locked, evaluating>>

(* policy.Install releases what it took when it fails itself.              *)
InstallsPolicy ==
  /\ StartProceeds("install", "connect", {"policy"})
  /\ evaluating' = TRUE
  /\ UNCHANGED <<guarded, locked>>

ConnectsODBC == StartProceeds("connect", "resolve", {"odbc"}) /\ UNCHANGED <<guarded, locked, evaluating>>

InstallsResolver == StartProceeds("resolve", "authorize", {}) /\ UNCHANGED <<guarded, locked, evaluating>>

ActivatesPolicy ==
  /\ StartProceeds("authorize", "publish", {})
  /\ guarded' = TRUE
  /\ UNCHANGED <<locked, evaluating>>

(* Token, loopback check, port, identity, metadata relation.               *)
Publishes == StartProceeds("publish", "lock", {}) /\ UNCHANGED <<guarded, locked, evaluating>>

(* Faulty variant: an error of lockConfiguration is not looked at.         *)
LocksOrNot ==
  /\ StartProceeds("lock", "serve", {})
  /\ locked' \in BOOLEAN
  /\ UNCHANGED <<guarded, evaluating>>

LocksConfiguration ==
  /\ StartProceeds("lock", "serve", {})
  /\ locked' = TRUE
  /\ UNCHANGED <<guarded, evaluating>>

Serves ==
  /\ stage = "serve"
  /\ stage' = "idle"
  /\ listening' = TRUE
  /\ StartOK
  /\ UNCHANGED <<open, guarded, locked, evaluating, pending, verdict>>

(* Faulty variant: the policy is closed one step too late.                 *)
ReleasedWithoutPolicy(place) ==
  {"db"}
  \cup (IF place = "sandbox" THEN {} ELSE {"sandbox"})
  \cup (IF place \in {"sandbox", "configure", "install", "connect"} THEN {} ELSE {"policy", "odbc"})

(* What the error path of a step releases: the calls in its branch, and    *)
(* the close of the ODBC connection, deferred once that is set up.         *)
Released(place) ==
  {"db"}
  \cup (IF place = "sandbox" THEN {} ELSE {"sandbox"})
  \cup (IF place \in {"sandbox", "configure", "install"} THEN {} ELSE {"policy"})
  \cup (IF place \in {"sandbox", "configure", "install", "connect"} THEN {} ELSE {"odbc"})

StartFails ==
  /\ stage \in StartStages
  /\ open' = open \ Released(stage)
  /\ evaluating' = (evaluating /\ "policy" \notin Released(stage))
  /\ stage' = "idle"
  /\ UNCHANGED <<engineVars, guarded, locked, listening, pending, verdict>>

-----------------------------------------------------------------------------
(* Stop goes on whatever its calls return.  Closing the database ends the  *)
(* listener and the callbacks; the sandbox directory is taken to go.       *)
StopBegins ==
  /\ running
  /\ stage = "idle"
  /\ stage' = "stopQuack"
  /\ UNCHANGED <<engineVars, open, guarded, locked, listening, evaluating, pending, verdict>>

(* quack_stop fails when the caller's context has ended.                   *)
StopsQuack ==
  /\ stage = "stopQuack"
  /\ stage' = "closePolicy"
  /\ listening' = FALSE \/ UNCHANGED listening
  /\ UNCHANGED <<engineVars, open, guarded, locked, evaluating, pending, verdict>>

ClosesPolicy ==
  /\ stage = "closePolicy"
  /\ stage' = "closeHandles"
  /\ evaluating' = FALSE
  /\ open' = open \ {"policy"}
  /\ UNCHANGED <<engineVars, guarded, locked, listening, pending, verdict>>

ClosesHandles ==
  /\ stage = "closeHandles"
  /\ stage' = "closeDatabase"
  /\ open' = open \ {"odbc"}
  /\ UNCHANGED <<engineVars, guarded, locked, listening, evaluating, pending, verdict>>

ClosesDatabase ==
  /\ stage = "closeDatabase"
  /\ stage' = "idle"
  /\ StopEngine
  /\ open' = open \ {"db", "sandbox"}
  /\ listening' = FALSE
  /\ pending' = [c \in Client |-> NONE]
  /\ UNCHANGED <<guarded, locked, evaluating, verdict>>

-----------------------------------------------------------------------------
(* A statement arrives while the listener is up; its callback runs.        *)
Submits(c) ==
  /\ listening
  /\ pending[c] = NONE
  /\ \E q \in Submitted : pending' = [pending EXCEPT ![c] = q]
  /\ verdict' = [verdict EXCEPT ![c] = NoVerdict]
  /\ UNCHANGED <<engineVars, stage, open, guarded, locked, listening, evaluating>>

(* Evaluate under the evaluator's mutex, which Close takes too.            *)
Decides(c) ==
  /\ pending[c] # NONE
  /\ verdict' = [verdict EXCEPT ![c] =
       [query |-> pending[c], decision |-> Evaluate(evaluating, pending[c]), open |-> evaluating]]
  /\ pending' = [pending EXCEPT ![c] = NONE]
  /\ UNCHANGED <<engineVars, stage, open, guarded, locked, listening, evaluating>>

Operates == stage = "idle" /\ EngineOperation /\ UNCHANGED gateVars

StartStep ==
  \/ StartOpens \/ MakesSandbox \/ Configures \/ InstallsPolicy \/ ConnectsODBC
  \/ InstallsResolver \/ ActivatesPolicy \/ Publishes \/ LocksConfiguration \/ Serves
  \/ StartFails

StopStep == StopBegins \/ StopsQuack \/ ClosesPolicy \/ ClosesHandles \/ ClosesDatabase

GateNext ==
  \/ Operates
  \/ StartStep
  \/ StopStep
  \/ \E c \in Client : Submits(c) \/ Decides(c)

GateSpec == GateInit /\ [][GateNext]_allVars

-----------------------------------------------------------------------------
(* Every decision is the one a reader of the statement as a whole would    *)
(* make: allowed if it is a single harmless statement, with the catalogs   *)
(* of all its tables reported; and nothing is allowed by an evaluator that *)
(* Stop has closed under a listener that goes on (policy.go, Evaluate,     *)
(* inspectTree, collectSources, Close; engine.go, Stop).                   *)
DecisionIsExact ==
  \A c \in Client : LET v == verdict[c] IN
    v.query # NONE =>
      v.decision = IF v.open /\ Harmless(v.query)
                   THEN [allowed |-> TRUE, sources |-> Named(v.query)] ELSE Denial

(* The listener is never up without the authorization function, with an    *)
(* open configuration, or, unless the engine is being stopped, without an  *)
(* evaluator (engine.go, the order of Start's and Stop's calls).           *)
ListenerGuarded ==
  listening => guarded /\ locked /\ (evaluating \/ stage \in StopStages)

(* However Start failed and whatever Stop's calls returned, an engine that *)
(* is not running and not starting has nothing open: no database, parser,  *)
(* connection, sandbox, listener, native handle or credential (engine.go,  *)
(* the error paths of Start, and Stop).                                    *)
NothingLeftOpen ==
  stage = "idle" /\ ~running =>
    /\ open = {}
    /\ ~evaluating
    /\ ~listening
    /\ StoppedHoldsNothing
=============================================================================
