------------------------------ MODULE Backoff -------------------------------
(***************************************************************************)
(* internal/source/backoff.go: the reconnect delays of the sources.        *)
(* Failure counts the attempt of a source and computes its delay by        *)
(* doubling base once per earlier attempt, all under mu; Ready forgets one *)
(* source.  The loop runs one round per step, on integers of a width at    *)
(* which doubling would wrap around: that it never does is what the        *)
(* comparison with half of the maximum is for.                             *)
(***************************************************************************)
EXTENDS Integers

CONSTANTS
  Source,
  NONE,
  Given,      \* the pairs <<base, maximum>> NewBackoff is called with
  MaxInt,     \* math.MaxInt64: time.Duration is an int64
  Saturated,  \* 63, where the counter of attempts stops
  DefaultBase, DefaultMaximum,  \* 250 ms and 30 s
  MaxFailures  \* bound: failures of a source in a row

ASSUME BackoffAssumption ==
  /\ MaxInt \in Nat
  /\ Given \subseteq {g \in Int \X Int : g[1] <= MaxInt /\ g[2] <= MaxInt}
  /\ Saturated \in Nat
  /\ DefaultBase \in 1..MaxInt
  /\ DefaultMaximum \in DefaultBase..MaxInt
  /\ MaxFailures \in Nat
  /\ NONE \notin Source

(* 2^n, as a recursive function that a proof can reason about.             *)
TwoTo[n \in Nat] == IF n = 0 THEN 1 ELSE 2 * TwoTo[n - 1]

(* A delay that was doubled as often as the counter counts would not fit   *)
(* (2^63 is not an int64).                                                 *)
ASSUME SaturationAssumption == MaxInt < TwoTo[Saturated]

VARIABLES
  base, maximum,  \* set by NewBackoff
  attempts,       \* b.attempts, 0 for a source the map does not have
  caller,         \* the source whose Failure holds mu, or NONE
  rounds,         \* rounds of its loop still to go
  delay,          \* its local variable
  failures,       \* history: failures of a source since its last Ready
  returned        \* history: the delay the last of them returned, or 0

vars == <<base, maximum, attempts, caller, rounds, delay, failures, returned>>

(* int64 multiplication wraps around.                                      *)
Wrap(n) == IF n <= MaxInt THEN n ELSE n - 2 * (MaxInt + 1)

(* NewBackoff: a base that is not positive and a maximum below the base    *)
(* give way to the defaults, the latter without another look at base.      *)
BaseOf(b) == IF b <= 0 THEN DefaultBase ELSE b
MaximumOf(b, m) == IF m < BaseOf(b) THEN DefaultMaximum ELSE m

Init ==
  /\ \E g \in Given : base = BaseOf(g[1]) /\ maximum = MaximumOf(g[1], g[2])
  /\ attempts = [s \in Source |-> 0]
  /\ caller = NONE
  /\ rounds = 0
  /\ delay = 0
  /\ failures = [s \in Source |-> 0]
  /\ returned = [s \in Source |-> 0]

(* Faulty variant: the counter stops one attempt earlier.                  *)
FailureSaturatingEarly(s) ==
  /\ caller = NONE
  /\ failures[s] < MaxFailures
  /\ failures' = [failures EXCEPT ![s] = @ + 1]
  /\ caller' = s
  /\ rounds' = attempts[s]
  /\ attempts' = IF attempts[s] + 1 < Saturated THEN [attempts EXCEPT ![s] = @ + 1] ELSE attempts
  /\ delay' = base
  /\ UNCHANGED <<base, maximum, returned>>

Failure(s) ==
  /\ caller = NONE
  /\ failures[s] < MaxFailures
  /\ failures' = [failures EXCEPT ![s] = @ + 1]
  /\ caller' = s
  /\ rounds' = attempts[s]
  /\ attempts' = IF attempts[s] < Saturated THEN [attempts EXCEPT ![s] = @ + 1] ELSE attempts
  /\ delay' = base
  /\ UNCHANGED <<base, maximum, returned>>

Return(d) ==
  /\ returned' = [returned EXCEPT ![caller] = d]
  /\ caller' = NONE
  /\ rounds' = 0
  /\ delay' = 0
  /\ UNCHANGED <<base, maximum, attempts, failures>>

(* Faulty variant: compares with the maximum itself.                       *)
EnoughTooLate == delay >= maximum

(* The next doubling would reach the maximum.                              *)
Enough == delay >= maximum \div 2

ReturnsMaximum ==
  /\ caller # NONE
  /\ rounds > 0
  /\ Enough
  /\ Return(maximum)

Doubles ==
  /\ caller # NONE
  /\ rounds > 0
  /\ ~Enough
  /\ delay' = Wrap(2 * delay)
  /\ rounds' = rounds - 1
  /\ UNCHANGED <<base, maximum, attempts, caller, failures, returned>>

ReturnsDelay ==
  /\ caller # NONE
  /\ rounds = 0
  /\ Return(IF delay > maximum THEN maximum ELSE delay)

Ready(s) ==
  /\ caller = NONE
  /\ attempts' = [attempts EXCEPT ![s] = 0]
  /\ failures' = [failures EXCEPT ![s] = 0]
  /\ returned' = [returned EXCEPT ![s] = 0]
  /\ UNCHANGED <<base, maximum, caller, rounds, delay>>

Next ==
  \/ ReturnsMaximum \/ Doubles \/ ReturnsDelay
  \/ \E s \in Source : Failure(s) \/ Ready(s)

Spec == Init /\ [][Next]_vars

-----------------------------------------------------------------------------
TypeOK ==
  /\ base \in 1..MaxInt
  /\ maximum \in 1..MaxInt
  /\ attempts \in [Source -> 0..Saturated]
  /\ caller \in Source \cup {NONE}
  /\ rounds \in 0..Saturated
  /\ delay \in Int
  /\ failures \in [Source -> 0..MaxFailures]
  /\ returned \in [Source -> Int]

(* No doubling wraps around, and every delay that is returned is positive  *)
(* and at most the maximum, for a base above the maximum too (backoff.go,  *)
(* NewBackoff and Failure).                                                *)
DelaysBounded ==
  /\ caller # NONE => delay \in 1..MaxInt
  /\ \A s \in Source : returned[s] \in 0..maximum
  /\ \A s \in Source : caller # s /\ failures[s] > 0 => returned[s] > 0

(* What Failure promises: base doubled once per earlier failure of that    *)
(* source and of no other, up to the maximum; the saturated counter makes  *)
(* no difference, however long the outage.  An odd maximum is reached one  *)
(* failure early when the doubled delay would fall short of it by one      *)
(* (backoff.go, Failure and Ready).                                        *)
DelayIsExponential ==
  \A s \in Source : caller # s /\ failures[s] > 0 =>
    LET earlier == failures[s] - 1
        ideal == base * TwoTo[earlier]
    IN returned[s] =
         IF ideal >= maximum \/ (earlier > 0 /\ ideal = maximum - 1 /\ maximum % 2 = 1)
         THEN maximum ELSE ideal
=============================================================================
