---------------------------- MODULE BackoffProofs ---------------------------
(***************************************************************************)
(* The delays are bounded, and base doubled once per earlier failure, for  *)
(* every base, maximum, width of the integers and point of saturation      *)
(* beyond that width.  DelaysBounded is not inductive by itself: the       *)
(* bounds of a doubled delay come from the bound of the maximum, and that  *)
(* a delay under way is positive makes the one that is returned positive.  *)
(* That the delay is exact (ExactInv) takes what the counter of attempts   *)
(* says of the failures (Counted) and what the loop has done so far        *)
(* (Doubling).                                                             *)
(***************************************************************************)
EXTENDS Backoff, TLAPS, WellFoundedInduction

(* NewBackoff's parameters are usable whatever it is given.                *)
LEMMA ParametersUsable ==
  ASSUME NEW g \in Given
  PROVE /\ BaseOf(g[1]) \in 1..MaxInt
        /\ MaximumOf(g[1], g[2]) \in 1..MaxInt
  BY BackoffAssumption DEF BaseOf, MaximumOf

(* The comparison with half of the maximum keeps the doubled delay below   *)
(* the maximum (backoff.go, Failure).                                      *)
LEMMA DoublingFits ==
  ASSUME NEW m \in 1..MaxInt, NEW d \in 1..MaxInt, d < m \div 2
  PROVE Wrap(2 * d) = 2 * d /\ 2 * d \in 1..m
<1>1. MaxInt \in Nat
  BY BackoffAssumption
<1>2. m \div 2 \in Int /\ 2 * (m \div 2) <= m
  BY <1>1
<1>3. 2 * d \in 1..m /\ 2 * d <= MaxInt
  BY <1>1, <1>2
<1> QED
  BY <1>1, <1>3 DEF Wrap

BackoffInv == TypeOK /\ DelaysBounded

(* A delay of 1..maximum is handed to the caller.                          *)
LEMMA ReturnBounded ==
  ASSUME BackoffInv, caller # NONE, NEW d \in 1..maximum, Return(d)
  PROVE BackoffInv'
<1>1. TypeOK'
  BY BackoffAssumption DEF Return, BackoffInv, TypeOK
<1>2. DelaysBounded'
  BY BackoffAssumption DEF Return, BackoffInv, TypeOK, DelaysBounded
<1> QED
  BY <1>1, <1>2 DEF BackoffInv

LEMMA FailureBounded ==
  ASSUME BackoffInv, NEW s \in Source, Failure(s)
  PROVE BackoffInv'
<1>1. TypeOK'
  BY BackoffAssumption DEF Failure, BackoffInv, TypeOK
<1>2. DelaysBounded'
  BY BackoffAssumption DEF Failure, BackoffInv, TypeOK, DelaysBounded
<1> QED
  BY <1>1, <1>2 DEF BackoffInv

LEMMA ReadyBounded ==
  ASSUME BackoffInv, NEW s \in Source, Ready(s)
  PROVE BackoffInv'
<1>1. TypeOK'
  BY BackoffAssumption DEF Ready, BackoffInv, TypeOK
<1>2. DelaysBounded'
  BY BackoffAssumption DEF Ready, BackoffInv, TypeOK, DelaysBounded
<1> QED
  BY <1>1, <1>2 DEF BackoffInv

LEMMA DoublesBounded ==
  ASSUME BackoffInv, Doubles
  PROVE BackoffInv'
<1>1. delay \in 1..MaxInt /\ maximum \in 1..MaxInt /\ delay < maximum \div 2
  BY BackoffAssumption DEF Doubles, Enough, BackoffInv, TypeOK, DelaysBounded
<1>2. delay' \in 1..maximum
  BY <1>1, DoublingFits DEF Doubles
<1>3. TypeOK'
  BY <1>2, BackoffAssumption DEF Doubles, BackoffInv, TypeOK
<1>4. DelaysBounded'
  BY <1>1, <1>2, BackoffAssumption DEF Doubles, BackoffInv, TypeOK, DelaysBounded
<1> QED
  BY <1>3, <1>4 DEF BackoffInv

(* The inductive invariant holds in every behaviour.                       *)
THEOREM BackoffSafe == Spec => []BackoffInv
<1>1. Init => BackoffInv
  BY ParametersUsable, BackoffAssumption DEF Init, BackoffInv, TypeOK, DelaysBounded
<1>2. BackoffInv /\ [Next]_vars => BackoffInv'
  <2> SUFFICES ASSUME BackoffInv, [Next]_vars
               PROVE BackoffInv'
    OBVIOUS
  <2>1. CASE ReturnsMaximum
    <3>1. maximum \in 1..maximum
      BY BackoffAssumption DEF BackoffInv, TypeOK
    <3> QED
      BY <2>1, <3>1, ReturnBounded DEF ReturnsMaximum
  <2>2. CASE Doubles
    BY <2>2, DoublesBounded
  <2>3. CASE ReturnsDelay
    <3> DEFINE d == IF delay > maximum THEN maximum ELSE delay
    <3>1. d \in 1..maximum
      BY <2>3, BackoffAssumption DEF ReturnsDelay, BackoffInv, TypeOK, DelaysBounded
    <3> QED
      BY <2>3, <3>1, ReturnBounded DEF ReturnsDelay
  <2>4. ASSUME NEW s \in Source, Failure(s) PROVE BackoffInv'
    BY <2>4, FailureBounded
  <2>5. ASSUME NEW s \in Source, Ready(s) PROVE BackoffInv'
    BY <2>5, ReadyBounded
  <2>6. CASE UNCHANGED vars
    BY <2>6 DEF vars, BackoffInv, TypeOK, DelaysBounded
  <2> QED
    BY <2>1, <2>2, <2>3, <2>4, <2>5, <2>6 DEF Next
<1> QED
  BY <1>1, <1>2, PTL DEF Spec

(* No delay overflows, and each that is returned lies between one and the  *)
(* maximum (backoff.go, Failure).                                          *)
THEOREM NoDelayOverflows == Spec => []DelaysBounded
<1>1. BackoffInv => DelaysBounded
  BY DEF BackoffInv
<1> QED
  BY <1>1, BackoffSafe, PTL
-----------------------------------------------------------------------------
(* A set of natural numbers has a least element.                           *)
LEMMA LeastNumber ==
  ASSUME NEW T \in SUBSET Nat, T # {}
  PROVE  \E n \in T : \A m \in T : n <= m
<1>1. PICK n \in T : \A m \in T : ~(<<m, n>> \in OpToRel(<, Nat))
  BY NatLessThanWellFounded, WFMin
<1>2. ASSUME NEW m \in T PROVE n <= m
  <2>1. <<m, n>> \in Nat \X Nat
    OBVIOUS
  <2>2. ~(m < n)
    BY <1>1, <2>1 DEF OpToRel
  <2> QED
    BY <2>2
<1> QED
  BY <1>2

(* The powers of two up to the n-th: f has what the definition of TwoTo    *)
(* asks for.  There is one such f for every n, so TwoTo exists.            *)
Powers(n, f) ==
  /\ f \in [0..n -> Nat]
  /\ f[0] = 1
  /\ \A k \in 1..n : f[k] = 2 * f[k - 1]

LEMMA PowersExist == \A n \in Nat : \E f : Powers(n, f)
<1> DEFINE Missing == {n \in Nat : ~\E f : Powers(n, f)}
<1> SUFFICES ASSUME Missing # {} PROVE FALSE
  OBVIOUS
<1>1. PICK n \in Missing : \A m \in Missing : n <= m
  BY LeastNumber
<1>2. n \in Nat /\ ~\E f : Powers(n, f)
  BY <1>1
<1>3. CASE n = 0
  <2>1. Powers(0, [k \in 0..0 |-> 1])
    BY DEF Powers
  <2> QED
    BY <1>2, <1>3, <2>1
<1>4. CASE n # 0
  <2>1. n - 1 \in Nat /\ n - 1 \notin Missing
    BY <1>1, <1>2, <1>4
  <2>2. PICK f : Powers(n - 1, f)
    BY <2>1
  <2>3. /\ f \in [0..(n - 1) -> Nat] /\ f[0] = 1
        /\ \A k \in 1..(n - 1) : f[k] = 2 * f[k - 1]
    BY <2>2 DEF Powers
  <2> DEFINE g == [k \in 0..n |-> IF k = n THEN 2 * f[n - 1] ELSE f[k]]
  <2>4. g \in [0..n -> Nat]
    BY <1>2, <2>1, <2>3
  <2>5. g[0] = 1
    BY <1>2, <1>4, <2>3
  <2>6. ASSUME NEW k \in 1..n PROVE g[k] = 2 * g[k - 1]
    <3>1. k - 1 \in 0..(n - 1) /\ g[k - 1] = f[k - 1]
      BY <1>2, <2>6
    <3>2. CASE k = n
      BY <1>2, <3>1, <3>2
    <3>3. CASE k # n
      BY <1>2, <2>3, <3>1, <3>3
    <3> QED
      BY <3>2, <3>3
  <2>7. Powers(n, g)
    BY <2>4, <2>5, <2>6 DEF Powers
  <2> QED
    BY <1>2, <2>7
<1> QED
  BY <1>3, <1>4

LEMMA PowersAgree ==
  ASSUME NEW n \in Nat, NEW m \in Nat, NEW f, NEW g, Powers(n, f), Powers(m, g), NEW k \in Nat, k <= n, k <= m
  PROVE  f[k] = g[k]
<1> DEFINE Apart == {i \in Nat : i <= n /\ i <= m /\ f[i] # g[i]}
<1> SUFFICES ASSUME Apart # {} PROVE FALSE
  OBVIOUS
<1>1. PICK i \in Apart : \A j \in Apart : i <= j
  BY LeastNumber
<1>2. i \in Nat /\ i <= n /\ i <= m /\ f[i] # g[i]
  BY <1>1
<1>3. i # 0
  BY <1>2 DEF Powers
<1>4. i - 1 \in Nat /\ f[i - 1] = g[i - 1]
  BY <1>1, <1>2, <1>3
<1>5. f[i] = 2 * f[i - 1] /\ g[i] = 2 * g[i - 1]
  BY <1>2, <1>3 DEF Powers
<1> QED
  BY <1>2, <1>4, <1>5

LEMMA TwoToIs ==
  /\ TwoTo[0] = 1
  /\ \A n \in Nat : TwoTo[n] \in Nat \ {0} /\ TwoTo[n + 1] = 2 * TwoTo[n]
<1> DEFINE Recursion(f) == f = [n \in Nat |-> IF n = 0 THEN 1 ELSE 2 * f[n - 1]]
           The(n) == CHOOSE f : Powers(n, f)
           F == [n \in Nat |-> The(n)[n]]
<1>1. \A n \in Nat : Powers(n, The(n))
  BY PowersExist
<1> HIDE DEF The
<1>2. F[0] = 1
  BY <1>1 DEF Powers
<1>3. ASSUME NEW n \in Nat, n # 0 PROVE F[n] = 2 * F[n - 1]
  <2>1. n - 1 \in Nat /\ Powers(n, The(n)) /\ Powers(n - 1, The(n - 1))
    BY <1>1, <1>3
  <2>2. The(n)[n] = 2 * The(n)[n - 1]
    BY <1>3, <2>1 DEF Powers
  <2>3. The(n)[n - 1] = The(n - 1)[n - 1]
    BY <2>1, PowersAgree
  <2> QED
    BY <2>1, <2>2, <2>3
<1>4. Recursion(F)
  <2>1. F = [n \in Nat |-> F[n]]
    OBVIOUS
  <2> HIDE DEF F
  <2> QED
    BY <1>2, <1>3, <2>1
<1>5. TwoTo = CHOOSE f : Recursion(f)
  BY DEF TwoTo
<1>6. Recursion(TwoTo)
  <2> HIDE DEF Recursion, F
  <2> QED
    BY <1>4, <1>5
<1>7. TwoTo[0] = 1 /\ \A n \in Nat : TwoTo[n + 1] = 2 * TwoTo[n]
  <2>1. \A n \in Nat : TwoTo[n] = IF n = 0 THEN 1 ELSE 2 * TwoTo[n - 1]
    BY <1>6
  <2>2. ASSUME NEW n \in Nat PROVE TwoTo[n + 1] = 2 * TwoTo[n]
    <3>1. n + 1 \in Nat /\ n + 1 # 0 /\ (n + 1) - 1 = n
      OBVIOUS
    <3> QED
      BY <2>1, <3>1
  <2> QED
    BY <2>1, <2>2
<1>8. \A n \in Nat : TwoTo[n] \in Nat \ {0}
  <2> DEFINE Bad == {n \in Nat : TwoTo[n] \notin Nat \ {0}}
  <2> SUFFICES ASSUME Bad # {} PROVE FALSE
    OBVIOUS
  <2>1. PICK n \in Bad : \A m \in Bad : n <= m
    BY LeastNumber
  <2>2. n # 0
    BY <1>7, <2>1
  <2>3. n - 1 \in Nat /\ TwoTo[n - 1] \in Nat \ {0} /\ (n - 1) + 1 = n
    BY <2>1, <2>2
  <2>4. TwoTo[n] = 2 * TwoTo[n - 1]
    BY <1>7, <2>3
  <2> QED
    BY <2>1, <2>3, <2>4
<1> QED
  BY <1>7, <1>8

LEMMA TwoToGrows ==
  ASSUME NEW n \in Nat, NEW m \in Nat, n <= m
  PROVE  TwoTo[n] <= TwoTo[m]
<1> DEFINE Bad == {k \in Nat : n <= k /\ ~(TwoTo[n] <= TwoTo[k])}
<1> SUFFICES ASSUME Bad # {} PROVE FALSE
  OBVIOUS
<1>1. PICK k \in Bad : \A j \in Bad : k <= j
  BY LeastNumber
<1>2. k # n /\ k - 1 \in Nat /\ n <= k - 1 /\ TwoTo[n] <= TwoTo[k - 1] /\ (k - 1) + 1 = k
  BY <1>1, TwoToIs
<1>3. TwoTo[k] = 2 * TwoTo[k - 1] /\ TwoTo[k - 1] \in Nat /\ TwoTo[n] \in Nat
  BY <1>2, TwoToIs
<1> QED
  BY <1>1, <1>2, <1>3
-----------------------------------------------------------------------------
(* How often the loop of a call doubles at most (backoff.go, Failure).     *)
Start(n) == IF n <= Saturated THEN n ELSE Saturated

(* Between calls the counter is the number of failures until it saturates. *)
(* In a call the delay is base doubled once per round that is over, and    *)
(* none of the rounds started from half of the maximum or more.            *)
Counted == \A s \in Source : attempts[s] = Start(failures[s])

Doubling ==
  caller # NONE =>
    \E over \in Nat :
      /\ failures[caller] > 0
      /\ over + rounds = Start(failures[caller] - 1)
      /\ delay = base * TwoTo[over]
      /\ over > 0 => delay < 2 * (maximum \div 2)

ExactInv == BackoffInv /\ Counted /\ Doubling /\ DelayIsExponential

(* The delay that DelayIsExponential wants after n earlier failures.       *)
Wanted(n) ==
  IF base * TwoTo[n] >= maximum \/ (n > 0 /\ base * TwoTo[n] = maximum - 1 /\ maximum % 2 = 1)
  THEN maximum ELSE base * TwoTo[n]

LEMMA Factors ==
  ASSUME NEW b \in Nat \ {0}, NEW x \in Nat, NEW y \in Nat, x <= y
  PROVE  b * x <= b * y /\ x <= b * x /\ b * (2 * x) = 2 * (b * x) /\ b * x \in Nat
<1>1. b * x <= b * y
  OBVIOUS
<1>2. x <= b * x
  OBVIOUS
<1>3. b * (2 * x) = 2 * (b * x)
  OBVIOUS
<1> QED
  BY <1>1, <1>2, <1>3

(* A round that starts from half of the maximum returns what it would end  *)
(* with, but for an odd maximum that it would miss by one.                 *)
LEMMA EnoughIsWanted ==
  ASSUME BackoffInv, NEW n \in Nat, NEW over \in Nat, over < n,
         base * TwoTo[over] >= maximum \div 2
  PROVE  Wanted(n) = maximum
<1>1. base \in Nat \ {0} /\ maximum \in Nat \ {0}
  BY BackoffAssumption DEF BackoffInv, TypeOK
<1>2. /\ TwoTo[over] \in Nat /\ TwoTo[n] \in Nat /\ TwoTo[over + 1] = 2 * TwoTo[over]
      /\ TwoTo[over + 1] <= TwoTo[n]
  BY TwoToIs, TwoToGrows
<1>3. 2 * (base * TwoTo[over]) <= base * TwoTo[n] /\ base * TwoTo[over] \in Nat /\ base * TwoTo[n] \in Nat
  <2>1. base * (2 * TwoTo[over]) <= base * TwoTo[n]
    BY <1>1, <1>2, Factors
  <2>2. base * (2 * TwoTo[over]) = 2 * (base * TwoTo[over]) /\ base * TwoTo[over] \in Nat
    BY <1>1, <1>2, Factors
  <2>3. base * TwoTo[n] \in Nat
    BY <1>1, <1>2, Factors
  <2> QED
    BY <2>1, <2>2, <2>3
<1>4. PICK ideal \in Nat, d \in Nat : ideal = base * TwoTo[n] /\ d = base * TwoTo[over]
  BY <1>3
<1>5. 2 * (maximum \div 2) >= maximum - 1 /\ (maximum % 2 # 1 => 2 * (maximum \div 2) = maximum)
  BY <1>1
<1>6. maximum \div 2 \in Nat /\ d >= maximum \div 2 /\ 2 * d <= ideal
  BY <1>1, <1>3, <1>4
<1>7. ideal >= maximum - 1 /\ (maximum % 2 # 1 => ideal >= maximum)
  BY <1>1, <1>4, <1>5, <1>6
<1>8. n > 0
  OBVIOUS
<1> QED
  BY <1>1, <1>4, <1>7, <1>8 DEF Wanted

(* A delay whose rounds are all over is the one wanted, and the counter    *)
(* has not saturated before.                                               *)
LEMMA LastIsWanted ==
  ASSUME BackoffInv, NEW n \in Nat, NEW d \in 1..MaxInt, d = base * TwoTo[Start(n)],
         Start(n) > 0 => d < 2 * (maximum \div 2)
  PROVE  Wanted(n) = IF d > maximum THEN maximum ELSE d
<1>1. /\ base \in Nat \ {0} /\ maximum \in Nat \ {0} /\ maximum <= MaxInt /\ MaxInt \in Nat
      /\ Saturated \in Nat
  BY BackoffAssumption DEF BackoffInv, TypeOK
<1>2. 2 * (maximum \div 2) <= maximum /\ (maximum % 2 = 1 => 2 * (maximum \div 2) = maximum - 1)
  BY <1>1
<1>3. n <= Saturated
  <2> SUFFICES ASSUME n > Saturated PROVE FALSE
    BY <1>1
  <2>1. Start(n) = Saturated
    BY <1>1 DEF Start
  <2>2. TwoTo[Saturated] \in Nat /\ TwoTo[Saturated] <= d
    BY <1>1, <2>1, TwoToIs, Factors
  <2> QED
    BY <1>1, <2>2, SaturationAssumption
<1>4. Start(n) = n /\ d = base * TwoTo[n]
  BY <1>3 DEF Start
<1>5. n > 0 /\ d = maximum - 1 => maximum % 2 # 1
  BY <1>1, <1>2, <1>4
<1> QED
  BY <1>1, <1>4, <1>5 DEF Wanted

(* The caller is told the delay it is to be told.                          *)
LEMMA ReturnExact ==
  ASSUME ExactInv, BackoffInv', caller # NONE, NEW d, Return(d), d = Wanted(failures[caller] - 1)
  PROVE  ExactInv'
<1>1. caller \in Source /\ caller' = NONE /\ UNCHANGED <<base, maximum, attempts, failures>>
  BY DEF Return, ExactInv, BackoffInv, TypeOK
<1>2. Counted'
  BY <1>1 DEF ExactInv, Counted, Start
<1>3. Doubling'
  BY <1>1 DEF Doubling
<1>4. ASSUME NEW s \in Source, failures[s] > 0
      PROVE  returned'[s] = Wanted(failures[s] - 1)
  <2>1. CASE s = caller
    BY <2>1 DEF Return, ExactInv, BackoffInv, TypeOK
  <2>2. CASE s # caller
    <3>1. returned'[s] = returned[s]
      BY <2>2 DEF Return, ExactInv, BackoffInv, TypeOK
    <3> QED
      BY <1>4, <2>2, <3>1 DEF ExactInv, DelayIsExponential, Wanted
  <2> QED
    BY <2>1, <2>2
<1>5. DelayIsExponential'
  BY <1>1, <1>4 DEF DelayIsExponential, Wanted
<1> QED
  BY <1>2, <1>3, <1>5 DEF ExactInv

LEMMA FailureExact ==
  ASSUME ExactInv, BackoffInv', NEW s \in Source, Failure(s)
  PROVE  ExactInv'
<1>1. /\ caller = NONE /\ caller' = s /\ s # NONE /\ UNCHANGED <<base, maximum, returned>>
      /\ rounds' = attempts[s] /\ delay' = base
      /\ failures' = [failures EXCEPT ![s] = @ + 1]
      /\ attempts' = IF attempts[s] < Saturated THEN [attempts EXCEPT ![s] = @ + 1] ELSE attempts
  BY BackoffAssumption DEF Failure
<1>2. /\ failures \in [Source -> Nat] /\ attempts \in [Source -> Nat] /\ Saturated \in Nat /\ base \in Nat
      /\ attempts[s] = Start(failures[s])
  BY BackoffAssumption DEF ExactInv, BackoffInv, TypeOK, Counted
<1>3. /\ failures'[s] = failures[s] + 1
      /\ \A t \in Source \ {s} : failures'[t] = failures[t] /\ attempts'[t] = attempts[t]
  BY <1>1, <1>2
<1>4. Counted'
  <2>1. attempts'[s] = Start(failures'[s])
    BY <1>1, <1>2, <1>3 DEF Start
  <2>2. \A t \in Source \ {s} : attempts'[t] = Start(failures'[t])
    BY <1>3 DEF ExactInv, Counted
  <2> QED
    BY <2>1, <2>2 DEF Counted, Start
<1>5. Doubling'
  <2>1. 0 + rounds' = Start(failures'[s] - 1) /\ failures'[s] > 0
    BY <1>1, <1>2, <1>3 DEF Start
  <2>2. delay' = base' * TwoTo[0]
    BY <1>1, <1>2, TwoToIs
  <2> QED
    BY <1>1, <2>1, <2>2 DEF Doubling, Start
<1>6. DelayIsExponential'
  <2>1. ASSUME NEW t \in Source, caller' # t, failures'[t] > 0
        PROVE  returned'[t] = Wanted(failures[t] - 1) /\ failures'[t] = failures[t]
    <3>1. t # s /\ t # NONE
      BY <1>1, <2>1, BackoffAssumption
    <3>2. failures'[t] = failures[t] /\ returned'[t] = returned[t]
      BY <1>1, <1>3, <3>1
    <3>3. returned[t] = Wanted(failures[t] - 1)
      BY <1>1, <2>1, <3>1, <3>2 DEF ExactInv, DelayIsExponential, Wanted
    <3> QED
      BY <3>2, <3>3
  <2> QED
    BY <1>1, <2>1 DEF DelayIsExponential, Wanted
<1> QED
  BY <1>4, <1>5, <1>6 DEF ExactInv

LEMMA ReadyExact ==
  ASSUME ExactInv, BackoffInv', NEW s \in Source, Ready(s)
  PROVE  ExactInv'
<1>1. /\ caller = NONE /\ UNCHANGED <<base, maximum, caller>>
      /\ attempts'[s] = 0 /\ failures'[s] = 0
      /\ \A t \in Source \ {s} : /\ failures'[t] = failures[t] /\ attempts'[t] = attempts[t]
                                 /\ returned'[t] = returned[t]
  BY DEF Ready, ExactInv, BackoffInv, TypeOK
<1>2. Counted'
  <2>1. attempts'[s] = Start(failures'[s])
    BY <1>1, BackoffAssumption DEF Start
  <2>2. \A t \in Source \ {s} : attempts'[t] = Start(failures'[t])
    BY <1>1 DEF ExactInv, Counted
  <2> QED
    BY <2>1, <2>2 DEF Counted, Start
<1>3. Doubling'
  BY <1>1 DEF Doubling
<1>4. DelayIsExponential'
  <2>1. ASSUME NEW t \in Source, caller' # t, failures'[t] > 0
        PROVE  returned'[t] = Wanted(failures[t] - 1) /\ failures'[t] = failures[t]
    <3>1. t # s
      BY <1>1, <2>1
    <3> QED
      BY <1>1, <2>1, <3>1 DEF ExactInv, DelayIsExponential, Wanted
  <2> QED
    BY <1>1, <2>1 DEF DelayIsExponential, Wanted
<1> QED
  BY <1>2, <1>3, <1>4 DEF ExactInv

LEMMA DoublesExact ==
  ASSUME ExactInv, BackoffInv', Doubles
  PROVE  ExactInv'
<1>1. /\ caller \in Source /\ caller # NONE /\ rounds > 0 /\ ~Enough
      /\ UNCHANGED <<base, maximum, attempts, caller, failures, returned>>
      /\ rounds \in Nat /\ rounds' = rounds - 1 /\ delay' = Wrap(2 * delay)
      /\ delay \in 1..MaxInt /\ maximum \in 1..MaxInt /\ base \in Nat \ {0}
  BY BackoffAssumption DEF Doubles, ExactInv, BackoffInv, TypeOK, DelaysBounded
<1>2. delay < maximum \div 2 /\ delay' = 2 * delay
  BY <1>1, DoublingFits, BackoffAssumption DEF Enough
<1>3. PICK over \in Nat : /\ failures[caller] > 0
                          /\ over + rounds = Start(failures[caller] - 1)
                          /\ delay = base * TwoTo[over]
  BY <1>1 DEF ExactInv, Doubling
<1>4. delay' = base * TwoTo[over + 1]
  BY <1>1, <1>2, <1>3, TwoToIs, Factors
<1>5. delay' < 2 * (maximum \div 2)
  BY <1>1, <1>2, BackoffAssumption
<1>6. (over + 1) + rounds' = Start(failures[caller] - 1)
  BY <1>1, <1>3
<1>7. Doubling'
  BY <1>1, <1>3, <1>4, <1>5, <1>6 DEF Doubling, Start
<1>8. Counted' /\ DelayIsExponential'
  BY <1>1 DEF ExactInv, Counted, Start, DelayIsExponential
<1> QED
  BY <1>7, <1>8 DEF ExactInv

(* Failure returns base doubled once per earlier failure of that source,   *)
(* up to the maximum, however often it has failed: the counter saturates   *)
(* beyond the point where the delay has reached the maximum (backoff.go,   *)
(* Failure and Ready).                                                     *)
THEOREM DelaysAreExponential == Spec => []DelayIsExponential
<1>1. Init => Counted /\ Doubling /\ DelayIsExponential
  BY BackoffAssumption DEF Init, Counted, Start, Doubling, DelayIsExponential
<1>2. BackoffInv /\ BackoffInv' /\ ExactInv /\ [Next]_vars => ExactInv'
  <2> SUFFICES ASSUME BackoffInv', ExactInv, [Next]_vars PROVE ExactInv'
    OBVIOUS
  <2>1. ASSUME caller # NONE
        PROVE  /\ caller \in Source /\ failures[caller] - 1 \in Nat /\ BackoffInv /\ rounds \in Nat
               /\ delay \in 1..MaxInt
    BY <2>1, BackoffAssumption DEF ExactInv, Doubling, BackoffInv, TypeOK, DelaysBounded
  <2>2. CASE ReturnsMaximum
    <3>1. caller # NONE /\ rounds > 0 /\ Enough /\ Return(maximum)
      BY <2>2 DEF ReturnsMaximum
    <3>2. PICK over \in Nat : /\ over + rounds = Start(failures[caller] - 1)
                              /\ delay = base * TwoTo[over]
      BY <3>1 DEF ExactInv, Doubling
    <3>3. over < failures[caller] - 1
      BY <2>1, <3>1, <3>2, BackoffAssumption DEF Start
    <3>4. maximum = Wanted(failures[caller] - 1)
      BY <2>1, <3>1, <3>2, <3>3, EnoughIsWanted DEF Enough
    <3> QED
      BY <3>1, <3>4, ReturnExact
  <2>3. CASE Doubles
    BY <2>3, DoublesExact
  <2>4. CASE ReturnsDelay
    <3>1. caller # NONE /\ rounds = 0 /\ Return(IF delay > maximum THEN maximum ELSE delay)
      BY <2>4 DEF ReturnsDelay
    <3>2. PICK n \in Nat : n = failures[caller] - 1
      BY <2>1, <3>1
    <3>3. delay = base * TwoTo[Start(n)] /\ (Start(n) > 0 => delay < 2 * (maximum \div 2))
      BY <3>1, <3>2 DEF ExactInv, Doubling
    <3>4. Wanted(n) = IF delay > maximum THEN maximum ELSE delay
      BY <2>1, <3>1, <3>3, LastIsWanted
    <3> QED
      BY <3>1, <3>2, <3>4, ReturnExact
  <2>5. ASSUME NEW s \in Source, Failure(s) PROVE ExactInv'
    BY <2>5, FailureExact
  <2>6. ASSUME NEW s \in Source, Ready(s) PROVE ExactInv'
    BY <2>6, ReadyExact
  <2>7. CASE UNCHANGED vars
    BY <2>7 DEF vars, ExactInv, Counted, Start, Doubling, DelayIsExponential
  <2> QED
    BY <2>2, <2>3, <2>4, <2>5, <2>6, <2>7 DEF Next
<1>3. ExactInv => DelayIsExponential
  BY DEF ExactInv
<1> QED
  BY <1>1, <1>2, <1>3, BackoffSafe, PTL DEF Spec, ExactInv
=============================================================================
