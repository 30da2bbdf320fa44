------------------------ MODULE WindowLimiter_proofs ------------------------
(***************************************************************************)
(* Proofs about WindowLimiter: a rule that only looks at windows ending    *)
(* now bounds every window there ever is.  What RateLimiter implements,    *)
(* RateLimiter_proofs inherits from here.                                  *)
(***************************************************************************)
EXTENDS WindowLimiter, TLAPS

(* The amounts are natural numbers: whatever NewRateLimiter is given, they    *)
(* are (LEMMA Amounts of RateLimiter_proofs).                                 *)
Amounts == Rate \in Nat /\ Unit \in Nat /\ Burst \in Nat /\ MaxTime \in Nat

(* A client's decisions are behind the clock and its admissions behind its    *)
(* last decision.                                                             *)
WInv == /\ clock \in Times
        /\ stage \in [Goroutines -> {"idle", "waiting", "pass", "limited"}]
        /\ ip \in [Goroutines -> Clients \cup {None}]
        /\ \A g \in Goroutines : stage[g] = "waiting" => ip[g] \in Clients
        /\ latest \in [Clients -> Times]
        /\ since \in [Clients -> [Times -> Nat]]
        /\ \A c \in Clients : \A s \in Times : s > latest[c] => since[c][s] = 0

(* A longer window allows at least as much.                                   *)
LEMMA LongerWindow ==
  ASSUME NEW r \in Nat, NEW s \in Nat, NEW t \in Nat, NEW u \in Nat, s <= t, t <= u
  PROVE  (t - s) * r \in Nat /\ (t - s) * r <= (u - s) * r
<1>1. PICK k \in Nat : u = t + k
  <2>1. u - t \in Nat /\ u = t + (u - t)
    OBVIOUS
  <2> QED
    BY <2>1
<1>2. (t + k - s) * r = (t - s) * r + k * r
  OBVIOUS
<1>3. t - s \in Nat
  OBVIOUS
<1>4. k * r \in Nat /\ (t - s) * r \in Nat
  BY <1>3
<1> QED
  BY <1>1, <1>2, <1>4

(* An admission at t counts in the windows it lies in, which all start in one *)
(* that ends at t.                                                            *)
LEMMA AdmitBounded ==
  ASSUME Amounts, WInv, WindowBound, NEW g \in Goroutines, ip[g] \in Clients,
         NEW t \in 0..clock, latest[ip[g]] <= t, Admit(g, t)
  PROVE  WindowBound'
<1> DEFINE c == ip[g]
<1>1. t \in Times /\ t \in Nat /\ clock \in Nat
  BY DEF Amounts, WInv, Times
<1>2. SUFFICES ASSUME NEW d \in Clients, NEW u \in Times, NEW s \in 0..u
               PROVE  (since'[d][s] - After(d, u)') * Unit <= Burst + (u - s) * Rate
  BY DEF WindowBound
<1>3. /\ s \in Times /\ s \in Nat /\ u \in Nat
      /\ u < MaxTime => u + 1 \in Times
  BY DEF Amounts, Times
<1>4. (since[d][s] - After(d, u)) * Unit <= Burst + (u - s) * Rate
  BY DEF WindowBound
<1>5. since' = [since EXCEPT ![c] =
                  [x \in Times |-> IF x <= t THEN since[c][x] + 1 ELSE since[c][x]]]
  BY DEF Admit
<1>6. CASE d # c
  <2>1. since'[d] = since[d] /\ After(d, u)' = After(d, u)
    BY <1>5, <1>6 DEF After, WInv
  <2> QED
    BY <1>4, <2>1
<1>7. CASE d = c
  <2>1. \A x \in Times : /\ since'[d][x] = IF x <= t THEN since[d][x] + 1 ELSE since[d][x]
                         /\ since[d][x] \in Nat
    BY <1>5, <1>7 DEF WInv
  <2>2. \A x \in Times : x > t => since[d][x] = 0
    BY <1>1, <1>7 DEF WInv, Amounts, Times
  <2>3. CASE u < t
    <3>1. u < MaxTime
      BY <1>1, <1>3, <2>3 DEF Amounts, Times
    <3>2. since'[d][s] = since[d][s] + 1 /\ since'[d][u + 1] = since[d][u + 1] + 1
      BY <1>1, <1>3, <2>1, <2>3, <3>1
    <3>3. since'[d][s] - After(d, u)' = since[d][s] - After(d, u)
      BY <1>3, <2>1, <3>1, <3>2 DEF After
    <3> QED
      BY <1>4, <3>3
  <2>4. CASE u >= t
    <3>1. After(d, u)' = 0
      BY <1>1, <1>3, <2>1, <2>2, <2>4 DEF After
    <3>2. CASE s <= t
      <4>1. (since[d][s] + 1) * Unit <= Burst + (t - s) * Rate
        BY <1>1, <1>3, <1>7, <3>2 DEF Admit, Fits
      <4>2. (t - s) * Rate \in Nat /\ (t - s) * Rate <= (u - s) * Rate
        BY <1>1, <1>3, <2>4, <3>2, LongerWindow DEF Amounts
      <4>3. since'[d][s] - After(d, u)' = since[d][s] + 1
        BY <1>3, <2>1, <3>1, <3>2
      <4>4. (u - s) * Rate \in Nat
        BY <1>3, LongerWindow DEF Amounts
      <4>5. (since[d][s] + 1) * Unit \in Nat
        BY <1>3, <2>1 DEF Amounts
      <4> QED
        BY <4>1, <4>2, <4>3, <4>4, <4>5 DEF Amounts
    <3>3. CASE s > t
      <4>1. since'[d][s] - After(d, u)' = 0
        BY <1>1, <1>3, <2>1, <2>2, <3>1, <3>3
      <4>2. (u - s) * Rate \in Nat
        BY <1>3, LongerWindow DEF Amounts
      <4> QED
        BY <4>1, <4>2 DEF Amounts
    <3> QED
      BY <1>1, <1>3, <3>2, <3>3
  <2> QED
    BY <1>1, <1>3, <2>3, <2>4
<1> QED
  BY <1>6, <1>7

LEMMA DecideInv ==
  ASSUME Amounts, WInv, WindowBound, NEW g \in Goroutines, NEW t \in 0..clock, Decide(g, t)
  PROVE  WInv' /\ WindowBound'
<1> DEFINE c == ip[g]
<1>1. c \in Clients /\ latest[c] <= t /\ t \in Times /\ UNCHANGED <<clock, ip, called>>
  BY DEF Decide, WInv, Amounts, Times
<1>2. latest' = [latest EXCEPT ![c] = t]
  BY DEF Decide
<1>3. \A x \in Times : x \in Nat
  BY DEF Amounts, Times
<1>4. t \in Nat
  BY <1>1, <1>3
<1>5. CASE Admit(g, t)
  <2>1. /\ stage' = [stage EXCEPT ![g] = "pass"]
        /\ since' = [since EXCEPT ![c] =
                       [x \in Times |-> IF x <= t THEN since[c][x] + 1 ELSE since[c][x]]]
    BY <1>5 DEF Admit
  <2>2. since' \in [Clients -> [Times -> Nat]]
    BY <1>1, <2>1 DEF WInv
  <2>3. ASSUME NEW d \in Clients, NEW s \in Times, s > latest'[d]
        PROVE  since'[d][s] = 0
    <3>1. CASE d = c
      <4>1. latest'[d] = t /\ latest[c] \in Nat /\ s \in Nat
        BY <1>1, <1>2, <1>3, <3>1 DEF WInv
      <4>2. ~(s <= t) /\ s > latest[c]
        BY <1>1, <1>4, <2>3, <4>1
      <4>3. since[c][s] = 0
        BY <1>1, <4>2 DEF WInv
      <4>4. since'[c] = [x \in Times |-> IF x <= t THEN since[c][x] + 1 ELSE since[c][x]]
        BY <1>1, <2>1 DEF WInv
      <4> QED
        BY <3>1, <4>2, <4>3, <4>4
    <3>2. CASE d # c
      BY <1>2, <2>1, <2>3, <3>2 DEF WInv
    <3> QED
      BY <3>1, <3>2
  <2>4. \A h \in Goroutines : stage'[h] = "waiting" => ip'[h] \in Clients
    BY <1>1, <2>1 DEF WInv
  <2>5. WInv'
    BY <1>1, <1>2, <2>1, <2>2, <2>3, <2>4 DEF WInv
  <2> QED
    BY <1>1, <1>5, <2>5, AdmitBounded
<1>6. CASE Refuse(g, t)
  <2>1. stage' = [stage EXCEPT ![g] = "limited"] /\ since' = since
    BY <1>6 DEF Refuse
  <2>2. ASSUME NEW d \in Clients, NEW s \in Times, s > latest'[d]
        PROVE  since'[d][s] = 0
    <3>1. latest'[d] \in Nat /\ latest[d] \in Nat /\ s \in Nat /\ latest[d] <= latest'[d]
      <4>1. CASE d = c
        BY <1>1, <1>2, <1>3, <4>1 DEF WInv
      <4>2. CASE d # c
        BY <1>2, <1>3, <4>2 DEF WInv
      <4> QED
        BY <4>1, <4>2
    <3>2. s > latest[d]
      BY <2>2, <3>1
    <3> QED
      BY <2>1, <3>2 DEF WInv
  <2>3. \A h \in Goroutines : stage'[h] = "waiting" => ip'[h] \in Clients
    BY <1>1, <2>1 DEF WInv
  <2>4. WInv'
    BY <1>1, <1>2, <2>1, <2>2, <2>3 DEF WInv
  <2>5. WindowBound'
    BY <2>1 DEF WindowBound, After
  <2> QED
    BY <2>4, <2>5
<1> QED
  BY <1>5, <1>6 DEF Decide

LEMMA InitBounded ==
  ASSUME Amounts, Init
  PROVE  WInv /\ WindowBound
<1>1. WInv
  BY DEF Amounts, Init, WInv, Times
<1>2. ASSUME NEW c \in Clients, NEW t \in Times, NEW s \in 0..t
      PROVE  (since[c][s] - After(c, t)) * Unit <= Burst + (t - s) * Rate
  <2>1. /\ s \in Times /\ s \in Nat /\ t \in Nat
        /\ t < MaxTime => t + 1 \in Times
    BY DEF Amounts, Times
  <2>2. since[c][s] - After(c, t) = 0
    BY <2>1 DEF Init, After
  <2>3. (t - s) * Rate \in Nat
    BY <2>1, LongerWindow DEF Amounts
  <2> QED
    BY <2>2, <2>3 DEF Amounts
<1> QED
  BY <1>1, <1>2 DEF WindowBound

LEMMA StepBounded ==
  ASSUME Amounts, WInv, WindowBound, [Next]_vars
  PROVE  WInv' /\ WindowBound'
<1>1. ASSUME UNCHANGED since PROVE WindowBound'
  BY <1>1 DEF WindowBound, After
<1>2. CASE Tick
  <2>1. clock' \in Times
    BY <1>2 DEF Tick, WInv, Amounts, Times
  <2>2. UNCHANGED <<stage, ip, called, latest, since>>
    BY <1>2 DEF Tick
  <2> QED
    BY <1>1, <2>1, <2>2 DEF WInv
<1>3. ASSUME NEW g \in Goroutines, Bypass(g) \/ Leave(g)
      PROVE  WInv' /\ WindowBound'
  <2>1. UNCHANGED <<clock, latest, since>>
    BY <1>3 DEF Bypass, Leave
  <2>2. /\ stage' \in [Goroutines -> {"idle", "waiting", "pass", "limited"}]
        /\ ip' \in [Goroutines -> Clients \cup {None}]
        /\ \A h \in Goroutines : stage'[h] = "waiting" => ip'[h] \in Clients
    BY <1>3 DEF Bypass, Leave, WInv
  <2>3. WInv'
    BY <2>1, <2>2 DEF WInv
  <2> QED
    BY <1>1, <2>1, <2>3
<1>4. ASSUME NEW g \in Goroutines, NEW c \in Clients, Arrive(g, c)
      PROVE  WInv' /\ WindowBound'
  <2>1. \A h \in Goroutines : stage'[h] = "waiting" => ip'[h] \in Clients
    BY <1>4 DEF Arrive, WInv
  <2> QED
    BY <1>1, <1>4, <2>1 DEF Arrive, WInv
<1>5. ASSUME NEW g \in Goroutines, NEW t \in 0..clock, Decide(g, t)
      PROVE  WInv' /\ WindowBound'
  BY <1>5, DecideInv
<1>6. CASE UNCHANGED vars
  BY <1>1, <1>6 DEF vars, WInv
<1> QED
  BY <1>2, <1>3, <1>4, <1>5, <1>6 DEF Next

(* Deciding every request by the window that ends at its instant is enough:   *)
(* no window at all, wherever it starts and ends, holds more than its         *)
(* allowance.                                                                 *)
THEOREM WindowIsBounded ==
  ASSUME Amounts
  PROVE  Spec => []WindowBound
<1>1. Init => WInv /\ WindowBound
  BY InitBounded
<1>2. WInv /\ WindowBound /\ [Next]_vars => (WInv /\ WindowBound)'
  BY StepBounded
<1> QED
  BY <1>1, <1>2, PTL DEF Spec
=============================================================================
