------------------------ MODULE RateLimiter_proofs -------------------------
(***************************************************************************)
(* Proofs about RateLimiter for every set of goroutines and clients, every *)
(* configured rate, every clock resolution and every length of run.        *)
(*                                                                         *)
(* The argument: the mutex makes the steps of Allow a unit (MutexGuards),  *)
(* so a bucket that was found is still the client's bucket when it is      *)
(* charged; and a bucket's tokens are exactly the tightest sliding window  *)
(* (BucketIsTightestWindow), which refilling and charging preserve.  The   *)
(* window bound, the abstract rule and the Retry-After promise all follow. *)
(***************************************************************************)
EXTENDS RateLimiter, TLAPS

-----------------------------------------------------------------------------
(* Arithmetic of the amounts.                                                *)

(* A product of naturals is a natural, and positive when both are.           *)
LEMMA ProductNat ==
  ASSUME NEW a \in Nat, NEW b \in Nat
  PROVE  a * b \in Nat /\ (a # 0 /\ b # 0 => a * b # 0)
  OBVIOUS

(* Splitting the time n - s at l splits the refill.                          *)
LEMMA SplitRefill ==
  ASSUME NEW n \in Int, NEW l \in Int, NEW s \in Int, NEW r \in Int
  PROVE  (n - s) * r = (n - l) * r + (l - s) * r
  OBVIOUS

(* One more admission costs one more Unit.                                   *)
LEMMA OneMore ==
  ASSUME NEW k \in Int, NEW u \in Int
  PROVE  (k + 1) * u = k * u + u
  OBVIOUS

(* What NewRateLimiter returns: a positive token, and room for at least one  *)
(* of them when the limiter is on.                                           *)
LEMMA Amounts ==
  /\ Limit \in Nat /\ Rate \in Nat /\ Burst \in Nat
  /\ Period \in Nat \ {0} /\ Unit \in Nat \ {0}
  /\ Enabled => Burst >= Unit
<1>1. Limit \in Nat
  BY ConfigAssumption DEF Limit
<1>2. Period \in Nat \ {0}
  BY TimeAssumption DEF Period
<1>3. Unit \in Nat \ {0}
  BY <1>2, TimeAssumption, ProductNat DEF Unit
<1>4. Burst \in Nat
  BY <1>1, <1>3, ProductNat DEF Burst
<1>5. ASSUME Limit > 0 PROVE Limit * Unit >= Unit
  <2>1. PICK k \in Nat : Limit = k + 1
    BY <1>1, <1>5
  <2>2. Limit * Unit = k * Unit + Unit
    BY <2>1, <1>3, OneMore
  <2>3. k * Unit \in Nat
    BY <1>3, ProductNat
  <2>4. QED  BY <2>2, <2>3, <1>3
<1>6. QED
  BY <1>1, <1>2, <1>3, <1>4, <1>5 DEF Rate, Burst, Enabled

(* Instants are naturals, and so are the starts of the windows they end.     *)
LEMMA Instants ==
  ASSUME NEW n \in Times
  PROVE  n \in Nat /\ n \in 0..n /\ \A s \in 0..n : s \in Times /\ s \in Nat /\ n - s \in Nat
  BY TimeAssumption DEF Times

-----------------------------------------------------------------------------
(* A bucket with these tokens and this time is what the tightest of the      *)
(* windows that end at its time leaves, S counting the admissions since.     *)
Exact(tokens, t, S) ==
  /\ \A s \in 0..t : tokens + S[s] * Unit <= Burst + (t - s) * Rate
  /\ \E s \in 0..t : tokens + S[s] * Unit = Burst + (t - s) * Rate

CountMore(S, t) == [s \in Times |-> IF s <= t THEN S[s] + 1 ELSE S[s]]

(* The new full bucket of a client that was never admitted is exact.         *)
LEMMA NewBucketExact ==
  ASSUME NEW S \in [Times -> Nat], NEW n \in Times,
         \A s \in Times : S[s] = 0
  PROVE  Exact(Burst, n, S)
<1>1. \A s \in 0..n : S[s] * Unit = 0
  BY Instants, Amounts
<1>2. \A s \in 0..n : (n - s) * Rate \in Nat
  BY Instants, Amounts, ProductNat
<1>3. (n - n) * Rate = 0
  BY Instants, Amounts
<1>4. \A s \in 0..n : Burst + S[s] * Unit <= Burst + (n - s) * Rate
  BY <1>1, <1>2, Amounts
<1>5. Burst + S[n] * Unit = Burst + (n - n) * Rate
  BY <1>1, <1>3, Instants, Amounts
<1>6. QED
  BY <1>4, <1>5, Instants DEF Exact

(* Refill keeps a bucket exact and within the burst: min(.., burst) is the   *)
(* window that starts now.                                                   *)
LEMMA RefillExact ==
  ASSUME NEW S \in [Times -> Nat], NEW b \in Bucket, NEW n \in Times,
         b.last <= n, Exact(b.tokens, b.last, S),
         \A s \in Times : s > b.last => S[s] = 0
  PROVE  Exact(Refill(b, n), n, S) /\ Refill(b, n) \in 0..Burst
<1> DEFINE l == b.last
           gain == (n - l) * Rate
<1>1. b.tokens \in 0..Burst /\ l \in 0..n /\ l \in Times /\ n \in Nat
  BY TimeAssumption DEF Bucket, Times
<1>2. gain \in Nat
  BY <1>1, Amounts, ProductNat
<1>3. Refill(b, n) = (IF b.tokens + gain < Burst THEN b.tokens + gain ELSE Burst)
  BY DEF Refill
<1>4. Refill(b, n) \in 0..Burst /\ Refill(b, n) <= b.tokens + gain
  BY <1>1, <1>2, <1>3, Amounts
<1>5. \A s \in 0..l : (n - s) * Rate = gain + (l - s) * Rate
  BY <1>1, Amounts, SplitRefill
<1>6. \A s \in 0..n : s \in Times /\ S[s] \in Nat
  BY Instants
<1>7. \A s \in 0..n : S[s] * Unit \in Nat /\ (n - s) * Rate \in Nat
  BY <1>1, <1>6, Amounts, ProductNat
<1>8. \A s \in 0..l : (l - s) * Rate \in Nat
  BY <1>1, Amounts, ProductNat
<1>9. ASSUME NEW s \in 0..n
      PROVE  Refill(b, n) + S[s] * Unit <= Burst + (n - s) * Rate
  <2>1. CASE s \in 0..l
    <3>1. b.tokens + S[s] * Unit <= Burst + (l - s) * Rate
      BY <2>1 DEF Exact
    <3>2. QED  BY <3>1, <2>1, <1>1, <1>2, <1>4, <1>5, <1>7, <1>8, Amounts
  <2>2. CASE s > l
    <3>1. S[s] * Unit = 0
      BY <2>2, <1>6, Amounts
    <3>2. QED  BY <3>1, <1>4, <1>7, Amounts
  <2>3. QED  BY <2>1, <2>2, <1>1
<1>10. \E s \in 0..n : Refill(b, n) + S[s] * Unit = Burst + (n - s) * Rate
  <2>1. CASE b.tokens + gain <= Burst
    <3>1. Refill(b, n) = b.tokens + gain
      BY <2>1, <1>1, <1>2, <1>3, Amounts
    <3>2. PICK s \in 0..l : b.tokens + S[s] * Unit = Burst + (l - s) * Rate
      BY DEF Exact
    <3>3. s \in 0..n
      BY <1>1
    <3>4. Refill(b, n) + S[s] * Unit = Burst + (n - s) * Rate
      BY <3>1, <3>2, <3>3, <1>1, <1>2, <1>5, <1>7, <1>8, Amounts
    <3>5. QED  BY <3>3, <3>4
  <2>2. CASE b.tokens + gain > Burst
    <3>1. Refill(b, n) = Burst
      BY <2>2, <1>1, <1>2, <1>3, Amounts
    <3>2. n > l
      <4>1. SUFFICES ASSUME n = l PROVE FALSE
        BY <1>1
      <4>2. gain = 0
        BY <4>1, <1>1, Amounts
      <4>3. QED  BY <4>2, <2>2, <1>1, Amounts
    <3>3. S[n] * Unit = 0 /\ (n - n) * Rate = 0
      BY <3>2, <1>1, Amounts
    <3>4. n \in 0..n
      BY <1>1
    <3>5. QED  BY <3>1, <3>3, <3>4, Amounts
  <2>3. QED  BY <2>1, <2>2, <1>1, <1>2, Amounts
<1>11. QED  BY <1>4, <1>9, <1>10 DEF Exact

(* Taking a token for an admission keeps a bucket exact.                     *)
LEMMA TakeExact ==
  ASSUME NEW S \in [Times -> Nat], NEW n \in Times, NEW tokens \in 0..Burst,
         Exact(tokens, n, S)
  PROVE  Exact(tokens - Unit, n, CountMore(S, n))
<1>1. \A s \in 0..n : s \in Times /\ S[s] \in Nat
  BY Instants
<1>2. \A s \in 0..n : CountMore(S, n)[s] = S[s] + 1
  BY <1>1 DEF CountMore
<1>3. \A s \in 0..n : CountMore(S, n)[s] * Unit = S[s] * Unit + Unit
  BY <1>1, <1>2, OneMore, Amounts
<1>4. \A s \in 0..n : S[s] * Unit \in Nat /\ (n - s) * Rate \in Nat
  BY <1>1, Instants, Amounts, ProductNat
<1>5. QED  BY <1>3, <1>4, Amounts DEF Exact

(* With an exact bucket, "tokens >= 1" is the sliding-window rule.           *)
LEMMA EnoughIsFits ==
  ASSUME NEW S \in [Times -> Nat], NEW n \in Times, NEW tokens \in 0..Burst,
         Exact(tokens, n, S)
  PROVE  Enough(tokens) <=> \A s \in 0..n : (S[s] + 1) * Unit <= Burst + (n - s) * Rate
<1>1. \A s \in 0..n : s \in Times /\ S[s] \in Nat
  BY Instants
<1>2. \A s \in 0..n : (S[s] + 1) * Unit = S[s] * Unit + Unit
  BY <1>1, OneMore, Amounts
<1>3. \A s \in 0..n : S[s] * Unit \in Nat /\ (n - s) * Rate \in Nat
  BY <1>1, Instants, Amounts, ProductNat
<1>4. QED  BY <1>2, <1>3, Amounts DEF Exact, Enough

-----------------------------------------------------------------------------
(* The inductive invariant.                                                  *)

(* What a goroutine's locals mean where it stands.  The third line is what   *)
(* the mutex buys: "ok" and "now" are still true when they are used.         *)
LocalsInv ==
  \A g \in Goroutines :
    /\ pc[g] \in {"lock", "lookup", "charge"} => ip[g] \in Clients /\ Enabled
    /\ pc[g] \in {"lock", "lookup"} => called[g] <= clock
    /\ pc[g] = "charge" => /\ called[g] <= now[g]
                           /\ now[g] <= clock
                           /\ ok[g] = (ip[g] \in DOMAIN clients)
                           /\ ok[g] => clients[ip[g]].last <= now[g]

(* No bucket is ahead of the clock, and no admission is ahead of its bucket. *)
HistoryInv ==
  /\ \A c \in DOMAIN clients : clients[c].last <= clock
  /\ \A c \in Clients : \A s \in Times :
        (c \in DOMAIN clients => s > clients[c].last) => since[c][s] = 0

(* Since a refused client's first refusal the bucket has only filled up, and *)
(* it still holds less than a token.                                         *)
RefusedInv ==
  \A c \in Clients : refused[c] # None =>
    /\ c \in DOMAIN clients
    /\ refused[c] <= clients[c].last
    /\ clients[c].tokens < Unit
    /\ (clients[c].last - refused[c]) * Rate <= clients[c].tokens

BucketsExact ==
  \A c \in DOMAIN clients : Exact(clients[c].tokens, clients[c].last, since[c])

IInv == /\ TypeOK
        /\ MutexGuards
        /\ LocalsInv
        /\ HistoryInv
        /\ BucketsExact
        /\ RefusedInv
        /\ DisabledAdmitsAll

-----------------------------------------------------------------------------
(* What Charge works with: the bucket it goes on with is exact for the       *)
(* client's admissions, and so is its refill at the goroutine's "now".       *)
LEMMA ChargeFacts ==
  ASSUME IInv, NEW g \in Goroutines, pc[g] = "charge"
  PROVE  /\ mu = g /\ Enabled
         /\ ip[g] \in Clients
         /\ now[g] \in Times /\ now[g] <= clock
         /\ ip[g] \in DOMAIN clients => Found(g) = clients[ip[g]]
         /\ Found(g) \in Bucket /\ Found(g).last <= now[g]
         /\ \A s \in Times : s > now[g] => since[ip[g]][s] = 0
         /\ Refill(Found(g), now[g]) \in 0..Burst
         /\ Exact(Refill(Found(g), now[g]), now[g], since[ip[g]])
<1> DEFINE c == ip[g]
           n == now[g]
           b == Found(g)
<1>1. /\ mu = g /\ Enabled /\ c \in Clients /\ n \in Times /\ n <= clock
      /\ clock \in Times
      /\ ok[g] = (c \in DOMAIN clients)
      /\ ok[g] => clients[c].last <= n
      /\ since[c] \in [Times -> Nat]
  BY DEF IInv, TypeOK, MutexGuards, LocalsInv
<1>2. CASE c \in DOMAIN clients
  <2>1. b = clients[c] /\ b \in Bucket /\ b.last <= n
    BY <1>1, <1>2 DEF Found, IInv, TypeOK
  <2>2. Exact(b.tokens, b.last, since[c])
    BY <1>2, <2>1 DEF IInv, BucketsExact
  <2>3. \A s \in Times : s > b.last => since[c][s] = 0
    BY <1>1, <1>2, <2>1 DEF IInv, HistoryInv
  <2>4. \A s \in Times : s > n => since[c][s] = 0
    BY <2>1, <2>3, <1>1, TimeAssumption DEF Times, Bucket
  <2>5. Exact(Refill(b, n), n, since[c]) /\ Refill(b, n) \in 0..Burst
    BY <1>1, <2>1, <2>2, <2>3, RefillExact
  <2>6. QED  BY <1>1, <2>1, <2>4, <2>5
<1>3. CASE c \notin DOMAIN clients
  <2>1. b = [tokens |-> Burst, last |-> n]
    BY <1>1, <1>3 DEF Found
  <2>2. b \in Bucket /\ b.last = n /\ b.tokens = Burst
    BY <2>1, <1>1, Amounts DEF Bucket
  <2>3. \A s \in Times : since[c][s] = 0
    BY <1>1, <1>3 DEF IInv, HistoryInv
  <2>4. Exact(Burst, n, since[c])
    BY <1>1, <2>3, NewBucketExact
  <2>5. n <= n
    BY <1>1, Instants
  <2>6. Exact(Refill(b, n), n, since[c]) /\ Refill(b, n) \in 0..Burst
    BY <1>1, <2>2, <2>3, <2>4, <2>5, RefillExact
  <2>7. QED  BY <1>1, <1>3, <2>2, <2>3, <2>5, <2>6
<1>4. QED  BY <1>2, <1>3

(* The bucket table after a charge, with tokens for the goroutine's client.  *)
LEMMA StoreFacts ==
  ASSUME IInv, NEW g \in Goroutines, ip[g] \in Clients, NEW tokens, Store(g, tokens)
  PROVE  /\ DOMAIN clients' = DOMAIN clients \cup {ip[g]}
         /\ clients'[ip[g]] = [tokens |-> tokens, last |-> now[g]]
         /\ \A c \in DOMAIN clients : c # ip[g] => clients'[c] = clients[c]
         /\ now[g] \in Times /\ tokens \in 0..Burst =>
               /\ DOMAIN clients' \subseteq Clients
               /\ clients' \in [DOMAIN clients' -> Bucket]
<1>1. clients' = [c \in DOMAIN clients \cup {ip[g]} |->
                    IF c = ip[g] THEN [tokens |-> tokens, last |-> now[g]] ELSE clients[c]]
  BY DEF Store, Stamp
<1>2. ASSUME now[g] \in Times, tokens \in 0..Burst
      PROVE  [tokens |-> tokens, last |-> now[g]] \in Bucket
  BY <1>2 DEF Bucket
<1>3. DOMAIN clients \subseteq Clients /\ \A c \in DOMAIN clients : clients[c] \in Bucket
  BY DEF IInv, TypeOK
<1>4. QED  BY <1>1, <1>2, <1>3

LEMMA InitInv == Init => IInv
<1> SUFFICES ASSUME Init PROVE IInv
  OBVIOUS
<1> USE DEF Init
<1>1. TypeOK
  BY TimeAssumption DEF TypeOK, Times
<1>2. MutexGuards
  BY NoneAssumption DEF MutexGuards
<1>3. LocalsInv
  BY DEF LocalsInv
<1>4. HistoryInv /\ BucketsExact /\ RefusedInv
  BY DEF HistoryInv, BucketsExact, RefusedInv
<1>5. DisabledAdmitsAll
  BY DEF DisabledAdmitsAll
<1>6. QED  BY <1>1, <1>2, <1>3, <1>4, <1>5 DEF IInv

-----------------------------------------------------------------------------
(* An admission preserves the invariant.                                     *)
LEMMA AdmitInv ==
  ASSUME IInv, NEW g \in Goroutines, Charge(g), Admit(g)
  PROVE  IInv'
<1> DEFINE c == ip[g]
           n == now[g]
           t == Refill(Found(g), n)
<1>1. pc[g] = "charge"
  BY DEF Charge
<1>2. /\ mu = g /\ Enabled /\ c \in Clients /\ n \in Times /\ n <= clock
      /\ c \in DOMAIN clients => Found(g) = clients[c]
      /\ Found(g) \in Bucket /\ Found(g).last <= n
      /\ \A s \in Times : s > n => since[c][s] = 0
      /\ t \in 0..Burst
      /\ Exact(t, n, since[c])
  BY <1>1, ChargeFacts
<1>3. t >= Unit /\ t - Unit \in 0..Burst
  BY <1>2, Amounts DEF Admit, Enough
<1>4. Store(g, t - Unit)
  BY DEF Admit
<1>5. /\ DOMAIN clients' = DOMAIN clients \cup {c}
      /\ clients'[c] = [tokens |-> t - Unit, last |-> n]
      /\ \A d \in DOMAIN clients : d # c => clients'[d] = clients[d]
      /\ DOMAIN clients' \subseteq Clients
      /\ clients' \in [DOMAIN clients' -> Bucket]
  BY <1>2, <1>3, <1>4, StoreFacts
<1>6. /\ mu' = None /\ clock' = clock /\ UNCHANGED locals
      /\ pc' = [pc EXCEPT ![g] = "pass"]
      /\ since' = [since EXCEPT ![c] = CountMore(since[c], n)]
      /\ refused' = [refused EXCEPT ![c] = None]
  BY DEF Charge, Admit, Unlocked, CountMore
<1>7. since[c] \in [Times -> Nat] /\ CountMore(since[c], n) \in [Times -> Nat]
  BY <1>2 DEF IInv, TypeOK, CountMore
<1>8. TypeOK'
  BY <1>5, <1>6, <1>7 DEF IInv, TypeOK, locals
<1>9. MutexGuards'
  BY <1>1, <1>2, <1>6, NoneAssumption DEF IInv, TypeOK, MutexGuards
<1>10. LocalsInv'
  BY <1>2, <1>6, <1>9 DEF IInv, TypeOK, LocalsInv, MutexGuards, locals
<1>11. HistoryInv'
  <2>1. \A d \in DOMAIN clients' : clients'[d].last <= clock'
    BY <1>2, <1>5, <1>6 DEF IInv, HistoryInv
  <2>2. ASSUME NEW d \in Clients, NEW s \in Times,
               d \in DOMAIN clients' => s > clients'[d].last
        PROVE  since'[d][s] = 0
    <3>1. CASE d = c
      <4>1. s > n
        BY <2>2, <3>1, <1>5
      <4>2. since'[c][s] = since[c][s]
        BY <4>1, <1>2, <1>6, TimeAssumption DEF CountMore, IInv, TypeOK, Times
      <4>3. QED  BY <4>1, <4>2, <3>1, <1>2
    <3>2. CASE d # c
      BY <2>2, <3>2, <1>5, <1>6 DEF IInv, TypeOK, HistoryInv
    <3>3. QED  BY <3>1, <3>2
  <2>3. QED  BY <2>1, <2>2 DEF HistoryInv
<1>12. BucketsExact'
  <2>1. Exact(t - Unit, n, CountMore(since[c], n))
    BY <1>2, <1>7, TakeExact
  <2>2. since'[c] = CountMore(since[c], n) /\ \A d \in Clients \ {c} : since'[d] = since[d]
    BY <1>2, <1>6 DEF IInv, TypeOK
  <2>3. SUFFICES ASSUME NEW d \in DOMAIN clients'
                 PROVE  Exact(clients'[d].tokens, clients'[d].last, since'[d])
    BY DEF BucketsExact, Exact
  <2>4. CASE d = c
    BY <2>1, <2>2, <2>4, <1>5
  <2>5. CASE d # c
    <3>1. d \in DOMAIN clients /\ d \in Clients
      BY <2>3, <2>5, <1>5
    <3>2. Exact(clients[d].tokens, clients[d].last, since[d])
      BY <3>1 DEF IInv, BucketsExact
    <3>3. QED  BY <3>1, <3>2, <2>2, <2>5, <1>5
  <2>6. QED  BY <2>4, <2>5
<1>13. RefusedInv'
  BY <1>2, <1>5, <1>6 DEF IInv, TypeOK, RefusedInv
<1>14. DisabledAdmitsAll'
  BY <1>2 DEF DisabledAdmitsAll, Enabled
<1>15. QED  BY <1>8, <1>9, <1>10, <1>11, <1>12, <1>13, <1>14 DEF IInv

(* A refusal preserves the invariant.                                        *)
LEMMA RefuseInv ==
  ASSUME IInv, NEW g \in Goroutines, Charge(g), Refuse(g)
  PROVE  IInv'
<1> DEFINE c == ip[g]
           n == now[g]
           t == Refill(Found(g), n)
<1>1. pc[g] = "charge"
  BY DEF Charge
<1>2. /\ mu = g /\ Enabled /\ c \in Clients /\ n \in Times /\ n <= clock
      /\ c \in DOMAIN clients => Found(g) = clients[c]
      /\ Found(g) \in Bucket /\ Found(g).last <= n
      /\ \A s \in Times : s > n => since[c][s] = 0
      /\ t \in 0..Burst
      /\ Exact(t, n, since[c])
  BY <1>1, ChargeFacts
<1>3. t < Unit
  BY <1>2, Amounts DEF Refuse, Enough
<1>4. Store(g, t)
  BY DEF Refuse, KeptOnRefusal
<1>5. /\ DOMAIN clients' = DOMAIN clients \cup {c}
      /\ clients'[c] = [tokens |-> t, last |-> n]
      /\ \A d \in DOMAIN clients : d # c => clients'[d] = clients[d]
      /\ DOMAIN clients' \subseteq Clients
      /\ clients' \in [DOMAIN clients' -> Bucket]
  BY <1>2, <1>4, StoreFacts
<1>6. /\ mu' = None /\ clock' = clock /\ UNCHANGED locals
      /\ pc' = [pc EXCEPT ![g] = "limited"]
      /\ since' = since
      /\ refused' = IF refused[c] = None THEN [refused EXCEPT ![c] = n] ELSE refused
  BY DEF Charge, Refuse, Unlocked
<1>7. TypeOK'
  BY <1>2, <1>5, <1>6 DEF IInv, TypeOK, locals
<1>8. MutexGuards'
  BY <1>1, <1>2, <1>6, NoneAssumption DEF IInv, TypeOK, MutexGuards
<1>9. LocalsInv'
  BY <1>2, <1>6, <1>8 DEF IInv, TypeOK, LocalsInv, MutexGuards, locals
<1>10. HistoryInv'
  <2>1. \A d \in DOMAIN clients' : clients'[d].last <= clock'
    BY <1>2, <1>5, <1>6 DEF IInv, HistoryInv
  <2>2. \A d \in Clients : \A s \in Times :
          (d \in DOMAIN clients' => s > clients'[d].last) => since'[d][s] = 0
    BY <1>2, <1>5, <1>6 DEF IInv, HistoryInv
  <2>3. QED  BY <2>1, <2>2 DEF HistoryInv
<1>11. BucketsExact'
  <2>1. SUFFICES ASSUME NEW d \in DOMAIN clients'
                 PROVE  Exact(clients'[d].tokens, clients'[d].last, since[d])
    BY <1>6 DEF BucketsExact, Exact
  <2>2. CASE d = c
    BY <2>2, <1>2, <1>5
  <2>3. CASE d # c
    BY <2>1, <2>3, <1>5 DEF IInv, BucketsExact
  <2>4. QED  BY <2>2, <2>3
<1>12. RefusedInv'
  <2>1. SUFFICES ASSUME NEW d \in Clients, refused'[d] # None
                 PROVE  /\ d \in DOMAIN clients'
                        /\ refused'[d] <= clients'[d].last
                        /\ clients'[d].tokens < Unit
                        /\ (clients'[d].last - refused'[d]) * Rate <= clients'[d].tokens
    BY DEF RefusedInv
  <2>2. CASE d # c
    <3>1. refused'[d] = refused[d]
      BY <2>2, <1>6 DEF IInv, TypeOK
    <3>2. QED  BY <3>1, <2>1, <2>2, <1>5 DEF IInv, RefusedInv
  <2>3. CASE d = c /\ refused[c] = None
    <3>1. refused'[c] = n
      BY <2>3, <1>2, <1>6 DEF IInv, TypeOK
    <3>2. (n - n) * Rate = 0
      BY <1>2, Instants, Amounts
    <3>3. QED  BY <3>1, <3>2, <2>3, <1>2, <1>3, <1>5, Instants
  <2>4. CASE d = c /\ refused[c] # None
    <3> DEFINE r == refused[c]
               b == clients[c]
    <3>1. /\ r \in Times /\ refused'[c] = r /\ c \in DOMAIN clients
          /\ r <= b.last /\ b.tokens < Unit /\ (b.last - r) * Rate <= b.tokens
          /\ b = Found(g)
      BY <2>4, <1>2, <1>6 DEF IInv, TypeOK, RefusedInv
    <3>2. b.last \in Nat /\ b.tokens \in Nat /\ r \in Nat /\ n \in Nat
      BY <3>1, <1>2, Instants, Amounts DEF Bucket
    <3>3. (n - b.last) * Rate \in Nat
      BY <3>2, <3>1, <1>2, Amounts, ProductNat
    <3>4. t = b.tokens + (n - b.last) * Rate
      <4>1. t = (IF b.tokens + (n - b.last) * Rate < Burst
                 THEN b.tokens + (n - b.last) * Rate ELSE Burst)
        BY <3>1 DEF Refill
      <4>2. t # Burst
        BY <1>2, <1>3, Amounts
      <4>3. QED  BY <4>1, <4>2
    <3>5. (n - r) * Rate = (n - b.last) * Rate + (b.last - r) * Rate
      <4>1. \A x, y, z \in Nat : (x - z) * Rate = (x - y) * Rate + (y - z) * Rate
        BY Amounts, SplitRefill
      <4>2. QED  BY <4>1, <3>2
    <3>6. (b.last - r) * Rate \in Nat
      BY <3>1, <3>2, Amounts, ProductNat
    <3>7. (n - r) * Rate <= t
      BY <3>1, <3>2, <3>3, <3>4, <3>5, <3>6
    <3>8. QED  BY <3>1, <3>2, <3>7, <2>4, <1>2, <1>3, <1>5
  <2>5. QED  BY <2>2, <2>3, <2>4
<1>13. DisabledAdmitsAll'
  BY <1>2 DEF DisabledAdmitsAll, Enabled
<1>14. QED  BY <1>7, <1>8, <1>9, <1>10, <1>11, <1>12, <1>13 DEF IInv

-----------------------------------------------------------------------------
(* Every step preserves the invariant.                                       *)
LEMMA StepInv == IInv /\ [Next]_vars => IInv'
<1> SUFFICES ASSUME IInv, [Next]_vars PROVE IInv'
  OBVIOUS
<1> USE DEF locals, history
<1>1. CASE Tick
  <2>1. clock <= clock' /\ clock' \in Times
    BY <1>1, TimeAssumption DEF Tick, IInv, TypeOK, Times
  <2>2. \A t \in Times : t <= clock => t <= clock'
    BY <1>1, <2>1, TimeAssumption DEF Tick, IInv, TypeOK, Times
  <2>3. TypeOK' /\ MutexGuards' /\ RefusedInv'
    BY <1>1, <2>1 DEF Tick, IInv, TypeOK, MutexGuards, RefusedInv
  <2>4. LocalsInv'
    BY <1>1, <2>2 DEF Tick, IInv, TypeOK, LocalsInv
  <2>5. HistoryInv'
    BY <1>1, <2>2 DEF Tick, IInv, TypeOK, HistoryInv, Bucket
  <2>6. BucketsExact' /\ DisabledAdmitsAll'
    BY <1>1 DEF Tick, IInv, BucketsExact, Exact, DisabledAdmitsAll
  <2>7. QED  BY <2>3, <2>4, <2>5, <2>6 DEF IInv
<1>2. ASSUME NEW g \in Goroutines, Bypass(g) PROVE IInv'
  <2>1. TypeOK' /\ MutexGuards' /\ LocalsInv'
    BY <1>2, NoneAssumption DEF Bypass, IInv, TypeOK, MutexGuards, LocalsInv
  <2>2. HistoryInv' /\ BucketsExact' /\ RefusedInv'
    BY <1>2 DEF Bypass, IInv, HistoryInv, BucketsExact, Exact, RefusedInv
  <2>3. DisabledAdmitsAll'
    BY <1>2 DEF Bypass, IInv, TypeOK, DisabledAdmitsAll, Enabled
  <2>4. QED  BY <2>1, <2>2, <2>3 DEF IInv
<1>3. ASSUME NEW g \in Goroutines, NEW c \in Clients, Call(g, c) PROVE IInv'
  <2>1. TypeOK' /\ MutexGuards'
    BY <1>3, NoneAssumption DEF Call, IInv, TypeOK, MutexGuards
  <2>2. LocalsInv'
    BY <1>3, Instants DEF Call, MustAsk, IInv, TypeOK, LocalsInv
  <2>3. HistoryInv' /\ BucketsExact' /\ RefusedInv'
    BY <1>3 DEF Call, IInv, HistoryInv, BucketsExact, Exact, RefusedInv
  <2>4. DisabledAdmitsAll'
    BY <1>3 DEF Call, MustAsk, IInv, TypeOK, DisabledAdmitsAll, Enabled
  <2>5. QED  BY <2>1, <2>2, <2>3, <2>4 DEF IInv
<1>4. ASSUME NEW g \in Goroutines, Lock(g) PROVE IInv'
  <2>1. TypeOK' /\ LocalsInv'
    BY <1>4 DEF Lock, IInv, TypeOK, LocalsInv
  <2>2. MutexGuards'
    BY <1>4, NoneAssumption DEF Lock, LockFree, IInv, TypeOK, MutexGuards
  <2>3. HistoryInv' /\ BucketsExact' /\ RefusedInv'
    BY <1>4 DEF Lock, IInv, HistoryInv, BucketsExact, Exact, RefusedInv
  <2>4. DisabledAdmitsAll'
    BY <1>4 DEF Lock, IInv, TypeOK, DisabledAdmitsAll, Enabled
  <2>5. QED  BY <2>1, <2>2, <2>3, <2>4 DEF IInv
<1>5. ASSUME NEW g \in Goroutines, Lookup(g) PROVE IInv'
  <2>1. TypeOK' /\ MutexGuards'
    BY <1>5 DEF Lookup, IInv, TypeOK, MutexGuards
  <2>2. LocalsInv'
    <3>1. /\ pc' = [pc EXCEPT ![g] = "charge"] /\ now' = [now EXCEPT ![g] = clock]
          /\ ok' = [ok EXCEPT ![g] = ip[g] \in DOMAIN clients]
          /\ UNCHANGED <<clock, clients, ip, called>>
      BY <1>5 DEF Lookup
    <3>2. /\ ip[g] \in Clients /\ Enabled /\ called[g] <= clock /\ clock <= clock
          /\ ip[g] \in DOMAIN clients => clients[ip[g]].last <= clock
      BY <1>5, Instants DEF Lookup, IInv, TypeOK, LocalsInv, HistoryInv
    <3>3. ok'[g] = (ip[g] \in DOMAIN clients) /\ now'[g] = clock /\ pc'[g] = "charge"
      BY <3>1 DEF IInv, TypeOK
    <3>4. \A h \in Goroutines \ {g} : ok'[h] = ok[h] /\ now'[h] = now[h] /\ pc'[h] = pc[h]
      BY <3>1 DEF IInv, TypeOK
    <3>5. QED  BY <3>1, <3>2, <3>3, <3>4 DEF IInv, LocalsInv
  <2>3. HistoryInv' /\ BucketsExact' /\ RefusedInv'
    BY <1>5 DEF Lookup, IInv, HistoryInv, BucketsExact, Exact, RefusedInv
  <2>4. DisabledAdmitsAll'
    BY <1>5 DEF Lookup, IInv, TypeOK, DisabledAdmitsAll, Enabled
  <2>5. QED  BY <2>1, <2>2, <2>3, <2>4 DEF IInv
<1>6. ASSUME NEW g \in Goroutines, Charge(g) PROVE IInv'
  BY <1>6, AdmitInv, RefuseInv DEF Charge
<1>7. ASSUME NEW g \in Goroutines, Return(g) PROVE IInv'
  <2>1. TypeOK' /\ MutexGuards' /\ LocalsInv'
    BY <1>7, NoneAssumption, TimeAssumption
    DEF Return, IInv, TypeOK, MutexGuards, LocalsInv, Times
  <2>2. HistoryInv' /\ BucketsExact' /\ RefusedInv'
    BY <1>7 DEF Return, IInv, HistoryInv, BucketsExact, Exact, RefusedInv
  <2>3. DisabledAdmitsAll'
    BY <1>7 DEF Return, IInv, TypeOK, DisabledAdmitsAll, Enabled
  <2>4. QED  BY <2>1, <2>2, <2>3 DEF IInv
<1>8. CASE UNCHANGED vars
  BY <1>8 DEF vars, IInv, TypeOK, MutexGuards, LocalsInv, HistoryInv,
              BucketsExact, Exact, RefusedInv, DisabledAdmitsAll
<1>9. QED  BY <1>1, <1>2, <1>3, <1>4, <1>5, <1>6, <1>7, <1>8 DEF Next, Step

LEMMA Invariance == Spec => []IInv
  BY InitInv, StepInv, PTL DEF Spec

-----------------------------------------------------------------------------
(* The state of the limiter keeps its shape: token amounts stay within the   *)
(* burst, locals and instants within their types.                            *)
THEOREM TypeCorrect == Spec => []TypeOK
<1>1. IInv => TypeOK
  BY DEF IInv
<1>2. QED  BY <1>1, Invariance, PTL

(* No path through Allow returns with the mutex locked, and no two           *)
(* goroutines ever work on the buckets at once.                              *)
THEOREM MutualExclusion == Spec => []MutexGuards
<1>1. IInv => MutexGuards
  BY DEF IInv
<1>2. QED  BY <1>1, Invariance, PTL

(* A bucket always holds exactly what the tightest sliding window leaves.    *)
THEOREM TightestWindow == Spec => []BucketIsTightestWindow
<1>1. IInv => BucketIsTightestWindow
  BY DEF IInv, BucketsExact, Exact, BucketIsTightestWindow
<1>2. QED  BY <1>1, Invariance, PTL

(* Since its first refusal a client has waited less than a token takes, at    *)
(* any rate: the time a 429 would have to name to be right.                   *)
THEOREM RefusalIsShort == Spec => []RefusalPasses
<1>1. ASSUME IInv PROVE RefusalPasses
  <2>1. SUFFICES ASSUME NEW c \in DOMAIN clients, refused[c] # None
                 PROVE  (clients[c].last - refused[c]) * Rate < Unit
    BY DEF RefusalPasses
  <2> DEFINE b == clients[c]
  <2>2. c \in Clients /\ b \in Bucket /\ refused[c] \in Times
    BY <1>1, <2>1 DEF IInv, TypeOK
  <2>3. b.tokens < Unit /\ (b.last - refused[c]) * Rate <= b.tokens /\ refused[c] <= b.last
    BY <1>1, <2>1, <2>2 DEF IInv, RefusedInv
  <2>4. b.tokens \in Nat /\ b.last - refused[c] \in Nat
    BY <2>2, <2>3, Instants, Amounts DEF Bucket
  <2>5. (b.last - refused[c]) * Rate \in Nat
    BY <2>4, Amounts, ProductNat
  <2>6. QED  BY <2>3, <2>4, <2>5, Amounts
<1>2. QED  BY <1>1, Invariance, PTL

(* With a rate of at least a token per second - always with RATE_LIMIT_RPS,  *)
(* from 60 up with RATE_LIMIT_RPM - the second the 429 asks for is enough.   *)
(* Below that rate it is not: run ratelimit_retry_after.                     *)
THEOREM RetryAfterEnough ==
  ASSUME Enabled => Limit >= Period
  PROVE  Spec => []RetryAfterHonoured
<1>1. ASSUME IInv PROVE RetryAfterHonoured
  <2>1. SUFFICES ASSUME NEW c \in DOMAIN clients, refused[c] # None
                 PROVE  clients[c].last - refused[c] < TicksPerSecond
    BY DEF RetryAfterHonoured
  <2> DEFINE b == clients[c]
             d == b.last - refused[c]
  <2>2. c \in Clients /\ b \in Bucket /\ refused[c] \in Times
    BY <1>1, <2>1 DEF IInv, TypeOK
  <2>3. b.tokens < Unit /\ d * Rate <= b.tokens /\ refused[c] <= b.last
    BY <1>1, <2>1, <2>2 DEF IInv, RefusedInv
  <2>4. d \in Nat /\ b.tokens \in Nat
    BY <2>2, <2>3, Instants, Amounts DEF Bucket
  <2>5. Rate >= Period
    BY <1>1, <2>1 DEF IInv, DisabledAdmitsAll, Rate
  <2>6. d * Rate >= d * Period
    <3>1. PICK k \in Nat : Rate = Period + k
      <4>1. Rate - Period \in Nat /\ Rate = Period + (Rate - Period)
        BY <2>5, Amounts
      <4>2. QED  BY <4>1
    <3>2. d * Rate = d * Period + d * k
      BY <3>1, <2>4, Amounts
    <3>3. QED  BY <3>2, <2>4, Amounts, ProductNat
  <2>7. SUFFICES ASSUME d >= TicksPerSecond PROVE FALSE
    BY <2>4, TimeAssumption
  <2>8. PICK k \in Nat : d = TicksPerSecond + k
    <3>1. d - TicksPerSecond \in Nat /\ d = TicksPerSecond + (d - TicksPerSecond)
      BY <2>4, <2>7, TimeAssumption
    <3>2. QED  BY <3>1
  <2>9. d * Period = Unit + k * Period /\ k * Period \in Nat
    <3>1. (TicksPerSecond + k) * Period = TicksPerSecond * Period + k * Period
      BY <2>8, Amounts, TimeAssumption
    <3>2. TicksPerSecond * Period = Unit
      BY Amounts, TimeAssumption DEF Unit
    <3>3. QED  BY <3>1, <3>2, <2>8, Amounts, ProductNat
  <2>10. d * Rate \in Nat /\ d * Period \in Nat
    BY <2>4, Amounts, ProductNat
  <2>11. QED  BY <2>3, <2>4, <2>6, <2>9, <2>10, Amounts
<1>2. QED  BY <1>1, Invariance, PTL

(* Nobody is limited, nothing is locked and the nil map is left alone when   *)
(* both rates are zero or negative.                                          *)
THEOREM DisabledIsOpen == Spec => []DisabledAdmitsAll
<1>1. IInv => DisabledAdmitsAll
  BY DEF IInv
<1>2. QED  BY <1>1, Invariance, PTL

(* No step takes a bucket back in time or loses it.                          *)
THEOREM BucketTimeMonotone == Spec => TimeNeverRunsBack
<1>1. ASSUME IInv, [Next]_vars PROVE [BucketsMoveForward]_vars
  <2>1. CASE UNCHANGED clients
    <3>1. \A c \in DOMAIN clients : clients[c].last \in Nat
      BY <1>1, Instants DEF IInv, TypeOK, Bucket
    <3>2. QED  BY <2>1, <3>1 DEF BucketsMoveForward
  <2>2. ASSUME NEW g \in Goroutines, Charge(g) PROVE BucketsMoveForward
    <3>1. /\ ip[g] \in Clients /\ now[g] \in Times
          /\ Found(g) \in Bucket /\ Found(g).last <= now[g]
          /\ ip[g] \in DOMAIN clients => Found(g) = clients[ip[g]]
      BY <1>1, <2>2, ChargeFacts DEF Charge
    <3>2. PICK tokens : Store(g, tokens)
      BY <2>2 DEF Charge, Admit, Refuse
    <3>3. /\ DOMAIN clients' = DOMAIN clients \cup {ip[g]}
          /\ clients'[ip[g]] = [tokens |-> tokens, last |-> now[g]]
          /\ \A c \in DOMAIN clients : c # ip[g] => clients'[c] = clients[c]
      BY <1>1, <2>2, <3>1, <3>2, StoreFacts
    <3>4. \A c \in DOMAIN clients : clients[c].last \in Nat
      BY <1>1, Instants DEF IInv, TypeOK, Bucket
    <3>5. QED  BY <3>1, <3>3, <3>4, Instants DEF BucketsMoveForward
  <2>3. QED
    BY <1>1, <2>1, <2>2 DEF Next, Step, Tick, Bypass, Call, Lock, Lookup, Return, vars
<1>2. QED  BY <1>1, Invariance, PTL DEF Spec, TimeNeverRunsBack

-----------------------------------------------------------------------------
(* Charging a bucket is the abstract decision at the instant "now".          *)
LEMMA ChargeDecides ==
  ASSUME IInv, NEW g \in Goroutines, Charge(g)
  PROVE  WL!Decide(g, now[g]) /\ now[g] \in 0..clock
<1> DEFINE c == ip[g]
           n == now[g]
           t == Refill(Found(g), n)
<1>1. pc[g] = "charge" /\ UNCHANGED <<clock, ip, called>>
  BY DEF Charge, locals
<1>2. /\ c \in Clients /\ n \in Times /\ n <= clock
      /\ c \in DOMAIN clients => Found(g) = clients[c]
      /\ Found(g).last <= n
      /\ t \in 0..Burst
      /\ Exact(t, n, since[c])
  BY <1>1, ChargeFacts
<1>3. n \in 0..clock
  BY <1>2, TimeAssumption DEF IInv, TypeOK, Times
<1>4. since[c] \in [Times -> Nat] /\ since \in [Clients -> [Times -> Nat]]
  BY <1>2 DEF IInv, TypeOK
<1>5. Enough(t) <=> WL!Fits(c, n)
  BY <1>2, <1>4, EnoughIsFits DEF WL!Fits
<1>6. stageBar[g] = "waiting" /\ called[g] <= n
  BY <1>1 DEF stageBar, IInv, LocalsInv
<1>7. latestBar[c] <= n
  BY <1>2, Instants DEF latestBar
<1>8. latestBar' = [latestBar EXCEPT ![c] = n]
  <2>1. PICK tokens : Store(g, tokens)
    BY DEF Charge, Admit, Refuse
  <2>2. /\ DOMAIN clients' = DOMAIN clients \cup {c}
        /\ clients'[c] = [tokens |-> tokens, last |-> n]
        /\ \A d \in DOMAIN clients : d # c => clients'[d] = clients[d]
    BY <1>2, <2>1, StoreFacts
  <2>3. clients'[c].last = n
    BY <2>2
  <2>4. QED  BY <1>2, <2>2, <2>3 DEF latestBar
<1>9. CASE Admit(g)
  <2>1. pc' = [pc EXCEPT ![g] = "pass"]
    BY <1>9 DEF Admit
  <2>2. stageBar' = [stageBar EXCEPT ![g] = "pass"]
    BY <2>1 DEF stageBar, IInv, TypeOK
  <2>3. WL!Admit(g, n)
    BY <1>5, <1>9, <2>2 DEF WL!Admit, Admit, WL!Times, Times
  <2>4. QED  BY <1>1, <1>3, <1>6, <1>7, <1>8, <2>3 DEF WL!Decide
<1>10. CASE Refuse(g)
  <2>1. pc' = [pc EXCEPT ![g] = "limited"]
    BY <1>10 DEF Refuse
  <2>2. stageBar' = [stageBar EXCEPT ![g] = "limited"]
    BY <2>1 DEF stageBar, IInv, TypeOK
  <2>3. WL!Refuse(g, n)
    BY <1>5, <1>10, <2>2 DEF WL!Refuse, Refuse
  <2>4. QED  BY <1>1, <1>3, <1>6, <1>7, <1>8, <2>3 DEF WL!Decide
<1>11. QED  BY <1>9, <1>10 DEF Charge

(* The mutex-protected bucket implements the sliding window: Lock and Lookup *)
(* are invisible, Charge is the decision, everything else maps to itself.    *)
THEOREM ImplementsWindow == Spec => ImplementsWindowLimiter
<1>1. Init => WL!Init
  BY DEF Init, WL!Init, stageBar, latestBar, Times, WL!Times
<1>2. IInv /\ [Next]_vars => [WL!Next]_WL!vars
  <2> SUFFICES ASSUME IInv, [Next]_vars PROVE [WL!Next]_WL!vars
    OBVIOUS
  <2> USE DEF locals, history
  <2>1. CASE Tick
    BY <2>1 DEF Tick, WL!Next, WL!Tick, stageBar, latestBar
  <2>2. ASSUME NEW g \in Goroutines, Bypass(g) PROVE WL!Next
    <3>1. stageBar[g] = "idle" /\ stageBar' = [stageBar EXCEPT ![g] = "pass"]
      BY <2>2 DEF Bypass, stageBar, IInv, TypeOK
    <3>2. WL!Bypass(g)
      BY <2>2, <3>1 DEF Bypass, WL!Bypass, latestBar
    <3>3. QED  BY <3>2 DEF WL!Next
  <2>3. ASSUME NEW g \in Goroutines, NEW c \in Clients, Call(g, c) PROVE WL!Next
    <3>1. stageBar[g] = "idle" /\ stageBar' = [stageBar EXCEPT ![g] = "waiting"]
      BY <2>3 DEF Call, stageBar, IInv, TypeOK
    <3>2. WL!Arrive(g, c)
      BY <2>3, <3>1 DEF Call, WL!Arrive, latestBar
    <3>3. QED  BY <3>2 DEF WL!Next
  <2>4. ASSUME NEW g \in Goroutines, Lock(g) \/ Lookup(g) PROVE UNCHANGED WL!vars
    <3>1. stageBar' = stageBar
      BY <2>4 DEF Lock, Lookup, stageBar, IInv, TypeOK
    <3>2. QED  BY <2>4, <3>1 DEF Lock, Lookup, WL!vars, latestBar
  <2>5. ASSUME NEW g \in Goroutines, Charge(g) PROVE WL!Next
    BY <2>5, ChargeDecides DEF WL!Next
  <2>6. ASSUME NEW g \in Goroutines, Return(g) PROVE WL!Next
    <3>1. /\ stageBar[g] \in {"pass", "limited"}
          /\ stageBar' = [stageBar EXCEPT ![g] = "idle"]
      BY <2>6 DEF Return, stageBar, IInv, TypeOK
    <3>2. WL!Leave(g)
      BY <2>6, <3>1 DEF Return, WL!Leave, latestBar
    <3>3. QED  BY <3>2 DEF WL!Next
  <2>7. CASE UNCHANGED vars
    BY <2>7 DEF vars, WL!vars, stageBar, latestBar
  <2>8. QED
    BY <2>1, <2>2, <2>3, <2>4, <2>5, <2>6, <2>7 DEF Next, Step
<1>3. QED
  BY <1>1, <1>2, Invariance, PTL DEF Spec, ImplementsWindowLimiter, WL!Spec

\* WindowLimiter_proofs, for the window limiter this one implements.
WLP == INSTANCE WindowLimiter_proofs WITH stage <- stageBar, latest <- latestBar

(* No client ever gets more through in any window of time, wherever it starts *)
(* and ends, than the burst and the window's refill: the limiter implements   *)
(* the sliding window, and the sliding window promises it.                    *)
THEOREM WindowIsBounded == Spec => []WindowBound
<1>1. WLP!Amounts
  BY Amounts, TimeAssumption DEF WLP!Amounts
<1>2. WLP!Spec => []WLP!WindowBound
  BY <1>1, WLP!WindowIsBounded
<1>3. WL!Init <=> WLP!Init
  BY DEF WL!Init, WLP!Init, WL!Times, WLP!Times
<1>4. [WL!Next]_WL!vars <=> [WLP!Next]_WLP!vars
  BY DEF WL!Next, WLP!Next, WL!vars, WLP!vars, WL!Tick, WLP!Tick, WL!Bypass, WLP!Bypass,
         WL!Leave, WLP!Leave, WL!Arrive, WLP!Arrive, WL!Decide, WLP!Decide, WL!Admit, WLP!Admit,
         WL!Refuse, WLP!Refuse, WL!Fits, WLP!Fits, WL!Times, WLP!Times
<1>5. WL!WindowBound <=> WLP!WindowBound
  BY DEF WL!WindowBound, WLP!WindowBound, WL!After, WLP!After, WL!Times, WLP!Times
<1>6. QED
  BY <1>2, <1>3, <1>4, <1>5, ImplementsWindow, PTL
  DEF ImplementsWindowLimiter, WL!Spec, WLP!Spec, WindowBound
=============================================================================
