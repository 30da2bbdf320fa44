---------------------------- MODULE RateLimiter ----------------------------
(***************************************************************************)
(* internal/middleware/ratelimit.go: the per-client token bucket and the   *)
(* middleware around it, called by the goroutines net/http serves requests *)
(* on.  Allow takes the mutex, reads the clock, looks the client's bucket  *)
(* up, refills and charges it, and unlocks on return; each of these is a   *)
(* step here, so that what the mutex protects is visible.                  *)
(*                                                                         *)
(* Tokens are exact: the code's float64 amounts are multiples of 1/Unit,   *)
(* so a whole token is Unit and a tick refills Rate (see Unit).            *)
(***************************************************************************)
EXTENDS Integers

CONSTANTS Goroutines, Clients,
          RPS, RPM,          \* config.RateLimit, any integers
          Minute,            \* seconds in a minute: 60, less in scaled runs
          TicksPerSecond,    \* resolution of the clock
          MaxTime,           \* bound of the clock, in ticks
          None               \* no goroutine, no client, no instant

Times == 0..MaxTime

ASSUME ConfigAssumption == RPS \in Int /\ RPM \in Int
ASSUME TimeAssumption == /\ Minute \in Nat \ {0}
                         /\ TicksPerSecond \in Nat \ {0}
                         /\ MaxTime \in Nat
ASSUME NoneAssumption == None \notin Goroutines \cup Clients \cup Times

-----------------------------------------------------------------------------
(* NewRateLimiter(rps, rpm).  A token takes Period seconds' worth of Limit:  *)
(* rate = Limit / Period tokens per second, burst = Limit tokens.            *)

Limit == IF RPM > 0 THEN RPM ELSE IF RPS > 0 THEN RPS ELSE 0
Period == IF RPM > 0 THEN Minute ELSE 1

Unit  == Period * TicksPerSecond
Rate  == Limit
Burst == Limit * Unit

Enabled == Rate > 0     \* otherwise the clients map is nil

-----------------------------------------------------------------------------
VARIABLES clock,    \* time.Now, monotonic
          mu,       \* rl.mu: the goroutine that holds it, or None
          clients,  \* rl.clients: ip -> [tokens, last]
          pc,       \* where a goroutine is in Middleware/Allow
          ip,       \* its client key, None between requests
          now,      \* its local "now"
          ok,       \* its local "ok": the bucket was found
          called,   \* history: when it called Allow
          since,    \* history: since[c][s], admissions of c read at s or later
          refused   \* history: first refusal of c since its last admission

locals == <<ip, now, ok, called>>
history == <<since, refused>>
vars == <<clock, mu, clients, pc, locals, history>>

Bucket == [tokens : 0..Burst, last : Times]

TypeOK == /\ clock \in Times
          /\ mu \in Goroutines \cup {None}
          /\ DOMAIN clients \subseteq Clients
          /\ clients \in [DOMAIN clients -> Bucket]
          /\ pc \in [Goroutines -> {"idle", "lock", "lookup", "charge", "pass", "limited"}]
          /\ ip \in [Goroutines -> Clients \cup {None}]
          /\ now \in [Goroutines -> Times]
          /\ ok \in [Goroutines -> BOOLEAN]
          /\ called \in [Goroutines -> Times]
          /\ since \in [Clients -> [Times -> Nat]]
          /\ refused \in [Clients -> Times \cup {None}]

Init == /\ clock = 0
        /\ mu = None
        /\ clients = [c \in {} |-> [tokens |-> Burst, last |-> 0]]
        /\ pc = [g \in Goroutines |-> "idle"]
        /\ ip = [g \in Goroutines |-> None]
        /\ now = [g \in Goroutines |-> 0]
        /\ ok = [g \in Goroutines |-> FALSE]
        /\ called = [g \in Goroutines |-> 0]
        /\ since = [c \in Clients |-> [s \in Times |-> 0]]
        /\ refused = [c \in Clients |-> None]

-----------------------------------------------------------------------------
(* Middleware: /health, and every path when limiting is off, is let through  *)
(* without touching the limiter.                                             *)
Bypass(g) == /\ pc[g] = "idle"
             /\ pc' = [pc EXCEPT ![g] = "pass"]
             /\ UNCHANGED <<clock, mu, clients, locals, history>>

\* Allow's early return: a disabled limiter is not asked.
MustAsk(c) == Enabled

\* Allow(clientIP(r)) up to rl.mu.Lock().
Call(g, c) == /\ pc[g] = "idle"
              /\ MustAsk(c)
              /\ pc' = [pc EXCEPT ![g] = "lock"]
              /\ ip' = [ip EXCEPT ![g] = c]
              /\ called' = [called EXCEPT ![g] = clock]
              /\ UNCHANGED <<clock, mu, clients, now, ok, history>>

LockMissing(g) == TRUE
LockFree(g) == mu = None

Lock(g) == /\ pc[g] = "lock"
           /\ LockFree(g)
           /\ mu' = g
           /\ pc' = [pc EXCEPT ![g] = "lookup"]
           /\ UNCHANGED <<clock, clients, locals, history>>

\* now := time.Now(); b, ok := rl.clients[ip].
Lookup(g) == /\ pc[g] = "lookup"
             /\ now' = [now EXCEPT ![g] = clock]
             /\ ok' = [ok EXCEPT ![g] = ip[g] \in DOMAIN clients]
             /\ pc' = [pc EXCEPT ![g] = "charge"]
             /\ UNCHANGED <<clock, mu, clients, ip, called, history>>

\* The bucket Allow goes on with: the one found, or a new full one.
Found(g) == IF ok[g] THEN clients[ip[g]] ELSE [tokens |-> Burst, last |-> now[g]]

UncappedRefill(b, t) == b.tokens + (t - b.last) * Rate
Refill(b, t) == IF b.tokens + (t - b.last) * Rate < Burst
                THEN b.tokens + (t - b.last) * Rate
                ELSE Burst

\* A comparison with the wrong side of the boundary: the last token is kept.
StrictlyEnough(tokens) == tokens > Unit
\* Any fraction of a token counts as one.
FractionEnough(tokens) == tokens > 0
Enough(tokens) == tokens >= Unit

StampForgotten(b, t) == b.last
Stamp(b, t) == t

\* rl.clients holds the (possibly new) bucket with its tokens and time.
Store(g, tokens) ==
  clients' = [c \in DOMAIN clients \cup {ip[g]} |->
                IF c = ip[g] THEN [tokens |-> tokens, last |-> Stamp(Found(g), now[g])]
                             ELSE clients[c]]

Admit(g) == LET tokens == Refill(Found(g), now[g]) IN
  /\ Enough(tokens)
  /\ Store(g, tokens - Unit)
  /\ pc' = [pc EXCEPT ![g] = "pass"]
  /\ since' = [since EXCEPT ![ip[g]] =
        [s \in Times |-> IF s <= now[g] THEN since[ip[g]][s] + 1 ELSE since[ip[g]][s]]]
  /\ refused' = [refused EXCEPT ![ip[g]] = None]

\* A refusal stamps the bucket and drops what its elapsed time was worth.
RefillLost(g) == Found(g).tokens
KeptOnRefusal(g) == Refill(Found(g), now[g])

Refuse(g) ==
  /\ ~Enough(Refill(Found(g), now[g]))
  /\ Store(g, KeptOnRefusal(g))
  /\ pc' = [pc EXCEPT ![g] = "limited"]
  /\ refused' = IF refused[ip[g]] = None
                THEN [refused EXCEPT ![ip[g]] = now[g]] ELSE refused
  /\ UNCHANGED since

\* A refusal that returns without the deferred unlock.
UnlockOnPassOnly(g) == IF Enough(Refill(Found(g), now[g])) THEN None ELSE mu
Unlocked(g) == None

\* Insert, refill, decide, and the deferred rl.mu.Unlock().
Charge(g) == /\ pc[g] = "charge"
             /\ Admit(g) \/ Refuse(g)
             /\ mu' = Unlocked(g)
             /\ UNCHANGED <<clock, locals>>

\* The rest of the chain, or the 429 answer, is over; the locals are gone.
Return(g) == /\ pc[g] \in {"pass", "limited"}
             /\ pc' = [pc EXCEPT ![g] = "idle"]
             /\ ip' = [ip EXCEPT ![g] = None]
             /\ called' = [called EXCEPT ![g] = 0]
             /\ now' = [now EXCEPT ![g] = 0]
             /\ ok' = [ok EXCEPT ![g] = FALSE]
             /\ UNCHANGED <<clock, mu, clients, history>>

Tick == /\ clock < MaxTime
        /\ clock' = clock + 1
        /\ UNCHANGED <<mu, clients, pc, locals, history>>

Step(g) == Lock(g) \/ Lookup(g) \/ Charge(g) \/ Return(g)

Next == \/ Tick
        \/ \E g \in Goroutines : \/ Step(g)
                                 \/ Bypass(g)
                                 \/ \E c \in Clients : Call(g, c)

Spec == Init /\ [][Next]_vars

(* A goroutine inside Allow keeps running, and sync.Mutex hands the lock to   *)
(* a waiter that has been overtaken for too long (starvation mode), so a      *)
(* waiter for whom the mutex is free again and again gets it.                 *)
Fairness == \A g \in Goroutines : /\ SF_vars(Lock(g))
                                  /\ WF_vars(Lookup(g))
                                  /\ WF_vars(Charge(g))
FairSpec == Spec /\ Fairness

-----------------------------------------------------------------------------
(* Whoever works on the buckets holds the mutex, and a holder is at work:     *)
(* no path of Allow returns with the mutex locked or touches a bucket without *)
(* it.                                                                        *)
MutexGuards == \A g \in Goroutines : (mu = g) <=> (pc[g] \in {"lookup", "charge"})

(* A bucket is the sliding window in disguise.  Its tokens are exactly what   *)
(* the tightest window leaves: no window since s has let more through than    *)
(* its allowance, and for some s the tokens are all that is left of it, so    *)
(* the limiter neither leaks nor loses a token across any interleaving.       *)
BucketIsTightestWindow ==
  \A c \in DOMAIN clients : LET b == clients[c] IN
    /\ \A s \in 0..b.last : b.tokens + since[c][s] * Unit <= Burst + (b.last - s) * Rate
    /\ \E s \in 0..b.last : b.tokens + since[c][s] * Unit = Burst + (b.last - s) * Rate

(* "Retry-After: 1" on the 429: a client that is refused again a second or    *)
(* more after a refusal has been admitted in between, so waiting the second   *)
(* the header asks for was enough.                                            *)
RetryAfterHonoured ==
  \A c \in DOMAIN clients :
    refused[c] # None => clients[c].last - refused[c] < TicksPerSecond

(* What a second is at one token per second is the time of a token at any     *)
(* rate: a client that is refused again that long after its first refusal has *)
(* been admitted in between.  No refusal drops what the bucket has gained.    *)
RefusalPasses ==
  \A c \in DOMAIN clients :
    refused[c] # None => (clients[c].last - refused[c]) * Rate < Unit

(* A disabled limiter (both rates zero or negative) lets everyone through and *)
(* never reaches its mutex or the nil clients map, which a write would panic  *)
(* on.                                                                        *)
DisabledAdmitsAll ==
  ~Enabled => /\ DOMAIN clients = {}
              /\ mu = None
              /\ \A g \in Goroutines : pc[g] \in {"idle", "pass"}

(* A bucket's time never runs back: "now" is read under the mutex, so two     *)
(* requests of one client charge it in the order of their readings, and the   *)
(* elapsed time of a refill is never negative.                                *)
BucketsMoveForward == \A c \in DOMAIN clients : /\ c \in DOMAIN clients'
                                                /\ clients'[c].last >= clients[c].last
TimeNeverRunsBack == [][BucketsMoveForward]_vars

(* Every request that asks the limiter is answered: no interleaving of other  *)
(* requests keeps it waiting for the mutex for ever.                          *)
EveryCallAnswered ==
  \A g \in Goroutines : pc[g] = "lock" ~> pc[g] \in {"pass", "limited"}

(* The limiter keeps the promise of WindowLimiter: each request is decided at *)
(* one instant of its own call by the sliding-window rule over that client's  *)
(* admissions only.                                                           *)
stageBar == [g \in Goroutines |->
              IF pc[g] \in {"lock", "lookup", "charge"} THEN "waiting" ELSE pc[g]]
latestBar == [c \in Clients |-> IF c \in DOMAIN clients THEN clients[c].last ELSE 0]

WL == INSTANCE WindowLimiter WITH stage <- stageBar, latest <- latestBar

ImplementsWindowLimiter == WL!Spec

(* No client gets more requests through in any window of time, wherever it    *)
(* starts and ends, than the burst plus the refill of that window, whatever   *)
(* the goroutines that serve it do in parallel.                               *)
WindowBound == WL!WindowBound
=============================================================================
