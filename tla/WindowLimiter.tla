--------------------------- MODULE WindowLimiter ---------------------------
(***************************************************************************)
(* What a client of the rate limiter may count on, with no bucket in it.   *)
(* Every request that is not let through unexamined is decided at one      *)
(* instant of its own call, the instants of one client never run back, and *)
(* the answer is a function of the client's past admissions alone: it is   *)
(* admitted exactly when no window that ends now would then hold more than *)
(* the burst plus what the rate allows for the window's length.            *)
(*                                                                         *)
(* Amounts are integers: one admission costs Unit, a tick of the clock is  *)
(* worth Rate, and a window of length 0 holds Burst.                       *)
(***************************************************************************)
EXTENDS Integers

CONSTANTS Goroutines,  \* the goroutines net/http serves requests on
          Clients,     \* the keys clientIP can return
          Rate, Unit, Burst,
          MaxTime,     \* bound of the clock
          None         \* no client: the goroutine has no request

VARIABLES clock,   \* the monotonic clock, in ticks
          stage,   \* "idle", "waiting", "pass" or "limited", per goroutine
          ip,      \* the client a goroutine asks for, or None
          called,  \* when it asked
          latest,  \* the instant of the last decision, per client
          since    \* since[c][s]: admissions of c decided at s or later

vars == <<clock, stage, ip, called, latest, since>>

Times == 0..MaxTime

Fits(c, t) == \A s \in 0..t : (since[c][s] + 1) * Unit <= Burst + (t - s) * Rate

Init == /\ clock = 0
        /\ stage = [g \in Goroutines |-> "idle"]
        /\ ip = [g \in Goroutines |-> None]
        /\ called = [g \in Goroutines |-> 0]
        /\ latest = [c \in Clients |-> 0]
        /\ since = [c \in Clients |-> [s \in Times |-> 0]]

Bypass(g) == /\ stage[g] = "idle"
             /\ stage' = [stage EXCEPT ![g] = "pass"]
             /\ UNCHANGED <<clock, ip, called, latest, since>>

Arrive(g, c) == /\ stage[g] = "idle"
                /\ stage' = [stage EXCEPT ![g] = "waiting"]
                /\ ip' = [ip EXCEPT ![g] = c]
                /\ called' = [called EXCEPT ![g] = clock]
                /\ UNCHANGED <<clock, latest, since>>

Admit(g, t) == /\ Fits(ip[g], t)
               /\ stage' = [stage EXCEPT ![g] = "pass"]
               /\ since' = [since EXCEPT ![ip[g]] =
                     [s \in Times |-> IF s <= t THEN since[ip[g]][s] + 1
                                                ELSE since[ip[g]][s]]]

Refuse(g, t) == /\ ~Fits(ip[g], t)
                /\ stage' = [stage EXCEPT ![g] = "limited"]
                /\ UNCHANGED since

Decide(g, t) == /\ stage[g] = "waiting"
                /\ called[g] <= t
                /\ latest[ip[g]] <= t
                /\ latest' = [latest EXCEPT ![ip[g]] = t]
                /\ Admit(g, t) \/ Refuse(g, t)
                /\ UNCHANGED <<clock, ip, called>>

Leave(g) == /\ stage[g] \in {"pass", "limited"}
            /\ stage' = [stage EXCEPT ![g] = "idle"]
            /\ ip' = [ip EXCEPT ![g] = None]
            /\ called' = [called EXCEPT ![g] = 0]
            /\ UNCHANGED <<clock, latest, since>>

Tick == /\ clock < MaxTime
        /\ clock' = clock + 1
        /\ UNCHANGED <<stage, ip, called, latest, since>>

Next == \/ Tick
        \/ \E g \in Goroutines : \/ Bypass(g)
                                 \/ Leave(g)
                                 \/ \E c \in Clients : Arrive(g, c)
                                 \/ \E t \in 0..clock : Decide(g, t)

Spec == Init /\ [][Next]_vars

-----------------------------------------------------------------------------
\* Admissions of c decided later than t.
After(c, t) == IF t < MaxTime THEN since[c][t + 1] ELSE 0

(* In no window of time, past or open, has a client got more requests through *)
(* than the burst plus what the rate allows for the window's length.          *)
WindowBound ==
  \A c \in Clients : \A t \in Times : \A s \in 0..t :
    (since[c][s] - After(c, t)) * Unit <= Burst + (t - s) * Rate
=============================================================================
