----------------------------- MODULE SafeFetch -----------------------------
(***************************************************************************)
(* What a fetch of /process promises, with no URL, resolver, dial, pool or *)
(* redirect in it: a bounded walk over origins, each one a host of the     *)
(* allowlist at an address outside the reserved ranges, and an image only  *)
(* out of the exchange with the last of them.                              *)
(***************************************************************************)
EXTENDS Integers

CONSTANTS Fetches, SafeOrigins, MaxRequests, None

VARIABLES phase,   \* what a fetch is doing
          hop,     \* the requests of its redirect chain
          origin   \* whom it is talking to, or None

vars == <<phase, hop, origin>>

Init == /\ phase = [f \in Fetches |-> "idle"]
        /\ hop = [f \in Fetches |-> 0]
        /\ origin = [f \in Fetches |-> None]

Ask(f) == /\ phase[f] = "idle"
          /\ phase' = [phase EXCEPT ![f] = "going"]
          /\ hop' = [hop EXCEPT ![f] = 1]
          /\ UNCHANGED origin

Contact(f) == /\ phase[f] = "going" /\ origin[f] = None
              /\ \E o \in SafeOrigins : origin' = [origin EXCEPT ![f] = o]
              /\ UNCHANGED <<phase, hop>>

\* The exchange broke and the same request is sent again.
Again(f) == /\ phase[f] = "going" /\ origin[f] # None
            /\ origin' = [origin EXCEPT ![f] = None]
            /\ UNCHANGED <<phase, hop>>

Hop(f) == /\ phase[f] = "going" /\ origin[f] # None
          /\ hop[f] < MaxRequests
          /\ hop' = [hop EXCEPT ![f] = @ + 1]
          /\ origin' = [origin EXCEPT ![f] = None]
          /\ UNCHANGED phase

Deliver(f) == /\ phase[f] = "going" /\ origin[f] # None
              /\ phase' = [phase EXCEPT ![f] = "image"]
              /\ hop' = [hop EXCEPT ![f] = 0]
              /\ origin' = [origin EXCEPT ![f] = None]

\* Before a fetch begins or at any moment of it.
Fail(f) == /\ phase[f] \in {"idle", "going"}
           /\ phase' = [phase EXCEPT ![f] = "failed"]
           /\ hop' = [hop EXCEPT ![f] = 0]
           /\ origin' = [origin EXCEPT ![f] = None]

Rest(f) == /\ phase[f] \in {"image", "failed"}
           /\ phase' = [phase EXCEPT ![f] = "idle"]
           /\ UNCHANGED <<hop, origin>>

Next == \E f \in Fetches : \/ Ask(f) \/ Contact(f) \/ Again(f) \/ Hop(f)
                           \/ Deliver(f) \/ Fail(f) \/ Rest(f)

Spec == Init /\ [][Next]_vars
=============================================================================
