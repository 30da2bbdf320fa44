------------------------------- MODULE Fetch -------------------------------
(***************************************************************************)
(* The remote fetch of /process: internal/service/process.go up to the     *)
(* fetched body, the client of internal/service/ssrf.go, and               *)
(* internal/config/allowed.go.  All requests share one http.Client and its *)
(* pool of connections.                                                    *)
(*                                                                         *)
(* net/http is external: connections of the pool are reused for the same   *)
(* scheme and host, a dial goes on when its request no longer waits for    *)
(* it, a broken exchange may be repeated, and the client's timeout covers  *)
(* redirects and body.  A name can resolve to anything each time it is     *)
(* looked up.  An address is abstracted to the kind of range it is in.     *)
(***************************************************************************)
EXTENDS Integers, FiniteSets

CONSTANTS Fetches,      \* goroutines that serve /process
          Hosts, Schemes,
          Addrs,        \* the kinds of address that names resolve to
          Allowed,      \* cfg.Allowed
          MaxRequests,  \* 10 in the code
          MaxDials,     \* bound: dials in progress
          None

Kinds == {"public", "rfc1918", "loopback", "linkLocal", "linkLocalMulticast",
          "ula", "unspecified", "thisHost", "cgnat"}
URL == [scheme : Schemes, host : Hosts]
Conn == [url : URL, addr : Addrs]
Origin == [host : Hosts, addr : Addrs]
Dial == [owner : Fetches \cup {None}, url : URL, untried : SUBSET Addrs]

ASSUME FetchAssumption == /\ Addrs \subseteq Kinds
                          /\ Schemes \subseteq {"http", "https", "other"}
                          /\ Allowed \subseteq Hosts \cup {"*"}
                          /\ MaxRequests \in Nat \ {0} /\ MaxDials \in Nat
                          /\ None \notin Fetches \cup Conn \cup Origin

VARIABLES pc,     \* where a fetch is
          url,    \* the URL of its current request
          sent,   \* the requests of its redirect chain, the current one included
          over,   \* the connection of the current exchange, or None
          pool,   \* the transport's connections
          dials   \* dials in progress

vars == <<pc, url, sent, over, pool, dials>>

TypeOK == /\ pc \in [Fetches -> {"idle", "connect", "dial", "await", "body", "image", "failed"}]
          /\ url \in [Fetches -> URL \cup {None}]
          /\ sent \in [Fetches -> 0..MaxRequests]
          /\ over \in [Fetches -> Conn \cup {None}]
          /\ pool \subseteq Conn
          /\ dials \subseteq Dial

Init == /\ pc = [f \in Fetches |-> "idle"]
        /\ url = [f \in Fetches |-> None]
        /\ sent = [f \in Fetches |-> 0]
        /\ over = [f \in Fetches |-> None]
        /\ pool = {}
        /\ dials = {}

-----------------------------------------------------------------------------
(* The checks                                                                *)

IsAllowedURL(u) == "*" \in Allowed \/ u.host \in Allowed
SchemeOK(u) == u.scheme \in {"http", "https"}

\* net.IP's own predicates, and the list of networks.
ByPredicate == {"loopback", "rfc1918", "ula", "linkLocal", "linkLocalMulticast", "unspecified"}
ByList == {"rfc1918", "linkLocal", "loopback", "thisHost", "cgnat", "ula", "unspecified"}

PredicatesOnly(a) == a \in ByPredicate
IsBlockedIP(a) == a \in ByPredicate \/ a \in ByList

\* CheckRedirect, for the request that len(via) others came before.
OneMoreRedirect(u, via) == via <= MaxRequests /\ IsAllowedURL(u) /\ SchemeOK(u)
MayFollow(u, via) == via < MaxRequests /\ IsAllowedURL(u) /\ SchemeOK(u)

-----------------------------------------------------------------------------
(* One fetch                                                                 *)

\* Nobody waits for the result of the fetch's dial any more.
StillAwaited(f) == dials
Detached(f) == {IF d.owner = f THEN [d EXCEPT !.owner = None] ELSE d : d \in dials}

\* DOMAIN_NOT_ALLOWED, INVALID_SRC, SRC_FETCH_FAILED, INVALID_IMAGE.
Fails(f) == /\ pc' = [pc EXCEPT ![f] = "failed"]
            /\ url' = [url EXCEPT ![f] = None]
            /\ sent' = [sent EXCEPT ![f] = 0]
            /\ over' = [over EXCEPT ![f] = None]

\* Process up to client.Get; a src that is missing or no URL goes the way of
\* the refused ones.
Receive(f, u) ==
  /\ pc[f] = "idle"
  /\ IF IsAllowedURL(u) /\ SchemeOK(u)
     THEN /\ pc' = [pc EXCEPT ![f] = "connect"]
          /\ url' = [url EXCEPT ![f] = u]
          /\ sent' = [sent EXCEPT ![f] = 1]
          /\ UNCHANGED over
     ELSE Fails(f)
  /\ UNCHANGED <<pool, dials>>

\* A connection for this scheme and host, pooled or just dialled by anyone.
Usable(f, c) == c \in pool /\ c.url = url[f]

TakeConn(f) == /\ pc[f] \in {"connect", "dial"}
               /\ \E c \in pool : Usable(f, c) /\ over' = [over EXCEPT ![f] = c]
               /\ pc' = [pc EXCEPT ![f] = "await"]
               /\ dials' = Detached(f)
               /\ UNCHANGED <<url, sent, pool>>

\* safeDialContext: the name is looked up now.
StartDial(f) == /\ pc[f] = "connect"
                /\ Cardinality(dials) < MaxDials
                /\ \E found \in SUBSET Addrs :
                     dials' = dials \cup {[owner |-> f, url |-> url[f], untried |-> found]}
                /\ pc' = [pc EXCEPT ![f] = "dial"]
                /\ UNCHANGED <<url, sent, over, pool>>

\* The origin answers with a redirect: client.Get follows it or fails.
Redirect(f, u) == /\ pc[f] = "await"
                  /\ IF MayFollow(u, sent[f])
                     THEN /\ pc' = [pc EXCEPT ![f] = "connect"]
                          /\ url' = [url EXCEPT ![f] = u]
                          /\ sent' = [sent EXCEPT ![f] = @ + 1]
                          /\ over' = [over EXCEPT ![f] = None]
                     ELSE Fails(f)
                  /\ UNCHANGED <<pool, dials>>

\* It answers 200, or with a status that is an error here.
Respond(f) == /\ pc[f] = "await"
              /\ \/ pc' = [pc EXCEPT ![f] = "body"] /\ UNCHANGED <<url, sent, over>>
                 \/ Fails(f)
              /\ UNCHANGED <<pool, dials>>

\* The body, cut at MaxFileSizeMB, is read and decoded, or one of it fails.
ReadBody(f) == /\ pc[f] = "body"
               /\ \/ /\ pc' = [pc EXCEPT ![f] = "image"]
                     /\ url' = [url EXCEPT ![f] = None]
                     /\ sent' = [sent EXCEPT ![f] = 0]
                     /\ over' = [over EXCEPT ![f] = None]
                  \/ Fails(f)
               /\ UNCHANGED <<pool, dials>>

\* The connection breaks before the answer: the transport sends the request
\* again on another one, or gives up.
Break(f) == /\ pc[f] = "await"
            /\ pool' = pool \ {over[f]}
            /\ \/ /\ pc' = [pc EXCEPT ![f] = "connect"]
                  /\ over' = [over EXCEPT ![f] = None]
                  /\ UNCHANGED <<url, sent>>
               \/ Fails(f)
            /\ UNCHANGED dials

Pending(f) == pc[f] \in {"connect", "dial", "await", "body"}

\* http.Client.Timeout runs from the first request to the end of the body.
TimesOut(f) == /\ Pending(f)
               /\ Fails(f)
               /\ dials' = Detached(f)
               /\ UNCHANGED pool

\* The handler answers and its goroutine takes the next request.
Return(f) == /\ pc[f] \in {"image", "failed"}
             /\ pc' = [pc EXCEPT ![f] = "idle"]
             /\ UNCHANGED <<url, sent, over, pool, dials>>

-----------------------------------------------------------------------------
(* The transport                                                             *)

\* The new connection goes to the fetch that waits for it, if one still does.
Connected(d, c) ==
  /\ pool' = pool \cup {c}
  /\ dials' = dials \ {d}
  /\ IF d.owner = None
     THEN UNCHANGED <<pc, over>>
     ELSE /\ pc' = [pc EXCEPT ![d.owner] = "await"]
          /\ over' = [over EXCEPT ![d.owner] = c]
  /\ UNCHANGED <<url, sent>>

\* ControlContext runs before every connect(): a refused or unreachable
\* address is followed by the next one.
Attempt(d, a) ==
  /\ a \in d.untried
  /\ \/ ~IsBlockedIP(a) /\ Connected(d, [url |-> d.url, addr |-> a])
     \/ /\ dials' = (dials \ {d}) \cup {[d EXCEPT !.untried = @ \ {a}]}
        /\ UNCHANGED <<pc, url, sent, over, pool>>

\* No address is left, the lookup found none, or the dial timed out.
DialFails(d) == /\ dials' = dials \ {d}
                /\ IF d.owner = None THEN UNCHANGED <<pc, url, sent, over>> ELSE Fails(d.owner)
                /\ UNCHANGED pool

\* An idle connection is closed by its timeout, by the limits or by the peer.
Evict(c) == /\ pool' = pool \ {c}
            /\ UNCHANGED <<pc, url, sent, over, dials>>
-----------------------------------------------------------------------------
Step(f) == \/ \E u \in URL : Receive(f, u) \/ Redirect(f, u)
           \/ TakeConn(f) \/ StartDial(f) \/ Respond(f) \/ ReadBody(f)
           \/ Break(f) \/ TimesOut(f) \/ Return(f)

Transport == \/ \E d \in dials : DialFails(d) \/ \E a \in Addrs : Attempt(d, a)
             \/ \E c \in pool : Evict(c)

Next == Transport \/ \E f \in Fetches : Step(f)

Spec == Init /\ [][Next]_vars

-----------------------------------------------------------------------------
\* SECURITY.md: the ranges the dialer rejects.
Reserved == {"rfc1918", "linkLocal", "loopback", "ula", "cgnat", "unspecified"}

Safe(c) == IsAllowedURL(c.url) /\ SchemeOK(c.url) /\ c.addr \notin Reserved

(* Whatever names resolve to and whenever they change, whoever dialled and    *)
(* whichever redirect led there: every connection the shared pool holds, and  *)
(* every one a request travels on, is to an allowed host, by HTTP, at an      *)
(* address outside the reserved ranges.                                       *)
OnlySafeConnections ==
  /\ \A c \in pool : Safe(c)
  /\ \A f \in Fetches : over[f] # None => Safe(over[f])

(* A request travels on a connection made for its own host, also when a dial  *)
(* that an earlier hop or another fetch left behind provides it.              *)
OwnConnection == \A f \in Fetches : over[f] # None => over[f].url = url[f]

Walk == INSTANCE SafeFetch
          WITH SafeOrigins <- {[host |-> c.url.host, addr |-> c.addr] : c \in {c \in Conn : Safe(c)}},
               phase <- [f \in Fetches |-> IF Pending(f) THEN "going" ELSE pc[f]],
               hop <- sent,
               origin <- [f \in Fetches |->
                            IF over[f] = None THEN None
                            ELSE [host |-> over[f].url.host, addr |-> over[f].addr]]

(* The fetch, with its pool, its dials and its checks at different moments,   *)
(* is a bounded walk over safe origins that ends in an image of the last.     *)
ImplementsSafeFetch == Walk!Spec
=============================================================================
