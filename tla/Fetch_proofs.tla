---------------------------- MODULE Fetch_proofs ----------------------------
(***************************************************************************)
(* Proofs about Fetch, for any number of fetches and dials, any hosts, any *)
(* allowlist and names that resolve to anything.                           *)
(***************************************************************************)
EXTENDS Fetch, TLAPS

Vetted(u) == u \in URL /\ IsAllowedURL(u) /\ SchemeOK(u)

(* What the checks have established by the time a fetch is under way.         *)
Stages ==
  \A f \in Fetches : /\ Pending(f) => Vetted(url[f])
                     /\ over[f] # None <=> pc[f] \in {"await", "body"}

(* A dial is for a URL that was checked, and one that is still awaited is the *)
(* only one of its fetch, for the URL the fetch is at.                        *)
DialsOwned ==
  /\ \A d \in dials : /\ Vetted(d.url)
                      /\ d.owner # None => pc[d.owner] = "dial" /\ url[d.owner] = d.url
  /\ \A d, e \in dials : d.owner # None /\ d.owner = e.owner => d = e

IInv == TypeOK /\ OnlySafeConnections /\ OwnConnection /\ Stages /\ DialsOwned

(* The dialer's check covers every range that is documented as rejected.      *)
LEMMA CheckCovers == ASSUME NEW a, ~IsBlockedIP(a) PROVE a \notin Reserved
  BY DEF IsBlockedIP, ByPredicate, ByList, Reserved

LEMMA RedirectVetted ==
  ASSUME NEW u \in URL, NEW n \in Nat, MayFollow(u, n)
  PROVE  Vetted(u) /\ n < MaxRequests
  BY DEF MayFollow, Vetted

LEMMA InitInv == Init => IInv
  BY FetchAssumption DEF Init, IInv, TypeOK, OnlySafeConnections, OwnConnection, Stages,
     DialsOwned, Pending

(* Ending a fetch, whatever ends it, forgets its exchange; a dial of its own  *)
(* must be gone or detached.                                                  *)
LEMMA EndsInv ==
  ASSUME IInv, NEW f \in Fetches, NEW p \in {"image", "failed"},
         pc' = [pc EXCEPT ![f] = p], url' = [url EXCEPT ![f] = None],
         sent' = [sent EXCEPT ![f] = 0], over' = [over EXCEPT ![f] = None],
         pool' \subseteq pool, dials' \subseteq Dial,
         \A d \in dials' : Vetted(d.url) /\ d.owner # f,
         \A d \in dials' : d.owner # None => d \in dials
  PROVE  IInv'
  <1> USE FetchAssumption DEF IInv
  <1>1. TypeOK'
    BY DEF TypeOK
  <1>2. OnlySafeConnections' /\ OwnConnection'
    BY DEF TypeOK, OnlySafeConnections, OwnConnection, Safe
  <1>3. Stages'
    BY DEF TypeOK, Stages, Pending
  <1>4. DialsOwned'
    BY DEF TypeOK, DialsOwned, Dial
  <1> QED BY <1>1, <1>2, <1>3, <1>4

LEMMA FailsInv ==
  ASSUME IInv, NEW f \in Fetches, Fails(f),
         pool' \subseteq pool, dials' \subseteq Dial,
         \A d \in dials' : Vetted(d.url) /\ d.owner # f,
         \A d \in dials' : d.owner # None => d \in dials
  PROVE  IInv'
  BY EndsInv DEF Fails

(* A fetch gets a connection for its URL, and nobody waits for a dial of it   *)
(* any more.                                                                  *)
LEMMA OverInv ==
  ASSUME IInv, NEW f \in Fetches, NEW c \in Conn,
         pc[f] \in {"connect", "dial"}, c.url = url[f], Safe(c),
         pc' = [pc EXCEPT ![f] = "await"], over' = [over EXCEPT ![f] = c],
         UNCHANGED <<url, sent>>, pool' \subseteq pool \cup {c}, dials' \subseteq Dial,
         \A d \in dials' : Vetted(d.url) /\ d.owner # f,
         \A d \in dials' : d.owner # None => d \in dials
  PROVE  IInv'
  <1> USE FetchAssumption DEF IInv
  <1>1. TypeOK'
    BY DEF TypeOK
  <1>2. OnlySafeConnections' /\ OwnConnection'
    BY DEF TypeOK, OnlySafeConnections, OwnConnection, Safe
  <1>3. Stages'
    BY DEF TypeOK, Stages, Pending
  <1>4. DialsOwned'
    BY DEF TypeOK, DialsOwned, Dial
  <1> QED BY <1>1, <1>2, <1>3, <1>4

(* A fetch sets out for a URL that was checked, with no connection and no     *)
(* dial yet.                                                                  *)
LEMMA SetOutInv ==
  ASSUME IInv, NEW f \in Fetches, NEW u, Vetted(u), NEW n \in 0..MaxRequests,
         pc[f] # "dial",
         pc' = [pc EXCEPT ![f] = "connect"], url' = [url EXCEPT ![f] = u],
         sent' = [sent EXCEPT ![f] = n], over' = [over EXCEPT ![f] = None],
         pool' \subseteq pool, UNCHANGED dials
  PROVE  IInv'
  <1> USE FetchAssumption DEF IInv
  <1>1. TypeOK'
    BY DEF TypeOK, Vetted
  <1>2. OnlySafeConnections' /\ OwnConnection'
    BY DEF TypeOK, OnlySafeConnections, OwnConnection, Safe
  <1>3. Stages'
    BY DEF TypeOK, Stages, Pending
  <1>4. DialsOwned'
    BY DEF TypeOK, DialsOwned, Dial
  <1> QED BY <1>1, <1>2, <1>3, <1>4

(* Letting go of a dial leaves every other one as it is.                      *)
LEMMA DetachedDials ==
  ASSUME IInv, NEW f \in Fetches, dials' = Detached(f)
  PROVE  /\ dials' \subseteq Dial
         /\ \A d \in dials' : Vetted(d.url) /\ d.owner # f
         /\ \A d \in dials' : d.owner # None => d \in dials
  BY FetchAssumption DEF IInv, TypeOK, DialsOwned, Detached, Dial

(* A fetch that awaits no dial owns none.                                     *)
LEMMA NoDial ==
  ASSUME IInv, NEW f \in Fetches, pc[f] # "dial"
  PROVE  /\ dials \subseteq Dial
         /\ \A d \in dials : Vetted(d.url) /\ d.owner # f
  BY FetchAssumption DEF IInv, TypeOK, DialsOwned

(* Without its dial, a fetch owns none.                                       *)
LEMMA DialGone ==
  ASSUME IInv, NEW d \in dials, dials' = dials \ {d}
  PROVE  /\ dials' \subseteq Dial
         /\ \A e \in dials' : Vetted(e.url) /\ (d.owner # None => e.owner # d.owner)
         /\ \A e \in dials' : e.owner # None => e \in dials
  BY DEF IInv, TypeOK, DialsOwned

LEMMA StepInv ==
  ASSUME IInv, NEW f \in Fetches, Step(f)
  PROVE  IInv'
  <1>1. CASE \E u \in URL : Receive(f, u)
    <2>1. PICK u \in URL : Receive(f, u)
      BY <1>1
    <2>2. pc[f] = "idle" /\ UNCHANGED <<pool, dials>>
      BY <2>1 DEF Receive
    <2>3. CASE IsAllowedURL(u) /\ SchemeOK(u)
      <3>1. over[f] = None /\ over' = [over EXCEPT ![f] = None]
        BY <2>1, <2>2, <2>3 DEF Receive, IInv, Stages, TypeOK
      <3>2. Vetted(u) /\ 1 \in 0..MaxRequests
        BY <2>3, FetchAssumption DEF Vetted
      <3> QED BY <2>1, <2>2, <2>3, <3>1, <3>2, SetOutInv DEF Receive
    <2>4. CASE ~(IsAllowedURL(u) /\ SchemeOK(u))
      BY <2>1, <2>2, <2>4, NoDial, FailsInv DEF Receive
    <2> QED BY <2>3, <2>4
  <1>2. CASE \E u \in URL : Redirect(f, u)
    <2>1. PICK u \in URL : Redirect(f, u)
      BY <1>2
    <2>2. pc[f] = "await" /\ UNCHANGED <<pool, dials>>
      BY <2>1 DEF Redirect
    <2>3. sent[f] \in Nat /\ MaxRequests \in Nat
      BY FetchAssumption DEF IInv, TypeOK
    <2>4. CASE MayFollow(u, sent[f])
      <3>1. Vetted(u) /\ sent[f] + 1 \in 0..MaxRequests
        BY <2>3, <2>4, RedirectVetted
      <3> QED BY <2>1, <2>2, <2>4, <3>1, SetOutInv DEF Redirect
    <2>5. CASE ~MayFollow(u, sent[f])
      BY <2>1, <2>2, <2>5, NoDial, FailsInv DEF Redirect
    <2> QED BY <2>4, <2>5
  <1>3. CASE TakeConn(f)
    <2>1. PICK c \in pool : Usable(f, c) /\ over' = [over EXCEPT ![f] = c]
      BY <1>3 DEF TakeConn
    <2>2. c \in Conn /\ c.url = url[f] /\ Safe(c)
      BY <2>1 DEF IInv, TypeOK, OnlySafeConnections, Usable
    <2> QED BY <1>3, <2>1, <2>2, DetachedDials, OverInv DEF TakeConn
  <1>4. CASE StartDial(f)
    <2> USE FetchAssumption DEF IInv
    <2>1. PICK d : /\ d \in Dial /\ d.owner = f /\ d.url = url[f]
                   /\ dials' = dials \cup {d}
      BY <1>4 DEF StartDial, Stages, Pending, Vetted, Dial
    <2>2. pc' = [pc EXCEPT ![f] = "dial"] /\ pc[f] = "connect" /\ UNCHANGED <<url, sent, over, pool>>
      BY <1>4 DEF StartDial
    <2>3. TypeOK'
      BY <2>1, <2>2 DEF TypeOK
    <2>4. OnlySafeConnections' /\ OwnConnection'
      BY <2>2 DEF OnlySafeConnections, OwnConnection
    <2>5. Stages'
      BY <2>2 DEF TypeOK, Stages, Pending
    <2>6. Vetted(d.url)
      BY <2>1, <2>2 DEF Stages, Pending
    <2>7. DialsOwned'
      BY <2>1, <2>2, <2>6, NoDial DEF TypeOK, DialsOwned, Dial
    <2> QED BY <2>3, <2>4, <2>5, <2>7
  <1>5. CASE Respond(f)
    <2>1. CASE Fails(f)
      BY <1>5, <2>1, NoDial, FailsInv DEF Respond
    <2>2. CASE pc' = [pc EXCEPT ![f] = "body"] /\ UNCHANGED <<url, sent, over>>
      BY <1>5, <2>2 DEF Respond, IInv, TypeOK, OnlySafeConnections, OwnConnection, Stages,
         Pending, DialsOwned
    <2> QED BY <1>5, <2>1, <2>2 DEF Respond
  <1>6. CASE ReadBody(f)
    <2>1. CASE Fails(f)
      BY <1>6, <2>1, NoDial, FailsInv DEF ReadBody
    <2>2. CASE ~Fails(f)
      BY <1>6, <2>2, NoDial, EndsInv DEF ReadBody
    <2> QED BY <2>1, <2>2
  <1>7. CASE Break(f)
    <2>1. CASE Fails(f)
      BY <1>7, <2>1, NoDial, FailsInv DEF Break
    <2>2. CASE /\ pc' = [pc EXCEPT ![f] = "connect"] /\ over' = [over EXCEPT ![f] = None]
               /\ UNCHANGED <<url, sent>>
      <3>1. url' = [url EXCEPT ![f] = url[f]] /\ sent' = [sent EXCEPT ![f] = sent[f]]
        BY <2>2 DEF IInv, TypeOK
      <3>2. Vetted(url[f]) /\ sent[f] \in 0..MaxRequests /\ pc[f] # "dial" /\ pool' \subseteq pool
        BY <1>7 DEF Break, IInv, TypeOK, Stages, Pending
      <3> QED BY <1>7, <2>2, <3>1, <3>2, SetOutInv DEF Break
    <2> QED BY <1>7, <2>1, <2>2 DEF Break
  <1>8. CASE TimesOut(f)
    BY <1>8, DetachedDials, FailsInv DEF TimesOut
  <1>9. CASE Return(f)
    BY <1>9 DEF Return, IInv, TypeOK, OnlySafeConnections, OwnConnection, Stages, Pending, DialsOwned
  <1> QED BY <1>1, <1>2, <1>3, <1>4, <1>5, <1>6, <1>7, <1>8, <1>9 DEF Step

LEMMA TransportInv ==
  ASSUME IInv, Transport
  PROVE  IInv'
  <1>1. CASE \E d \in dials : DialFails(d)
    <2>1. PICK d \in dials : DialFails(d)
      BY <1>1
    <2>2. dials' = dials \ {d} /\ d \in Dial /\ UNCHANGED pool
      BY <2>1 DEF DialFails, IInv, TypeOK
    <2>3. CASE d.owner = None
      <3>1. UNCHANGED <<pc, url, sent, over>>
        BY <2>1, <2>3 DEF DialFails
      <3> QED BY <2>2, <3>1 DEF IInv, TypeOK, OnlySafeConnections, OwnConnection, Stages, Pending,
              DialsOwned
    <2>4. CASE d.owner # None
      BY <2>1, <2>2, <2>4, DialGone, FailsInv DEF DialFails, Dial
    <2> QED BY <2>3, <2>4
  <1>2. CASE \E d \in dials : \E a \in Addrs : Attempt(d, a)
    <2>1. PICK d \in dials, a \in Addrs : Attempt(d, a)
      BY <1>2
    <2>2. d \in Dial /\ Vetted(d.url)
      BY DEF IInv, TypeOK, DialsOwned
    <2>3. CASE ~IsBlockedIP(a) /\ Connected(d, [url |-> d.url, addr |-> a])
      <3> DEFINE c == [url |-> d.url, addr |-> a]
      <3>1. c \in Conn /\ Safe(c) /\ c.url = d.url
        BY <2>2, <2>3, CheckCovers DEF Conn, Safe, Vetted
      <3>2. pool' = pool \cup {c} /\ dials' = dials \ {d} /\ UNCHANGED <<url, sent>>
        BY <2>3 DEF Connected
      <3>3. CASE d.owner = None
        <4>1. UNCHANGED <<pc, over>>
          BY <2>3, <3>3 DEF Connected
        <4>2. TypeOK' /\ OnlySafeConnections'
          BY <3>1, <3>2, <4>1 DEF IInv, TypeOK, OnlySafeConnections, Safe
        <4> QED BY <3>2, <4>1, <4>2 DEF IInv, OwnConnection, Stages, Pending, DialsOwned
      <3>4. CASE d.owner # None
        <4>1. /\ pc' = [pc EXCEPT ![d.owner] = "await"] /\ over' = [over EXCEPT ![d.owner] = c]
              /\ d.owner \in Fetches /\ pc[d.owner] = "dial" /\ url[d.owner] = c.url
          BY <2>2, <2>3, <3>1, <3>4 DEF Connected, IInv, DialsOwned, Dial
        <4> HIDE DEF c
        <4> QED BY <3>1, <3>2, <3>4, <4>1, DialGone, OverInv
      <3> QED BY <3>3, <3>4
    <2>4. CASE /\ dials' = (dials \ {d}) \cup {[d EXCEPT !.untried = @ \ {a}]}
               /\ UNCHANGED <<pc, url, sent, over, pool>>
      <3> DEFINE e == [d EXCEPT !.untried = @ \ {a}]
      <3>1. e \in Dial /\ e.owner = d.owner /\ e.url = d.url
        BY <2>2 DEF Dial
      <3>2. dials' = (dials \ {d}) \cup {e}
        BY <2>4
      <3> HIDE DEF e
      <3>3. TypeOK' /\ OnlySafeConnections' /\ OwnConnection' /\ Stages'
        BY <2>4, <3>1, <3>2 DEF IInv, TypeOK, OnlySafeConnections, OwnConnection, Stages, Pending
      <3>4. DialsOwned'
        BY <2>4, <3>1, <3>2 DEF IInv, DialsOwned
      <3> QED BY <3>3, <3>4 DEF IInv
    <2> QED BY <2>1, <2>3, <2>4 DEF Attempt
  <1>3. CASE \E c \in pool : Evict(c)
    BY <1>3 DEF Evict, IInv, TypeOK, OnlySafeConnections, OwnConnection, Stages, Pending, DialsOwned
  <1> QED BY <1>1, <1>2, <1>3 DEF Transport

LEMMA NextInv == IInv /\ [Next]_vars => IInv'
  <1>1. IInv /\ UNCHANGED vars => IInv'
    BY DEF vars, IInv, TypeOK, OnlySafeConnections, OwnConnection, Stages, Pending, DialsOwned
  <1> QED BY <1>1, StepInv, TransportInv DEF Next

LEMMA Inductive == Spec => []IInv
  BY InitInv, NextInv, PTL DEF Spec

(* The variables keep their types: the redirect chain never exceeds           *)
(* MaxRequests.                                                               *)
THEOREM TypeCorrect == Spec => []TypeOK
  BY Inductive, PTL DEF IInv

(* No connection that the shared client holds or uses leads to a host that is *)
(* not allowed or to an address in a reserved range.                          *)
THEOREM SafeConnections == Spec => []OnlySafeConnections
  BY Inductive, PTL DEF IInv

(* No request travels on a connection made for another URL.                   *)
THEOREM ConnectionIsOwn == Spec => []OwnConnection
  BY Inductive, PTL DEF IInv

-----------------------------------------------------------------------------
(* Refinement                                                                *)

OriginOf(f) == IF over[f] = None THEN None
               ELSE [host |-> over[f].url.host, addr |-> over[f].addr]

(* A fetch that has a connection is talking to someone.                       *)
LEMMA OriginKnown ==
  ASSUME TypeOK, NEW f \in Fetches, over[f] # None
  PROVE  OriginOf(f) # None
  <1>1. over[f] \in Conn
    BY DEF TypeOK
  <1>2. OriginOf(f) \in Origin
    BY <1>1 DEF OriginOf, Conn, URL, Origin
  <1> QED BY <1>2, FetchAssumption

LEMMA InitWalks == Init => Walk!Init
  BY DEF Init, Walk!Init, Pending

LEMMA OriginSafe ==
  ASSUME NEW c \in Conn, Safe(c)
  PROVE  [host |-> c.url.host, addr |-> c.addr] \in
           {[host |-> k.url.host, addr |-> k.addr] : k \in {k \in Conn : Safe(k)}}
  OBVIOUS

LEMMA FailsWalks ==
  ASSUME IInv, NEW f \in Fetches, pc[f] \in {"idle", "connect", "dial", "await", "body"}, Fails(f)
  PROVE  Walk!Fail(f)
  BY DEF Fails, Walk!Fail, Pending, IInv, TypeOK

LEMMA StepWalks ==
  ASSUME IInv, NEW f \in Fetches, Step(f)
  PROVE  [Walk!Next]_(Walk!vars)
  <1> USE DEF IInv, TypeOK
  <1>f. CASE Walk!Fail(f)
    BY <1>f DEF Walk!Next
  <1>1. CASE \E u \in URL : Receive(f, u)
    <2>1. PICK u \in URL : Receive(f, u)
      BY <1>1
    <2>2. CASE Fails(f)
      BY <2>1, <2>2, <1>f, FailsWalks DEF Receive
    <2>3. CASE ~Fails(f)
      <3>1. Walk!Ask(f)
        BY <2>1, <2>3 DEF Receive, Walk!Ask, Pending
      <3> QED BY <3>1 DEF Walk!Next
    <2> QED BY <2>2, <2>3
  <1>2. CASE \E u \in URL : Redirect(f, u)
    <2>1. PICK u \in URL : Redirect(f, u)
      BY <1>2
    <2>2. CASE Fails(f)
      BY <2>1, <2>2, <1>f, FailsWalks DEF Redirect
    <2>3. CASE ~Fails(f)
      <3>1. sent[f] < MaxRequests
        BY <2>1, <2>3 DEF Redirect, MayFollow
      <3>2. Walk!Hop(f)
        BY <2>1, <2>3, <3>1, OriginKnown DEF Redirect, Walk!Hop, Pending, Stages, OriginOf
      <3> QED BY <3>2 DEF Walk!Next
    <2> QED BY <2>2, <2>3
  <1>3. CASE TakeConn(f)
    <2>1. PICK c \in pool : Usable(f, c) /\ over' = [over EXCEPT ![f] = c]
      BY <1>3 DEF TakeConn
    <2>2. c \in Conn /\ Safe(c) /\ c # None
      BY FetchAssumption DEF OnlySafeConnections
    <2>3. Walk!Contact(f)
      BY <1>3, <2>1, <2>2, OriginSafe DEF TakeConn, Walk!Contact, Pending, Stages
    <2> QED BY <2>3 DEF Walk!Next
  <1>4. CASE StartDial(f)
    BY <1>4 DEF StartDial, Walk!vars, Pending
  <1>5. CASE Respond(f)
    <2>1. CASE Fails(f)
      BY <1>5, <2>1, <1>f, FailsWalks DEF Respond
    <2>2. CASE ~Fails(f)
      BY <1>5, <2>2 DEF Respond, Walk!vars, Pending
    <2> QED BY <2>1, <2>2
  <1>6. CASE ReadBody(f)
    <2>1. CASE Fails(f)
      BY <1>6, <2>1, <1>f, FailsWalks DEF ReadBody
    <2>2. CASE ~Fails(f)
      <3>1. Pending(f) /\ over[f] # None /\ OriginOf(f) # None
        BY <1>6, OriginKnown DEF ReadBody, Pending, Stages
      <3>2. /\ pc' = [pc EXCEPT ![f] = "image"] /\ sent' = [sent EXCEPT ![f] = 0]
            /\ over' = [over EXCEPT ![f] = None]
        BY <1>6, <2>2 DEF ReadBody
      <3>3. Walk!Deliver(f)
        BY <3>1, <3>2 DEF Walk!Deliver, Pending, OriginOf
      <3> QED BY <3>3 DEF Walk!Next
    <2> QED BY <2>1, <2>2
  <1>7. CASE Break(f)
    <2>1. CASE Fails(f)
      BY <1>7, <2>1, <1>f, FailsWalks DEF Break
    <2>2. CASE ~Fails(f)
      <3>1. Walk!Again(f)
        BY <1>7, <2>2, OriginKnown DEF Break, Walk!Again, Pending, Stages, OriginOf
      <3> QED BY <3>1 DEF Walk!Next
    <2> QED BY <2>1, <2>2
  <1>8. CASE TimesOut(f)
    BY <1>8, <1>f, FailsWalks DEF TimesOut, Pending
  <1>9. CASE Return(f)
    <2>1. Walk!Rest(f)
      BY <1>9 DEF Return, Walk!Rest, Pending
    <2> QED BY <2>1 DEF Walk!Next
  <1> QED BY <1>1, <1>2, <1>3, <1>4, <1>5, <1>6, <1>7, <1>8, <1>9 DEF Step

LEMMA TransportWalks ==
  ASSUME IInv, Transport
  PROVE  [Walk!Next]_(Walk!vars)
  <1> USE DEF IInv, TypeOK
  <1>1. CASE \E d \in dials : DialFails(d)
    <2>1. PICK d \in dials : DialFails(d)
      BY <1>1
    <2>2. CASE d.owner = None
      BY <2>1, <2>2 DEF DialFails, Walk!vars, Pending
    <2>3. CASE d.owner # None
      <3>1. d.owner \in Fetches /\ pc[d.owner] = "dial"
        BY <2>3 DEF DialsOwned, Dial
      <3>2. Walk!Fail(d.owner)
        BY <2>1, <2>3, <3>1, FailsWalks DEF DialFails
      <3> QED BY <3>1, <3>2 DEF Walk!Next
    <2> QED BY <2>2, <2>3
  <1>2. CASE \E d \in dials : \E a \in Addrs : Attempt(d, a)
    <2>1. PICK d \in dials, a \in Addrs : Attempt(d, a)
      BY <1>2
    <2>2. CASE UNCHANGED <<pc, sent, over>>
      BY <2>2 DEF Walk!vars, Pending
    <2>3. CASE ~UNCHANGED <<pc, sent, over>>
      <3> DEFINE c == [url |-> d.url, addr |-> a]
      <3>1. ~IsBlockedIP(a) /\ Connected(d, c) /\ d.owner # None
        BY <2>1, <2>3 DEF Attempt, Connected
      <3>2. c \in Conn /\ Safe(c) /\ c # None
        BY <3>1, CheckCovers, FetchAssumption DEF DialsOwned, Vetted, Safe, Conn
      <3>3. d.owner \in Fetches /\ pc[d.owner] = "dial" /\ over[d.owner] = None
        BY <3>1 DEF DialsOwned, Dial, Stages
      <3>4. /\ pc' = [pc EXCEPT ![d.owner] = "await"] /\ over' = [over EXCEPT ![d.owner] = c]
            /\ UNCHANGED sent
        BY <3>1 DEF Connected
      <3> HIDE DEF c
      <3>5. Walk!Contact(d.owner)
        BY <3>2, <3>3, <3>4, OriginSafe DEF Walk!Contact, Pending
      <3> QED BY <3>3, <3>5 DEF Walk!Next
    <2> QED BY <2>2, <2>3
  <1>3. CASE \E c \in pool : Evict(c)
    BY <1>3 DEF Evict, Walk!vars, Pending
  <1> QED BY <1>1, <1>2, <1>3 DEF Transport

(* Every behaviour of the fetch is a bounded walk over safe origins.          *)
THEOREM FetchIsSafeWalk == Spec => ImplementsSafeFetch
  <1>1. IInv /\ [Next]_vars => [Walk!Next]_(Walk!vars)
    <2>1. UNCHANGED vars => UNCHANGED Walk!vars
      BY DEF vars, Walk!vars, Pending
    <2> QED BY <2>1, StepWalks, TransportWalks DEF Next
  <1> QED BY <1>1, InitWalks, Inductive, PTL DEF ImplementsSafeFetch, Spec, Walk!Spec

(* An image comes out of an exchange that is under way, for the URL that was  *)
(* checked last, over a connection to an allowed host at a public address,    *)
(* and after no more requests than the chain may have.                        *)
SafeDelivery ==
  [][\A f \in Fetches : pc'[f] = "image" /\ pc[f] # "image" =>
       /\ over[f] \in Conn /\ Safe(over[f]) /\ over[f].url = url[f]
       /\ Vetted(url[f])
       /\ sent[f] <= MaxRequests]_vars

THEOREM ImagesAreSafe == Spec => SafeDelivery
  <1>1. ASSUME IInv, [Next]_vars, NEW f \in Fetches, pc'[f] = "image", pc[f] # "image"
        PROVE  /\ over[f] \in Conn /\ Safe(over[f]) /\ over[f].url = url[f]
               /\ Vetted(url[f])
               /\ sent[f] <= MaxRequests
    <2>1. pc \in [Fetches -> {"idle", "connect", "dial", "await", "body", "image", "failed"}]
      BY <1>1 DEF IInv, TypeOK
    <2>2. pc[f] = "body"
      <3>1. CASE \E g \in Fetches : Step(g)
        <4>1. PICK g \in Fetches : Step(g)
          BY <3>1
        <4> QED BY <1>1, <2>1, <4>1 DEF Step, Receive, Redirect, TakeConn, StartDial, Respond, ReadBody,
               Break, TimesOut, Return, Fails
      <3>2. CASE Transport
        BY <1>1, <2>1, <3>2 DEF Transport, DialFails, Attempt, Connected, Evict, Fails
      <3>3. CASE UNCHANGED vars
        BY <1>1, <3>3 DEF vars
      <3> QED BY <1>1, <3>1, <3>2, <3>3 DEF Next
    <2>3. over[f] # None /\ Vetted(url[f])
      BY <1>1, <2>2 DEF IInv, Stages, Pending
    <2>4. over[f] \in Conn /\ sent[f] <= MaxRequests
      BY <1>1, <2>3, FetchAssumption DEF IInv, TypeOK
    <2> QED BY <1>1, <2>2, <2>3, <2>4 DEF IInv, OnlySafeConnections, OwnConnection
  <1>2. IInv /\ [Next]_vars =>
          [\A f \in Fetches : pc'[f] = "image" /\ pc[f] # "image" =>
             /\ over[f] \in Conn /\ Safe(over[f]) /\ over[f].url = url[f]
             /\ Vetted(url[f])
             /\ sent[f] <= MaxRequests]_vars
    BY <1>1
  <1> QED BY <1>2, Inductive, PTL DEF Spec, SafeDelivery
=============================================================================
