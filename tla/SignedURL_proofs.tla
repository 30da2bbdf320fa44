-------------------------- MODULE SignedURL_proofs --------------------------
(***************************************************************************)
(* Proofs about SignedURL, for any keys, parameters, lifetimes and         *)
(* deployments.                                                            *)
(***************************************************************************)
EXTENDS SignedURL, TLAPS

(* exp is the second in which the URL is to expire.                           *)
ExpIsUntil == \A u \in made : u.mac.exp = Unix(u.until)

IInv == TypeOK /\ ExpIsUntil

LEMMA Inductive == Spec => []IInv
  <1>1. Init => IInv
    BY SignedAssumption DEF Init, IInv, TypeOK, ExpIsUntil
  <1>2. IInv /\ [Next]_vars => IInv'
    <2> SUFFICES ASSUME IInv, [Next]_vars PROVE IInv'
      OBVIOUS
    <2> USE SignedAssumption DEF IInv, TypeOK, ExpIsUntil
    <2>1. CASE Tick
      BY <2>1 DEF Tick
    <2>2. ASSUME NEW k \in Keys \cup {Blank}, NEW q \in Queries, NEW life \in Lifetimes,
                 Gensig(k, q, life)
          PROVE  IInv'
      <3>1. k \in Keys /\ now + life \in Int /\ Unix(now + life) \in Int
        BY <2>2 DEF Gensig, KeyGiven, Unix
      <3>2. [mac |-> Mac(k, q, Unix(now + life)), until |-> now + life] \in SignedLink
        BY <3>1 DEF Mac, SignedLink
      <3> QED BY <2>2, <3>2 DEF Gensig, Mac
    <2>3. CASE \E s \in Deployments : Deploy(s)
      BY <2>3 DEF Deploy
    <2>4. CASE UNCHANGED vars
      BY <2>4 DEF vars
    <2> QED BY <2>1, <2>2, <2>3, <2>4 DEF Next
  <1> QED BY <1>1, <1>2, PTL DEF Spec

(* The clock stays in its range, the configuration is one and the URLs are    *)
(* signed under real keys.                                                    *)
THEOREM TypeCorrect == Spec => []TypeOK
  BY Inductive, PTL DEF IInv

(* The layers of the configuration end in the keys the documentation says, or *)
(* in none at all over a list of empty strings.                               *)
LEMMA KeysAsDocumented ==
  ASSUME NEW s \in Source
  PROVE  ValidKeys(s) = IF BlankList(s) THEN {} ELSE Intended(s)
  BY SignedAssumption
     DEF ValidKeys, SigningKeysList, SigningKeys, SigningKey, Intended, BlankList, Source, List

(* Cutting off the fraction loses less than a second and keeps the order.     *)
LEMMA WholeSeconds ==
  ASSUME NEW t \in Int, NEW n \in Int
  PROVE  /\ t <= n => Unix(t) <= Unix(n)
         /\ n >= t + 2 => Unix(n) > Unix(t)
  BY DEF Unix

(* Every URL works until its time is up in each deployment with its key.      *)
THEOREM UnexpiredAccepted == Spec => []SignedURLsWork
  <1>1. IInv => SignedURLsWork
    <2> SUFFICES ASSUME IInv, NEW u \in made, now < u.until, u.mac.key \in Intended(deployed)
                 PROVE  Verdict(Untouched(u)) = "pass"
      BY DEF SignedURLsWork
    <2>0. CASE ValidKeys(deployed) = {}
      BY <2>0 DEF Verdict
    <2>1. SUFFICES ASSUME ValidKeys(deployed) # {}
                   PROVE  Verdict(Untouched(u)) = "pass"
      BY <2>0
    <2>5. u \in SignedLink /\ u.mac.exp = Unix(u.until) /\ u.mac.key \in ValidKeys(deployed)
      BY <2>1, KeysAsDocumented DEF IInv, TypeOK, ExpIsUntil
    <2>2. u.mac \in Signature /\ u.mac.exp \in Int /\ u.mac = Mac(u.mac.key, u.mac.query, u.mac.exp)
      BY <2>5 DEF SignedLink, Signature, Mac
    <2>3. u.mac # Missing /\ u.mac.exp \notin {Missing, Junk}
      BY <2>2, SignedAssumption
    <2>4. ~(Unix(now) > u.mac.exp)
      BY <2>5, WholeSeconds DEF IInv, TypeOK, SignedLink, Unix
    <2> QED BY <2>5, <2>2, <2>3, <2>4 DEF Verdict, Untouched, Expired, Matches, ValidKeys
  <1> QED BY <1>1, Inductive, PTL

(* With keys configured, but a list of empty strings, a request passes only   *)
(* with a valid signature over it under one of them, before the second after  *)
(* its expiry.                                                                *)
LEMMA PassMeansMatch ==
  ASSUME IInv, NEW r, Verdict(r) = "pass", Intended(deployed) # {}, ~BlankList(deployed)
  PROVE  /\ \E k \in Intended(deployed) : r.sig = Mac(k, r.query, r.exp)
         /\ ~Expired(r)
  BY KeysAsDocumented DEF IInv, TypeOK, Verdict, Matches

(* What passes was signed, as it is, under a key of the deployment, when one  *)
(* is configured and the list in force is not the file's with only empty      *)
(* strings.                                                                   *)
THEOREM AcceptedWasSigned == Spec => []OnlySigned
  <1>1. IInv => OnlySigned
    <2> SUFFICES ASSUME IInv, Intended(deployed) # {}, ~BlankList(deployed), NEW q \in Queries,
                        NEW e \in Times \cup {Missing, Junk}, NEW sig \in AtHand(q, e),
                        Verdict([query |-> q, exp |-> e, sig |-> sig]) = "pass"
                 PROVE  \E u \in made : /\ u.mac.key \in Intended(deployed)
                                        /\ u.mac.query = q /\ u.mac.exp = e
      BY DEF OnlySigned
    <2>1. PICK k \in Intended(deployed) : sig = Mac(k, q, e)
      BY PassMeansMatch
    <2>2. k \in Keys /\ k # Blank
      BY SignedAssumption DEF Intended
    <2>3. sig # Mac(Blank, q, e)
      BY <2>1, <2>2 DEF Mac
    <2>4. e \notin {Missing, Junk}
      <3>1. ValidKeys(deployed) # {}
        BY KeysAsDocumented DEF IInv, TypeOK
      <3> QED BY <3>1 DEF Verdict
    <2>5. sig \in Signature
      BY <2>1, <2>2, <2>4, SignedAssumption DEF Times, Mac, Signature
    <2>6. sig \in {u.mac : u \in made}
      BY <2>3, <2>5, SignedAssumption DEF AtHand
    <2> QED BY <2>1, <2>6 DEF Mac
  <1> QED BY <1>1, Inductive, PTL

(* A second after its expiry nothing made out of a URL passes, under the same *)
(* two conditions.                                                            *)
THEOREM ExpiredRefused == Spec => []ExpiryHonoured
  <1>1. IInv => ExpiryHonoured
    <2> SUFFICES ASSUME IInv, Intended(deployed) # {}, ~BlankList(deployed),
                        NEW u \in made, now >= u.until + 2, NEW q \in Queries, NEW e \in Times,
                        Verdict([query |-> q, exp |-> e, sig |-> u.mac]) = "pass"
                 PROVE  FALSE
      BY DEF ExpiryHonoured
    <2>1. PICK k \in Intended(deployed) : u.mac = Mac(k, q, e) /\ ~(Unix(now) > e)
      BY PassMeansMatch DEF Expired
    <2>2. u.mac.exp = e
      BY <2>1 DEF Mac
    <2>3. Unix(now) > Unix(u.until)
      BY WholeSeconds DEF IInv, TypeOK, SignedLink
    <2> QED BY <2>1, <2>2, <2>3 DEF IInv, ExpIsUntil
  <1> QED BY <1>1, Inductive, PTL

(* /process is open to unsigned requests exactly when the start announced it, *)
(* and over a list of empty strings, when nothing did.                        *)
THEOREM OpenAnnounced == Spec => []OpenIsAnnounced
  <1>1. ASSUME NEW q \in Queries
        PROVE  Verdict(Unsigned(q)) = "pass" <=> ValidKeys(deployed) = {}
    BY DEF Verdict, Unsigned
  <1>2. TypeOK => (ValidKeys(deployed) = {} <=> Warns(deployed) \/ BlankList(deployed))
    BY SignedAssumption
       DEF TypeOK, ValidKeys, SigningKeysList, SigningKeys, SigningKey, Warns, BlankList, Source, List
  <1>3. TypeOK => OpenIsAnnounced
    BY <1>1, <1>2 DEF OpenIsAnnounced
  <1> QED BY <1>3, TypeCorrect, PTL
=============================================================================
