----------------------------- MODULE SignedURL -----------------------------
(***************************************************************************)
(* Signed URLs of /process: how the signing keys get from goimager.yaml    *)
(* and the environment into the handler (internal/config), how a URL is    *)
(* signed (cmd/gensig, internal/sign) and what VerifySign makes of a       *)
(* request (internal/middleware/sign.go), while time passes and the        *)
(* service is redeployed with other keys.                                  *)
(*                                                                         *)
(* Time is counted in half seconds, so that a fraction of a second can     *)
(* matter; exp is in whole ones.  The canonical form of a request is its   *)
(* parameters but sig, and HMAC is ideal: nobody makes the signature of a  *)
(* key they do not have.  The order of a key list makes no difference to   *)
(* the answer, so a list is a set.                                         *)
(***************************************************************************)
EXTENDS Integers, FiniteSets

CONSTANTS Keys,        \* signing keys, none of them empty
          Queries,     \* the parameters of a URL but exp and sig
          Lifetimes,   \* gensig -exp, in half seconds
          Blank,       \* the empty string, as a key
          Unset,       \* an environment variable that is not there
          Missing, Junk,
          Deployments, \* what goimager.yaml and the environment may say of keys
          MaxTime,     \* bound: half seconds
          MaxMade      \* bound: URLs that are signed

List == SUBSET (Keys \cup {Blank})
\* signing_key and signing_keys of the file, SIGNING_KEY and SIGNING_KEYS; of
\* the last, {} is a variable that is unset or empty and {Blank} only commas.
Source == [yamlKey : Keys \cup {Blank}, yamlKeys : List,
           envKey : Keys \cup {Blank, Unset}, envKeys : List]

Unix(t) == t \div 2
Mac(k, q, e) == [key |-> k, query |-> q, exp |-> e]
Signature == [key : Keys \cup {Blank}, query : Queries, exp : Int]
SignedLink == [mac : [key : Keys, query : Queries, exp : Int], until : Int]

ASSUME SignedAssumption ==
  /\ Lifetimes \subseteq Int /\ Deployments \subseteq Source
  /\ Blank \notin Keys /\ Unset \notin Keys \cup {Blank}
  /\ Missing \notin Signature \cup Int /\ Junk \notin Signature \cup Int
  /\ MaxTime \in Nat /\ MaxMade \in Nat

VARIABLES now,      \* the clock that signers and server share
          deployed, \* the configuration the service was started with
          made      \* the URLs that were signed, and until when each shall work

vars == <<now, deployed, made>>

TypeOK == now \in 0..MaxTime /\ deployed \in Source /\ made \subseteq SignedLink

Init == now = 0 /\ deployed \in Deployments /\ made = {}

-----------------------------------------------------------------------------
(* From the sources to the keys of the handler                               *)

\* applyEnv: what it leaves in Auth.SigningKey and Auth.SigningKeys, ...
SigningKey(s) == IF s.envKey = Unset THEN s.yamlKey ELSE s.envKey

\* ... and when the parts between the commas are all kept.
CommasKept(s) == IF s.envKeys = {} THEN s.yamlKeys ELSE s.envKeys
SigningKeys(s) == IF s.envKeys = {} THEN s.yamlKeys
                  ELSE s.envKeys \ {Blank}

SigningKeysList(s) == IF SigningKeys(s) # {} THEN SigningKeys(s)
                      ELSE {SigningKey(s)} \ {Blank}

\* warnOpenProcess, with the allowlist at its default of "*": what it logs at
\* the start, and when it looks at the single key only.
WarnsByKey(s) == SigningKey(s) = Blank
Warns(s) == SigningKeysList(s) = {}

\* The keys VerifySign keeps.
ValidKeys(s) == SigningKeysList(s) \ {Blank}

-----------------------------------------------------------------------------
(* One request                                                               *)

\* sign.Valid under one key, and when exp is no part of the canonical form.
QueryOnly(k, r) == k # Blank /\ r.sig.key = k /\ r.sig.query = r.query
Matches(k, r) == k # Blank /\ r.sig = Mac(k, r.query, r.exp)

InPast(r) == Unix(now) >= r.exp
Expired(r) == Unix(now) > r.exp

\* The answer to r: "pass" goes on to the handler.
Verdict(r) ==
  IF ValidKeys(deployed) = {} THEN "pass"
  ELSE IF r.sig = Missing \/ r.exp \in {Missing, Junk} THEN "401"
  ELSE IF Expired(r) THEN "410"
  ELSE IF \E k \in ValidKeys(deployed) : Matches(k, r) THEN "pass"
  ELSE "401"

-----------------------------------------------------------------------------
Tick == /\ now < MaxTime
        /\ now' = now + 1
        /\ UNCHANGED <<deployed, made>>

\* gensig, or a backend that does the same; a missing key is refused.
NoKeyCheck(k) == TRUE
KeyGiven(k) == k # Blank
Gensig(k, q, life) ==
  /\ KeyGiven(k)
  /\ Cardinality(made) < MaxMade
  /\ made' = made \cup {[mac |-> Mac(k, q, Unix(now + life)), until |-> now + life]}
  /\ UNCHANGED <<now, deployed>>

\* Load runs at start only: a change of keys is a restart.
Deploy(s) == /\ deployed' = s
             /\ UNCHANGED <<now, made>>

Next == \/ Tick
        \/ \E k \in Keys \cup {Blank}, q \in Queries, life \in Lifetimes : Gensig(k, q, life)
        \/ \E s \in Deployments : Deploy(s)

Spec == Init /\ [][Next]_vars

-----------------------------------------------------------------------------
(* What the documentation says of the sources (README.md:255, 386-387): a list *)
(* counts before a single key and the environment before the file; only       *)
(* non-empty keys count, wherever they stand.                                 *)
Intended(s) ==
  LET list == IF s.envKeys = {} THEN s.yamlKeys ELSE s.envKeys
      single == IF s.envKey = Unset THEN s.yamlKey ELSE s.envKey
  IN {k \in Keys : k \in list \/ (list \subseteq {Blank} /\ k = single)}

(* The one kind of deployment in which the code disagrees: the list in force  *)
(* is the file's and has only empty strings.  The list decides, since it has  *)
(* a length, and VerifySign finds no key in it: /process is open whatever     *)
(* SIGNING_KEY says (config.go:81, middleware/sign.go:20-21).                 *)
BlankList(s) == s.envKeys = {} /\ s.yamlKeys = {Blank}

Unsigned(q) == [query |-> q, exp |-> Missing, sig |-> Missing]

(* A browser sends the URL it was given.                                      *)
Untouched(u) == [query |-> u.mac.query, exp |-> u.mac.exp, sig |-> u.mac]

(* What a client can put into sig: the signature of any URL there is, one made *)
(* with the empty key, a wrong one or nothing.                                *)
AtHand(q, e) == {u.mac : u \in made} \cup {Missing, Junk, Mac(Blank, q, e)}

Times == -1..MaxTime

(* A signed URL works for as long as it was signed for, to the fraction of a  *)
(* second, in every deployment that lists its key: zero-downtime rotation.    *)
SignedURLsWork ==
  \A u \in made :
    now < u.until /\ u.mac.key \in Intended(deployed) => Verdict(Untouched(u)) = "pass"

(* With a key configured, what passes was signed as it is, parameters and     *)
(* expiry, under a key of this deployment.  Not so over a BlankList.          *)
OnlySigned ==
  Intended(deployed) # {} /\ ~BlankList(deployed) =>
    \A q \in Queries, e \in Times \cup {Missing, Junk} : \A sig \in AtHand(q, e) :
      Verdict([query |-> q, exp |-> e, sig |-> sig]) = "pass" =>
        \E u \in made : u.mac.key \in Intended(deployed) /\ u.mac.query = q /\ u.mac.exp = e

(* With a key configured, nothing that comes out of a URL works a second      *)
(* after the URL expired, whatever its parameters are replaced with.  Not so  *)
(* over a BlankList.                                                          *)
ExpiryHonoured ==
  Intended(deployed) # {} /\ ~BlankList(deployed) =>
    \A u \in made : now >= u.until + 2 =>
      \A q \in Queries, e \in Times :
        Verdict([query |-> q, exp |-> e, sig |-> u.mac]) # "pass"

(* main.go:129: a start that leaves /process open is announced in the log, and *)
(* no other is.  A BlankList is open without the announcement.                *)
OpenIsAnnounced ==
  \A q \in Queries :
    Verdict(Unsigned(q)) = "pass" <=> Warns(deployed) \/ BlankList(deployed)

(* README.md:230: "When SIGNING_KEY is set, every /process URL must carry exp *)
(* + sig".  False over a BlankList.                                           *)
KeyMeansSigned ==
  Intended(deployed) # {} => \A q \in Queries : Verdict(Unsigned(q)) # "pass"
=============================================================================
