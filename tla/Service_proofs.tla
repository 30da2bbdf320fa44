--------------------------- MODULE Service_proofs ---------------------------
(***************************************************************************)
(* Proofs about Service, for any number of connections, any timeouts, any  *)
(* requests and tools, and any number of crashes and restarts.             *)
(***************************************************************************)
EXTENDS Service, FiniteSetTheorems, TLAPS

(* The exit code, as in ServerLifecycle_proofs.                               *)
ExitPart == /\ errCh \in {"empty", "ErrServerClosed", "failure"}
            /\ errCh = "ErrServerClosed" => main \in {"drain", "exit"}
            /\ code = "0" => main = "exit"
            /\ code = "0" => \A c \in Conns : ~Server!InFlight(c)

(* encodeAvif has one file of its own until it has made the second.           *)
Few == \A c \in Conns : /\ pc[c] \in {"avifPng", "avifOut"} => \E a : mine[c] \subseteq {a}
                        /\ pc[c] \in {"avifRun", "avifRead"} => \E a, b : mine[c] \subseteq {a, b}

(* Only encodeAvif has files of its own.                                      *)
FilesPart == /\ pc \in [Conns -> Image!Places]
             /\ mine \in [Conns -> SUBSET TempNames]
             /\ temp \subseteq TempNames
             /\ \A c \in Conns : mine[c] # {} => pc[c] \in Image!AvifSteps
             /\ LeftoversUntouched

(* As this composition joins the two: a handler that has taken a request is   *)
(* on a connection that counts as one in flight.                              *)
HandlerAtWork == \A c \in Conns : pc[c] # "idle" => conn[c] = "work"

ConnPart == /\ conn \in [Conns -> {"none", "header", "body", "work", "idle"}]
            /\ HandlerAtWork

SInv == ExitPart /\ FilesPart /\ Few /\ ConnPart

LEMMA InitInv == Init => SInv
  BY DEF Init, Server!Init, Image!Init, SInv, ExitPart, FilesPart, ConnPart, HandlerAtWork,
     LeftoversUntouched, Few, Image!Places, Image!AvifSteps

-----------------------------------------------------------------------------
(* The three things a step of a handler may do to the temporary files.        *)

CleansUp(c) == /\ temp' = temp \ mine[c]
               /\ mine' = [mine EXCEPT ![c] = {}]
Leaves(c, p) == /\ UNCHANGED <<temp, mine>>
                /\ \/ pc[c] \notin Image!AvifSteps /\ p \notin Image!AvifSteps
                   \/ <<pc[c], p>> \in {<<"avifPng", "avifOut">>, <<"avifRun", "avifRead">>}
Takes(c, p) == /\ <<pc[c], p>> \in {<<"avifIn", "avifPng">>, <<"avifOut", "avifRun">>}
               /\ \E f \in TempNames \ temp : /\ temp' = temp \cup {f}
                                              /\ mine' = [mine EXCEPT ![c] = @ \cup {f}]

LEMMA HandlerStep ==
  ASSUME NEW c \in Conns, Image!Step(c), ~Image!Finish(c)
  PROVE  \E p \in Image!Places \ {"idle"} : /\ pc' = [pc EXCEPT ![c] = p]
                                            /\ CleansUp(c) \/ Leaves(c, p) \/ Takes(c, p)
  <1> DEFINE Goal == \E p \in Image!Places \ {"idle"} :
                       /\ pc' = [pc EXCEPT ![c] = p]
                       /\ CleansUp(c) \/ Leaves(c, p) \/ Takes(c, p)
  <1>a. ASSUME NEW answer, Image!Answer(c, answer) PROVE Goal
    BY <1>a DEF Image!Answer, CleansUp, Image!Places
  <1>g. ASSUME NEW p \in Image!Places \ {"idle"}, Image!Goto(c, p), UNCHANGED <<temp, mine>>,
               \/ pc[c] \notin Image!AvifSteps /\ p \notin Image!AvifSteps
               \/ <<pc[c], p>> \in {<<"avifPng", "avifOut">>, <<"avifRun", "avifRead">>}
        PROVE  Goal
    BY <1>g DEF Image!Goto, Leaves
  <1>c. ASSUME NEW at, NEW next, <<at, next>> \in {<<"avifIn", "avifPng">>, <<"avifOut", "avifRun">>},
               Image!CreateTemp(c, at, next)
        PROVE  Goal
    <2>1. CASE Image!AvifFails(c)
      BY <2>1, <1>a DEF Image!AvifFails
    <2>2. CASE \E f \in TempNames \ temp : Image!Create(c, f) /\ Image!Goto(c, next)
      <3>1. pc' = [pc EXCEPT ![c] = next] /\ Takes(c, next)
        BY <1>c, <2>2 DEF Image!CreateTemp, Image!Create, Image!Goto, Takes
      <3>2. next \in Image!Places \ {"idle"}
        BY <1>c DEF Image!Places, Image!AvifSteps
      <3> QED BY <3>1, <3>2
    <2> QED BY <1>c, <2>1, <2>2 DEF Image!CreateTemp
  <1>p. {"pngquant", "cjpeg", "cwebp", "avifIn", "avifOut", "avifRead"} \subseteq Image!Places \ {"idle"}
    BY DEF Image!Places, Image!AvifSteps
  <1> SUFFICES Goal
    OBVIOUS
  <1> HIDE DEF Goal
  <1>1. CASE \/ Image!EncodeGif(c) \/ Image!RunOptimizer(c, "png", "pngquant")
             \/ Image!RunOptimizer(c, "jpeg", "cjpeg") \/ Image!RunCwebp(c)
    BY <1>1, <1>a DEF Image!EncodeGif, Image!RunOptimizer, Image!RunCwebp
  <1>2. ASSUME NEW f, NEW t \in {"pngquant", "cjpeg"}, Image!EncodeNative(c, f, t) PROVE Goal
    <2>1. pc[c] \notin Image!AvifSteps
      BY <1>2 DEF Image!EncodeNative, Image!Encoding, Image!AvifSteps
    <2> QED BY <1>2, <2>1, <1>a, <1>g, <1>p DEF Image!EncodeNative, Image!AvifSteps
  <1>3. ASSUME NEW f, NEW t, NEW p \in {"cwebp", "avifIn"}, Image!EncodeExternal(c, f, t, p) PROVE Goal
    <2>1. pc[c] \notin Image!AvifSteps
      BY <1>3 DEF Image!EncodeExternal, Image!Encoding, Image!AvifSteps
    <2> QED BY <1>3, <2>1, <1>a, <1>g, <1>p DEF Image!EncodeExternal, Image!AvifSteps
  <1>4. CASE Image!AvifIn(c) \/ Image!AvifOut(c)
    BY <1>4, <1>c DEF Image!AvifIn, Image!AvifOut, Image!AvifSteps
  <1>5. CASE Image!AvifPng(c) \/ Image!AvifRun(c) \/ Image!AvifRead(c)
    BY <1>5, <1>a, <1>g, <1>p DEF Image!AvifPng, Image!AvifRun, Image!AvifRead, Image!AvifFails,
       Image!AvifSteps
  <1> QED BY <1>1, <1>2, <1>3, <1>4, <1>5 DEF Image!Step

(* Cleaning up takes a request's own files and no others.                     *)
LEMMA CleansUpKeeps ==
  ASSUME FilesPart, NEW c \in Conns, NEW p \in Image!Places,
         pc' = [pc EXCEPT ![c] = p], CleansUp(c), UNCHANGED left
  PROVE  FilesPart'
  <1>1. mine'[c] = {} /\ \A d \in Conns \ {c} : mine'[d] = mine[d] /\ pc'[d] = pc[d]
    BY DEF FilesPart, CleansUp
  <1>2. temp' = left \cup UNION {mine'[d] : d \in Conns}
    <2>1. \A d \in Conns \ {c} : mine[d] \cap mine[c] = {}
      BY DEF FilesPart, LeftoversUntouched
    <2>2. temp = left \cup UNION {mine[d] : d \in Conns} /\ mine[c] \cap left = {}
      BY DEF FilesPart, LeftoversUntouched
    <2> QED BY <1>1, <2>1, <2>2 DEF CleansUp
  <1>3. pc' \in [Conns -> Image!Places] /\ mine' \in [Conns -> SUBSET TempNames] /\ temp' \subseteq TempNames
    BY DEF FilesPart, CleansUp
  <1> QED BY <1>1, <1>2, <1>3 DEF FilesPart, LeftoversUntouched

(* A new file has a name that nobody's file has, a leftover's neither.        *)
LEMMA TakesKeeps ==
  ASSUME FilesPart, NEW c \in Conns, NEW p \in Image!Places,
         pc' = [pc EXCEPT ![c] = p], Takes(c, p), UNCHANGED left
  PROVE  FilesPart'
  <1>1. PICK f \in TempNames \ temp : /\ temp' = temp \cup {f}
                                      /\ mine' = [mine EXCEPT ![c] = @ \cup {f}]
    BY DEF Takes
  <1>2. /\ mine'[c] = mine[c] \cup {f} /\ pc'[c] = p
        /\ \A d \in Conns \ {c} : mine'[d] = mine[d] /\ pc'[d] = pc[d]
    BY <1>1 DEF FilesPart
  <1>3. temp = left \cup UNION {mine[d] : d \in Conns}
    BY DEF FilesPart, LeftoversUntouched
  <1>4. temp' = left' \cup UNION {mine'[d] : d \in Conns}
    BY <1>1, <1>2, <1>3
  <1>5. f \notin left /\ \A d \in Conns : f \notin mine[d]
    BY <1>3
  <1>6. pc' \in [Conns -> Image!Places] /\ mine' \in [Conns -> SUBSET TempNames] /\ temp' \subseteq TempNames
    BY <1>1 DEF FilesPart
  <1> QED BY <1>2, <1>4, <1>5, <1>6 DEF FilesPart, LeftoversUntouched, Takes, Image!AvifSteps

LEMMA LeavesKeeps ==
  ASSUME FilesPart, NEW c \in Conns, NEW p \in Image!Places,
         pc' = [pc EXCEPT ![c] = p], Leaves(c, p), UNCHANGED left
  PROVE  FilesPart'
  BY DEF FilesPart, LeftoversUntouched, Leaves, Image!AvifSteps

(* A request only makes a second file when it has one.                        *)
LEMMA FewKept ==
  ASSUME FilesPart, Few, NEW c \in Conns, NEW p \in Image!Places,
         pc' = [pc EXCEPT ![c] = p], CleansUp(c) \/ Leaves(c, p) \/ Takes(c, p)
  PROVE  Few'
  <1>1. /\ pc'[c] = p /\ \A d \in Conns \ {c} : pc'[d] = pc[d] /\ mine'[d] = mine[d]
        /\ mine \in [Conns -> SUBSET TempNames]
    BY DEF FilesPart, CleansUp, Leaves, Takes
  <1>2. CASE CleansUp(c)
    BY <1>1, <1>2 DEF Few, CleansUp
  <1>3. CASE Leaves(c, p)
    BY <1>1, <1>3 DEF Few, Leaves, Image!AvifSteps
  <1>4. CASE Takes(c, p)
    <2>1. PICK f : mine'[c] = mine[c] \cup {f}
      BY <1>1, <1>4 DEF Takes
    <2>2. CASE pc[c] = "avifIn" /\ p = "avifPng"
      <3>1. mine'[c] \subseteq {f}
        BY <2>1, <2>2 DEF FilesPart, Image!AvifSteps
      <3> QED BY <1>1, <2>2, <3>1 DEF Few
    <2>3. CASE pc[c] = "avifOut" /\ p = "avifRun"
      <3>1. PICK a : mine[c] \subseteq {a}
        BY <2>3 DEF Few
      <3>2. mine'[c] \subseteq {a, f}
        BY <2>1, <3>1
      <3> QED BY <1>1, <2>3, <3>2 DEF Few
    <2> QED BY <1>4, <2>2, <2>3 DEF Takes
  <1> QED BY <1>2, <1>3, <1>4

-----------------------------------------------------------------------------
(* Whatever the server does besides running handlers, it closes no connection *)
(* under one, and 0 is returned only when no request is in flight.            *)
LEMMA ServeInv == ASSUME SInv, Serve PROVE SInv'
  <1> USE DEF SInv
  <1>0. UNCHANGED <<pc, req, res, temp, mine, left>>
    BY DEF Serve, handlers
  <1>f. FilesPart' /\ Few'
    BY <1>0 DEF FilesPart, Few, LeftoversUntouched
  <1>1. CASE Server!Run
    <2>1. UNCHANGED conn
      BY <1>1 DEF Server!Run, Server!Load, Server!Spawn, Server!Notify, Server!ListenEnded,
         Server!BeginDrain, Server!Drained, Server!DrainTimedOut, Server!net
    <2>2. ConnPart'
      BY <1>0, <2>1 DEF ConnPart, HandlerAtWork
    <2>3. ExitPart'
      <3> USE DEF ExitPart, Server!InFlight, Server!Exit
      <3>1. CASE Server!Load
        BY <2>1, <3>1 DEF Server!Load
      <3>2. CASE Server!Spawn \/ Server!Notify \/ Server!BeginDrain
        BY <2>1, <3>2 DEF Server!Spawn, Server!Notify, Server!BeginDrain
      <3>3. CASE Server!ListenEnded
        BY <2>1, <3>3 DEF Server!ListenEnded, Server!ErrReceivable
      <3>4. CASE Server!Drained
        BY <2>1, <3>4 DEF Server!Drained, Server!Quiescent, Server!Closable
      <3>5. CASE Server!DrainTimedOut
        BY <2>1, <3>5 DEF Server!DrainTimedOut, Server!DrainFailed
      <3> QED BY <1>1, <3>1, <3>2, <3>3, <3>4, <3>5 DEF Server!Run
    <2> QED BY <1>f, <2>2, <2>3
  <1>2. CASE Server!Bind \/ Server!AcceptFails \/ Server!Signal \/ Server!Tick
    <2>1. UNCHANGED conn
      BY <1>2 DEF Server!Bind, Server!AcceptFails, Server!Signal, Server!Tick, Server!net
    <2>2. ConnPart'
      BY <1>0, <2>1 DEF ConnPart, HandlerAtWork
    <2>3. ExitPart'
      BY <1>2, <2>1 DEF ExitPart, Server!InFlight, Server!Exit, Server!Alive,
         Server!Bind, Server!AcceptFails, Server!Signal, Server!Tick, Server!net
    <2> QED BY <1>f, <2>2, <2>3
  <1>3. ASSUME NEW c \in Conns,
               \/ Server!Accept(c) \/ Server!HeaderRead(c) \/ Server!BodyRead(c)
               \/ Server!ReadTimesOut(c) \/ Server!CloseIdle(c)
        PROVE  SInv'
    <2>1. /\ conn[c] # "work" /\ main # "exit" /\ UNCHANGED <<main, code, errCh>>
          /\ \E s \in {"none", "header", "body", "work"} : conn' = [conn EXCEPT ![c] = s]
      BY <1>3 DEF ConnPart, Server!Accept, Server!HeaderRead, Server!BodyRead, Server!ReadTimesOut,
         Server!CloseIdle, Server!Alive, Server!TimeoutDue, Server!Closable
    <2>2. ConnPart'
      BY <1>0, <2>1 DEF ConnPart, HandlerAtWork
    <2>3. ExitPart'
      BY <2>1 DEF ExitPart
    <2> QED BY <1>f, <2>2, <2>3
  <1> QED BY <1>1, <1>2, <1>3 DEF Serve

LEMMA HandleInv == ASSUME SInv, NEW c \in Conns, Handle(c) PROVE SInv'
  <1>0. conn[c] = "work" /\ UNCHANGED <<main, code, errCh, conn, left>>
    BY DEF Handle, server
  <1>1. ExitPart'
    BY <1>0 DEF SInv, ExitPart, Server!InFlight
  <1>2. PICK p \in Image!Places : /\ pc' = [pc EXCEPT ![c] = p]
                                  /\ CleansUp(c) \/ Leaves(c, p) \/ Takes(c, p)
    <2>1. ASSUME NEW r \in Requests, Image!Begin(c, r)
          PROVE  \E p \in Image!Places : pc' = [pc EXCEPT ![c] = p] /\ Leaves(c, p)
      BY <2>1 DEF Image!Begin, Leaves, Image!Places, Image!AvifSteps
    <2> QED BY <2>1, HandlerStep DEF Handle
  <1>3. FilesPart' /\ Few'
    BY <1>0, <1>2, CleansUpKeeps, LeavesKeeps, TakesKeeps, FewKept DEF SInv
  <1>4. ConnPart'
    BY <1>0, <1>2 DEF SInv, ConnPart, FilesPart, HandlerAtWork
  <1> QED BY <1>1, <1>3, <1>4 DEF SInv

LEMMA FinishInv == ASSUME SInv, NEW c \in Conns, Finish(c) PROVE SInv'
  <1>0. /\ main # "exit" /\ UNCHANGED <<main, code, errCh, left>>
        /\ \E s \in {"idle", "none"} : conn' = [conn EXCEPT ![c] = s]
    BY DEF Finish, Server!Finish, Server!Alive
  <1>1. ExitPart'
    BY <1>0 DEF SInv, ExitPart
  <1>2. pc' = [pc EXCEPT ![c] = "idle"] /\ UNCHANGED <<temp, mine>> /\ pc[c] \notin Image!AvifSteps
    <2>1. CASE pc[c] = "idle"
      BY <2>1 DEF Finish, handlers, SInv, FilesPart, Image!AvifSteps
    <2>2. CASE pc[c] # "idle"
      BY <2>2 DEF Finish, Image!Finish, Image!AvifSteps
    <2> QED BY <2>1, <2>2
  <1>3. FilesPart' /\ Few'
    <2>1. Leaves(c, "idle") /\ "idle" \in Image!Places
      BY <1>2 DEF Leaves, Image!Places, Image!AvifSteps
    <2> QED BY <1>0, <1>2, <2>1, LeavesKeeps, FewKept DEF SInv
  <1>4. ConnPart'
    BY <1>0, <1>2 DEF SInv, ConnPart, FilesPart, HandlerAtWork
  <1> QED BY <1>1, <1>3, <1>4 DEF SInv

LEMMA CrashInv == ASSUME SInv, Crash PROVE SInv'
  BY DEF SInv, Crash, Server!Exit, Server!Alive, handlers, ExitPart, FilesPart, LeftoversUntouched,
     ConnPart, HandlerAtWork, Few, Server!InFlight

LEMMA RestartInv == ASSUME SInv, Restart PROVE SInv'
  <1>1. ExitPart'
    BY DEF Restart, ExitPart
  <1>2. \A c \in Conns : mine'[c] = {}
    BY DEF Restart
  <1>3. FilesPart' /\ Few'
    <2>1. FilesPart'
      BY <1>2 DEF Restart, SInv, FilesPart, LeftoversUntouched, Image!Places
    <2>2. \A c \in Conns : pc'[c] = "idle"
      BY DEF Restart
    <2> QED BY <2>1, <2>2 DEF Few
  <1>4. ConnPart'
    BY DEF Restart, ConnPart, HandlerAtWork
  <1> QED BY <1>1, <1>3, <1>4 DEF SInv

LEMMA StepInv == ASSUME SInv, [Next]_vars PROVE SInv'
  <1>1. UNCHANGED vars => SInv'
    BY DEF vars, server, handlers, SInv, ExitPart, FilesPart, Few, LeftoversUntouched, ConnPart,
       HandlerAtWork, Server!InFlight
  <1> QED BY <1>1, ServeInv, HandleInv, FinishInv, CrashInv, RestartInv DEF Next

LEMMA Inductive == Spec => []SInv
  BY InitInv, StepInv, PTL DEF Spec

(* Files of an earlier process are never taken for a new one's or removed.    *)
THEOREM LeftoversKept == Spec => []LeftoversUntouched
  BY Inductive, PTL DEF SInv, FilesPart

(* A process that ends with 0 has removed every temporary file it made.       *)
THEOREM CleanExitIsClean == Spec => []CleanExitLeavesNothing
  <1>1. SInv => CleanExitLeavesNothing
    <2> SUFFICES ASSUME SInv, code = "0" PROVE temp = left
      BY DEF CleanExitLeavesNothing
    <2>1. \A c \in Conns : pc[c] = "idle"
      BY DEF SInv, ExitPart, ConnPart, HandlerAtWork, Server!InFlight
    <2>2. \A c \in Conns : mine[c] = {}
      BY <2>1 DEF SInv, FilesPart, Image!AvifSteps
    <2>3. temp = left \cup UNION {mine[c] : c \in Conns}
      BY DEF SInv, FilesPart, LeftoversUntouched
    <2> QED BY <2>2, <2>3
  <1> QED BY <1>1, Inductive, PTL

-----------------------------------------------------------------------------
(* How many files                                                            *)

(* At most two files each of finitely many owners: every file is known by its *)
(* owner and by being the first one of it or not.                             *)
LEMMA TwoEach ==
  ASSUME NEW S, IsFiniteSet(S), NEW own, \A c \in S : \E a, b : own[c] \subseteq {a, b},
         NEW F, F \subseteq UNION {own[c] : c \in S}
  PROVE  Cardinality(F) <= 2 * Cardinality(S)
<1> DEFINE owner == [f \in F |-> CHOOSE c \in S : f \in own[c]]
           first == [c \in S |-> CHOOSE a : \E b : own[c] \subseteq {a, b}]
           tag == [f \in F |-> <<owner[f], IF f = first[owner[f]] THEN 1 ELSE 2>>]
           T == S \X {1, 2}
<1>1. \A f \in F : owner[f] \in S /\ f \in own[owner[f]]
  OBVIOUS
<1>2. \A c \in S : \E b : own[c] \subseteq {first[c], b}
  <2> TAKE c \in S
  <2>1. \E a : \E b : own[c] \subseteq {a, b}
    OBVIOUS
  <2> QED BY <2>1
<1> HIDE DEF owner, first
<1>3. tag \in Injection(F, T)
  <2>1. tag \in [F -> T]
    BY <1>1
  <2>2. ASSUME NEW f \in F, NEW g \in F, tag[f] = tag[g] PROVE f = g
    <3>1. owner[f] = owner[g] /\ (f = first[owner[f]] <=> g = first[owner[f]])
      BY <2>2
    <3> QED BY <1>1, <1>2, <3>1
  <2> QED BY <2>1, <2>2 DEF Injection, IsInjective
<1>4. IsFiniteSet(T) /\ Cardinality(T) = Cardinality(S) * 2
  <2>1. IsFiniteSet({1, 2}) /\ Cardinality({1, 2}) = 2
    <3>1. IsFiniteSet({1}) /\ Cardinality({1}) = 1
      BY FS_Singleton
    <3>2. IsFiniteSet({1} \cup {2}) /\ Cardinality({1} \cup {2}) = 2
      BY <3>1, FS_AddElement
    <3>3. {1} \cup {2} = {1, 2}
      OBVIOUS
    <3> QED BY <3>2, <3>3
  <2> QED BY <2>1, FS_Product
<1>5. Cardinality(F) <= Cardinality(T)
  BY <1>3, <1>4, FS_Injection
<1>6. Cardinality(S) \in Nat
  BY FS_CardinalityType
<1> QED BY <1>4, <1>5, <1>6

(* A restart is the only way from one process to the next.                    *)
LEMMA OnlyRestart == ASSUME SInv, Next, Restarted PROVE Restart
  <1> SUFFICES ASSUME ~Restart PROVE FALSE
    OBVIOUS
  <1> USE DEF Restarted
  <1>1. CASE Serve
    BY <1>1 DEF Serve, Server!Run, Server!Load, Server!Spawn, Server!Notify, Server!ListenEnded,
       Server!BeginDrain, Server!Drained, Server!DrainTimedOut, Server!Bind, Server!AcceptFails,
       Server!Signal, Server!Tick, Server!Accept, Server!HeaderRead, Server!BodyRead,
       Server!ReadTimesOut, Server!CloseIdle, Server!Alive, Server!Exit, Server!net
  <1>2. ASSUME NEW c \in Conns, Handle(c) \/ Finish(c) PROVE FALSE
    BY <1>2 DEF Handle, Finish, Server!Finish, Server!Alive, server
  <1>3. CASE Crash
    BY <1>3 DEF Crash, Server!Exit
  <1> QED BY <1>1, <1>2, <1>3 DEF Next

(* A process leaves files only when it did not end cleanly, and at most two   *)
(* for each request it had in flight.                                         *)
THEOREM LeakIsBounded == Spec => LeakBounded
  <1> DEFINE S == {c \in Conns : Server!InFlight(c)}
  <1>1. ASSUME SInv, [Next]_vars, Restarted
        PROVE  /\ left' # left => code # "0"
               /\ Cardinality(left' \ left) <= 2 * Cardinality(S)
    <2>1. Restart
      <3>1. CASE UNCHANGED vars
        BY <1>1, <3>1 DEF vars, server, Restarted
      <3> QED BY <1>1, <3>1, OnlyRestart
    <2>2. left' = temp
      BY <2>1 DEF Restart
    <2>3. temp = left \cup UNION {mine[c] : c \in Conns}
      BY <1>1 DEF SInv, FilesPart, LeftoversUntouched
    <2>4. \A c \in Conns : mine[c] # {} => c \in S
      BY <1>1 DEF SInv, FilesPart, ConnPart, HandlerAtWork, Server!InFlight, Image!AvifSteps
    <2>5. code = "0" => left' = left
      <3>1. code = "0" => \A c \in Conns : mine[c] = {}
        BY <1>1, <2>4 DEF SInv, ExitPart
      <3> QED BY <2>2, <2>3, <3>1
    <2>6. left' \ left \subseteq UNION {mine[c] : c \in S}
      BY <2>2, <2>3, <2>4
    <2>7. \A c \in S : \E a, b : mine[c] \subseteq {a, b}
      <3> TAKE c \in S
      <3>1. c \in Conns
        OBVIOUS
      <3>2. CASE mine[c] = {}
        BY <3>2
      <3>3. CASE pc[c] \in {"avifPng", "avifOut"}
        BY <1>1, <3>1, <3>3 DEF SInv, Few
      <3>4. CASE pc[c] \in {"avifRun", "avifRead"}
        BY <1>1, <3>1, <3>4 DEF SInv, Few
      <3> QED BY <1>1, <3>1, <3>2, <3>3, <3>4 DEF SInv, FilesPart, Image!AvifSteps
    <2>8. IsFiniteSet(S)
      BY FS_Subset, ConnsAssumption
    <2>9. Cardinality(left' \ left) <= 2 * Cardinality(S)
      <3> HIDE DEF S
      <3> QED BY <2>6, <2>7, <2>8, TwoEach
    <2> QED BY <2>5, <2>9
  <1>2. SInv /\ [Next]_vars => [Restarted => /\ left' # left => code # "0"
                                             /\ Cardinality(left' \ left) <=
                                                  2 * Cardinality({c \in Conns : Server!InFlight(c)})]_vars
    BY <1>1
  <1> QED BY <1>2, Inductive, PTL DEF Spec, LeakBounded

-----------------------------------------------------------------------------
(* What the components' own proofs say here                                  *)

SP == INSTANCE ServerLifecycle_proofs
IP == INSTANCE ImageService_proofs WITH Goroutines <- Conns

(* The instances the proofs are about are the ones the service is made of.    *)
LEMMA SameServer ==
  /\ Server!Run \/ Server!Bind \/ Server!AcceptFails \/ Server!Signal \/ Server!Tick => SP!Next
  /\ \A c \in Conns : (\/ Server!Accept(c) \/ Server!HeaderRead(c) \/ Server!BodyRead(c)
                       \/ Server!ReadTimesOut(c) \/ Server!CloseIdle(c) \/ Server!Finish(c)) => SP!Next
  <1>1. Server!Run \/ Server!Bind \/ Server!AcceptFails \/ Server!Signal \/ Server!Tick => SP!Next
    BY DEF SP!Next, Server!Run, SP!Run, Server!Bind, SP!Bind, Server!AcceptFails, SP!AcceptFails,
       Server!Signal, SP!Signal, Server!Tick, SP!Tick, Server!Load, SP!Load, Server!Spawn, SP!Spawn,
       Server!Notify, SP!Notify, Server!ListenEnded, SP!ListenEnded, Server!BeginDrain,
       SP!BeginDrain, Server!Drained, SP!Drained, Server!DrainTimedOut, SP!DrainTimedOut,
       Server!net, SP!net, Server!Quiescent, SP!Quiescent, Server!Closable, SP!Closable,
       Server!DrainFailed, SP!DrainFailed, Server!Exit, SP!Exit, Server!Alive, SP!Alive,
       Server!Less, SP!Less, Server!ErrReceivable, SP!ErrReceivable, Server!DrainExpired,
       SP!DrainExpired, Server!Timeouts, SP!Timeouts
  <1>2. ASSUME NEW c \in Conns
        PROVE  (\/ Server!Accept(c) \/ Server!HeaderRead(c) \/ Server!BodyRead(c)
                \/ Server!ReadTimesOut(c) \/ Server!CloseIdle(c) \/ Server!Finish(c)) => SP!Next
    BY DEF SP!Next, Server!Accept, SP!Accept, Server!HeaderRead, SP!HeaderRead, Server!BodyRead,
       SP!BodyRead, Server!ReadTimesOut, SP!ReadTimesOut, Server!CloseIdle, SP!CloseIdle,
       Server!Finish, SP!Finish, Server!Alive, SP!Alive, Server!Closable, SP!Closable,
       Server!TimeoutDue, SP!TimeoutDue, Server!Timeouts, SP!Timeouts
  <1> QED BY <1>1, <1>2

LEMMA HandlerAssumptions == IP!RequestAssumption /\ IP!LimitAssumption
  BY ImageAssumptions DEF Image!RequestAssumption, IP!RequestAssumption, Image!LimitAssumption,
     IP!LimitAssumption, Image!Request, IP!Request, Image!Size, IP!Size, Image!Decodable, IP!Decodable,
     Image!Formats, IP!Formats, Image!Tools, IP!Tools

LEMMA SameOutput ==
  ASSUME NEW r
  PROVE  /\ Image!OutFormat(r) = IP!OutFormat(r)
         /\ Image!OutSize(r) = IP!OutSize(r)
         /\ \A f : Image!ContentType(f) = IP!ContentType(f)
  <1>1. Image!OutFormat(r) = IP!OutFormat(r)
    BY DEF Image!OutFormat, IP!OutFormat, Image!Asked, IP!Asked, Image!NormalizeFormat,
       IP!NormalizeFormat
  <1>2. Image!OutSize(r) = IP!OutSize(r)
    BY DEF Image!OutSize, IP!OutSize, Image!Apply, IP!Apply, Image!Fill, IP!Fill, Image!Fit, IP!Fit,
       Image!Resize, IP!Resize, Image!Scaled, IP!Scaled, Image!AtLeastOne, IP!AtLeastOne,
       Image!NoArea, IP!NoArea, Image!Empty, IP!Empty, Image!Capped, IP!Capped, Image!Least,
       IP!Least, Image!Transformed, IP!Transformed, Image!Turned, IP!Turned, Image!Side, IP!Side
  <1>3. \A f : Image!ContentType(f) = IP!ContentType(f)
    BY DEF Image!ContentType, IP!ContentType
  <1> QED BY <1>1, <1>2, <1>3

LEMMA SameChecks ==
  ASSUME NEW r
  PROVE  Image!Failing(r) = IP!Failing(r) /\ Image!Problem(r) = IP!Problem(r)
  <1>1. Image!Checks(r) = IP!Checks(r)
    BY DEF Image!Checks, IP!Checks, Image!HandlerChecks, IP!HandlerChecks, Image!ServiceChecks,
       IP!ServiceChecks, Image!Sides, IP!Sides, Image!Beyond, IP!Beyond, Image!Supported,
       IP!Supported, Image!Formats, IP!Formats, Image!Asked, IP!Asked, Image!Sized, IP!Sized
  <1>2. \A S : Image!Min(S) = IP!Min(S)
    BY DEF Image!Min, IP!Min
  <1> QED BY <1>1, <1>2 DEF Image!Problem, IP!Problem, Image!Failing, IP!Failing

LEMMA SameAnswers ==
  ASSUME NEW r
  PROVE  /\ Image!FallbackJPEG(r) = IP!FallbackJPEG(r)
         /\ Image!OnEncodeError(r, Image!Internal) = IP!OnEncodeError(r, IP!Internal)
         /\ \A f : /\ Image!GoAnswer(f, Image!OutSize(r)) = IP!GoAnswer(f, IP!OutSize(r))
                   /\ Image!GoEncodes(f, Image!OutSize(r)) = IP!GoEncodes(f, IP!OutSize(r))
                   /\ Image!Image(f, Image!ContentType(f), Image!OutSize(r))
                        = IP!Image(f, IP!ContentType(f), IP!OutSize(r))
  BY SameOutput DEF Image!GoAnswer, IP!GoAnswer, Image!GoEncodes, IP!GoEncodes, Image!Image, IP!Image,
     Image!Internal, IP!Internal, Image!Error, IP!Error, Image!Beyond, IP!Beyond, Image!NoArea,
     IP!NoArea, Image!FallbackJPEG, IP!FallbackJPEG, Image!OnEncodeError, IP!OnEncodeError

LEMMA SameHandler ==
  ASSUME NEW c \in Conns
  PROVE  /\ Image!Step(c) => IP!Step(c)
         /\ Image!Finish(c) => IP!Step(c)
         /\ \A r : Image!Begin(c, r) => IP!Begin(c, r)
  <1>a. \A a : Image!Answer(c, a) <=> IP!Answer(c, a)
    BY DEF Image!Answer, IP!Answer
  <1>g. \A p : Image!Goto(c, p) <=> IP!Goto(c, p)
    BY DEF Image!Goto, IP!Goto
  <1>o. \A t : Image!Outcomes(t) = IP!Outcomes(t)
    BY DEF Image!Outcomes, IP!Outcomes
  <1>e. \A f : Image!Encoding(c, f) <=> IP!Encoding(c, f)
    BY SameOutput DEF Image!Encoding, IP!Encoding
  <1>f. Image!AvifFails(c) <=> IP!AvifFails(c)
    BY <1>a, SameAnswers DEF Image!AvifFails, IP!AvifFails
  <1>1. \A f, t : Image!EncodeNative(c, f, t) => IP!EncodeNative(c, f, t)
    BY <1>a, <1>g, <1>o, <1>e, SameAnswers DEF Image!EncodeNative, IP!EncodeNative
  <1>2. \A f, t : Image!RunOptimizer(c, f, t) => IP!RunOptimizer(c, f, t)
    BY <1>a, <1>o, SameAnswers DEF Image!RunOptimizer, IP!RunOptimizer
  <1>3. \A f, t, p : Image!EncodeExternal(c, f, t, p) => IP!EncodeExternal(c, f, t, p)
    BY <1>a, <1>g, <1>o, <1>e, SameAnswers DEF Image!EncodeExternal, IP!EncodeExternal, Image!Error, IP!Error
  <1>4. Image!EncodeGif(c) \/ Image!RunCwebp(c) => IP!EncodeGif(c) \/ IP!RunCwebp(c)
    BY <1>a, <1>o, <1>e, SameAnswers DEF Image!EncodeGif, IP!EncodeGif, Image!RunCwebp, IP!RunCwebp
  <1>5. \A at, next : Image!CreateTemp(c, at, next) => IP!CreateTemp(c, at, next)
    BY <1>g, <1>f DEF Image!CreateTemp, IP!CreateTemp, Image!Create, IP!Create
  <1>6. /\ Image!AvifPng(c) => IP!AvifPng(c)
        /\ Image!AvifRun(c) => IP!AvifRun(c)
        /\ Image!AvifRead(c) => IP!AvifRead(c)
    BY <1>a, <1>g, <1>f, SameAnswers DEF Image!AvifPng, IP!AvifPng, Image!AvifRun, IP!AvifRun,
       Image!AvifRead, IP!AvifRead
  <1>7. Image!Finish(c) => IP!Finish(c)
    BY DEF Image!Finish, IP!Finish
  <1>8. \A r : Image!Begin(c, r) => IP!Begin(c, r)
    BY SameChecks DEF Image!Begin, IP!Begin, Image!Error, IP!Error
  <1> QED BY <1>1, <1>2, <1>3, <1>4, <1>5, <1>6, <1>7, <1>8
          DEF Image!Step, IP!Step, Image!AvifIn, IP!AvifIn, Image!AvifOut, IP!AvifOut

-----------------------------------------------------------------------------
(* The components' invariants, over any number of processes                  *)

CInv == SInv /\ SP!TimesInv /\ IP!AnswerInv

LEMMA NewDeadlines == /\ 0 \in 0..(ReadTimeout + IdleTimeout) /\ 0 \in 0..WriteTimeout
                      /\ DrainTimeout \in 0..DrainTimeout /\ 0 <= ReadHeaderTimeout
  BY ServerAssumptions DEF Server!TimeoutAssumption

LEMMA HandlersInit ==
  ASSUME pc = [c \in Conns |-> "idle"], req = [c \in Conns |-> Absent], res = [c \in Conns |-> Absent]
  PROVE  IP!AnswerInv
  BY DEF IP!AnswerInv, IP!Places, IP!Paths, IP!AvifSteps

LEMMA ComponentsInit == Init => CInv
  BY InitInv, NewDeadlines, HandlersInit
  DEF Init, Server!Init, Image!Init, CInv, SP!TimesInv, SP!TypeOK

(* What the server does, a handler's return included, is a step of            *)
(* ServerLifecycle; a killed process keeps its deadlines, and the next one    *)
(* has those of a first.                                                      *)
LEMMA TimesKept == ASSUME CInv, [Next]_vars PROVE SP!TimesInv'
  <1>s. SP!Next \/ UNCHANGED SP!vars => SP!TimesInv'
    BY SP!TimesInvStep, ServerAssumptions DEF CInv, Server!TimeoutAssumption, SP!TimeoutAssumption
  <1>1. CASE Serve
    BY <1>1, <1>s, SameServer DEF Serve
  <1>2. ASSUME NEW c \in Conns, Finish(c) PROVE SP!TimesInv'
    BY <1>2, <1>s, SameServer DEF Finish
  <1>3. CASE \/ \E c \in Conns : Handle(c)
             \/ UNCHANGED vars
    BY <1>3, <1>s DEF Handle, vars, server, SP!vars, SP!net
  <1>4. CASE Crash
    BY <1>4 DEF Crash, Server!Exit, CInv, SP!TimesInv, SP!TypeOK
  <1>5. CASE Restart
    BY <1>5, NewDeadlines DEF Restart, SP!TimesInv, SP!TypeOK
  <1> QED BY <1>1, <1>2, <1>3, <1>4, <1>5 DEF Next

(* A handler's step is one of ImageService, also when it is a connection's    *)
(* last; a handler that never began has nothing to answer for.                *)
LEMMA AnswersKept == ASSUME CInv, [Next]_vars PROVE IP!AnswerInv'
  <1>s. IP!Next \/ UNCHANGED IP!vars => IP!AnswerInv'
    BY IP!AnswerInvStep, HandlerAssumptions DEF CInv, IP!RequestAssumption, IP!LimitAssumption
  <1>1. CASE Serve \/ Crash \/ UNCHANGED vars
    BY <1>1, <1>s DEF Serve, Crash, vars, handlers, IP!vars
  <1>2. ASSUME NEW c \in Conns, Handle(c) PROVE IP!AnswerInv'
    BY <1>2, <1>s, SameHandler DEF Handle, IP!Next
  <1>3. ASSUME NEW c \in Conns, Finish(c) PROVE IP!AnswerInv'
    BY <1>3, <1>s, SameHandler DEF Finish, IP!Next, handlers, IP!vars
  <1>4. CASE Restart
    BY <1>4 DEF Restart, IP!AnswerInv, IP!Places, IP!Paths, IP!AvifSteps
  <1> QED BY <1>1, <1>2, <1>3, <1>4 DEF Next

LEMMA ComponentsInv == Spec => []CInv
  <1>1. CInv /\ [Next]_vars => CInv'
    BY StepInv, TimesKept, AnswersKept DEF CInv
  <1> QED BY <1>1, ComponentsInit, PTL DEF Spec

(* The variables keep their types through every crash and restart.            *)
THEOREM TypeCorrect == Spec => []TypeOK
  <1>1. CInv => Server!TypeOK
    BY DEF CInv, SP!TimesInv, SP!TypeOK, Server!TypeOK
  <1>2. CInv => Image!TypeOK
    <2> SUFFICES ASSUME CInv PROVE Image!TypeOK
      OBVIOUS
    <2>1. \A c \in Conns : res[c] = Absent \/ res[c].status \in {200, 400, 500}
      <3>1. ASSUME NEW r, NEW a, IP!Fits(r, a) PROVE a.status \in {200, 400, 500}
        BY <3>1 DEF IP!Fits, IP!Error, IP!Internal, IP!Image
      <3> QED BY <3>1 DEF CInv, IP!AnswerInv
    <2> QED BY <2>1 DEF CInv, SInv, FilesPart, IP!AnswerInv, Image!TypeOK
  <1>3. CInv => left \subseteq TempNames
    BY DEF CInv, SInv, FilesPart, LeftoversUntouched
  <1> QED BY <1>1, <1>2, <1>3, ComponentsInv, PTL DEF TypeOK

(* Exit code 0 means a drained server also after any number of crashes.       *)
THEOREM ExitCodeHonest == Spec => []Server!CleanExitIsDrained
  BY Inductive, PTL DEF SInv, ExitPart, Server!CleanExitIsDrained

(* What ImageService promises of its answers it keeps in a process to which   *)
(* earlier ones left their files, that drains and may end at any moment, and  *)
(* whose handlers come and go with their connections.                         *)
AnswersHold == /\ Image!TypeTellsTruth /\ Image!OptimizeSurvivesTools
               /\ Image!FormatKept /\ Image!FitStaysInBox
               /\ Image!SidesBounded

THEOREM AnswersSurviveRestarts == Spec => []AnswersHold
  <1>a. /\ \A c \in Conns : Image!Answered(c) <=> IP!Answered(c)
        /\ \A m, n : Image!Least(m, n) = IP!Least(m, n)
        /\ \A s : Image!Longer(s) = IP!Longer(s) /\ (Image!NoArea(s) <=> IP!NoArea(s))
    BY DEF Image!Answered, IP!Answered, Image!Least, IP!Least, Image!Longer, IP!Longer, Image!NoArea, IP!NoArea
  <1>f. IP!AnswerInv => /\ IP!TypeTellsTruth /\ IP!OptimizeSurvivesTools
                        /\ IP!FormatKept /\ IP!FitStaysInBox
                        /\ IP!SidesBounded
    BY IP!LabelsFollow, IP!AnswerFollows, IP!FormatFollows, IP!BoxFollows, IP!SidesFollow,
       HandlerAssumptions DEF IP!RequestAssumption, IP!LimitAssumption
  <1>1. IP!TypeTellsTruth => Image!TypeTellsTruth
    BY <1>a, SameOutput DEF Image!TypeTellsTruth, IP!TypeTellsTruth
  <1>2. IP!OptimizeSurvivesTools => Image!OptimizeSurvivesTools
    BY <1>a DEF Image!OptimizeSurvivesTools, IP!OptimizeSurvivesTools, Image!Beyond, IP!Beyond
  <1>3. IP!FormatKept => Image!FormatKept
    BY DEF Image!FormatKept, IP!FormatKept, Image!Decodable, IP!Decodable, Image!Formats, IP!Formats
  <1>4. IP!FitStaysInBox => Image!FitStaysInBox
    BY <1>a DEF Image!FitStaysInBox, IP!FitStaysInBox
  <1>5. IP!SidesBounded => Image!SidesBounded
    BY <1>a DEF Image!SidesBounded, IP!SidesBounded, Image!Sized, IP!Sized, Image!AtLeastOne,
       IP!AtLeastOne
  <1>6. CInv => AnswersHold
    BY <1>f, <1>1, <1>2, <1>3, <1>4, <1>5 DEF CInv, AnswersHold
  <1> QED BY <1>6, ComponentsInv, PTL
=============================================================================
