----------------------- MODULE ServerLifecycle_proofs ----------------------
(***************************************************************************)
(* That the exit code of ServerLifecycle can be trusted, for any number of *)
(* connections and any timeouts.                                           *)
(***************************************************************************)
EXTENDS ServerLifecycle, TLAPS

(* ErrServerClosed is only in errCh when Shutdown put it there, and then     *)
(* nobody selects on errCh any more; so code 0 is Shutdown's own.            *)
ExitInv == /\ errCh = "ErrServerClosed" => main \in {"drain", "exit"}
           /\ code = "0" => main = "exit"
           /\ CleanExitIsDrained
           /\ errCh \in {"empty", "ErrServerClosed", "failure"}

LEMMA ExitInvInit == Init => ExitInv
  BY DEF Init, ExitInv, CleanExitIsDrained

(* Steps that leave a live process alive cannot have ended it with code 0.   *)
LEMMA ExitInvStep == ExitInv /\ [Next]_vars => ExitInv'
<1> SUFFICES ASSUME ExitInv, [Next]_vars PROVE ExitInv'
  OBVIOUS
<1> USE DEF ExitInv, CleanExitIsDrained, InFlight, Alive, net
<1>1. CASE Load
  BY <1>1 DEF Load, Exit
<1>2. CASE Spawn \/ Notify
  BY <1>2 DEF Spawn, Notify
<1>3. CASE ListenEnded
  BY <1>3 DEF ListenEnded, ErrReceivable, Exit
<1>4. CASE BeginDrain
  BY <1>4 DEF BeginDrain
<1>5. CASE Drained
  BY <1>5 DEF Drained, Quiescent, Closable, Exit
<1>6. CASE DrainTimedOut
  BY <1>6 DEF DrainTimedOut, DrainFailed, Exit
<1>7. CASE Bind \/ AcceptFails \/ Tick
  BY <1>7 DEF Bind, AcceptFails, Tick
<1>8. CASE Signal
  BY <1>8 DEF Signal, Exit
<1>9. ASSUME NEW c \in Conns,
             \/ Accept(c) \/ HeaderRead(c) \/ BodyRead(c)
             \/ Finish(c) \/ ReadTimesOut(c) \/ CloseIdle(c)
      PROVE  ExitInv'
  BY <1>9 DEF Accept, HeaderRead, BodyRead, Finish, ReadTimesOut, CloseIdle
<1>10. CASE UNCHANGED vars
  BY <1>10 DEF vars
<1>11. QED
  BY <1>1, <1>2, <1>3, <1>4, <1>5, <1>6, <1>7, <1>8, <1>9, <1>10 DEF Next, Run

(* Exit code 0 is only ever returned with no request in flight.              *)
THEOREM ExitCodeHonest == Spec => []CleanExitIsDrained
<1>1. ExitInv => CleanExitIsDrained
  BY DEF ExitInv
<1>2. QED  BY <1>1, ExitInvInit, ExitInvStep, PTL DEF Spec

(* A connection that is reading its header has no more time left than the    *)
(* header is given; what is left goes to the body.                           *)
TimesInv == /\ TypeOK
            /\ \A c \in Conns : conn[c] = "header" => rd[c] <= ReadHeaderTimeout

LEMMA TimesInvStep == TimesInv /\ [Next]_vars => TimesInv'
<1> SUFFICES ASSUME TimesInv, [Next]_vars PROVE TimesInv'
  OBVIOUS
<1> USE TimeoutAssumption DEF TimesInv, TypeOK, Timeouts
<1>1. CASE Run
  <2> USE DEF net
  <2>1. CASE Load \/ Spawn \/ Notify
    BY <2>1 DEF Load, Spawn, Notify, Exit
  <2>2. CASE ListenEnded \/ BeginDrain
    BY <2>2 DEF ListenEnded, BeginDrain, Exit
  <2>3. CASE Drained \/ DrainTimedOut
    BY <2>3 DEF Drained, DrainTimedOut, DrainFailed, Exit
  <2>4. QED  BY <1>1, <2>1, <2>2, <2>3 DEF Run
<1>2. CASE Bind \/ AcceptFails \/ Signal
  BY <1>2 DEF Bind, AcceptFails, Signal, Exit, net
<1>3. CASE Tick
  <2>1. \A n \in Nat : Less(n) \in Nat /\ Less(n) <= n
    BY DEF Less
  <2>2. rd' \in [Conns -> 0..(ReadTimeout + IdleTimeout)] /\ wd' \in [Conns -> 0..WriteTimeout]
    BY <1>3, <2>1 DEF Tick
  <2>3. drain' \in 0..DrainTimeout
    BY <1>3, <2>1 DEF Tick
  <2>4. \A c \in Conns : conn'[c] = "header" => rd'[c] <= ReadHeaderTimeout
    BY <1>3, <2>1 DEF Tick
  <2>5. QED  BY <1>3, <2>2, <2>3, <2>4 DEF Tick
<1>4. ASSUME NEW c \in Conns, HeaderRead(c) PROVE TimesInv'
  <2>1. rd'[c] \in 0..(ReadTimeout + IdleTimeout)
    BY <1>4 DEF HeaderRead
  <2>2. /\ rd' \in [Conns -> 0..(ReadTimeout + IdleTimeout)]
        /\ \A d \in Conns \ {c} : rd'[d] = rd[d] /\ conn'[d] = conn[d]
    BY <1>4, <2>1 DEF HeaderRead
  <2>3. wd' \in [Conns -> 0..WriteTimeout]
    BY <1>4 DEF HeaderRead
  <2>4. conn'[c] # "header" /\ conn' \in [Conns -> {"none", "header", "body", "work", "idle"}]
    BY <1>4 DEF HeaderRead
  <2>5. QED  BY <1>4, <2>2, <2>3, <2>4 DEF HeaderRead
<1>5. ASSUME NEW c \in Conns, Accept(c) \/ BodyRead(c) \/ ReadTimesOut(c) \/ CloseIdle(c)
      PROVE  TimesInv'
  <2>1. CASE Accept(c)
    BY <2>1 DEF Accept
  <2>2. CASE BodyRead(c)
    BY <2>2 DEF BodyRead
  <2>3. CASE ReadTimesOut(c)
    <3>1. conn' = [conn EXCEPT ![c] = IF conn[c] = "body" THEN "work" ELSE "none"]
      BY <2>3 DEF ReadTimesOut
    <3>2. QED  BY <2>3, <3>1 DEF ReadTimesOut
  <2>4. CASE CloseIdle(c)
    BY <2>4 DEF CloseIdle
  <2>5. QED  BY <1>5, <2>1, <2>2, <2>3, <2>4
<1>6. ASSUME NEW c \in Conns, Finish(c) PROVE TimesInv'
  <2>1. PICK s \in {"idle", "none"}, n \in {0, IdleTimeout} :
          conn' = [conn EXCEPT ![c] = s] /\ rd' = [rd EXCEPT ![c] = n]
    BY <1>6 DEF Finish
  <2>2. n \in 0..(ReadTimeout + IdleTimeout) /\ 0 \in 0..WriteTimeout
    OBVIOUS
  <2>3. rd' \in [Conns -> 0..(ReadTimeout + IdleTimeout)]
    BY <2>1, <2>2
  <2>4. wd' \in [Conns -> 0..WriteTimeout]
    BY <1>6, <2>2 DEF Finish
  <2>5. QED  BY <1>6, <2>1, <2>3, <2>4 DEF Finish
<1>7. CASE UNCHANGED vars
  BY <1>7 DEF vars, net
<1>8. QED  BY <1>1, <1>2, <1>3, <1>4, <1>5, <1>6, <1>7 DEF Next

(* The variables keep their types: no deadline is longer than run() asks for *)
(* and none is over before it begins.                                        *)
THEOREM TypeCorrect == Spec => []TypeOK
<1>1. Init => TimesInv
  <2>1. /\ 0 \in 0..(ReadTimeout + IdleTimeout) /\ 0 \in 0..WriteTimeout
        /\ DrainTimeout \in 0..DrainTimeout /\ 0 <= ReadHeaderTimeout
    BY TimeoutAssumption
  <2>2. QED  BY <2>1 DEF Init, TimesInv, TypeOK
<1>2. TimesInv => TypeOK
  BY DEF TimesInv
<1>3. QED  BY <1>1, <1>2, TimesInvStep, PTL DEF Spec
=============================================================================
