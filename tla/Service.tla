------------------------------ MODULE Service ------------------------------
(***************************************************************************)
(* The whole service over its restarts: ServerLifecycle says when handlers *)
(* run and how the process ends, ImageService what the handlers do.  A     *)
(* handler runs in the goroutine of its connection, so the goroutines of   *)
(* ImageService are the connections of ServerLifecycle.  The memory of a   *)
(* process ends with it; what it has in the directory of temporary files   *)
(* stays, and the next process, or another instance, finds it there.       *)
(***************************************************************************)
EXTENDS Integers, FiniteSets

CONSTANTS Conns, ReadHeaderTimeout, ReadTimeout, WriteTimeout, IdleTimeout, DrainTimeout,
          Requests, Configured, MaxDimCap, CodecLimit, TempNames, Absent, NotInt

ASSUME ConnsAssumption == IsFiniteSet(Conns)

VARIABLES main, code, listener, errCh, sigCh, drain, conn, rd, wd,   \* ServerLifecycle
          pc, req, res, temp, mine,                                  \* ImageService
          left    \* the temporary files that ended processes left behind

server == <<main, code, listener, errCh, sigCh, drain, conn, rd, wd>>
handlers == <<pc, req, res, temp, mine>>
vars == <<server, handlers, left>>

Server == INSTANCE ServerLifecycle
Image == INSTANCE ImageService WITH Goroutines <- Conns

\* The constants are the components', and so is what is assumed of them.
ASSUME ServerAssumptions == Server!TimeoutAssumption
ASSUME ImageAssumptions == Image!RequestAssumption /\ Image!LimitAssumption

TypeOK == Server!TypeOK /\ Image!TypeOK /\ left \subseteq TempNames

Init == Server!Init /\ Image!Init /\ left = {}

-----------------------------------------------------------------------------
\* run(), the listener, the clock, and net/http but the return of a handler.
Serve == /\ \/ Server!Run \/ Server!Bind \/ Server!AcceptFails \/ Server!Signal \/ Server!Tick
            \/ \E c \in Conns : \/ Server!Accept(c) \/ Server!HeaderRead(c) \/ Server!BodyRead(c)
                                \/ Server!ReadTimesOut(c) \/ Server!CloseIdle(c)
         /\ UNCHANGED <<handlers, left>>

\* The handler of c is at work, of its own accord and for any time.
Handle(c) == /\ Server!Alive
             /\ conn[c] = "work"
             /\ \/ \E r \in Requests : Image!Begin(c, r)
                \/ Image!Step(c) /\ ~Image!Finish(c)
             /\ UNCHANGED <<server, left>>

\* It returns; one that had no image to work on never began.
Finish(c) == /\ Server!Finish(c)
             /\ IF pc[c] = "idle" THEN UNCHANGED handlers ELSE Image!Finish(c)
             /\ UNCHANGED left

\* The process is killed outright, or crashes.
Crash == /\ Server!Alive
         /\ Server!Exit("killed")
         /\ UNCHANGED <<listener, errCh, sigCh, drain, conn, rd, wd, handlers, left>>

\* The supervisor starts the next process. Nothing in the code looks for the
\* files of the one before.
Restart == /\ main = "exit"
           /\ main' = "load" /\ code' = "running"
           /\ listener' = "off" /\ errCh' = "empty" /\ sigCh' = FALSE
           /\ drain' = DrainTimeout
           /\ conn' = [c \in Conns |-> "none"]
           /\ rd' = [c \in Conns |-> 0] /\ wd' = [c \in Conns |-> 0]
           /\ pc' = [c \in Conns |-> "idle"]
           /\ req' = [c \in Conns |-> Absent] /\ res' = [c \in Conns |-> Absent]
           /\ mine' = [c \in Conns |-> {}]
           /\ left' = temp
           /\ UNCHANGED temp

Next == \/ Serve \/ Crash \/ Restart
        \/ \E c \in Conns : Handle(c) \/ Finish(c)

Spec == Init /\ [][Next]_vars

-----------------------------------------------------------------------------
(* Exit code 0 is honest about the disk too: the drain let every handler run  *)
(* its deferred removals, so nothing of this process is in the directory.     *)
CleanExitLeavesNothing == code = "0" => temp = left

(* Whatever earlier processes left behind, no request takes, overwrites or    *)
(* removes it: a file is a leftover or belongs to one encodeAvif.             *)
LeftoversUntouched ==
  /\ temp = left \cup UNION {mine[c] : c \in Conns}
  /\ \A c \in Conns : mine[c] \cap left = {}
  /\ \A c, d \in Conns : c # d => mine[c] \cap mine[d] = {}

(* Only a process that did not end cleanly leaves files, and at most the two  *)
(* of each request it had in flight, however many it served.                  *)
Restarted == main = "exit" /\ main' = "load"
LeakBounded ==
  [][Restarted => /\ left' # left => code # "0"
                  /\ Cardinality(left' \ left) <=
                       2 * Cardinality({c \in Conns : Server!InFlight(c)})]_vars
=============================================================================
