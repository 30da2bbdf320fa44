-------------------------- MODULE ServerLifecycle --------------------------
(***************************************************************************)
(* cmd/server/main.go: run() from config.Load to the exit code, with the   *)
(* goroutine that listens, the termination signals the operating system    *)
(* may send at any moment, and the connections net/http serves meanwhile.  *)
(* The connection actions model net/http with the timeouts run() gives it. *)
(* Two things of net/http are left out: a client that disconnects while    *)
(* its handler runs, and the moment between the last byte of a header and  *)
(* the connection counting as active, in which Shutdown still closes it as *)
(* idle and no longer waits for the handler that starts.                   *)
(*                                                                         *)
(* Time is counted in ticks; a deadline is the number of ticks left.  The  *)
(* handler of a request may take any time: it runs external programs with  *)
(* no timeout (internal/service/optimizer.go, imageprocessor.go).          *)
(***************************************************************************)
EXTENDS Integers

CONSTANTS Conns,
          ReadHeaderTimeout, ReadTimeout, WriteTimeout, IdleTimeout,
          DrainTimeout

ASSUME TimeoutAssumption ==
  /\ {ReadHeaderTimeout, ReadTimeout, WriteTimeout, IdleTimeout, DrainTimeout} \subseteq Nat \ {0}
  /\ ReadHeaderTimeout <= ReadTimeout

VARIABLES main,     \* where run() is
          code,     \* how the process ended
          listener, \* the socket of ListenAndServe
          errCh,    \* what is buffered in errCh
          sigCh,    \* a signal is buffered in sigCh
          drain,    \* what is left of shutdownCtx
          conn,     \* what a connection is doing
          rd, wd    \* its read and write deadlines

net == <<conn, rd, wd>>
vars == <<main, code, listener, errCh, sigCh, drain, net>>

\* What the http.Server is built with, and with two of the fields confused.
TimeoutsSwapped == [header |-> ReadTimeout, read |-> ReadHeaderTimeout,
                    write |-> WriteTimeout, idle |-> IdleTimeout]
Timeouts == [header |-> ReadHeaderTimeout, read |-> ReadTimeout,
             write |-> WriteTimeout, idle |-> IdleTimeout]

InFlight(c) == conn[c] \in {"body", "work"}     \* a handler runs

(* No deadline is longer than configured, and none that is set is over before *)
(* it begins.                                                                 *)
TypeOK == /\ main \in {"load", "setup", "spawned", "select", "drain", "exit"}
          /\ code \in {"running", "0", "1", "killed"}
          /\ listener \in {"off", "binding", "open", "closed", "failed"}
          /\ errCh \in {"empty", "ErrServerClosed", "failure"}
          /\ sigCh \in BOOLEAN
          /\ drain \in 0..DrainTimeout
          /\ conn \in [Conns -> {"none", "header", "body", "work", "idle"}]
          /\ rd \in [Conns -> 0..(ReadTimeout + IdleTimeout)]
          /\ wd \in [Conns -> 0..WriteTimeout]

Init == /\ main = "load"
        /\ code = "running"
        /\ listener = "off"
        /\ errCh = "empty"
        /\ sigCh = FALSE
        /\ drain = DrainTimeout
        /\ conn = [c \in Conns |-> "none"]
        /\ rd = [c \in Conns |-> 0]
        /\ wd = [c \in Conns |-> 0]

Alive == main # "exit"
Exit(how) == main' = "exit" /\ code' = how

-----------------------------------------------------------------------------
(* run()                                                                     *)

Load == /\ main = "load"
        /\ \/ main' = "setup" /\ UNCHANGED code
           \/ Exit("1")                        \* config load failed
        /\ UNCHANGED <<listener, errCh, sigCh, drain, net>>

\* Routes and server are built; go func() { errCh <- ListenAndServe() }().
Spawn == /\ main = "setup"
         /\ main' = "spawned"
         /\ listener' = "binding"
         /\ UNCHANGED <<code, errCh, sigCh, drain, net>>

\* signal.Notify(sigCh, SIGINT, SIGTERM)
Notify == /\ main = "spawned"
          /\ main' = "select"
          /\ UNCHANGED <<code, listener, errCh, sigCh, drain, net>>

\* case err := <-errCh, and a select that waits for the signal only.
NotListened == FALSE
ErrReceivable == errCh # "empty"

ListenEnded == /\ main = "select"
               /\ ErrReceivable
               /\ errCh' = "empty"
               /\ Exit(IF errCh = "failure" THEN "1" ELSE "0")
               /\ UNCHANGED <<listener, sigCh, drain, net>>

\* case sig := <-sigCh, and Shutdown's first act: the listener is closed, so
\* ListenAndServe returns ErrServerClosed into the buffered channel.
BeginDrain == /\ main = "select"
              /\ sigCh
              /\ sigCh' = FALSE
              /\ main' = "drain"
              /\ listener' = IF listener = "open" THEN "closed" ELSE listener
              /\ errCh' = IF listener = "open" THEN "ErrServerClosed" ELSE errCh
              /\ UNCHANGED <<code, drain, net>>

\* A connection Shutdown may close: idle, or new and silent for five seconds.
Closable(c) == \/ conn[c] \in {"none", "idle"}
               \/ conn[c] = "header" /\ rd[c] < Timeouts.header

CloseIdle(c) == /\ main = "drain"
                /\ conn[c] # "none" /\ Closable(c)
                /\ conn' = [conn EXCEPT ![c] = "none"]
                /\ rd' = [rd EXCEPT ![c] = 0]
                /\ UNCHANGED <<main, code, listener, errCh, sigCh, drain, wd>>

Quiescent == \A c \in Conns : Closable(c)

\* Shutdown returns nil: "server stopped cleanly".
Drained == /\ main = "drain"
           /\ Quiescent
           /\ Exit("0")
           /\ UNCHANGED <<listener, errCh, sigCh, drain, net>>

NoDeadlineOnDrain == FALSE
DrainExpired == drain = 0

\* The error of Shutdown is dropped.
ErrorDropped == "0"
DrainFailed == "1"

\* Shutdown returns shutdownCtx's error, and the process ends under whatever
\* is still running.
DrainTimedOut == /\ main = "drain"
                 /\ DrainExpired
                 /\ Exit(DrainFailed)
                 /\ UNCHANGED <<listener, errCh, sigCh, drain, net>>

-----------------------------------------------------------------------------
(* The listening goroutine and the operating system                          *)

Bind == /\ Alive
        /\ listener = "binding"
        /\ \/ main # "drain" /\ listener' = "open" /\ UNCHANGED errCh
           \/ main # "drain" /\ listener' = "failed" /\ errCh' = "failure"
           \/ main = "drain" /\ listener' = "closed" /\ errCh' = "ErrServerClosed"
        /\ UNCHANGED <<main, code, sigCh, drain, net>>

\* Accept returns a permanent error while serving.
AcceptFails == /\ Alive
               /\ listener = "open"
               /\ listener' = "failed"
               /\ errCh' = "failure"
               /\ UNCHANGED <<main, code, sigCh, drain, net>>

\* SIGINT or SIGTERM.  Until Notify the default action ends the process; after
\* it the signal is buffered, or dropped when one is there already.
Signal == /\ Alive
          /\ IF main \in {"select", "drain"}
             THEN sigCh' = TRUE /\ UNCHANGED <<main, code>>
             ELSE Exit("killed") /\ UNCHANGED sigCh
          /\ UNCHANGED <<listener, errCh, drain, net>>

-----------------------------------------------------------------------------
(* net/http on one connection                                                *)

Accept(c) == /\ Alive
             /\ listener = "open" /\ conn[c] = "none"
             /\ conn' = [conn EXCEPT ![c] = "header"]
             /\ rd' = [rd EXCEPT ![c] = Timeouts.header]
             /\ UNCHANGED <<main, code, listener, errCh, sigCh, drain, wd>>

\* The header is complete: the handler starts, the write deadline is set, and
\* what is left of ReadTimeout goes to the body.
HeaderRead(c) == /\ Alive
                 /\ \/ conn[c] = "header" /\ rd[c] > 0
                    \/ conn[c] = "idle" /\ rd[c] > 0
                 /\ \E phase \in {"body", "work"} : conn' = [conn EXCEPT ![c] = phase]
                 /\ rd' = [rd EXCEPT ![c] = IF conn[c] = "header"
                                            THEN Timeouts.read - (Timeouts.header - rd[c])
                                            ELSE Timeouts.read]
                 /\ wd' = [wd EXCEPT ![c] = Timeouts.write]
                 /\ UNCHANGED <<main, code, listener, errCh, sigCh, drain>>

BodyRead(c) == /\ Alive
               /\ conn[c] = "body" /\ rd[c] > 0
               /\ conn' = [conn EXCEPT ![c] = "work"]
               /\ UNCHANGED <<main, code, listener, errCh, sigCh, drain, rd, wd>>

\* The handler returns.  Its answer reaches the client before the write
\* deadline only; a connection is kept unless the server is shutting down.
Finish(c) == /\ Alive
             /\ conn[c] = "work"
             /\ \/ /\ wd[c] > 0 /\ main # "drain"
                   /\ conn' = [conn EXCEPT ![c] = "idle"]
                   /\ rd' = [rd EXCEPT ![c] = Timeouts.idle]
                \/ /\ conn' = [conn EXCEPT ![c] = "none"]
                   /\ rd' = [rd EXCEPT ![c] = 0]
             /\ wd' = [wd EXCEPT ![c] = 0]
             /\ UNCHANGED <<main, code, listener, errCh, sigCh, drain>>

NoReadTimeout(c) == conn[c] \in {"header", "idle"} /\ rd[c] = 0
TimeoutDue(c) == conn[c] \in {"header", "body", "idle"} /\ rd[c] = 0

\* A read past its deadline fails: the connection is closed, or the handler
\* that was reading the body goes on to answer 400.
ReadTimesOut(c) == /\ Alive
                   /\ TimeoutDue(c)
                   /\ conn' = [conn EXCEPT ![c] = IF @ = "body" THEN "work" ELSE "none"]
                   /\ UNCHANGED <<main, code, listener, errCh, sigCh, drain, rd, wd>>

Less(n) == IF n > 0 THEN n - 1 ELSE 0

\* A tick; main sees the end of the drain before the next one.
Tick == /\ Alive
        /\ main = "drain" => drain > 0
        /\ drain' = IF main = "drain" THEN Less(drain) ELSE drain
        /\ rd' = [c \in Conns |-> Less(rd[c])]
        /\ wd' = [c \in Conns |-> Less(wd[c])]
        /\ UNCHANGED <<main, code, listener, errCh, sigCh, conn>>

-----------------------------------------------------------------------------
Run == Load \/ Spawn \/ Notify \/ ListenEnded \/ BeginDrain \/ Drained \/ DrainTimedOut

Next == \/ Run \/ Bind \/ AcceptFails \/ Signal \/ Tick
        \/ \E c \in Conns : \/ Accept(c) \/ HeaderRead(c) \/ BodyRead(c)
                            \/ Finish(c) \/ ReadTimesOut(c) \/ CloseIdle(c)

Spec == Init /\ [][Next]_vars

(* run()'s goroutine and the listening one are scheduled, time passes and     *)
(* net/http's deadlines fire.  Nothing is assumed of clients or of handlers.  *)
Fairness == /\ WF_vars(Run) /\ WF_vars(Bind) /\ WF_vars(Tick)
            /\ \A c \in Conns : WF_vars(ReadTimesOut(c))
FairSpec == Spec /\ Fairness

-----------------------------------------------------------------------------
(* The exit code tells the truth: after a signal, 0 ("server stopped          *)
(* cleanly") is only returned once every request in flight is over; a process *)
(* that leaves one behind ends with 1 or by a signal.                         *)
CleanExitIsDrained == code = "0" => \A c \in Conns : ~InFlight(c)

(* A signal that was registered stops the process, however long handlers run  *)
(* and clients stall: the drain is bounded.                                   *)
SignalStops == sigCh /\ main = "select" ~> main = "exit"

(* A listener that cannot bind or breaks ends the process: it never stays up  *)
(* with nobody listening.                                                     *)
ListenFailureStops == listener = "failed" ~> main = "exit"

(* A client that stalls in its header, in its body or between requests is cut *)
(* off: it holds its goroutine for a bounded time.                            *)
StalledClientReleased ==
  \A c \in Conns : \A phase \in {"header", "body", "idle"} :
    conn[c] = phase ~> conn[c] # phase \/ main = "exit"

(* CHANGELOG.md: in-flight uploads and /process fetches complete at shutdown  *)
(* instead of being killed mid-stream.                                        *)
InFlightCompletes ==
  main = "exit" /\ code # "killed" /\ listener # "failed" =>
    \A c \in Conns : ~InFlight(c)
=============================================================================
