----------------------------- MODULE Supervisor -----------------------------
(***************************************************************************)
(* internal/app/run.go: one goroutine per service runs its Serve, and the  *)
(* main goroutine collects their results.  The first error cancels the     *)
(* context all of them share, as the first SIGINT or SIGTERM does.  Each   *)
(* Serve has a second goroutine that waits for the context and then closes *)
(* the socket Serve is blocked on.                                         *)
(*                                                                         *)
(* A service is one of three kinds: `http' (nas/server.go, proxy/          *)
(* proxy.go), `tcp' (texttcp/server.go for profile and gpsp, browser/      *)
(* server.go) and `udp' (qr/server.go, natneg/server.go).                  *)
(***************************************************************************)
EXTENDS Naturals, Sequences, FiniteSets

CONSTANTS
  Services,   \* the services that were configured
  Kind,       \* service |-> "http", "tcp" or "udp"
  NoService   \* firstErr is nil

ASSUME SupervisorAssumption ==
  /\ IsFiniteSet(Services)
  /\ Kind \in [Services -> {"http", "tcp", "udp"}]
  /\ NoService \notin Services

VARIABLES
  at,         \* service |-> "starting", "serving", "stopped" (returned nil),
              \* "failed" (returned an error)
  broken,     \* service |-> its socket could not be bound, or fails for good
  closed,     \* service |-> its second goroutine has closed the socket
  cancelled,  \* the context is cancelled
  errCh,      \* the results in the channel
  received,   \* how many results the main goroutine has taken
  firstErr,   \* the service whose error it keeps
  status      \* of the process: "running", "ok", "fatal", "killed"

vars == <<at, broken, closed, cancelled, errCh, received, firstErr, status>>

Init ==
  /\ at = [s \in Services |-> "starting"]
  /\ broken = [s \in Services |-> FALSE]
  /\ closed = [s \in Services |-> FALSE]
  /\ cancelled = FALSE
  /\ errCh = << >>
  /\ received = 0
  /\ firstErr = NoService
  /\ status = "running"

-----------------------------------------------------------------------------
\* Faulty: the goroutine goes on after sending the error and sends nil too.
FinishTwice(s, result) ==
  /\ Len(errCh) < Cardinality(Services)
  /\ at' = [at EXCEPT ![s] = result]
  /\ errCh' = IF result = "failed" THEN errCh \o <<s, s>> ELSE Append(errCh, s)
  /\ UNCHANGED <<closed, cancelled, received, firstErr, status>>

(* The channel has room for one result of each service.                    *)
Finish(s, result) ==
  /\ Len(errCh) < Cardinality(Services)
  /\ at' = [at EXCEPT ![s] = result]
  /\ errCh' = Append(errCh, s)
  /\ UNCHANGED <<closed, cancelled, received, firstErr, status>>

Listen(s) ==
  /\ status = "running" /\ at[s] = "starting"
  /\ at' = [at EXCEPT ![s] = "serving"]
  /\ UNCHANGED <<broken, closed, cancelled, errCh, received, firstErr, status>>

\* net.Listen fails: the port is taken, or not ours to take.
ListenFails(s) ==
  /\ status = "running" /\ at[s] = "starting"
  /\ broken' = [broken EXCEPT ![s] = TRUE]
  /\ Finish(s, "failed")

(* The socket fails for good.                                              *)
Break(s) ==
  /\ status = "running" /\ at[s] = "serving" /\ ~broken[s] /\ ~closed[s]
  /\ broken' = [broken EXCEPT ![s] = TRUE]
  /\ UNCHANGED <<at, closed, cancelled, errCh, received, firstErr, status>>

(* The second goroutine: srv.Shutdown, ln.Close or conn.Close.  That of an *)
(* HTTP server is started before net.Listen and may run first; Serve then  *)
(* finds the server shut down.  Shutdown goes on to wait for requests in   *)
(* progress, and nothing waits for it.                                     *)
CloseSocket(s) ==
  /\ status = "running" /\ cancelled /\ ~closed[s]
  /\ at[s] = "serving" \/ (at[s] = "starting" /\ Kind[s] = "http")
  /\ closed' = [closed EXCEPT ![s] = TRUE]
  /\ UNCHANGED <<at, broken, cancelled, errCh, received, firstErr, status>>

\* Faulty: an error of the socket is returned whoever caused it.
ResultWithoutContext(s) == IF Kind[s] = "tcp" THEN "stopped" ELSE "failed"

(* What Serve returns when the socket fails it.  http.Serve says           *)
(* ErrServerClosed once Shutdown was called; the UDP loops ask the context.*)
Result(s) ==
  IF (Kind[s] = "http" /\ closed[s]) \/ (Kind[s] # "http" /\ cancelled)
  THEN "stopped" ELSE "failed"

(* The loop ends on an error of the socket, but that of a TCP service goes *)
(* on to the next Accept while the context lives.                          *)
Return(s) ==
  /\ status = "running" /\ at[s] = "serving"
  /\ broken[s] \/ closed[s]
  /\ Kind[s] = "tcp" => cancelled
  /\ Finish(s, Result(s))
  /\ UNCHANGED broken

-----------------------------------------------------------------------------
(* NotifyContext catches signals until stop(): a second one is swallowed   *)
(* too, but after the first error the next one kills.                      *)
Signal ==
  /\ status = "running"
  /\ IF firstErr = NoService
     THEN ~cancelled /\ cancelled' = TRUE /\ UNCHANGED status
     ELSE status' = "killed" /\ UNCHANGED cancelled
  /\ UNCHANGED <<at, broken, closed, errCh, received, firstErr>>

\* Faulty: the first error is kept, but stop() is not called.
ReceiveWithoutStop ==
  /\ status = "running" /\ errCh # << >>
  /\ errCh' = Tail(errCh)
  /\ received' = received + 1
  /\ firstErr' = IF at[Head(errCh)] = "failed" /\ firstErr = NoService
                 THEN Head(errCh) ELSE firstErr
  /\ UNCHANGED <<at, broken, closed, cancelled, status>>

(* The result is the service's last state.                                 *)
Receive ==
  /\ status = "running" /\ errCh # << >>
  /\ errCh' = Tail(errCh)
  /\ received' = received + 1
  /\ IF at[Head(errCh)] = "failed" /\ firstErr = NoService
     THEN firstErr' = Head(errCh) /\ cancelled' = TRUE
     ELSE UNCHANGED <<firstErr, cancelled>>
  /\ UNCHANGED <<at, broken, closed, status>>

\* Faulty: the first error ends the process at once.
ExitAtFirstError ==
  /\ status = "running"
  /\ received = Cardinality(Services) \/ firstErr # NoService
  /\ status' = IF firstErr = NoService THEN "ok" ELSE "fatal"
  /\ UNCHANGED <<at, broken, closed, cancelled, errCh, received, firstErr>>

Exit ==
  /\ status = "running" /\ received = Cardinality(Services)
  /\ status' = IF firstErr = NoService THEN "ok" ELSE "fatal"
  /\ UNCHANGED <<at, broken, closed, cancelled, errCh, received, firstErr>>

Next ==
  \/ \E s \in Services :
       Listen(s) \/ ListenFails(s) \/ Break(s) \/ CloseSocket(s) \/ Return(s)
  \/ Signal \/ Receive \/ Exit

(* Goroutines that can run do; nobody has to send a signal, and no socket  *)
(* has to fail.                                                            *)
Fairness ==
  /\ \A s \in Services : /\ WF_vars(Listen(s) \/ ListenFails(s))
                         /\ WF_vars(CloseSocket(s)) /\ WF_vars(Return(s))
  /\ WF_vars(Receive) /\ WF_vars(Exit)

Spec == Init /\ [][Next]_vars /\ Fairness

-----------------------------------------------------------------------------
\* The state the goroutines of run.go share has its types.
TypeOK ==
  /\ at \in [Services -> {"starting", "serving", "stopped", "failed"}]
  /\ broken \in [Services -> BOOLEAN]
  /\ closed \in [Services -> BOOLEAN]
  /\ cancelled \in BOOLEAN
  /\ errCh \in Seq(Services)
  /\ received \in 0..Cardinality(Services)
  /\ firstErr \in Services \cup {NoService}
  /\ status \in {"running", "ok", "fatal", "killed"}

Returned(s) == at[s] \in {"stopped", "failed"}

(* run.go:184-193: the process ends by itself only after every Serve has   *)
(* returned, with success only if none of them failed, and otherwise with  *)
(* the error of one that did.                                              *)
ExitTellsAll ==
  /\ status \in {"ok", "fatal"} => \A s \in Services : Returned(s)
  /\ status = "ok" => \A s \in Services : at[s] = "stopped"
  /\ status = "fatal" => firstErr \in Services /\ at[firstErr] = "failed"

(* Closing the sockets in order to stop is never taken for a failure, and  *)
(* no service ends quietly while the others go on: a Serve that returns an *)
(* error had a socket of its own that failed, one that returns nil was     *)
(* told to.                                                                *)
ReturnsHaveReasons ==
  \A s \in Services : /\ at[s] = "failed" => broken[s]
                      /\ at[s] = "stopped" => cancelled

(* run.go:184-190: a signal, or one service's failure, ends the process,   *)
(* whatever the others were doing.                                         *)
StopTogether ==
  (cancelled \/ \E s \in Services : at[s] = "failed") ~> (status # "running")
=============================================================================
