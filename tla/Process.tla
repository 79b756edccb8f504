------------------------------ MODULE Process -------------------------------
(***************************************************************************)
(* The process of internal/app/run.go with a connection to one of its      *)
(* services.  A connection has a goroutine of its own: it is accepted only *)
(* while its service's socket is open, goes on when the service has        *)
(* stopped, and ends at the latest with the process.                       *)
(***************************************************************************)
EXTENDS Supervisor, Connection, HTTPFix

(* Something is known to be sent to every TCP service.                     *)
ASSUME ProcessAssumption ==
  \A s \in Services : Kind[s] = "tcp" => Protocols[s] \subseteq DOMAIN Scripts

processVars == <<vars, conn, web>>

InitProcess == Init /\ conn = NoConn /\ web = NoWeb

Run == Next /\ UNCHANGED <<conn, web>>

\* The runs follow one connection.
Accepting(s) ==
  /\ status = "running" /\ at[s] = "serving" /\ ~broken[s] /\ ~closed[s]
  /\ conn = NoConn /\ web = NoWeb

AcceptTCP(s) ==
  /\ Accepting(s) /\ Kind[s] = "tcp"
  /\ \E protocol \in Protocols[s] :
       \E script \in Scripts[protocol] : conn' = Opened(protocol, script)
  /\ UNCHANGED <<vars, web>>

AcceptHTTP(s) ==
  /\ Accepting(s) /\ Kind[s] = "http"
  /\ \E requests \in Requests : web' = Wrapped(requests)
  /\ UNCHANGED <<vars, conn>>

Converse ==
  /\ status = "running" /\ conn.state = "open"
  /\ (\E n \in 1..Len(Stream(conn)) : Read(n)) \/ ReadFails
  /\ UNCHANGED <<vars, web>>

Browse ==
  /\ status = "running" /\ web.state = "open"
  /\ \/ \E n \in 0..Len(Wire(web)) : CheckTLS(n)
     \/ \E room \in Rooms : Hand(room) \/ \E n \in 1..Len(Wire(web)) : Through(room, n)
     \/ LoadLine \/ CutHeader \/ CloseWeb
  /\ UNCHANGED <<vars, conn>>

NextProcess ==
  \/ Run
  \/ \E s \in Services : AcceptTCP(s) \/ AcceptHTTP(s)
  \/ Converse \/ Browse

(* Clients may be silent for ever.                                         *)
ProcessSpec == InitProcess /\ [][NextProcess]_processVars /\ Fairness
=============================================================================
