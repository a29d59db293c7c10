------------------------------ MODULE Service ------------------------------
(***************************************************************************)
(* dshker-server serve, from OpenStore to its exit (cmd/dshker-server/     *)
(* main.go; Server.Run in src/internal/coordinator/server.go), the locks   *)
(* its handlers take, and the state files under it, which init commands    *)
(* may create at any time.                                                 *)
(*                                                                         *)
(* Run opens two listeners, serves each in a goroutine that reports how it *)
(* ended, and on the first report or a signal stops accepting, waits five  *)
(* seconds for the requests in flight and closes the signal sockets, which *)
(* net/http no longer counts once they are hijacked.                       *)
(*                                                                         *)
(* A handler is the sequence of locks it takes: the signal hub's mutex,    *)
(* the sessions' mutex and the only database connection.  A lock that is   *)
(* taken and given back with no other taken in between is one step, a      *)
(* visit, for whoever holds such a lock waits for nobody.  After any step  *)
(* a handler may return, having failed or finished, and gives back what it *)
(* holds, so a lease is a run of an attempt.  The limiter's mutex is only  *)
(* ever visited, before anything else.                                     *)
(***************************************************************************)
EXTENDS StateFiles

CONSTANT Handler    \* requests that can be in flight at once

ASSUME HandlerAssumption == None \notin Handler

VARIABLES
    server,      \* the process: where serve is, and its configuration
    https,       \* the TLS listener
    udp,         \* the STUN or relay socket
    timedOut,    \* the five seconds of Shutdown passed
    handlers,    \* the handlers: program, position, socket
    holder       \* who holds each lock

runVars == <<server, https, udp, timedOut>>
serviceVars == <<fileVars, runVars, handlers, holder>>

-----------------------------------------------------------------------------
(* The handlers' programs.                                                 *)

Locks == {"hub", "sessions", "pool"}

Lock(l) == [op |-> "lock", lock |-> l]
Unlock(l) == [op |-> "unlock", lock |-> l]
Visit(l) == [op |-> "visit", lock |-> l]
Hijack == [op |-> "hijack", lock |-> "hub"]
Register == [op |-> "register", lock |-> "hub"]

\* A handler authenticates first, in the database.  One that only visits locks
\* makes nobody wait, whichever they are: the heartbeat stands for the database
\* operations, the lists and the pair actions.
HeartbeatSteps == <<Visit("pool"), Visit("sessions"), Visit("pool")>>

\* Mutant of AttemptSteps: the target is told while sessions is held.
AttemptStepsHeld ==
    <<Visit("pool"), Lock("sessions"), Visit("pool"), Visit("hub"), Unlock("sessions")>>

\* Begin, the message to the target, and End when it cannot be sent.
AttemptSteps ==
    <<Visit("pool"), Lock("sessions"), Visit("pool"), Unlock("sessions"),
      Visit("hub"), Visit("sessions")>>

\* Mutant of ConnectSteps: the socket is accepted before hub is taken.
ConnectStepsEarly ==
    <<Visit("pool"), Hijack, Lock("hub"), Register, Unlock("hub"),
      Visit("pool"), Visit("sessions"), Visit("hub")>>

\* serveSignals up to its loop, one signal of the loop, and the deferred end.
ConnectSteps ==
    <<Visit("pool"), Lock("hub"), Hijack, Register, Unlock("hub"),
      Visit("pool"), Visit("sessions"), Visit("hub")>>
AdmitSteps == <<Lock("sessions"), Visit("pool"), Unlock("sessions"), Visit("hub")>>
CleanUpSteps == <<Lock("hub"), Visit("sessions"), Unlock("hub")>>

Requests == {"heartbeat", "attempt", "connect"}
Programs == Requests \cup {"admit", "cleanUp"}

Steps(program) ==
    CASE program = "heartbeat" -> HeartbeatSteps
      [] program = "attempt" -> AttemptSteps
      [] program = "connect" -> ConnectSteps
      [] program = "admit" -> AdmitSteps
      [] program = "cleanUp" -> CleanUpSteps

NoHandler == [runs |-> "none", at |-> 1, socket |-> "none"]

Running(h) == handlers[h].runs \in Programs
Current(h) == Steps(handlers[h].runs)[handlers[h].at]
Waits(h, l) == Running(h) /\ Current(h) \in {Lock(l), Visit(l)}

-----------------------------------------------------------------------------
(* The process.                                                            *)

ServerSteps == {"down", "listen", "listenUDP", "select", "shutdown",
                "hubClose", "returned"}
Listeners == {"https", "udp"}
Down == [at |-> "down", config |-> NoConfig]

ServiceTypeOK ==
    /\ FilesTypeOK
    /\ server \in [at : ServerSteps, config : Config \cup {NoConfig}]
    /\ https \in {"closed", "open", "failed"}
    /\ udp \in {"closed", "open", "failed"}
    /\ timedOut \in BOOLEAN
    /\ handlers \in [Handler ->
           [runs : Programs \cup {"none", "read", "refused"}, at : Nat,
            socket : {"none", "hijacked", "registered", "closing", "refused"}]]
    /\ \A h \in Handler : Running(h) => handlers[h].at \in DOMAIN Steps(handlers[h].runs)
    /\ holder \in [Locks -> Handler \cup {None}]

ProcessGone ==
    /\ server' = Down
    /\ https' = "closed"
    /\ udp' = "closed"
    /\ timedOut' = FALSE
    /\ handlers' = [h \in Handler |-> NoHandler]
    /\ holder' = [l \in Locks |-> None]

ServiceInit ==
    /\ FilesInit
    /\ server = Down
    /\ https = "closed"
    /\ udp = "closed"
    /\ timedOut = FALSE
    /\ handlers = [h \in Handler |-> NoHandler]
    /\ holder = [l \in Locks |-> None]

Goto(step) == server' = [server EXCEPT !.at = step]

\* serve exits at once when OpenStore refuses the files.
Start(c) ==
    /\ server.at = "down"
    /\ Opens(c)
    /\ server' = [at |-> "listen", config |-> c]
    /\ UNCHANGED <<fileVars, https, udp, timedOut, handlers, holder>>

ListenTCP ==
    /\ server.at = "listen"
    /\ \/ Goto("listenUDP") /\ https' = "open"
       \/ Goto("returned") /\ UNCHANGED https
    /\ UNCHANGED <<fileVars, udp, timedOut, handlers, holder>>

\* A failure returns past the deferred close of the first listener.
ListenUDP ==
    /\ server.at = "listenUDP"
    /\ \/ Goto("select") /\ udp' = "open" /\ UNCHANGED https
       \/ Goto("returned") /\ https' = "closed" /\ UNCHANGED udp
    /\ UNCHANGED <<fileVars, timedOut, handlers, holder>>

\* Mutant of Notices: the UDP goroutine reports only that the context ended.
NoticesTLS(listener) == listener = "https" /\ https = "failed"

\* The goroutine that serves a listener returns, and its report reaches select,
\* when the listener fails.
Notices(listener) ==
    \/ listener = "https" /\ https = "failed"
    \/ listener = "udp" /\ udp = "failed"

\* From select on: the cancel, which ends the goroutines (the channel has room
\* for their reports, that nobody reads), and the first thing Shutdown does,
\* which is to close its listener.
StopServing ==
    /\ server.at = "select"
    /\ Goto("shutdown")
    /\ https' = "closed"
    /\ udp' = "closed"
    /\ UNCHANGED <<fileVars, timedOut, handlers, holder>>

StopOnFailure == StopServing /\ \E listener \in Listeners : Notices(listener)

\* SIGINT or SIGTERM ends the context.
StopOnSignal == StopServing

\* Shutdown counts the connections that are not hijacked.
RequestsDone ==
    \A h \in Handler : handlers[h].runs # "none" => handlers[h].socket # "none"

EndShutdown ==
    /\ server.at = "shutdown"
    /\ RequestsDone \/ timedOut
    /\ Goto("hubClose")
    /\ UNCHANGED <<fileVars, https, udp, timedOut, handlers, holder>>

FiveSecondsPass ==
    /\ server.at = "shutdown"
    /\ timedOut' = TRUE
    /\ UNCHANGED <<fileVars, server, https, udp, handlers, holder>>

\* hub.close, under the hub's mutex, closes every socket that is registered.
\* It is the last deferred call of Run that does anything; store.Close follows.
HubClose ==
    /\ server.at = "hubClose"
    /\ holder["hub"] = None
    /\ handlers' = [h \in Handler |->
           IF handlers[h].socket = "registered"
           THEN [handlers[h] EXCEPT !.socket = "closing"] ELSE handlers[h]]
    /\ Goto("returned")
    /\ UNCHANGED <<fileVars, https, udp, timedOut, holder>>

Exit ==
    /\ server.at = "returned"
    /\ ProcessGone
    /\ UNCHANGED fileVars

ServerStep ==
    \/ ListenTCP \/ ListenUDP \/ StopOnFailure \/ EndShutdown \/ FiveSecondsPass
    \/ HubClose \/ Exit

-----------------------------------------------------------------------------
(* What may happen to the process.                                         *)

\* With the relay enabled a UDP socket that fails changes nothing here: ServeTURN
\* waits for the context and for nothing else.
ListenerFails ==
    /\ server.at = "select"
    /\ \/ https = "open" /\ https' = "failed" /\ UNCHANGED udp
       \/ udp = "open" /\ udp' = "failed" /\ UNCHANGED https
    /\ UNCHANGED <<fileVars, server, timedOut, handlers, holder>>

Kill ==
    /\ server.at # "down"
    /\ ProcessGone
    /\ UNCHANGED fileVars

-----------------------------------------------------------------------------
(* The handlers.                                                           *)

Run(program, socket) == [runs |-> program, at |-> 1, socket |-> socket]

StartHandler(h, program) ==
    /\ server.at = "select"
    /\ https = "open"
    /\ handlers[h] = NoHandler
    /\ handlers' = [handlers EXCEPT ![h] = Run(program, "none")]
    /\ UNCHANGED <<fileVars, runVars, holder>>

\* What follows the last step of a program, and a return before it.  A socket
\* accepted without the sub-protocol is closed by its handler after hub is given
\* back, which takes seconds; nobody else knows of it.
AfterEnd(h) ==
    IF handlers[h].runs \in {"connect", "admit"}
    THEN Run("read", handlers[h].socket) ELSE NoHandler
AfterReturn(h) ==
    CASE handlers[h].socket \in {"registered", "closing"} ->
             Run("cleanUp", handlers[h].socket)
      [] handlers[h].socket = "hijacked" -> Run("refused", "refused")
      [] OTHER -> NoHandler

Moved(h) ==
    LET row == handlers[h] IN
    IF row.at = Len(Steps(row.runs)) THEN AfterEnd(h)
    ELSE [row EXCEPT !.at = @ + 1,
                     !.socket = CASE Current(h) = Hijack -> "hijacked"
                                  [] Current(h) = Register -> "registered"
                                  [] OTHER -> @]

Step(h) ==
    /\ Running(h)
    /\ \/ /\ Current(h).op = "lock"
          /\ holder[Current(h).lock] = None
          /\ holder' = [holder EXCEPT ![Current(h).lock] = h]
       \/ /\ Current(h).op = "visit"
          /\ holder[Current(h).lock] = None
          /\ UNCHANGED holder
       \/ /\ Current(h).op = "unlock"
          /\ holder' = [holder EXCEPT ![Current(h).lock] = None]
       \/ /\ Current(h).op \in {"hijack", "register"}
          /\ UNCHANGED holder
    /\ handlers' = [handlers EXCEPT ![h] = Moved(h)]
    /\ UNCHANGED <<fileVars, runVars>>

\* The step before failed, or there is no more to do: the handler returns and
\* gives back what it holds.  The clean-up is deferred and runs to its end.
Return(h) ==
    /\ Running(h)
    /\ handlers[h].runs # "cleanUp"
    /\ holder' = [l \in Locks |-> IF holder[l] = h THEN None ELSE holder[l]]
    /\ handlers' = [handlers EXCEPT ![h] = AfterReturn(h)]
    /\ UNCHANGED <<fileVars, runVars>>

\* A signal arrives on an open socket.
ReadSignal(h) ==
    /\ handlers[h].runs = "read"
    /\ handlers[h].socket = "registered"
    /\ handlers' = [handlers EXCEPT ![h] = Run("admit", @.socket)]
    /\ UNCHANGED <<fileVars, runVars, holder>>

\* The machine went away, or the socket was closed here.
ReadFails(h) ==
    /\ handlers[h].runs = "read"
    /\ handlers' = [handlers EXCEPT ![h] = AfterReturn(h)]
    /\ UNCHANGED <<fileVars, runVars, holder>>

\* The closing handshake of a refused socket, or the wait for it, ends.
EndRefusal(h) ==
    /\ handlers[h].runs = "refused"
    /\ handlers' = [handlers EXCEPT ![h] = NoHandler]
    /\ UNCHANGED <<fileVars, runVars, holder>>

HandlerMoves(h) == Step(h) \/ (handlers[h].socket = "closing" /\ ReadFails(h))

-----------------------------------------------------------------------------
ServiceNext ==
    \/ CommandStep /\ UNCHANGED <<runVars, handlers, holder>>
    \/ LosePower /\ ProcessGone
    \/ \E c \in Config : Start(c)
    \/ ServerStep
    \/ ListenerFails
    \/ StopOnSignal
    \/ Kill
    \/ \E h \in Handler :
         \/ \E program \in Requests : StartHandler(h, program)
         \/ Step(h)
         \/ Return(h)
         \/ ReadSignal(h)
         \/ ReadFails(h)
         \/ EndRefusal(h)

\* The goroutines of the process are scheduled and its timer runs out.  A lock
\* that is given back again and again is got: sync.Mutex hands itself to a
\* waiter that starves, and the pool serves its callers in order.
ServiceFairness ==
    /\ WF_serviceVars(ServerStep)
    /\ SF_serviceVars(HubClose)
    /\ \A h \in Handler : SF_serviceVars(HandlerMoves(h))

ServiceSpec == ServiceInit /\ [][ServiceNext]_serviceVars /\ ServiceFairness

-----------------------------------------------------------------------------
(* Correctness.                                                            *)

\* No handlers wait for one another in a circle: the clean-up of a socket takes
\* sessions while it holds hub, Begin and Admit wait for the connection while
\* they hold sessions, and nobody does the reverse.
NoLockCycle ==
    \A S \in SUBSET Handler :
        S # {} => \E h \in S : \A l \in Locks : Waits(h, l) => holder[l] \notin S

\* A shutdown that did not run out of time leaves nothing behind that works: no
\* request is still being served when the database closes, and no socket carries
\* signals, not even one accepted while the server stops, which Shutdown no
\* longer counts: it is accepted and registered in one turn of the hub's mutex,
\* so hub.close finds it.  One accepted without the sub-protocol is left to its
\* handler, which holds no lock and only closes it (Run, serveSignals).
CleanShutdown ==
    server.at = "returned" /\ ~timedOut =>
        \A h \in Handler :
            \/ handlers[h].runs \in {"none", "refused"}
            \/ handlers[h].socket = "closing"

\* A shutdown is under way, or one of the listeners failed.
MustEnd ==
    \/ server.at = "shutdown"
    \/ /\ server.at = "select"
       /\ https = "failed" \/ udp = "failed"

\* A listener that fails takes the other one with it, and so does a signal to
\* stop: Run comes to an end that closes both and the process exits, whatever
\* the handlers hold meanwhile (STUN mode, see ListenerFails).
ServiceEnds == MustEnd ~> server.at = "down"
=============================================================================
