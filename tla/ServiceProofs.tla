--------------------------- MODULE ServiceProofs ---------------------------
(***************************************************************************)
(* The serving process, for any number of handlers, init commands and      *)
(* paths: its handlers never wait for one another in a circle, a shutdown  *)
(* that had the time leaves no request and no socket behind but those on   *)
(* which it refused to speak, and under it the state files keep what       *)
(* StateFilesProofs says of them.                                          *)
(*                                                                         *)
(* The invariant gives for every position of a program the locks that are  *)
(* held there and what is known of the socket.  No circle: nobody holds    *)
(* the pool while it waits, whoever holds sessions waits for the pool at   *)
(* most, and whoever holds the hub for sessions at most.                   *)
(***************************************************************************)
EXTENDS Service, StateFilesProofs

\* Everything but the init commands and the loss of power leaves the files be.
LEMMA ServiceKeepsFiles == [ServiceNext]_serviceVars => [FilesNext]_fileVars
BY DEF ServiceNext, FilesNext, serviceVars, Start, ServerStep, ListenTCP, ListenUDP,
       StopOnFailure, StopOnSignal, StopServing, EndShutdown, FiveSecondsPass, HubClose,
       Exit, ListenerFails, Kill, StartHandler, Step, Return, ReadSignal, ReadFails,
       EndRefusal

\* The service, seen from its files, is the init commands of StateFiles: serve
\* never creates, fills or changes one (OpenStore opens what is there).
THEOREM ServiceImplementsFiles == ServiceSpec => FilesSpec
<1>1. ServiceInit => FilesInit
  BY DEF ServiceInit
<1> QED
  BY <1>1, ServiceKeepsFiles, PTL DEF ServiceSpec, FilesSpec

\* So a database that serve may open has its key, and nothing is overwritten
\* under it.
THEOREM ServedStateKept == ServiceSpec => []DatabaseHasKey /\ StateNeverOverwritten
BY ServiceImplementsFiles, IdentityKept, NeverOverwritten, PTL

-----------------------------------------------------------------------------
(* The programs.                                                           *)

\* The positions of a program between a lock and its unlock.
Holds(row, l) ==
    \/ l = "sessions" /\ row.runs = "attempt" /\ row.at \in {3, 4}
    \/ l = "sessions" /\ row.runs = "admit" /\ row.at \in {2, 3}
    \/ l = "hub" /\ row.runs = "connect" /\ row.at \in {3, 4, 5}
    \/ l = "hub" /\ row.runs = "cleanUp" /\ row.at \in {2, 3}

\* What is known of the socket.
SocketOf(row) ==
    /\ row.runs \in {"none", "heartbeat", "attempt"} => row.socket = "none"
    /\ row.runs \in {"read", "admit", "cleanUp"} => row.socket \in {"registered", "closing"}
    /\ row.runs = "connect" =>
           /\ row.at \in 1..3 => row.socket = "none"
           /\ row.at = 4 => row.socket = "hijacked"
           /\ row.at \in 5..8 => row.socket \in {"registered", "closing"}
    /\ row.socket = "refused" <=> row.runs = "refused"

\* The steps, by program and position.
LEMMA ProgramSteps ==
    ASSUME NEW h \in Handler, Running(h), handlers[h].at \in DOMAIN Steps(handlers[h].runs)
    PROVE  LET row == handlers[h] IN
           /\ row.runs = "heartbeat" =>
                 /\ row.at \in 1..3 /\ Len(Steps(row.runs)) = 3
                 /\ Current(h) \in {Visit("pool"), Visit("sessions")}
           /\ row.runs = "attempt" =>
                 /\ row.at \in 1..6 /\ Len(Steps(row.runs)) = 6
                 /\ row.at = 2 => Current(h) = Lock("sessions")
                 /\ row.at = 3 => Current(h) = Visit("pool")
                 /\ row.at = 4 => Current(h) = Unlock("sessions")
                 /\ row.at \notin {2, 4} => \E l \in Locks : Current(h) = Visit(l)
           /\ row.runs = "connect" =>
                 /\ row.at \in 1..8 /\ Len(Steps(row.runs)) = 8
                 /\ row.at = 2 => Current(h) = Lock("hub")
                 /\ row.at = 3 => Current(h) = Hijack
                 /\ row.at = 4 => Current(h) = Register
                 /\ row.at = 5 => Current(h) = Unlock("hub")
                 /\ row.at \notin 2..5 => \E l \in Locks : Current(h) = Visit(l)
           /\ row.runs = "admit" =>
                 /\ row.at \in 1..4 /\ Len(Steps(row.runs)) = 4
                 /\ row.at = 1 => Current(h) = Lock("sessions")
                 /\ row.at = 2 => Current(h) = Visit("pool")
                 /\ row.at = 3 => Current(h) = Unlock("sessions")
                 /\ row.at = 4 => Current(h) = Visit("hub")
           /\ row.runs = "cleanUp" =>
                 /\ row.at \in 1..3 /\ Len(Steps(row.runs)) = 3
                 /\ row.at = 1 => Current(h) = Lock("hub")
                 /\ row.at = 2 => Current(h) = Visit("sessions")
                 /\ row.at = 3 => Current(h) = Unlock("hub")
<1>1. CASE handlers[h].runs = "heartbeat"
  BY <1>1 DEF Steps, HeartbeatSteps, Current
<1>2. CASE handlers[h].runs = "attempt"
  BY <1>2 DEF Steps, AttemptSteps, Current, Locks
<1>3. CASE handlers[h].runs = "connect"
  BY <1>3 DEF Steps, ConnectSteps, Current, Locks
<1>4. CASE handlers[h].runs = "admit"
  BY <1>4 DEF Steps, AdmitSteps, Current
<1>5. CASE handlers[h].runs = "cleanUp"
  BY <1>5 DEF Steps, CleanUpSteps, Current
<1> QED
  BY <1>1, <1>2, <1>3, <1>4, <1>5 DEF Running, Programs, Requests

RowOK(row) ==
    /\ row \in [runs : Programs \cup {"none", "read", "refused"}, at : Nat,
                socket : {"none", "hijacked", "registered", "closing", "refused"}]
    /\ row.runs \in Programs => row.at \in DOMAIN Steps(row.runs)
    /\ SocketOf(row)

\* The rows a handler starts, or starts over, with.
LEMMA FirstRows ==
    /\ RowOK(NoHandler) /\ \A l : ~Holds(NoHandler, l)
    /\ RowOK(Run("refused", "refused")) /\ \A l : ~Holds(Run("refused", "refused"), l)
    /\ \A program \in Requests :
          RowOK(Run(program, "none")) /\ \A l : ~Holds(Run(program, "none"), l)
    /\ \A socket \in {"registered", "closing"} : \A program \in {"read", "admit", "cleanUp"} :
          RowOK(Run(program, socket)) /\ \A l : ~Holds(Run(program, socket), l)
<1>1. RowOK(NoHandler) /\ \A l : ~Holds(NoHandler, l)
  BY DEF RowOK, NoHandler, SocketOf, Holds, Programs, Requests
<1>5. RowOK(Run("refused", "refused")) /\ \A l : ~Holds(Run("refused", "refused"), l)
  BY DEF RowOK, Run, SocketOf, Holds, Programs, Requests
<1>2. /\ 1 \in DOMAIN Steps("heartbeat") /\ 1 \in DOMAIN Steps("attempt")
      /\ 1 \in DOMAIN Steps("connect") /\ 1 \in DOMAIN Steps("admit")
      /\ 1 \in DOMAIN Steps("cleanUp")
  BY DEF Steps, HeartbeatSteps, AttemptSteps, ConnectSteps, AdmitSteps, CleanUpSteps
<1>3. \A program \in Requests :
          RowOK(Run(program, "none")) /\ \A l : ~Holds(Run(program, "none"), l)
  BY <1>2 DEF RowOK, Run, SocketOf, Holds, Programs, Requests
<1>4. \A socket \in {"registered", "closing"} : \A program \in {"read", "admit", "cleanUp"} :
          RowOK(Run(program, socket)) /\ \A l : ~Holds(Run(program, socket), l)
  BY <1>2 DEF RowOK, Run, SocketOf, Holds, Programs, Requests
<1> QED
  BY <1>1, <1>3, <1>4, <1>5

\* The steps of different kinds differ.
LEMMA Kinds ==
    \A l : /\ Visit(l).op = "visit" /\ Lock(l).op = "lock" /\ Unlock(l).op = "unlock"
          /\ Lock(l).lock = l /\ Unlock(l).lock = l
          /\ Hijack.op = "hijack" /\ Register.op = "register"
          /\ Visit(l) \notin {Hijack, Register} /\ Lock(l) \notin {Hijack, Register}
          /\ Unlock(l) \notin {Hijack, Register} /\ Hijack # Register
BY DEF Visit, Lock, Unlock, Hijack, Register

\* What one step does to a handler's row.
MovesWell(old, new, step) ==
    /\ RowOK(new)
    /\ step.op = "lock" => \A l : ~Holds(old, l) /\ (Holds(new, l) <=> l = step.lock)
    /\ step.op = "unlock" => \A l : ~Holds(new, l) /\ (Holds(old, l) <=> l = step.lock)
    /\ step.op \notin {"lock", "unlock"} => \A l : Holds(new, l) <=> Holds(old, l)
    /\ old.socket # "none" => new.runs = "none" \/ new.socket # "none"
    /\ old.socket = "closing" => new.socket \in {"none", "closing"}

\* The fields of the next row.
LEMMA MovedFields ==
    ASSUME NEW h \in Handler, RowOK(handlers[h]), Running(h),
           handlers[h].at # Len(Steps(handlers[h].runs))
    PROVE  /\ Moved(h) \in [runs : Programs \cup {"none", "read", "refused"}, at : Nat,
                            socket : {"none", "hijacked", "registered", "closing", "refused"}]
           /\ Moved(h).runs = handlers[h].runs
           /\ Moved(h).at = handlers[h].at + 1
           /\ Current(h) = Hijack => Moved(h).socket = "hijacked"
           /\ Current(h) = Register => Moved(h).socket = "registered"
           /\ Current(h) \notin {Hijack, Register} => Moved(h).socket = handlers[h].socket
<1> DEFINE s == CASE Current(h) = Hijack -> "hijacked"
                  [] Current(h) = Register -> "registered"
                  [] OTHER -> handlers[h].socket
<1>1. /\ Current(h) = Hijack => s = "hijacked"
      /\ Current(h) = Register => s = "registered"
      /\ Current(h) \notin {Hijack, Register} => s = handlers[h].socket
  BY Kinds
<1>2. Moved(h) = [handlers[h] EXCEPT !.at = @ + 1, !.socket = s]
  BY DEF Moved
<1> HIDE DEF s
<1>3. s \in {"none", "hijacked", "registered", "closing", "refused"}
  BY <1>1 DEF RowOK
<1>4. handlers[h] \in [runs : Programs \cup {"none", "read", "refused"}, at : Nat,
                      socket : {"none", "hijacked", "registered", "closing", "refused"}]
  BY DEF RowOK
<1>5. /\ Moved(h) \in [runs : Programs \cup {"none", "read", "refused"}, at : Nat,
                       socket : {"none", "hijacked", "registered", "closing", "refused"}]
      /\ Moved(h).runs = handlers[h].runs
      /\ Moved(h).at = handlers[h].at + 1
      /\ Moved(h).socket = s
  <2>1. Moved(h) = [runs |-> handlers[h].runs, at |-> handlers[h].at + 1, socket |-> s]
    BY <1>2, <1>4
  <2>2. handlers[h].at + 1 \in Nat
    BY <1>4
  <2> QED
    BY <1>3, <1>4, <2>1, <2>2
<1> QED
  BY <1>1, <1>5

\* A program holds its lock between its lock and its unlock step.
LEMMA MovedWell ==
    ASSUME NEW h \in Handler, RowOK(handlers[h]), Running(h)
    PROVE  MovesWell(handlers[h], Moved(h), Current(h))
<1> DEFINE row == handlers[h]
           new == Moved(h)
<1>0. row.at \in DOMAIN Steps(row.runs) /\ row.at \in Nat
  BY DEF RowOK, Running
<1>1. CASE row.at = Len(Steps(row.runs))
  <2>1. new = AfterEnd(h)
    BY <1>1 DEF Moved
  <2>2. CASE row.runs \in {"connect", "admit"}
    <3>1. new = Run("read", row.socket) /\ new.runs = "read" /\ new.socket = row.socket
      BY <2>1, <2>2 DEF AfterEnd, Run
    <3>2. /\ row.at = IF row.runs = "connect" THEN 8 ELSE 4
          /\ \E l \in Locks : Current(h) = Visit(l)
      <4>1. CASE row.runs = "connect"
        <5>1. /\ Len(Steps(row.runs)) = 8
              /\ row.at \notin 2..5 => \E l \in Locks : Current(h) = Visit(l)
          BY <1>0, <4>1, ProgramSteps
        <5>2. row.at = 8 /\ 8 \notin 2..5
          BY <1>1, <5>1
        <5> QED
          BY <4>1, <5>1, <5>2
      <4>2. CASE row.runs = "admit"
        BY <1>0, <1>1, <4>2, ProgramSteps DEF Locks
      <4> QED
        BY <2>2, <4>1, <4>2
    <3>5. Current(h).op = "visit"
      BY <3>2, Kinds
    <3>3. row.socket \in {"registered", "closing"}
      BY <2>2, <3>2 DEF RowOK, SocketOf
    <3>4. \A l : ~Holds(row, l)
      BY <2>2, <3>2 DEF Holds
    <3> QED
      BY <3>1, <3>3, <3>4, <3>5, FirstRows DEF MovesWell
  <2>3. CASE row.runs \in {"heartbeat", "attempt"}
    <3>1. new = NoHandler /\ new.runs = "none" /\ new.socket = "none"
      BY <2>1, <2>3 DEF AfterEnd, NoHandler
    <3>2. /\ row.at = IF row.runs = "attempt" THEN 6 ELSE 3
          /\ \E l \in Locks : Current(h) = Visit(l)
      <4>1. CASE row.runs = "attempt"
        <5>1. /\ Len(Steps(row.runs)) = 6
              /\ row.at \notin {2, 4} => \E l \in Locks : Current(h) = Visit(l)
          BY <1>0, <4>1, ProgramSteps
        <5>2. row.at = 6 /\ 6 \notin {2, 4}
          BY <1>1, <5>1
        <5>3. \E l \in Locks : Current(h) = Visit(l)
          BY <5>1, <5>2
        <5> QED
          BY <4>1, <5>2, <5>3
      <4>2. CASE row.runs = "heartbeat"
        BY <1>0, <1>1, <4>2, ProgramSteps DEF Locks
      <4> QED
        BY <2>3, <4>1, <4>2
    <3>4. Current(h).op = "visit"
      BY <3>2, Kinds
    <3>3. \A l : ~Holds(row, l)
      BY <2>3, <3>2 DEF Holds
    <3> QED
      BY <3>1, <3>3, <3>4, FirstRows DEF MovesWell
  <2>4. CASE row.runs = "cleanUp"
    <3>1. new = NoHandler /\ new.runs = "none" /\ new.socket = "none"
      BY <2>1, <2>4 DEF AfterEnd, NoHandler
    <3>2. Current(h) = Unlock("hub") /\ row.at = 3
      BY <1>0, <1>1, <2>4, ProgramSteps
    <3>3. Current(h).op = "unlock" /\ Current(h).lock = "hub"
      BY <3>2, Kinds
    <3>4. \A l : Holds(row, l) <=> l = "hub"
      BY <2>4, <3>2 DEF Holds
    <3> QED
      BY <3>1, <3>3, <3>4, FirstRows DEF MovesWell
  <2> QED
    BY <2>2, <2>3, <2>4 DEF Running, Programs, Requests
<1>2. CASE row.at # Len(Steps(row.runs))
  <2>1. /\ new \in [runs : Programs \cup {"none", "read", "refused"}, at : Nat,
                    socket : {"none", "hijacked", "registered", "closing", "refused"}]
        /\ new.runs = row.runs /\ new.at = row.at + 1
        /\ Current(h) = Hijack => new.socket = "hijacked"
        /\ Current(h) = Register => new.socket = "registered"
        /\ Current(h) \notin {Hijack, Register} => new.socket = row.socket
    BY <1>2, MovedFields
  <2> SUFFICES MovesWell(row, new, Current(h))
    OBVIOUS
  <2> HIDE DEF new
  <2>2. new.at \in DOMAIN Steps(new.runs)
    <3>1. Steps(row.runs) \in {HeartbeatSteps, AttemptSteps, ConnectSteps, AdmitSteps,
                               CleanUpSteps}
      BY DEF Running, Programs, Requests, Steps
    <3>2. DOMAIN Steps(row.runs) = 1..Len(Steps(row.runs)) /\ Len(Steps(row.runs)) \in Nat
      BY <3>1 DEF HeartbeatSteps, AttemptSteps, ConnectSteps, AdmitSteps, CleanUpSteps
    <3> QED
      BY <1>0, <1>2, <2>1, <3>2
  <2>3. CASE row.runs = "heartbeat"
    <3>1. Current(h).op = "visit" /\ Current(h) \notin {Hijack, Register}
      BY <1>0, <2>3, ProgramSteps, Kinds
    <3>2. row.socket = "none" /\ new.socket = "none"
      BY <2>1, <2>3, <3>1 DEF RowOK, SocketOf
    <3>3. RowOK(new)
      BY <2>1, <2>2, <2>3, <3>2 DEF RowOK, SocketOf
    <3> QED
      BY <2>1, <2>3, <3>1, <3>2, <3>3 DEF MovesWell, Holds
  <2>4. CASE row.runs = "attempt"
    <3>0. /\ row.at \in 1..6 /\ row.at # 6
          /\ row.at = 2 => Current(h) = Lock("sessions")
          /\ row.at = 4 => Current(h) = Unlock("sessions")
          /\ row.at \notin {2, 4} => \E l \in Locks : Current(h) = Visit(l)
      BY <1>0, <1>2, <2>4, ProgramSteps
    <3>1. new.socket = "none"
      BY <2>1, <2>4, <3>0, Kinds DEF RowOK, SocketOf
    <3>2. RowOK(new)
      BY <2>1, <2>2, <2>4, <3>1 DEF RowOK, SocketOf
    <3>3. row.socket = "none"
      BY <2>4 DEF RowOK, SocketOf
    <3>4. CASE row.at = 2
      BY <2>1, <2>4, <3>0, <3>2, <3>3, <3>4, Kinds DEF MovesWell, Holds
    <3>5. CASE row.at = 4
      BY <2>1, <2>4, <3>0, <3>2, <3>3, <3>5, Kinds DEF MovesWell, Holds
    <3>6. CASE row.at \in {1, 3, 5}
      <4>1. Current(h).op = "visit"
        BY <3>0, <3>6, Kinds
      <4> QED
        BY <2>1, <2>4, <3>2, <3>3, <3>6, <4>1 DEF MovesWell, Holds
    <3> QED
      BY <3>0, <3>4, <3>5, <3>6
  <2>5. CASE row.runs = "connect"
    <3>0. /\ row.at \in 1..8 /\ row.at # 8
          /\ row.at = 2 => Current(h) = Lock("hub")
          /\ row.at = 3 => Current(h) = Hijack
          /\ row.at = 4 => Current(h) = Register
          /\ row.at = 5 => Current(h) = Unlock("hub")
          /\ row.at \notin 2..5 => \E l \in Locks : Current(h) = Visit(l)
      BY <1>0, <1>2, <2>5, ProgramSteps
    <3>1. /\ row.at \in 1..2 => row.socket = "none" /\ new.socket = "none"
          /\ row.at = 3 => row.socket = "none" /\ new.socket = "hijacked"
          /\ row.at = 4 => row.socket = "hijacked" /\ new.socket = "registered"
          /\ row.at \in 5..7 => row.socket \in {"registered", "closing"}
                               /\ new.socket = row.socket
      BY <2>1, <2>5, <3>0, Kinds DEF RowOK, SocketOf
    <3>2. RowOK(new)
      BY <2>1, <2>2, <2>5, <3>0, <3>1 DEF RowOK, SocketOf
    <3>3. CASE row.at = 2
      BY <2>1, <2>5, <3>0, <3>1, <3>2, <3>3, Kinds DEF MovesWell, Holds
    <3>4. CASE row.at = 5
      BY <2>1, <2>5, <3>0, <3>1, <3>2, <3>4, Kinds DEF MovesWell, Holds
    <3>5. CASE row.at \in {1, 3, 4, 6, 7}
      <4>1. Current(h).op \in {"visit", "hijack", "register"}
        BY <3>0, <3>5, Kinds
      <4> QED
        BY <2>1, <2>5, <3>1, <3>2, <3>5, <4>1 DEF MovesWell, Holds
    <3> QED
      BY <3>0, <3>3, <3>4, <3>5
  <2>6. CASE row.runs = "admit"
    <3>0. /\ row.at \in 1..4 /\ row.at # 4
          /\ row.at = 1 => Current(h) = Lock("sessions")
          /\ row.at = 2 => Current(h) = Visit("pool")
          /\ row.at = 3 => Current(h) = Unlock("sessions")
      BY <1>0, <1>2, <2>6, ProgramSteps
    <3>1. row.socket \in {"registered", "closing"} /\ new.socket = row.socket
      BY <2>1, <2>6, <3>0, Kinds DEF RowOK, SocketOf
    <3>2. RowOK(new)
      BY <2>1, <2>2, <2>6, <3>1 DEF RowOK, SocketOf
    <3>3. CASE row.at = 1
      BY <2>1, <2>6, <3>0, <3>1, <3>2, <3>3, Kinds DEF MovesWell, Holds
    <3>4. CASE row.at = 2
      BY <2>1, <2>6, <3>0, <3>1, <3>2, <3>4, Kinds DEF MovesWell, Holds
    <3>5. CASE row.at = 3
      BY <2>1, <2>6, <3>0, <3>1, <3>2, <3>5, Kinds DEF MovesWell, Holds
    <3> QED
      BY <3>0, <3>3, <3>4, <3>5
  <2>7. CASE row.runs = "cleanUp"
    <3>0. /\ row.at \in 1..3 /\ row.at # 3
          /\ row.at = 1 => Current(h) = Lock("hub")
          /\ row.at = 2 => Current(h) = Visit("sessions")
      BY <1>0, <1>2, <2>7, ProgramSteps
    <3>1. row.socket \in {"registered", "closing"} /\ new.socket = row.socket
      BY <2>1, <2>7, <3>0, Kinds DEF RowOK, SocketOf
    <3>2. RowOK(new)
      BY <2>1, <2>2, <2>7, <3>1 DEF RowOK, SocketOf
    <3>3. CASE row.at = 1
      BY <2>1, <2>7, <3>0, <3>1, <3>2, <3>3, Kinds DEF MovesWell, Holds
    <3>4. CASE row.at = 2
      BY <2>1, <2>7, <3>0, <3>1, <3>2, <3>4, Kinds DEF MovesWell, Holds
    <3> QED
      BY <3>0, <3>3, <3>4
  <2> QED
    BY <2>3, <2>4, <2>5, <2>6, <2>7 DEF Running, Programs, Requests
<1> QED
  BY <1>1, <1>2

-----------------------------------------------------------------------------
(* The invariant.                                                          *)

ProcessTypeOK ==
    /\ server \in [at : ServerSteps, config : Config \cup {NoConfig}]
    /\ https \in {"closed", "open", "failed"}
    /\ udp \in {"closed", "open", "failed"}
    /\ timedOut \in BOOLEAN

\* A handler has exactly the locks that its position says.
HandlersInv ==
    /\ handlers \in [Handler ->
           [runs : Programs \cup {"none", "read", "refused"}, at : Nat,
            socket : {"none", "hijacked", "registered", "closing", "refused"}]]
    /\ holder \in [Locks -> Handler \cup {None}]
    /\ \A h \in Handler : RowOK(handlers[h])
    /\ \A h \in Handler, l \in Locks : holder[l] = h <=> Holds(handlers[h], l)

NoSocketLeft ==
    server.at = "returned" /\ ~timedOut =>
        \A h \in Handler : handlers[h].socket \in {"none", "closing", "refused"}

\* No handler runs before the process serves; past the five seconds' wait, if
\* they did not run out, none is left that Shutdown counts.
PhaseInv ==
    /\ server.at \in {"down", "listen", "listenUDP"} =>
           \A h \in Handler : handlers[h] = NoHandler
    /\ server.at \in {"hubClose", "returned"} /\ ~timedOut => RequestsDone
    /\ NoSocketLeft

ServiceInv == ProcessTypeOK /\ HandlersInv /\ PhaseInv

\* One handler changes its row, and takes or gives back the locks that the new
\* row says.
LEMMA OneHandlerMoves ==
    ASSUME HandlersInv, NEW h \in Handler, NEW new, RowOK(new),
           handlers' = [handlers EXCEPT ![h] = new],
           holder' \in [Locks -> Handler \cup {None}],
           \A l \in Locks : holder'[l] = h <=> Holds(new, l),
           \A l \in Locks : holder'[l] # holder[l] =>
               holder[l] \in {h, None} /\ holder'[l] \in {h, None}
    PROVE  HandlersInv'
<1>1. \A g \in Handler : handlers'[g] = IF g = h THEN new ELSE handlers[g]
  BY DEF HandlersInv
<1>2. handlers' \in [Handler ->
           [runs : Programs \cup {"none", "read", "refused"}, at : Nat,
            socket : {"none", "hijacked", "registered", "closing", "refused"}]]
  BY DEF HandlersInv, RowOK
<1>3. \A g \in Handler : RowOK(handlers'[g])
  BY <1>1 DEF HandlersInv
<1>4. ASSUME NEW g \in Handler, NEW l \in Locks
      PROVE  holder'[l] = g <=> Holds(handlers'[g], l)
  <2>1. CASE g = h
    BY <1>1, <2>1
  <2>2. CASE g # h
    <3>1. holder'[l] = g <=> holder[l] = g
      BY <2>2, HandlerAssumption
    <3> QED
      BY <1>1, <2>2, <3>1 DEF HandlersInv
  <2> QED
    BY <2>1, <2>2
<1>5. \A g \in Handler : RowOK(handlers[g])'
  BY <1>3 DEF RowOK, SocketOf
<1>6. \A g \in Handler, l \in Locks : (holder[l] = g <=> Holds(handlers[g], l))'
  BY <1>4 DEF Holds
<1> QED
  BY <1>2, <1>5, <1>6 DEF HandlersInv

\* A row that changes when the server is past its wait has nothing to fear from
\* the phases if it keeps its socket or ends.
LEMMA OneRowInPhase ==
    ASSUME HandlersInv, PhaseInv, NEW h \in Handler, NEW new,
           handlers' = [handlers EXCEPT ![h] = new], UNCHANGED <<server, timedOut>>,
           server.at \in {"down", "listen", "listenUDP"} => handlers[h] # NoHandler,
           \/ server.at = "select"
           \/ /\ handlers[h].runs # "none"
              /\ handlers[h].socket # "none" => new.runs = "none" \/ new.socket # "none"
              /\ handlers[h].socket \in {"closing", "refused"} =>
                     new.socket \in {"none", "closing"}
              /\ new.runs = "none" => new.socket = "none"
    PROVE  PhaseInv'
<1>1. \A g \in Handler : handlers'[g] = IF g = h THEN new ELSE handlers[g]
  BY DEF HandlersInv
<1>2. server.at \notin {"down", "listen", "listenUDP"}
  BY DEF PhaseInv
<1>3. (server.at \in {"hubClose", "returned"} /\ ~timedOut => RequestsDone)'
  BY <1>1 DEF PhaseInv, RequestsDone
<1>4. NoSocketLeft'
  BY <1>1 DEF PhaseInv, RequestsDone, NoSocketLeft
<1> QED
  BY <1>2, <1>3, <1>4 DEF PhaseInv

\* The steps of a handler.
LEMMA StepKeepsInv ==
    ASSUME ServiceInv, NEW h \in Handler, Step(h)
    PROVE  ServiceInv'
<1> DEFINE new == Moved(h)
           step == Current(h)
<1>1. MovesWell(handlers[h], new, step) /\ RowOK(handlers[h])
  BY MovedWell DEF Step, ServiceInv, HandlersInv
<1>2. /\ handlers' = [handlers EXCEPT ![h] = new] /\ UNCHANGED runVars
      /\ handlers[h].runs \in Programs
  BY DEF Step, Running
<1>3. ProcessTypeOK'
  BY <1>2 DEF ServiceInv, ProcessTypeOK, runVars
<1> HIDE DEF new, step
<1>4. HandlersInv'
  <2>1. RowOK(new)
    BY <1>1 DEF MovesWell
  <2>2. \A l \in Locks : holder[l] = h <=> Holds(handlers[h], l)
    BY DEF ServiceInv, HandlersInv
  <2>3. holder \in [Locks -> Handler \cup {None}] /\ None \notin Handler
    BY HandlerAssumption DEF ServiceInv, HandlersInv
  <2>4. CASE /\ step.op = "lock"
             /\ holder[step.lock] = None
             /\ holder' = [holder EXCEPT ![step.lock] = h]
    <3>1. \A l \in Locks : holder'[l] = IF l = step.lock THEN h ELSE holder[l]
      BY <2>3, <2>4
    <3>2. holder' \in [Locks -> Handler \cup {None}]
      BY <2>3, <2>4
    <3>3. \A l \in Locks : holder'[l] = h <=> Holds(new, l)
      BY <1>1, <2>2, <2>4, <3>1 DEF MovesWell
    <3>4. \A l \in Locks : holder'[l] # holder[l] =>
              holder[l] \in {h, None} /\ holder'[l] \in {h, None}
      BY <2>4, <3>1
    <3> QED
      BY <1>2, <2>1, <3>2, <3>3, <3>4, OneHandlerMoves DEF ServiceInv
  <2>5. CASE step.op \notin {"lock", "unlock"} /\ UNCHANGED holder
    <3>1. \A l \in Locks : holder'[l] = h <=> Holds(new, l)
      BY <1>1, <2>2, <2>5 DEF MovesWell
    <3> QED
      BY <1>2, <2>1, <2>3, <2>5, <3>1, OneHandlerMoves DEF ServiceInv
  <2>6. CASE step.op = "unlock" /\ holder' = [holder EXCEPT ![step.lock] = None]
    <3>1. \A l \in Locks : holder'[l] = IF l = step.lock THEN None ELSE holder[l]
      BY <2>3, <2>6
    <3>2. holder' \in [Locks -> Handler \cup {None}]
      BY <2>3, <2>6
    <3>3. \A l \in Locks : holder'[l] = h <=> Holds(new, l)
      BY <1>1, <2>2, <2>3, <2>6, <3>1 DEF MovesWell
    <3>4. \A l \in Locks : holder'[l] # holder[l] =>
              holder[l] \in {h, None} /\ holder'[l] \in {h, None}
      BY <1>1, <2>2, <2>6, <3>1 DEF MovesWell
    <3> QED
      BY <1>2, <2>1, <3>2, <3>3, <3>4, OneHandlerMoves DEF ServiceInv
  <2> QED
    BY <2>4, <2>5, <2>6 DEF Step, step
<1>5. PhaseInv'
  <2>1. handlers[h] # NoHandler /\ handlers[h].runs # "none"
    BY <1>2 DEF NoHandler, Programs, Requests
  <2>2. new.runs = "none" => new.socket = "none"
    BY <1>1 DEF MovesWell, RowOK, SocketOf
  <2>3. handlers[h].socket # "refused"
    BY <1>1, <1>2 DEF RowOK, SocketOf, Programs, Requests
  <2> QED
    BY <1>1, <1>2, <2>1, <2>2, <2>3, OneRowInPhase DEF MovesWell, ServiceInv, runVars
<1> QED
  BY <1>3, <1>4, <1>5 DEF ServiceInv

\* A request that arrives, or a signal.
LEMMA ArrivalKeepsInv ==
    ASSUME ServiceInv, NEW h \in Handler,
           ReadSignal(h) \/ \E program \in Requests : StartHandler(h, program)
    PROVE  ServiceInv'
<1>1. ProcessTypeOK'
  BY DEF ReadSignal, StartHandler, ServiceInv, ProcessTypeOK, runVars
<1>2. /\ holder \in [Locks -> Handler \cup {None}] /\ RowOK(handlers[h])
      /\ \A l \in Locks : holder[l] = h <=> Holds(handlers[h], l)
  BY DEF ServiceInv, HandlersInv
<1>3. ASSUME NEW program \in Requests, StartHandler(h, program) PROVE ServiceInv'
  <2> DEFINE new == Run(program, "none")
  <2>1. RowOK(new) /\ \A l : ~Holds(new, l)
    BY FirstRows
  <2>2. \A l \in Locks : ~Holds(handlers[h], l)
    BY <1>3, FirstRows DEF StartHandler
  <2>3. handlers' = [handlers EXCEPT ![h] = new] /\ UNCHANGED <<runVars, holder>>
    BY <1>3 DEF StartHandler
  <2>4. server.at = "select"
    BY <1>3 DEF StartHandler
  <2> HIDE DEF new
  <2>5. HandlersInv'
    BY <1>2, <2>1, <2>2, <2>3, OneHandlerMoves DEF ServiceInv
  <2>6. PhaseInv'
    BY <2>3, <2>4, OneRowInPhase DEF ServiceInv, runVars
  <2> QED
    BY <1>1, <2>5, <2>6 DEF ServiceInv
<1>4. ASSUME ReadSignal(h) PROVE ServiceInv'
  <2> DEFINE new == Run("admit", "registered")
  <2>1. RowOK(new) /\ (\A l : ~Holds(new, l)) /\ new.socket = "registered" /\ new.runs = "admit"
    BY FirstRows DEF Run
  <2>2. \A l \in Locks : ~Holds(handlers[h], l)
    BY <1>4 DEF ReadSignal, Holds
  <2>3. handlers' = [handlers EXCEPT ![h] = new] /\ UNCHANGED <<runVars, holder>>
    BY <1>4 DEF ReadSignal
  <2>4. handlers[h].runs = "read" /\ handlers[h].socket = "registered"
    BY <1>4 DEF ReadSignal
  <2> HIDE DEF new
  <2>5. HandlersInv'
    BY <1>2, <2>1, <2>2, <2>3, OneHandlerMoves DEF ServiceInv
  <2>6. handlers[h] # NoHandler
    BY <2>4 DEF NoHandler
  <2>7. PhaseInv'
    BY <2>1, <2>3, <2>4, <2>6, OneRowInPhase DEF ServiceInv, runVars
  <2> QED
    BY <1>1, <2>5, <2>7 DEF ServiceInv
<1> QED
  BY <1>3, <1>4

\* A handler that returns gives back what it holds.
LEMMA ReturnKeepsInv ==
    ASSUME ServiceInv, NEW h \in Handler, Return(h) \/ ReadFails(h)
    PROVE  ServiceInv'
<1> DEFINE new == AfterReturn(h)
<1>1. /\ holder \in [Locks -> Handler \cup {None}] /\ RowOK(handlers[h])
      /\ \A l \in Locks : holder[l] = h <=> Holds(handlers[h], l)
  BY DEF ServiceInv, HandlersInv
<1>2. /\ RowOK(new) /\ \A l : ~Holds(new, l)
      /\ \/ new.runs = "none" /\ new.socket = "none"
         \/ new.runs = "cleanUp" /\ new.socket = handlers[h].socket
         \/ /\ new.runs = "refused" /\ new.socket = "refused"
            /\ handlers[h].socket = "hijacked"
  <2>1. NoHandler.runs = "none" /\ NoHandler.socket = "none"
    BY DEF NoHandler
  <2>2. \A s : Run("cleanUp", s).runs = "cleanUp" /\ Run("cleanUp", s).socket = s
    BY DEF Run
  <2>3. CASE handlers[h].socket \in {"registered", "closing"}
    BY <2>2, <2>3, FirstRows DEF AfterReturn
  <2>4. CASE handlers[h].socket = "hijacked"
    <3>1. new = Run("refused", "refused")
      BY <2>4 DEF AfterReturn
    <3>2. new.runs = "refused" /\ new.socket = "refused"
      BY <3>1 DEF Run
    <3> QED
      BY <2>4, <3>1, <3>2, FirstRows
  <2>5. CASE handlers[h].socket \notin {"registered", "closing", "hijacked"}
    <3>1. new = NoHandler
      BY <2>5 DEF AfterReturn
    <3> QED
      BY <2>1, <3>1, FirstRows
  <2> QED
    BY <2>3, <2>4, <2>5
<1>3. handlers' = [handlers EXCEPT ![h] = new] /\ UNCHANGED runVars
  BY DEF Return, ReadFails
<1>4. \A l \in Locks : holder'[l] = IF holder[l] = h THEN None ELSE holder[l]
  <2>1. CASE Return(h)
    BY <2>1 DEF Return
  <2>2. CASE ReadFails(h)
    <3>1. \A l \in Locks : ~Holds(handlers[h], l)
      BY <2>2 DEF ReadFails, Holds
    <3> QED
      BY <1>1, <2>2, <3>1 DEF ReadFails
  <2> QED
    BY <2>1, <2>2
<1>5. holder' \in [Locks -> Handler \cup {None}]
  BY <1>1 DEF Return, ReadFails
<1>6. handlers[h].runs # "none"
  BY DEF Return, ReadFails, Running, Programs, Requests
<1> HIDE DEF new
<1>7. HandlersInv'
  <2>1. RowOK(new) /\ \A l \in Locks : ~Holds(new, l)
    BY <1>2
  <2>2. \A l \in Locks : holder'[l] = h <=> Holds(new, l)
    BY <1>4, <2>1, HandlerAssumption
  <2>3. \A l \in Locks : holder'[l] # holder[l] =>
            holder[l] \in {h, None} /\ holder'[l] \in {h, None}
    BY <1>4
  <2> QED
    BY <1>3, <1>5, <2>1, <2>2, <2>3, OneHandlerMoves DEF ServiceInv
<1>8. PhaseInv'
  <2>1. handlers[h] # NoHandler
    BY <1>6 DEF NoHandler
  <2>2. handlers[h].socket # "refused"
    BY <1>1 DEF Return, ReadFails, Running, RowOK, SocketOf, Programs, Requests
  <2> QED
    BY <1>2, <1>3, <1>6, <2>1, <2>2, OneRowInPhase DEF ServiceInv, runVars
<1>9. ProcessTypeOK'
  BY <1>3 DEF ServiceInv, ProcessTypeOK, runVars
<1> QED
  BY <1>7, <1>8, <1>9 DEF ServiceInv

\* One that closed the socket it refused ends.
LEMMA RefusalKeepsInv ==
    ASSUME ServiceInv, NEW h \in Handler, EndRefusal(h)
    PROVE  ServiceInv'
<1>1. /\ holder \in [Locks -> Handler \cup {None}]
      /\ \A l \in Locks : holder[l] = h <=> Holds(handlers[h], l)
  BY DEF ServiceInv, HandlersInv
<1>2. /\ handlers' = [handlers EXCEPT ![h] = NoHandler] /\ UNCHANGED <<runVars, holder>>
      /\ handlers[h].runs = "refused"
  BY DEF EndRefusal
<1>3. NoHandler.runs = "none" /\ NoHandler.socket = "none" /\ handlers[h] # NoHandler
  BY <1>2 DEF NoHandler
<1>4. \A l \in Locks : ~Holds(handlers[h], l)
  BY <1>2 DEF Holds
<1>5. HandlersInv'
  BY <1>1, <1>2, <1>4, FirstRows, OneHandlerMoves DEF ServiceInv
<1>6. PhaseInv'
  <2> DEFINE new == NoHandler
  <2>1. /\ handlers' = [handlers EXCEPT ![h] = new] /\ new.runs = "none"
        /\ new.socket = "none" /\ UNCHANGED <<server, timedOut>>
        /\ handlers[h].runs # "none" /\ handlers[h] # NoHandler
    BY <1>2, <1>3 DEF runVars
  <2> HIDE DEF new
  <2> QED
    BY <2>1, OneRowInPhase DEF ServiceInv
<1>7. ProcessTypeOK'
  BY <1>2 DEF ServiceInv, ProcessTypeOK, runVars
<1> QED
  BY <1>5, <1>6, <1>7 DEF ServiceInv

\* A process that is gone has nothing.
LEMMA GoneInv == ASSUME ProcessGone PROVE ServiceInv'
<1>1. \A h \in Handler : handlers'[h] = NoHandler
  BY DEF ProcessGone
<1>2. HandlersInv'
  <2>1. /\ RowOK(NoHandler) /\ \A l : ~Holds(NoHandler, l)
        /\ \A l \in Locks : holder'[l] = None
    BY FirstRows DEF ProcessGone
  <2>2. \A h \in Handler : RowOK(handlers[h])'
    BY <1>1, <2>1 DEF RowOK, SocketOf
  <2>3. \A h \in Handler, l \in Locks : (holder[l] = h <=> Holds(handlers[h], l))'
    BY <1>1, <2>1, HandlerAssumption DEF Holds
  <2>4. handlers' \in [Handler ->
             [runs : Programs \cup {"none", "read", "refused"}, at : Nat,
              socket : {"none", "hijacked", "registered", "closing", "refused"}]]
    BY <2>1 DEF ProcessGone, RowOK
  <2> QED
    BY <2>2, <2>3, <2>4 DEF ProcessGone, HandlersInv
<1>3. server'.at = "down"
  BY DEF ProcessGone, Down
<1>4. PhaseInv'
  BY <1>1, <1>3 DEF PhaseInv, NoSocketLeft
<1>5. ProcessTypeOK'
  BY DEF ProcessGone, ProcessTypeOK, Down, ServerSteps
<1> QED
  BY <1>2, <1>4, <1>5 DEF ServiceInv

\* The process's own steps.
LEMMA ProcessKeepsInv ==
    ASSUME ServiceInv,
           ServerStep \/ StopOnSignal \/ ListenerFails \/ \E c \in Config : Start(c)
    PROVE  ServiceInv'
<1>1. ASSUME UNCHANGED <<handlers, holder>> PROVE HandlersInv'
  BY <1>1 DEF ServiceInv, HandlersInv, RowOK, SocketOf, Holds
<1>2. ASSUME NEW c \in Config, Start(c) PROVE ServiceInv'
  BY <1>1, <1>2
  DEF Start, ServiceInv, ProcessTypeOK, ServerSteps, PhaseInv, NoSocketLeft
<1>3. ASSUME ListenTCP \/ ListenUDP PROVE ServiceInv'
  <2>1. /\ \A g \in Handler : handlers'[g] = NoHandler
        /\ server'.at \in {"listenUDP", "select", "returned"} /\ UNCHANGED timedOut
    BY <1>3 DEF ListenTCP, ListenUDP, Goto, ServiceInv, ProcessTypeOK, PhaseInv
  <2>2. PhaseInv'
    BY <2>1 DEF PhaseInv, RequestsDone, NoSocketLeft, NoHandler
  <2>3. ProcessTypeOK'
    BY <1>3 DEF ListenTCP, ListenUDP, Goto, ServiceInv, ProcessTypeOK, ServerSteps
  <2> QED
    BY <1>1, <1>3, <2>2, <2>3 DEF ListenTCP, ListenUDP, ServiceInv
<1>4. ASSUME StopServing \/ FiveSecondsPass \/ ListenerFails PROVE ServiceInv'
  <2>1. server'.at \in {"select", "shutdown"}
    BY <1>4
    DEF StopServing, FiveSecondsPass, ListenerFails, Goto, ServiceInv, ProcessTypeOK
  <2>2. PhaseInv'
    BY <2>1 DEF PhaseInv, NoSocketLeft
  <2>3. ProcessTypeOK'
    BY <1>4
    DEF StopServing, FiveSecondsPass, ListenerFails, Goto, ServiceInv, ProcessTypeOK,
        ServerSteps
  <2> QED
    BY <1>1, <1>4, <2>2, <2>3 DEF StopServing, FiveSecondsPass, ListenerFails, ServiceInv
<1>5. ASSUME EndShutdown PROVE ServiceInv'
  <2>1. server'.at = "hubClose" /\ UNCHANGED <<handlers, timedOut>>
    BY <1>5 DEF EndShutdown, Goto, ServiceInv, ProcessTypeOK
  <2>2. PhaseInv'
    BY <1>5, <2>1 DEF EndShutdown, PhaseInv, RequestsDone, NoSocketLeft
  <2>3. ProcessTypeOK'
    BY <1>5 DEF EndShutdown, Goto, ServiceInv, ProcessTypeOK, ServerSteps
  <2> QED
    BY <1>1, <1>5, <2>2, <2>3 DEF EndShutdown, ServiceInv
<1>6. ASSUME HubClose PROVE ServiceInv'
  <2>1. \A g \in Handler : handlers'[g] =
            IF handlers[g].socket = "registered"
            THEN [handlers[g] EXCEPT !.socket = "closing"] ELSE handlers[g]
    BY <1>6 DEF HubClose
  <2>2. server'.at = "returned" /\ UNCHANGED <<timedOut, holder>>
    BY <1>6 DEF HubClose, Goto, ServiceInv, ProcessTypeOK
  <2>3. ASSUME NEW g \in Handler
        PROVE  /\ RowOK(handlers'[g])
               /\ \A l \in Locks : Holds(handlers'[g], l) <=> Holds(handlers[g], l)
               /\ handlers'[g].runs = handlers[g].runs
               /\ handlers'[g].socket # "hijacked" =>
                      handlers'[g].socket \in {"none", "closing", "refused"}
               /\ handlers[g].socket = "hijacked" <=> handlers'[g].socket = "hijacked"
               /\ handlers[g].socket = "none" <=> handlers'[g].socket = "none"
    <3>1. RowOK(handlers[g])
      BY DEF ServiceInv, HandlersInv
    <3>2. CASE handlers[g].socket = "registered"
      <4>1. /\ handlers'[g].runs = handlers[g].runs /\ handlers'[g].at = handlers[g].at
            /\ handlers'[g].socket = "closing"
            /\ handlers'[g] \in [runs : Programs \cup {"none", "read", "refused"}, at : Nat,
                   socket : {"none", "hijacked", "registered", "closing", "refused"}]
        BY <2>1, <3>1, <3>2 DEF RowOK
      <4>2. RowOK(handlers'[g])
        BY <3>1, <3>2, <4>1 DEF RowOK, SocketOf
      <4> QED
        BY <3>2, <4>1, <4>2 DEF Holds
    <3>3. CASE handlers[g].socket # "registered"
      BY <2>1, <3>1, <3>3 DEF RowOK
    <3> QED
      BY <3>2, <3>3
  <2>4. \A g \in Handler : handlers[g].socket # "hijacked"
    <3>1. ASSUME NEW g \in Handler, handlers[g].socket = "hijacked"
          PROVE  Holds(handlers[g], "hub")
      <4>1. RowOK(handlers[g])
        BY DEF ServiceInv, HandlersInv
      <4> QED
        BY <3>1, <4>1, ProgramSteps DEF RowOK, SocketOf, Holds, Running, Programs, Requests
    <3>2. \A g \in Handler : holder["hub"] # g
      BY <1>6, HandlerAssumption DEF HubClose
    <3> QED
      BY <3>1, <3>2 DEF ServiceInv, HandlersInv, Locks
  <2>5. HandlersInv'
    <3>1. handlers' = [g \in Handler |-> handlers'[g]]
      BY <1>6 DEF HubClose
    <3>2. handlers' \in [Handler ->
             [runs : Programs \cup {"none", "read", "refused"}, at : Nat,
              socket : {"none", "hijacked", "registered", "closing", "refused"}]]
      BY <2>3, <3>1 DEF RowOK
    <3>3. \A g \in Handler : RowOK(handlers[g])'
      BY <2>3 DEF RowOK, SocketOf
    <3>4. \A g \in Handler, l \in Locks : (holder[l] = g <=> Holds(handlers[g], l))'
      BY <2>2, <2>3 DEF ServiceInv, HandlersInv, Holds
    <3>5. holder' \in [Locks -> Handler \cup {None}]
      BY <2>2 DEF ServiceInv, HandlersInv
    <3> QED
      BY <3>2, <3>3, <3>4, <3>5 DEF HandlersInv
  <2>6. PhaseInv'
    <3>1. server.at = "hubClose"
      BY <1>6 DEF HubClose
    <3> QED
      BY <2>2, <2>3, <2>4, <3>1 DEF ServiceInv, PhaseInv, RequestsDone, NoSocketLeft
  <2>7. ProcessTypeOK'
    BY <1>6 DEF HubClose, Goto, ServiceInv, ProcessTypeOK, ServerSteps
  <2> QED
    BY <2>5, <2>6, <2>7 DEF ServiceInv
<1>7. ASSUME Exit PROVE ServiceInv'
  BY <1>7, GoneInv DEF Exit
<1> QED
  BY <1>2, <1>3, <1>4, <1>5, <1>6, <1>7 DEF ServerStep, StopOnFailure, StopOnSignal

\* Every step keeps the invariant.
LEMMA ServiceNextInv == ServiceInv /\ [ServiceNext]_serviceVars => ServiceInv'
<1> SUFFICES ASSUME ServiceInv, [ServiceNext]_serviceVars PROVE ServiceInv'
  OBVIOUS
<1>1. ASSUME UNCHANGED <<runVars, handlers, holder>> PROVE ServiceInv'
  BY <1>1
  DEF runVars, ServiceInv, ProcessTypeOK, HandlersInv, RowOK, SocketOf, Holds, PhaseInv,
      RequestsDone, NoSocketLeft
<1>2. ASSUME Kill \/ (LosePower /\ ProcessGone) PROVE ServiceInv'
  BY <1>2, GoneInv DEF Kill
<1> QED
  BY <1>1, <1>2, StepKeepsInv, ArrivalKeepsInv, ReturnKeepsInv, RefusalKeepsInv,
     ProcessKeepsInv
  DEF ServiceNext, serviceVars

\* The invariant holds in every reachable state.
LEMMA ServiceInvariant == ServiceSpec => []ServiceInv
<1>1. ServiceInit => ServiceInv
  <2> SUFFICES ASSUME ServiceInit PROVE ServiceInv
    OBVIOUS
  <2>1. \A h \in Handler : handlers[h] = NoHandler
    BY DEF ServiceInit
  <2>2. HandlersInv
    BY <2>1, FirstRows, HandlerAssumption DEF ServiceInit, HandlersInv, RowOK
  <2>3. server.at = "down"
    BY DEF ServiceInit, Down
  <2>4. PhaseInv
    BY <2>1, <2>3 DEF PhaseInv, NoSocketLeft
  <2>5. ProcessTypeOK
    BY DEF ServiceInit, ProcessTypeOK, ServerSteps, Down
  <2> QED
    BY <2>2, <2>4, <2>5 DEF ServiceInv
<1> QED
  BY <1>1, ServiceNextInv, PTL DEF ServiceSpec

\* The process and its handlers are well typed, and every handler is at a step
\* of its program (Run, serveSignals, the handlers of server.go).
THEOREM ServiceTypeCorrect == ServiceSpec => []ServiceTypeOK
<1>1. ServiceInv /\ FilesInv => ServiceTypeOK
  BY DEF ServiceInv, ProcessTypeOK, HandlersInv, RowOK, Running, FilesInv, ServiceTypeOK
<1> QED
  BY <1>1, ServiceInvariant, ServiceImplementsFiles, FilesInvariant, PTL

\* Whoever holds a lock waits for a later one of hub, sessions, pool, or for
\* none; so of any handlers one waits for nobody among them.
LEMMA NoCircle == HandlersInv => NoLockCycle
<1> SUFFICES ASSUME HandlersInv, NEW S \in SUBSET Handler, S # {},
                    \A h \in S : \E l \in Locks : Waits(h, l) /\ holder[l] \in S
             PROVE  FALSE
  BY DEF NoLockCycle
<1>1. ASSUME NEW g \in S, NEW l \in Locks, holder[l] = g PROVE Holds(handlers[g], l)
  BY <1>1 DEF HandlersInv
<1>2. holder["pool"] \notin S
  BY <1>1 DEF Holds, Locks
<1>3. ASSUME NEW g \in S PROVE RowOK(handlers[g]) /\ g \in Handler
  BY DEF HandlersInv
<1>4. holder["sessions"] \notin S
  <2> SUFFICES ASSUME holder["sessions"] \in S PROVE FALSE
    OBVIOUS
  <2> DEFINE g == holder["sessions"]
  <2>1. Holds(handlers[g], "sessions")
    BY <1>1 DEF Locks
  <2>2. Running(g) /\ handlers[g].at \in DOMAIN Steps(handlers[g].runs)
    BY <1>3, <2>1 DEF Holds, Running, RowOK, Programs, Requests
  <2>3. Current(g) \in {Visit("pool"), Unlock("sessions")}
    BY <1>3, <2>1, <2>2, ProgramSteps DEF Holds
  <2>4. \A l \in Locks : Waits(g, l) => l = "pool"
    BY <2>3 DEF Waits, Visit, Lock, Unlock
  <2> QED
    BY <1>2, <2>4
<1>5. holder["hub"] \notin S
  <2> SUFFICES ASSUME holder["hub"] \in S PROVE FALSE
    OBVIOUS
  <2> DEFINE g == holder["hub"]
  <2>1. Holds(handlers[g], "hub")
    BY <1>1 DEF Locks
  <2>2. Running(g) /\ handlers[g].at \in DOMAIN Steps(handlers[g].runs)
    BY <1>3, <2>1 DEF Holds, Running, RowOK, Programs, Requests
  <2>3. Current(g) \in {Hijack, Register, Unlock("hub"), Visit("sessions")}
    BY <1>3, <2>1, <2>2, ProgramSteps DEF Holds
  <2>4. \A l \in Locks : Waits(g, l) => l = "sessions"
    BY <2>3 DEF Waits, Visit, Lock, Unlock, Hijack, Register
  <2> QED
    BY <1>4, <2>4
<1> QED
  BY <1>2, <1>4, <1>5 DEF Locks

\* No handlers ever wait for one another in a circle, however many run
\* (Heartbeat, Begin, Admit, serveSignals and its clean-up).
THEOREM LocksAreOrdered == ServiceSpec => []NoLockCycle
<1>1. ServiceInv => NoLockCycle
  BY NoCircle DEF ServiceInv
<1> QED
  BY <1>1, ServiceInvariant, PTL

\* A shutdown that did not run out of time leaves no request under way and no
\* socket that carries signals, however many handlers there were: hub.close finds
\* all but the ones refused for their sub-protocol, whose handlers only close them
\* (Run, serveSignals, hub.close).
THEOREM ShutdownIsClean == ServiceSpec => []CleanShutdown
<1>1. ServiceInv => CleanShutdown
  <2> SUFFICES ASSUME ServiceInv, server.at = "returned", ~timedOut, NEW h \in Handler,
                      handlers[h].runs \notin {"none", "refused"}
               PROVE  handlers[h].socket = "closing"
    BY DEF CleanShutdown
  <2>1. handlers[h].socket \in {"closing", "refused"}
    BY DEF ServiceInv, PhaseInv, RequestsDone, NoSocketLeft
  <2>2. RowOK(handlers[h])
    BY DEF ServiceInv, HandlersInv
  <2> QED
    BY <2>1, <2>2 DEF RowOK, SocketOf
<1> QED
  BY <1>1, ServiceInvariant, PTL
=============================================================================
