-------------------------- MODULE SignalHubProofs --------------------------
(***************************************************************************)
(* The signal hub: its types, the one socket of a machine, the order of    *)
(* signals, and the notices of a revocation.                               *)
(***************************************************************************)
EXTENDS SignalHub, SequenceTheorems, TLAPS

\* A socket's queue stays within its bound, in the types, when it is sent to.
LEMMA SendType ==
    ASSUME HubTypeOK, NEW d \in Device, NEW m \in Message, CanSend(d), Send(d, m)
    PROVE  /\ queue' \in [Conn -> Seq(Message)]
           /\ \A c \in Conn : Len(queue'[c]) <= QueueLimit
<1>1. peers[d] \in Conn
  BY DEF HubTypeOK, CanSend
<1>2. Append(queue[peers[d]], m) \in Seq(Message)
  BY <1>1 DEF HubTypeOK
<1>3. Len(Append(queue[peers[d]], m)) = Len(queue[peers[d]]) + 1
  BY <1>1 DEF HubTypeOK
<1>4. Len(queue[peers[d]]) \in Nat /\ Len(queue[peers[d]]) < QueueLimit
  BY <1>1 DEF HubTypeOK, CanSend, HasRoom
<1>5. \A c \in Conn : queue'[c] = IF c = peers[d] THEN Append(queue[peers[d]], m)
                                  ELSE queue[c]
  BY <1>1 DEF Send, HubTypeOK
<1>6. queue' \in [Conn -> Seq(Message)]
  BY <1>1, <1>2 DEF Send, HubTypeOK
<1>7. ASSUME NEW c \in Conn PROVE Len(queue'[c]) <= QueueLimit
  <2>1. CASE c = peers[d]
    <3>1. Len(queue'[c]) = Len(queue[peers[d]]) + 1
      BY <2>1, <1>3, <1>5
    <3>2. QueueLimit \in Nat
      BY HubAssumption
    <3> QED
      BY <3>1, <3>2, <1>4
  <2>2. CASE c # peers[d]
    BY <2>2, <1>5 DEF HubTypeOK
  <2> QED
    BY <2>1, <2>2
<1> QED
  BY <1>6, <1>7

\* The hub starts well typed.
LEMMA InitType == Init => HubTypeOK
<1> SUFFICES ASSUME Init PROVE HubTypeOK
  OBVIOUS
<1>1. notices \in [Req -> NoticeRow]
  BY DEF Init, NoticeRow
<1>2. \A c \in Conn : queue[c] = <<>> /\ Len(queue[c]) <= QueueLimit
  BY HubAssumption DEF Init
<1> QED
  BY <1>1, <1>2 DEF Init, HubTypeOK, Phases

\* What else the types rest on: a socket in use has a machine, a reader that has
\* admitted a signal holds it, an attempt has two ends, and a handler that closes
\* a socket has an end left to tell.
Rows ==
    /\ \A c \in Conn : /\ phase[c] # "new" => owner[c] \in Device
                       /\ phase[c] = "admitted" => pending[c] \in Signal
    /\ \A x \in Attempt : attempts[x] # NoAttempt => attempts[x].from # attempts[x].to
    /\ \A r \in Req : notices[r].closing => notices[r].todo # <<>>

\* The reader's and the writer's steps keep the types.
LEMMA ReaderType ==
    ASSUME HubTypeOK, Rows, NEW c \in Conn, ReaderStep(c) \/ WriterStep(c)
    PROVE  HubTypeOK'
<1>1. CASE Greet(c)
  <2>1. owner[c] \in Device /\ Ready \in Message
    BY <1>1 DEF Greet, Rows, Message
  <2> QED
    BY <1>1, <2>1, SendType DEF Greet, HubTypeOK, Phases
<1>2. CASE GreetFails(c)
  BY <1>2 DEF GreetFails, HubTypeOK, Phases
<1>3. CASE ReaderLeaves(c)
  BY <1>3 DEF ReaderLeaves, HubTypeOK, Phases
<1>4. CASE CleanUp(c)
  <2>1. owner[c] \in Device
    BY <1>4 DEF CleanUp, Rows
  <2> QED
    BY <1>4, <2>1 DEF CleanUp, HubTypeOK, Phases
<1>5. CASE Take(c)
  <2>1. /\ Head(queue[c]) \in Message
        /\ Tail(queue[c]) \in Seq(Message)
        /\ Len(Tail(queue[c])) = Len(queue[c]) - 1
        /\ Len(queue[c]) \in Nat
    BY <1>5 DEF Take, HubTypeOK
  <2>2. \A e \in Conn : Len(queue'[e]) <= QueueLimit
    BY <1>5, <2>1, HubAssumption DEF Take, HubTypeOK
  <2> QED
    BY <1>5, <2>1, <2>2 DEF Take, HubTypeOK
<1>6. CASE Write(c)
  <2>1. Append(wrote[c], hand[c]) \in Seq(Message)
    BY <1>6 DEF Write, HubTypeOK
  <2> QED
    BY <1>6, <2>1 DEF Write, HubTypeOK
<1>7. CASE WriteFails(c)
  BY <1>7 DEF WriteFails, HubTypeOK
<1>8. CASE WriterStops(c)
  BY <1>8 DEF WriterStops, HubTypeOK
<1>9. CASE Forward(c)
  <2>1. pending[c] \in Signal
    BY <1>9 DEF Forward, Rows
  <2>2. pending[c] \in Message /\ pending[c].to \in Device
    BY <2>1 DEF Message, Signal
  <2>3. /\ queue' \in [Conn -> Seq(Message)]
        /\ \A e \in Conn : Len(queue'[e]) <= QueueLimit
    BY <1>9, <2>2, SendType DEF Forward
  <2> QED
    BY <1>9, <2>3 DEF Forward, HubTypeOK, Phases
<1>10. CASE ForwardFails(c)
  BY <1>10 DEF ForwardFails, HubTypeOK, Phases
<1>11. CASE Stop(c)
  BY <1>11 DEF Stop, HubTypeOK, Phases
<1> QED
  BY <1>1, <1>2, <1>3, <1>4, <1>5, <1>6, <1>7, <1>8, <1>9, <1>10, <1>11
  DEF ReaderStep, WriterStep

\* The signal a reader admits, and the attempt's row after it, are well typed.
LEMMA AdmitType ==
    ASSUME HubTypeOK, Rows, NEW c \in Conn, NEW x \in Attempt, NEW type \in Types,
           Admit(c, x, type)
    PROVE  /\ attempts' \in [Attempt -> {NoAttempt} \cup AttemptRow]
           /\ pending' \in [Conn -> Signal \cup {None}]
           /\ pending'[c] \in Signal
           /\ \A y \in Attempt : /\ attempts'[y].from = attempts[y].from
                                 /\ attempts'[y].to = attempts[y].to
                                 /\ attempts'[y] = NoAttempt => attempts[y] = NoAttempt
<1> DEFINE row == attempts[x]
           d == owner[c]
           number == NextSequence(x, d)
           to == OtherEnd(x, d)
           new == [row EXCEPT !.sequence[d] = number, !.described = @ \cup {d}]
<1>1. row \in AttemptRow /\ row # NoAttempt
  BY DEF Admit, HubTypeOK, NoAttempt, AttemptRow
<1>2. d \in Device /\ d \in {row.from, row.to}
  BY DEF Admit, Rows, EndsOf
<1>3. row.from \in Device /\ row.to \in Device /\ row.from # row.to
  BY <1>1 DEF AttemptRow, Rows
<1>4. to \in Device
  <2>1. \E e \in EndsOf(x) : e # d
    BY <1>3 DEF EndsOf
  <2>2. to \in EndsOf(x)
    BY <2>1 DEF OtherEnd
  <2> QED
    BY <2>2, <1>3 DEF EndsOf
<1>5. number \in 1..AttemptLimit
  <2>1. row.sequence[row.from] \in Nat /\ row.sequence[row.to] \in Nat
    BY <1>1, <1>3 DEF AttemptRow
  <2>2. row.sequence[row.from] + row.sequence[row.to] < AttemptLimit
    BY DEF Admit, Count
  <2>3. AttemptLimit \in Nat
    BY HubAssumption
  <2>4. row.sequence[d] \in Nat /\ row.sequence[d] < AttemptLimit
    BY <1>2, <2>1, <2>2, <2>3
  <2> QED
    BY <2>3, <2>4 DEF NextSequence
<1>6. new \in AttemptRow
  <2>1. [row.sequence EXCEPT ![d] = number] \in [Device -> 0..AttemptLimit]
    BY <1>1, <1>2, <1>5 DEF AttemptRow
  <2>2. row.described \cup {d} \in SUBSET Device
    BY <1>1, <1>2 DEF AttemptRow
  <2> QED
    BY <1>1, <2>1, <2>2 DEF AttemptRow
<1>7. new.from = row.from /\ new.to = row.to /\ new.state = row.state
  BY <1>1 DEF AttemptRow
<1>8. attempts' = [attempts EXCEPT ![x] = new]
  BY DEF Admit
<1>9. pending'[c] \in Signal /\ pending' \in [Conn -> Signal \cup {None}]
  <2>1. [kind |-> "signal", attempt |-> x, from |-> d, to |-> to, via |-> c,
         sequence |-> number] \in Signal
    BY <1>2, <1>4, <1>5 DEF Signal
  <2> QED
    BY <2>1 DEF Admit, HubTypeOK
<1>10. \A y \in Attempt : /\ attempts'[y].from = attempts[y].from
                         /\ attempts'[y].to = attempts[y].to
                         /\ attempts'[y] = NoAttempt => attempts[y] = NoAttempt
  <2>1. new # NoAttempt
    BY <1>6 DEF AttemptRow, NoAttempt
  <2> QED
    BY <1>7, <1>8, <2>1 DEF HubTypeOK
<1> QED
  BY <1>6, <1>8, <1>9, <1>10 DEF HubTypeOK

\* What a machine or a network does to a socket keeps the types.
LEMMA ClientType ==
    ASSUME HubTypeOK, Rows, NEW c \in Conn, ClientStep(c)
    PROVE  HubTypeOK'
<1>1. ASSUME NEW d \in Device, Register(c, d) PROVE HubTypeOK'
  BY <1>1 DEF Register, HubTypeOK, Phases
<1>2. ASSUME NEW x \in Attempt, NEW type \in Types, Admit(c, x, type) PROVE HubTypeOK'
  <2>1. phase' \in [Conn -> Phases]
    BY <1>2 DEF Admit, HubTypeOK, Phases
  <2>2. /\ attempts' \in [Attempt -> {NoAttempt} \cup AttemptRow]
        /\ pending' \in [Conn -> Signal \cup {None}]
    BY <1>2, AdmitType
  <2> QED
    BY <1>2, <2>1, <2>2 DEF Admit, HubTypeOK
<1>3. CASE Refuse(c)
  BY <1>3 DEF Refuse, HubTypeOK, Phases
<1>4. CASE Drop(c)
  BY <1>4 DEF Drop, HubTypeOK
<1> QED
  BY <1>1, <1>2, <1>3, <1>4 DEF ClientStep

\* Beginning, announcing and ending an attempt keeps the types.
LEMMA AttemptType ==
    ASSUME HubTypeOK, Rows, NEW x \in Attempt, AttemptStep(x)
    PROVE  HubTypeOK'
<1>1. ASSUME NEW from \in Device, NEW to \in Device, BeginAttempt(x, from, to)
      PROVE  HubTypeOK'
  <2>1. [state |-> "begun", from |-> from, to |-> to,
         sequence |-> [d \in Device |-> 0], described |-> {}] \in AttemptRow
    BY HubAssumption DEF AttemptRow
  <2> QED
    BY <1>1, <2>1 DEF BeginAttempt, socketVars, HubTypeOK
<1>2. CASE TellTarget(x)
  <2>1. attempts[x] \in AttemptRow
    BY <1>2 DEF TellTarget, HubTypeOK, NoAttempt
  <2>2. attempts[x].to \in Device /\ AttemptMessage(x) \in Message
    BY <2>1 DEF AttemptRow, Message
  <2>3. [attempts[x] EXCEPT !.state = "live"] \in AttemptRow
    BY <2>1 DEF AttemptRow
  <2>4. /\ queue' \in [Conn -> Seq(Message)]
        /\ \A e \in Conn : Len(queue'[e]) <= QueueLimit
    BY <1>2, <2>2, SendType DEF TellTarget
  <2> QED
    BY <1>2, <2>3, <2>4 DEF TellTarget, socketVars, HubTypeOK
<1>3. CASE TellFails(x) \/ Lapse(x)
  <2>1. attempts[x] \in AttemptRow
    BY <1>3 DEF TellFails, Lapse, HubTypeOK, NoAttempt
  <2>2. [attempts[x] EXCEPT !.state = "over"] \in AttemptRow
    BY <2>1 DEF AttemptRow
  <2> QED
    BY <1>3, <2>2 DEF TellFails, Lapse, socketVars, HubTypeOK
<1> QED
  BY <1>1, <1>2, <1>3 DEF AttemptStep

\* Telling a revoked pair keeps the types.
LEMMA NoticeType ==
    ASSUME HubTypeOK, Rows, NEW r \in Req, NoticeStep(r)
    PROVE  HubTypeOK'
<1>1. ASSUME NEW a \in Device, NEW b \in Device, StartNotice(r, a, b) PROVE HubTypeOK'
  <2>1. <<a, b>> \in Seq(Device)
    OBVIOUS
  <2>2. [todo |-> <<a, b>>, closing |-> FALSE, started |-> TRUE,
         watched |-> {c \in Conn : InService(c) /\ owner[c] \in {a, b}}] \in NoticeRow
    BY <2>1 DEF NoticeRow
  <2> QED
    BY <1>1, <2>2 DEF StartNotice, socketVars, HubTypeOK
<1>2. CASE NoticeSend(r)
  <2>1. /\ notices[r] \in NoticeRow
        /\ Head(notices[r].todo) \in Device
        /\ Tail(notices[r].todo) \in Seq(Device)
    BY <1>2 DEF NoticeSend, HubTypeOK, NoticeRow
  <2>2. RevokedMessage(r) \in Message
    BY DEF Message
  <2>3. notices' \in [Req -> NoticeRow]
    <3>1. /\ [notices[r] EXCEPT !.todo = Tail(@)] \in NoticeRow
          /\ [notices[r] EXCEPT !.closing = TRUE] \in NoticeRow
      BY <2>1 DEF NoticeRow
    <3>2. \/ notices' = [notices EXCEPT ![r] = [notices[r] EXCEPT !.todo = Tail(@)]]
          \/ notices' = [notices EXCEPT ![r] = [notices[r] EXCEPT !.closing = TRUE]]
      BY <1>2 DEF NoticeSend
    <3> QED
      BY <3>1, <3>2 DEF HubTypeOK
  <2>4. /\ queue' \in [Conn -> Seq(Message)]
        /\ \A e \in Conn : Len(queue'[e]) <= QueueLimit
    <3>1. CASE CanSend(Head(notices[r].todo))
      BY <1>2, <2>1, <2>2, <3>1, SendType DEF NoticeSend
    <3>2. CASE ~CanSend(Head(notices[r].todo))
      BY <1>2, <3>2 DEF NoticeSend, HubTypeOK
    <3> QED
      BY <3>1, <3>2
  <2> QED
    BY <1>2, <2>3, <2>4 DEF NoticeSend, socketVars, HubTypeOK
<1>3. CASE NoticeClose(r)
  <2>1. notices[r] \in NoticeRow /\ notices[r].todo # <<>>
    BY <1>3 DEF NoticeClose, Rows, HubTypeOK
  <2>2. /\ Head(notices[r].todo) \in Device
        /\ Tail(notices[r].todo) \in Seq(Device)
    BY <2>1 DEF NoticeRow
  <2>3. notices' \in [Req -> NoticeRow]
    <3>1. [[notices[r] EXCEPT !.todo = Tail(@)] EXCEPT !.closing = FALSE] \in NoticeRow
      BY <2>1, <2>2 DEF NoticeRow
    <3> QED
      BY <1>3, <3>1 DEF NoticeClose, HubTypeOK
  <2>4. closed' \subseteq Conn
    BY <1>3, <2>2 DEF NoticeClose, HubTypeOK
  <2> QED
    BY <1>3, <2>3, <2>4 DEF NoticeClose, HubTypeOK
<1> QED
  BY <1>1, <1>2, <1>3 DEF NoticeStep

\* Everything a reader or a writer does keeps the rows.
LEMMA GoroutineRows ==
    ASSUME HubTypeOK, Rows, NEW c \in Conn, ReaderStep(c) \/ WriterStep(c)
    PROVE  Rows'
<1>1. UNCHANGED <<owner, attempts, notices>>
  BY DEF ReaderStep, WriterStep, Greet, GreetFails, ReaderLeaves, Stop, CleanUp,
         Forward, ForwardFails, Take, Write, WriteFails, WriterStops
<1>2. ASSUME NEW e \in Conn
      PROVE  /\ phase'[e] # "new" => phase[e] # "new"
             /\ phase'[e] = "admitted" => phase[e] = "admitted" /\ pending'[e] = pending[e]
  BY DEF HubTypeOK, ReaderStep, WriterStep, Greet, GreetFails, ReaderLeaves, Stop,
         CleanUp, Forward, ForwardFails, Take, Write, WriteFails, WriterStops
<1> QED
  BY <1>1, <1>2 DEF Rows

\* So does everything a machine or a network does to a socket.
LEMMA ClientRows ==
    ASSUME HubTypeOK, Rows, NEW c \in Conn, ClientStep(c)
    PROVE  Rows'
<1>1. ASSUME NEW d \in Device, Register(c, d) PROVE Rows'
  BY <1>1 DEF Register, Rows, HubTypeOK
<1>2. ASSUME NEW x \in Attempt, NEW type \in Types, Admit(c, x, type) PROVE Rows'
  <2>1. ASSUME NEW e \in Conn
        PROVE  /\ phase'[e] # "new" => owner'[e] \in Device
               /\ phase'[e] = "admitted" => pending'[e] \in Signal
    <3>1. pending'[c] \in Signal
      BY <1>2, AdmitType
    <3> QED
      BY <1>2, <3>1 DEF Admit, Rows, HubTypeOK
  <2>2. ASSUME NEW y \in Attempt, attempts'[y] # NoAttempt
        PROVE  attempts'[y].from # attempts'[y].to
    <3>1. /\ attempts'[y].from = attempts[y].from
          /\ attempts'[y].to = attempts[y].to
          /\ y # x => attempts'[y] = attempts[y]
      BY <1>2, AdmitType DEF Admit, HubTypeOK
    <3>2. attempts[x] # NoAttempt
      BY <1>2 DEF Admit, NoAttempt
    <3> QED
      BY <2>2, <3>1, <3>2 DEF Rows
  <2> QED
    BY <1>2, <2>1, <2>2 DEF Rows, Admit
<1>3. CASE Refuse(c) \/ Drop(c)
  BY <1>3 DEF Refuse, Drop, Rows, HubTypeOK
<1> QED
  BY <1>1, <1>2, <1>3 DEF ClientStep

\* So do the steps of attempts.
LEMMA AttemptRows ==
    ASSUME HubTypeOK, Rows, NEW x \in Attempt, AttemptStep(x)
    PROVE  Rows'
<1>1. UNCHANGED <<owner, phase, pending, notices>>
  BY DEF AttemptStep, BeginAttempt, TellTarget, TellFails, Lapse, socketVars
<1>2. ASSUME NEW y \in Attempt, attempts'[y] # NoAttempt
      PROVE  attempts'[y].from # attempts'[y].to
  <2>1. CASE y # x
    <3>1. attempts'[y] = attempts[y]
      BY <2>1 DEF AttemptStep, BeginAttempt, TellTarget, TellFails, Lapse, HubTypeOK
    <3> QED
      BY <1>2, <3>1 DEF Rows
  <2>2. CASE y = x
    <3>1. ASSUME NEW from \in Device, NEW to \in Device, BeginAttempt(x, from, to)
          PROVE  attempts'[x].from # attempts'[x].to
      BY <3>1 DEF BeginAttempt, HubTypeOK
    <3>2. CASE TellTarget(x) \/ TellFails(x) \/ Lapse(x)
      <4>1. attempts[x] \in AttemptRow /\ attempts[x] # NoAttempt
        BY <3>2 DEF TellTarget, TellFails, Lapse, HubTypeOK, NoAttempt
      <4>2. attempts'[x].from = attempts[x].from /\ attempts'[x].to = attempts[x].to
        BY <3>2, <4>1 DEF TellTarget, TellFails, Lapse, HubTypeOK, AttemptRow
      <4> QED
        BY <2>2, <4>1, <4>2 DEF Rows
    <3> QED
      BY <2>2, <3>1, <3>2 DEF AttemptStep
  <2> QED
    BY <2>1, <2>2
<1> QED
  BY <1>1, <1>2 DEF Rows

\* So do the steps of a revocation's handler: it closes only for an end left.
LEMMA NoticeRows ==
    ASSUME HubTypeOK, Rows, NEW r \in Req, NoticeStep(r)
    PROVE  Rows'
<1>1. UNCHANGED <<owner, phase, pending, attempts>>
  BY DEF NoticeStep, StartNotice, NoticeSend, NoticeClose, socketVars
<1>2. ASSUME NEW q \in Req, notices'[q].closing
      PROVE  notices'[q].todo # <<>>
  <2>1. CASE q # r
    <3>1. notices'[q] = notices[q]
      BY <2>1 DEF NoticeStep, StartNotice, NoticeSend, NoticeClose, HubTypeOK
    <3> QED
      BY <1>2, <3>1 DEF Rows
  <2>2. CASE q = r
    <3>1. notices[r] \in NoticeRow
      BY DEF HubTypeOK
    <3>2. CASE \E a, b \in Device : StartNotice(r, a, b)
      BY <1>2, <2>2, <3>2 DEF StartNotice, HubTypeOK
    <3>3. CASE NoticeSend(r)
      <4>1. notices[r].todo # <<>> /\ ~notices[r].closing
        BY <3>3 DEF NoticeSend
      <4>2. CASE notices' = [notices EXCEPT ![r].todo = Tail(@)]
        BY <1>2, <2>2, <3>1, <4>1, <4>2 DEF HubTypeOK, NoticeRow
      <4>3. CASE notices' = [notices EXCEPT ![r].closing = TRUE]
        BY <2>2, <3>1, <4>1, <4>3 DEF HubTypeOK, NoticeRow
      <4> QED
        BY <3>3, <4>2, <4>3 DEF NoticeSend
    <3>4. CASE NoticeClose(r)
      <4>1. notices' = [notices EXCEPT ![r] =
                          [[notices[r] EXCEPT !.todo = Tail(@)] EXCEPT !.closing = FALSE]]
        BY <3>4 DEF NoticeClose
      <4>2. notices'[r].closing = FALSE
        BY <3>1, <4>1 DEF HubTypeOK, NoticeRow
      <4> QED
        BY <1>2, <2>2, <4>2
    <3> QED
      BY <3>2, <3>3, <3>4 DEF NoticeStep
  <2> QED
    BY <2>1, <2>2
<1> QED
  BY <1>1, <1>2 DEF Rows

\* A step of any actor keeps the one socket of each machine: a socket registers
\* only where there is none, and a clean-up deletes the entry of its own machine.
LEMMA SocketStep ==
    ASSUME HubTypeOK, Rows, OneSocketPerDevice, [Next]_vars
    PROVE  OneSocketPerDevice'
<1>1. ASSUME NEW c \in Conn, NEW d \in Device, Register(c, d)
      PROVE  OneSocketPerDevice'
  <2>1. peers[d] \notin Conn
    BY <1>1, HubAssumption DEF Register, Free
  <2> QED
    BY <1>1, <2>1 DEF Register, OneSocketPerDevice, Rows, HubTypeOK
<1>2. ASSUME NEW c \in Conn, CleanUp(c)
      PROVE  OneSocketPerDevice'
  <2>1. owner[c] \in Device /\ peers[owner[c]] = c
    BY <1>2 DEF CleanUp, OneSocketPerDevice, Rows
  <2> QED
    BY <1>2, <2>1 DEF CleanUp, OneSocketPerDevice, Rows, HubTypeOK
<1>3. CASE UNCHANGED vars
  BY <1>3 DEF vars, socketVars, OneSocketPerDevice
<1>4. ASSUME NEW c \in Conn, ReaderStep(c) \/ WriterStep(c) \/ ClientStep(c),
             ~CleanUp(c), \A d \in Device : ~Register(c, d)
      PROVE  OneSocketPerDevice'
  <2>1. UNCHANGED <<peers, owner>>
    BY <1>4 DEF ReaderStep, WriterStep, ClientStep, Greet, GreetFails, ReaderLeaves,
                Stop, Forward, ForwardFails, Take, Write, WriteFails, WriterStops,
                Admit, Refuse, Drop
  <2>2. ASSUME NEW e \in Conn, phase'[e] \notin {"new", "gone"}
        PROVE  phase[e] \notin {"new", "gone"}
    BY <1>4, <2>2 DEF HubTypeOK, ReaderStep, WriterStep, ClientStep, Greet, GreetFails,
                ReaderLeaves, Stop, Forward, ForwardFails, Take, Write, WriteFails,
                WriterStops, Admit, Refuse, Drop
  <2> QED
    BY <2>1, <2>2 DEF OneSocketPerDevice
<1>5. ASSUME NEW x \in Attempt, AttemptStep(x) PROVE OneSocketPerDevice'
  BY <1>5 DEF AttemptStep, BeginAttempt, TellTarget, TellFails, Lapse, socketVars,
              OneSocketPerDevice
<1>6. ASSUME NEW r \in Req, NoticeStep(r) PROVE OneSocketPerDevice'
  BY <1>6 DEF NoticeStep, StartNotice, NoticeSend, NoticeClose, socketVars,
              OneSocketPerDevice
<1> QED
  BY <1>1, <1>2, <1>3, <1>4, <1>5, <1>6 DEF Next

\* The types, and the rows they rest on, hold from the start and at every step.
LEMMA HubInvariant == Spec => [](HubTypeOK /\ Rows)
<1>1. Init => HubTypeOK /\ Rows
  BY InitType DEF Init, Rows
<1>2. HubTypeOK /\ Rows /\ [Next]_vars => (HubTypeOK /\ Rows)'
  <2> SUFFICES ASSUME HubTypeOK, Rows, [Next]_vars PROVE HubTypeOK' /\ Rows'
    OBVIOUS
  <2>1. CASE UNCHANGED vars
    BY <2>1 DEF vars, socketVars, HubTypeOK, Rows
  <2>2. ASSUME NEW c \in Conn, ReaderStep(c) \/ WriterStep(c)
        PROVE  HubTypeOK' /\ Rows'
    BY <2>2, ReaderType, GoroutineRows
  <2>3. ASSUME NEW c \in Conn, ClientStep(c) PROVE HubTypeOK' /\ Rows'
    BY <2>3, ClientType, ClientRows
  <2>4. ASSUME NEW x \in Attempt, AttemptStep(x) PROVE HubTypeOK' /\ Rows'
    BY <2>4, AttemptType, AttemptRows
  <2>5. ASSUME NEW r \in Req, NoticeStep(r) PROVE HubTypeOK' /\ Rows'
    BY <2>5, NoticeType, NoticeRows
  <2> QED
    BY <2>1, <2>2, <2>3, <2>4, <2>5 DEF Next
<1> QED
  BY <1>1, <1>2, PTL DEF Spec

\* The hub is well typed and no queue exceeds its bound, for any number of
\* machines, sockets, attempts and revocations (signaling.go, admitSDP).
THEOREM HubTypeCorrect == Spec => []HubTypeOK
  BY HubInvariant, PTL

\* A machine has at most one socket being served, the one the hub knows, so no
\* clean-up forgets a successor (serveSignals).
THEOREM OneSocket == Spec => []OneSocketPerDevice
<1>1. Init => OneSocketPerDevice
  BY DEF Init, OneSocketPerDevice
<1>2. HubTypeOK /\ Rows /\ OneSocketPerDevice /\ [Next]_vars => OneSocketPerDevice'
  BY SocketStep
<1> QED
  BY <1>1, <1>2, HubInvariant, PTL DEF Spec

-----------------------------------------------------------------------------
(* What the steps do to the streams of the sockets.                        *)

InHand(c) == IF hand[c] = None THEN <<>> ELSE <<hand[c]>>

LEMMA StreamParts ==
    ASSUME HubTypeOK, NEW c \in Conn
    PROVE  /\ wrote[c] \in Seq(Message) /\ queue[c] \in Seq(Message)
           /\ InHand(c) \in Seq(Message)
           /\ wrote[c] \o InHand(c) \in Seq(Message)
           /\ Stream(c) = IF c \in cancelled THEN wrote[c]
                          ELSE (wrote[c] \o InHand(c)) \o queue[c]
           /\ Stream(c) \in Seq(Message)
<1>1. wrote[c] \in Seq(Message) /\ queue[c] \in Seq(Message)
  BY DEF HubTypeOK
<1>2. InHand(c) \in Seq(Message)
  BY DEF InHand, HubTypeOK
<1>3. wrote[c] \o InHand(c) \in Seq(Message)
  BY <1>1, <1>2, ConcatProperties
<1>4. (wrote[c] \o InHand(c)) \o queue[c] \in Seq(Message)
  BY <1>1, <1>3, ConcatProperties
<1>5. Stream(c) = IF c \in cancelled THEN wrote[c]
                  ELSE (wrote[c] \o InHand(c)) \o queue[c]
  BY DEF Stream, InHand
<1> QED
  BY <1>1, <1>2, <1>3, <1>4, <1>5

\* A stream is a stream: nothing in it changes, and it is cut only when the
\* socket's context is cancelled.
Shortened(c) ==
    /\ DOMAIN Stream(c)' \subseteq DOMAIN Stream(c)
    /\ \A i \in DOMAIN Stream(c)' : Stream(c)'[i] = Stream(c)[i]
    /\ c \notin cancelled' => c \notin cancelled /\ Stream(c)' = Stream(c)

Extended(c, m) ==
    /\ c \notin cancelled /\ c \notin cancelled'
    /\ Stream(c)' = Append(Stream(c), m)

LEMMA StreamStays ==
    ASSUME NEW c \in Conn, wrote'[c] = wrote[c], hand'[c] = hand[c], queue'[c] = queue[c],
           c \in cancelled' <=> c \in cancelled
    PROVE  Shortened(c)
BY DEF Shortened, Stream

\* Appending, and moving the head, commute with concatenation.
LEMMA AppendOfConcat ==
    ASSUME NEW S, NEW w \in Seq(S), NEW q \in Seq(S), NEW m \in S
    PROVE  w \o Append(q, m) = Append(w \o q, m)
OBVIOUS

LEMMA HeadOfConcat ==
    ASSUME NEW S, NEW w \in Seq(S), NEW q \in Seq(S), q # <<>>
    PROVE  (w \o <<Head(q)>>) \o Tail(q) = (w \o <<>>) \o q
OBVIOUS

\* A message that is sent goes to the end of its target's stream.
LEMMA StreamOfSend ==
    ASSUME HubTypeOK, NEW d \in Device, NEW m \in Message, CanSend(d), Send(d, m),
           UNCHANGED <<wrote, hand, cancelled>>
    PROVE  /\ peers[d] \in Conn
           /\ \A c \in Conn : /\ c # peers[d] => Shortened(c)
                              /\ c = peers[d] /\ c \in cancelled => Shortened(c)
                              /\ c = peers[d] /\ c \notin cancelled => Extended(c, m)
<1>1. PICK e \in Conn : e = peers[d]
  BY DEF HubTypeOK, CanSend
<1>2. /\ queue'[e] = Append(queue[e], m)
      /\ \A c \in Conn : c # e => queue'[c] = queue[c]
  BY <1>1 DEF Send, HubTypeOK
<1>3. \A c \in Conn : c # e => Shortened(c)
  BY <1>2, StreamStays
<1>4. CASE e \in cancelled
  <2>1. Stream(e)' = Stream(e)
    BY <1>4 DEF Stream
  <2> QED
    BY <1>1, <1>3, <1>4, <2>1 DEF Shortened
<1>5. CASE e \notin cancelled
  <2>1. PICK w \in Seq(Message) : w = wrote[e] \o InHand(e)
    BY StreamParts
  <2>2. queue[e] \in Seq(Message) /\ Stream(e) = w \o queue[e]
    BY <1>5, <2>1, StreamParts
  <2>3. wrote'[e] = wrote[e] /\ hand'[e] = hand[e] /\ e \notin cancelled'
    BY <1>5
  <2>4. Stream(e)' = w \o Append(queue[e], m)
    BY <1>2, <2>1, <2>3 DEF Stream, InHand
  <2>5. Stream(e)' = Append(Stream(e), m)
    BY <2>2, <2>4, AppendOfConcat
  <2>6. Extended(e, m)
    BY <1>5, <2>3, <2>5 DEF Extended
  <2> QED
    BY <1>1, <1>3, <1>5, <2>6
<1> QED
  BY <1>4, <1>5

\* Taking and writing a message move it along its socket's stream.
LEMMA StreamOfTake ==
    ASSUME HubTypeOK, NEW e \in Conn, Take(e), NEW c \in Conn PROVE Shortened(c)
<1>1. c # e => Shortened(c)
  BY StreamStays DEF Take, HubTypeOK
<1>2. CASE c = e /\ e \in cancelled
  BY <1>2 DEF Take, Stream, Shortened
<1>3. CASE c = e /\ e \notin cancelled
  <2>1. /\ wrote[e] \in Seq(Message) /\ queue[e] \in Seq(Message) /\ queue[e] # <<>>
        /\ Head(queue[e]) \in Message
    BY StreamParts, HeadTailProperties DEF Take
  <2>2. Head(queue[e]) # None
    BY <2>1, HandAssumption
  <2>3. /\ hand'[e] = Head(queue[e]) /\ queue'[e] = Tail(queue[e]) /\ hand[e] = None
        /\ wrote'[e] = wrote[e] /\ e \notin cancelled'
    BY <1>3 DEF Take, HubTypeOK
  <2>4. Stream(e)' = (wrote[e] \o <<Head(queue[e])>>) \o Tail(queue[e])
    BY <2>2, <2>3 DEF Stream
  <2>5. Stream(e) = (wrote[e] \o <<>>) \o queue[e]
    BY <1>3, <2>3 DEF Stream
  <2>6. Stream(e)' = Stream(e)
    BY <2>1, <2>4, <2>5, HeadOfConcat
  <2> QED
    BY <1>3, <2>6 DEF Shortened
<1> QED
  BY <1>1, <1>2, <1>3

LEMMA StreamOfWrite ==
    ASSUME HubTypeOK, NEW e \in Conn, Write(e), NEW c \in Conn PROVE Shortened(c)
<1>1. c # e => Shortened(c)
  BY StreamStays DEF Write, HubTypeOK
<1>2. CASE c = e
  <2>1. /\ wrote[e] \in Seq(Message) /\ queue[e] \in Seq(Message)
        /\ hand[e] \in Message /\ hand[e] # None
    BY StreamParts DEF Write, HubTypeOK
  <2>2. /\ hand'[e] = None /\ queue'[e] = queue[e] /\ wrote'[e] = Append(wrote[e], hand[e])
        /\ e \notin cancelled /\ e \notin cancelled'
    BY DEF Write, HubTypeOK
  <2>3. Stream(e)' = (Append(wrote[e], hand[e]) \o <<>>) \o queue[e]
    BY <2>2 DEF Stream
  <2>4. Stream(e) = (wrote[e] \o <<hand[e]>>) \o queue[e]
    BY <2>1, <2>2 DEF Stream
  <2>5. Append(wrote[e], hand[e]) = wrote[e] \o <<hand[e]>>
    BY <2>1, AppendIsConcat
  <2>6. Append(wrote[e], hand[e]) \in Seq(Message)
    BY <2>1, AppendProperties
  <2>7. Append(wrote[e], hand[e]) \o <<>> = Append(wrote[e], hand[e])
    BY <2>6, ConcatEmptySeq
  <2>8. Stream(e)' = Stream(e)
    BY <2>3, <2>4, <2>5, <2>7
  <2> QED
    BY <1>2, <2>2, <2>8 DEF Shortened
<1> QED
  BY <1>1, <1>2

\* A cancelled context cuts its socket's stream after what was written.
LEMMA StreamOfCancel ==
    ASSUME HubTypeOK, NEW e \in Conn, UNCHANGED <<wrote, queue>>,
           \A c \in Conn : c # e => hand'[c] = hand[c],
           cancelled' = cancelled \cup {e}, NEW c \in Conn
    PROVE  Shortened(c)
<1>1. c # e => Shortened(c)
  BY StreamStays
<1>2. CASE c = e
  <2>1. Stream(e)' = wrote[e]
    BY DEF Stream
  <2>2. CASE e \in cancelled
    BY <1>2, <2>1, <2>2 DEF Shortened, Stream
  <2>3. CASE e \notin cancelled
    <3> DEFINE w == wrote[e]
               h == InHand(e)
               q == queue[e]
    <3>1. /\ w \in Seq(Message) /\ h \in Seq(Message) /\ q \in Seq(Message)
          /\ w \o h \in Seq(Message) /\ Stream(e) = (w \o h) \o q
      BY <2>3, StreamParts
    <3> HIDE DEF w, h, q
    <3>2. /\ Len(w) \in Nat /\ Len(h) \in Nat /\ Len(q) \in Nat
          /\ DOMAIN w = 1..Len(w)
      BY <3>1, LenProperties
    <3>3. /\ Len(w \o h) = Len(w) + Len(h)
          /\ \A i \in 1..Len(w) + Len(h) :
                (w \o h)[i] = IF i <= Len(w) THEN w[i] ELSE h[i - Len(w)]
      BY <3>1, ConcatProperties
    <3>4. /\ (w \o h) \o q \in Seq(Message)
          /\ Len((w \o h) \o q) = Len(w \o h) + Len(q)
          /\ \A i \in 1..Len(w \o h) + Len(q) :
                ((w \o h) \o q)[i] = IF i <= Len(w \o h) THEN (w \o h)[i]
                                     ELSE q[i - Len(w \o h)]
      BY <3>1, ConcatProperties
    <3>5. DOMAIN ((w \o h) \o q) = 1..Len((w \o h) \o q)
      BY <3>4, LenProperties
    <3>6. \A i \in 1..Len(w) : /\ i \in 1..Len((w \o h) \o q)
                               /\ ((w \o h) \o q)[i] = w[i]
      BY <3>2, <3>3, <3>4
    <3>7. Stream(e)' = w
      BY <2>1 DEF w
    <3>8. DOMAIN Stream(e)' \subseteq DOMAIN Stream(e)
      BY <3>1, <3>2, <3>5, <3>6, <3>7
    <3>9. \A i \in DOMAIN Stream(e)' : Stream(e)'[i] = Stream(e)[i]
      BY <3>1, <3>2, <3>6, <3>7
    <3> QED
      BY <1>2, <3>8, <3>9 DEF Shortened
  <2> QED
    BY <2>2, <2>3
<1> QED
  BY <1>1, <1>2

-----------------------------------------------------------------------------
(* What a step does to the signals: it admits one, forwards one, or neither. *)

\* A socket keeps its machine and never goes back to an earlier phase.
Onward(c) ==
    /\ phase[c] # "new" => phase'[c] # "new" /\ owner'[c] = owner[c]
    /\ phase[c] \notin {"new", "starting"} => phase'[c] \notin {"new", "starting"}
    /\ phase[c] = "gone" => phase'[c] = "gone"

Sending(c) == phase[c] \in {"reading", "admitted"}

SendingKept(c) ==
    Sending(c)' => \/ phase'[c] = phase[c] /\ pending'[c] = pending[c]
                   \/ phase[c] = "starting" /\ phase'[c] = "reading"

AttemptSame(x) ==
    attempts[x] # NoAttempt =>
        /\ attempts'[x] # NoAttempt
        /\ attempts'[x].from = attempts[x].from /\ attempts'[x].to = attempts[x].to
        /\ attempts'[x].sequence = attempts[x].sequence

\* No signal is admitted or forwarded.
Quiet ==
    /\ \A c \in Conn : \/ Shortened(c)
                       \/ \E m \in Message : m.kind # "signal" /\ Extended(c, m)
    /\ \A c \in Conn : SendingKept(c)
    /\ \A x \in Attempt : AttemptSame(x)

LEMMA HubOnward ==
    ASSUME HubTypeOK, Rows, [Next]_vars, NEW e \in Conn PROVE Onward(e)
<1>1. UNCHANGED <<phase, owner>> => Onward(e)
  BY DEF Onward
<1>2. ASSUME NEW c \in Conn, NEW d \in Device, Register(c, d) PROVE Onward(e)
  BY <1>2 DEF Register, Onward, HubTypeOK
<1>3. ASSUME NEW c \in Conn, ReaderStep(c) PROVE Onward(e)
  BY <1>3 DEF ReaderStep, Greet, GreetFails, ReaderLeaves, Stop, CleanUp, Forward,
              ForwardFails, Onward, HubTypeOK
<1>4. ASSUME NEW c \in Conn, WriterStep(c) PROVE Onward(e)
  BY <1>1, <1>4 DEF WriterStep, Take, Write, WriteFails, WriterStops
<1>5. ASSUME NEW c \in Conn, ClientStep(c) PROVE Onward(e)
  <2>1. ASSUME NEW x \in Attempt, NEW type \in Types, Admit(c, x, type) PROVE Onward(e)
    BY <2>1 DEF Admit, Onward, HubTypeOK
  <2>2. Refuse(c) \/ Drop(c) => Onward(e)
    BY <1>1 DEF Refuse, Drop, Onward, HubTypeOK
  <2> QED
    BY <1>2, <1>5, <2>1, <2>2 DEF ClientStep
<1>6. ASSUME NEW x \in Attempt, AttemptStep(x) PROVE Onward(e)
  BY <1>1, <1>6 DEF AttemptStep, BeginAttempt, TellTarget, TellFails, Lapse, socketVars
<1>7. ASSUME NEW r \in Req, NoticeStep(r) PROVE Onward(e)
  BY <1>1, <1>7 DEF NoticeStep, StartNotice, NoticeSend, NoticeClose, socketVars
<1>8. UNCHANGED vars => Onward(e)
  BY <1>1 DEF vars, socketVars
<1> QED
  BY <1>3, <1>4, <1>5, <1>6, <1>7, <1>8 DEF Next

\* The steps that send a message of the coordinator's own.
LEMMA MessageSent ==
    ASSUME HubTypeOK, NEW d \in Device, NEW m \in Message, m.kind # "signal",
           CanSend(d), Send(d, m), UNCHANGED <<wrote, hand, cancelled>>, NEW c \in Conn
    PROVE  Shortened(c) \/ \E n \in Message : n.kind # "signal" /\ Extended(c, n)
BY StreamOfSend

LEMMA StreamsOf ==
    ASSUME HubTypeOK, Rows, NEW c \in Conn
    PROVE  /\ UNCHANGED <<wrote, hand, queue, cancelled>> => Shortened(c)
           /\ \A e \in Conn : Take(e) \/ Write(e) \/ WriteFails(e) \/ Stop(e) => Shortened(c)
<1>1. UNCHANGED <<wrote, hand, queue, cancelled>> => Shortened(c)
  BY StreamStays
<1>2. ASSUME NEW e \in Conn, WriteFails(e) PROVE Shortened(c)
  BY <1>2, StreamOfCancel DEF WriteFails, HubTypeOK
<1>3. ASSUME NEW e \in Conn, Stop(e) PROVE Shortened(c)
  BY <1>3, StreamOfCancel DEF Stop
<1> QED
  BY <1>1, <1>2, <1>3, StreamOfTake, StreamOfWrite

LEMMA ReaderQuiet ==
    ASSUME HubTypeOK, Rows, NEW c \in Conn, ReaderStep(c) \/ WriterStep(c), ~Forward(c)
    PROVE  Quiet
<1>1. \A x \in Attempt : AttemptSame(x)
  BY DEF ReaderStep, WriterStep, Greet, GreetFails, ReaderLeaves, Stop, CleanUp, ForwardFails,
         Take, Write, WriteFails, WriterStops, AttemptSame
<1>2. ASSUME NEW e \in Conn PROVE SendingKept(e)
  BY DEF ReaderStep, WriterStep, Greet, GreetFails, ReaderLeaves, Stop, CleanUp, ForwardFails,
         Take, Write, WriteFails, WriterStops, SendingKept, Sending, HubTypeOK
<1>3. ASSUME NEW e \in Conn
      PROVE  Shortened(e) \/ \E m \in Message : m.kind # "signal" /\ Extended(e, m)
  <2>1. CASE Greet(c)
    <3>1. owner[c] \in Device /\ Ready \in Message /\ Ready.kind # "signal"
      BY <2>1 DEF Greet, Rows, Message, Ready
    <3> QED
      BY <2>1, <3>1, MessageSent DEF Greet
  <2>2. CASE GreetFails(c) \/ ReaderLeaves(c) \/ CleanUp(c) \/ ForwardFails(c) \/ WriterStops(c)
    <3>1. UNCHANGED <<wrote, hand, queue, cancelled>>
      BY <2>2 DEF GreetFails, ReaderLeaves, CleanUp, ForwardFails, WriterStops
    <3> QED
      BY <3>1, StreamsOf
  <2>3. CASE Take(c) \/ Write(c) \/ WriteFails(c) \/ Stop(c)
    BY <2>3, StreamsOf
  <2> QED
    BY <2>1, <2>2, <2>3 DEF ReaderStep, WriterStep
<1> QED
  BY <1>1, <1>2, <1>3 DEF Quiet

LEMMA ClientQuiet ==
    ASSUME HubTypeOK, Rows, NEW c \in Conn, ClientStep(c),
           \A x \in Attempt, type \in Types : ~Admit(c, x, type)
    PROVE  Quiet
<1>1. \A x \in Attempt : AttemptSame(x)
  BY DEF ClientStep, Register, Refuse, Drop, AttemptSame
<1>2. ASSUME NEW e \in Conn PROVE SendingKept(e)
  BY DEF ClientStep, Register, Refuse, Drop, SendingKept, Sending, HubTypeOK
<1>3. UNCHANGED <<wrote, hand, queue, cancelled>>
  BY DEF ClientStep, Register, Refuse, Drop
<1> QED
  BY <1>1, <1>2, <1>3, StreamsOf DEF Quiet

LEMMA AttemptQuiet ==
    ASSUME HubTypeOK, Rows, NEW x \in Attempt, AttemptStep(x) PROVE Quiet
<1>1. ASSUME NEW y \in Attempt PROVE AttemptSame(y)
  <2>1. ASSUME NEW from, NEW to, BeginAttempt(x, from, to) PROVE AttemptSame(y)
    BY <2>1 DEF BeginAttempt, AttemptSame, HubTypeOK
  <2>2. CASE TellTarget(x) \/ TellFails(x) \/ Lapse(x)
    <3>1. attempts[x] \in AttemptRow
      BY <2>2 DEF TellTarget, TellFails, Lapse, HubTypeOK, NoAttempt
    <3>2. PICK state \in {"live", "over"} : attempts' = [attempts EXCEPT ![x].state = state]
      BY <2>2 DEF TellTarget, TellFails, Lapse
    <3>3. [attempts[x] EXCEPT !.state = state] \in AttemptRow
      BY <3>1 DEF AttemptRow
    <3>4. \A row \in AttemptRow : row # NoAttempt
      BY DEF AttemptRow, NoAttempt
    <3>5. /\ [attempts[x] EXCEPT !.state = state].from = attempts[x].from
          /\ [attempts[x] EXCEPT !.state = state].to = attempts[x].to
          /\ [attempts[x] EXCEPT !.state = state].sequence = attempts[x].sequence
      BY <3>1 DEF AttemptRow
    <3>6. attempts' = [attempts EXCEPT ![x] = [attempts[x] EXCEPT !.state = state]]
      BY <3>2
    <3> QED
      BY <3>3, <3>4, <3>5, <3>6 DEF AttemptSame, HubTypeOK
  <2> QED
    BY <2>1, <2>2 DEF AttemptStep
<1>2. UNCHANGED <<phase, pending>> /\ UNCHANGED <<wrote, hand, cancelled>>
  BY DEF AttemptStep, BeginAttempt, TellTarget, TellFails, Lapse, socketVars
<1>3. \A e \in Conn : SendingKept(e)
  BY <1>2 DEF SendingKept, Sending
<1>4. ASSUME NEW e \in Conn
      PROVE  Shortened(e) \/ \E m \in Message : m.kind # "signal" /\ Extended(e, m)
  <2>1. CASE TellTarget(x)
    <3>1. attempts[x] \in AttemptRow
      BY <2>1 DEF TellTarget, HubTypeOK, NoAttempt
    <3>2. /\ attempts[x].to \in Device /\ AttemptMessage(x) \in Message
          /\ AttemptMessage(x).kind # "signal"
      BY <3>1 DEF AttemptRow, Message, AttemptMessage
    <3> QED
      BY <1>2, <2>1, <3>2, MessageSent DEF TellTarget
  <2>2. CASE UNCHANGED queue
    BY <1>2, <2>2, StreamsOf
  <2> QED
    BY <2>1, <2>2 DEF AttemptStep, BeginAttempt, TellFails, Lapse
<1> QED
  BY <1>1, <1>3, <1>4 DEF Quiet

LEMMA NoticeQuiet ==
    ASSUME HubTypeOK, Rows, NEW r \in Req, NoticeStep(r) PROVE Quiet
<1>1. UNCHANGED <<phase, pending, attempts>> /\ UNCHANGED <<wrote, hand, cancelled>>
  BY DEF NoticeStep, StartNotice, NoticeSend, NoticeClose, socketVars
<1>2. \A x \in Attempt : AttemptSame(x)
  BY <1>1 DEF AttemptSame
<1>3. \A e \in Conn : SendingKept(e)
  BY <1>1 DEF SendingKept, Sending
<1>4. ASSUME NEW e \in Conn
      PROVE  Shortened(e) \/ \E m \in Message : m.kind # "signal" /\ Extended(e, m)
  <2>1. CASE NoticeSend(r) /\ CanSend(Head(notices[r].todo))
    <3>1. Head(notices[r].todo) \in Device
      BY <2>1 DEF NoticeSend, HubTypeOK, NoticeRow
    <3>2. RevokedMessage(r) \in Message /\ RevokedMessage(r).kind # "signal"
      BY DEF Message, RevokedMessage
    <3>3. Send(Head(notices[r].todo), RevokedMessage(r))
      BY <2>1 DEF NoticeSend
    <3> QED
      BY <1>1, <2>1, <3>1, <3>2, <3>3, MessageSent
  <2>2. CASE UNCHANGED queue
    BY <1>1, <2>2, StreamsOf
  <2> QED
    BY <2>1, <2>2 DEF NoticeStep, StartNotice, NoticeSend, NoticeClose
<1> QED
  BY <1>2, <1>3, <1>4 DEF Quiet

LEMMA HubSteps ==
    ASSUME HubTypeOK, Rows, [Next]_vars
    PROVE  \/ Quiet
           \/ \E c \in Conn : Forward(c)
           \/ \E c \in Conn, x \in Attempt, type \in Types : Admit(c, x, type)
<1>1. UNCHANGED vars => Quiet
  <2> SUFFICES ASSUME UNCHANGED vars PROVE Quiet
    OBVIOUS
  <2>1. UNCHANGED <<phase, pending, attempts>> /\ UNCHANGED <<wrote, hand, queue, cancelled>>
    BY DEF vars, socketVars
  <2>2. \A c \in Conn : Shortened(c)
    BY <2>1, StreamsOf
  <2> QED
    BY <2>1, <2>2 DEF Quiet, SendingKept, Sending, AttemptSame
<1> QED
  BY <1>1, ReaderQuiet, ClientQuiet, AttemptQuiet, NoticeQuiet DEF Next

-----------------------------------------------------------------------------
(* The order of signals in a sequence of messages.                         *)

Ordered(s) ==
    \A i, j \in DOMAIN s :
        /\ i < j /\ s[i].kind = "signal" /\ s[j].kind = "signal"
        /\ s[i].attempt = s[j].attempt /\ s[i].from = s[j].from
        => s[i].sequence < s[j].sequence

Unbroken(s, v) ==
    \A i, j \in DOMAIN s :
        /\ i < j /\ s[i].kind = "signal" /\ s[j].kind = "signal"
        /\ s[i].attempt = s[j].attempt /\ s[i].via = v /\ s[j].via = v
        => \A n \in s[i].sequence..s[j].sequence :
             \E k \in i..j : /\ s[k].kind = "signal" /\ s[k].via = v
                             /\ s[k].attempt = s[i].attempt /\ s[k].sequence = n

\* After each signal of socket v in attempt x, every number up to n follows.
CaughtUp(s, v, x, n) ==
    \A i \in DOMAIN s :
        s[i].kind = "signal" /\ s[i].via = v /\ s[i].attempt = x =>
            \A q \in s[i].sequence..n :
                \E k \in i..Len(s) : /\ s[k].kind = "signal" /\ s[k].via = v
                                     /\ s[k].attempt = x /\ s[k].sequence = q

\* The signals of t are signals of s, at their places.
Prolongs(s, t) ==
    /\ \A i \in DOMAIN t : t[i].kind = "signal" => i \in DOMAIN s
    /\ \A i \in DOMAIN s \cap DOMAIN t : t[i] = s[i]

\* A signal's numbers are natural numbers.
LEMMA SignalTypes ==
    ASSUME NEW m \in Message, m.kind = "signal"
    PROVE  /\ m \in Signal
           /\ m.sequence \in Nat /\ m.attempt \in Attempt /\ m.via \in Conn
           /\ m.from \in Device /\ m.to \in Device
<1>1. m \in Signal
  BY DEF Message, Ready, AttemptMessage, RevokedMessage
<1>2. AttemptLimit \in Nat
  BY HubAssumption
<1> QED
  BY <1>1, <1>2 DEF Signal

LEMMA OrderedProlonged ==
    ASSUME NEW s \in Seq(Message), NEW t \in Seq(Message), Prolongs(s, t), Ordered(s)
    PROVE  Ordered(t)
<1> SUFFICES ASSUME NEW i \in DOMAIN t, NEW j \in DOMAIN t, i < j,
                    t[i].kind = "signal", t[j].kind = "signal",
                    t[i].attempt = t[j].attempt, t[i].from = t[j].from
             PROVE  t[i].sequence < t[j].sequence
  BY DEF Ordered
<1>1. i \in DOMAIN s /\ j \in DOMAIN s /\ t[i] = s[i] /\ t[j] = s[j]
  BY DEF Prolongs
<1> QED
  BY <1>1 DEF Ordered

LEMMA UnbrokenProlonged ==
    ASSUME NEW s \in Seq(Message), NEW t \in Seq(Message), NEW v, Prolongs(s, t),
           Unbroken(s, v)
    PROVE  Unbroken(t, v)
<1> SUFFICES ASSUME NEW i \in DOMAIN t, NEW j \in DOMAIN t, i < j,
                    t[i].kind = "signal", t[j].kind = "signal",
                    t[i].attempt = t[j].attempt, t[i].via = v, t[j].via = v,
                    NEW n \in t[i].sequence..t[j].sequence
             PROVE  \E k \in i..j : /\ t[k].kind = "signal" /\ t[k].via = v
                                    /\ t[k].attempt = t[i].attempt /\ t[k].sequence = n
  BY DEF Unbroken
<1>1. i \in DOMAIN s /\ j \in DOMAIN s /\ t[i] = s[i] /\ t[j] = s[j]
  BY DEF Prolongs
<1>2. PICK k \in i..j : /\ s[k].kind = "signal" /\ s[k].via = v
                        /\ s[k].attempt = s[i].attempt /\ s[k].sequence = n
  BY <1>1 DEF Unbroken
<1>3. i \in 1..Len(t) /\ j \in 1..Len(t) /\ i \in 1..Len(s) /\ j \in 1..Len(s)
  BY <1>1, LenProperties
<1>4. k \in 1..Len(t) /\ k \in 1..Len(s)
  BY <1>3, LenProperties
<1>5. t[k] = s[k]
  BY <1>4, LenProperties DEF Prolongs
<1> QED
  BY <1>1, <1>2, <1>5

\* What follows in a stream that only grows still follows.
LEMMA CaughtUpProlonged ==
    ASSUME NEW s \in Seq(Message), NEW t \in Seq(Message), NEW v, NEW x, NEW n \in Int,
           Prolongs(s, t), DOMAIN s \subseteq DOMAIN t, CaughtUp(s, v, x, n)
    PROVE  CaughtUp(t, v, x, n)
<1> SUFFICES ASSUME NEW i \in DOMAIN t, t[i].kind = "signal", t[i].via = v, t[i].attempt = x,
                    NEW q \in t[i].sequence..n
             PROVE  \E k \in i..Len(t) : /\ t[k].kind = "signal" /\ t[k].via = v
                                         /\ t[k].attempt = x /\ t[k].sequence = q
  BY DEF CaughtUp
<1>1. i \in DOMAIN s /\ t[i] = s[i]
  BY DEF Prolongs
<1>2. PICK k \in i..Len(s) : /\ s[k].kind = "signal" /\ s[k].via = v
                             /\ s[k].attempt = x /\ s[k].sequence = q
  BY <1>1 DEF CaughtUp
<1>3. i \in 1..Len(s) /\ Len(s) \in Nat /\ DOMAIN s = 1..Len(s)
  BY <1>1, LenProperties
<1>4. k \in DOMAIN s
  BY <1>3
<1>5. k \in DOMAIN t /\ t[k] = s[k]
  BY <1>4 DEF Prolongs
<1>6. k \in i..Len(t)
  BY <1>3, <1>5, LenProperties
<1> QED
  BY <1>2, <1>5, <1>6

\* The places of a sequence that gained a message.
LEMMA Appended ==
    ASSUME NEW s \in Seq(Message), NEW p \in Message
    PROVE  /\ Append(s, p) \in Seq(Message)
           /\ Len(Append(s, p)) = Len(s) + 1 /\ Len(s) \in Nat
           /\ DOMAIN s = 1..Len(s) /\ DOMAIN Append(s, p) = 1..Len(s) + 1
           /\ \A i \in 1..Len(s) : Append(s, p)[i] = s[i]
           /\ Append(s, p)[Len(s) + 1] = p
BY AppendProperties, LenProperties

LEMMA OrderedAppend ==
    ASSUME NEW s \in Seq(Message), NEW p \in Message, Ordered(s),
           \A i \in DOMAIN s : /\ s[i].kind = "signal" /\ s[i].attempt = p.attempt
                               /\ s[i].from = p.from
                               => s[i].sequence < p.sequence
    PROVE  Ordered(Append(s, p))
<1> DEFINE t == Append(s, p)
<1> SUFFICES ASSUME NEW i \in DOMAIN t, NEW j \in DOMAIN t, i < j,
                    t[i].kind = "signal", t[j].kind = "signal",
                    t[i].attempt = t[j].attempt, t[i].from = t[j].from
             PROVE  t[i].sequence < t[j].sequence
  BY DEF Ordered
<1>1. i \in DOMAIN s /\ t[i] = s[i]
  BY Appended
<1>2. CASE j \in DOMAIN s
  <2>1. t[j] = s[j]
    BY <1>2, Appended
  <2> QED
    BY <1>1, <1>2, <2>1 DEF Ordered
<1>3. CASE j = Len(s) + 1
  <2>1. t[j] = p
    BY <1>3, Appended
  <2> QED
    BY <1>1, <2>1
<1> QED
  BY <1>2, <1>3, Appended

\* One more signal, the next number of a socket whose signals are all there.
LEMMA UnbrokenAppend ==
    ASSUME NEW s \in Seq(Message), NEW p \in Message, p.kind = "signal", NEW v, Unbroken(s, v),
           p.via = v => CaughtUp(s, v, p.attempt, p.sequence - 1)
    PROVE  Unbroken(Append(s, p), v)
<1> DEFINE t == Append(s, p)
<1> SUFFICES ASSUME NEW i \in DOMAIN t, NEW j \in DOMAIN t, i < j,
                    t[i].kind = "signal", t[j].kind = "signal",
                    t[i].attempt = t[j].attempt, t[i].via = v, t[j].via = v,
                    NEW n \in t[i].sequence..t[j].sequence
             PROVE  \E k \in i..j : /\ t[k].kind = "signal" /\ t[k].via = v
                                    /\ t[k].attempt = t[i].attempt /\ t[k].sequence = n
  BY DEF Unbroken
<1>1. i \in DOMAIN s /\ t[i] = s[i] /\ i \in 1..Len(s) /\ Len(s) \in Nat
  BY Appended
<1>2. CASE j \in DOMAIN s
  <2>1. t[j] = s[j] /\ j \in 1..Len(s)
    BY <1>2, Appended
  <2>2. PICK k \in i..j : /\ s[k].kind = "signal" /\ s[k].via = v
                          /\ s[k].attempt = s[i].attempt /\ s[k].sequence = n
    BY <1>1, <1>2, <2>1 DEF Unbroken
  <2>3. t[k] = s[k]
    BY <1>1, <2>1, Appended
  <2> QED
    BY <1>1, <2>2, <2>3
<1>3. CASE j = Len(s) + 1
  <2>1. t[j] = p
    BY <1>3, Appended
  <2>2. CASE n = p.sequence
    <3>1. j \in i..j
      BY <1>1, <1>3
    <3> QED
      BY <2>1, <2>2, <3>1
  <2>3. CASE n # p.sequence
    <3>1. p.sequence \in Nat /\ s[i].sequence \in Nat
      BY <1>1, SignalTypes, Appended
    <3>2. n \in s[i].sequence..(p.sequence - 1)
      BY <1>1, <2>1, <2>3, <3>1
    <3>3. CaughtUp(s, v, p.attempt, p.sequence - 1)
      BY <2>1
    <3>4. PICK k \in i..Len(s) : /\ s[k].kind = "signal" /\ s[k].via = v
                                 /\ s[k].attempt = p.attempt /\ s[k].sequence = n
      BY <1>1, <2>1, <3>2, <3>3 DEF CaughtUp
    <3>5. t[k] = s[k] /\ k \in i..j
      BY <1>1, <1>3, Appended
    <3> QED
      BY <1>1, <2>1, <3>4, <3>5
  <2> QED
    BY <2>2, <2>3
<1> QED
  BY <1>2, <1>3, Appended

LEMMA CaughtUpAppend ==
    ASSUME NEW s \in Seq(Message), NEW p \in Message, p.kind = "signal",
           CaughtUp(s, p.via, p.attempt, p.sequence - 1)
    PROVE  CaughtUp(Append(s, p), p.via, p.attempt, p.sequence)
<1> DEFINE t == Append(s, p)
<1> SUFFICES ASSUME NEW i \in DOMAIN t, t[i].kind = "signal", t[i].via = p.via,
                    t[i].attempt = p.attempt, NEW q \in t[i].sequence..p.sequence
             PROVE  \E k \in i..Len(t) : /\ t[k].kind = "signal" /\ t[k].via = p.via
                                         /\ t[k].attempt = p.attempt /\ t[k].sequence = q
  BY DEF CaughtUp
<1>1. p.sequence \in Nat /\ Len(t) \in Nat /\ Len(t) = Len(s) + 1 /\ t[Len(t)] = p
  BY SignalTypes, Appended
<1>2. i \in 1..Len(t)
  BY Appended
<1>3. CASE q = p.sequence
  <2>1. Len(t) \in i..Len(t)
    BY <1>1, <1>2
  <2> QED
    BY <1>1, <1>3, <2>1
<1>4. CASE q # p.sequence /\ i \in 1..Len(s)
  <2>1. t[i] = s[i] /\ i \in DOMAIN s
    BY <1>4, Appended
  <2>2. s[i].sequence \in Nat
    BY <2>1, SignalTypes, Appended
  <2>3. q \in s[i].sequence..(p.sequence - 1)
    BY <1>1, <1>4, <2>1, <2>2
  <2>4. PICK k \in i..Len(s) : /\ s[k].kind = "signal" /\ s[k].via = p.via
                               /\ s[k].attempt = p.attempt /\ s[k].sequence = q
    BY <2>1, <2>3 DEF CaughtUp
  <2>5. t[k] = s[k] /\ k \in i..Len(t)
    BY <1>1, <1>4, Appended
  <2> QED
    BY <2>4, <2>5
<1>5. CASE q # p.sequence /\ i = Len(t)
  BY <1>1, <1>5
<1> QED
  BY <1>1, <1>2, <1>3, <1>4, <1>5

LEMMA CaughtUpOther ==
    ASSUME NEW s \in Seq(Message), NEW p \in Message, NEW v, NEW x, NEW n,
           p.via # v \/ p.attempt # x, CaughtUp(s, v, x, n)
    PROVE  CaughtUp(Append(s, p), v, x, n)
<1> DEFINE t == Append(s, p)
<1> SUFFICES ASSUME NEW i \in DOMAIN t, t[i].kind = "signal", t[i].via = v, t[i].attempt = x,
                    NEW q \in t[i].sequence..n
             PROVE  \E k \in i..Len(t) : /\ t[k].kind = "signal" /\ t[k].via = v
                                         /\ t[k].attempt = x /\ t[k].sequence = q
  BY DEF CaughtUp
<1>1. i \in DOMAIN s /\ t[i] = s[i] /\ i \in 1..Len(s) /\ Len(s) \in Nat
      /\ Len(t) = Len(s) + 1
  BY Appended
<1>2. PICK k \in i..Len(s) : /\ s[k].kind = "signal" /\ s[k].via = v
                             /\ s[k].attempt = x /\ s[k].sequence = q
  BY <1>1 DEF CaughtUp
<1>3. t[k] = s[k] /\ k \in i..Len(t)
  BY <1>1, Appended
<1> QED
  BY <1>2, <1>3

-----------------------------------------------------------------------------
(* The invariant under which signals stay in order.                        *)

\* The last number of attempt x that socket v has sent on or lost.
Settled(v, x) ==
    attempts[x].sequence[owner[v]]
      - (IF phase[v] = "admitted" /\ pending[v].attempt = x THEN 1 ELSE 0)

AreEnds(x, d, e) == attempts[x] # NoAttempt /\ d # e /\ EndsOf(x) = {d, e}

\* The hub knows a socket by its machine, and a socket that left is cancelled.
PeersKnown ==
    /\ \A d \in Device : peers[d] # None =>
          owner[peers[d]] = d /\ phase[peers[d]] \notin {"new", "gone"}
    /\ \A c \in Conn : phase[c] \in {"stopped", "gone"} => c \in cancelled

\* A signal between its admission and its sending has its attempt's last number.
PendingKnown ==
    \A v \in Conn : phase[v] = "admitted" =>
        /\ pending[v].via = v /\ pending[v].from = owner[v]
        /\ AreEnds(pending[v].attempt, pending[v].from, pending[v].to)
        /\ pending[v].sequence = attempts[pending[v].attempt].sequence[owner[v]]

\* A signal on its way to socket c, or there: its ends are those of its attempt,
\* and no socket of its sender is behind it.
Known(c, m) ==
    /\ phase[c] # "new" /\ owner[c] = m.to
    /\ phase[m.via] \notin {"new", "starting"} /\ owner[m.via] = m.from
    /\ AreEnds(m.attempt, m.from, m.to)
    /\ m.sequence <= attempts[m.attempt].sequence[m.from]
    /\ \A v \in Conn : Sending(v) /\ owner[v] = m.from => m.sequence <= Settled(v, m.attempt)

SignalsKnown ==
    \A c \in Conn, m \in Message :
        m.kind = "signal" /\ (\E i \in DOMAIN Stream(c) : Stream(c)[i] = m) => Known(c, m)

\* What a sending socket has sent on from its first signal to a socket that is
\* not cancelled is in that socket's stream, up to its last one.
NothingSkipped ==
    \A c, v \in Conn, x \in Attempt :
        c \notin cancelled /\ Sending(v) => CaughtUp(Stream(c), v, x, Settled(v, x))

Hub == HubTypeOK /\ Rows /\ OneSocketPerDevice /\ PeersKnown
OrderInv == PendingKnown /\ SignalsKnown /\ NothingSkipped

\* A machine has one socket that sends.
LEMMA UniqueSender ==
    ASSUME OneSocketPerDevice, NEW u \in Conn, NEW v \in Conn, Sending(u), Sending(v),
           owner[u] = owner[v]
    PROVE  u = v
<1>1. peers[owner[u]] = u /\ peers[owner[v]] = v
  BY DEF OneSocketPerDevice, Sending
<1> QED
  BY <1>1

\* The hub's knowledge of its sockets is kept.
LEMMA PeersStep ==
    ASSUME HubTypeOK, Rows, OneSocketPerDevice, PeersKnown, [Next]_vars
    PROVE  PeersKnown'
<1>1. ASSUME NEW c \in Conn, NEW d \in Device, Register(c, d) PROVE PeersKnown'
  <2>1. c # None /\ c \in Conn
    BY HubAssumption
  <2>2. \A e \in Device : peers[e] # c
    BY <1>1, <2>1 DEF Register, PeersKnown
  <2> QED
    BY <1>1, <2>1, <2>2 DEF Register, PeersKnown, HubTypeOK
<1>2. ASSUME NEW c \in Conn, CleanUp(c) PROVE PeersKnown'
  <2>1. owner[c] \in Device
    BY <1>2 DEF CleanUp, Rows
  <2>2. c \in cancelled
    BY <1>2 DEF CleanUp, PeersKnown
  <2>3. ASSUME NEW e \in Device, peers'[e] # None
        PROVE  owner'[peers'[e]] = e /\ phase'[peers'[e]] \notin {"new", "gone"}
    <3>1. e # owner[c] /\ peers'[e] = peers[e]
      BY <1>2, <2>1, <2>3 DEF CleanUp, HubTypeOK
    <3>2. peers[e] \in Conn /\ owner[peers[e]] = e /\ phase[peers[e]] \notin {"new", "gone"}
      BY <2>3, <3>1 DEF PeersKnown, HubTypeOK
    <3>3. peers[e] # c
      BY <3>1, <3>2
    <3> QED
      BY <1>2, <3>1, <3>2, <3>3 DEF CleanUp, HubTypeOK
  <2> QED
    BY <1>2, <2>2, <2>3 DEF CleanUp, PeersKnown, HubTypeOK
<1>3. CASE UNCHANGED vars
  BY <1>3 DEF vars, socketVars, PeersKnown
<1>4. ASSUME NEW c \in Conn, ReaderStep(c) \/ WriterStep(c) \/ ClientStep(c),
             ~CleanUp(c), \A d \in Device : ~Register(c, d)
      PROVE  PeersKnown'
  <2>1. UNCHANGED <<peers, owner>> /\ cancelled \subseteq cancelled'
    BY <1>4 DEF ReaderStep, WriterStep, ClientStep, Greet, GreetFails, ReaderLeaves,
                Stop, Forward, ForwardFails, Take, Write, WriteFails, WriterStops,
                Admit, Refuse, Drop
  <2>2. ASSUME NEW e \in Conn
        PROVE  /\ phase'[e] \in {"new", "gone"} => phase[e] = phase'[e]
               /\ phase'[e] = "stopped" => phase[e] = phase'[e] \/ e \in cancelled'
    BY <1>4 DEF HubTypeOK, ReaderStep, WriterStep, ClientStep, Greet, GreetFails,
                ReaderLeaves, Stop, Forward, ForwardFails, Take, Write, WriteFails,
                WriterStops, Admit, Refuse, Drop
  <2>3. \A e \in Device : peers[e] # None => peers[e] \in Conn
    BY DEF HubTypeOK
  <2> QED
    BY <2>1, <2>2, <2>3 DEF PeersKnown
<1>5. ASSUME NEW x \in Attempt, AttemptStep(x) PROVE PeersKnown'
  BY <1>5 DEF AttemptStep, BeginAttempt, TellTarget, TellFails, Lapse, socketVars,
              PeersKnown
<1>6. ASSUME NEW r \in Req, NoticeStep(r) PROVE PeersKnown'
  BY <1>6 DEF NoticeStep, StartNotice, NoticeSend, NoticeClose, socketVars, PeersKnown
<1> QED
  BY <1>1, <1>2, <1>3, <1>4, <1>5, <1>6 DEF Next

\* The invariant of the hub's sockets.
LEMMA HubKnown == Spec => []Hub
<1>1. Init => Hub
  BY InitType DEF Init, Hub, Rows, OneSocketPerDevice, PeersKnown
<1>2. Hub /\ [Next]_vars /\ HubTypeOK' /\ Rows' => Hub'
  BY SocketStep, PeersStep DEF Hub
<1> QED
  BY <1>1, <1>2, HubInvariant, PTL DEF Spec

-----------------------------------------------------------------------------
(* Every step that forwards no signal leaves each stream its signals, and  *)
(* each sender what it has settled.                                        *)

StreamKept(c) ==
    /\ Prolongs(Stream(c), Stream(c)')
    /\ c \notin cancelled' => c \notin cancelled /\ DOMAIN Stream(c) \subseteq DOMAIN Stream(c)'

AttemptKept(x) ==
    attempts[x] # NoAttempt =>
        /\ attempts'[x] # NoAttempt
        /\ attempts'[x].from = attempts[x].from /\ attempts'[x].to = attempts[x].to
        /\ \A d \in Device : attempts[x].sequence[d] <= attempts'[x].sequence[d]

SettledKept(v, x) ==
    Sending(v)' => /\ Sending(v) \/ phase[v] = "starting"
                   /\ Settled(v, x)' = Settled(v, x)

Steady ==
    /\ \A c \in Conn : Onward(c)
    /\ \A x \in Attempt : AttemptKept(x)
    /\ \A c \in Conn : StreamKept(c)
    /\ \A v \in Conn, x \in Attempt : attempts[x] # NoAttempt => SettledKept(v, x)

LEMMA StreamIsKept ==
    ASSUME HubTypeOK, HubTypeOK', NEW c \in Conn,
           Shortened(c) \/ \E m \in Message : m.kind # "signal" /\ Extended(c, m)
    PROVE  StreamKept(c)
<1>1. PICK s \in Seq(Message) : s = Stream(c)
  BY StreamParts
<1>2. CASE Shortened(c)
  <2>1. c \notin cancelled' => c \notin cancelled /\ DOMAIN Stream(c) \subseteq DOMAIN Stream(c)'
    BY <1>2 DEF Shortened
  <2> QED
    BY <1>2, <2>1 DEF Shortened, StreamKept, Prolongs
<1>3. ASSUME NEW m \in Message, m.kind # "signal", Extended(c, m) PROVE StreamKept(c)
  <2>1. PICK t : t = Append(s, m)
    OBVIOUS
  <2>2. /\ DOMAIN s = 1..Len(s) /\ DOMAIN t = 1..Len(s) + 1 /\ Len(s) \in Nat
        /\ \A i \in 1..Len(s) : t[i] = s[i]
        /\ t[Len(s) + 1] = m
    BY <2>1, Appended
  <2>3. Prolongs(s, t) /\ DOMAIN s \subseteq DOMAIN t
    BY <1>3, <2>2 DEF Prolongs
  <2>4. Stream(c)' = t /\ c \notin cancelled
    BY <1>1, <1>3, <2>1 DEF Extended
  <2> QED
    BY <1>1, <2>3, <2>4 DEF StreamKept
<1> QED
  BY <1>2, <1>3

LEMMA QuietSteady ==
    ASSUME Hub, HubTypeOK', [Next]_vars, Quiet PROVE Steady
<1>1. \A c \in Conn : Onward(c)
  BY HubOnward DEF Hub
<1>2. ASSUME NEW x \in Attempt PROVE AttemptKept(x)
  <2>1. ASSUME attempts[x] # NoAttempt, NEW d \in Device
        PROVE  attempts[x].sequence[d] <= attempts[x].sequence[d]
    <3>1. attempts[x] \in AttemptRow
      BY <2>1 DEF Hub, HubTypeOK
    <3>2. attempts[x].sequence[d] \in Nat
      BY <3>1, HubAssumption DEF AttemptRow
    <3> QED
      BY <3>2
  <2> QED
    BY <2>1 DEF Quiet, AttemptSame, AttemptKept
<1>3. \A c \in Conn : StreamKept(c)
  BY StreamIsKept DEF Quiet, Hub
<1>4. ASSUME NEW v \in Conn, NEW x \in Attempt, attempts[x] # NoAttempt, Sending(v)'
      PROVE  /\ Sending(v) \/ phase[v] = "starting"
             /\ Settled(v, x)' = Settled(v, x)
  <2>1. attempts'[x].sequence = attempts[x].sequence
    BY <1>4 DEF Quiet, AttemptSame
  <2>2. SendingKept(v)
    BY DEF Quiet
  <2>3. \/ phase'[v] = phase[v] /\ pending'[v] = pending[v] /\ Sending(v)
        \/ phase[v] = "starting" /\ phase'[v] = "reading"
    BY <1>4, <2>2 DEF SendingKept, Sending
  <2>4. owner'[v] = owner[v]
    BY <1>1, <2>3 DEF Onward, Sending
  <2> QED
    BY <2>1, <2>3, <2>4 DEF Settled
<1> QED
  BY <1>1, <1>2, <1>3, <1>4 DEF Steady, SettledKept

\* What admitting a signal changes: one number of one attempt.
LEMMA AdmitNumbers ==
    ASSUME Hub, NEW c \in Conn, NEW x \in Attempt, NEW type \in Types, Admit(c, x, type)
    PROVE  /\ owner[c] \in Device /\ attempts[x] \in AttemptRow
           /\ phase[c] = "reading"
           /\ attempts'[x].from = attempts[x].from /\ attempts'[x].to = attempts[x].to
           /\ attempts'[x] # NoAttempt
           /\ attempts'[x].sequence[owner[c]] = attempts[x].sequence[owner[c]] + 1
           /\ \A d \in Device : d # owner[c] =>
                 attempts'[x].sequence[d] = attempts[x].sequence[d]
           /\ \A y \in Attempt : y # x => attempts'[y] = attempts[y]
           /\ pending'[c].attempt = x /\ pending'[c].from = owner[c] /\ pending'[c].via = c
           /\ pending'[c].to = OtherEnd(x, owner[c])
           /\ pending'[c].sequence = attempts[x].sequence[owner[c]] + 1
           /\ phase'[c] = "admitted"
           /\ \A v \in Conn : v # c => phase'[v] = phase[v] /\ pending'[v] = pending[v]
           /\ UNCHANGED <<peers, owner, cancelled, queue, hand, wrote>>
<1>1. HubTypeOK /\ Rows
  BY DEF Hub
<1>2. attempts[x] \in AttemptRow /\ owner[c] \in Device /\ owner[c] \in EndsOf(x)
  BY <1>1 DEF Admit, HubTypeOK, NoAttempt, Rows
<1> DEFINE d == owner[c]
           number == NextSequence(x, d)
           sequence == [attempts[x].sequence EXCEPT ![d] = number]
           new == [[attempts[x] EXCEPT !.sequence[d] = number]
                      EXCEPT !.described = @ \cup {d}]
<1>3. attempts' = [attempts EXCEPT ![x] = new]
  BY DEF Admit
<1>4. new.from = attempts[x].from /\ new.to = attempts[x].to /\ new.sequence = sequence
  BY <1>2 DEF AttemptRow
<1>5. attempts'[x] = new /\ \A y \in Attempt : y # x => attempts'[y] = attempts[y]
  BY <1>1, <1>3 DEF HubTypeOK
<1>6. attempts'[x] # NoAttempt
  BY <1>1, <1>2, AdmitType DEF AttemptRow, NoAttempt
<1>7. /\ sequence[d] = attempts[x].sequence[d] + 1
      /\ \A e \in Device : e # d => sequence[e] = attempts[x].sequence[e]
  BY <1>2 DEF AttemptRow, NextSequence
<1>8. /\ pending'[c].attempt = x /\ pending'[c].from = d /\ pending'[c].via = c
      /\ pending'[c].to = OtherEnd(x, d)
      /\ pending'[c].sequence = attempts[x].sequence[d] + 1
  BY <1>1 DEF Admit, HubTypeOK, NextSequence
<1>9. /\ phase[c] = "reading" /\ phase'[c] = "admitted"
      /\ \A v \in Conn : v # c => phase'[v] = phase[v] /\ pending'[v] = pending[v]
      /\ UNCHANGED <<peers, owner, cancelled, queue, hand, wrote>>
  BY <1>1 DEF Admit, HubTypeOK
<1> QED
  BY <1>2, <1>4, <1>5, <1>6, <1>7, <1>8, <1>9

LEMMA AdmitSteady ==
    ASSUME Hub, HubTypeOK', [Next]_vars, NEW c \in Conn, NEW x \in Attempt, NEW type \in Types,
           Admit(c, x, type)
    PROVE  Steady
<1>1. \A e \in Conn : Onward(e)
  BY HubOnward DEF Hub
<1>2. ASSUME NEW y \in Attempt, attempts[y] # NoAttempt, NEW d \in Device
      PROVE  attempts[y].sequence[d] \in Nat
  <2>1. attempts[y] \in AttemptRow
    BY <1>2 DEF Hub, HubTypeOK
  <2> QED
    BY <2>1, HubAssumption DEF AttemptRow
<1>3. ASSUME NEW y \in Attempt PROVE AttemptKept(y)
  <2>1. CASE y # x
    BY <1>2, <2>1, AdmitNumbers DEF AttemptKept
  <2>2. CASE y = x
    BY <1>2, <2>2, AdmitNumbers DEF AttemptKept
  <2> QED
    BY <2>1, <2>2
<1>4. \A e \in Conn : StreamKept(e)
  BY AdmitNumbers, StreamsOf, StreamIsKept DEF Hub
<1>5. ASSUME NEW v \in Conn, NEW y \in Attempt, attempts[y] # NoAttempt, Sending(v)'
      PROVE  Sending(v) /\ Settled(v, y)' = Settled(v, y)
  <2>1. Sending(v)
    BY <1>5, AdmitNumbers DEF Sending
  <2>2. owner[v] \in Device /\ owner'[v] = owner[v]
    BY <2>1, AdmitNumbers DEF Hub, Rows, Sending
  <2>3. CASE v = c /\ y = x
    <3>1. attempts[x].sequence[owner[c]] \in Nat
      BY <1>2, <1>5, <2>2, <2>3
    <3>2. phase[v] = "reading" /\ phase'[v] = "admitted" /\ pending'[v].attempt = x
          /\ attempts'[x].sequence[owner[c]] = attempts[x].sequence[owner[c]] + 1
      BY <2>3, AdmitNumbers
    <3> QED
      BY <2>1, <2>2, <2>3, <3>1, <3>2 DEF Settled
  <2>4. CASE v = c /\ y # x
    <3>1. phase[v] = "reading" /\ pending'[v].attempt # y /\ attempts'[y] = attempts[y]
      BY <2>4, AdmitNumbers
    <3> QED
      BY <2>1, <2>2, <3>1 DEF Settled
  <2>5. CASE v # c
    <3>1. owner[v] # owner[c]
      BY <2>1, <2>5, UniqueSender, AdmitNumbers DEF Hub, Sending
    <3>2. attempts'[y].sequence[owner[v]] = attempts[y].sequence[owner[v]]
      BY <2>2, <3>1, AdmitNumbers
    <3>3. phase'[v] = phase[v] /\ pending'[v] = pending[v]
      BY <2>5, AdmitNumbers
    <3> QED
      BY <2>1, <2>2, <3>2, <3>3 DEF Settled
  <2> QED
    BY <2>3, <2>4, <2>5
<1> QED
  BY <1>1, <1>3, <1>4, <1>5 DEF Steady, SettledKept

\* What is known of a signal stays known.
LEMMA KnownKept ==
    ASSUME Hub, HubTypeOK', Steady, NEW c \in Conn, NEW m \in Message, m.kind = "signal",
           Known(c, m)
    PROVE  Known(c, m)'
<1>1. m.via \in Conn /\ m.attempt \in Attempt /\ m.from \in Device /\ m.sequence \in Nat
  BY SignalTypes
<1>2. /\ phase'[c] # "new" /\ owner'[c] = m.to
      /\ phase'[m.via] \notin {"new", "starting"} /\ owner'[m.via] = m.from
  BY <1>1 DEF Known, Steady, Onward
<1>3. attempts[m.attempt] # NoAttempt /\ AttemptKept(m.attempt)
  BY <1>1 DEF Known, AreEnds, Steady
<1>4. AreEnds(m.attempt, m.from, m.to)'
  BY <1>3 DEF Known, AreEnds, EndsOf, AttemptKept
<1>5. m.sequence <= attempts'[m.attempt].sequence[m.from]
  <2>1. attempts[m.attempt].sequence[m.from] \in Nat
    BY <1>1, <1>3, HubAssumption DEF Hub, HubTypeOK, AttemptRow
  <2>2. /\ m.sequence <= attempts[m.attempt].sequence[m.from]
        /\ attempts[m.attempt].sequence[m.from] <= attempts'[m.attempt].sequence[m.from]
    BY <1>1, <1>3 DEF Known, AttemptKept
  <2>3. attempts'[m.attempt].sequence[m.from] \in Nat
    BY <1>1, <1>3, HubAssumption DEF HubTypeOK, AttemptRow, AttemptKept
  <2> QED
    BY <1>1, <2>1, <2>2, <2>3
<1>6. ASSUME NEW v \in Conn, Sending(v)', owner'[v] = m.from
      PROVE  m.sequence <= Settled(v, m.attempt)'
  <2>1. /\ Sending(v) \/ phase[v] = "starting"
        /\ Settled(v, m.attempt)' = Settled(v, m.attempt)
    BY <1>1, <1>3, <1>6 DEF Steady, SettledKept
  <2>2. owner[v] = m.from
    BY <1>6, <2>1 DEF Steady, Onward, Sending
  <2>3. m.sequence <= Settled(v, m.attempt)
    <3>1. CASE Sending(v)
      BY <2>2, <3>1 DEF Known
    <3>2. CASE phase[v] = "starting"
      <4>1. attempts[m.attempt].sequence[m.from] \in Nat
        BY <1>1, <1>3, HubAssumption DEF Hub, HubTypeOK, AttemptRow
      <4> QED
        BY <1>1, <2>2, <3>2, <4>1 DEF Known, Settled
    <3> QED
      BY <2>1, <3>1, <3>2
  <2> QED
    BY <2>1, <2>3
<1> QED
  BY <1>2, <1>4, <1>5, <1>6 DEF Known

LEMMA SteadyKnown ==
    ASSUME Hub, HubTypeOK', SignalsKnown, Steady PROVE SignalsKnown'
<1> SUFFICES ASSUME NEW c \in Conn, NEW m \in Message, m.kind = "signal",
                    NEW i \in DOMAIN Stream(c)', Stream(c)'[i] = m
             PROVE  Known(c, m)'
  BY DEF SignalsKnown
<1>1. i \in DOMAIN Stream(c) /\ Stream(c)[i] = m
  BY DEF Steady, StreamKept, Prolongs
<1>2. Known(c, m)
  BY <1>1 DEF SignalsKnown
<1> QED
  BY <1>2, KnownKept

StreamsTyped == \A c \in Conn : Stream(c) \in Seq(Message)

LEMMA StreamTypes == HubTypeOK => StreamsTyped
BY StreamParts DEF StreamsTyped

LEMMA SteadyOrder ==
    ASSUME Hub, HubTypeOK', SignalsKnown, NothingSkipped, SignalsInOrder, NoGapBetweenSockets,
           Steady
    PROVE  NothingSkipped' /\ SignalsInOrder' /\ NoGapBetweenSockets'
<1>1. ASSUME NEW c \in Conn
      PROVE  /\ Stream(c) \in Seq(Message) /\ Stream(c)' \in Seq(Message)
             /\ Prolongs(Stream(c), Stream(c)')
  <2>1. HubTypeOK' => StreamsTyped'
    BY StreamTypes, PTL
  <2> QED
    BY <2>1, StreamParts DEF Hub, Steady, StreamKept, StreamsTyped
<1>2. ASSUME NEW c \in Conn, NEW v \in Conn, NEW x \in Attempt, c \notin cancelled', Sending(v)'
      PROVE  CaughtUp(Stream(c), v, x, Settled(v, x))'
  <2>1. PICK s \in Seq(Message), t \in Seq(Message) :
           s = Stream(c) /\ t = Stream(c)' /\ Prolongs(s, t)
    BY <1>1
  <2>2. ASSUME \A i \in DOMAIN t : ~(t[i].kind = "signal" /\ t[i].via = v /\ t[i].attempt = x)
        PROVE  CaughtUp(t, v, x, Settled(v, x)')
    BY <2>2 DEF CaughtUp
  <2>3. ASSUME NEW i \in DOMAIN t, t[i].kind = "signal", t[i].via = v, t[i].attempt = x
        PROVE  CaughtUp(t, v, x, Settled(v, x)')
    <3>1. i \in DOMAIN s /\ s[i] = t[i]
      BY <2>1, <2>3 DEF Prolongs
    <3>2. s[i] \in Message
      BY <2>1, <3>1, LenProperties, ElementOfSeq
    <3>8. Known(c, s[i])
      BY <2>1, <2>3, <3>1, <3>2 DEF SignalsKnown
    <3>3. phase[v] # "starting" /\ owner[v] \in Device /\ attempts[x] # NoAttempt
      BY <2>3, <3>1, <3>8 DEF Known, AreEnds, Hub, Rows
    <3>4. Sending(v) /\ Settled(v, x)' = Settled(v, x)
      BY <1>2, <3>3 DEF Steady, SettledKept
    <3>5. c \notin cancelled /\ DOMAIN s \subseteq DOMAIN t
      BY <1>2, <2>1 DEF Steady, StreamKept
    <3>6. CaughtUp(s, v, x, Settled(v, x))
      BY <2>1, <3>4, <3>5 DEF NothingSkipped
    <3>7. Settled(v, x) \in Int
      <4>1. attempts[x].sequence[owner[v]] \in Nat
        BY <3>3, HubAssumption DEF Hub, HubTypeOK, AttemptRow
      <4> QED
        BY <4>1 DEF Settled
    <3> QED
      BY <2>1, <3>4, <3>5, <3>6, <3>7, CaughtUpProlonged
  <2>4. CaughtUp(t, v, x, Settled(v, x)')
    BY <2>2, <2>3
  <2> QED
    BY <2>1, <2>4 DEF CaughtUp
<1>3. ASSUME NEW c \in Conn PROVE Ordered(Stream(c)')
  BY <1>1, OrderedProlonged DEF SignalsInOrder, Ordered
<1>4. ASSUME NEW c \in Conn, NEW v \in Conn PROVE Unbroken(Stream(c)', v)
  <2>1. PICK s \in Seq(Message), t \in Seq(Message) :
           s = Stream(c) /\ t = Stream(c)' /\ Prolongs(s, t)
    BY <1>1
  <2>2. Unbroken(s, v)
    BY <2>1 DEF NoGapBetweenSockets, Unbroken
  <2> QED
    BY <2>1, <2>2, UnbrokenProlonged
<1>5. NothingSkipped'
  BY <1>2 DEF NothingSkipped
<1>6. SignalsInOrder'
  BY <1>3 DEF SignalsInOrder, Ordered
<1>7. NoGapBetweenSockets'
  BY <1>4 DEF NoGapBetweenSockets, Unbroken
<1> QED
  BY <1>5, <1>6, <1>7

\* A signal that waits to be sent keeps its attempt's last number.
LEMMA PendingQuiet ==
    ASSUME Hub, PendingKnown, Quiet, \A c \in Conn : Onward(c) PROVE PendingKnown'
<1> SUFFICES ASSUME NEW v \in Conn, phase'[v] = "admitted"
             PROVE  /\ pending'[v].via = v /\ pending'[v].from = owner'[v]
                    /\ AreEnds(pending[v].attempt, pending[v].from, pending[v].to)'
                    /\ pending'[v].sequence
                         = attempts'[pending'[v].attempt].sequence[owner'[v]]
  BY DEF PendingKnown
<1>1. phase[v] = "admitted" /\ pending'[v] = pending[v]
  BY DEF Quiet, SendingKept, Sending
<1>2. owner'[v] = owner[v]
  BY <1>1 DEF Onward
<1>3. PICK p : p = pending[v]
  OBVIOUS
<1>4. /\ p \in Signal /\ p.attempt \in Attempt
      /\ p.via = v /\ p.from = owner[v] /\ AreEnds(p.attempt, p.from, p.to)
      /\ p.sequence = attempts[p.attempt].sequence[owner[v]]
  BY <1>1, <1>3 DEF PendingKnown, Hub, Rows, Signal
<1>5. AttemptSame(p.attempt)
  BY <1>4 DEF Quiet
<1>6. /\ AreEnds(p.attempt, p.from, p.to)'
      /\ attempts'[p.attempt].sequence = attempts[p.attempt].sequence
  BY <1>4, <1>5 DEF AttemptSame, AreEnds, EndsOf
<1>7. pending'[v] = p
  BY <1>1, <1>3
<1> QED
  BY <1>2, <1>4, <1>6, <1>7 DEF AreEnds, EndsOf

LEMMA PendingAdmit ==
    ASSUME Hub, PendingKnown, NEW c \in Conn, NEW x \in Attempt, NEW type \in Types,
           Admit(c, x, type)
    PROVE  PendingKnown'
<1> SUFFICES ASSUME NEW v \in Conn, phase'[v] = "admitted"
             PROVE  /\ pending'[v].via = v /\ pending'[v].from = owner'[v]
                    /\ AreEnds(pending[v].attempt, pending[v].from, pending[v].to)'
                    /\ pending'[v].sequence
                         = attempts'[pending'[v].attempt].sequence[owner'[v]]
  BY DEF PendingKnown
<1>1. CASE v = c
  <2>1. owner[c] \in EndsOf(x) /\ attempts[x].from # attempts[x].to
    BY AdmitNumbers DEF Admit, Hub, Rows, AttemptRow, NoAttempt
  <2>2. \E e \in EndsOf(x) : e # owner[c]
    BY <2>1 DEF EndsOf
  <2>3. OtherEnd(x, owner[c]) \in EndsOf(x) /\ OtherEnd(x, owner[c]) # owner[c]
    BY <2>2 DEF OtherEnd
  <2>4. PICK e : e = OtherEnd(x, owner[c])
    OBVIOUS
  <2>5. EndsOf(x) = {owner[c], e} /\ owner[c] # e
    BY <2>1, <2>3, <2>4 DEF EndsOf
  <2>6. pending'[c].attempt = x /\ pending'[c].from = owner[c] /\ pending'[c].to = e
    BY <2>4, AdmitNumbers
  <2>7. /\ attempts'[x] # NoAttempt
        /\ {attempts'[x].from, attempts'[x].to} = {owner[c], e}
    BY <2>5, AdmitNumbers DEF EndsOf
  <2>8. /\ pending'[c].via = c /\ owner'[c] = owner[c]
        /\ pending'[c].sequence = attempts[x].sequence[owner[c]] + 1
        /\ attempts'[x].sequence[owner[c]] = attempts[x].sequence[owner[c]] + 1
    BY AdmitNumbers
  <2> QED
    BY <1>1, <2>5, <2>6, <2>7, <2>8 DEF AreEnds, EndsOf
<1>2. CASE v # c
  <2>1. phase[v] = "admitted" /\ pending'[v] = pending[v] /\ owner'[v] = owner[v]
    BY <1>2, AdmitNumbers
  <2>2. PICK p : p = pending[v]
    OBVIOUS
  <2>3. /\ p \in Signal /\ p.attempt \in Attempt
        /\ p.via = v /\ p.from = owner[v] /\ AreEnds(p.attempt, p.from, p.to)
        /\ p.sequence = attempts[p.attempt].sequence[owner[v]]
        /\ owner[v] \in Device
    BY <2>1, <2>2 DEF PendingKnown, Hub, Rows, Signal
  <2>4. owner[v] # owner[c]
    BY <1>2, <2>1, UniqueSender, AdmitNumbers DEF Hub, Sending
  <2>5. /\ attempts'[p.attempt].sequence[owner[v]] = attempts[p.attempt].sequence[owner[v]]
        /\ attempts[p.attempt] # NoAttempt => attempts'[p.attempt] # NoAttempt
        /\ attempts'[p.attempt].from = attempts[p.attempt].from
        /\ attempts'[p.attempt].to = attempts[p.attempt].to
    BY <2>3, <2>4, AdmitNumbers
  <2>6. AreEnds(p.attempt, p.from, p.to)'
    BY <2>3, <2>5 DEF AreEnds, EndsOf
  <2>7. pending'[v] = p
    BY <2>1, <2>2
  <2> QED
    BY <2>1, <2>3, <2>5, <2>6, <2>7 DEF AreEnds, EndsOf
<1> QED
  BY <1>1, <1>2

LEMMA PendingForward ==
    ASSUME Hub, PendingKnown, NEW c \in Conn, Forward(c) PROVE PendingKnown'
<1>1. UNCHANGED <<owner, attempts>> /\ phase'[c] = "reading"
  BY DEF Forward, Hub, HubTypeOK
<1>2. \A v \in Conn : v # c => phase'[v] = phase[v] /\ pending'[v] = pending[v]
  BY DEF Forward, Hub, HubTypeOK
<1> QED
  BY <1>1, <1>2 DEF PendingKnown, AreEnds, EndsOf

-----------------------------------------------------------------------------
(* Forwarding a signal.                                                    *)

\* The signal goes to the end of the stream of the socket its target has.
LEMMA ForwardStreams ==
    ASSUME Hub, PendingKnown, NEW c \in Conn, Forward(c)
    PROVE  \E p \in Signal, e \in Conn :
              /\ p = pending[c] /\ p \in Message /\ p.kind = "signal"
              /\ p.via = c /\ p.from = owner[c] /\ AreEnds(p.attempt, p.from, p.to)
              /\ p.sequence = attempts[p.attempt].sequence[p.from]
              /\ e = peers[p.to] /\ owner[e] = p.to /\ phase[e] \notin {"new", "gone"}
              /\ \A b \in Conn : \/ b # e /\ Shortened(b)
                                 \/ b = e /\ e \in cancelled /\ Shortened(b)
                                 \/ b = e /\ Extended(b, p)
<1>1. PICK p : p = pending[c]
  OBVIOUS
<1>2. /\ p \in Signal /\ p.kind = "signal"
      /\ p.via = c /\ p.from = owner[c] /\ AreEnds(p.attempt, p.from, p.to)
      /\ p.sequence = attempts[p.attempt].sequence[p.from]
  BY <1>1 DEF Forward, PendingKnown, Hub, Rows, Signal
<1>3. p \in Message /\ p.to \in Device
  BY <1>2 DEF Message, Signal
<1>4. CanSend(p.to) /\ Send(p.to, p) /\ UNCHANGED <<wrote, hand, cancelled>>
  BY <1>1 DEF Forward
<1>5. PICK e \in Conn : e = peers[p.to]
  BY <1>3, <1>4, StreamOfSend DEF Hub
<1>6. owner[e] = p.to /\ phase[e] \notin {"new", "gone"}
  BY <1>3, <1>4, <1>5 DEF Hub, PeersKnown, CanSend
<1>7. \A b \in Conn : \/ b # e /\ Shortened(b)
                      \/ b = e /\ e \in cancelled /\ Shortened(b)
                      \/ b = e /\ Extended(b, p)
  BY <1>3, <1>4, <1>5, StreamOfSend DEF Hub
<1> QED
  BY <1>1, <1>2, <1>3, <1>5, <1>6, <1>7

\* What a sender has settled when it has sent a signal on.
LEMMA ForwardSettled ==
    ASSUME Hub, PendingKnown, NEW c \in Conn, Forward(c)
    PROVE  /\ \A b \in Conn : Onward(b)
           /\ UNCHANGED <<owner, attempts, cancelled, peers>>
           /\ phase[c] = "admitted" /\ phase'[c] = "reading"
           /\ \A v \in Conn : v # c => phase'[v] = phase[v]
           /\ \A v \in Conn, x \in Attempt : Sending(v)' =>
                 /\ Sending(v)
                 /\ v # c \/ pending[c].attempt # x => Settled(v, x)' = Settled(v, x)
           /\ \A x \in Attempt : x = pending[c].attempt =>
                 /\ Settled(c, x) = attempts[x].sequence[owner[c]] - 1
                 /\ Settled(c, x)' = attempts[x].sequence[owner[c]]
<1>1. UNCHANGED <<owner, attempts, cancelled, peers>>
  BY DEF Forward
<1>2. phase[c] = "admitted" /\ phase'[c] = "reading"
  BY DEF Forward, Hub, HubTypeOK
<1>3. \A v \in Conn : v # c => phase'[v] = phase[v] /\ pending'[v] = pending[v]
  BY DEF Forward, Hub, HubTypeOK
<1>4. \A b \in Conn : Onward(b)
  BY <1>1, <1>2, <1>3 DEF Onward
<1>5. PICK x : x = pending[c].attempt
  OBVIOUS
<1>6. x \in Attempt /\ AreEnds(x, pending[c].from, pending[c].to) /\ owner[c] \in Device
  BY <1>2, <1>5 DEF PendingKnown, Hub, Rows, Signal
<1>7. attempts[x].sequence[owner[c]] \in Nat
  BY <1>6, HubAssumption DEF AreEnds, Hub, HubTypeOK, AttemptRow
<1>8. /\ Settled(c, x) = attempts[x].sequence[owner[c]] - 1
      /\ Settled(c, x)' = attempts[x].sequence[owner[c]]
  BY <1>1, <1>2, <1>5, <1>7 DEF Settled
<1>9. ASSUME NEW v \in Conn, NEW y \in Attempt, Sending(v)'
      PROVE  /\ Sending(v)
             /\ v # c \/ x # y => Settled(v, y)' = Settled(v, y)
  <2>1. CASE v = c
    BY <1>1, <1>2, <1>5, <2>1 DEF Sending, Settled
  <2>2. CASE v # c
    BY <1>1, <1>3, <1>9, <2>2 DEF Sending, Settled
  <2> QED
    BY <2>1, <2>2
<1> QED
  BY <1>1, <1>2, <1>3, <1>4, <1>5, <1>8, <1>9

\* What is known of the signals before it stays known, and it is known itself.
LEMMA ForwardKnown ==
    ASSUME Hub, PendingKnown, SignalsKnown, NEW c \in Conn, Forward(c)
    PROVE  SignalsKnown'
<1>1. PICK p \in Signal, e \in Conn :
         /\ p = pending[c] /\ p \in Message /\ p.kind = "signal"
         /\ p.via = c /\ p.from = owner[c] /\ AreEnds(p.attempt, p.from, p.to)
         /\ p.sequence = attempts[p.attempt].sequence[p.from]
         /\ e = peers[p.to] /\ owner[e] = p.to /\ phase[e] \notin {"new", "gone"}
         /\ \A b \in Conn : \/ b # e /\ Shortened(b)
                            \/ b = e /\ e \in cancelled /\ Shortened(b)
                            \/ b = e /\ Extended(b, p)
  BY ForwardStreams
<1> DEFINE x == p.attempt
<1>2. x \in Attempt /\ p.sequence \in Nat /\ owner[c] \in Device
  BY <1>1, SignalTypes
<1>3. /\ \A b \in Conn : Onward(b)
      /\ UNCHANGED <<owner, attempts>>
      /\ phase[c] = "admitted" /\ phase'[c] = "reading"
      /\ \A v \in Conn : v # c => phase'[v] = phase[v]
  BY ForwardSettled
<1>4. /\ \A v \in Conn, y \in Attempt : Sending(v)' =>
            /\ Sending(v)
            /\ v # c \/ x # y => Settled(v, y)' = Settled(v, y)
      /\ Settled(c, x) = attempts[x].sequence[owner[c]] - 1
      /\ Settled(c, x)' = attempts[x].sequence[owner[c]]
  BY <1>1, <1>2, ForwardSettled
<1>5. attempts[x].sequence[owner[c]] \in Nat
  BY <1>1, <1>2
<1>6. ASSUME NEW b \in Conn, NEW m \in Message, m.kind = "signal", Known(b, m)
      PROVE  Known(b, m)'
  <2>1. m.via \in Conn /\ m.attempt \in Attempt /\ m.sequence \in Nat
    BY <1>6, SignalTypes
  <2>2. ASSUME NEW v \in Conn, Sending(v)', owner[v] = m.from
        PROVE  m.sequence <= Settled(v, m.attempt)'
    <3>1. Sending(v) /\ m.sequence <= Settled(v, m.attempt)
      BY <1>4, <1>6, <2>1, <2>2 DEF Known
    <3>2. CASE v = c /\ m.attempt = x
      <4>1. m.sequence <= attempts[x].sequence[owner[c]] - 1
        BY <1>4, <3>1, <3>2
      <4> QED
        BY <1>4, <1>5, <2>1, <3>2, <4>1
    <3>3. CASE v # c \/ m.attempt # x
      BY <1>4, <2>1, <2>2, <3>1, <3>3
    <3> QED
      BY <3>2, <3>3
  <2>3. phase'[b] # "new" /\ phase'[m.via] \notin {"new", "starting"}
    BY <1>3, <1>6, <2>1 DEF Known, Onward
  <2> QED
    BY <1>3, <1>6, <2>2, <2>3 DEF Known, AreEnds, EndsOf
<1>7. Known(e, p)'
  <2>1. ASSUME NEW v \in Conn, Sending(v)', owner[v] = p.from
        PROVE  p.sequence <= Settled(v, x)'
    <3>1. v = c
      BY <1>1, <1>3, <1>4, <1>2, <2>1, UniqueSender DEF Hub, Sending
    <3> QED
      BY <1>1, <1>2, <1>4, <1>5, <3>1
  <2>2. phase'[e] # "new"
    BY <1>1, <1>3 DEF Onward
  <2>3. p.sequence <= attempts[p.attempt].sequence[p.from]
    BY <1>1, <1>2
  <2> QED
    BY <1>1, <1>3, <2>1, <2>2, <2>3 DEF Known, AreEnds, EndsOf
<1>8. ASSUME NEW b \in Conn, NEW m \in Message, m.kind = "signal",
             NEW i \in DOMAIN Stream(b)', Stream(b)'[i] = m
      PROVE  Known(b, m)'
  <2>1. PICK s \in Seq(Message) : s = Stream(b)
    BY StreamParts DEF Hub
  <2>2. CASE Shortened(b)
    <3>1. i \in DOMAIN Stream(b) /\ Stream(b)[i] = m
      BY <1>8, <2>2 DEF Shortened
    <3> QED
      BY <1>6, <1>8, <3>1 DEF SignalsKnown
  <2>3. CASE b = e /\ Extended(b, p)
    <3>1. Stream(b)' = Append(s, p)
      BY <2>1, <2>3 DEF Extended
    <3>2. m = p \/ (i \in DOMAIN s /\ s[i] = m)
      BY <1>1, <1>8, <3>1, Appended
    <3> QED
      BY <1>6, <1>7, <1>8, <2>1, <2>3, <3>2 DEF SignalsKnown
  <2> QED
    BY <1>1, <2>2, <2>3
<1> QED
  BY <1>8 DEF SignalsKnown

\* It is the next of its socket's in its target's stream, and nothing of this
\* socket's in this attempt is in any other stream that is not cancelled.
LEMMA ForwardOrder ==
    ASSUME Hub, HubTypeOK', PendingKnown, SignalsKnown, NothingSkipped, SignalsInOrder,
           NoGapBetweenSockets, NEW c \in Conn, Forward(c)
    PROVE  NothingSkipped' /\ SignalsInOrder' /\ NoGapBetweenSockets'
<1>1. PICK p \in Signal, e \in Conn :
         /\ p = pending[c] /\ p \in Message /\ p.kind = "signal"
         /\ p.via = c /\ p.from = owner[c] /\ AreEnds(p.attempt, p.from, p.to)
         /\ p.sequence = attempts[p.attempt].sequence[p.from]
         /\ e = peers[p.to] /\ owner[e] = p.to /\ phase[e] \notin {"new", "gone"}
         /\ \A b \in Conn : \/ b # e /\ Shortened(b)
                            \/ b = e /\ e \in cancelled /\ Shortened(b)
                            \/ b = e /\ Extended(b, p)
  BY ForwardStreams
<1> DEFINE x == p.attempt
<1>2. x \in Attempt /\ p.sequence \in Nat
  BY <1>1, SignalTypes
<1>3. /\ UNCHANGED cancelled
      /\ phase[c] = "admitted"
      /\ \A v \in Conn, y \in Attempt : Sending(v)' =>
            /\ Sending(v)
            /\ v # c \/ x # y => Settled(v, y)' = Settled(v, y)
      /\ Settled(c, x) = p.sequence - 1
      /\ Settled(c, x)' = p.sequence
  BY <1>1, <1>2, ForwardSettled
<1>4. ASSUME NEW b \in Conn, NEW m \in Message, m.kind = "signal",
             NEW i \in DOMAIN Stream(b), Stream(b)[i] = m
      PROVE  Known(b, m)
  BY <1>4 DEF SignalsKnown
<1>5. ASSUME Extended(e, p)
      PROVE  /\ Ordered(Append(Stream(e), p))
             /\ \A v \in Conn : Unbroken(Append(Stream(e), p), v)
             /\ CaughtUp(Append(Stream(e), p), c, x, p.sequence)
  <2>1. PICK s \in Seq(Message) : s = Stream(e)
    BY StreamParts DEF Hub
  <2>2. e \notin cancelled
    BY <1>5 DEF Extended
  <2>3. CaughtUp(s, c, x, p.sequence - 1)
    BY <1>2, <1>3, <2>1, <2>2 DEF NothingSkipped, Sending
  <2>4. ASSUME NEW i \in DOMAIN s, s[i].kind = "signal", s[i].attempt = x,
               s[i].from = p.from
        PROVE  s[i].sequence < p.sequence
    <3>1. s[i] \in Message
      BY LenProperties, ElementOfSeq
    <3>2. Known(e, s[i]) /\ s[i].sequence \in Nat
      BY <1>4, <2>1, <2>4, <3>1, SignalTypes
    <3>3. s[i].sequence <= p.sequence - 1
      BY <1>1, <1>3, <2>4, <3>2 DEF Known, Sending
    <3> QED
      BY <1>2, <3>2, <3>3
  <2>5. Ordered(s) /\ \A v \in Conn : Unbroken(s, v)
    BY <2>1 DEF SignalsInOrder, NoGapBetweenSockets, Ordered, Unbroken
  <2>6. Ordered(Append(s, p))
    BY <1>1, <2>4, <2>5, OrderedAppend
  <2>7. \A v \in Conn : Unbroken(Append(s, p), v)
    BY <1>1, <2>3, <2>5, UnbrokenAppend
  <2>8. CaughtUp(Append(s, p), c, x, p.sequence)
    BY <1>1, <2>3, CaughtUpAppend
  <2> QED
    BY <2>1, <2>6, <2>7, <2>8
<1>6. ASSUME NEW b \in Conn, b # e, b \notin cancelled,
             NEW i \in DOMAIN Stream(b), Stream(b)[i].kind = "signal",
             Stream(b)[i].via = c, Stream(b)[i].attempt = x
      PROVE  FALSE
  <2>1. PICK m : m = Stream(b)[i]
    OBVIOUS
  <2>2. Known(b, m)
    <3>1. Stream(b) \in Seq(Message)
      BY StreamParts DEF Hub
    <3>2. m \in Message
      BY <2>1, <3>1, LenProperties, ElementOfSeq
    <3> QED
      BY <1>4, <1>6, <2>1, <3>2
  <2>3. m.via = c /\ m.attempt = x
    BY <1>6, <2>1
  <2>4. owner[b] = m.to /\ m.from = p.from /\ phase[b] # "new" /\ AreEnds(x, m.from, m.to)
    BY <1>1, <2>2, <2>3 DEF Known
  <2>5. m.to = p.to
    BY <1>1, <2>4 DEF AreEnds
  <2>6. phase[b] \notin {"new", "gone"}
    BY <1>6, <2>4 DEF Hub, PeersKnown
  <2>7. peers[owner[b]] = b
    BY <2>6 DEF Hub, OneSocketPerDevice
  <2> QED
    BY <1>1, <1>6, <2>4, <2>5, <2>7
<1>7. ASSUME NEW b \in Conn
      PROVE  Ordered(Stream(b)') /\ \A v \in Conn : Unbroken(Stream(b)', v)
  <2>1. HubTypeOK' => StreamsTyped'
    BY StreamTypes, PTL
  <2>2. PICK s \in Seq(Message), t \in Seq(Message) : s = Stream(b) /\ t = Stream(b)'
    BY <2>1, StreamParts DEF Hub, StreamsTyped
  <2>3. Ordered(s) /\ \A v \in Conn : Unbroken(s, v)
    BY <2>2 DEF SignalsInOrder, NoGapBetweenSockets, Ordered, Unbroken
  <2>4. CASE Shortened(b)
    <3>1. Prolongs(s, t)
      BY <2>2, <2>4 DEF Shortened, Prolongs
    <3> QED
      BY <2>2, <2>3, <3>1, OrderedProlonged, UnbrokenProlonged
  <2>5. CASE b = e /\ Extended(b, p)
    <3>1. Stream(b)' = Append(Stream(b), p)
      BY <2>5 DEF Extended
    <3> QED
      BY <1>5, <2>5, <3>1
  <2> QED
    BY <1>1, <2>4, <2>5
<1>8. ASSUME NEW b \in Conn, NEW v \in Conn, NEW y \in Attempt, b \notin cancelled', Sending(v)'
      PROVE  CaughtUp(Stream(b), v, y, Settled(v, y))'
  <2>1. PICK s \in Seq(Message) : s = Stream(b)
    BY StreamParts DEF Hub
  <2>2. PICK t : t = Stream(b)'
    OBVIOUS
  <2>3. Sending(v) /\ b \notin cancelled /\ CaughtUp(s, v, y, Settled(v, y))
    BY <1>3, <1>8, <2>1 DEF NothingSkipped
  <2>4. ASSUME b = e PROVE CaughtUp(t, v, y, Settled(v, y)')
    <3>1. Extended(e, p)
      BY <1>1, <2>3, <2>4
    <3>2. t = Append(s, p)
      BY <2>1, <2>2, <2>4, <3>1 DEF Extended
    <3>3. CASE v = c /\ y = x
      BY <1>3, <1>5, <2>1, <2>4, <3>1, <3>2, <3>3
    <3>4. CASE v # c \/ y # x
      <4>1. Settled(v, y)' = Settled(v, y)
        BY <1>3, <1>8, <3>4
      <4> QED
        BY <1>1, <2>3, <3>2, <3>4, <4>1, CaughtUpOther
    <3> QED
      BY <3>3, <3>4
  <2>5. ASSUME b # e PROVE CaughtUp(t, v, y, Settled(v, y)')
    <3>1. t = s
      BY <1>1, <1>8, <2>1, <2>2, <2>5 DEF Shortened
    <3>2. CASE v = c /\ y = x
      <4>1. \A i \in DOMAIN s : ~(s[i].kind = "signal" /\ s[i].via = c /\ s[i].attempt = x)
        BY <1>6, <2>1, <2>3, <2>5
      <4> QED
        BY <3>1, <3>2, <4>1 DEF CaughtUp
    <3>3. CASE v # c \/ y # x
      BY <1>3, <1>8, <2>3, <3>1, <3>3
    <3> QED
      BY <3>2, <3>3
  <2>6. CaughtUp(t, v, y, Settled(v, y)')
    BY <2>4, <2>5
  <2> QED
    BY <2>1, <2>2, <2>6 DEF CaughtUp
<1> QED
  BY <1>7, <1>8 DEF NothingSkipped, SignalsInOrder, NoGapBetweenSockets, Ordered, Unbroken

-----------------------------------------------------------------------------
\* Every step keeps the order.
LEMMA OrderStep ==
    ASSUME Hub, HubTypeOK', OrderInv, SignalsInOrder, NoGapBetweenSockets, [Next]_vars
    PROVE  OrderInv' /\ SignalsInOrder' /\ NoGapBetweenSockets'
<1>1. CASE Quiet
  BY <1>1, QuietSteady, PendingQuiet, SteadyKnown, SteadyOrder DEF OrderInv, Steady
<1>2. ASSUME NEW c \in Conn, NEW x \in Attempt, NEW type \in Types, Admit(c, x, type)
      PROVE  OrderInv' /\ SignalsInOrder' /\ NoGapBetweenSockets'
  BY <1>2, AdmitSteady, PendingAdmit, SteadyKnown, SteadyOrder DEF OrderInv
<1>3. ASSUME NEW c \in Conn, Forward(c)
      PROVE  OrderInv' /\ SignalsInOrder' /\ NoGapBetweenSockets'
  BY <1>3, PendingForward, ForwardKnown, ForwardOrder DEF OrderInv
<1> QED
  BY <1>1, <1>2, <1>3, HubSteps DEF Hub

\* Nothing is on its way when the hub starts.
LEMMA OrderInit == Init => OrderInv /\ SignalsInOrder /\ NoGapBetweenSockets
<1> SUFFICES ASSUME Init PROVE OrderInv /\ SignalsInOrder /\ NoGapBetweenSockets
  OBVIOUS
<1>1. ASSUME NEW c \in Conn PROVE Stream(c) = <<>>
  BY <1>1 DEF Init, Stream
<1>2. \A c \in Conn : phase[c] = "new"
  BY DEF Init
<1> QED
  BY <1>1, <1>2 DEF OrderInv, PendingKnown, SignalsKnown, NothingSkipped, Sending,
                    SignalsInOrder, NoGapBetweenSockets

LEMMA OrderInvariant == Spec => [](OrderInv /\ SignalsInOrder /\ NoGapBetweenSockets)
<1>1. Hub /\ HubTypeOK' /\ OrderInv /\ SignalsInOrder /\ NoGapBetweenSockets /\ [Next]_vars
      => OrderInv' /\ SignalsInOrder' /\ NoGapBetweenSockets'
  BY OrderStep
<1> QED
  BY <1>1, OrderInit, HubKnown, HubInvariant, PTL DEF Spec

\* The signals of one machine in one attempt reach every socket of the other in
\* order and once, for any number of machines, sockets and attempts and whatever
\* reconnects or is lost (Admit, readSignals, send).
THEOREM SignalsStayInOrder == Spec => []SignalsInOrder
  BY OrderInvariant, PTL

\* What one socket sends on reaches another socket without a gap: a signal that
\* could not be queued ends its sender's socket (readSignals, send).
THEOREM SocketsLeaveNoGap == Spec => []NoGapBetweenSockets
  BY OrderInvariant, PTL

-----------------------------------------------------------------------------
(* The notices of a revocation.                                            *)

Has(c, m) == \E i \in DOMAIN Stream(c) : Stream(c)[i] = m

Todo(r, d) == \E i \in DOMAIN notices[r].todo : notices[r].todo[i] = d

\* A socket a revocation's handler found in service when it began has been told,
\* is ending, or its machine's turn is still to come.
NoticeOn(r, c) ==
    /\ phase[c] # "new"
    /\ \/ Has(c, RevokedMessage(r))
       \/ c \in closed \cup cancelled
       \/ ~InService(c)
       \/ Todo(r, owner[c])

NoticesKnown == \A r \in Req, c \in Conn : c \in notices[r].watched => NoticeOn(r, c)

\* A message on its way stays so, unless the socket is cancelled.
LEMMA MessageStays ==
    ASSUME Hub, PendingKnown, [Next]_vars, NEW c \in Conn, NEW m, Has(c, m)
    PROVE  Has(c, m)' \/ c \in cancelled'
<1>1. PICK s \in Seq(Message) : s = Stream(c)
  BY StreamParts DEF Hub
<1>2. PICK i \in DOMAIN s : s[i] = m
  BY <1>1 DEF Has
<1>3. CASE Shortened(c)
  BY <1>1, <1>2, <1>3 DEF Shortened, Has
<1>4. ASSUME NEW p \in Message, Extended(c, p) PROVE Has(c, m)'
  <2>1. i \in DOMAIN Append(s, p) /\ Append(s, p)[i] = m
    BY <1>2, Appended
  <2>2. Stream(c)' = Append(s, p)
    BY <1>1, <1>4 DEF Extended
  <2> QED
    BY <2>1, <2>2 DEF Has
<1>5. Shortened(c) \/ \E p \in Message : Extended(c, p)
  <2>1. CASE Quiet
    BY <2>1 DEF Quiet
  <2>2. ASSUME NEW e \in Conn, Forward(e) PROVE Shortened(c) \/ \E p \in Message : Extended(c, p)
    BY <2>2, ForwardStreams
  <2>3. ASSUME NEW e \in Conn, NEW x \in Attempt, NEW type \in Types, Admit(e, x, type)
        PROVE  Shortened(c)
    BY <2>3, AdmitNumbers, StreamsOf DEF Hub
  <2> QED
    BY <2>1, <2>2, <2>3, HubSteps DEF Hub
<1> QED
  BY <1>3, <1>4, <1>5

\* A socket that is closed, cancelled or out of service stays so, and keeps its machine.
LEMMA EndingStays ==
    ASSUME Hub, [Next]_vars, NEW c \in Conn, phase[c] # "new"
    PROVE  /\ phase'[c] # "new" /\ owner'[c] = owner[c]
           /\ c \in closed \cup cancelled => c \in closed' \cup cancelled'
           /\ ~InService(c) => ~InService(c)'
<1>1. phase'[c] # "new" /\ owner'[c] = owner[c]
  BY HubOnward DEF Onward, Hub
<1>2. CASE UNCHANGED vars
  BY <1>2 DEF vars, socketVars, InService
<1>3. ASSUME NEW e \in Conn, ReaderStep(e) \/ WriterStep(e)
      PROVE  /\ closed \subseteq closed' /\ cancelled \subseteq cancelled'
             /\ ~InService(c) => ~InService(c)'
  BY <1>3 DEF ReaderStep, WriterStep, Greet, GreetFails, ReaderLeaves, Stop, CleanUp,
              Forward, ForwardFails, Take, Write, WriteFails, WriterStops, InService,
              Hub, HubTypeOK
<1>4. ASSUME NEW e \in Conn, ClientStep(e)
      PROVE  /\ closed \subseteq closed' /\ cancelled \subseteq cancelled'
             /\ ~InService(c) => ~InService(c)'
  BY <1>4 DEF ClientStep, Register, Admit, Refuse, Drop, InService, Hub, HubTypeOK
<1>5. ASSUME NEW x \in Attempt, AttemptStep(x)
      PROVE  UNCHANGED <<closed, cancelled, phase>>
  BY <1>5 DEF AttemptStep, BeginAttempt, TellTarget, TellFails, Lapse, socketVars
<1>6. ASSUME NEW r \in Req, NoticeStep(r)
      PROVE  closed \subseteq closed' /\ UNCHANGED <<cancelled, phase>>
  BY <1>6 DEF NoticeStep, StartNotice, NoticeSend, NoticeClose, socketVars
<1> QED
  BY <1>1, <1>2, <1>3, <1>4, <1>5, <1>6 DEF Next, InService

\* While a handler's row stands still, or only shortens by an end it told or closed,
\* what it watches is accounted for.
LEMMA NoticeStays ==
    ASSUME Hub, PendingKnown, [Next]_vars, NEW r \in Req, NEW c \in Conn, NoticeOn(r, c),
           Todo(r, owner[c]) => \/ Todo(r, owner[c])'
                                \/ Has(c, RevokedMessage(r))'
                                \/ c \in closed' \cup cancelled'
                                \/ ~InService(c)'
    PROVE  NoticeOn(r, c)'
<1>1. phase'[c] # "new" /\ owner'[c] = owner[c]
  BY EndingStays DEF NoticeOn
<1>2. CASE Has(c, RevokedMessage(r))
  BY <1>1, <1>2, MessageStays DEF NoticeOn, RevokedMessage
<1>3. CASE c \in closed \cup cancelled \/ ~InService(c)
  BY <1>1, <1>3, EndingStays DEF NoticeOn
<1>4. CASE Todo(r, owner[c])
  BY <1>1, <1>4 DEF NoticeOn
<1> QED
  BY <1>2, <1>3, <1>4 DEF NoticeOn

\* The handler's turn comes to the socket of an end: it is told or closed.
LEMMA NoticeTurn ==
    ASSUME Hub, NEW r \in Req, NoticeSend(r) \/ NoticeClose(r), NEW c \in Conn,
           phase[c] # "new", Todo(r, owner[c])
    PROVE  \/ Todo(r, owner[c])'
           \/ Has(c, RevokedMessage(r))'
           \/ c \in closed' \cup cancelled'
           \/ ~InService(c)'
<1>1. UNCHANGED <<phase, owner, peers, cancelled>>
  BY DEF NoticeSend, NoticeClose, socketVars
<1>2. PICK todo : todo = notices[r].todo
  OBVIOUS
<1>3. todo \in Seq(Device) /\ todo # <<>>
  BY <1>2 DEF Hub, HubTypeOK, NoticeRow, NoticeSend, NoticeClose, Rows
<1>4. PICK d : d = owner[c]
  OBVIOUS
<1>5. PICK i \in DOMAIN todo : todo[i] = d
  BY <1>2, <1>4 DEF Todo
<1>6. CASE notices'[r].todo = todo
  BY <1>1, <1>4, <1>5, <1>6 DEF Todo
<1>7. CASE notices'[r].todo = Tail(todo) /\ i # 1
  <2>1. (i - 1) \in DOMAIN Tail(todo) /\ Tail(todo)[i - 1] = d
    BY <1>3, <1>5, <1>7
  <2> QED
    BY <1>1, <1>4, <1>7, <2>1 DEF Todo
<1>8. ASSUME i = 1, InService(c) PROVE Head(todo) = d /\ d \in Device /\ peers[d] = c /\ c # None
  <2>1. Head(todo) = d /\ d \in Device
    BY <1>3, <1>5, <1>8
  <2> QED
    BY <1>4, <1>8, <2>1, HubAssumption DEF Hub, OneSocketPerDevice, InService
<1>9. CASE i = 1 /\ InService(c)
  <2>1. CASE NoticeClose(r)
    <3>1. closed' = closed \cup ({peers[d]} \ {None})
      BY <1>2, <1>8, <1>9, <2>1 DEF NoticeClose
    <3> QED
      BY <1>8, <1>9, <3>1
  <2>2. CASE NoticeSend(r) /\ ~CanSend(d)
    <3>1. notices' = [notices EXCEPT ![r].closing = TRUE]
      BY <1>2, <1>8, <1>9, <2>2 DEF NoticeSend
    <3>2. notices'[r].todo = todo
      BY <1>2, <3>1 DEF Hub, HubTypeOK, NoticeRow
    <3> QED
      BY <1>6, <3>2
  <2>3. CASE NoticeSend(r) /\ CanSend(d)
    <3>1. Send(d, RevokedMessage(r)) /\ UNCHANGED <<wrote, hand, cancelled>>
      BY <1>2, <1>8, <1>9, <2>3 DEF NoticeSend, socketVars
    <3>2. PICK m \in Message : m = RevokedMessage(r)
      BY DEF Message
    <3>3. c \in cancelled \/ Extended(c, m)
      BY <1>8, <1>9, <2>3, <3>1, <3>2, StreamOfSend DEF Hub
    <3>4. PICK s \in Seq(Message) : s = Stream(c)
      BY StreamParts DEF Hub
    <3>5. Extended(c, m) => Stream(c)' = Append(s, m)
      BY <3>4 DEF Extended
    <3>6. Len(s) + 1 \in DOMAIN Append(s, m) /\ Append(s, m)[Len(s) + 1] = m
      BY Appended
    <3>7. Extended(c, m) => Has(c, m)'
      BY <3>5, <3>6 DEF Has
    <3>8. Has(c, m)' => Has(c, RevokedMessage(r))'
      BY <3>2 DEF RevokedMessage
    <3> QED
      BY <1>1, <3>3, <3>7, <3>8
  <2> QED
    BY <2>1, <2>2, <2>3
<1>10. ~InService(c) => ~InService(c)'
  BY <1>1 DEF InService
<1>11. notices'[r].todo \in {todo, Tail(todo)}
  <2>1. CASE NoticeSend(r)
    <3>1. \/ notices' = [notices EXCEPT ![r].todo = Tail(@)]
          \/ notices' = [notices EXCEPT ![r].closing = TRUE]
      BY <2>1 DEF NoticeSend
    <3> QED
      BY <1>2, <3>1 DEF Hub, HubTypeOK, NoticeRow
  <2>2. CASE NoticeClose(r)
    <3>1. notices' = [notices EXCEPT ![r] =
                        [[notices[r] EXCEPT !.todo = Tail(@)] EXCEPT !.closing = FALSE]]
      BY <2>2 DEF NoticeClose
    <3> QED
      BY <1>2, <3>1 DEF Hub, HubTypeOK, NoticeRow
  <2> QED
    BY <2>1, <2>2
<1> QED
  BY <1>6, <1>7, <1>9, <1>10, <1>11

LEMMA NoticesStep ==
    ASSUME Hub, PendingKnown, NoticesKnown, [Next]_vars PROVE NoticesKnown'
<1> SUFFICES ASSUME NEW r \in Req, NEW c \in Conn, c \in notices'[r].watched
             PROVE  NoticeOn(r, c)'
  BY DEF NoticesKnown
<1>1. CASE notices'[r] = notices[r]
  <2>1. NoticeOn(r, c)
    BY <1>1 DEF NoticesKnown
  <2>2. owner'[c] = owner[c]
    BY <2>1, EndingStays DEF NoticeOn
  <2>3. Todo(r, owner[c]) => Todo(r, owner[c])'
    BY <1>1, <2>2 DEF Todo
  <2> QED
    BY <2>1, <2>3, NoticeStays
<1>2. CASE NoticeSend(r) \/ NoticeClose(r)
  <2>1. notices'[r].watched = notices[r].watched
    <3>1. CASE NoticeSend(r)
      <4>1. \/ notices' = [notices EXCEPT ![r].todo = Tail(@)]
            \/ notices' = [notices EXCEPT ![r].closing = TRUE]
        BY <3>1 DEF NoticeSend
      <4> QED
        BY <4>1 DEF Hub, HubTypeOK, NoticeRow
    <3>2. CASE NoticeClose(r)
      <4>1. notices' = [notices EXCEPT ![r] =
                          [[notices[r] EXCEPT !.todo = Tail(@)] EXCEPT !.closing = FALSE]]
        BY <3>2 DEF NoticeClose
      <4> QED
        BY <4>1 DEF Hub, HubTypeOK, NoticeRow
    <3> QED
      BY <1>2, <3>1, <3>2
  <2>2. NoticeOn(r, c)
    BY <2>1 DEF NoticesKnown
  <2>3. phase[c] # "new"
    BY <2>2 DEF NoticeOn
  <2> QED
    BY <1>2, <2>2, <2>3, NoticeStays, NoticeTurn
<1>3. ASSUME NEW a \in Device, NEW b \in Device, StartNotice(r, a, b)
      PROVE  NoticeOn(r, c)'
  <2>1. /\ notices'[r].todo = <<a, b>>
        /\ InService(c) /\ owner[c] \in {a, b}
        /\ UNCHANGED <<phase, owner>>
    BY <1>3 DEF StartNotice, socketVars, Hub, HubTypeOK
  <2>2. PICK i \in {1, 2} : <<a, b>>[i] = owner[c]
    BY <2>1
  <2>3. Todo(r, owner[c])'
    BY <2>1, <2>2 DEF Todo
  <2> QED
    BY <2>1, <2>3 DEF NoticeOn, InService
<1>4. \/ notices'[r] = notices[r]
      \/ NoticeSend(r) \/ NoticeClose(r)
      \/ \E a, b \in Device : StartNotice(r, a, b)
  <2>1. CASE UNCHANGED notices
    BY <2>1
  <2>2. ASSUME NEW q \in Req, NoticeStep(q), q # r
        PROVE  notices'[r] = notices[r]
    BY <2>2 DEF NoticeStep, StartNotice, NoticeSend, NoticeClose, Hub, HubTypeOK
  <2>3. NoticeStep(r) => \/ NoticeSend(r) \/ NoticeClose(r)
                         \/ \E a, b \in Device : StartNotice(r, a, b)
    BY DEF NoticeStep
  <2>4. ASSUME NEW e \in Conn, ReaderStep(e) \/ WriterStep(e) \/ ClientStep(e)
        PROVE  UNCHANGED notices
    BY <2>4 DEF ReaderStep, WriterStep, ClientStep, Greet, GreetFails, ReaderLeaves, Stop,
                CleanUp, Forward, ForwardFails, Take, Write, WriteFails, WriterStops,
                Register, Admit, Refuse, Drop
  <2>5. ASSUME NEW x \in Attempt, AttemptStep(x) PROVE UNCHANGED notices
    BY <2>5 DEF AttemptStep, BeginAttempt, TellTarget, TellFails, Lapse
  <2>6. UNCHANGED vars => UNCHANGED notices
    BY DEF vars
  <2> QED
    BY <2>1, <2>2, <2>3, <2>4, <2>5, <2>6 DEF Next
<1> QED
  BY <1>1, <1>2, <1>3, <1>4

\* Once a revocation's handler is through, every socket its machines had when it
\* began is told, closed or ending, whatever their queues were and however they
\* reconnected (notifyPair).
THEOREM RevokedAreToldOrClosed == Spec => []RevokedIsToldOrClosed
<1>1. Init => NoticesKnown
  BY DEF Init, NoticesKnown
<1>2. Hub /\ OrderInv /\ NoticesKnown /\ [Next]_vars => NoticesKnown'
  BY NoticesStep DEF OrderInv
<1>3. NoticesKnown /\ HubTypeOK => RevokedIsToldOrClosed
  <2> SUFFICES ASSUME NoticesKnown, HubTypeOK, NEW r \in Req, notices[r].started,
                      notices[r].todo = <<>>, NEW c \in notices[r].watched
               PROVE  \/ RevokedMessage(r) \in ToSet(Stream(c))
                      \/ c \in closed \cup cancelled
                      \/ ~InService(c)
    BY DEF RevokedIsToldOrClosed
  <2>1. c \in Conn
    BY DEF HubTypeOK, NoticeRow
  <2>2. NoticeOn(r, c)
    BY <2>1 DEF NoticesKnown
  <2>3. ~Todo(r, owner[c])
    BY DEF Todo
  <2>4. Has(c, RevokedMessage(r)) => RevokedMessage(r) \in ToSet(Stream(c))
    BY DEF Has, ToSet
  <2> QED
    BY <2>2, <2>3, <2>4 DEF NoticeOn
<1> QED
  BY <1>1, <1>2, <1>3, HubKnown, OrderInvariant, HubInvariant, PTL DEF Spec

=============================================================================
