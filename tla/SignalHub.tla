----------------------------- MODULE SignalHub -----------------------------
(***************************************************************************)
(* The signal hub: one socket per machine, its output queue, and the       *)
(* signals of connection attempts (src/internal/coordinator/signaling.go,  *)
(* Admit of sessions.go, and the notifying handlers of server.go).         *)
(*                                                                         *)
(* A socket is served by two goroutines.  The reader registers the socket, *)
(* admits signals and queues them for their target; the writer takes       *)
(* messages from the queue and writes them.  hub.mu is held for one lookup *)
(* and one non-blocking send, or one deletion, so each is one step.        *)
(* An attempt begins, and lapses when it is ended, expires or loses its    *)
(* authorization; what decides that is in module Sessions.                 *)
(***************************************************************************)
EXTENDS Naturals, FiniteSets, SequencesExt

CONSTANTS
    Device, Attempt,
    Conn,           \* sockets that can be accepted
    Req,            \* handlers of a pair revocation
    None,
    QueueLimit,     \* messages a socket's queue holds (32)
    AttemptLimit    \* signals of one attempt (512)

ASSUME HubAssumption ==
    /\ None \notin Device \cup Conn
    /\ QueueLimit \in Nat \ {0}
    /\ AttemptLimit \in Nat

VARIABLES
    peers,      \* hub.peers: machine -> its socket, or None
    owner,      \* socket -> its machine
    phase,      \* where the reader of a socket is
    pending,    \* the signal a reader has admitted and not queued yet
    closed,     \* sockets closed, by either side
    cancelled,  \* sockets whose context is cancelled
    writing,    \* sockets whose writer runs
    queue,      \* socket -> messages queued for it
    hand,       \* socket -> the message its writer took, if any
    wrote,      \* socket -> messages written to it
    attempts,   \* attempt -> its ends and what each has sent
    notices     \* Req -> a revocation's handler, telling the pair's two ends

socketVars == <<owner, phase, pending, closed, cancelled, writing, hand, wrote>>
vars == <<peers, queue, attempts, notices, socketVars>>

Phases == {"new", "starting", "reading", "admitted", "leaving", "stopped",
           "gone"}
Types == {"offer", "answer", "candidate"}

Ready == [kind |-> "ready"]
AttemptMessage(x) == [kind |-> "attempt", attempt |-> x]
RevokedMessage(r) == [kind |-> "revoked", by |-> r]
Signal == [kind : {"signal"}, attempt : Attempt, from : Device, to : Device,
           via : Conn, sequence : 1..AttemptLimit]
Message == {Ready} \cup {AttemptMessage(x) : x \in Attempt}
           \cup {RevokedMessage(r) : r \in Req} \cup Signal

ASSUME HandAssumption == None \notin Message

NoAttempt == [state |-> "none"]
AttemptRow ==
    [state : {"begun", "live", "over"}, from : Device, to : Device,
     sequence : [Device -> 0..AttemptLimit], described : SUBSET Device]
NoticeRow ==
    [todo : Seq(Device), closing : BOOLEAN, watched : SUBSET Conn, started : BOOLEAN]

HubTypeOK ==
    /\ peers \in [Device -> Conn \cup {None}]
    /\ owner \in [Conn -> Device \cup {None}]
    /\ phase \in [Conn -> Phases]
    /\ pending \in [Conn -> Signal \cup {None}]
    /\ closed \subseteq Conn
    /\ cancelled \subseteq Conn
    /\ writing \subseteq Conn
    /\ queue \in [Conn -> Seq(Message)]
    /\ \A c \in Conn : Len(queue[c]) <= QueueLimit
    /\ hand \in [Conn -> Message \cup {None}]
    /\ wrote \in [Conn -> Seq(Message)]
    /\ attempts \in [Attempt -> {NoAttempt} \cup AttemptRow]
    /\ notices \in [Req -> NoticeRow]

Init ==
    /\ peers = [d \in Device |-> None]
    /\ owner = [c \in Conn |-> None]
    /\ phase = [c \in Conn |-> "new"]
    /\ pending = [c \in Conn |-> None]
    /\ closed = {}
    /\ cancelled = {}
    /\ writing = {}
    /\ queue = [c \in Conn |-> <<>>]
    /\ hand = [c \in Conn |-> None]
    /\ wrote = [c \in Conn |-> <<>>]
    /\ attempts = [x \in Attempt |-> NoAttempt]
    /\ notices = [r \in Req |-> [todo |-> <<>>, closing |-> FALSE,
                                 watched |-> {}, started |-> FALSE]]

-----------------------------------------------------------------------------
(* hub.send.                                                               *)

\* Mutant: the bound of the queue off by one.
HasRoomForOne(c) == Len(queue[c]) <= QueueLimit

HasRoom(c) == Len(queue[c]) < QueueLimit

CanSend(d) == peers[d] # None /\ HasRoom(peers[d])

Send(d, message) == queue' = [queue EXCEPT ![peers[d]] = Append(@, message)]

-----------------------------------------------------------------------------
(* serveSignals: a socket from its registration to its clean-up.           *)

\* Mutant: a second socket takes over.
AlwaysFree(d) == d \in Device

Free(d) == peers[d] = None

Register(c, d) ==
    /\ phase[c] = "new"
    /\ Free(d)
    /\ peers' = [peers EXCEPT ![d] = c]
    /\ owner' = [owner EXCEPT ![c] = d]
    /\ phase' = [phase EXCEPT ![c] = "starting"]
    /\ UNCHANGED <<pending, closed, cancelled, writing, queue, hand, wrote,
                   attempts, notices>>

\* The heartbeat succeeds and "ready" is queued, behind what other handlers
\* have queued since the socket was registered.
Greet(c) ==
    /\ phase[c] = "starting"
    /\ CanSend(owner[c])
    /\ Send(owner[c], Ready)
    /\ phase' = [phase EXCEPT ![c] = "reading"]
    /\ writing' = writing \cup {c}
    /\ UNCHANGED <<peers, owner, pending, closed, cancelled, hand, wrote,
                   attempts, notices>>

\* The machine is not authorized any more, or the queue is full.
GreetFails(c) ==
    /\ phase[c] = "starting"
    /\ phase' = [phase EXCEPT ![c] = "leaving"]
    /\ UNCHANGED <<peers, owner, pending, closed, cancelled, writing, queue, hand,
                   wrote, attempts, notices>>

\* The reader finds its socket closed or its context cancelled.
ReaderLeaves(c) ==
    /\ phase[c] = "reading"
    /\ c \in closed \cup cancelled
    /\ phase' = [phase EXCEPT ![c] = "leaving"]
    /\ UNCHANGED <<peers, owner, pending, closed, cancelled, writing, queue, hand,
                   wrote, attempts, notices>>

\* The deferred functions: first the context is cancelled and the socket closed.
Stop(c) ==
    /\ phase[c] = "leaving"
    /\ phase' = [phase EXCEPT ![c] = "stopped"]
    /\ closed' = closed \cup {c}
    /\ cancelled' = cancelled \cup {c}
    /\ UNCHANGED <<peers, owner, pending, writing, queue, hand, wrote, attempts,
                   notices>>

\* Mutant: the machine's entry is left behind.
CleanUpKeepsPeer(c) ==
    /\ phase[c] = "stopped"
    /\ phase' = [phase EXCEPT ![c] = "gone"]
    /\ UNCHANGED <<peers, owner, pending, closed, cancelled, writing, queue, hand,
                   wrote, attempts, notices>>

\* Then the machine's entry is deleted, whichever socket it names.
CleanUp(c) ==
    /\ phase[c] = "stopped"
    /\ phase' = [phase EXCEPT ![c] = "gone"]
    /\ peers' = [peers EXCEPT ![owner[c]] = None]
    /\ UNCHANGED <<owner, pending, closed, cancelled, writing, queue, hand, wrote,
                   attempts, notices>>

\* The machine or the network closes the socket.
Drop(c) ==
    /\ phase[c] \in {"starting", "reading", "admitted"}
    /\ c \notin closed
    /\ closed' = closed \cup {c}
    /\ UNCHANGED <<peers, owner, phase, pending, cancelled, writing, queue, hand,
                   wrote, attempts, notices>>

-----------------------------------------------------------------------------
(* The writer.  Its select may take a message after the context ended.     *)

Take(c) ==
    /\ c \in writing
    /\ hand[c] = None
    /\ queue[c] # <<>>
    /\ hand' = [hand EXCEPT ![c] = Head(queue[c])]
    /\ queue' = [queue EXCEPT ![c] = Tail(@)]
    /\ UNCHANGED <<peers, owner, phase, pending, closed, cancelled, writing, wrote,
                   attempts, notices>>

Write(c) ==
    /\ hand[c] # None
    /\ c \notin closed \cup cancelled
    /\ wrote' = [wrote EXCEPT ![c] = Append(@, hand[c])]
    /\ hand' = [hand EXCEPT ![c] = None]
    /\ UNCHANGED <<peers, owner, phase, pending, closed, cancelled, writing, queue,
                   attempts, notices>>

\* Mutant: the writer returns and the reader is not told.
WriteFailsAlone(c) ==
    /\ hand[c] # None
    /\ hand' = [hand EXCEPT ![c] = None]
    /\ writing' = writing \ {c}
    /\ UNCHANGED <<peers, owner, phase, pending, closed, cancelled, queue, wrote,
                   attempts, notices>>

\* The write fails or takes longer than five seconds; the message is lost.
WriteFails(c) ==
    /\ hand[c] # None
    /\ hand' = [hand EXCEPT ![c] = None]
    /\ writing' = writing \ {c}
    /\ cancelled' = cancelled \cup {c}
    /\ UNCHANGED <<peers, owner, phase, pending, closed, queue, wrote, attempts,
                   notices>>

WriterStops(c) ==
    /\ c \in writing
    /\ hand[c] = None
    /\ c \in cancelled
    /\ writing' = writing \ {c}
    /\ UNCHANGED <<peers, owner, phase, pending, closed, cancelled, queue, hand,
                   wrote, attempts, notices>>

-----------------------------------------------------------------------------
(* Attempts: the handler of /v1/attempt, and the end of an attempt.        *)

Live(x) == attempts[x].state \in {"begun", "live"}
EndsOf(x) == {attempts[x].from, attempts[x].to}

\* Begin: one live attempt per link.
BeginAttempt(x, from, to) ==
    /\ attempts[x] = NoAttempt
    /\ from # to
    /\ \A y \in Attempt : Live(y) => EndsOf(y) # {from, to} /\ attempts[y].to # to
    /\ attempts' = [attempts EXCEPT ![x] =
           [state |-> "begun", from |-> from, to |-> to,
            sequence |-> [d \in Device |-> 0], described |-> {}]]
    /\ UNCHANGED <<peers, queue, notices, socketVars>>

TellTarget(x) ==
    /\ attempts[x].state = "begun"
    /\ CanSend(attempts[x].to)
    /\ Send(attempts[x].to, AttemptMessage(x))
    /\ attempts' = [attempts EXCEPT ![x].state = "live"]
    /\ UNCHANGED <<peers, notices, socketVars>>

TellFails(x) ==
    /\ attempts[x].state = "begun"
    /\ ~CanSend(attempts[x].to)
    /\ attempts' = [attempts EXCEPT ![x].state = "over"]
    /\ UNCHANGED <<peers, queue, notices, socketVars>>

\* Ended by an end, expired and swept, or no longer authorized.
Lapse(x) ==
    /\ attempts[x].state = "live"
    /\ attempts' = [attempts EXCEPT ![x].state = "over"]
    /\ UNCHANGED <<peers, queue, notices, socketVars>>

-----------------------------------------------------------------------------
(* readSignals: Admit under sessions.mu, then hub.send.                    *)

Count(x) == attempts[x].sequence[attempts[x].from] + attempts[x].sequence[attempts[x].to]

\* admitSDP: each end describes itself once, the offer first, and its
\* candidates belong to its description.
AdmitSDP(x, d, type) ==
    LET row == attempts[x] IN
    \/ type = "offer" /\ d = row.from /\ d \notin row.described
    \/ type = "answer" /\ d = row.to /\ d \notin row.described
       /\ row.from \in row.described
    \/ type = "candidate" /\ d \in row.described

\* An attempt's id is random: its sender learns it from the answer of
\* /v1/attempt, its target from its socket.
Knows(d, x) ==
    \/ d = attempts[x].from
    \/ \E c \in Conn : owner[c] = d /\ AttemptMessage(x) \in ToSet(wrote[c])

OtherEnd(x, d) == CHOOSE e \in EndsOf(x) : e # d

\* The only sequence number a signal may have.
NextSequence(x, d) == attempts[x].sequence[d] + 1

\* The signal names the attempt's other end, and the next sequence number.  It
\* may have been read before the socket was closed.
Admit(c, x, type) ==
    LET d == owner[c] IN
    /\ phase[c] = "reading"
    /\ attempts[x].state = "live"
    /\ d \in EndsOf(x)
    /\ Knows(d, x)
    /\ Count(x) < AttemptLimit
    /\ AdmitSDP(x, d, type)
    /\ attempts' = [attempts EXCEPT ![x].sequence[d] = NextSequence(x, d),
                                    ![x].described = @ \cup {d}]
    /\ pending' = [pending EXCEPT ![c] =
           [kind |-> "signal", attempt |-> x, from |-> d, to |-> OtherEnd(x, d),
            via |-> c, sequence |-> NextSequence(x, d)]]
    /\ phase' = [phase EXCEPT ![c] = "admitted"]
    /\ UNCHANGED <<peers, owner, closed, cancelled, writing, queue, hand, wrote,
                   notices>>

\* The message is not a signal Admit takes: the socket is closed.
Refuse(c) ==
    /\ phase[c] = "reading"
    /\ closed' = closed \cup {c}
    /\ phase' = [phase EXCEPT ![c] = "leaving"]
    /\ UNCHANGED <<peers, owner, pending, cancelled, writing, queue, hand, wrote,
                   attempts, notices>>

Forward(c) ==
    /\ phase[c] = "admitted"
    /\ CanSend(pending[c].to)
    /\ Send(pending[c].to, pending[c])
    /\ phase' = [phase EXCEPT ![c] = "reading"]
    /\ pending' = [pending EXCEPT ![c] = None]
    /\ UNCHANGED <<peers, owner, closed, cancelled, writing, hand, wrote, attempts,
                   notices>>

\* Mutant: the sender goes on after a signal was lost.
ForwardForgets(c) ==
    /\ phase[c] = "admitted"
    /\ ~CanSend(pending[c].to)
    /\ phase' = [phase EXCEPT ![c] = "reading"]
    /\ pending' = [pending EXCEPT ![c] = None]
    /\ UNCHANGED <<peers, owner, closed, cancelled, writing, queue, hand, wrote,
                   attempts, notices>>

\* The target is away or its queue is full: the signal is lost, its number is
\* spent, and the sender's socket is closed.
ForwardFails(c) ==
    /\ phase[c] = "admitted"
    /\ ~CanSend(pending[c].to)
    /\ closed' = closed \cup {c}
    /\ phase' = [phase EXCEPT ![c] = "leaving"]
    /\ pending' = [pending EXCEPT ![c] = None]
    /\ UNCHANGED <<peers, owner, cancelled, writing, queue, hand, wrote, attempts,
                   notices>>

-----------------------------------------------------------------------------
(* notifyPair: tell both ends of a revoked pair, in order; close the socket *)
(* of an end that could not be told.                                       *)

InService(c) == phase[c] \in {"starting", "reading", "admitted"}

StartNotice(r, a, b) ==
    /\ ~notices[r].started
    /\ a # b
    /\ notices' = [notices EXCEPT ![r] =
           [todo |-> <<a, b>>, closing |-> FALSE, started |-> TRUE,
            watched |-> {c \in Conn : InService(c) /\ owner[c] \in {a, b}}]]
    /\ UNCHANGED <<peers, queue, attempts, socketVars>>

NoticeSend(r) ==
    LET row == notices[r] IN
    /\ row.todo # <<>> /\ ~row.closing
    /\ IF CanSend(Head(row.todo))
       THEN /\ Send(Head(row.todo), RevokedMessage(r))
            /\ notices' = [notices EXCEPT ![r].todo = Tail(@)]
       ELSE /\ notices' = [notices EXCEPT ![r].closing = TRUE]
            /\ UNCHANGED queue
    /\ UNCHANGED <<peers, attempts, socketVars>>

\* Mutant: an end that could not be told is skipped.
NoticeSkip(r) ==
    LET row == notices[r] IN
    /\ row.closing
    /\ notices' = [notices EXCEPT ![r].todo = Tail(@), ![r].closing = FALSE]
    /\ UNCHANGED <<peers, queue, attempts, socketVars>>

\* The end is looked up again: its socket may be another one by now.
NoticeClose(r) ==
    LET row == notices[r] IN
    /\ row.closing
    /\ closed' = closed \cup ({peers[Head(row.todo)]} \ {None})
    /\ notices' = [notices EXCEPT ![r].todo = Tail(@), ![r].closing = FALSE]
    /\ UNCHANGED <<peers, owner, phase, pending, cancelled, writing, queue, hand,
                   wrote, attempts>>

-----------------------------------------------------------------------------
ReaderStep(c) ==
    Greet(c) \/ GreetFails(c) \/ ReaderLeaves(c) \/ Stop(c) \/ CleanUp(c)
    \/ Forward(c) \/ ForwardFails(c)
WriterStep(c) == Take(c) \/ Write(c) \/ WriteFails(c) \/ WriterStops(c)
ClientStep(c) ==
    \/ \E d \in Device : Register(c, d)
    \/ \E x \in Attempt, type \in Types : Admit(c, x, type)
    \/ Refuse(c) \/ Drop(c)

AttemptStep(x) ==
    \/ \E from, to \in Device : BeginAttempt(x, from, to)
    \/ TellTarget(x) \/ TellFails(x) \/ Lapse(x)
NoticeStep(r) ==
    \/ \E a, b \in Device : StartNotice(r, a, b)
    \/ NoticeSend(r) \/ NoticeClose(r)

Next ==
    \/ \E c \in Conn : ReaderStep(c) \/ WriterStep(c) \/ ClientStep(c)
    \/ \E x \in Attempt : AttemptStep(x)
    \/ \E r \in Req : NoticeStep(r)

Spec == Init /\ [][Next]_vars

\* The two goroutines of a socket are scheduled: neither waits for the other,
\* and no send blocks.  Clients and handlers may stop at any point.
Fairness == \A c \in Conn : WF_vars(ReaderStep(c)) /\ WF_vars(WriterStep(c))
FairSpec == Spec /\ Fairness

-----------------------------------------------------------------------------
(* Correctness.                                                            *)

\* What a socket has been written and may still be, in order: nothing more once
\* its context is cancelled.
Stream(c) ==
    IF c \in cancelled THEN wrote[c]
    ELSE wrote[c] \o (IF hand[c] = None THEN <<>> ELSE <<hand[c]>>) \o queue[c]

\* A machine has at most one socket being served, and it is the one the hub
\* knows, so a clean-up forgets its own socket and never its successor's
\* (serveSignals; docs/protocol.md:62).
OneSocketPerDevice ==
    \A c \in Conn : phase[c] \notin {"new", "gone"} => peers[owner[c]] = c

\* The signals one machine sends in an attempt reach every socket of the other
\* in order and without repetition, across reconnections of either (Admit,
\* readSignals, send).
SignalsInOrder ==
    \A c \in Conn : LET s == Stream(c) IN
        \A i, j \in DOMAIN s :
            /\ i < j /\ s[i].kind = "signal" /\ s[j].kind = "signal"
            /\ s[i].attempt = s[j].attempt /\ s[i].from = s[j].from
            => s[i].sequence < s[j].sequence

\* Between two sockets nothing is lost in the middle: what one sends on reaches
\* the other as consecutive numbers, for a lost signal ends the sender's socket.
NoGapBetweenSockets ==
    \A c, via \in Conn : LET s == Stream(c) IN
        \A i, j \in DOMAIN s :
            /\ i < j /\ s[i].kind = "signal" /\ s[j].kind = "signal"
            /\ s[i].attempt = s[j].attempt /\ s[i].via = via /\ s[j].via = via
            => \A n \in s[i].sequence..s[j].sequence :
                 \E k \in i..j : /\ s[k].kind = "signal" /\ s[k].via = via
                                 /\ s[k].attempt = s[i].attempt /\ s[k].sequence = n

\* Once a revocation's handler is through, every socket its machines had when it
\* began has the message on its way, or is closed or ending, whatever its queue
\* was and however the machine reconnected meanwhile (notifyPair).
RevokedIsToldOrClosed ==
    \A r \in Req : notices[r].started /\ notices[r].todo = <<>> =>
        \A c \in notices[r].watched :
            \/ RevokedMessage(r) \in ToSet(Stream(c))
            \/ c \in closed \cup cancelled
            \/ ~InService(c)

\* A queued message does not stay: it is taken to be written, or the socket goes
\* (the writer cancels the reader when it stops).
QueueMoves == \A c \in Conn : queue[c] # <<>> ~> queue[c] = <<>> \/ phase[c] = "gone"

\* A closed socket is cleaned up, so its machine can connect again.
ClosedIsFreed == \A c \in Conn : c \in closed ~> (\A d \in Device : peers[d] # c)
=============================================================================
