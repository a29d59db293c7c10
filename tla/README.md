# TLA+ models of dshker-server

dshker-server is a coordinator for a mesh of machines. Operators create accounts
and networks; machines enroll into networks with a token or by network id; two
machines of a network are paired, by invitation or by adoption, and dial each
other through short leases and signalling messages. One process serves HTTPS and
UDP, and keeps everything durable in one SQLite database.

This directory holds TLA+ models of its state and its concurrent handlers, the TLC
configurations that check them, and theorems checked by TLAPS. Paths below are
relative to the repository; `coordinator/` stands for `src/internal/coordinator/`.

## 1. Inventory

| Component | State | Operations | Hard because |
| --- | --- | --- | --- |
| Database (`store.go`, `networks.go`, `enrollment.go`, `users.go`, `certificates.go`) | tables users, user_sessions, networks, devices, device_users, bindings, tokens, shares, pairs, renewals, audit | accounts, networks, tokens, enroll, join, bind, unbind, revoke, delete | several operations close what others open; checks and writes in separate statements |
| Pairing (`pairing.go`) | shares, pairs | Share, Invite, AdoptNetwork, ActOnPair | handlers read, then write in a later transaction, with a time read at the start |
| Sessions (`sessions.go`) | presence and attempts in memory, `sessions.mu` | Heartbeat, Offline, Begin, Renew, End, Admit | database reads under a lock that does not cover the database; leases expire |
| Signal hub (`signaling.go`) | one socket and queue of 32 per machine, `hub.mu` | serveSignals, readSignals, send, notifyPair, close | bounded queue, lost signals, sockets replaced, lock order |
| Login (`users.go`, `user_api.go`) | user_sessions, semaphore of 4 | Login, AuthenticateUser, Logout | account disabled while a password is compared |
| Certificates (`certificates.go`) | renewals | Renew, RecoverCertificate, ReadEnrollment | retries after lost answers |
| Limiter and STUN (`stun.go`) | per-source and global counters | allow, ServeSTUN | windows, a bounded table, times read before the lock |
| Server (`server.go`, `user_api.go`) | two listeners | routes, admission, deviceOperation, Run | a failed listener takes the other along; hijacked sockets at shutdown; three locks |
| Initialization (`store.go`, `certificates.go`) | key file, database file | Initialize, OpenStore, Recover | crashes between two files; commands that share a path |
| TURN (`turn.go`), configuration (`config.go`), protocol codecs (`internal/protocol`), command line, tools | - | - | pure functions, I/O, third-party code |

How they interact: an HTTP handler runs in its own goroutine and calls Store and
Sessions directly. Store has a pool of one connection, so a transaction, or a
statement outside one, runs alone. Sessions calls Store with `sessions.mu` held.
`deviceOperation` calls Sessions, then the hub; the hub's clean-up calls Sessions with
`hub.mu` held.

What makes each correct:

* Database: a binding always names a live network and a machine linked to its
  owner; capacity and quota; nothing usable left in a deleted network or a disabled
  account; a machine keeps its first account.
* Pairing: an open pair joins two machines that may both act in its network; one
  share, one pair; one open pair per link.
* Sessions: one attempt per link; a lease ends soon after its ends lose their
  authorization; presence ends with authorization; a handler ends only its own attempt.
* Signal hub: signals of an attempt arrive in order, each once; a revoked pair's ends
  are told or disconnected; no deadlock with Sessions and the pool.
* Login: no session for a disabled account; every slot is given back.
* Certificates: a repeated request gets the same certificate; a token admits once; a
  certificate is replaced only when one was due or had expired; a revoked machine gets
  nothing new.
* Limiter: the rates and the table are bounded whatever the order of the readings, and a
  refusal is the fault of calls that were admitted, never of refused ones.
* Initialization: a database that is filled has its key; no file is overwritten.
* Server: no handlers wait in a circle; a failed listener or a signal ends the process; an
  orderly shutdown leaves no request and no socket that carries signals.

## 2. Modules

| Module | What it is |
| --- | --- |
| `Store` | the database: one action per transaction, two for CreateNetwork |
| `Login` | EXTENDS Store with Login's steps, its slots, and Logout |
| `Certificates` | EXTENDS Store with the certificates, Renew and RecoverCertificate |
| `Pairing` | EXTENDS Store with the handlers of `pairing.go`, step by step, and restarts |
| `PairLifecycle` | abstract specification: what pairing promises about members and pairs |
| `Sessions` | EXTENDS Store with presence, attempts and leases under `sessions.mu` |
| `SignalHub` | sockets, their queues and goroutines, Admit, notifications |
| `Limiter` | `limiter.allow` with late callers |
| `StateFiles` | the key and the database on disk under init commands and power loss |
| `Service` | EXTENDS StateFiles with serve: Run, its listeners, and the handlers' locks |
| `...Proofs` | theorems and proofs: `Store`, `Pairing`, `Session`, `SignalHub`, `Limiter`, `StateFiles`, `Service`; `CredentialProofs` is about `Login` and `Certificates` |
| `MC...` | symmetry and warm starts for TLC |

**Store.** A table is a function from the identifiers that can be minted to rows, with
a distinguished row (`NoToken`, `NoShare`, `NoPair`, owner `None`) for what has not
been minted: the code never deletes rows of these tables. `bindings` holds the active
rows only. The id of a machine is derived from its key, so `Device` stands for
both. `creating[c]` is a CreateNetwork between its two statements. `now` in an action is
the time its handler read before it got the connection: any time up to `clock`. Refused
operations change nothing (the transaction is rolled back) and are not steps. A statement
that fails for another reason, such as a full disk, rolls back likewise. The certificate a
machine is given when it enrolls is left to `Certificates`.

**Login.** `visits[v]` is a call of Login: TakeSlot takes one of the four slots without
waiting, ReadAccount is the SELECT, InsertSession the conditional INSERT, and RefuseLogin
every other way out. Each return runs `EndLogin`, the deferred receive. The password is
compared between ReadAccount and what follows: an unknown account or a wrong password goes
to RefuseLogin.

**Certificates.** `issued` are the certificates that exist, `certificate` the column of
`devices`, `renewals` the table.

| Code | Steps |
| --- | --- |
| Enroll, JoinNetwork | EnrollMachine, JoinMachine: one transaction each |
| Renew | StartRenew (Authenticate), LookUpRenewal, then ReplaceCertificate, ReplaceFindsSaved or ReplaceRefused |
| RecoverCertificate | StartRecovery, then ReplaceCertificate or ReplaceRefused |

A caller may repeat a request at any time, also while a copy of it runs, as after a lost
answer. `answers` and `admitted` are history: what was sent, and how often a token let a
machine in. Enrolling and joining answer too, with the stored certificate and no request
(`AnswerStored`): that of a known machine, expired or not. So a revoked machine still gets what it
had, by repeating a renewal or by enrolling again (`coordinator/certificates.go:60-64`,
`coordinator/enrollment.go:194-201`), and nothing new (`RevokedGetsNothingNew`). A recovery whose
answer is lost cannot be repeated: the stored certificate is valid then and the request is on
record (`coordinator/certificates.go:84,129`). Its certificate is the stored one, which ReadEnrollment,
not modelled because it changes nothing, and enrolling or joining again return.

**Pairing.** `requests[r]` is what handler `r` remembers between its steps:

| Code | Steps |
| --- | --- |
| Share | ReadShareDevice, InsertShare |
| Invite | VerifyShare, then InsertInvite or RefuseInvite |
| AdoptNetwork, adopt | ReadPeers, then AdoptPeer or SkipPeer for each peer, in any order |
| ActOnPair | ReadPair, AuthorizePair, UpdatePair |

Consecutive reads of `Store.Device` are one step at the time of the last one: that
authorization (`DeviceAuthorized`) is never regained once lost, so an earlier read
succeeded if the last one does. Checks on what was read are guards of the step that
reads. `Restart` loses the handlers and keeps the database.

**PairLifecycle.** Its state is the set of members, the pairs <<network, machine>> that
may act, and a table of pairs. Members join (MembersGain), leave together with every
open pair they are an end of (MembersLeave), pairs are created between members, and move along
invited, approved, active or to an end. `Pairing` implements it with
`members <- {<<n, d>> : BindingAuthorized(n, d)}`.

**Sessions.** `mu` is the lock; Begin and Renew hold it across their database
reads, which are separate steps, so the database changes under them. An attempt is
filed under its target, as in the code. `calls[r]` is a handler in flight, including the
part of `/v1/attempt` after Begin: telling the target, and ending the attempt when
that fails. Two history variables record when a machine lost its authorization
(`lostAt`) and its last binding (`unboundAt`).

**SignalHub.** A socket `c` is served by a reader, whose place is `phase[c]`, and a
writer, which runs while `c \in writing` and holds `hand[c]` between taking a message
and writing it. `hub.mu` is held for a lookup with one non-blocking send, for the
registration, or for the deletion, so each is a step.

| Code | Steps |
| --- | --- |
| serveSignals | Register, then Greet or GreetFails, ..., Stop, CleanUp |
| readSignals | Admit, then Forward or ForwardFails; Refuse; ReaderLeaves |
| the writer goroutine | Take, then Write or WriteFails; WriterStops |
| `/v1/attempt` | BeginAttempt, then TellTarget or TellFails |
| `/v1/pair-action`, notifyPair | StartNotice, then NoticeSend, and NoticeClose, for each end |

`Drop` is the machine or the network closing a socket. A signal is its attempt, ends and
number: Verify accepts only the next number and the attempt's other end, so a reader
offers nothing else, and what it would reject is `Refuse`. An attempt lapses at any time; what
decides that is in Sessions. Not here: the presence a clean-up ends (`Sessions!Offline`), and
hub.close, which does to every socket what Drop does and when is in `Service`.

**Limiter.** A caller reads the time, waits for the lock up to `MaxDelay` (Arrive), and is
then served with its old reading: Allow, RefuseSource or RefuseGlobal, each the whole of
`allow`. Times are kept as ages. A tick makes windows and readings one tick older; an age
past `Forever`, where no comparison of the code can tell it from a greater one, stays. So the
clock runs without a bound. `admitted[s][n]`, of a source, and `total[n]`, of all, are history:
the calls admitted in the last `n` ticks.

**StateFiles.** `disk` gives for each path the command that made the file, what it holds and
whether that is synced; `inits[p]` is an init command and its place in `InitSteps`, which
are Initialize's calls in their order. A command can stop at any step, by a kill or an
error, and removes nothing; LosePower forgets any part of what was not synced. Every
configuration of two different paths may be named by every command, so two commands may share
the database, the key, or use one's database as the other's key.

**Service.** `server` follows Run from OpenStore (Start) through the two listeners, the
select, Shutdown and its deferred calls to the exit; `https` and `udp` are the listeners. A
handler is a program, the sequence of locks it takes (`HeartbeatSteps`, `AttemptSteps`,
`ConnectSteps`, then `AdmitSteps` per signal, and the deferred `CleanUpSteps`). A lock that is
taken and given back with none taken in between is a `Visit`; the others are `Lock` and
`Unlock`. After any step a handler may return (Return), giving back what it holds. `Hijack` is
the moment net/http stops counting a connection, `Register` the entry in the hub's map that
hub.close will find. A handler that returns between the two, because the client does not speak the
sub-protocol, gives the hub back first and then closes the socket, which takes seconds
(`coordinator/signaling.go:85-89`): its socket is "refused" until EndRefusal, and neither Shutdown nor
hub.close knows of it. The state files are the ones below it: serve starts only on files that
OpenStore takes, and init commands go on running beside it.

Some operators are followed in comments by the word *mutant*: they are deliberate
bugs. Each passing property is violated when the mutant takes the place of the
definition after it (`PROJECT.json`, "mutants"). No action uses a mutant.

## 3. Runs

Each run takes from seconds to two and a half minutes with two workers. The `.cfg` has the
name of the run's module unless given.

| Run | Checks | Bounds |
| --- | --- | --- |
| MCStore | BindingsAreLinked, QuotaOverrun, FirstAccountKept, DisabledIsFrozen; NoSessionOfDisabled, SlotsReturned of Login | 2 accounts, 3 networks, 2 machines, 2 CreateNetworks and 2 Logins in flight, 1 slot, quota and limit 1; no tokens, no time; from the empty database |
| MCCertificates | OneAnswerPerRequest, TokenAdmitsOnce, CapacityRespected, RevokedGetsNothingNew, ReplacedForCause | 1 account and network, 2 machines, 1 token, 3 certificates, 1 request id, 2 calls, limits 1 and 2; 3 times; a certificate lives 2 ticks |
| MCPairing | types, OpenPairsAuthorized, OpenPairsSpaced, ShareMintsOnePair, DeletedNetworkIsEmpty, refinement of PairLifecycle | 1 account and network, 2 machines, 1 share, 2 pairs, 2 handlers, 2 times |
| MCPairing, MCPairingAccounts.cfg | refinement of PairLifecycle | 2 accounts, networks, machines; 1 share, pair, handler; no expiry |
| MCSessions | types, RevocationBoundsLease, TargetUnboundBoundsLease, OneAttemptPerLink, PresenceEndsWithLoss, LiveAttemptKept | 1 account and network, 2 machines, 2 attempts, 2 handlers, 3 times; a lease lives 2 ticks |
| MCSignalHub | types, OneSocketPerDevice, SignalsInOrder, NoGapBetweenSockets | 2 machines, 3 sockets, 1 attempt of 3 signals, queues of 1 |
| MCSignalHub, MCSignalHubLive.cfg | RevokedIsToldOrClosed, QueueMoves, ClosedIsFreed | 2 machines, 2 sockets, 1 revocation, queues of 1, no attempt; FairSpec, no symmetry |
| MCService | DatabaseHasKey, StateNeverOverwritten, NoLockCycle, CleanShutdown, ServiceEnds | 3 paths, one of them for databases, 2 init commands, 1 process with 2 handlers; ServiceSpec with its fairness, no symmetry |
| MCLimiter | types, RateBounded, TableBounded, RefusalJustified | 3 sources, a table of 2, 2 calls in flight; 3 calls per window, 2 per source; a second is 2 ticks, a minute 3, a delay 1 |
| MCPairingOnePair, MCSessionsAuthorized, MCSessionsPresence (`.cfg`) | the three disagreements of section 5 that TLC shows | as small as shows them |

The types of Store, Certificates and Service are proved (section 4) and not repeated in their
runs; those of Store are part of the types of Pairing and Sessions too.

Why the bounds are enough. Every property relates at most two machines, two networks
or two pairs, and the operations treat them alike (no order between identifiers). Two
handlers are the least that race; a handler races the operations of Store with one. The
limits, the quota and the lifetimes are parameters: the code's 10/20/30, 2, five
minutes, one minute and thirty days appear as 1 and 2, with the boundary reachable. A lifetime
of one tick lets an invitation expire inside a run of two times. `MCPairing` and
`MCSessions` start from accounts, networks and machines that exist, a state the
database reaches by CreateUser, CreateNetwork and JoinNetwork; `MCStore` and
`MCCertificates` start empty and cover how it is reached. The named bounds are `MaxTime` (the
clock stops), `MaxDelay` (how late a caller of the limiter is) and the sizes of the identifier
sets (each id is minted once). CHECK_DEADLOCK is off in MCStore, MCCertificates and
the hub's runs, where the identifiers are used up, and in MCService, where every init command
may have ended and no server be up; in MCPairing and MCSessions Restart is always possible, in
MCLimiter a call or a tick.

Login and CreateNetwork race DisableUser, so MCStore needs two of each in flight
and no more; a third network is what shows an overrun of the quota by one call too many.
What these bounds leave unexercised is in another run or in the proof: MCStore has no tokens and one
limit, and MCCertificates enrolls with tokens and changes the limit; that a deleted network keeps no
usable token (`DeletedNetworkIsEmpty`) and that a limit changes nothing for a disabled account
(`DisabledIsFrozen`) are proved only.
A certificate of two ticks with the last one for renewal is not due, then due, then expired,
and three certificates are an enrollment and two replacements, or two enrollments and one.

In the limiter three sources overflow a table of two, and a window of two ticks lets a second
of real time straddle two windows, also with a late reading. MCLimiter has no bound on time
at all: its states are all the code can reach with these limits.

In the hub a queue of one stands for 32: it is empty, has room or is full as often as
sockets and messages allow. Three signals are an offer, an answer and a candidate, or two
candidates after one offer; `AttemptLimit` is 512 in the code. Three sockets let either
machine reconnect. The revocation needs no attempt, whose messages would only fill the queue
as "ready" does; with two sockets both machines are connected, or one reconnects while it is
told. Nor does liveness need an attempt: a reader with an admitted signal can always Forward
or fail, and one attempt with a revocation is too large to check in minutes.

Two handlers in MCService form every circle of two; longer ones are excluded by the proof. Two
commands over three paths share the database under one key or under two. That one names as its key
what is the other's database is left to the proof, which has no bounds.

Fairness. In MCSignalHubLive: weak fairness of each socket's reader and of its
writer (`Fairness`). They are goroutines; no send blocks, a write ends within five seconds
(`coordinator/signaling.go:120`), and neither holds what the other needs. Clients, networks, attempts
and revocations may stop at any point: a reader that waits for a message is not
fair, it only must notice that its socket is closed or its context cancelled.
In MCService (`ServiceFairness`): weak fairness of the server's own steps, for its goroutine is
scheduled, Shutdown's timer runs out and a listener's end is reported; strong fairness of
hub.close and of the handlers' steps, for what they wait for is a lock that others take and give
back: a sync.Mutex hands itself to a waiter that starves, and database/sql serves
its callers in order. Nothing makes a client send, a handler fail, a listener fail or a signal
arrive. Init commands and power are not fair. `ServiceEnds` holds in STUN mode; with the
relay it does not (section 5).

## 4. Proofs

| Theorem | States, for all constants |
| --- | --- |
| `StoreTypeCorrect` | `StoreSpec => []StoreTypeOK` |
| `StoreLinked` | `StoreSpec => []BindingsAreLinked` |
| `CapacityIsRespected` | `StoreSpec => CapacityRespected` |
| `QuotaOverrunBounded` | `StoreSpec => []QuotaOverrun` |
| `FirstAccountIsKept` | `StoreSpec => FirstAccountKept` |
| `DisabledAreFrozen` | `StoreSpec => DisabledIsFrozen` |
| `DisabledHasNoSession` | `LoginSpec => []NoSessionOfDisabled` |
| `SlotsAreReturned` | `LoginSpec => []SlotsReturned` |
| `CertTypeCorrect` | `CertSpec => []CertTypeOK` |
| `OneAnswer` | `CertSpec => []OneAnswerPerRequest` |
| `AdmittedOnce` | `CertSpec => []TokenAdmitsOnce` |
| `OnlyItsOwn` | `CertSpec => []OwnCertificates` |
| `NothingNewForRevoked` | `CertSpec => RevokedGetsNothingNew` |
| `ReplacementsHaveCause` | `CertSpec => ReplacedForCause` |
| `TypeCorrect` | `Spec => []TypeOK` (Pairing) |
| `OpenPairsAlwaysAuthorized` | `Spec => []OpenPairsAuthorized` (Pairing) |
| `OpenPairsAreSpaced` | `Spec => []OpenPairsSpaced` (Pairing) |
| `SharesMintOnePair` | `Spec => []ShareMintsOnePair` (Pairing) |
| `DeletedNetworksEmpty` | `Spec => []DeletedNetworkIsEmpty` (Pairing) |
| `PairingImplementsLifecycle` | `Spec => Lifecycle_Spec` (Pairing): the refinement of `PairLifecycle` |
| `SessionsTypeCorrect` | `Spec => []TypeOK` (Sessions) |
| `OneAttempt` | `Spec => []OneAttemptPerLink` (Sessions) |
| `RevocationBounds` | `Spec => []RevocationBoundsLease` (Sessions) |
| `UnboundBounds` | `Spec => []TargetUnboundBoundsLease` (Sessions) |
| `PresenceEnds` | `Spec => []PresenceEndsWithLoss` (Sessions) |
| `LiveAttempts` | `Spec => LiveAttemptKept` (Sessions) |
| `HubTypeCorrect` | `Spec => []HubTypeOK` (SignalHub): queues and sequence numbers stay in their bounds |
| `OneSocket` | `Spec => []OneSocketPerDevice` (SignalHub) |
| `SignalsStayInOrder` | `Spec => []SignalsInOrder` (SignalHub) |
| `SocketsLeaveNoGap` | `Spec => []NoGapBetweenSockets` (SignalHub) |
| `RevokedAreToldOrClosed` | `Spec => []RevokedIsToldOrClosed` (SignalHub) |
| `WindowsCount` | `LimiterSpec => []LimiterTypeOK`: no window counts more than it allows |
| `TableStaysBounded` | `LimiterSpec => []TableBounded` |
| `RateIsBounded` | `LimiterSpec => []RateBounded` |
| `RefusalsAreJustified` | `LimiterSpec => RefusalJustified` |
| `IdentityKept` | `FilesSpec => []DatabaseHasKey` |
| `NeverOverwritten` | `FilesSpec => StateNeverOverwritten` |
| `ServiceImplementsFiles` | `ServiceSpec => FilesSpec`: serve leaves the files to the init commands |
| `ServedStateKept` | `ServiceSpec => []DatabaseHasKey /\ StateNeverOverwritten` |
| `ServiceTypeCorrect` | `ServiceSpec => []ServiceTypeOK` |
| `LocksAreOrdered` | `ServiceSpec => []NoLockCycle` |
| `ShutdownIsClean` | `ServiceSpec => []CleanShutdown` |

They assume what the modules name (`NoneAssumption`, `LimitAssumption`, `CreatorAssumption`,
`TimeAssumption`, `LoginAssumption`, `CertificateAssumption`, `LeaseAssumption`,
`HubAssumption`, `HandAssumption`, `LimiterAssumption`, `PathAssumption`,
`HandlerAssumption`): that `None` is none of the identifiers, and the signs of the limits and
lifetimes. Two ask for a finite set, because a number is compared with its size: `CreatorAssumption`
for the CreateNetworks in flight, `LoginAssumption` for the Logins in flight. Accounts,
networks, machines, tokens, pairs, sockets, handlers and addresses may be infinitely many, and the
clock's `MaxTime` any number.

**Store.** `BindingsAreLinked` is inductive with the types: the first conjunct, that a machine is
linked to its first account, is what BindDevice needs to keep the second. `QuotaInv`
counts the CreateNetworks of an account that wait before their INSERT with its live networks, so that
inserting moves one from one side to the other. Capacity needs that a network has finitely many
machines bound (`BoundFinite`), for only then does one more machine add one to their number. That
an account stays frozen once it is disabled, and a machine keeps its first account, holds step by step.

**Login.** Both properties and the types are inductive together: the receive of `EndLogin`
leaves a natural number because the call that ends is itself counted (a finite set loses
one element). A session is inserted only under the condition of the INSERT itself.

**Certificates.** `CertInv` adds to the two invariants that exactly the enrolled machines
have a certificate, that only they are revoked or have a call in flight (`Enrolled`,
`CallersEnrolled`), and that a token not issued yet admitted nobody. Without the first, enrolling
could look like the first time for a machine that is revoked. On top of it `OwnInv` says that what is
stored, recorded or answered for a machine was minted for it (`OwnCertificates`), and that for each
call in flight there is a certificate of its machine that let it in: one still valid, and due if the
call is about to replace it, or for a recovery one that had expired (`CallsHaveCause`). It is inductive
because a certificate once minted never changes (`IssuedLasts`), while the stored one may be
replaced under the call. The two action properties follow from both: what a step answers to a revoked
machine is its own after the step, and nothing was minted for it in the step.

**Pairing.** `OpenPairsAuthorized` is not inductive: a pair action in flight could hold a closed
state and reopen it, and an invitation could hold its own share. The strengthening is
`TypeOK /\ ChecksHold /\ OpenPairsAuthorized`, where `ChecksHold` (in
`PairingProofs`) says that what a handler checked when it read still holds: the action
and the state it holds fit, and a share keeps its device. The step for each
operation of the database then shows that every binding it cuts takes its open pairs
along, through two lemmas: a pair open after `RevokePairs` was not revoked
(`OpenIsKept`), and an authorization survives what does not touch its binding, network,
machine, owner or link (`AuthorizationKept`). An update writes an open state only over
the open state that was read, with the same revision. `OpenPairsSpaced` follows from what a
mint checks inside its transaction: the open pairs it finds on the link had expired at the time it
read at its start; and no other step opens a pair. `ShareMintsOnePair` needs `SharesMinted`, that a pair's share exists.
For the refinement every step is sorted by what it does to members: none joins, none leaves, or
those that leave take along the open pairs they are ends of; `OpenPairsAuthorized` is what makes the
ends of an open pair members.

**Sessions.** `SessInv` says when what a handler holds was true. A presence or a lease dates from a
time at which its machines were authorized (`AuthorizedAt`, `AuthorizedLease`) or its target
bound (`BoundAt`, `BoundLease`), or they still are; a Begin or Renew that has read and not yet
written holds the lock, and so does what it found; its time is from before its reads, as
is a heartbeat's (`CallsInv`). A machine loses its authorization at the clock's time, no earlier
than the times in flight, and never regains it. `OneAttemptPerLink` holds at the
insert because the check under the same lock found neither direction taken.

**SignalHub.** The types of the hub need `Rows` beside them: a socket in use has a machine, a reader that
has admitted a signal holds one, an attempt has two different ends (so "the other end"
exists), and a handler that closes a socket has an end left. `OneSocketPerDevice` is
then inductive: Register finds no entry, and CleanUp deletes the entry of its own machine,
which by the invariant names its own socket. Order and gaps are about the stream of a socket: what was
written to it, what its writer holds, then its queue. `OrderInv` ties every signal
in a stream to the hub (`Known`): no number is above what its attempt counts, nor above what the
socket its sender has now has settled, which is the attempt's count less the signal that socket
has admitted and not sent (`Settled`). So the next number comes
after all that are there. `NothingSkipped` says that what a sending socket has in a stream
goes on without a break up to the number it last settled: a signal that finds no room ends
its sender's socket, so no socket sends on past a signal it lost. Every step brings no signal to a
stream (`Quiet`), admits one, or forwards one. For notices, every socket that was there at the start
has the message, is closed or out of service, or its machine's turn is still to come (`NoticeOn`); a
machine whose queue is full is closed, and a socket that succeeded another one means
that the other is cancelled.

**Limiter.** Types and table are inductive together: a source stays in the table as it grows
older because its count is not zero. The set of addresses need not be finite; the table is. The rate
follows from what a window says of the history (`Told`): windows of a budget start a second apart at
least, so the last `j` ticks admitted no more than the current window counts and what as many full windows
allow as reach into them; and, for refusals, whatever a window counts was admitted since it
started. A source that was forgotten had its last window a minute ago, longer than anything asks.

**StateFiles.** `DatabaseHasKey` says nothing of a command half way. `FilesInv` adds, for each
command and step, which files it must have made to be there and what they hold, and that a
command keeps its configuration for as long as a file of its exists.

**Service.** The invariant gives for each place in a program the locks that are held there and
what is known of the socket (`HandlersInv`), and for each phase of the server which handlers can
exist (`PhaseInv`). That there is no circle follows: nobody waits while it holds the
connection, whoever holds sessions waits for the connection at most, and whoever holds the hub
for sessions at most. A clean shutdown follows because a socket is hijacked and
registered under the hub's mutex, which hub.close takes, or else is refused and never used. The theorems about the files carry
over through the refinement `ServiceImplementsFiles`.

Every safety and action property that a passing run checks is a theorem. Only model-checked are the
three liveness properties QueueMoves, ClosedIsFreed and ServiceEnds: they need fairness and
ENABLED, which TLAPS does not reason about. The proofs say nothing of the three violated properties
of section 5, either.

## 5. Disagreements found

1. *One pair per link* (`docs/protocol.md:53`; run MCPairingOnePair). A confirm that is between its
   checks and its update when the invitation expires still succeeds, beside the pair that
   adoption or a new invitation minted meanwhile (`coordinator/pairing.go:269`). What does hold is
   `OpenPairsSpaced`: two open pairs on a link were minted at least a lifetime apart.
2. *Unbinding or disabling refuses renewal* (`README.md:11`, `coordinator/sessions.go:284-285`; run
   MCSessionsAuthorized). When the target renews, `authorize` compares the target with itself, so it
   keeps the lease of an unbound sender alive; and it asks for the first accounts of the
   machines, not for the owner of the lease's network. The run shows the second, with the owner of
   the network disabled; the first is read off the query at `coordinator/sessions.go:286`. What does hold is
   `TargetUnboundBoundsLease` and `RevocationBoundsLease`.
3. *Both ends report presence for one account* (`coordinator/sessions.go:157-159`; run
   MCSessionsPresence). Begin looks each end up under its own first account.
4. *Any listener failure shuts both down* (`coordinator/server.go:351`). With the relay enabled
   ServeTURN waits for the context alone (`coordinator/turn.go:91`), so a UDP socket that fails goes
   unnoticed and HTTPS serves on. The relay itself is not modelled, so no run shows this.

## 6. Modelled without a property, not modelled, and what is left

Some behaviours the models contain turned out to be harmless and have no property of their own: two
renewals of a lease, or two heartbeats, applied in the other order than their times were read; a
machine that recovers twice with two tokens; an account disabled between the authentication of a
renewal and its transaction; an adoption that stops half way, whose pairs stand on their own; a
socket without the sub-protocol that is still being closed when Run returns, for its handler holds no
lock and uses neither the hub nor the database again; a failed init that leaves its files, so that a
retry with the same paths is refused until they are removed.

Not modelled, and not planned: TURN, the codecs, the configuration and the tools (pure
functions, I/O and third-party code); the directory and identity queries, which only read; device
names, telemetry and the audit log (nothing reads them to decide). A file whose data is synced
is taken to be in its directory for good: the code does not sync directories.

Left, in this order:

1. `Coordinator`: Pairing, Sessions and SignalHub over one Store, to relate pairs, leases,
   sockets and notifications.
2. An abstract channel that the hub implements.
