----------------------------- MODULE Sessions ------------------------------
(***************************************************************************)
(* Presence, connection attempts and their leases                          *)
(* (src/internal/coordinator/sessions.go and the /v1/attempt, /v1/lease,   *)
(* /v1/end and /v1/heartbeat handlers of server.go).                       *)
(*                                                                         *)
(* Both maps live in memory under sessions.mu.  A handler reads time.Now() *)
(* before it asks for the lock and reads the database while it holds it,   *)
(* so other handlers change the database, never the maps, between its      *)
(* steps.  The signal hub is external here: delivering an attempt to its   *)
(* target succeeds or fails.                                               *)
(***************************************************************************)
EXTENDS Store

CONSTANTS
    Req,              \* HTTP handlers that can be in flight at once
    Attempt,          \* attempt ids that can be minted
    Minute,           \* lifetime of a lease
    PresenceWindow    \* a heartbeat counts for this long (30 seconds)

ASSUME LeaseAssumption ==
    /\ None \notin Req \cup Attempt
    /\ Minute \in Nat \ {0}
    /\ PresenceWindow \in Nat \ {0}

VARIABLES
    presence,   \* <<device, account>> -> time of the last heartbeat, or None
    attempts,   \* target device -> the attempt it is dialled by
    minted,     \* attempt ids handed out so far
    calls,      \* Req -> what a handler holds between its steps
    mu,         \* holder of sessions.mu, or None
    lostAt,     \* history: when a device last stopped being authorized
    unboundAt   \* history: when an unbound device lost its last binding

sessionVars == <<presence, attempts, minted, calls, mu>>
historyVars == <<lostAt, unboundAt>>
vars == <<storeVars, sessionVars, historyVars>>

Times == 0..MaxTime
NoAttempt == [id |-> None]
AttemptRow ==
    [id : Attempt, from : Device, to : Device, network : Network,
     expires : 0..(MaxTime + Minute)]

Idle == [op |-> "none"]
BeginCall ==
    [op : {"begin", "insert"}, from : Device, to : Device, now : Times]
NotifyCall == [op : {"notify"}, from : Device, to : Device, id : Attempt]
RenewCall == [op : {"renew"}, to : Device, now : Times]
HeartbeatCall == [op : {"heartbeat"}, device : Device, user : User, now : Times]

TypeOK ==
    /\ StoreTypeOK
    /\ presence \in [Device \X User -> Times \cup {None}]
    /\ attempts \in [Device -> {NoAttempt} \cup AttemptRow]
    /\ minted \subseteq Attempt
    /\ calls \in [Req -> {Idle} \cup BeginCall \cup NotifyCall \cup RenewCall
                         \cup HeartbeatCall]
    /\ mu \in Req \cup {None}
    /\ lostAt \in [Device -> Times \cup {None}]
    /\ unboundAt \in [Device -> Times \cup {None}]

SessionsInit ==
    /\ presence = [k \in Device \X User |-> None]
    /\ attempts = [d \in Device |-> NoAttempt]
    /\ minted = {}
    /\ calls = [r \in Req |-> Idle]
    /\ mu = None
    /\ lostAt = [d \in Device |-> None]
    /\ unboundAt = [d \in Device |-> None]

Init == StoreInit /\ SessionsInit

-----------------------------------------------------------------------------
\* Mutant: the two ends belong to one account instead.
SameAccount(a, b) == devices[a].owner = devices[b].owner

SameNetwork(a, b) == \E n \in Network : {a, b} \subseteq Bound(n)

Fresh(d, u, now) ==
    presence[<<d, u>>] # None /\ presence[<<d, u>>] + PresenceWindow > now

\* Begin asks for the presence each end reported for its own first account.
Reachable(d, now) ==
    DeviceAuthorized(d) /\ Fresh(d, devices[d].owner, now)

Dialled(to) == attempts[to] # NoAttempt

\* The attempts left when the expired ones are swept.
Swept(now) ==
    [d \in Device |-> IF Dialled(d) /\ attempts[d].expires <= now
                      THEN NoAttempt ELSE attempts[d]]

\* Mutant: only the target's own slot is looked at.
BusyTarget(map, from, to) == map[to] # NoAttempt

\* connection_busy: the target is being dialled, or the target dials the sender.
Busy(map, from, to) ==
    \/ map[to] # NoAttempt
    \/ map[from] # NoAttempt /\ map[from].from = to

Continue(r, call) == calls' = [calls EXCEPT ![r] = call]
Return(r) == calls' = [calls EXCEPT ![r] = Idle]
Lock(r) == mu = None /\ mu' = r
Unlock == mu' = None

-----------------------------------------------------------------------------
(* Begin and the handler of /v1/attempt around it.                         *)

BeginLock(r, from, to, now) ==
    /\ calls[r] = Idle
    /\ from # to
    /\ SameNetwork(from, to)
    /\ Lock(r)
    /\ Continue(r, [op |-> "begin", from |-> from, to |-> to, now |-> now])
    /\ UNCHANGED <<storeVars, presence, attempts, minted>>

\* Both ends are read and found reachable, and expired attempts are swept;
\* the sweep stays even when the link is busy.
BeginCheck(r) ==
    LET q == calls[r] IN
    /\ q.op = "begin"
    /\ Reachable(q.from, q.now) /\ Reachable(q.to, q.now)
    /\ attempts' = Swept(q.now)
    /\ IF Busy(attempts', q.from, q.to)
       THEN Return(r) /\ Unlock
       ELSE Continue(r, [q EXCEPT !.op = "insert"]) /\ UNCHANGED mu
    /\ UNCHANGED <<storeVars, presence, minted>>

\* One end is not reachable.  The sender is read a second time after the
\* sweep, so the sweep may have been done.
BeginRefuse(r) ==
    LET q == calls[r] IN
    /\ q.op = "begin"
    /\ ~(Reachable(q.from, q.now) /\ Reachable(q.to, q.now))
    /\ attempts' \in {attempts} \cup
           (IF DeviceAuthorized(q.from) THEN {} ELSE {Swept(q.now)})
    /\ Return(r) /\ Unlock
    /\ UNCHANGED <<storeVars, presence, minted>>

\* sharedNetworkID, then the lease: any network both ends are bound to.
BeginInsert(r, n, id) ==
    LET q == calls[r] IN
    /\ q.op = "insert"
    /\ {q.from, q.to} \subseteq Bound(n)
    /\ id \notin minted
    /\ minted' = minted \cup {id}
    /\ attempts' = [attempts EXCEPT ![q.to] =
           [id |-> id, from |-> q.from, to |-> q.to, network |-> n,
            expires |-> q.now + Minute]]
    /\ Continue(r, [op |-> "notify", from |-> q.from, to |-> q.to, id |-> id])
    /\ Unlock
    /\ UNCHANGED <<storeVars, presence>>

BeginUnshared(r) ==
    LET q == calls[r] IN
    /\ q.op = "insert"
    /\ ~SameNetwork(q.from, q.to)
    /\ Return(r) /\ Unlock
    /\ UNCHANGED <<storeVars, presence, attempts, minted>>

NotifyTarget(r) ==
    /\ calls[r].op = "notify"
    /\ Return(r)
    /\ UNCHANGED <<storeVars, presence, attempts, minted, mu>>

\* Mutant: whatever attempt the target has is removed.
RemoveAny(from, to, id) == attempts' = [attempts EXCEPT ![to] = NoAttempt]

\* End: one participant removes the attempt, if it still is the one it names.
Remove(from, to, id) ==
    attempts' = IF /\ attempts[to].id = id
                   /\ from \in {attempts[to].from, attempts[to].to}
                THEN [attempts EXCEPT ![to] = NoAttempt]
                ELSE attempts

\* The target has no socket or a full queue: the handler ends the attempt.
NotifyFails(r) ==
    LET q == calls[r] IN
    /\ q.op = "notify"
    /\ mu = None
    /\ Remove(q.from, q.to, q.id)
    /\ Return(r)
    /\ UNCHANGED <<storeVars, presence, minted, mu>>

End(d, to) ==
    /\ mu = None
    /\ Dialled(to)
    /\ d \in {attempts[to].from, to}
    /\ attempts' = [attempts EXCEPT ![to] = NoAttempt]
    /\ UNCHANGED <<storeVars, presence, minted, calls, mu>>

-----------------------------------------------------------------------------
(* Renew.  The attempt id is random and told to the two ends only.         *)

RenewLock(r, d, to, now) ==
    /\ calls[r] = Idle
    /\ Dialled(to)
    /\ d \in {attempts[to].from, to}
    /\ attempts[to].expires > now
    /\ SameNetwork(d, to)
    /\ Lock(r)
    /\ Continue(r, [op |-> "renew", to |-> to, now |-> now])
    /\ UNCHANGED <<storeVars, presence, attempts, minted>>

\* Mutants: the lease is extended from its old end; only the target is asked for.
Extended(row, now) == [row EXCEPT !.expires = @ + Minute]
TargetAuthorized(to) == DeviceAuthorized(to)

Renewed(row, now) == [row EXCEPT !.expires = now + Minute]
LeaseAuthorized(to) == DeviceAuthorized(attempts[to].from) /\ DeviceAuthorized(to)

RenewLease(r) ==
    LET q == calls[r] IN
    /\ q.op = "renew"
    /\ attempts' =
         IF LeaseAuthorized(q.to)
         THEN [attempts EXCEPT ![q.to] = Renewed(@, q.now)]
         ELSE attempts
    /\ Return(r) /\ Unlock
    /\ UNCHANGED <<storeVars, presence, minted>>

-----------------------------------------------------------------------------
(* Heartbeat: the device and its link are read before the lock.            *)

HeartbeatRead(r, d, u, now) ==
    /\ calls[r] = Idle
    /\ DeviceAuthorized(d)
    /\ <<d, u>> \in links /\ users[u] = "enabled"
    /\ Continue(r, [op |-> "heartbeat", device |-> d, user |-> u, now |-> now])
    /\ UNCHANGED <<storeVars, presence, attempts, minted, mu>>

\* Mutant: the time is read once the lock is held.
HeartbeatWriteLate(r) ==
    LET q == calls[r] IN
    /\ q.op = "heartbeat"
    /\ mu = None
    /\ presence' = [presence EXCEPT ![<<q.device, q.user>>] = clock]
    /\ Return(r)
    /\ UNCHANGED <<storeVars, attempts, minted, mu>>

HeartbeatWrite(r) ==
    LET q == calls[r] IN
    /\ q.op = "heartbeat"
    /\ mu = None
    /\ presence' = [presence EXCEPT ![<<q.device, q.user>>] = q.now]
    /\ Return(r)
    /\ UNCHANGED <<storeVars, attempts, minted, mu>>

\* The device's signal socket is gone: every account's presence goes with it.
Offline(d) ==
    /\ mu = None
    /\ presence' = [k \in Device \X User |-> IF k[1] = d THEN None ELSE presence[k]]
    /\ presence' # presence
    /\ UNCHANGED <<storeVars, attempts, minted, calls, mu>>

\* Nothing of Sessions survives a restart.
Restart ==
    /\ presence' = [k \in Device \X User |-> None]
    /\ attempts' = [d \in Device |-> NoAttempt]
    /\ calls' = [r \in Req |-> Idle]
    /\ mu' = None
    /\ creating' = [c \in Creator |-> None]
    /\ UNCHANGED <<tables, clock, minted>>

SessionStep ==
    \/ \E r \in Req :
        \/ \E now \in Nows, d, to \in Device :
             BeginLock(r, d, to, now) \/ RenewLock(r, d, to, now)
        \/ \E now \in Nows, d \in Device, u \in User : HeartbeatRead(r, d, u, now)
        \/ BeginCheck(r) \/ BeginRefuse(r) \/ BeginUnshared(r)
        \/ \E n \in Network, id \in Attempt : BeginInsert(r, n, id)
        \/ NotifyTarget(r) \/ NotifyFails(r)
        \/ RenewLease(r) \/ HeartbeatWrite(r)
    \/ \E d \in Device : Offline(d) \/ \E to \in Device : End(d, to)
    \/ Restart

Unbound(d) == \A n \in Network : d \notin Bound(n)

\* When the loss happened; a machine that is bound again starts anew.

History ==
    /\ lostAt' = [d \in Device |->
          IF DeviceAuthorized(d) /\ ~DeviceAuthorized(d)' THEN clock ELSE lostAt[d]]
    /\ unboundAt' = [d \in Device |->
          IF ~Unbound(d)' THEN None
          ELSE IF Unbound(d) THEN unboundAt[d] ELSE clock]

Next == /\ \/ StoreNext /\ UNCHANGED sessionVars
           \/ SessionStep
        /\ History

Spec == Init /\ [][Next]_vars

-----------------------------------------------------------------------------
(* Correctness.                                                            *)

\* Two machines never dial each other at once: an attempt in either direction
\* blocks the reverse one (Begin).
OneAttemptPerLink ==
    \A a, b \in Device :
        Dialled(a) /\ Dialled(b) => ~(attempts[a].from = b /\ attempts[b].from = a)

\* Once a machine is revoked or its first account is disabled, no lease in
\* which it takes part outlives that moment by more than a minute, even when a
\* renewal was between its reads and its write (Begin, Renew).
RevocationBoundsLease ==
    \A to \in Device : Dialled(to) =>
        \A d \in {attempts[to].from, to} :
            ~DeviceAuthorized(d) => attempts[to].expires <= lostAt[d] + Minute

\* Once the target of an attempt has no binding left, its lease outlives that
\* moment by at most a minute: neither end can renew it (authorize).
TargetUnboundBoundsLease ==
    \A to \in Device :
        Dialled(to) /\ Unbound(to) => attempts[to].expires <= unboundAt[to] + Minute

\* A machine that lost its authorization reports no presence from then on: a
\* heartbeat still in flight records the time it was read at (Heartbeat).
PresenceEndsWithLoss ==
    \A d \in Device, u \in User :
        presence[<<d, u>>] # None /\ ~DeviceAuthorized(d) => presence[<<d, u>>] <= lostAt[d]

\* An attempt that has not expired leaves its target's slot only when one of
\* its ends ends it, when its own handler could not tell the target, or with the
\* process: no other handler's sweep, failure or new attempt takes its place
\* (Begin, End, deviceOperation).
LiveAttemptKept ==
    [][\A to \in Device :
         /\ Dialled(to) /\ attempts[to].expires > clock
         /\ attempts'[to].id # attempts[to].id
         => \/ \E d \in Device : End(d, to)
            \/ \E r \in Req : /\ calls[r].op = "notify" /\ calls'[r] = Idle
                               /\ calls[r].id = attempts[to].id
            \/ Restart
      ]_vars

\* README.md:11: after a network is deleted, a machine unbound or an account
\* disabled, renewals are refused.  So a lease is renewed only while its two ends
\* share a network and the owner of the network it names is enabled (authorize).
RenewalNeedsAuthorization ==
    [][\A to \in Device :
         /\ Dialled(to) /\ Dialled(to)' /\ attempts'[to].id = attempts[to].id
         /\ attempts'[to].expires > attempts[to].expires
         => /\ SameNetwork(attempts[to].from, to)
            /\ users[networks[attempts[to].network].owner] = "enabled"
      ]_vars

\* sessions.go:157: both ends of a new attempt are signed in to one account
\* and report presence for it.
OneAccountPerAttempt ==
    [][\A to \in Device :
         /\ Dialled(to)' /\ attempts'[to].id # attempts[to].id
         => \E u \in User : /\ presence[<<attempts'[to].from, u>>] # None
                            /\ presence[<<to, u>>] # None
      ]_vars
=============================================================================
