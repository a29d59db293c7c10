---------------------------- MODULE SessionProofs ----------------------------
(***************************************************************************)
(* Connection attempts, for any accounts, networks, machines and handlers  *)
(* in flight: two machines never dial each other at once, a lease outlives *)
(* the authorization of its ends and the last binding of its target by a   *)
(* minute at most, presence ends with authorization, and a live attempt is *)
(* not taken away by somebody else's handler.                              *)
(***************************************************************************)
EXTENDS Sessions, StoreProofs

\* d was authorized at t or later; a lease that ends at e was given or renewed
\* while it was; d was bound to a network at t or later; and the same for e.
AuthorizedAt(d, t) ==
    DeviceAuthorized(d) \/ (lostAt[d] \in Times /\ t <= lostAt[d])
AuthorizedLease(d, e) ==
    DeviceAuthorized(d) \/ (lostAt[d] \in Times /\ e <= lostAt[d] + Minute)
BoundAt(d, t) ==
    ~Unbound(d) \/ (unboundAt[d] \in Times /\ t <= unboundAt[d])
BoundLease(d, e) ==
    ~Unbound(d) \/ (unboundAt[d] \in Times /\ e <= unboundAt[d] + Minute)

PresenceOK(d, u) == presence[<<d, u>>] # None =>
    presence[<<d, u>>] <= clock /\ AuthorizedAt(d, presence[<<d, u>>])

PresenceInv == \A d \in Device, u \in User : PresenceOK(d, u)

LeaseOK(to) == attempts[to] # NoAttempt =>
    /\ attempts[to].from # to
    /\ attempts[to].expires <= clock + Minute
    /\ AuthorizedLease(attempts[to].from, attempts[to].expires)
    /\ AuthorizedLease(to, attempts[to].expires)
    /\ BoundLease(to, attempts[to].expires)

LeaseInv == \A to \in Device : LeaseOK(to)

\* What a handler in flight knows: it holds the lock from its first read to its
\* last write, and what it read was true no earlier than its now.
CallInv(r) ==
    LET q == calls[r] IN
    /\ q.op \in {"begin", "insert", "renew"} => mu = r /\ q.now <= clock
    /\ q.op \in {"begin", "insert"} => q.from # q.to
    /\ q.op = "insert" => /\ AuthorizedAt(q.from, q.now)
                          /\ AuthorizedAt(q.to, q.now)
                          /\ ~Busy(attempts, q.from, q.to)
    /\ q.op = "renew" => Dialled(q.to) /\ BoundAt(q.to, q.now)
    /\ q.op = "heartbeat" => q.now <= clock /\ AuthorizedAt(q.device, q.now)

CallsInv == \A r \in Req : CallInv(r)

SessInv == TypeOK /\ PresenceInv /\ LeaseInv /\ CallsInv /\ OneAttemptPerLink

-----------------------------------------------------------------------------
(* Types and steps.                                                        *)

\* The steps of one handler.
HandlerStep(r) ==
    \/ \E now \in Nows, d, to \in Device :
         BeginLock(r, d, to, now) \/ RenewLock(r, d, to, now)
    \/ \E now \in Nows, d \in Device, u \in User : HeartbeatRead(r, d, u, now)
    \/ BeginCheck(r) \/ BeginRefuse(r) \/ BeginUnshared(r)
    \/ \E n \in Network, id \in Attempt : BeginInsert(r, n, id)
    \/ NotifyTarget(r) \/ NotifyFails(r)
    \/ RenewLease(r) \/ HeartbeatWrite(r)

\* Every step is one of these.
LEMMA Steps ==
    ASSUME [Next]_vars
    PROVE  \/ [StoreNext]_storeVars /\ UNCHANGED sessionVars
           \/ \E r \in Req : HandlerStep(r)
           \/ \E d \in Device : Offline(d) \/ \E to \in Device : End(d, to)
           \/ Restart
BY DEF Next, SessionStep, HandlerStep, vars

Calls == {Idle} \cup BeginCall \cup NotifyCall \cup RenewCall \cup HeartbeatCall

\* What a handler holds, by its operation.
LEMMA CallKinds ==
    ASSUME TypeOK, NEW r \in Req
    PROVE  /\ calls[r].op \in {"begin", "insert"} => calls[r] \in BeginCall
           /\ calls[r].op = "notify" => calls[r] \in NotifyCall
           /\ calls[r].op = "renew" => calls[r] \in RenewCall
           /\ calls[r].op = "heartbeat" => calls[r] \in HeartbeatCall
           /\ Idle.op = "none"
BY DEF TypeOK, Idle, BeginCall, NotifyCall, RenewCall, HeartbeatCall

\* An attempt that is not NoAttempt is a row.
LEMMA DialledRow ==
    ASSUME TypeOK, NEW to \in Device
    PROVE  Dialled(to) => attempts[to] \in AttemptRow
BY DEF TypeOK, Dialled

\* The fields of rows, as the provers like them.
LEMMA Fields ==
    /\ \A q \in BeginCall : /\ q.op \in {"begin", "insert"}
                            /\ q.from \in Device /\ q.to \in Device /\ q.now \in Times
    /\ \A q \in NotifyCall : q.from \in Device /\ q.to \in Device /\ q.id \in Attempt
    /\ \A q \in RenewCall : q.to \in Device /\ q.now \in Times
    /\ \A q \in HeartbeatCall : q.device \in Device /\ q.user \in User /\ q.now \in Times
    /\ \A a \in AttemptRow : /\ a.id \in Attempt /\ a.from \in Device /\ a.to \in Device
                             /\ a.network \in Network
                             /\ a.expires \in 0..(MaxTime + Minute)
                             /\ a # NoAttempt
BY LeaseAssumption
DEF BeginCall, NotifyCall, RenewCall, HeartbeatCall, AttemptRow, NoAttempt

\* A time that has been read is one.
LEMMA NowsAreTimes == ASSUME StoreTypeOK PROVE Nows \subseteq Times /\ clock \in Times
BY TimeAssumption DEF StoreTypeOK, Nows, Times

\* Only Restart of these steps touches the database, and only its calls.
LEMMA StoreKept ==
    ASSUME StoreTypeOK, UNCHANGED <<tables, clock>>,
           creating' = creating \/ creating' = [c \in Creator |-> None]
    PROVE  StoreTypeOK'
BY DEF StoreTypeOK, tables

\* The history variables stay times.
LEMMA HistoryType ==
    ASSUME TypeOK, [Next]_vars
    PROVE  /\ lostAt' \in [Device -> Times \cup {None}]
           /\ unboundAt' \in [Device -> Times \cup {None}]
<1>1. clock \in Times
  BY NowsAreTimes DEF TypeOK
<1> QED
  BY <1>1 DEF TypeOK, Next, History, vars, historyVars

\* Every step of a handler keeps the types of what it changes.
LEMMA HandlerStepType ==
    ASSUME TypeOK, CallsInv, NEW r \in Req, HandlerStep(r)
    PROVE  /\ presence' \in [Device \X User -> Times \cup {None}]
           /\ attempts' \in [Device -> {NoAttempt} \cup AttemptRow]
           /\ minted' \subseteq Attempt
           /\ calls' \in [Req -> Calls]
           /\ mu' \in Req \cup {None}
           /\ UNCHANGED storeVars
<1> DEFINE Goal == /\ presence' \in [Device \X User -> Times \cup {None}]
                   /\ attempts' \in [Device -> {NoAttempt} \cup AttemptRow]
                   /\ minted' \subseteq Attempt
                   /\ calls' \in [Req -> Calls]
                   /\ mu' \in Req \cup {None}
                   /\ UNCHANGED storeVars
<1> SUFFICES Goal
  OBVIOUS
<1>0. /\ presence \in [Device \X User -> Times \cup {None}]
      /\ attempts \in [Device -> {NoAttempt} \cup AttemptRow]
      /\ minted \subseteq Attempt
      /\ calls \in [Req -> Calls]
      /\ mu \in Req \cup {None}
  BY DEF TypeOK, Calls
<1>1. ASSUME NEW q \in Calls, Continue(r, q) PROVE calls' \in [Req -> Calls]
  BY <1>0, <1>1 DEF Continue
<1>2. Return(r) => calls' \in [Req -> Calls]
  BY <1>0 DEF Return, Calls
<1>3. /\ Lock(r) => mu' \in Req \cup {None}
      /\ Unlock => mu' \in Req \cup {None}
  BY DEF Lock, Unlock
<1>4. \A now : Swept(now) \in [Device -> {NoAttempt} \cup AttemptRow]
  BY <1>0 DEF Swept
<1>5. ASSUME NEW now \in Nows, NEW d \in Device, NEW to \in Device, BeginLock(r, d, to, now)
      PROVE  Goal
  <2>1. [op |-> "begin", from |-> d, to |-> to, now |-> now] \in Calls
    BY NowsAreTimes DEF Calls, BeginCall, TypeOK
  <2> QED
    BY <1>0, <1>1, <1>3, <1>5, <2>1 DEF BeginLock
<1>6. ASSUME NEW now \in Nows, NEW d \in Device, NEW to \in Device, RenewLock(r, d, to, now)
      PROVE  Goal
  <2>1. [op |-> "renew", to |-> to, now |-> now] \in Calls
    BY NowsAreTimes DEF Calls, RenewCall, TypeOK
  <2> QED
    BY <1>0, <1>1, <1>3, <1>6, <2>1 DEF RenewLock
<1>7. ASSUME NEW now \in Nows, NEW d \in Device, NEW u \in User, HeartbeatRead(r, d, u, now)
      PROVE  Goal
  <2>1. [op |-> "heartbeat", device |-> d, user |-> u, now |-> now] \in Calls
    BY NowsAreTimes DEF Calls, HeartbeatCall, TypeOK
  <2> QED
    BY <1>0, <1>1, <1>7, <2>1 DEF HeartbeatRead
<1>8. CASE BeginCheck(r)
  <2>1. calls[r] \in BeginCall
    BY <1>8, CallKinds DEF BeginCheck
  <2>2. [calls[r] EXCEPT !.op = "insert"] \in Calls
    BY <2>1 DEF BeginCall, Calls
  <2> QED
    BY <1>0, <1>1, <1>2, <1>3, <1>4, <1>8, <2>2 DEF BeginCheck
<1>9. CASE BeginRefuse(r)
  BY <1>0, <1>2, <1>3, <1>4, <1>9 DEF BeginRefuse
<1>10. CASE BeginUnshared(r)
  BY <1>0, <1>2, <1>3, <1>10 DEF BeginUnshared
<1>11. ASSUME NEW n \in Network, NEW id \in Attempt, BeginInsert(r, n, id) PROVE Goal
  <2>1. calls[r] \in BeginCall
    BY <1>11, CallKinds DEF BeginInsert
  <2>2. calls[r].from \in Device /\ calls[r].to \in Device /\ calls[r].now \in Times
    BY <2>1, Fields
  <2>3. [op |-> "notify", from |-> calls[r].from, to |-> calls[r].to, id |-> id] \in Calls
    BY <2>2 DEF NotifyCall, Calls
  <2>4. calls[r].now + Minute \in 0..(MaxTime + Minute)
    BY <2>2, TimeAssumption, LeaseAssumption DEF Times
  <2>5. [id |-> id, from |-> calls[r].from, to |-> calls[r].to, network |-> n,
         expires |-> calls[r].now + Minute] \in AttemptRow
    BY <2>2, <2>4 DEF AttemptRow
  <2> QED
    BY <1>0, <1>1, <1>3, <1>11, <2>3, <2>5 DEF BeginInsert
<1>12. CASE NotifyTarget(r)
  BY <1>0, <1>2, <1>12 DEF NotifyTarget
<1>13. CASE NotifyFails(r)
  BY <1>0, <1>2, <1>13 DEF NotifyFails, Remove
<1>14. CASE RenewLease(r)
  <2>1. calls[r].to \in Device /\ calls[r].now \in Times
    BY <1>14, CallKinds, Fields DEF RenewLease
  <2>2. calls[r].now + Minute \in 0..(MaxTime + Minute)
    BY <2>1, TimeAssumption, LeaseAssumption DEF Times
  <2>3. attempts[calls[r].to] \in AttemptRow
    BY <1>14, <2>1, DialledRow DEF RenewLease, CallsInv, CallInv
  <2>4. Renewed(attempts[calls[r].to], calls[r].now) \in AttemptRow
    BY <2>2, <2>3 DEF Renewed, AttemptRow
  <2> QED
    BY <1>0, <1>2, <1>3, <1>14, <2>4 DEF RenewLease
<1>15. CASE HeartbeatWrite(r)
  <2>1. calls[r].now \in Times
    BY <1>15, CallKinds, Fields DEF HeartbeatWrite
  <2> QED
    BY <1>0, <1>2, <1>15, <2>1 DEF HeartbeatWrite
<1> QED
  BY <1>5, <1>6, <1>7, <1>8, <1>9, <1>10, <1>11, <1>12, <1>13, <1>14, <1>15 DEF HandlerStep

\* Every step keeps the types.
LEMMA NextType == ASSUME TypeOK, CallsInv, [Next]_vars PROVE TypeOK'
<1>1. StoreTypeOK /\ creating \in [Creator -> User \cup {None}]
  BY DEF TypeOK, StoreTypeOK
<1>2. CASE [StoreNext]_storeVars /\ UNCHANGED sessionVars
  <2>1. StoreTypeOK'
    BY <1>1, <1>2, StoreNextType
  <2> QED
    BY <1>2, <2>1, HistoryType DEF TypeOK, sessionVars
<1>3. ASSUME NEW r \in Req, HandlerStep(r) PROVE TypeOK'
  <2>1. StoreTypeOK'
    BY <1>1, <1>3, HandlerStepType, StoreKept DEF storeVars
  <2> QED
    BY <1>3, <2>1, HandlerStepType, HistoryType DEF TypeOK, Calls
<1>4. ASSUME NEW d \in Device, Offline(d) PROVE TypeOK'
  <2>1. StoreTypeOK'
    BY <1>1, <1>4, StoreKept DEF Offline, storeVars
  <2>2. presence' \in [Device \X User -> Times \cup {None}]
    BY <1>4 DEF Offline, TypeOK
  <2> QED
    BY <1>4, <2>1, <2>2, HistoryType DEF TypeOK, Offline
<1>5. ASSUME NEW d \in Device, NEW to \in Device, End(d, to) PROVE TypeOK'
  <2>1. StoreTypeOK'
    BY <1>1, <1>5, StoreKept DEF End, storeVars
  <2> QED
    BY <1>5, <2>1, HistoryType DEF TypeOK, End
<1>6. CASE Restart
  <2>1. StoreTypeOK'
    BY <1>1, <1>6, StoreKept DEF Restart
  <2> QED
    BY <1>6, <2>1, HistoryType DEF TypeOK, Restart
<1> QED
  BY <1>2, <1>3, <1>4, <1>5, <1>6, Steps

-----------------------------------------------------------------------------
(* What was true of a machine at a time stays so: the moment it is lost is *)
(* recorded.                                                               *)

\* Time does not run backwards.
LEMMA ClockGrows == ASSUME TypeOK, CallsInv, [Next]_vars PROVE clock' \in {clock, clock + 1}
<1>4. [StoreNext]_storeVars => clock' \in {clock, clock + 1}
  BY StoreClockGrows
<1>5. \A r \in Req : HandlerStep(r) => UNCHANGED storeVars
  BY HandlerStepType
<1>6. \A d, to \in Device : Offline(d) \/ End(d, to) => UNCHANGED storeVars
  BY DEF Offline, End
<1>7. UNCHANGED storeVars \/ Restart => clock' = clock
  BY DEF storeVars, Restart
<1> QED
  BY <1>4, <1>5, <1>6, <1>7, Steps

\* An authorization that was had, or a binding, was had for good.
LEMMA HistoryKept ==
    ASSUME TypeOK, [Next]_vars, NEW d \in Device
    PROVE  /\ \A t \in Times : t <= clock /\ AuthorizedAt(d, t) => AuthorizedAt(d, t)'
           /\ \A t \in Times : t <= clock /\ BoundAt(d, t) => BoundAt(d, t)'
           /\ \A e \in Nat : e <= clock + Minute /\ AuthorizedLease(d, e)
                             => AuthorizedLease(d, e)'
           /\ \A e \in Nat : e <= clock + Minute /\ BoundLease(d, e) => BoundLease(d, e)'
<1>1. clock \in Times
  BY NowsAreTimes DEF TypeOK
<1>2. DeviceAuthorized(d)' \/ lostAt'[d] =
        IF DeviceAuthorized(d) THEN clock ELSE lostAt[d]
  <2>1. CASE UNCHANGED vars
    <3>1. lostAt' = lostAt /\ devices' = devices /\ users' = users
      BY <2>1 DEF vars, historyVars, storeVars, tables
    <3> QED
      BY <3>1 DEF DeviceAuthorized
  <2>2. CASE History
    BY <2>2 DEF History
  <2> QED
    BY <2>1, <2>2 DEF Next
<1>3. ~Unbound(d)' \/ unboundAt'[d] = IF Unbound(d) THEN unboundAt[d] ELSE clock
  <2>1. CASE UNCHANGED vars
    <3>1. unboundAt' = unboundAt /\ bindings' = bindings
      BY <2>1 DEF vars, historyVars, storeVars, tables
    <3> QED
      BY <3>1 DEF Unbound, Bound
  <2>2. CASE History
    BY <2>2 DEF History
  <2> QED
    BY <2>1, <2>2 DEF Next
<1>4. ASSUME NEW t \in Times, t <= clock
      PROVE  /\ AuthorizedAt(d, t) => AuthorizedAt(d, t)'
             /\ BoundAt(d, t) => BoundAt(d, t)'
  BY <1>1, <1>2, <1>3, <1>4 DEF AuthorizedAt, BoundAt
<1>5. ASSUME NEW e \in Nat, e <= clock + Minute
      PROVE  /\ AuthorizedLease(d, e) => AuthorizedLease(d, e)'
             /\ BoundLease(d, e) => BoundLease(d, e)'
  BY <1>1, <1>2, <1>3, <1>5 DEF AuthorizedLease, BoundLease
<1> QED
  BY <1>4, <1>5

-----------------------------------------------------------------------------
(* The maps and the handlers.                                              *)

\* A step takes an attempt away, stores one for a handler or renews one.
LEMMA AttemptChange ==
    ASSUME TypeOK, CallsInv, [Next]_vars, NEW to \in Device
    PROVE  \/ attempts'[to] \in {attempts[to], NoAttempt}
           \/ \E r \in Req, n \in Network, id \in Attempt :
                 BeginInsert(r, n, id) /\ calls[r].to = to
           \/ \E r \in Req : /\ RenewLease(r) /\ calls[r].to = to /\ LeaseAuthorized(to)
                             /\ attempts'[to] = Renewed(attempts[to], calls[r].now)
<1>1. attempts \in [Device -> {NoAttempt} \cup AttemptRow]
  BY DEF TypeOK
<1> DEFINE Less == attempts'[to] \in {attempts[to], NoAttempt}
<1>2. \A now : Swept(now)[to] \in {attempts[to], NoAttempt}
  BY <1>1 DEF Swept
<1>3. UNCHANGED attempts => Less
  OBVIOUS
<1>4. ASSUME NEW r \in Req, HandlerStep(r),
             ~\E n \in Network, id \in Attempt : BeginInsert(r, n, id), ~RenewLease(r)
      PROVE  Less
  <2>1. BeginCheck(r) \/ BeginRefuse(r) => Less
    BY <1>2, <1>3 DEF BeginCheck, BeginRefuse
  <2>2. NotifyFails(r) => Less
    BY <1>1 DEF NotifyFails, Remove
  <2> QED
    BY <1>3, <1>4, <2>1, <2>2
    DEF HandlerStep, BeginLock, RenewLock, HeartbeatRead, BeginUnshared, NotifyTarget,
        HeartbeatWrite
<1>5. ASSUME NEW r \in Req, NEW n \in Network, NEW id \in Attempt, BeginInsert(r, n, id)
      PROVE  Less \/ calls[r].to = to
  BY <1>1, <1>5 DEF BeginInsert
<1>6. ASSUME NEW r \in Req, RenewLease(r)
      PROVE  Less \/ (/\ calls[r].to = to /\ LeaseAuthorized(to)
                      /\ attempts'[to] = Renewed(attempts[to], calls[r].now))
  BY <1>1, <1>6 DEF RenewLease
<1>7. \A d \in Device : Offline(d) => Less
  BY DEF Offline
<1>8. \A d, e \in Device : End(d, e) => Less
  BY <1>1 DEF End
<1>9. [StoreNext]_storeVars /\ UNCHANGED sessionVars => Less
  BY DEF sessionVars
<1>10. Restart => Less
  BY DEF Restart
<1> QED
  BY <1>4, <1>5, <1>6, <1>7, <1>8, <1>9, <1>10, Steps

\* Times in rows and calls, and the clock, are numbers.
LEMMA Numbers ==
    ASSUME TypeOK
    PROVE  /\ clock \in Times /\ Times \subseteq Nat /\ Minute \in Nat
           /\ \A to \in Device : Dialled(to) => attempts[to].expires \in Nat
           /\ \A d \in Device, u \in User :
                 presence[<<d, u>>] # None => presence[<<d, u>>] \in Times
<1>1. clock \in Times /\ Times \subseteq Nat
  BY NowsAreTimes DEF TypeOK, Times
<1>2. ASSUME NEW to \in Device, Dialled(to) PROVE attempts[to].expires \in Nat
  BY <1>2, DialledRow, Fields, TimeAssumption, LeaseAssumption
<1>3. \A d \in Device, u \in User : presence[<<d, u>>] # None => presence[<<d, u>>] \in Times
  BY DEF TypeOK
<1> QED
  BY <1>1, <1>2, <1>3, LeaseAssumption

\* Presence is reported at a time the machine was authorized.
LEMMA NextPresence ==
    ASSUME TypeOK, CallsInv, PresenceInv, [Next]_vars PROVE PresenceInv'
<1> SUFFICES ASSUME NEW d \in Device, NEW u \in User, presence'[<<d, u>>] # None
             PROVE  PresenceOK(d, u)'
  BY DEF PresenceInv, PresenceOK
<1>1. clock \in Nat /\ clock' \in {clock, clock + 1} /\ Times \subseteq Nat
  BY ClockGrows, Numbers
<1>2. ASSUME NEW t \in Times, t <= clock, AuthorizedAt(d, t), presence'[<<d, u>>] = t
      PROVE  PresenceOK(d, u)'
  <2>1. AuthorizedAt(d, t)'
    BY <1>2, HistoryKept
  <2>2. t <= clock'
    BY <1>1, <1>2
  <2> QED
    BY <1>2, <2>1, <2>2 DEF AuthorizedAt, PresenceOK
<1>3. CASE presence'[<<d, u>>] = presence[<<d, u>>]
  BY <1>2, <1>3, Numbers DEF PresenceInv, PresenceOK
<1>4. ASSUME NEW r \in Req, HeartbeatWrite(r), presence'[<<d, u>>] # presence[<<d, u>>]
      PROVE  PresenceOK(d, u)'
  <2>1. /\ calls[r].op = "heartbeat" /\ calls[r] \in HeartbeatCall
        /\ calls[r].now \in Times
    BY <1>4, CallKinds, Fields DEF HeartbeatWrite
  <2>2. d = calls[r].device /\ presence'[<<d, u>>] = calls[r].now
    BY <1>4 DEF HeartbeatWrite, TypeOK
  <2>3. calls[r].now <= clock /\ AuthorizedAt(d, calls[r].now)
    BY <2>1, <2>2 DEF CallsInv, CallInv
  <2> QED
    BY <1>2, <2>1, <2>2, <2>3
<1>5. ASSUME NEW r \in Req, HandlerStep(r), ~HeartbeatWrite(r)
      PROVE  presence' = presence
  BY <1>5 DEF HandlerStep, BeginLock, RenewLock, HeartbeatRead, BeginCheck, BeginRefuse,
              BeginUnshared, BeginInsert, NotifyTarget, NotifyFails, RenewLease
<1>6. ASSUME NEW e \in Device, Offline(e) PROVE presence'[<<d, u>>] = presence[<<d, u>>]
  BY <1>6 DEF Offline
<1>7. ASSUME NEW e \in Device, NEW to \in Device, End(e, to) PROVE presence' = presence
  BY <1>7 DEF End
<1>8. ~Restart
  BY DEF Restart
<1>9. UNCHANGED sessionVars => presence' = presence
  BY DEF sessionVars
<1> QED
  BY <1>3, <1>4, <1>5, <1>6, <1>7, <1>8, <1>9, Steps

\* An attempt's lease ends within a minute of the last moment at which its two
\* ends were authorized and its target bound.
LEMMA NextLease ==
    ASSUME TypeOK, CallsInv, LeaseInv, [Next]_vars PROVE LeaseInv'
<1> SUFFICES ASSUME NEW to \in Device, attempts'[to] # NoAttempt
             PROVE  LeaseOK(to)'
  BY DEF LeaseInv, LeaseOK
<1>1. clock \in Nat /\ clock' \in {clock, clock + 1} /\ Times \subseteq Nat /\ Minute \in Nat
  BY ClockGrows, Numbers
<1>2. \A d \in Device, t \in Times :
         /\ AuthorizedAt(d, t) => AuthorizedLease(d, t + Minute)
         /\ BoundAt(d, t) => BoundLease(d, t + Minute)
  <2>1. \A t, s \in Times : t <= s => t + Minute <= s + Minute
    BY LeaseAssumption DEF Times
  <2> QED
    BY <2>1 DEF AuthorizedAt, AuthorizedLease, BoundAt, BoundLease
<1>3. ASSUME NEW from \in Device, NEW e \in Nat, e <= clock + Minute,
             AuthorizedLease(from, e), AuthorizedLease(to, e), BoundLease(to, e),
             from # to, attempts'[to].from = from, attempts'[to].expires = e
      PROVE  LeaseOK(to)'
  <2>1. AuthorizedLease(from, e)' /\ AuthorizedLease(to, e)' /\ BoundLease(to, e)'
    BY <1>3, HistoryKept
  <2>2. e <= clock' + Minute
    BY <1>1, <1>3
  <2> QED
    BY <1>3, <2>1, <2>2 DEF AuthorizedLease, BoundLease, LeaseOK
<1>4. CASE attempts'[to] = attempts[to]
  <2>1. Dialled(to) /\ attempts[to] \in AttemptRow
    BY <1>4, DialledRow DEF Dialled
  <2>2. attempts[to].from \in Device /\ attempts[to].expires \in Nat
    BY <2>1, Fields, Numbers
  <2> QED
    BY <1>3, <1>4, <2>1, <2>2 DEF LeaseInv, LeaseOK, Dialled
<1>5. ASSUME NEW r \in Req, NEW n \in Network, NEW id \in Attempt,
             BeginInsert(r, n, id), calls[r].to = to
      PROVE  LeaseOK(to)'
  <2> DEFINE q == calls[r]
  <2>1. q.op = "insert" /\ q \in BeginCall
    BY <1>5, CallKinds DEF BeginInsert
  <2>2. q.from \in Device /\ q.now \in Times
    BY <2>1, Fields
  <2>3. /\ q.now <= clock /\ q.from # to
        /\ AuthorizedAt(q.from, q.now) /\ AuthorizedAt(to, q.now)
    BY <1>5, <2>1 DEF CallsInv, CallInv
  <2>4. BoundAt(to, q.now)
    BY <1>5 DEF BeginInsert, BoundAt, Unbound
  <2>5. attempts'[to].from = q.from /\ attempts'[to].expires = q.now + Minute
    BY <1>5 DEF BeginInsert, TypeOK
  <2>6. q.now + Minute \in Nat /\ q.now + Minute <= clock + Minute
    BY <1>1, <2>2, <2>3 DEF Times
  <2>7. /\ AuthorizedLease(q.from, q.now + Minute) /\ AuthorizedLease(to, q.now + Minute)
        /\ BoundLease(to, q.now + Minute)
    BY <1>2, <2>2, <2>3, <2>4
  <2> HIDE DEF q
  <2> QED
    BY <1>3, <2>2, <2>3, <2>5, <2>6, <2>7
<1>6. ASSUME NEW r \in Req, RenewLease(r), calls[r].to = to, LeaseAuthorized(to),
             attempts'[to] = Renewed(attempts[to], calls[r].now)
      PROVE  LeaseOK(to)'
  <2> DEFINE now == calls[r].now
  <2>1. calls[r].op = "renew" /\ now \in Times
    BY <1>6, CallKinds, Fields DEF RenewLease
  <2>2. now <= clock /\ Dialled(to) /\ BoundAt(to, now)
    BY <1>6, <2>1 DEF CallsInv, CallInv
  <2>3. attempts[to] \in AttemptRow /\ attempts[to].from \in Device /\ attempts[to].from # to
    BY <2>2, DialledRow, Fields DEF LeaseInv, LeaseOK, Dialled
  <2>4. attempts'[to].from = attempts[to].from /\ attempts'[to].expires = now + Minute
    BY <1>6, <2>3 DEF Renewed, AttemptRow
  <2>5. AuthorizedAt(attempts[to].from, now) /\ AuthorizedAt(to, now)
    BY <1>6 DEF LeaseAuthorized, AuthorizedAt
  <2>6. now + Minute \in Nat /\ now + Minute <= clock + Minute
    BY <1>1, <2>1, <2>2 DEF Times
  <2>7. /\ AuthorizedLease(attempts[to].from, now + Minute)
        /\ AuthorizedLease(to, now + Minute) /\ BoundLease(to, now + Minute)
    BY <1>2, <2>1, <2>2, <2>3, <2>5
  <2> HIDE DEF now
  <2> QED
    BY <1>3, <2>3, <2>4, <2>6, <2>7
<1> QED
  BY <1>4, <1>5, <1>6, AttemptChange

\* A handler that a step leaves alone, and whose lock and map it respects, still
\* knows what it knew.
LEMMA CallKept ==
    ASSUME TypeOK, CallsInv, [Next]_vars, NEW s \in Req, calls'[s] = calls[s],
           mu = s => mu' = s /\ attempts' = attempts
    PROVE  CallInv(s)'
<1> DEFINE q == calls[s]
<1>1. \A t \in Times : t <= clock => t <= clock'
  BY ClockGrows, Numbers DEF Times
<1>2. CASE q.op \in {"begin", "insert"}
  <2>1. q.from \in Device /\ q.to \in Device /\ q.now \in Times
    BY <1>2, CallKinds, Fields
  <2>2. mu' = s /\ attempts' = attempts /\ q.now <= clock' /\ q.from # q.to
    BY <1>1, <1>2, <2>1 DEF CallsInv, CallInv
  <2>3. CASE q.op = "insert"
    <3>1. ~Busy(attempts, q.from, q.to) /\ q.now <= clock
          /\ AuthorizedAt(q.from, q.now) /\ AuthorizedAt(q.to, q.now)
      BY <2>3 DEF CallsInv, CallInv
    <3>2. ASSUME NEW d \in {q.from, q.to}
          PROVE  \/ (devices[d].owner \in User /\ users[devices[d].owner] = "enabled"
                      /\ ~devices[d].revoked)'
                 \/ lostAt'[d] \in Times /\ q.now <= lostAt'[d]
      BY <2>1, <3>1, HistoryKept DEF AuthorizedAt, DeviceAuthorized
    <3>3. ~Busy(attempts, q.from, q.to)'
      BY <2>2, <3>1 DEF Busy
    <3> QED
      BY <2>2, <2>3, <3>2, <3>3 DEF CallInv, AuthorizedAt, DeviceAuthorized
  <2> QED
    BY <1>2, <2>2, <2>3 DEF CallInv
<1>3. CASE q.op = "renew"
  <2>1. q.to \in Device /\ q.now \in Times
    BY <1>3, CallKinds, Fields
  <2>2. /\ mu' = s /\ attempts' = attempts /\ q.now <= clock /\ q.now <= clock'
        /\ Dialled(q.to) /\ BoundAt(q.to, q.now)
    BY <1>1, <1>3, <2>1 DEF CallsInv, CallInv
  <2>3. \/ \E n \in Network : <<n, q.to>> \in bindings'
        \/ unboundAt'[q.to] \in Times /\ q.now <= unboundAt'[q.to]
    BY <2>1, <2>2, HistoryKept DEF BoundAt, Unbound, Bound
  <2>4. BoundAt(q.to, q.now)'
    BY <2>1, <2>3 DEF BoundAt, Unbound, Bound
  <2> QED
    BY <1>3, <2>2, <2>4 DEF CallInv, Dialled
<1>4. CASE q.op = "heartbeat"
  <2>1. q.device \in Device /\ q.now \in Times
    BY <1>4, CallKinds, Fields
  <2>2. q.now <= clock /\ q.now <= clock' /\ AuthorizedAt(q.device, q.now)
    BY <1>1, <1>4, <2>1 DEF CallsInv, CallInv
  <2>3. \/ (devices[q.device].owner \in User /\ users[devices[q.device].owner] = "enabled"
                /\ ~devices[q.device].revoked)'
        \/ lostAt'[q.device] \in Times /\ q.now <= lostAt'[q.device]
    BY <2>1, <2>2, HistoryKept DEF AuthorizedAt, DeviceAuthorized
  <2> QED
    BY <1>4, <2>2, <2>3 DEF CallInv, AuthorizedAt, DeviceAuthorized
<1> QED
  BY <1>2, <1>3, <1>4 DEF CallInv

\* The others keep what they hold while a handler takes a step: it needs the
\* lock, or finds it free, to change a map.
LEMMA OthersKept ==
    ASSUME TypeOK, CallsInv, NEW r \in Req, NEW s \in Req, s # r, HandlerStep(r)
    PROVE  /\ calls'[s] = calls[s]
           /\ mu = s => mu' = s /\ attempts' = attempts
<1> DEFINE Goal == /\ calls'[s] = calls[s]
                   /\ mu = s => mu' = s /\ attempts' = attempts
<1>1. calls \in [Req -> Calls] /\ s # None
  BY LeaseAssumption DEF TypeOK, Calls
<1>2. \A q : Continue(r, q) => calls'[s] = calls[s]
  BY <1>1 DEF Continue
<1>3. Return(r) => calls'[s] = calls[s]
  BY <1>1 DEF Return
<1>4. calls[r].op \in {"begin", "insert", "renew"} => mu # s
  BY DEF CallsInv, CallInv
<1>5. ASSUME NEW now, NEW d, NEW to, BeginLock(r, d, to, now) \/ RenewLock(r, d, to, now)
      PROVE  Goal
  BY <1>1, <1>2, <1>5 DEF BeginLock, RenewLock, Lock
<1>6. ASSUME NEW now, NEW d, NEW u, HeartbeatRead(r, d, u, now) PROVE Goal
  BY <1>2, <1>6 DEF HeartbeatRead
<1>7. CASE BeginCheck(r)
  BY <1>2, <1>3, <1>4, <1>7 DEF BeginCheck
<1>8. CASE BeginRefuse(r) \/ BeginUnshared(r)
  BY <1>3, <1>4, <1>8 DEF BeginRefuse, BeginUnshared
<1>9. ASSUME NEW n, NEW id, BeginInsert(r, n, id) PROVE Goal
  BY <1>2, <1>4, <1>9 DEF BeginInsert
<1>10. CASE NotifyTarget(r) \/ NotifyFails(r) \/ HeartbeatWrite(r)
  BY <1>1, <1>3, <1>10 DEF NotifyTarget, NotifyFails, HeartbeatWrite
<1>11. CASE RenewLease(r)
  BY <1>3, <1>4, <1>11 DEF RenewLease
<1> QED
  BY <1>5, <1>6, <1>7, <1>8, <1>9, <1>10, <1>11 DEF HandlerStep

\* What a handler learns in its own step is true when it takes it.
LEMMA OwnCall ==
    ASSUME TypeOK, CallsInv, [Next]_vars, NEW r \in Req, HandlerStep(r)
    PROVE  CallInv(r)'
<1>1. calls \in [Req -> Calls]
  BY DEF TypeOK, Calls
<1>2. \A q : Continue(r, q) => calls'[r] = q
  BY <1>1 DEF Continue
<1>3. \A t \in Nows : t \in Times /\ t <= clock /\ t <= clock'
  BY ClockGrows, NowsAreTimes, Numbers DEF Nows, Times, TypeOK
<1>4. calls'[r].op \in {"none", "notify"} => CallInv(r)'
  BY DEF CallInv
<1>5. Return(r) => calls'[r].op = "none"
  BY <1>1, CallKinds DEF Return
<1>6. ASSUME NEW now \in Nows, NEW d \in Device, NEW to \in Device, BeginLock(r, d, to, now)
      PROVE  CallInv(r)'
  BY <1>2, <1>3, <1>6 DEF BeginLock, Lock, CallInv
<1>7. ASSUME NEW now \in Nows, NEW d \in Device, NEW to \in Device, RenewLock(r, d, to, now)
      PROVE  CallInv(r)'
  <2>1. calls'[r] = [op |-> "renew", to |-> to, now |-> now]
    BY <1>2, <1>7 DEF RenewLock
  <2>2. mu' = r /\ Dialled(to)'
    BY <1>7 DEF RenewLock, Lock, Dialled
  <2>3. BoundAt(to, now)
    BY <1>7 DEF RenewLock, SameNetwork, BoundAt, Unbound
  <2>4. BoundAt(to, now)'
    BY <1>3, <2>3, HistoryKept
  <2> QED
    BY <1>3, <2>1, <2>2, <2>4 DEF CallInv, BoundAt, Unbound, Bound, Dialled
<1>8. ASSUME NEW now \in Nows, NEW d \in Device, NEW u \in User, HeartbeatRead(r, d, u, now)
      PROVE  CallInv(r)'
  <2>1. calls'[r] = [op |-> "heartbeat", device |-> d, user |-> u, now |-> now]
    BY <1>2, <1>8 DEF HeartbeatRead
  <2>2. AuthorizedAt(d, now)'
    BY <1>3, <1>8, HistoryKept DEF HeartbeatRead, AuthorizedAt
  <2> QED
    BY <1>3, <2>1, <2>2 DEF CallInv, AuthorizedAt, DeviceAuthorized
<1>9. CASE BeginCheck(r)
  <2> DEFINE q == calls[r]
  <2>1. q.op = "begin" /\ q \in BeginCall
    BY <1>9, CallKinds DEF BeginCheck
  <2>2. q.from \in Device /\ q.to \in Device /\ q.now \in Times
    BY <2>1, Fields
  <2>3. mu = r /\ q.now <= clock /\ q.from # q.to
    BY <2>1 DEF CallsInv, CallInv
  <2>4. AuthorizedAt(q.from, q.now) /\ AuthorizedAt(q.to, q.now)
    BY <1>9 DEF BeginCheck, Reachable, AuthorizedAt
  <2>5. ASSUME NEW d \in {q.from, q.to}
        PROVE  \/ (devices[d].owner \in User /\ users[devices[d].owner] = "enabled"
                    /\ ~devices[d].revoked)'
               \/ lostAt'[d] \in Times /\ q.now <= lostAt'[d]
    BY <2>2, <2>3, <2>4, HistoryKept DEF AuthorizedAt, DeviceAuthorized
  <2>6. CASE Return(r)
    BY <1>4, <1>5, <2>6
  <2>7. CASE ~Return(r)
    <3>1. /\ ~Busy(attempts', q.from, q.to) /\ mu' = mu
          /\ calls'[r] = [q EXCEPT !.op = "insert"]
      BY <1>2, <1>9, <2>7 DEF BeginCheck
    <3>2. /\ calls'[r].op = "insert" /\ calls'[r].from = q.from /\ calls'[r].to = q.to
          /\ calls'[r].now = q.now
      BY <2>1, <3>1 DEF BeginCall
    <3>3. ~Busy(attempts, calls[r].from, calls[r].to)'
      BY <3>1, <3>2 DEF Busy
    <3>4. q.now <= clock'
      BY <2>2, <2>3, ClockGrows, Numbers DEF Times
    <3> QED
      BY <2>3, <2>5, <3>1, <3>2, <3>3, <3>4 DEF CallInv, AuthorizedAt, DeviceAuthorized
  <2> QED
    BY <2>6, <2>7
<1>10. CASE BeginRefuse(r) \/ BeginUnshared(r)
  BY <1>4, <1>5, <1>10 DEF BeginRefuse, BeginUnshared
<1>11. ASSUME NEW n \in Network, NEW id \in Attempt, BeginInsert(r, n, id)
       PROVE  CallInv(r)'
  BY <1>2, <1>4, <1>11 DEF BeginInsert
<1>12. CASE NotifyTarget(r) \/ NotifyFails(r) \/ HeartbeatWrite(r) \/ RenewLease(r)
  BY <1>4, <1>5, <1>12 DEF NotifyTarget, NotifyFails, HeartbeatWrite, RenewLease
<1> QED
  BY <1>6, <1>7, <1>8, <1>9, <1>10, <1>11, <1>12 DEF HandlerStep

LEMMA NextCalls == ASSUME TypeOK, CallsInv, [Next]_vars PROVE CallsInv'
<1> SUFFICES ASSUME NEW s \in Req PROVE CallInv(s)'
  BY DEF CallsInv
<1>1. CASE UNCHANGED sessionVars
  BY <1>1, CallKept DEF sessionVars
<1>2. ASSUME NEW r \in Req, HandlerStep(r) PROVE CallInv(s)'
  BY <1>2, OwnCall, OthersKept, CallKept
<1>3. ASSUME NEW d \in Device, Offline(d) PROVE CallInv(s)'
  BY <1>3, CallKept DEF Offline
<1>4. ASSUME NEW d \in Device, NEW to \in Device, End(d, to) PROVE CallInv(s)'
  <2>1. mu # s
    BY <1>4, LeaseAssumption DEF End
  <2> QED
    BY <1>4, <2>1, CallKept DEF End
<1>5. CASE Restart
  <2>1. calls'[s].op = "none"
    BY <1>5, CallKinds DEF Restart
  <2> QED
    BY <2>1 DEF CallInv
<1> QED
  BY <1>1, <1>2, <1>3, <1>4, <1>5, Steps

\* A new attempt is stored at a free slot and against no dialling back.
LEMMA NextOnePerLink ==
    ASSUME TypeOK, CallsInv, OneAttemptPerLink, [Next]_vars PROVE OneAttemptPerLink'
<1> DEFINE From(map, a, b) == map[a] # NoAttempt /\ map[a].from = b
<1>1. ASSUME NEW a \in Device, NEW b \in Device, From(attempts', a, b),
             ~From(attempts, a, b)
      PROVE  \E r \in Req, n \in Network, id \in Attempt :
                BeginInsert(r, n, id) /\ calls[r].to = a /\ calls[r].from = b
  <2>1. attempts'[a] # NoAttempt /\ attempts'[a] # attempts[a]
    BY <1>1
  <2>2. ASSUME NEW r \in Req, RenewLease(r), calls[r].to = a,
               attempts'[a] = Renewed(attempts[a], calls[r].now)
        PROVE  FALSE
    <3>1. attempts[a] \in AttemptRow
      BY <2>2, DialledRow DEF RenewLease, CallsInv, CallInv
    <3>2. attempts'[a].from = attempts[a].from /\ attempts[a] # NoAttempt
      BY <2>2, <3>1, Fields DEF Renewed, AttemptRow
    <3> QED
      BY <1>1, <3>2
  <2>3. PICK r \in Req, n \in Network, id \in Attempt :
            BeginInsert(r, n, id) /\ calls[r].to = a
    BY <2>1, <2>2, AttemptChange
  <2>4. attempts'[a].from = calls[r].from
    BY <2>3 DEF BeginInsert, TypeOK
  <2> QED
    BY <1>1, <2>3, <2>4
<1>2. ASSUME NEW a \in Device, NEW b \in Device, From(attempts', a, b), From(attempts', b, a),
             NEW r \in Req, NEW n \in Network, NEW id \in Attempt,
             BeginInsert(r, n, id), calls[r].to = a, calls[r].from = b
      PROVE  FALSE
  <2>1. a # b /\ ~Busy(attempts, b, a)
    BY <1>2 DEF BeginInsert, CallsInv, CallInv
  <2>2. attempts'[b] = attempts[b]
    BY <1>2, <2>1 DEF BeginInsert, TypeOK
  <2> QED
    BY <1>2, <2>1, <2>2 DEF Busy
<1> SUFFICES ASSUME NEW a \in Device, NEW b \in Device, From(attempts', a, b),
                    From(attempts', b, a)
             PROVE  FALSE
  BY DEF OneAttemptPerLink, Dialled
<1>3. CASE From(attempts, a, b) /\ From(attempts, b, a)
  BY <1>3 DEF OneAttemptPerLink, Dialled
<1> HIDE DEF From
<1> QED
  BY <1>1, <1>2, <1>3

-----------------------------------------------------------------------------
(* What the specification promises.                                        *)

LEMMA InitInv == Init => SessInv
<1> SUFFICES ASSUME Init PROVE SessInv
  OBVIOUS
<1>1. \A r \in Req : calls[r] = Idle
  BY DEF Init, SessionsInit
<1>2. TypeOK
  <2>1. StoreTypeOK
    BY StoreInitType DEF Init
  <2> QED
    BY <2>1 DEF Init, SessionsInit, TypeOK
<1>3. PresenceInv /\ LeaseInv /\ OneAttemptPerLink
  BY DEF Init, SessionsInit, PresenceInv, PresenceOK, LeaseInv, LeaseOK, OneAttemptPerLink,
         Dialled
<1>4. CallsInv
  BY <1>1 DEF CallsInv, CallInv, Idle
<1> QED
  BY <1>2, <1>3, <1>4 DEF SessInv

LEMMA NextInv == SessInv /\ [Next]_vars => SessInv'
BY NextType, NextPresence, NextLease, NextCalls, NextOnePerLink DEF SessInv

LEMMA SessInvariant == Spec => []SessInv
BY InitInv, NextInv, PTL DEF Spec

\* Presence, the attempts and what the handlers hold are always well typed.
THEOREM SessionsTypeCorrect == Spec => []TypeOK
<1>1. SessInv => TypeOK
  BY DEF SessInv
<1> QED
  BY <1>1, SessInvariant, PTL

\* Two machines never dial each other at once, for any number of handlers
\* between their check and their insert (Begin).
THEOREM OneAttempt == Spec => []OneAttemptPerLink
<1>1. SessInv => OneAttemptPerLink
  BY DEF SessInv
<1> QED
  BY <1>1, SessInvariant, PTL

\* A lease outlives the revocation of either end, or the disabling of its first
\* account, by a minute at most (Begin, Renew).
THEOREM RevocationBounds == Spec => []RevocationBoundsLease
<1>1. SessInv => RevocationBoundsLease
  BY DialledRow, Fields
  DEF SessInv, LeaseInv, LeaseOK, Dialled, AuthorizedLease, RevocationBoundsLease
<1> QED
  BY <1>1, SessInvariant, PTL

\* A lease outlives the last binding of its target by a minute at most (authorize).
THEOREM UnboundBounds == Spec => []TargetUnboundBoundsLease
<1>1. SessInv => TargetUnboundBoundsLease
  BY DEF SessInv, LeaseInv, LeaseOK, Dialled, BoundLease, TargetUnboundBoundsLease
<1> QED
  BY <1>1, SessInvariant, PTL

\* No heartbeat reports a machine present after it lost its authorization,
\* however late it gets the lock (Heartbeat).
THEOREM PresenceEnds == Spec => []PresenceEndsWithLoss
<1>1. SessInv => PresenceEndsWithLoss
  BY DEF SessInv, PresenceInv, PresenceOK, AuthorizedAt, PresenceEndsWithLoss
<1> QED
  BY <1>1, SessInvariant, PTL

\* Who may take a live attempt away.
LEMMA LiveKept ==
    ASSUME SessInv, [Next]_vars, NEW to \in Device, Dialled(to),
           attempts[to].expires > clock, attempts'[to].id # attempts[to].id
    PROVE  \/ \E d \in Device : End(d, to)
           \/ \E r \in Req : /\ calls[r].op = "notify" /\ calls'[r] = Idle
                              /\ calls[r].id = attempts[to].id
           \/ Restart
<1>1. TypeOK /\ CallsInv /\ attempts \in [Device -> {NoAttempt} \cup AttemptRow]
      /\ calls \in [Req -> Calls]
  BY DEF SessInv, TypeOK, Calls
<1>2. attempts[to] \in AttemptRow /\ attempts[to].expires \in Nat /\ clock \in Nat
  BY <1>1, DialledRow, Numbers
<1>3. attempts'[to] # attempts[to]
  OBVIOUS
<1>4. ASSUME NEW r \in Req, HandlerStep(r)
      PROVE  NotifyFails(r) /\ calls[r].id = attempts[to].id
  <2>1. ASSUME BeginCheck(r) \/ BeginRefuse(r) PROVE FALSE
    <3>1. calls[r].op = "begin" /\ calls[r].now \in Nat
      BY <1>1, <2>1, CallKinds, Fields, Numbers DEF BeginCheck, BeginRefuse
    <3>2. calls[r].now <= clock
      BY <1>1, <3>1 DEF CallsInv, CallInv
    <3>3. Swept(calls[r].now)[to] = attempts[to]
      BY <1>2, <3>1, <3>2 DEF Swept
    <3> QED
      BY <1>3, <2>1, <3>3 DEF BeginCheck, BeginRefuse
  <2>2. ASSUME NEW n \in Network, NEW id \in Attempt, BeginInsert(r, n, id) PROVE FALSE
    <3>1. attempts[calls[r].to] = NoAttempt
      BY <1>1, <2>2 DEF BeginInsert, CallsInv, CallInv, Busy
    <3> QED
      BY <1>1, <1>3, <2>2, <3>1 DEF BeginInsert, Dialled
  <2>3. ASSUME RenewLease(r) PROVE FALSE
    <3>1. Renewed(attempts[to], calls[r].now).id = attempts[to].id
      BY <1>2 DEF Renewed, AttemptRow
    <3> QED
      BY <1>1, <2>3, <3>1 DEF RenewLease
  <2>4. NotifyFails(r) => calls[r].id = attempts[to].id
    BY <1>1, <1>3 DEF NotifyFails, Remove
  <2> QED
    BY <1>3, <1>4, <2>1, <2>2, <2>3, <2>4
    DEF HandlerStep, BeginLock, RenewLock, HeartbeatRead, BeginUnshared, NotifyTarget,
        HeartbeatWrite
<1>5. ASSUME NEW r \in Req, NotifyFails(r)
      PROVE  calls[r].op = "notify" /\ calls'[r] = Idle
  BY <1>1, <1>5 DEF NotifyFails, Return
<1>6. ASSUME NEW d \in Device, NEW e \in Device, End(d, e) PROVE e = to
  BY <1>1, <1>3, <1>6 DEF End
<1>7. ASSUME NEW d \in Device, Offline(d) PROVE FALSE
  BY <1>3, <1>7 DEF Offline
<1>8. ~UNCHANGED sessionVars
  BY <1>3 DEF sessionVars
<1> QED
  BY <1>4, <1>5, <1>6, <1>7, <1>8, Steps

\* A live attempt leaves its slot by one of its ends, by its own handler or with
\* the process, and by nothing another handler does (Begin, End, deviceOperation).
THEOREM LiveAttempts == Spec => LiveAttemptKept
<1>1. SessInv /\ [Next]_vars =>
        [\A to \in Device :
           /\ Dialled(to) /\ attempts[to].expires > clock
           /\ attempts'[to].id # attempts[to].id
           => \/ \E d \in Device : End(d, to)
              \/ \E r \in Req : /\ calls[r].op = "notify" /\ calls'[r] = Idle
                                 /\ calls[r].id = attempts[to].id
              \/ Restart
        ]_vars
  BY LiveKept
<1> QED
  BY <1>1, SessInvariant, PTL DEF Spec, LiveAttemptKept
=============================================================================
