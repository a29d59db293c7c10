--------------------------- MODULE PairingProofs ---------------------------
(***************************************************************************)
(* Pairing, for any number of handlers in flight over every operation of   *)
(* the database: its types; an open pair joins two machines that may both  *)
(* act in its network; open pairs of a link are a lifetime apart; a share  *)
(* mints one pair; a deleted network is empty; and the refinement of       *)
(* PairLifecycle.                                                          *)
(***************************************************************************)
EXTENDS Pairing, StoreProofs

\* The operations of the database, as seen by pairing.
DatabaseStep == [StoreNext]_storeVars /\ UNCHANGED pairingVars

\* What a handler checked before its write still holds when it writes: the
\* share an invitation holds is a minted one of another device, an adoption
\* never pairs a device with itself, and a pair action holds the state it asks
\* for, so that its update never opens a closed pair (Invite, AdoptNetwork,
\* ActOnPair).
ActionReads == {<<"approve", "invited">>, <<"reject", "invited">>,
                <<"confirm", "approved">>, <<"revoke", "active">>}

CheckHolds(q) ==
    /\ q.op = "invite" => /\ shares[q.nonce] # NoShare
                          /\ q.sender # shares[q.nonce].device
    /\ q.op = "adopt" => \A np \in q.peers : np[2] # q.device
    /\ q.op \in {"authorize", "update"} => <<q.action, q.state>> \in ActionReads

ChecksHold == \A r \in Req : CheckHolds(requests[r])


\* The database starts well typed and no handler is in flight.
LEMMA InitType == Init => TypeOK
BY StoreInitType DEF Init, TypeOK

\* A handler that returns or goes on keeps the requests well typed.
LEMMA RequestsType ==
    ASSUME TypeOK, NEW r \in Req,
           NEW q \in {NoRequest} \cup ShareRequest \cup InviteRequest
                     \cup AdoptRequest \cup ActRequest,
           requests' = [requests EXCEPT ![r] = q]
    PROVE  requests' \in [Req -> {NoRequest} \cup ShareRequest \cup InviteRequest
                                 \cup AdoptRequest \cup ActRequest]
BY DEF TypeOK

\* What a request is, by its operation.
LEMMA RequestKinds ==
    ASSUME TypeOK, NEW r \in Req
    PROVE  /\ requests[r].op = "share" => requests[r] \in ShareRequest
           /\ requests[r].op = "invite" => requests[r] \in InviteRequest
           /\ requests[r].op = "adopt" => requests[r] \in AdoptRequest
           /\ requests[r].op \in {"authorize", "update"} => requests[r] \in ActRequest
BY DEF TypeOK, NoRequest, ShareRequest, InviteRequest, AdoptRequest, ActRequest

\* Minting a pair leaves a table of pair rows.
LEMMA InsertPairType ==
    ASSUME TypeOK, NEW p \in Pair, NEW n \in Network, NEW a \in Device,
           NEW b \in Device, NEW state \in PairStates, NEW now \in 0..MaxTime,
           InsertPair(p, n, a, b, state, now)
    PROVE  pairs' \in [Pair -> {NoPair} \cup PairRow]
<1>1. now + FiveMinutes \in Expiry
  BY TimeAssumption DEF Expiry
<1> QED
  BY <1>1 DEF InsertPair, TypeOK, StoreTypeOK, PairRow

\* The tables a pairing handler leaves alone stay well typed.
LEMMA AccountsType ==
    ASSUME StoreTypeOK, UnchangedAccounts,
           pairs' \in [Pair -> {NoPair} \cup PairRow],
           shares' \in [Nonce -> {NoShare} \cup ShareRow]
    PROVE  StoreTypeOK'
BY DEF StoreTypeOK, UnchangedAccounts

\* The share an invitation uses has been minted.
LEMMA InviteShare ==
    ASSUME TypeOK, NEW sender, NEW s \in Nonce, NEW now, InviteAllowed(sender, s, now)
    PROVE  shares[s] \in ShareRow
BY DEF InviteAllowed, TypeOK, StoreTypeOK, NoShare

\* What a handler remembers of its reads is well typed.
LEMMA ReadStepType ==
    ASSUME TypeOK, NEW r \in Req, NEW now \in Nows, ReadStep(r, now)
    PROVE  TypeOK'
<1>1. now \in 0..MaxTime
  BY TimeAssumption DEF Nows, TypeOK, StoreTypeOK
<1>2. ASSUME NEW q \in {NoRequest} \cup ShareRequest \cup InviteRequest
                       \cup AdoptRequest \cup ActRequest,
             Begin(r, q), UNCHANGED <<storeVars, mintedBy>>
      PROVE  TypeOK'
  BY <1>2, RequestsType DEF Begin, TypeOK, StoreTypeOK, storeVars, tables
<1>3. ASSUME NEW d \in Device, NEW n \in Network, ReadShareDevice(r, d, n, now)
      PROVE  TypeOK'
  BY <1>1, <1>2, <1>3 DEF ReadShareDevice, ShareRequest
<1>4. ASSUME NEW d \in Device, NEW s \in Nonce, VerifyShare(r, d, s, now)
      PROVE  TypeOK'
  BY <1>1, <1>2, <1>4 DEF VerifyShare, InviteRequest
<1>5. ASSUME NEW d \in Device, ReadPeers(r, d, now)
      PROVE  TypeOK'
  <2>1. Peers(d) \in SUBSET (Network \X Device)
    BY DEF Peers
  <2> QED
    BY <1>1, <1>2, <1>5, <2>1 DEF ReadPeers, AdoptRequest
<1>6. ASSUME NEW d \in Device, NEW p \in Pair, NEW action \in Actions,
             ReadPair(r, d, p, action, now)
      PROVE  TypeOK'
  <2>1. pairs[p] \in PairRow
    BY <1>6 DEF ReadPair, ActionFits, NoPair, TypeOK, StoreTypeOK
  <2>2. pairs[p].state \in PairStates /\ pairs[p].revision \in Nat
    BY <2>1 DEF PairRow
  <2> QED
    BY <1>2, <1>6, <2>2 DEF ReadPair, ActRequest
<1> QED
  BY <1>3, <1>4, <1>5, <1>6 DEF ReadStep

\* What a handler writes is well typed.
LEMMA WriteStepType ==
    ASSUME TypeOK, NEW r \in Req, WriteStep(r)
    PROVE  TypeOK'
<1>1. requests' = [requests EXCEPT ![r] = NoRequest] =>
        requests' \in [Req -> {NoRequest} \cup ShareRequest \cup InviteRequest
                              \cup AdoptRequest \cup ActRequest]
  BY RequestsType
<1>2. ASSUME UNCHANGED <<storeVars, mintedBy>>,
             requests' \in [Req -> {NoRequest} \cup ShareRequest \cup InviteRequest
                                   \cup AdoptRequest \cup ActRequest]
      PROVE  TypeOK'
  BY <1>2 DEF TypeOK, StoreTypeOK, storeVars, tables
<1>3. ASSUME NEW s \in Nonce, InsertShare(r, s) PROVE TypeOK'
  <2>1. requests[r] \in ShareRequest
    BY <1>3, RequestKinds DEF InsertShare
  <2>2. requests[r].device \in Device /\ requests[r].network \in Network
        /\ requests[r].now + FiveMinutes \in Expiry
    BY <2>1, TimeAssumption DEF ShareRequest, Expiry
  <2>3. shares' \in [Nonce -> {NoShare} \cup ShareRow]
    BY <1>3, <2>2 DEF InsertShare, TypeOK, StoreTypeOK, ShareRow
  <2>4. StoreTypeOK'
    BY <1>3, <2>3, AccountsType DEF InsertShare, TypeOK, StoreTypeOK
  <2> QED
    BY <1>1, <1>3, <2>4 DEF InsertShare, Finish, TypeOK
<1>4. ASSUME NEW p \in Pair, InsertInvite(r, p) PROVE TypeOK'
  <2>1. requests[r] \in InviteRequest
    BY <1>4, RequestKinds DEF InsertInvite
  <2>2. requests[r].sender \in Device /\ requests[r].nonce \in Nonce
        /\ requests[r].now \in 0..MaxTime
    BY <2>1 DEF InviteRequest
  <2>3. shares[requests[r].nonce] \in ShareRow
    BY <1>4, <2>2, InviteShare DEF InsertInvite
  <2>4. shares[requests[r].nonce].network \in Network
        /\ shares[requests[r].nonce].device \in Device
    BY <2>3 DEF ShareRow
  <2>5. pairs' \in [Pair -> {NoPair} \cup PairRow]
    BY <1>4, <2>2, <2>4, InsertPairType DEF InsertInvite, PairStates, OpenStates
  <2>6. shares' \in [Nonce -> {NoShare} \cup ShareRow]
    <3>1. shares[requests[r].nonce] # NoShare
      BY <1>4 DEF InsertInvite, InviteAllowed, NoShare
    <3> QED
      BY <1>4, <3>1, UseSharesType DEF InsertInvite, TypeOK
  <2>7. StoreTypeOK'
    BY <1>4, <2>5, <2>6, AccountsType DEF InsertInvite, TypeOK
  <2>8. mintedBy' \in [Pair -> Nonce \cup {None}]
    BY <1>4, <2>2 DEF InsertInvite, TypeOK
  <2> QED
    BY <1>1, <1>4, <2>7, <2>8 DEF InsertInvite, Finish, TypeOK
<1>5. ASSUME RefuseInvite(r) PROVE TypeOK'
  BY <1>1, <1>2, <1>5 DEF RefuseInvite, Finish
<1>6. ASSUME NEW np, PeerDone(r, np), requests[r] \in AdoptRequest
      PROVE  requests' \in [Req -> {NoRequest} \cup ShareRequest \cup InviteRequest
                                   \cup AdoptRequest \cup ActRequest]
  <2>1. [requests[r] EXCEPT !.peers = @ \ {np}] \in AdoptRequest
    BY <1>6 DEF AdoptRequest
  <2>2. CASE requests[r].peers = {np}
    BY <1>1, <1>6, <2>2 DEF PeerDone, Finish
  <2>3. CASE requests[r].peers # {np}
    <3>1. requests' = [requests EXCEPT ![r] = [requests[r] EXCEPT !.peers = @ \ {np}]]
      BY <1>6, <2>3 DEF PeerDone
    <3> QED
      BY <2>1, <3>1, RequestsType
  <2> QED
    BY <2>2, <2>3
<1>7. ASSUME NEW np \in requests[r].peers, NEW p \in Pair, AdoptPeer(r, np, p)
      PROVE  TypeOK'
  <2>1. requests[r] \in AdoptRequest
    BY <1>7, RequestKinds DEF AdoptPeer
  <2>2. /\ requests[r].device \in Device /\ requests[r].now \in 0..MaxTime
        /\ np \in Network \X Device
    BY <2>1, <1>7 DEF AdoptRequest
  <2>3. pairs' \in [Pair -> {NoPair} \cup PairRow]
    BY <1>7, <2>2, InsertPairType DEF AdoptPeer, PairStates, OpenStates
  <2>4. StoreTypeOK'
    BY <1>7, <2>3, AccountsType DEF AdoptPeer, TypeOK, StoreTypeOK
  <2> QED
    BY <1>6, <1>7, <2>1, <2>4 DEF AdoptPeer, TypeOK
<1>8. ASSUME NEW np \in requests[r].peers, SkipPeer(r, np) PROVE TypeOK'
  BY <1>2, <1>6, <1>8, RequestKinds DEF SkipPeer
<1>9. ASSUME AuthorizePair(r) PROVE TypeOK'
  <2>1. requests[r] \in ActRequest
    BY <1>9, RequestKinds DEF AuthorizePair
  <2>2. [requests[r] EXCEPT !.op = "update"] \in ActRequest
    BY <2>1 DEF ActRequest
  <2>3. \/ requests' = [requests EXCEPT ![r] = [requests[r] EXCEPT !.op = "update"]]
        \/ requests' = [requests EXCEPT ![r] = NoRequest]
    BY <1>9 DEF AuthorizePair, Finish
  <2>4. requests' \in [Req -> {NoRequest} \cup ShareRequest \cup InviteRequest
                              \cup AdoptRequest \cup ActRequest]
    BY <1>1, <2>2, <2>3, RequestsType
  <2> QED
    BY <1>2, <1>9, <2>4 DEF AuthorizePair
<1>10. ASSUME UpdatePair(r) PROVE TypeOK'
  <2>1. requests[r].pair \in Pair /\ requests[r].action \in Actions
        /\ requests[r].state \in PairStates
    BY <1>10, RequestKinds DEF UpdatePair, ActRequest
  <2>2. ActionResult(requests[r].action) \in PairStates
    BY <2>1 DEF ActionResult, Actions, PairStates, OpenStates
  <2>3. ASSUME RowUnchanged(requests[r])
        PROVE  [pairs[requests[r].pair] EXCEPT
                  !.state = ActionResult(requests[r].action),
                  !.revision = @ + 1] \in PairRow
    <3>1. pairs[requests[r].pair] \in PairRow
      BY <2>1, <2>3 DEF RowUnchanged, NoPair, PairStates, OpenStates, TypeOK, StoreTypeOK
    <3>2. pairs[requests[r].pair].revision + 1 \in Nat
      BY <3>1 DEF PairRow
    <3> QED
      BY <2>2, <3>1, <3>2 DEF PairRow
  <2>4. pairs' \in [Pair -> {NoPair} \cup PairRow]
    BY <1>10, <2>1, <2>3 DEF UpdatePair, TypeOK, StoreTypeOK
  <2>5. StoreTypeOK'
    BY <1>10, <2>4, AccountsType DEF UpdatePair, TypeOK, StoreTypeOK
  <2> QED
    BY <1>1, <1>10, <2>5 DEF UpdatePair, Finish, TypeOK
<1> QED
  BY <1>3, <1>4, <1>5, <1>7, <1>8, <1>9, <1>10 DEF WriteStep

\* Every step of pairing keeps it well typed.
LEMMA NextType == TypeOK /\ [Next]_vars => TypeOK'
<1> SUFFICES ASSUME TypeOK, [Next]_vars PROVE TypeOK'
  OBVIOUS
<1>1. CASE DatabaseStep
  BY <1>1, StoreNextType DEF DatabaseStep, TypeOK, pairingVars
<1>2. ASSUME NEW r \in Req, NEW now \in Nows, ReadStep(r, now) PROVE TypeOK'
  BY <1>2, ReadStepType
<1>3. ASSUME NEW r \in Req, WriteStep(r) PROVE TypeOK'
  BY <1>3, WriteStepType
<1>4. CASE Restart
  BY <1>4 DEF Restart, TypeOK, StoreTypeOK, tables
<1> QED
  BY <1>1, <1>2, <1>3, <1>4 DEF Next, vars, DatabaseStep

\* Pairing is always well typed: every row a handler writes, from whatever it
\* held across its steps, is a row of the schema (pairing.go).
THEOREM TypeCorrect == Spec => []TypeOK
BY InitType, NextType, PTL DEF Spec

-----------------------------------------------------------------------------
(* Open pairs are authorized.                                              *)

\* A revoked pair is not open, so a pair open after RevokePairs was left alone.
LEMMA OpenIsKept ==
    ASSUME StoreTypeOK, NEW S, RevokePairs(S), NEW p \in Pair, IsOpen(p)'
    PROVE  p \notin S /\ pairs'[p] = pairs[p] /\ IsOpen(p)
<1>1. pairs[p] \in {NoPair} \cup PairRow
  BY DEF StoreTypeOK
<1>2. Revoked(pairs[p]).state = "revoked"
  BY <1>1 DEF Revoked, NoPair, PairRow
<1> QED
  BY <1>2 DEF RevokePairs, IsOpen, OpenStates

\* An authorization lasts while the binding, the network, the device, the
\* owner's account and the link it rests on do.
LEMMA AuthorizationKept ==
    ASSUME NEW n \in Network, NEW d \in Device, BindingAuthorized(n, d),
           <<n, d>> \in bindings', links \subseteq links',
           networks'[n].owner = networks[n].owner,
           networks'[n].deleted = networks[n].deleted,
           devices'[d].revoked = devices[d].revoked,
           users'[networks[n].owner] = users[networks[n].owner]
    PROVE  BindingAuthorized(n, d)'
BY DEF BindingAuthorized

\* The ends of an open pair, each authorized in the pair's network.
LEMMA OpenEnds ==
    ASSUME StoreTypeOK, OpenPairsAuthorized, NEW p \in Pair, IsOpen(p)
    PROVE  /\ pairs[p] \in PairRow
           /\ pairs[p].network \in Network
           /\ Ends(p) \subseteq Device
           /\ \A d \in Ends(p) : BindingAuthorized(pairs[p].network, d)
<1>1. pairs[p] \in PairRow
  BY DEF StoreTypeOK, IsOpen, OpenStates, NoPair
<1>2. \A d \in Ends(p) : BindingAuthorized(pairs[p].network, d)
  BY DEF OpenPairsAuthorized, BothAuthorized, Ends
<1> QED
  BY <1>1, <1>2 DEF PairRow, Ends

\* What a step has to show of the pairs that are open after it.
LEMMA StaysAuthorized ==
    ASSUME StoreTypeOK, OpenPairsAuthorized,
           \A p \in Pair : IsOpen(p)' =>
               /\ pairs'[p] = pairs[p] /\ IsOpen(p)
               /\ \A d \in Ends(p) : BindingAuthorized(pairs[p].network, d)'
    PROVE  OpenPairsAuthorized'
BY DEF OpenPairsAuthorized, BothAuthorized, Ends

\* No operation of the database leaves a pair open whose ends it cut off
\* (UnbindDevice, DeleteNetwork, DisableUser, RevokeDevice revoke such pairs).
LEMMA DatabaseKeepsAuthorized ==
    ASSUME StoreTypeOK, OpenPairsAuthorized, StoreNext
    PROVE  OpenPairsAuthorized'
<1>1. ASSUME NEW u \in User, CreateUser(u) PROVE OpenPairsAuthorized'
  <2> SUFFICES ASSUME NEW p \in Pair, IsOpen(p), NEW d \in Ends(p)
               PROVE  BindingAuthorized(pairs[p].network, d)'
    BY <1>1, StaysAuthorized DEF CreateUser, IsOpen
  <2>1. BindingAuthorized(pairs[p].network, d)
    BY OpenEnds
  <2>2. networks[pairs[p].network].owner # u
    BY <1>1, <2>1 DEF CreateUser, BindingAuthorized
  <2>3. users'[networks[pairs[p].network].owner] = users[networks[pairs[p].network].owner]
    BY <1>1, <2>2 DEF CreateUser, StoreTypeOK
  <2> QED
    BY <1>1, <2>1, <2>3, OpenEnds, AuthorizationKept DEF CreateUser, BindingAuthorized
<1>2. ASSUME NEW u \in User, DisableUser(u) PROVE OpenPairsAuthorized'
  <2> SUFFICES ASSUME NEW p \in Pair, IsOpen(p)', IsOpen(p), pairs'[p] = pairs[p],
                      networks[pairs[p].network].owner # u, NEW d \in Ends(p)
               PROVE  BindingAuthorized(pairs[p].network, d)'
    BY <1>2, OpenIsKept, StaysAuthorized DEF DisableUser, PairsOfUser
  <2>1. BindingAuthorized(pairs[p].network, d)
    BY OpenEnds
  <2>2. users'[networks[pairs[p].network].owner] = users[networks[pairs[p].network].owner]
    BY <1>2, <2>1 DEF DisableUser, StoreTypeOK, BindingAuthorized
  <2> QED
    BY <1>2, <2>1, <2>2, OpenEnds, AuthorizationKept DEF DisableUser, BindingAuthorized
<1>3. ASSUME NEW r \in Creator, NEW n \in Network, InsertNetwork(r, n)
      PROVE  OpenPairsAuthorized'
  <2> SUFFICES ASSUME NEW p \in Pair, IsOpen(p), NEW d \in Ends(p)
               PROVE  BindingAuthorized(pairs[p].network, d)'
    BY <1>3, StaysAuthorized DEF InsertNetwork, IsOpen
  <2>1. pairs[p].network # n
    BY <1>3, OpenEnds, NoneAssumption DEF InsertNetwork, BindingAuthorized
  <2>2. networks'[pairs[p].network] = networks[pairs[p].network]
    BY <1>3, <2>1, OpenEnds DEF InsertNetwork, StoreTypeOK
  <2>3. BindingAuthorized(pairs[p].network, d)
    BY OpenEnds
  <2> QED
    BY <1>3, <2>2, <2>3, OpenEnds, AuthorizationKept DEF InsertNetwork, BindingAuthorized
<1>4. ASSUME NEW u \in User, NEW n \in Network, NEW limit \in Limits,
             UpdateNetworkLimit(u, n, limit)
      PROVE  OpenPairsAuthorized'
  <2> SUFFICES ASSUME NEW p \in Pair, IsOpen(p), NEW d \in Ends(p)
               PROVE  BindingAuthorized(pairs[p].network, d)'
    BY <1>4, StaysAuthorized DEF UpdateNetworkLimit, IsOpen
  <2>1. BindingAuthorized(pairs[p].network, d)
    BY OpenEnds
  <2>2. \A m \in Network : /\ networks'[m].owner = networks[m].owner
                           /\ networks'[m].deleted = networks[m].deleted
    BY <1>4 DEF UpdateNetworkLimit, StoreTypeOK, NetworkRow
  <2> QED
    BY <1>4, <2>1, <2>2, OpenEnds, AuthorizationKept
    DEF UpdateNetworkLimit, BindingAuthorized
<1>5. ASSUME NEW u \in User, NEW n \in Network, DeleteNetwork(u, n)
      PROVE  OpenPairsAuthorized'
  <2> SUFFICES ASSUME NEW p \in Pair, IsOpen(p)', IsOpen(p), pairs'[p] = pairs[p],
                      pairs[p].network # n, NEW d \in Ends(p)
               PROVE  BindingAuthorized(pairs[p].network, d)'
    BY <1>5, OpenIsKept, StaysAuthorized DEF DeleteNetwork
  <2>1. BindingAuthorized(pairs[p].network, d)
    BY OpenEnds
  <2>2. <<pairs[p].network, d>> \in bindings'
    BY <1>5, <2>1 DEF DeleteNetwork, BindingAuthorized
  <2> QED
    BY <1>5, <2>1, <2>2, OpenEnds, AuthorizationKept DEF DeleteNetwork, StoreTypeOK
<1>6. ASSUME NEW u \in User, NEW n \in Network, NEW t \in Token, NEW now \in Nows,
             IssueEnrollmentToken(u, n, t, now)
      PROVE  OpenPairsAuthorized'
  BY <1>6, StaysAuthorized, OpenEnds
  DEF IssueEnrollmentToken, IsOpen, BindingAuthorized
<1>7. ASSUME NEW u \in User, NEW n \in Network, NEW e \in Device, BindDevice(u, n, e)
      PROVE  OpenPairsAuthorized'
  BY <1>7, StaysAuthorized, OpenEnds DEF BindDevice, IsOpen, BindingAuthorized
<1>8. ASSUME NEW u \in User, NEW n \in Network, NEW e \in Device, UnbindDevice(u, n, e)
      PROVE  OpenPairsAuthorized'
  <2> SUFFICES ASSUME NEW p \in Pair, IsOpen(p)', IsOpen(p), pairs'[p] = pairs[p],
                      ~(pairs[p].network = n /\ e \in Ends(p)), NEW d \in Ends(p)
               PROVE  BindingAuthorized(pairs[p].network, d)'
    BY <1>8, OpenIsKept, StaysAuthorized DEF UnbindDevice
  <2>1. BindingAuthorized(pairs[p].network, d)
    BY OpenEnds
  <2>2. <<pairs[p].network, d>> \in bindings'
    BY <1>8, <2>1 DEF UnbindDevice, BindingAuthorized
  <2> QED
    BY <1>8, <2>1, <2>2, OpenEnds, AuthorizationKept DEF UnbindDevice
<1>9. ASSUME NEW u \in User, NEW n \in Network, NEW q \in Pair, DeletePair(u, n, q)
      PROVE  OpenPairsAuthorized'
  BY <1>9, OpenIsKept, StaysAuthorized, OpenEnds DEF DeletePair, BindingAuthorized
<1>10. ASSUME NEW e \in Device, NEW u, NEW n, AdmitDevice(e, u, n),
              UNCHANGED <<users, networks, pairs>>
       PROVE  OpenPairsAuthorized'
  <2> SUFFICES ASSUME NEW p \in Pair, IsOpen(p), NEW d \in Ends(p)
               PROVE  BindingAuthorized(pairs[p].network, d)'
    BY <1>10, StaysAuthorized DEF IsOpen
  <2>1. devices'[d].revoked = devices[d].revoked
    BY <1>10, OpenEnds DEF AdmitDevice, StoreTypeOK, DeviceRow
  <2>2. BindingAuthorized(pairs[p].network, d)
    BY OpenEnds
  <2> QED
    BY <1>10, <2>1, <2>2, OpenEnds, AuthorizationKept DEF AdmitDevice, BindingAuthorized
<1>11. ASSUME NEW e \in Device, RevokeDevice(e) PROVE OpenPairsAuthorized'
  <2> SUFFICES ASSUME NEW p \in Pair, IsOpen(p)', IsOpen(p), pairs'[p] = pairs[p],
                      e \notin Ends(p), NEW d \in Ends(p)
               PROVE  BindingAuthorized(pairs[p].network, d)'
    BY <1>11, OpenIsKept, StaysAuthorized DEF RevokeDevice
  <2>1. devices'[d].revoked = devices[d].revoked
    BY <1>11, OpenEnds DEF RevokeDevice, StoreTypeOK
  <2>2. BindingAuthorized(pairs[p].network, d)
    BY OpenEnds
  <2> QED
    BY <1>11, <2>1, <2>2, OpenEnds, AuthorizationKept DEF RevokeDevice, BindingAuthorized
<1>12. ASSUME NEW r \in Creator, NEW u \in User, CountNetworks(r, u)
       PROVE  OpenPairsAuthorized'
  BY <1>12, StaysAuthorized, OpenEnds DEF CountNetworks, tables, IsOpen, BindingAuthorized
<1>13. CASE Tick
  BY <1>13, StaysAuthorized, OpenEnds DEF Tick, tables, IsOpen, BindingAuthorized
<1>14. ASSUME NEW d \in Device, NEW t \in Token, NEW now \in Nows, Enroll(d, t, now)
       PROVE  OpenPairsAuthorized'
  BY <1>10, <1>14 DEF Enroll
<1>15. ASSUME NEW d \in Device, NEW n \in Network, JoinNetwork(d, n)
       PROVE  OpenPairsAuthorized'
  BY <1>10, <1>15 DEF JoinNetwork
<1> QED
  BY <1>1, <1>2, <1>3, <1>4, <1>5, <1>6, <1>7, <1>8, <1>9, <1>11, <1>12, <1>13,
     <1>14, <1>15
  DEF StoreNext, AccountStep, OwnerStep, MachineStep

\* A handler that leaves the accounts, the networks and the devices alone leaves
\* every authorization alone.
LEMMA HandlerKeepsAuthorization ==
    ASSUME UnchangedAccounts, NEW n, NEW d
    PROVE  BindingAuthorized(n, d)' = BindingAuthorized(n, d)
BY DEF UnchangedAccounts, BindingAuthorized

\* A new pair is authorized when both of its ends are.
LEMMA InsertKeepsAuthorized ==
    ASSUME TypeOK, OpenPairsAuthorized, UnchangedAccounts,
           NEW p \in Pair, NEW n \in Network, NEW a \in Device, NEW b \in Device,
           NEW state, NEW now, InsertPair(p, n, a, b, state, now),
           a # b, BothAuthorized(n, a, b)
    PROVE  OpenPairsAuthorized'
BY HandlerKeepsAuthorization
DEF TypeOK, StoreTypeOK, OpenPairsAuthorized, InsertPair, IsOpen, BothAuthorized

\* No pairing handler opens a pair its ends are not authorized for.
LEMMA HandlersKeepAuthorized ==
    ASSUME TypeOK, ChecksHold, OpenPairsAuthorized, NEW r \in Req, WriteStep(r)
    PROVE  OpenPairsAuthorized'
<1>1. ASSUME UNCHANGED pairs, UnchangedAccounts PROVE OpenPairsAuthorized'
  BY <1>1, HandlerKeepsAuthorization DEF OpenPairsAuthorized, IsOpen, BothAuthorized
<1>2. UNCHANGED storeVars => UNCHANGED pairs /\ UnchangedAccounts
  BY DEF storeVars, tables, UnchangedAccounts
<1>3. ASSUME NEW p \in Pair, InsertInvite(r, p) PROVE OpenPairsAuthorized'
  <2>1. requests[r] \in InviteRequest
    BY <1>3, RequestKinds DEF InsertInvite
  <2>2. requests[r].sender \in Device /\ requests[r].nonce \in Nonce
    BY <2>1 DEF InviteRequest
  <2>3. shares[requests[r].nonce].network \in Network
        /\ shares[requests[r].nonce].device \in Device
    BY <1>3, <2>2, InviteShare DEF InsertInvite, ShareRow
  <2>4. requests[r].sender # shares[requests[r].nonce].device
    BY <1>3 DEF InsertInvite, ChecksHold, CheckHolds
  <2> QED
    BY <1>3, <2>2, <2>3, <2>4, InsertKeepsAuthorized DEF InsertInvite, InviteAllowed
<1>4. ASSUME NEW np \in requests[r].peers, NEW p \in Pair, AdoptPeer(r, np, p)
      PROVE  OpenPairsAuthorized'
  <2>1. requests[r] \in AdoptRequest
    BY <1>4, RequestKinds DEF AdoptPeer
  <2>2. requests[r].device \in Device /\ np \in Network \X Device
    BY <1>4, <2>1 DEF AdoptRequest
  <2>3. np[2] # requests[r].device
    BY <1>4 DEF AdoptPeer, ChecksHold, CheckHolds
  <2> QED
    BY <1>4, <2>2, <2>3, InsertKeepsAuthorized DEF AdoptPeer, AdoptAllowed
<1>5. ASSUME UpdatePair(r) PROVE OpenPairsAuthorized'
  <2> DEFINE q == requests[r]
  <2>1. q.pair \in Pair
    BY <1>5, RequestKinds DEF UpdatePair, ActRequest
  <2>2. CASE RowUnchanged(q)
    <3>1. q.state \in OpenStates
      BY <1>5 DEF UpdatePair, ChecksHold, CheckHolds, ActionReads, OpenStates
    <3>2. IsOpen(q.pair)
      BY <2>2, <3>1 DEF RowUnchanged, IsOpen
    <3>3. pairs[q.pair] \in PairRow
      BY <2>1, <3>2, OpenEnds DEF TypeOK
    <3>4. \A p \in Pair : /\ pairs'[p].network = pairs[p].network
                          /\ pairs'[p].initiator = pairs[p].initiator
                          /\ pairs'[p].target = pairs[p].target
                          /\ p # q.pair => pairs'[p] = pairs[p]
      BY <1>5, <2>1, <2>2, <3>3 DEF UpdatePair, TypeOK, StoreTypeOK, PairRow
    <3>5. ASSUME NEW p \in Pair, IsOpen(p)' PROVE IsOpen(p)
      BY <3>2, <3>4, <3>5 DEF IsOpen
    <3> SUFFICES ASSUME NEW p \in Pair, IsOpen(p)'
                 PROVE  /\ (pairs[p].initiator # pairs[p].target)'
                        /\ BothAuthorized(pairs[p].network, pairs[p].initiator,
                                          pairs[p].target)'
      BY DEF OpenPairsAuthorized
    <3>6. /\ pairs[p].initiator # pairs[p].target
          /\ BothAuthorized(pairs[p].network, pairs[p].initiator, pairs[p].target)
      BY <3>5 DEF OpenPairsAuthorized
    <3>7. UnchangedAccounts
      BY <1>5 DEF UpdatePair
    <3> QED
      BY <3>4, <3>6, <3>7 DEF UnchangedAccounts, BothAuthorized, BindingAuthorized
  <2>3. CASE ~RowUnchanged(q)
    BY <1>1, <1>5, <2>3 DEF UpdatePair
  <2> QED
    BY <2>2, <2>3
<1> QED
  BY <1>1, <1>2, <1>3, <1>4, <1>5
  DEF WriteStep, InsertShare, RefuseInvite, SkipPeer, AuthorizePair

-----------------------------------------------------------------------------
(* What a handler checked before its write.                                *)

\* The device and the network of a minted share never change, and a used one
\* stays used.
ShareKept(s) == shares[s] # NoShare => /\ shares'[s] # NoShare
                                       /\ shares'[s].device = shares[s].device
                                       /\ shares'[s].network = shares[s].network
                                       /\ shares[s].used => shares'[s].used

\* Using shares up changes nobody's share but its used flag.
LEMMA UseSharesKeeps ==
    ASSUME StoreTypeOK, NEW S, UseShares(S), NEW s \in Nonce
    PROVE  ShareKept(s)
<1>1. shares[s] \in {NoShare} \cup ShareRow
  BY DEF StoreTypeOK
<1>2. ASSUME shares[s] \in ShareRow
      PROVE  LET row == [shares[s] EXCEPT !.used = TRUE] IN
             row.device = shares[s].device /\ row.network = shares[s].network /\ row.used
  BY <1>2 DEF ShareRow
<1>3. ASSUME shares[s] \in ShareRow
      PROVE  [shares[s] EXCEPT !.used = TRUE] # NoShare
  BY <1>2, <1>3, NoneAssumption DEF ShareRow, NoShare
<1> QED
  BY <1>1, <1>2, <1>3 DEF UseShares, ShareKept

\* A minted share stays minted and what it is.
LEMMA SharesKept ==
    ASSUME TypeOK, [Next]_vars, NEW s \in Nonce
    PROVE  ShareKept(s)
<1>1. CASE UNCHANGED shares
  BY <1>1 DEF ShareKept
<1>2. ASSUME NEW r \in Req, NEW n \in Nonce, InsertShare(r, n) PROVE ShareKept(s)
  BY <1>2 DEF InsertShare, ShareKept, TypeOK, StoreTypeOK
<1>3. ASSUME NEW S, UseShares(S) PROVE ShareKept(s)
  BY <1>3, UseSharesKeeps DEF TypeOK
<1>4. CASE StoreNext
  <2>1. ASSUME AccountStep \/ Tick PROVE UNCHANGED shares
    BY <2>1 DEF AccountStep, CreateUser, DisableUser, CountNetworks, InsertNetwork,
                Tick, tables
  <2>2. ASSUME MachineStep PROVE UNCHANGED shares
    BY <2>2 DEF MachineStep, Enroll, JoinNetwork, RevokeDevice
  <2>3. ASSUME OwnerStep PROVE UNCHANGED shares \/ \E S : UseShares(S)
    <3>1. ASSUME NEW u \in User, NEW n \in Network, NEW d \in Device,
                 BindDevice(u, n, d) \/ UnbindDevice(u, n, d)
          PROVE  UNCHANGED shares \/ \E S : UseShares(S)
      BY <3>1 DEF BindDevice, UnbindDevice
    <3>2. ASSUME NEW u \in User, NEW n \in Network, DeleteNetwork(u, n)
          PROVE  \E S : UseShares(S)
      BY <3>2 DEF DeleteNetwork
    <3> QED
      BY <2>3, <3>1, <3>2 DEF OwnerStep, UpdateNetworkLimit, IssueEnrollmentToken, DeletePair
  <2> QED
    BY <1>1, <1>3, <1>4, <2>1, <2>2, <2>3 DEF StoreNext
<1>5. ASSUME NEW r \in Req, NEW now \in Nows, ReadStep(r, now) PROVE ShareKept(s)
  BY <1>1, <1>5
  DEF ReadStep, ReadShareDevice, VerifyShare, ReadPeers, ReadPair, storeVars, tables
<1>6. ASSUME NEW r \in Req, WriteStep(r) PROVE ShareKept(s)
  BY <1>1, <1>2, <1>3, <1>6
  DEF WriteStep, InsertInvite, RefuseInvite, SkipPeer, AdoptPeer, AuthorizePair,
      UpdatePair, storeVars, tables
<1>7. CASE Restart \/ UNCHANGED vars
  BY <1>1, <1>7 DEF Restart, vars, storeVars, tables
<1> QED
  BY <1>4, <1>5, <1>6, <1>7 DEF Next

\* What a handler has checked stays so until it writes.
LEMMA ChecksKept ==
    ASSUME TypeOK, ChecksHold, [Next]_vars
    PROVE  ChecksHold'
<1>1. ASSUME NEW r \in Req, requests'[r] = requests[r] PROVE CheckHolds(requests[r])'
  <2>1. requests[r].op = "invite" => requests[r].nonce \in Nonce
    BY RequestKinds DEF InviteRequest
  <2> QED
    BY <1>1, <2>1, SharesKept DEF ChecksHold, CheckHolds, ShareKept
<1>2. ASSUME NEW r \in Req, requests'[r] = NoRequest PROVE CheckHolds(requests[r])'
  BY <1>2 DEF CheckHolds, NoRequest
<1>3. ASSUME NEW r \in Req, NEW now \in Nows, ReadStep(r, now)
      PROVE  CheckHolds(requests[r])' /\ \A s \in Req : s # r => requests'[s] = requests[s]
  <2>1. \A s \in Req : s # r => requests'[s] = requests[s]
    BY <1>3 DEF ReadStep, ReadShareDevice, VerifyShare, ReadPeers, ReadPair, Begin, TypeOK
  <2>2. ASSUME NEW d \in Device, NEW s \in Nonce, VerifyShare(r, d, s, now)
        PROVE  CheckHolds(requests[r])'
    BY <2>2 DEF VerifyShare, Begin, CheckHolds, TypeOK, storeVars, tables
  <2>3. ASSUME NEW d \in Device, NEW n \in Network, ReadShareDevice(r, d, n, now)
        PROVE  CheckHolds(requests[r])'
    BY <2>3 DEF ReadShareDevice, Begin, CheckHolds, TypeOK
  <2>4. ASSUME NEW d \in Device, ReadPeers(r, d, now)
        PROVE  CheckHolds(requests[r])'
    BY <2>4 DEF ReadPeers, Peers, Begin, CheckHolds, TypeOK
  <2>5. ASSUME NEW d \in Device, NEW p \in Pair, NEW action \in Actions,
               ReadPair(r, d, p, action, now)
        PROVE  CheckHolds(requests[r])'
    BY <2>5 DEF ReadPair, ActionFits, ActionReads, Begin, CheckHolds, TypeOK
  <2> QED
    BY <1>3, <2>1, <2>2, <2>3, <2>4, <2>5 DEF ReadStep
<1>4. ASSUME NEW r \in Req, NEW np, PeerDone(r, np), requests[r].op = "adopt"
      PROVE  CheckHolds(requests[r])' /\ \A s \in Req : s # r => requests'[s] = requests[s]
  <2>1. requests[r] \in AdoptRequest
    BY <1>4, RequestKinds
  <2>2. CASE requests[r].peers = {np}
    BY <1>2, <1>4, <2>2 DEF PeerDone, Finish, TypeOK
  <2>3. CASE requests[r].peers # {np}
    <3>1. requests' = [requests EXCEPT ![r].peers = @ \ {np}]
      BY <1>4, <2>3 DEF PeerDone
    <3>2. /\ requests'[r].op = "adopt" /\ requests'[r].device = requests[r].device
          /\ requests'[r].peers \subseteq requests[r].peers
      BY <2>1, <3>1 DEF AdoptRequest, TypeOK
    <3> QED
      BY <1>4, <3>1, <3>2 DEF ChecksHold, CheckHolds, TypeOK
  <2> QED
    BY <2>2, <2>3
<1>5. ASSUME NEW r \in Req, WriteStep(r)
      PROVE  CheckHolds(requests[r])' /\ \A s \in Req : s # r => requests'[s] = requests[s]
  <2>1. CASE AuthorizePair(r)
    <3>1. requests[r] \in ActRequest
      BY <2>1, RequestKinds DEF AuthorizePair
    <3>2. CASE Finish(r)
      BY <1>2, <3>2 DEF Finish, TypeOK
    <3>3. CASE requests' = [requests EXCEPT ![r].op = "update"]
      BY <2>1, <3>1, <3>3 DEF AuthorizePair, ChecksHold, CheckHolds, ActRequest, TypeOK
    <3> QED
      BY <2>1, <3>2, <3>3 DEF AuthorizePair
  <2>2. ASSUME NEW np \in requests[r].peers,
               SkipPeer(r, np) \/ \E p \in Pair : AdoptPeer(r, np, p)
        PROVE  CheckHolds(requests[r])' /\ \A s \in Req : s # r => requests'[s] = requests[s]
    BY <1>4, <2>2 DEF SkipPeer, AdoptPeer
  <2>3. CASE Finish(r)
    BY <1>2, <2>3 DEF Finish, TypeOK
  <2> QED
    BY <1>5, <2>1, <2>2, <2>3 DEF WriteStep, InsertShare, InsertInvite, RefuseInvite, UpdatePair
<1>6. CASE UNCHANGED requests
  BY <1>1, <1>6 DEF ChecksHold
<1>7. CASE Restart
  BY <1>2, <1>7 DEF Restart, ChecksHold
<1> QED
  BY <1>1, <1>3, <1>5, <1>6, <1>7 DEF Next, ChecksHold, vars, pairingVars

-----------------------------------------------------------------------------
\* Every step keeps the open pairs authorized.
LEMMA NextAuthorized ==
    ASSUME TypeOK, ChecksHold, OpenPairsAuthorized, [Next]_vars
    PROVE  OpenPairsAuthorized'
<1>1. CASE UNCHANGED tables
  BY <1>1 DEF tables, OpenPairsAuthorized, IsOpen, BothAuthorized, BindingAuthorized
<1>2. CASE StoreNext
  BY <1>2, DatabaseKeepsAuthorized DEF TypeOK
<1>3. ASSUME NEW r \in Req, NEW now \in Nows, ReadStep(r, now) PROVE UNCHANGED tables
  BY <1>3 DEF ReadStep, ReadShareDevice, VerifyShare, ReadPeers, ReadPair, storeVars
<1>4. ASSUME NEW r \in Req, WriteStep(r) PROVE OpenPairsAuthorized'
  BY <1>4, HandlersKeepAuthorized
<1>5. CASE Restart \/ UNCHANGED vars
  BY <1>1, <1>5 DEF Restart, vars, storeVars
<1> QED
  BY <1>1, <1>2, <1>3, <1>4, <1>5 DEF Next

PairingInv == TypeOK /\ ChecksHold /\ OpenPairsAuthorized

LEMMA PairingInvariant == Spec => []PairingInv
<1>1. Init => PairingInv
  <2>1. Init => ChecksHold
    BY DEF Init, ChecksHold, CheckHolds, NoRequest
  <2>2. Init => OpenPairsAuthorized
    BY DEF Init, StoreInit, OpenPairsAuthorized, IsOpen, OpenStates, NoPair
  <2> QED
    BY <2>1, <2>2, InitType DEF PairingInv
<1>2. PairingInv /\ [Next]_vars => PairingInv'
  BY NextType, ChecksKept, NextAuthorized DEF PairingInv
<1> QED
  BY <1>1, <1>2, PTL DEF Spec

\* Whatever handlers are in flight and whatever happens to the accounts, the
\* networks and the devices meanwhile, an open pair joins two machines that may
\* act in its network now (Invite, adopt, ActOnPair, UnbindDevice,
\* DeleteNetwork, DisableUser, RevokeDevice).
THEOREM OpenPairsAlwaysAuthorized == Spec => []OpenPairsAuthorized
<1>1. PairingInv => OpenPairsAuthorized
  BY DEF PairingInv
<1> QED
  BY <1>1, PairingInvariant, PTL

-----------------------------------------------------------------------------
(* How pairs change.                                                       *)

\* A pair keeps its ends, its network and its expiry, and is not opened.
PairKept(p) ==
    /\ pairs'[p].network = pairs[p].network
    /\ pairs'[p].initiator = pairs[p].initiator
    /\ pairs'[p].target = pairs[p].target
    /\ pairs'[p].expires = pairs[p].expires
    /\ IsOpen(p)' => IsOpen(p)

\* A pair is minted for two machines that may act in its network, on a link that
\* is not busy.
PairMinted(p, n, a, b, state, now) ==
    /\ InsertPair(p, n, a, b, state, now)
    /\ BothAuthorized(n, a, b) /\ a # b
    /\ ~LinkBusy(n, a, b, now)
    /\ UnchangedAccounts

\* An invitation mints the pair of its share.
LEMMA InviteMints ==
    ASSUME TypeOK, ChecksHold, NEW r \in Req, NEW p \in Pair, InsertInvite(r, p)
    PROVE  LET q == requests[r]
               s == shares[q.nonce] IN
           /\ q.sender \in Device /\ q.nonce \in Nonce /\ q.now \in 0..MaxTime
           /\ s \in ShareRow /\ s.network \in Network /\ s.device \in Device
           /\ PairMinted(p, s.network, q.sender, s.device, "invited", q.now)
<1>1. requests[r] \in InviteRequest
  BY RequestKinds DEF InsertInvite
<1>2. /\ requests[r].sender \in Device /\ requests[r].nonce \in Nonce
      /\ requests[r].now \in 0..MaxTime
  BY <1>1 DEF InviteRequest
<1>3. shares[requests[r].nonce] \in ShareRow
  BY <1>2, InviteShare DEF InsertInvite
<1>4. /\ shares[requests[r].nonce].network \in Network
      /\ shares[requests[r].nonce].device \in Device
  BY <1>3 DEF ShareRow
<1>5. requests[r].sender # shares[requests[r].nonce].device
  BY DEF InsertInvite, ChecksHold, CheckHolds
<1> QED
  BY <1>2, <1>3, <1>4, <1>5 DEF InsertInvite, InviteAllowed, PairMinted

\* An adoption mints the pair of the machine and a peer.
LEMMA AdoptionMints ==
    ASSUME TypeOK, ChecksHold, NEW r \in Req, NEW np \in requests[r].peers, NEW p \in Pair,
           AdoptPeer(r, np, p)
    PROVE  LET q == requests[r] IN
           /\ q.device \in Device /\ q.now \in 0..MaxTime
           /\ np[1] \in Network /\ np[2] \in Device
           /\ PairMinted(p, np[1], q.device, np[2], "active", q.now)
<1>1. requests[r] \in AdoptRequest
  BY RequestKinds DEF AdoptPeer
<1>2. /\ requests[r].device \in Device /\ requests[r].now \in 0..MaxTime
      /\ np \in Network \X Device
  BY <1>1 DEF AdoptRequest
<1>3. np[2] # requests[r].device
  BY DEF AdoptPeer, ChecksHold, CheckHolds
<1> QED
  BY <1>2, <1>3 DEF AdoptPeer, AdoptAllowed, PairMinted

\* A pair action moves an open pair on, or changes nothing.
LEMMA ActionMoves ==
    ASSUME TypeOK, ChecksHold, NEW r \in Req, UpdatePair(r)
    PROVE  \/ UNCHANGED pairs
           \/ LET q == requests[r] IN
              /\ q.pair \in Pair /\ pairs[q.pair] \in PairRow
              /\ <<q.action, pairs[q.pair].state>> \in ActionReads
              /\ pairs' = [pairs EXCEPT ![q.pair].state = ActionResult(q.action),
                                        ![q.pair].revision = @ + 1]
<1> DEFINE q == requests[r]
<1>1. q.pair \in Pair /\ <<q.action, q.state>> \in ActionReads
  BY RequestKinds DEF UpdatePair, ActRequest, ChecksHold, CheckHolds
<1>2. CASE RowUnchanged(q)
  <2>1. pairs[q.pair].state = q.state
    BY <1>2 DEF RowUnchanged
  <2>2. pairs[q.pair] # NoPair
    BY <1>1, <2>1 DEF ActionReads, NoPair
  <2> QED
    BY <1>1, <1>2, <2>1, <2>2 DEF UpdatePair, TypeOK, StoreTypeOK
<1>3. CASE ~RowUnchanged(q)
  BY <1>3 DEF UpdatePair
<1> QED
  BY <1>2, <1>3

\* A step mints one pair, or keeps every pair what it is and opens none.
LEMMA PairsChange ==
    ASSUME TypeOK, ChecksHold, [Next]_vars
    PROVE  \/ \A p \in Pair : PairKept(p)
           \/ \E p \in Pair, n \in Network, a, b \in Device, now \in 0..MaxTime :
                 PairMinted(p, n, a, b, "invited", now) \/ PairMinted(p, n, a, b, "active", now)
<1> DEFINE Kept == \A p \in Pair : PairKept(p)
<1>1. UNCHANGED pairs => Kept
  BY DEF PairKept, IsOpen
<1>2. [StoreNext]_storeVars => Kept
  <2>1. ASSUME NEW S, RevokePairs(S), NEW p \in Pair PROVE PairKept(p)
    <3>1. pairs[p] \in {NoPair} \cup PairRow
      BY DEF TypeOK, StoreTypeOK
    <3>2. LET row == Revoked(pairs[p]) IN
          /\ row.network = pairs[p].network /\ row.initiator = pairs[p].initiator
          /\ row.target = pairs[p].target /\ row.expires = pairs[p].expires
      BY <3>1 DEF Revoked, NoPair, PairRow
    <3> QED
      BY <2>1, <3>2, RevokingOpensNone DEF PairKept, RevokePairs, TypeOK
  <2> QED
    BY <1>1, <2>1, StorePairs DEF TypeOK
<1>3. ASSUME NEW r \in Req, UpdatePair(r) PROVE Kept
  <2> DEFINE q == requests[r]
  <2> SUFFICES ASSUME q.pair \in Pair, pairs[q.pair] \in PairRow,
                      <<q.action, pairs[q.pair].state>> \in ActionReads,
                      pairs' = [pairs EXCEPT ![q.pair].state = ActionResult(q.action),
                                             ![q.pair].revision = @ + 1],
                      NEW p \in Pair
               PROVE  PairKept(p)
    BY <1>1, <1>3, ActionMoves
  <2>1. IsOpen(q.pair)
    BY DEF ActionReads, IsOpen, OpenStates
  <2>2. pairs \in [Pair -> {NoPair} \cup PairRow]
    BY DEF TypeOK, StoreTypeOK
  <2>3. p # q.pair => pairs'[p] = pairs[p]
    BY <2>2
  <2>4. p = q.pair => /\ pairs'[p].network = pairs[p].network
                      /\ pairs'[p].initiator = pairs[p].initiator
                      /\ pairs'[p].target = pairs[p].target
                      /\ pairs'[p].expires = pairs[p].expires
    BY <2>2 DEF PairRow
  <2> QED
    BY <2>1, <2>3, <2>4 DEF PairKept, IsOpen
<1>4. ASSUME NEW r \in Req, NEW p \in Pair, InsertInvite(r, p)
      PROVE  \E n \in Network, a, b \in Device, now \in 0..MaxTime :
                PairMinted(p, n, a, b, "invited", now)
  BY <1>4, InviteMints
<1>5. ASSUME NEW r \in Req, NEW np \in requests[r].peers, NEW p \in Pair, AdoptPeer(r, np, p)
      PROVE  \E n \in Network, a, b \in Device, now \in 0..MaxTime :
                PairMinted(p, n, a, b, "active", now)
  BY <1>5, AdoptionMints
<1>6. ASSUME NEW r \in Req, NEW now \in Nows, ReadStep(r, now) PROVE UNCHANGED pairs
  BY <1>6 DEF ReadStep, ReadShareDevice, VerifyShare, ReadPeers, ReadPair, storeVars, tables
<1>7. ASSUME NEW r \in Req, WriteStep(r)
      PROVE  \/ UNCHANGED pairs \/ UpdatePair(r)
             \/ \E p \in Pair : InsertInvite(r, p)
             \/ \E np \in requests[r].peers, p \in Pair : AdoptPeer(r, np, p)
  BY <1>7 DEF WriteStep, InsertShare, RefuseInvite, SkipPeer, AuthorizePair, storeVars, tables
<1>8. Restart \/ UNCHANGED vars => UNCHANGED pairs
  BY DEF Restart, vars, storeVars, tables
<1> HIDE DEF Kept
<1>9. \/ Kept
      \/ \E p \in Pair, n \in Network, a, b \in Device, now \in 0..MaxTime :
            PairMinted(p, n, a, b, "invited", now) \/ PairMinted(p, n, a, b, "active", now)
  <2>1. ASSUME NEW r \in Req, WriteStep(r)
        PROVE  \/ Kept
               \/ \E p \in Pair, n \in Network, a, b \in Device, now \in 0..MaxTime :
                     \/ PairMinted(p, n, a, b, "invited", now)
                     \/ PairMinted(p, n, a, b, "active", now)
    BY <1>1, <1>3, <1>4, <1>5, <1>7, <2>1
  <2> QED
    BY <1>1, <1>2, <1>6, <1>8, <2>1 DEF Next
<1> QED
  BY <1>9 DEF Kept

-----------------------------------------------------------------------------
(* Open pairs on one link, the pairs of a share, deleted networks.         *)

\* Minting leaves the other pairs alone.
LEMMA MintedRow ==
    ASSUME TypeOK, NEW p \in Pair, NEW n, NEW a, NEW b, NEW state, NEW now,
           PairMinted(p, n, a, b, state, now)
    PROVE  /\ pairs[p] = NoPair
           /\ pairs' = [pairs EXCEPT ![p] = pairs'[p]]
           /\ pairs'[p].network = n /\ pairs'[p].initiator = a /\ pairs'[p].target = b
           /\ pairs'[p].state = state /\ pairs'[p].expires = now + FiveMinutes
           /\ pairs'[p].revision = 1
           /\ \A q \in Pair : q # p => pairs'[q] = pairs[q]
<1>1. pairs \in [Pair -> {NoPair} \cup PairRow]
  BY DEF TypeOK, StoreTypeOK
<1>2. /\ pairs[p] = NoPair
      /\ pairs' = [pairs EXCEPT ![p] =
           [network |-> n, initiator |-> a, target |-> b,
            state |-> state, expires |-> now + FiveMinutes, revision |-> 1]]
  BY DEF PairMinted, InsertPair
<1> HIDE DEF NoPair
<1> QED
  BY <1>1, <1>2

\* The busy query finds every open pair of the link that has not run out.
LEMMA NewPairSpaced ==
    ASSUME TypeOK, NEW p \in Pair, NEW n \in Network, NEW a \in Device, NEW b \in Device,
           NEW state \in {"invited", "active"}, NEW now \in 0..MaxTime,
           PairMinted(p, n, a, b, state, now),
           NEW q \in Pair, q # p, IsOpen(q), SameLink(q, n, a, b)
    PROVE  pairs[q].expires + FiveMinutes <= pairs'[p].expires
<1>1. pairs'[p].expires = now + FiveMinutes
  BY MintedRow
<1>2. pairs[q].expires \in Nat
  <2>1. pairs[q] \in {NoPair} \cup PairRow
    BY DEF TypeOK, StoreTypeOK
  <2> QED
    BY <2>1, TimeAssumption DEF NoPair, PairRow, Expiry
<1>3. ~(pairs[q].expires > now)
  BY DEF PairMinted, LinkBusy, IsOpen, OpenStates
<1> QED
  BY <1>1, <1>2, <1>3, TimeAssumption

LEMMA NextSpaced ==
    ASSUME PairingInv, OpenPairsSpaced, [Next]_vars PROVE OpenPairsSpaced'
<1> USE DEF PairingInv
<1>1. ASSUME \A p \in Pair : PairKept(p) PROVE OpenPairsSpaced'
  BY <1>1 DEF OpenPairsSpaced, PairKept, SameLink, Ends
<1>2. ASSUME NEW p \in Pair, NEW n \in Network, NEW a \in Device, NEW b \in Device,
             NEW state \in {"invited", "active"}, NEW now \in 0..MaxTime,
             PairMinted(p, n, a, b, state, now)
      PROVE  OpenPairsSpaced'
  <2>1. TypeOK
    OBVIOUS
  <2> HIDE DEF PairingInv
  <2>2. /\ pairs'[p].network = n /\ pairs'[p].initiator = a /\ pairs'[p].target = b
        /\ \A q \in Pair : q # p => pairs'[q] = pairs[q]
    BY <1>2, <2>1, MintedRow
  <2>3. ASSUME NEW q \in Pair, q # p, pairs[q].state \in OpenStates, pairs[q].network = n,
               {pairs[q].initiator, pairs[q].target} = {a, b}
        PROVE  pairs[q].expires + FiveMinutes <= pairs'[p].expires
    BY <1>2, <2>1, <2>3, NewPairSpaced DEF IsOpen, SameLink, Ends
  <2> SUFFICES ASSUME NEW x \in Pair, NEW y \in Pair, x # y,
                      pairs'[x].state \in OpenStates, pairs'[y].state \in OpenStates,
                      pairs'[x].network = pairs'[y].network,
                      {pairs'[x].initiator, pairs'[x].target} =
                        {pairs'[y].initiator, pairs'[y].target}
               PROVE  \/ pairs'[x].expires + FiveMinutes <= pairs'[y].expires
                      \/ pairs'[y].expires + FiveMinutes <= pairs'[x].expires
    BY DEF OpenPairsSpaced, IsOpen, SameLink, Ends
  <2>4. CASE x = p
    BY <2>2, <2>3, <2>4
  <2>5. CASE y = p
    BY <2>2, <2>3, <2>5
  <2>6. CASE x # p /\ y # p
    BY <2>2, <2>6 DEF OpenPairsSpaced, IsOpen, SameLink, Ends
  <2> QED
    BY <2>4, <2>5, <2>6
<1> QED
  BY <1>1, <1>2, PairsChange

\* Two open pairs on one link were minted a full lifetime apart, however many
\* requests for the link are in flight (Invite, adopt).
THEOREM OpenPairsAreSpaced == Spec => []OpenPairsSpaced
<1>1. Init => OpenPairsSpaced
  BY DEF Init, StoreInit, OpenPairsSpaced, IsOpen, OpenStates, NoPair
<1> QED
  BY <1>1, PairingInvariant, NextSpaced, PTL DEF Spec

\* The shares pairs were minted with are minted themselves: none of them can be
\* minted again, unused.
SharesMinted == \A p \in Pair : mintedBy[p] # None => shares[mintedBy[p]] # NoShare

ShareInv == ShareMintsOnePair /\ SharesMinted

\* Nothing but an invitation records a share, and a pair that has one stays in
\* its network and with its target.
LEMMA RecordKept ==
    ASSUME PairingInv, ShareInv, [Next]_vars, UNCHANGED mintedBy PROVE ShareInv'
<1> USE DEF PairingInv
<1> SUFFICES ASSUME NEW p \in Pair, mintedBy[p] # None
             PROVE  /\ \A q \in Pair : mintedBy[q] = mintedBy[p] => q = p
                    /\ shares'[mintedBy[p]].used /\ shares'[mintedBy[p]] # NoShare
                    /\ pairs'[p].network = shares'[mintedBy[p]].network
                    /\ pairs'[p].target = shares'[mintedBy[p]].device
  BY DEF ShareInv, ShareMintsOnePair, SharesMinted
<1> DEFINE s == mintedBy[p]
<1>1. /\ \A q \in Pair : mintedBy[q] = s => q = p
      /\ shares[s].used /\ shares[s] # NoShare
      /\ pairs[p].network = shares[s].network /\ pairs[p].target = shares[s].device
  BY DEF ShareInv, ShareMintsOnePair, SharesMinted
<1>2. s \in Nonce
  BY DEF TypeOK
<1>3. ShareKept(s)
  BY <1>2, SharesKept
<1>4. pairs[p] # NoPair
  <2>1. shares[s].network \in Network
    BY <1>1, <1>2 DEF TypeOK, StoreTypeOK, ShareRow
  <2> QED
    BY <1>1, <2>1, NoneAssumption DEF NoPair
<1>5. pairs'[p].network = pairs[p].network /\ pairs'[p].target = pairs[p].target
  BY <1>4, PairsChange, MintedRow DEF PairKept
<1> QED
  BY <1>1, <1>3, <1>5 DEF ShareKept

\* An invitation records a share that was unused until then.
LEMMA RecordMade ==
    ASSUME PairingInv, ShareInv, [Next]_vars, NEW r \in Req, NEW p \in Pair,
           InsertInvite(r, p)
    PROVE  ShareInv'
<1> USE DEF PairingInv
<1> DEFINE s == requests[r].nonce
<1>1. s \in Nonce /\ shares[s] \in ShareRow /\ ~shares[s].used
  BY InviteMints DEF InsertInvite, InviteAllowed
<1>2. mintedBy' = [mintedBy EXCEPT ![p] = s]
  BY DEF InsertInvite
<1>3. mintedBy \in [Pair -> Nonce \cup {None}]
  BY DEF TypeOK
<1>4. /\ shares'[s].used /\ shares'[s] # NoShare
      /\ shares'[s].network = shares[s].network /\ shares'[s].device = shares[s].device
  <2>1. shares[s] # NoShare /\ ShareKept(s)
    BY <1>1, SharesKept DEF NoShare
  <2>2. shares'[s].used
    BY <1>1, UsingShares DEF InsertInvite, TypeOK
  <2> QED
    BY <2>1, <2>2 DEF ShareKept
<1>5. /\ pairs'[p].network = shares[s].network /\ pairs'[p].target = shares[s].device
      /\ \A q \in Pair : q # p => pairs'[q] = pairs[q]
  <2>1. PairMinted(p, shares[s].network, requests[r].sender, shares[s].device,
                   "invited", requests[r].now)
    BY InviteMints
  <2> QED
    BY <2>1, MintedRow
<1>6. ASSUME NEW q \in Pair, q # p, mintedBy[q] # None
      PROVE  /\ mintedBy[q] # s
             /\ \A x \in Pair : mintedBy[x] = mintedBy[q] => x = q
             /\ shares'[mintedBy[q]].used /\ shares'[mintedBy[q]] # NoShare
             /\ pairs'[q].network = shares'[mintedBy[q]].network
             /\ pairs'[q].target = shares'[mintedBy[q]].device
  <2>1. /\ \A x \in Pair : mintedBy[x] = mintedBy[q] => x = q
        /\ shares[mintedBy[q]].used /\ shares[mintedBy[q]] # NoShare
        /\ pairs[q].network = shares[mintedBy[q]].network
        /\ pairs[q].target = shares[mintedBy[q]].device
    BY <1>6 DEF ShareInv, ShareMintsOnePair, SharesMinted
  <2>2. mintedBy[q] \in Nonce
    BY <1>3, <1>6
  <2>3. ShareKept(mintedBy[q])
    BY <2>2, SharesKept
  <2> QED
    BY <1>1, <1>5, <1>6, <2>1, <2>3 DEF ShareKept
<1> HIDE DEF s
<1>7. SharesMinted'
  BY <1>2, <1>3, <1>4, <1>6 DEF SharesMinted
<1>8. ShareMintsOnePair'
  <2> SUFFICES ASSUME NEW q \in Pair, mintedBy'[q] # None
               PROVE  /\ \A x \in Pair : mintedBy'[x] = mintedBy'[q] => x = q
                      /\ shares'[mintedBy'[q]].used
                      /\ pairs'[q].network = shares'[mintedBy'[q]].network
                      /\ pairs'[q].target = shares'[mintedBy'[q]].device
    BY DEF ShareMintsOnePair
  <2>1. CASE q = p
    <3>1. mintedBy'[q] = s
      BY <1>2, <1>3, <2>1
    <3>2. \A x \in Pair : mintedBy'[x] = s => x = p
      BY <1>2, <1>3, <1>6, <2>1, <3>1
    <3> QED
      BY <1>4, <1>5, <2>1, <3>1, <3>2
  <2>2. CASE q # p
    <3>1. mintedBy'[q] = mintedBy[q] /\ mintedBy[q] # None
      BY <1>2, <1>3, <2>2
    <3>2. \A x \in Pair : mintedBy'[x] = mintedBy[q] => x = q
      BY <1>2, <1>3, <1>6, <2>2, <3>1
    <3> QED
      BY <1>6, <2>2, <3>1, <3>2
  <2> QED
    BY <2>1, <2>2
<1> QED
  BY <1>7, <1>8 DEF ShareInv

LEMMA NextShares == ASSUME PairingInv, ShareInv, [Next]_vars PROVE ShareInv'
<1>1. ASSUME NEW r \in Req, WriteStep(r), \A p \in Pair : ~InsertInvite(r, p)
      PROVE  UNCHANGED mintedBy
  BY <1>1 DEF WriteStep, InsertShare, RefuseInvite, SkipPeer, AdoptPeer, AuthorizePair,
              UpdatePair
<1>2. ASSUME NEW r \in Req, NEW now \in Nows, ReadStep(r, now) PROVE UNCHANGED mintedBy
  BY <1>2 DEF ReadStep, ReadShareDevice, VerifyShare, ReadPeers, ReadPair
<1>3. Restart \/ UNCHANGED vars \/ UNCHANGED pairingVars => UNCHANGED mintedBy
  BY DEF Restart, vars, pairingVars
<1> QED
  BY <1>1, <1>2, <1>3, RecordKept, RecordMade DEF Next

\* A share mints at most one pair, in its network and to its device, for any
\* number of invitations that present it (Invite).
THEOREM SharesMintOnePair == Spec => []ShareMintsOnePair
<1>1. Init => ShareInv
  BY DEF Init, ShareInv, ShareMintsOnePair, SharesMinted
<1>2. ShareInv => ShareMintsOnePair
  BY DEF ShareInv
<1> QED
  BY <1>1, <1>2, PairingInvariant, NextShares, PTL DEF Spec

\* A handler issues no share in a deleted network and opens no pair in one.
LEMMA NextEmpty ==
    ASSUME PairingInv, DeletedNetworkIsEmpty, [Next]_vars PROVE DeletedNetworkIsEmpty'
<1> USE DEF PairingInv
<1>1. CASE [StoreNext]_storeVars
  BY <1>1, StoreKeepsEmpty DEF TypeOK
<1>2. ASSUME UnchangedAccounts,
             \A s \in Nonce, n \in Network :
                networks[n].deleted /\ shares'[s].network = n => shares'[s].used
      PROVE  DeletedNetworkIsEmpty'
  <2>1. OpenPairsAuthorized' /\ StoreTypeOK'
    BY NextAuthorized, NextType DEF TypeOK
  <2> SUFFICES ASSUME NEW n \in Network, networks[n].deleted PROVE LiveRows(n)'
    <3>1. (\A n \in Network : networks[n].deleted => LiveRows(n))'
      BY <1>2 DEF UnchangedAccounts
    <3> QED
      BY <2>1, <3>1 DEF DeletedNetworkIsEmpty, LiveRows, Bound
  <2>2. LiveRows(n)
    BY EmptyMeans DEF TypeOK
  <2>3. \A p \in Pair : pairs'[p].network = n => ~IsOpen(p)'
    BY <1>2, <2>1 DEF OpenPairsAuthorized, BothAuthorized, BindingAuthorized, UnchangedAccounts
  <2> QED
    BY <1>2, <2>2, <2>3 DEF LiveRows, UnchangedAccounts
<1>3. \A s \in Nonce, n \in Network :
         networks[n].deleted /\ shares[s].network = n => shares[s].used
  BY DEF DeletedNetworkIsEmpty
<1>4. UNCHANGED shares /\ UnchangedAccounts => DeletedNetworkIsEmpty'
  BY <1>2, <1>3
<1>5. ASSUME NEW r \in Req, NEW s \in Nonce, InsertShare(r, s) PROVE DeletedNetworkIsEmpty'
  <2>1. \A x \in Nonce : x # s => shares'[x] = shares[x]
    BY <1>5 DEF InsertShare, TypeOK, StoreTypeOK
  <2>2. shares'[s] = shares[s] \/ ~networks[shares'[s].network].deleted
    BY <1>5 DEF InsertShare, ShareAllowed, BindingAuthorized, TypeOK, StoreTypeOK
  <2> QED
    BY <1>2, <1>3, <1>5, <2>1, <2>2 DEF InsertShare
<1>6. ASSUME NEW r \in Req, NEW p \in Pair, InsertInvite(r, p) PROVE DeletedNetworkIsEmpty'
  <2>1. \A x \in Nonce : /\ shares'[x].network = shares[x].network
                         /\ shares[x].used => shares'[x].used
    BY <1>6, UsingShares DEF InsertInvite, TypeOK
  <2> QED
    BY <1>2, <1>3, <1>6, <2>1 DEF InsertInvite
<1>7. ASSUME NEW r \in Req, NEW now \in Nows, ReadStep(r, now) PROVE DeletedNetworkIsEmpty'
  BY <1>1, <1>7 DEF ReadStep, ReadShareDevice, VerifyShare, ReadPeers, ReadPair
<1>8. ASSUME NEW r \in Req, WriteStep(r) PROVE DeletedNetworkIsEmpty'
  <2>1. RefuseInvite(r) \/ AuthorizePair(r) \/ (\E np : SkipPeer(r, np))
          => DeletedNetworkIsEmpty'
    BY <1>1 DEF RefuseInvite, AuthorizePair, SkipPeer
  <2>2. UpdatePair(r) \/ (\E np, p : AdoptPeer(r, np, p)) => DeletedNetworkIsEmpty'
    BY <1>4 DEF UpdatePair, AdoptPeer
  <2> QED
    BY <1>5, <1>6, <1>8, <2>1, <2>2 DEF WriteStep
<1>9. ASSUME UNCHANGED tables PROVE DeletedNetworkIsEmpty'
  BY <1>9 DEF tables, DeletedNetworkIsEmpty, Bound, IsOpen
<1> QED
  BY <1>1, <1>7, <1>8, <1>9 DEF Next, Restart, vars

\* A deleted network stays empty, whatever was in flight when it went
\* (DeleteNetwork, Share, Invite, AdoptNetwork, ActOnPair, JoinNetwork).
THEOREM DeletedNetworksEmpty == Spec => []DeletedNetworkIsEmpty
<1>1. Init => DeletedNetworkIsEmpty
  BY DEF Init, StoreInit, DeletedNetworkIsEmpty
<1> QED
  BY <1>1, PairingInvariant, NextEmpty, PTL DEF Spec

-----------------------------------------------------------------------------
(* Pairing implements PairLifecycle.  The members of the abstract           *)
(* specification are the machines that may act in a network; every step     *)
(* adds members, takes members away and closes their pairs, creates a pair  *)
(* or moves one on, or is a stutter.                                        *)

Members == {nd \in Network \X Device : BindingAuthorized(nd[1], nd[2])}

\* Nobody loses an authorization, nobody gains one.
NoneLeaves == \A n \in Network, d \in Device : BindingAuthorized(n, d) => BindingAuthorized(n, d)'
NoneJoins == \A n \in Network, d \in Device : BindingAuthorized(n, d)' => BindingAuthorized(n, d)

LEMMA MembersOnly ==
    /\ NoneLeaves => Members \subseteq Members'
    /\ NoneJoins => Members' \subseteq Members
    /\ NoneLeaves /\ NoneJoins => Members' = Members
BY DEF Members, NoneLeaves, NoneJoins

\* An authorization is not new when what it rests on was there before.
LEMMA AuthorizedBefore ==
    ASSUME NEW n \in Network, NEW d \in Device, BindingAuthorized(n, d)',
           bindings' \subseteq bindings, links' = links,
           networks'[n].owner = networks[n].owner,
           networks[n].deleted => networks'[n].deleted,
           devices[d].revoked => devices'[d].revoked,
           users'[networks[n].owner] = "enabled" => users[networks[n].owner] = "enabled"
    PROVE  BindingAuthorized(n, d)
BY DEF BindingAuthorized

\* The operations of the database that admit members or concern none.
LEMMA GainingSteps ==
    ASSUME StoreTypeOK
    PROVE  /\ \A u \in User : CreateUser(u) => NoneLeaves
           /\ \A c \in Creator, u \in User : CountNetworks(c, u) => NoneLeaves
           /\ \A c \in Creator, n \in Network : InsertNetwork(c, n) => NoneLeaves
           /\ \A u \in User, n \in Network, limit \in Limits :
                 UpdateNetworkLimit(u, n, limit) => NoneLeaves
           /\ \A u \in User, n \in Network, t \in Token, now \in Nows :
                 IssueEnrollmentToken(u, n, t, now) => NoneLeaves
           /\ \A u \in User, n \in Network, d \in Device : BindDevice(u, n, d) => NoneLeaves
           /\ \A d \in Device, n \in Network : Admission(d, n) => NoneLeaves
<1> SUFFICES ASSUME NEW m \in Network, NEW e \in Device, BindingAuthorized(m, e)
             PROVE  /\ \A u \in User : CreateUser(u) => BindingAuthorized(m, e)'
                    /\ \A c \in Creator, u \in User :
                          CountNetworks(c, u) => BindingAuthorized(m, e)'
                    /\ \A c \in Creator, n \in Network :
                          InsertNetwork(c, n) => BindingAuthorized(m, e)'
                    /\ \A u \in User, n \in Network, limit \in Limits :
                          UpdateNetworkLimit(u, n, limit) => BindingAuthorized(m, e)'
                    /\ \A u \in User, n \in Network, t \in Token, now \in Nows :
                          IssueEnrollmentToken(u, n, t, now) => BindingAuthorized(m, e)'
                    /\ \A u \in User, n \in Network, d \in Device :
                          BindDevice(u, n, d) => BindingAuthorized(m, e)'
                    /\ \A d \in Device, n \in Network :
                          Admission(d, n) => BindingAuthorized(m, e)'
  BY DEF NoneLeaves
<1>1. /\ <<m, e>> \in bindings /\ networks[m].owner \in User
      /\ users[networks[m].owner] = "enabled"
  BY DEF BindingAuthorized
<1>2. ASSUME NEW u \in User, CreateUser(u) PROVE BindingAuthorized(m, e)'
  <2>1. networks[m].owner # u
    BY <1>1, <1>2 DEF CreateUser
  <2>2. users'[networks[m].owner] = users[networks[m].owner]
    BY <1>1, <1>2, <2>1 DEF CreateUser, StoreTypeOK
  <2> QED
    BY <1>1, <1>2, <2>2, AuthorizationKept DEF CreateUser
<1>3. ASSUME NEW c \in Creator, NEW u \in User, CountNetworks(c, u)
      PROVE  BindingAuthorized(m, e)'
  BY <1>3 DEF CountNetworks, tables, BindingAuthorized
<1>4. ASSUME NEW c \in Creator, NEW n \in Network, InsertNetwork(c, n)
      PROVE  BindingAuthorized(m, e)'
  <2>1. m # n
    BY <1>1, <1>4, NoneAssumption DEF InsertNetwork
  <2>2. networks'[m] = networks[m]
    BY <1>4, <2>1, InsertedNetwork
  <2> QED
    BY <1>1, <1>4, <2>2, AuthorizationKept DEF InsertNetwork
<1>5. ASSUME NEW u \in User, NEW n \in Network, NEW limit \in Limits,
             UpdateNetworkLimit(u, n, limit)
      PROVE  BindingAuthorized(m, e)'
  <2>1. /\ networks'[m].owner = networks[m].owner
        /\ networks'[m].deleted = networks[m].deleted
    BY <1>5, LimitedNetwork
  <2> QED
    BY <1>1, <1>5, <2>1, AuthorizationKept DEF UpdateNetworkLimit
<1>6. ASSUME NEW u \in User, NEW n \in Network, NEW t \in Token, NEW now \in Nows,
             IssueEnrollmentToken(u, n, t, now)
      PROVE  BindingAuthorized(m, e)'
  BY <1>6 DEF IssueEnrollmentToken, BindingAuthorized
<1>7. ASSUME NEW u \in User, NEW n \in Network, NEW d \in Device, BindDevice(u, n, d)
      PROVE  BindingAuthorized(m, e)'
  BY <1>7 DEF BindDevice, BindingAuthorized
<1>8. ASSUME NEW d \in Device, NEW n \in Network, Admission(d, n)
      PROVE  BindingAuthorized(m, e)'
  <2>1. devices'[e].revoked = devices[e].revoked
    BY <1>8 DEF Admission, AdmitDevice, StoreTypeOK, DeviceRow
  <2> QED
    BY <1>1, <1>8, <2>1, AuthorizationKept DEF Admission, AdmitDevice
<1> QED
  BY <1>2, <1>3, <1>4, <1>5, <1>6, <1>7, <1>8

\* The operations of the database that take members away, or only pairs.
LEMMA LosingSteps ==
    ASSUME StoreTypeOK
    PROVE  /\ \A u \in User : DisableUser(u) => NoneJoins
           /\ \A u \in User, n \in Network : DeleteNetwork(u, n) => NoneJoins
           /\ \A u \in User, n \in Network, d \in Device : UnbindDevice(u, n, d) => NoneJoins
           /\ \A u \in User, n \in Network, p \in Pair : DeletePair(u, n, p) => NoneJoins
           /\ \A d \in Device : RevokeDevice(d) => NoneJoins
<1> SUFFICES ASSUME NEW m \in Network, NEW e \in Device, BindingAuthorized(m, e)'
             PROVE  /\ \A u \in User : DisableUser(u) => BindingAuthorized(m, e)
                    /\ \A u \in User, n \in Network :
                          DeleteNetwork(u, n) => BindingAuthorized(m, e)
                    /\ \A u \in User, n \in Network, d \in Device :
                          UnbindDevice(u, n, d) => BindingAuthorized(m, e)
                    /\ \A u \in User, n \in Network, p \in Pair :
                          DeletePair(u, n, p) => BindingAuthorized(m, e)
                    /\ \A d \in Device : RevokeDevice(d) => BindingAuthorized(m, e)
  BY DEF NoneJoins
<1>1. ASSUME NEW u \in User, DisableUser(u) PROVE BindingAuthorized(m, e)
  <2>1. networks[m].owner \in User
    BY <1>1 DEF DisableUser, BindingAuthorized
  <2>2. users'[networks[m].owner] = "enabled" => users[networks[m].owner] = "enabled"
    BY <1>1, <2>1 DEF DisableUser, StoreTypeOK
  <2> QED
    BY <1>1, <2>2, AuthorizedBefore DEF DisableUser
<1>2. ASSUME NEW u \in User, NEW n \in Network, DeleteNetwork(u, n)
      PROVE  BindingAuthorized(m, e)
  <2>1. /\ networks'[m].owner = networks[m].owner
        /\ networks[m].deleted => networks'[m].deleted
    BY <1>2, FlaggedNetwork
  <2>2. bindings' \subseteq bindings
    BY <1>2 DEF DeleteNetwork
  <2> QED
    BY <1>2, <2>1, <2>2, AuthorizedBefore DEF DeleteNetwork
<1>3. ASSUME NEW u \in User, NEW n \in Network, NEW d \in Device, UnbindDevice(u, n, d)
      PROVE  BindingAuthorized(m, e)
  BY <1>3, AuthorizedBefore DEF UnbindDevice
<1>4. ASSUME NEW u \in User, NEW n \in Network, NEW p \in Pair, DeletePair(u, n, p)
      PROVE  BindingAuthorized(m, e)
  BY <1>4, AuthorizedBefore DEF DeletePair
<1>5. ASSUME NEW d \in Device, RevokeDevice(d) PROVE BindingAuthorized(m, e)
  <2>1. devices[e].revoked => devices'[e].revoked
    BY <1>5 DEF RevokeDevice, StoreTypeOK, DeviceRow
  <2> QED
    BY <1>5, <2>1, AuthorizedBefore DEF RevokeDevice
<1> QED
  BY <1>1, <1>2, <1>3, <1>4, <1>5

\* What the abstract specification allows, read with Members for its members.
LEMMA AbstractGain == NoneLeaves /\ UNCHANGED pairs => Lifecycle!MembersGain
<1>1. Members \subseteq Members' /\ UNCHANGED pairs => Lifecycle!MembersGain
  BY DEF Lifecycle!MembersGain, Members
<1> QED
  BY <1>1, MembersOnly

\* An open pair is backed by the members its ends are.
PairsBacked ==
    \A p \in Pair : IsOpen(p) =>
        /\ <<pairs[p].network, pairs[p].initiator>> \in Members
        /\ <<pairs[p].network, pairs[p].target>> \in Members

LEMMA AuthorizedAreBacked == StoreTypeOK /\ OpenPairsAuthorized => PairsBacked
<1> SUFFICES ASSUME StoreTypeOK, OpenPairsAuthorized, NEW p \in Pair, IsOpen(p)
             PROVE  <<pairs[p].network, pairs[p].initiator>> \in Members
                    /\ <<pairs[p].network, pairs[p].target>> \in Members
  BY DEF PairsBacked
<1>1. pairs[p] \in PairRow
  BY OpenEnds
<1>2. /\ pairs[p].network \in Network /\ pairs[p].initiator \in Device
      /\ pairs[p].target \in Device
  BY <1>1 DEF PairRow
<1>3. BothAuthorized(pairs[p].network, pairs[p].initiator, pairs[p].target)
  BY DEF OpenPairsAuthorized
<1> QED
  BY <1>2, <1>3 DEF Members, BothAuthorized

LEMMA BackedAfter ==
    ASSUME StoreTypeOK', OpenPairsAuthorized'
    PROVE  \A p \in Pair : Lifecycle!Backed(pairs'[p], Members')
<1>1. PairsBacked'
  BY AuthorizedAreBacked, PTL
<1> QED
  BY <1>1 DEF PairsBacked, IsOpen, OpenStates, Lifecycle!Backed, Lifecycle!Open

\* Taking members away revokes the pairs that need them, and maybe others.
LEMMA AbstractLeave ==
    ASSUME StoreTypeOK, [StoreNext]_storeVars, OpenPairsAuthorized', StoreTypeOK', NoneJoins
    PROVE  Lifecycle!MembersLeave
<1>1. Members' \subseteq Members
  BY MembersOnly
<1>2. pairs' = [p \in Pair |-> pairs'[p]]
  BY DEF StoreTypeOK
<1>3. ASSUME NEW p \in Pair
      PROVE  \/ pairs'[p] = pairs[p]
             \/ pairs[p].state # "absent" /\ pairs'[p] = Lifecycle!Revoke(pairs[p])
  <2>1. ASSUME NEW S, RevokePairs(S), \A q \in Pair : q \in S => pairs[q] # NoPair
        PROVE  \/ pairs'[p] = pairs[p]
               \/ pairs[p].state # "absent" /\ pairs'[p] = Lifecycle!Revoke(pairs[p])
    <3>1. CASE p \in S
      <4>1. pairs[p] \in PairRow
        BY <2>1, <3>1 DEF StoreTypeOK
      <4>2. pairs[p].state # "absent"
        BY <4>1 DEF PairRow, PairStates, OpenStates
      <4>3. pairs'[p] = Revoked(pairs[p])
        BY <2>1, <3>1 DEF RevokePairs
      <4> QED
        BY <4>2, <4>3 DEF Revoked, Lifecycle!Revoke
    <3>2. CASE p \notin S
      BY <2>1, <3>2 DEF RevokePairs
    <3> QED
      BY <3>1, <3>2
  <2> QED
    BY <2>1, StorePairs
<1> QED
  BY <1>1, <1>2, <1>3, BackedAfter DEF Lifecycle!MembersLeave, Members

\* A pair is created between two members.
LEMMA AbstractCreate ==
    ASSUME TypeOK, StoreTypeOK', OpenPairsAuthorized', NEW p \in Pair, NEW n, NEW a, NEW b,
           NEW state \in {"invited", "active"}, NEW now, PairMinted(p, n, a, b, state, now)
    PROVE  Lifecycle!Create(p)
<1>1. /\ pairs[p].state = "absent" /\ pairs' = [pairs EXCEPT ![p] = pairs'[p]]
      /\ pairs'[p].state \in {"invited", "active"} /\ pairs'[p].revision = 1
      /\ pairs'[p].initiator # pairs'[p].target
  <2>1. /\ pairs[p] = NoPair /\ pairs' = [pairs EXCEPT ![p] = pairs'[p]]
        /\ pairs'[p].state = state /\ pairs'[p].revision = 1
        /\ pairs'[p].initiator = a /\ pairs'[p].target = b
    BY MintedRow
  <2>2. a # b
    BY DEF PairMinted
  <2> QED
    BY <2>1, <2>2 DEF NoPair
<1>2. Members' = Members
  BY HandlerKeepsAuthorization DEF PairMinted, Members
<1>3. Lifecycle!Backed(pairs'[p], Members)
  BY <1>2, BackedAfter
<1> QED
  BY <1>1, <1>2, <1>3 DEF Lifecycle!Create, Members

\* A pair action moves its pair on, or is a stutter.
LEMMA AbstractMove ==
    ASSUME TypeOK, ChecksHold, NEW r \in Req, UpdatePair(r)
    PROVE  \/ Lifecycle!Move(requests[r].pair) /\ requests[r].pair \in Pair
           \/ UNCHANGED Lifecycle!vars
<1> DEFINE q == requests[r]
<1>1. Members' = Members
  BY HandlerKeepsAuthorization DEF UpdatePair, Members
<1>2. CASE UNCHANGED pairs
  BY <1>1, <1>2 DEF Lifecycle!vars, Members
<1>3. CASE /\ q.pair \in Pair
           /\ <<q.action, pairs[q.pair].state>> \in ActionReads
           /\ pairs' = [pairs EXCEPT ![q.pair].state = ActionResult(q.action),
                                     ![q.pair].revision = @ + 1]
  <2>1. <<pairs[q.pair].state, ActionResult(q.action)>> \in Lifecycle!Moves
    BY <1>3 DEF ActionReads, ActionResult, Lifecycle!Moves
  <2>2. PICK m \in Lifecycle!Moves :
            /\ pairs[q.pair].state = m[1]
            /\ pairs' = [pairs EXCEPT ![q.pair].state = m[2], ![q.pair].revision = @ + 1]
    BY <1>3, <2>1
  <2> QED
    BY <1>1, <1>3, <2>2 DEF Lifecycle!Move, Members
<1> QED
  BY <1>2, <1>3, ActionMoves

\* Every operation of the database is a step of the abstract specification.
LEMMA DatabaseRefines ==
    ASSUME StoreTypeOK, StoreNext, OpenPairsAuthorized', StoreTypeOK'
    PROVE  Lifecycle!MembersGain \/ Lifecycle!MembersLeave
<1>1. NoneJoins => Lifecycle!MembersLeave
  BY AbstractLeave
<1>2. ASSUME AccountStep PROVE Lifecycle!MembersGain \/ Lifecycle!MembersLeave
  <2>1. ASSUME NEW u \in User, CreateUser(u) PROVE Lifecycle!MembersGain
    BY <2>1, AbstractGain, GainingSteps DEF CreateUser
  <2>2. ASSUME NEW u \in User, DisableUser(u) PROVE Lifecycle!MembersLeave
    BY <1>1, <2>2, LosingSteps
  <2>3. ASSUME NEW c \in Creator, NEW u \in User, CountNetworks(c, u)
        PROVE  Lifecycle!MembersGain
    BY <2>3, AbstractGain, GainingSteps DEF CountNetworks, tables
  <2>4. ASSUME NEW c \in Creator, NEW n \in Network, InsertNetwork(c, n)
        PROVE  Lifecycle!MembersGain
    BY <2>4, AbstractGain, GainingSteps DEF InsertNetwork
  <2> QED
    BY <1>2, <2>1, <2>2, <2>3, <2>4 DEF AccountStep
<1>3. ASSUME OwnerStep PROVE Lifecycle!MembersGain \/ Lifecycle!MembersLeave
  <2>1. ASSUME NEW u \in User, NEW n \in Network, NEW limit \in Limits,
               UpdateNetworkLimit(u, n, limit)
        PROVE  Lifecycle!MembersGain
    BY <2>1, AbstractGain, GainingSteps DEF UpdateNetworkLimit
  <2>2. ASSUME NEW u \in User, NEW n \in Network, NEW t \in Token, NEW now \in Nows,
               IssueEnrollmentToken(u, n, t, now)
        PROVE  Lifecycle!MembersGain
    BY <2>2, AbstractGain, GainingSteps DEF IssueEnrollmentToken
  <2>3. ASSUME NEW u \in User, NEW n \in Network, NEW d \in Device, BindDevice(u, n, d)
        PROVE  Lifecycle!MembersGain
    BY <2>3, AbstractGain, GainingSteps DEF BindDevice
  <2>4. ASSUME NEW u \in User, NEW n \in Network, DeleteNetwork(u, n)
        PROVE  Lifecycle!MembersLeave
    BY <1>1, <2>4, LosingSteps
  <2>5. ASSUME NEW u \in User, NEW n \in Network, NEW d \in Device, UnbindDevice(u, n, d)
        PROVE  Lifecycle!MembersLeave
    BY <1>1, <2>5, LosingSteps
  <2>6. ASSUME NEW u \in User, NEW n \in Network, NEW p \in Pair, DeletePair(u, n, p)
        PROVE  Lifecycle!MembersLeave
    BY <1>1, <2>6, LosingSteps
  <2> QED
    BY <1>3, <2>1, <2>2, <2>3, <2>4, <2>5, <2>6 DEF OwnerStep
<1>4. ASSUME MachineStep PROVE Lifecycle!MembersGain \/ Lifecycle!MembersLeave
  <2>1. ASSUME NEW d \in Device, NEW n \in Network, Admission(d, n), UNCHANGED pairs
        PROVE  Lifecycle!MembersGain
    BY <2>1, AbstractGain, GainingSteps
  <2>2. ASSUME NEW d \in Device, NEW t \in Token, NEW now \in Nows, Enroll(d, t, now)
        PROVE  Lifecycle!MembersGain
    BY <2>1, <2>2, EnrollmentAdmits DEF Enroll
  <2>3. ASSUME NEW d \in Device, NEW n \in Network, JoinNetwork(d, n)
        PROVE  Lifecycle!MembersGain
    BY <2>1, <2>3, JoiningAdmits DEF JoinNetwork
  <2>4. ASSUME NEW d \in Device, RevokeDevice(d) PROVE Lifecycle!MembersLeave
    BY <1>1, <2>4, LosingSteps
  <2> QED
    BY <1>4, <2>2, <2>3, <2>4 DEF MachineStep
<1>5. Tick => Lifecycle!MembersGain
  <2>1. Tick => NoneLeaves /\ UNCHANGED pairs
    BY DEF Tick, tables, NoneLeaves, BindingAuthorized
  <2> QED
    BY <2>1, AbstractGain
<1> QED
  BY <1>2, <1>3, <1>4, <1>5 DEF StoreNext

\* Every step of pairing is a step of the abstract specification, or a stutter.
LEMMA NextRefines ==
    ASSUME PairingInv, PairingInv', [Next]_vars
    PROVE  [Lifecycle!Next]_(Lifecycle!vars)
<1>1. /\ TypeOK /\ ChecksHold /\ StoreTypeOK /\ OpenPairsAuthorized
      /\ StoreTypeOK' /\ OpenPairsAuthorized'
  BY DEF PairingInv, TypeOK
<1>2. UNCHANGED tables => UNCHANGED Lifecycle!vars
  BY DEF tables, Lifecycle!vars, BindingAuthorized
<1>3. UNCHANGED pairs /\ UnchangedAccounts => UNCHANGED Lifecycle!vars
  BY DEF UnchangedAccounts, Lifecycle!vars, BindingAuthorized
<1>4. StoreNext => Lifecycle!Next
  BY <1>1, DatabaseRefines DEF Lifecycle!Next
<1>5. ASSUME NEW r \in Req, NEW now \in Nows, ReadStep(r, now) PROVE UNCHANGED tables
  BY <1>5 DEF ReadStep, ReadShareDevice, VerifyShare, ReadPeers, ReadPair, storeVars
<1>6. ASSUME NEW r \in Req, NEW p \in Pair, InsertInvite(r, p) PROVE Lifecycle!Next
  <2>1. Lifecycle!Create(p)
    BY <1>1, <1>6, InviteMints, AbstractCreate
  <2> QED
    BY <2>1 DEF Lifecycle!Next
<1>7. ASSUME NEW r \in Req, NEW np \in requests[r].peers, NEW p \in Pair, AdoptPeer(r, np, p)
      PROVE  Lifecycle!Next
  <2>1. Lifecycle!Create(p)
    BY <1>1, <1>7, AdoptionMints, AbstractCreate
  <2> QED
    BY <2>1 DEF Lifecycle!Next
<1>8. ASSUME NEW r \in Req, UpdatePair(r) PROVE [Lifecycle!Next]_(Lifecycle!vars)
  BY <1>1, <1>8, AbstractMove DEF Lifecycle!Next
<1>9. ASSUME NEW r \in Req, WriteStep(r)
      PROVE  \/ UNCHANGED tables \/ UpdatePair(r)
             \/ UNCHANGED pairs /\ UnchangedAccounts
             \/ \E p \in Pair : InsertInvite(r, p)
             \/ \E np \in requests[r].peers, p \in Pair : AdoptPeer(r, np, p)
  BY <1>9 DEF WriteStep, InsertShare, RefuseInvite, SkipPeer, AuthorizePair, storeVars
<1>10. ASSUME NEW r \in Req, WriteStep(r) PROVE [Lifecycle!Next]_(Lifecycle!vars)
  BY <1>2, <1>3, <1>6, <1>7, <1>8, <1>9, <1>10
<1>11. Restart \/ UNCHANGED vars => UNCHANGED tables
  BY DEF Restart, vars, storeVars
<1> QED
  BY <1>2, <1>4, <1>5, <1>10, <1>11 DEF Next

\* Pairing, over its database and with any number of handlers in flight,
\* implements the life of a pair that PairLifecycle promises.
THEOREM PairingImplementsLifecycle == Spec => Lifecycle_Spec
<1>1. Init => Lifecycle!Init
  BY DEF Init, StoreInit, NoPair, Lifecycle!Init
<1>2. PairingInv /\ PairingInv' /\ [Next]_vars => [Lifecycle!Next]_(Lifecycle!vars)
  BY NextRefines
<1> QED
  BY <1>1, <1>2, PairingInvariant, PTL DEF Spec, Lifecycle_Spec, Lifecycle!Spec
=============================================================================
