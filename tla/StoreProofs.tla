---------------------------- MODULE StoreProofs ----------------------------
(***************************************************************************)
(* The database, for any number of accounts, networks, machines, tokens,   *)
(* shares and pairs: its types, the links behind its bindings, capacity    *)
(* and quota, first accounts, disabled accounts and deleted networks.      *)
(***************************************************************************)
EXTENDS Store, FiniteSetTheorems, TLAPS

\* Revoking minted pairs yields pair rows.
LEMMA RevokePairsType ==
    ASSUME StoreTypeOK, NEW S, \A p \in Pair : p \in S => pairs[p] # NoPair,
           RevokePairs(S)
    PROVE  pairs' \in [Pair -> {NoPair} \cup PairRow]
<1>1. ASSUME NEW p \in Pair, p \in S
      PROVE  Revoked(pairs[p]) \in PairRow
  <2>1. pairs[p] \in PairRow
    BY <1>1 DEF StoreTypeOK
  <2>2. pairs[p].revision + 1 \in Nat /\ "revoked" \in PairStates
    BY <2>1 DEF PairRow, PairStates
  <2> QED
    BY <2>1, <2>2 DEF PairRow, Revoked
<1> QED
  BY <1>1 DEF RevokePairs, StoreTypeOK

\* Using up minted shares yields share rows.
LEMMA UseSharesType ==
    ASSUME StoreTypeOK, NEW S, \A s \in Nonce : s \in S => shares[s] # NoShare,
           UseShares(S)
    PROVE  shares' \in [Nonce -> {NoShare} \cup ShareRow]
<1>1. ASSUME NEW s \in Nonce, s \in S
      PROVE  [shares[s] EXCEPT !.used = TRUE] \in ShareRow
  BY <1>1 DEF StoreTypeOK, ShareRow
<1> QED
  BY <1>1 DEF UseShares, StoreTypeOK

\* An open pair, a pair in a network and a pair with a device as an end have
\* been minted, and so has a share of a network.
LEMMA Minted ==
    ASSUME StoreTypeOK
    PROVE  /\ \A p \in Pair : IsOpen(p) => pairs[p] # NoPair
           /\ \A p \in Pair, n \in Network : pairs[p].network = n => pairs[p] # NoPair
           /\ \A p \in Pair, d \in Device : d \in Ends(p) => pairs[p] # NoPair
           /\ \A s \in Nonce, n \in Network : shares[s].network = n => shares[s] # NoShare
BY NoneAssumption DEF IsOpen, OpenStates, Ends, NoPair, NoShare

\* A fresh database is well typed.
LEMMA StoreInitType == StoreInit => StoreTypeOK
BY LimitAssumption, TimeAssumption
DEF StoreInit, StoreTypeOK, UserSessionRow, NetworkRow, DeviceRow, TokenRow,
    ShareRow, PairRow

\* Time does not run backwards.
LEMMA StoreClockGrows == [StoreNext]_storeVars => clock' \in {clock, clock + 1}
<1>1. ASSUME NEW u \in User, CreateUser(u) \/ DisableUser(u) PROVE clock' = clock
  BY <1>1 DEF CreateUser, DisableUser
<1>2. ASSUME NEW c, NEW u, CountNetworks(c, u) PROVE clock' = clock
  BY <1>2 DEF CountNetworks
<1>3. ASSUME NEW c, NEW n, InsertNetwork(c, n) PROVE clock' = clock
  BY <1>3 DEF InsertNetwork
<1>4. ASSUME NEW u, NEW n, NEW limit, UpdateNetworkLimit(u, n, limit) PROVE clock' = clock
  BY <1>4 DEF UpdateNetworkLimit
<1>5. ASSUME NEW u, NEW n, DeleteNetwork(u, n) PROVE clock' = clock
  BY <1>5 DEF DeleteNetwork
<1>6. ASSUME NEW u, NEW n, NEW t, NEW now, IssueEnrollmentToken(u, n, t, now)
      PROVE  clock' = clock
  BY <1>6 DEF IssueEnrollmentToken
<1>7. ASSUME NEW u, NEW n, NEW d, BindDevice(u, n, d) \/ UnbindDevice(u, n, d)
      PROVE  clock' = clock
  BY <1>7 DEF BindDevice, UnbindDevice
<1>8. ASSUME NEW u, NEW n, NEW p, DeletePair(u, n, p) PROVE clock' = clock
  BY <1>8 DEF DeletePair
<1>9. ASSUME NEW d, NEW t, NEW now, Enroll(d, t, now) PROVE clock' = clock
  BY <1>9 DEF Enroll
<1>10. ASSUME NEW d, NEW n, JoinNetwork(d, n) PROVE clock' = clock
  BY <1>10 DEF JoinNetwork
<1>11. ASSUME NEW d, RevokeDevice(d) PROVE clock' = clock
  BY <1>11 DEF RevokeDevice
<1>12. AccountStep => clock' = clock
  BY <1>1, <1>2, <1>3 DEF AccountStep
<1>13. OwnerStep => clock' = clock
  BY <1>4, <1>5, <1>6, <1>7, <1>8 DEF OwnerStep
<1>14. MachineStep => clock' = clock
  BY <1>9, <1>10, <1>11 DEF MachineStep
<1> QED
  BY <1>12, <1>13, <1>14 DEF StoreNext, Tick, storeVars

\* Every operation on the database keeps its tables well typed.
LEMMA StoreNextType == StoreTypeOK /\ [StoreNext]_storeVars => StoreTypeOK'
<1> SUFFICES ASSUME StoreTypeOK, [StoreNext]_storeVars PROVE StoreTypeOK'
  OBVIOUS
<1> USE DEF StoreTypeOK
<1>1. ASSUME NEW u \in User, CreateUser(u) PROVE StoreTypeOK'
  BY <1>1 DEF CreateUser
<1>2. ASSUME NEW u \in User, DisableUser(u) PROVE StoreTypeOK'
  <2>1. pairs' \in [Pair -> {NoPair} \cup PairRow]
    BY <1>2, RevokePairsType, Minted DEF DisableUser, PairsOfUser
  <2>2. userSessions' \in [UserToken -> UserSessionRow]
    BY <1>2 DEF DisableUser, UserSessionRow
  <2> QED
    BY <1>2, <2>1, <2>2 DEF DisableUser
<1>3. ASSUME NEW r \in Creator, NEW u \in User, CountNetworks(r, u) PROVE StoreTypeOK'
  BY <1>3 DEF CountNetworks, tables
<1>4. ASSUME NEW r \in Creator, NEW n \in Network, InsertNetwork(r, n) PROVE StoreTypeOK'
  BY <1>4 DEF InsertNetwork, NetworkRow
<1>5. ASSUME NEW u \in User, NEW n \in Network, NEW limit \in Limits,
             UpdateNetworkLimit(u, n, limit)
      PROVE  StoreTypeOK'
  BY <1>5 DEF UpdateNetworkLimit, NetworkRow
<1>6. ASSUME NEW u \in User, NEW n \in Network, DeleteNetwork(u, n) PROVE StoreTypeOK'
  <2>1. pairs' \in [Pair -> {NoPair} \cup PairRow]
    BY <1>6, RevokePairsType, Minted DEF DeleteNetwork
  <2>2. shares' \in [Nonce -> {NoShare} \cup ShareRow]
    BY <1>6, UseSharesType, Minted DEF DeleteNetwork
  <2>3. tokens' \in [Token -> {NoToken} \cup TokenRow]
    <3>1. ASSUME NEW t \in Token, tokens[t].network = n
          PROVE  [tokens[t] EXCEPT !.used = TRUE] \in TokenRow
      <4>1. tokens[t] \in TokenRow
        BY <3>1, NoneAssumption DEF NoToken
      <4> QED
        BY <4>1 DEF TokenRow
    <3> QED
      BY <1>6, <3>1 DEF DeleteNetwork
  <2>4. networks' \in [Network -> NetworkRow]
    BY <1>6 DEF DeleteNetwork, NetworkRow
  <2> QED
    BY <1>6, <2>1, <2>2, <2>3, <2>4 DEF DeleteNetwork
<1>7. ASSUME NEW u \in User, NEW n \in Network, NEW t \in Token, NEW now \in Nows,
             IssueEnrollmentToken(u, n, t, now)
      PROVE  StoreTypeOK'
  <2>1. now + FiveMinutes \in Expiry
    BY TimeAssumption DEF Nows, Expiry
  <2> QED
    BY <1>7, <2>1 DEF IssueEnrollmentToken, TokenRow
<1>8. ASSUME NEW u \in User, NEW n \in Network, NEW d \in Device, BindDevice(u, n, d)
      PROVE  StoreTypeOK'
  BY <1>8 DEF BindDevice
<1>9. ASSUME NEW u \in User, NEW n \in Network, NEW d \in Device, UnbindDevice(u, n, d)
      PROVE  StoreTypeOK'
  <2>1. pairs' \in [Pair -> {NoPair} \cup PairRow]
    BY <1>9, RevokePairsType, Minted DEF UnbindDevice
  <2>2. shares' \in [Nonce -> {NoShare} \cup ShareRow]
    BY <1>9, UseSharesType, Minted DEF UnbindDevice
  <2> QED
    BY <1>9, <2>1, <2>2 DEF UnbindDevice
<1>10. ASSUME NEW u \in User, NEW n \in Network, NEW p \in Pair, DeletePair(u, n, p)
       PROVE  StoreTypeOK'
  <2>1. pairs' \in [Pair -> {NoPair} \cup PairRow]
    BY <1>10, RevokePairsType, Minted DEF DeletePair
  <2> QED
    BY <1>10, <2>1 DEF DeletePair
<1>11. ASSUME NEW d \in Device, NEW t \in Token, NEW now \in Nows, Enroll(d, t, now)
       PROVE  StoreTypeOK'
  <2>1. tokens[t] \in TokenRow
    BY <1>11 DEF Enroll
  <2>2. tokens[t].user \in User /\ tokens[t].network \in Network
    BY <2>1 DEF TokenRow
  <2>3. tokens' \in [Token -> {NoToken} \cup TokenRow]
    BY <1>11, <2>1 DEF Enroll, TokenRow
  <2> QED
    BY <1>11, <2>2, <2>3 DEF Enroll, AdmitDevice, DeviceRow
<1>12. ASSUME NEW d \in Device, NEW n \in Network, JoinNetwork(d, n) PROVE StoreTypeOK'
  <2>1. networks[n].owner \in User
    BY <1>12 DEF JoinNetwork, NetworkRow
  <2> QED
    BY <1>12, <2>1 DEF JoinNetwork, AdmitDevice, DeviceRow
<1>13. ASSUME NEW d \in Device, RevokeDevice(d) PROVE StoreTypeOK'
  <2>1. pairs' \in [Pair -> {NoPair} \cup PairRow]
    BY <1>13, RevokePairsType, Minted DEF RevokeDevice
  <2> QED
    BY <1>13, <2>1 DEF RevokeDevice, DeviceRow
<1>14. CASE Tick
  BY <1>14, TimeAssumption DEF Tick, tables
<1>15. CASE UNCHANGED storeVars
  BY <1>15 DEF storeVars, tables
<1> QED
  BY <1>1, <1>2, <1>3, <1>4, <1>5, <1>6, <1>7, <1>8, <1>9, <1>10, <1>11, <1>12,
     <1>13, <1>14, <1>15
  DEF StoreNext, AccountStep, OwnerStep, MachineStep

\* The database is always well typed (store.go, networks.go, enrollment.go,
\* users.go, certificates.go).
THEOREM StoreTypeCorrect == StoreSpec => []StoreTypeOK
BY StoreInitType, StoreNextType, PTL DEF StoreSpec

-----------------------------------------------------------------------------
\* No operation of the database breaks the links behind the bindings.
LEMMA StoreNextLinked ==
    StoreTypeOK /\ BindingsAreLinked /\ [StoreNext]_storeVars => BindingsAreLinked'
<1> SUFFICES ASSUME StoreTypeOK, BindingsAreLinked, [StoreNext]_storeVars
             PROVE  BindingsAreLinked'
  OBVIOUS
<1> USE DEF BindingsAreLinked
<1>1. ASSUME NEW r \in Creator, NEW n \in Network, InsertNetwork(r, n)
      PROVE  BindingsAreLinked'
  <2>1. \A b \in bindings : b[1] # n
    BY <1>1, NoneAssumption DEF InsertNetwork
  <2> QED
    BY <1>1, <2>1 DEF InsertNetwork, StoreTypeOK
<1>2. ASSUME NEW u \in User, NEW n \in Network, NEW limit \in Limits,
             UpdateNetworkLimit(u, n, limit)
      PROVE  BindingsAreLinked'
  BY <1>2 DEF UpdateNetworkLimit, StoreTypeOK, NetworkRow
<1>3. ASSUME NEW u \in User, NEW n \in Network, DeleteNetwork(u, n)
      PROVE  BindingsAreLinked'
  BY <1>3 DEF DeleteNetwork, StoreTypeOK, NetworkRow
<1>4. ASSUME NEW u \in User, NEW n \in Network, NEW d \in Device, BindDevice(u, n, d)
      PROVE  BindingsAreLinked'
  BY <1>4, NoneAssumption DEF BindDevice, NetworkOwned, StoreTypeOK
<1>5. ASSUME NEW d \in Device, NEW u \in User, NEW n \in Network,
             AdmitDevice(d, u, n), networks' = networks,
             networks[n].owner = u, ~networks[n].deleted
      PROVE  BindingsAreLinked'
  <2>1. \A e \in Device : devices'[e].owner =
             IF e = d /\ devices[d].owner = None THEN u ELSE devices[e].owner
    BY <1>5 DEF AdmitDevice, StoreTypeOK, DeviceRow
  <2>2. devices'[d].owner \in User
    BY <2>1 DEF StoreTypeOK, DeviceRow
  <2> QED
    BY <1>5, <2>1, <2>2, NoneAssumption DEF AdmitDevice, StoreTypeOK
<1>6. ASSUME NEW d \in Device, NEW t \in Token, NEW now \in Nows, Enroll(d, t, now)
      PROVE  BindingsAreLinked'
  <2>1. tokens[t].user \in User /\ tokens[t].network \in Network
    BY <1>6 DEF Enroll, StoreTypeOK, TokenRow
  <2> QED
    BY <1>5, <1>6, <2>1 DEF Enroll, TokenValid
<1>7. ASSUME NEW d \in Device, NEW n \in Network, JoinNetwork(d, n)
      PROVE  BindingsAreLinked'
  <2>1. networks[n].owner \in User
    BY <1>7 DEF JoinNetwork, StoreTypeOK, NetworkRow
  <2> QED
    BY <1>5, <1>7, <2>1 DEF JoinNetwork
<1>8. ASSUME NEW d \in Device, RevokeDevice(d) PROVE BindingsAreLinked'
  BY <1>8 DEF RevokeDevice, StoreTypeOK, DeviceRow
<1>9. ASSUME bindings' \subseteq bindings, UNCHANGED <<networks, devices, links>>
      PROVE  BindingsAreLinked'
  BY <1>9
<1>10. ASSUME NEW u \in User, NEW n \in Network, NEW t \in Token, NEW now \in Nows,
              IssueEnrollmentToken(u, n, t, now)
       PROVE  BindingsAreLinked'
  BY <1>9, <1>10 DEF IssueEnrollmentToken
<1>11. ASSUME NEW u \in User, NEW n \in Network, NEW d \in Device, UnbindDevice(u, n, d)
       PROVE  BindingsAreLinked'
  BY <1>9, <1>11 DEF UnbindDevice
<1>12. ASSUME NEW u \in User, NEW n \in Network, NEW p \in Pair, DeletePair(u, n, p)
       PROVE  BindingsAreLinked'
  BY <1>9, <1>12 DEF DeletePair
<1>13. ASSUME NEW u \in User, CreateUser(u) \/ DisableUser(u) PROVE BindingsAreLinked'
  BY <1>9, <1>13 DEF CreateUser, DisableUser
<1>14. ASSUME NEW r \in Creator, NEW u \in User, CountNetworks(r, u)
       PROVE  BindingsAreLinked'
  BY <1>9, <1>14 DEF CountNetworks, tables
<1>15. CASE Tick \/ UNCHANGED storeVars
  BY <1>9, <1>15 DEF Tick, storeVars, tables
<1> QED
  BY <1>1, <1>2, <1>3, <1>4, <1>6, <1>7, <1>8, <1>10, <1>11, <1>12, <1>13, <1>14,
     <1>15
  DEF StoreNext, AccountStep, OwnerStep, MachineStep

\* Every binding is backed by a link to the network's account, for every
\* history of enrollments, joins and bindings (BindDevice, bindingOwner).
THEOREM StoreLinked == StoreSpec => []BindingsAreLinked
<1>1. StoreInit => BindingsAreLinked
  BY DEF StoreInit, BindingsAreLinked
<1> QED
  BY <1>1, StoreTypeCorrect, StoreNextLinked, PTL DEF StoreSpec

-----------------------------------------------------------------------------
(* What the operations do to the networks and the bindings.                *)

\* A machine enrolls in, or joins, a live network of an enabled account that has
\* room for it.
Admission(d, n) ==
    /\ networks' = networks /\ creating' = creating
    /\ networks[n].owner \in User /\ ~networks[n].deleted
    /\ users[networks[n].owner] = "enabled" /\ users' = users
    /\ BindingFits(n)
    /\ AdmitDevice(d, networks[n].owner, n)

\* The operations that write neither table.
Elsewhere == UNCHANGED <<networks, bindings>>

\* Enrolling admits the machine to the network of its token.
LEMMA EnrollmentAdmits ==
    ASSUME StoreTypeOK, NEW d \in Device, NEW t \in Token, NEW now \in Nows, Enroll(d, t, now)
    PROVE  \E n \in Network : Admission(d, n)
<1>1. tokens[t].user \in User /\ tokens[t].network \in Network
  BY DEF Enroll, StoreTypeOK, TokenRow
<1>2. Admission(d, tokens[t].network)
  BY <1>1 DEF Enroll, TokenValid, Admission
<1> QED
  BY <1>1, <1>2

\* Joining admits the machine to the network.
LEMMA JoiningAdmits ==
    ASSUME StoreTypeOK, NEW d \in Device, NEW n \in Network, JoinNetwork(d, n)
    PROVE  Admission(d, n)
BY DEF JoinNetwork, Admission, StoreTypeOK, NetworkRow

\* The operations, by what they do to the networks and the bindings.
LEMMA StoreSteps ==
    ASSUME StoreTypeOK, [StoreNext]_storeVars
    PROVE  \/ Elsewhere
           \/ \E c \in Creator, n \in Network : InsertNetwork(c, n)
           \/ \E u \in User, n \in Network :
                \/ \E limit \in Limits : UpdateNetworkLimit(u, n, limit)
                \/ DeleteNetwork(u, n)
                \/ \E d \in Device : BindDevice(u, n, d) \/ UnbindDevice(u, n, d)
           \/ \E d \in Device, n \in Network : Admission(d, n)
<1>1. ASSUME NEW u \in User, CreateUser(u) \/ DisableUser(u) PROVE Elsewhere
  BY <1>1 DEF CreateUser, DisableUser, Elsewhere
<1>2. ASSUME NEW c \in Creator, NEW u \in User, CountNetworks(c, u) PROVE Elsewhere
  BY <1>2 DEF CountNetworks, tables, Elsewhere
<1>3. ASSUME NEW u \in User, NEW n \in Network, NEW t \in Token, NEW now \in Nows,
             IssueEnrollmentToken(u, n, t, now)
      PROVE  Elsewhere
  BY <1>3 DEF IssueEnrollmentToken, Elsewhere
<1>4. ASSUME NEW u \in User, NEW n \in Network, NEW p \in Pair, DeletePair(u, n, p)
      PROVE  Elsewhere
  BY <1>4 DEF DeletePair, Elsewhere
<1>5. ASSUME NEW d \in Device, NEW t \in Token, NEW now \in Nows, Enroll(d, t, now)
      PROVE  \E n \in Network : Admission(d, n)
  BY <1>5, EnrollmentAdmits
<1>6. ASSUME NEW d \in Device, NEW n \in Network, JoinNetwork(d, n)
      PROVE  Admission(d, n)
  BY <1>6, JoiningAdmits
<1>7. ASSUME NEW d \in Device, RevokeDevice(d) PROVE Elsewhere
  BY <1>7 DEF RevokeDevice, Elsewhere
<1>8. Tick \/ UNCHANGED storeVars => Elsewhere
  BY DEF Tick, storeVars, tables, Elsewhere
<1>9. AccountStep => Elsewhere \/ \E c \in Creator, n \in Network : InsertNetwork(c, n)
  BY <1>1, <1>2 DEF AccountStep
<1>10. MachineStep => Elsewhere \/ \E d \in Device, n \in Network : Admission(d, n)
  BY <1>5, <1>6, <1>7 DEF MachineStep
<1>11. OwnerStep => \/ Elsewhere
                    \/ \E u \in User, n \in Network :
                         \/ \E limit \in Limits : UpdateNetworkLimit(u, n, limit)
                         \/ DeleteNetwork(u, n)
                         \/ \E d \in Device : BindDevice(u, n, d) \/ UnbindDevice(u, n, d)
  BY <1>3, <1>4 DEF OwnerStep
<1> QED
  BY <1>8, <1>9, <1>10, <1>11 DEF StoreNext

\* Inserting a network gives it the account that was counted for, or nothing.
LEMMA InsertedNetwork ==
    ASSUME StoreTypeOK, NEW c \in Creator, NEW n \in Network, InsertNetwork(c, n)
    PROVE  /\ creating[c] \in User
           /\ \/ networks' = networks
              \/ /\ users[creating[c]] = "enabled"
                 /\ networks'[n].owner = creating[c]
                 /\ networks'[n].deleted = networks[n].deleted
           /\ \A m \in Network : m # n => networks'[m] = networks[m]
BY DEF InsertNetwork, StoreTypeOK, NetworkRow

\* Changing the limit changes nothing else.
LEMMA LimitedNetwork ==
    ASSUME StoreTypeOK, NEW u \in User, NEW n \in Network, NEW limit \in Limits,
           UpdateNetworkLimit(u, n, limit)
    PROVE  \A m \in Network : /\ networks'[m].owner = networks[m].owner
                              /\ networks'[m].deleted = networks[m].deleted
                              /\ m # n => networks'[m] = networks[m]
BY DEF UpdateNetworkLimit, StoreTypeOK, NetworkRow

\* Deleting a network sets its flag.
LEMMA FlaggedNetwork ==
    ASSUME StoreTypeOK, NEW u \in User, NEW n \in Network, DeleteNetwork(u, n)
    PROVE  \A m \in Network : /\ networks'[m].owner = networks[m].owner
                              /\ networks'[m].deleted = (networks[m].deleted \/ m = n)
                              /\ m # n => networks'[m] = networks[m]
BY DEF DeleteNetwork, StoreTypeOK, NetworkRow

\* What is bound after an operation that binds d to n.
LEMMA BoundAfter ==
    ASSUME StoreTypeOK, NEW n \in Network, NEW d \in Device,
           bindings' = bindings \cup {<<n, d>>}
    PROVE  \A m \in Network : Bound(m)' = IF m = n THEN Bound(n) \cup {d} ELSE Bound(m)
BY DEF Bound, StoreTypeOK

-----------------------------------------------------------------------------
(* Capacity.                                                               *)

BoundFinite == \A n \in Network : IsFiniteSet(Bound(n))

\* A machine is bound where there was room, or had been bound already.
LEMMA BindingKeepsCapacity ==
    ASSUME StoreTypeOK, BoundFinite, NEW n \in Network, NEW d \in Device,
           bindings' = bindings \cup {<<n, d>>}, networks' = networks,
           d \in Bound(n) \/ BindingFits(n)
    PROVE  /\ BoundFinite'
           /\ \A m \in Network :
                 Bound(m)' \subseteq Bound(m) \/ Cardinality(Bound(m)') <= networks'[m].limit
<1>1. \A m \in Network : Bound(m)' = IF m = n THEN Bound(n) \cup {d} ELSE Bound(m)
  BY BoundAfter
<1>2. IsFiniteSet(Bound(n) \cup {d}) /\ Cardinality(Bound(n)) \in Nat
  BY FS_AddElement, FS_CardinalityType DEF BoundFinite
<1>3. BoundFinite'
  BY <1>1, <1>2 DEF BoundFinite
<1>4. CASE d \in Bound(n)
  BY <1>1, <1>3, <1>4
<1>5. CASE d \notin Bound(n) /\ BindingFits(n)
  <2>1. Cardinality(Bound(n) \cup {d}) = Cardinality(Bound(n)) + 1
    BY <1>5, FS_AddElement DEF BoundFinite
  <2>2. networks[n].limit \in Nat
    BY LimitAssumption DEF StoreTypeOK, NetworkRow
  <2>3. Cardinality(Bound(n) \cup {d}) <= networks[n].limit
    BY <1>2, <1>5, <2>1, <2>2 DEF BindingFits
  <2> QED
    BY <1>1, <1>3, <2>3
<1> QED
  BY <1>4, <1>5

\* An operation that binds nothing.
LEMMA NothingBound ==
    ASSUME BoundFinite, bindings' \subseteq bindings
    PROVE  BoundFinite' /\ \A m \in Network : Bound(m)' \subseteq Bound(m)
<1>1. \A m \in Network : Bound(m)' \subseteq Bound(m)
  BY DEF Bound
<1> QED
  BY <1>1, FS_Subset DEF BoundFinite

LEMMA StoreKeepsCapacity ==
    ASSUME StoreTypeOK, BoundFinite, [StoreNext]_storeVars
    PROVE  /\ BoundFinite'
           /\ \A n \in Network :
                 Bound(n)' \subseteq Bound(n) \/ Cardinality(Bound(n)') <= networks'[n].limit
<1>1. bindings' \subseteq bindings =>
        /\ BoundFinite'
        /\ \A n \in Network :
              Bound(n)' \subseteq Bound(n) \/ Cardinality(Bound(n)') <= networks'[n].limit
  BY NothingBound
<1>2. ASSUME NEW u \in User, NEW n \in Network,
             \/ DeleteNetwork(u, n)
             \/ \E limit \in Limits : UpdateNetworkLimit(u, n, limit)
             \/ \E d \in Device : UnbindDevice(u, n, d)
      PROVE  bindings' \subseteq bindings
  BY <1>2 DEF DeleteNetwork, UpdateNetworkLimit, UnbindDevice
<1>3. ASSUME NEW c \in Creator, NEW n \in Network, InsertNetwork(c, n)
      PROVE  bindings' \subseteq bindings
  BY <1>3 DEF InsertNetwork
<1>4. ASSUME NEW u \in User, NEW n \in Network, NEW d \in Device, BindDevice(u, n, d)
      PROVE  /\ bindings' = bindings \cup {<<n, d>>} /\ networks' = networks
             /\ d \in Bound(n) \/ BindingFits(n)
  BY <1>4 DEF BindDevice
<1>5. ASSUME NEW d \in Device, NEW n \in Network, Admission(d, n)
      PROVE  bindings' = bindings \cup {<<n, d>>} /\ networks' = networks /\ BindingFits(n)
  BY <1>5 DEF Admission, AdmitDevice
<1>6. Elsewhere => bindings' \subseteq bindings
  BY DEF Elsewhere
<1> QED
  BY <1>1, <1>2, <1>3, <1>4, <1>5, <1>6, StoreSteps, BindingKeepsCapacity

\* Enroll, JoinNetwork and BindDevice never fill a network above its limit,
\* whatever the limit and however many machines there are.
THEOREM CapacityIsRespected == StoreSpec => CapacityRespected
<1>1. StoreInit => BoundFinite
  BY FS_EmptySet DEF StoreInit, BoundFinite, Bound
<1>2. StoreTypeOK /\ BoundFinite /\ [StoreNext]_storeVars => BoundFinite'
  BY StoreKeepsCapacity
<1>3. StoreTypeOK /\ BoundFinite /\ [StoreNext]_storeVars =>
        [\A n \in Network :
           Bound(n)' \subseteq Bound(n) \/ Cardinality(Bound(n)') <= networks'[n].limit
        ]_storeVars
  BY StoreKeepsCapacity
<1> QED
  BY <1>1, <1>2, <1>3, StoreTypeCorrect, PTL DEF StoreSpec, CapacityRespected

-----------------------------------------------------------------------------
(* The quota.                                                              *)

Pending(u) == {c \in Creator : creating[c] = u}

\* A call is counted before it is one more in flight, so the networks an account
\* has, and the calls that will add one, stay below the quota and all the calls
\* there can be.
QuotaInv ==
    \A u \in User :
        /\ IsFiniteSet(LiveNetworks(u))
        /\ Cardinality(LiveNetworks(u)) + Cardinality(Pending(u))
             < NetworkQuota + Cardinality(Creator)

\* The calls of one account are some of the calls.
LEMMA PendingFinite ==
    ASSUME NEW S, S \subseteq Creator
    PROVE  /\ IsFiniteSet(S) /\ Cardinality(S) \in Nat /\ Cardinality(Creator) \in Nat
           /\ Cardinality(S) <= Cardinality(Creator)
BY CreatorAssumption, FS_Subset, FS_CardinalityType

\* Fewer networks, and no more calls, keep within the quota.
LEMMA FewerKeepQuota ==
    ASSUME QuotaInv, NEW u \in User, LiveNetworks(u)' \subseteq LiveNetworks(u),
           Pending(u)' \subseteq Pending(u)
    PROVE  /\ IsFiniteSet(LiveNetworks(u)')
           /\ Cardinality(LiveNetworks(u)') + Cardinality(Pending(u)')
                < NetworkQuota + Cardinality(Creator)
<1>1. /\ IsFiniteSet(LiveNetworks(u)') /\ Cardinality(LiveNetworks(u)') \in Nat
      /\ Cardinality(LiveNetworks(u)) \in Nat
      /\ Cardinality(LiveNetworks(u)') <= Cardinality(LiveNetworks(u))
  BY FS_Subset, FS_CardinalityType DEF QuotaInv
<1>2. Pending(u) \subseteq Creator
  BY DEF Pending
<1>3. /\ Cardinality(Pending(u)') \in Nat /\ Cardinality(Pending(u)) \in Nat
      /\ Cardinality(Creator) \in Nat
      /\ Cardinality(Pending(u)') <= Cardinality(Pending(u))
  BY <1>2, PendingFinite, FS_Subset
<1>4. Cardinality(LiveNetworks(u)) + Cardinality(Pending(u))
        < NetworkQuota + Cardinality(Creator)
  BY DEF QuotaInv
<1> QED
  BY <1>1, <1>3, <1>4, LimitAssumption

LEMMA StoreKeepsQuota ==
    ASSUME StoreTypeOK, QuotaInv, [StoreNext]_storeVars PROVE QuotaInv'
<1> SUFFICES ASSUME NEW u \in User
             PROVE  /\ IsFiniteSet(LiveNetworks(u)')
                    /\ Cardinality(LiveNetworks(u)') + Cardinality(Pending(u)')
                         < NetworkQuota + Cardinality(Creator)
  BY DEF QuotaInv
<1> DEFINE Goal == /\ IsFiniteSet(LiveNetworks(u)')
                   /\ Cardinality(LiveNetworks(u)') + Cardinality(Pending(u)')
                        < NetworkQuota + Cardinality(Creator)
<1>1. LiveNetworks(u)' \subseteq LiveNetworks(u) /\ Pending(u)' \subseteq Pending(u) => Goal
  BY FewerKeepQuota
<1>2. ASSUME NEW c \in Creator, NEW v \in User, CountNetworks(c, v) PROVE Goal
  <2>1. LiveNetworks(u)' = LiveNetworks(u)
    BY <1>2 DEF CountNetworks, tables, LiveNetworks
  <2>2. CASE v = u
    <3>1. Pending(u)' \subseteq Creator
      BY DEF Pending
    <3>2. /\ Cardinality(LiveNetworks(u)) < NetworkQuota
          /\ IsFiniteSet(LiveNetworks(u)) /\ Cardinality(LiveNetworks(u)) \in Nat
      BY <1>2, <2>2, FS_CardinalityType DEF CountNetworks, QuotaLeft, QuotaInv
    <3>3. /\ Cardinality(Pending(u)') \in Nat /\ Cardinality(Creator) \in Nat
          /\ Cardinality(Pending(u)') <= Cardinality(Creator)
      BY <3>1, PendingFinite
    <3> QED
      BY <2>1, <3>2, <3>3, LimitAssumption
  <2>3. CASE v # u
    <3>1. Pending(u)' \subseteq Pending(u)
      BY <1>2, <2>3 DEF CountNetworks, Pending, StoreTypeOK
    <3> QED
      BY <1>1, <2>1, <3>1
  <2> QED
    BY <2>2, <2>3
<1>3. ASSUME NEW c \in Creator, NEW n \in Network, InsertNetwork(c, n) PROVE Goal
  <2>1. Pending(u)' = Pending(u) \ {c}
    BY <1>3, NoneAssumption DEF InsertNetwork, Pending, StoreTypeOK
  <2>2. CASE creating[c] = u
    <3>1. c \in Pending(u) /\ Pending(u) \subseteq Creator
      BY <2>2 DEF Pending
    <3>2. /\ Cardinality(Pending(u)') = Cardinality(Pending(u)) - 1
          /\ Cardinality(Pending(u)) \in Nat /\ Cardinality(Pending(u)') \in Nat
          /\ Cardinality(Creator) \in Nat
      <4>1. IsFiniteSet(Pending(u))
        BY <3>1, PendingFinite
      <4>2. Cardinality(Pending(u) \ {c}) = Cardinality(Pending(u)) - 1
        BY <3>1, <4>1, FS_RemoveElement
      <4>3. Pending(u)' \subseteq Creator
        BY <2>1, <3>1
      <4>4. Cardinality(Pending(u)) \in Nat /\ Cardinality(Creator) \in Nat
        BY <3>1, PendingFinite
      <4>5. Cardinality(Pending(u)') \in Nat
        BY <4>3, PendingFinite
      <4> QED
        BY <2>1, <4>2, <4>4, <4>5
    <3>3. LiveNetworks(u)' \subseteq LiveNetworks(u) \cup {n}
      BY <1>3, InsertedNetwork DEF LiveNetworks
    <3>4. /\ IsFiniteSet(LiveNetworks(u) \cup {n}) /\ IsFiniteSet(LiveNetworks(u))
          /\ Cardinality(LiveNetworks(u) \cup {n}) <= Cardinality(LiveNetworks(u)) + 1
          /\ Cardinality(LiveNetworks(u)) \in Nat
      <4>1. IsFiniteSet(LiveNetworks(u))
        BY DEF QuotaInv
      <4>2. Cardinality(LiveNetworks(u)) \in Nat
        BY <4>1, FS_CardinalityType
      <4>3. /\ IsFiniteSet(LiveNetworks(u) \cup {n})
            /\ Cardinality(LiveNetworks(u) \cup {n}) =
                 IF n \in LiveNetworks(u) THEN Cardinality(LiveNetworks(u))
                                          ELSE Cardinality(LiveNetworks(u)) + 1
        BY <4>1, FS_AddElement
      <4> QED
        BY <4>1, <4>2, <4>3
    <3>5. /\ IsFiniteSet(LiveNetworks(u)') /\ Cardinality(LiveNetworks(u)') \in Nat
          /\ Cardinality(LiveNetworks(u)') <= Cardinality(LiveNetworks(u) \cup {n})
          /\ Cardinality(LiveNetworks(u) \cup {n}) \in Nat
      BY <3>3, <3>4, FS_Subset, FS_CardinalityType
    <3>6. Cardinality(LiveNetworks(u)) + Cardinality(Pending(u))
            < NetworkQuota + Cardinality(Creator)
      BY DEF QuotaInv
    <3> QED
      BY <3>2, <3>4, <3>5, <3>6, LimitAssumption
  <2>3. CASE creating[c] # u
    <3>1. LiveNetworks(u)' \subseteq LiveNetworks(u)
      BY <1>3, <2>3, InsertedNetwork DEF LiveNetworks
    <3> QED
      BY <1>1, <2>1, <3>1
  <2> QED
    BY <2>2, <2>3
<1>4. ASSUME NEW v \in User, NEW n \in Network, NEW limit \in Limits,
             UpdateNetworkLimit(v, n, limit)
      PROVE  Goal
  <2>1. LiveNetworks(u)' = LiveNetworks(u)
    BY <1>4, LimitedNetwork DEF LiveNetworks
  <2>2. Pending(u)' = Pending(u)
    BY <1>4 DEF UpdateNetworkLimit, Pending
  <2> QED
    BY <1>1, <2>1, <2>2
<1>5. ASSUME NEW v \in User, NEW n \in Network, DeleteNetwork(v, n) PROVE Goal
  <2>1. LiveNetworks(u)' \subseteq LiveNetworks(u)
    BY <1>5, FlaggedNetwork DEF LiveNetworks
  <2>2. Pending(u)' = Pending(u)
    BY <1>5 DEF DeleteNetwork, Pending
  <2> QED
    BY <1>1, <2>1, <2>2
<1>6. UNCHANGED <<networks, creating>> => Goal
  BY <1>1 DEF LiveNetworks, Pending
<1>7. ASSUME NEW v \in User, CreateUser(v) \/ DisableUser(v)
      PROVE  UNCHANGED <<networks, creating>>
  BY <1>7 DEF CreateUser, DisableUser
<1>8. ASSUME NEW v \in User, NEW n \in Network, NEW t \in Token, NEW now \in Nows,
             IssueEnrollmentToken(v, n, t, now)
      PROVE  UNCHANGED <<networks, creating>>
  BY <1>8 DEF IssueEnrollmentToken
<1>9. ASSUME NEW v \in User, NEW n \in Network, NEW d \in Device,
             BindDevice(v, n, d) \/ UnbindDevice(v, n, d)
      PROVE  UNCHANGED <<networks, creating>>
  BY <1>9 DEF BindDevice, UnbindDevice
<1>10. ASSUME NEW v \in User, NEW n \in Network, NEW p \in Pair, DeletePair(v, n, p)
       PROVE  UNCHANGED <<networks, creating>>
  BY <1>10 DEF DeletePair
<1>11. ASSUME NEW d \in Device, NEW t \in Token, NEW now \in Nows, Enroll(d, t, now)
       PROVE  UNCHANGED <<networks, creating>>
  BY <1>11 DEF Enroll
<1>12. ASSUME NEW d \in Device, NEW n \in Network, JoinNetwork(d, n)
       PROVE  UNCHANGED <<networks, creating>>
  BY <1>12 DEF JoinNetwork
<1>13. ASSUME NEW d \in Device, RevokeDevice(d) PROVE UNCHANGED <<networks, creating>>
  BY <1>13 DEF RevokeDevice
<1>14. Tick \/ UNCHANGED storeVars => UNCHANGED <<networks, creating>>
  BY DEF Tick, storeVars, tables
<1> HIDE DEF Goal
<1>15. AccountStep => Goal
  BY <1>2, <1>3, <1>6, <1>7 DEF AccountStep
<1>16. OwnerStep => Goal
  BY <1>4, <1>5, <1>6, <1>8, <1>9, <1>10 DEF OwnerStep
<1>17. MachineStep => Goal
  BY <1>6, <1>11, <1>12, <1>13 DEF MachineStep
<1>18. Goal
  BY <1>6, <1>14, <1>15, <1>16, <1>17 DEF StoreNext
<1> QED
  BY <1>18 DEF Goal

\* Concurrent CreateNetwork calls exceed the quota by no more than the calls in
\* flight beside the first, for any quota and any number of them.
THEOREM QuotaOverrunBounded == StoreSpec => []QuotaOverrun
<1>1. StoreInit => QuotaInv
  <2> SUFFICES ASSUME StoreInit, NEW u \in User
               PROVE  /\ IsFiniteSet(LiveNetworks(u))
                      /\ Cardinality(LiveNetworks(u)) + Cardinality(Pending(u))
                           < NetworkQuota + Cardinality(Creator)
    BY DEF QuotaInv
  <2>1. LiveNetworks(u) = {} /\ Pending(u) = {}
    BY NoneAssumption DEF StoreInit, LiveNetworks, Pending
  <2> QED
    BY <2>1, FS_EmptySet, CreatorAssumption, FS_CardinalityType, LimitAssumption
<1>2. StoreTypeOK /\ QuotaInv /\ [StoreNext]_storeVars => QuotaInv'
  BY StoreKeepsQuota
<1>3. QuotaInv => QuotaOverrun
  <2> SUFFICES ASSUME QuotaInv, NEW u \in User
               PROVE  Cardinality(LiveNetworks(u)) < NetworkQuota + Cardinality(Creator)
    BY DEF QuotaOverrun
  <2>1. Pending(u) \subseteq Creator
    BY DEF Pending
  <2> QED
    BY <2>1, PendingFinite, FS_CardinalityType, LimitAssumption DEF QuotaInv
<1> QED
  BY <1>1, <1>2, <1>3, StoreTypeCorrect, PTL DEF StoreSpec

-----------------------------------------------------------------------------
(* First accounts, disabled accounts.                                      *)

\* A machine's first account changes only when it gets one.
LEMMA StoreKeepsFirstAccount ==
    ASSUME StoreTypeOK, [StoreNext]_storeVars, NEW d \in Device, devices[d].owner # None
    PROVE  devices'[d].owner = devices[d].owner
<1>1. ASSUME NEW e \in Device, NEW u, NEW n, AdmitDevice(e, u, n)
      PROVE  devices'[d].owner = devices[d].owner
  BY <1>1 DEF AdmitDevice, StoreTypeOK, DeviceRow
<1>2. ASSUME NEW e \in Device, NEW t \in Token, NEW now \in Nows, Enroll(e, t, now)
      PROVE  devices'[d].owner = devices[d].owner
  BY <1>1, <1>2 DEF Enroll
<1>3. ASSUME NEW e \in Device, NEW n \in Network, JoinNetwork(e, n)
      PROVE  devices'[d].owner = devices[d].owner
  BY <1>1, <1>3 DEF JoinNetwork
<1>4. ASSUME NEW e \in Device, RevokeDevice(e) PROVE devices'[d].owner = devices[d].owner
  BY <1>4 DEF RevokeDevice, StoreTypeOK, DeviceRow
<1>5. ASSUME NEW u \in User, CreateUser(u) \/ DisableUser(u) PROVE devices' = devices
  BY <1>5 DEF CreateUser, DisableUser
<1>6. ASSUME NEW c \in Creator, NEW u \in User, CountNetworks(c, u) PROVE devices' = devices
  BY <1>6 DEF CountNetworks, tables
<1>7. ASSUME NEW c \in Creator, NEW n \in Network, InsertNetwork(c, n)
      PROVE  devices' = devices
  BY <1>7 DEF InsertNetwork
<1>8. ASSUME NEW u \in User, NEW n \in Network,
             \/ \E limit \in Limits : UpdateNetworkLimit(u, n, limit)
             \/ DeleteNetwork(u, n)
             \/ \E t \in Token, now \in Nows : IssueEnrollmentToken(u, n, t, now)
      PROVE  devices' = devices
  BY <1>8 DEF UpdateNetworkLimit, DeleteNetwork, IssueEnrollmentToken
<1>9. ASSUME NEW u \in User, NEW n \in Network, NEW e \in Device,
             BindDevice(u, n, e) \/ UnbindDevice(u, n, e)
      PROVE  devices' = devices
  BY <1>9 DEF BindDevice, UnbindDevice
<1>10. ASSUME NEW u \in User, NEW n \in Network, NEW p \in Pair, DeletePair(u, n, p)
       PROVE  devices' = devices
  BY <1>10 DEF DeletePair
<1>11. Tick \/ UNCHANGED storeVars => devices' = devices
  BY DEF Tick, storeVars, tables
<1>12. AccountStep => devices' = devices
  BY <1>5, <1>6, <1>7 DEF AccountStep
<1>13. OwnerStep => devices' = devices
  BY <1>8, <1>9, <1>10 DEF OwnerStep
<1>14. MachineStep => devices'[d].owner = devices[d].owner
  BY <1>2, <1>3, <1>4 DEF MachineStep
<1> QED
  BY <1>11, <1>12, <1>13, <1>14 DEF StoreNext

\* A machine belongs for good to the account that enrolled it first.
THEOREM FirstAccountIsKept == StoreSpec => FirstAccountKept
<1>1. StoreTypeOK /\ [StoreNext]_storeVars =>
        [\A d \in Device :
           devices[d].owner # None => devices'[d].owner = devices[d].owner
        ]_storeVars
  BY StoreKeepsFirstAccount
<1> QED
  BY <1>1, StoreTypeCorrect, PTL DEF StoreSpec, FirstAccountKept

\* Every operation that changes a network or binds a machine to it asks whether
\* its owner is enabled, in the same statement.
LEMMA DisabledOwnerFreezes ==
    ASSUME StoreTypeOK, [StoreNext]_storeVars, NEW n \in Network,
           networks'[n].owner \in User, users[networks'[n].owner] = "disabled"
    PROVE  networks'[n] = networks[n] /\ Bound(n)' = Bound(n)
<1>1. ASSUME NEW c \in Creator, NEW m \in Network, InsertNetwork(c, m)
      PROVE  networks'[n] = networks[n] /\ Bound(n)' = Bound(n)
  <2>1. bindings' = bindings
    BY <1>1 DEF InsertNetwork
  <2> QED
    BY <1>1, <2>1, InsertedNetwork DEF Bound
<1>2. ASSUME NEW u \in User, NEW m \in Network, NetworkOwned(u, m),
             \/ \E limit \in Limits : UpdateNetworkLimit(u, m, limit)
             \/ DeleteNetwork(u, m)
      PROVE  networks'[n] = networks[n] /\ Bound(n)' = Bound(n)
  <2>1. networks'[n].owner = networks[n].owner
    BY <1>2, LimitedNetwork, FlaggedNetwork
  <2>2. n # m
    BY <1>2, <2>1 DEF NetworkOwned
  <2>3. networks'[n] = networks[n]
    BY <1>2, <2>2, LimitedNetwork, FlaggedNetwork
  <2>4. \A d : <<n, d>> \in bindings' <=> <<n, d>> \in bindings
    BY <1>2, <2>2 DEF UpdateNetworkLimit, DeleteNetwork
  <2> QED
    BY <2>3, <2>4 DEF Bound
<1>3. ASSUME NEW u \in User, NEW m \in Network, NEW d \in Device,
             BindDevice(u, m, d) \/ UnbindDevice(u, m, d)
      PROVE  networks'[n] = networks[n] /\ Bound(n)' = Bound(n)
  <2>1. networks' = networks /\ NetworkOwned(u, m)
    BY <1>3 DEF BindDevice, UnbindDevice
  <2>2. n # m
    BY <2>1 DEF NetworkOwned
  <2>3. \A e : <<n, e>> \in bindings' <=> <<n, e>> \in bindings
    BY <1>3, <2>2 DEF BindDevice, UnbindDevice
  <2> QED
    BY <2>1, <2>3 DEF Bound
<1>4. ASSUME NEW d \in Device, NEW m \in Network, Admission(d, m)
      PROVE  networks'[n] = networks[n] /\ Bound(n)' = Bound(n)
  <2>1. networks' = networks /\ n # m
    BY <1>4 DEF Admission
  <2>2. \A e : <<n, e>> \in bindings' <=> <<n, e>> \in bindings
    BY <1>4, <2>1 DEF Admission, AdmitDevice
  <2> QED
    BY <2>1, <2>2 DEF Bound
<1>5. Elsewhere => networks'[n] = networks[n] /\ Bound(n)' = Bound(n)
  BY DEF Elsewhere, Bound
<1>6. \A u \in User, m \in Network :
         \/ \E limit \in Limits : UpdateNetworkLimit(u, m, limit)
         \/ DeleteNetwork(u, m)
         => NetworkOwned(u, m)
  BY DEF UpdateNetworkLimit, DeleteNetwork
<1> QED
  BY <1>1, <1>2, <1>3, <1>4, <1>5, <1>6, StoreSteps

\* Nothing of a disabled account's networks changes any more (DisableUser).
THEOREM DisabledAreFrozen == StoreSpec => DisabledIsFrozen
<1>1. StoreTypeOK /\ [StoreNext]_storeVars =>
        [\A n \in Network :
           networks'[n].owner \in User /\ users[networks'[n].owner] = "disabled" =>
               networks'[n] = networks[n] /\ Bound(n)' = Bound(n)
        ]_storeVars
  BY DisabledOwnerFreezes
<1> QED
  BY <1>1, StoreTypeCorrect, PTL DEF StoreSpec, DisabledIsFrozen

-----------------------------------------------------------------------------
(* Deleted networks.                                                       *)

\* The rows that could still admit or connect a machine in network n.
LiveRows(n) ==
    /\ \A d \in Device : <<n, d>> \notin bindings
    /\ \A t \in Token : tokens[t].network = n => tokens[t].used
    /\ \A s \in Nonce : shares[s].network = n => shares[s].used
    /\ \A p \in Pair : pairs[p].network = n => ~IsOpen(p)

LEMMA EmptyMeans ==
    ASSUME StoreTypeOK
    PROVE  DeletedNetworkIsEmpty <=> \A n \in Network : networks[n].deleted => LiveRows(n)
BY DEF DeletedNetworkIsEmpty, LiveRows, Bound

\* Revoking pairs opens none and moves none to another network.
LEMMA RevokingOpensNone ==
    ASSUME StoreTypeOK, NEW S, RevokePairs(S), NEW p \in Pair
    PROVE  /\ pairs'[p].network = pairs[p].network
           /\ IsOpen(p)' => IsOpen(p) /\ p \notin S
<1>1. pairs[p] \in {NoPair} \cup PairRow
  BY DEF StoreTypeOK
<1>2. /\ Revoked(pairs[p]).state = "revoked"
      /\ Revoked(pairs[p]).network = pairs[p].network
  BY <1>1 DEF Revoked, NoPair, PairRow
<1> QED
  BY <1>2 DEF RevokePairs, IsOpen, OpenStates

\* Using shares up moves none to another network.
LEMMA UsingShares ==
    ASSUME StoreTypeOK, NEW S, UseShares(S), NEW s \in Nonce
    PROVE  /\ shares'[s].network = shares[s].network
           /\ shares[s].used \/ s \in S => shares'[s].used
<1>1. shares[s] \in {NoShare} \cup ShareRow
  BY DEF StoreTypeOK
<1> QED
  BY <1>1 DEF UseShares, NoShare, ShareRow

\* No operation of the database brings a row to life in a deleted network.
LEMMA StoreKeepsRowsDead ==
    ASSUME StoreTypeOK, [StoreNext]_storeVars, NEW n \in Network,
           networks[n].deleted, LiveRows(n)
    PROVE  LiveRows(n)'
<1> DEFINE Shares == \A s \in Nonce : shares'[s].network = n => shares'[s].used
           Pairs == \A p \in Pair : pairs'[p].network = n => ~IsOpen(p)'
           Tokens == \A t \in Token : tokens'[t].network = n => tokens'[t].used
           Unbound == \A d \in Device : <<n, d>> \notin bindings'
<1>1. Shares /\ Pairs /\ Tokens /\ Unbound => LiveRows(n)'
  BY DEF LiveRows
<1>2. /\ UNCHANGED shares => Shares
      /\ UNCHANGED pairs => Pairs
      /\ UNCHANGED tokens => Tokens
      /\ bindings' \subseteq bindings => Unbound
  BY DEF LiveRows, IsOpen
<1>3. \A S : RevokePairs(S) => Pairs
  BY RevokingOpensNone DEF LiveRows
<1>4. \A S : UseShares(S) => Shares
  BY UsingShares DEF LiveRows
<1> HIDE DEF Shares, Pairs, Tokens, Unbound
<1>5. ASSUME NEW u \in User, CreateUser(u) PROVE LiveRows(n)'
  BY <1>1, <1>2, <1>5 DEF CreateUser
<1>6. ASSUME NEW u \in User, DisableUser(u) PROVE LiveRows(n)'
  BY <1>1, <1>2, <1>3, <1>6 DEF DisableUser
<1>7. ASSUME NEW c \in Creator, NEW u \in User, CountNetworks(c, u) PROVE LiveRows(n)'
  BY <1>1, <1>2, <1>7 DEF CountNetworks, tables
<1>8. ASSUME NEW c \in Creator, NEW m \in Network, InsertNetwork(c, m) PROVE LiveRows(n)'
  BY <1>1, <1>2, <1>8 DEF InsertNetwork
<1>9. ASSUME NEW u \in User, NEW m \in Network, NEW limit \in Limits,
             UpdateNetworkLimit(u, m, limit)
      PROVE  LiveRows(n)'
  BY <1>1, <1>2, <1>9 DEF UpdateNetworkLimit
<1>10. ASSUME NEW u \in User, NEW m \in Network, DeleteNetwork(u, m) PROVE LiveRows(n)'
  <2>1. Shares /\ Pairs
    BY <1>3, <1>4, <1>10 DEF DeleteNetwork
  <2>2. Tokens
    <3>1. \A t \in Token : tokens[t] \in {NoToken} \cup TokenRow
      BY DEF StoreTypeOK
    <3>2. \A t \in Token : /\ tokens'[t].network = tokens[t].network
                           /\ tokens[t].used => tokens'[t].used
      BY <1>10, <3>1 DEF DeleteNetwork, NoToken, TokenRow
    <3> QED
      BY <3>2 DEF Tokens, LiveRows
  <2>3. Unbound
    BY <1>2, <1>10 DEF DeleteNetwork
  <2> QED
    BY <1>1, <2>1, <2>2, <2>3
<1>11. ASSUME NEW u \in User, NEW m \in Network, NEW t \in Token, NEW now \in Nows,
              IssueEnrollmentToken(u, m, t, now)
       PROVE  LiveRows(n)'
  <2>1. m # n
    BY <1>11 DEF IssueEnrollmentToken, NetworkOwned
  <2>2. Tokens
    BY <1>11, <2>1 DEF IssueEnrollmentToken, Tokens, LiveRows, StoreTypeOK
  <2> QED
    BY <1>1, <1>2, <1>11, <2>2 DEF IssueEnrollmentToken
<1>12. ASSUME NEW u \in User, NEW m \in Network, NEW d \in Device, BindDevice(u, m, d)
       PROVE  LiveRows(n)'
  <2>1. m # n
    BY <1>12 DEF BindDevice, NetworkOwned
  <2>2. Unbound
    BY <1>12, <2>1 DEF BindDevice, Unbound, LiveRows
  <2> QED
    BY <1>1, <1>2, <1>12, <2>2 DEF BindDevice
<1>13. ASSUME NEW u \in User, NEW m \in Network, NEW d \in Device, UnbindDevice(u, m, d)
       PROVE  LiveRows(n)'
  <2>1. Shares /\ Pairs
    BY <1>3, <1>4, <1>13 DEF UnbindDevice
  <2>2. Tokens /\ Unbound
    BY <1>2, <1>13 DEF UnbindDevice
  <2> QED
    BY <1>1, <2>1, <2>2
<1>14. ASSUME NEW u \in User, NEW m \in Network, NEW p \in Pair, DeletePair(u, m, p)
       PROVE  LiveRows(n)'
  BY <1>1, <1>2, <1>3, <1>14 DEF DeletePair
<1>15. ASSUME NEW d \in Device, NEW u, NEW m, AdmitDevice(d, u, m), ~networks[m].deleted
       PROVE  Unbound
  BY <1>15 DEF AdmitDevice, Unbound, LiveRows
<1>16. ASSUME NEW d \in Device, NEW t \in Token, NEW now \in Nows, Enroll(d, t, now)
       PROVE  LiveRows(n)'
  <2>1. Unbound
    BY <1>15, <1>16 DEF Enroll, TokenValid
  <2>2. Tokens
    <3>1. \A x \in Token : tokens[x] \in {NoToken} \cup TokenRow
      BY DEF StoreTypeOK
    <3>2. \A x \in Token : /\ tokens'[x].network = tokens[x].network
                           /\ tokens[x].used => tokens'[x].used
      BY <1>16, <3>1 DEF Enroll, NoToken, TokenRow, StoreTypeOK
    <3> QED
      BY <3>2 DEF Tokens, LiveRows
  <2> QED
    BY <1>1, <1>2, <1>16, <2>1, <2>2 DEF Enroll
<1>17. ASSUME NEW d \in Device, NEW m \in Network, JoinNetwork(d, m) PROVE LiveRows(n)'
  <2>1. Unbound
    BY <1>15, <1>17 DEF JoinNetwork
  <2> QED
    BY <1>1, <1>2, <1>17, <2>1 DEF JoinNetwork
<1>18. ASSUME NEW d \in Device, RevokeDevice(d) PROVE LiveRows(n)'
  BY <1>1, <1>2, <1>3, <1>18 DEF RevokeDevice
<1>19. Tick \/ UNCHANGED storeVars => LiveRows(n)'
  BY <1>1, <1>2 DEF Tick, storeVars, tables
<1>20. AccountStep => LiveRows(n)'
  BY <1>5, <1>6, <1>7, <1>8 DEF AccountStep
<1>21. OwnerStep => LiveRows(n)'
  BY <1>9, <1>10, <1>11, <1>12, <1>13, <1>14 DEF OwnerStep
<1>22. MachineStep => LiveRows(n)'
  BY <1>16, <1>17, <1>18 DEF MachineStep
<1> QED
  BY <1>19, <1>20, <1>21, <1>22 DEF StoreNext

\* A network is deleted with everything that could be alive in it.
LEMMA DeletingKills ==
    ASSUME StoreTypeOK, NEW u \in User, NEW n \in Network, DeleteNetwork(u, n)
    PROVE  LiveRows(n)'
<1>1. \A s \in Nonce : shares'[s].network = n => shares'[s].used
  BY UsingShares DEF DeleteNetwork
<1>2. \A p \in Pair : pairs'[p].network = n => ~IsOpen(p)'
  BY RevokingOpensNone DEF DeleteNetwork
<1>3. \A t \in Token : tokens'[t].network = n => tokens'[t].used
  <2>1. \A t \in Token : tokens[t] \in {NoToken} \cup TokenRow
    BY DEF StoreTypeOK
  <2> QED
    BY <2>1 DEF DeleteNetwork, NoToken, TokenRow
<1>4. \A d \in Device : <<n, d>> \notin bindings'
  BY DEF DeleteNetwork
<1> QED
  BY <1>1, <1>2, <1>3, <1>4 DEF LiveRows

LEMMA StoreKeepsEmpty ==
    ASSUME StoreTypeOK, DeletedNetworkIsEmpty, [StoreNext]_storeVars
    PROVE  DeletedNetworkIsEmpty'
<1> SUFFICES ASSUME NEW n \in Network, networks'[n].deleted PROVE LiveRows(n)'
  <2>1. StoreTypeOK'
    BY StoreNextType
  <2>2. (\A n \in Network : networks[n].deleted => LiveRows(n))'
    OBVIOUS
  <2> QED
    BY <2>1, <2>2, EmptyMeans DEF DeletedNetworkIsEmpty, LiveRows, Bound
<1>1. CASE networks[n].deleted
  BY <1>1, EmptyMeans, StoreKeepsRowsDead
<1>2. CASE ~networks[n].deleted
  <2>1. PICK u \in User : DeleteNetwork(u, n)
    <3>1. ASSUME NEW c \in Creator, NEW m \in Network, InsertNetwork(c, m) PROVE FALSE
      BY <1>2, <3>1, InsertedNetwork
    <3>2. ASSUME NEW v \in User, NEW m \in Network, NEW limit \in Limits,
                 UpdateNetworkLimit(v, m, limit)
          PROVE  FALSE
      BY <1>2, <3>2, LimitedNetwork
    <3>3. ASSUME NEW v \in User, NEW m \in Network, DeleteNetwork(v, m) PROVE m = n
      BY <1>2, <3>3, FlaggedNetwork
    <3>4. ASSUME NEW v \in User, NEW m \in Network, NEW d \in Device,
                 BindDevice(v, m, d) \/ UnbindDevice(v, m, d)
          PROVE  FALSE
      BY <1>2, <3>4 DEF BindDevice, UnbindDevice
    <3>5. ASSUME NEW d \in Device, NEW m \in Network, Admission(d, m) PROVE FALSE
      BY <1>2, <3>5 DEF Admission
    <3>6. ~Elsewhere
      BY <1>2 DEF Elsewhere
    <3> QED
      BY <3>1, <3>2, <3>3, <3>4, <3>5, <3>6, StoreSteps
  <2> QED
    BY <2>1, DeletingKills
<1> QED
  BY <1>1, <1>2

-----------------------------------------------------------------------------
\* The operations of the database change a pair by revoking it only.
LEMMA StorePairs ==
    ASSUME StoreTypeOK, [StoreNext]_storeVars
    PROVE  \/ UNCHANGED pairs
           \/ \E S : RevokePairs(S) /\ \A p \in Pair : p \in S => pairs[p] # NoPair
<1> DEFINE Revoking ==
             \E S : RevokePairs(S) /\ \A p \in Pair : p \in S => pairs[p] # NoPair
<1>1. ASSUME NEW u \in User, DisableUser(u) PROVE Revoking
  BY <1>1, Minted DEF DisableUser, PairsOfUser
<1>2. ASSUME NEW u \in User, NEW n \in Network, DeleteNetwork(u, n) PROVE Revoking
  BY <1>2, Minted DEF DeleteNetwork
<1>3. ASSUME NEW u \in User, NEW n \in Network, NEW d \in Device, UnbindDevice(u, n, d)
      PROVE  Revoking
  BY <1>3, Minted DEF UnbindDevice
<1>4. ASSUME NEW u \in User, NEW n \in Network, NEW p \in Pair, DeletePair(u, n, p)
      PROVE  Revoking
  <2>1. RevokePairs({p}) /\ pairs[p] # NoPair
    BY <1>4, Minted DEF DeletePair
  <2> QED
    BY <2>1
<1>5. ASSUME NEW d \in Device, RevokeDevice(d) PROVE Revoking
  BY <1>5, Minted DEF RevokeDevice
<1> HIDE DEF Revoking
<1>6. ASSUME NEW u \in User, CreateUser(u) PROVE UNCHANGED pairs
  BY <1>6 DEF CreateUser
<1>7. ASSUME NEW c \in Creator, NEW u \in User, CountNetworks(c, u) PROVE UNCHANGED pairs
  BY <1>7 DEF CountNetworks, tables
<1>8. ASSUME NEW c \in Creator, NEW n \in Network, InsertNetwork(c, n)
      PROVE  UNCHANGED pairs
  BY <1>8 DEF InsertNetwork
<1>9. ASSUME NEW u \in User, NEW n \in Network, NEW limit \in Limits,
             UpdateNetworkLimit(u, n, limit)
      PROVE  UNCHANGED pairs
  BY <1>9 DEF UpdateNetworkLimit
<1>10. ASSUME NEW u \in User, NEW n \in Network, NEW t \in Token, NEW now \in Nows,
              IssueEnrollmentToken(u, n, t, now)
       PROVE  UNCHANGED pairs
  BY <1>10 DEF IssueEnrollmentToken
<1>11. ASSUME NEW u \in User, NEW n \in Network, NEW d \in Device, BindDevice(u, n, d)
       PROVE  UNCHANGED pairs
  BY <1>11 DEF BindDevice
<1>12. ASSUME NEW d \in Device, NEW t \in Token, NEW now \in Nows, Enroll(d, t, now)
       PROVE  UNCHANGED pairs
  BY <1>12 DEF Enroll
<1>13. ASSUME NEW d \in Device, NEW n \in Network, JoinNetwork(d, n) PROVE UNCHANGED pairs
  BY <1>13 DEF JoinNetwork
<1>14. Tick \/ UNCHANGED storeVars => UNCHANGED pairs
  BY DEF Tick, storeVars, tables
<1>15. AccountStep => Revoking \/ UNCHANGED pairs
  BY <1>1, <1>6, <1>7, <1>8 DEF AccountStep
<1>16. OwnerStep => Revoking \/ UNCHANGED pairs
  BY <1>2, <1>3, <1>4, <1>9, <1>10, <1>11 DEF OwnerStep
<1>17. MachineStep => Revoking \/ UNCHANGED pairs
  BY <1>5, <1>12, <1>13 DEF MachineStep
<1>18. Revoking \/ UNCHANGED pairs
  BY <1>14, <1>15, <1>16, <1>17 DEF StoreNext
<1> QED
  BY <1>18 DEF Revoking
=============================================================================
