-------------------------- MODULE CredentialProofs --------------------------
(***************************************************************************)
(* The credentials of the two kinds of caller, for any number of each and  *)
(* of calls in flight.                                                     *)
(*                                                                         *)
(* Accounts (Login): no disabled account has a login session, and the      *)
(* slots taken are those of the calls in flight.  The two and the types    *)
(* are inductive together: the receive of EndLogin leaves a natural number *)
(* because the call that ends is itself counted.                           *)
(*                                                                         *)
(* Machines (Certificates): a request has one answer, a token admits once, *)
(* a revoked machine is given nothing new and no certificate is replaced   *)
(* without cause.  CertInv adds to the two that are checked that exactly   *)
(* the enrolled machines have a certificate, that only they are revoked or *)
(* have a call in flight, and that a token not issued yet admitted nobody. *)
(* On top of it OwnInv says that what is stored, recorded or answered for  *)
(* a machine was minted for it, and which certificate of the machine let   *)
(* each call in flight in: a minted row never changes, so what a call saw  *)
(* of it is still true when the call commits.                              *)
(***************************************************************************)
EXTENDS Login, Certificates, StoreProofs, FiniteSetTheorems

-----------------------------------------------------------------------------
(* Login.                                                                  *)

LoginInv == StoreTypeOK /\ LoginTypeOK /\ SlotsReturned /\ NoSessionOfDisabled

\* A call that takes a slot is one more in flight.
LEMMA InLoginAdded ==
    ASSUME LoginTypeOK, NEW v \in Visit, NEW row, visits[v] = NoVisit,
           row.at # "idle", visits' = [visits EXCEPT ![v] = row]
    PROVE  Cardinality(InLogin') = Cardinality(InLogin) + 1
<1>1. IsFiniteSet(InLogin)
  BY LoginAssumption, FS_Subset DEF InLogin
<1>2. InLogin' = InLogin \cup {v} /\ v \notin InLogin
  BY DEF InLogin, LoginTypeOK, NoVisit
<1> QED
  BY <1>1, <1>2, FS_AddElement

\* A call that ends returns its slot, and the types stay right.
LEMMA EndLoginCounts ==
    ASSUME LoginTypeOK, SlotsReturned, NEW v \in Visit, visits[v].at # "idle",
           EndLogin(v)
    PROVE  LoginTypeOK' /\ SlotsReturned'
<1>1. IsFiniteSet(InLogin)
  BY LoginAssumption, FS_Subset DEF InLogin
<1>2. InLogin' = InLogin \ {v} /\ v \in InLogin
  BY DEF InLogin, LoginTypeOK, EndLogin, NoVisit
<1>3. Cardinality(InLogin') = Cardinality(InLogin) - 1
  BY <1>1, <1>2, FS_RemoveElement
<1>4. Cardinality(InLogin') \in Nat
  BY <1>1, <1>2, FS_RemoveElement, FS_CardinalityType
<1>5. SlotsReturned'
  BY <1>3 DEF SlotsReturned, EndLogin
<1>6. logins' \in 0..LoginSlots
  BY <1>3, <1>4, <1>5, LoginAssumption DEF SlotsReturned, EndLogin, LoginTypeOK
<1>7. visits' \in [Visit -> VisitRow]
  BY DEF EndLogin, LoginTypeOK, VisitRow, NoVisit
<1> QED
  BY <1>5, <1>6, <1>7 DEF LoginTypeOK

\* No operation of the database leaves a session to a disabled account.
LEMMA StoreKeepsSessions ==
    ASSUME StoreTypeOK, NoSessionOfDisabled, [StoreNext]_storeVars
    PROVE  NoSessionOfDisabled'
<1>1. ASSUME NEW u \in User, CreateUser(u) PROVE NoSessionOfDisabled'
  BY <1>1 DEF CreateUser, NoSessionOfDisabled, StoreTypeOK
<1>2. ASSUME NEW u \in User, DisableUser(u) PROVE NoSessionOfDisabled'
  BY <1>2, NoneAssumption DEF DisableUser, NoSessionOfDisabled, StoreTypeOK
<1>3. CASE UNCHANGED <<users, userSessions>>
  BY <1>3 DEF NoSessionOfDisabled
<1>4. ASSUME OwnerStep PROVE UNCHANGED <<users, userSessions>>
  <2>1. ASSUME NEW u \in User, NEW n \in Network, NEW d \in Device,
               BindDevice(u, n, d) \/ UnbindDevice(u, n, d)
        PROVE  UNCHANGED <<users, userSessions>>
    BY <2>1 DEF BindDevice, UnbindDevice
  <2>2. ASSUME NEW u \in User, NEW n \in Network, DeleteNetwork(u, n)
        PROVE  UNCHANGED <<users, userSessions>>
    BY <2>2 DEF DeleteNetwork
  <2> QED
    BY <1>4, <2>1, <2>2 DEF OwnerStep, UpdateNetworkLimit, IssueEnrollmentToken, DeletePair
<1>5. ASSUME MachineStep PROVE UNCHANGED <<users, userSessions>>
  BY <1>5 DEF MachineStep, Enroll, JoinNetwork, RevokeDevice
<1>6. ASSUME NEW c \in Creator, NEW u \in User, CountNetworks(c, u)
      PROVE  UNCHANGED <<users, userSessions>>
  BY <1>6 DEF CountNetworks, tables
<1>7. ASSUME NEW c \in Creator, NEW n \in Network, InsertNetwork(c, n)
      PROVE  UNCHANGED <<users, userSessions>>
  BY <1>7 DEF InsertNetwork
<1>8. ASSUME Tick PROVE UNCHANGED <<users, userSessions>>
  BY <1>8 DEF Tick, tables
<1>9. ASSUME UNCHANGED storeVars PROVE UNCHANGED <<users, userSessions>>
  BY <1>9 DEF storeVars, tables
<1> QED
  BY <1>1, <1>2, <1>3, <1>4, <1>5, <1>6, <1>7, <1>8, <1>9 DEF StoreNext, AccountStep

\* The steps of a Login call.
LEMMA VisitKeepsInv == LoginInv /\ VisitStep => LoginInv'
<1> SUFFICES ASSUME LoginInv, VisitStep PROVE LoginInv'
  OBVIOUS
<1> USE DEF LoginInv
<1>1. ASSUME NEW v \in Visit, NEW now \in Nows, TakeSlot(v, now) PROVE LoginInv'
  <2>1. StoreTypeOK' /\ NoSessionOfDisabled'
    BY <1>1 DEF TakeSlot, storeVars, tables, StoreTypeOK, NoSessionOfDisabled
  <2>2. now \in Nat
    BY TimeAssumption DEF Nows, StoreTypeOK
  <2>3. LoginTypeOK'
    BY <1>1, <2>2, LoginAssumption DEF TakeSlot, SlotLeft, LoginTypeOK, VisitRow
  <2>4. SlotsReturned'
    BY <1>1, InLoginAdded DEF TakeSlot, SlotsReturned
  <2> QED
    BY <2>1, <2>3, <2>4
<1>2. ASSUME NEW v \in Visit, NEW u \in User, ReadAccount(v, u) PROVE LoginInv'
  <2>1. StoreTypeOK' /\ NoSessionOfDisabled'
    BY <1>2 DEF ReadAccount, storeVars, tables, StoreTypeOK, NoSessionOfDisabled
  <2>2. LoginTypeOK'
    BY <1>2 DEF ReadAccount, LoginTypeOK, VisitRow
  <2>3. InLogin' = InLogin
    BY <1>2 DEF ReadAccount, InLogin, LoginTypeOK, VisitRow
  <2> QED
    BY <1>2, <2>1, <2>2, <2>3 DEF ReadAccount, SlotsReturned
<1>3. ASSUME NEW v \in Visit, RefuseLogin(v) PROVE LoginInv'
  <2>1. StoreTypeOK' /\ NoSessionOfDisabled'
    BY <1>3 DEF RefuseLogin, storeVars, tables, StoreTypeOK, NoSessionOfDisabled
  <2> QED
    BY <1>3, <2>1, EndLoginCounts DEF RefuseLogin
<1>4. ASSUME NEW v \in Visit, NEW t \in UserToken, InsertSession(v, t)
      PROVE  LoginInv'
  <2>1. visits[v].at # "idle" /\ visits[v].now + Day \in Nat
    BY <1>4, LoginAssumption DEF InsertSession, LoginTypeOK, VisitRow
  <2>2. StoreTypeOK'
    BY <1>4, <2>1 DEF InsertSession, StoreTypeOK, UserSessionRow
  <2>3. NoSessionOfDisabled'
    BY <1>4 DEF InsertSession, SessionInserted, NoSessionOfDisabled, StoreTypeOK
  <2> QED
    BY <1>4, <2>1, <2>2, <2>3, EndLoginCounts DEF InsertSession
<1> QED
  BY <1>1, <1>2, <1>3, <1>4 DEF VisitStep

\* Every step keeps the invariant.
LEMMA LoginNextInv == LoginInv /\ [LoginNext]_loginVars => LoginInv'
<1> SUFFICES ASSUME LoginInv, [LoginNext]_loginVars PROVE LoginInv'
  OBVIOUS
<1>1. ASSUME [StoreNext]_storeVars, UNCHANGED <<logins, visits>> PROVE LoginInv'
  <2>1. StoreTypeOK' /\ NoSessionOfDisabled'
    BY <1>1, StoreNextType, StoreKeepsSessions DEF LoginInv
  <2> QED
    BY <1>1, <2>1 DEF LoginInv, LoginTypeOK, SlotsReturned, InLogin
<1>2. ASSUME NEW t \in UserToken, Logout(t) PROVE LoginInv'
  <2>1. StoreTypeOK'
    BY <1>2 DEF Logout, LoginInv, StoreTypeOK, UserSessionRow
  <2>2. NoSessionOfDisabled'
    BY <1>2, NoneAssumption DEF Logout, LoginInv, StoreTypeOK, NoSessionOfDisabled
  <2> QED
    BY <1>2, <2>1, <2>2 DEF Logout, LoginInv, LoginTypeOK, SlotsReturned, InLogin
<1> QED
  BY <1>1, <1>2, VisitKeepsInv DEF LoginNext, loginVars

\* The invariant holds in every reachable state.
LEMMA LoginInvariant == LoginSpec => []LoginInv
<1>1. LoginInit => LoginInv
  <2> SUFFICES ASSUME LoginInit PROVE LoginInv
    OBVIOUS
  <2>1. StoreTypeOK
    BY StoreInitType DEF LoginInit
  <2>2. NoSessionOfDisabled
    BY NoneAssumption DEF LoginInit, StoreInit, NoSessionOfDisabled
  <2>3. InLogin = {}
    BY DEF LoginInit, InLogin, NoVisit
  <2>4. LoginTypeOK /\ SlotsReturned
    BY <2>3, FS_EmptySet, LoginAssumption
    DEF LoginInit, LoginTypeOK, SlotsReturned, VisitRow, NoVisit
  <2> QED
    BY <2>1, <2>2, <2>4 DEF LoginInv
<1> QED
  BY <1>1, LoginNextInv, PTL DEF LoginSpec

\* No disabled account has a login session, although a Login may have read the
\* account before DisableUser (Login, DisableUser).
THEOREM DisabledHasNoSession == LoginSpec => []NoSessionOfDisabled
<1>1. LoginInv => NoSessionOfDisabled
  BY DEF LoginInv
<1> QED
  BY <1>1, LoginInvariant, PTL

\* The slots taken are those of the Login calls in flight, on every way out of
\* Login, however many calls and slots there are.
THEOREM SlotsAreReturned == LoginSpec => []SlotsReturned
<1>1. LoginInv => SlotsReturned
  BY DEF LoginInv
<1> QED
  BY <1>1, LoginInvariant, PTL

-----------------------------------------------------------------------------
(* Certificates.                                                           *)

Enrolled ==
    \A d \in Device :
        /\ certificate[d] = None <=> devices[d].owner = None
        /\ devices[d].revoked => devices[d].owner # None

CallersEnrolled ==
    \A r \in Call : calls[r] # NoCall => devices[calls[r].device].owner # None

UnissuedAdmitsNobody == \A t \in Token : tokens[t] = NoToken => admitted[t] = 0

CertInv ==
    /\ StoreTypeOK /\ CertTypeOK
    /\ OneAnswerPerRequest /\ TokenAdmitsOnce
    /\ Enrolled /\ CallersEnrolled /\ UnissuedAdmitsNobody

\* A call row that is not idle is in one of its two states.
LEMMA CallRows ==
    ASSUME CertInv, NEW r \in Call, calls[r] # NoCall
    PROVE  /\ calls[r] \in CallRow
           /\ calls[r].device \in Device /\ calls[r].request \in Request
           /\ calls[r].token \in Token \cup {None} /\ calls[r].now \in Nat
BY DEF CertInv, CertTypeOK, CallRow

\* What the steps of the database that mint nothing do to a machine.
LEMMA OtherDevices ==
    ASSUME StoreTypeOK, OtherStep, NEW d \in Device
    PROVE  /\ devices'[d].owner = devices[d].owner
           /\ devices'[d].revoked => devices[d].revoked \/ devices[d].owner # None
<1>1. ASSUME AccountStep \/ OwnerStep \/ Tick PROVE UNCHANGED devices
  <2>1. ASSUME AccountStep PROVE UNCHANGED devices
    BY <2>1 DEF AccountStep, CreateUser, DisableUser, CountNetworks, InsertNetwork, tables
  <2>2. ASSUME OwnerStep PROVE UNCHANGED devices
    <3>1. ASSUME NEW u \in User, NEW n \in Network, NEW e \in Device,
                 BindDevice(u, n, e) \/ UnbindDevice(u, n, e)
          PROVE  UNCHANGED devices
      BY <3>1 DEF BindDevice, UnbindDevice
    <3>2. ASSUME NEW u \in User, NEW n \in Network, DeleteNetwork(u, n)
          PROVE  UNCHANGED devices
      BY <3>2 DEF DeleteNetwork
    <3> QED
      BY <2>2, <3>1, <3>2 DEF OwnerStep, UpdateNetworkLimit, IssueEnrollmentToken, DeletePair
  <2>3. ASSUME Tick PROVE UNCHANGED devices
    BY <2>3 DEF Tick, tables
  <2> QED
    BY <1>1, <2>1, <2>2, <2>3
<1>2. ASSUME NEW e \in Device, RevokeDevice(e)
      PROVE  /\ devices'[d].owner = devices[d].owner
             /\ devices'[d].revoked => devices[d].revoked \/ devices[d].owner # None
  BY <1>2 DEF RevokeDevice, StoreTypeOK, DeviceRow
<1> QED
  BY <1>1, <1>2 DEF OtherStep

\* What they do to a token: it is issued, or used up with its network.
LEMMA OtherTokens ==
    ASSUME StoreTypeOK, OtherStep, NEW t \in Token
    PROVE  /\ \/ tokens'[t] = tokens[t]
              \/ tokens[t] = NoToken /\ tokens'[t] # NoToken /\ ~tokens'[t].used
              \/ /\ tokens[t] # NoToken
                 /\ tokens'[t].used /\ tokens'[t].network = tokens[t].network
                 /\ networks'[tokens[t].network].deleted
           /\ \A n \in Network : networks[n].deleted => networks'[n].deleted
<1>1. ASSUME NEW u \in User, NEW n \in Network, DeleteNetwork(u, n)
      PROVE  /\ \/ tokens'[t] = tokens[t]
                \/ /\ tokens[t] # NoToken
                   /\ tokens'[t].used /\ tokens'[t].network = tokens[t].network
                   /\ networks'[tokens[t].network].deleted
             /\ \A m \in Network : networks[m].deleted => networks'[m].deleted
  <2>1. \A m \in Network : networks[m].deleted => networks'[m].deleted
    BY <1>1 DEF DeleteNetwork, StoreTypeOK, NetworkRow
  <2>2. CASE tokens[t].network # n
    BY <1>1, <2>1, <2>2 DEF DeleteNetwork
  <2>3. CASE tokens[t].network = n
    <3>1. tokens[t] # NoToken
      BY <2>3, NoneAssumption DEF NoToken
    <3>2. tokens[t] \in TokenRow
      BY <3>1 DEF StoreTypeOK
    <3>3. tokens'[t] = [tokens[t] EXCEPT !.used = TRUE]
      BY <1>1, <2>3 DEF DeleteNetwork
    <3>4. networks'[n].deleted
      BY <1>1 DEF DeleteNetwork, StoreTypeOK, NetworkRow
    <3> QED
      BY <2>1, <2>3, <3>1, <3>2, <3>3, <3>4 DEF TokenRow
  <2> QED
    BY <2>2, <2>3
<1>2. ASSUME NEW u \in User, NEW n \in Network, NEW s \in Token, NEW now \in Nows,
             IssueEnrollmentToken(u, n, s, now)
      PROVE  /\ \/ tokens'[t] = tokens[t]
                \/ tokens[t] = NoToken /\ tokens'[t] # NoToken /\ ~tokens'[t].used
             /\ UNCHANGED networks
  BY <1>2 DEF IssueEnrollmentToken, StoreTypeOK, NoToken
<1>3. ASSUME UNCHANGED tokens, NEW n \in Network, NEW row, row.deleted = networks[n].deleted,
             networks' = [networks EXCEPT ![n] = row]
      PROVE  UNCHANGED tokens /\ \A m \in Network : networks'[m].deleted = networks[m].deleted
  BY <1>3 DEF StoreTypeOK
<1>4. ASSUME NEW u \in User, NEW n \in Network, NEW limit \in Limits,
             UpdateNetworkLimit(u, n, limit)
      PROVE  UNCHANGED tokens /\ \A m \in Network : networks'[m].deleted = networks[m].deleted
  <2>1. [networks[n] EXCEPT !.limit = limit].deleted = networks[n].deleted
    BY DEF StoreTypeOK, NetworkRow
  <2> QED
    BY <1>3, <1>4, <2>1 DEF UpdateNetworkLimit
<1>5. ASSUME NEW c \in Creator, NEW n \in Network, InsertNetwork(c, n)
      PROVE  UNCHANGED tokens /\ \A m \in Network : networks'[m].deleted = networks[m].deleted
  <2>1. [networks[n] EXCEPT !.owner = creating[c]].deleted = networks[n].deleted
    BY DEF StoreTypeOK, NetworkRow
  <2> QED
    BY <1>3, <1>5, <2>1 DEF InsertNetwork
<1>6. ASSUME NEW u \in User, NEW n \in Network,
             \/ \E d \in Device : BindDevice(u, n, d) \/ UnbindDevice(u, n, d)
             \/ \E p \in Pair : DeletePair(u, n, p)
      PROVE  UNCHANGED <<tokens, networks>>
  BY <1>6 DEF BindDevice, UnbindDevice, DeletePair
<1>7. ASSUME \/ Tick
             \/ \E u \in User : CreateUser(u) \/ DisableUser(u)
             \/ \E c \in Creator, u \in User : CountNetworks(c, u)
             \/ \E d \in Device : RevokeDevice(d)
      PROVE  UNCHANGED <<tokens, networks>>
  BY <1>7 DEF CreateUser, DisableUser, CountNetworks, RevokeDevice, Tick, tables
<1> QED
  BY <1>1, <1>2, <1>4, <1>5, <1>6, <1>7 DEF OtherStep, OwnerStep, AccountStep

\* The steps that mint nothing.
LEMMA OtherKeepsInv == CertInv /\ OtherStep => CertInv'
<1> SUFFICES ASSUME CertInv, OtherStep PROVE CertInv'
  OBVIOUS
<1>1. StoreTypeOK'
  BY StoreNextType DEF CertInv, OtherStep, StoreNext, MachineStep
<1>2. UNCHANGED <<issued, certificate, renewals, calls, answers, admitted>>
  BY DEF OtherStep, certVars
<1>3. CertTypeOK' /\ OneAnswerPerRequest'
  BY <1>2 DEF CertInv, CertTypeOK, OneAnswerPerRequest
<1>4. Enrolled' /\ CallersEnrolled'
  BY <1>2, OtherDevices
  DEF CertInv, Enrolled, CallersEnrolled, CertTypeOK, CallRow
<1>5. ASSUME NEW t \in Token
      PROVE  /\ admitted[t] <= 1
             /\ admitted[t] = 1 => tokens'[t].used
             /\ tokens'[t] # NoToken /\ tokens'[t].used =>
                    admitted[t] = 1 \/ networks'[tokens'[t].network].deleted
             /\ tokens'[t] = NoToken => admitted[t] = 0
  <2>1. /\ admitted[t] <= 1
        /\ admitted[t] = 1 => tokens[t].used
        /\ tokens[t] # NoToken /\ tokens[t].used =>
               admitted[t] = 1 \/ networks[tokens[t].network].deleted
        /\ tokens[t] = NoToken => admitted[t] = 0
    BY DEF CertInv, TokenAdmitsOnce, UnissuedAdmitsNobody
  <2>2. tokens[t] # NoToken => tokens[t].network \in Network
    BY DEF CertInv, StoreTypeOK, TokenRow
  <2>3. CASE tokens'[t] = tokens[t]
    <3>1. ASSUME tokens[t] # NoToken, networks[tokens[t].network].deleted
          PROVE  networks'[tokens[t].network].deleted
      BY <2>2, <3>1, OtherTokens DEF CertInv
    <3> QED
      BY <2>1, <2>3, <3>1
  <2>4. CASE tokens[t] = NoToken /\ tokens'[t] # NoToken /\ ~tokens'[t].used
    <3>1. admitted[t] = 0
      BY <2>1, <2>4
    <3> QED
      BY <2>4, <3>1
  <2>5. CASE /\ tokens[t] # NoToken
             /\ tokens'[t].used /\ tokens'[t].network = tokens[t].network
             /\ networks'[tokens[t].network].deleted
    <3>1. tokens'[t] # NoToken
      BY <2>2, <2>5, NoneAssumption DEF NoToken
    <3>2. networks'[tokens'[t].network].deleted
      BY <2>5
    <3> QED
      BY <2>1, <2>5, <3>1, <3>2
  <2> QED
    BY <2>3, <2>4, <2>5, OtherTokens DEF CertInv
<1>6. TokenAdmitsOnce' /\ UnissuedAdmitsNobody'
  BY <1>2, <1>5 DEF TokenAdmitsOnce, UnissuedAdmitsNobody
<1> QED
  BY <1>1, <1>3, <1>4, <1>6 DEF CertInv

\* A machine that is let in: by a token, which is used up, or by its network.
LEMMA AdmissionKeepsInv == CertInv /\ AdmissionStep => CertInv'
<1> SUFFICES ASSUME CertInv, NEW d \in Device, NEW k \in Cert, NEW now \in Nows,
                    \/ \E t \in Token : EnrollMachine(d, t, k, now)
                    \/ \E n \in Network : JoinMachine(d, n, k, now)
             PROVE  CertInv'
  BY DEF AdmissionStep
<1> now \in Nat
  BY DEF Nows, CertInv, StoreTypeOK
<1>1. StoreTypeOK'
  BY StoreNextType DEF CertInv, EnrollMachine, JoinMachine, StoreNext, MachineStep
<1>2. UNCHANGED <<renewals, calls>> /\ AdmitCertificate(d, k, now) /\ AnswerStored(d)
  BY DEF EnrollMachine, JoinMachine
<1>3. PICK u \in User, n \in Network : AdmitDevice(d, u, n)
  BY DEF EnrollMachine, JoinMachine, Enroll, JoinNetwork, CertInv, StoreTypeOK,
         TokenRow, NetworkRow
<1>4. issued' \in [Cert -> {NotMinted} \cup CertRow]
  <2>1. [device |-> d, notAfter |-> now + Month] \in CertRow
    BY CertificateAssumption DEF CertRow
  <2> QED
    BY <1>2, <2>1 DEF AdmitCertificate, Mint, CertInv, CertTypeOK
<1>5. certificate' \in [Device -> Cert \cup {None}]
  BY <1>2 DEF AdmitCertificate, CertInv, CertTypeOK
<1>6. ASSUME NEW t \in Token, EnrollMachine(d, t, k, now)
      PROVE  /\ tokens[t] # NoToken
             /\ admitted[t] = 0
             /\ tokens' = [tokens EXCEPT ![t] = [tokens[t] EXCEPT !.used = TRUE]]
             /\ admitted' = [admitted EXCEPT ![t] = 1]
  <2>1. tokens[t] # NoToken /\ ~tokens[t].used
    BY <1>6 DEF EnrollMachine, Enroll, TokenValid
  <2>2. admitted[t] = 0
    <3>1. admitted[t] \in Nat
      BY DEF CertInv, CertTypeOK
    <3>2. admitted[t] <= 1 /\ admitted[t] # 1
      BY <2>1 DEF CertInv, TokenAdmitsOnce
    <3> QED
      BY <3>1, <3>2
  <2>3. tokens' = [tokens EXCEPT ![t] = [tokens[t] EXCEPT !.used = TRUE]]
    BY <1>6 DEF EnrollMachine, Enroll
  <2>4. admitted' = [admitted EXCEPT ![t] = 1]
    BY <1>6, <2>2 DEF EnrollMachine
  <2> QED
    BY <2>1, <2>2, <2>3, <2>4
<1>7. ASSUME NEW m \in Network, JoinMachine(d, m, k, now)
      PROVE  UNCHANGED <<tokens, admitted>>
  BY <1>7 DEF JoinMachine, JoinNetwork
<1>8. UNCHANGED networks
  BY DEF EnrollMachine, JoinMachine, Enroll, JoinNetwork
<1>9. CertTypeOK'
  <2>1. admitted' \in [Token -> Nat]
    BY <1>6, <1>7 DEF CertInv, CertTypeOK
  <2>2. certificate'[d] \in Cert
    BY <1>2 DEF AdmitCertificate, CertInv, CertTypeOK, Enrolled
  <2>3. answers' \subseteq Device \X (Request \cup {None}) \X Cert
    BY <1>2, <2>2 DEF AnswerStored, CertInv, CertTypeOK
  <2> QED
    BY <1>2, <1>4, <1>5, <2>1, <2>3 DEF CertInv, CertTypeOK
<1>10. OneAnswerPerRequest'
  <2>1. ASSUME NEW a \in answers', a[2] # None PROVE a \in answers
    BY <1>2, <2>1 DEF AnswerStored
  <2> QED
    BY <1>2, <2>1 DEF CertInv, OneAnswerPerRequest
<1>11. Enrolled'
  <2>1. ASSUME NEW e \in Device
        PROVE  /\ devices'[e].owner = IF e = d /\ devices[e].owner = None
                                      THEN u ELSE devices[e].owner
               /\ devices'[e].revoked = devices[e].revoked
    BY <1>3 DEF AdmitDevice, CertInv, StoreTypeOK, DeviceRow
  <2>2. \A e \in Device : e # d => certificate'[e] = certificate[e]
    BY <1>2 DEF AdmitCertificate, CertInv, CertTypeOK
  <2>3. certificate'[d] # None
    BY <1>2, CertificateAssumption
    DEF AdmitCertificate, CertInv, CertTypeOK, Enrolled
  <2>4. u # None
    BY NoneAssumption
  <2> QED
    BY <2>1, <2>2, <2>3, <2>4 DEF CertInv, Enrolled
<1>12. CallersEnrolled'
  <2>1. ASSUME NEW e \in Device, devices[e].owner # None
        PROVE  devices'[e].owner # None
    BY <1>3, <2>1 DEF AdmitDevice, CertInv, StoreTypeOK, DeviceRow
  <2> QED
    BY <1>2, <2>1, CallRows DEF CertInv, CallersEnrolled
<1>13. TokenAdmitsOnce' /\ UnissuedAdmitsNobody'
  <2>1. CASE \E m \in Network : JoinMachine(d, m, k, now)
    BY <1>7, <1>8, <2>1 DEF CertInv, TokenAdmitsOnce, UnissuedAdmitsNobody
  <2>2. ASSUME NEW t \in Token, EnrollMachine(d, t, k, now)
        PROVE  TokenAdmitsOnce' /\ UnissuedAdmitsNobody'
    <3>1. /\ tokens'[t].used /\ tokens'[t] # NoToken /\ admitted'[t] = 1
          /\ \A s \in Token : s # t =>
                 tokens'[s] = tokens[s] /\ admitted'[s] = admitted[s]
      <4>1. tokens[t] \in TokenRow
        BY <1>6, <2>2 DEF CertInv, StoreTypeOK
      <4>2. [tokens[t] EXCEPT !.used = TRUE] \in TokenRow
        BY <4>1 DEF TokenRow
      <4>3. \A row \in TokenRow : row # NoToken
        BY NoneAssumption DEF TokenRow, NoToken
      <4>4. tokens'[t] = [tokens[t] EXCEPT !.used = TRUE]
        BY <1>6, <2>2 DEF CertInv, StoreTypeOK
      <4>5. tokens'[t].used
        BY <4>1, <4>4 DEF TokenRow
      <4>6. tokens'[t] # NoToken
        BY <4>2, <4>3, <4>4
      <4>7. admitted'[t] = 1
        BY <1>6, <2>2 DEF CertInv, CertTypeOK
      <4>8. \A s \in Token : s # t =>
                tokens'[s] = tokens[s] /\ admitted'[s] = admitted[s]
        BY <1>6, <2>2 DEF CertInv, StoreTypeOK, CertTypeOK
      <4> QED
        BY <4>5, <4>6, <4>7, <4>8
    <3> QED
      BY <1>8, <3>1 DEF CertInv, TokenAdmitsOnce, UnissuedAdmitsNobody
  <2> QED
    BY <2>1, <2>2
<1> QED
  BY <1>1, <1>9, <1>10, <1>11, <1>12, <1>13 DEF CertInv

\* A call that ends without a certificate, or with one on record, changes
\* nothing else.
LEMMA AnswersKeepInv ==
    ASSUME CertInv, NEW r \in Call, calls[r] # NoCall, End(r),
           UNCHANGED <<storeVars, issued, certificate, renewals, admitted>>,
           \/ UNCHANGED answers
           \/ /\ Saved(r) # None
              /\ answers' = answers \cup {<<calls[r].device, calls[r].request, Saved(r)>>}
    PROVE  CertInv'
<1>1. calls' \in [Call -> {NoCall} \cup CallRow]
  BY DEF End, CertInv, CertTypeOK
<1>2. /\ <<calls[r].device, calls[r].request>> \in Device \X Request
      /\ calls[r].device \in Device /\ calls[r].request \in Request
  BY CallRows
<1>3. Saved(r) # None => Saved(r) \in Cert
  BY <1>2 DEF Saved, CertInv, CertTypeOK
<1>4. answers' \subseteq Device \X (Request \cup {None}) \X Cert
  BY <1>2, <1>3 DEF CertInv, CertTypeOK
<1>5. OneAnswerPerRequest'
  <2>1. ASSUME NEW a \in answers, a[2] # None PROVE renewals[<<a[1], a[2]>>] = a[3]
    BY <2>1 DEF CertInv, OneAnswerPerRequest
  <2>2. renewals[<<calls[r].device, calls[r].request>>] = Saved(r)
    BY DEF Saved
  <2>3. renewals' = renewals
    OBVIOUS
  <2>4. CASE UNCHANGED answers
    BY <2>1, <2>3, <2>4 DEF OneAnswerPerRequest
  <2>5. CASE answers' = answers \cup {<<calls[r].device, calls[r].request, Saved(r)>>}
    <3>1. ASSUME NEW a \in answers', a[2] # None
          PROVE  renewals'[<<a[1], a[2]>>] = a[3]
      <4>1. CASE a \in answers
        BY <2>1, <2>3, <3>1, <4>1
      <4>2. CASE a = <<calls[r].device, calls[r].request, Saved(r)>>
        BY <2>2, <2>3, <4>2
      <4> QED
        BY <2>5, <4>1, <4>2
    <3> QED
      BY <3>1 DEF OneAnswerPerRequest
  <2> QED
    BY <2>4, <2>5
<1>6. StoreTypeOK'
  BY DEF CertInv, StoreTypeOK, storeVars, tables
<1>7. CertTypeOK'
  BY <1>1, <1>4 DEF CertInv, CertTypeOK
<1>8. TokenAdmitsOnce' /\ UnissuedAdmitsNobody' /\ Enrolled'
  BY DEF CertInv, TokenAdmitsOnce, UnissuedAdmitsNobody, Enrolled, storeVars, tables
<1>9. CallersEnrolled'
  BY DEF End, CertInv, CertTypeOK, CallersEnrolled, storeVars, tables
<1> QED
  BY <1>5, <1>6, <1>7, <1>8, <1>9 DEF CertInv

\* A call that starts, or moves on to its transaction, changes only its row.
LEMMA StartsKeepInv ==
    ASSUME CertInv, NEW r \in Call, NEW row \in CallRow,
           devices[row.device].owner # None,
           calls' = [calls EXCEPT ![r] = row],
           UNCHANGED <<storeVars, issued, certificate, renewals, answers, admitted>>
    PROVE  CertInv'
<1>1. CertTypeOK'
  BY DEF CertInv, CertTypeOK
<1>2. StoreTypeOK'
  BY DEF CertInv, StoreTypeOK, storeVars, tables
<1>3. CallersEnrolled'
  BY DEF CertInv, CertTypeOK, CallersEnrolled, storeVars, tables
<1> QED
  BY <1>1, <1>2, <1>3
  DEF CertInv, OneAnswerPerRequest, TokenAdmitsOnce, UnissuedAdmitsNobody, Enrolled,
      storeVars, tables

\* The transaction of replaceCertificate.
LEMMA ReplaceKeepsInv ==
    ASSUME CertInv, NEW r \in Call, NEW k \in Cert, ReplaceCertificate(r, k)
    PROVE  CertInv'
<1> DEFINE d == calls[r].device
           q == calls[r].request
           t == calls[r].token
<1>1. calls[r] # NoCall
  BY DEF ReplaceCertificate, NoCall
<1>2. /\ d \in Device /\ q \in Request /\ <<d, q>> \in Device \X Request
      /\ t \in Token \cup {None} /\ calls[r].now \in Nat
  BY <1>1, CallRows
<1>3. issued' \in [Cert -> {NotMinted} \cup CertRow]
  <2>1. [device |-> d, notAfter |-> calls[r].now + Month] \in CertRow
    BY <1>2, CertificateAssumption DEF CertRow
  <2> QED
    BY <2>1 DEF ReplaceCertificate, Mint, CertInv, CertTypeOK
<1>4. calls' \in [Call -> {NoCall} \cup CallRow]
  BY DEF ReplaceCertificate, AnswerWith, End, CertInv, CertTypeOK
<1>5. /\ renewals' = [renewals EXCEPT ![<<d, q>>] = k]
      /\ certificate' = [certificate EXCEPT ![d] = k]
      /\ answers' = answers \cup {<<d, q, k>>}
      /\ renewals[<<d, q>>] = None
  BY DEF ReplaceCertificate, AnswerWith, NotRecorded, Saved
<1>6. /\ renewals' \in [Device \X Request -> Cert \cup {None}]
      /\ certificate' \in [Device -> Cert \cup {None}]
      /\ answers' \subseteq Device \X (Request \cup {None}) \X Cert
  BY <1>2, <1>5 DEF CertInv, CertTypeOK
<1>7. OneAnswerPerRequest'
  <2>1. ASSUME NEW a \in answers, a[2] # None PROVE renewals'[<<a[1], a[2]>>] = a[3]
    <3>1. a[1] \in Device /\ a[2] \in Request /\ a[3] \in Cert
      BY <2>1 DEF CertInv, CertTypeOK
    <3>2. renewals[<<a[1], a[2]>>] = a[3]
      BY <2>1 DEF CertInv, OneAnswerPerRequest
    <3>3. <<a[1], a[2]>> # <<d, q>>
      BY <1>5, <3>1, <3>2, CertificateAssumption
    <3> QED
      BY <1>5, <3>1, <3>2, <3>3 DEF CertInv, CertTypeOK
  <2>2. renewals'[<<d, q>>] = k
    BY <1>2, <1>5 DEF CertInv, CertTypeOK
  <2> QED
    <3>1. ASSUME NEW a \in answers', a[2] # None
          PROVE  renewals'[<<a[1], a[2]>>] = a[3]
      <4>1. CASE a \in answers
        BY <2>1, <3>1, <4>1
      <4>2. CASE a = <<d, q, k>>
        BY <2>2, <4>2
      <4> QED
        BY <1>5, <4>1, <4>2
    <3> QED
      BY <3>1 DEF OneAnswerPerRequest
<1>8. devices' = devices /\ networks' = networks
  BY DEF ReplaceCertificate
<1>9. Enrolled'
  <2>1. devices[d].owner # None
    BY <1>1 DEF CertInv, CallersEnrolled
  <2>2. \A e \in Device : e # d => certificate'[e] = certificate[e]
    BY <1>5 DEF CertInv, CertTypeOK
  <2>3. certificate'[d] # None
    BY <1>2, <1>5, CertificateAssumption DEF CertInv, CertTypeOK
  <2> QED
    BY <1>2, <1>8, <2>1, <2>2, <2>3 DEF CertInv, Enrolled
<1>10. CallersEnrolled'
  BY <1>8 DEF ReplaceCertificate, AnswerWith, End, CertInv, CertTypeOK, CallersEnrolled
<1>11. CASE t = None
  <2>1. UNCHANGED <<tokens, admitted>>
    BY <1>11 DEF ReplaceCertificate, ConsumeToken
  <2>2. TokenAdmitsOnce' /\ UnissuedAdmitsNobody'
    BY <1>8, <2>1 DEF CertInv, TokenAdmitsOnce, UnissuedAdmitsNobody
  <2>3. StoreTypeOK'
    BY <2>1 DEF ReplaceCertificate, CertInv, StoreTypeOK
  <2>4. CertTypeOK'
    BY <1>3, <1>4, <1>6, <2>1 DEF CertInv, CertTypeOK
  <2> QED
    BY <1>7, <1>9, <1>10, <2>2, <2>3, <2>4 DEF CertInv
<1>12. CASE t \in Token
  <2>1. t # None
    BY <1>12, CertificateAssumption
  <2>2. /\ tokens' = [tokens EXCEPT ![t].used = TRUE]
        /\ admitted' = [admitted EXCEPT ![t] = @ + 1]
    BY <2>1 DEF ReplaceCertificate, ConsumeToken
  <2>3. ~tokens[t].used
    BY <2>1 DEF ReplaceCertificate, TokenAdmits, TokenValid
  <2>4. tokens[t] # NoToken
    BY <2>3 DEF NoToken
  <2>5. admitted[t] = 0
    <3>1. admitted[t] \in Nat
      BY <1>12 DEF CertInv, CertTypeOK
    <3>2. admitted[t] <= 1 /\ admitted[t] # 1
      BY <1>12, <2>3 DEF CertInv, TokenAdmitsOnce
    <3> QED
      BY <3>1, <3>2
  <2>6. tokens' \in [Token -> {NoToken} \cup TokenRow] /\ tokens'[t].used
        /\ tokens'[t] # NoToken
    <3>1. tokens[t] \in TokenRow
      BY <1>12, <2>4 DEF CertInv, StoreTypeOK
    <3>2. [tokens[t] EXCEPT !.used = TRUE] \in TokenRow
      BY <3>1 DEF TokenRow
    <3>3. \A row \in TokenRow : row # NoToken
      BY NoneAssumption DEF TokenRow, NoToken
    <3>4. tokens'[t] = [tokens[t] EXCEPT !.used = TRUE]
      BY <1>12, <2>2 DEF CertInv, StoreTypeOK
    <3>5. tokens'[t].used
      BY <3>1, <3>4 DEF TokenRow
    <3>6. tokens' \in [Token -> {NoToken} \cup TokenRow]
      BY <2>2, <3>2 DEF CertInv, StoreTypeOK
    <3> QED
      BY <3>2, <3>3, <3>4, <3>5, <3>6
  <2>7. StoreTypeOK'
    BY <2>6 DEF ReplaceCertificate, CertInv, StoreTypeOK
  <2>8. admitted' \in [Token -> Nat] /\ admitted'[t] = 1
    BY <1>12, <2>2, <2>5 DEF CertInv, CertTypeOK
  <2>9. CertTypeOK'
    BY <1>3, <1>4, <1>6, <2>8 DEF CertInv, CertTypeOK
  <2>10. TokenAdmitsOnce' /\ UnissuedAdmitsNobody'
    <3>1. \A s \in Token : s # t => tokens'[s] = tokens[s] /\ admitted'[s] = admitted[s]
      BY <2>2 DEF CertInv, StoreTypeOK, CertTypeOK
    <3> QED
      BY <1>8, <2>6, <2>8, <3>1 DEF CertInv, TokenAdmitsOnce, UnissuedAdmitsNobody
  <2> QED
    BY <1>7, <1>9, <1>10, <2>7, <2>9, <2>10 DEF CertInv
<1> QED
  BY <1>2, <1>11, <1>12

\* Every step of a renewal or a recovery.
LEMMA CallKeepsInv ==
    ASSUME CertInv, CallStep
    PROVE  CertInv'
<1>1. ASSUME NEW r \in Call, NEW q \in Request, NEW now \in Nows, NEW k \in Cert,
             StartRenew(r, q, k, now)
      PROVE  CertInv'
  <2> DEFINE row == [at |-> "lookup", device |-> issued[k].device, request |-> q,
                     token |-> None, now |-> now, notAfter |-> issued[k].notAfter]
  <2>1. devices[issued[k].device].owner # None
    BY <1>1, NoneAssumption DEF StartRenew, DeviceAuthorized
  <2>2. row \in CallRow
    BY <1>1 DEF StartRenew, CallRow, CertInv, CertTypeOK, StoreTypeOK, Nows, CertRow,
                NotMinted
  <2> QED
    BY <1>1, <2>1, <2>2, StartsKeepInv DEF StartRenew
<1>2. ASSUME NEW r \in Call, NEW q \in Request, NEW now \in Nows, NEW d \in Device,
             NEW t \in Token, StartRecovery(r, d, q, t, now)
      PROVE  CertInv'
  <2> DEFINE row == [at |-> "replace", device |-> d, request |-> q, token |-> t,
                     now |-> now, notAfter |-> 0]
  <2>1. devices[d].owner # None
    BY <1>2, NoneAssumption DEF StartRecovery, DeviceAuthorized
  <2>2. row \in CallRow
    BY DEF CallRow, CertInv, StoreTypeOK, Nows
  <2> QED
    BY <1>2, <2>1, <2>2, StartsKeepInv DEF StartRecovery
<1>3. ASSUME NEW r \in Call, LookUpRenewal(r) PROVE CertInv'
  <2>1. calls[r] # NoCall
    BY <1>3 DEF LookUpRenewal, NoCall
  <2>2. CASE End(r)
    BY <1>3, <2>1, <2>2, AnswersKeepInv DEF LookUpRenewal, AnswerWith
  <2>3. CASE ~End(r)
    <3> DEFINE row == [calls[r] EXCEPT !.at = "replace"]
    <3>1. /\ calls' = [calls EXCEPT ![r] = row]
          /\ UNCHANGED <<storeVars, issued, certificate, renewals, answers, admitted>>
      BY <1>3, <2>3 DEF LookUpRenewal, AnswerWith
    <3>2. row \in CallRow
      BY <2>1, CallRows DEF CallRow
    <3>3. devices[row.device].owner # None
      BY <2>1, CallRows DEF CertInv, CallersEnrolled, CallRow
    <3> QED
      BY <3>1, <3>2, <3>3, StartsKeepInv
  <2> QED
    BY <1>3, <2>2, <2>3 DEF LookUpRenewal, AnswerWith
<1>4. ASSUME NEW r \in Call, ReplaceFindsSaved(r) \/ ReplaceRefused(r) PROVE CertInv'
  <2>1. calls[r] # NoCall
    BY <1>4 DEF ReplaceFindsSaved, ReplaceRefused, NoCall
  <2> QED
    BY <1>4, <2>1, AnswersKeepInv DEF ReplaceFindsSaved, ReplaceRefused, AnswerWith
<1> QED
  BY <1>1, <1>2, <1>3, <1>4, ReplaceKeepsInv DEF CallStep

LEMMA CertNextInv == CertInv /\ [CertNext]_certificateVars => CertInv'
<1>1. CertInv /\ UNCHANGED certificateVars => CertInv'
  BY DEF CertInv, StoreTypeOK, CertTypeOK, OneAnswerPerRequest, TokenAdmitsOnce,
         Enrolled, CallersEnrolled, UnissuedAdmitsNobody, certificateVars, certVars,
         storeVars, tables
<1> QED
  BY <1>1, AdmissionKeepsInv, CallKeepsInv, OtherKeepsInv DEF CertNext

\* Renewals and recoveries change certificates only in their transaction.
LEMMA QuietCalls ==
    ASSUME CallStep, ~\E r \in Call, k \in Cert : ReplaceCertificate(r, k)
    PROVE  UNCHANGED <<issued, certificate, renewals>>
BY DEF CallStep, StartRenew, StartRecovery, LookUpRenewal, ReplaceFindsSaved,
       ReplaceRefused

-----------------------------------------------------------------------------
(* Whose certificates they are.                                            *)

OwnCertificates ==
    /\ \A d \in Device :
           /\ certificate[d] # None => issued[certificate[d]].device = d
           /\ \A q \in Request : renewals[<<d, q>>] # None =>
                  issued[renewals[<<d, q>>]].device = d
    /\ \A a \in answers : issued[a[3]].device = a[1]

\* What let a call c in, as a row of issued: a certificate of the machine still
\* valid, and due if the call goes on to replace it, or for a recovery one that
\* had expired.
CausedBy(c, row) ==
    /\ row.device = c.device
    /\ c.token = None =>
           /\ row.notAfter = c.notAfter /\ c.now <= c.notAfter
           /\ c.at = "replace" => c.notAfter <= c.now + Week
    /\ c.token # None => row.notAfter <= c.now

CallsHaveCause ==
    \A r \in Call : calls[r] # NoCall => \E k \in Cert : CausedBy(calls[r], issued[k])

OwnInv == OwnCertificates /\ CallsHaveCause

\* What minting does to the certificates there are: nothing.
LEMMA MintedRows ==
    ASSUME CertTypeOK, NEW e \in Device, NEW k \in Cert, NEW now, Mint(k, e, now),
           NEW j \in Cert
    PROVE  /\ issued[j].device # None => issued'[j] = issued[j]
           /\ issued'[k].device = e /\ issued'[k].notAfter = now + Month
           /\ issued'[j].device # issued[j].device => j = k
BY DEF Mint, CertTypeOK, NotMinted

\* A row once minted stays what it is.
LEMMA IssuedLasts ==
    ASSUME CertInv, [CertNext]_certificateVars, NEW j \in Cert, issued[j].device # None
    PROVE  issued'[j] = issued[j]
<1>1. ASSUME NEW d \in Device, NEW k \in Cert, NEW now, AdmitCertificate(d, k, now)
      PROVE  issued'[j] = issued[j]
  BY <1>1, MintedRows DEF AdmitCertificate, CertInv
<1>2. ASSUME NEW r \in Call, NEW k \in Cert, ReplaceCertificate(r, k)
      PROVE  issued'[j] = issued[j]
  <2>1. calls[r].device \in Device
    BY <1>2, CallRows DEF ReplaceCertificate, NoCall
  <2> QED
    BY <1>2, <2>1, MintedRows DEF ReplaceCertificate, CertInv
<1> QED
  BY <1>1, <1>2, QuietCalls
  DEF CertNext, AdmissionStep, EnrollMachine, JoinMachine, OtherStep, certVars,
      certificateVars

\* So what is stored, recorded and answered stays its machine's when none of it
\* changes but for an answer that is its machine's too.
LEMMA OwnStays ==
    ASSUME CertInv, OwnCertificates, [CertNext]_certificateVars,
           UNCHANGED <<certificate, renewals>>,
           \A a \in answers' : a \in answers \/ issued[a[3]].device = a[1],
           \A a \in answers' : a[1] \in Device /\ a[3] \in Cert
    PROVE  OwnCertificates'
<1>1. ASSUME NEW d \in Device, NEW k \in Cert, issued[k].device = d
      PROVE  issued'[k].device = d
  BY <1>1, IssuedLasts, NoneAssumption
<1>2. ASSUME NEW d \in Device
      PROVE  /\ certificate'[d] # None => issued'[certificate'[d]].device = d
             /\ \A q \in Request : renewals'[<<d, q>>] # None =>
                    issued'[renewals'[<<d, q>>]].device = d
  BY <1>1 DEF OwnCertificates, CertInv, CertTypeOK
<1>3. ASSUME NEW a \in answers' PROVE issued'[a[3]].device = a[1]
  <2>1. issued[a[3]].device = a[1]
    BY DEF OwnCertificates
  <2> QED
    BY <1>1, <2>1
<1> QED
  BY <1>2, <1>3 DEF OwnCertificates

\* And when one certificate is minted for a machine, which stores it, may record
\* it, and is the only one to be answered.
LEMMA OwnMinted ==
    ASSUME CertInv, OwnCertificates, CertTypeOK',
           NEW e \in Device, NEW k \in Cert, NEW now, Mint(k, e, now),
           certificate' = [certificate EXCEPT ![e] = k],
           \/ UNCHANGED renewals
           \/ \E q \in Request : renewals' = [renewals EXCEPT ![<<e, q>>] = k],
           \A a \in answers' : a \in answers \/ (a[1] = e /\ a[3] = k)
    PROVE  OwnCertificates'
<1>1. ASSUME NEW d \in Device, NEW j \in Cert, issued[j].device = d
      PROVE  issued'[j].device = d
  BY <1>1, MintedRows, NoneAssumption DEF CertInv
<1>2. issued'[k].device = e
  BY MintedRows DEF CertInv
<1>3. ASSUME NEW d \in Device, certificate'[d] # None
      PROVE  issued'[certificate'[d]].device = d
  BY <1>1, <1>2, <1>3 DEF OwnCertificates, CertInv, CertTypeOK
<1>4. ASSUME NEW d \in Device, NEW q \in Request, renewals'[<<d, q>>] # None
      PROVE  issued'[renewals'[<<d, q>>]].device = d
  <2>1. <<d, q>> \in Device \X Request
    OBVIOUS
  <2>2. \/ renewals'[<<d, q>>] = renewals[<<d, q>>]
        \/ d = e /\ renewals'[<<d, q>>] = k
    BY <2>1 DEF CertInv, CertTypeOK
  <2>3. renewals[<<d, q>>] \in Cert \cup {None}
    BY <2>1 DEF CertInv, CertTypeOK
  <2> QED
    BY <1>1, <1>2, <1>4, <2>2, <2>3 DEF OwnCertificates
<1>5. ASSUME NEW a \in answers' PROVE issued'[a[3]].device = a[1]
  <2>1. a[1] \in Device /\ a[3] \in Cert
    BY DEF CertTypeOK
  <2> QED
    BY <1>1, <1>2, <2>1 DEF OwnCertificates
<1> QED
  BY <1>3, <1>4, <1>5 DEF OwnCertificates

\* Every step keeps what is stored, recorded and answered its machine's.
LEMMA OwnCertificatesKept ==
    ASSUME CertInv, CertInv', OwnCertificates, [CertNext]_certificateVars
    PROVE  OwnCertificates'
<1>1. \A a \in answers' : a[1] \in Device /\ a[3] \in Cert
  BY DEF CertInv, CertTypeOK
<1>2. ASSUME NEW d \in Device, NEW k \in Cert, NEW now, AdmitCertificate(d, k, now),
             AnswerStored(d), UNCHANGED renewals
      PROVE  OwnCertificates'
  <2>1. CASE devices[d].owner = None
    <3>1. Mint(k, d, now) /\ certificate' = [certificate EXCEPT ![d] = k]
      BY <1>2, <2>1 DEF AdmitCertificate
    <3>2. certificate'[d] = k
      BY <3>1 DEF CertInv, CertTypeOK
    <3>3. \A a \in answers' : a \in answers \/ (a[1] = d /\ a[3] = k)
      BY <1>2, <3>2 DEF AnswerStored
    <3> QED
      BY <1>2, <3>1, <3>3, OwnMinted DEF CertInv
  <2>2. CASE devices[d].owner # None
    <3>1. UNCHANGED <<issued, certificate>>
      BY <1>2, <2>2 DEF AdmitCertificate
    <3>2. issued[certificate[d]].device = d
      BY <2>2 DEF CertInv, Enrolled, OwnCertificates
    <3>3. \A a \in answers' : a \in answers \/ issued[a[3]].device = a[1]
      BY <1>2, <3>1, <3>2 DEF AnswerStored
    <3> QED
      BY <1>1, <1>2, <3>1, <3>3, OwnStays
  <2> QED
    BY <2>1, <2>2
<1>3. ASSUME NEW r \in Call, NEW k \in Cert, ReplaceCertificate(r, k)
      PROVE  OwnCertificates'
  <2>1. calls[r].device \in Device /\ calls[r].request \in Request
    BY <1>3, CallRows DEF ReplaceCertificate, NoCall
  <2>2. \A a \in answers' : a \in answers \/ (a[1] = calls[r].device /\ a[3] = k)
    BY <1>3 DEF ReplaceCertificate, AnswerWith
  <2>3. /\ Mint(k, calls[r].device, calls[r].now)
        /\ certificate' = [certificate EXCEPT ![calls[r].device] = k]
        /\ renewals' = [renewals EXCEPT ![<<calls[r].device, calls[r].request>>] = k]
    BY <1>3 DEF ReplaceCertificate
  <2> QED
    BY <2>1, <2>2, <2>3, OwnMinted DEF CertInv
<1>4. ASSUME NEW r \in Call, LookUpRenewal(r) \/ ReplaceFindsSaved(r)
      PROVE  OwnCertificates'
  <2>1. calls[r].device \in Device /\ calls[r].request \in Request
    BY <1>4, CallRows DEF LookUpRenewal, ReplaceFindsSaved, NoCall
  <2>2. Saved(r) # None => issued[Saved(r)].device = calls[r].device
    BY <2>1 DEF OwnCertificates, Saved
  <2>3. \A a \in answers' : a \in answers \/ issued[a[3]].device = a[1]
    BY <1>4, <2>2 DEF LookUpRenewal, ReplaceFindsSaved, AnswerWith
  <2>4. UNCHANGED <<certificate, renewals>>
    BY <1>4 DEF LookUpRenewal, ReplaceFindsSaved
  <2> QED
    BY <1>1, <2>3, <2>4, OwnStays
<1>5. ASSUME UNCHANGED <<certificate, renewals, answers>> PROVE OwnCertificates'
  BY <1>1, <1>5, OwnStays
<1> QED
  BY <1>2, <1>3, <1>4, <1>5
  DEF CertNext, AdmissionStep, EnrollMachine, JoinMachine, CallStep, StartRenew,
      StartRecovery, ReplaceRefused, OtherStep, certVars, certificateVars

\* A call goes on only for the cause that let it in.
LEMMA CallsHaveCauseKept ==
    ASSUME CertInv, OwnInv, [CertNext]_certificateVars
    PROVE  CallsHaveCause'
<1>1. ASSUME NEW r \in Call, NEW k \in Cert, issued[k].device = calls[r].device,
             calls[r] # NoCall
      PROVE  issued'[k] = issued[k]
  BY <1>1, CallRows, IssuedLasts, NoneAssumption
<1>2. ASSUME NEW r \in Call, calls[r] # NoCall
      PROVE  \E k \in Cert : CausedBy(calls[r], issued'[k])
  BY <1>1, <1>2 DEF OwnInv, CallsHaveCause, CausedBy
<1>3. ASSUME NEW r \in Call, NEW row, calls' = [calls EXCEPT ![r] = row],
             row # NoCall => \E k \in Cert : CausedBy(row, issued'[k])
      PROVE  CallsHaveCause'
  <2>1. ASSUME NEW s \in Call, calls'[s] # NoCall
        PROVE  \E k \in Cert : CausedBy(calls'[s], issued'[k])
    BY <1>2, <1>3, <2>1 DEF CertInv, CertTypeOK
  <2> QED
    BY <2>1 DEF CallsHaveCause
<1>4. ASSUME NEW r \in Call, End(r) PROVE CallsHaveCause'
  BY <1>3, <1>4 DEF End
<1>5. ASSUME NEW r \in Call, NEW q \in Request, NEW now \in Nows, NEW k \in Cert,
             StartRenew(r, q, k, now)
      PROVE  CallsHaveCause'
  <2> DEFINE row == [at |-> "lookup", device |-> issued[k].device, request |-> q,
                     token |-> None, now |-> now, notAfter |-> issued[k].notAfter]
  <2>1. calls' = [calls EXCEPT ![r] = row] /\ issued' = issued
    BY <1>5 DEF StartRenew
  <2>2. CausedBy(row, issued'[k])
    BY <1>5, <2>1 DEF StartRenew, CausedBy
  <2> QED
    BY <1>3, <2>1, <2>2
<1>6. ASSUME NEW r \in Call, NEW q \in Request, NEW now \in Nows, NEW d \in Device,
             NEW t \in Token, StartRecovery(r, d, q, t, now)
      PROVE  CallsHaveCause'
  <2> DEFINE row == [at |-> "replace", device |-> d, request |-> q, token |-> t,
                     now |-> now, notAfter |-> 0]
             k == certificate[d]
  <2>1. calls' = [calls EXCEPT ![r] = row] /\ issued' = issued
    BY <1>6 DEF StartRecovery
  <2>2. devices[d].owner # None
    BY <1>6, NoneAssumption DEF StartRecovery, DeviceAuthorized
  <2>3. k \in Cert /\ issued[k].device = d
    BY <2>2 DEF CertInv, CertTypeOK, Enrolled, OwnInv, OwnCertificates
  <2>4. issued[k] \in CertRow
    BY <2>3, NoneAssumption DEF CertInv, CertTypeOK, NotMinted
  <2>5. issued[k].notAfter <= now
    BY <1>6, <2>4 DEF StartRecovery, CertRow, Nows, CertInv, StoreTypeOK
  <2>6. t # None
    BY CertificateAssumption
  <2>7. CausedBy(row, issued'[k])
    BY <2>1, <2>3, <2>5, <2>6 DEF CausedBy
  <2> QED
    BY <1>3, <2>1, <2>3, <2>7
<1>7. ASSUME NEW r \in Call, LookUpRenewal(r), ~End(r) PROVE CallsHaveCause'
  <2> DEFINE row == [calls[r] EXCEPT !.at = "replace"]
  <2>1. /\ calls' = [calls EXCEPT ![r] = row] /\ issued' = issued
        /\ calls[r].notAfter <= calls[r].now + Week
        /\ calls[r] # NoCall
    BY <1>7 DEF LookUpRenewal, AnswerWith, NoCall
  <2>2. calls[r] \in CallRow
    BY <2>1, CallRows
  <2>3. PICK k \in Cert : CausedBy(calls[r], issued'[k])
    BY <1>2, <2>1
  <2>4. /\ row.device = calls[r].device /\ row.token = calls[r].token
        /\ row.now = calls[r].now /\ row.notAfter = calls[r].notAfter
    BY <2>2 DEF CallRow
  <2>5. CausedBy(row, issued'[k])
    BY <2>1, <2>3, <2>4 DEF CausedBy
  <2> QED
    BY <1>3, <2>1, <2>5
<1>8. ASSUME UNCHANGED calls PROVE CallsHaveCause'
  BY <1>2, <1>8 DEF CallsHaveCause
<1>9. ASSUME NEW r \in Call,
             \/ LookUpRenewal(r) \/ ReplaceFindsSaved(r) \/ ReplaceRefused(r)
             \/ \E k \in Cert : ReplaceCertificate(r, k)
      PROVE  CallsHaveCause'
  <2>1. \/ End(r)
        \/ LookUpRenewal(r) /\ ~End(r)
    BY <1>9 DEF ReplaceFindsSaved, ReplaceRefused, ReplaceCertificate, AnswerWith
  <2> QED
    BY <1>4, <1>7, <2>1
<1> QED
  BY <1>5, <1>6, <1>8, <1>9
  DEF CertNext, AdmissionStep, EnrollMachine, JoinMachine, CallStep, OtherStep,
      certVars, certificateVars

-----------------------------------------------------------------------------
(* The two action properties.                                              *)

\* Nothing new is given to a revoked machine.
LEMMA NothingNew ==
    ASSUME CertInv, OwnInv, OwnCertificates', CertInv', [CertNext]_certificateVars,
           NEW d \in Device, devices[d].revoked
    PROVE  /\ certificate'[d] = certificate[d]
           /\ \A q \in Request : renewals'[<<d, q>>] = renewals[<<d, q>>]
           /\ \A k \in Cert : issued'[k].device = d => issued[k].device = d
           /\ \A a \in answers' : a[1] = d => issued[a[3]].device = d
<1> DEFINE Frozen ==
        /\ certificate'[d] = certificate[d]
        /\ \A q \in Request : renewals'[<<d, q>>] = renewals[<<d, q>>]
        /\ \A k \in Cert : issued'[k].device = d => issued[k].device = d
<1>1. ASSUME UNCHANGED <<issued, certificate, renewals>> PROVE Frozen
  BY <1>1
<1>2. ASSUME NEW e \in Device, NEW k \in Cert, NEW now, Mint(k, e, now), e # d,
             UNCHANGED renewals \/ \E q \in Request :
                 renewals' = [renewals EXCEPT ![<<e, q>>] = k],
             certificate' = [certificate EXCEPT ![e] = k]
      PROVE  Frozen
  <2>1. \A q \in Request : renewals'[<<d, q>>] = renewals[<<d, q>>]
    BY <1>2 DEF CertInv, CertTypeOK
  <2>2. certificate'[d] = certificate[d]
    BY <1>2 DEF CertInv, CertTypeOK
  <2>3. \A j \in Cert : issued'[j].device = d => issued[j].device = d
    BY <1>2 DEF Mint, CertInv, CertTypeOK
  <2> QED
    BY <2>1, <2>2, <2>3
<1>3. ASSUME NEW e \in Device, NEW k \in Cert, NEW now, AdmitCertificate(e, k, now),
             UNCHANGED renewals
      PROVE  Frozen
  <2>1. CASE devices[e].owner = None
    <3>1. e # d
      BY <2>1 DEF CertInv, Enrolled
    <3> QED
      BY <1>2, <1>3, <2>1, <3>1 DEF AdmitCertificate
  <2>2. CASE devices[e].owner # None
    BY <1>1, <1>3, <2>2 DEF AdmitCertificate
  <2> QED
    BY <2>1, <2>2
<1>4. ASSUME NEW r \in Call, NEW k \in Cert, ReplaceCertificate(r, k) PROVE Frozen
  <2>1. calls[r] # NoCall
    BY <1>4 DEF ReplaceCertificate, NoCall
  <2>2. calls[r].device \in Device /\ calls[r].request \in Request
    BY <2>1, CallRows
  <2>3. calls[r].device # d
    BY <1>4 DEF ReplaceCertificate, NotRevoked
  <2> QED
    BY <1>2, <1>4, <2>2, <2>3 DEF ReplaceCertificate
<1>5. Frozen
  BY <1>1, <1>3, <1>4, QuietCalls
  DEF CertNext, AdmissionStep, EnrollMachine, JoinMachine, OtherStep, certVars,
      certificateVars
<1>6. ASSUME NEW a \in answers', a[1] = d PROVE issued[a[3]].device = d
  <2>1. a[3] \in Cert
    BY DEF CertInv, CertTypeOK
  <2>2. issued'[a[3]].device = d
    BY <1>6 DEF OwnCertificates
  <2> QED
    BY <1>5, <2>1, <2>2
<1> QED
  BY <1>5, <1>6

\* A certificate is replaced only for cause: the call that commits has one.
LEMMA ReplacedWithCause ==
    ASSUME CertInv, OwnInv, [CertNext]_certificateVars, NEW d \in Device,
           certificate[d] # None, certificate'[d] # certificate[d]
    PROVE  LET now == issued'[certificate'[d]].notAfter - Month IN
             /\ \E q \in Request :
                   renewals[<<d, q>>] = None /\ renewals'[<<d, q>>] = certificate'[d]
             /\ \E k \in Cert :
                   /\ issued[k].device = d
                   /\ \/ Due(k, now)
                      \/ /\ issued[k].notAfter <= now
                         /\ \E t \in Token : ~tokens[t].used /\ tokens'[t].used
<1>1. ASSUME NEW e \in Device, NEW k \in Cert, NEW now, AdmitCertificate(e, k, now)
      PROVE  FALSE
  <2>1. devices[d].owner # None
    BY DEF CertInv, Enrolled
  <2> QED
    BY <1>1, <2>1 DEF AdmitCertificate, CertInv, CertTypeOK
<1>2. PICK r \in Call, k \in Cert : ReplaceCertificate(r, k)
  BY <1>1, QuietCalls
  DEF CertNext, AdmissionStep, EnrollMachine, JoinMachine, OtherStep, certVars,
      certificateVars
<1> DEFINE c == calls[r]
<1>3. c # NoCall /\ c.at = "replace"
  BY <1>2 DEF ReplaceCertificate, NoCall
<1>4. c.device \in Device /\ c.request \in Request /\ c.now \in Nat
      /\ c.token \in Token \cup {None} /\ c \in CallRow
  BY <1>3, CallRows
<1>5. c.device = d
  BY <1>2, <1>4 DEF ReplaceCertificate, CertInv, CertTypeOK
<1>6. /\ certificate'[d] = k /\ renewals'[<<d, c.request>>] = k
      /\ renewals[<<d, c.request>>] = None
  BY <1>2, <1>4, <1>5
  DEF ReplaceCertificate, NotRecorded, Saved, CertInv, CertTypeOK
<1>7. issued'[k].notAfter = c.now + Month
  BY <1>2, <1>4, MintedRows DEF ReplaceCertificate, CertInv
<1>8. issued'[certificate'[d]].notAfter - Month = c.now
  BY <1>4, <1>6, <1>7, CertificateAssumption
<1>9. PICK j \in Cert : CausedBy(c, issued[j])
  BY <1>3 DEF OwnInv, CallsHaveCause
<1>10. issued[j].device = d /\ issued[j].notAfter \in Nat
  <2>1. issued[j].device = d
    BY <1>5, <1>9 DEF CausedBy
  <2> QED
    BY <2>1, NoneAssumption DEF CertInv, CertTypeOK, CertRow, NotMinted
<1>11. CASE c.token = None
  <2>1. Due(j, c.now)
    <3>1. issued[j].notAfter <= c.now + Week /\ c.now <= issued[j].notAfter
      BY <1>3, <1>9, <1>11 DEF CausedBy
    <3> QED
      BY <1>4, <1>10, <3>1, CertificateAssumption DEF Due
  <2> QED
    BY <1>4, <1>6, <1>8, <1>10, <2>1
<1>12. CASE c.token \in Token
  <2>1. c.token # None
    BY <1>12, CertificateAssumption
  <2>2. issued[j].notAfter <= c.now
    BY <1>9, <2>1 DEF CausedBy
  <2>3. ~tokens[c.token].used /\ tokens[c.token] \in TokenRow
    BY <1>2, <1>12, <2>1
    DEF ReplaceCertificate, TokenAdmits, TokenValid, NoToken, CertInv, StoreTypeOK
  <2>4. tokens' = [tokens EXCEPT ![c.token].used = TRUE]
    BY <1>2, <2>1 DEF ReplaceCertificate, ConsumeToken
  <2>5. tokens'[c.token].used
    BY <1>12, <2>3, <2>4 DEF CertInv, StoreTypeOK, TokenRow
  <2> QED
    BY <1>4, <1>6, <1>8, <1>10, <1>12, <2>2, <2>3, <2>5
<1> QED
  BY <1>4, <1>11, <1>12

-----------------------------------------------------------------------------
LEMMA CertInitInv == CertInit => CertInv
<1> SUFFICES ASSUME CertInit PROVE CertInv
  OBVIOUS
<1>1. StoreTypeOK
  BY StoreInitType DEF CertInit
<1>2. CertTypeOK
  BY DEF CertInit, CertTypeOK
<1>3. OneAnswerPerRequest /\ Enrolled
  BY DEF CertInit, StoreInit, OneAnswerPerRequest, Enrolled
<1>4. TokenAdmitsOnce /\ UnissuedAdmitsNobody
  BY DEF CertInit, StoreInit, TokenAdmitsOnce, UnissuedAdmitsNobody
<1>5. CallersEnrolled
  BY DEF CertInit, CallersEnrolled
<1> QED
  BY <1>1, <1>2, <1>3, <1>4, <1>5 DEF CertInv

LEMMA CertInvariant == CertSpec => [](CertInv /\ OwnInv)
<1>1. CertInit => CertInv /\ OwnInv
  <2> SUFFICES ASSUME CertInit PROVE OwnInv
    BY CertInitInv
  <2> QED
    BY DEF CertInit, OwnInv, OwnCertificates, CallsHaveCause
<1>2. CertInv /\ OwnInv /\ [CertNext]_certificateVars => (CertInv /\ OwnInv)'
  BY CertNextInv, OwnCertificatesKept, CallsHaveCauseKept DEF OwnInv
<1> QED
  BY <1>1, <1>2, PTL DEF CertSpec

\* The certificates, the table of renewals and the calls in flight keep their
\* shape, whatever happens between the visits of a call to the database.
THEOREM CertTypeCorrect == CertSpec => []CertTypeOK
<1>1. CertInv => CertTypeOK
  BY DEF CertInv
<1> QED
  BY <1>1, CertInvariant, PTL

\* A machine stores, has on record and is answered only certificates that were
\* minted, and minted for it, whichever calls of which machines run at once
\* (Enroll, JoinNetwork, Renew, RecoverCertificate).
THEOREM OnlyItsOwn == CertSpec => []OwnCertificates
<1>1. OwnInv => OwnCertificates
  BY DEF OwnInv
<1> QED
  BY <1>1, CertInvariant, PTL

\* Every request has one answer (Renew, replaceCertificate).
THEOREM OneAnswer == CertSpec => []OneAnswerPerRequest
<1>1. CertInv => OneAnswerPerRequest
  BY DEF CertInv
<1> QED
  BY <1>1, CertInvariant, PTL

\* A token admits one machine once and is lost no other way than by that or
\* with its network (tokenScope, consumeToken).
THEOREM AdmittedOnce == CertSpec => []TokenAdmitsOnce
<1>1. CertInv => TokenAdmitsOnce
  BY DEF CertInv
<1> QED
  BY <1>1, CertInvariant, PTL

\* After its revocation nothing is minted, stored or recorded for a machine, and
\* what it is still answered was its own before (Enroll, JoinNetwork, Renew,
\* replaceCertificate).
THEOREM NothingNewForRevoked == CertSpec => RevokedGetsNothingNew
<1>1. CertInv /\ OwnInv /\ [CertNext]_certificateVars =>
          [\A d \in Device : devices[d].revoked =>
             /\ certificate'[d] = certificate[d]
             /\ \A q \in Request : renewals'[<<d, q>>] = renewals[<<d, q>>]
             /\ \A k \in Cert : issued'[k].device = d => issued[k].device = d
             /\ \A a \in answers' : a[1] = d => issued[a[3]].device = d
          ]_certificateVars
  BY NothingNew, CertNextInv, OwnCertificatesKept DEF OwnInv
<1> QED
  BY <1>1, CertInvariant, PTL DEF CertSpec, RevokedGetsNothingNew

\* The certificate of a machine is replaced only by one recorded for a request
\* that had none, and only when one of its certificates was due or, with a token
\* used up for it, had expired (Renew, RecoverCertificate, replaceCertificate).
THEOREM ReplacementsHaveCause == CertSpec => ReplacedForCause
<1>1. CertInv /\ OwnInv /\ [CertNext]_certificateVars =>
          [\A d \in Device :
             certificate[d] # None /\ certificate'[d] # certificate[d] =>
                 LET now == issued'[certificate'[d]].notAfter - Month IN
                 /\ \E q \in Request :
                       renewals[<<d, q>>] = None /\ renewals'[<<d, q>>] = certificate'[d]
                 /\ \E k \in Cert :
                       /\ issued[k].device = d
                       /\ \/ Due(k, now)
                          \/ /\ issued[k].notAfter <= now
                             /\ \E t \in Token : ~tokens[t].used /\ tokens'[t].used
          ]_certificateVars
  BY ReplacedWithCause
<1> QED
  BY <1>1, CertInvariant, PTL DEF CertSpec, ReplacedForCause
=============================================================================
