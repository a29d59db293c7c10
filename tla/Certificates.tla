---------------------------- MODULE Certificates ----------------------------
(***************************************************************************)
(* Device certificates (src/internal/coordinator/certificates.go and the   *)
(* parts of enrollment.go that mint one) on top of the database.           *)
(*                                                                         *)
(* A certificate lives thirty days and can be renewed in its last seven by *)
(* presenting any unexpired certificate of the machine; once the stored    *)
(* one has expired the machine recovers with a fresh enrollment token.     *)
(* The caller names its request, and repeats a renewal whose answer is     *)
(* lost, so the table renewals keeps what each request was given; a        *)
(* recovery that is repeated is refused.  Renew and RecoverCertificate are *)
(* two or three visits to the database each; the account, the machine, the *)
(* token and the table may change in between.                              *)
(***************************************************************************)
EXTENDS Store

CONSTANTS
    Cert,          \* certificates that can be minted
    Request,       \* request identifiers the machines use
    Call,          \* Renew and RecoverCertificate calls in flight at once
    Month,         \* lifetime of a certificate, in ticks
    Week           \* how long before its end it can be renewed, in ticks

ASSUME CertificateAssumption ==
    /\ None \notin Cert \cup Request \cup Token
    /\ Month \in Nat \ {0}
    /\ Week \in Nat \ {0}

VARIABLES
    issued,        \* certificates: the machine and NotAfter
    certificate,   \* devices.certificate
    renewals,      \* renewals: the certificate recorded for <<device, request>>
    calls,         \* the calls in flight
    answers,       \* history: <<device, request, certificate>> sent to a caller,
                   \* the request None when it enrolled or joined
    admitted       \* history: how often a token enrolled or recovered a machine

certVars == <<issued, certificate, renewals, calls, answers, admitted>>
certificateVars == <<storeVars, certVars>>

NotMinted == [device |-> None, notAfter |-> 0]
NoCall == [at |-> "idle", device |-> None, request |-> None, token |-> None,
           now |-> 0, notAfter |-> 0]
CertRow == [device : Device, notAfter : Nat]
CallRow == [at : {"lookup", "replace"}, device : Device, request : Request,
            token : Token \cup {None}, now : Nat, notAfter : Nat]

CertTypeOK ==
    /\ issued \in [Cert -> {NotMinted} \cup CertRow]
    /\ certificate \in [Device -> Cert \cup {None}]
    /\ renewals \in [Device \X Request -> Cert \cup {None}]
    /\ calls \in [Call -> {NoCall} \cup CallRow]
    /\ answers \subseteq Device \X (Request \cup {None}) \X Cert
    /\ admitted \in [Token -> Nat]

CertInit ==
    /\ StoreInit
    /\ issued = [k \in Cert |-> NotMinted]
    /\ certificate = [d \in Device |-> None]
    /\ renewals = [x \in Device \X Request |-> None]
    /\ calls = [r \in Call |-> NoCall]
    /\ answers = {}
    /\ admitted = [t \in Token |-> 0]

-----------------------------------------------------------------------------
\* issueCertificate: a certificate nobody holds yet.
Mint(k, d, now) ==
    /\ issued[k] = NotMinted
    /\ issued' = [issued EXCEPT ![k] = [device |-> d, notAfter |-> now + Month]]

\* Mutant of AdmitCertificate: the new certificate replaces the one there is.
AdmitFresh(d, k, now) ==
    /\ Mint(k, d, now)
    /\ certificate' = [certificate EXCEPT ![d] = k]

\* A machine enrolled for the first time gets the certificate minted for it;
\* one whose key is known keeps its own, expired or not.  Enroll and JoinNetwork
\* answer the one it has then, to a revoked machine too.
AdmitCertificate(d, k, now) ==
    IF devices[d].owner = None
    THEN Mint(k, d, now) /\ certificate' = [certificate EXCEPT ![d] = k]
    ELSE UNCHANGED <<issued, certificate>>

AnswerStored(d) == answers' = answers \cup {<<d, None, certificate'[d]>>}

EnrollMachine(d, t, k, now) ==
    /\ Enroll(d, t, now)
    /\ AdmitCertificate(d, k, now)
    /\ AnswerStored(d)
    /\ admitted' = [admitted EXCEPT ![t] = @ + 1]
    /\ UNCHANGED <<renewals, calls>>

JoinMachine(d, n, k, now) ==
    /\ JoinNetwork(d, n)
    /\ AdmitCertificate(d, k, now)
    /\ AnswerStored(d)
    /\ UNCHANGED <<renewals, calls, admitted>>

-----------------------------------------------------------------------------
(* Renewal and recovery.                                                   *)

Saved(r) == renewals[<<calls[r].device, calls[r].request>>]

End(r) == calls' = [calls EXCEPT ![r] = NoCall]

AnswerWith(r, k) ==
    /\ answers' = answers \cup {<<calls[r].device, calls[r].request, k>>}
    /\ End(r)

\* Authenticate: any certificate of the machine will do while it is valid.
StartRenew(r, q, k, now) ==
    LET d == issued[k].device IN
    /\ calls[r] = NoCall
    /\ d \in Device
    /\ issued[k].notAfter - Month <= now
    /\ now <= issued[k].notAfter
    /\ DeviceAuthorized(d)
    /\ calls' = [calls EXCEPT ![r] =
           [at |-> "lookup", device |-> d, request |-> q, token |-> None,
            now |-> now, notAfter |-> issued[k].notAfter]]
    /\ UNCHANGED <<storeVars, issued, certificate, renewals, answers, admitted>>

\* A request that was answered before is answered the same; else the renewal
\* must be due.
LookUpRenewal(r) ==
    /\ calls[r].at = "lookup"
    /\ \/ Saved(r) # None /\ AnswerWith(r, Saved(r))
       \/ /\ Saved(r) = None
          /\ calls[r].notAfter > calls[r].now + Week
          /\ End(r) /\ UNCHANGED answers
       \/ /\ Saved(r) = None
          /\ calls[r].notAfter <= calls[r].now + Week
          /\ calls' = [calls EXCEPT ![r].at = "replace"]
          /\ UNCHANGED answers
    /\ UNCHANGED <<storeVars, issued, certificate, renewals, admitted>>

\* The stored certificate, read here and not again, must have expired.
StartRecovery(r, d, q, t, now) ==
    /\ calls[r] = NoCall
    /\ DeviceAuthorized(d)
    /\ now >= issued[certificate[d]].notAfter
    /\ calls' = [calls EXCEPT ![r] =
           [at |-> "replace", device |-> d, request |-> q, token |-> t,
            now |-> now, notAfter |-> 0]]
    /\ UNCHANGED <<storeVars, issued, certificate, renewals, answers, admitted>>

\* Mutants: what was checked before the transaction is not checked again.
StillTrusted(r) == TRUE
RecordOverwritten(r) == TRUE

NotRevoked(r) == ~devices[calls[r].device].revoked

\* The primary key of renewals: a request is given one certificate.
NotRecorded(r) == Saved(r) = None

\* tokenScope, deviceLinkedTo and bindingOwner; a renewal brings no token.
TokenAdmits(r) ==
    LET c == calls[r] IN
    c.token # None =>
        /\ TokenValid(c.token, c.now)
        /\ <<c.device, tokens[c.token].user>> \in links
        /\ BindingAuthorized(tokens[c.token].network, c.device)

\* Mutant of ConsumeToken: the token is checked and not used.
TokenKept(r) ==
    LET t == calls[r].token IN
    IF t = None THEN UNCHANGED <<tokens, admitted>>
    ELSE tokens' = tokens /\ admitted' = [admitted EXCEPT ![t] = @ + 1]

ConsumeToken(r) ==
    LET t == calls[r].token IN
    IF t = None THEN UNCHANGED <<tokens, admitted>>
    ELSE /\ tokens' = [tokens EXCEPT ![t].used = TRUE]
         /\ admitted' = [admitted EXCEPT ![t] = @ + 1]

\* The transaction of replaceCertificate, when it commits.
ReplaceCertificate(r, k) ==
    LET c == calls[r] IN
    /\ c.at = "replace"
    /\ NotRevoked(r)
    /\ NotRecorded(r)
    /\ TokenAdmits(r)
    /\ ConsumeToken(r)
    /\ Mint(k, c.device, c.now)
    /\ renewals' = [renewals EXCEPT ![<<c.device, c.request>>] = k]
    /\ certificate' = [certificate EXCEPT ![c.device] = k]
    /\ AnswerWith(r, k)
    /\ UNCHANGED <<users, userSessions, networks, devices, links, bindings,
                   shares, pairs, creating, clock>>

\* A renewal that finds the answer of its twin.
ReplaceFindsSaved(r) ==
    /\ calls[r].at = "replace"
    /\ NotRevoked(r)
    /\ calls[r].token = None
    /\ Saved(r) # None
    /\ AnswerWith(r, Saved(r))
    /\ UNCHANGED <<storeVars, issued, certificate, renewals, admitted>>

\* Everything rolls back, the token included.
ReplaceRefused(r) ==
    /\ calls[r].at = "replace"
    /\ \/ ~NotRevoked(r)
       \/ ~TokenAdmits(r)
       \/ calls[r].token # None /\ ~NotRecorded(r)
    /\ End(r)
    /\ UNCHANGED <<storeVars, issued, certificate, renewals, answers, admitted>>

-----------------------------------------------------------------------------
AdmissionStep ==
    \E d \in Device, k \in Cert, now \in Nows :
        \/ \E t \in Token : EnrollMachine(d, t, k, now)
        \/ \E n \in Network : JoinMachine(d, n, k, now)

CallStep ==
    \E r \in Call :
        \/ \E q \in Request, now \in Nows :
             \/ \E k \in Cert : StartRenew(r, q, k, now)
             \/ \E d \in Device, t \in Token : StartRecovery(r, d, q, t, now)
        \/ LookUpRenewal(r)
        \/ \E k \in Cert : ReplaceCertificate(r, k)
        \/ ReplaceFindsSaved(r)
        \/ ReplaceRefused(r)

OtherStep ==
    /\ AccountStep \/ OwnerStep \/ Tick \/ \E d \in Device : RevokeDevice(d)
    /\ UNCHANGED certVars

CertNext == AdmissionStep \/ CallStep \/ OtherStep

CertSpec == CertInit /\ [][CertNext]_certificateVars

-----------------------------------------------------------------------------
(* Correctness.                                                            *)

\* A request has one answer: whoever repeats it, however many copies of it run
\* at once and whichever certificate it presents, gets the certificate
\* recorded for the request, if any, and never another (Renew,
\* replaceCertificate).
OneAnswerPerRequest ==
    \A a \in answers : a[2] # None => renewals[<<a[1], a[2]>>] = a[3]

\* A token admits one machine once, by an enrollment or by a recovery, and it
\* is lost only that way or with its network: a recovery refused after the
\* token was looked at leaves it valid (consumeToken and the rollback).
TokenAdmitsOnce ==
    \A t \in Token :
        /\ admitted[t] <= 1
        /\ admitted[t] = 1 => tokens[t].used
        /\ tokens[t] # NoToken /\ tokens[t].used =>
               admitted[t] = 1 \/ networks[tokens[t].network].deleted

\* Once a machine is revoked, nothing new is given to it, although the call that
\* asks may have been let in before: no certificate is minted for it, recorded
\* for a request of its or made its own, and whatever is still answered to it
\* was minted for it before, as when it repeats a request or enrolls again
\* (replaceCertificate, Renew, Enroll, JoinNetwork).
RevokedGetsNothingNew ==
    [][\A d \in Device : devices[d].revoked =>
         /\ certificate'[d] = certificate[d]
         /\ \A q \in Request : renewals'[<<d, q>>] = renewals[<<d, q>>]
         /\ \A k \in Cert : issued'[k].device = d => issued[k].device = d
         /\ \A a \in answers' : a[1] = d => issued[a[3]].device = d
      ]_certificateVars

\* A certificate k can be renewed at a time: still valid, and in its last week.
Due(k, now) == issued[k].notAfter - Week <= now /\ now <= issued[k].notAfter

\* The certificate of a known machine is replaced only by one that is recorded
\* for a request which had none, and that dates from when a certificate of the
\* machine was due or, in a step that uses up a token, had expired, whatever
\* else was renewed or recovered since the call looked: enrolling or joining
\* again never replaces it (Renew, RecoverCertificate, replaceCertificate).
ReplacedForCause ==
    [][\A d \in Device :
         certificate[d] # None /\ certificate'[d] # certificate[d] =>
             LET now == issued'[certificate'[d]].notAfter - Month IN
             /\ \E q \in Request :
                   renewals[<<d, q>>] = None /\ renewals'[<<d, q>>] = certificate'[d]
             /\ \E k \in Cert :
                   /\ issued[k].device = d
                   /\ \/ Due(k, now)
                      \/ /\ issued[k].notAfter <= now
                         /\ \E t \in Token : ~tokens[t].used /\ tokens'[t].used
      ]_certificateVars
=============================================================================
