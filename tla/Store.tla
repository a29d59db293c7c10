------------------------------- MODULE Store -------------------------------
(***************************************************************************)
(* The coordinator's SQLite database (src/internal/coordinator/store.go,   *)
(* networks.go, enrollment.go, users.go, certificates.go).                 *)
(*                                                                         *)
(* The pool holds one connection, so every transaction and every single    *)
(* statement runs alone: an operation that is one transaction is one       *)
(* action.  CreateNetwork is two statements and therefore two actions.     *)
(* Rows are never deleted from networks, tokens, devices, shares or pairs, *)
(* so a table is a function from the identifiers that can be minted to     *)
(* rows, with a distinguished row for an identifier not minted yet.        *)
(*                                                                         *)
(* A device identifier is derived from the machine's key, so Device stands *)
(* for both.  Names, certificates, telemetry and the audit log are left    *)
(* out: no authorization reads them.                                       *)
(***************************************************************************)
EXTENDS Naturals, FiniteSets

CONSTANTS
    User, Network, Device,   \* identifiers that can be minted
    Token, Nonce, Pair,      \* enrollment tokens, share nonces, pair ids
    UserToken,               \* login session tokens
    Creator,                 \* CreateNetwork calls that can be in flight at once
    None,                    \* "no row yet"
    Limits,                  \* AllowedNetworkLimits
    DefaultLimit,            \* DefaultNetworkLimit
    NetworkQuota,            \* live networks a user may create (2)
    FiveMinutes,             \* lifetime of a token, a share and an invitation
    MaxTime                  \* bound: the clock stops here

ASSUME NoneAssumption ==
    None \notin User \cup Network \cup Device
ASSUME LimitAssumption ==
    /\ Limits \subseteq Nat \ {0}
    /\ DefaultLimit \in Limits
    /\ NetworkQuota \in Nat \ {0}
ASSUME CreatorAssumption == IsFiniteSet(Creator)
ASSUME TimeAssumption ==
    /\ FiveMinutes \in Nat \ {0}
    /\ MaxTime \in Nat

VARIABLES
    users,         \* users: absent, enabled or disabled
    userSessions,  \* user_sessions: the account and expiry behind a token
    networks,      \* networks: owner, deleted flag, device capacity
    devices,       \* devices: first account (user_id) and revoked flag
    links,         \* device_users: <<device, user>> rows
    bindings,      \* bindings: <<network, device>> rows with active=1
    tokens,        \* tokens
    shares,        \* shares
    pairs,         \* pairs
    creating,      \* CreateNetwork calls between their count and their insert
    clock          \* time.Now(), in ticks

tables == <<users, userSessions, networks, devices, links, bindings, tokens,
            shares, pairs>>
storeVars == <<tables, creating, clock>>

Nows == 0..clock       \* a handler reads time.Now() before it gets the connection
Expiry == 0..(MaxTime + FiveMinutes)

OpenStates == {"invited", "approved", "active"}
PairStates == OpenStates \cup {"rejected", "revoked"}

UserSessionRow == [user : User \cup {None}, expires : Nat]
NetworkRow == [owner : User \cup {None}, deleted : BOOLEAN, limit : Limits]
DeviceRow == [owner : User \cup {None}, revoked : BOOLEAN]
NoToken == [user |-> None, network |-> None, expires |-> 0, used |-> TRUE]
NoShare == [device |-> None, network |-> None, expires |-> 0, used |-> TRUE]
NoPair == [network |-> None, initiator |-> None, target |-> None,
           state |-> "absent", expires |-> 0, revision |-> 0]

TokenRow == [user : User, network : Network, expires : Expiry, used : BOOLEAN]
ShareRow == [device : Device, network : Network, expires : Expiry, used : BOOLEAN]
PairRow == [network : Network, initiator : Device, target : Device,
            state : PairStates, expires : Expiry, revision : Nat]

StoreTypeOK ==
    /\ users \in [User -> {"absent", "enabled", "disabled"}]
    /\ userSessions \in [UserToken -> UserSessionRow]
    /\ networks \in [Network -> NetworkRow]
    /\ devices \in [Device -> DeviceRow]
    /\ links \subseteq Device \X User
    /\ bindings \subseteq Network \X Device
    /\ tokens \in [Token -> {NoToken} \cup TokenRow]
    /\ shares \in [Nonce -> {NoShare} \cup ShareRow]
    /\ pairs \in [Pair -> {NoPair} \cup PairRow]
    /\ creating \in [Creator -> User \cup {None}]
    /\ clock \in 0..MaxTime

StoreInit ==
    /\ users = [u \in User |-> "absent"]
    /\ userSessions = [t \in UserToken |-> [user |-> None, expires |-> 0]]
    /\ networks = [n \in Network |->
                    [owner |-> None, deleted |-> FALSE, limit |-> DefaultLimit]]
    /\ devices = [d \in Device |-> [owner |-> None, revoked |-> FALSE]]
    /\ links = {}
    /\ bindings = {}
    /\ tokens = [t \in Token |-> NoToken]
    /\ shares = [s \in Nonce |-> NoShare]
    /\ pairs = [p \in Pair |-> NoPair]
    /\ creating = [c \in Creator |-> None]
    /\ clock = 0

-----------------------------------------------------------------------------
(* The queries the operations share.                                       *)

\* Mutant of NetworkOwned: the disabled flag forgotten.
NetworkOwnedByRow(u, n) == networks[n].owner = u /\ ~networks[n].deleted

NetworkOwned(u, n) ==
    /\ networks[n].owner = u
    /\ ~networks[n].deleted
    /\ users[u] = "enabled"

LiveNetworks(u) ==
    {n \in Network : networks[n].owner = u /\ ~networks[n].deleted}

Bound(n) == {d \in Device : <<n, d>> \in bindings}

\* Mutants: the comparisons off by one.
QuotaReached(u) == Cardinality(LiveNetworks(u)) <= NetworkQuota
BindingReached(n) == Cardinality(Bound(n)) <= networks[n].limit

QuotaLeft(u) == Cardinality(LiveNetworks(u)) < NetworkQuota
BindingFits(n) == Cardinality(Bound(n)) < networks[n].limit

\* bindingOwner succeeds; the owner it returns is networks[n].owner
BindingAuthorized(n, d) ==
    /\ <<n, d>> \in bindings
    /\ ~networks[n].deleted
    /\ ~devices[d].revoked
    /\ networks[n].owner \in User
    /\ users[networks[n].owner] = "enabled"
    /\ <<d, networks[n].owner>> \in links

\* Store.Device succeeds: it asks about the device's first account only
DeviceAuthorized(d) ==
    /\ devices[d].owner \in User
    /\ users[devices[d].owner] = "enabled"
    /\ ~devices[d].revoked

TokenValid(t, now) ==
    /\ ~tokens[t].used
    /\ tokens[t].expires > now
    /\ users[tokens[t].user] = "enabled"
    /\ ~networks[tokens[t].network].deleted
    /\ networks[tokens[t].network].owner = tokens[t].user

IsOpen(p) == pairs[p].state \in OpenStates
Ends(p) == {pairs[p].initiator, pairs[p].target}

\* Mutant: the pairs of the account's machines instead of its networks.
PairsOfMachines(u) ==
    {p \in Pair : IsOpen(p) /\ \E d \in Ends(p) : devices[d].owner = u}

PairsOfUser(u) == {p \in Pair : IsOpen(p) /\ networks[pairs[p].network].owner = u}

Revoked(row) == [row EXCEPT !.state = "revoked", !.revision = @ + 1]
RevokePairs(doomed) ==
    pairs' = [p \in Pair |-> IF p \in doomed THEN Revoked(pairs[p]) ELSE pairs[p]]
UseShares(S) ==
    shares' = [s \in Nonce |-> IF s \in S THEN [shares[s] EXCEPT !.used = TRUE]
                                          ELSE shares[s]]

-----------------------------------------------------------------------------
(* Accounts.                                                               *)

CreateUser(u) ==
    /\ users[u] = "absent"
    /\ users' = [users EXCEPT ![u] = "enabled"]
    /\ UNCHANGED <<userSessions, networks, devices, links, bindings, tokens,
                   shares, pairs, creating, clock>>

\* The account's networks keep their bindings, tokens and shares; only its
\* login sessions and the open pairs of its networks go.
DisableUser(u) ==
    /\ users[u] = "enabled"
    /\ users' = [users EXCEPT ![u] = "disabled"]
    /\ userSessions' = [t \in UserToken |->
           IF userSessions[t].user = u THEN [user |-> None, expires |-> 0]
                                       ELSE userSessions[t]]
    /\ RevokePairs(PairsOfUser(u))
    /\ UNCHANGED <<networks, devices, links, bindings, tokens, shares,
                   creating, clock>>

-----------------------------------------------------------------------------
(* Networks.                                                               *)

\* CreateNetwork, first statement: count the live networks.  The account was
\* authenticated when the handler started.
CountNetworks(c, u) ==
    /\ creating[c] = None
    /\ users[u] = "enabled"
    /\ QuotaLeft(u)
    /\ creating' = [creating EXCEPT ![c] = u]
    /\ UNCHANGED <<tables, clock>>

\* CreateNetwork, second statement: INSERT ... SELECT ... WHERE disabled=0.
\* Nothing is inserted when the account was disabled in between.
InsertNetwork(c, n) ==
    /\ creating[c] # None
    /\ networks[n].owner = None
    /\ creating' = [creating EXCEPT ![c] = None]
    /\ networks' = IF users[creating[c]] = "enabled"
                   THEN [networks EXCEPT ![n].owner = creating[c]]
                   ELSE networks
    /\ UNCHANGED <<users, userSessions, devices, links, bindings, tokens,
                   shares, pairs, clock>>

UpdateNetworkLimit(u, n, limit) ==
    /\ NetworkOwned(u, n)
    /\ networks[n].limit # limit
    /\ networks' = [networks EXCEPT ![n].limit = limit]
    /\ UNCHANGED <<users, userSessions, devices, links, bindings, tokens,
                   shares, pairs, creating, clock>>

DeleteNetwork(u, n) ==
    /\ NetworkOwned(u, n)
    /\ networks' = [networks EXCEPT ![n].deleted = TRUE]
    /\ bindings' = {b \in bindings : b[1] # n}
    /\ tokens' = [t \in Token |->
           IF tokens[t].network = n THEN [tokens[t] EXCEPT !.used = TRUE]
                                    ELSE tokens[t]]
    /\ UseShares({s \in Nonce : shares[s].network = n})
    /\ RevokePairs({p \in Pair : IsOpen(p) /\ pairs[p].network = n})
    /\ UNCHANGED <<users, userSessions, devices, links, creating, clock>>

-----------------------------------------------------------------------------
(* Enrollment and bindings.                                                *)

IssueEnrollmentToken(u, n, t, now) ==
    /\ NetworkOwned(u, n)
    /\ tokens[t] = NoToken
    /\ tokens' = [tokens EXCEPT ![t] = [user |-> u, network |-> n,
                                        expires |-> now + FiveMinutes,
                                        used |-> FALSE]]
    /\ UNCHANGED <<users, userSessions, networks, devices, links, bindings,
                   shares, pairs, creating, clock>>

\* Mutants of AdmitDevice: a known machine not linked to another account, a
\* known machine handed to the new account.
AdmitUnlinked(d, u, n) ==
    /\ devices' = [devices EXCEPT ![d].owner = IF @ = None THEN u ELSE @]
    /\ links' = IF devices[d].owner = None THEN links \cup {<<d, u>>} ELSE links
    /\ bindings' = bindings \cup {<<n, d>>}
AdmitReassigned(d, u, n) ==
    /\ devices' = [devices EXCEPT ![d].owner = u]
    /\ links' = links \cup {<<d, u>>}
    /\ bindings' = bindings \cup {<<n, d>>}

\* What Enroll and JoinNetwork do once they know the account and the network:
\* a machine whose key is known keeps its row, its first account included, and
\* only gains a link and a binding.  A revoked device keeps its revoked flag.
AdmitDevice(d, u, n) ==
    /\ devices' = [devices EXCEPT ![d].owner = IF @ = None THEN u ELSE @]
    /\ links' = links \cup {<<d, u>>}
    /\ bindings' = bindings \cup {<<n, d>>}

Enroll(d, t, now) ==
    /\ tokens[t] # NoToken
    /\ TokenValid(t, now)
    /\ BindingFits(tokens[t].network)
    /\ tokens' = [tokens EXCEPT ![t].used = TRUE]
    /\ AdmitDevice(d, tokens[t].user, tokens[t].network)
    /\ UNCHANGED <<users, userSessions, networks, shares, pairs, creating, clock>>

JoinNetwork(d, n) ==
    /\ networks[n].owner # None
    /\ ~networks[n].deleted
    /\ users[networks[n].owner] = "enabled"
    /\ BindingFits(n)
    /\ AdmitDevice(d, networks[n].owner, n)
    /\ UNCHANGED <<users, userSessions, networks, tokens, shares, pairs,
                   creating, clock>>

BindDevice(u, n, d) ==
    /\ NetworkOwned(u, n)
    /\ devices[d].owner = u
    /\ ~devices[d].revoked
    /\ d \in Bound(n) \/ BindingFits(n)
    /\ bindings' = bindings \cup {<<n, d>>}
    /\ UNCHANGED <<users, userSessions, networks, devices, links, tokens,
                   shares, pairs, creating, clock>>

UnbindDevice(u, n, d) ==
    /\ NetworkOwned(u, n)
    /\ BindingAuthorized(n, d)
    /\ bindings' = bindings \ {<<n, d>>}
    /\ RevokePairs({p \in Pair : IsOpen(p) /\ pairs[p].network = n /\ d \in Ends(p)})
    /\ UseShares({s \in Nonce : shares[s].network = n /\ shares[s].device = d})
    /\ UNCHANGED <<users, userSessions, networks, devices, links, tokens,
                   creating, clock>>

DeletePair(u, n, p) ==
    /\ NetworkOwned(u, n)
    /\ pairs[p].network = n
    /\ IsOpen(p)
    /\ RevokePairs({p})
    /\ UNCHANGED <<users, userSessions, networks, devices, links, bindings,
                   tokens, shares, creating, clock>>

\* Every pair of the device goes to revoked, the rejected and the already
\* revoked ones included.
RevokeDevice(d) ==
    /\ devices[d].owner # None
    /\ ~devices[d].revoked
    /\ devices' = [devices EXCEPT ![d].revoked = TRUE]
    /\ RevokePairs({p \in Pair : d \in Ends(p)})
    /\ UNCHANGED <<users, userSessions, networks, links, bindings, tokens,
                   shares, creating, clock>>

-----------------------------------------------------------------------------
Tick ==
    /\ clock < MaxTime
    /\ clock' = clock + 1
    /\ UNCHANGED <<tables, creating>>

OwnerStep ==
    \E u \in User, n \in Network :
        \/ \E limit \in Limits : UpdateNetworkLimit(u, n, limit)
        \/ DeleteNetwork(u, n)
        \/ \E t \in Token, now \in Nows : IssueEnrollmentToken(u, n, t, now)
        \/ \E d \in Device : BindDevice(u, n, d) \/ UnbindDevice(u, n, d)
        \/ \E p \in Pair : DeletePair(u, n, p)

MachineStep ==
    \E d \in Device :
        \/ \E t \in Token, now \in Nows : Enroll(d, t, now)
        \/ \E n \in Network : JoinNetwork(d, n)
        \/ RevokeDevice(d)

AccountStep ==
    \/ \E u \in User : CreateUser(u) \/ DisableUser(u)
    \/ \E c \in Creator, u \in User : CountNetworks(c, u)
    \/ \E c \in Creator, n \in Network : InsertNetwork(c, n)

StoreNext == AccountStep \/ OwnerStep \/ MachineStep \/ Tick

StoreSpec == StoreInit /\ [][StoreNext]_storeVars

-----------------------------------------------------------------------------
(* Correctness.                                                            *)

\* A machine is linked to the account that enrolled it first, and every
\* active binding names a live network and a machine linked to the account that
\* owns the network.  BindDevice asks for the first account and bindingOwner
\* for the link; this is why they agree (Enroll, JoinNetwork, BindDevice).
BindingsAreLinked ==
    /\ \A d \in Device :
         devices[d].owner # None => <<d, devices[d].owner>> \in links
    /\ \A b \in bindings :
         /\ networks[b[1]].owner \in User
         /\ ~networks[b[1]].deleted
         /\ devices[b[2]].owner \in User
         /\ <<b[2], networks[b[1]].owner>> \in links

\* Deleting a network leaves nothing behind that could still admit a machine
\* or connect two: no binding, no unused token or share, no open pair.  It
\* stays so, whatever was in flight when the network went (DeleteNetwork).
DeletedNetworkIsEmpty ==
    \A n \in Network : networks[n].deleted =>
        /\ Bound(n) = {}
        /\ \A t \in Token : tokens[t].network = n => tokens[t].used
        /\ \A s \in Nonce : shares[s].network = n => shares[s].used
        /\ \A p \in Pair : pairs[p].network = n => ~IsOpen(p)

\* CreateNetwork counts and inserts in two statements, so concurrent calls can
\* exceed the quota, but by no more than the calls in flight beside the first.
QuotaOverrun ==
    \A u \in User :
        Cardinality(LiveNetworks(u)) < NetworkQuota + Cardinality(Creator)

\* No step takes a network above its capacity by binding a machine to it:
\* Enroll, JoinNetwork and BindDevice count before they bind.  (Lowering the
\* limit under the bound machines is allowed and evicts nobody.)
CapacityRespected ==
    [][\A n \in Network :
         Bound(n)' \subseteq Bound(n) \/ Cardinality(Bound(n)') <= networks'[n].limit
      ]_storeVars

\* A machine belongs for good to the account that enrolled it first: enrolling
\* it again, under any account, only adds a link (Enroll, JoinNetwork).
FirstAccountKept ==
    [][\A d \in Device :
         devices[d].owner # None => devices'[d].owner = devices[d].owner
      ]_storeVars

\* Nothing of a disabled account's networks changes any more: no machine is
\* bound or unbound, no limit changes, and no network is added, although a
\* CreateNetwork may have been between its two statements (DisableUser).
DisabledIsFrozen ==
    [][\A n \in Network :
         networks'[n].owner \in User /\ users[networks'[n].owner] = "disabled" =>
             networks'[n] = networks[n] /\ Bound(n)' = Bound(n)
      ]_storeVars
=============================================================================
