----------------------------- MODULE MCSessions ----------------------------
(* Connection attempts from the point where the accounts, their networks   *)
(* and the machines exist: every machine is linked to every account and    *)
(* bound to every network, as after one JoinNetwork per machine and        *)
(* network.                                                                *)
EXTENDS Sessions, TLC

StoreReady ==
    /\ users = [u \in User |-> "enabled"]
    /\ userSessions = [t \in UserToken |-> [user |-> None, expires |-> 0]]
    /\ \E owner \in [Network -> User], first \in [Device -> Network] :
        /\ networks = [n \in Network |->
             [owner |-> owner[n], deleted |-> FALSE, limit |-> DefaultLimit]]
        /\ devices = [d \in Device |->
             [owner |-> owner[first[d]], revoked |-> FALSE]]
        /\ links = {<<d, owner[n]>> : d \in Device, n \in Network}
    /\ bindings = Network \X Device
    /\ tokens = [t \in Token |-> NoToken]
    /\ shares = [s \in Nonce |-> NoShare]
    /\ pairs = [p \in Pair |-> NoPair]
    /\ creating = [c \in Creator |-> None]
    /\ clock = 0

MCInit == StoreReady /\ SessionsInit
MCSpec == MCInit /\ [][Next]_vars

\* The same, once every machine has sent a heartbeat for its first account.
Online ==
    /\ presence = [k \in Device \X User |->
                     IF devices[k[1]].owner = k[2] THEN 0 ELSE None]
    /\ attempts = [d \in Device |-> NoAttempt]
    /\ minted = {}
    /\ calls = [r \in Req |-> Idle]
    /\ mu = None
    /\ lostAt = [d \in Device |-> None]
    /\ unboundAt = [d \in Device |-> None]

MCOnlineInit == StoreReady /\ Online
MCOnlineSpec == MCOnlineInit /\ [][Next]_vars

Symmetry == Permutations(Device) \cup Permutations(Req)
            \cup Permutations(Network) \cup Permutations(Attempt)
=============================================================================
