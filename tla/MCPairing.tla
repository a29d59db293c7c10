----------------------------- MODULE MCPairing -----------------------------
(* Pairing from the point where an account, its network and the machines   *)
(* bound to it exist: a state the database reaches by CreateUser,          *)
(* CreateNetwork and one JoinNetwork per machine.                          *)
EXTENDS Pairing, TLC

MCInit ==
    /\ users = [u \in User |-> "enabled"]
    /\ userSessions = [t \in UserToken |-> [user |-> None, expires |-> 0]]
    /\ \E owner \in [Network -> User] :
        /\ networks = [n \in Network |->
             [owner |-> owner[n], deleted |-> FALSE, limit |-> DefaultLimit]]
        /\ \E first \in [Device -> Network] :
             /\ devices = [d \in Device |->
                  [owner |-> owner[first[d]], revoked |-> FALSE]]
             /\ links = {<<d, owner[n]>> : d \in Device, n \in Network}
    /\ bindings = Network \X Device
    /\ tokens = [t \in Token |-> NoToken]
    /\ shares = [s \in Nonce |-> NoShare]
    /\ pairs = [p \in Pair |-> NoPair]
    /\ creating = [c \in Creator |-> None]
    /\ clock = 0
    /\ requests = [r \in Req |-> NoRequest]
    /\ mintedBy = [p \in Pair |-> None]

MCSpec == MCInit /\ [][Next]_vars

Symmetry == Permutations(Device) \cup Permutations(Req)
            \cup Permutations(Pair) \cup Permutations(Nonce)
=============================================================================
