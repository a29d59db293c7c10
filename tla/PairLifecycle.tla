--------------------------- MODULE PairLifecycle ---------------------------
(***************************************************************************)
(* What pairing promises, without a database, requests or time: who is a   *)
(* member of a network changes, and a pair is open only between members.   *)
(* Membership that ends closes, in the same step, every open pair that     *)
(* needed it; a pair follows invited -> approved -> active -> revoked, or  *)
(* starts active when it is adopted; a closed pair never opens again; and  *)
(* every change of a pair's state is a new revision.                       *)
(***************************************************************************)
EXTENDS Naturals

CONSTANTS Network, Device, Pair, None

VARIABLES
    members,   \* <<network, device>>: the device may act in the network
    pairs      \* the pair records, as in the database

vars == <<members, pairs>>

Open == {"invited", "approved", "active"}

\* Open with both ends in the given membership, or not open at all.
Backed(row, M) ==
    row.state \in Open =>
        {<<row.network, row.initiator>>, <<row.network, row.target>>} \subseteq M

Init ==
    /\ members \subseteq Network \X Device
    /\ \A p \in Pair : pairs[p].state = "absent"

\* A machine joins, is bound, or is linked to one more account.
MembersGain ==
    /\ members \subseteq members'
    /\ UNCHANGED pairs

Revoke(row) == [row EXCEPT !.state = "revoked", !.revision = @ + 1]

\* Members leave (or none does) and some pairs are revoked, among them all
\* the open ones that lose a member.
MembersLeave ==
    /\ members' \subseteq members
    /\ pairs' = [p \in Pair |-> pairs'[p]]
    /\ \A p \in Pair :
        /\ \/ pairs'[p] = pairs[p]
           \/ pairs[p].state # "absent" /\ pairs'[p] = Revoke(pairs[p])
        /\ Backed(pairs'[p], members')

\* A new pair of two members: invited, or active when it is adopted.
Create(p) ==
    LET row == pairs'[p] IN
    /\ pairs[p].state = "absent"
    /\ pairs' = [pairs EXCEPT ![p] = row]
    /\ row.state \in {"invited", "active"} /\ row.revision = 1
    /\ row.initiator # row.target
    /\ Backed(row, members)
    /\ UNCHANGED members

Moves == {<<"invited", "approved">>, <<"invited", "rejected">>,
          <<"approved", "active">>, <<"active", "revoked">>}

\* One of the two machines moves the pair on.
Move(p) ==
    /\ UNCHANGED members
    /\ \E m \in Moves :
        /\ pairs[p].state = m[1]
        /\ pairs' = [pairs EXCEPT ![p].state = m[2], ![p].revision = @ + 1]

Next ==
    \/ MembersGain
    \/ MembersLeave
    \/ \E p \in Pair : Create(p) \/ Move(p)

Spec == Init /\ [][Next]_vars
=============================================================================
