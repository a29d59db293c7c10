------------------------------ MODULE Pairing ------------------------------
(***************************************************************************)
(* Shares, invitations, adoption and pair actions                          *)
(* (src/internal/coordinator/pairing.go) on top of the database.           *)
(*                                                                         *)
(* A device request reads time.Now() and some rows first and writes in a   *)
(* later statement or transaction; other handlers run in between.  Req is  *)
(* the set of handlers that can be in flight, and requests[r] is what the  *)
(* handler remembers between its steps.  Reads of DeviceAuthorized that    *)
(* follow each other are one step, at the time of the last: that           *)
(* authorization is only ever lost, so the earlier reads succeeded too.    *)
(* A request refused before its first write changes nothing: the checks    *)
(* made on what was read are guards of the step that reads.                *)
(***************************************************************************)
EXTENDS Store

CONSTANT Req    \* pairing handlers that can be in flight at once

VARIABLES
    requests,   \* Req -> what a pairing handler holds between its steps
    mintedBy    \* history: the share an invited pair was minted with

pairingVars == <<requests, mintedBy>>
vars == <<storeVars, pairingVars>>

Actions == {"approve", "reject", "confirm", "revoke"}

NoRequest == [op |-> "none"]
ShareRequest ==
    [op : {"share"}, device : Device, network : Network, now : 0..MaxTime]
InviteRequest ==
    [op : {"invite"}, sender : Device, nonce : Nonce, now : 0..MaxTime]
AdoptRequest ==
    [op : {"adopt"}, device : Device, peers : SUBSET (Network \X Device),
     now : 0..MaxTime]
ActRequest ==
    [op : {"authorize", "update"}, pair : Pair, action : Actions,
     state : PairStates, revision : Nat]

TypeOK ==
    /\ StoreTypeOK
    /\ requests \in [Req -> {NoRequest} \cup ShareRequest \cup InviteRequest
                            \cup AdoptRequest \cup ActRequest]
    /\ mintedBy \in [Pair -> Nonce \cup {None}]

Init ==
    /\ StoreInit
    /\ requests = [r \in Req |-> NoRequest]
    /\ mintedBy = [p \in Pair |-> None]

Idle(r) == requests[r] = NoRequest
Begin(r, request) == requests' = [requests EXCEPT ![r] = request]
Finish(r) == requests' = [requests EXCEPT ![r] = NoRequest]

\* The rows the pairing handlers never write.
UnchangedAccounts ==
    UNCHANGED <<users, userSessions, networks, devices, links, bindings,
                tokens, creating, clock>>

BothAuthorized(n, a, b) == BindingAuthorized(n, a) /\ BindingAuthorized(n, b)

SameLink(p, n, a, b) == pairs[p].network = n /\ Ends(p) = {a, b}

\* Mutant: only the same direction counts as the same link.
LinkBusyOneWay(n, a, b, now) ==
    \E p \in Pair :
        /\ SameLink(p, n, a, b) /\ pairs[p].initiator = a
        /\ \/ pairs[p].state = "active"
           \/ pairs[p].state \in {"invited", "approved"} /\ pairs[p].expires > now

\* The pairing_busy query: an active pair on the link, or a pending one that
\* has not expired.
LinkBusy(n, a, b, now) ==
    \E p \in Pair :
        /\ SameLink(p, n, a, b)
        /\ \/ pairs[p].state = "active"
           \/ pairs[p].state \in {"invited", "approved"} /\ pairs[p].expires > now

InsertPair(p, n, initiator, target, state, now) ==
    /\ pairs[p] = NoPair
    /\ pairs' = [pairs EXCEPT ![p] =
           [network |-> n, initiator |-> initiator, target |-> target,
            state |-> state, expires |-> now + FiveMinutes, revision |-> 1]]

-----------------------------------------------------------------------------
(* Share: read the device, then insert a share in a transaction.           *)

ReadShareDevice(r, d, n, now) ==
    /\ Idle(r)
    /\ DeviceAuthorized(d)
    /\ Begin(r, [op |-> "share", device |-> d, network |-> n, now |-> now])
    /\ UNCHANGED <<storeVars, mintedBy>>

\* Mutant: the binding is not asked for inside the transaction.
ShareAllowedAsRead(q) == DeviceAuthorized(q.device)

ShareAllowed(q) == BindingAuthorized(q.network, q.device)

InsertShare(r, s) ==
    LET q == requests[r] IN
    /\ q.op = "share"
    /\ shares[s] = NoShare
    /\ shares' = IF ShareAllowed(q)
                 THEN [shares EXCEPT ![s] = [device |-> q.device,
                                             network |-> q.network,
                                             expires |-> q.now + FiveMinutes,
                                             used |-> FALSE]]
                 ELSE shares
    /\ Finish(r)
    /\ UnchangedAccounts /\ UNCHANGED <<pairs, mintedBy>>

-----------------------------------------------------------------------------
(* Invite: read both devices and verify the share, then use the share and  *)
(* insert the pair in one transaction.  A share verifies only if this      *)
(* coordinator signed it, so it is known by its nonce.                     *)

VerifyShare(r, sender, s, now) ==
    /\ Idle(r)
    /\ shares[s] # NoShare
    /\ sender # shares[s].device
    /\ DeviceAuthorized(sender)
    /\ DeviceAuthorized(shares[s].device)
    /\ shares[s].expires > now
    /\ shares[s].expires <= now + FiveMinutes
    /\ Begin(r, [op |-> "invite", sender |-> sender, nonce |-> s, now |-> now])
    /\ UNCHANGED <<storeVars, mintedBy>>

\* Mutants: the bindings, then the share's use, not asked for again inside the
\* transaction.
InviteAllowedAsRead(sender, s, now) ==
    /\ ~LinkBusy(shares[s].network, sender, shares[s].device, now)
    /\ ~shares[s].used
    /\ shares[s].expires > now
InviteAllowedTwice(sender, s, now) ==
    /\ BothAuthorized(shares[s].network, sender, shares[s].device)
    /\ ~LinkBusy(shares[s].network, sender, shares[s].device, now)
    /\ shares[s].expires > now

InviteAllowed(sender, s, now) ==
    /\ BothAuthorized(shares[s].network, sender, shares[s].device)
    /\ ~LinkBusy(shares[s].network, sender, shares[s].device, now)
    /\ ~shares[s].used
    /\ shares[s].expires > now

InsertInvite(r, p) ==
    LET q == requests[r] IN
    /\ q.op = "invite"
    /\ InviteAllowed(q.sender, q.nonce, q.now)
    /\ InsertPair(p, shares[q.nonce].network, q.sender, shares[q.nonce].device,
                  "invited", q.now)
    /\ UseShares({q.nonce})
    /\ mintedBy' = [mintedBy EXCEPT ![p] = q.nonce]
    /\ Finish(r)
    /\ UnchangedAccounts

RefuseInvite(r) ==
    /\ requests[r].op = "invite"
    /\ ~InviteAllowed(requests[r].sender, requests[r].nonce, requests[r].now)
    /\ Finish(r)
    /\ UNCHANGED <<storeVars, mintedBy>>

-----------------------------------------------------------------------------
(* AdoptNetwork: read the device and its peers, then one transaction per   *)
(* peer; a peer that fails is skipped.                                     *)

Peers(d) ==
    {np \in Network \X Device :
        /\ np[2] # d
        /\ d \in Bound(np[1]) /\ np[2] \in Bound(np[1])
        /\ ~networks[np[1]].deleted
        /\ networks[np[1]].owner = devices[d].owner
        /\ users[devices[d].owner] = "enabled"
        /\ devices[np[2]].owner = devices[d].owner
        /\ ~devices[np[2]].revoked}

ReadPeers(r, d, now) ==
    /\ Idle(r)
    /\ DeviceAuthorized(d)
    /\ Peers(d) # {}
    /\ Begin(r, [op |-> "adopt", device |-> d, peers |-> Peers(d), now |-> now])
    /\ UNCHANGED <<storeVars, mintedBy>>

AdoptAllowed(d, n, peer, now) ==
    /\ BothAuthorized(n, d, peer)
    /\ ~LinkBusy(n, d, peer, now)

\* The request is done when no peer is left.
PeerDone(r, np) ==
    IF requests[r].peers = {np} THEN Finish(r)
    ELSE requests' = [requests EXCEPT ![r].peers = @ \ {np}]

AdoptPeer(r, np, p) ==
    LET q == requests[r] IN
    /\ q.op = "adopt"
    /\ np \in q.peers
    /\ AdoptAllowed(q.device, np[1], np[2], q.now)
    /\ InsertPair(p, np[1], q.device, np[2], "active", q.now)
    /\ PeerDone(r, np)
    /\ UnchangedAccounts /\ UNCHANGED <<shares, mintedBy>>

SkipPeer(r, np) ==
    LET q == requests[r] IN
    /\ q.op = "adopt"
    /\ np \in q.peers
    /\ ~AdoptAllowed(q.device, np[1], np[2], q.now)
    /\ PeerDone(r, np)
    /\ UNCHANGED <<storeVars, mintedBy>>

-----------------------------------------------------------------------------
(* ActOnPair: read the pair, authorize it, then update the row if its      *)
(* state and revision are still the ones read.                             *)

\* Which action is open to which end of the pair, in which state.  A
\* confirmation with another fingerprint than the target's is refused.
ActionFits(row, d, action, now) ==
    \/ /\ action \in {"approve", "reject"}
       /\ d = row.target /\ row.state = "invited"
       /\ row.expires > now
    \/ /\ action = "confirm"
       /\ d = row.initiator /\ row.state = "approved"
       /\ row.expires > now
    \/ /\ action = "revoke"
       /\ d \in {row.initiator, row.target} /\ row.state = "active"

ReadPair(r, d, p, action, now) ==
    /\ Idle(r)
    /\ DeviceAuthorized(d)
    /\ ActionFits(pairs[p], d, action, now)
    /\ Begin(r, [op |-> "authorize", pair |-> p, action |-> action,
                 state |-> pairs[p].state, revision |-> pairs[p].revision])
    /\ UNCHANGED <<storeVars, mintedBy>>

\* The ends and the network of a pair never change, only its state does.
AuthorizePair(r) ==
    LET q == requests[r]
        row == pairs[q.pair] IN
    /\ q.op = "authorize"
    /\ IF /\ BothAuthorized(row.network, row.initiator, row.target)
          /\ q.action = "confirm" => DeviceAuthorized(row.target)
       THEN requests' = [requests EXCEPT ![r].op = "update"]
       ELSE Finish(r)
    /\ UNCHANGED <<storeVars, mintedBy>>

\* Mutant: the action is stored as the state.
ActionVerb(action) == action

ActionResult(action) ==
    CASE action = "approve" -> "approved"
      [] action = "reject"  -> "rejected"
      [] action = "confirm" -> "active"
      [] action = "revoke"  -> "revoked"

\* Mutant: the update names the row only.
RowKnown(q) == \A d \in Ends(q.pair) : ~devices[d].revoked

\* The WHERE clause of the update: it asks for the row that was read, but
\* not again for its expiry.
RowUnchanged(q) ==
    /\ pairs[q.pair].state = q.state
    /\ pairs[q.pair].revision = q.revision
    /\ \A d \in Ends(q.pair) : ~devices[d].revoked

UpdatePair(r) ==
    LET q == requests[r] IN
    /\ q.op = "update"
    /\ pairs' = IF RowUnchanged(q)
                THEN [pairs EXCEPT ![q.pair].state = ActionResult(q.action),
                                   ![q.pair].revision = @ + 1]
                ELSE pairs
    /\ Finish(r)
    /\ UnchangedAccounts /\ UNCHANGED <<shares, mintedBy>>

-----------------------------------------------------------------------------
\* The process stops between two steps of its handlers: what is committed
\* stays, every handler in flight is lost.
Restart ==
    /\ requests' = [r \in Req |-> NoRequest]
    /\ creating' = [c \in Creator |-> None]
    /\ UNCHANGED <<tables, clock, mintedBy>>

ReadStep(r, now) ==
    \E d \in Device :
        \/ \E n \in Network : ReadShareDevice(r, d, n, now)
        \/ \E s \in Nonce : VerifyShare(r, d, s, now)
        \/ ReadPeers(r, d, now)
        \/ \E p \in Pair, action \in Actions : ReadPair(r, d, p, action, now)

WriteStep(r) ==
    \/ \E s \in Nonce : InsertShare(r, s)
    \/ \E p \in Pair : InsertInvite(r, p)
    \/ RefuseInvite(r)
    \/ /\ requests[r].op = "adopt"
       /\ \E np \in requests[r].peers :
            SkipPeer(r, np) \/ \E p \in Pair : AdoptPeer(r, np, p)
    \/ AuthorizePair(r)
    \/ UpdatePair(r)

Next ==
    \/ StoreNext /\ UNCHANGED pairingVars
    \/ \E r \in Req, now \in Nows : ReadStep(r, now)
    \/ \E r \in Req : WriteStep(r)
    \/ Restart

Spec == Init /\ [][Next]_vars

-----------------------------------------------------------------------------
(* Correctness.                                                            *)

\* An open pair always joins two different machines that may both act in its
\* network now: unbinding or revoking a machine, deleting the network and
\* disabling its owner all close it in the same transaction, and no handler
\* that was in flight reopens it.
OpenPairsAuthorized ==
    \A p \in Pair : IsOpen(p) =>
        /\ pairs[p].initiator # pairs[p].target
        /\ BothAuthorized(pairs[p].network, pairs[p].initiator, pairs[p].target)

\* Two open pairs on one link were minted at least a full lifetime apart: the
\* busy check of Invite and adopt, made with a time read before the
\* transaction, never lets two concurrent requests both mint.
OpenPairsSpaced ==
    \A p, q \in Pair :
        /\ p # q /\ IsOpen(p) /\ IsOpen(q)
        /\ SameLink(p, pairs[q].network, pairs[q].initiator, pairs[q].target)
        => \/ pairs[p].expires + FiveMinutes <= pairs[q].expires
           \/ pairs[q].expires + FiveMinutes <= pairs[p].expires

\* A share mints at most one pair, in its own network and to its own device,
\* however many invitations present it at once.
ShareMintsOnePair ==
    \A p \in Pair : mintedBy[p] # None =>
        /\ \A q \in Pair : mintedBy[q] = mintedBy[p] => q = p
        /\ shares[mintedBy[p]].used
        /\ pairs[p].network = shares[mintedBy[p]].network
        /\ pairs[p].target = shares[mintedBy[p]].device

\* docs/protocol.md:53: within one relation there is a single pair that is
\* active or pending.
OnePairPerLink ==
    \A p, q \in Pair :
        /\ pairs[p].state = "active"
        /\ \/ pairs[q].state = "active"
           \/ pairs[q].state \in {"invited", "approved"} /\ pairs[q].expires > clock
        /\ SameLink(p, pairs[q].network, pairs[q].initiator, pairs[q].target)
        => p = q

\* The pairs and the members they need behave as PairLifecycle says, whatever
\* handlers are in flight.
Lifecycle ==
    INSTANCE PairLifecycle WITH
        members <- {nd \in Network \X Device : BindingAuthorized(nd[1], nd[2])}
Lifecycle_Spec == Lifecycle!Spec
=============================================================================
