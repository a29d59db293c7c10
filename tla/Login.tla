------------------------------- MODULE Login -------------------------------
(***************************************************************************)
(* Login sessions (src/internal/coordinator/users.go, user_api.go) on top  *)
(* of the database.                                                        *)
(*                                                                         *)
(* Login takes one of four slots without waiting, reads the account,       *)
(* compares the password for a few hundred milliseconds and only then      *)
(* inserts the session; the account may be disabled, or another login      *)
(* started, at any point in between.  The slot is given back by a defer,   *)
(* so whatever ends the call returns it.                                   *)
(***************************************************************************)
EXTENDS Store

CONSTANTS
    Visit,         \* Login calls that can be in flight at once
    LoginSlots,    \* capacity of Store.logins (4)
    Day            \* lifetime of a login session, in ticks

ASSUME LoginAssumption ==
    /\ LoginSlots \in Nat \ {0}
    /\ Day \in Nat \ {0}
    /\ IsFiniteSet(Visit)

VARIABLES
    logins,    \* tokens in the channel Store.logins
    visits     \* Login calls: their step, the account they read, their now

loginVars == <<storeVars, logins, visits>>

NoVisit == [at |-> "idle", user |-> None, now |-> 0]
VisitRow == [at : {"idle", "read", "compare"}, user : User \cup {None}, now : Nat]

LoginTypeOK ==
    /\ logins \in 0..LoginSlots
    /\ visits \in [Visit -> VisitRow]

LoginInit ==
    /\ StoreInit
    /\ logins = 0
    /\ visits = [v \in Visit |-> NoVisit]

InLogin == {v \in Visit : visits[v].at # "idle"}

\* Mutant of EndLogin: a return that forgets the slot.
EndLoginKeepsSlot(v) ==
    /\ visits' = [visits EXCEPT ![v] = NoVisit]
    /\ logins' = logins

\* A return of Login, with the deferred receive.
EndLogin(v) ==
    /\ visits' = [visits EXCEPT ![v] = NoVisit]
    /\ logins' = logins - 1

-----------------------------------------------------------------------------
(* Login.                                                                  *)

SlotLeft == logins < LoginSlots

\* With no slot left the call answers p2p.rate_limited and changes nothing.
TakeSlot(v, now) ==
    /\ visits[v] = NoVisit
    /\ SlotLeft
    /\ logins' = logins + 1
    /\ visits' = [visits EXCEPT ![v] = [at |-> "read", user |-> None, now |-> now]]
    /\ UNCHANGED storeVars

\* SELECT ... WHERE email=? AND disabled=0.  An unknown account goes on to a
\* comparison that fails.
ReadAccount(v, u) ==
    /\ visits[v].at = "read"
    /\ visits' = [visits EXCEPT ![v].at = "compare",
                                ![v].user = IF users[u] = "enabled" THEN u ELSE None]
    /\ UNCHANGED <<storeVars, logins>>

\* A name or password too long, a wrong password or an unknown account.
RefuseLogin(v) ==
    /\ visits[v].at # "idle"
    /\ EndLogin(v)
    /\ UNCHANGED storeVars

\* Mutant: the session is inserted for the account as it was read.
SessionInsertedAsRead(v) == TRUE

\* The condition of INSERT ... SELECT ... WHERE id=? AND disabled=0.
SessionInserted(v) == users[visits[v].user] = "enabled"

InsertSession(v, t) ==
    /\ visits[v].at = "compare"
    /\ visits[v].user \in User
    /\ userSessions[t].user = None
    /\ userSessions' = IF SessionInserted(v)
                       THEN [userSessions EXCEPT ![t] =
                               [user |-> visits[v].user, expires |-> visits[v].now + Day]]
                       ELSE userSessions
    /\ EndLogin(v)
    /\ UNCHANGED <<users, networks, devices, links, bindings, tokens, shares,
                   pairs, creating, clock>>

\* DELETE ... WHERE hash=?, by a call whose bearer was authenticated before.
\* A session that is gone already is refused.
Logout(t) ==
    /\ userSessions[t].user # None
    /\ userSessions' = [userSessions EXCEPT ![t] = [user |-> None, expires |-> 0]]
    /\ UNCHANGED <<users, networks, devices, links, bindings, tokens, shares,
                   pairs, creating, clock, logins, visits>>

VisitStep ==
    \E v \in Visit :
        \/ \E now \in Nows : TakeSlot(v, now)
        \/ \E u \in User : ReadAccount(v, u)
        \/ RefuseLogin(v)
        \/ \E t \in UserToken : InsertSession(v, t)

LoginNext ==
    \/ StoreNext /\ UNCHANGED <<logins, visits>>
    \/ VisitStep
    \/ \E t \in UserToken : Logout(t)

LoginSpec == LoginInit /\ [][LoginNext]_loginVars

-----------------------------------------------------------------------------
(* Correctness.                                                            *)

\* A disabled account has no login session: DisableUser deletes those there
\* are, and a Login that read the account before it was disabled inserts none.
NoSessionOfDisabled ==
    \A t \in UserToken :
        userSessions[t].user \in User => users[userSessions[t].user] = "enabled"

\* The slots taken are those of the calls in flight, so that logins are never
\* refused for good: every way out of Login gives its slot back.
SlotsReturned == logins = Cardinality(InLogin)
=============================================================================
