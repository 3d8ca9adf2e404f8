--------------------------- MODULE SessionAuthority ---------------------------
(***************************************************************************)
(* What Core's authentication promises, without saying how: CoreAuth shows *)
(* that the code keeps it.                                                 *)
(*                                                                         *)
(* A session begins by spending a warrant.  A warrant is granted to an     *)
(* account while that account is active (its password was right), may be   *)
(* passed on (to an OTP challenge) or withdrawn, and is spent once.  It    *)
(* outlives a lock: the promise about a lock is that it ends every session *)
(* of the account that there is.  A session that ended stays ended, and    *)
(* one step ends sessions of one account only.                             *)
(***************************************************************************)
CONSTANTS
    Users,
    Sids,
    Warrants,   \* what may carry a warrant
    Nobody      \* not an account

VARIABLES
    standing,   \* of each account: "absent", "active" or "locked"
    session,    \* of each identifier: its state and the account that owns it
    warrant     \* the account for which each of Warrants is good, or Nobody

vars == <<standing, session, warrant>>

Free == [state |-> "free", owner |-> Nobody]

Init ==
    /\ standing \in [Users -> {"absent", "active"}]
    /\ session = [s \in Sids |-> Free]
    /\ warrant = [w \in Warrants |-> Nobody]

Live(s) == session[s].state = "live"
Ended(s) == session'[s] = [session[s] EXCEPT !.state = "over"]

Enter(u) ==
    /\ standing[u] = "absent"
    /\ standing' = [standing EXCEPT ![u] = "active"]
    /\ UNCHANGED <<session, warrant>>

Grant(w, u) ==
    /\ standing[u] = "active"
    /\ warrant[w] = Nobody
    /\ warrant' = [warrant EXCEPT ![w] = u]
    /\ UNCHANGED <<standing, session>>

Pass(w, v) ==
    /\ warrant[w] # Nobody /\ warrant[v] = Nobody
    /\ warrant' = [warrant EXCEPT ![v] = warrant[w], ![w] = Nobody]
    /\ UNCHANGED <<standing, session>>

(* A refusal, an expiry, or a crash, which withdraws many at once.         *)
Withdraw ==
    /\ UNCHANGED <<standing, session>>
    /\ \A w \in Warrants : warrant'[w] \in {warrant[w], Nobody}
    /\ warrant' = [w \in Warrants |-> warrant'[w]]

Open(s, w) ==
    /\ session[s].state = "free"
    /\ warrant[w] # Nobody
    /\ session' = [session EXCEPT ![s] = [state |-> "live", owner |-> warrant[w]]]
    /\ warrant' = [warrant EXCEPT ![w] = Nobody]
    /\ UNCHANGED standing

Close(u) ==
    /\ UNCHANGED <<standing, warrant>>
    /\ \A s \in Sids :
          session'[s] = session[s] \/ (session[s].owner = u /\ Live(s) /\ Ended(s))
    /\ session' = [s \in Sids |-> session'[s]]

Lock(u) ==
    /\ standing[u] # "absent"
    /\ standing' = [standing EXCEPT ![u] = "locked"]
    /\ session' = [s \in Sids |-> IF session[s].owner = u /\ Live(s)
                                  THEN [session[s] EXCEPT !.state = "over"]
                                  ELSE session[s]]
    /\ UNCHANGED warrant

Unlock(u) ==
    /\ standing[u] = "locked"
    /\ standing' = [standing EXCEPT ![u] = "active"]
    /\ UNCHANGED <<session, warrant>>

Next ==
    \/ Withdraw
    \/ \E u \in Users : Enter(u) \/ Close(u) \/ Lock(u) \/ Unlock(u)
    \/ \E w \in Warrants, u \in Users : Grant(w, u)
    \/ \E w, v \in Warrants : Pass(w, v)
    \/ \E s \in Sids, w \in Warrants : Open(s, w)

Spec == Init /\ [][Next]_vars
=============================================================================
