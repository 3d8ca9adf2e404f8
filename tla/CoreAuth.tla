------------------------------ MODULE CoreAuth ------------------------------
(***************************************************************************)
(* The session authority of Sentinel Auth: the accounts, one-time-password *)
(* challenges and sessions of the core database, and every request that    *)
(* changes them (app/auth.py, app/internal_actions.py, app/iam.py).        *)
(*                                                                         *)
(* GRANULARITY.  One uvicorn process serves everything on one event loop,  *)
(* and the handlers use a synchronous database driver: what a handler does *)
(* between two awaits is one step.  Only login awaits before it commits:   *)
(* the risk gate (_pre_token_risk) and, when it challenges, the SMTP       *)
(* server.  So login is three actions and every other handler is one.  The *)
(* event that login and mfa_verify send to Detection leaves after the      *)
(* commit and changes nothing here.                                        *)
(*                                                                         *)
(* ROW LOCKS.  login locks its rate-limit row from its first statement to  *)
(* its commit, so an address has one login in flight (LoginAdmission has   *)
(* the row itself); a login that has flushed a changed account row keeps   *)
(* that row locked while it awaits the mail server (RowLocked).  An action *)
(* whose statement would wait for a row is not enabled.                    *)
(*                                                                         *)
(* ABSTRACTED.  A request that is refused without changing an account, a   *)
(* challenge or a session (401, 403, 404, 409, 423, 429) has no action.    *)
(* failed_login_count decides nothing in the code; only whether resetting  *)
(* it makes the account row dirty is kept.  Who may call the IAM handlers  *)
(* is left out: their actions may happen at any time.                      *)
(***************************************************************************)
EXTENDS Naturals, FiniteSets

CONSTANTS
    Users,      \* account identifiers (rows of users, once registered)
    Sids,       \* session identifiers: bounds the sessions ever created
    Txns,       \* challenge identifiers: bounds the challenges ever issued
    Addrs,      \* client addresses that parse as an IP
    Unknown,    \* the peer label "unknown", which binds no challenge
    None,       \* no account, no challenge
    MaxGen      \* bound: once a session was refreshed so often, none is again

ASSUME NoneAssumption == None \notin Users /\ None \notin Txns
ASSUME UnknownAssumption == Unknown \notin Addrs
ASSUME MaxGenAssumption == MaxGen \in Nat

VARIABLES
    status,     \* users.status, "absent" before register
    adminMfa,   \* users.admin_mfa_required
    mfaOnce,    \* users.detection_mfa_once
    sess,       \* sessions
    txn,        \* mfa_transactions of type one_time and persistent
    login,      \* the login in flight from each peer: what it has read so far
    overtaken,  \* HISTORY: the logins at the gate since whose read of the
                \* account it was locked or began to demand an OTP
    late,       \* HISTORY: the sessions minted by overtaken logins since
                \* the account was last locked or its toggle_mfa called
    spared      \* HISTORY: the challenges that could still be answered when
                \* their account was last locked, or that an overtaken login
                \* has issued since

vars == <<status, adminMfa, mfaOnce, sess, txn, login, overtaken, late, spared>>

Peers == Addrs \cup {Unknown}
MaxFails == 3       \* wrong codes that fail a challenge

(* A session is "over" once it is revoked or past expires_at: every query  *)
(* that looks a token up asks for neither.  A challenge past its own       *)
(* expires_at is "expired" (the code writes that when it next reads it);   *)
(* an "unsent" one is not committed yet.                                   *)
SessionRecord ==
    [state : {"free", "live", "over"}, user : Users \cup {None},
     txn : Txns \cup {None}, peer : Peers, gen : 0..MaxGen]
TxnRecord ==
    [status : {"free", "unsent", "pending", "completed",
               "failed", "expired"},
     type : {"one_time", "persistent"}, user : Users \cup {None},
     bound : Peers, fails : 0..MaxFails]
LoginRecord ==
    [pc : {"idle", "gate", "mail"}, user : Users \cup {None},
     admin : BOOLEAN, once : BOOLEAN,       \* the flags, as login read them
     raise : BOOLEAN, dirty : BOOLEAN,      \* flushed: the flag, the row
     txn : Txns \cup {None}]

NoSession == [state |-> "free", user |-> None, txn |-> None, peer |-> Unknown,
              gen |-> 0]
NoTxn == [status |-> "free", type |-> "one_time", user |-> None,
          bound |-> Unknown, fails |-> 0]
NoLogin == [pc |-> "idle", user |-> None, admin |-> FALSE, once |-> FALSE,
            raise |-> FALSE, dirty |-> FALSE, txn |-> None]

TypeOK ==
    /\ status \in [Users -> {"absent", "active", "locked"}]
    /\ adminMfa \in [Users -> BOOLEAN]
    /\ mfaOnce \in [Users -> BOOLEAN]
    /\ sess \in [Sids -> SessionRecord]
    /\ txn \in [Txns -> TxnRecord]
    /\ login \in [Peers -> LoginRecord]
    /\ overtaken \subseteq Peers
    /\ late \subseteq Sids
    /\ spared \subseteq Txns

(* Seeded accounts exist from the start; others register later.            *)
Init ==
    /\ status \in [Users -> {"absent", "active"}]
    /\ adminMfa = [u \in Users |-> FALSE]
    /\ mfaOnce = [u \in Users |-> FALSE]
    /\ sess = [s \in Sids |-> NoSession]
    /\ txn = [t \in Txns |-> NoTxn]
    /\ login = [p \in Peers |-> NoLogin]
    /\ overtaken = {}
    /\ late = {}
    /\ spared = {}

-----------------------------------------------------------------------------
Live(s) == sess[s].state = "live"

(* What get_current_auth_context demands of a bearer's session.            *)
Usable(s) == Live(s) /\ status[sess[s].user] = "active"

(* A login that flushed a change to u's row waits for the mail server.     *)
RowLocked(u) ==
    \E p \in Peers : login[p].pc = "mail" /\ login[p].dirty /\ login[p].user = u

(* _create_session, up to the caller's commit.                             *)
Mint(s, u, t, p) ==
    /\ sess[s].state = "free"
    /\ sess' = [sess EXCEPT ![s] =
         [state |-> "live", user |-> u, txn |-> t, peer |-> p, gen |-> 0]]

(* UPDATE sessions SET revoked_at WHERE user_id = u AND revoked_at IS NULL *)
RevokeSessions(u) ==
    sess' = [s \in Sids |-> IF sess[s].user = u /\ Live(s)
                            THEN [sess[s] EXCEPT !.state = "over"]
                            ELSE sess[s]]

(* The account has become stricter than a login at the gate has read it.   *)
Overtake(u) ==
    overtaken' = overtaken \cup {p \in Peers : login[p].pc = "gate" /\ login[p].user = u}

(* Whatever sessions of the account there are, this one ends: none of them *)
(* has an excuse to be alive after it.                                     *)
ForgetLate(u) == late' = {s \in late : sess[s].user # u}

(* A lock ends sessions, and leaves the challenges of the account open.    *)
Spare(u) ==
    spared' = {t \in spared : txn[t].user # u} \cup
              {t \in Txns : txn[t].user = u /\ txn[t].status \in {"unsent", "pending"}}

-----------------------------------------------------------------------------
(* MUTANTS.  Each is an action below with one plausible mistake in it; no  *)
(* behaviour of Spec uses them.  PROJECT.json pairs each with the property *)
(* that notices it.                                                        *)

(* login decides on the persistent flag only.                              *)
LoginMintIgnoringOnce(p, s) ==
    LET l == login[p] IN
    /\ l.pc = "gate"
    /\ ~l.admin
    /\ ~RowLocked(l.user)
    /\ Mint(s, l.user, None, p)
    /\ late' = IF p \in overtaken THEN late \cup {s} ELSE late
    /\ login' = [login EXCEPT ![p] = NoLogin]
    /\ overtaken' = overtaken \ {p}
    /\ UNCHANGED <<status, adminMfa, mfaOnce, txn, spared>>

(* The commit writes the whole account row back, not the changed columns.  *)
LoginChallengeSentWholeRow(p) ==
    LET l == login[p] IN
    /\ l.pc = "mail"
    /\ txn' = [txn EXCEPT ![l.txn].status = "pending"]
    /\ mfaOnce' = [mfaOnce EXCEPT ![l.user] = l.raise]
    /\ login' = [login EXCEPT ![p] = NoLogin]
    /\ IF l.raise THEN Overtake(l.user) ELSE UNCHANGED overtaken
    /\ UNCHANGED <<status, adminMfa, sess, late, spared>>

(* verify_mfa with one of its checks or writes changed.                    *)
VerifyRightWith(t, p, s, statuses, bind, clears) ==
    LET u == txn[t].user IN
    /\ txn[t].status \in statuses
    /\ bind /\ txn[t].bound # Unknown => p = txn[t].bound
    /\ ~RowLocked(u)
    /\ txn' = [txn EXCEPT ![t].status = "completed"]
    /\ mfaOnce' = IF txn[t].type \in clears THEN [mfaOnce EXCEPT ![u] = FALSE]
                                             ELSE mfaOnce
    /\ Mint(s, u, t, p)
    /\ UNCHANGED <<status, adminMfa, login, overtaken, late, spared>>
VerifyRightTwice(t, p, s) ==
    VerifyRightWith(t, p, s, {"pending", "completed"}, TRUE, {"one_time"})
VerifyRightAnywhere(t, p, s) ==
    VerifyRightWith(t, p, s, {"pending"}, FALSE, {"one_time"})
VerifyRightClearsAlways(t, p, s) ==
    VerifyRightWith(t, p, s, {"pending"}, TRUE, {"one_time", "persistent"})

(* The third wrong code does not fail the challenge.                       *)
VerifyWrongOffByOne(t) ==
    /\ txn[t].status = "pending"
    /\ txn' = [txn EXCEPT ![t].fails = @ + 1,
                          ![t].status = IF txn[t].fails + 1 > MaxFails
                                        THEN "failed" ELSE @]
    /\ UNCHANGED <<status, adminMfa, mfaOnce, sess, login, overtaken, late, spared>>

(* The token query forgets revoked_at IS NULL.                             *)
RefreshRevoked(s) ==
    /\ sess[s].state # "free"
    /\ sess[s].gen < MaxGen
    /\ sess' = [sess EXCEPT ![s].gen = @ + 1]
    /\ UNCHANGED <<status, adminMfa, mfaOnce, txn, login, overtaken, late, spared>>

(* LOCK_USER revokes only the sessions that no OTP has confirmed.          *)
LockUserPasswordsOnly(u) ==
    /\ status[u] # "absent"
    /\ status[u] = "locked" \/ ~RowLocked(u)
    /\ status' = [status EXCEPT ![u] = "locked"]
    /\ sess' = [s \in Sids |-> IF sess[s].user = u /\ Live(s) /\ sess[s].txn = None
                               THEN [sess[s] EXCEPT !.state = "over"] ELSE sess[s]]
    /\ Overtake(u) /\ ForgetLate(u) /\ Spare(u)
    /\ UNCHANGED <<adminMfa, mfaOnce, txn, login>>

(* toggle_mfa without _revoke_sessions.                                    *)
IamToggleMfaOnly(u, required) ==
    /\ status[u] # "absent"
    /\ adminMfa[u] = required \/ ~RowLocked(u)
    /\ adminMfa' = [adminMfa EXCEPT ![u] = required]
    /\ IF required THEN Overtake(u) ELSE UNCHANGED overtaken
    /\ ForgetLate(u)
    /\ UNCHANGED <<status, mfaOnce, txn, login, sess, spared>>

-----------------------------------------------------------------------------
(* Accounts *)

Register(u) ==
    /\ status[u] = "absent"
    /\ status' = [status EXCEPT ![u] = "active"]
    /\ UNCHANGED <<adminMfa, mfaOnce, sess, txn, login, overtaken, late, spared>>

(* login, to its first await: the password is right and the account is not *)
(* locked.  The ORM object keeps the two flags it read.                    *)
LoginStart(p, u) ==
    /\ login[p].pc = "idle"
    /\ status[u] = "active"
    /\ login' = [login EXCEPT ![p] =
         [NoLogin EXCEPT !.pc = "gate", !.user = u,
                         !.admin = adminMfa[u], !.once = mfaOnce[u]]]
    /\ UNCHANGED <<status, adminMfa, mfaOnce, sess, txn, overtaken, late, spared>>

(* The gate let the login pass, or failed open, and the flags it read ask  *)
(* for nothing: session and commit.  Sets last_login_at, so needs the row. *)
LoginMint(p, s) ==
    LET l == login[p] IN
    /\ l.pc = "gate"
    /\ ~l.admin /\ ~l.once
    /\ ~RowLocked(l.user)
    /\ Mint(s, l.user, None, p)
    /\ late' = IF p \in overtaken THEN late \cup {s} ELSE late
    /\ login' = [login EXCEPT ![p] = NoLogin]
    /\ overtaken' = overtaken \ {p}
    /\ UNCHANGED <<status, adminMfa, mfaOnce, txn, spared>>

(* The gate holds the token back, or the flags ask for an OTP: challenge   *)
(* and flush, then await the mail server.  The ORM writes the flag only if *)
(* the value it read was false; a reset failure count dirties the row too. *)
LoginChallenge(p, t, gated, countReset) ==
    LET l == login[p]
        raise == gated /\ ~l.once
        dirty == raise \/ countReset
    IN
    /\ l.pc = "gate"
    /\ gated \/ l.admin \/ l.once
    /\ dirty => ~RowLocked(l.user)
    /\ txn[t].status = "free"
    /\ txn' = [txn EXCEPT ![t] =
         [status |-> "unsent", type |-> IF l.admin THEN "persistent" ELSE "one_time",
          user |-> l.user, bound |-> p, fails |-> 0]]
    /\ login' = [login EXCEPT ![p] =
         [NoLogin EXCEPT !.pc = "mail", !.user = l.user, !.raise = raise,
                         !.dirty = dirty, !.txn = t]]
    /\ overtaken' = overtaken \ {p}
    /\ spared' = IF p \in overtaken THEN spared \cup {t} ELSE spared
    /\ UNCHANGED <<status, adminMfa, mfaOnce, sess, late>>

(* The mail was sent or failed - the code commits the challenge either way.*)
LoginChallengeSent(p) ==
    LET l == login[p] IN
    /\ l.pc = "mail"
    /\ txn' = [txn EXCEPT ![l.txn].status = "pending"]
    /\ mfaOnce' = IF l.raise THEN [mfaOnce EXCEPT ![l.user] = TRUE] ELSE mfaOnce
    /\ login' = [login EXCEPT ![p] = NoLogin]
    /\ IF l.raise THEN Overtake(l.user) ELSE UNCHANGED overtaken
    /\ UNCHANGED <<status, adminMfa, sess, late, spared>>

(* The process dies: every open transaction rolls back.                    *)
Crash ==
    /\ \E p \in Peers : login[p].pc # "idle"
    /\ login' = [p \in Peers |-> NoLogin]
    /\ txn' = [t \in Txns |-> IF txn[t].status = "unsent" THEN NoTxn ELSE txn[t]]
    /\ overtaken' = {}
    /\ spared' = {t \in spared : txn[t].status # "unsent"}
    /\ UNCHANGED <<status, adminMfa, mfaOnce, sess, late>>

-----------------------------------------------------------------------------
(* Challenges *)

(* The right code, from the bound address if the challenge has one.        *)
VerifyRight(t, p, s) ==
    LET u == txn[t].user IN
    /\ txn[t].status = "pending"
    /\ txn[t].bound # Unknown => p = txn[t].bound
    /\ ~RowLocked(u)
    /\ txn' = [txn EXCEPT ![t].status = "completed"]
    /\ mfaOnce' = IF txn[t].type = "one_time" THEN [mfaOnce EXCEPT ![u] = FALSE]
                                              ELSE mfaOnce
    /\ Mint(s, u, t, p)
    /\ UNCHANGED <<status, adminMfa, login, overtaken, late, spared>>

(* A wrong code, from any address: the address is checked after the code.  *)
VerifyWrong(t) ==
    /\ txn[t].status = "pending"
    /\ txn' = [txn EXCEPT ![t].fails = @ + 1,
                          ![t].status = IF txn[t].fails + 1 >= MaxFails
                                        THEN "failed" ELSE @]
    /\ UNCHANGED <<status, adminMfa, mfaOnce, sess, login, overtaken, late, spared>>

(* Five minutes pass; a code sent later is refused with 401.               *)
ChallengeExpires(t) ==
    /\ txn[t].status = "pending"
    /\ txn' = [txn EXCEPT ![t].status = "expired"]
    /\ UNCHANGED <<status, adminMfa, mfaOnce, sess, login, overtaken, late, spared>>

-----------------------------------------------------------------------------
(* Sessions *)

(* One hour passes.                                                        *)
Lapse(s) ==
    /\ sess[s].state = "live"
    /\ sess' = [sess EXCEPT ![s].state = "over"]
    /\ UNCHANGED <<status, adminMfa, mfaOnce, txn, login, overtaken, late, spared>>

(* A refresh reads the session and nothing of its account.                 *)
Refresh(s) ==
    /\ sess[s].state = "live"
    /\ \A r \in Sids : sess[r].gen < MaxGen     \* bound
    /\ sess' = [sess EXCEPT ![s].gen = @ + 1]
    /\ UNCHANGED <<status, adminMfa, mfaOnce, txn, login, overtaken, late, spared>>

Logout(s) ==
    /\ Usable(s)
    /\ sess' = [sess EXCEPT ![s].state = "over"]
    /\ UNCHANGED <<status, adminMfa, mfaOnce, txn, login, overtaken, late, spared>>

LogoutAll(s) ==
    /\ Usable(s)
    /\ RevokeSessions(sess[s].user)
    /\ UNCHANGED <<status, adminMfa, mfaOnce, txn, login, overtaken, late, spared>>

(* The bearer of session c revokes any session of the same account.        *)
RevokeSession(c, s) ==
    /\ Usable(c)
    /\ sess[s].state # "free" /\ sess[s].user = sess[c].user
    /\ sess' = [sess EXCEPT ![s].state = "over"]
    /\ UNCHANGED <<status, adminMfa, mfaOnce, txn, login, overtaken, late, spared>>

-----------------------------------------------------------------------------
(* apply_action: Detection and the SOC act on an account.  A request whose *)
(* idempotency key is in the audit log already is answered from there and  *)
(* changes nothing: each action below is the first one with its key.       *)

RequireMfa(u) ==
    /\ status[u] # "absent"
    /\ mfaOnce[u] \/ ~RowLocked(u)
    /\ mfaOnce' = [mfaOnce EXCEPT ![u] = TRUE]
    /\ RevokeSessions(u)
    /\ Overtake(u)
    /\ UNCHANGED <<status, adminMfa, txn, login, late, spared>>

(* REVOKE_SESSIONS and FORCE_LOGOUT.                                       *)
ForceLogout(u) ==
    /\ status[u] # "absent"
    /\ RevokeSessions(u)
    /\ UNCHANGED <<status, adminMfa, mfaOnce, txn, login, overtaken, late, spared>>

LockUser(u) ==
    /\ status[u] # "absent"
    /\ status[u] = "locked" \/ ~RowLocked(u)
    /\ status' = [status EXCEPT ![u] = "locked"]
    /\ RevokeSessions(u)
    /\ Overtake(u) /\ ForgetLate(u) /\ Spare(u)
    /\ UNCHANGED <<adminMfa, mfaOnce, txn, login>>

-----------------------------------------------------------------------------
(* IAM.  iam.lock_user writes like LOCK_USER without a key, unless the     *)
(* account is locked already; it may refuse (the last-administrator guard).*)

IamLock(u) ==
    /\ status[u] = "active"
    /\ ~RowLocked(u)
    /\ status' = [status EXCEPT ![u] = "locked"]
    /\ RevokeSessions(u)
    /\ Overtake(u) /\ ForgetLate(u) /\ Spare(u)
    /\ UNCHANGED <<adminMfa, mfaOnce, txn, login>>

(* Unlocking revokes nothing and clears neither flag.                      *)
IamUnlock(u) ==
    /\ status[u] = "locked"
    /\ ~RowLocked(u)
    /\ status' = [status EXCEPT ![u] = "active"]
    /\ UNCHANGED <<adminMfa, mfaOnce, sess, txn, login, overtaken, late, spared>>

(* toggle_mfa revokes every session whichever way it sets the flag.        *)
IamToggleMfa(u, required) ==
    /\ status[u] # "absent"
    /\ adminMfa[u] = required \/ ~RowLocked(u)
    /\ adminMfa' = [adminMfa EXCEPT ![u] = required]
    /\ RevokeSessions(u)
    /\ IF required THEN Overtake(u) ELSE UNCHANGED overtaken
    /\ ForgetLate(u)
    /\ UNCHANGED <<status, mfaOnce, txn, login, spared>>

(* assign_role and revoke_role, of the state this module has.              *)
IamRoleChange(u) ==
    /\ status[u] # "absent"
    /\ RevokeSessions(u)
    /\ UNCHANGED <<status, adminMfa, mfaOnce, txn, login, overtaken, late, spared>>

-----------------------------------------------------------------------------
LoginNext ==
    \/ \E p \in Peers, u \in Users : LoginStart(p, u)
    \/ \E p \in Peers, s \in Sids : LoginMint(p, s)
    \/ \E p \in Peers, t \in Txns, gated, countReset \in BOOLEAN :
          LoginChallenge(p, t, gated, countReset)
    \/ \E p \in Peers : LoginChallengeSent(p)
    \/ Crash

VerifyNext ==
    \/ \E t \in Txns, p \in Peers, s \in Sids : VerifyRight(t, p, s)
    \/ \E t \in Txns : VerifyWrong(t) \/ ChallengeExpires(t)

SessionNext ==
    \/ \E s \in Sids : Lapse(s) \/ Refresh(s) \/ Logout(s) \/ LogoutAll(s)
    \/ \E c, s \in Sids : RevokeSession(c, s)

AdminNext ==
    \/ \E u \in Users : RequireMfa(u) \/ ForceLogout(u) \/ LockUser(u)
    \/ \E u \in Users :
          \/ Register(u) \/ IamLock(u) \/ IamUnlock(u) \/ IamRoleChange(u)
          \/ \E required \in BOOLEAN : IamToggleMfa(u, required)

Next == LoginNext \/ VerifyNext \/ SessionNext \/ AdminNext

Spec == Init /\ [][Next]_vars

-----------------------------------------------------------------------------
(* PROPERTIES *)

(* A challenge is completed exactly when one session was minted from it:   *)
(* _create_session and the consumption of the code commit together in      *)
(* mfa_verify, and no other path spends or re-opens a challenge            *)
(* (INV-MFA-001, INV-MFA-003 of docs/audit/03-invariants.md).              *)
MintedFrom(t) == {s \in Sids : sess[s].txn = t}
OneSessionPerChallenge ==
    \A t \in Txns :
        /\ txn[t].status = "completed" <=> MintedFrom(t) # {}
        /\ \A s1, s2 \in MintedFrom(t) : s1 = s2

(* A session minted by an OTP belongs to the account the OTP was mailed to *)
(* and to the address that asked for it, whatever logins of other accounts *)
(* and addresses ran meanwhile; and its challenge had a guess to spare.    *)
SessionMatchesChallenge ==
    \A s \in Sids : LET t == sess[s].txn IN
        t # None =>
            /\ txn[t].user = sess[s].user
            /\ txn[t].bound # Unknown => txn[t].bound = sess[s].peer
            /\ txn[t].fails < MaxFails

(* While persistent MFA is on, every live session of the account has       *)
(* passed an OTP - except one minted since toggle_mfa turned it on, by a   *)
(* login that had already read the account and waited at the gate.         *)
PersistentMfaCoversSessions ==
    \A s \in Sids :
        Live(s) /\ adminMfa[sess[s].user] => sess[s].txn # None \/ s \in late

(* A lock ends every session that the account has, OTP or not: what lives  *)
(* while it is locked was minted after its last lock, by a login that had  *)
(* read the account before it, from a challenge that was out at that       *)
(* moment, or from one that such a login has issued since.                 *)
LockedAccountKeepsNoSession ==
    \A s \in Sids :
        Live(s) /\ status[sess[s].user] = "locked" =>
            s \in late \/ sess[s].txn \in spared

(* A one-time challenge is still out although its account no longer asks   *)
(* for an OTP only because another one-time challenge of the account was   *)
(* completed: no crash, lock, toggle, logout or replayed action loses the  *)
(* demand that issued it.                                                  *)
OneTimeCompleted(u) ==
    \E t \in Txns : txn[t].status = "completed" /\ txn[t].type = "one_time"
                    /\ txn[t].user = u
OutstandingChallengeIsDemanded ==
    \A t \in Txns :
        txn[t].status = "pending" /\ txn[t].type = "one_time" =>
            mfaOnce[txn[t].user] \/ OneTimeCompleted(txn[t].user)

(* Every login at the gate that nothing overtook still reads its account   *)
(* right: it was active and asks for no more than the login has seen.      *)
InFlightReadIsCurrent ==
    \A p \in Peers :
        login[p].pc = "gate" /\ p \notin overtaken =>
            /\ status[login[p].user] = "active"
            /\ adminMfa[login[p].user] => login[p].admin
            /\ mfaOnce[login[p].user] => login[p].once

(* Whatever challenge of a locked account can still be answered was out at *)
(* the lock, or a login that the lock overtook has issued it.              *)
OpenChallengesAreSpared ==
    \A t \in Txns :
        txn[t].status \in {"unsent", "pending"} /\ status[txn[t].user] = "locked" =>
            t \in spared

(* What else an induction needs of the rows and of the logins in flight.   *)
SessionRows ==
    \A s \in Sids :
        /\ sess[s].state = "free" => sess[s].txn = None
        /\ sess[s].state # "free" => sess[s].user \in Users
ChallengeRows ==
    \A t \in Txns :
        /\ txn[t].status # "free" => txn[t].user \in Users
        /\ txn[t].status # "failed" => txn[t].fails < MaxFails
LoginRows ==
    \A p \in Peers :
        /\ login[p].pc # "idle" => login[p].user \in Users
        /\ login[p].pc = "mail" =>
              /\ login[p].txn \in Txns
              /\ txn[login[p].txn].status = "unsent"
              /\ txn[login[p].txn].user = login[p].user
              /\ \A q \in Peers \ {p} :
                    login[q].pc = "mail" => login[q].txn # login[p].txn

(* A login that has read the one-time flag, or challenges because of it,   *)
(* was right to, or a one-time challenge has been completed since.         *)
OnceReadIsDemanded ==
    \A p \in Peers : LET l == login[p] IN
        \/ l.pc = "gate" /\ l.once
        \/ l.pc = "mail" /\ ~l.raise /\ txn[l.txn].type = "one_time"
        => mfaOnce[l.user] \/ OneTimeCompleted(l.user)

(* The inductive invariant of CoreAuthProofs: the safety properties above, *)
(* and what carries each of them through the awaits of login.              *)
IndInv ==
    /\ TypeOK
    /\ SessionRows
    /\ ChallengeRows
    /\ LoginRows
    /\ OneSessionPerChallenge
    /\ SessionMatchesChallenge
    /\ InFlightReadIsCurrent
    /\ OpenChallengesAreSpared
    /\ PersistentMfaCoversSessions
    /\ LockedAccountKeepsNoSession
    /\ OnceReadIsDemanded
    /\ OutstandingChallengeIsDemanded

(* The demand Detection raised is withdrawn only by an OTP: the flag falls *)
(* only in a step that completes a one-time challenge of that account and  *)
(* mints its session.                                                      *)
DemandWithdrawnByOtp ==
    [][\A u \in Users : mfaOnce[u] /\ ~mfaOnce'[u] =>
          \E t \in Txns, s \in Sids :
              /\ txn[t].user = u /\ txn[t].type = "one_time"
              /\ txn[t].status = "pending" /\ txn'[t].status = "completed"
              /\ sess[s].state = "free" /\ sess'[s].txn = t]_vars

(* No revocation is ever undone or outlived: a session that is over stays  *)
(* over and its tokens are never rotated again (INV-AUTH-002).             *)
RevocationIsFinal ==
    [][\A s \in Sids : sess[s].state = "over" => sess'[s] = sess[s]]_vars

(* A login that no lock or demand overtook mints without an OTP only for   *)
(* an account that is active and asks for nothing at that very moment.     *)
PasswordAloneNeedsAFreeAccount ==
    [][\A s \in Sids :
          sess[s].state = "free" /\ sess'[s].state = "live"
          /\ sess'[s].txn = None /\ s \notin late' =>
              LET u == sess'[s].user IN
              status[u] = "active" /\ ~adminMfa[u] /\ ~mfaOnce[u]]_vars

(* Core keeps the promise of SessionAuthority.  A login at the gate and a  *)
(* challenge that can still be answered are the warrants there are; what   *)
(* MFA demands, addresses, refreshes and row locks do is not visible there.*)
WarrantOf(w) ==
    IF w[1] = "login"
    THEN IF login[w[2]].pc = "gate" THEN login[w[2]].user ELSE None
    ELSE IF txn[w[2]].status \in {"unsent", "pending"} THEN txn[w[2]].user ELSE None
Carriers == ({"login"} \X Peers) \cup ({"code"} \X Txns)
WarrantSeen == [w \in Carriers |-> WarrantOf(w)]
SessionSeen == [s \in Sids |-> [state |-> sess[s].state, owner |-> sess[s].user]]
Authority == INSTANCE SessionAuthority WITH
    Warrants <- Carriers, Nobody <- None,
    standing <- status, session <- SessionSeen, warrant <- WarrantSeen
KeepsAuthority == Authority!Spec

(* What the strict reading of the documents asks, and login's await at the *)
(* gate breaks (INV-AUTH-001): no session without an OTP once the account  *)
(* demands one.                                                            *)
NoSessionWithoutDemandedOtp ==
    \A s \in Sids :
        Live(s) /\ adminMfa[sess[s].user] => sess[s].txn # None
=============================================================================
