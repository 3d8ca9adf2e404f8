--------------------------- MODULE CoreAuthProofs ---------------------------
(***************************************************************************)
(* Proofs about CoreAuth for any number of accounts, sessions, challenges, *)
(* addresses and refreshes.                                                *)
(*                                                                         *)
(* IndInv is inductive.  Its steps fall in ten kinds (StepKinds): the four *)
(* steps of login and a crash, the three outcomes of mfa_verify, refresh,  *)
(* and all the rest, of which one fact is enough: they are Quiet.          *)
(***************************************************************************)
EXTENDS CoreAuth, TLAPS

(* What a bearer's or an administrator's step may do: end sessions, and    *)
(* make an account stricter only by overtaking the logins at its gate and, *)
(* for a lock or persistent MFA, by ending its sessions.  A lock leaves    *)
(* the account's open challenges as they are, and spares them.             *)
Ends(s) == sess[s].state # "free" /\ sess'[s] = [sess[s] EXCEPT !.state = "over"]
Locks(u) == status'[u] # "active" /\ status[u] = "active"
AsksAlways(u) == adminMfa'[u] /\ ~adminMfa[u]
AsksOnce(u) == mfaOnce'[u] /\ ~mfaOnce[u]
Open(t) == txn[t].status \in {"unsent", "pending"}
LeftAlone(u) ==
    /\ status'[u] = "locked" => status[u] = "locked"
    /\ \A t \in spared : txn[t].user = u => t \in spared'
LockedAfresh(u) ==
    /\ \A s \in Sids : sess[s].user = u => sess'[s].state # "live"
    /\ \A t \in Txns : txn[t].user = u /\ Open(t) => t \in spared'
Quiet ==
    /\ UNCHANGED <<txn, login>>
    /\ \A u \in Users : LeftAlone(u) \/ LockedAfresh(u)
    /\ \A s \in late : s \in late' \/ sess'[s].state # "live"
    /\ \A s \in Sids : sess'[s] = sess[s] \/ Ends(s)
    /\ overtaken \subseteq overtaken'
    /\ \A u \in Users : mfaOnce[u] => mfaOnce'[u]
    /\ \A u \in Users : status'[u] = "locked" => Locks(u) \/ status[u] = "locked"
    /\ \A u \in Users, p \in Peers :
          /\ Locks(u) \/ AsksAlways(u) \/ AsksOnce(u)
          /\ login[p].pc = "gate" /\ login[p].user = u
          => p \in overtaken'
    /\ \A u \in Users, s \in Sids :
          (Locks(u) \/ AsksAlways(u)) /\ sess[s].user = u => sess'[s].state # "live"

-----------------------------------------------------------------------------
(* Type correctness *)

(* _create_session writes a well-formed session row.                       *)
LEMMA MintTyped ==
    ASSUME TypeOK, NEW s \in Sids, NEW u \in Users \cup {None},
           NEW t \in Txns \cup {None}, NEW p \in Peers, Mint(s, u, t, p)
    PROVE  sess' \in [Sids -> SessionRecord]
BY MaxGenAssumption DEF TypeOK, Mint, SessionRecord

(* So does the UPDATE that revokes the sessions of an account.             *)
LEMMA RevokeTyped ==
    ASSUME TypeOK, NEW u, RevokeSessions(u)
    PROVE  sess' \in [Sids -> SessionRecord]
BY DEF TypeOK, RevokeSessions, SessionRecord

(* And a logout, which ends one session.                                   *)
LEMMA OverTyped ==
    ASSUME TypeOK, NEW s \in Sids, sess' = [sess EXCEPT ![s].state = "over"]
    PROVE  sess' \in [Sids -> SessionRecord]
BY DEF TypeOK, SessionRecord

(* No step of the system leaves a row outside its column's range.          *)
LEMMA TypeStep ==
    TypeOK /\ ChallengeRows /\ LoginRows /\ [Next]_vars => TypeOK'
<1> SUFFICES ASSUME TypeOK, ChallengeRows, LoginRows, [Next]_vars PROVE TypeOK'
  OBVIOUS
<1>1. ASSUME NEW p \in Peers, NEW u \in Users, LoginStart(p, u)
      PROVE  TypeOK'
  <2>1. login' \in [Peers -> LoginRecord]
    BY <1>1 DEF TypeOK, LoginStart, LoginRecord, NoLogin
  <2> QED  BY <1>1, <2>1 DEF TypeOK, LoginStart
<1>2. ASSUME NEW p \in Peers, NEW s \in Sids, LoginMint(p, s)
      PROVE  TypeOK'
  <2>1. login[p].user \in Users \cup {None}
    BY DEF TypeOK, LoginRecord
  <2>2. sess' \in [Sids -> SessionRecord]
    BY <1>2, <2>1, MintTyped DEF LoginMint
  <2>3. login' \in [Peers -> LoginRecord]
    BY <1>2 DEF TypeOK, LoginMint, LoginRecord, NoLogin
  <2> QED  BY <1>2, <2>2, <2>3 DEF TypeOK, LoginMint
<1>3. ASSUME NEW p \in Peers, NEW t \in Txns, NEW gated \in BOOLEAN,
             NEW countReset \in BOOLEAN, LoginChallenge(p, t, gated, countReset)
      PROVE  TypeOK'
  <2>1. txn' \in [Txns -> TxnRecord]
    BY <1>3 DEF TypeOK, LoginChallenge, TxnRecord, LoginRecord, MaxFails
  <2>2. login' \in [Peers -> LoginRecord]
    BY <1>3 DEF TypeOK, LoginChallenge, LoginRecord, NoLogin
  <2> QED  BY <1>3, <2>1, <2>2 DEF TypeOK, LoginChallenge
<1>4. ASSUME NEW p \in Peers, LoginChallengeSent(p)
      PROVE  TypeOK'
  <2>1. login[p].txn \in Txns
    BY <1>4 DEF LoginRows, LoginChallengeSent
  <2>2. txn' \in [Txns -> TxnRecord]
    BY <1>4, <2>1 DEF TypeOK, LoginChallengeSent, TxnRecord
  <2>3. login' \in [Peers -> LoginRecord]
    BY <1>4 DEF TypeOK, LoginChallengeSent, LoginRecord, NoLogin
  <2>4. mfaOnce' \in [Users -> BOOLEAN] /\ overtaken' \subseteq Peers
    BY <1>4 DEF TypeOK, LoginChallengeSent, Overtake
  <2> QED  BY <1>4, <2>2, <2>3, <2>4 DEF TypeOK, LoginChallengeSent
<1>5. CASE Crash
  <2>1. NoTxn \in TxnRecord
    BY DEF NoTxn, TxnRecord, MaxFails, Peers
  <2>2. txn' \in [Txns -> TxnRecord]
    BY <1>5, <2>1 DEF TypeOK, Crash
  <2>3. login' \in [Peers -> LoginRecord]
    BY <1>5 DEF TypeOK, Crash, LoginRecord, NoLogin
  <2> QED  BY <1>5, <2>2, <2>3 DEF TypeOK, Crash
<1>6. ASSUME NEW t \in Txns, NEW p \in Peers, NEW s \in Sids, VerifyRight(t, p, s)
      PROVE  TypeOK'
  <2>1. txn[t].user \in Users \cup {None}
    BY DEF TypeOK, TxnRecord
  <2>2. sess' \in [Sids -> SessionRecord]
    BY <1>6, <2>1, MintTyped DEF VerifyRight
  <2>3. txn' \in [Txns -> TxnRecord]
    BY <1>6 DEF TypeOK, VerifyRight, TxnRecord
  <2>4. mfaOnce' \in [Users -> BOOLEAN]
    BY <1>6 DEF TypeOK, VerifyRight
  <2> QED  BY <1>6, <2>2, <2>3, <2>4 DEF TypeOK, VerifyRight
<1>7. ASSUME NEW t \in Txns, VerifyWrong(t)
      PROVE  TypeOK'
  <2>1. txn[t].fails < MaxFails
    BY <1>7 DEF ChallengeRows, VerifyWrong
  <2>2. txn[t].fails + 1 \in 0..MaxFails
    BY <2>1 DEF TypeOK, TxnRecord, MaxFails
  <2>3. txn' \in [Txns -> TxnRecord]
    <3> DEFINE st == IF txn[t].fails + 1 >= MaxFails THEN "failed" ELSE txn[t].status
    <3>1. st \in {"failed", "pending"}
      BY <1>7 DEF VerifyWrong
    <3> HIDE DEF st
    <3>2. [txn[t] EXCEPT !.fails = @ + 1, !.status = st] \in TxnRecord
      BY <2>2, <3>1 DEF TypeOK, TxnRecord
    <3>3. txn' = [txn EXCEPT ![t] = [txn[t] EXCEPT !.fails = @ + 1, !.status = st]]
      BY <1>7 DEF VerifyWrong, TypeOK, TxnRecord, st
    <3> QED  BY <3>2, <3>3 DEF TypeOK
  <2> QED  BY <1>7, <2>3 DEF TypeOK, VerifyWrong
<1>8. ASSUME NEW t \in Txns, ChallengeExpires(t)
      PROVE  TypeOK'
  <2>1. txn' \in [Txns -> TxnRecord]
    BY <1>8 DEF TypeOK, ChallengeExpires, TxnRecord
  <2> QED  BY <1>8, <2>1 DEF TypeOK, ChallengeExpires
<1>9. ASSUME NEW s \in Sids, Lapse(s) \/ Logout(s)
      PROVE  TypeOK'
  BY <1>9, OverTyped DEF TypeOK, Lapse, Logout
<1>10. ASSUME NEW s \in Sids, Refresh(s)
       PROVE  TypeOK'
  <2>1. sess' \in [Sids -> SessionRecord]
    BY <1>10, MaxGenAssumption DEF TypeOK, Refresh, SessionRecord
  <2> QED  BY <1>10, <2>1 DEF TypeOK, Refresh
<1>11. ASSUME NEW s \in Sids, LogoutAll(s)
       PROVE  TypeOK'
  BY <1>11, RevokeTyped DEF TypeOK, LogoutAll
<1>12. ASSUME NEW c \in Sids, NEW s \in Sids, RevokeSession(c, s)
       PROVE  TypeOK'
  BY <1>12, OverTyped DEF TypeOK, RevokeSession
<1>13. ASSUME NEW u \in Users, RequireMfa(u)
       PROVE  TypeOK'
  BY <1>13, RevokeTyped DEF TypeOK, RequireMfa, Overtake
<1>14. ASSUME NEW u \in Users, ForceLogout(u) \/ IamRoleChange(u)
       PROVE  TypeOK'
  BY <1>14, RevokeTyped DEF TypeOK, ForceLogout, IamRoleChange
<1>15. ASSUME NEW u \in Users, LockUser(u) \/ IamLock(u)
       PROVE  TypeOK'
  BY <1>15, RevokeTyped DEF TypeOK, LockUser, IamLock, Overtake, ForgetLate, Spare
<1>16. ASSUME NEW u \in Users, Register(u) \/ IamUnlock(u)
       PROVE  TypeOK'
  BY <1>16 DEF TypeOK, Register, IamUnlock
<1>17. ASSUME NEW u \in Users, NEW required \in BOOLEAN, IamToggleMfa(u, required)
       PROVE  TypeOK'
  BY <1>17, RevokeTyped DEF TypeOK, IamToggleMfa, Overtake, ForgetLate
<1>18. CASE UNCHANGED vars
  BY <1>18 DEF TypeOK, vars
<1> QED
  BY <1>1, <1>2, <1>3, <1>4, <1>5, <1>6, <1>7, <1>8, <1>9, <1>10, <1>11, <1>12,
     <1>13, <1>14, <1>15, <1>16, <1>17, <1>18
  DEF Next, LoginNext, VerifyNext, SessionNext, AdminNext

-----------------------------------------------------------------------------
(* The kinds of steps *)

(* Revoking an account's sessions ends its live ones and touches no other. *)
LEMMA RevokeEnds ==
    ASSUME TypeOK, SessionRows, NEW u \in Users, RevokeSessions(u)
    PROVE  /\ \A s \in Sids : sess'[s] = sess[s] \/ Ends(s)
           /\ \A s \in Sids : sess[s].user = u => sess'[s].state # "live"
BY DEF TypeOK, SessionRows, RevokeSessions, Ends, Live, SessionRecord

(* Ending one session is a step that only ends sessions.                   *)
LEMMA OverEnds ==
    ASSUME TypeOK, NEW s \in Sids, sess[s].state # "free",
           sess' = [sess EXCEPT ![s].state = "over"]
    PROVE  \A r \in Sids : sess'[r] = sess[r] \/ Ends(r)
BY DEF TypeOK, Ends, SessionRecord

(* What the bearer of a session can do, short of a refresh, is quiet.      *)
LEMMA QuietBearer ==
    ASSUME TypeOK, SessionRows, NEW s \in Sids,
           \/ Lapse(s) \/ Logout(s) \/ LogoutAll(s)
           \/ \E c \in Sids : RevokeSession(c, s)
    PROVE  Quiet
<1>1. UNCHANGED <<status, adminMfa, mfaOnce, txn, login, overtaken, late, spared>>
  BY DEF Lapse, Logout, LogoutAll, RevokeSession
<1>2. \A r \in Sids : sess'[r] = sess[r] \/ Ends(r)
  <2>1. CASE Lapse(s) \/ Logout(s)
    BY <2>1, OverEnds DEF Lapse, Logout, Usable, Live
  <2>2. CASE LogoutAll(s)
    <3>1. sess[s].user \in Users
      BY <2>2 DEF LogoutAll, Usable, Live, SessionRows
    <3> QED  BY <2>2, <3>1, RevokeEnds DEF LogoutAll
  <2>3. CASE \E c \in Sids : RevokeSession(c, s)
    BY <2>3, OverEnds DEF RevokeSession
  <2> QED  BY <2>1, <2>2, <2>3
<1> QED  BY <1>1, <1>2 DEF Quiet, LeftAlone, Locks, AsksAlways, AsksOnce

(* What Detection, the SOC and IAM can do is quiet.                        *)
LEMMA QuietAdmin ==
    ASSUME TypeOK, SessionRows, NEW u \in Users,
           \/ RequireMfa(u) \/ ForceLogout(u) \/ LockUser(u) \/ Register(u)
           \/ IamLock(u) \/ IamUnlock(u) \/ IamRoleChange(u)
           \/ \E required \in BOOLEAN : IamToggleMfa(u, required)
    PROVE  Quiet
<1> USE DEF Quiet, LeftAlone, Locks, AsksAlways, AsksOnce, TypeOK
<1>1. CASE RequireMfa(u)
  BY <1>1, RevokeEnds DEF RequireMfa, Overtake
<1>2. CASE ForceLogout(u) \/ IamRoleChange(u)
  BY <1>2, RevokeEnds DEF ForceLogout, IamRoleChange
<1>3. CASE LockUser(u) \/ IamLock(u)
  <2>1. \A v \in Users : LeftAlone(v) \/ LockedAfresh(v)
    <3>1. LockedAfresh(u)
      BY <1>3, RevokeEnds DEF LockUser, IamLock, Spare, LockedAfresh, Open
    <3>2. ASSUME NEW v \in Users, v # u PROVE LeftAlone(v)
      BY <1>3, <3>2 DEF LockUser, IamLock, Spare
    <3> QED  BY <3>1, <3>2
  <2>2. \A s \in late : s \in late' \/ sess'[s].state # "live"
    BY <1>3, RevokeEnds DEF LockUser, IamLock, ForgetLate
  <2> QED  BY <1>3, <2>1, <2>2, RevokeEnds DEF LockUser, IamLock, Overtake
<1>4. CASE Register(u) \/ IamUnlock(u)
  BY <1>4 DEF Register, IamUnlock
<1>5. ASSUME NEW required \in BOOLEAN, IamToggleMfa(u, required)
      PROVE  Quiet
  BY <1>5, RevokeEnds DEF IamToggleMfa, Overtake, ForgetLate
<1> QED  BY <1>1, <1>2, <1>3, <1>4, <1>5

(* Every step is of one of ten kinds, of which the last is quiet.          *)
LEMMA StepKinds ==
    ASSUME TypeOK, SessionRows, [Next]_vars
    PROVE  \/ \E p \in Peers, u \in Users : LoginStart(p, u)
           \/ \E p \in Peers, s \in Sids : LoginMint(p, s)
           \/ \E p \in Peers, t \in Txns, gated, countReset \in BOOLEAN :
                 LoginChallenge(p, t, gated, countReset)
           \/ \E p \in Peers : LoginChallengeSent(p)
           \/ Crash
           \/ \E t \in Txns, p \in Peers, s \in Sids : VerifyRight(t, p, s)
           \/ \E t \in Txns : VerifyWrong(t)
           \/ \E t \in Txns : ChallengeExpires(t)
           \/ \E s \in Sids : Refresh(s)
           \/ Quiet
<1>1. CASE UNCHANGED vars
  BY <1>1 DEF vars, Quiet, LeftAlone, Locks, AsksAlways, AsksOnce, TypeOK
<1>2. CASE Next
  BY <1>2, QuietBearer, QuietAdmin
  DEF Next, LoginNext, VerifyNext, SessionNext, AdminNext
<1> QED  BY <1>1, <1>2

-----------------------------------------------------------------------------
(* Each conjunct of IndInv is preserved *)

(* A quiet step changes nobody's session but to end it.                    *)
LEMMA QuietKeeps ==
    ASSUME TypeOK, Quiet
    PROVE  \A s \in Sids :
              /\ sess'[s].txn = sess[s].txn /\ sess'[s].user = sess[s].user
              /\ sess'[s].peer = sess[s].peer
              /\ sess'[s].state = "live" => sess[s].state = "live"
<1> SUFFICES ASSUME NEW s \in Sids
             PROVE  /\ sess'[s].txn = sess[s].txn /\ sess'[s].user = sess[s].user
                    /\ sess'[s].peer = sess[s].peer
                    /\ sess'[s].state = "live" => sess[s].state = "live"
  OBVIOUS
<1>1. sess[s] \in SessionRecord
  BY DEF TypeOK
<1>2. CASE sess'[s] = sess[s]
  BY <1>2
<1>3. CASE sess'[s] = [sess[s] EXCEPT !.state = "over"]
  BY <1>1, <1>3 DEF SessionRecord
<1> QED
  BY <1>2, <1>3 DEF Quiet, Ends

(* Every step keeps the rows of sessions consistent.                       *)
LEMMA SessionRowsStep ==
    ASSUME TypeOK, SessionRows, ChallengeRows, LoginRows, [Next]_vars
    PROVE  SessionRows'
<1> USE DEF TypeOK, SessionRows
<1>1. ASSUME NEW p \in Peers, NEW u \in Users, LoginStart(p, u)
      PROVE  SessionRows'
  BY <1>1 DEF LoginStart
<1>2. ASSUME NEW p \in Peers, NEW s \in Sids, LoginMint(p, s)
      PROVE  SessionRows'
  BY <1>2 DEF LoginMint, Mint, LoginRows
<1>3. ASSUME NEW p \in Peers, NEW t \in Txns, NEW gated \in BOOLEAN,
             NEW countReset \in BOOLEAN,
             LoginChallenge(p, t, gated, countReset)
      PROVE  SessionRows'
  BY <1>3 DEF LoginChallenge
<1>4. ASSUME NEW p \in Peers, LoginChallengeSent(p)
      PROVE  SessionRows'
  BY <1>4 DEF LoginChallengeSent
<1>5. CASE Crash
  BY <1>5 DEF Crash
<1>6. ASSUME NEW t \in Txns, NEW p \in Peers, NEW s \in Sids,
             VerifyRight(t, p, s)
      PROVE  SessionRows'
  BY <1>6 DEF VerifyRight, Mint, ChallengeRows
<1>7. ASSUME NEW t \in Txns, VerifyWrong(t)
      PROVE  SessionRows'
  BY <1>7 DEF VerifyWrong
<1>8. ASSUME NEW t \in Txns, ChallengeExpires(t)
      PROVE  SessionRows'
  BY <1>8 DEF ChallengeExpires
<1>9. ASSUME NEW s \in Sids, Refresh(s)
      PROVE  SessionRows'
  BY <1>9 DEF Refresh, SessionRecord
<1>10. CASE Quiet
  BY <1>10 DEF Quiet, Ends, SessionRecord
<1> QED
  BY <1>1, <1>2, <1>3, <1>4, <1>5, <1>6, <1>7, <1>8, <1>9, <1>10, StepKinds

(* Every step keeps the rows of challenges consistent.                     *)
LEMMA ChallengeRowsStep ==
    ASSUME TypeOK, SessionRows, ChallengeRows, LoginRows, [Next]_vars
    PROVE  ChallengeRows'
<1> USE DEF TypeOK, ChallengeRows
<1>1. ASSUME NEW p \in Peers, NEW u \in Users, LoginStart(p, u)
      PROVE  ChallengeRows'
  BY <1>1 DEF LoginStart
<1>2. ASSUME NEW p \in Peers, NEW s \in Sids, LoginMint(p, s)
      PROVE  ChallengeRows'
  BY <1>2 DEF LoginMint
<1>3. ASSUME NEW p \in Peers, NEW t \in Txns, NEW gated \in BOOLEAN,
             NEW countReset \in BOOLEAN,
             LoginChallenge(p, t, gated, countReset)
      PROVE  ChallengeRows'
  BY <1>3 DEF LoginChallenge, LoginRows, MaxFails
<1>4. ASSUME NEW p \in Peers, LoginChallengeSent(p)
      PROVE  ChallengeRows'
  BY <1>4 DEF LoginChallengeSent, LoginRows, TxnRecord
<1>5. CASE Crash
  BY <1>5 DEF Crash, NoTxn, MaxFails
<1>6. ASSUME NEW t \in Txns, NEW p \in Peers, NEW s \in Sids,
             VerifyRight(t, p, s)
      PROVE  ChallengeRows'
  BY <1>6 DEF VerifyRight, TxnRecord
<1>7. ASSUME NEW t \in Txns, VerifyWrong(t)
      PROVE  ChallengeRows'
  BY <1>7 DEF VerifyWrong, TxnRecord, MaxFails
<1>8. ASSUME NEW t \in Txns, ChallengeExpires(t)
      PROVE  ChallengeRows'
  BY <1>8 DEF ChallengeExpires, TxnRecord
<1>9. ASSUME NEW s \in Sids, Refresh(s)
      PROVE  ChallengeRows'
  BY <1>9 DEF Refresh
<1>10. CASE Quiet
  BY <1>10 DEF Quiet
<1> QED
  BY <1>1, <1>2, <1>3, <1>4, <1>5, <1>6, <1>7, <1>8, <1>9, <1>10, StepKinds

(* A login that waits for the mail server keeps its own unsent challenge.  *)
LEMMA LoginRowsStep ==
    ASSUME TypeOK, SessionRows, ChallengeRows, LoginRows, [Next]_vars
    PROVE  LoginRows'
<1> USE DEF TypeOK, LoginRows
<1>1. ASSUME NEW p \in Peers, NEW u \in Users, LoginStart(p, u)
      PROVE  LoginRows'
  BY <1>1 DEF LoginStart, LoginRecord, NoLogin
<1>2. ASSUME NEW p \in Peers, NEW s \in Sids, LoginMint(p, s)
      PROVE  LoginRows'
  BY <1>2 DEF LoginMint, NoLogin
<1>3. ASSUME NEW p \in Peers, NEW t \in Txns, NEW gated \in BOOLEAN,
             NEW countReset \in BOOLEAN,
             LoginChallenge(p, t, gated, countReset)
      PROVE  LoginRows'
  BY <1>3 DEF LoginChallenge, LoginRecord, NoLogin
<1>4. ASSUME NEW p \in Peers, LoginChallengeSent(p)
      PROVE  LoginRows'
  BY <1>4 DEF LoginChallengeSent, TxnRecord, NoLogin
<1>5. CASE Crash
  BY <1>5 DEF Crash, NoLogin
<1>6. ASSUME NEW t \in Txns, NEW p \in Peers, NEW s \in Sids,
             VerifyRight(t, p, s)
      PROVE  LoginRows'
  BY <1>6 DEF VerifyRight, TxnRecord
<1>7. ASSUME NEW t \in Txns, VerifyWrong(t)
      PROVE  LoginRows'
  BY <1>7 DEF VerifyWrong, TxnRecord
<1>8. ASSUME NEW t \in Txns, ChallengeExpires(t)
      PROVE  LoginRows'
  BY <1>8 DEF ChallengeExpires, TxnRecord
<1>9. ASSUME NEW s \in Sids, Refresh(s)
      PROVE  LoginRows'
  BY <1>9 DEF Refresh
<1>10. CASE Quiet
  BY <1>10 DEF Quiet
<1> QED
  BY <1>1, <1>2, <1>3, <1>4, <1>5, <1>6, <1>7, <1>8, <1>9, <1>10, StepKinds

(* No step mints twice from a challenge, or completes one for nothing.     *)
LEMMA OneSessionStep ==
    ASSUME TypeOK, SessionRows, LoginRows, OneSessionPerChallenge,
           [Next]_vars
    PROVE  OneSessionPerChallenge'
<1> USE DEF TypeOK, OneSessionPerChallenge, MintedFrom
<1>1. ASSUME NEW p \in Peers, NEW u \in Users, LoginStart(p, u)
      PROVE  OneSessionPerChallenge'
  BY <1>1 DEF LoginStart
<1>2. ASSUME NEW p \in Peers, NEW s \in Sids, LoginMint(p, s)
      PROVE  OneSessionPerChallenge'
  BY <1>2, NoneAssumption DEF LoginMint, Mint, SessionRows
<1>3. ASSUME NEW p \in Peers, NEW t \in Txns, NEW gated \in BOOLEAN,
             NEW countReset \in BOOLEAN,
             LoginChallenge(p, t, gated, countReset)
      PROVE  OneSessionPerChallenge'
  BY <1>3 DEF LoginChallenge
<1>4. ASSUME NEW p \in Peers, LoginChallengeSent(p)
      PROVE  OneSessionPerChallenge'
  BY <1>4 DEF LoginChallengeSent, LoginRows, TxnRecord
<1>5. CASE Crash
  BY <1>5 DEF Crash, NoTxn
<1>6. ASSUME NEW t \in Txns, NEW p \in Peers, NEW s \in Sids,
             VerifyRight(t, p, s)
      PROVE  OneSessionPerChallenge'
  BY <1>6, NoneAssumption DEF VerifyRight, Mint, SessionRows, TxnRecord
<1>7. ASSUME NEW t \in Txns, VerifyWrong(t)
      PROVE  OneSessionPerChallenge'
  BY <1>7 DEF VerifyWrong, TxnRecord
<1>8. ASSUME NEW t \in Txns, ChallengeExpires(t)
      PROVE  OneSessionPerChallenge'
  BY <1>8 DEF ChallengeExpires, TxnRecord
<1>9. ASSUME NEW s \in Sids, Refresh(s)
      PROVE  OneSessionPerChallenge'
  BY <1>9 DEF Refresh, SessionRecord
<1>10. CASE Quiet
  BY <1>10, QuietKeeps DEF Quiet
<1> QED
  BY <1>1, <1>2, <1>3, <1>4, <1>5, <1>6, <1>7, <1>8, <1>9, <1>10, StepKinds

(* No step gives a session to another account or address than its          *)
(* challenge's.                                                            *)
LEMMA MatchStep ==
    ASSUME TypeOK, SessionRows, ChallengeRows, LoginRows,
           OneSessionPerChallenge, SessionMatchesChallenge, [Next]_vars
    PROVE  SessionMatchesChallenge'
<1> USE DEF TypeOK, SessionMatchesChallenge
<1>1. ASSUME NEW p \in Peers, NEW u \in Users, LoginStart(p, u)
      PROVE  SessionMatchesChallenge'
  BY <1>1 DEF LoginStart
<1>2. ASSUME NEW p \in Peers, NEW s \in Sids, LoginMint(p, s)
      PROVE  SessionMatchesChallenge'
  BY <1>2, NoneAssumption DEF LoginMint, Mint
<1>3. ASSUME NEW p \in Peers, NEW t \in Txns, NEW gated \in BOOLEAN,
             NEW countReset \in BOOLEAN,
             LoginChallenge(p, t, gated, countReset)
      PROVE  SessionMatchesChallenge'
  BY <1>3 DEF LoginChallenge, OneSessionPerChallenge, MintedFrom, SessionRecord
<1>4. ASSUME NEW p \in Peers, LoginChallengeSent(p)
      PROVE  SessionMatchesChallenge'
  BY <1>4 DEF LoginChallengeSent, LoginRows, TxnRecord, OneSessionPerChallenge, MintedFrom, SessionRecord
<1>5. CASE Crash
  BY <1>5 DEF Crash, NoTxn, OneSessionPerChallenge, MintedFrom, SessionRecord
<1>6. ASSUME NEW t \in Txns, NEW p \in Peers, NEW s \in Sids,
             VerifyRight(t, p, s)
      PROVE  SessionMatchesChallenge'
  BY <1>6, NoneAssumption DEF VerifyRight, Mint, ChallengeRows, TxnRecord, SessionRecord, OneSessionPerChallenge, MintedFrom
<1>7. ASSUME NEW t \in Txns, VerifyWrong(t)
      PROVE  SessionMatchesChallenge'
  <2>1. \A r \in Txns : /\ txn'[r].user = txn[r].user /\ txn'[r].bound = txn[r].bound
                        /\ r # t => txn'[r].fails = txn[r].fails
    BY <1>7 DEF VerifyWrong, TxnRecord
  <2>2. \A s \in Sids : sess'[s] = sess[s] /\ sess[s].txn # t
    BY <1>7 DEF VerifyWrong, OneSessionPerChallenge, MintedFrom
  <2> QED  BY <2>1, <2>2 DEF SessionRecord
<1>8. ASSUME NEW t \in Txns, ChallengeExpires(t)
      PROVE  SessionMatchesChallenge'
  BY <1>8 DEF ChallengeExpires, TxnRecord, SessionRecord
<1>9. ASSUME NEW s \in Sids, Refresh(s)
      PROVE  SessionMatchesChallenge'
  BY <1>9 DEF Refresh, SessionRecord
<1>10. CASE Quiet
  BY <1>10, QuietKeeps DEF Quiet
<1> QED
  BY <1>1, <1>2, <1>3, <1>4, <1>5, <1>6, <1>7, <1>8, <1>9, <1>10, StepKinds

(* No step makes an account stricter behind a login at the gate unmarked.  *)
LEMMA InFlightStep ==
    ASSUME TypeOK, SessionRows, LoginRows, InFlightReadIsCurrent,
           [Next]_vars
    PROVE  InFlightReadIsCurrent'
<1> USE DEF TypeOK, InFlightReadIsCurrent, LoginRows
<1>1. ASSUME NEW p \in Peers, NEW u \in Users, LoginStart(p, u)
      PROVE  InFlightReadIsCurrent'
  BY <1>1 DEF LoginStart, LoginRecord, NoLogin
<1>2. ASSUME NEW p \in Peers, NEW s \in Sids, LoginMint(p, s)
      PROVE  InFlightReadIsCurrent'
  BY <1>2 DEF LoginMint, NoLogin
<1>3. ASSUME NEW p \in Peers, NEW t \in Txns, NEW gated \in BOOLEAN,
             NEW countReset \in BOOLEAN,
             LoginChallenge(p, t, gated, countReset)
      PROVE  InFlightReadIsCurrent'
  BY <1>3 DEF LoginChallenge, LoginRecord, NoLogin
<1>4. ASSUME NEW p \in Peers, LoginChallengeSent(p)
      PROVE  InFlightReadIsCurrent'
  BY <1>4 DEF LoginChallengeSent, Overtake, NoLogin
<1>5. CASE Crash
  BY <1>5 DEF Crash, NoLogin
<1>6. ASSUME NEW t \in Txns, NEW p \in Peers, NEW s \in Sids,
             VerifyRight(t, p, s)
      PROVE  InFlightReadIsCurrent'
  BY <1>6 DEF VerifyRight
<1>7. ASSUME NEW t \in Txns, VerifyWrong(t)
      PROVE  InFlightReadIsCurrent'
  BY <1>7 DEF VerifyWrong
<1>8. ASSUME NEW t \in Txns, ChallengeExpires(t)
      PROVE  InFlightReadIsCurrent'
  BY <1>8 DEF ChallengeExpires
<1>9. ASSUME NEW s \in Sids, Refresh(s)
      PROVE  InFlightReadIsCurrent'
  BY <1>9 DEF Refresh
<1>10. CASE Quiet
  BY <1>10 DEF Quiet, Locks, AsksAlways, AsksOnce
<1> QED
  BY <1>1, <1>2, <1>3, <1>4, <1>5, <1>6, <1>7, <1>8, <1>9, <1>10, StepKinds

(* No step leaves a laxer session alive under persistent MFA.              *)
LEMMA PersistentMfaStep ==
    ASSUME TypeOK, SessionRows, LoginRows, ChallengeRows,
           InFlightReadIsCurrent, PersistentMfaCoversSessions, [Next]_vars
    PROVE  PersistentMfaCoversSessions'
<1> USE DEF TypeOK, PersistentMfaCoversSessions, SessionRows, Live
<1>1. ASSUME NEW p \in Peers, NEW u \in Users, LoginStart(p, u)
      PROVE  PersistentMfaCoversSessions'
  BY <1>1 DEF LoginStart
<1>2. ASSUME NEW p \in Peers, NEW s \in Sids, LoginMint(p, s)
      PROVE  PersistentMfaCoversSessions'
  BY <1>2 DEF LoginMint, Mint, LoginRows, InFlightReadIsCurrent
<1>3. ASSUME NEW p \in Peers, NEW t \in Txns, NEW gated \in BOOLEAN,
             NEW countReset \in BOOLEAN,
             LoginChallenge(p, t, gated, countReset)
      PROVE  PersistentMfaCoversSessions'
  BY <1>3 DEF LoginChallenge
<1>4. ASSUME NEW p \in Peers, LoginChallengeSent(p)
      PROVE  PersistentMfaCoversSessions'
  BY <1>4 DEF LoginChallengeSent
<1>5. CASE Crash
  BY <1>5 DEF Crash
<1>6. ASSUME NEW t \in Txns, NEW p \in Peers, NEW s \in Sids,
             VerifyRight(t, p, s)
      PROVE  PersistentMfaCoversSessions'
  BY <1>6, NoneAssumption DEF VerifyRight, Mint
<1>7. ASSUME NEW t \in Txns, VerifyWrong(t)
      PROVE  PersistentMfaCoversSessions'
  BY <1>7 DEF VerifyWrong
<1>8. ASSUME NEW t \in Txns, ChallengeExpires(t)
      PROVE  PersistentMfaCoversSessions'
  BY <1>8 DEF ChallengeExpires
<1>9. ASSUME NEW s \in Sids, Refresh(s)
      PROVE  PersistentMfaCoversSessions'
  BY <1>9 DEF Refresh, SessionRecord
<1>10. CASE Quiet
  BY <1>10, QuietKeeps DEF Quiet, AsksAlways
<1> QED
  BY <1>1, <1>2, <1>3, <1>4, <1>5, <1>6, <1>7, <1>8, <1>9, <1>10, StepKinds

(* No step leaves a challenge of a locked account open and unmarked.       *)
LEMMA SparedStep ==
    ASSUME TypeOK, SessionRows, LoginRows, ChallengeRows,
           InFlightReadIsCurrent, OpenChallengesAreSpared, [Next]_vars
    PROVE  OpenChallengesAreSpared'
<1> USE DEF TypeOK, OpenChallengesAreSpared, ChallengeRows
<1>1. ASSUME NEW p \in Peers, NEW u \in Users, LoginStart(p, u)
      PROVE  OpenChallengesAreSpared'
  BY <1>1 DEF LoginStart
<1>2. ASSUME NEW p \in Peers, NEW s \in Sids, LoginMint(p, s)
      PROVE  OpenChallengesAreSpared'
  BY <1>2 DEF LoginMint
<1>3. ASSUME NEW p \in Peers, NEW t \in Txns, NEW gated \in BOOLEAN,
             NEW countReset \in BOOLEAN,
             LoginChallenge(p, t, gated, countReset)
      PROVE  OpenChallengesAreSpared'
  BY <1>3 DEF LoginChallenge, InFlightReadIsCurrent
<1>4. ASSUME NEW p \in Peers, LoginChallengeSent(p)
      PROVE  OpenChallengesAreSpared'
  BY <1>4 DEF LoginChallengeSent, LoginRows, TxnRecord
<1>5. CASE Crash
  BY <1>5 DEF Crash, NoTxn
<1>6. ASSUME NEW t \in Txns, NEW p \in Peers, NEW s \in Sids,
             VerifyRight(t, p, s)
      PROVE  OpenChallengesAreSpared'
  BY <1>6 DEF VerifyRight, TxnRecord
<1>7. ASSUME NEW t \in Txns, VerifyWrong(t)
      PROVE  OpenChallengesAreSpared'
  BY <1>7 DEF VerifyWrong, TxnRecord
<1>8. ASSUME NEW t \in Txns, ChallengeExpires(t)
      PROVE  OpenChallengesAreSpared'
  BY <1>8 DEF ChallengeExpires, TxnRecord
<1>9. ASSUME NEW s \in Sids, Refresh(s)
      PROVE  OpenChallengesAreSpared'
  BY <1>9 DEF Refresh
<1>10. CASE Quiet
  <2> SUFFICES ASSUME NEW t \in Txns, Open(t), status'[txn[t].user] = "locked"
               PROVE  t \in spared'
    BY <1>10 DEF Quiet, Open
  <2>1. txn[t].user \in Users
    BY DEF Open
  <2>2. CASE LeftAlone(txn[t].user)
    BY <2>2 DEF LeftAlone, Open
  <2>3. CASE LockedAfresh(txn[t].user)
    BY <2>3 DEF LockedAfresh
  <2> QED  BY <1>10, <2>1, <2>2, <2>3 DEF Quiet
<1> QED
  BY <1>1, <1>2, <1>3, <1>4, <1>5, <1>6, <1>7, <1>8, <1>9, <1>10, StepKinds

(* No step leaves a session alive on a locked account that its lock could  *)
(* have ended.                                                             *)
LEMMA LockedStep ==
    ASSUME TypeOK, SessionRows, LoginRows, ChallengeRows,
           OneSessionPerChallenge, SessionMatchesChallenge, InFlightReadIsCurrent,
           OpenChallengesAreSpared, LockedAccountKeepsNoSession, [Next]_vars
    PROVE  LockedAccountKeepsNoSession'
<1> USE DEF TypeOK, LockedAccountKeepsNoSession, SessionRows, Live
<1>1. ASSUME NEW p \in Peers, NEW u \in Users, LoginStart(p, u)
      PROVE  LockedAccountKeepsNoSession'
  BY <1>1 DEF LoginStart
<1>2. ASSUME NEW p \in Peers, NEW s \in Sids, LoginMint(p, s)
      PROVE  LockedAccountKeepsNoSession'
  BY <1>2 DEF LoginMint, Mint, LoginRows, InFlightReadIsCurrent
<1>3. ASSUME NEW p \in Peers, NEW t \in Txns, NEW gated \in BOOLEAN,
             NEW countReset \in BOOLEAN,
             LoginChallenge(p, t, gated, countReset)
      PROVE  LockedAccountKeepsNoSession'
  BY <1>3 DEF LoginChallenge
<1>4. ASSUME NEW p \in Peers, LoginChallengeSent(p)
      PROVE  LockedAccountKeepsNoSession'
  BY <1>4 DEF LoginChallengeSent
<1>5. CASE Crash
  BY <1>5 DEF Crash, OneSessionPerChallenge, MintedFrom
<1>6. ASSUME NEW t \in Txns, NEW p \in Peers, NEW s \in Sids,
             VerifyRight(t, p, s)
      PROVE  LockedAccountKeepsNoSession'
  BY <1>6 DEF VerifyRight, Mint, ChallengeRows, OpenChallengesAreSpared
<1>7. ASSUME NEW t \in Txns, VerifyWrong(t)
      PROVE  LockedAccountKeepsNoSession'
  BY <1>7 DEF VerifyWrong
<1>8. ASSUME NEW t \in Txns, ChallengeExpires(t)
      PROVE  LockedAccountKeepsNoSession'
  BY <1>8 DEF ChallengeExpires
<1>9. ASSUME NEW s \in Sids, Refresh(s)
      PROVE  LockedAccountKeepsNoSession'
  BY <1>9 DEF Refresh, SessionRecord
<1>10. CASE Quiet
  <2> SUFFICES ASSUME NEW s \in Sids, sess'[s].state = "live",
                      status'[sess'[s].user] = "locked"
               PROVE  s \in late' \/ sess'[s].txn \in spared'
    OBVIOUS
  <2>1. /\ sess[s].state = "live" /\ sess'[s].user = sess[s].user
        /\ sess'[s].txn = sess[s].txn /\ sess[s].user \in Users
    BY <1>10, QuietKeeps
  <2>2. LeftAlone(sess[s].user)
    BY <1>10, <2>1 DEF Quiet, LockedAfresh
  <2>3. s \in late \/ sess[s].txn \in spared
    BY <2>1, <2>2 DEF LeftAlone
  <2>4. CASE s \in late
    BY <1>10, <2>4 DEF Quiet
  <2>5. CASE sess[s].txn \in spared
    <3>1. txn[sess[s].txn].user = sess[s].user
      BY <2>5, NoneAssumption DEF SessionMatchesChallenge
    <3> QED  BY <2>1, <2>2, <2>5, <3>1 DEF LeftAlone
  <2> QED  BY <2>3, <2>4, <2>5
<1> QED
  BY <1>1, <1>2, <1>3, <1>4, <1>5, <1>6, <1>7, <1>8, <1>9, <1>10, StepKinds

(* A completed one-time challenge stays completed, and its account's.      *)
LEMMA CompletedStays ==
    ASSUME TypeOK, SessionRows, LoginRows, [Next]_vars, NEW u \in Users, OneTimeCompleted(u)
    PROVE  OneTimeCompleted(u)'
<1> USE DEF TypeOK, OneTimeCompleted
<1>1. ASSUME NEW p \in Peers, NEW v \in Users, LoginStart(p, v)
      PROVE  OneTimeCompleted(u)'
  BY <1>1 DEF LoginStart
<1>2. ASSUME NEW p \in Peers, NEW s \in Sids, LoginMint(p, s)
      PROVE  OneTimeCompleted(u)'
  BY <1>2 DEF LoginMint
<1>3. ASSUME NEW p \in Peers, NEW t \in Txns, NEW gated \in BOOLEAN,
             NEW countReset \in BOOLEAN,
             LoginChallenge(p, t, gated, countReset)
      PROVE  OneTimeCompleted(u)'
  BY <1>3 DEF LoginChallenge
<1>4. ASSUME NEW p \in Peers, LoginChallengeSent(p)
      PROVE  OneTimeCompleted(u)'
  BY <1>4 DEF LoginChallengeSent, LoginRows, TxnRecord
<1>5. CASE Crash
  BY <1>5 DEF Crash
<1>6. ASSUME NEW t \in Txns, NEW p \in Peers, NEW s \in Sids,
             VerifyRight(t, p, s)
      PROVE  OneTimeCompleted(u)'
  BY <1>6 DEF VerifyRight, TxnRecord
<1>7. ASSUME NEW t \in Txns, VerifyWrong(t)
      PROVE  OneTimeCompleted(u)'
  BY <1>7 DEF VerifyWrong, TxnRecord
<1>8. ASSUME NEW t \in Txns, ChallengeExpires(t)
      PROVE  OneTimeCompleted(u)'
  BY <1>8 DEF ChallengeExpires, TxnRecord
<1>9. ASSUME NEW s \in Sids, Refresh(s)
      PROVE  OneTimeCompleted(u)'
  BY <1>9 DEF Refresh
<1>10. CASE Quiet
  BY <1>10 DEF Quiet
<1> QED
  BY <1>1, <1>2, <1>3, <1>4, <1>5, <1>6, <1>7, <1>8, <1>9, <1>10, StepKinds

(* What login has read of Detection's demand stays justified while it      *)
(* waits.                                                                  *)
LEMMA OnceReadStep ==
    ASSUME TypeOK, SessionRows, ChallengeRows, LoginRows,
           OnceReadIsDemanded, [Next]_vars
    PROVE  OnceReadIsDemanded'
<1> USE DEF TypeOK, OnceReadIsDemanded, LoginRows
<1>1. ASSUME NEW p \in Peers, NEW u \in Users, LoginStart(p, u)
      PROVE  OnceReadIsDemanded'
  BY <1>1, CompletedStays DEF LoginStart, LoginRecord, NoLogin
<1>2. ASSUME NEW p \in Peers, NEW s \in Sids, LoginMint(p, s)
      PROVE  OnceReadIsDemanded'
  BY <1>2, CompletedStays DEF LoginMint, NoLogin
<1>3. ASSUME NEW p \in Peers, NEW t \in Txns, NEW gated \in BOOLEAN,
             NEW countReset \in BOOLEAN,
             LoginChallenge(p, t, gated, countReset)
      PROVE  OnceReadIsDemanded'
  BY <1>3, CompletedStays DEF LoginChallenge, LoginRecord, NoLogin
<1>4. ASSUME NEW p \in Peers, LoginChallengeSent(p)
      PROVE  OnceReadIsDemanded'
  BY <1>4, CompletedStays DEF LoginChallengeSent, TxnRecord, NoLogin
<1>5. CASE Crash
  BY <1>5 DEF Crash, NoLogin
<1>6. ASSUME NEW t \in Txns, NEW p \in Peers, NEW s \in Sids,
             VerifyRight(t, p, s)
      PROVE  OnceReadIsDemanded'
  <2>1. txn'[t].status = "completed" /\ \A r \in Txns : /\ txn'[r].type = txn[r].type
                                                         /\ txn'[r].user = txn[r].user
    BY <1>6 DEF VerifyRight, TxnRecord
  <2>2. ASSUME NEW u \in Users, mfaOnce[u]
        PROVE  mfaOnce'[u] \/ OneTimeCompleted(u)'
    BY <1>6, <2>1, <2>2 DEF VerifyRight, OneTimeCompleted
  <2> QED  BY <1>6, <2>1, <2>2, CompletedStays DEF VerifyRight
<1>7. ASSUME NEW t \in Txns, VerifyWrong(t)
      PROVE  OnceReadIsDemanded'
  BY <1>7, CompletedStays DEF VerifyWrong, TxnRecord
<1>8. ASSUME NEW t \in Txns, ChallengeExpires(t)
      PROVE  OnceReadIsDemanded'
  BY <1>8, CompletedStays DEF ChallengeExpires, TxnRecord
<1>9. ASSUME NEW s \in Sids, Refresh(s)
      PROVE  OnceReadIsDemanded'
  BY <1>9, CompletedStays DEF Refresh
<1>10. CASE Quiet
  BY <1>10, CompletedStays DEF Quiet
<1> QED
  BY <1>1, <1>2, <1>3, <1>4, <1>5, <1>6, <1>7, <1>8, <1>9, <1>10, StepKinds

(* No step withdraws the demand behind an outstanding challenge but an     *)
(* OTP.                                                                    *)
LEMMA OutstandingStep ==
    ASSUME TypeOK, SessionRows, ChallengeRows, LoginRows,
           OnceReadIsDemanded, OutstandingChallengeIsDemanded, [Next]_vars
    PROVE  OutstandingChallengeIsDemanded'
<1> USE DEF TypeOK, OutstandingChallengeIsDemanded, ChallengeRows
<1>1. ASSUME NEW p \in Peers, NEW u \in Users, LoginStart(p, u)
      PROVE  OutstandingChallengeIsDemanded'
  BY <1>1, CompletedStays DEF LoginStart
<1>2. ASSUME NEW p \in Peers, NEW s \in Sids, LoginMint(p, s)
      PROVE  OutstandingChallengeIsDemanded'
  BY <1>2, CompletedStays DEF LoginMint
<1>3. ASSUME NEW p \in Peers, NEW t \in Txns, NEW gated \in BOOLEAN,
             NEW countReset \in BOOLEAN,
             LoginChallenge(p, t, gated, countReset)
      PROVE  OutstandingChallengeIsDemanded'
  BY <1>3, CompletedStays DEF LoginChallenge
<1>4. ASSUME NEW p \in Peers, LoginChallengeSent(p)
      PROVE  OutstandingChallengeIsDemanded'
  BY <1>4, CompletedStays DEF LoginChallengeSent, TxnRecord, LoginRows, OnceReadIsDemanded
<1>5. CASE Crash
  BY <1>5, CompletedStays DEF Crash, NoTxn
<1>6. ASSUME NEW t \in Txns, NEW p \in Peers, NEW s \in Sids,
             VerifyRight(t, p, s)
      PROVE  OutstandingChallengeIsDemanded'
  BY <1>6, CompletedStays DEF VerifyRight, OneTimeCompleted, TxnRecord
<1>7. ASSUME NEW t \in Txns, VerifyWrong(t)
      PROVE  OutstandingChallengeIsDemanded'
  BY <1>7, CompletedStays DEF VerifyWrong, TxnRecord
<1>8. ASSUME NEW t \in Txns, ChallengeExpires(t)
      PROVE  OutstandingChallengeIsDemanded'
  BY <1>8, CompletedStays DEF ChallengeExpires, TxnRecord
<1>9. ASSUME NEW s \in Sids, Refresh(s)
      PROVE  OutstandingChallengeIsDemanded'
  BY <1>9, CompletedStays DEF Refresh
<1>10. CASE Quiet
  BY <1>10, CompletedStays DEF Quiet
<1> QED
  BY <1>1, <1>2, <1>3, <1>4, <1>5, <1>6, <1>7, <1>8, <1>9, <1>10, StepKinds

-----------------------------------------------------------------------------
(* The theorems *)

(* The inductive invariant holds of a fresh database.                      *)
LEMMA InitIndInv ==
    Init => IndInv
<1> SUFFICES ASSUME Init PROVE IndInv
  OBVIOUS
<1>1. TypeOK
  BY MaxGenAssumption
  DEF Init, TypeOK, SessionRecord, TxnRecord, LoginRecord, NoSession, NoTxn,
      NoLogin, MaxFails, Peers
<1>2. SessionRows /\ ChallengeRows /\ LoginRows
  BY DEF Init, SessionRows, ChallengeRows, LoginRows, NoSession, NoTxn, NoLogin,
         MaxFails
<1>3. OneSessionPerChallenge /\ SessionMatchesChallenge
  BY NoneAssumption
  DEF Init, OneSessionPerChallenge, MintedFrom, SessionMatchesChallenge,
      NoSession, NoTxn
<1>4. InFlightReadIsCurrent /\ OnceReadIsDemanded /\ OpenChallengesAreSpared
  BY DEF Init, InFlightReadIsCurrent, OnceReadIsDemanded, OpenChallengesAreSpared,
         NoLogin, NoTxn
<1>5. PersistentMfaCoversSessions /\ LockedAccountKeepsNoSession
  BY DEF Init, PersistentMfaCoversSessions, LockedAccountKeepsNoSession, Live,
         NoSession
<1>6. OutstandingChallengeIsDemanded
  BY DEF Init, OutstandingChallengeIsDemanded, NoTxn
<1> QED
  BY <1>1, <1>2, <1>3, <1>4, <1>5, <1>6 DEF IndInv

(* And every step preserves it.                                            *)
LEMMA StepIndInv ==
    IndInv /\ [Next]_vars => IndInv'
<1> SUFFICES ASSUME IndInv, [Next]_vars PROVE IndInv'
  OBVIOUS
<1>1. TypeOK'
  BY TypeStep DEF IndInv
<1>2. SessionRows' /\ ChallengeRows' /\ LoginRows'
  BY SessionRowsStep, ChallengeRowsStep, LoginRowsStep DEF IndInv
<1>3. OneSessionPerChallenge' /\ SessionMatchesChallenge'
  BY OneSessionStep, MatchStep DEF IndInv
<1>4. InFlightReadIsCurrent' /\ OnceReadIsDemanded' /\ OpenChallengesAreSpared'
  BY InFlightStep, OnceReadStep, SparedStep DEF IndInv
<1>5. PersistentMfaCoversSessions' /\ LockedAccountKeepsNoSession'
  BY PersistentMfaStep, LockedStep DEF IndInv
<1>6. OutstandingChallengeIsDemanded'
  BY OutstandingStep DEF IndInv
<1> QED
  BY <1>1, <1>2, <1>3, <1>4, <1>5, <1>6 DEF IndInv

(* Every reachable state satisfies the inductive invariant.                *)
THEOREM Invariance == Spec => []IndInv
<1>1. Init => IndInv
  BY InitIndInv
<1>2. IndInv /\ [Next]_vars => IndInv'
  BY StepIndInv
<1> QED
  BY <1>1, <1>2, PTL DEF Spec

(* Type correctness: no handler leaves a row outside its column's range.   *)
THEOREM TypeCorrect == Spec => []TypeOK
<1>1. IndInv => TypeOK
  BY DEF IndInv
<1> QED
  BY <1>1, Invariance, PTL

(* mfa_verify spends a challenge on one session.                           *)
THEOREM OtpConsumedOnce == Spec => []OneSessionPerChallenge
<1>1. IndInv => OneSessionPerChallenge
  BY DEF IndInv
<1> QED
  BY <1>1, Invariance, PTL

(* That session is of the account and the address the challenge was issued *)
(* for, and a guess was left.                                              *)
THEOREM OtpIsBound == Spec => []SessionMatchesChallenge
<1>1. IndInv => SessionMatchesChallenge
  BY DEF IndInv
<1> QED
  BY <1>1, Invariance, PTL

(* Under persistent MFA a live session has passed an OTP, or was minted    *)
(* since by a login that read the account before and waited at the gate.   *)
THEOREM ClampdownHolds == Spec => []PersistentMfaCoversSessions
<1>1. IndInv => PersistentMfaCoversSessions
  BY DEF IndInv
<1> QED
  BY <1>1, Invariance, PTL

(* A lock ends every session the account has: one that lives while it is   *)
(* locked was minted since, by a login that the lock overtook, or from a   *)
(* challenge that was out at the lock or that such a login has issued.     *)
THEOREM LockHolds == Spec => []LockedAccountKeepsNoSession
<1>1. IndInv => LockedAccountKeepsNoSession
  BY DEF IndInv
<1> QED
  BY <1>1, Invariance, PTL

(* An outstanding one-time challenge is still demanded, or another one of  *)
(* its account has been completed.                                         *)
THEOREM DemandNotLost == Spec => []OutstandingChallengeIsDemanded
<1>1. IndInv => OutstandingChallengeIsDemanded
  BY DEF IndInv
<1> QED
  BY <1>1, Invariance, PTL

(* Detection's demand is withdrawn only by an OTP that mints a session.    *)
THEOREM WithdrawnOnlyByOtp == Spec => DemandWithdrawnByOtp
<1> DEFINE A == \A u \in Users : mfaOnce[u] /\ ~mfaOnce'[u] =>
                  \E t \in Txns, s \in Sids :
                      /\ txn[t].user = u /\ txn[t].type = "one_time"
                      /\ txn[t].status = "pending" /\ txn'[t].status = "completed"
                      /\ sess[s].state = "free" /\ sess'[s].txn = t
<1>1. IndInv /\ [Next]_vars => [A]_vars
  <2> SUFFICES ASSUME IndInv, [Next]_vars, NEW u \in Users, mfaOnce[u], ~mfaOnce'[u]
               PROVE  \E t \in Txns, s \in Sids :
                         /\ txn[t].user = u /\ txn[t].type = "one_time"
                         /\ txn[t].status = "pending" /\ txn'[t].status = "completed"
                         /\ sess[s].state = "free" /\ sess'[s].txn = t
    OBVIOUS
  <2>1. PICK t \in Txns, p \in Peers, s \in Sids : VerifyRight(t, p, s)
    BY StepKinds
    DEF IndInv, TypeOK, LoginStart, LoginMint, LoginChallenge, LoginChallengeSent,
        Crash, VerifyWrong, ChallengeExpires, Refresh, Quiet
  <2>2. txn[t].user = u /\ txn[t].type = "one_time"
    BY <2>1 DEF IndInv, TypeOK, VerifyRight
  <2>3. txn[t].status = "pending" /\ txn'[t].status = "completed"
    BY <2>1 DEF IndInv, TypeOK, TxnRecord, VerifyRight
  <2>4. sess[s].state = "free" /\ sess'[s].txn = t
    BY <2>1 DEF IndInv, TypeOK, SessionRecord, VerifyRight, Mint
  <2> QED  BY <2>2, <2>3, <2>4
<1> QED
  BY <1>1, Invariance, PTL DEF Spec, DemandWithdrawnByOtp

(* A session that is over stays over, and is never refreshed.              *)
THEOREM RevokedForGood == Spec => RevocationIsFinal
<1> DEFINE A == \A s \in Sids : sess[s].state = "over" => sess'[s] = sess[s]
<1>1. IndInv /\ [Next]_vars => [A]_vars
  <2> SUFFICES ASSUME IndInv, [Next]_vars, NEW s \in Sids, sess[s].state = "over"
               PROVE  sess'[s] = sess[s]
    OBVIOUS
  <2>1. sess[s] \in SessionRecord
    BY DEF IndInv, TypeOK
  <2>2. [sess[s] EXCEPT !.state = "over"] = sess[s]
    BY <2>1 DEF SessionRecord
  <2>3. CASE Quiet
    BY <2>2, <2>3 DEF Quiet, Ends
  <2>4. CASE ~Quiet
    BY <2>4, StepKinds
    DEF IndInv, TypeOK, LoginStart, LoginMint, LoginChallenge, LoginChallengeSent,
        Crash, VerifyRight, VerifyWrong, ChallengeExpires, Refresh, Mint
  <2> QED  BY <2>3, <2>4
<1> QED
  BY <1>1, Invariance, PTL DEF Spec, RevocationIsFinal

(* A password alone mints for an account that asks for nothing, unless the *)
(* login was overtaken at the gate.                                        *)
THEOREM PasswordAlone == Spec => PasswordAloneNeedsAFreeAccount
<1> DEFINE A == \A s \in Sids :
                  sess[s].state = "free" /\ sess'[s].state = "live"
                  /\ sess'[s].txn = None /\ s \notin late' =>
                      LET u == sess'[s].user IN
                      status[u] = "active" /\ ~adminMfa[u] /\ ~mfaOnce[u]
<1>1. IndInv /\ [Next]_vars => [A]_vars
  <2> SUFFICES ASSUME IndInv, [Next]_vars, NEW s \in Sids,
                      sess[s].state = "free", sess'[s].state = "live",
                      sess'[s].txn = None, s \notin late'
               PROVE  /\ status[sess'[s].user] = "active"
                      /\ ~adminMfa[sess'[s].user] /\ ~mfaOnce[sess'[s].user]
    OBVIOUS
  <2>1. ~Quiet
    BY QuietKeeps DEF IndInv
  <2>2. sess[s] \in SessionRecord
    BY DEF IndInv, TypeOK
  <2>3. ASSUME NEW t \in Txns, NEW p \in Peers, NEW r \in Sids, VerifyRight(t, p, r)
        PROVE  FALSE
    BY <2>3, <2>2, NoneAssumption DEF IndInv, TypeOK, VerifyRight, Mint
  <2>4. ASSUME NEW r \in Sids, Refresh(r)
        PROVE  FALSE
    BY <2>4, <2>2 DEF IndInv, TypeOK, SessionRecord, Refresh
  <2>5. sess' # sess /\ TypeOK /\ SessionRows
    BY DEF IndInv
  <2>6. PICK p \in Peers, r \in Sids : LoginMint(p, r)
    BY <2>1, <2>3, <2>4, <2>5, StepKinds
    DEF LoginStart, LoginChallenge, LoginChallengeSent, Crash, VerifyWrong,
        ChallengeExpires
  <2>7. r = s /\ sess'[s].user = login[p].user /\ p \notin overtaken
    BY <2>6 DEF IndInv, TypeOK, LoginMint, Mint
  <2>8. login[p].user \in Users
    BY <2>6 DEF IndInv, LoginRows, LoginMint
  <2> QED
    BY <2>6, <2>7, <2>8 DEF IndInv, InFlightReadIsCurrent, LoginMint
<1> QED
  BY <1>1, Invariance, PTL DEF Spec, PasswordAloneNeedsAFreeAccount

-----------------------------------------------------------------------------
(* REFINEMENT.  CoreAuth implements SessionAuthority.  Each step is one    *)
(* abstract step: a login is granted a warrant, passes it to its challenge *)
(* or spends it; mfa_verify spends the challenge's or withdraws it; the    *)
(* clampdowns close or lock; refreshes and flags are not seen.             *)

(* A carrier is a login or a challenge, and carries what its row says.     *)
LEMMA CarrierKinds ==
    /\ \A w \in Carriers : \/ \E p \in Peers : w = <<"login", p>>
                           \/ \E t \in Txns : w = <<"code", t>>
    /\ \A p \in Peers :
          /\ <<"login", p>> \in Carriers
          /\ WarrantSeen[<<"login", p>>] = IF login[p].pc = "gate" THEN login[p].user ELSE None
    /\ \A t \in Txns :
          /\ <<"code", t>> \in Carriers
          /\ WarrantSeen[<<"code", t>>] = IF txn[t].status \in {"unsent", "pending"}
                                          THEN txn[t].user ELSE None
BY DEF Carriers, WarrantSeen, WarrantOf

(* The same, after a step.                                                 *)
LEMMA CarrierKindsNext ==
    /\ \A p \in Peers :
          WarrantSeen'[<<"login", p>>] = IF login'[p].pc = "gate" THEN login'[p].user ELSE None
    /\ \A t \in Txns :
          WarrantSeen'[<<"code", t>>] = IF txn'[t].status \in {"unsent", "pending"}
                                        THEN txn'[t].user ELSE None
BY DEF Carriers, WarrantSeen, WarrantOf

(* What is seen does not move when its rows do not.                        *)
LEMMA Unseen ==
    /\ UNCHANGED sess => UNCHANGED SessionSeen
    /\ UNCHANGED <<login, txn>> => UNCHANGED WarrantSeen
BY DEF SessionSeen, WarrantSeen, WarrantOf

(* _create_session is seen as a session that begins.                       *)
LEMMA MintSeen ==
    ASSUME TypeOK, NEW s \in Sids, NEW u, NEW t, NEW p, Mint(s, u, t, p)
    PROVE  /\ SessionSeen[s].state = "free"
           /\ SessionSeen' = [SessionSeen EXCEPT ![s] = [state |-> "live", owner |-> u]]
BY DEF TypeOK, Mint, SessionSeen

(* A step that only ends sessions of u, by a mark on each, is seen as such.*)
LEMMA EndsSeen ==
    ASSUME TypeOK, NEW u,
           \A s \in Sids : \/ sess'[s] = sess[s]
                           \/ Live(s) /\ sess[s].user = u /\ Ends(s)
    PROVE  \A s \in Sids :
              \/ SessionSeen'[s] = SessionSeen[s]
              \/ /\ SessionSeen[s].owner = u /\ SessionSeen[s].state = "live"
                 /\ SessionSeen'[s] = [SessionSeen[s] EXCEPT !.state = "over"]
<1> SUFFICES ASSUME NEW s \in Sids
             PROVE  \/ SessionSeen'[s] = SessionSeen[s]
                    \/ /\ SessionSeen[s].owner = u /\ SessionSeen[s].state = "live"
                       /\ SessionSeen'[s] = [SessionSeen[s] EXCEPT !.state = "over"]
  OBVIOUS
<1>1. sess[s] \in SessionRecord
  BY DEF TypeOK
<1>2. SessionSeen'[s] = [state |-> sess'[s].state, owner |-> sess'[s].user]
  BY DEF SessionSeen
<1>3. SessionSeen[s] = [state |-> sess[s].state, owner |-> sess[s].user]
  BY DEF SessionSeen
<1>4. CASE sess'[s] = sess[s]
  BY <1>2, <1>3, <1>4
<1>5. CASE Live(s) /\ sess[s].user = u /\ Ends(s)
  BY <1>1, <1>2, <1>3, <1>5 DEF Live, Ends, SessionRecord
<1> QED
  BY <1>4, <1>5

(* The UPDATE that revokes the sessions of u closes them.                  *)
LEMMA RevokeSeen ==
    ASSUME TypeOK, NEW u \in Users, RevokeSessions(u)
    PROVE  SessionSeen' = [s \in Sids |->
              IF SessionSeen[s].owner = u /\ SessionSeen[s].state = "live"
              THEN [SessionSeen[s] EXCEPT !.state = "over"] ELSE SessionSeen[s]]
<1>1. ASSUME NEW s \in Sids
      PROVE  SessionSeen'[s] =
                IF SessionSeen[s].owner = u /\ SessionSeen[s].state = "live"
                THEN [SessionSeen[s] EXCEPT !.state = "over"] ELSE SessionSeen[s]
  BY DEF TypeOK, RevokeSessions, Live, SessionRecord, SessionSeen
<1> QED
  BY <1>1 DEF SessionSeen

(* So it is a step that closes sessions of u, if the account stays.        *)
LEMMA RevokeCloses ==
    ASSUME TypeOK, NEW u \in Users, RevokeSessions(u), UNCHANGED <<status, txn, login>>
    PROVE  Authority!Close(u)
<1>1. UNCHANGED <<status, WarrantSeen>>
  BY Unseen
<1>2. \A s \in Sids : \/ sess'[s] = sess[s]
                      \/ Live(s) /\ sess[s].user = u /\ Ends(s)
  BY DEF TypeOK, RevokeSessions, Ends, Live
<1>3. SessionSeen' = [s \in Sids |-> SessionSeen'[s]]
  BY DEF SessionSeen
<1> QED
  BY <1>1, <1>2, <1>3, EndsSeen
  DEF Authority!Close, Authority!Live, Authority!Ended

(* And a logout or a lapse of one session closes it.                       *)
LEMMA OverCloses ==
    ASSUME TypeOK, SessionRows, NEW s \in Sids, sess[s].state # "free",
           sess' = [sess EXCEPT ![s].state = "over"], UNCHANGED <<status, txn, login>>
    PROVE  \E u \in Users : Authority!Close(u)
<1> DEFINE u == sess[s].user
<1>1. u \in Users
  BY DEF SessionRows
<1>2. UNCHANGED <<status, WarrantSeen>>
  BY Unseen
<1>3. sess[s] \in SessionRecord
  BY DEF TypeOK
<1>4. ASSUME NEW r \in Sids
      PROVE  \/ sess'[r] = sess[r]
             \/ Live(r) /\ sess[r].user = u /\ Ends(r)
  <2>1. CASE r # s
    BY <2>1 DEF TypeOK
  <2>2. CASE r = s /\ sess[s].state = "live"
    BY <2>2 DEF TypeOK, Live, Ends
  <2>3. CASE r = s /\ sess[s].state = "over"
    BY <1>3, <2>3 DEF TypeOK, SessionRecord
  <2> QED  BY <1>3, <2>1, <2>2, <2>3 DEF SessionRecord
<1>5. SessionSeen' = [r \in Sids |-> SessionSeen'[r]]
  BY DEF SessionSeen
<1> HIDE DEF u
<1>6. Authority!Close(u)
  BY <1>2, <1>4, <1>5, EndsSeen
  DEF Authority!Close, Authority!Live, Authority!Ended
<1> QED
  BY <1>1, <1>6

(* The first states of Core are first states of the promise.               *)
LEMMA InitRefines == Init => Authority!Init
<1> SUFFICES ASSUME Init PROVE Authority!Init
  OBVIOUS
<1>1. SessionSeen = [s \in Sids |-> [state |-> "free", owner |-> None]]
  BY DEF Init, SessionSeen, NoSession
<1>2. WarrantSeen = [w \in Carriers |-> None]
  <2>1. \A w \in Carriers : WarrantSeen[w] = None
    BY CarrierKinds DEF Init, NoLogin, NoTxn
  <2> QED  BY <2>1 DEF WarrantSeen
<1> QED
  BY <1>1, <1>2 DEF Init, Authority!Init, Authority!Free

-----------------------------------------------------------------------------
(* The steps *)

(* The warrants after a step are known from those of logins and challenges.*)
LEMMA SeenByParts ==
    ASSUME NEW f, f = [w \in Carriers |-> f[w]],
           \A p \in Peers : WarrantSeen'[<<"login", p>>] = f[<<"login", p>>],
           \A t \in Txns : WarrantSeen'[<<"code", t>>] = f[<<"code", t>>]
    PROVE  WarrantSeen' = f
<1>1. \A w \in Carriers : WarrantSeen'[w] = f[w]
  BY CarrierKinds
<1>2. WarrantSeen' = [w \in Carriers |-> WarrantSeen'[w]]
  BY DEF WarrantSeen
<1> QED
  BY <1>1, <1>2

(* A warrant is one of an account, or of nobody.                           *)
LEMMA WarrantSeenIsFunction == WarrantSeen = [w \in Carriers |-> WarrantSeen[w]]
BY DEF WarrantSeen

(* A login or a challenge whose row stays carries what it did.             *)
LEMMA Kept ==
    /\ \A q \in Peers : login'[q] = login[q] =>
          WarrantSeen'[<<"login", q>>] = WarrantSeen[<<"login", q>>]
    /\ \A v \in Txns : txn'[v] = txn[v] =>
          WarrantSeen'[<<"code", v>>] = WarrantSeen[<<"code", v>>]
<1>1. ASSUME NEW q \in Peers, login'[q] = login[q]
      PROVE  WarrantSeen'[<<"login", q>>] = WarrantSeen[<<"login", q>>]
  BY <1>1, CarrierKinds, CarrierKindsNext
<1>2. ASSUME NEW v \in Txns, txn'[v] = txn[v]
      PROVE  WarrantSeen'[<<"code", v>>] = WarrantSeen[<<"code", v>>]
  BY <1>2, CarrierKinds, CarrierKindsNext
<1> QED
  BY <1>1, <1>2

(* The warrant of one login changes, and the others do not.                *)
LEMMA OneLoginChanges ==
    ASSUME NEW p \in Peers, \A q \in Peers : q # p => login'[q] = login[q],
           NEW f, f = [WarrantSeen EXCEPT ![<<"login", p>>] = WarrantSeen'[<<"login", p>>]]
    PROVE  \A q \in Peers : WarrantSeen'[<<"login", q>>] = f[<<"login", q>>]
<1>1. ASSUME NEW q \in Peers, q # p
      PROVE  WarrantSeen'[<<"login", q>>] = f[<<"login", q>>]
  <2>1. f[<<"login", q>>] = WarrantSeen[<<"login", q>>]
    BY <1>1, CarrierKinds, WarrantSeenIsFunction
  <2> QED  BY <1>1, <2>1, Kept
<1>2. WarrantSeen'[<<"login", p>>] = f[<<"login", p>>]
  BY CarrierKinds, WarrantSeenIsFunction
<1> QED
  BY <1>1, <1>2

(* And of one challenge.                                                   *)
LEMMA OneCodeChanges ==
    ASSUME NEW t \in Txns, \A v \in Txns : v # t => txn'[v] = txn[v],
           NEW f, f = [WarrantSeen EXCEPT ![<<"code", t>>] = WarrantSeen'[<<"code", t>>]]
    PROVE  \A v \in Txns : WarrantSeen'[<<"code", v>>] = f[<<"code", v>>]
<1>1. ASSUME NEW v \in Txns, v # t
      PROVE  WarrantSeen'[<<"code", v>>] = f[<<"code", v>>]
  <2>1. f[<<"code", v>>] = WarrantSeen[<<"code", v>>]
    BY <1>1, CarrierKinds, WarrantSeenIsFunction
  <2> QED  BY <1>1, <2>1, Kept
<1>2. WarrantSeen'[<<"code", t>>] = f[<<"code", t>>]
  BY CarrierKinds, WarrantSeenIsFunction
<1> QED
  BY <1>1, <1>2

(* login, its password right: a grant.                                     *)
LEMMA StartGrants ==
    ASSUME TypeOK, NEW p \in Peers, NEW u \in Users, LoginStart(p, u)
    PROVE  Authority!Grant(<<"login", p>>, u)
<1> DEFINE f == [WarrantSeen EXCEPT ![<<"login", p>>] = u]
<1>1. UNCHANGED <<status, SessionSeen>> /\ status[u] = "active"
  BY Unseen DEF LoginStart
<1>2. /\ login[p].pc = "idle" /\ login'[p].pc = "gate" /\ login'[p].user = u
      /\ \A q \in Peers : q # p => login'[q] = login[q]
  BY DEF TypeOK, LoginStart, NoLogin
<1>3. WarrantSeen[<<"login", p>>] = None
  BY <1>2, CarrierKinds
<1>4. \A q \in Peers : WarrantSeen'[<<"login", q>>] = f[<<"login", q>>]
  <2>1. WarrantSeen'[<<"login", p>>] = u
    BY <1>2, CarrierKindsNext
  <2> QED  BY <1>2, <2>1, OneLoginChanges
<1>5. \A t \in Txns : WarrantSeen'[<<"code", t>>] = f[<<"code", t>>]
  BY CarrierKinds, CarrierKindsNext, WarrantSeenIsFunction DEF LoginStart
<1>6. f = [w \in Carriers |-> f[w]]
  BY WarrantSeenIsFunction
<1>7. WarrantSeen' = f
  <2> HIDE DEF f
  <2> QED  BY <1>4, <1>5, <1>6, SeenByParts
<1> QED
  BY <1>1, <1>3, <1>7 DEF Authority!Grant

(* login, nothing asked of it: its warrant is spent on a session.          *)
LEMMA MintOpens ==
    ASSUME IndInv, NEW p \in Peers, NEW s \in Sids, LoginMint(p, s)
    PROVE  Authority!Open(s, <<"login", p>>)
<1> USE DEF IndInv
<1> DEFINE f == [WarrantSeen EXCEPT ![<<"login", p>>] = None]
<1>1. /\ login[p].pc = "gate" /\ login[p].user \in Users /\ login'[p].pc = "idle"
      /\ \A q \in Peers : q # p => login'[q] = login[q]
  BY DEF TypeOK, LoginRows, LoginMint, NoLogin
<1>2. WarrantSeen[<<"login", p>>] = login[p].user /\ login[p].user # None
  BY <1>1, CarrierKinds, NoneAssumption
<1>3. /\ SessionSeen[s].state = "free" /\ UNCHANGED status
      /\ SessionSeen' = [SessionSeen EXCEPT
            ![s] = [state |-> "live", owner |-> WarrantSeen[<<"login", p>>]]]
  BY <1>2, MintSeen DEF LoginMint
<1>4. \A q \in Peers : WarrantSeen'[<<"login", q>>] = f[<<"login", q>>]
  <2>1. WarrantSeen'[<<"login", p>>] = None
    BY <1>1, CarrierKindsNext
  <2> QED  BY <1>1, <2>1, OneLoginChanges
<1>5. \A t \in Txns : WarrantSeen'[<<"code", t>>] = f[<<"code", t>>]
  BY CarrierKinds, CarrierKindsNext, WarrantSeenIsFunction DEF LoginMint
<1>6. f = [w \in Carriers |-> f[w]]
  BY WarrantSeenIsFunction
<1>7. WarrantSeen' = f
  <2> HIDE DEF f
  <2> QED  BY <1>4, <1>5, <1>6, SeenByParts
<1> QED
  BY <1>2, <1>3, <1>7 DEF Authority!Open

(* login, an OTP asked of it: its warrant passes to the challenge.         *)
LEMMA ChallengePasses ==
    ASSUME IndInv, NEW p \in Peers, NEW t \in Txns, NEW gated, NEW countReset,
           LoginChallenge(p, t, gated, countReset)
    PROVE  Authority!Pass(<<"login", p>>, <<"code", t>>)
<1> USE DEF IndInv
<1> DEFINE f == [WarrantSeen EXCEPT ![<<"code", t>>] = WarrantSeen[<<"login", p>>],
                                    ![<<"login", p>>] = None]
<1>1. /\ login[p].pc = "gate" /\ login[p].user \in Users /\ login'[p].pc = "mail"
      /\ \A q \in Peers : q # p => login'[q] = login[q]
  BY DEF TypeOK, LoginRows, LoginChallenge, NoLogin
<1>2. /\ txn[t].status = "free" /\ txn'[t].status = "unsent"
      /\ txn'[t].user = login[p].user
      /\ \A v \in Txns : v # t => txn'[v] = txn[v]
  BY DEF TypeOK, LoginChallenge
<1>3. /\ WarrantSeen[<<"login", p>>] = login[p].user /\ login[p].user # None
      /\ WarrantSeen[<<"code", t>>] = None
  BY <1>1, <1>2, CarrierKinds, NoneAssumption
<1>4. UNCHANGED <<status, SessionSeen>>
  BY Unseen DEF LoginChallenge
<1>5. \A q \in Peers : WarrantSeen'[<<"login", q>>] = f[<<"login", q>>]
  <2> DEFINE g == [WarrantSeen EXCEPT ![<<"login", p>>] = None]
  <2>1. WarrantSeen'[<<"login", p>>] = None
    BY <1>1, CarrierKindsNext
  <2>2. \A q \in Peers : WarrantSeen'[<<"login", q>>] = g[<<"login", q>>]
    BY <1>1, <2>1, OneLoginChanges
  <2>3. \A q \in Peers : f[<<"login", q>>] = g[<<"login", q>>]
    BY CarrierKinds, WarrantSeenIsFunction
  <2> QED  BY <2>2, <2>3
<1>6. \A v \in Txns : WarrantSeen'[<<"code", v>>] = f[<<"code", v>>]
  <2> DEFINE g == [WarrantSeen EXCEPT ![<<"code", t>>] = login[p].user]
  <2>1. WarrantSeen'[<<"code", t>>] = login[p].user
    BY <1>2, CarrierKindsNext
  <2>2. \A v \in Txns : WarrantSeen'[<<"code", v>>] = g[<<"code", v>>]
    BY <1>2, <2>1, OneCodeChanges
  <2>3. \A v \in Txns : f[<<"code", v>>] = g[<<"code", v>>]
    BY <1>3, CarrierKinds, WarrantSeenIsFunction
  <2> QED  BY <2>2, <2>3
<1>7. f = [w \in Carriers |-> f[w]]
  BY WarrantSeenIsFunction
<1>8. WarrantSeen' = f
  <2> HIDE DEF f
  <2> QED  BY <1>5, <1>6, <1>7, SeenByParts
<1> QED
  BY <1>3, <1>4, <1>8 DEF Authority!Pass

(* The commit after the mail is not seen.                                  *)
LEMMA SentUnseen ==
    ASSUME IndInv, NEW p \in Peers, LoginChallengeSent(p)
    PROVE  UNCHANGED <<status, SessionSeen, WarrantSeen>>
<1> USE DEF IndInv
<1> DEFINE t == login[p].txn
<1>1. /\ login[p].pc = "mail" /\ login'[p].pc = "idle"
      /\ \A q \in Peers : q # p => login'[q] = login[q]
  BY DEF TypeOK, LoginChallengeSent, NoLogin
<1>2. /\ t \in Txns /\ txn[t].status = "unsent"
      /\ txn'[t].status = "pending" /\ txn'[t].user = txn[t].user
      /\ \A v \in Txns : v # t => txn'[v] = txn[v]
  BY DEF TypeOK, TxnRecord, LoginRows, LoginChallengeSent
<1>3. \A q \in Peers : WarrantSeen'[<<"login", q>>] = WarrantSeen[<<"login", q>>]
  <2>1. WarrantSeen'[<<"login", p>>] = None /\ WarrantSeen[<<"login", p>>] = None
    BY <1>1, CarrierKinds, CarrierKindsNext
  <2> QED  BY <1>1, <2>1, Kept
<1>4. \A v \in Txns : WarrantSeen'[<<"code", v>>] = WarrantSeen[<<"code", v>>]
  <2> HIDE DEF t
  <2>1. WarrantSeen'[<<"code", t>>] = WarrantSeen[<<"code", t>>]
    BY <1>2, CarrierKinds, CarrierKindsNext
  <2> QED  BY <1>2, <2>1, Kept
<1>5. WarrantSeen' = WarrantSeen
  BY <1>3, <1>4, WarrantSeenIsFunction, SeenByParts
<1> QED
  BY <1>5, Unseen DEF LoginChallengeSent

(* A crash, a wrong code and an expiry withdraw what they end.             *)
LEMMA EndsWithdraw ==
    ASSUME IndInv, Crash \/ \E t \in Txns : VerifyWrong(t) \/ ChallengeExpires(t)
    PROVE  Authority!Withdraw
<1> USE DEF IndInv
<1>1. UNCHANGED <<status, SessionSeen>>
  BY Unseen DEF Crash, VerifyWrong, ChallengeExpires
<1>2. \A p \in Peers : login'[p] = login[p] \/ login'[p].pc = "idle"
  <2>1. CASE Crash
    BY <2>1 DEF Crash, NoLogin
  <2>2. CASE \E t \in Txns : VerifyWrong(t) \/ ChallengeExpires(t)
    BY <2>2 DEF VerifyWrong, ChallengeExpires
  <2> QED  BY <2>1, <2>2
<1>3. \A t \in Txns : \/ txn'[t] = txn[t]
                      \/ txn'[t].status \notin {"unsent", "pending"}
                      \/ txn'[t].status = "pending" /\ txn[t].status = "pending"
                         /\ txn'[t].user = txn[t].user
  <2>1. CASE Crash
    BY <2>1 DEF TypeOK, Crash, NoTxn
  <2>2. ASSUME NEW r \in Txns, VerifyWrong(r) \/ ChallengeExpires(r), NEW t \in Txns
        PROVE  \/ txn'[t] = txn[t]
               \/ txn'[t].status \notin {"unsent", "pending"}
               \/ txn'[t].status = "pending" /\ txn[t].status = "pending"
                  /\ txn'[t].user = txn[t].user
    <3>1. CASE t # r
      BY <2>2, <3>1 DEF TypeOK, VerifyWrong, ChallengeExpires
    <3>2. CASE t = r
      BY <2>2, <3>2 DEF TypeOK, TxnRecord, VerifyWrong, ChallengeExpires
    <3> QED  BY <3>1, <3>2
  <2> QED  BY <2>1, <2>2
<1>4. \A w \in Carriers : WarrantSeen'[w] \in {WarrantSeen[w], None}
  <2>1. \A p \in Peers : WarrantSeen'[<<"login", p>>] \in {WarrantSeen[<<"login", p>>], None}
    BY <1>2, CarrierKinds, CarrierKindsNext
  <2>2. \A t \in Txns : WarrantSeen'[<<"code", t>>] \in {WarrantSeen[<<"code", t>>], None}
    BY <1>3, CarrierKinds, CarrierKindsNext
  <2> QED  BY <2>1, <2>2, CarrierKinds
<1>5. WarrantSeen' = [w \in Carriers |-> WarrantSeen'[w]]
  BY DEF WarrantSeen
<1> QED
  BY <1>1, <1>4, <1>5 DEF Authority!Withdraw

(* The right code: the challenge's warrant is spent on a session.          *)
LEMMA VerifyOpens ==
    ASSUME IndInv, NEW t \in Txns, NEW p \in Peers, NEW s \in Sids, VerifyRight(t, p, s)
    PROVE  Authority!Open(s, <<"code", t>>)
<1> USE DEF IndInv
<1> DEFINE f == [WarrantSeen EXCEPT ![<<"code", t>>] = None]
<1>1. /\ txn[t].status = "pending" /\ txn[t].user \in Users
      /\ txn'[t].status = "completed"
      /\ \A v \in Txns : v # t => txn'[v] = txn[v]
  BY DEF TypeOK, TxnRecord, ChallengeRows, VerifyRight
<1>2. WarrantSeen[<<"code", t>>] = txn[t].user /\ txn[t].user # None
  BY <1>1, CarrierKinds, NoneAssumption
<1>3. /\ SessionSeen[s].state = "free" /\ UNCHANGED status
      /\ SessionSeen' = [SessionSeen EXCEPT
            ![s] = [state |-> "live", owner |-> WarrantSeen[<<"code", t>>]]]
  BY <1>2, MintSeen DEF VerifyRight
<1>4. \A q \in Peers : WarrantSeen'[<<"login", q>>] = f[<<"login", q>>]
  BY CarrierKinds, CarrierKindsNext, WarrantSeenIsFunction DEF VerifyRight
<1>5. \A v \in Txns : WarrantSeen'[<<"code", v>>] = f[<<"code", v>>]
  <2>1. WarrantSeen'[<<"code", t>>] = None
    BY <1>1, CarrierKindsNext
  <2> QED  BY <1>1, <2>1, OneCodeChanges
<1>6. f = [w \in Carriers |-> f[w]]
  BY WarrantSeenIsFunction
<1>7. WarrantSeen' = f
  <2> HIDE DEF f
  <2> QED  BY <1>4, <1>5, <1>6, SeenByParts
<1> QED
  BY <1>2, <1>3, <1>7 DEF Authority!Open

(* A refresh is not seen: the generation of a session is its own affair.   *)
LEMMA RefreshUnseen ==
    ASSUME TypeOK, NEW s \in Sids, Refresh(s)
    PROVE  UNCHANGED <<status, SessionSeen, WarrantSeen>>
<1>1. \A r \in Sids : sess'[r].state = sess[r].state /\ sess'[r].user = sess[r].user
  BY DEF TypeOK, SessionRecord, Refresh
<1>2. SessionSeen' = SessionSeen
  BY <1>1 DEF SessionSeen
<1> QED
  BY <1>2, Unseen DEF Refresh

(* The bearer of a session only closes.                                    *)
LEMMA BearerCloses ==
    ASSUME TypeOK, SessionRows, NEW s \in Sids,
           \/ Lapse(s) \/ Logout(s) \/ LogoutAll(s)
           \/ \E c \in Sids : RevokeSession(c, s)
    PROVE  \E u \in Users : Authority!Close(u)
<1>1. CASE Lapse(s) \/ Logout(s)
  BY <1>1, OverCloses DEF Lapse, Logout, Usable, Live
<1>2. CASE LogoutAll(s)
  <2>1. sess[s].user \in Users
    BY <1>2 DEF LogoutAll, Usable, Live, SessionRows
  <2> QED  BY <1>2, <2>1, RevokeCloses DEF LogoutAll
<1>3. CASE \E c \in Sids : RevokeSession(c, s)
  BY <1>3, OverCloses DEF RevokeSession
<1> QED
  BY <1>1, <1>2, <1>3

(* Detection, the SOC and IAM close, lock, unlock and enter.               *)
LEMMA AdminRefines ==
    ASSUME TypeOK, SessionRows, AdminNext
    PROVE  Authority!Next
<1>1. ASSUME NEW u \in Users,
             \/ RequireMfa(u) \/ ForceLogout(u) \/ IamRoleChange(u)
             \/ \E required \in BOOLEAN : IamToggleMfa(u, required)
      PROVE  Authority!Close(u)
  BY <1>1, RevokeCloses DEF RequireMfa, ForceLogout, IamRoleChange, IamToggleMfa
<1>2. ASSUME NEW u \in Users, LockUser(u) \/ IamLock(u)
      PROVE  Authority!Lock(u)
  <2>1. RevokeSessions(u) /\ UNCHANGED <<login, txn>>
    BY <1>2 DEF LockUser, IamLock
  <2>2. status[u] # "absent" /\ status' = [status EXCEPT ![u] = "locked"]
    BY <1>2 DEF LockUser, IamLock
  <2> QED  BY <2>1, <2>2, RevokeSeen, Unseen DEF Authority!Lock, Authority!Live
<1>3. ASSUME NEW u \in Users, Register(u)
      PROVE  Authority!Enter(u)
  BY <1>3, Unseen DEF Register, Authority!Enter
<1>4. ASSUME NEW u \in Users, IamUnlock(u)
      PROVE  Authority!Unlock(u)
  BY <1>4, Unseen DEF IamUnlock, Authority!Unlock
<1> QED
  BY <1>1, <1>2, <1>3, <1>4 DEF AdminNext, Authority!Next

(* Every step of Core is a step of the promise, or is not seen there.      *)
LEMMA StepRefines ==
    IndInv /\ [Next]_vars => [Authority!Next]_(Authority!vars)
<1> SUFFICES ASSUME IndInv, [Next]_vars PROVE [Authority!Next]_(Authority!vars)
  OBVIOUS
<1>1. TypeOK /\ SessionRows
  BY DEF IndInv
<1>2. ASSUME NEW p \in Peers, NEW u \in Users, LoginStart(p, u)
      PROVE  Authority!Next
  BY <1>1, <1>2, StartGrants, CarrierKinds DEF Authority!Next
<1>3. ASSUME NEW p \in Peers, NEW s \in Sids, LoginMint(p, s)
      PROVE  Authority!Next
  BY <1>3, MintOpens, CarrierKinds DEF Authority!Next
<1>4. ASSUME NEW p \in Peers, NEW t \in Txns, NEW gated \in BOOLEAN,
             NEW countReset \in BOOLEAN, LoginChallenge(p, t, gated, countReset)
      PROVE  Authority!Next
  BY <1>4, ChallengePasses, CarrierKinds DEF Authority!Next
<1>5. ASSUME NEW p \in Peers, LoginChallengeSent(p)
      PROVE  UNCHANGED Authority!vars
  BY <1>5, SentUnseen DEF Authority!vars
<1>6. ASSUME Crash \/ \E t \in Txns : VerifyWrong(t) \/ ChallengeExpires(t)
      PROVE  Authority!Next
  BY <1>6, EndsWithdraw DEF Authority!Next
<1>7. ASSUME NEW t \in Txns, NEW p \in Peers, NEW s \in Sids, VerifyRight(t, p, s)
      PROVE  Authority!Next
  BY <1>7, VerifyOpens, CarrierKinds DEF Authority!Next
<1>8. ASSUME NEW s \in Sids, Refresh(s)
      PROVE  UNCHANGED Authority!vars
  BY <1>1, <1>8, RefreshUnseen DEF Authority!vars
<1>9. ASSUME NEW s \in Sids,
             \/ Lapse(s) \/ Logout(s) \/ LogoutAll(s)
             \/ \E c \in Sids : RevokeSession(c, s)
      PROVE  Authority!Next
  BY <1>1, <1>9, BearerCloses DEF Authority!Next
<1>10. CASE AdminNext
  BY <1>1, <1>10, AdminRefines
<1>11. CASE UNCHANGED vars
  BY <1>11, Unseen DEF vars, Authority!vars
<1> QED
  BY <1>2, <1>3, <1>4, <1>5, <1>6, <1>7, <1>8, <1>9, <1>10, <1>11
  DEF Next, LoginNext, VerifyNext, SessionNext

(* Core keeps the promise: a session begins only by spending a warrant,    *)
(* granted to an active account, once; a lock ends all there are; what     *)
(* ended stays ended; and no step ends sessions of two accounts.           *)
THEOREM Refinement == Spec => KeepsAuthority
<1>1. Init => Authority!Init
  BY InitRefines
<1>2. IndInv /\ [Next]_vars => [Authority!Next]_(Authority!vars)
  BY StepRefines
<1> QED
  BY <1>1, <1>2, Invariance, PTL DEF Spec, KeepsAuthority, Authority!Spec
=============================================================================
