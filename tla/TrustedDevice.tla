---------------------------- MODULE TrustedDevice ----------------------------
(***************************************************************************)
(* Trusted devices (app/devices.py): a new device asks with the password,  *)
(* a signed-in session of the account approves, and the new device then    *)
(* completes the request into a session without a one-time password.       *)
(*                                                                         *)
(* GRANULARITY.  One process, one event loop, a synchronous driver: a      *)
(* handler is one step between two awaits.  Asking and completing each     *)
(* await the risk gate once (_pre_token_risk).  Asking has committed its   *)
(* rate row by then; completing still holds its request row FOR UPDATE, so *)
(* a second call for that request blocks the loop that the first one needs *)
(* (Freeze): only a restart of the process resolves it.                    *)
(*                                                                         *)
(* ABSTRACTED.  The two flags that demand an OTP are one (demand): these   *)
(* handlers only test them together.  A client is its fingerprint and its  *)
(* address; a wrong one is refused without a change and has no action.     *)
(* Names, user agents and audit rows are left out.  The ordinary login is  *)
(* CoreAuth's: here it may open a session at any time.                     *)
(***************************************************************************)
EXTENDS Naturals, FiniteSets

CONSTANTS
    Users, Prints, Addrs,
    Reqs,       \* request identifiers: bounds the requests ever made
    Calls,      \* bounds the calls at the gate at one time
    None,
    MaxCount    \* attempts per window (5 in the code)

ASSUME NoneAssumption == None \notin Users \cup Prints \cup Addrs \cup Reqs
ASSUME MaxCountAssumption == MaxCount \in Nat \ {0}

VARIABLES
    acct,       \* users: is the account active, does it demand an OTP
    dev,        \* user_trusted_devices, unique per user and fingerprint
    req,        \* mfa_transactions of type trusted_device
    sess,       \* unrevoked sessions; req is the request that minted one
    call,       \* handlers that wait at the risk gate
    rate,       \* rate_limits of action trusted_device_approval
    frozen,     \* the event loop waits for a row lock
    minted,     \* HISTORY: sessions minted by each request, up to 2
    approved,   \* HISTORY: the requests some session has approved
    overtaken   \* HISTORY: calls at the gate since whose read of the account
                \* it was locked or began to demand an OTP

vars == <<acct, dev, req, sess, call, rate, frozen, minted, approved, overtaken>>

Device == [term : {"none", "endless", "dated", "past"}, ip : Addrs \cup {None}]
Request == [status : {"free", "pending", "completed", "failed", "expired"},
            user : Users \cup {None}, print : Prints \cup {None},
            ip : Addrs \cup {None},
            due : BOOLEAN,          \* expires_at has passed
            consumed : BOOLEAN]
SessionRow == [user : Users, ip : Addrs, req : Reqs \cup {None}]
Call == [pc : {"idle", "asking", "completing"}, user : Users \cup {None},
         print : Prints \cup {None}, ip : Addrs \cup {None},
         req : Reqs \cup {None}]

NoDevice == [term |-> "none", ip |-> None]
NoRequest == [status |-> "free", user |-> None, print |-> None, ip |-> None,
              due |-> FALSE, consumed |-> FALSE]
NoCall == [pc |-> "idle", user |-> None, print |-> None, ip |-> None, req |-> None]

TypeOK ==
    /\ acct \in [Users -> [open : BOOLEAN, demand : BOOLEAN]]
    /\ dev \in [Users \X Prints -> Device]
    /\ req \in [Reqs -> Request]
    /\ sess \subseteq SessionRow
    /\ call \in [Calls -> Call]
    /\ rate \in [Addrs -> 0..MaxCount]
    /\ frozen \in BOOLEAN
    /\ minted \in [Reqs -> 0..2]
    /\ approved \subseteq Reqs
    /\ overtaken \subseteq Calls

Init ==
    /\ acct = [u \in Users |-> [open |-> TRUE, demand |-> FALSE]]
    /\ dev = [k \in Users \X Prints |-> NoDevice]
    /\ req = [r \in Reqs |-> NoRequest]
    /\ sess = {}
    /\ call = [c \in Calls |-> NoCall]
    /\ rate = [a \in Addrs |-> 0]
    /\ frozen = FALSE
    /\ minted = [r \in Reqs |-> 0]
    /\ approved = {}
    /\ overtaken = {}

-----------------------------------------------------------------------------
(* complete_trusted_device_login at the gate keeps its row FOR UPDATE.     *)
RowLocked(r) == \E c \in Calls : call[c].pc = "completing" /\ call[c].req = r

(* check_device_trusted, and "already_trusted" of a new request.           *)
Trusted(u, p, a) == dev[<<u, p>>].term \in {"endless", "dated"} /\ dev[<<u, p>>].ip = a

AtGate(u) == {c \in Calls : call[c].pc # "idle" /\ call[c].user = u}

SessionsOf(u) == {x \in sess : x.user = u}

Leave(c) ==
    /\ call' = [call EXCEPT ![c] = NoCall]
    /\ overtaken' = overtaken \ {c}

(* The sessions that get_current_auth_context lets act.                    *)
Usable == {x \in sess : acct[x.user].open}

(* INSERT of a pending request, bound to the asker's address.              *)
WithNewRequest(table, r, u, p, a) ==
    [table EXCEPT ![r] = [status |-> "pending", user |-> u, print |-> p,
                          ip |-> a, due |-> FALSE, consumed |-> FALSE]]

-----------------------------------------------------------------------------
(* MUTANTS.                                                                *)

(* approve_trusted_device without its status check.                        *)
ApproveAny(x, r) ==
    /\ ~frozen /\ ~RowLocked(r) /\ req[r].status # "free"
    /\ req[r].user = x.user /\ ~req[r].due
    /\ dev' = [dev EXCEPT ![<<x.user, req[r].print>>] = [term |-> "dated", ip |-> req[r].ip]]
    /\ req' = [req EXCEPT ![r].status = "completed"]
    /\ approved' = approved \cup {r}
    /\ UNCHANGED <<acct, sess, call, rate, frozen, minted, overtaken>>

(* complete_trusted_device_login with one of its checks changed.           *)
CompleteWith(c, r, statuses, once, flags) ==
    LET u == req[r].user IN
    /\ ~frozen /\ call[c].pc = "idle" /\ ~RowLocked(r)
    /\ req[r].status \in statuses
    /\ once => ~req[r].consumed
    /\ ~req[r].due /\ acct[u].open
    /\ IF flags /\ acct[u].demand
       THEN /\ req' = [req EXCEPT ![r].status = "failed"]
            /\ UNCHANGED <<call, overtaken>>
       ELSE /\ call' = [call EXCEPT ![c] = [pc |-> "completing", user |-> u,
                                             print |-> req[r].print,
                                             ip |-> req[r].ip, req |-> r]]
            /\ overtaken' = overtaken \ {c}
            /\ UNCHANGED req
    /\ UNCHANGED <<acct, dev, sess, rate, frozen, minted, approved>>
CompleteAgain(c, r) == CompleteWith(c, r, {"completed"}, FALSE, TRUE)
CompletePending(c, r) == CompleteWith(c, r, {"pending", "completed"}, TRUE, TRUE)
CompleteUnflagged(c, r) == CompleteWith(c, r, {"completed"}, TRUE, FALSE)

(* A new request is inserted without looking for a pending one.            *)
AskPassesUnread(c, r) ==
    LET k == call[c] IN
    /\ ~frozen /\ k.pc = "asking"
    /\ ~Trusted(k.user, k.print, k.ip)
    /\ req[r].status = "free"
    /\ req' = WithNewRequest(req, r, k.user, k.print, k.ip)
    /\ Leave(c)
    /\ UNCHANGED <<acct, dev, sess, rate, frozen, minted, approved>>

-----------------------------------------------------------------------------
(* request_trusted_device_approval with the right password, up to the      *)
(* gate.  A rejected attempt (AskRejected) has counted all the same.       *)
Ask(c, u, p, a) ==
    /\ ~frozen /\ call[c].pc = "idle" /\ rate[a] < MaxCount
    /\ rate' = [rate EXCEPT ![a] = @ + 1]
    /\ acct[u].open /\ ~acct[u].demand
    /\ call' = [call EXCEPT ![c] = [pc |-> "asking", user |-> u, print |-> p,
                                     ip |-> a, req |-> None]]
    /\ overtaken' = overtaken \ {c}
    /\ UNCHANGED <<acct, dev, req, sess, frozen, minted, approved>>

(* Wrong password, unknown or locked account, or an OTP is demanded.       *)
AskRejected(a) ==
    /\ ~frozen /\ rate[a] < MaxCount
    /\ rate' = [rate EXCEPT ![a] = @ + 1]
    /\ UNCHANGED <<acct, dev, req, sess, call, frozen, minted, approved, overtaken>>

(* The gate held the login, or the device turned out to be trusted.        *)
AskEnds(c) ==
    /\ ~frozen /\ call[c].pc = "asking"
    /\ Leave(c)
    /\ UNCHANGED <<acct, dev, req, sess, rate, frozen, minted, approved>>

(* The gate let it pass: an outstanding request is returned as it is, one  *)
(* that is overdue is closed, and a new one takes its place.               *)
AskPasses(c, r) ==
    LET k == call[c]
        pending == {q \in Reqs : req[q].status = "pending" /\ req[q].user = k.user
                                 /\ req[q].print = k.print}
        new(table) == /\ table[r].status = "free"
                      /\ req' = WithNewRequest(table, r, k.user, k.print, k.ip)
    IN
    /\ ~frozen /\ k.pc = "asking"
    /\ ~Trusted(k.user, k.print, k.ip)
    /\ \/ pending = {} /\ new(req)
       \/ \E q \in pending :
            IF req[q].due THEN new([req EXCEPT ![q].status = "expired"])
                          ELSE r = q /\ UNCHANGED req
    /\ Leave(c)
    /\ UNCHANGED <<acct, dev, sess, rate, frozen, minted, approved>>

(* approve_trusted_device by session x, used from its own address.  A      *)
(* request that is already completed may be approved again.                *)
Approve(x, r) ==
    /\ ~frozen /\ ~RowLocked(r)
    /\ req[r].status \in {"pending", "completed"}
    /\ req[r].user = x.user /\ ~req[r].due
    /\ dev' = [dev EXCEPT ![<<x.user, req[r].print>>] = [term |-> "dated", ip |-> req[r].ip]]
    /\ req' = [req EXCEPT ![r].status = "completed"]
    /\ approved' = approved \cup {r}
    /\ UNCHANGED <<acct, sess, call, rate, frozen, minted, overtaken>>

(* Approving or completing an overdue request closes it, whatever became   *)
(* of it; completing stops before that for any status but "completed".     *)
FindOverdue(r) ==
    /\ ~frozen /\ ~RowLocked(r)
    /\ req[r].due
    /\ \/ SessionsOf(req[r].user) \cap Usable # {}
       \/ req[r].status = "completed" /\ ~req[r].consumed
    /\ req' = [req EXCEPT ![r].status = "expired"]
    /\ UNCHANGED <<acct, dev, sess, call, rate, frozen, minted, approved, overtaken>>

(* complete_trusted_device_login, up to the gate, which it reaches with    *)
(* the request row locked.                                                 *)
Complete(c, r) ==
    LET u == req[r].user IN
    /\ ~frozen /\ call[c].pc = "idle" /\ ~RowLocked(r)
    /\ req[r].status = "completed" /\ ~req[r].consumed
    /\ ~req[r].due /\ acct[u].open
    /\ IF acct[u].demand
       THEN /\ req' = [req EXCEPT ![r].status = "failed"]
            /\ UNCHANGED <<call, overtaken>>
       ELSE /\ call' = [call EXCEPT ![c] = [pc |-> "completing", user |-> u,
                                             print |-> req[r].print,
                                             ip |-> req[r].ip, req |-> r]]
            /\ overtaken' = overtaken \ {c}
            /\ UNCHANGED req
    /\ UNCHANGED <<acct, dev, sess, rate, frozen, minted, approved>>

CompleteHeld(c) ==
    /\ ~frozen /\ call[c].pc = "completing"
    /\ req' = [req EXCEPT ![call[c].req].status = "failed"]
    /\ Leave(c)
    /\ UNCHANGED <<acct, dev, sess, rate, frozen, minted, approved>>

(* The flags and the status of the account are not read again.             *)
CompletePasses(c) ==
    LET k == call[c] IN
    /\ ~frozen /\ k.pc = "completing"
    /\ minted[k.req] < 2                            \* bound of the history
    /\ req' = [req EXCEPT ![k.req].consumed = TRUE]
    /\ sess' = sess \cup {[user |-> k.user, ip |-> k.ip, req |-> k.req]}
    /\ minted' = [minted EXCEPT ![k.req] = @ + 1]
    /\ Leave(c)
    /\ UNCHANGED <<acct, dev, rate, frozen, approved>>

(* A second call for a request whose row is locked waits for the row, and  *)
(* with it the loop.                                                       *)
Freeze ==
    /\ ~frozen
    /\ \E r \in Reqs : RowLocked(r)
    /\ frozen' = TRUE
    /\ UNCHANGED <<acct, dev, req, sess, call, rate, minted, approved, overtaken>>

(* The process ends: open transactions roll back.                          *)
Restart ==
    /\ call' = [c \in Calls |-> NoCall]
    /\ frozen' = FALSE
    /\ overtaken' = {}
    /\ UNCHANGED <<acct, dev, req, sess, rate, minted, approved>>

-----------------------------------------------------------------------------
(* trust_device: the signed-in device itself, from the session's address.  *)
(* Without a term a new device is trusted for ever, a known one for 30 days.*)
Trust(x, p, term) ==
    LET k == <<x.user, p>> IN
    /\ ~frozen
    /\ dev[k].term # "none" => term = "dated"
    /\ dev' = [dev EXCEPT ![k] = [term |-> term, ip |-> x.ip]]
    /\ UNCHANGED <<acct, req, sess, call, rate, frozen, minted, approved, overtaken>>

(* untrust_device and untrust_all_devices delete rows, and only those.     *)
Untrust(x, gone) ==
    /\ ~frozen
    /\ dev' = [k \in Users \X Prints |->
                 IF k[1] = x.user /\ k[2] \in gone THEN NoDevice ELSE dev[k]]
    /\ UNCHANGED <<acct, req, sess, call, rate, frozen, minted, approved, overtaken>>

(* An ordinary login, and the end of any session.                          *)
SignIn(u, a) ==
    /\ ~frozen /\ acct[u].open
    /\ sess' = sess \cup {[user |-> u, ip |-> a, req |-> None]}
    /\ UNCHANGED <<acct, dev, req, call, rate, frozen, minted, approved, overtaken>>
SignOut(x) ==
    /\ sess' = sess \ {x}
    /\ UNCHANGED <<acct, dev, req, call, rate, frozen, minted, approved, overtaken>>

(* Lock the account, or begin to demand an OTP: both end its sessions.     *)
Tighten(u, field) ==
    /\ ~frozen
    /\ acct' = [acct EXCEPT ![u] = IF field = "open" THEN [@ EXCEPT !.open = FALSE]
                                                     ELSE [@ EXCEPT !.demand = TRUE]]
    /\ sess' = sess \ SessionsOf(u)
    /\ overtaken' = overtaken \cup AtGate(u)
    /\ UNCHANGED <<dev, req, call, rate, frozen, minted, approved>>
Relax(u, field) ==
    /\ ~frozen
    /\ acct' = [acct EXCEPT ![u] = IF field = "open" THEN [@ EXCEPT !.open = TRUE]
                                                     ELSE [@ EXCEPT !.demand = FALSE]]
    /\ UNCHANGED <<dev, req, sess, call, rate, frozen, minted, approved, overtaken>>

(* Time: five minutes for a request, a device's term, a rate window.       *)
RequestLapses(r) ==
    /\ req[r].status # "free" /\ ~req[r].due
    /\ req' = [req EXCEPT ![r].due = TRUE]
    /\ UNCHANGED <<acct, dev, sess, call, rate, frozen, minted, approved, overtaken>>
DeviceLapses(k) ==
    /\ dev[k].term = "dated"
    /\ dev' = [dev EXCEPT ![k].term = "past"]
    /\ UNCHANGED <<acct, req, sess, call, rate, frozen, minted, approved, overtaken>>
WindowEnds(a) ==
    /\ rate[a] > 0
    /\ rate' = [rate EXCEPT ![a] = 0]
    /\ UNCHANGED <<acct, dev, req, sess, call, frozen, minted, approved, overtaken>>

Next ==
    \/ \E c \in Calls, u \in Users, p \in Prints, a \in Addrs : Ask(c, u, p, a)
    \/ \E a \in Addrs : AskRejected(a)
    \/ \E c \in Calls : AskEnds(c)
    \/ \E c \in Calls, r \in Reqs : AskPasses(c, r)
    \/ \E x \in Usable, r \in Reqs : Approve(x, r)
    \/ \E r \in Reqs : FindOverdue(r)
    \/ \E c \in Calls, r \in Reqs : Complete(c, r)
    \/ \E c \in Calls : CompleteHeld(c)
    \/ \E c \in Calls : CompletePasses(c)
    \/ Freeze
    \/ Restart
    \/ \E x \in Usable, p \in Prints, t \in {"endless", "dated"} : Trust(x, p, t)
    \/ \E x \in Usable, gone \in {Prints} \cup {{p} : p \in Prints} : Untrust(x, gone)
    \/ \E u \in Users, a \in Addrs : SignIn(u, a)
    \/ \E x \in sess : SignOut(x)
    \/ \E u \in Users, f \in {"open", "demand"} : Tighten(u, f)
    \/ \E u \in Users, f \in {"open", "demand"} : Relax(u, f)
    \/ \E r \in Reqs : RequestLapses(r)
    \/ \E k \in Users \X Prints : DeviceLapses(k)
    \/ \E a \in Addrs : WindowEnds(a)

Spec == Init /\ [][Next]_vars

-----------------------------------------------------------------------------
(* One approval is worth one session: neither a second completion racing   *)
(* the first at the gate, nor approving the request again, mints another.  *)
ApprovalMintsOnce ==
    \A r \in Reqs :
        /\ minted[r] <= 1
        /\ Cardinality({c \in Calls : call[c].pc = "completing" /\ call[c].req = r})
             + minted[r] <= 1

(* A session that a request minted is for the account and the address that *)
(* asked, and a session of that account had approved it.                   *)
SessionsComeFromApprovals ==
    \A x \in sess : x.req # None =>
        /\ x.req \in approved
        /\ req[x.req].consumed
        /\ x.user = req[x.req].user /\ x.ip = req[x.req].ip

(* A device has one outstanding request at a time: two calls that wait at  *)
(* the gate together do not both insert one, nor does one that lapses stay *)
(* pending beside its successor.                                           *)
OneRequestPerDevice ==
    \A q, r \in Reqs :
        /\ req[q].status = "pending" /\ req[r].status = "pending"
        /\ req[q].user = req[r].user /\ req[q].print = req[r].print
        => q = r

(* A request that was refused stays refused: no approval revives it.       *)
RefusedStaysRefused ==
    [][\A r \in Reqs : req[r].status \in {"failed", "expired"}
                         => req'[r].status \in {"failed", "expired"}]_vars

(* "A newly raised MFA requirement must win even if the request was        *)
(* approved earlier", unless it was raised while the completion waited at  *)
(* the gate; the same for a lock.                                          *)
DemandWinsOutsideTheGate ==
    [][\A r \in Reqs : minted'[r] > minted[r] =>
         LET a == acct[req[r].user] IN
         a.demand \/ ~a.open => \E c \in overtaken : call[c].req = r]_vars

-----------------------------------------------------------------------------
(* What the proofs rest on: the inductive invariant.                       *)

(* A completion at the gate has the only approved, unused request it holds *)
(* to itself, and is for the account and the address of that request.      *)
GateIsExclusive ==
    \A c \in Calls : call[c].pc = "completing" =>
        /\ call[c].req \in Reqs
        /\ req[call[c].req].status = "completed"
        /\ ~req[call[c].req].consumed
        /\ req[call[c].req].user = call[c].user
        /\ req[call[c].req].ip = call[c].ip
        /\ \A d \in Calls :
             call[d].pc = "completing" /\ call[d].req = call[c].req => d = c

(* A request counts as used once it has minted; what a session approved    *)
(* may become anything but new.                                            *)
RequestRows ==
    \A r \in Reqs :
        /\ minted[r] = IF req[r].consumed THEN 1 ELSE 0
        /\ req[r].status = "free" => ~req[r].consumed /\ ~req[r].due
        /\ req[r].status = "completed" \/ req[r].consumed => r \in approved
        /\ req[r].status # "free" => req[r].user \in Users /\ req[r].ip \in Addrs

(* What a call at the gate has read of its account is true, unless it was  *)
(* overtaken.                                                              *)
ReadsAreCurrent ==
    \A c \in Calls : call[c].pc # "idle" =>
        /\ call[c].user \in Users /\ call[c].ip \in Addrs
        /\ c \notin overtaken =>
             acct[call[c].user].open /\ ~acct[call[c].user].demand

IndInv ==
    /\ TypeOK /\ GateIsExclusive /\ RequestRows /\ ReadsAreCurrent
    /\ SessionsComeFromApprovals /\ OneRequestPerDevice
=============================================================================
