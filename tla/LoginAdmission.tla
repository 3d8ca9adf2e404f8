--------------------------- MODULE LoginAdmission ---------------------------
(***************************************************************************)
(* How requests get through the workers and the row locks of the core      *)
(* database (the rate limit of app/auth.py login, and every handler that   *)
(* writes an account row).                                                 *)
(*                                                                         *)
(* A worker is a uvicorn process: one event loop that runs one coroutine   *)
(* at a time, and the database driver is synchronous.  A statement that    *)
(* waits for a row lock therefore holds the whole loop, while a coroutine  *)
(* that awaits the risk gate or the mail server leaves the loop to others  *)
(* and keeps the row locks of its open transaction.                        *)
(*                                                                         *)
(* login selects its address' row of rate_limits FOR UPDATE and keeps it   *)
(* to its commit; with no row yet it locks nothing and inserts one at its  *)
(* first flush.  A flush writes a new rate row before a changed account.   *)
(*                                                                         *)
(* ABSTRACTED.  Time is counted in windows: a row is fresh for a request   *)
(* of the same window or an earlier one.  Of an account only the lock on   *)
(* its row is kept (CoreAuth has what is written), of the handlers other   *)
(* than login only that they update one account row and commit.            *)
(***************************************************************************)
EXTENDS Naturals, FiniteSets

CONSTANTS
    Requests,       \* bounds the requests ever made
    Workers,        \* uvicorn processes; the Dockerfile starts one
    Addrs,          \* client addresses
    Users,          \* accounts
    None,           \* no request, no address
    MaxCount,       \* rate_limits.max_count
    MaxWindow       \* bound on the windows that elapse

ASSUME NoneAssumption == None \notin Requests /\ None \notin Addrs
ASSUME KeysAssumption == Addrs \cap Users = {} /\ None \notin Users
ASSUME LimitAssumption == MaxCount \in Nat \ {0} /\ MaxWindow \in Nat

VARIABLES
    clock,      \* the current window
    rate,       \* rate_limits, as committed; a count of 0 is no row
    req,        \* the requests
    running,    \* the request whose coroutine has the loop of each worker
    counted     \* HISTORY: the logins counted since each row's window began

vars == <<clock, rate, req, running, counted>>

RateRow == [start : 0..MaxWindow, count : 0..MaxCount]
Request ==
    [pc : {"new", "arrived", "select", "gate", "flush", "mail",
           "answered", "refused", "error", "dropped"},
     addr : Addrs \cup {None},      \* None: not a login
     user : Users, worker : Workers,
     now : 0..MaxWindow,            \* the clock login read when it began
     sawRow : BOOLEAN,              \* the SELECT found a row
     row : RateRow,                 \* what login will write to it
     locks : SUBSET (Addrs \cup Users),
     todo : SUBSET (Addrs \cup Users),      \* rows the next flush still needs
     mail : BOOLEAN]                \* await the mail server before the commit

TypeOK ==
    /\ clock \in 0..MaxWindow
    /\ rate \in [Addrs -> RateRow]
    /\ req \in [Requests -> Request]
    /\ running \in [Workers -> Requests \cup {None}]
    /\ counted \in [Addrs -> SUBSET Requests]

NoRow == [start |-> 0, count |-> 0]
NewRequest(a, u, w) ==
    [pc |-> "arrived", addr |-> a, user |-> u, worker |-> w, now |-> 0,
     sawRow |-> FALSE, row |-> NoRow, locks |-> {}, todo |-> {}, mail |-> FALSE]

Init ==
    /\ clock = 0
    /\ rate = [a \in Addrs |-> NoRow]
    /\ \E u \in Users, w \in Workers :
          req = [r \in Requests |-> [NewRequest(None, u, w) EXCEPT !.pc = "new"]]
    /\ running = [w \in Workers |-> None]
    /\ counted = [a \in Addrs |-> {}]

-----------------------------------------------------------------------------
Worker(r) == req[r].worker
HasLoop(r) == running[Worker(r)] = r
LoopFree(r) == running[Worker(r)] = None
TakeLoop(r) == running' = [running EXCEPT ![Worker(r)] = r]
LeaveLoop(r) == running' = [running EXCEPT ![Worker(r)] = None]

Over(r) == req[r].pc \in {"answered", "refused", "error", "dropped"}
Suspended(r) == req[r].pc \in {"gate", "mail"}
Exists(a) == rate[a].count > 0
LockedBy(x, q) == x \in req[q].locks

(* Over, one way or the other: the transaction ends and its locks with it. *)
Close(r, pc) ==
    [req[r] EXCEPT !.pc = pc, !.locks = {}, !.todo = {}]

(* The row login writes, from the row it selected.                         *)
NextRow(a, now) ==
    IF Exists(a) /\ rate[a].start >= now
    THEN [rate[a] EXCEPT !.count = @ + 1]
    ELSE [start |-> now, count |-> 1]

(* The row that the next statement of the request with the loop needs: the *)
(* one login selects FOR UPDATE, or the next one its flush writes.         *)
Needs(r) ==
    LET q == req[r] IN
    CASE q.pc = "select" -> IF Exists(q.addr) THEN {q.addr} ELSE {}
      [] q.pc = "flush"  -> IF q.addr \in q.todo THEN {q.addr} ELSE q.todo
      [] OTHER           -> {}

(* An INSERT waits for another transaction's insert or update of its key;  *)
(* a row that is only locked, as at the gate, fails it at once.            *)
Inserts(r, x) == req[r].pc = "flush" /\ x = req[r].addr
BlockedBy(r, q) ==
    /\ q # r
    /\ \E x \in Needs(r) : LockedBy(x, q) /\ (Inserts(r, x) => req[q].pc # "gate")
Granted(r) == \A q \in Requests : ~BlockedBy(r, q)

-----------------------------------------------------------------------------
(* login counts its request, in memory, and goes on: with a right password *)
(* to the gate; otherwise to a flush of the count, with the failure count  *)
(* of the account if that exists and is not locked (dirty).                *)
Count(r, right, dirty, locks) ==
    LET a == req[r].addr
        insert == IF Exists(a) THEN {} ELSE {a}
        update == IF dirty THEN {req[r].user} ELSE {}
    IN
    /\ req' = [req EXCEPT ![r] =
         [req[r] EXCEPT !.sawRow = Exists(a), !.row = NextRow(a, req[r].now),
                        !.locks = locks,
                        !.pc = IF right THEN "gate" ELSE "flush",
                        !.todo = IF right THEN {} ELSE insert \cup update]]
    /\ IF right THEN LeaveLoop(r) ELSE UNCHANGED running
    /\ UNCHANGED <<clock, rate, counted>>
RowOf(a) == IF Exists(a) THEN {a} ELSE {}

(* MUTANTS.  Each is an action below with one plausible mistake in it; no  *)
(* behaviour of Spec uses them.                                            *)

(* The SELECT without FOR UPDATE.                                          *)
AdmitWithoutLock(r, right, dirty) ==
    /\ req[r].pc = "select"
    /\ NextRow(req[r].addr, req[r].now).count <= MaxCount
    /\ Count(r, right, dirty, {})

(* One login more than the limit.                                          *)
AdmitOneMore(r, right, dirty) ==
    /\ req[r].pc = "select" /\ Granted(r)
    /\ NextRow(req[r].addr, req[r].now).count <= MaxCount + 1
    /\ Count(r, right, dirty, RowOf(req[r].addr))

(* login locks its account before its rate row.                            *)
BeginAccountFirst(r) ==
    /\ req[r].pc = "arrived"
    /\ LoopFree(r) /\ TakeLoop(r)
    /\ \A q \in Requests : ~LockedBy(req[r].user, q)
    /\ req' = [req EXCEPT ![r].pc = IF req[r].addr = None THEN "flush" ELSE "select",
                          ![r].locks = {req[r].user},
                          ![r].now = clock]
    /\ UNCHANGED <<clock, rate, counted>>

(* The database does not notice that the worker died.                      *)
CrashKeepsLocks(w) ==
    LET lost == {r \in Requests : Worker(r) = w /\ ~Over(r) /\ req[r].pc # "new"} IN
    /\ lost # {}
    /\ req' = [r \in Requests |->
         IF r \in lost THEN [req[r] EXCEPT !.pc = "dropped"] ELSE req[r]]
    /\ running' = [running EXCEPT ![w] = None]
    /\ UNCHANGED <<clock, rate, counted>>

-----------------------------------------------------------------------------
Arrive(r, a, u, w) ==
    /\ req[r].pc = "new"
    /\ req' = [req EXCEPT ![r] = NewRequest(a, u, w)]
    /\ UNCHANGED <<clock, rate, running, counted>>

(* The loop runs the handler: login to its SELECT, another to its UPDATE.  *)
Begin(r) ==
    /\ req[r].pc = "arrived"
    /\ LoopFree(r) /\ TakeLoop(r)
    /\ req' = [req EXCEPT ![r] =
         IF req[r].addr = None
         THEN [req[r] EXCEPT !.pc = "flush", !.todo = {req[r].user}]
         ELSE [req[r] EXCEPT !.pc = "select", !.now = clock]]
    /\ UNCHANGED <<clock, rate, counted>>

(* 429: the window is full.  login commits, which frees the row.           *)
Refuse(r) ==
    /\ req[r].pc = "select" /\ Granted(r)
    /\ NextRow(req[r].addr, req[r].now).count > MaxCount
    /\ LeaveLoop(r)
    /\ req' = [req EXCEPT ![r] = Close(r, "refused")]
    /\ UNCHANGED <<clock, rate, counted>>

(* The row is locked, if there is one, until the commit.                   *)
Admit(r, right, dirty) ==
    /\ req[r].pc = "select" /\ Granted(r)
    /\ NextRow(req[r].addr, req[r].now).count <= MaxCount
    /\ Count(r, right, dirty, RowOf(req[r].addr))

(* The gate answered, or failed open after its three seconds: a session    *)
(* (which writes last_login_at), or a challenge, which writes the account  *)
(* only if the flag or the failure count changed (dirty).                  *)
GateReturns(r, challenge, dirty) ==
    LET a == req[r].addr IN
    /\ req[r].pc = "gate"
    /\ ~challenge => dirty
    /\ LoopFree(r) /\ TakeLoop(r)
    /\ req' = [req EXCEPT ![r].pc = "flush", ![r].mail = challenge,
                          ![r].todo = (IF req[r].sawRow THEN {} ELSE {a})
                                      \cup (IF dirty THEN {req[r].user} ELSE {})]
    /\ UNCHANGED <<clock, rate, counted>>

(* One INSERT or UPDATE of the flush; it waits for whoever holds the row.  *)
Flush(r) ==
    /\ req[r].pc = "flush" /\ req[r].todo # {} /\ Granted(r)
    /\ req[r].addr \in req[r].todo => ~Exists(req[r].addr)
    /\ req' = [req EXCEPT ![r].locks = @ \cup Needs(r), ![r].todo = @ \ Needs(r)]
    /\ UNCHANGED <<clock, rate, running, counted>>

(* Another login has inserted the row since: IntegrityError, rolled back.  *)
InsertFails(r) ==
    /\ req[r].pc = "flush" /\ Granted(r)
    /\ req[r].addr \in req[r].todo /\ Exists(req[r].addr)
    /\ LeaveLoop(r)
    /\ req' = [req EXCEPT ![r] = Close(r, "error")]
    /\ UNCHANGED <<clock, rate, counted>>

(* The challenge is flushed: await the mail server.                        *)
AwaitMail(r) ==
    /\ req[r].pc = "flush" /\ req[r].todo = {} /\ req[r].mail
    /\ LeaveLoop(r)
    /\ req' = [req EXCEPT ![r].pc = "mail"]
    /\ UNCHANGED <<clock, rate, counted>>

(* The commit, of a flushed request or of one the mail server answered.    *)
Commit(r) ==
    LET a == req[r].addr IN
    /\ \/ req[r].pc = "mail" /\ LoopFree(r)
       \/ req[r].pc = "flush" /\ req[r].todo = {} /\ ~req[r].mail
    /\ LeaveLoop(r)
    /\ req' = [req EXCEPT ![r] = Close(r, "answered")]
    /\ IF a = None THEN UNCHANGED <<rate, counted>>
       ELSE /\ rate' = [rate EXCEPT ![a] = req[r].row]
            /\ counted' = [counted EXCEPT ![a] =
                 {r} \cup IF req[r].row.count = 1 THEN {} ELSE @]
    /\ UNCHANGED clock

(* A worker dies: its connections close and their transactions roll back.  *)
Crash(w) ==
    LET lost == {r \in Requests : Worker(r) = w /\ ~Over(r) /\ req[r].pc # "new"} IN
    /\ lost # {}
    /\ req' = [r \in Requests |-> IF r \in lost THEN Close(r, "dropped") ELSE req[r]]
    /\ running' = [running EXCEPT ![w] = None]
    /\ UNCHANGED <<clock, rate, counted>>

(* A minute passes.                                                        *)
WindowElapses ==
    /\ clock < MaxWindow    \* bound
    /\ clock' = clock + 1
    /\ UNCHANGED <<rate, req, running, counted>>

-----------------------------------------------------------------------------
(* What the loops, the gate, the mail server and the database do for r.    *)
Step(r) ==
    \/ Begin(r) \/ Refuse(r) \/ Flush(r) \/ InsertFails(r) \/ AwaitMail(r) \/ Commit(r)
    \/ \E right, dirty \in BOOLEAN : Admit(r, right, dirty)
    \/ \E challenge, dirty \in BOOLEAN : GateReturns(r, challenge, dirty)

Next ==
    \/ \E r \in Requests : Step(r)
    \/ \E r \in Requests, a \in Addrs \cup {None}, u \in Users, w \in Workers :
          Arrive(r, a, u, w)
    \/ \E w \in Workers : Crash(w)
    \/ WindowElapses

Spec == Init /\ [][Next]_vars

(* A loop runs every coroutine that is ready, the gate answers or times    *)
(* out, and so does the mail server.  Nothing makes a worker crash.        *)
FairSpec == Spec /\ \A r \in Requests : WF_vars(Step(r))

-----------------------------------------------------------------------------
(* PROPERTIES *)

(* Whatever the workers interleave, and whoever crashes or fails, a        *)
(* committed rate row counts exactly the logins committed in its window:   *)
(* no count is lost between a login's SELECT and its commit, which the     *)
(* await at the gate separates, and none is counted twice.                 *)
RateRowCountsItsLogins ==
    \A a \in Addrs : rate[a].count = Cardinality(counted[a])

(* A request waits for another one in a statement for its row lock, or     *)
(* suspended for its own worker's loop.                                    *)
WaitsForLoop(r, q) == Suspended(r) /\ q # r /\ HasLoop(q) /\ Worker(q) = Worker(r)
WaitsFor(r) == {q \in Requests : BlockedBy(r, q) \/ WaitsForLoop(r, q)}
Waiting == {r \in Requests : WaitsFor(r) # {}}

(* Rate rows before account rows, in login and in every flush: row locks   *)
(* alone never close a cycle, so every one that closes runs through a      *)
(* login that is suspended at the gate or the mail server.                 *)
RowLocksAloneNeverCycle ==
    \A S \in (SUBSET Requests) \ {{}} :
        ~ \A r \in S : \E q \in S : BlockedBy(r, q)

(* The requests the workers have accepted are answered (or a worker dies), *)
(* unless some loop waits for a row that a login suspended on such a loop  *)
(* holds: there is no other way to wait forever.                           *)
Frozen == \E S \in (SUBSET Waiting) \ {{}} : \A r \in S : WaitsFor(r) \cap S # {}
Accepted == {r \in Requests : req[r].pc # "new" /\ ~Over(r)}
AnsweredUnlessFrozen == Accepted # {} ~> Accepted = {} \/ Frozen

(* _pre_token_risk "Fails **open**: any error, timeout or missing          *)
(* configuration returns" and lets the login proceed: no login stays at    *)
(* the gate.                                                               *)
GateFailsOpen ==
    \A r \in Requests : req[r].pc = "gate" ~> req[r].pc # "gate"

-----------------------------------------------------------------------------
(* What the proofs rest on: the inductive invariant.                       *)

(* Locks are held between the SELECT and the commit, on the request's own  *)
(* rows; the account is the last row that it locks.                        *)
Holding == {"gate", "flush", "mail"}
LocksAreOrdered ==
    \A r \in Requests : LET q == req[r] IN
        /\ q.pc \notin Holding => q.locks = {}
        /\ q.pc # "flush" => q.todo = {}
        /\ q.locks \cup q.todo \subseteq {q.addr, q.user}
        /\ q.locks \cap q.todo = {}
        /\ q.user \in q.locks => q.todo = {} /\ q.pc # "gate"

LocksAreExclusive ==
    \A r, q \in Requests : req[r].locks \cap req[q].locks # {} => r = q

(* What a login is about to write to its rate row is still right: it holds *)
(* the row since it read it, or it found none and inserts a first count.   *)
PendingRows ==
    \A r \in Requests : LET q == req[r] IN
        q.addr # None /\ q.pc \in Holding =>
            /\ q.row.count >= 1
            /\ q.row.count = 1 \/ q.sawRow
            /\ q.sawRow => /\ q.addr \in q.locks /\ Exists(q.addr)
                           /\ q.row.count \in {1, rate[q.addr].count + 1}
            /\ q.pc = "gate" /\ ~q.sawRow => q.locks = {}
            /\ q.pc = "flush" => q.addr \in q.locks \cup q.todo
            /\ q.pc = "mail" => q.addr \in q.locks

CountedAreAnswered ==
    \A a \in Addrs :
        /\ IsFiniteSet(counted[a])
        /\ \A r \in counted[a] : r \in Requests /\ req[r].pc = "answered"

(* Only a login selects its rate row and asks the gate.                    *)
LoginsSelect ==
    \A r \in Requests : req[r].pc \in {"select", "gate"} => req[r].addr # None

IndInv ==
    /\ TypeOK /\ LoginsSelect /\ LocksAreOrdered /\ LocksAreExclusive /\ PendingRows
    /\ CountedAreAnswered /\ RateRowCountsItsLogins
=============================================================================
