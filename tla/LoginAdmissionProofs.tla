------------------------ MODULE LoginAdmissionProofs ------------------------
(***************************************************************************)
(* Proofs about LoginAdmission for any number of requests, workers,        *)
(* addresses and accounts.                                                 *)
(*                                                                         *)
(* Two facts carry the rest: a request locks the account last, so that one *)
(* with its account locked waits for no row; and a login holds its rate    *)
(* row from its SELECT to its commit, so that the count it read is still   *)
(* the row's when it writes the next one.                                  *)
(***************************************************************************)
EXTENDS LoginAdmission, FiniteSetTheorems, TLAPS

-----------------------------------------------------------------------------
(* Type correctness *)

(* A closed request is a request.                                          *)
LEMMA CloseTyped ==
    ASSUME TypeOK, NEW r \in Requests, NEW pc \in {"answered", "refused", "error", "dropped"}
    PROVE  Close(r, pc) \in Request
<1>1. req[r] \in Request
  BY DEF TypeOK
<1> QED  BY <1>1 DEF Close, Request

(* The loop of a worker is somebody's, or nobody's.                        *)
LEMMA LoopTyped ==
    ASSUME TypeOK, NEW r \in Requests, TakeLoop(r) \/ LeaveLoop(r)
    PROVE  running' \in [Workers -> Requests \cup {None}]
BY DEF TypeOK, TakeLoop, LeaveLoop

(* The row that login writes fits its columns when it passes the limit.    *)
LEMMA NextRowTyped ==
    ASSUME TypeOK, NEW a \in Addrs, NEW now \in 0..MaxWindow,
           NextRow(a, now).count <= MaxCount
    PROVE  NextRow(a, now) \in RateRow
<1>1. rate[a] \in RateRow
  BY DEF TypeOK
<1>2. rate[a].count + 1 \in Nat /\ [rate[a] EXCEPT !.count = @ + 1].count = rate[a].count + 1
  BY <1>1 DEF RateRow
<1>3. CASE Exists(a) /\ rate[a].start >= now
  <2>1. NextRow(a, now) = [rate[a] EXCEPT !.count = @ + 1]
    BY <1>3 DEF NextRow
  <2>2. rate[a].count + 1 \in 0..MaxCount
    BY <1>2, <2>1, LimitAssumption
  <2> QED  BY <1>1, <2>1, <2>2 DEF RateRow
<1>4. CASE ~(Exists(a) /\ rate[a].start >= now)
  <2>1. NextRow(a, now) = [start |-> now, count |-> 1]
    BY <1>4, Zenon DEF NextRow
  <2> QED  BY <2>1, LimitAssumption DEF RateRow
<1> QED  BY <1>3, <1>4

(* No step leaves a row or a request outside its range: what login counts  *)
(* never passes the limit.                                                 *)
LEMMA TypeStep == IndInv /\ [Next]_vars => TypeOK'
<1> SUFFICES ASSUME IndInv, [Next]_vars
             PROVE  TypeOK'
  OBVIOUS
<1> USE DEF IndInv
<1>a. NoRow \in RateRow
  BY LimitAssumption DEF NoRow, RateRow
<1>b. \A r \in Requests : req[r] \in Request
  BY DEF TypeOK
<1>1. ASSUME NEW r \in Requests, NEW a \in Addrs \cup {None}, NEW u \in Users,
             NEW w \in Workers, Arrive(r, a, u, w)
      PROVE  TypeOK'
  <2>1. NewRequest(a, u, w) \in Request
    BY <1>a, LimitAssumption DEF NewRequest, Request
  <2>2. req' \in [Requests -> Request]
    BY <1>1, <2>1 DEF TypeOK, Arrive
  <2> QED  BY <1>1, <2>2 DEF TypeOK, Arrive
<1>2. ASSUME NEW r \in Requests, Begin(r)
      PROVE  TypeOK'
  <2>1. [req[r] EXCEPT !.pc = "flush", !.todo = {req[r].user}] \in Request
    <3>1. {req[r].user} \in SUBSET (Addrs \cup Users)
      BY <1>b DEF Request
    <3>2. \A t \in SUBSET (Addrs \cup Users) :
            [req[r] EXCEPT !.pc = "flush", !.todo = t] \in Request
      BY <1>b DEF Request
    <3> QED  BY <3>1, <3>2
  <2>2. [req[r] EXCEPT !.pc = "select", !.now = clock] \in Request
    BY <1>b DEF Request, TypeOK
  <2>3. req' \in [Requests -> Request]
    BY <1>2, <2>1, <2>2 DEF TypeOK, Begin
  <2> QED  BY <1>2, <2>3, LoopTyped DEF TypeOK, Begin
<1>3. ASSUME NEW r \in Requests, Refuse(r) \/ InsertFails(r)
      PROVE  TypeOK'
  BY <1>3, CloseTyped, LoopTyped DEF TypeOK, Refuse, InsertFails
<1>4. ASSUME NEW r \in Requests, NEW right \in BOOLEAN, NEW dirty \in BOOLEAN,
             Admit(r, right, dirty)
      PROVE  TypeOK'
  <2> DEFINE a == req[r].addr
  <2>1. a \in Addrs /\ req[r].user \in Users /\ req[r].now \in 0..MaxWindow
    BY <1>4, <1>b DEF Admit, LoginsSelect, Request
  <2>2. NextRow(a, req[r].now) \in RateRow
    BY <1>4, <2>1, NextRowTyped DEF Admit
  <2>3. Exists(a) \in BOOLEAN /\ RowOf(a) \in SUBSET (Addrs \cup Users)
    BY <2>1 DEF Exists, RowOf
  <2>4. \A pc \in {"gate", "flush"}, t \in SUBSET (Addrs \cup Users) :
          [req[r] EXCEPT !.sawRow = Exists(a), !.row = NextRow(a, req[r].now),
                         !.locks = RowOf(a), !.pc = pc, !.todo = t] \in Request
    BY <1>b, <2>2, <2>3 DEF Request
  <2>5. (IF right THEN {} ELSE (IF Exists(a) THEN {} ELSE {a})
                               \cup (IF dirty THEN {req[r].user} ELSE {}))
          \in SUBSET (Addrs \cup Users)
    BY <2>1
  <2>6. req' \in [Requests -> Request]
    BY <1>4, <2>4, <2>5 DEF TypeOK, Admit, Count
  <2> QED  BY <1>4, <2>6, LoopTyped DEF TypeOK, Admit, Count
<1>5. ASSUME NEW r \in Requests, NEW challenge \in BOOLEAN, NEW dirty \in BOOLEAN,
             GateReturns(r, challenge, dirty)
      PROVE  TypeOK'
  <2>1. req[r].addr \in Addrs /\ req[r].user \in Users
    BY <1>5, <1>b DEF GateReturns, LoginsSelect, Request
  <2>2. \A t \in SUBSET (Addrs \cup Users) :
          [req[r] EXCEPT !.pc = "flush", !.mail = challenge, !.todo = t] \in Request
    BY <1>b DEF Request
  <2>3. ((IF req[r].sawRow THEN {} ELSE {req[r].addr})
           \cup (IF dirty THEN {req[r].user} ELSE {})) \in SUBSET (Addrs \cup Users)
    BY <2>1
  <2>4. req' = [req EXCEPT ![r] = [req[r] EXCEPT !.pc = "flush", !.mail = challenge,
                  !.todo = (IF req[r].sawRow THEN {} ELSE {req[r].addr})
                           \cup (IF dirty THEN {req[r].user} ELSE {})]]
    BY <1>5 DEF TypeOK, GateReturns
  <2>5. req' \in [Requests -> Request]
    BY <2>2, <2>3, <2>4 DEF TypeOK
  <2> QED  BY <1>5, <2>5, LoopTyped DEF TypeOK, GateReturns
<1>6. ASSUME NEW r \in Requests, Flush(r)
      PROVE  TypeOK'
  <2>1. Needs(r) \in SUBSET (Addrs \cup Users)
    BY <1>6, <1>b DEF Flush, Needs, Request
  <2>2. [req[r] EXCEPT !.locks = @ \cup Needs(r), !.todo = @ \ Needs(r)] \in Request
    BY <1>b, <2>1 DEF Request
  <2>3. req' = [req EXCEPT ![r] = [req[r] EXCEPT !.locks = @ \cup Needs(r),
                                                 !.todo = @ \ Needs(r)]]
    BY <1>6 DEF TypeOK, Flush
  <2> QED  BY <1>6, <2>2, <2>3 DEF TypeOK, Flush
<1>7. ASSUME NEW r \in Requests, AwaitMail(r)
      PROVE  TypeOK'
  <2>1. [req[r] EXCEPT !.pc = "mail"] \in Request
    BY <1>b DEF Request
  <2> QED  BY <1>7, <2>1, LoopTyped DEF TypeOK, AwaitMail
<1>8. ASSUME NEW r \in Requests, Commit(r)
      PROVE  TypeOK'
  <2>1. req' \in [Requests -> Request] /\ running' \in [Workers -> Requests \cup {None}]
    BY <1>8, CloseTyped, LoopTyped DEF TypeOK, Commit
  <2>2. rate' \in [Addrs -> RateRow]
    BY <1>8, <1>b DEF TypeOK, Commit, Request
  <2>3. counted' \in [Addrs -> SUBSET Requests]
    BY <1>8 DEF TypeOK, Commit
  <2> QED  BY <1>8, <2>1, <2>2, <2>3 DEF TypeOK, Commit
<1>9. ASSUME NEW w \in Workers, Crash(w)
      PROVE  TypeOK'
  <2>1. req' \in [Requests -> Request]
    BY <1>9, CloseTyped DEF TypeOK, Crash
  <2> QED  BY <1>9, <2>1 DEF TypeOK, Crash
<1>10. CASE WindowElapses
  BY <1>10, LimitAssumption DEF TypeOK, WindowElapses
<1>11. CASE UNCHANGED vars
  BY <1>11 DEF TypeOK, vars
<1> QED
  BY <1>1, <1>2, <1>3, <1>4, <1>5, <1>6, <1>7, <1>8, <1>9, <1>10, <1>11 DEF Next, Step

-----------------------------------------------------------------------------
(* Row by row *)

(* What each step does to the row of its own request; the other requests   *)
(* are left as they are, and only a commit writes the rate rows.           *)
LEMMA StepRows ==
    ASSUME IndInv, NEW r \in Requests, Step(r)
    PROVE  /\ \A q \in Requests : q # r => req'[q] = req[q]
           /\ req'[r].addr = req[r].addr /\ req'[r].user = req[r].user
           /\ req[r].pc \notin {"new", "answered", "refused", "error", "dropped"}
           /\ Commit(r) \/ UNCHANGED <<rate, counted>>
<1> USE DEF IndInv
<1>1. req[r] \in Request /\ \A pc : Close(r, pc).addr = req[r].addr /\ Close(r, pc).user = req[r].user
  BY DEF TypeOK, Request, Close
<1>2. CASE Begin(r)
  <2>1. /\ \A q \in Requests : q # r => req'[q] = req[q]
        /\ req'[r] = IF req[r].addr = None
                     THEN [req[r] EXCEPT !.pc = "flush", !.todo = {req[r].user}]
                     ELSE [req[r] EXCEPT !.pc = "select", !.now = clock]
    BY <1>2 DEF TypeOK, Begin
  <2> QED  BY <1>1, <1>2, <2>1 DEF Begin, Request
<1>3. CASE Refuse(r) \/ InsertFails(r)
  BY <1>1, <1>3 DEF TypeOK, Refuse, InsertFails
<1>4. ASSUME NEW right \in BOOLEAN, NEW dirty \in BOOLEAN, Admit(r, right, dirty)
      PROVE  /\ \A q \in Requests : q # r => req'[q] = req[q]
             /\ req'[r].addr = req[r].addr /\ req'[r].user = req[r].user
             /\ req[r].pc = "select" /\ UNCHANGED <<rate, counted>>
  <2>1. PICK s, w, l, p, t : req' = [req EXCEPT ![r] =
          [req[r] EXCEPT !.sawRow = s, !.row = w, !.locks = l, !.pc = p, !.todo = t]]
    BY <1>4 DEF Admit, Count
  <2>2. /\ \A q \in Requests : q # r => req'[q] = req[q]
        /\ req'[r] = [req[r] EXCEPT !.sawRow = s, !.row = w, !.locks = l, !.pc = p, !.todo = t]
    BY <2>1 DEF TypeOK
  <2> QED  BY <1>1, <1>4, <2>2 DEF Admit, Count, Request
<1>5. ASSUME NEW challenge \in BOOLEAN, NEW dirty \in BOOLEAN, GateReturns(r, challenge, dirty)
      PROVE  /\ \A q \in Requests : q # r => req'[q] = req[q]
             /\ req'[r].addr = req[r].addr /\ req'[r].user = req[r].user
             /\ req[r].pc = "gate" /\ UNCHANGED <<rate, counted>>
  <2>1. PICK t : req' = [req EXCEPT ![r].pc = "flush", ![r].mail = challenge, ![r].todo = t]
    BY <1>5 DEF GateReturns
  <2>2. /\ \A q \in Requests : q # r => req'[q] = req[q]
        /\ req'[r] = [req[r] EXCEPT !.pc = "flush", !.mail = challenge, !.todo = t]
    BY <2>1 DEF TypeOK
  <2>3. req'[r].addr = req[r].addr /\ req'[r].user = req[r].user
    BY <1>1, <2>2 DEF Request
  <2> QED  BY <1>5, <2>2, <2>3 DEF GateReturns
<1>6. CASE Flush(r)
  <2>1. /\ \A q \in Requests : q # r => req'[q] = req[q]
        /\ req'[r] = [req[r] EXCEPT !.locks = @ \cup Needs(r), !.todo = @ \ Needs(r)]
    BY <1>6 DEF TypeOK, Flush
  <2>2. req'[r].addr = req[r].addr /\ req'[r].user = req[r].user
    BY <1>1, <2>1 DEF Request
  <2> QED  BY <1>6, <2>1, <2>2 DEF Flush
<1>7. CASE AwaitMail(r)
  <2>1. /\ \A q \in Requests : q # r => req'[q] = req[q]
        /\ req'[r] = [req[r] EXCEPT !.pc = "mail"]
    BY <1>7 DEF TypeOK, AwaitMail
  <2> QED  BY <1>1, <1>7, <2>1 DEF AwaitMail, Request
<1>8. CASE Commit(r)
  BY <1>1, <1>8 DEF TypeOK, Commit
<1> QED  BY <1>2, <1>3, <1>4, <1>5, <1>6, <1>7, <1>8 DEF Step

(* What each step makes of its request's locks, its outstanding writes and *)
(* the row it is to write.                                                 *)
LEMMA StepLocks ==
    ASSUME IndInv, NEW r \in Requests, Step(r)
    PROVE  LET old == req[r]
               new == req'[r] IN
           \/ /\ new.pc \notin Holding /\ new.locks = {} /\ new.todo = {}
           \/ /\ old.pc = "arrived" /\ old.addr = None /\ new.pc = "flush"
              /\ new.locks = {} /\ new.todo = {old.user}
           \/ /\ old.pc = "select" /\ Granted(r) /\ new.pc = "gate"
              /\ new.locks = RowOf(old.addr) /\ new.todo = {}
              /\ new.sawRow = Exists(old.addr) /\ new.row = NextRow(old.addr, old.now)
           \/ /\ old.pc = "select" /\ Granted(r) /\ new.pc = "flush"
              /\ new.locks = RowOf(old.addr)
              /\ new.todo \in {{old.addr} \ RowOf(old.addr),
                              ({old.addr} \ RowOf(old.addr)) \cup {old.user}}
              /\ new.sawRow = Exists(old.addr) /\ new.row = NextRow(old.addr, old.now)
           \/ /\ old.pc = "gate" /\ new.pc = "flush" /\ new.locks = old.locks
              /\ new.todo \in {IF old.sawRow THEN {} ELSE {old.addr},
                              (IF old.sawRow THEN {} ELSE {old.addr}) \cup {old.user}}
              /\ new.sawRow = old.sawRow /\ new.row = old.row
           \/ /\ old.pc = "flush" /\ new.pc = "flush" /\ Flush(r)
              /\ new.locks = old.locks \cup Needs(r) /\ new.todo = old.todo \ Needs(r)
              /\ new.sawRow = old.sawRow /\ new.row = old.row
           \/ /\ old.pc = "flush" /\ old.todo = {} /\ new.pc = "mail"
              /\ new.locks = old.locks /\ new.todo = {}
              /\ new.sawRow = old.sawRow /\ new.row = old.row
<1> USE DEF IndInv
<1>a. req[r] \in Request
  BY DEF TypeOK
<1>b. \A pc : /\ Close(r, pc).pc = pc
              /\ Close(r, pc).locks = {} /\ Close(r, pc).todo = {}
  BY <1>a DEF Request, Close
<1>c. req[r].pc # "flush" => req[r].todo = {}
  BY DEF LocksAreOrdered
<1>d. req[r].pc \notin Holding => req[r].locks = {}
  BY DEF LocksAreOrdered
<1>1. CASE Begin(r) /\ req[r].addr = None
  <2>1. req'[r] = [req[r] EXCEPT !.pc = "flush", !.todo = {req[r].user}]
    BY <1>1 DEF TypeOK, Begin
  <2>2. req'[r].pc = "flush" /\ req'[r].todo = {req[r].user} /\ req'[r].locks = req[r].locks
    BY <1>a, <2>1 DEF Request
  <2>3. req[r].locks = {}
    BY <1>1, <1>d DEF Begin, Holding
  <2> QED  BY <1>1, <2>2, <2>3 DEF Begin
<1>2. CASE Begin(r) /\ req[r].addr # None
  <2>1. req'[r] = [req[r] EXCEPT !.pc = "select", !.now = clock]
    BY <1>2 DEF TypeOK, Begin
  <2>2. req'[r].pc = "select" /\ req'[r].todo = req[r].todo /\ req'[r].locks = req[r].locks
    BY <1>a, <2>1 DEF Request
  <2>3. req[r].locks = {} /\ req[r].todo = {}
    BY <1>2, <1>c, <1>d DEF Begin, Holding
  <2> QED  BY <2>2, <2>3 DEF Holding
<1>3. CASE Refuse(r)
  BY <1>b, <1>3 DEF TypeOK, Refuse, Holding
<1>4. CASE InsertFails(r)
  BY <1>b, <1>4 DEF TypeOK, InsertFails, Holding
<1>5. CASE Commit(r)
  BY <1>b, <1>5 DEF TypeOK, Commit, Holding
<1>6. ASSUME NEW right \in BOOLEAN, NEW dirty \in BOOLEAN, Admit(r, right, dirty)
      PROVE  LET old == req[r]
                 new == req'[r] IN
             /\ old.pc = "select" /\ Granted(r)
             /\ new.pc = IF right THEN "gate" ELSE "flush"
             /\ new.locks = RowOf(old.addr)
             /\ new.todo = IF right THEN {}
                            ELSE ({old.addr} \ RowOf(old.addr))
                                 \cup (IF dirty THEN {old.user} ELSE {})
             /\ new.sawRow = Exists(old.addr) /\ new.row = NextRow(old.addr, old.now)
  <2> DEFINE t == IF right THEN {}
                  ELSE (IF Exists(req[r].addr) THEN {} ELSE {req[r].addr})
                       \cup (IF dirty THEN {req[r].user} ELSE {})
             n == NextRow(req[r].addr, req[r].now)
  <2>1. req'[r] = [req[r] EXCEPT !.sawRow = Exists(req[r].addr), !.row = n,
                                 !.locks = RowOf(req[r].addr),
                                 !.pc = IF right THEN "gate" ELSE "flush", !.todo = t]
    BY <1>6 DEF TypeOK, Admit, Count
  <2>2. (IF Exists(req[r].addr) THEN {} ELSE {req[r].addr}) = {req[r].addr} \ RowOf(req[r].addr)
    BY DEF RowOf
  <2>3. t = IF right THEN {} ELSE ({req[r].addr} \ RowOf(req[r].addr))
                                 \cup (IF dirty THEN {req[r].user} ELSE {})
    BY <2>2
  <2> HIDE DEF t, n
  <2>4. /\ req'[r].sawRow = Exists(req[r].addr) /\ req'[r].row = n
        /\ req'[r].locks = RowOf(req[r].addr)
        /\ req'[r].pc = (IF right THEN "gate" ELSE "flush") /\ req'[r].todo = t
    BY <1>a, <2>1 DEF Request
  <2> QED  BY <1>6, <2>3, <2>4 DEF Admit, n
<1>7. ASSUME NEW challenge \in BOOLEAN, NEW dirty \in BOOLEAN, GateReturns(r, challenge, dirty)
      PROVE  LET old == req[r]
                 new == req'[r] IN
             /\ old.pc = "gate" /\ new.pc = "flush" /\ new.locks = old.locks
             /\ new.todo = (IF old.sawRow THEN {} ELSE {old.addr})
                           \cup (IF dirty THEN {old.user} ELSE {})
             /\ new.sawRow = old.sawRow /\ new.row = old.row
  <2> DEFINE t == (IF req[r].sawRow THEN {} ELSE {req[r].addr})
                  \cup (IF dirty THEN {req[r].user} ELSE {})
  <2>1. req'[r] = [req[r] EXCEPT !.pc = "flush", !.mail = challenge, !.todo = t]
    BY <1>7 DEF TypeOK, GateReturns
  <2> HIDE DEF t
  <2>2. /\ req'[r].pc = "flush" /\ req'[r].locks = req[r].locks /\ req'[r].todo = t
        /\ req'[r].sawRow = req[r].sawRow /\ req'[r].row = req[r].row
    BY <1>a, <2>1 DEF Request
  <2> QED  BY <1>7, <2>2 DEF GateReturns, t
<1>8. CASE Flush(r)
  <2>1. req'[r] = [req[r] EXCEPT !.locks = @ \cup Needs(r), !.todo = @ \ Needs(r)]
    BY <1>8 DEF TypeOK, Flush
  <2>2. /\ req'[r].pc = req[r].pc /\ req'[r].locks = req[r].locks \cup Needs(r)
        /\ req'[r].todo = req[r].todo \ Needs(r)
        /\ req'[r].sawRow = req[r].sawRow /\ req'[r].row = req[r].row
    BY <1>a, <2>1 DEF Request
  <2>3. req[r].pc = "flush"
    BY <1>8 DEF Flush
  <2> QED  BY <1>8, <2>2, <2>3
<1>9. CASE AwaitMail(r)
  <2>1. req'[r] = [req[r] EXCEPT !.pc = "mail"]
    BY <1>9 DEF TypeOK, AwaitMail
  <2>2. /\ req'[r].pc = "mail" /\ req'[r].locks = req[r].locks /\ req'[r].todo = req[r].todo
        /\ req'[r].sawRow = req[r].sawRow /\ req'[r].row = req[r].row
    BY <1>a, <2>1 DEF Request
  <2> QED  BY <1>9, <2>2 DEF AwaitMail
<1>10. ASSUME NEW right \in BOOLEAN, NEW dirty \in BOOLEAN, Admit(r, right, dirty)
       PROVE  \/ /\ req'[r].pc = "gate" /\ req'[r].todo = {}
              \/ /\ req'[r].pc = "flush"
                 /\ req'[r].todo \in {{req[r].addr} \ RowOf(req[r].addr),
                            ({req[r].addr} \ RowOf(req[r].addr)) \cup {req[r].user}}
  BY <1>6, <1>10
<1>11. ASSUME NEW challenge \in BOOLEAN, NEW dirty \in BOOLEAN, GateReturns(r, challenge, dirty)
       PROVE  req'[r].todo \in {IF req[r].sawRow THEN {} ELSE {req[r].addr},
                     (IF req[r].sawRow THEN {} ELSE {req[r].addr}) \cup {req[r].user}}
  BY <1>7, <1>11
<1>12. CASE \E right, dirty \in BOOLEAN : Admit(r, right, dirty)
  BY <1>6, <1>10, <1>12, Zenon
<1>13. CASE \E challenge, dirty \in BOOLEAN : GateReturns(r, challenge, dirty)
  BY <1>7, <1>11, <1>13, Zenon
<1> QED  BY <1>1, <1>2, <1>3, <1>4, <1>5, <1>8, <1>9, <1>12, <1>13, Zenon DEF Step

(* A step that is no request's own: one arrives, a worker dies with the    *)
(* requests it has, or time passes.                                        *)
LEMMA OtherRows ==
    ASSUME IndInv, [Next]_vars
    PROVE  \/ \E r \in Requests : Step(r)
           \/ /\ UNCHANGED <<rate, counted>>
              /\ \A r \in Requests :
                   \/ req'[r] = req[r]
                   \/ /\ ~Over(r) /\ req'[r].pc \in {"arrived", "dropped"}
                      /\ req'[r].locks = {} /\ req'[r].todo = {}
<1> USE DEF IndInv
<1>1. ASSUME NEW r \in Requests, NEW a, NEW u, NEW w, Arrive(r, a, u, w)
      PROVE  /\ UNCHANGED <<rate, counted>>
             /\ \A q \in Requests :
                  \/ req'[q] = req[q]
                  \/ /\ ~Over(q) /\ req'[q].pc \in {"arrived", "dropped"}
                     /\ req'[q].locks = {} /\ req'[q].todo = {}
  BY <1>1 DEF Arrive, NewRequest, Over, TypeOK
<1>2. ASSUME NEW w, Crash(w)
      PROVE  /\ UNCHANGED <<rate, counted>>
             /\ \A q \in Requests :
                  \/ req'[q] = req[q]
                  \/ /\ ~Over(q) /\ req'[q].pc \in {"arrived", "dropped"}
                     /\ req'[q].locks = {} /\ req'[q].todo = {}
  <2> DEFINE lost == {r \in Requests : Worker(r) = w /\ ~Over(r) /\ req[r].pc # "new"}
  <2>1. UNCHANGED <<rate, counted>>
        /\ req' = [r \in Requests |-> IF r \in lost THEN Close(r, "dropped") ELSE req[r]]
    BY <1>2 DEF Crash
  <2>2. \A q \in Requests : /\ Close(q, "dropped").pc = "dropped"
                            /\ Close(q, "dropped").locks = {}
                            /\ Close(q, "dropped").todo = {}
    BY DEF TypeOK, Request, Close
  <2> QED  BY <2>1, <2>2
<1>3. WindowElapses \/ UNCHANGED vars =>
        UNCHANGED <<rate, counted>> /\ \A q \in Requests : req'[q] = req[q]
  BY DEF WindowElapses, vars
<1> QED  BY <1>1, <1>2, <1>3, Zenon DEF Next

-----------------------------------------------------------------------------
(* The inductive invariant *)

(* Addresses and accounts are keys of different tables.                    *)
LEMMA KeysDiffer ==
    ASSUME TypeOK, NEW r \in Requests
    PROVE  /\ req[r].addr \in Addrs \cup {None} /\ req[r].user \in Users
           /\ req[r].addr # req[r].user
<1>1. req[r] \in Request
  BY DEF TypeOK
<1> QED  BY <1>1, KeysAssumption DEF Request

(* The gate and the SELECT are login's.                                    *)
LEMMA LoginsStep == IndInv /\ [Next]_vars => LoginsSelect'
<1> SUFFICES ASSUME IndInv, [Next]_vars
             PROVE  LoginsSelect'
  OBVIOUS
<1> USE DEF IndInv
<1>1. ASSUME NEW r \in Requests, Step(r)
      PROVE  LoginsSelect'
  <2>1. \A q \in Requests : q # r => req'[q] = req[q]
    BY <1>1, StepRows
  <2>2. req'[r].addr = req[r].addr
    BY <1>1, StepRows
  <2>3. req'[r].pc \in {"select", "gate"} => req[r].addr # None
    <3>1. CASE Begin(r)
      <4>1. req'[r] = IF req[r].addr = None
                     THEN [req[r] EXCEPT !.pc = "flush", !.todo = {req[r].user}]
                     ELSE [req[r] EXCEPT !.pc = "select", !.now = clock]
        BY <3>1 DEF TypeOK, Begin
      <4>2. req[r] \in Request
        BY DEF TypeOK
      <4> QED  BY <4>1, <4>2 DEF Request
    <3>2. CASE \E right, dirty \in BOOLEAN : Admit(r, right, dirty)
      BY <3>2 DEF Admit, LoginsSelect
    <3>3. CASE \E challenge, dirty \in BOOLEAN : GateReturns(r, challenge, dirty)
      BY <3>3 DEF GateReturns, LoginsSelect
    <3>4. CASE Refuse(r) \/ InsertFails(r) \/ Commit(r)
      <4>1. req[r] \in Request
        BY DEF TypeOK
      <4>2. \A pc : Close(r, pc).pc = pc
        BY <4>1 DEF Close, Request
      <4>3. req'[r].pc \in {"refused", "error", "answered"}
        BY <3>4, <4>2 DEF TypeOK, Refuse, InsertFails, Commit
      <4> QED  BY <4>3
    <3>5. CASE Flush(r) \/ AwaitMail(r)
      <4>1. req[r] \in Request /\ req[r].pc = "flush"
        BY <3>5 DEF TypeOK, Flush, AwaitMail
      <4>2. \/ req'[r] = [req[r] EXCEPT !.locks = @ \cup Needs(r), !.todo = @ \ Needs(r)]
            \/ req'[r] = [req[r] EXCEPT !.pc = "mail"]
        BY <3>5 DEF TypeOK, Flush, AwaitMail
      <4> QED  BY <4>1, <4>2 DEF Request
    <3> QED  BY <1>1, <3>1, <3>2, <3>3, <3>4, <3>5 DEF Step
  <2> QED  BY <2>1, <2>2, <2>3 DEF LoginsSelect
<1>2. ASSUME \A r \in Requests :
               \/ req'[r] = req[r]
               \/ req'[r].pc \in {"arrived", "dropped"}
      PROVE  LoginsSelect'
  BY <1>2 DEF LoginsSelect
<1> QED  BY <1>1, <1>2, OtherRows

(* A request writes its rate row before its account, and never locks more. *)
LEMMA OrderStep == IndInv /\ [Next]_vars => LocksAreOrdered'
<1> SUFFICES ASSUME IndInv, [Next]_vars
             PROVE  LocksAreOrdered'
  OBVIOUS
<1> USE DEF IndInv
<1> DEFINE Ordered(q) ==
      /\ q.pc \notin Holding => q.locks = {}
      /\ q.pc # "flush" => q.todo = {}
      /\ q.locks \cup q.todo \subseteq {q.addr, q.user}
      /\ q.locks \cap q.todo = {}
      /\ q.user \in q.locks => q.todo = {} /\ q.pc # "gate"
<1>a. LocksAreOrdered <=> \A r \in Requests : Ordered(req[r])
  BY DEF LocksAreOrdered
<1>b. LocksAreOrdered' <=> \A r \in Requests : Ordered(req'[r])
  BY DEF LocksAreOrdered
<1>1. ASSUME NEW r \in Requests, Step(r)
      PROVE  LocksAreOrdered'
  <2> DEFINE old == req[r]
             new == req'[r]
  <2>1. /\ \A q \in Requests : q # r => req'[q] = req[q]
        /\ new.addr = old.addr /\ new.user = old.user
    BY <1>1, StepRows
  <2>2. Ordered(old) /\ old.addr # old.user
    BY <1>a, KeysDiffer
  <2> SUFFICES Ordered(new)
    <3> HIDE DEF Ordered
    <3> QED  BY <1>a, <1>b, <2>1
  <2>3. RowOf(old.addr) \subseteq {old.addr}
    BY DEF RowOf
  <2>4. CASE new.pc \notin Holding /\ new.locks = {} /\ new.todo = {}
    BY <2>4
  <2>5. CASE new.pc = "flush" /\ new.locks = {} /\ new.todo = {old.user}
    BY <2>1, <2>5 DEF Holding
  <2>6. CASE new.pc = "gate" /\ new.locks = RowOf(old.addr) /\ new.todo = {}
    BY <2>1, <2>2, <2>3, <2>6 DEF Holding
  <2>7. CASE /\ new.pc = "flush" /\ new.locks = RowOf(old.addr)
             /\ new.todo \in {{old.addr} \ RowOf(old.addr),
                             ({old.addr} \ RowOf(old.addr)) \cup {old.user}}
    BY <2>1, <2>2, <2>3, <2>7 DEF Holding
  <2>8. CASE /\ old.pc = "gate" /\ new.pc = "flush" /\ new.locks = old.locks
             /\ new.todo \in {IF old.sawRow THEN {} ELSE {old.addr},
                             (IF old.sawRow THEN {} ELSE {old.addr}) \cup {old.user}}
    <3>1. ~old.sawRow => old.locks = {}
      BY <2>8 DEF PendingRows, LoginsSelect, Holding
    <3>2. old.user \notin old.locks
      BY <2>2, <2>8
    <3> QED  BY <2>1, <2>2, <2>8, <3>1, <3>2 DEF Holding
  <2>9. CASE /\ old.pc = "flush" /\ new.pc = "flush" /\ Flush(r)
             /\ new.locks = old.locks \cup Needs(r) /\ new.todo = old.todo \ Needs(r)
    <3>1. Needs(r) = IF old.addr \in old.todo THEN {old.addr} ELSE old.todo
      BY <2>9 DEF Needs
    <3>2. old.todo # {} /\ old.user \notin old.locks
      BY <2>2, <2>9 DEF Flush
    <3>3. CASE old.addr \in old.todo
      BY <2>1, <2>2, <2>9, <3>1, <3>2, <3>3 DEF Holding
    <3>4. CASE old.addr \notin old.todo
      BY <2>1, <2>2, <2>9, <3>1, <3>4 DEF Holding
    <3> QED  BY <3>3, <3>4
  <2>10. CASE /\ old.pc = "flush" /\ new.pc = "mail"
              /\ new.locks = old.locks /\ new.todo = {}
    BY <2>1, <2>2, <2>10 DEF Holding
  <2> HIDE DEF Ordered, old, new
  <2> QED  BY <1>1, <2>4, <2>5, <2>6, <2>7, <2>8, <2>9, <2>10, StepLocks DEF old, new
<1>2. ASSUME \A r \in Requests :
               \/ req'[r] = req[r]
               \/ req'[r].pc \in {"arrived", "dropped"} /\ req'[r].locks = {} /\ req'[r].todo = {}
      PROVE  LocksAreOrdered'
  <2>1. ASSUME NEW q, q.pc \in {"arrived", "dropped"}, q.locks = {}, q.todo = {}
        PROVE  Ordered(q)
    BY <2>1
  <2> HIDE DEF Ordered
  <2> QED  BY <1>a, <1>b, <1>2, <2>1
<1> HIDE DEF Ordered
<1> QED  BY <1>1, <1>2, OtherRows

(* A row has one holder: a SELECT and an UPDATE wait for it, and an INSERT  *)
(* that does not, of a login at the gate, finds the row that login holds.  *)
LEMMA ExclusiveStep == IndInv /\ [Next]_vars => LocksAreExclusive'
<1> SUFFICES ASSUME IndInv, [Next]_vars
             PROVE  LocksAreExclusive'
  OBVIOUS
<1> USE DEF IndInv
<1>1. ASSUME NEW r \in Requests, Step(r)
      PROVE  LocksAreExclusive'
  <2>1. \A q \in Requests : q # r => req'[q] = req[q]
    BY <1>1, StepRows
  <2> SUFFICES ASSUME NEW q \in Requests, q # r, NEW x \in req'[r].locks, x \in req[q].locks
               PROVE  FALSE
    BY <2>1 DEF LocksAreExclusive
  <2>2. x \notin req[r].locks
    BY DEF LocksAreExclusive
  <2>3. CASE req[r].pc = "select" /\ Granted(r) /\ x \in RowOf(req[r].addr)
    <3>1. x \in Needs(r) /\ ~Inserts(r, x)
      BY <2>3 DEF RowOf, Needs, Inserts
    <3> QED  BY <2>3, <3>1 DEF Granted, BlockedBy, LockedBy
  <2>4. CASE Flush(r) /\ x \in Needs(r)
    <3>1. Inserts(r, x) /\ req[q].pc = "gate"
      BY <2>4 DEF Flush, Granted, BlockedBy, LockedBy
    <3>2. req[r].addr \in req[r].todo /\ x = req[r].addr
      <4>1. x \in req[r].todo
        BY <2>4, <3>1 DEF Flush, Needs, Inserts
      <4> QED  BY <3>1, <4>1 DEF Inserts
    <3>3. ~Exists(x)
      BY <2>4, <3>2 DEF Flush
    <3>4. x = req[q].addr
      BY <3>1 DEF LocksAreOrdered
    <3>5. Exists(x)
      BY <3>1, <3>4 DEF PendingRows, LoginsSelect, Holding
    <3> QED  BY <3>3, <3>5
  <2> QED  BY <1>1, <2>2, <2>3, <2>4, StepLocks
<1>2. ASSUME \A r \in Requests : req'[r] = req[r] \/ req'[r].locks = {}
      PROVE  LocksAreExclusive'
  BY <1>2 DEF LocksAreExclusive
<1> QED  BY <1>1, <1>2, OtherRows

(* A login that commits holds its rate row.                                *)
LEMMA CommitHolds ==
    ASSUME IndInv, NEW r \in Requests, Commit(r), req[r].addr # None
    PROVE  /\ req[r].pc \in {"flush", "mail"} /\ req[r].addr \in req[r].locks
           /\ req[r].row.count >= 1
           /\ req[r].row.count = 1 \/ req[r].row.count = rate[req[r].addr].count + 1
BY DEF IndInv, Commit, PendingRows, Holding

(* What a login is about to write stays right while it holds the row.      *)
LEMMA PendingStep == IndInv /\ [Next]_vars => PendingRows'
<1> SUFFICES ASSUME IndInv, [Next]_vars
             PROVE  PendingRows'
  OBVIOUS
<1> USE DEF IndInv
<1> DEFINE Right(q, table) ==
      q.addr # None /\ q.pc \in Holding =>
            /\ q.row.count >= 1
            /\ q.row.count = 1 \/ q.sawRow
            /\ q.sawRow => /\ q.addr \in q.locks /\ table[q.addr].count > 0
                           /\ q.row.count \in {1, table[q.addr].count + 1}
            /\ q.pc = "gate" /\ ~q.sawRow => q.locks = {}
            /\ q.pc = "flush" => q.addr \in q.locks \cup q.todo
            /\ q.pc = "mail" => q.addr \in q.locks
<1>a. PendingRows <=> \A r \in Requests : Right(req[r], rate)
  BY DEF PendingRows, Exists
<1>b. PendingRows' <=> \A r \in Requests : Right(req'[r], rate')
  BY DEF PendingRows, Exists
<1>1. ASSUME NEW r \in Requests, Step(r)
      PROVE  PendingRows'
  <2>1. /\ \A q \in Requests : q # r => req'[q] = req[q]
        /\ req'[r].addr = req[r].addr /\ req'[r].user = req[r].user
        /\ Commit(r) \/ UNCHANGED <<rate, counted>>
    BY <1>1, StepRows
  <2>2. CASE Commit(r)
    <3>1. ~(req'[r].pc \in Holding)
      <4>1. req[r] \in Request
        BY DEF TypeOK
      <4>2. Close(r, "answered").pc = "answered"
        BY <4>1 DEF Close, Request
      <4> QED  BY <2>2, <4>2 DEF Commit, TypeOK, Holding
    <3>2. ASSUME NEW q \in Requests, q # r, req[q].addr # None, req[q].pc \in Holding,
                 req[q].sawRow
          PROVE  rate'[req[q].addr] = rate[req[q].addr]
      <4>1. CASE req[r].addr = None
        BY <2>2, <4>1 DEF Commit
      <4>2. CASE req[r].addr # None
        <5>1. req[q].addr \in req[q].locks
          BY <3>2 DEF PendingRows
        <5>2. req[r].addr \in req[r].locks
          BY <2>2, <4>2, CommitHolds
        <5>3. req[q].addr # req[r].addr
          BY <3>2, <5>1, <5>2 DEF LocksAreExclusive
        <5>4. req[q].addr \in Addrs
          BY <3>2, KeysDiffer
        <5> QED  BY <2>2, <4>2, <5>3, <5>4 DEF Commit, TypeOK
      <4> QED  BY <4>1, <4>2
    <3>3. ASSUME NEW q \in Requests, q # r
          PROVE  Right(req'[q], rate')
      BY <1>a, <2>1, <3>2, <3>3
    <3> QED  BY <1>b, <3>1, <3>3
  <2>3. CASE ~Commit(r)
    <3>1. UNCHANGED rate
      BY <2>1, <2>3
    <3>2. ASSUME NEW q \in Requests, q # r
          PROVE  Right(req'[q], rate')
      <4>1. req'[q] = req[q] /\ Right(req[q], rate)
        BY <1>a, <2>1, <3>2
      <4> HIDE DEF Right
      <4> QED  BY <3>1, <4>1
    <3>3. Right(req'[r], rate')
      <4> DEFINE old == req[r]
                 new == req'[r]
      <4>1. Right(old, rate)
        BY <1>a
      <4>2. CASE new.pc \notin Holding \/ new.addr = None
        BY <4>2
      <4>3. CASE /\ old.addr # None /\ new.pc \in {"gate", "flush"}
                 /\ new.locks = RowOf(old.addr) /\ new.sawRow = Exists(old.addr)
                 /\ new.row = NextRow(old.addr, old.now)
                 /\ new.pc = "flush" => {old.addr} \ RowOf(old.addr) \subseteq new.todo
        <5>1. old.addr \in Addrs
          BY <4>3, KeysDiffer
        <5>2. rate[old.addr] \in RateRow
          BY <5>1 DEF TypeOK
        <5>3. [rate[old.addr] EXCEPT !.count = @ + 1].count = rate[old.addr].count + 1
              /\ rate[old.addr].count \in Nat
          BY <5>2, LimitAssumption DEF RateRow
        <5>4. \/ Exists(old.addr) /\ new.row.count = rate[old.addr].count + 1
              \/ new.row.count = 1
          BY <4>3, <5>3 DEF NextRow
        <5>5. new.row.count >= 1 /\ (new.row.count = 1 \/ new.sawRow)
          BY <4>3, <5>3, <5>4
        <5>6. new.sawRow => /\ old.addr \in new.locks /\ rate[old.addr].count > 0
                           /\ new.row.count \in {1, rate[old.addr].count + 1}
          BY <4>3, <5>4 DEF RowOf, Exists
        <5>7. ~new.sawRow => new.locks = {}
          BY <4>3 DEF RowOf
        <5>8. new.pc = "flush" => old.addr \in new.locks \cup new.todo
          BY <4>3
        <5> HIDE DEF old, new
        <5> QED  BY <2>1, <3>1, <4>3, <5>5, <5>6, <5>7, <5>8 DEF old, new
      <4>4. CASE /\ old.addr # None
                 /\ old.pc = "gate" /\ new.pc = "flush" /\ new.locks = old.locks
                 /\ ~old.sawRow => old.addr \in new.todo
                 /\ new.sawRow = old.sawRow /\ new.row = old.row
        BY <2>1, <3>1, <4>1, <4>4 DEF Holding
      <4>5. CASE /\ old.addr # None /\ old.pc = "flush" /\ new.pc = "flush"
                 /\ new.locks = old.locks \cup Needs(r) /\ new.todo = old.todo \ Needs(r)
                 /\ new.sawRow = old.sawRow /\ new.row = old.row
        BY <2>1, <3>1, <4>1, <4>5 DEF Holding
      <4>6. CASE /\ old.addr # None /\ old.pc = "flush" /\ old.todo = {} /\ new.pc = "mail"
                 /\ new.locks = old.locks
                 /\ new.sawRow = old.sawRow /\ new.row = old.row
        BY <2>1, <3>1, <4>1, <4>6 DEF Holding
      <4>7. new.addr = old.addr
        BY <2>1
      <4>8. ~old.sawRow => old.addr \in (IF old.sawRow THEN {} ELSE {old.addr})
        OBVIOUS
      <4> HIDE DEF Right, old, new
      <4> QED
        BY <1>1, <4>2, <4>3, <4>4, <4>5, <4>6, <4>7, <4>8, StepLocks DEF old, new
    <3> HIDE DEF Right
    <3> QED  BY <1>b, <3>2, <3>3
  <2> QED  BY <2>2, <2>3
<1>2. ASSUME UNCHANGED rate,
             \A r \in Requests : req'[r] = req[r] \/ req'[r].pc \in {"arrived", "dropped"}
      PROVE  PendingRows'
  <2>1. ASSUME NEW q, q.pc \in {"arrived", "dropped"}
        PROVE  Right(q, rate)
    BY <2>1 DEF Holding
  <2> HIDE DEF Right
  <2> QED  BY <1>a, <1>b, <1>2, <2>1
<1> HIDE DEF Right
<1> QED  BY <1>1, <1>2, OtherRows

(* The count is the number of logins counted: a commit writes the count it *)
(* read and one more, or begins a new window with itself.                  *)
LEMMA CountStep ==
    IndInv /\ [Next]_vars => (CountedAreAnswered /\ RateRowCountsItsLogins)'
<1> SUFFICES ASSUME IndInv, [Next]_vars
             PROVE  (CountedAreAnswered /\ RateRowCountsItsLogins)'
  OBVIOUS
<1> USE DEF IndInv
<1>a. ASSUME UNCHANGED <<rate, counted>>,
             \A r \in Requests : req[r].pc = "answered" => req'[r].pc = "answered"
      PROVE  (CountedAreAnswered /\ RateRowCountsItsLogins)'
  BY <1>a DEF CountedAreAnswered, RateRowCountsItsLogins
<1>1. ASSUME NEW r \in Requests, Step(r)
      PROVE  (CountedAreAnswered /\ RateRowCountsItsLogins)'
  <2>1. /\ \A q \in Requests : q # r => req'[q] = req[q]
        /\ req[r].pc # "answered"
        /\ Commit(r) \/ UNCHANGED <<rate, counted>>
    BY <1>1, StepRows
  <2>2. CASE ~Commit(r) \/ req[r].addr = None
    BY <1>a, <2>1, <2>2 DEF Commit
  <2>3. CASE Commit(r) /\ req[r].addr # None
    <3> DEFINE a == req[r].addr
               n == req[r].row.count
               before == IF n = 1 THEN {} ELSE counted[a]
    <3>1. a \in Addrs
      BY <2>3, KeysDiffer
    <3>2. /\ rate'[a].count = n /\ counted'[a] = {r} \cup before
          /\ \A b \in Addrs : b # a => rate'[b] = rate[b] /\ counted'[b] = counted[b]
      BY <2>3, <3>1 DEF Commit, TypeOK
    <3>3. req'[r].pc = "answered"
      <4>1. req[r] \in Request
        BY DEF TypeOK
      <4> QED  BY <2>3, <4>1 DEF Commit, Close, Request, TypeOK
    <3>4. IsFiniteSet(before) /\ r \notin before
      BY <2>1, <3>1, FS_EmptySet DEF CountedAreAnswered
    <3>5. n = Cardinality(before) + 1
      <4>1. n = 1 \/ n = rate[a].count + 1
        BY <2>3, CommitHolds
      <4>2. rate[a].count = Cardinality(counted[a])
        BY <3>1 DEF RateRowCountsItsLogins
      <4> QED  BY <4>1, <4>2, FS_EmptySet
    <3>6. IsFiniteSet(counted'[a]) /\ Cardinality(counted'[a]) = n
      <4>1. counted'[a] = before \cup {r}
        BY <3>2
      <4> HIDE DEF before, n, a
      <4> QED  BY <3>4, <3>5, <4>1, FS_AddElement
    <3>7. \A q \in counted'[a] : q \in Requests /\ req'[q].pc = "answered"
      BY <2>1, <3>1, <3>2, <3>3 DEF CountedAreAnswered
    <3>8. \A b \in Addrs : b # a => \A q \in counted[b] : req'[q].pc = "answered"
      BY <2>1 DEF CountedAreAnswered
    <3> HIDE DEF a, n, before
    <3>9. CountedAreAnswered'
      BY <3>2, <3>6, <3>7, <3>8 DEF CountedAreAnswered
    <3>10. RateRowCountsItsLogins'
      BY <3>2, <3>6 DEF RateRowCountsItsLogins
    <3> QED  BY <3>9, <3>10
  <2> QED  BY <2>2, <2>3
<1>2. ASSUME UNCHANGED <<rate, counted>>,
             \A r \in Requests : req'[r] = req[r] \/ ~Over(r)
      PROVE  (CountedAreAnswered /\ RateRowCountsItsLogins)'
  BY <1>a, <1>2 DEF Over
<1> QED  BY <1>1, <1>2, OtherRows

(* Nobody has asked for anything yet.                                      *)
LEMMA InitInv == Init => IndInv
<1> SUFFICES ASSUME Init
             PROVE  IndInv
  OBVIOUS
<1>1. PICK u \in Users, w \in Workers :
        req = [r \in Requests |-> [NewRequest(None, u, w) EXCEPT !.pc = "new"]]
  BY DEF Init
<1>2. NoRow \in RateRow
  BY LimitAssumption DEF NoRow, RateRow
<1>3. [NewRequest(None, u, w) EXCEPT !.pc = "new"] \in Request
  <2>1. NewRequest(None, u, w) \in Request
    BY <1>2, LimitAssumption DEF NewRequest, Request
  <2> QED  BY <2>1 DEF Request
<1>4. TypeOK
  BY <1>1, <1>2, <1>3, LimitAssumption DEF Init, TypeOK
<1>5. \A r \in Requests : req[r].pc = "new" /\ req[r].locks = {} /\ req[r].todo = {}
  BY <1>1 DEF NewRequest
<1>6. LoginsSelect /\ LocksAreOrdered /\ LocksAreExclusive /\ PendingRows
  BY <1>5 DEF LoginsSelect, LocksAreOrdered, LocksAreExclusive, PendingRows, Holding
<1>7. CountedAreAnswered /\ RateRowCountsItsLogins
  BY FS_EmptySet DEF Init, NoRow, CountedAreAnswered, RateRowCountsItsLogins
<1> QED  BY <1>4, <1>6, <1>7 DEF IndInv

-----------------------------------------------------------------------------
(* What every history satisfies *)

(* The inductive invariant holds in every reachable state.                 *)
THEOREM Invariance == Spec => []IndInv
<1>1. IndInv /\ [Next]_vars => IndInv'
  BY TypeStep, LoginsStep, OrderStep, ExclusiveStep, PendingStep, CountStep DEF IndInv
<1> QED  BY InitInv, <1>1, PTL DEF Spec

(* No step leaves a column out of its range; a rate row never counts past  *)
(* its limit.                                                              *)
THEOREM TypeCorrect == Spec => []TypeOK
<1>1. IndInv => TypeOK
  BY DEF IndInv
<1> QED  BY Invariance, <1>1, PTL

(* No count is lost between login's SELECT and its commit, whatever runs,  *)
(* fails or dies at its gate.                                              *)
THEOREM CountsAreExact == Spec => []RateRowCountsItsLogins
<1>1. IndInv => RateRowCountsItsLogins
  BY DEF IndInv
<1> QED  BY Invariance, <1>1, PTL

(* Row locks alone never deadlock: whoever blocks a blocked request holds  *)
(* its rate row and waits for an account, whose holder waits for nothing.  *)
THEOREM RowLocksAreAcyclic == Spec => []RowLocksAloneNeverCycle
<1>1. ASSUME IndInv, NEW r \in Requests, NEW q \in Requests, NEW p \in Requests, NEW o \in Requests,
             BlockedBy(r, q), BlockedBy(q, p), BlockedBy(p, o)
      PROVE  FALSE
  <2> USE DEF IndInv
  <2>1. ASSUME NEW x \in Requests, NEW y \in Requests, BlockedBy(x, y)
        PROVE  /\ req[x].pc = "select" => req[x].locks = {} /\ Needs(x) \subseteq {req[x].addr}
               /\ req[x].pc # "select" => /\ req[x].pc = "flush"
                                          /\ req[x].todo # {}
                                          /\ Needs(x) \subseteq req[x].todo
    <3>1. Needs(x) # {}
      BY <2>1 DEF BlockedBy
    <3>2. req[x].pc \in {"select", "flush"}
      BY <3>1 DEF Needs
    <3>3. req[x].pc = "select" => req[x].locks = {}
      BY <1>1 DEF LocksAreOrdered, Holding
    <3> QED  BY <3>1, <3>2, <3>3 DEF Needs
  <2>2. \A x \in Requests, y \in Requests : BlockedBy(x, y) => Needs(x) \cap req[y].locks # {}
    BY DEF BlockedBy, LockedBy
  <2>3. req[q].pc = "flush" /\ req[q].todo # {} /\ req[q].locks # {}
    BY <1>1, <2>1, <2>2
  <2>4. req[q].locks \subseteq {req[q].addr}
    BY <1>1, <2>3 DEF LocksAreOrdered
  <2>5. Needs(q) \subseteq {req[q].user}
    BY <1>1, <2>1, <2>3, <2>4 DEF LocksAreOrdered
  <2>6. req[q].user \in req[p].locks
    BY <1>1, <2>2, <2>5
  <2>7. req[p].user = req[q].user
    <3>1. req[q].user \in {req[p].addr, req[p].user}
      BY <1>1, <2>6 DEF LocksAreOrdered
    <3>2. req[p].addr \in Addrs \cup {None} /\ req[q].user \in Users
      BY <1>1, KeysDiffer
    <3> QED  BY <3>1, <3>2, KeysAssumption
  <2>8. req[p].todo = {} /\ req[p].pc # "select"
    BY <1>1, <2>6, <2>7 DEF LocksAreOrdered, Holding
  <2> QED  BY <1>1, <2>1, <2>8
<1>2. IndInv => RowLocksAloneNeverCycle
  <2> SUFFICES ASSUME IndInv, NEW S \in SUBSET Requests, S # {},
                      \A r \in S : \E q \in S : BlockedBy(r, q)
               PROVE  FALSE
    BY DEF RowLocksAloneNeverCycle
  <2>1. PICK r \in S : TRUE
    OBVIOUS
  <2>2. PICK q \in S : BlockedBy(r, q)
    OBVIOUS
  <2>3. PICK p \in S : BlockedBy(q, p)
    OBVIOUS
  <2>4. PICK o \in S : BlockedBy(p, o)
    OBVIOUS
  <2> QED  BY <1>1, <2>2, <2>3, <2>4
<1> QED  BY Invariance, <1>2, PTL

=============================================================================
