------------------------- MODULE TrustedDeviceProofs -------------------------
(***************************************************************************)
(* Proofs about TrustedDevice for any number of users, devices, addresses, *)
(* requests and calls at the gate.                                         *)
(*                                                                         *)
(* IndInv is inductive.  Half of the actions do not touch a request or a   *)
(* call; one fact about them is enough (Aside), so that a step is of one   *)
(* of eleven kinds (StepKinds).                                            *)
(***************************************************************************)
EXTENDS TrustedDevice, FiniteSetTheorems, TLAPS

(* What the account, the sessions, the devices and the clock may do beside *)
(* the requests: open sessions that no request minted, and make an account *)
(* stricter only by overtaking the calls that wait at its gate.            *)
Stricter(u) ==
    \/ acct[u].open /\ ~acct'[u].open
    \/ ~acct[u].demand /\ acct'[u].demand
Aside ==
    /\ UNCHANGED <<req, call, minted, approved>>
    /\ \A x \in sess' : x \in sess \/ x.req = None
    /\ overtaken \subseteq overtaken'
    /\ \A u \in Users, c \in Calls :
         Stricter(u) /\ call[c].pc # "idle" /\ call[c].user = u => c \in overtaken'

-----------------------------------------------------------------------------
(* The kinds of step *)

(* Locking an account, or demanding an OTP of it, overtakes its calls.     *)
LEMMA TightenIsAside ==
    ASSUME TypeOK, NEW u \in Users, NEW f \in {"open", "demand"}, Tighten(u, f)
    PROVE  Aside
<1>1. \A v \in Users : v # u => acct'[v] = acct[v]
  BY DEF Tighten, TypeOK
<1>2. \A v \in Users : Stricter(v) => v = u
  BY <1>1 DEF Stricter
<1>3. \A c \in Calls : call[c].pc # "idle" /\ call[c].user = u => c \in overtaken'
  BY DEF Tighten, AtGate
<1> QED  BY <1>2, <1>3 DEF Aside, Tighten

(* Unlocking it, or asking no OTP of it any more, is never stricter.       *)
LEMMA RelaxIsAside ==
    ASSUME TypeOK, NEW u \in Users, NEW f \in {"open", "demand"}, Relax(u, f)
    PROVE  Aside
<1>1. \A v \in Users : v # u => acct'[v] = acct[v]
  BY DEF Relax, TypeOK
<1>2. CASE f = "open"
  <2>1. acct'[u] = [acct[u] EXCEPT !.open = TRUE]
    BY <1>2 DEF Relax, TypeOK
  <2>2. ~Stricter(u)
    BY <2>1 DEF Stricter, TypeOK
  <2> QED  BY <1>1, <2>2 DEF Aside, Relax, Stricter
<1>3. CASE f = "demand"
  <2>1. acct'[u] = [acct[u] EXCEPT !.demand = FALSE]
    BY <1>3 DEF Relax, TypeOK
  <2>2. ~Stricter(u)
    BY <2>1 DEF Stricter, TypeOK
  <2> QED  BY <1>1, <2>2 DEF Aside, Relax, Stricter
<1> QED  BY <1>2, <1>3

(* Every step is about a request or a call, or it is aside.                *)
LEMMA StepKinds ==
    ASSUME TypeOK, [Next]_vars
    PROVE  \/ Aside
           \/ \E c \in Calls, u \in Users, p \in Prints, a \in Addrs : Ask(c, u, p, a)
           \/ \E c \in Calls : AskEnds(c)
           \/ \E c \in Calls, r \in Reqs : AskPasses(c, r)
           \/ \E x \in Usable, r \in Reqs : Approve(x, r)
           \/ \E r \in Reqs : FindOverdue(r)
           \/ \E c \in Calls, r \in Reqs : Complete(c, r)
           \/ \E c \in Calls : CompleteHeld(c)
           \/ \E c \in Calls : CompletePasses(c)
           \/ Restart
           \/ \E r \in Reqs : RequestLapses(r)
<1>1. ASSUME NEW a \in Addrs, AskRejected(a) \/ WindowEnds(a)
      PROVE  Aside
  BY <1>1 DEF AskRejected, WindowEnds, Aside, Stricter
<1>2. ASSUME Freeze
      PROVE  Aside
  BY <1>2 DEF Freeze, Aside, Stricter
<1>3. ASSUME NEW x \in Usable, NEW p \in Prints, NEW t \in {"endless", "dated"},
             Trust(x, p, t)
      PROVE  Aside
  BY <1>3 DEF Trust, Aside, Stricter
<1>4. ASSUME NEW x \in Usable, NEW gone, Untrust(x, gone)
      PROVE  Aside
  BY <1>4 DEF Untrust, Aside, Stricter
<1>5. ASSUME NEW u \in Users, NEW a \in Addrs, SignIn(u, a)
      PROVE  Aside
  BY <1>5 DEF SignIn, Aside, Stricter
<1>6. ASSUME NEW x \in sess, SignOut(x)
      PROVE  Aside
  BY <1>6 DEF SignOut, Aside, Stricter
<1>7. ASSUME NEW k \in Users \X Prints, DeviceLapses(k)
      PROVE  Aside
  BY <1>7 DEF DeviceLapses, Aside, Stricter
<1>8. CASE UNCHANGED vars
  BY <1>8 DEF vars, Aside, Stricter
<1> QED
  BY <1>1, <1>2, <1>3, <1>4, <1>5, <1>6, <1>7, <1>8,
     TightenIsAside, RelaxIsAside, ZenonT(60) DEF Next

(* What a call that the gate let pass does to the requests: it takes a new *)
(* row, and a pending row of the same device is closed, or it does nothing.*)
LEMMA AskPassesRows ==
    ASSUME TypeOK, ReadsAreCurrent, OneRequestPerDevice,
           NEW c \in Calls, NEW r \in Reqs, AskPasses(c, r)
    PROVE  \/ UNCHANGED req
           \/ /\ req[r].status = "free"
              /\ req'[r] = [status |-> "pending", user |-> call[c].user,
                            print |-> call[c].print, ip |-> call[c].ip,
                            due |-> FALSE, consumed |-> FALSE]
              /\ \A s \in Reqs \ {r} :
                   \/ /\ req'[s] = req[s]
                      /\ ~(/\ req[s].status = "pending"
                           /\ req[s].user = call[c].user
                           /\ req[s].print = call[c].print)
                   \/ /\ req[s].status = "pending"
                      /\ req'[s] = [req[s] EXCEPT !.status = "expired"]
<1> DEFINE pending == {q \in Reqs : /\ req[q].status = "pending"
                                    /\ req[q].user = call[c].user
                                    /\ req[q].print = call[c].print}
<1>1. CASE pending = {} /\ req[r].status = "free"
           /\ req' = WithNewRequest(req, r, call[c].user, call[c].print, call[c].ip)
  BY <1>1 DEF WithNewRequest, TypeOK
<1>2. ASSUME NEW q \in pending,
             LET t == [req EXCEPT ![q].status = "expired"] IN
             /\ t[r].status = "free"
             /\ req' = WithNewRequest(t, r, call[c].user, call[c].print, call[c].ip)
      PROVE  /\ req[r].status = "free"
             /\ req'[r] = [status |-> "pending", user |-> call[c].user,
                           print |-> call[c].print, ip |-> call[c].ip,
                           due |-> FALSE, consumed |-> FALSE]
             /\ \A s \in Reqs \ {r} :
                  \/ /\ req'[s] = req[s]
                     /\ ~(/\ req[s].status = "pending"
                          /\ req[s].user = call[c].user
                          /\ req[s].print = call[c].print)
                  \/ /\ req[s].status = "pending"
                     /\ req'[s] = [req[s] EXCEPT !.status = "expired"]
  <2> DEFINE t == [req EXCEPT ![q].status = "expired"]
  <2>1. t \in [Reqs -> Request] /\ t[q].status = "expired" /\ q \in Reqs
        /\ t[q] = [req[q] EXCEPT !.status = "expired"]
        /\ \A s \in Reqs : s # q => t[s] = req[s]
    BY DEF TypeOK, Request
  <2>2. q # r /\ req[r].status = "free"
    BY <1>2, <2>1
  <2>3. \A s \in Reqs : s # r => req'[s] = t[s]
    BY <1>2, <2>1 DEF WithNewRequest
  <2>4. req'[r] = [status |-> "pending", user |-> call[c].user,
                   print |-> call[c].print, ip |-> call[c].ip,
                   due |-> FALSE, consumed |-> FALSE]
    BY <1>2, <2>1 DEF WithNewRequest
  <2>5. \A s \in Reqs : s \in pending => s = q
    BY DEF OneRequestPerDevice
  <2> QED  BY <2>1, <2>2, <2>3, <2>4, <2>5
<1> QED  BY <1>1, <1>2 DEF AskPasses

-----------------------------------------------------------------------------
(* Type correctness *)

(* Leaving the gate frees the call's place.                                *)
LEMMA LeaveTyped ==
    ASSUME TypeOK, NEW c \in Calls, Leave(c)
    PROVE  call' \in [Calls -> Call] /\ overtaken' \subseteq Calls
<1>1. NoCall \in Call
  BY DEF NoCall, Call
<1> QED  BY <1>1 DEF TypeOK, Leave

(* A request's status takes one of its five values.                        *)
LEMMA StatusTyped ==
    ASSUME TypeOK, NEW r \in Reqs, NEW s \in {"completed", "failed", "expired"},
           req' = [req EXCEPT ![r].status = s]
    PROVE  req' \in [Reqs -> Request]
<1>1. [req[r] EXCEPT !.status = s] \in Request
  BY DEF TypeOK, Request
<1> QED  BY <1>1 DEF TypeOK

(* An UPDATE of a request's status leaves its other columns alone.         *)
LEMMA StatusOnly ==
    ASSUME TypeOK, NEW r \in Reqs, NEW s, req' = [req EXCEPT ![r].status = s]
    PROVE  \A q \in Reqs :
             /\ req'[q].status = IF q = r THEN s ELSE req[q].status
             /\ req'[q].user = req[q].user /\ req'[q].print = req[q].print
             /\ req'[q].ip = req[q].ip /\ req'[q].due = req[q].due
             /\ req'[q].consumed = req[q].consumed
<1> SUFFICES ASSUME NEW q \in Reqs
             PROVE  /\ req'[q].status = IF q = r THEN s ELSE req[q].status
                    /\ req'[q].user = req[q].user /\ req'[q].print = req[q].print
                    /\ req'[q].ip = req[q].ip /\ req'[q].due = req[q].due
                    /\ req'[q].consumed = req[q].consumed
  OBVIOUS
<1>1. req[q] \in Request
  BY DEF TypeOK
<1>2. req'[q] = IF q = r THEN [req[q] EXCEPT !.status = s] ELSE req[q]
  BY DEF TypeOK
<1> QED  BY <1>1, <1>2 DEF Request

(* No step leaves a row outside its column's range.                        *)
LEMMA TypeStep ==
    TypeOK /\ GateIsExclusive /\ RequestRows /\ ReadsAreCurrent
    /\ OneRequestPerDevice /\ [Next]_vars => TypeOK'
<1> SUFFICES ASSUME TypeOK, GateIsExclusive, RequestRows, ReadsAreCurrent,
                    OneRequestPerDevice, [Next]_vars
             PROVE  TypeOK'
  OBVIOUS
<1>1. ASSUME NEW c \in Calls, NEW u \in Users, NEW p \in Prints, NEW a \in Addrs,
             Ask(c, u, p, a)
      PROVE  TypeOK'
  <2>1. call' \in [Calls -> Call]
    BY <1>1 DEF TypeOK, Ask, Call
  <2>2. rate' \in [Addrs -> 0..MaxCount]
    BY <1>1, MaxCountAssumption DEF TypeOK, Ask
  <2> QED  BY <1>1, <2>1, <2>2 DEF TypeOK, Ask
<1>2. ASSUME NEW a \in Addrs, AskRejected(a)
      PROVE  TypeOK'
  <2>1. rate' \in [Addrs -> 0..MaxCount]
    BY <1>2, MaxCountAssumption DEF TypeOK, AskRejected
  <2> QED  BY <1>2, <2>1 DEF TypeOK, AskRejected
<1>3. ASSUME NEW c \in Calls, AskEnds(c)
      PROVE  TypeOK'
  BY <1>3, LeaveTyped DEF TypeOK, AskEnds
<1>4. ASSUME NEW c \in Calls, NEW r \in Reqs, AskPasses(c, r)
      PROVE  TypeOK'
  <2>1. req' \in [Reqs -> Request]
    <3>1. call[c] \in Call
      BY DEF TypeOK
    <3>2. [status |-> "pending", user |-> call[c].user, print |-> call[c].print,
           ip |-> call[c].ip, due |-> FALSE, consumed |-> FALSE] \in Request
      BY <3>1 DEF Call, Request
    <3>3. \A s \in Reqs : [req[s] EXCEPT !.status = "expired"] \in Request
      BY DEF TypeOK, Request
    <3>4. \A t \in [Reqs -> Request] :
            WithNewRequest(t, r, call[c].user, call[c].print, call[c].ip)
              \in [Reqs -> Request]
      BY <3>2 DEF WithNewRequest
    <3>6. req \in [Reqs -> Request]
      BY DEF TypeOK
    <3>5. \A q \in Reqs : [req EXCEPT ![q].status = "expired"] \in [Reqs -> Request]
      BY <3>3, <3>6
    <3>7. \/ \E t \in {req} \cup {[req EXCEPT ![q].status = "expired"] : q \in Reqs} :
               req' = WithNewRequest(t, r, call[c].user, call[c].print, call[c].ip)
          \/ UNCHANGED req
      BY <1>4, Zenon DEF AskPasses
    <3> QED  BY <3>4, <3>5, <3>6, <3>7
  <2> QED  BY <1>4, <2>1, LeaveTyped DEF TypeOK, AskPasses
<1>5. ASSUME NEW x \in Usable, NEW r \in Reqs, Approve(x, r)
      PROVE  TypeOK'
  <2>1. [term |-> "dated", ip |-> req[r].ip] \in Device
    BY DEF TypeOK, Request, Device
  <2>2. dev' \in [Users \X Prints -> Device]
    BY <1>5, <2>1 DEF TypeOK, Approve
  <2> QED  BY <1>5, <2>2, StatusTyped DEF TypeOK, Approve
<1>6. ASSUME NEW r \in Reqs, FindOverdue(r)
      PROVE  TypeOK'
  BY <1>6, StatusTyped DEF TypeOK, FindOverdue
<1>7. ASSUME NEW c \in Calls, NEW r \in Reqs, Complete(c, r)
      PROVE  TypeOK'
  <2>1. CASE acct[req[r].user].demand
    BY <1>7, <2>1, StatusTyped DEF TypeOK, Complete
  <2>2. CASE ~acct[req[r].user].demand
    <3>1. req[r] \in Request
      BY DEF TypeOK
    <3>2. [pc |-> "completing", user |-> req[r].user, print |-> req[r].print,
           ip |-> req[r].ip, req |-> r] \in Call
      BY <3>1 DEF Request, Call
    <3>3. call' \in [Calls -> Call]
      BY <1>7, <2>2, <3>2 DEF TypeOK, Complete
    <3> QED  BY <1>7, <2>2, <3>3 DEF TypeOK, Complete
  <2> QED  BY <2>1, <2>2
<1>8. ASSUME NEW c \in Calls, CompleteHeld(c)
      PROVE  TypeOK'
  <2>1. call[c].req \in Reqs
    BY <1>8 DEF GateIsExclusive, CompleteHeld
  <2> QED  BY <1>8, <2>1, LeaveTyped, StatusTyped DEF TypeOK, CompleteHeld
<1>9. ASSUME NEW c \in Calls, CompletePasses(c)
      PROVE  TypeOK'
  <2>1. call[c].req \in Reqs /\ call[c].user \in Users /\ call[c].ip \in Addrs
    BY <1>9 DEF GateIsExclusive, ReadsAreCurrent, CompletePasses
  <2>2. sess' \subseteq SessionRow
    BY <1>9, <2>1 DEF TypeOK, CompletePasses, SessionRow
  <2>3. req' \in [Reqs -> Request]
    <3>1. [req[call[c].req] EXCEPT !.consumed = TRUE] \in Request
      <4>1. req[call[c].req] \in Request
        BY <2>1 DEF TypeOK
      <4> QED  BY <4>1 DEF Request
    <3> QED  BY <1>9, <2>1, <3>1 DEF TypeOK, CompletePasses
  <2>4. minted' \in [Reqs -> 0..2]
    BY <1>9, <2>1 DEF TypeOK, CompletePasses
  <2> QED  BY <1>9, <2>2, <2>3, <2>4, LeaveTyped DEF TypeOK, CompletePasses
<1>10. CASE Freeze
  BY <1>10 DEF TypeOK, Freeze
<1>11. CASE Restart
  <2>1. NoCall \in Call
    BY DEF NoCall, Call
  <2> QED  BY <1>11, <2>1 DEF TypeOK, Restart
<1>12. ASSUME NEW x \in Usable, NEW p \in Prints, NEW t \in {"endless", "dated"},
              Trust(x, p, t)
       PROVE  TypeOK'
  <2>1. [term |-> t, ip |-> x.ip] \in Device
    BY DEF TypeOK, Usable, SessionRow, Device
  <2> QED  BY <1>12, <2>1 DEF TypeOK, Trust
<1>13. ASSUME NEW x \in Usable, NEW gone, Untrust(x, gone)
       PROVE  TypeOK'
  <2>1. NoDevice \in Device
    BY DEF NoDevice, Device
  <2> QED  BY <1>13, <2>1 DEF TypeOK, Untrust
<1>14. ASSUME NEW u \in Users, NEW a \in Addrs, SignIn(u, a)
       PROVE  TypeOK'
  BY <1>14 DEF TypeOK, SignIn, SessionRow
<1>15. ASSUME NEW x \in sess, SignOut(x)
       PROVE  TypeOK'
  BY <1>15 DEF TypeOK, SignOut
<1>16. ASSUME NEW u \in Users, NEW f \in {"open", "demand"}, Tighten(u, f) \/ Relax(u, f)
       PROVE  TypeOK'
  <2>1. acct' \in [Users -> [open : BOOLEAN, demand : BOOLEAN]]
    <3>1. CASE f = "open"
      BY <1>16, <3>1 DEF TypeOK, Tighten, Relax
    <3>2. CASE f = "demand"
      BY <1>16, <3>2 DEF TypeOK, Tighten, Relax
    <3> QED  BY <3>1, <3>2
  <2> QED  BY <1>16, <2>1 DEF TypeOK, Tighten, Relax, AtGate
<1>17. ASSUME NEW r \in Reqs, RequestLapses(r)
       PROVE  TypeOK'
  <2>1. req' \in [Reqs -> Request]
    <3>1. [req[r] EXCEPT !.due = TRUE] \in Request
      BY DEF TypeOK, Request
    <3> QED  BY <1>17, <3>1 DEF TypeOK, RequestLapses
  <2> QED  BY <1>17, <2>1 DEF TypeOK, RequestLapses
<1>18. ASSUME NEW k \in Users \X Prints, DeviceLapses(k)
       PROVE  TypeOK'
  <2>1. dev' \in [Users \X Prints -> Device]
    BY <1>18 DEF TypeOK, DeviceLapses, Device
  <2> QED  BY <1>18, <2>1 DEF TypeOK, DeviceLapses
<1>19. ASSUME NEW a \in Addrs, WindowEnds(a)
       PROVE  TypeOK'
  <2>1. rate' \in [Addrs -> 0..MaxCount]
    BY <1>19, MaxCountAssumption DEF TypeOK, WindowEnds
  <2> QED  BY <1>19, <2>1 DEF TypeOK, WindowEnds
<1>20. CASE UNCHANGED vars
  BY <1>20 DEF vars, TypeOK
<1> QED
  BY <1>1, <1>2, <1>3, <1>4, <1>5, <1>6, <1>7, <1>8, <1>9, <1>10, <1>11, <1>12,
     <1>13, <1>14, <1>15, <1>16, <1>17, <1>18, <1>19, <1>20, ZenonT(60) DEF Next

-----------------------------------------------------------------------------
(* The inductive invariant *)

(* Nothing has been asked for yet.                                         *)
LEMMA InitInv == Init => IndInv
<1> SUFFICES ASSUME Init
             PROVE  IndInv
  OBVIOUS
<1>1. NoDevice \in Device /\ NoRequest \in Request /\ NoCall \in Call
  BY DEF NoDevice, NoRequest, NoCall, Device, Request, Call
<1>2. TypeOK
  <2>1. rate \in [Addrs -> 0..MaxCount] /\ minted \in [Reqs -> 0..2]
    BY MaxCountAssumption DEF Init
  <2>2. acct \in [Users -> [open : BOOLEAN, demand : BOOLEAN]]
    BY DEF Init
  <2> QED  BY <1>1, <2>1, <2>2 DEF Init, TypeOK
<1>3. GateIsExclusive /\ ReadsAreCurrent
  BY DEF Init, NoCall, GateIsExclusive, ReadsAreCurrent
<1>4. RequestRows /\ OneRequestPerDevice
  BY DEF Init, NoRequest, RequestRows, OneRequestPerDevice
<1>5. SessionsComeFromApprovals
  BY DEF Init, SessionsComeFromApprovals
<1> QED  BY <1>2, <1>3, <1>4, <1>5 DEF IndInv

(* A request is held at the gate by one call, and stays approved and       *)
(* unused there: every other handler respects the row lock.                *)
LEMMA GateStep == IndInv /\ [Next]_vars => GateIsExclusive'
<1> SUFFICES ASSUME IndInv, [Next]_vars
             PROVE  GateIsExclusive'
  OBVIOUS
<1> USE DEF IndInv
<1>1. CASE Aside
  BY <1>1 DEF Aside, GateIsExclusive
<1>2. ASSUME NEW c \in Calls, NEW u \in Users, NEW p \in Prints, NEW a \in Addrs,
             Ask(c, u, p, a)
      PROVE  GateIsExclusive'
  BY <1>2 DEF Ask, GateIsExclusive, TypeOK
<1>3. ASSUME NEW c \in Calls, AskEnds(c)
      PROVE  GateIsExclusive'
  BY <1>3 DEF AskEnds, Leave, NoCall, GateIsExclusive, TypeOK
<1>4. ASSUME NEW c \in Calls, NEW r \in Reqs, AskPasses(c, r)
      PROVE  GateIsExclusive'
  <2>1. \A q \in Reqs : req[q].status = "completed" => req'[q] = req[q]
    BY <1>4, AskPassesRows
  <2>2. \A d \in Calls : call'[d].pc = "completing" => call'[d] = call[d]
    BY <1>4 DEF AskPasses, Leave, NoCall, TypeOK
  <2> QED  BY <2>1, <2>2 DEF GateIsExclusive
<1>5. ASSUME NEW x \in Usable, NEW r \in Reqs, Approve(x, r)
      PROVE  GateIsExclusive'
  <2>1. UNCHANGED call /\ ~RowLocked(r)
    BY <1>5 DEF Approve
  <2>2. \A q \in Reqs : q # r => req'[q] = req[q]
    BY <1>5 DEF Approve, TypeOK
  <2> QED  BY <2>1, <2>2 DEF GateIsExclusive, RowLocked
<1>6. ASSUME NEW r \in Reqs, FindOverdue(r)
      PROVE  GateIsExclusive'
  <2>1. UNCHANGED call /\ ~RowLocked(r)
    BY <1>6 DEF FindOverdue
  <2>2. \A q \in Reqs : q # r => req'[q] = req[q]
    BY <1>6 DEF FindOverdue, TypeOK
  <2> QED  BY <2>1, <2>2 DEF GateIsExclusive, RowLocked
<1>7. ASSUME NEW c \in Calls, NEW r \in Reqs, Complete(c, r)
      PROVE  GateIsExclusive'
  <2>1. ~RowLocked(r) /\ req[r].status = "completed" /\ ~req[r].consumed
    BY <1>7 DEF Complete
  <2>2. CASE acct[req[r].user].demand
    <3>1. UNCHANGED call
      BY <1>7, <2>2 DEF Complete
    <3>2. \A q \in Reqs : q # r => req'[q] = req[q]
      BY <1>7, <2>2 DEF Complete, TypeOK
    <3> QED  BY <2>1, <3>1, <3>2 DEF GateIsExclusive, RowLocked
  <2>3. CASE ~acct[req[r].user].demand
    <3>1. UNCHANGED req
      BY <1>7, <2>3 DEF Complete
    <3>2. /\ call'[c] = [pc |-> "completing", user |-> req[r].user,
                         print |-> req[r].print, ip |-> req[r].ip, req |-> r]
          /\ \A d \in Calls : d # c => call'[d] = call[d]
      BY <1>7, <2>3 DEF Complete, TypeOK
    <3> QED  BY <2>1, <3>1, <3>2 DEF GateIsExclusive, RowLocked
  <2> QED  BY <2>2, <2>3
<1>8. ASSUME NEW c \in Calls, CompleteHeld(c) \/ CompletePasses(c)
      PROVE  GateIsExclusive'
  <2>1. call[c].pc = "completing"
    BY <1>8 DEF CompleteHeld, CompletePasses
  <2>2. \A q \in Reqs : q # call[c].req => req'[q] = req[q]
    BY <1>8 DEF CompleteHeld, CompletePasses, TypeOK
  <2>3. \A d \in Calls : call'[d].pc = "completing" => call'[d] = call[d] /\ d # c
    BY <1>8 DEF CompleteHeld, CompletePasses, Leave, NoCall, TypeOK
  <2> QED  BY <2>1, <2>2, <2>3 DEF GateIsExclusive
<1>9. CASE Restart
  BY <1>9 DEF Restart, NoCall, GateIsExclusive
<1>10. ASSUME NEW r \in Reqs, RequestLapses(r)
       PROVE  GateIsExclusive'
  <2>1. \A q \in Reqs : req'[q] = req[q] \/ req'[q] = [req[q] EXCEPT !.due = TRUE]
    BY <1>10 DEF RequestLapses, TypeOK
  <2> QED  BY <1>10, <2>1 DEF RequestLapses, GateIsExclusive, TypeOK, Request
<1> QED
  BY <1>1, <1>2, <1>3, <1>4, <1>5, <1>6, <1>7, <1>8, <1>9, <1>10, StepKinds, Zenon

(* A request's row records whether it minted, and minting and approval go  *)
(* only forward.                                                           *)
LEMMA RowsStep == IndInv /\ [Next]_vars => RequestRows'
<1> SUFFICES ASSUME IndInv, [Next]_vars
             PROVE  RequestRows'
  OBVIOUS
<1> USE DEF IndInv
<1>a. \A q \in Reqs : req[q] \in Request
  BY DEF TypeOK
<1>1. CASE Aside
  BY <1>1 DEF Aside, RequestRows
<1>2. ASSUME NEW c \in Calls, NEW u \in Users, NEW p \in Prints, NEW a \in Addrs,
             Ask(c, u, p, a)
      PROVE  RequestRows'
  BY <1>2 DEF Ask, RequestRows
<1>3. ASSUME NEW c \in Calls, AskEnds(c)
      PROVE  RequestRows'
  BY <1>3 DEF AskEnds, RequestRows
<1>4. ASSUME NEW c \in Calls, NEW r \in Reqs, AskPasses(c, r)
      PROVE  RequestRows'
  <2>1. UNCHANGED <<minted, approved>> /\ call[c].pc # "idle"
    BY <1>4 DEF AskPasses
  <2>2. call[c].user \in Users /\ call[c].ip \in Addrs
    BY <2>1 DEF ReadsAreCurrent
  <2>3. \A q \in Reqs :
          \/ req'[q] = req[q]
          \/ req[q].status = "pending" /\ req'[q] = [req[q] EXCEPT !.status = "expired"]
          \/ /\ req[q].status = "free"
             /\ req'[q] = [status |-> "pending", user |-> call[c].user,
                           print |-> call[c].print, ip |-> call[c].ip,
                           due |-> FALSE, consumed |-> FALSE]
    BY <1>4, AskPassesRows
  <2>4. \A q \in Reqs :
          \/ req'[q] = req[q]
          \/ /\ req[q].status = "pending" /\ req'[q].status = "expired"
             /\ req'[q].consumed = req[q].consumed /\ req'[q].due = req[q].due
             /\ req'[q].user = req[q].user /\ req'[q].ip = req[q].ip
          \/ /\ req[q].status = "free" /\ req'[q].status = "pending"
             /\ ~req'[q].consumed
             /\ req'[q].user = call[c].user /\ req'[q].ip = call[c].ip
    <3> SUFFICES ASSUME NEW q \in Reqs
                 PROVE  \/ req'[q] = req[q]
                        \/ /\ req[q].status = "pending" /\ req'[q].status = "expired"
                           /\ req'[q].consumed = req[q].consumed
                           /\ req'[q].due = req[q].due
                           /\ req'[q].user = req[q].user /\ req'[q].ip = req[q].ip
                        \/ /\ req[q].status = "free" /\ req'[q].status = "pending"
                           /\ ~req'[q].consumed
                           /\ req'[q].user = call[c].user /\ req'[q].ip = call[c].ip
      OBVIOUS
    <3>1. req[q] \in Request
      BY <1>a
    <3>2. ASSUME req'[q] = [req[q] EXCEPT !.status = "expired"]
          PROVE  /\ req'[q].status = "expired"
                 /\ req'[q].consumed = req[q].consumed
                 /\ req'[q].due = req[q].due
                 /\ req'[q].user = req[q].user /\ req'[q].ip = req[q].ip
      BY <3>1, <3>2 DEF Request
    <3>3. ASSUME req'[q] = [status |-> "pending", user |-> call[c].user,
                            print |-> call[c].print, ip |-> call[c].ip,
                            due |-> FALSE, consumed |-> FALSE]
          PROVE  /\ req'[q].status = "pending" /\ ~req'[q].consumed
                 /\ req'[q].user = call[c].user /\ req'[q].ip = call[c].ip
      BY <3>3
    <3> QED  BY <2>3, <3>2, <3>3, Zenon
  <2> QED  BY <2>1, <2>2, <2>4 DEF RequestRows
<1>5. ASSUME NEW x \in Usable, NEW r \in Reqs, Approve(x, r)
      PROVE  RequestRows'
  <2>1. /\ UNCHANGED minted /\ approved' = approved \cup {r}
        /\ req[r].status # "free"
    BY <1>5 DEF Approve
  <2>2. req' = [req EXCEPT ![r].status = "completed"]
    BY <1>5 DEF Approve
  <2> QED  BY <2>1, <2>2, StatusOnly DEF RequestRows
<1>6. ASSUME NEW r \in Reqs, FindOverdue(r)
      PROVE  RequestRows'
  <2>1. UNCHANGED <<minted, approved>> /\ req[r].status # "free"
    BY <1>6 DEF FindOverdue, RequestRows
  <2>2. req' = [req EXCEPT ![r].status = "expired"]
    BY <1>6 DEF FindOverdue
  <2> QED  BY <2>1, <2>2, StatusOnly DEF RequestRows
<1>7. ASSUME NEW c \in Calls, NEW r \in Reqs, Complete(c, r)
      PROVE  RequestRows'
  <2>1. UNCHANGED <<minted, approved>> /\ req[r].status = "completed"
    BY <1>7 DEF Complete
  <2>2. UNCHANGED req \/ req' = [req EXCEPT ![r].status = "failed"]
    BY <1>7 DEF Complete
  <2> QED  BY <2>1, <2>2, StatusOnly DEF RequestRows
<1>8. ASSUME NEW c \in Calls, CompleteHeld(c)
      PROVE  RequestRows'
  <2>1. /\ UNCHANGED <<minted, approved>>
        /\ call[c].req \in Reqs /\ req[call[c].req].status = "completed"
    BY <1>8 DEF CompleteHeld, GateIsExclusive
  <2>2. req' = [req EXCEPT ![call[c].req].status = "failed"]
    BY <1>8 DEF CompleteHeld
  <2> QED  BY <2>1, <2>2, StatusOnly DEF RequestRows
<1>9. ASSUME NEW c \in Calls, CompletePasses(c)
      PROVE  RequestRows'
  <2> DEFINE r == call[c].req
  <2>1. r \in Reqs /\ req[r].status = "completed" /\ ~req[r].consumed
        /\ UNCHANGED approved
    BY <1>9 DEF CompletePasses, GateIsExclusive
  <2>2. /\ req'[r] = [req[r] EXCEPT !.consumed = TRUE]
        /\ minted'[r] = minted[r] + 1
        /\ \A q \in Reqs : q # r => req'[q] = req[q] /\ minted'[q] = minted[q]
    BY <1>9, <2>1 DEF CompletePasses, TypeOK
  <2> HIDE DEF r
  <2>3. /\ req'[r].consumed /\ req'[r].status = req[r].status
        /\ req'[r].user = req[r].user /\ req'[r].ip = req[r].ip
    BY <1>a, <2>1, <2>2 DEF Request
  <2>4. minted'[r] = 1
    BY <2>1, <2>2 DEF RequestRows
  <2> QED  BY <2>1, <2>2, <2>3, <2>4 DEF RequestRows
<1>10. CASE Restart
  BY <1>10 DEF Restart, RequestRows
<1>11. ASSUME NEW r \in Reqs, RequestLapses(r)
       PROVE  RequestRows'
  <2>1. \A q \in Reqs :
          \/ req'[q] = req[q]
          \/ req'[q] = [req[q] EXCEPT !.due = TRUE]
    BY <1>11 DEF RequestLapses, TypeOK
  <2>2. req[r].status # "free" /\ UNCHANGED <<minted, approved>>
        /\ \A q \in Reqs : q # r => req'[q] = req[q]
    BY <1>11 DEF RequestLapses, TypeOK
  <2>3. \A q \in Reqs :
          /\ req'[q].status = req[q].status /\ req'[q].consumed = req[q].consumed
          /\ req'[q].user = req[q].user /\ req'[q].ip = req[q].ip
    BY <1>a, <2>1 DEF Request
  <2> QED  BY <2>2, <2>3 DEF RequestRows
<1> QED
  BY <1>1, <1>2, <1>3, <1>4, <1>5, <1>6, <1>7, <1>8, <1>9, <1>10, <1>11,
     StepKinds, Zenon

(* What a call at the gate read is current, or the call is overtaken: only *)
(* the demand and the lock make an account stricter, and both reach it.    *)
LEMMA ReadsStep == IndInv /\ [Next]_vars => ReadsAreCurrent'
<1> SUFFICES ASSUME IndInv, [Next]_vars
             PROVE  ReadsAreCurrent'
  OBVIOUS
<1> USE DEF IndInv
<1>1. CASE Aside
  <2>1. UNCHANGED call /\ overtaken \subseteq overtaken'
    BY <1>1 DEF Aside
  <2>2. ASSUME NEW c \in Calls, call[c].pc # "idle", c \notin overtaken'
        PROVE  acct'[call[c].user].open /\ ~acct'[call[c].user].demand
    <3>1. call[c].user \in Users /\ ~Stricter(call[c].user)
      BY <1>1, <2>2 DEF Aside, ReadsAreCurrent
    <3>2. acct[call[c].user].open /\ ~acct[call[c].user].demand
      BY <2>1, <2>2 DEF ReadsAreCurrent
    <3> QED  BY <3>1, <3>2 DEF Stricter
  <2> QED  BY <2>1, <2>2 DEF ReadsAreCurrent
<1>2. ASSUME NEW c \in Calls, NEW u \in Users, NEW p \in Prints, NEW a \in Addrs,
             Ask(c, u, p, a)
      PROVE  ReadsAreCurrent'
  BY <1>2 DEF Ask, ReadsAreCurrent, TypeOK
<1>3. ASSUME NEW c \in Calls, UNCHANGED acct, Leave(c)
      PROVE  ReadsAreCurrent'
  BY <1>3 DEF Leave, NoCall, ReadsAreCurrent, TypeOK
<1>4. ASSUME UNCHANGED <<acct, call, overtaken>>
      PROVE  ReadsAreCurrent'
  BY <1>4 DEF ReadsAreCurrent
<1>5. ASSUME NEW c \in Calls, NEW r \in Reqs, Complete(c, r)
      PROVE  ReadsAreCurrent'
  <2>1. CASE acct[req[r].user].demand
    BY <1>4, <1>5, <2>1 DEF Complete
  <2>2. CASE ~acct[req[r].user].demand
    <3>1. /\ acct[req[r].user].open /\ UNCHANGED acct
          /\ req[r].user \in Users /\ req[r].ip \in Addrs
      BY <1>5 DEF Complete, RequestRows
    <3>2. /\ call'[c] = [pc |-> "completing", user |-> req[r].user,
                         print |-> req[r].print, ip |-> req[r].ip, req |-> r]
          /\ \A d \in Calls : d # c => call'[d] = call[d]
          /\ overtaken' = overtaken \ {c}
      BY <1>5, <2>2 DEF Complete, TypeOK
    <3> QED  BY <2>2, <3>1, <3>2 DEF ReadsAreCurrent
  <2> QED  BY <2>1, <2>2
<1>6. CASE Restart
  BY <1>6 DEF Restart, NoCall, ReadsAreCurrent
<1>7. ASSUME NEW c \in Calls, NEW r \in Reqs,
             AskEnds(c) \/ AskPasses(c, r) \/ CompleteHeld(c) \/ CompletePasses(c)
      PROVE  UNCHANGED acct /\ Leave(c)
  BY <1>7, Zenon DEF AskEnds, AskPasses, CompleteHeld, CompletePasses
<1>8. ASSUME NEW c \in Calls, AskEnds(c) \/ CompleteHeld(c) \/ CompletePasses(c)
      PROVE  UNCHANGED acct /\ Leave(c)
  BY <1>8, Zenon DEF AskEnds, CompleteHeld, CompletePasses
<1>9. ASSUME NEW x, NEW r, Approve(x, r) \/ FindOverdue(r) \/ RequestLapses(r)
      PROVE  UNCHANGED <<acct, call, overtaken>>
  BY <1>9, Zenon DEF Approve, FindOverdue, RequestLapses
<1> QED
  BY <1>1, <1>2, <1>3, <1>4, <1>5, <1>6, <1>7, <1>8, <1>9, StepKinds, Zenon

(* A request that minted a session keeps the account and the address it    *)
(* was made for.                                                           *)
LEMMA SessionsStep == IndInv /\ [Next]_vars => SessionsComeFromApprovals'
<1> SUFFICES ASSUME IndInv, [Next]_vars
             PROVE  SessionsComeFromApprovals'
  OBVIOUS
<1> USE DEF IndInv
<1> DEFINE Kept ==
      /\ \A x \in sess' : x \in sess \/ x.req = None
      /\ approved \subseteq approved'
      /\ \A q \in Reqs : req[q].consumed =>
           /\ req'[q].consumed
           /\ req'[q].user = req[q].user /\ req'[q].ip = req[q].ip
<1>a. \A x \in sess : x.req # None => x.req \in Reqs
  BY DEF TypeOK, SessionRow
<1>b. \A q \in Reqs : req[q] \in Request
  BY DEF TypeOK
<1>c. ASSUME Kept
      PROVE  SessionsComeFromApprovals'
  BY <1>a, <1>c DEF SessionsComeFromApprovals
<1>1. CASE Aside
  BY <1>1, <1>c DEF Aside
<1>2. ASSUME UNCHANGED <<sess, approved, req>>
      PROVE  Kept
  BY <1>2
<1>3. ASSUME NEW r \in Reqs, NEW s, req' = [req EXCEPT ![r].status = s],
             UNCHANGED sess, approved \subseteq approved'
      PROVE  Kept
  BY <1>3, StatusOnly
<1>4. ASSUME NEW c \in Calls, NEW r \in Reqs, AskPasses(c, r)
      PROVE  Kept
  <2>1. UNCHANGED <<sess, approved>>
    BY <1>4 DEF AskPasses
  <2>2. \A q \in Reqs :
          \/ req'[q] = req[q]
          \/ req'[q] = [req[q] EXCEPT !.status = "expired"]
          \/ req[q].status = "free"
    BY <1>4, AskPassesRows
  <2>3. \A q \in Reqs : req[q].status = "free" => ~req[q].consumed
    BY DEF RequestRows
  <2> QED  BY <1>b, <2>1, <2>2, <2>3 DEF Request
<1>5. ASSUME NEW c \in Calls, CompletePasses(c)
      PROVE  SessionsComeFromApprovals'
  <2> DEFINE r == call[c].req
  <2>1. /\ r \in Reqs /\ req[r].status = "completed" /\ ~req[r].consumed
        /\ req[r].user = call[c].user /\ req[r].ip = call[c].ip
    BY <1>5 DEF CompletePasses, GateIsExclusive
  <2>2. /\ req'[r] = [req[r] EXCEPT !.consumed = TRUE]
        /\ \A q \in Reqs : q # r => req'[q] = req[q]
        /\ sess' = sess \cup {[user |-> call[c].user, ip |-> call[c].ip, req |-> r]}
        /\ UNCHANGED approved
    BY <1>5, <2>1 DEF CompletePasses, TypeOK
  <2> HIDE DEF r
  <2>3. /\ req'[r].consumed
        /\ req'[r].user = call[c].user /\ req'[r].ip = call[c].ip
    BY <1>b, <2>1, <2>2 DEF Request
  <2>4. r \in approved
    BY <2>1 DEF RequestRows
  <2>5. \A x \in sess : x.req # r
    BY <2>1, NoneAssumption DEF SessionsComeFromApprovals
  <2>6. ASSUME NEW x \in sess', x.req # None
        PROVE  /\ x.req \in approved' /\ req'[x.req].consumed
               /\ x.user = req'[x.req].user /\ x.ip = req'[x.req].ip
    <3>1. CASE x \in sess
      BY <1>a, <2>2, <2>5, <2>6, <3>1 DEF SessionsComeFromApprovals
    <3>2. CASE x = [user |-> call[c].user, ip |-> call[c].ip, req |-> r]
      BY <2>2, <2>3, <2>4, <3>2
    <3> QED  BY <2>2, <2>6, <3>1, <3>2
  <2> QED  BY <2>6 DEF SessionsComeFromApprovals
<1>6. ASSUME NEW r \in Reqs, RequestLapses(r)
      PROVE  Kept
  <2>1. \A q \in Reqs : req'[q] = req[q] \/ req'[q] = [req[q] EXCEPT !.due = TRUE]
    BY <1>6 DEF RequestLapses, TypeOK
  <2> QED  BY <1>b, <1>6, <2>1 DEF RequestLapses, Request
<1>7. ASSUME NEW c \in Calls, NEW u, NEW p, NEW a,
             Ask(c, u, p, a) \/ AskEnds(c) \/ Restart
      PROVE  UNCHANGED <<sess, approved, req>>
  BY <1>7, Zenon DEF Ask, AskEnds, Restart
<1>8. ASSUME NEW x, NEW r \in Reqs, Approve(x, r)
      PROVE  Kept
  BY <1>8, <1>3 DEF Approve
<1>9. ASSUME NEW r \in Reqs, FindOverdue(r)
      PROVE  Kept
  BY <1>9, <1>3 DEF FindOverdue
<1>10. ASSUME NEW c \in Calls, NEW r \in Reqs, Complete(c, r)
      PROVE  Kept
  <2>1. UNCHANGED req \/ req' = [req EXCEPT ![r].status = "failed"]
    BY <1>10 DEF Complete
  <2>2. UNCHANGED <<sess, approved>>
    BY <1>10 DEF Complete
  <2> QED  BY <1>2, <1>3, <2>1, <2>2
<1>11. ASSUME NEW c \in Calls, CompleteHeld(c)
      PROVE  Kept
  BY <1>11, <1>3 DEF CompleteHeld, GateIsExclusive
<1>12. ASSUME Restart
      PROVE  UNCHANGED <<sess, approved, req>>
  BY <1>12 DEF Restart
<1> HIDE DEF Kept
<1> QED
  BY <1>c, <1>1, <1>2, <1>4, <1>5, <1>6, <1>7, <1>8, <1>9, <1>10, <1>11, <1>12,
     StepKinds, Zenon

(* A device has one pending request: only AskPasses adds one, where there  *)
(* is none or in place of the one that lapsed.                             *)
LEMMA OneRequestStep == IndInv /\ [Next]_vars => OneRequestPerDevice'
<1> SUFFICES ASSUME IndInv, [Next]_vars
             PROVE  OneRequestPerDevice'
  OBVIOUS
<1> USE DEF IndInv
<1> DEFINE NoneAdded ==
      \A q \in Reqs : req'[q].status = "pending" =>
        /\ req[q].status = "pending"
        /\ req'[q].user = req[q].user /\ req'[q].print = req[q].print
<1>a. \A q \in Reqs : req[q] \in Request
  BY DEF TypeOK
<1>b. ASSUME NoneAdded
      PROVE  OneRequestPerDevice'
  BY <1>b DEF OneRequestPerDevice
<1>1. ASSUME UNCHANGED req
      PROVE  NoneAdded
  BY <1>1
<1>2. ASSUME NEW r \in Reqs, NEW s \in {"completed", "failed", "expired"},
             req' = [req EXCEPT ![r].status = s]
      PROVE  NoneAdded
  BY <1>2, StatusOnly
<1>3. ASSUME NEW c \in Calls, NEW r \in Reqs, AskPasses(c, r)
      PROVE  OneRequestPerDevice'
  <2>1. CASE UNCHANGED req
    BY <1>1, <1>b, <2>1
  <2>2. CASE /\ req[r].status = "free"
             /\ req'[r] = [status |-> "pending", user |-> call[c].user,
                           print |-> call[c].print, ip |-> call[c].ip,
                           due |-> FALSE, consumed |-> FALSE]
             /\ \A s \in Reqs \ {r} :
                  \/ /\ req'[s] = req[s]
                     /\ ~(/\ req[s].status = "pending"
                          /\ req[s].user = call[c].user
                          /\ req[s].print = call[c].print)
                  \/ /\ req[s].status = "pending"
                     /\ req'[s] = [req[s] EXCEPT !.status = "expired"]
    <3>a. \A s \in Reqs : [req[s] EXCEPT !.status = "expired"].status = "expired"
      BY <1>a DEF Request
    <3>1. \A s \in Reqs : s # r /\ req'[s].status = "pending" =>
            /\ req'[s] = req[s]
            /\ ~(req[s].user = call[c].user /\ req[s].print = call[c].print)
      <4> SUFFICES ASSUME NEW s \in Reqs \ {r}, req'[s].status = "pending"
                   PROVE  /\ req'[s] = req[s]
                          /\ ~(/\ req[s].user = call[c].user
                               /\ req[s].print = call[c].print)
        OBVIOUS
      <4>1. req'[s] # [req[s] EXCEPT !.status = "expired"]
        BY <3>a
      <4>2. \/ /\ req'[s] = req[s]
               /\ ~(/\ req[s].status = "pending"
                    /\ req[s].user = call[c].user
                    /\ req[s].print = call[c].print)
            \/ /\ req[s].status = "pending"
               /\ req'[s] = [req[s] EXCEPT !.status = "expired"]
        BY <2>2, Zenon
      <4> QED  BY <4>1, <4>2
    <3>2. req'[r].user = call[c].user /\ req'[r].print = call[c].print
      BY <2>2
    <3> QED  BY <3>1, <3>2 DEF OneRequestPerDevice
  <2> QED  BY <1>3, <2>1, <2>2, AskPassesRows
<1>4. CASE Aside
  BY <1>1, <1>4, <1>b DEF Aside
<1>5. ASSUME NEW c \in Calls, NEW u, NEW p, NEW a, Ask(c, u, p, a) \/ AskEnds(c)
      PROVE  NoneAdded
  BY <1>1, <1>5 DEF Ask, AskEnds
<1>6. ASSUME NEW x, NEW r \in Reqs, Approve(x, r)
      PROVE  NoneAdded
  BY <1>2, <1>6 DEF Approve
<1>7. ASSUME NEW r \in Reqs, FindOverdue(r)
      PROVE  NoneAdded
  BY <1>2, <1>7 DEF FindOverdue
<1>8. ASSUME NEW c \in Calls, NEW r \in Reqs, Complete(c, r)
      PROVE  NoneAdded
  <2>1. UNCHANGED req \/ req' = [req EXCEPT ![r].status = "failed"]
    BY <1>8 DEF Complete
  <2> QED  BY <1>1, <1>2, <2>1
<1>9. ASSUME NEW c \in Calls, CompleteHeld(c)
      PROVE  NoneAdded
  BY <1>2, <1>9 DEF CompleteHeld, GateIsExclusive
<1>10. ASSUME NEW c \in Calls, CompletePasses(c)
       PROVE  NoneAdded
  <2>1. \A q \in Reqs : req'[q] = req[q] \/ req'[q] = [req[q] EXCEPT !.consumed = TRUE]
    BY <1>10 DEF CompletePasses, TypeOK
  <2> QED  BY <1>a, <2>1 DEF Request
<1>11. CASE Restart
  BY <1>1, <1>11, <1>b DEF Restart
<1>12. ASSUME NEW r \in Reqs, RequestLapses(r)
       PROVE  NoneAdded
  <2>1. \A q \in Reqs : req'[q] = req[q] \/ req'[q] = [req[q] EXCEPT !.due = TRUE]
    BY <1>12 DEF RequestLapses, TypeOK
  <2> QED  BY <1>a, <2>1 DEF Request
<1> HIDE DEF NoneAdded
<1> QED
  BY <1>b, <1>3, <1>4, <1>5, <1>6, <1>7, <1>8, <1>9, <1>10, <1>11, <1>12,
     StepKinds, Zenon

-----------------------------------------------------------------------------
(* What every history satisfies *)

(* The inductive invariant holds in every reachable state.                 *)
THEOREM Invariance == Spec => []IndInv
<1>1. IndInv /\ [Next]_vars => IndInv'
  <2>1. IndInv /\ [Next]_vars => TypeOK'
    BY TypeStep DEF IndInv
  <2> QED  BY <2>1, GateStep, RowsStep, ReadsStep, SessionsStep, OneRequestStep DEF IndInv
<1> QED  BY InitInv, <1>1, PTL DEF Spec

(* Every row stays in its column's range, whatever the handlers, the clock *)
(* and a restart do.                                                       *)
THEOREM TypeCorrect == Spec => []TypeOK
<1>1. IndInv => TypeOK
  BY DEF IndInv
<1> QED  BY Invariance, <1>1, PTL

(* One approval is worth one session, however often the request is         *)
(* completed or approved again and whoever waits at the gate meanwhile.    *)
THEOREM ApprovalHolds == Spec => []ApprovalMintsOnce
<1>1. ASSUME IndInv, NEW r \in Reqs
      PROVE  /\ minted[r] <= 1
             /\ Cardinality({c \in Calls : call[c].pc = "completing" /\ call[c].req = r})
                  + minted[r] <= 1
  <2> DEFINE waiting == {c \in Calls : call[c].pc = "completing" /\ call[c].req = r}
  <2>1. minted[r] \in {0, 1}
    BY <1>1 DEF IndInv, RequestRows
  <2>2. waiting = {} => Cardinality(waiting) = 0
    BY FS_EmptySet
  <2>3. ASSUME NEW c \in waiting
        PROVE  Cardinality(waiting) = 1 /\ minted[r] = 0
    <3>1. waiting = {c}
      BY <1>1, <2>3 DEF IndInv, GateIsExclusive
    <3>2. Cardinality(waiting) = 1
      BY <3>1, FS_Singleton
    <3>3. minted[r] = 0
      BY <1>1, <2>3 DEF IndInv, GateIsExclusive, RequestRows
    <3> QED  BY <3>2, <3>3
  <2> HIDE DEF waiting
  <2>4. Cardinality(waiting) + minted[r] <= 1
    <3>1. CASE waiting = {}
      BY <2>1, <2>2, <3>1
    <3>2. CASE waiting # {}
      <4>1. PICK c : c \in waiting
        BY <3>2
      <4> QED  BY <2>3, <4>1
    <3> QED  BY <3>1, <3>2
  <2> QED  BY <2>1, <2>4 DEF waiting
<1>2. IndInv => ApprovalMintsOnce
  BY <1>1 DEF ApprovalMintsOnce
<1> QED  BY Invariance, <1>2, PTL

(* A session that skipped the OTP is the one that was approved: for that   *)
(* account, at that address.                                               *)
THEOREM ApprovedSessions == Spec => []SessionsComeFromApprovals
<1>1. IndInv => SessionsComeFromApprovals
  BY DEF IndInv
<1> QED  BY Invariance, <1>1, PTL

(* A device has one outstanding request.                                   *)
THEOREM OneRequest == Spec => []OneRequestPerDevice
<1>1. IndInv => OneRequestPerDevice
  BY DEF IndInv
<1> QED  BY Invariance, <1>1, PTL

(* A request that failed or expired mints nothing ever after: no handler   *)
(* makes it pending or completed again.                                    *)
THEOREM RefusalIsFinal == Spec => RefusedStaysRefused
<1> DEFINE Refused(s) == s \in {"failed", "expired"}
<1>1. ASSUME IndInv, [Next]_vars, NEW q \in Reqs, Refused(req[q].status)
      PROVE  Refused(req'[q].status)
  <2> USE DEF IndInv
  <2>a. req[q] \in Request
    BY <1>1 DEF TypeOK
  <2>1. CASE req'[q] = req[q]
    BY <1>1, <2>1
  <2>2. ASSUME NEW r \in Reqs, NEW s \in {"failed", "expired"},
               req' = [req EXCEPT ![r].status = s]
        PROVE  Refused(req'[q].status)
    BY <1>1, <2>2, StatusOnly
  <2>3. ASSUME NEW c \in Calls, NEW r \in Reqs, AskPasses(c, r)
        PROVE  Refused(req'[q].status)
    BY <1>1, <2>a, <2>3, AskPassesRows DEF Request
  <2>4. ASSUME NEW x \in Usable, NEW r \in Reqs, Approve(x, r)
        PROVE  Refused(req'[q].status)
    <3>1. q # r
      BY <1>1, <2>4 DEF Approve
    <3> QED  BY <1>1, <2>4, <3>1, StatusOnly DEF Approve
  <2>5. ASSUME NEW r \in Reqs, FindOverdue(r)
        PROVE  Refused(req'[q].status)
    BY <2>2, <2>5 DEF FindOverdue
  <2>6. ASSUME NEW c \in Calls, NEW r \in Reqs, Complete(c, r)
        PROVE  Refused(req'[q].status)
    <3>1. UNCHANGED req \/ req' = [req EXCEPT ![r].status = "failed"]
      BY <2>6 DEF Complete
    <3> QED  BY <2>1, <2>2, <3>1
  <2>7. ASSUME NEW c \in Calls, CompleteHeld(c)
        PROVE  Refused(req'[q].status)
    BY <1>1, <2>2, <2>7 DEF CompleteHeld, GateIsExclusive
  <2>8. ASSUME NEW c \in Calls, CompletePasses(c)
        PROVE  Refused(req'[q].status)
    <3>1. q # call[c].req
      BY <1>1, <2>8 DEF CompletePasses, GateIsExclusive
    <3>2. req'[q] = req[q]
      BY <1>1, <2>8, <3>1 DEF CompletePasses, TypeOK
    <3> QED  BY <2>1, <3>2
  <2>9. ASSUME NEW r \in Reqs, RequestLapses(r)
        PROVE  Refused(req'[q].status)
    <3>1. req'[q] = req[q] \/ req'[q] = [req[q] EXCEPT !.due = TRUE]
      BY <1>1, <2>9 DEF RequestLapses, TypeOK
    <3> QED  BY <1>1, <2>a, <3>1 DEF Request
  <2>10. ASSUME NEW c \in Calls, NEW u, NEW p, NEW a, Ask(c, u, p, a) \/ AskEnds(c)
         PROVE  req'[q] = req[q]
    BY <2>10 DEF Ask, AskEnds
  <2>11. Aside \/ Restart => req'[q] = req[q]
    BY DEF Aside, Restart
  <2> HIDE DEF Refused, IndInv
  <2>12. TypeOK
    BY <1>1 DEF IndInv
  <2> QED
    BY <1>1, <2>1, <2>3, <2>4, <2>5, <2>6, <2>7, <2>8, <2>9, <2>10, <2>11, <2>12,
       StepKinds, Zenon
<1>2. IndInv /\ [Next]_vars =>
        [\A r \in Reqs : req[r].status \in {"failed", "expired"}
                           => req'[r].status \in {"failed", "expired"}]_vars
  BY <1>1
<1> QED  BY Invariance, <1>2, PTL DEF Spec, RefusedStaysRefused

(* Only a completion that was overtaken at the gate mints a session for an *)
(* account that is locked or owes an OTP.                                  *)
THEOREM DemandWins == Spec => DemandWinsOutsideTheGate
<1>1. ASSUME IndInv, [Next]_vars, NEW r \in Reqs, minted'[r] > minted[r]
      PROVE  \E c \in Calls : CompletePasses(c) /\ call[c].req = r
  <2> USE DEF IndInv
  <2>1. minted[r] \in 0..2
    BY <1>1 DEF TypeOK
  <2>2. minted'[r] # minted[r]
    BY <1>1, <2>1
  <2>3. ASSUME NEW c \in Calls, CompletePasses(c), call[c].req # r
        PROVE  minted'[r] = minted[r]
    BY <1>1, <2>3 DEF CompletePasses, TypeOK
  <2>4. ASSUME NEW c, NEW x, NEW u, NEW p, NEW a, NEW q,
               \/ Aside \/ Restart \/ Ask(c, u, p, a) \/ AskEnds(c) \/ AskPasses(c, q)
               \/ Approve(x, q) \/ FindOverdue(q) \/ Complete(c, q)
               \/ CompleteHeld(c) \/ RequestLapses(q)
        PROVE  minted' = minted
    BY <2>4, Zenon DEF Aside, Restart, Ask, AskEnds, AskPasses, Approve, FindOverdue,
                Complete, CompleteHeld, RequestLapses
  <2>5. TypeOK
    BY <1>1
  <2> QED  BY <1>1, <2>2, <2>3, <2>4, <2>5, StepKinds, Zenon
<1>2. ASSUME IndInv, [Next]_vars, NEW r \in Reqs, minted'[r] > minted[r],
             acct[req[r].user].demand \/ ~acct[req[r].user].open
      PROVE  \E c \in overtaken : call[c].req = r
  <2>1. PICK c \in Calls : CompletePasses(c) /\ call[c].req = r
    BY <1>1, <1>2
  <2>2. call[c].pc = "completing" /\ req[r].user = call[c].user
    BY <1>2, <2>1 DEF CompletePasses, IndInv, GateIsExclusive
  <2>3. c \in overtaken
    BY <1>2, <2>2 DEF IndInv, ReadsAreCurrent
  <2> QED  BY <2>1, <2>3
<1>3. IndInv /\ [Next]_vars =>
        [\A r \in Reqs : minted'[r] > minted[r] =>
           LET a == acct[req[r].user] IN
           a.demand \/ ~a.open => \E c \in overtaken : call[c].req = r]_vars
  BY <1>2
<1> QED  BY Invariance, <1>3, PTL DEF Spec, DemandWinsOutsideTheGate

=============================================================================
