------------------------------ MODULE MCManager ------------------------------
(* A day of two hours of two ticks: the limits keep their order in the     *)
(* code (72 hours < 400 hours < 31 days < 366 days), and a window that is  *)
(* not aligned may have a bucket more than its length suggests.            *)
EXTENDS Manager, TLC
CONSTANTS c1, m1, m2, here, there, v1, v2

(* The same numbers in three places, as in the code.                       *)
MCLimit ==
    [facade |-> [span |-> 12, hourSpan |-> 10, auto |-> 6, buckets |-> [hour |-> 4, day |-> 3]],
     core |-> [span |-> 12, hourSpan |-> 10, auto |-> 6, buckets |-> [hour |-> 4, day |-> 3]],
     detection |-> [span |-> 12, hourSpan |-> 10, auto |-> 6, buckets |-> [hour |-> 4, day |-> 3]]]
MCPathOf == (m1 :> here) @@ (m2 :> there) @@ (Nothing :> here)
MCVersionOf == (m1 :> v1) @@ (m2 :> v2)
MCShipped == (here :> v1) @@ (there :> v2)
MCOutputs == {[anomaly |-> TRUE, reasons |-> {"new_ip"}]}

Q(endpoint, from, to, bucket, status) ==
    [endpoint |-> endpoint, from |-> from, to |-> to, bucket |-> bucket,
     filter |-> [status |-> status, level |-> None]]
(* Refused: too many buckets, an unknown status, too long for hours.       *)
MCQuestions ==
    (c1 :> {Q("dashboard", 9, 21, None, None),
            Q("soc-kpi", 15, None, None, None),
            Q("alerts", 8, 20, None, "open"), Q("alerts", 8, 20, None, "closed"),
            Q("trends", 9, 20, "hour", None),
            Q("ml-stats", 15, 22, None, None)})

User(i, at, status) == [id |-> i, at |-> at, status |-> status, failed |-> i,
                        mfa_required |-> i = 1, mfa_once |-> i = 2]
MCCoreTables ==
    {[users |-> {User(0, 3, "active"), User(1, 16, "locked"), User(2, 20, "suspended")},
      sessions |-> {[id |-> 1, at |-> 15, revoked |-> 19, expires |-> 30],
                    [id |-> 2, at |-> 16, revoked |-> None, expires |-> 30],
                    [id |-> 3, at |-> 20, revoked |-> None, expires |-> 19]},
      mfa |-> {[id |-> 1, at |-> 15, status |-> "completed"],
               [id |-> 2, at |-> 20, status |-> "pending"]},
      audit |-> {[id |-> 1, at |-> 13, action |-> "login_success", actor |-> "user",
                  protective |-> FALSE],
                 [id |-> 2, at |-> 17, action |-> "lock", actor |-> "system",
                  protective |-> TRUE]}]}

Alert(i, at, status, level, resolved) ==
    [id |-> i, at |-> at, status |-> status, level |-> level, resolved |-> resolved,
     analyst |-> None, rules |-> {"rule"}, reasons |-> {"new_ip"}]
Attempt(i, at, outcome, level) ==
    [id |-> i, at |-> at, outcome |-> outcome, level |-> level,
     decision |-> IF level = None THEN None ELSE "block"]
MCDetectionTables ==
    {[attempts |-> {Attempt(1, 9, "success", "high"), Attempt(2, 16, "failure", "high"),
                    Attempt(3, 20, "blocked", None)},
      assessments |-> {[id |-> 1, at |-> 9, score |-> 6, ml |-> "success"],
                       [id |-> 2, at |-> 17, score |-> 8, ml |-> None]},
      alerts |-> {Alert(1, 9, "resolved", "high", 19), Alert(2, 17, "open", "critical", None),
                  Alert(3, 20, "false_positive", "high", 20)},
      events |-> {[alert |-> 1, type |-> "acknowledged", at |-> 15],
                  [alert |-> 2, type |-> "escalated", at |-> 20]},
      logs |-> {[id |-> 1, at |-> 9, stage |-> "action_sent", enforced |-> TRUE],
                [id |-> 2, at |-> 17, stage |-> "action_sent", enforced |-> FALSE],
                [id |-> 3, at |-> 17, stage |-> "scoring", enforced |-> FALSE]},
      analysts |-> {[id |-> 1, active |-> TRUE]},
      policies |-> {[id |-> 1, active |-> TRUE]}]}
=============================================================================
