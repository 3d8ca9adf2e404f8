---------------------------- MODULE MCRiskScoring ----------------------------
(* A small instance of RiskScoring: one login at 3:00, of which the gate   *)
(* is asked a minute before or after; two others of its user, one on the   *)
(* edge of the day's window and one from the same device; and three        *)
(* policies: one with every default, one with thresholds of its own, and   *)
(* one that was seeded with weights and a rule that activate_policy would  *)
(* refuse.                                                                 *)
EXTENDS RiskScoring, TLC

CONSTANT none

MCLogin == [at |-> 1011 * 60, outcome |-> "success", ip |-> 1, agent |-> 1, print |-> 1]
MCGateTimes == {MCLogin.at - 1, MCLogin.at + 1}
MCPast ==
    {[at |-> 987 * 60, outcome |-> "failure", ip |-> 2, agent |-> 2, print |-> none],
     [at |-> 988 * 60, outcome |-> "success", ip |-> 1, agent |-> 1, print |-> 1]}

Rule(field, operator, value, score) ==
    [field |-> field, operator |-> operator, value |-> value, weight |-> 50,
     score |-> score, enabled |-> TRUE]
Rules == <<Rule("new_device", "==", <<1>>, 100),
           Rule("fail_count_24h", ">=", <<1>>, 60),
           Rule("hour_of_day", "not_between", <<6, 22>>, 40),
           [Rule("deviation_score", ">", <<50>>, 80) EXCEPT !.enabled = FALSE]>>
MCContent ==
    [default |-> [rules |-> Rules, config |-> [weights |-> none, thresholds |-> none]],
     strict |-> [rules |-> Rules,
                 config |-> [weights |-> [rule |-> 70, ml |-> 30],
                             thresholds |-> [low |-> 10, medium |-> 20, high |-> 30]]],
     seeded |-> [rules |-> <<Rule("country", "in", <<1>>, 100), Rules[1]>>,
                 config |-> [weights |-> [rule |-> 90, ml |-> 90],
                             thresholds |-> [low |-> 50, medium |-> 20, high |-> 30]]]]
MCPolicies == DOMAIN MCContent
Symmetry == Permutations(Workers)
=============================================================================
