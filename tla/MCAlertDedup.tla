---------------------------- MODULE MCAlertDedup ----------------------------
(***************************************************************************)
(* Two servers and three alerts of one rule for one agent: two from one    *)
(* engine, and one from the other engine, which spells the title           *)
(* differently and finds it less severe.                                   *)
(***************************************************************************)
EXTENDS AlertDedup, TLC

CONSTANTS r1, r2, a1, a2, a3

MCServers == {r1, r2}
MCAlerts == {a1, a2, a3}
MCSpelling == [a \in Alerts |-> IF a = a3 THEN "[Sigma]" ELSE "[SIGMA]"]
MCSeverity == [a \in Alerts |-> IF a = a3 THEN 5 ELSE 7]
MCOne == [a \in Alerts |-> 1]
MCSymmetry == Permutations({r1, r2}) \cup Permutations({a1, a2})
=============================================================================
