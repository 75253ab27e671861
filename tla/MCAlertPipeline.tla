-------------------------- MODULE MCAlertPipeline --------------------------
(***************************************************************************)
(* Two workers and two events.  The first event matches a Sigma rule and a *)
(* custom rule on one agent, the second a Sigma rule on another, and one   *)
(* that an operator suppresses.  Two correlation rules want both, from     *)
(* several agents and from the same one, so that a window is full across   *)
(* the events, and with a copy of an alert that a redelivery raises.       *)
(***************************************************************************)
EXTENDS AlertPipeline, TLC

CONSTANTS w1, w2, e1, e2, A, B

MCWorkers == {w1, w2}
MCEvents == {e1, e2}
MCMin == <<2, 2>>
MCScope == <<"spread", "same">>
Of(k, t, g, q, R) == [kind |-> k, title |-> t, agent |-> g, quiet |-> q, rules |-> R]
MCFindings ==
  (e1 :> <<Of("sigma", "A1", A, FALSE, {1, 2}), Of("custom", "A2", A, FALSE, {})>>) @@
  (e2 :> <<Of("sigma", "B1", B, FALSE, {1, 2}), Of("sigma", "B2", B, TRUE, {1, 2})>>)
MCSymmetry == Permutations(MCWorkers)
=============================================================================
