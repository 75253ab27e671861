------------------------- MODULE MCDetectionEngine -------------------------
(***************************************************************************)
(* A replica with two workers.  The same rule fires in two events; the     *)
(* second also has an unknown process, and a rule of its own that is       *)
(* suppressed and takes the map to its cap.  A third event does not parse. *)
(***************************************************************************)
EXTENDS DetectionEngine, TLC

CONSTANTS r1, w1, w2, e1, e2, e3

MCReplicas == {r1}
MCWorkers == {w1, w2}
MCHome == (w1 :> r1) @@ (w2 :> r1)
MCEvents == {e1, e2, e3}
MCMalformed == {e3}
MCTitles == {"rule", "second", "process"}
Of(k, t, q) == [kind |-> k, title |-> t, quiet |-> q]
MCFindings ==
  (e1 :> <<Of("rule", "rule", FALSE)>>) @@
  (e2 :> <<Of("baseline", "process", FALSE), Of("rule", "rule", FALSE),
           Of("rule", "second", TRUE)>>) @@
  (e3 :> <<>>)
=============================================================================
