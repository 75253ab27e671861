--------------------------- MODULE MCRemediation ---------------------------
(***************************************************************************)
(* Two alerts for the same host or for different ones, a rule that         *)
(* isolates and rolls back, and three exclusions, one of them in the       *)
(* database at the start and another with the same pattern.                *)
(***************************************************************************)
EXTENDS Remediation

CONSTANTS k1, k2, h1, h2, x1, x2, x3

MCCalls == {k1, k2}
MCHosts == {h1, h2}
MCRollsBack == {1}
MCExclusions == {x1, x2, x3}
MCStored == {x1}
MCPattern == (x1 :> {h1}) @@ (x2 :> {h2}) @@ (x3 :> {h1})

\* The alerts differ in nothing but their hosts, which are chosen freely.
MCSymmetry == Permutations(MCCalls)
=============================================================================
