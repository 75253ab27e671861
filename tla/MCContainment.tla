--------------------------- MODULE MCContainment ---------------------------
(***************************************************************************)
(* One endpoint with two block rules, and one request at a time.           *)
(***************************************************************************)
EXTENDS Containment

CONSTANTS o1, in, out

MCOperators == {o1}
MCRuleNames == {in, out}
=============================================================================
