---------------------------- MODULE MCSelfUpdate ----------------------------
(***************************************************************************)
(* Three releases follow the installed one, the first and the third of     *)
(* them broken, so that a broken release can stage a sound one and the     *)
(* other way round.                                                        *)
(***************************************************************************)
EXTENDS SelfUpdate

MCBroken == {1, 3}
=============================================================================
