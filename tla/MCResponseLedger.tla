-------------------------- MODULE MCResponseLedger --------------------------
(***************************************************************************)
(* An endpoint is isolated and released.                                   *)
(***************************************************************************)
EXTENDS ResponseLedger

CONSTANTS c1, c2

MCCommands == {c1, c2}
MCKind == (c1 :> "isolate") @@ (c2 :> "unisolate")
=============================================================================
