---------------------------- MODULE MCGatekeeper ----------------------------
(***************************************************************************)
(* Two endpoints and two callers, a budget of two in a window longer than  *)
(* the cooldown, and the configurations that take different paths.         *)
(***************************************************************************)
EXTENDS Gatekeeper, TLC

CONSTANTS a1, a2, c1, c2

MCAgents == {a1, a2}
MCCallers == {c1, c2}
MCConfig(on, dry, cmds, ids, names) ==
  [enabled |-> on, dryRun |-> dry, commands |-> cmds, exemptIds |-> ids, exemptNames |-> names]
MCConfigs ==
  {MCConfig(TRUE, FALSE, TRUE, {}, {}), MCConfig(TRUE, FALSE, TRUE, {a1}, {a2}),
   MCConfig(TRUE, FALSE, TRUE, {a2}, {a1})}
    \cup {MCConfig(FALSE, FALSE, TRUE, {}, {}), MCConfig(TRUE, TRUE, TRUE, {}, {}),
          MCConfig(TRUE, FALSE, FALSE, {}, {})}

MCSymmetry == Permutations(MCAgents) \cup Permutations(MCCallers)
=============================================================================
