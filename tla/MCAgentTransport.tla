-------------------------- MODULE MCAgentTransport --------------------------
(***************************************************************************)
(* Two collectors, or one.  The configurations choose the spool's size.    *)
(***************************************************************************)
EXTENDS AgentTransport

CONSTANTS s1, s2

MCSenders == {s1, s2}
MCOneSender == {s1}
=============================================================================
