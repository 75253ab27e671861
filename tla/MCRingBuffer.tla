---------------------------- MODULE MCRingBuffer ----------------------------
(***************************************************************************)
(* A small spool: three batch lengths, one of them larger than the cap,    *)
(* the eight-byte header and the GCM overhead in proportion, caps low      *)
(* enough that both of them evict.                                         *)
(***************************************************************************)
EXTENDS RingBuffer

MCLens == {1, 9, 40}
MCAckSizes == {1, 2}
=============================================================================
