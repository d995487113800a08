---------------------------- MODULE MCPrimitives ----------------------------
(***************************************************************************)
(* Two frames in flight, an update and two draws in each, three            *)
(* generations of buffers, and a ring that just holds what two frames and  *)
(* an update allocate.                                                     *)
(***************************************************************************)
EXTENDS Primitives
=============================================================================
