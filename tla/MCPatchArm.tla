----------------------------- MODULE MCPatchArm -----------------------------
(***************************************************************************)
(* An instance of PatchArm for TLC: 4-bit offset fields, hence a reach of  *)
(* 32 bytes either way, in an address space of 128 bytes that wraps.  The  *)
(* limits keep their ratio to the fields: half of it in bytes for ARM32,   *)
(* all of it for AArch64.                                                  *)
(***************************************************************************)
EXTENDS PatchArm

MCCalls == {62, 64, 120}
MCPointers == {p \in 0 .. 127 : p % 2 = 1 \/ p % 4 = 0}
=============================================================================
