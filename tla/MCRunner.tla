------------------------------ MODULE MCRunner ------------------------------
(***************************************************************************)
(* The disciplined instance: TLC checks DisciplineAssumption of RunnerInv. *)
(***************************************************************************)
EXTENDS MCSuites, RunnerInv
=============================================================================
