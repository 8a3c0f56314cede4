------------------------------ MODULE MCSuites ------------------------------
(***************************************************************************)
(* Instances of Runner for TLC.  Two tested functions, f and g; the sweep  *)
(* of f overshoots into g.  Addresses are scaled: 2^15 stands for 2 GB and *)
(* 2^16 for 4 GB; pages keep their 4096 bytes, and so does the reach of a  *)
(* sweep (the 0x1000 of det.c:432).                                        *)
(***************************************************************************)
EXTENDS MisuseInv, TLC

Base == 17 * 4096

\* The first call of f starts on a page boundary, so that guard_create can
\* find its entry; the call of g is on the second page.
GoodSites == {Base, Base + 100, Base + 4150}
GoodSpan == "f" :> {Base, Base + 100} @@ "g" :> {Base + 100, Base + 4150}

MCNatives == {"A", "B"}
MCCallees == {"A", "B", "S", "T"}
MCEntry == "A" :> Base + 6000 @@ "B" :> Base + 6100
             @@ "S" :> Base + 7000 @@ "T" :> Base + 7100

\* Three programs: f calls A twice, A then B, B then A; g calls A itself.
Program(first, second) ==
  Base :> first @@ Base + 100 :> second @@ Base + 4150 :> "A"
GoodImages == {Program("A", "A"), Program("A", "B"), Program("B", "A")}
GoodLength == [a \in GoodSites |-> 5]

Mocking(orig, target, mocked) == [orig |-> orig, target |-> target, mocked |-> mocked]

GoodDefs == {Mocking("f", "A", "S"), Mocking("g", "A", "S"), Mocking("f", "B", "T")}
\* One stub for two targets, as TAPI_MOCK_RETURN_INT invites.
SharedStubDefs == {Mocking("f", "A", "S"), Mocking("f", "B", "S")}

-----------------------------------------------------------------------------
(* Misuse: a call of g straddles a page, a stub is out of reach, another is *)
(* linked below 4 GB, a native is a stub, and stubs are shared.             *)

HardSites == {Base, Base + 100, Base + 4094}
HardLength == [a \in HardSites |-> 5]
HardSpan == "f" :> {Base, Base + 100} @@ "g" :> {Base + 100, Base + 4094}
HardCallees == {"A", "B", "S", "Far", "Low"}
HardEntry == "A" :> Base + 6000 @@ "B" :> Base + 6100 @@ "S" :> Base + 7000
               @@ "Far" :> Base + 50000 @@ "Low" :> 60000

\* f calls A twice, or A then B.
HardImages ==
  {[a \in HardSites |-> IF a = Base + 100 THEN second ELSE "A"] : second \in {"A", "B"}}
HardDefs ==
  {Mocking("f", "A", "B"), Mocking("f", "B", "S"), Mocking("g", "A", "S"),
   Mocking("f", "A", "Far"), Mocking("f", "A", "Low")}
=============================================================================
