------------------------------ MODULE PatchArm ------------------------------
(***************************************************************************)
(* The search and the encoders for ARM: find_call_barm32 and               *)
(* find_call_baarch64 of src/int/det.c, patch_relative_barm, _barmth and   *)
(* _barm64 of src/int/patch.c, under mock_apply and mock_restore of one    *)
(* call.                                                                   *)
(*                                                                         *)
(* A function pointer is its address, plus 1 if it is Thumb code.  An      *)
(* instruction is its operation and the bit fields of its offset; Reached  *)
(* is what the architecture defines it to call.  Field widths are          *)
(* constants: 2^24, 2^26, 2^10, 2^11 in the architecture.                  *)
(***************************************************************************)
EXTENDS Integers

CONSTANTS
  Archs,     \* a subset of "arm", "thumb", "aarch64"
  ArmField,  \* 2^24: values of the offset field of bl
  ArmLimit,  \* 0x800000: the bound patch_relative_barm tests
  A64Field,  \* 2^26
  A64Limit,  \* 0x4000000: the bound patch_relative_barm64 tests
  Imm10,     \* 2^10
  Imm11,     \* 2^11
  Space,     \* 2^32: the address space of 32-bit ARM
  Calls,     \* addresses of the call instruction; ARM code is aligned to 4
  Pointers   \* the function pointers a stub may have

\* The weight of the sign bit of a Thumb offset, 2^24.
ThumbLimit == 8 * Imm10 * Imm11

ASSUME PatchArmAssumption ==
  /\ Archs \subseteq {"arm", "thumb", "aarch64"}
  /\ \A n \in {ArmField, A64Field, Imm10, Imm11} : n \in Nat /\ n > 0 /\ n % 2 = 0
  /\ ArmLimit \in Nat /\ ArmLimit <= 2 * ArmField
  /\ A64Limit \in Nat /\ A64Limit <= 2 * A64Field
  /\ Space \in Nat /\ Space % 4 = 0 /\ Space >= 4 * ArmField /\ Space >= 4 * ThumbLimit
  /\ Calls \subseteq Nat
  /\ \A a \in Calls : a % 2 = 0
  /\ Pointers \subseteq {p \in Nat : p % 2 = 1 \/ p % 4 = 0}

VARIABLES
  arch,    \* the build, and the instruction set of the tested function
  linked,  \* the call as the linker made it
  code,    \* the call now
  pc,      \* where it is
  stub,    \* mock->mocked
  phase,   \* "linked", "applied", "restored", or "crashed" on a null call
  refused  \* the steps of the current mock whose patch was refused

vars == <<arch, linked, code, pc, stub, phase, refused>>

-----------------------------------------------------------------------------
(* The architecture *)

\* x as an n-valued two's complement number.
Signed(x, n) == ((x + n \div 2) % n) - n \div 2

Even(p) == p - (p % 2)
Xor(b, c) == (b + c) % 2
Bit == {0, 1}

\* "bl?" is a conditional bl; "blxh" is blx with its H bit set.
ArmInsns == [op : {"bl", "bl?", "blx", "blxh"}, field : 0 .. ArmField - 1]
A64Insns == [op : {"bl"}, field : 0 .. A64Field - 1]
ThumbInsns ==
  {x \in [op : {"bl", "blx"}, s : Bit, j1 : Bit, j2 : Bit,
          imm10 : 0 .. Imm10 - 1, imm11 : 0 .. Imm11 - 1] :
     x.op = "blx" => x.imm11 % 2 = 0}

Insns(a) ==
  CASE a = "arm" -> ArmInsns
    [] a = "thumb" -> ThumbInsns
    [] a = "aarch64" -> A64Insns

ThumbOffset(x) ==
  LET i1 == 1 - Xor(x.j1, x.s)
      i2 == 1 - Xor(x.j2, x.s)
      bits == (((x.s * 2 + i1) * 2 + i2) * Imm10 + x.imm10) * Imm11 + x.imm11
  IN Signed(2 * bits, 2 * ThumbLimit)

\* The function pointer that x at address a calls, without wrapping.
Callee(x, a) ==
  CASE arch = "arm" ->
         a + 8 + 4 * Signed(x.field, ArmField)
           + (IF x.op = "blx" THEN 1 ELSE IF x.op = "blxh" THEN 3 ELSE 0)
    [] arch = "thumb" ->
         IF x.op = "bl" THEN a + 4 + ThumbOffset(x) + 1
         ELSE ((a + 4) \div 4) * 4 + ThumbOffset(x)
    [] arch = "aarch64" -> a + 4 * Signed(x.field, A64Field)

Reached(x) == IF arch = "aarch64" THEN Callee(x, pc) ELSE Callee(x, pc) % Space

\* mock->target.
Target == Reached(linked)

-----------------------------------------------------------------------------
(* The library *)

\* find_call_barm32 compares without the Thumb bit, find_call_baarch64 as is.
Finds(p) ==
  IF arch = "aarch64" THEN Reached(code) = p ELSE Even(Reached(code)) = Even(p)

\* Deviation: the pipeline is taken to be one instruction ahead.
OffsetArmShort(p) == Signed(p - (pc + 4), Space)

OffsetArm(p) == Signed(p - (pc + 8), Space)

AcceptsArm(p) ==
  /\ code.op = "bl"
  /\ -ArmLimit <= OffsetArm(p)
  /\ OffsetArm(p) <= ArmLimit - 1

\* Deviation: a negative offset runs into the opcode.
EncodedArmUnmasked(p) == [code EXCEPT !.field = OffsetArm(p) \div 4]

EncodedArm(p) == [code EXCEPT !.field = (OffsetArm(p) \div 4) % ArmField]

OffsetThumb(p) == Signed(Even(p) - (pc + 4), Space)

\* Deviation: the range is half as wide, as if there were no j2.
AcceptsThumbNarrow(p) ==
  -(ThumbLimit \div 2) <= OffsetThumb(p) /\ OffsetThumb(p) <= ThumbLimit \div 2 - 1

AcceptsThumb(p) == -ThumbLimit <= OffsetThumb(p) /\ OffsetThumb(p) <= ThumbLimit - 1

\* Deviation: the sign is taken from bit 23 of the offset.
SignBitLow(offset) == (offset \div (ThumbLimit \div 2)) % 2

SignBit(offset) == (offset \div ThumbLimit) % 2

\* A bl, also where there was a blx.
EncodedThumb(p) ==
  LET offset == OffsetThumb(p)
      s == SignBit(offset)
      i1 == (offset \div (ThumbLimit \div 2)) % 2
      i2 == (offset \div (ThumbLimit \div 4)) % 2
  IN [op |-> "bl", s |-> s, j1 |-> 1 - Xor(i1, s), j2 |-> 1 - Xor(i2, s),
      imm10 |-> (offset \div (2 * Imm11)) % Imm10,
      imm11 |-> (offset \div 2) % Imm11]

AcceptsA64(p) ==
  /\ code.op = "bl"
  /\ -A64Limit <= p - pc
  /\ p - pc <= A64Limit - 1

EncodedA64(p) == [code EXCEPT !.field = ((p - pc) \div 4) % A64Field]

Accepts(p) ==
  CASE arch = "arm" -> AcceptsArm(p)
    [] arch = "thumb" -> AcceptsThumb(p)
    [] arch = "aarch64" -> AcceptsA64(p)

Encoded(p) ==
  CASE arch = "arm" -> EncodedArm(p)
    [] arch = "thumb" -> EncodedThumb(p)
    [] arch = "aarch64" -> EncodedA64(p)

\* patch_call_target: a refused patch leaves the call as it is.  `before' are
\* the refusals the mock has seen.
Patch(p, step, before) ==
  \/ /\ Accepts(p)
     /\ code' = Encoded(p)
     /\ refused' = before
  \/ /\ ~Accepts(p)
     /\ refused' = before \union {step}
     /\ UNCHANGED code

\* mock_apply of a new mock of the call, also in a later test.
Apply(p) ==
  /\ phase \in {"linked", "restored"}
  /\ Finds(Target)
  /\ stub' = p
  /\ Patch(p, "apply", {})
  /\ phase' = "applied"
  /\ UNCHANGED <<arch, linked, pc>>

\* mock_restore searches for the stub and does not test what it found.
Restore ==
  /\ phase = "applied"
  /\ \/ /\ Finds(stub)
        /\ Patch(Target, "restore", refused)
        /\ phase' = "restored"
     \/ /\ ~Finds(stub)
        /\ phase' = "crashed"
        /\ UNCHANGED <<code, refused>>
  /\ UNCHANGED <<arch, linked, pc, stub>>

Init ==
  /\ arch \in Archs
  /\ pc \in Calls
  /\ arch # "thumb" => pc % 4 = 0
  /\ linked \in Insns(arch)
  /\ code = linked
  /\ stub = 0
  /\ phase = "linked"
  /\ refused = {}

\* A pointer of the build: AArch64 has no Thumb code.
IsPointer(p) == IF arch = "aarch64" THEN p % 4 = 0 ELSE p < Space

Next ==
  \/ Restore
  \/ \E p \in Pointers : IsPointer(p) /\ Apply(p)

Spec == Init /\ [][Next]_vars

-----------------------------------------------------------------------------
PatchArmTypeOK ==
  /\ arch \in Archs
  /\ linked \in Insns(arch)
  /\ code \in Insns(arch)
  /\ pc \in Calls
  /\ stub \in Pointers \union {0}
  /\ phase \in {"linked", "applied", "restored", "crashed"}
  /\ refused \subseteq {"apply", "restore"}

\* The stub is code of the instruction set of the tested function.
SameSet == stub % 2 = (IF arch = "thumb" THEN 1 ELSE 0)

\* A patched call enters the stub, not a neighbour of it and not in the other
\* instruction set, whatever the call was before: the split of the offset
\* into sign, j1, j2 and immediates is the one the processor puts together
\* (patch_relative_barmth), and no accepted offset loses bits in its field.
AppliedReachesStub ==
  (phase = "applied" /\ refused = {} /\ SameSet) => Reached(code) = stub

\* When both patches of a mock were written the call is bit for bit what the
\* linker made, however often that happened before, except that a Thumb blx
\* has become a bl (patch_relative_barmth).
RestoredUnlessBlx ==
  (phase = "restored" /\ refused = {}) => code = linked \/ linked.op = "blx"

\* The range test of Thumb is exactly the reach of its bl: a call that was
\* linked and could be diverted can be given back, at both ends of the range
\* (patch_relative_barmth).
ThumbGivesBack ==
  (arch = "thumb" /\ linked.op = "bl" /\ refused # {}) => "apply" \in refused

\* mock_restore finds the call of its mock again, unless mock_apply could not
\* patch it or the stub is code of the other instruction set: then the low
\* bits of its address were lost and the search returns null.
LostExplained == phase = "crashed" => "apply" \in refused \/ ~SameSet

\* The inductive invariant: an ARM call keeps its operation, only mock_apply
\* was refused so far, and the patched call reaches the stub.
PatchArmInv ==
  /\ PatchArmTypeOK
  /\ arch # "thumb" => pc % 4 = 0 /\ code.op = linked.op
  /\ phase = "applied" => refused \subseteq {"apply"}
  /\ AppliedReachesStub

\* "check 24-bit signed range (+32mb)" (patch.c:107) and "restore the contents
\* of a function" (mock.h:67): a call that was diverted to a stub is restored.
RestoresContents == (phase = "restored" /\ "apply" \notin refused) => code = linked
=============================================================================
