------------------------------- MODULE Sweep -------------------------------
(* How det.c guesses where a function ends and looks for a call in it. The   *)
(* code from the function's entry on is a sequence of kinds of instructions: *)
(* the function's own, padding, and the function that the linker put behind. *)
(* det_function_size adds up sizes until something looks like the end;       *)
(* det_call_target then reads that many bytes again for a call to the        *)
(* target. Where the guess is short a call is missed; where it is long the   *)
(* call of another function is taken, which mock_apply then diverts.         *)
(*                                                                           *)
(* "call" is a direct call to the target, "branch" any other direct call or  *)
(* conditional branch, "jmp" a direct jump, "data" bytes that do not decode. *)
(* "prologue" and "epilogue" are what Signatures classifies; on x86 every    *)
(* instruction is known by its capstone group.                               *)
EXTENDS Naturals, Sequences

CONSTANTS MaxSize,  \* the bytes to look at, 0x1000 in det_call_target
          Size,     \* the size of each kind of instruction
          Layouts   \* [arch, own, padding, next]: the last three are sequences of kinds

Kinds == {"plain", "branch", "call", "ret", "jmp", "endbr", "leave", "nop",
          "prologue", "epilogue", "lsls", "data"}

(* Signatures are looked for on ARM only, leave and endbr exist on x86 only. *)
KindsOf(arch) ==
    IF arch = "x86" THEN Kinds \ {"prologue", "epilogue", "lsls"} ELSE Kinds \ {"leave", "endbr"}

Fill == {"nop", "lsls", "data"}

(* A call is longer than the "ret" of one byte that follows a leave.         *)
ASSUME SizeAssumption ==
    MaxSize \in Nat \ {0} /\ Size \in [Kinds -> Nat \ {0}] /\ Size["call"] > 1

ASSUME LayoutsAssumption ==
    \A l \in Layouts :
        /\ l.arch \in {"x86", "arm", "aarch64"}
        /\ l.own \in Seq(KindsOf(l.arch)) \ {<<>>} /\ l.next \in Seq(KindsOf(l.arch))
        /\ l.padding \in Seq(KindsOf(l.arch) \cap Fill)

VARIABLES layout,   \* the code in memory
          phase,    \* "measure", "search", or how the search ended: "found", "none", "null"
          i,        \* the instruction that capstone decodes next
          left,     \* the bytes it may still read: code_size, then size
          size,     \* what det_function_size answers
          found,    \* found_epilogue
          starting, \* starting_prologues
          pads      \* pad_count

vars == <<layout, phase, i, left, size, found, starting, pads>>

code == layout.own \o layout.padding \o layout.next

kind == code[i]

Decodes == i <= Len(code) /\ kind # "data" /\ Size[kind] <= left
----------------------------------------------------------------------------
(* What one instruction tells of the end of the function.                    *)

(* Deviation: a return is not taken for the end of a function. *)
FoundAtBranch ==
    IF layout.arch = "x86" THEN kind \in {"branch", "call"} \/ (found /\ kind # "jmp")
    ELSE kind = "epilogue"

(* Once an x86 branch was seen everything counts as the end of a function    *)
(* until a direct jump; on ARM only an epilogue itself does.                 *)
FoundEpilogue ==
    IF layout.arch = "x86" THEN kind \in {"branch", "call", "ret"} \/ (found /\ kind # "jmp")
    ELSE kind = "epilogue"

(* Deviation: every prologue but the first instruction starts a function. *)
AnyPrologue == kind = "prologue" /\ i > 1

(* A prologue after an epilogue, or after an instruction that is none.       *)
ProloguePastStart == kind = "prologue" /\ (found \/ (i > 1 /\ ~starting))

(* So the next function starts; or with the padding that armhf has after an  *)
(* epilogue, or with an endbr behind an x86 branch.                          *)
NextFunction ==
    \/ ProloguePastStart
    \/ layout.arch = "arm" /\ found /\ kind \in {"nop", "lsls"}
    \/ kind = "endbr" /\ FoundEpilogue

(* Deviation: counted as two bytes more than it is. *)
LeaveAndReturn == Size["leave"] + 2

(* "leave" and the "ret" behind it are two bytes.                            *)
LeaveAndRet == Size["leave"] + 1

LastInstruction == kind = "leave" /\ FoundEpilogue

Padded(count) == count > 2
----------------------------------------------------------------------------
(* The loop of det_function_size.                                            *)

Measured(bytes) == size' = bytes /\ left' = bytes /\ i' = 1 /\ phase' = "search"

EndMeasure ==
    /\ phase = "measure"
    /\ \/ ~Decodes /\ Measured(size)
       \/ Decodes /\ NextFunction /\ Measured(size)
       \/ Decodes /\ LastInstruction /\ Measured(size + LeaveAndRet)
    /\ UNCHANGED <<layout, found, starting, pads>>

Add ==
    /\ phase = "measure" /\ Decodes /\ ~NextFunction /\ ~LastInstruction
    /\ found' = FoundEpilogue
    /\ starting' = (starting /\ ((i = 1 /\ ~FoundEpilogue) \/ kind = "prologue"))
    /\ pads' = IF ~FoundEpilogue THEN pads ELSE IF kind = "nop" THEN pads + 1 ELSE 0
    /\ LET bytes == size + Size[kind]
       IN IF Padded(pads') \/ bytes >= MaxSize THEN Measured(bytes)
          ELSE size' = bytes /\ left' = left - Size[kind] /\ i' = i + 1 /\ phase' = phase
    /\ UNCHANGED layout

(* cs_malloc fails before the loop: the answer is 0.                         *)
MeasureFails ==
    /\ phase = "measure" /\ i = 1
    /\ Measured(0)
    /\ UNCHANGED <<layout, found, starting, pads>>
----------------------------------------------------------------------------
(* The loop of det_call_target, over the bytes of the answer.                *)

Search ==
    /\ phase = "search"
    /\ \/ Decodes /\ kind = "call" /\ phase' = "found" /\ UNCHANGED <<i, left>>
       \/ Decodes /\ kind # "call" /\ i' = i + 1 /\ left' = left - Size[kind] /\ phase' = phase
       \/ ~Decodes /\ phase' = "none" /\ UNCHANGED <<i, left>>
    /\ UNCHANGED <<layout, size, found, starting, pads>>

(* calloc of the answer, or cs_malloc for the second loop, fails.            *)
SearchFails ==
    /\ phase = "search" /\ i = 1
    /\ phase' = "null"
    /\ UNCHANGED <<layout, i, left, size, found, starting, pads>>
----------------------------------------------------------------------------
Init ==
    /\ layout \in Layouts
    /\ phase = "measure"
    /\ i = 1 /\ left = MaxSize /\ size = 0
    /\ found = FALSE /\ starting = TRUE /\ pads = 0

Next == EndMeasure \/ Add \/ MeasureFails \/ Search \/ SearchFails

Spec == Init /\ [][Next]_vars
----------------------------------------------------------------------------
(* The measure never leaves the bytes it was given by more than the byte of  *)
(* the "ret" it did not read, and neither loop decodes past its own bytes.   *)
SweepTypeOK ==
    /\ layout \in Layouts
    /\ phase \in {"measure", "search", "found", "none", "null"}
    /\ i \in 1..Len(code) + 1
    /\ size \in 0..MaxSize + 1 /\ left \in 0..MaxSize + 1
    /\ phase = "measure" => size + left = MaxSize
    /\ phase # "measure" => left <= size
    /\ found \in BOOLEAN /\ starting \in BOOLEAN
    /\ pads \in 0..3

Own == Len(layout.own)

NextStart == Own + Len(layout.padding) + 1

(* The last branch of an x86 function up to k was no direct jump.            *)
Behind(k) ==
    \E j \in 1..k : code[j] \in {"branch", "call", "ret"} /\ \A l \in j + 1..k : code[l] # "jmp"

(* What the sweep takes for the end of a function, at k.                     *)
LooksLikeEnd(k) ==
    \/ code[k] = "data"
    \/ code[k] \in {"leave", "endbr"} /\ Behind(k)
    \/ layout.arch = "x86" /\ k > 2 /\ Behind(k) /\ \A j \in k - 2..k : code[j] = "nop"
    \/ /\ code[k] = "prologue"
       /\ \E j \in 1..k - 1 : code[j] # "prologue" /\ (j > 1 \/ code[j] = "epilogue")
    \/ layout.arch = "arm" /\ code[k] \in {"nop", "lsls"} /\ k > 1 /\ code[k - 1] = "epilogue"

(* A call of the function to the target is overlooked only for what stands   *)
(* before it in the function: a leave, an endbr or three nops behind a       *)
(* branch on x86; on ARM a prologue behind something else, or an epilogue    *)
(* and padding; or when the search stopped where MaxSize bytes end; or for   *)
(* want of memory. A function without any of these is searched to its end,   *)
(* so the search finds its first call.                                       *)
MissExplained ==
    phase = "none" /\ size > 0 =>
        \A c \in 1..Own : code[c] = "call" =>
            \/ \E k \in 1..c - 1 : LooksLikeEnd(k)
            \/ size + Size[kind] > MaxSize

(* A call of the next function is taken for one of this function, and        *)
(* diverted, only when this function has none and nothing up to the entry of *)
(* the next function looks like an end: on x86 when this one ends in a tail  *)
(* call, or with less than three nops before a function without endbr; on    *)
(* ARM before a function without prologue, or behind a single instruction.   *)
ForeignExplained ==
    phase = "found" /\ i > Own =>
        /\ \A c \in 1..Own : code[c] # "call"
        /\ \A k \in 1..NextStart : ~LooksLikeEnd(k)
=============================================================================
