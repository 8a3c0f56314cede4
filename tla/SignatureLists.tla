--------------------------- MODULE SignatureLists ---------------------------
(* The signatures of sig.h and the instructions they are for, in words: a    *)
(* word of several letters is one character of Signatures. That changes      *)
(* nothing, since no word of a signature begins another word that can stand  *)
(* in its place, and what follows a hole and is searched for is one letter,  *)
(* ',', ']' or '}', which the text holds in no longer word before its place. *)
EXTENDS Signatures

(* The words that stand for more than themselves.                            *)
Push == "push {"
StoreDown == "stmdb sp!, {"
Pop == "pop {"
LoadUp == "ldmia sp!, {"
GrowStack == "sub sp, sp, #"
ShrinkStack == "add sp, sp, #"
Place == "[sp, #"
Comma == ","
Brace == "}"
Bracket == "]"
WriteBack == "!"

(* "push {r??, r??, lr}": `count' numbered registers, then perhaps another.  *)
RegisterList(opcode, count, rest) ==
    <<opcode>>
    \o [k \in 1..4 * count - 1 |-> CASE k % 4 = 1 -> "r" [] k % 4 = 0 -> Comma [] OTHER -> Hole]
    \o rest \o <<Brace>>

(* One to four registers, without and with the one that is kept apart.       *)
RegisterLists(opcode, last) ==
    [k \in 1..8 |-> RegisterList(opcode, (k + 1) \div 2, IF k % 2 = 1 THEN <<>> ELSE <<Comma, last>>)]

(* ARMHF_P13 and ARMHF_E13 have a comma too many.                            *)
WithComma(signatures, opcode) == [signatures EXCEPT ![3] = RegisterList(opcode, 2, <<Comma>>)]

Armhf ==
    [prologues |-> RegisterLists(Push, "lr")
                   \o <<RegisterList(Push, 5, <<>>), <<GrowStack, Hole>>>>
                   \o WithComma(RegisterLists(StoreDown, "lr"), StoreDown),
     epilogues |-> RegisterLists(Pop, "pc")
                   \o <<RegisterList(Pop, 5, <<>>), <<ShrinkStack, Hole>>>>
                   \o WithComma(RegisterLists(LoadUp, "pc"), LoadUp)]

Pair(opcode, end) == <<opcode, Hole, Comma, Hole, Comma, Place, Hole>> \o end

Aarch64 ==
    [prologues |-> <<<<GrowStack, Hole>>, Pair("stp", <<Bracket>>), Pair("stp", <<Bracket, WriteBack>>), <<"paciasp">>>>,
     epilogues |-> <<<<ShrinkStack, Hole>>, Pair("ldp", <<Bracket>>), <<"autiasp">>>>]
----------------------------------------------------------------------------
(* Of the 36 signatures of armhf a few decide: a push or pop, with whatever  *)
(* registers, is told by its first one, which must be written with an "r":   *)
(* "push {fp, lr}" or "push {lr}" is nothing. On aarch64 a pair is pushed    *)
(* with or without write-back, but popped only without: "ldp x29, x30,       *)
(* [sp], #16", the usual end of a function, is nothing. (sig.h)              *)
Opening == {Push, StoreDown}
Closing == {Pop, LoadUp}
Transfers == {"stp", "ldp"}

(* What the disassembler writes: the one brace that closes a register list,  *)
(* two registers and a place for a pair, at most "!" behind its bracket, and *)
(* no operand for a hint.                                                    *)
ArmhfText(t) ==
    /\ t # <<>>
    /\ t[1] \in Opening \cup Closing => \A i \in 1..Len(t) : t[i] = Brace <=> i = Len(t)

OnStack(t) == Len(t) > 5 /\ t[6] = Place

ClosedAt(t, end) == end \in 7..Len(t) /\ \A i \in 1..Len(t) : t[i] = Bracket <=> i = end

Aarch64Text(t) ==
    /\ t # <<>>
    /\ t[1] \in {"paciasp", "autiasp"} => Len(t) = 1
    /\ t[1] \in Transfers =>
           /\ Len(t) > 5 /\ \A i \in 1..5 : t[i] = Comma <=> i \in {3, 5}
           /\ OnStack(t) => \/ ClosedAt(t, Len(t))
                            \/ ClosedAt(t, Len(t) - 1) /\ t[Len(t)] = WriteBack

ASSUME TextsAssumption ==
    /\ {"r", Comma, Brace, Place, Bracket, WriteBack, "lr", "pc", "paciasp", "autiasp",
        GrowStack, ShrinkStack} \cup Opening \cup Closing \cup Transfers \subseteq Chars
    /\ \A check \in Checks :
           /\ check.lists = Armhf => ArmhfText(check.text)
           /\ check.lists = Aarch64 => Aarch64Text(check.text)

ArmhfVerdict ==
    IF text[1] = GrowStack \/ (text[1] \in Opening /\ text[2] = "r") THEN "prologue"
    ELSE IF text[1] = ShrinkStack \/ (text[1] \in Closing /\ text[2] = "r") THEN "epilogue"
    ELSE "unrecognized"

Aarch64Verdict ==
    IF text[1] \in {GrowStack, "paciasp"} \/ (text[1] = "stp" /\ OnStack(text)) THEN "prologue"
    ELSE IF \/ text[1] \in {ShrinkStack, "autiasp"}
            \/ text[1] = "ldp" /\ OnStack(text) /\ text[Len(text)] # WriteBack THEN "epilogue"
    ELSE "unrecognized"

(* Classified where alignments can be enumerated: for every list but those   *)
(* of sig.h.                                                                 *)
ClassifiedSmall == lists \notin {Armhf, Aarch64} => Classified

(* And what Classified comes to for those of sig.h: again what the code does *)
(* with them, not what was meant.                                            *)
ListsDecide ==
    stage \in Verdicts =>
        /\ lists = Armhf => stage = ArmhfVerdict
        /\ lists = Aarch64 => stage = Aarch64Verdict
----------------------------------------------------------------------------
(* What the comments say (sig.c:39, sig.h:15): k '?' in a row stand for one  *)
(* to k characters, so each for one or none, and the first of a run for one. *)
Taken(sig, i) ==
    IF sig[i] = Hole /\ i > 1 /\ sig[i - 1] = Hole THEN {0, 1} ELSE {1}

FitsAsDocumented(sig) ==
    \E at \in [1..Len(sig) + 1 -> 1..Len(text) + 1] :
        /\ at[1] = 1 /\ at[Len(sig) + 1] = Len(text) + 1
        /\ \A i \in 1..Len(sig) :
               /\ \E taken \in Taken(sig, i) : at[i + 1] = at[i] + taken
               /\ sig[i] # Hole => text[at[i]] = sig[i]

(* The documented answers, in the two places where they can be told from     *)
(* ListsDecide and ClassifiedSmall: what a run of '?' stands for             *)
(* (sig_compare), and that a function may begin with "push {fp, ...}", one   *)
(* of the two that det_function_size says it looks for (det.c:131).          *)
SignaturesAsDocumented ==
    stage \in Verdicts =>
        /\ (lists \notin {Armhf, Aarch64} /\ text # <<>>) =>
              (stage = "prologue"
                 <=> \E i \in 1..Len(lists.prologues) : FitsAsDocumented(lists.prologues[i]))
        /\ (lists = Armhf /\ text[1] = Push /\ text[2] = "fp") => stage = "prologue"
=============================================================================
