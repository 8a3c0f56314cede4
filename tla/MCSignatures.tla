---------------------------- MODULE MCSignatures ----------------------------
(* Every signature of up to MaxSignature characters over two letters and '?', *)
(* before or after a short one, and pairs of short prologues, against every  *)
(* text of up to MaxText letters; and the signatures of sig.h against the    *)
(* instructions that end and begin functions, which list up to MaxRegisters  *)
(* registers and perhaps lr or pc.                                           *)
EXTENDS SignatureLists

CONSTANTS MaxSignature, MaxText, MaxRegisters

Strings(chars, min, max) == UNION {[1..k -> chars] : k \in min..max}

Letters == {"a", "b"}
Long == Strings(Letters \cup {Hole}, 1, MaxSignature)
Short == Strings({"a", Hole}, 1, 2)

One(signatures) == {<<sig>> : sig \in signatures}

SmallChecks ==
    [lists : [prologues : One(Long), epilogues : One(Short)]
             \cup [prologues : One(Short), epilogues : One(Long)]
             \cup [prologues : {<<p, q>> : p, q \in Short}, epilogues : {<<<<"b">>>>}],
     text : Strings(Letters, 0, MaxText)]
----------------------------------------------------------------------------
Words == {"r", "4", "fp", "lr", "pc", Comma, Brace, "x29", "x30", Place, "[x0, #", "[sp]", Bracket, WriteBack, "#", "16",
          "paciasp", "autiasp", "stp", "ldp", GrowStack, ShrinkStack} \cup Opening \cup Closing

MCChars == Letters \cup Words

RECURSIVE Listing(_)
Listing(registers) ==
    IF Len(registers) = 1 THEN registers[1] ELSE registers[1] \o <<",">> \o Listing(Tail(registers))

ArmhfTexts ==
    {<<opcode>> \o Listing(registers \o last) \o <<"}">> :
        opcode \in Opening \cup Closing,
        registers \in Strings({<<"r", "4">>, <<"fp">>}, 1, MaxRegisters),
        last \in {<<>>, <<<<"lr">>>>, <<<<"pc">>>>}}

PairTexts ==
    {<<opcode, "x29", ",", "x30", ",">> \o place :
        opcode \in {"stp", "ldp"},
        place \in {<<"[sp, #", "16", "]">>, <<"[sp, #", "16", "]", "!">>, <<"[sp]", ",", "#", "16">>,
                   <<"[sp]">>, <<"[x0, #", "16", "]">>}}

OtherTexts == {<<"paciasp">>, <<"autiasp">>} \cup {<<opcode, "16">> : opcode \in {GrowStack, ShrinkStack}}

MCChecks ==
    SmallChecks
    \cup [lists : {Armhf}, text : ArmhfTexts \cup {<<opcode, "16">> : opcode \in {GrowStack, ShrinkStack}}]
    \cup [lists : {Aarch64}, text : PairTexts \cup OtherTexts]
=============================================================================
