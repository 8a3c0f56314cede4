------------------------------ MODULE MCSweep ------------------------------
(* Functions of up to MaxOwn instructions with every padding and next        *)
(* function that decides about the end, sizes scaled so that longer ones     *)
(* pass MaxSize.                                                             *)
EXTENDS Sweep

CONSTANT MaxOwn

MCSize == [k \in Kinds |-> IF k \in {"plain", "branch", "call", "jmp"} THEN 2 ELSE 1]

Bodies(kinds) == UNION {[1..k -> kinds] : k \in 1..MaxOwn}

(* An x86 function ends in a return, a jump, direct or not, or a call of exit,*)
(* and leaves its frame only before a return or a jump.                      *)
WellFormed(body) ==
    /\ body[Len(body)] \in {"ret", "jmp", "branch", "plain"}
    /\ \A j \in 1..Len(body) - 1 : body[j] = "leave" => body[j + 1] \in {"ret", "jmp"}

X86Layouts ==
    [arch : {"x86"},
     own : {body \in Bodies({"plain", "branch", "call", "ret", "jmp", "leave", "nop"}) : WellFormed(body)}
           \cup {<<"endbr">> \o body : body \in [1..2 -> {"plain", "call", "ret", "endbr"}]}
           \cup {<<"branch">> \o inner \o <<"call", "ret">> :
                     inner \in Bodies({"nop"}) \cup {<<"leave", "ret">>, <<"leave", "jmp">>, <<"endbr">>}},
     padding : {<<>>, <<"nop">>, <<"nop", "nop", "nop">>},
     next : {<<"plain", "call", "leave", "ret">>, <<"endbr", "call", "ret">>}]

ArmLayouts ==
    [arch : {"arm", "aarch64"},
     own : Bodies({"plain", "call", "prologue", "epilogue", "nop"}),
     padding : {<<>>, <<"nop">>, <<"lsls">>, <<"data">>},
     next : {<<"prologue", "call", "epilogue">>, <<"prologue", "prologue", "call">>, <<"call", "epilogue">>}]

MCLayouts == X86Layouts \cup ArmLayouts
=============================================================================
