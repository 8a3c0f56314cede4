----------------------------- MODULE Signatures -----------------------------
(* How sig.c tells prologues and epilogues of ARM functions: the text that   *)
(* the disassembler gives of an instruction is compared with every signature *)
(* of the prologues, then with every signature of the epilogues, and the     *)
(* first that fits decides. A signature is a text with holes, runs of '?'.   *)
(* The lists and the text are parameters: the state is the loop of           *)
(* sig_aarch64_chk and sig_armhf_chk and, in it, the one of sig_compare.     *)
EXTENDS Naturals, Sequences

CONSTANTS Chars,    \* the characters of a text
          Hole,     \* '?'
          Nul,      \* what ends a string
          Checks    \* the lists to compare with and the texts: [lists, text]

ASSUME CharsAssumption == Hole \notin Chars /\ Nul \notin Chars \cup {Hole}

NonEmpty(set) == Seq(set) \ {<<>>}

ListPairs == [prologues : NonEmpty(NonEmpty(Chars \cup {Hole})),
              epilogues : NonEmpty(NonEmpty(Chars \cup {Hole}))]

ASSUME ChecksAssumption == Checks \subseteq [lists : ListPairs, text : Seq(Chars)]

VARIABLES lists,    \* the signatures to compare with
          text,     \* what fmtd_insn holds
          n,        \* the signature compared, counted through both lists
          s, f,     \* the next characters of the signature and of the text
          stage     \* "format", "compare", or how the check ended

vars == <<lists, text, n, s, f, stage>>

Count == Len(lists.prologues) + Len(lists.epilogues)

Signature(i) ==
    IF i <= Len(lists.prologues) THEN lists.prologues[i] ELSE lists.epilogues[i - Len(lists.prologues)]

signature == Signature(n)

CharAt(string, i) == IF i <= Len(string) THEN string[i] ELSE Nul

Verdicts == {"prologue", "epilogue", "unrecognized"}
----------------------------------------------------------------------------
(* What the functions answer.                                                *)

Matches ==
    /\ stage' = IF n <= Len(lists.prologues) THEN "prologue" ELSE "epilogue"
    /\ UNCHANGED <<lists, text, n>>

(* Deviation: the loop over the list does not count. *)
MismatchesAgain ==
    /\ stage' = IF n < Count THEN "format" ELSE "unrecognized"
    /\ UNCHANGED <<lists, text, n>>

Mismatches ==
    /\ stage' = IF n < Count THEN "format" ELSE "unrecognized"
    /\ n' = n + 1
    /\ UNCHANGED <<lists, text>>

(* Every comparison formats the instruction anew.                            *)
Format ==
    /\ stage = "format"
    /\ s' = 1 /\ f' = 1
    /\ stage' = "compare"
    /\ UNCHANGED <<lists, text, n>>

(* When calloc gives null, the comparison reads it.                          *)
FormatFails ==
    /\ stage = "format"
    /\ stage' = "crashed"
    /\ UNCHANGED <<lists, text, n, s, f>>
----------------------------------------------------------------------------
(* The loop of sig_compare: NextAfter is the first place from i on where the *)
(* string holds one of the characters, its end included.                     *)

NextAfter(string, i, chars) ==
    CHOOSE j \in i..Len(string) + 1 :
        /\ CharAt(string, j) \in chars \cup {Nul}
        /\ \A k \in i..j - 1 : CharAt(string, k) \notin chars

(* Deviation: only one '?' of a run is skipped. *)
AfterOneHole(i) == IF CharAt(signature, i) = Hole THEN i + 1 ELSE i

AfterHoles(i) == NextAfter(signature, i, Chars)

(* Deviation: the scan does not stop where the text ends. *)
SoughtUnterminated(c) ==
    IF \E j \in f..Len(text) : text[j] = c THEN NextAfter(text, f, {c}) ELSE Len(text) + 2

Sought(c) == NextAfter(text, f, {c})

Comparing == stage = "compare" /\ CharAt(signature, s) # Nul /\ CharAt(text, f) # Nul

(* A hole takes the text up to the first occurrence of what follows it.      *)
SkipHole ==
    /\ Comparing /\ signature[s] = Hole
    /\ s' = AfterHoles(s)
    /\ LET next == CharAt(signature, s')
       IN IF next = Nul THEN f' = f /\ Matches
          ELSE /\ f' = Sought(next)
               /\ IF CharAt(text, f') = Nul THEN Mismatches ELSE UNCHANGED <<lists, text, n, stage>>

Literal ==
    /\ Comparing /\ signature[s] = text[f]
    /\ s' = s + 1 /\ f' = f + 1
    /\ UNCHANGED <<lists, text, n, stage>>

Differ ==
    /\ Comparing /\ signature[s] \notin {Hole, text[f]}
    /\ Mismatches
    /\ UNCHANGED <<s, f>>

(* One of the strings ended: '?' may still follow in the signature.          *)
EndOfString ==
    /\ stage = "compare" /\ ~Comparing
    /\ s' = AfterHoles(s) /\ f' = f
    /\ IF CharAt(signature, s') = Nul /\ CharAt(text, f) = Nul THEN Matches ELSE Mismatches
----------------------------------------------------------------------------
Init ==
    /\ \E check \in Checks : lists = check.lists /\ text = check.text
    /\ n = 1 /\ s = 1 /\ f = 1
    /\ stage = "format"

Next == Format \/ FormatFails \/ SkipHole \/ Literal \/ Differ \/ EndOfString

Spec == Init /\ [][Next]_vars /\ WF_vars(Next)
----------------------------------------------------------------------------
(* Every read of the comparison is inside its string or of its end: a run of *)
(* '?' or a search for a character never carries a pointer past the nul, and *)
(* no list is read past its last signature.                                  *)
SigTypeOK ==
    /\ lists \in ListPairs /\ text \in Seq(Chars)
    /\ stage \in Verdicts \cup {"format", "compare", "crashed"}
    /\ n \in 1..Count + 1 /\ s \in Nat /\ f \in 1..Len(text) + 1
    /\ stage \in {"format", "compare"} => n <= Count
    /\ stage = "compare" => s \in 1..Len(signature) + 1

(* The places at[i] of the text where the characters of sig before `end'     *)
(* stand: a letter stands for itself, a run of '?' for the text up to where  *)
(* the next character stands, and that text does not hold a letter that      *)
(* follows the run.                                                          *)
Run(sig, j, i) == \A k \in j..i : sig[k] = Hole

Placed(sig, at, end) ==
    /\ at[1] = 1
    /\ \A i \in 1..end - 1 : sig[i] # Hole => CharAt(text, at[i]) = sig[i] /\ at[i + 1] = at[i] + 1
    /\ \A i \in 1..end - 1 : \A j \in 1..i : Run(sig, j, i) =>
           /\ at[j] <= at[i + 1]
           /\ \A p \in at[j]..at[i + 1] - 1 : CharAt(sig, i + 1) # text[p]

Fits(sig) ==
    \E at \in [1..Len(sig) + 1 -> 1..Len(text) + 1] :
        Placed(sig, at, Len(sig) + 1) /\ at[Len(sig) + 1] = Len(text) + 1

SomeFits(sigs) == \E i \in 1..Len(sigs) : Fits(sigs[i])

(* The whole check decides what one sentence says: an instruction is a       *)
(* prologue when a signature of the prologues fits it, whatever those of the *)
(* epilogues do; else an epilogue when one of those fits; else neither. A    *)
(* signature fits when the text is its letters, in order, with anything,     *)
(* even nothing, in place of each run of '?' but the letter that follows it. *)
(* This is what the code does; SignatureLists states what its comments say.  *)
Classified ==
    stage \in Verdicts =>
        stage = IF SomeFits(lists.prologues) THEN "prologue"
                ELSE IF SomeFits(lists.epilogues) THEN "epilogue" ELSE "unrecognized"

(* The nested loops over lists and characters end, with an answer or at the  *)
(* null of a failed calloc.                                                  *)
Answers == <>(stage \in Verdicts \cup {"crashed"})
=============================================================================
