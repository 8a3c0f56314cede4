-------------------------- MODULE SignatureProofs --------------------------
(***************************************************************************)
(* sig.c decides what Classified says for every list of signatures and     *)
(* every text. The comparison only ever knows one place for the character  *)
(* it stands at: were it wrong to take the first occurrence of what        *)
(* follows a hole, some other alignment would have it elsewhere.           *)
(* What the lists of sig.h decide follows, for every text of a             *)
(* disassembler, by asking which of their signatures have an alignment.    *)
(***************************************************************************)
EXTENDS SignatureLists, WellFoundedInduction, TLAPS

\* Every set of natural numbers but the empty one has a least element: what
\* is known of `<' as a well-founded relation, for one set.
LEMMA NatMin ==
  ASSUME NEW set \in SUBSET Nat, set # {}
  PROVE  \E least \in set : \A other \in set : least <= other
  <1> DEFINE Less == {pair \in Nat \X Nat : pair[1] < pair[2]}
  <1>1. IsWellFoundedOn(Less, Nat)
    BY NatLessThanWellFounded DEF OpToRel
  <1>2. PICK least \in set : \A other \in set : ~(<<other, least>> \in Less)
    <2> HIDE DEF Less
    <2> QED BY <1>1, WFMin
  <1>3. \A other \in set : least <= other
    <2> TAKE other \in set
    <2>1. <<other, least>> \in Nat \X Nat OBVIOUS
    <2>2. ~(other < least) BY <1>2, <2>1
    <2>3. other \in Nat /\ least \in Nat OBVIOUS
    <2> QED BY <2>2, <2>3
  <1> QED BY <1>3

(* What the scans of sig_compare find and what the places of a signature     *)
(* in a text are, for every signature and every text.                        *)

\* A scan stops at a character it looks for or at the end of the string,
\* and passes none before.
LEMMA NextAfterStops ==
  ASSUME NEW set, NEW string \in Seq(set), NEW i \in 1 .. Len(string) + 1, NEW chars
  PROVE  LET j == NextAfter(string, i, chars)
         IN  /\ j \in i .. Len(string) + 1
             /\ CharAt(string, j) \in chars \cup {Nul}
             /\ \A k \in i .. j - 1 : CharAt(string, k) \notin chars
  <1> DEFINE stops == {j \in i .. Len(string) + 1 : CharAt(string, j) \in chars \cup {Nul}}
  <1>1. Len(string) \in Nat OBVIOUS
  <1>2. Len(string) + 1 \in stops BY <1>1 DEF CharAt
  <1>3. stops \in SUBSET Nat BY <1>1
  <1>4. PICK j \in stops : \A k \in stops : j <= k
    <2> HIDE DEF stops
    <2> QED BY <1>2, <1>3, NatMin
  <1>5. \A k \in i .. j - 1 : CharAt(string, k) \notin chars
    <2> SUFFICES ASSUME NEW k \in i .. j - 1, CharAt(string, k) \in chars PROVE FALSE
      OBVIOUS
    <2>1. k \in stops BY <1>1
    <2> QED BY <1>1, <1>4, <2>1
  <1>6. \E k \in i .. Len(string) + 1 :
          /\ CharAt(string, k) \in chars \cup {Nul}
          /\ \A l \in i .. k - 1 : CharAt(string, l) \notin chars
    BY <1>4, <1>5
  <1> HIDE DEF stops
  <1> QED BY <1>6 DEF NextAfter
----------------------------------------------------------------------------
\* A signature is a string that is not empty.
LEMMA SignatureString ==
  ASSUME NEW sig \in NonEmpty(Chars \cup {Hole})
  PROVE  sig \in Seq(Chars \cup {Hole}) /\ Len(sig) \in Nat \ {0}
  BY DEF NonEmpty

\* Behind a run of '?' is a letter or the end.
LEMMA HolesSkipped ==
  ASSUME NEW sig \in NonEmpty(Chars \cup {Hole}), NEW i \in 1 .. Len(sig) + 1
  PROVE  LET t == NextAfter(sig, i, Chars)
         IN  /\ t \in i .. Len(sig) + 1
             /\ Run(sig, i, t - 1)
             /\ t <= Len(sig) => CharAt(sig, t) = sig[t] /\ sig[t] \in Chars
             /\ t = Len(sig) + 1 => CharAt(sig, t) = Nul
  <1> DEFINE t == NextAfter(sig, i, Chars)
  <1>1. sig \in Seq(Chars \cup {Hole}) /\ Len(sig) \in Nat BY SignatureString
  <1>2. /\ t \in i .. Len(sig) + 1
        /\ CharAt(sig, t) \in Chars \cup {Nul}
        /\ \A k \in i .. t - 1 : CharAt(sig, k) \notin Chars
    BY <1>1, NextAfterStops
  <1> HIDE DEF t
  <1>3. \A k \in 1 .. Len(sig) : CharAt(sig, k) = sig[k] /\ sig[k] \in Chars \cup {Hole}
    BY <1>1 DEF CharAt
  <1>4. Run(sig, i, t - 1)
    <2> SUFFICES ASSUME NEW k \in i .. t - 1 PROVE sig[k] = Hole
      BY DEF Run
    <2>1. k \in 1 .. Len(sig) BY <1>1, <1>2
    <2> QED BY <1>2, <1>3, <2>1
  <1>5. t <= Len(sig) => CharAt(sig, t) = sig[t] /\ sig[t] \in Chars
    <2> SUFFICES ASSUME t <= Len(sig) PROVE CharAt(sig, t) = sig[t] /\ sig[t] \in Chars
      OBVIOUS
    <2>1. t \in 1 .. Len(sig) BY <1>1, <1>2
    <2> QED BY <1>2, <1>3, <2>1, CharsAssumption
  <1>6. t = Len(sig) + 1 => CharAt(sig, t) = Nul
    BY <1>1 DEF CharAt
  <1> QED BY <1>2, <1>4, <1>5, <1>6 DEF t

\* A run ends behind where it begins, and the text between does not hold what
\* follows it.
LEMMA PlacedRun ==
  ASSUME NEW sig \in NonEmpty(Chars \cup {Hole}), NEW end \in 1 .. Len(sig) + 1, NEW at,
         Placed(sig, at, end),
         NEW j \in 1 .. end, NEW t \in j + 1 .. end, Run(sig, j, t - 1)
  PROVE  /\ at[j] <= at[t]
         /\ \A p \in at[j] .. at[t] - 1 : CharAt(sig, t) # text[p]
  <1>1. Len(sig) \in Nat BY SignatureString
  <1>2. t - 1 \in 1 .. end - 1 /\ j \in 1 .. t - 1 /\ (t - 1) + 1 = t BY <1>1
  <1> QED BY <1>2 DEF Placed

\* The places before a run go on to the place of what follows it.
LEMMA Extend ==
  ASSUME text \in Seq(Chars), NEW sig \in NonEmpty(Chars \cup {Hole}),
         NEW i \in 1 .. Len(sig) + 1, NEW t \in i .. Len(sig) + 1,
         Run(sig, i, t - 1), i = 1 \/ sig[i - 1] # Hole,
         NEW at \in [1 .. i -> 1 .. Len(text) + 1], Placed(sig, at, i),
         NEW place \in at[i] .. Len(text) + 1, t = i => place = at[i],
         \A p \in at[i] .. place - 1 : CharAt(sig, t) # text[p]
  PROVE  \E at2 \in [1 .. t -> 1 .. Len(text) + 1] : Placed(sig, at2, t) /\ at2[t] = place
  <1> DEFINE at2 == [k \in 1 .. t |-> IF k < i THEN at[k] ELSE IF k < t THEN at[i] ELSE place]
  <1>1. Len(sig) \in Nat /\ Len(text) \in Nat BY SignatureString
  <1>2. at[i] \in 1 .. Len(text) + 1 /\ place \in 1 .. Len(text) + 1 BY <1>1
  <1>3. at2 \in [1 .. t -> 1 .. Len(text) + 1] BY <1>1, <1>2
  <1>4. at2[t] = place BY <1>1
  <1>5. \A k \in 1 .. i : at2[k] = at[k] BY <1>1
  <1>6. \A k \in i .. t - 1 : at2[k] = at[i] BY <1>1
  <1> HIDE DEF at2
  <1>7. at2[1] = 1 BY <1>1, <1>5 DEF Placed
  <1>8. ASSUME NEW k \in 1 .. t - 1, sig[k] # Hole
        PROVE  CharAt(text, at2[k]) = sig[k] /\ at2[k + 1] = at2[k] + 1
    <2>1. k \in 1 .. i - 1 BY <1>1, <1>8 DEF Run
    <2>2. k \in 1 .. i /\ k + 1 \in 1 .. i BY <1>1, <2>1
    <2> QED BY <1>5, <1>8, <2>1, <2>2 DEF Placed
  <1>9. ASSUME NEW k \in 1 .. t - 1, NEW j \in 1 .. k, Run(sig, j, k)
        PROVE  /\ at2[j] <= at2[k + 1]
               /\ \A p \in at2[j] .. at2[k + 1] - 1 : CharAt(sig, k + 1) # text[p]
    <2>1. CASE k < i
      <3>1. k \in 1 .. i - 1 /\ j \in 1 .. i /\ k + 1 \in 1 .. i BY <1>1, <2>1
      <3> QED BY <1>5, <1>9, <3>1 DEF Placed
    <2>2. CASE k >= i
      <3>1. j >= i
        <4> SUFFICES ASSUME j < i PROVE FALSE
          BY <1>1
        <4>1. i # 1 /\ i - 1 \in j .. k BY <1>1, <2>2
        <4> QED BY <1>9, <4>1 DEF Run
      <3>2. at2[j] = at[i]
        <4>1. j \in i .. t - 1 BY <1>1, <3>1
        <4> QED BY <1>6, <4>1
      <3>3. CASE k + 1 = t
        <4>1. at2[k + 1] = place BY <1>4, <3>3
        <4> QED BY <1>2, <3>2, <3>3, <4>1
      <3>4. CASE k + 1 # t
        <4>1. k + 1 \in i .. t - 1 BY <1>1, <2>2, <3>4
        <4>2. at2[k + 1] = at[i] BY <1>6, <4>1
        <4> QED BY <1>2, <3>2, <4>2
      <3> QED BY <3>3, <3>4
    <2> QED BY <1>1, <2>1, <2>2
  <1>10. Placed(sig, at2, t) BY <1>7, <1>8, <1>9 DEF Placed
  <1> QED BY <1>3, <1>4, <1>10

\* The places before a letter go on to the one behind it.
LEMMA ExtendLiteral ==
  ASSUME text \in Seq(Chars), NEW sig \in NonEmpty(Chars \cup {Hole}), NEW i \in 1 .. Len(sig),
         NEW at \in [1 .. i -> 1 .. Len(text) + 1], Placed(sig, at, i),
         at[i] \in 1 .. Len(text), sig[i] = text[at[i]]
  PROVE  \E at2 \in [1 .. i + 1 -> 1 .. Len(text) + 1] :
             Placed(sig, at2, i + 1) /\ at2[i + 1] = at[i] + 1
  <1> DEFINE at2 == [k \in 1 .. i + 1 |-> IF k <= i THEN at[k] ELSE at[i] + 1]
  <1>1. Len(sig) \in Nat /\ Len(text) \in Nat /\ text[at[i]] \in Chars BY SignatureString
  <1>2. sig[i] # Hole BY <1>1, CharsAssumption
  <1>3. at2 \in [1 .. i + 1 -> 1 .. Len(text) + 1] BY <1>1
  <1>4. at2[i + 1] = at[i] + 1 BY <1>1
  <1>5. \A k \in 1 .. i : at2[k] = at[k] BY <1>1
  <1> HIDE DEF at2
  <1>6. at2[1] = 1 BY <1>1, <1>5 DEF Placed
  <1>7. ASSUME NEW k \in 1 .. i, sig[k] # Hole
        PROVE  CharAt(text, at2[k]) = sig[k] /\ at2[k + 1] = at2[k] + 1
    <2>1. CASE k = i
      BY <1>1, <1>4, <1>5, <2>1 DEF CharAt
    <2>2. CASE k # i
      <3>1. k \in 1 .. i - 1 /\ k + 1 \in 1 .. i BY <1>1, <2>2
      <3> QED BY <1>5, <1>7, <3>1 DEF Placed
    <2> QED BY <2>1, <2>2
  <1>8. ASSUME NEW k \in 1 .. i, NEW j \in 1 .. k, Run(sig, j, k)
        PROVE  /\ at2[j] <= at2[k + 1]
               /\ \A p \in at2[j] .. at2[k + 1] - 1 : CharAt(sig, k + 1) # text[p]
    <2>1. k # i BY <1>1, <1>2, <1>8 DEF Run
    <2>2. k \in 1 .. i - 1 /\ k + 1 \in 1 .. i /\ j \in 1 .. i BY <1>1, <2>1
    <2> QED BY <1>5, <1>8, <2>2 DEF Placed
  <1>9. Placed(sig, at2, i + 1)
    <2>1. (i + 1) - 1 = i BY <1>1
    <2> QED BY <1>6, <1>7, <1>8, <2>1 DEF Placed
  <1> QED BY <1>3, <1>4, <1>9
----------------------------------------------------------------------------

\* What the loop of sig_compare knows of sig at its character i and the
\* character j of the text: behind a hole the two are the same letter, the
\* characters before i can be placed, and any way to place all of sig has i at j.
ComparedTo(sig, i, j) ==
    /\ i > 1 /\ sig[i - 1] = Hole => i <= Len(sig) /\ j <= Len(text) /\ sig[i] = text[j]
    /\ \E at \in [1 .. i -> 1 .. Len(text) + 1] : Placed(sig, at, i) /\ at[i] = j
    /\ \A at \in [1 .. Len(sig) + 1 -> 1 .. Len(text) + 1] :
           Placed(sig, at, Len(sig) + 1) => at[i] = j

\* What the loops over the lists know: no signature before n fits.
Compared ==
    /\ stage = "compare" => ComparedTo(signature, s, f)
    /\ stage \in {"format", "compare", "epilogue"} => \A i \in 1 .. n - 1 : ~Fits(Signature(i))
    /\ stage = "prologue" => n <= Len(lists.prologues) /\ Fits(Signature(n))
    /\ stage = "epilogue" => n > Len(lists.prologues) /\ n <= Count /\ Fits(Signature(n))
    /\ stage = "unrecognized" => \A i \in 1 .. Count : ~Fits(Signature(i))
----------------------------------------------------------------------------
\* The signatures are strings, and there are some of either kind.
LEMMA SignatureType ==
  ASSUME SigTypeOK
  PROVE  /\ Len(lists.prologues) \in Nat \ {0} /\ Len(lists.epilogues) \in Nat \ {0}
         /\ Count \in Nat
         /\ \A i \in 1 .. Count : Signature(i) \in NonEmpty(Chars \cup {Hole})
         /\ text \in Seq(Chars) /\ Len(text) \in Nat
  <1>1. /\ lists.prologues \in NonEmpty(NonEmpty(Chars \cup {Hole}))
        /\ lists.epilogues \in NonEmpty(NonEmpty(Chars \cup {Hole}))
    BY DEF SigTypeOK, ListPairs
  <1>2. /\ lists.prologues \in Seq(NonEmpty(Chars \cup {Hole})) /\ lists.prologues # <<>>
        /\ lists.epilogues \in Seq(NonEmpty(Chars \cup {Hole})) /\ lists.epilogues # <<>>
    <2> DEFINE strings == NonEmpty(Chars \cup {Hole})
    <2> HIDE DEF strings
    <2> QED BY <1>1 DEF NonEmpty
  <1> DEFINE strings == NonEmpty(Chars \cup {Hole})
  <1>3. Len(lists.prologues) \in Nat \ {0} /\ Len(lists.epilogues) \in Nat \ {0}
    <2> HIDE DEF strings
    <2> QED BY <1>2
  <1>4. ASSUME NEW i \in 1 .. Count PROVE Signature(i) \in strings
    <2> HIDE DEF strings
    <2>1. CASE i <= Len(lists.prologues)
      BY <1>2, <1>3, <2>1 DEF Signature, Count, strings
    <2>2. CASE i > Len(lists.prologues)
      <3>1. i - Len(lists.prologues) \in 1 .. Len(lists.epilogues)
        <4> DEFINE p == Len(lists.prologues)  e == Len(lists.epilogues)
        <4>1. i \in 1 .. p + e BY DEF Count
        <4>2. p \in Nat /\ e \in Nat /\ i > p BY <1>3, <2>2
        <4> HIDE DEF p, e
        <4>3. i - p \in 1 .. e BY <4>1, <4>2
        <4> QED BY <4>3 DEF p, e
      <3>2. Signature(i) = lists.epilogues[i - Len(lists.prologues)] BY <1>3, <2>2 DEF Signature
      <3> QED BY <1>2, <3>1, <3>2 DEF strings
    <2> QED BY <1>3, <2>1, <2>2 DEF Count
  <1>5. Count \in Nat
    <2> DEFINE p == Len(lists.prologues)  e == Len(lists.epilogues)
    <2>1. p \in Nat /\ e \in Nat BY <1>3
    <2> HIDE DEF p, e
    <2>2. p + e \in Nat BY <2>1
    <2> QED BY <2>2 DEF Count, p, e
  <1>6. text \in Seq(Chars) /\ Len(text) \in Nat BY DEF SigTypeOK
  <1> QED BY <1>3, <1>4, <1>5, <1>6

\* The character behind a hole is not a hole.
LEMMA BeforeARun ==
  ASSUME text \in Seq(Chars), NEW sig, NEW i \in Nat \ {0}, NEW j \in 1 .. Len(text) + 1,
         ComparedTo(sig, i, j), (i <= Len(sig) /\ sig[i] = Hole) \/ j = Len(text) + 1
  PROVE  i = 1 \/ sig[i - 1] # Hole
  <1> SUFFICES ASSUME i > 1, sig[i - 1] = Hole PROVE FALSE
    OBVIOUS
  <1>1. i <= Len(sig) /\ j <= Len(text) /\ sig[i] = text[j] BY DEF ComparedTo
  <1>2. text[j] \in Chars BY <1>1
  <1> QED BY <1>1, <1>2, CharsAssumption

\* Every way to place the whole signature has the character it stands at there.
LEMMA OnlyPlace ==
  ASSUME NEW sig, NEW i, NEW j, ComparedTo(sig, i, j),
         NEW at \in [1 .. Len(sig) + 1 -> 1 .. Len(text) + 1], Placed(sig, at, Len(sig) + 1)
  PROVE  at[i] = j
  BY DEF ComparedTo

\* A signature that ends in a hole, or with the text, fits.
LEMMA EndFits ==
  ASSUME text \in Seq(Chars), NEW sig \in NonEmpty(Chars \cup {Hole}),
         NEW i \in 1 .. Len(sig) + 1, NEW j \in 1 .. Len(text) + 1, ComparedTo(sig, i, j),
         (i <= Len(sig) /\ sig[i] = Hole) \/ j = Len(text) + 1,
         CharAt(sig, NextAfter(sig, i, Chars)) = Nul
  PROVE  Fits(sig)
  <1> DEFINE t == NextAfter(sig, i, Chars)
  <1>1. Len(sig) \in Nat /\ Len(text) \in Nat BY SignatureString
  <1>2. t \in i .. Len(sig) + 1 /\ Run(sig, i, t - 1) /\ t = Len(sig) + 1
    <2>1. /\ t \in i .. Len(sig) + 1 /\ Run(sig, i, t - 1)
          /\ t <= Len(sig) => CharAt(sig, t) = sig[t] /\ sig[t] \in Chars
      BY HolesSkipped
    <2> QED BY <1>1, <2>1, CharsAssumption
  <1> HIDE DEF t
  <1>3. i = 1 \/ sig[i - 1] # Hole
    <2>1. i \in Nat \ {0} BY <1>1
    <2> QED BY <1>1, <2>1, BeforeARun
  <1>4. PICK at \in [1 .. i -> 1 .. Len(text) + 1] : Placed(sig, at, i) /\ at[i] = j
    BY DEF ComparedTo
  <1>5. t = i => Len(text) + 1 = at[i] BY <1>1, <1>2, <1>4
  <1>6. \A p \in at[i] .. (Len(text) + 1) - 1 : CharAt(sig, t) # text[p]
    <2> SUFFICES ASSUME NEW p \in at[i] .. (Len(text) + 1) - 1 PROVE CharAt(sig, t) # text[p]
      OBVIOUS
    <2>1. p \in 1 .. Len(text) BY <1>1, <1>4
    <2>2. text[p] \in Chars BY <2>1
    <2>3. CharAt(sig, t) = Nul BY <1>1, <1>2 DEF CharAt
    <2> QED BY <2>2, <2>3, CharsAssumption
  <1>7. Len(text) + 1 \in at[i] .. Len(text) + 1 BY <1>1, <1>4
  <1>8. \E at2 \in [1 .. t -> 1 .. Len(text) + 1] : Placed(sig, at2, t) /\ at2[t] = Len(text) + 1
    BY <1>2, <1>3, <1>4, <1>5, <1>6, <1>7, Extend
  <1> QED BY <1>2, <1>8 DEF Fits

\* A letter other than the one at its only possible place.
LEMMA LetterMisses ==
  ASSUME NEW sig \in NonEmpty(Chars \cup {Hole}), NEW i \in 1 .. Len(sig),
         NEW j \in 1 .. Len(text) + 1, ComparedTo(sig, i, j),
         sig[i] # Hole, sig[i] # CharAt(text, j)
  PROVE  ~Fits(sig)
  <1>1. Len(sig) \in Nat BY SignatureString
  <1>2. i \in 1 .. (Len(sig) + 1) - 1 BY <1>1
  <1> SUFFICES ASSUME NEW at \in [1 .. Len(sig) + 1 -> 1 .. Len(text) + 1],
                      Placed(sig, at, Len(sig) + 1)
               PROVE  FALSE
    BY DEF Fits
  <1>3. at[i] = j BY OnlyPlace
  <1> QED BY <1>2, <1>3 DEF Placed

\* A letter that follows a run and does not occur in the rest of the text.
LEMMA RunMisses ==
  ASSUME text \in Seq(Chars), NEW sig \in NonEmpty(Chars \cup {Hole}),
         NEW i \in 1 .. Len(sig), NEW j \in 1 .. Len(text) + 1, ComparedTo(sig, i, j),
         NEW t \in i .. Len(sig), Run(sig, i, t - 1), sig[t] \in Chars,
         \A k \in j .. Len(text) : text[k] # sig[t]
  PROVE  ~Fits(sig)
  <1>1. Len(sig) \in Nat /\ Len(text) \in Nat BY SignatureString
  <1> SUFFICES ASSUME NEW at \in [1 .. Len(sig) + 1 -> 1 .. Len(text) + 1],
                      Placed(sig, at, Len(sig) + 1)
               PROVE  FALSE
    BY DEF Fits
  <1>2. at[i] = j BY OnlyPlace
  <1>3. at[t] >= j
    <2>1. CASE t = i BY <1>1, <1>2, <2>1
    <2>2. CASE t # i
      <3>1. t \in i + 1 .. Len(sig) + 1 /\ i \in 1 .. Len(sig) + 1 BY <1>1, <2>2
      <3>2. at[i] <= at[t]
        <4>1. Len(sig) + 1 \in 1 .. Len(sig) + 1 BY <1>1
        <4> QED BY <3>1, <4>1, PlacedRun
      <3>3. at[t] \in 1 .. Len(text) + 1 BY <1>1
      <3> QED BY <1>1, <1>2, <3>2, <3>3
    <2> QED BY <2>1, <2>2
  <1>4. sig[t] # Hole /\ sig[t] # Nul BY CharsAssumption
  <1>5. CharAt(text, at[t]) = sig[t]
    <2>1. t \in 1 .. (Len(sig) + 1) - 1 BY <1>1
    <2> QED BY <1>4, <2>1 DEF Placed
  <1>6. at[t] \in 1 .. Len(text) + 1 BY <1>1
  <1>7. at[t] <= Len(text) BY <1>1, <1>4, <1>5, <1>6 DEF CharAt
  <1>8. text[at[t]] = sig[t] BY <1>5, <1>7 DEF CharAt
  <1> QED BY <1>1, <1>3, <1>6, <1>7, <1>8

\* A signature that ended before the text.
LEMMA RestMisses ==
  ASSUME NEW sig, NEW j, ComparedTo(sig, Len(sig) + 1, j), j # Len(text) + 1
  PROVE  ~Fits(sig)
  BY DEF ComparedTo, Fits

\* A letter takes the comparison to the next one.
LEMMA LetterKeeps ==
  ASSUME text \in Seq(Chars), NEW sig \in NonEmpty(Chars \cup {Hole}),
         NEW i \in 1 .. Len(sig), NEW j \in 1 .. Len(text), ComparedTo(sig, i, j), sig[i] = text[j]
  PROVE  ComparedTo(sig, i + 1, j + 1)
  <1>1. Len(sig) \in Nat /\ Len(text) \in Nat /\ text[j] \in Chars BY SignatureString
  <1>2. sig[i] # Hole BY <1>1, CharsAssumption
  <1>3. PICK at \in [1 .. i -> 1 .. Len(text) + 1] : Placed(sig, at, i) /\ at[i] = j
    BY DEF ComparedTo
  <1>4. \E at2 \in [1 .. i + 1 -> 1 .. Len(text) + 1] : Placed(sig, at2, i + 1) /\ at2[i + 1] = j + 1
    BY <1>3, ExtendLiteral
  <1>5. ASSUME NEW full \in [1 .. Len(sig) + 1 -> 1 .. Len(text) + 1], Placed(sig, full, Len(sig) + 1)
        PROVE  full[i + 1] = j + 1
    <2>1. full[i] = j BY <1>5, OnlyPlace
    <2>2. i \in 1 .. (Len(sig) + 1) - 1 BY <1>1
    <2> QED BY <1>2, <1>5, <2>1, <2>2 DEF Placed
  <1>6. (i + 1) - 1 = i BY <1>1
  <1> QED BY <1>2, <1>4, <1>5, <1>6 DEF ComparedTo

\* The first occurrence of the letter behind a run is its only place.
LEMMA RunKeeps ==
  ASSUME text \in Seq(Chars), NEW sig \in NonEmpty(Chars \cup {Hole}),
         NEW i \in 1 .. Len(sig), NEW j \in 1 .. Len(text), ComparedTo(sig, i, j),
         i = 1 \/ sig[i - 1] # Hole,
         NEW t \in i .. Len(sig), t # i, Run(sig, i, t - 1), sig[t] # Hole,
         NEW place \in j .. Len(text), CharAt(text, place) = sig[t],
         \A k \in j .. place - 1 : text[k] # sig[t]
  PROVE  ComparedTo(sig, t, place)
  <1>1. Len(sig) \in Nat /\ Len(text) \in Nat /\ j \in 1 .. Len(text) + 1 BY SignatureString
  <1>4. \E at \in [1 .. i -> 1 .. Len(text) + 1] : Placed(sig, at, i) /\ at[i] = j
    BY DEF ComparedTo
  <1>5. CharAt(sig, t) = sig[t] BY <1>1 DEF CharAt
  <1>6. \E at2 \in [1 .. t -> 1 .. Len(text) + 1] : Placed(sig, at2, t) /\ at2[t] = place
    <2>1. PICK at \in [1 .. i -> 1 .. Len(text) + 1] : Placed(sig, at, i) /\ at[i] = j BY <1>4
    <2>2. i \in 1 .. Len(sig) + 1 /\ t \in i .. Len(sig) + 1 BY <1>1
    <2>3. place \in at[i] .. Len(text) + 1 BY <1>1, <2>1
    <2>4. \A p \in at[i] .. place - 1 : CharAt(sig, t) # text[p] BY <2>1, <1>5
    <2> QED BY <2>1, <2>2, <2>3, <2>4, Extend, ZenonT(60)
  <1>7. ASSUME NEW full \in [1 .. Len(sig) + 1 -> 1 .. Len(text) + 1], Placed(sig, full, Len(sig) + 1)
        PROVE  full[t] = place
    <2>1. full[i] = j BY <1>7, OnlyPlace
    <2>2. t \in i + 1 .. Len(sig) + 1 /\ i \in 1 .. Len(sig) + 1 BY <1>1
    <2>3. full[i] <= full[t] /\ \A p \in full[i] .. full[t] - 1 : CharAt(sig, t) # text[p]
      <3>1. Len(sig) + 1 \in 1 .. Len(sig) + 1 BY <1>1
      <3> QED BY <1>7, <2>2, <3>1, PlacedRun
    <2>4. full[t] \in 1 .. Len(text) + 1
      <3>1. t \in 1 .. Len(sig) + 1 BY <1>1
      <3> QED BY <1>7, <3>1
    <2>5. ~(place < full[t])
      <3> SUFFICES ASSUME place < full[t] PROVE FALSE
        OBVIOUS
      <3>1. place \in full[i] .. full[t] - 1 BY <1>1, <2>1, <2>4
      <3>2. CharAt(text, place) = text[place] BY <1>1 DEF CharAt
      <3> QED BY <1>5, <2>3, <3>1, <3>2
    <2>6. CharAt(text, full[t]) = sig[t]
      <3>1. t \in 1 .. (Len(sig) + 1) - 1 BY <1>1
      <3> QED BY <1>7, <3>1 DEF Placed
    <2>7. ~(full[t] < place)
      <3> SUFFICES ASSUME full[t] < place PROVE FALSE
        OBVIOUS
      <3>1. full[t] \in j .. place - 1 /\ full[t] <= Len(text) BY <1>1, <2>1, <2>3, <2>4
      <3> QED BY <2>6, <3>1 DEF CharAt
    <2> QED BY <1>1, <2>4, <2>5, <2>7
  <1>8. t <= Len(sig) /\ place <= Len(text) /\ sig[t] = text[place] BY <1>1 DEF CharAt
  <1> QED BY <1>6, <1>7, <1>8 DEF ComparedTo
----------------------------------------------------------------------------
\* A step that leaves the lists and the text leaves what fits.
LEMMA SameFits ==
  ASSUME UNCHANGED <<lists, text>>, NEW CONSTANT i
  PROVE  Fits(Signature(i))' <=> Fits(Signature(i))
  <1>1. Signature(i)' = Signature(i) BY DEF Signature
  <1> QED BY <1>1 DEF Fits, Placed, CharAt

\* Nor how many signatures there are.
LEMMA SameCount ==
  ASSUME UNCHANGED lists
  PROVE  Count' = Count
  BY DEF Count

\* To answer that the signature fits keeps what the loops know.
LEMMA MatchesKeeps ==
  ASSUME SigTypeOK, Compared, stage = "compare", Matches, Fits(signature),
         s' \in Nat, f' \in 1 .. Len(text) + 1
  PROVE  SigTypeOK' /\ Compared'
  <1>1. n \in 1 .. Count /\ Len(lists.prologues) \in Nat /\ Count \in Nat
    BY SignatureType DEF SigTypeOK
  <1>2. /\ UNCHANGED <<lists, text, n>> /\ Count' = Count
        /\ stage' = IF n <= Len(lists.prologues) THEN "prologue" ELSE "epilogue"
    BY SameCount DEF Matches
  <1>3. SigTypeOK' BY <1>1, <1>2 DEF SigTypeOK, Verdicts
  <1>4. \A i : Fits(Signature(i))' <=> Fits(Signature(i)) BY <1>2, SameFits
  <1>5. Fits(Signature(n)) BY DEF signature
  <1>6. \A i \in 1 .. n - 1 : ~Fits(Signature(i)) BY DEF Compared
  <1>7. Compared' BY <1>1, <1>2, <1>4, <1>5, <1>6 DEF Compared
  <1> QED BY <1>3, <1>7

\* So does going on to the next signature, or ending, when it does not fit.
LEMMA MismatchesKeeps ==
  ASSUME SigTypeOK, Compared, stage = "compare", Mismatches, ~Fits(signature),
         s' \in Nat, f' \in 1 .. Len(text) + 1
  PROVE  SigTypeOK' /\ Compared'
  <1>1. n \in 1 .. Count /\ Count \in Nat BY SignatureType DEF SigTypeOK
  <1>2. /\ UNCHANGED <<lists, text>> /\ Count' = Count /\ n' = n + 1
        /\ stage' = IF n < Count THEN "format" ELSE "unrecognized"
    BY SameCount DEF Mismatches
  <1>3. SigTypeOK' BY <1>1, <1>2 DEF SigTypeOK, Verdicts
  <1>4. \A i : Fits(Signature(i))' <=> Fits(Signature(i)) BY <1>2, SameFits
  <1>5. ~Fits(Signature(n)) BY DEF signature
  <1>6. \A i \in 1 .. n - 1 : ~Fits(Signature(i)) BY DEF Compared
  <1>7. \A i \in 1 .. n : ~Fits(Signature(i)) BY <1>1, <1>5, <1>6
  <1>8. n' - 1 = n BY <1>1, <1>2
  <1>9. Compared' BY <1>1, <1>2, <1>4, <1>7, <1>8 DEF Compared
  <1> QED BY <1>3, <1>9

\* Going on inside the same signature.
LEMMA GoesOn ==
  ASSUME SigTypeOK, Compared, stage = "compare", UNCHANGED <<lists, text, n, stage>>,
         s' \in 1 .. Len(signature) + 1, f' \in 1 .. Len(text) + 1, ComparedTo(signature, s, f)'
  PROVE  SigTypeOK' /\ Compared'
  <1>1. Count' = Count /\ signature' = signature BY SameCount DEF signature, Signature
  <1>2. SigTypeOK' BY <1>1 DEF SigTypeOK
  <1>3. \A i : Fits(Signature(i))' <=> Fits(Signature(i)) BY SameFits
  <1>4. Compared' BY <1>3 DEF Compared
  <1> QED BY <1>2, <1>4

\* Nor what is placed.
LEMMA SamePlaced ==
  ASSUME UNCHANGED text, NEW CONSTANT sig, NEW CONSTANT at, NEW CONSTANT end
  PROVE  Placed(sig, at, end)' <=> Placed(sig, at, end)
  BY DEF Placed, CharAt

\* And what is known of a comparison.
LEMMA NextCompared ==
  ASSUME UNCHANGED <<lists, text, n>>, NEW CONSTANT i, NEW CONSTANT j,
         ComparedTo(signature, i, j), s' = i, f' = j
  PROVE  ComparedTo(signature, s, f)'
  <1>1. signature' = signature BY DEF signature, Signature
  <1>2. \A sig, at, end : Placed(sig, at, end)' <=> Placed(sig, at, end) BY SamePlaced
  <1> QED BY <1>1, <1>2 DEF ComparedTo

\* What is known while a signature is compared.
LEMMA Comparison ==
  ASSUME SigTypeOK, Compared, stage = "compare"
  PROVE  /\ text \in Seq(Chars) /\ Len(text) \in Nat
         /\ signature \in NonEmpty(Chars \cup {Hole}) /\ Len(signature) \in Nat \ {0}
         /\ signature \in Seq(Chars \cup {Hole})
         /\ s \in 1 .. Len(signature) + 1 /\ f \in 1 .. Len(text) + 1
         /\ ComparedTo(signature, s, f)
  <1>1. n \in 1 .. Count BY SignatureType DEF SigTypeOK
  <1>2. signature \in NonEmpty(Chars \cup {Hole}) BY <1>1, SignatureType DEF signature
  <1> QED BY <1>2, SignatureType, SignatureString DEF SigTypeOK, Compared

\* While both strings last, the two characters are there to be read.
LEMMA BothLast ==
  ASSUME SigTypeOK, Compared, stage = "compare"
  PROVE  /\ Comparing <=> s <= Len(signature) /\ f <= Len(text)
         /\ CharAt(text, f) = Nul <=> f = Len(text) + 1
         /\ CharAt(signature, s) = Nul <=> s = Len(signature) + 1
  <1>1. /\ text \in Seq(Chars) /\ Len(text) \in Nat /\ Len(signature) \in Nat
        /\ signature \in Seq(Chars \cup {Hole})
        /\ s \in 1 .. Len(signature) + 1 /\ f \in 1 .. Len(text) + 1
    BY Comparison
  <1>2. f <= Len(text) => text[f] \in Chars BY <1>1
  <1>3. s <= Len(signature) => signature[s] \in Chars \cup {Hole} BY <1>1
  <1>4. CharAt(text, f) = Nul <=> f = Len(text) + 1
    BY <1>1, <1>2, CharsAssumption DEF CharAt
  <1>5. CharAt(signature, s) = Nul <=> s = Len(signature) + 1
    BY <1>1, <1>3, CharsAssumption DEF CharAt
  <1> QED BY <1>1, <1>4, <1>5 DEF Comparing

\* A comparison begins with both strings ahead.
LEMMA FormatStep ==
  ASSUME SigTypeOK, Compared, Format
  PROVE  SigTypeOK' /\ Compared'
  <1>1. /\ stage = "format" /\ stage' = "compare" /\ s' = 1 /\ f' = 1
        /\ UNCHANGED <<lists, text, n>>
    BY DEF Format
  <1>2. n \in 1 .. Count BY <1>1, SignatureType DEF SigTypeOK
  <1>3. signature \in NonEmpty(Chars \cup {Hole}) /\ Len(signature) \in Nat \ {0}
    BY <1>2, SignatureType, SignatureString DEF signature
  <1>4. text \in Seq(Chars) /\ Len(text) \in Nat BY SignatureType
  <1>5. Count' = Count /\ signature' = signature BY <1>1, SameCount DEF signature, Signature
  <1>6. SigTypeOK' BY <1>1, <1>2, <1>3, <1>4, <1>5 DEF SigTypeOK
  <1>7. ComparedTo(signature, 1, 1)
    <2> DEFINE start == [k \in 1 .. 1 |-> 1]
    <2>1. start \in [1 .. 1 -> 1 .. Len(text) + 1] /\ start[1] = 1 BY <1>4
    <2> HIDE DEF start
    <2>2. Placed(signature, start, 1) BY <2>1 DEF Placed
    <2>3. \A at : Placed(signature, at, Len(signature) + 1) => at[1] = 1 BY DEF Placed
    <2> QED BY <2>1, <2>2, <2>3 DEF ComparedTo
  <1>8. ComparedTo(signature, s, f)' BY <1>1, <1>7, NextCompared
  <1>9. \A i : Fits(Signature(i))' <=> Fits(Signature(i)) BY <1>1, SameFits
  <1>10. Compared' BY <1>1, <1>8, <1>9 DEF Compared
  <1> QED BY <1>6, <1>10

\* Without memory there is no comparison.
LEMMA FormatFailsStep ==
  ASSUME SigTypeOK, Compared, FormatFails
  PROVE  SigTypeOK' /\ Compared'
  <1>1. Count' = Count /\ signature' = signature
    BY SameCount DEF FormatFails, signature, Signature
  <1>2. SigTypeOK' BY <1>1 DEF SigTypeOK, FormatFails
  <1>3. Compared' BY DEF Compared, FormatFails
  <1> QED BY <1>2, <1>3

\* A letter that is the same.
LEMMA LiteralStep ==
  ASSUME SigTypeOK, Compared, Literal
  PROVE  SigTypeOK' /\ Compared'
  <1>1. /\ stage = "compare" /\ Comparing /\ signature[s] = text[f]
        /\ s' = s + 1 /\ f' = f + 1 /\ UNCHANGED <<lists, text, n, stage>>
    BY DEF Literal, Comparing
  <1>2. s \in 1 .. Len(signature) /\ f \in 1 .. Len(text) /\ Len(signature) \in Nat /\ Len(text) \in Nat
    BY <1>1, Comparison, BothLast
  <1>3. ComparedTo(signature, s + 1, f + 1) BY <1>1, <1>2, Comparison, LetterKeeps
  <1>4. ComparedTo(signature, s, f)' BY <1>1, <1>3, NextCompared
  <1>5. s' \in 1 .. Len(signature) + 1 /\ f' \in 1 .. Len(text) + 1 BY <1>1, <1>2
  <1> QED BY <1>1, <1>4, <1>5, GoesOn

\* A letter that is another.
LEMMA DifferStep ==
  ASSUME SigTypeOK, Compared, Differ
  PROVE  SigTypeOK' /\ Compared'
  <1>1. /\ stage = "compare" /\ Comparing /\ signature[s] # Hole /\ signature[s] # text[f]
        /\ Mismatches /\ s' = s /\ f' = f
    BY DEF Differ, Comparing
  <1>2. s \in 1 .. Len(signature) /\ f \in 1 .. Len(text) /\ f \in 1 .. Len(text) + 1
    BY <1>1, Comparison, BothLast
  <1>3. CharAt(text, f) = text[f] BY <1>2, Comparison DEF CharAt
  <1>4. ~Fits(signature) BY <1>1, <1>2, <1>3, Comparison, LetterMisses
  <1> QED BY <1>1, <1>2, <1>4, MismatchesKeeps

\* A run of '?', and the search for what follows it.
LEMMA SkipHoleStep ==
  ASSUME SigTypeOK, Compared, SkipHole
  PROVE  SigTypeOK' /\ Compared'
  <1> DEFINE t == NextAfter(signature, s, Chars)
             next == CharAt(signature, t)
  <1>1. /\ stage = "compare" /\ Comparing /\ signature[s] = Hole /\ s' = t
        /\ IF next = Nul THEN f' = f /\ Matches
           ELSE /\ f' = NextAfter(text, f, {next})
                /\ IF CharAt(text, f') = Nul THEN Mismatches ELSE UNCHANGED <<lists, text, n, stage>>
    BY DEF SkipHole, Comparing, AfterHoles, Sought
  <1>2. /\ s \in 1 .. Len(signature) /\ f \in 1 .. Len(text) /\ f \in 1 .. Len(text) + 1
        /\ s \in 1 .. Len(signature) + 1
        /\ Len(signature) \in Nat /\ Len(text) \in Nat
    BY <1>1, Comparison, BothLast
  <1>3. /\ t \in s .. Len(signature) + 1
        /\ Run(signature, s, t - 1)
        /\ t <= Len(signature) => next = signature[t] /\ signature[t] \in Chars
        /\ t = Len(signature) + 1 => next = Nul
    BY <1>1, <1>2, Comparison, HolesSkipped
  <1> HIDE DEF t
  <1>4. s' \in Nat /\ s' \in 1 .. Len(signature) + 1 BY <1>1, <1>2, <1>3
  <1>5. CASE next = Nul
    <2>1. s <= Len(signature) /\ signature[s] = Hole BY <1>1, <1>2
    <2>2. CharAt(signature, NextAfter(signature, s, Chars)) = Nul BY <1>5 DEF t
    <2>3. Fits(signature) BY <1>1, <1>2, <2>1, <2>2, Comparison, EndFits
    <2> QED BY <1>1, <1>2, <1>4, <1>5, <2>3, MatchesKeeps
  <1>6. CASE next # Nul
    <2>1. t \in s .. Len(signature) /\ next = signature[t] /\ signature[t] \in Chars
      BY <1>2, <1>3, <1>6
    <2>2. /\ f' \in f .. Len(text) + 1
          /\ CharAt(text, f') \in {next} \cup {Nul}
          /\ \A k \in f .. f' - 1 : CharAt(text, k) \notin {next}
      BY <1>1, <1>2, <1>6, Comparison, NextAfterStops
    <2>3. \A k \in f .. f' - 1 : text[k] # signature[t]
      <3> SUFFICES ASSUME NEW k \in f .. f' - 1 PROVE text[k] # signature[t]
        OBVIOUS
      <3>1. k <= Len(text)
        <4>1. \A last \in Nat : \A place \in f .. last + 1 : \A l \in f .. place - 1 : l <= last
          BY <1>2
        <4> QED BY <1>2, <2>2, <4>1
      <3>2. CharAt(text, k) = text[k] BY <3>1 DEF CharAt
      <3> QED BY <2>1, <2>2, <3>2
    <2>4. f' \in 1 .. Len(text) + 1 BY <1>2, <2>2
    <2>5. CASE CharAt(text, f') = Nul
      <3>1. f' = Len(text) + 1
        <4> SUFFICES ASSUME f' \in 1 .. Len(text) PROVE FALSE
          BY <1>2, <2>4
        <4>1. text[f'] \in Chars BY Comparison, <1>1
        <4> QED BY <2>5, <4>1, CharsAssumption DEF CharAt
      <3>2. \A k \in f .. Len(text) : text[k] # signature[t] BY <1>2, <2>3, <3>1
      <3>3. ~Fits(signature) BY <1>1, <1>2, <1>3, <2>1, <3>2, Comparison, RunMisses
      <3> QED BY <1>1, <1>4, <1>6, <2>4, <2>5, <3>3, MismatchesKeeps
    <2>6. CASE CharAt(text, f') # Nul
      <3>1. CharAt(text, f') = signature[t] BY <2>1, <2>2, <2>6
      <3>2. f' \in f .. Len(text) BY <1>2, <2>2, <2>6 DEF CharAt
      <3>3. t # s /\ signature[t] # Hole BY <1>1, <2>1, CharsAssumption
      <3>4. s = 1 \/ signature[s - 1] # Hole BY <1>1, <1>2, Comparison, BeforeARun
      <3>5. ComparedTo(signature, t, f')
        BY <1>1, <1>2, <1>3, <2>1, <2>3, <3>1, <3>2, <3>3, <3>4, Comparison, RunKeeps
      <3>6. UNCHANGED <<lists, text, n, stage>> BY <1>1, <1>6, <2>6
      <3>7. ComparedTo(signature, s, f)' BY <1>1, <3>5, <3>6, NextCompared
      <3> QED BY <1>1, <1>4, <2>4, <3>6, <3>7, GoesOn
    <2> QED BY <2>5, <2>6
  <1> QED BY <1>5, <1>6

\* The end of either string.
LEMMA EndOfStringStep ==
  ASSUME SigTypeOK, Compared, EndOfString
  PROVE  SigTypeOK' /\ Compared'
  <1> DEFINE t == NextAfter(signature, s, Chars)
  <1>1. /\ stage = "compare" /\ ~Comparing /\ s' = t /\ f' = f
        /\ IF CharAt(signature, t) = Nul /\ CharAt(text, f) = Nul THEN Matches ELSE Mismatches
    BY DEF EndOfString, AfterHoles
  <1>2. /\ s \in 1 .. Len(signature) + 1 /\ f \in 1 .. Len(text) + 1
        /\ Len(signature) \in Nat /\ Len(text) \in Nat
    BY <1>1, Comparison
  <1>3. s = Len(signature) + 1 \/ f = Len(text) + 1 BY <1>1, <1>2, BothLast
  <1>4. /\ t \in s .. Len(signature) + 1
        /\ Run(signature, s, t - 1)
        /\ t <= Len(signature) => CharAt(signature, t) = signature[t] /\ signature[t] \in Chars
        /\ t = Len(signature) + 1 => CharAt(signature, t) = Nul
    BY <1>1, <1>2, Comparison, HolesSkipped
  <1> HIDE DEF t
  <1>5. s' \in Nat /\ f' \in 1 .. Len(text) + 1 BY <1>1, <1>2, <1>4
  <1>6. CharAt(text, f) = Nul <=> f = Len(text) + 1 BY <1>1, BothLast
  <1>7. CASE CharAt(signature, t) = Nul /\ CharAt(text, f) = Nul
    <2>1. Fits(signature) BY <1>1, <1>2, <1>6, <1>7, Comparison, EndFits DEF t
    <2> QED BY <1>1, <1>5, <1>7, <2>1, MatchesKeeps
  <1>8. CASE ~(CharAt(signature, t) = Nul /\ CharAt(text, f) = Nul)
    <2>1. ~Fits(signature)
      <3>1. CASE s = Len(signature) + 1
        <4>1. f # Len(text) + 1 BY <1>2, <1>4, <1>6, <1>8, <3>1
        <4> QED BY <1>1, <3>1, <4>1, Comparison, RestMisses
      <3>2. CASE s # Len(signature) + 1
        <4>1. f = Len(text) + 1 /\ s \in 1 .. Len(signature) BY <1>2, <1>3, <3>2
        <4>2. t \in s .. Len(signature) /\ signature[t] \in Chars BY <1>2, <1>4, <1>6, <1>8, <4>1
        <4>3. \A k \in f .. Len(text) : text[k] # signature[t] BY <1>2, <4>1
        <4> QED BY <1>1, <1>2, <1>4, <4>1, <4>2, <4>3, Comparison, RunMisses
      <3> QED BY <3>1, <3>2
    <2> QED BY <1>1, <1>5, <1>8, <2>1, MismatchesKeeps
  <1> QED BY <1>7, <1>8

\* The invariant of the whole check.
LEMMA NextKeeps ==
  ASSUME SigTypeOK, Compared, [Next]_vars
  PROVE  SigTypeOK' /\ Compared'
  <1>1. CASE Format BY <1>1, FormatStep
  <1>2. CASE FormatFails BY <1>2, FormatFailsStep
  <1>3. CASE SkipHole BY <1>3, SkipHoleStep
  <1>4. CASE Literal BY <1>4, LiteralStep
  <1>5. CASE Differ BY <1>5, DifferStep
  <1>6. CASE EndOfString BY <1>6, EndOfStringStep
  <1>7. CASE UNCHANGED vars
    <2>1. UNCHANGED <<lists, text, n, s, f, stage>> BY <1>7 DEF vars
    <2>2. Count' = Count /\ signature' = signature BY <2>1, SameCount DEF signature, Signature
    <2>3. SigTypeOK' BY <2>1, <2>2 DEF SigTypeOK
    <2>4. \A i : Fits(Signature(i))' <=> Fits(Signature(i)) BY <2>1, SameFits
    <2>5. stage = "compare" => ComparedTo(signature, s, f)'
      BY <2>1, NextCompared DEF Compared
    <2>6. Compared' BY <2>1, <2>2, <2>4, <2>5 DEF Compared
    <2> QED BY <2>3, <2>6
  <1> QED BY <1>1, <1>2, <1>3, <1>4, <1>5, <1>6, <1>7 DEF Next

\* The initial states.
LEMMA InitEstablishes ==
  ASSUME Init
  PROVE  SigTypeOK /\ Compared
  <1>1. PICK check \in Checks : lists = check.lists /\ text = check.text BY DEF Init
  <1>2. check \in [lists : ListPairs, text : Seq(Chars)] BY <1>1, ChecksAssumption
  <1>3. lists \in ListPairs /\ text \in Seq(Chars) BY <1>1, <1>2
  <1>4. /\ lists.prologues \in NonEmpty(NonEmpty(Chars \cup {Hole}))
        /\ lists.epilogues \in NonEmpty(NonEmpty(Chars \cup {Hole}))
    BY <1>3 DEF ListPairs
  <1>5. /\ Len(lists.prologues) \in Nat \ {0} /\ Len(lists.epilogues) \in Nat \ {0}
    <2> DEFINE strings == NonEmpty(Chars \cup {Hole})
    <2>1. /\ lists.prologues \in Seq(strings) /\ lists.prologues # <<>>
          /\ lists.epilogues \in Seq(strings) /\ lists.epilogues # <<>>
      <3> HIDE DEF strings
      <3> QED BY <1>4 DEF NonEmpty, strings
    <2> HIDE DEF strings
    <2> QED BY <2>1
  <1>6. Len(text) \in Nat BY <1>3
  <1>7. n = 1 /\ s = 1 /\ f = 1 /\ stage = "format" BY DEF Init
  <1>8. Count \in Nat /\ Count >= 1
    <2> DEFINE p == Len(lists.prologues)  e == Len(lists.epilogues)
    <2>1. p \in Nat \ {0} /\ e \in Nat \ {0} BY <1>5
    <2> HIDE DEF p, e
    <2>2. p + e \in Nat /\ p + e >= 1 BY <2>1
    <2> QED BY <2>2 DEF Count, p, e
  <1>9. SigTypeOK BY <1>3, <1>6, <1>7, <1>8 DEF SigTypeOK
  <1>10. Compared BY <1>7 DEF Compared
  <1> QED BY <1>9, <1>10

\* What the loops of sig.c know, in every state.
THEOREM SignatureInvariant == Spec => [](SigTypeOK /\ Compared)
  <1>1. Init => SigTypeOK /\ Compared BY InitEstablishes
  <1>2. SigTypeOK /\ Compared /\ [Next]_vars => (SigTypeOK /\ Compared)' BY NextKeeps
  <1> QED BY <1>1, <1>2, PTL DEF Spec

\* For every list of signatures and every text, no pointer of the comparison
\* passes the nul of its string and no loop passes the end of its list.
THEOREM SignatureTypes == Spec => []SigTypeOK
  BY SignatureInvariant, PTL

\* Signatures are counted through both lists.
LEMMA CountsBoth ==
  ASSUME SigTypeOK
  PROVE  /\ \A i \in 1 .. Len(lists.prologues) : i \in 1 .. Count
         /\ \A i \in 1 .. Len(lists.epilogues) : Len(lists.prologues) + i \in 1 .. Count
         /\ n > Len(lists.prologues) /\ n <= Count =>
              /\ n - Len(lists.prologues) \in 1 .. Len(lists.epilogues)
              /\ Len(lists.prologues) + (n - Len(lists.prologues)) = n
  <1> DEFINE p == Len(lists.prologues)  e == Len(lists.epilogues)
  <1>1. p \in Nat /\ e \in Nat /\ Count = p + e BY SignatureType DEF Count
  <1>2. n \in Nat BY <1>1 DEF SigTypeOK
  <1> HIDE DEF p, e
  <1>3. /\ \A i \in 1 .. p : i \in 1 .. p + e
        /\ \A i \in 1 .. e : p + i \in 1 .. p + e
        /\ n > p /\ n <= p + e => n - p \in 1 .. e /\ p + (n - p) = n
    BY <1>1, <1>2
  <1> QED BY <1>1, <1>3 DEF p, e

\* At the end of the lists that is the answer.
LEMMA ComparedClassifies ==
  ASSUME SigTypeOK, Compared
  PROVE  Classified
  <1>1. /\ Len(lists.prologues) \in Nat /\ Len(lists.epilogues) \in Nat
        /\ n \in 1 .. Count + 1
    BY SignatureType DEF SigTypeOK
  <1>2. \A i \in 1 .. Len(lists.prologues) : Signature(i) = lists.prologues[i]
    BY <1>1 DEF Signature
  <1>3. \A i \in 1 .. Len(lists.epilogues) :
          Signature(Len(lists.prologues) + i) = lists.epilogues[i]
    BY <1>1 DEF Signature
  <1>4. CASE stage = "prologue"
    <2>1. n \in 1 .. Len(lists.prologues) /\ Fits(Signature(n)) BY <1>1, <1>4 DEF Compared
    <2>2. SomeFits(lists.prologues) BY <1>2, <2>1 DEF SomeFits
    <2> QED BY <1>4, <2>2 DEF Classified
  <1>5. CASE stage = "epilogue"
    <2>1. /\ n > Len(lists.prologues) /\ n <= Count /\ Fits(Signature(n))
          /\ \A i \in 1 .. n - 1 : ~Fits(Signature(i))
      BY <1>5 DEF Compared
    <2>2. ~SomeFits(lists.prologues)
      <3> SUFFICES ASSUME NEW i \in 1 .. Len(lists.prologues), Fits(lists.prologues[i]) PROVE FALSE
        BY DEF SomeFits
      <3>1. i \in 1 .. n - 1 BY <1>1, <2>1
      <3> QED BY <1>2, <2>1, <3>1
    <2>3. SomeFits(lists.epilogues)
      <3> DEFINE i == n - Len(lists.prologues)
      <3>1. i \in 1 .. Len(lists.epilogues) /\ Len(lists.prologues) + i = n
        BY <2>1, CountsBoth
      <3> HIDE DEF i
      <3> QED BY <1>3, <2>1, <3>1 DEF SomeFits
    <2> QED BY <1>5, <2>2, <2>3 DEF Classified
  <1>6. CASE stage = "unrecognized"
    <2>1. \A i \in 1 .. Count : ~Fits(Signature(i)) BY <1>6 DEF Compared
    <2>2. ~SomeFits(lists.prologues)
      <3> SUFFICES ASSUME NEW i \in 1 .. Len(lists.prologues), Fits(lists.prologues[i]) PROVE FALSE
        BY DEF SomeFits
      <3>1. i \in 1 .. Count BY CountsBoth
      <3> QED BY <1>2, <2>1, <3>1
    <2>3. ~SomeFits(lists.epilogues)
      <3> SUFFICES ASSUME NEW i \in 1 .. Len(lists.epilogues), Fits(lists.epilogues[i]) PROVE FALSE
        BY DEF SomeFits
      <3>1. Len(lists.prologues) + i \in 1 .. Count BY CountsBoth
      <3> QED BY <1>3, <2>1, <3>1
    <2> QED BY <1>6, <2>2, <2>3 DEF Classified
  <1>7. CASE stage \notin Verdicts BY <1>7 DEF Classified
  <1> QED BY <1>4, <1>5, <1>6, <1>7 DEF Verdicts

\* The check of an instruction answers what one sentence says of the lists:
\* for all signatures and texts, though the matcher never backtracks and
\* though the lists are tried one signature at a time.
THEOREM SignaturesClassify == Spec => []Classified
  <1>1. SigTypeOK /\ Compared => Classified BY ComparedClassifies
  <1> QED BY <1>1, SignatureInvariant, PTL

\* In particular where the run `signatures' looks at it.
THEOREM OtherListsClassify == Spec => []ClassifiedSmall
  <1>1. Classified => ClassifiedSmall BY DEF ClassifiedSmall
  <1> QED BY <1>1, SignaturesClassify, PTL
----------------------------------------------------------------------------
(* The lists of sig.h. A signature fits a text that the disassembler writes  *)
(* only if both begin alike, and the first signature of a kind fits whenever *)
(* a later one does.                                                         *)

Symbols == Chars \cup {Hole}

\* What fits a text begins like it, as far as its first letters go.
LEMMA FitsStart ==
  ASSUME text \in Seq(Chars), text # <<>>,
         NEW sig \in Seq(Symbols), Len(sig) >= 1, sig[1] # Hole, Fits(sig)
  PROVE  /\ text[1] = sig[1]
         /\ Len(sig) >= 2 /\ sig[2] # Hole => Len(text) >= 2 /\ text[2] = sig[2]
  <1>1. Len(sig) \in Nat /\ Len(text) \in Nat /\ Len(text) >= 1 OBVIOUS
  <1>2. Nul \notin Symbols BY CharsAssumption DEF Symbols
  <1>3. \A i \in 1 .. Len(sig) : sig[i] \in Symbols OBVIOUS
  <1>4. PICK at \in [1..Len(sig) + 1 -> 1..Len(text) + 1] : Placed(sig, at, Len(sig) + 1)
    BY DEF Fits
  <1>5. at[1] = 1 BY <1>4 DEF Placed
  <1>6. \A i \in 1 .. Len(sig) : sig[i] # Hole => CharAt(text, at[i]) = sig[i] /\ at[i + 1] = at[i] + 1
    BY <1>1, <1>4 DEF Placed
  <1>7. text[1] = sig[1] /\ at[2] = 2
    BY <1>1, <1>5, <1>6 DEF CharAt
  <1>8. ASSUME Len(sig) >= 2, sig[2] # Hole PROVE Len(text) >= 2 /\ text[2] = sig[2]
    <2>1. CharAt(text, 2) = sig[2] BY <1>1, <1>6, <1>7, <1>8
    <2>2. sig[2] # Nul BY <1>1, <1>2, <1>3, <1>8
    <2> QED BY <1>1, <2>1, <2>2 DEF CharAt
  <1> QED BY <1>7, <1>8

\* A word with a hole behind it fits what begins with the word.
LEMMA PrefixFits ==
  ASSUME text \in Seq(Chars), text # <<>>,
         NEW sig \in Seq(Symbols), Len(sig) = 2, sig[1] = text[1], sig[2] = Hole
  PROVE  Fits(sig)
  <1>1. Len(text) \in Nat /\ Len(text) >= 1 /\ \A i \in 1 .. Len(text) : text[i] \in Chars OBVIOUS
  <1>2. Nul \notin Chars /\ text[1] # Hole BY <1>1, CharsAssumption
  <1> DEFINE at == [i \in 1 .. 3 |-> IF i = 3 THEN Len(text) + 1 ELSE i]
  <1>3. at \in [1 .. 3 -> 1 .. Len(text) + 1] /\ at[1] = 1 /\ at[2] = 2 /\ at[3] = Len(text) + 1
    BY <1>1
  <1> HIDE DEF at
  <1>4. CharAt(text, 1) = sig[1] /\ CharAt(sig, 3) = Nul BY <1>1 DEF CharAt
  <1>5. Placed(sig, at, 3)
    <2>1. ASSUME NEW i \in 1 .. 2, sig[i] # Hole
          PROVE  CharAt(text, at[i]) = sig[i] /\ at[i + 1] = at[i] + 1
      BY <2>1, <1>3, <1>4
    <2>2. ASSUME NEW i \in 1 .. 2, NEW j \in 1 .. i, Run(sig, j, i)
          PROVE  /\ at[j] <= at[i + 1]
                 /\ \A p \in at[j] .. at[i + 1] - 1 : CharAt(sig, i + 1) # text[p]
      <3>1. j = 2 /\ i = 2 BY <2>2, <1>2 DEF Run
      <3>2. at[j] = 2 /\ at[i + 1] = Len(text) + 1 /\ CharAt(sig, i + 1) = Nul
        BY <3>1, <1>3, <1>4
      <3>3. at[j] .. at[i + 1] - 1 = 2 .. Len(text) BY <3>2, <1>1
      <3> QED BY <3>2, <3>3, <1>1, <1>2
    <2> QED BY <2>1, <2>2, <1>3 DEF Placed
  <1> QED BY <1>1, <1>3, <1>5 DEF Fits

\* A word fits itself.
LEMMA WordFits ==
  ASSUME text \in Seq(Chars), Len(text) = 1,
         NEW sig \in Seq(Symbols), Len(sig) = 1, sig[1] = text[1]
  PROVE  Fits(sig)
  <1>1. text[1] \in Chars /\ sig[1] # Hole BY CharsAssumption
  <1> DEFINE at == [i \in 1 .. 2 |-> i]
  <1>2. at \in [1 .. 2 -> 1 .. 2] /\ at[1] = 1 /\ at[2] = 2 OBVIOUS
  <1> HIDE DEF at
  <1>3. CharAt(text, 1) = sig[1] BY DEF CharAt
  <1>4. Placed(sig, at, 2) BY <1>1, <1>2, <1>3 DEF Placed, Run
  <1> QED BY <1>2, <1>4 DEF Fits

\* Two letters, two holes and a letter fit what begins with those two letters
\* and ends with the first of the others.
LEMMA ListFits ==
  ASSUME text \in Seq(Chars), text # <<>>,
         NEW sig \in Seq(Symbols), Len(sig) = 5,
         sig[1] = text[1], sig[2] = text[2], sig[3] = Hole, sig[4] = Hole, Len(text) >= 3,
         \A i \in 1 .. Len(text) : text[i] = sig[5] <=> i = Len(text)
  PROVE  Fits(sig)
  <1>1. Len(text) \in Nat /\ \A i \in 1 .. Len(text) : text[i] \in Chars OBVIOUS
  <1>2. text[Len(text)] = sig[5] BY <1>1
  <1>3. \A i \in 1 .. Len(text) : text[i] # Hole BY <1>1, CharsAssumption
  <1>4. sig[1] # Hole /\ sig[2] # Hole /\ sig[5] # Hole BY <1>1, <1>2, <1>3
  <1> DEFINE at == [i \in 1 .. 6 |-> CASE i = 5 -> Len(text) [] i = 6 -> Len(text) + 1 [] i = 4 -> 3 [] OTHER -> i]
  <1>5. /\ at \in [1 .. 6 -> 1 .. Len(text) + 1]
        /\ at[1] = 1 /\ at[2] = 2 /\ at[3] = 3 /\ at[4] = 3 /\ at[5] = Len(text) /\ at[6] = Len(text) + 1
    BY <1>1
  <1> HIDE DEF at
  <1>6. /\ CharAt(text, 1) = sig[1] /\ CharAt(text, 2) = sig[2] /\ CharAt(text, Len(text)) = sig[5]
        /\ CharAt(sig, 4) = Hole /\ CharAt(sig, 5) = sig[5]
    BY <1>1, <1>2 DEF CharAt
  <1>7. Placed(sig, at, 6)
    <2>1. ASSUME NEW i \in 1 .. 5, sig[i] # Hole
          PROVE  CharAt(text, at[i]) = sig[i] /\ at[i + 1] = at[i] + 1
      <3>1. i \in {1, 2, 5} BY <2>1
      <3> QED BY <3>1, <1>1, <1>5, <1>6
    <2>2. ASSUME NEW i \in 1 .. 5, NEW j \in 1 .. i, Run(sig, j, i)
          PROVE  /\ at[j] <= at[i + 1]
                 /\ \A p \in at[j] .. at[i + 1] - 1 : CharAt(sig, i + 1) # text[p]
      <3>1. sig[i] = Hole /\ sig[j] = Hole BY <2>2 DEF Run
      <3>2. j \in {3, 4} /\ i \in {3, 4} BY <3>1, <1>4
      <3>3. CASE i = 3
        BY <3>2, <3>3, <1>1, <1>3, <1>5, <1>6
      <3>4. CASE i = 4
        <4>1. at[j] = 3 /\ at[i + 1] = Len(text) BY <3>2, <3>4, <1>5
        <4> QED BY <3>4, <4>1, <1>1, <1>6
      <3> QED BY <3>2, <3>3, <3>4
    <2> QED BY <2>1, <2>2, <1>5 DEF Placed
  <1> QED BY <1>1, <1>5, <1>7 DEF Fits

(* The pairs of sig.h, without (0) and with (1) write-back.                  *)
IsPair(sig, opcode, mark) ==
  /\ sig \in Seq(Symbols) /\ Len(sig) = 8 + mark
  /\ sig[1] = opcode /\ sig[2] = Hole /\ sig[3] = Comma /\ sig[4] = Hole /\ sig[5] = Comma
  /\ sig[6] = Place /\ sig[7] = Hole /\ sig[8] = Bracket
  /\ mark = 1 => sig[9] = WriteBack

LEMMA Pairs ==
  ASSUME NEW opcode \in Transfers
  PROVE  /\ IsPair(Pair(opcode, <<Bracket>>), opcode, 0)
         /\ IsPair(Pair(opcode, <<Bracket, WriteBack>>), opcode, 1)
  <1>1. opcode \in Symbols /\ Hole \in Symbols /\ Comma \in Symbols /\ Place \in Symbols
        /\ Bracket \in Symbols /\ WriteBack \in Symbols
    BY TextsAssumption DEF Symbols
  <1>2. IsPair(Pair(opcode, <<Bracket>>), opcode, 0)
    BY <1>1 DEF Pair, IsPair
  <1>3. IsPair(Pair(opcode, <<Bracket, WriteBack>>), opcode, 1)
    BY <1>1 DEF Pair, IsPair
  <1> QED BY <1>2, <1>3

\* What is known of a text with a pair.
LEMMA PairTexts ==
  ASSUME text \in Seq(Chars), Aarch64Text(text), text[1] \in Transfers
  PROVE  /\ Len(text) \in Nat /\ Len(text) >= 6
         /\ text[2] # Comma /\ text[3] = Comma /\ text[4] # Comma /\ text[5] = Comma
  BY DEF Aarch64Text

\* A pair on the stack, closed by what the signature ends with, fits.
LEMMA PairFits ==
  ASSUME text \in Seq(Chars), Aarch64Text(text), text[1] \in Transfers, OnStack(text),
         NEW mark \in {0, 1}, NEW sig, IsPair(sig, text[1], mark),
         ClosedAt(text, Len(text) - mark), mark = 1 => text[Len(text)] = WriteBack
  PROVE  Fits(sig)
  <1>1. Len(text) \in Nat /\ \A i \in 1 .. Len(text) : text[i] \in Chars OBVIOUS
  <1>2. PICK close \in 7 .. Len(text) :
          close = Len(text) - mark /\ \A i \in 1 .. Len(text) : text[i] = Bracket <=> i = close
    BY DEF ClosedAt
  <1>3. \A i \in 1 .. Len(text) : text[i] # Hole /\ text[i] # Nul BY <1>1, CharsAssumption
  <1>4. /\ text[3] = Comma /\ text[5] = Comma /\ text[2] # Comma /\ text[4] # Comma
        /\ text[6] = Place /\ Len(text) >= 7 /\ text[close] = Bracket
    BY <1>1, <1>2, PairTexts DEF OnStack
  <1>5. /\ Len(sig) = 8 + mark /\ sig[1] = text[1]
        /\ sig[2] = Hole /\ sig[3] = text[3] /\ sig[4] = Hole /\ sig[5] = text[5]
        /\ sig[6] = text[6] /\ sig[7] = Hole /\ sig[8] = text[close]
        /\ mark = 1 => sig[9] = text[close + 1]
    BY <1>1, <1>2, <1>4 DEF IsPair
  <1> DEFINE last == 9 + mark
  <1> DEFINE at == [i \in 1 .. last |-> IF i <= 7 THEN i ELSE close + (i - 8)]
  <1>6. /\ at \in [1 .. last -> 1 .. Len(text) + 1]
        /\ at[1] = 1 /\ at[2] = 2 /\ at[3] = 3 /\ at[4] = 4 /\ at[5] = 5 /\ at[6] = 6 /\ at[7] = 7
        /\ at[8] = close /\ at[9] = close + 1 /\ (mark = 1 => at[10] = close + 2)
        /\ at[last] = Len(text) + 1
    <2>1. \A i \in 1 .. last : at[i] \in 1 .. Len(text) + 1 BY <1>1, <1>2
    <2>2. at \in [1 .. last -> 1 .. Len(text) + 1] BY <2>1
    <2>3. /\ at[1] = 1 /\ at[2] = 2 /\ at[3] = 3 /\ at[4] = 4 /\ at[5] = 5 /\ at[6] = 6 /\ at[7] = 7
      OBVIOUS
    <2>4. at[8] = close /\ at[9] = close + 1 /\ (mark = 1 => at[10] = close + 2) BY <1>2
    <2>5. at[last] = Len(text) + 1 BY <1>1, <1>2
    <2> HIDE DEF at, last
    <2> QED BY <2>2, <2>3, <2>4, <2>5
  <1> HIDE DEF at
  <1>7. Placed(sig, at, last)
    <2>1. ASSUME NEW i \in 1 .. last - 1, sig[i] # Hole
          PROVE  CharAt(text, at[i]) = sig[i] /\ at[i + 1] = at[i] + 1
      <3>1. i \in {1, 3, 5, 6, 8} \/ (i = 9 /\ mark = 1)
        <4>1. i \in 1 .. 9 /\ (i = 9 => mark = 1) OBVIOUS
        <4>2. sig[2] = Hole /\ sig[4] = Hole /\ sig[7] = Hole BY <1>5
        <4> QED BY <4>1, <4>2, <2>1
      <3>2. CASE i \in {1, 3, 5, 6}
        <4>1. at[i] = i /\ at[i + 1] = i + 1
          <5>1. at[1] = 1 /\ at[2] = 2 /\ at[3] = 3 /\ at[4] = 4 /\ at[5] = 5 /\ at[6] = 6 /\ at[7] = 7
            BY <1>6
          <5>2. i + 1 \in {2, 4, 6, 7} BY <3>2
          <5> QED BY <5>1, <5>2, <3>2
        <4>2. i <= Len(text) BY <3>2, <1>4
        <4>3. sig[i] = text[i] BY <3>2, <1>5
        <4> QED BY <4>1, <4>2, <4>3 DEF CharAt
      <3>3. CASE i = 8 BY <3>3, <1>1, <1>2, <1>5, <1>6 DEF CharAt
      <3>4. CASE i = 9 /\ mark = 1
        <4>1. close + 1 = Len(text) BY <3>4, <1>1, <1>2
        <4>2. at[i] = close + 1 /\ at[i + 1] = close + 2 BY <3>4, <1>6
        <4>3. sig[i] = text[close + 1] BY <3>4, <1>5
        <4> QED BY <4>1, <4>2, <4>3, <1>2 DEF CharAt
      <3> QED BY <3>1, <3>2, <3>3, <3>4
    <2>2. ASSUME NEW i \in 1 .. last - 1, NEW j \in 1 .. i, Run(sig, j, i)
          PROVE  /\ at[j] <= at[i + 1]
                 /\ \A p \in at[j] .. at[i + 1] - 1 : CharAt(sig, i + 1) # text[p]
      <3>1. \A k \in j .. i : sig[k] = Hole BY <2>2 DEF Run
      <3>2. sig[1] # Hole /\ sig[3] # Hole /\ sig[5] # Hole /\ sig[6] # Hole /\ sig[8] # Hole
            /\ (mark = 1 => sig[9] # Hole)
        <4>1. 1 \in 1 .. Len(text) /\ 3 \in 1 .. Len(text) /\ 5 \in 1 .. Len(text) /\ 6 \in 1 .. Len(text)
              /\ close \in 1 .. Len(text) /\ (mark = 1 => close + 1 \in 1 .. Len(text))
          BY <1>1, <1>2
        <4> QED BY <4>1, <1>3, <1>5
      <3>3. sig[i] = Hole /\ i \in 1 .. 9 /\ (i = 9 => mark = 1) BY <3>1
      <3>4. i \in {2, 4, 7} BY <3>2, <3>3
      <3>5. j = i
        <4>1. sig[i - 1] # Hole BY <3>2, <3>4
        <4> QED BY <4>1, <3>1, <3>4
      <3>6. CASE i \in {2, 4}
        <4>1. at[i] = i /\ at[i + 1] = i + 1
          <5>1. at[2] = 2 /\ at[3] = 3 /\ at[4] = 4 /\ at[5] = 5 BY <1>6
          <5>2. i + 1 \in {3, 5} BY <3>6
          <5> QED BY <5>1, <5>2, <3>6
        <4>2. CharAt(sig, i + 1) = Comma /\ text[i] # Comma
          <5>1. Len(sig) >= 8 /\ sig[3] = Comma /\ sig[5] = Comma BY <1>4, <1>5
          <5> QED BY <5>1, <3>6, <1>4 DEF CharAt
        <4> QED BY <3>5, <3>6, <4>1, <4>2
      <3>8. CASE i = 7
        <4>1. at[j] = 7 /\ at[i + 1] = close /\ CharAt(sig, i + 1) = sig[8]
          <5>1. 8 <= Len(sig) BY <1>5
          <5>2. at[7] = 7 /\ at[8] = close BY <1>6
          <5> QED BY <5>1, <5>2, <3>5, <3>8 DEF CharAt
        <4>2. sig[8] = Bracket BY <1>4, <1>5
        <4> QED BY <4>1, <4>2, <1>1, <1>2
      <3> QED BY <3>4, <3>6, <3>8
    <2> QED BY <2>1, <2>2, <1>6 DEF Placed
  <1>8. last = Len(sig) + 1 BY <1>5
  <1> HIDE DEF last
  <1> QED BY <1>6, <1>7, <1>8 DEF Fits

\* Where the characters of a signature before its end stand, one by one.
LEMMA LetterPlaced ==
  ASSUME NEW sig, NEW at, NEW end, Placed(sig, at, end), NEW i \in 1 .. end - 1, sig[i] # Hole
  PROVE  CharAt(text, at[i]) = sig[i] /\ at[i + 1] = at[i] + 1
  BY DEF Placed

LEMMA HolePlaced ==
  ASSUME NEW sig, NEW at, NEW end \in Nat, Placed(sig, at, end), NEW i \in 1 .. end - 1, sig[i] = Hole
  PROVE  /\ at[i] <= at[i + 1]
         /\ \A p \in at[i] .. at[i + 1] - 1 : CharAt(sig, i + 1) # text[p]
  <1>1. Run(sig, i, i) BY DEF Run
  <1>2. i \in 1 .. i OBVIOUS
  <1> QED BY <1>1, <1>2 DEF Placed

\* A pair that fits has its place on the stack, and the end of the signature.
LEMMA PairFitsOnly ==
  ASSUME text \in Seq(Chars), Aarch64Text(text), text[1] \in Transfers,
         NEW mark \in {0, 1}, NEW sig, IsPair(sig, text[1], mark), Fits(sig)
  PROVE  OnStack(text) /\ (mark = 0 => text[Len(text)] = Bracket)
  <1>1. /\ Len(text) \in Nat /\ Len(text) >= 6
        /\ text[3] = Comma /\ text[5] = Comma /\ text[2] # Comma /\ text[4] # Comma
    BY PairTexts
  <1>2. Len(sig) = 8 + mark /\ Len(sig) \in Nat /\ 1 .. 8 \subseteq 1 .. (Len(sig) + 1) - 1
    BY DEF IsPair
  <1>3. /\ sig[1] # Hole /\ sig[2] = Hole /\ sig[3] # Hole /\ sig[4] = Hole /\ sig[5] # Hole
        /\ sig[8] # Hole
    <2>1. Hole \notin Chars /\ {text[1], Comma, Bracket} \subseteq Chars
      BY <1>1, CharsAssumption, TextsAssumption
    <2> QED BY <2>1 DEF IsPair
  <1>4. PICK at : /\ at \in [1..Len(sig) + 1 -> 1..Len(text) + 1]
                  /\ Placed(sig, at, Len(sig) + 1) /\ at[Len(sig) + 1] = Len(text) + 1
    BY DEF Fits
  <1>5. \A i \in 1 .. 9 : at[i] \in 1 .. Len(text) + 1 BY <1>2, <1>4
  <1>6. \A i \in 1 .. 8 : sig[i] # Hole => CharAt(text, at[i]) = sig[i] /\ at[i + 1] = at[i] + 1
    <2> SUFFICES ASSUME NEW i \in 1 .. 8, sig[i] # Hole
                 PROVE  CharAt(text, at[i]) = sig[i] /\ at[i + 1] = at[i] + 1
      OBVIOUS
    <2>1. i \in 1 .. (Len(sig) + 1) - 1 BY <1>2
    <2>2. Placed(sig, at, Len(sig) + 1) BY <1>4
    <2> QED BY <2>1, <2>2 DEF Placed
  <1>7. \A i \in 1 .. 8 : sig[i] = Hole =>
          /\ at[i] <= at[i + 1]
          /\ \A p \in at[i] .. at[i + 1] - 1 : CharAt(sig, i + 1) # text[p]
    <2>1. Len(sig) + 1 \in Nat BY <1>2
    <2> QED BY <2>1, <1>2, <1>4, HolePlaced
  <1>8. CharAt(sig, 3) = Comma /\ CharAt(sig, 5) = Comma /\ CharAt(sig, 6) = Place /\ sig[8] = Bracket
        /\ sig[3] = Comma /\ sig[5] = Comma /\ sig[6] = Place
    BY <1>2 DEF CharAt, IsPair
  <1>9. at[2] = 2
    <2>1. at[1] = 1 BY <1>4 DEF Placed
    <2> QED BY <2>1, <1>3, <1>6
  <1>10. at[3] = 3 /\ at[4] = 4
    <2>1. CharAt(text, at[3]) = Comma /\ at[4] = at[3] + 1 BY <1>3, <1>6, <1>8
    <2>2. at[3] # 2 BY <2>1, <1>1 DEF CharAt
    <2>3. at[2] <= at[3] /\ \A p \in at[2] .. at[3] - 1 : Comma # text[p]
      BY <1>3, <1>7, <1>8
    <2>4. at[3] \in 1 .. Len(text) + 1 BY <1>5
    <2> QED BY <2>1, <2>2, <2>3, <2>4, <1>1, <1>9
  <1>11. at[5] = 5 /\ at[6] = 6
    <2>1. CharAt(text, at[5]) = Comma /\ at[6] = at[5] + 1 BY <1>3, <1>6, <1>8
    <2>2. at[5] # 4 BY <2>1, <1>1 DEF CharAt
    <2>3. at[4] <= at[5] /\ \A p \in at[4] .. at[5] - 1 : Comma # text[p]
      BY <1>3, <1>7, <1>8
    <2>4. at[5] \in 1 .. Len(text) + 1 BY <1>5
    <2> QED BY <2>1, <2>2, <2>3, <2>4, <1>1, <1>10
  <1>12. text[6] = Place
    <2>1. sig[6] # Hole BY <1>8, CharsAssumption, TextsAssumption
    <2>2. CharAt(text, at[6]) = Place BY <2>1, <1>6, <1>8
    <2> QED BY <2>2, <1>1, <1>11 DEF CharAt
  <1>13. ASSUME mark = 0 PROVE text[Len(text)] = Bracket
    <2>1. at[9] = Len(text) + 1 BY <1>13, <1>2, <1>4
    <2>2. CharAt(text, at[8]) = Bracket /\ at[9] = at[8] + 1 BY <1>3, <1>6, <1>8
    <2>3. at[8] \in 1 .. Len(text) + 1 BY <1>5
    <2>4. at[8] = Len(text) BY <2>1, <2>2, <2>3, <1>1
    <2> QED BY <2>2, <2>4, <1>1 DEF CharAt
  <1> QED BY <1>1, <1>12, <1>13 DEF OnStack

\* The characters of two strings put together.
LEMMA Joined ==
  ASSUME NEW set, NEW a \in Seq(set), NEW b \in Seq(set)
  PROVE  /\ a \o b \in Seq(set) /\ Len(a \o b) = Len(a) + Len(b)
         /\ Len(a) \in Nat /\ Len(b) \in Nat
         /\ \A i \in 1 .. Len(a) : (a \o b)[i] = a[i]
         /\ \A i \in Len(a) + 1 .. Len(a) + Len(b) : (a \o b)[i] = b[i - Len(a)]
  OBVIOUS

(* A list of registers begins with its opcode and "r".                       *)
Begins(sig, opcode) ==
  /\ sig \in Seq(Symbols) /\ Len(sig) >= 2
  /\ sig[1] = opcode /\ sig[2] = "r"

\* The parts of a register list, put together.
LEMMA RegisterListParts ==
  ASSUME NEW opcode \in Symbols, NEW count \in 1 .. 5, NEW rest \in Seq(Symbols)
  PROVE  /\ Begins(RegisterList(opcode, count, rest), opcode)
         /\ Len(RegisterList(opcode, count, rest)) = 4 * count + 1 + Len(rest)
         /\ count = 1 /\ rest = <<>> =>
               /\ RegisterList(opcode, count, rest)[3] = Hole
               /\ RegisterList(opcode, count, rest)[4] = Hole
               /\ RegisterList(opcode, count, rest)[5] = Brace
  <1> DEFINE Item(k) == CASE k % 4 = 1 -> "r" [] k % 4 = 0 -> Comma [] OTHER -> Hole
  <1> DEFINE items == [k \in 1 .. 4 * count - 1 |-> Item(k)]
  <1>1. "r" \in Symbols /\ Comma \in Symbols /\ Hole \in Symbols /\ Brace \in Symbols
    BY TextsAssumption DEF Symbols
  <1>2. \A k \in 1 .. 4 * count - 1 : Item(k) \in Symbols BY <1>1
  <1>3. Item(1) = "r" /\ Item(2) = Hole /\ Item(3) = Hole OBVIOUS
  <1> HIDE DEF Item
  <1>4. items \in Seq(Symbols) /\ Len(items) = 4 * count - 1 BY <1>2
  <1>5. items[1] = "r" /\ items[2] = Hole /\ items[3] = Hole BY <1>3
  <1> HIDE DEF items
  <1> DEFINE start == <<opcode>>
  <1> DEFINE end == <<Brace>>
  <1>6. start \in Seq(Symbols) /\ Len(start) = 1 /\ start[1] = opcode BY <1>1
  <1>7. end \in Seq(Symbols) /\ Len(end) = 1 /\ end[1] = Brace BY <1>1
  <1> HIDE DEF start, end
  <1>8. RegisterList(opcode, count, rest) = ((start \o items) \o rest) \o end
    BY Zenon DEF RegisterList, items, Item, start, end
  <1>9. /\ start \o items \in Seq(Symbols) /\ Len(start \o items) = 4 * count
        /\ (start \o items)[1] = opcode /\ (start \o items)[2] = "r"
        /\ (start \o items)[3] = Hole /\ (start \o items)[4] = Hole
    <2>1. /\ start \o items \in Seq(Symbols) /\ Len(start \o items) = 1 + Len(items)
          /\ (start \o items)[1] = start[1]
          /\ \A i \in 2 .. 1 + Len(items) : (start \o items)[i] = items[i - 1]
      <3>1. /\ start \o items \in Seq(Symbols) /\ Len(start \o items) = Len(start) + Len(items)
            /\ \A i \in 1 .. Len(start) : (start \o items)[i] = start[i]
            /\ \A i \in Len(start) + 1 .. Len(start) + Len(items) : (start \o items)[i] = items[i - Len(start)]
        BY <1>4, <1>6, Joined, Zenon
      <3> QED BY <3>1, <1>4, <1>6
    <2>2. 2 \in 2 .. 1 + Len(items) /\ 3 \in 2 .. 1 + Len(items) /\ 4 \in 2 .. 1 + Len(items)
          /\ 1 + Len(items) = 4 * count
      BY <1>4
    <2>3. 2 - 1 = 1 /\ 3 - 1 = 2 /\ 4 - 1 = 3 OBVIOUS
    <2>4. (start \o items)[2] = items[1] /\ (start \o items)[3] = items[2] /\ (start \o items)[4] = items[3]
      BY <2>1, <2>2, <2>3
    <2> QED BY <2>1, <2>2, <2>4, <1>5, <1>6
  <1> DEFINE most == (start \o items) \o rest
  <1>10. /\ most \in Seq(Symbols) /\ Len(most) = 4 * count + Len(rest) /\ Len(rest) \in Nat
         /\ most[1] = opcode /\ most[2] = "r" /\ most[3] = Hole /\ most[4] = Hole
    BY <1>9
  <1> HIDE DEF most
  <1>11. /\ most \o end \in Seq(Symbols) /\ Len(most \o end) = 4 * count + Len(rest) + 1
         /\ (most \o end)[1] = opcode /\ (most \o end)[2] = "r"
         /\ (most \o end)[3] = Hole /\ (most \o end)[4] = Hole
         /\ Len(most) = 4 => (most \o end)[5] = Brace
    <2>1. /\ most \o end \in Seq(Symbols) /\ Len(most \o end) = Len(most) + 1
          /\ \A i \in 1 .. Len(most) : (most \o end)[i] = most[i]
          /\ \A i \in Len(most) + 1 .. Len(most) + 1 : (most \o end)[i] = end[i - Len(most)]
      <3>1. /\ most \o end \in Seq(Symbols) /\ Len(most \o end) = Len(most) + Len(end)
            /\ \A i \in 1 .. Len(most) : (most \o end)[i] = most[i]
            /\ \A i \in Len(most) + 1 .. Len(most) + Len(end) : (most \o end)[i] = end[i - Len(most)]
        <4>1. most \in Seq(Symbols) /\ end \in Seq(Symbols) BY <1>7, <1>10
        <4> QED BY <4>1, Joined, Zenon
      <3> QED BY <3>1, <1>7, <1>10
    <2>2. {1, 2, 3, 4} \subseteq 1 .. Len(most) BY <1>10
    <2>3. (most \o end)[1] = most[1] /\ (most \o end)[2] = most[2]
          /\ (most \o end)[3] = most[3] /\ (most \o end)[4] = most[4]
      BY <2>1, <2>2
    <2>4. Len(most) = 4 => (most \o end)[5] = Brace BY <2>1, <1>7
    <2> QED BY <2>1, <2>3, <2>4, <1>10
  <1>12. RegisterList(opcode, count, rest) = most \o end BY <1>8 DEF most
  <1>13. count = 1 /\ rest = <<>> => Len(most) = 4 BY <1>10
  <1> QED BY <1>10, <1>11, <1>12, <1>13 DEF Begins

\* The lists of one opcode: all begin with it, and the first is the shortest.
LEMMA RegisterListsParts ==
  ASSUME NEW opcode \in Symbols, NEW last \in Symbols, NEW sigs,
         \/ sigs = RegisterLists(opcode, last)
         \/ sigs = WithComma(RegisterLists(opcode, last), opcode)
  PROVE  /\ sigs \in Seq(Seq(Symbols)) /\ Len(sigs) = 8
         /\ \A i \in 1 .. 8 : Begins(sigs[i], opcode)
         /\ sigs[1] = RegisterList(opcode, 1, <<>>)
  <1>1. \A count \in 1 .. 5, rest \in Seq(Symbols) :
          /\ RegisterList(opcode, count, rest) \in Seq(Symbols)
          /\ Begins(RegisterList(opcode, count, rest), opcode)
    BY RegisterListParts DEF Begins
  <1>2. <<>> \in Seq(Symbols) /\ <<Comma, last>> \in Seq(Symbols) /\ <<Comma>> \in Seq(Symbols)
    BY TextsAssumption DEF Symbols
  <1> DEFINE ListAt(k) == RegisterList(opcode, (k + 1) \div 2, IF k % 2 = 1 THEN <<>> ELSE <<Comma, last>>)
  <1>3. \A k \in 1 .. 8 : ListAt(k) \in Seq(Symbols) /\ Begins(ListAt(k), opcode)
    <2> TAKE k \in 1 .. 8
    <2>1. (k + 1) \div 2 \in 1 .. 5 OBVIOUS
    <2>2. (IF k % 2 = 1 THEN <<>> ELSE <<Comma, last>>) \in Seq(Symbols) BY <1>2
    <2> QED BY <2>1, <2>2, <1>1
  <1>4. ListAt(1) = RegisterList(opcode, 1, <<>>)
    <2>1. (1 + 1) \div 2 = 1 /\ 1 % 2 = 1 OBVIOUS
    <2> QED BY <2>1
  <1> HIDE DEF ListAt
  <1> DEFINE plain == [k \in 1 .. 8 |-> ListAt(k)]
  <1>5. RegisterLists(opcode, last) = plain BY Zenon DEF RegisterLists, ListAt
  <1>6. CASE sigs = RegisterLists(opcode, last)
    <2>1. sigs \in Seq(Seq(Symbols)) /\ Len(sigs) = 8 BY <1>3, <1>5, <1>6
    <2>2. \A i \in 1 .. 8 : sigs[i] = ListAt(i) BY <1>5, <1>6
    <2> QED BY <2>1, <2>2, <1>3, <1>4
  <1>7. CASE sigs = WithComma(RegisterLists(opcode, last), opcode)
    <2> DEFINE odd == RegisterList(opcode, 2, <<Comma>>)
    <2>1. odd \in Seq(Symbols) /\ Begins(odd, opcode)
      <3>1. 2 \in 1 .. 5 OBVIOUS
      <3> QED BY <3>1, <1>1, <1>2
    <2>2. sigs = [plain EXCEPT ![3] = odd] BY <1>5, <1>7 DEF WithComma
    <2> HIDE DEF odd
    <2>3. sigs = [k \in 1 .. 8 |-> IF k = 3 THEN odd ELSE ListAt(k)] BY <2>2
    <2>4. sigs \in Seq(Seq(Symbols)) /\ Len(sigs) = 8 BY <1>3, <2>1, <2>3
    <2>5. \A i \in 1 .. 8 : sigs[i] = IF i = 3 THEN odd ELSE ListAt(i) BY <2>3
    <2> QED BY <2>1, <2>4, <2>5, <1>3, <1>4
  <1> QED BY <1>6, <1>7

(* The signatures of one side of armhf.                                      *)
Side(a, b, last, adjust) ==
  RegisterLists(a, last) \o <<RegisterList(a, 5, <<>>), <<adjust, Hole>>>>
    \o WithComma(RegisterLists(b, last), b)

\* A list of registers of this opcode is told by its first register, and an
\* adjustment of the stack by its opcode.
LEMMA ArmhfSide ==
  ASSUME text \in Seq(Chars), text # <<>>,
         NEW a \in Chars, NEW b \in Chars, NEW last \in Chars, NEW adjust \in Chars,
         a # Brace, b # Brace,
         text[1] \in {a, b} => \A i \in 1 .. Len(text) : text[i] = Brace <=> i = Len(text)
  PROVE  SomeFits(Side(a, b, last, adjust)) <=> text[1] = adjust \/ (text[1] \in {a, b} /\ text[2] = "r")
  <1> DEFINE sigs == Side(a, b, last, adjust)
  <1> DEFINE first == RegisterLists(a, last)
  <1> DEFINE long == RegisterList(a, 5, <<>>)
  <1> DEFINE plain == <<adjust, Hole>>
  <1> DEFINE middle == <<long, plain>>
  <1> DEFINE second == WithComma(RegisterLists(b, last), b)
  <1>1. /\ Hole \in Symbols /\ adjust \in Symbols /\ a \in Symbols /\ b \in Symbols /\ last \in Symbols
        /\ "r" \in Chars /\ Brace \in Chars /\ Hole \notin Chars
    BY CharsAssumption, TextsAssumption DEF Symbols
  <1>2. /\ first \in Seq(Seq(Symbols)) /\ Len(first) = 8
        /\ \A i \in 1 .. 8 : Begins(first[i], a)
        /\ first[1] = RegisterList(a, 1, <<>>)
    BY <1>1, RegisterListsParts
  <1>3. /\ second \in Seq(Seq(Symbols)) /\ Len(second) = 8
        /\ \A i \in 1 .. 8 : Begins(second[i], b)
        /\ second[1] = RegisterList(b, 1, <<>>)
    BY <1>1, RegisterListsParts
  <1>4. long \in Seq(Symbols) /\ Begins(long, a)
    <2>1. <<>> \in Seq(Symbols) /\ 5 \in 1 .. 5 OBVIOUS
    <2>2. Begins(long, a) BY <1>1, <2>1, RegisterListParts
    <2> HIDE DEF long
    <2> QED BY <2>2 DEF Begins
  <1>5. plain \in Seq(Symbols) /\ Len(plain) = 2 /\ plain[1] = adjust /\ plain[2] = Hole BY <1>1
  <1>6. sigs = (first \o middle) \o second BY DEF Side
  <1> HIDE DEF sigs, first, long, plain, second
  <1>7. middle \in Seq(Seq(Symbols)) /\ Len(middle) = 2 /\ middle[1] = long /\ middle[2] = plain
    BY <1>4, <1>5
  <1> HIDE DEF middle
  <1> DEFINE front == first \o middle
  <1>8. /\ front \in Seq(Seq(Symbols)) /\ Len(front) = 10
        /\ \A i \in 1 .. 8 : front[i] = first[i]
        /\ front[9] = long /\ front[10] = plain
    <2>1. /\ front \in Seq(Seq(Symbols)) /\ Len(front) = Len(first) + Len(middle)
          /\ \A i \in 1 .. Len(first) : front[i] = first[i]
          /\ \A i \in Len(first) + 1 .. Len(first) + Len(middle) : front[i] = middle[i - Len(first)]
      <3>1. first \in Seq(Seq(Symbols)) /\ middle \in Seq(Seq(Symbols)) BY <1>2, <1>7
      <3> QED BY <3>1, Joined
    <2> HIDE DEF front
    <2>2. 9 \in 9 .. 10 /\ 10 \in 9 .. 10 /\ 9 - 8 = 1 /\ 10 - 8 = 2 /\ 8 + 1 = 9 /\ 8 + 2 = 10 OBVIOUS
    <2> QED BY <2>1, <2>2, <1>2, <1>7
  <1>9. /\ Len(sigs) = 18
        /\ \A i \in 1 .. 10 : sigs[i] = front[i]
        /\ \A i \in 11 .. 18 : sigs[i] = second[i - 10]
    <2>0. sigs = front \o second BY <1>6
    <2> HIDE DEF front
    <2>1. /\ Len(sigs) = Len(front) + Len(second)
          /\ \A i \in 1 .. Len(front) : sigs[i] = front[i]
          /\ \A i \in Len(front) + 1 .. Len(front) + Len(second) : sigs[i] = second[i - Len(front)]
      <3>1. front \in Seq(Seq(Symbols)) /\ second \in Seq(Seq(Symbols)) BY <1>3, <1>8
      <3> DEFINE both == front \o second
      <3>2. /\ Len(both) = Len(front) + Len(second)
            /\ \A i \in 1 .. Len(front) : both[i] = front[i]
            /\ \A i \in Len(front) + 1 .. Len(front) + Len(second) : both[i] = second[i - Len(front)]
        BY <3>1, Joined
      <3> HIDE DEF both
      <3> QED BY <2>0, <3>2 DEF both
    <2>2. 10 + 1 = 11 /\ 10 + 8 = 18 OBVIOUS
    <2> QED BY <2>1, <2>2, <1>3, <1>8
  <1> HIDE DEF front
  <1>10. /\ \A i \in 1 .. 8 : sigs[i] = first[i]
         /\ sigs[9] = long /\ sigs[10] = plain
    <2>1. 9 \in 1 .. 10 /\ 10 \in 1 .. 10 /\ 1 .. 8 \subseteq 1 .. 10 OBVIOUS
    <2> QED BY <2>1, <1>8, <1>9
  <1>11. \A i \in 1 .. 18 : Begins(sigs[i], a) \/ Begins(sigs[i], b) \/ sigs[i] = plain
    <2> TAKE i \in 1 .. 18
    <2>1. CASE i \in 1 .. 8 BY <2>1, <1>2, <1>10
    <2>2. CASE i = 9 BY <2>2, <1>4, <1>10
    <2>3. CASE i = 10 BY <2>3, <1>10
    <2>4. CASE i \in 11 .. 18
      <3>1. i - 10 \in 1 .. 8 BY <2>4
      <3> QED BY <3>1, <2>4, <1>3, <1>9
    <2>5. i \in 1 .. 8 \/ i = 9 \/ i = 10 \/ i \in 11 .. 18 OBVIOUS
    <2> QED BY <2>1, <2>2, <2>3, <2>4, <2>5
  <1>12. ASSUME NEW op \in {a, b}, text[1] = op, text[2] = "r", NEW sig,
                sig = RegisterList(op, 1, <<>>)
         PROVE  Fits(sig)
    <2>1. op \in Symbols /\ <<>> \in Seq(Symbols) /\ Len(<<>>) = 0 /\ 1 \in 1 .. 5 BY <1>1
    <2>2. /\ Begins(sig, op) /\ Len(sig) = 4 * 1 + 1 + Len(<<>>)
          /\ sig[3] = Hole /\ sig[4] = Hole /\ sig[5] = Brace
      BY <1>12, <2>1, RegisterListParts, Zenon
    <2>3. Len(sig) = 5 BY <2>2, <2>1
    <2>4. \A i \in 1 .. Len(text) : text[i] = Brace <=> i = Len(text) BY <1>12
    <2>5. Len(text) >= 3
      <3>1. "r" # Brace BY Zenon DEF Brace
      <3>2. Len(text) \in Nat /\ Len(text) >= 1 OBVIOUS
      <3>3. text[1] # Brace BY <1>12
      <3> QED BY <3>1, <3>2, <3>3, <2>4, <1>12
    <2> QED BY <2>2, <2>3, <2>4, <2>5, <1>12, ListFits DEF Begins
  <1>13. ASSUME text[1] = adjust \/ (text[1] \in {a, b} /\ text[2] = "r") PROVE SomeFits(sigs)
    <2>1. CASE text[1] = adjust
      <3>1. Fits(plain) BY <2>1, <1>5, PrefixFits
      <3>2. 10 \in 1 .. Len(sigs) /\ sigs[10] = plain BY <1>9, <1>10
      <3> QED BY <3>1, <3>2 DEF SomeFits
    <2>2. CASE text[1] = a /\ text[2] = "r"
      <3>1. Fits(first[1]) BY <2>2, <1>2, <1>12
      <3>2. 1 \in 1 .. Len(sigs) /\ sigs[1] = first[1] BY <1>9, <1>10
      <3> QED BY <3>1, <3>2 DEF SomeFits
    <2>3. CASE text[1] = b /\ text[2] = "r"
      <3>1. Fits(second[1]) BY <2>3, <1>3, <1>12
      <3>2. 11 \in 1 .. Len(sigs) /\ sigs[11] = second[1]
        <4>1. 11 \in 11 .. 18 /\ 11 - 10 = 1 OBVIOUS
        <4> QED BY <4>1, <1>9
      <3> QED BY <3>1, <3>2 DEF SomeFits
    <2> QED BY <2>1, <2>2, <2>3, <1>13
  <1>14. ASSUME SomeFits(sigs) PROVE text[1] = adjust \/ (text[1] \in {a, b} /\ text[2] = "r")
    <2>1. PICK i \in 1 .. 18 : Fits(sigs[i]) BY <1>9, <1>14 DEF SomeFits
    <2>2. CASE sigs[i] = plain
      <3>1. Fits(plain) /\ plain[1] # Hole BY <2>1, <2>2, <1>1, <1>5
      <3> QED BY <3>1, <1>5, FitsStart
    <2>3. ASSUME NEW op \in {a, b}, Begins(sigs[i], op) PROVE text[1] = op /\ text[2] = "r"
      <3> DEFINE sig == sigs[i]
      <3>1. /\ sig \in Seq(Symbols) /\ Len(sig) >= 2 /\ sig[1] = op /\ sig[2] = "r"
            /\ sig[1] # Hole /\ sig[2] # Hole /\ Fits(sig)
        BY <2>1, <2>3, <1>1 DEF Begins
      <3> HIDE DEF sig
      <3>2. Len(sig) >= 1 BY <3>1
      <3> QED BY <3>1, <3>2, FitsStart
    <2> QED BY <2>2, <2>3, <1>11
  <1> QED BY <1>13, <1>14 DEF sigs

\* What the lists of armhf decide.
LEMMA ArmhfDecides ==
  ASSUME text \in Seq(Chars), ArmhfText(text)
  PROVE  /\ SomeFits(Armhf.prologues) <=> text[1] = GrowStack \/ (text[1] \in Opening /\ text[2] = "r")
         /\ SomeFits(Armhf.epilogues) <=> text[1] = ShrinkStack \/ (text[1] \in Closing /\ text[2] = "r")
  <1>1. /\ Push # Brace /\ StoreDown # Brace /\ Pop # Brace /\ LoadUp # Brace
    BY Zenon DEF Push, StoreDown, Pop, LoadUp, Brace
  <1>2. {Push, StoreDown, Pop, LoadUp, GrowStack, ShrinkStack, "lr", "pc"} \subseteq Chars
    BY TextsAssumption DEF Opening, Closing
  <1>3. text # <<>> /\ (text[1] \in {Push, StoreDown, Pop, LoadUp} =>
          \A i \in 1 .. Len(text) : text[i] = Brace <=> i = Len(text))
    BY DEF ArmhfText, Opening, Closing
  <1>4. SomeFits(Armhf.prologues) <=> text[1] = GrowStack \/ (text[1] \in {Push, StoreDown} /\ text[2] = "r")
    <2>1. Armhf.prologues = Side(Push, StoreDown, "lr", GrowStack) BY Zenon DEF Armhf, Side
    <2>2. text[1] \in {Push, StoreDown} => \A i \in 1 .. Len(text) : text[i] = Brace <=> i = Len(text)
      BY <1>3
    <2>3. text # <<>> /\ Push # Brace /\ StoreDown # Brace BY <1>1, <1>3
    <2>4. Push \in Chars /\ StoreDown \in Chars /\ "lr" \in Chars /\ GrowStack \in Chars BY <1>2
    <2> QED BY <2>1, <2>2, <2>3, <2>4, ArmhfSide
  <1>5. SomeFits(Armhf.epilogues) <=> text[1] = ShrinkStack \/ (text[1] \in {Pop, LoadUp} /\ text[2] = "r")
    <2>1. Armhf.epilogues = Side(Pop, LoadUp, "pc", ShrinkStack) BY Zenon DEF Armhf, Side
    <2>2. text[1] \in {Pop, LoadUp} => \A i \in 1 .. Len(text) : text[i] = Brace <=> i = Len(text)
      BY <1>3
    <2>3. text # <<>> /\ Pop # Brace /\ LoadUp # Brace BY <1>1, <1>3
    <2>4. Pop \in Chars /\ LoadUp \in Chars /\ "pc" \in Chars /\ ShrinkStack \in Chars BY <1>2
    <2> QED BY <2>1, <2>2, <2>3, <2>4, ArmhfSide
  <1> QED BY <1>4, <1>5 DEF Opening, Closing

\* What the lists of aarch64 decide.
LEMMA Aarch64Decides ==
  ASSUME text \in Seq(Chars), Aarch64Text(text)
  PROVE  /\ SomeFits(Aarch64.prologues) <=>
               \/ text[1] \in {GrowStack, "paciasp"}
               \/ text[1] = "stp" /\ OnStack(text)
         /\ SomeFits(Aarch64.epilogues) <=>
               \/ text[1] \in {ShrinkStack, "autiasp"}
               \/ text[1] = "ldp" /\ OnStack(text) /\ text[Len(text)] # WriteBack
  <1>1. /\ {GrowStack, ShrinkStack, "paciasp", "autiasp", "stp", "ldp"} \subseteq Chars
        /\ Hole \notin Chars /\ "stp" \in Transfers /\ "ldp" \in Transfers
    BY CharsAssumption, TextsAssumption DEF Transfers
  <1>2. text # <<>> /\ Len(text) \in Nat /\ Len(text) >= 1 BY DEF Aarch64Text
  <1>3. ASSUME NEW word \in Chars
        PROVE  Fits(<<word, Hole>>) <=> text[1] = word
    <2> DEFINE sig == <<word, Hole>>
    <2>1. sig \in Seq(Symbols) /\ Len(sig) = 2 /\ sig[1] = word /\ sig[2] = Hole BY DEF Symbols
    <2>2. sig[1] # Hole /\ Len(sig) >= 1 BY <1>1, <2>1
    <2> HIDE DEF sig
    <2>3. text[1] = word => Fits(sig) BY <1>2, <2>1, PrefixFits
    <2>4. Fits(sig) => text[1] = word BY <1>2, <2>1, <2>2, FitsStart
    <2> QED BY <2>3, <2>4 DEF sig
  <1>4. ASSUME NEW word \in {"paciasp", "autiasp"}
        PROVE  Fits(<<word>>) <=> text[1] = word
    <2> DEFINE sig == <<word>>
    <2>1. word \in Chars BY <1>1
    <2>2. sig \in Seq(Symbols) /\ Len(sig) = 1 /\ sig[1] = word BY <2>1 DEF Symbols
    <2>3. sig[1] # Hole /\ Len(sig) >= 1 BY <1>1, <2>1, <2>2
    <2> HIDE DEF sig
    <2>4. text[1] = word => Len(text) = 1 BY DEF Aarch64Text
    <2>5. text[1] = word => Fits(sig) BY <2>2, <2>4, WordFits
    <2>6. Fits(sig) => text[1] = word BY <1>2, <2>2, <2>3, FitsStart
    <2> QED BY <2>5, <2>6 DEF sig
  <1>5. ASSUME NEW op \in Transfers, NEW mark \in {0, 1}, NEW sig, IsPair(sig, op, mark), Fits(sig)
        PROVE  text[1] = op /\ OnStack(text) /\ (mark = 0 => text[Len(text)] = Bracket)
    <2>1. /\ sig \in Seq(Symbols) /\ Len(sig) >= 1 /\ sig[1] = op /\ sig[1] # Hole
      BY <1>1, <1>5, TextsAssumption DEF IsPair
    <2>2. text[1] = op BY <1>2, <1>5, <2>1, FitsStart
    <2> QED BY <1>5, <2>2, PairFitsOnly
  <1>6. ASSUME NEW op \in Transfers, NEW mark \in {0, 1}, NEW sig, IsPair(sig, op, mark),
               text[1] = op, OnStack(text), ClosedAt(text, Len(text) - mark),
               mark = 1 => text[Len(text)] = WriteBack
        PROVE  Fits(sig)
    BY <1>6, PairFits
  <1>7. text[1] \in Transfers /\ OnStack(text) =>
          \/ ClosedAt(text, Len(text) - 0) /\ text[Len(text)] = Bracket
          \/ ClosedAt(text, Len(text) - 1) /\ text[Len(text)] = WriteBack
    <2>1. Len(text) - 0 = Len(text) BY <1>2
    <2>2. ClosedAt(text, Len(text)) => text[Len(text)] = Bracket BY <1>2 DEF ClosedAt
    <2> QED BY <2>1, <2>2 DEF Aarch64Text
  <1>8. Bracket # WriteBack BY Zenon DEF Bracket, WriteBack
  <1>9. SomeFits(Aarch64.prologues) <=> \/ text[1] \in {GrowStack, "paciasp"}
                                        \/ text[1] = "stp" /\ OnStack(text)
    <2> DEFINE plain == Pair("stp", <<Bracket>>)
    <2> DEFINE back == Pair("stp", <<Bracket, WriteBack>>)
    <2>1. IsPair(plain, "stp", 0) /\ IsPair(back, "stp", 1) BY <1>1, Pairs
    <2>2. Aarch64.prologues = <<<<GrowStack, Hole>>, plain, back, <<"paciasp">>>> BY DEF Aarch64
    <2> HIDE DEF plain, back
    <2>3. SomeFits(Aarch64.prologues) <=>
            Fits(<<GrowStack, Hole>>) \/ Fits(plain) \/ Fits(back) \/ Fits(<<"paciasp">>)
      BY <2>2 DEF SomeFits
    <2>4. (Fits(<<GrowStack, Hole>>) <=> text[1] = GrowStack) /\ (Fits(<<"paciasp">>) <=> text[1] = "paciasp")
      BY <1>1, <1>3, <1>4
    <2>5. Fits(plain) => text[1] = "stp" /\ OnStack(text) BY <1>1, <1>5, <2>1
    <2>6. Fits(back) => text[1] = "stp" /\ OnStack(text) BY <1>1, <1>5, <2>1
    <2>7. text[1] = "stp" /\ OnStack(text) => Fits(plain) \/ Fits(back) BY <1>1, <1>6, <1>7, <2>1
    <2> QED BY <2>3, <2>4, <2>5, <2>6, <2>7
  <1>10. SomeFits(Aarch64.epilogues) <=>
           \/ text[1] \in {ShrinkStack, "autiasp"}
           \/ text[1] = "ldp" /\ OnStack(text) /\ text[Len(text)] # WriteBack
    <2> DEFINE plain == Pair("ldp", <<Bracket>>)
    <2>1. IsPair(plain, "ldp", 0) BY <1>1, Pairs
    <2>2. Aarch64.epilogues = <<<<ShrinkStack, Hole>>, plain, <<"autiasp">>>> BY DEF Aarch64
    <2> HIDE DEF plain
    <2>3. SomeFits(Aarch64.epilogues) <=>
            Fits(<<ShrinkStack, Hole>>) \/ Fits(plain) \/ Fits(<<"autiasp">>)
      BY <2>2 DEF SomeFits
    <2>4. (Fits(<<ShrinkStack, Hole>>) <=> text[1] = ShrinkStack) /\ (Fits(<<"autiasp">>) <=> text[1] = "autiasp")
      BY <1>1, <1>3, <1>4
    <2>5. Fits(plain) => text[1] = "ldp" /\ OnStack(text) /\ text[Len(text)] = Bracket BY <1>1, <1>5, <2>1
    <2>6. text[1] = "ldp" /\ OnStack(text) /\ text[Len(text)] # WriteBack => Fits(plain)
      BY <1>1, <1>6, <1>7, <2>1
    <2> QED BY <2>3, <2>4, <2>5, <2>6, <1>8
  <1> QED BY <1>9, <1>10

(* The lists and the text are those of one check.                            *)
OneCheck == \E check \in Checks : lists = check.lists /\ text = check.text

LEMMA OneCheckInvariant == Spec => []OneCheck
  <1>1. Init => OneCheck BY DEF Init, OneCheck
  <1>2. OneCheck /\ [Next]_vars => OneCheck'
    <2> SUFFICES ASSUME OneCheck, [Next]_vars PROVE OneCheck' OBVIOUS
    <2>1. UNCHANGED <<lists, text>>
      BY DEF Next, vars, Format, FormatFails, SkipHole, Literal, Differ, EndOfString, Matches, Mismatches
    <2> QED BY <2>1 DEF OneCheck
  <1> QED BY <1>1, <1>2, PTL DEF Spec

LEMMA ClassifiedDecides ==
  ASSUME SigTypeOK, OneCheck, Classified
  PROVE  ListsDecide
  <1>1. text \in Seq(Chars) BY DEF SigTypeOK
  <1>2. ASSUME stage \in Verdicts, lists = Armhf PROVE stage = ArmhfVerdict
    <2>1. ArmhfText(text) BY <1>2, TextsAssumption DEF OneCheck
    <2>2. stage = IF SomeFits(Armhf.prologues) THEN "prologue"
                  ELSE IF SomeFits(Armhf.epilogues) THEN "epilogue" ELSE "unrecognized"
      BY <1>2 DEF Classified
    <2> QED BY <2>2, <1>1, <2>1, ArmhfDecides DEF ArmhfVerdict
  <1>3. ASSUME stage \in Verdicts, lists = Aarch64 PROVE stage = Aarch64Verdict
    <2>1. Aarch64Text(text) BY <1>3, TextsAssumption DEF OneCheck
    <2>2. stage = IF SomeFits(Aarch64.prologues) THEN "prologue"
                  ELSE IF SomeFits(Aarch64.epilogues) THEN "epilogue" ELSE "unrecognized"
      BY <1>3 DEF Classified
    <2> QED BY <2>2, <1>1, <2>1, Aarch64Decides DEF Aarch64Verdict
  <1> QED BY <1>2, <1>3 DEF ListsDecide

\* The 36 signatures of armhf and the seven of aarch64 tell no more of an
\* instruction than its opcode, the first register of a list and the place of
\* a pair, however many registers and whatever numbers it names.
THEOREM ListsAreDecisive == Spec => []ListsDecide
  <1>1. SigTypeOK /\ Compared /\ OneCheck => ListsDecide
    BY ComparedClassifies, ClassifiedDecides
  <1> QED BY <1>1, SignatureInvariant, OneCheckInvariant, PTL
----------------------------------------------------------------------------
(* The step ends the check, turns to the next signature, begins to compare   *)
(* the one it is at, or goes on in it.                                       *)
Onward ==
    \/ stage' \in Verdicts \cup {"crashed"}
    \/ stage' = "format" /\ n' = n + 1
    \/ stage = "format" /\ stage' = "compare" /\ n' = n
    \/ stage = "compare" /\ stage' = "compare" /\ n' = n /\ s' > s

\* The nested loops cannot go round for ever, whatever the lists and the text:
\* a step goes on through the lists or, in one signature, towards its end, and
\* SignatureTypes has the ends of both. After an answer there is no step.
THEOREM ComparisonsGoOnward == Spec => [][Onward /\ stage \in {"format", "compare"}]_vars
  <1>1. SigTypeOK /\ Compared /\ [Next]_vars => [Onward /\ stage \in {"format", "compare"}]_vars
    <2> SUFFICES ASSUME SigTypeOK, Compared, Next PROVE stage \in {"format", "compare"} /\ Onward
      OBVIOUS
    <2>1. CASE Format BY <2>1 DEF Format, Onward
    <2>2. CASE FormatFails BY <2>2 DEF FormatFails, Onward
    <2>3. ASSUME Matches \/ Mismatches PROVE Onward
      BY <2>3 DEF Matches, Mismatches, Onward, Verdicts
    <2>4. CASE Literal
      <3>1. stage = "compare" /\ s' = s + 1 /\ n' = n /\ stage' = stage
        BY <2>4 DEF Literal, Comparing
      <3>2. s \in Nat BY DEF SigTypeOK
      <3> QED BY <3>1, <3>2 DEF Onward
    <2>5. CASE Differ BY <2>3, <2>5 DEF Differ, Comparing
    <2>6. CASE EndOfString BY <2>3, <2>6 DEF EndOfString
    <2>7. CASE SkipHole
      <3>1. stage = "compare" /\ Comparing /\ signature[s] = Hole /\ s' = NextAfter(signature, s, Chars)
        BY <2>7 DEF SkipHole, Comparing, AfterHoles
      <3>2. /\ s \in 1 .. Len(signature) /\ s \in 1 .. Len(signature) + 1 /\ Len(signature) \in Nat
        BY <3>1, Comparison, BothLast
      <3>3. /\ s' \in s .. Len(signature) + 1
            /\ s' <= Len(signature) => signature[s'] \in Chars
        BY <3>1, <3>2, Comparison, HolesSkipped
      <3>4. s' # s BY <3>1, <3>2, <3>3, CharsAssumption
      <3>5. s' > s BY <3>2, <3>3, <3>4
      <3>6. Matches \/ Mismatches \/ UNCHANGED <<lists, text, n, stage>>
        BY <2>7 DEF SkipHole
      <3> QED BY <2>3, <3>1, <3>5, <3>6 DEF Onward
    <2> QED BY <2>1, <2>2, <2>4, <2>5, <2>6, <2>7 DEF Next
  <1> QED BY <1>1, SignatureInvariant, PTL DEF Spec
=============================================================================
