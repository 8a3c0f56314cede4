---------------------------- MODULE SweepProofs ----------------------------
(***************************************************************************)
(* What MissExplained and ForeignExplained say of the guessed end of a     *)
(* function holds for every code, every size of instructions and every     *)
(* MaxSize.                                                                *)
(***************************************************************************)
EXTENDS Sweep, WellFoundedInduction, TLAPS

\* Every set of natural numbers but the empty one has a least element: what
\* is known of `<' as a well-founded relation, for one set.
LEMMA NatMin ==
  ASSUME NEW set \in SUBSET Nat, set # {}
  PROVE  \E least \in set : \A n \in set : least <= n
  <1> DEFINE Less == {pair \in Nat \X Nat : pair[1] < pair[2]}
  <1>1. IsWellFoundedOn(Less, Nat)
    BY NatLessThanWellFounded DEF OpToRel
  <1>2. PICK least \in set : \A n \in set : ~(<<n, least>> \in Less)
    <2> HIDE DEF Less
    <2> QED BY <1>1, WFMin
  <1>3. \A n \in set : least <= n
    <2> TAKE n \in set
    <2>1. <<n, least>> \in Nat \X Nat OBVIOUS
    <2>2. ~(n < least) BY <1>2, <2>1
    <2>3. n \in Nat /\ least \in Nat OBVIOUS
    <2> QED BY <2>2, <2>3
  <1> QED BY <1>3

\* The parts of the code, and the kinds of their instructions.
LEMMA CodeType ==
  ASSUME layout \in Layouts
  PROVE  /\ layout.arch \in {"x86", "arm", "aarch64"}
         /\ Len(code) \in Nat /\ code \in Seq(KindsOf(layout.arch))
         /\ Own \in 1 .. Len(code) /\ NextStart \in Own + 1 .. Len(code) + 1
         /\ \A k \in Own + 1 .. NextStart - 1 : code[k] \in Fill
  <1> DEFINE kinds == KindsOf(layout.arch)
             own == layout.own
             padding == layout.padding
             next == layout.next
  <1>1. /\ layout.arch \in {"x86", "arm", "aarch64"}
        /\ own \in Seq(kinds) /\ own # <<>> /\ next \in Seq(kinds)
        /\ padding \in Seq(kinds \cap Fill)
    BY LayoutsAssumption
  <1> HIDE DEF kinds
  <1>2. padding \in Seq(kinds) BY <1>1
  <1>3. Len(own) \in Nat \ {0} /\ Len(padding) \in Nat /\ Len(next) \in Nat BY <1>1
  <1> DEFINE first == own \o padding
  <1>4. /\ first \in Seq(kinds) /\ Len(first) = Len(own) + Len(padding)
        /\ \A k \in Len(own) + 1 .. Len(own) + Len(padding) : first[k] = padding[k - Len(own)]
    <2> HIDE DEF own, padding, next
    <2> QED BY <1>1, <1>2, <1>3
  <1>5. code = first \o next BY DEF code
  <1>6. /\ code \in Seq(kinds) /\ Len(code) = Len(first) + Len(next)
        /\ \A k \in 1 .. Len(first) : code[k] = first[k]
    <2>1. first \in Seq(kinds) /\ next \in Seq(kinds) BY <1>1, <1>4
    <2> HIDE DEF first, next
    <2>2. /\ first \o next \in Seq(kinds) /\ Len(first \o next) = Len(first) + Len(next)
          /\ \A k \in 1 .. Len(first) : (first \o next)[k] = first[k]
      BY <2>1
    <2> QED BY <1>5, <2>2
  <1> HIDE DEF first, next, own, padding
  <1>7. ASSUME NEW k \in Len(own) + 1 .. Len(own) + Len(padding)
        PROVE  code[k] \in Fill
    <2>1. code[k] = padding[k - Len(own)] BY <1>3, <1>4, <1>6
    <2>2. k - Len(own) \in 1 .. Len(padding) BY <1>3
    <2> QED BY <1>1, <2>1, <2>2
  <1>8. Own = Len(own) /\ NextStart = Len(own) + Len(padding) + 1 BY DEF Own, NextStart, own, padding
  <1>9. Len(code) \in Nat /\ Len(own) \in 1 .. Len(code) BY <1>3, <1>4, <1>6
  <1>10. NextStart \in Own + 1 .. Len(code) + 1 BY <1>3, <1>4, <1>6, <1>8
  <1>11. NextStart - 1 = Len(own) + Len(padding) BY <1>3, <1>8
  <1> QED BY <1>1, <1>6, <1>7, <1>8, <1>9, <1>10, <1>11 DEF kinds

\* What an instruction of a layout can be.
LEMMA KindsHere ==
  ASSUME layout \in Layouts, NEW k \in 1 .. Len(code)
  PROVE  /\ code[k] \in Kinds /\ Size[code[k]] \in Nat \ {0}
         /\ layout.arch = "x86" => code[k] \notin {"prologue", "epilogue", "lsls"}
         /\ layout.arch # "x86" => code[k] \notin {"leave", "endbr"}
  <1>1. code[k] \in KindsOf(layout.arch) BY CodeType
  <1> QED BY <1>1, SizeAssumption DEF KindsOf
----------------------------------------------------------------------------
\* sum[k] is the number of bytes of the first k instructions.
Sums(sum) ==
    /\ sum \in [0 .. Len(code) -> Nat]
    /\ sum[0] = 0
    /\ \A k \in 1 .. Len(code) : sum[k] = sum[k - 1] + Size[code[k]]

\* Every code has such sums: a least number of instructions without any would
\* have the sums of one instruction less, and one more.
LEMMA SumsExist ==
  ASSUME layout \in Layouts
  PROVE  \E sum : Sums(sum)
  <1>1. Len(code) \in Nat BY CodeType
  <1> DEFINE SumsTo(m) == \E sum \in [0 .. m -> Nat] :
                 sum[0] = 0 /\ \A k \in 1 .. m : sum[k] = sum[k - 1] + Size[code[k]]
             bad == {m \in 0 .. Len(code) : ~SumsTo(m)}
  <1>2. SumsTo(0)
    <2> DEFINE sum == [k \in 0 .. 0 |-> 0]
    <2>1. sum \in [0 .. 0 -> Nat] /\ sum[0] = 0 OBVIOUS
    <2> HIDE DEF sum
    <2>2. \A k \in 1 .. 0 : sum[k] = sum[k - 1] + Size[code[k]] OBVIOUS
    <2> QED BY <2>1, <2>2
  <1>3. ASSUME NEW m \in 0 .. Len(code) - 1, SumsTo(m) PROVE SumsTo(m + 1)
    <2>1. PICK sum \in [0 .. m -> Nat] :
              sum[0] = 0 /\ \A k \in 1 .. m : sum[k] = sum[k - 1] + Size[code[k]]
      BY <1>3
    <2>2. m + 1 \in 1 .. Len(code) /\ m \in Nat BY <1>1
    <2>3. Size[code[m + 1]] \in Nat BY <2>2, KindsHere
    <2> DEFINE more == [k \in 0 .. m + 1 |-> IF k <= m THEN sum[k] ELSE sum[m] + Size[code[m + 1]]]
    <2>4. more \in [0 .. m + 1 -> Nat] BY <2>1, <2>2, <2>3
    <2>5. \A k \in 0 .. m : more[k] = sum[k] BY <2>2
    <2>6. more[m + 1] = sum[m] + Size[code[m + 1]] BY <2>2
    <2> HIDE DEF more
    <2>7. more[0] = 0 BY <2>1, <2>2, <2>5
    <2>8. ASSUME NEW k \in 1 .. m + 1 PROVE more[k] = more[k - 1] + Size[code[k]]
      <3>1. CASE k = m + 1
        <4>1. k - 1 = m /\ m \in 0 .. m BY <2>2, <3>1
        <4> QED BY <2>5, <2>6, <3>1, <4>1
      <3>2. CASE k # m + 1
        <4>1. k \in 1 .. m /\ k \in 0 .. m /\ k - 1 \in 0 .. m BY <2>2, <3>2
        <4> QED BY <2>1, <2>5, <4>1
      <3> QED BY <3>1, <3>2
    <2> QED BY <2>4, <2>7, <2>8
  <1> HIDE DEF SumsTo
  <1>4. bad = {}
    <2> SUFFICES ASSUME bad # {} PROVE FALSE
      OBVIOUS
    <2>1. bad \in SUBSET Nat BY <1>1
    <2>2. PICK m \in bad : \A l \in bad : m <= l
      <3> HIDE DEF bad
      <3> QED BY <2>1, NatMin
    <2>3. m # 0 BY <1>2, <2>2
    <2>4. m - 1 \in 0 .. Len(code) - 1 /\ m - 1 \in 0 .. Len(code) /\ ~(m <= m - 1) /\ (m - 1) + 1 = m
      BY <1>1, <2>3
    <2>5. SumsTo(m - 1) BY <2>2, <2>4
    <2> QED BY <1>3, <2>4, <2>5
  <1>5. SumsTo(Len(code)) BY <1>1, <1>4
  <1> QED BY <1>5 DEF SumsTo, Sums

\* More instructions have more bytes.
LEMMA SumsGrow ==
  ASSUME layout \in Layouts, NEW sum, Sums(sum), NEW k \in 0 .. Len(code), NEW l \in k + 1 .. Len(code)
  PROVE  sum[k] < sum[l]
  <1>1. Len(code) \in Nat BY CodeType
  <1> DEFINE bad == {m \in k + 1 .. Len(code) : ~(sum[k] < sum[m])}
  <1> SUFFICES ASSUME bad # {} PROVE FALSE
    BY <1>1
  <1>2. bad \in SUBSET Nat BY <1>1
  <1>3. PICK m \in bad : \A b \in bad : m <= b
    <2> HIDE DEF bad
    <2> QED BY <1>2, NatMin
  <1>4. m \in 1 .. Len(code) /\ m - 1 \in 0 .. Len(code) /\ m \in 0 .. Len(code) BY <1>1
  <1>5. /\ sum[m] = sum[m - 1] + Size[code[m]] /\ Size[code[m]] \in Nat \ {0}
        /\ sum[m - 1] \in Nat /\ sum[m] \in Nat /\ sum[k] \in Nat
    BY <1>4, KindsHere DEF Sums
  <1>6. sum[k] <= sum[m - 1]
    <2>1. CASE m - 1 = k BY <1>5, <2>1
    <2>2. CASE m - 1 # k
      <3>1. m - 1 \in k + 1 .. Len(code) /\ ~(m <= m - 1) BY <1>1, <1>4, <2>2
      <3> QED BY <1>3, <1>5, <3>1
    <2> QED BY <2>1, <2>2
  <1> QED BY <1>5, <1>6
----------------------------------------------------------------------------
\* The measure goes on only with less than three instructions of padding.
FewPads == phase = "measure" => pads <= 2

\* What decodes is inside the code.
LEMMA DecodesType ==
  ASSUME SweepTypeOK, Decodes
  PROVE  /\ i \in 1 .. Len(code) /\ kind = code[i] /\ kind \in Kinds \ {"data"}
         /\ Size[kind] \in Nat \ {0} /\ Size[kind] <= left
  <1>1. i \in 1 .. Len(code) BY CodeType DEF SweepTypeOK, Decodes
  <1> QED BY <1>1, KindsHere DEF SweepTypeOK, Decodes, kind

\* Every step keeps the types.
LEMMA TypeNext ==
  ASSUME SweepTypeOK, FewPads, [Next]_vars
  PROVE  SweepTypeOK' /\ FewPads'
  <1>1. layout \in Layouts /\ Len(code) \in Nat /\ MaxSize \in Nat \ {0}
    BY CodeType, SizeAssumption DEF SweepTypeOK
  <1>2. layout' = layout => code' = code BY DEF code
  <1>3. Len(code) >= 1 BY <1>1, CodeType
  <1>4. CASE EndMeasure
    <2>1. \E bytes : Measured(bytes) /\ bytes \in 0 .. MaxSize + 1
      <3>1. size \in 0 .. MaxSize + 1 BY DEF SweepTypeOK
      <3>2. CASE Decodes /\ LastInstruction
        <4>1. Size["leave"] \in Nat /\ Size["leave"] <= left
          BY <3>2, DecodesType DEF LastInstruction
        <4>2. size \in Nat /\ left \in Nat /\ size + left = MaxSize
          BY <1>1, <1>4 DEF SweepTypeOK, EndMeasure
        <4>3. size + LeaveAndRet \in 0 .. MaxSize + 1 BY <1>1, <4>1, <4>2 DEF LeaveAndRet
        <4> QED BY <1>4, <3>1, <4>3 DEF EndMeasure
      <3>3. CASE ~(Decodes /\ LastInstruction)
        <4>1. Measured(size) BY <1>4, <3>3 DEF EndMeasure
        <4> QED BY <3>1, <4>1
      <3> QED BY <3>2, <3>3
    <2> QED BY <1>1, <1>2, <1>3, <1>4, <2>1 DEF EndMeasure, Measured, SweepTypeOK, FewPads
  <1>5. CASE Add
    <2>1. /\ phase = "measure" /\ layout' = layout /\ found' = FoundEpilogue /\ Decodes
          /\ pads' = IF ~FoundEpilogue THEN pads ELSE IF kind = "nop" THEN pads + 1 ELSE 0
      BY <1>5 DEF Add
    <2>2. /\ starting' \in BOOLEAN /\ found' \in BOOLEAN
      BY <1>5 DEF Add, FoundEpilogue, SweepTypeOK
    <2>3. pads' \in 0 .. 3 BY <2>1 DEF FewPads, SweepTypeOK
    <2>4. /\ i \in 1 .. Len(code) /\ Size[kind] \in Nat \ {0} /\ Size[kind] <= left
          /\ size \in Nat /\ left \in Nat /\ size + left = MaxSize
      BY <1>1, <2>1, DecodesType DEF SweepTypeOK
    <2> DEFINE bytes == size + Size[kind]
    <2>5. bytes \in 0 .. MaxSize /\ left - Size[kind] \in 0 .. MaxSize
          /\ bytes + (left - Size[kind]) = MaxSize
      BY <1>1, <2>4
    <2>6. CASE Padded(pads') \/ bytes >= MaxSize
      <3>1. size' = bytes /\ left' = bytes /\ i' = 1 /\ phase' = "search"
        BY <1>5, <2>6 DEF Add, Measured
      <3> HIDE DEF bytes
      <3> QED BY <1>1, <1>2, <1>3, <2>1, <2>2, <2>3, <2>5, <3>1 DEF SweepTypeOK, FewPads
    <2>7. CASE ~(Padded(pads') \/ bytes >= MaxSize)
      <3>1. size' = bytes /\ left' = left - Size[kind] /\ i' = i + 1 /\ phase' = phase
        BY <1>5, <2>7 DEF Add
      <3>2. pads' <= 2 BY <2>3, <2>7 DEF Padded
      <3>3. i' \in 1 .. Len(code) + 1 BY <1>1, <2>4, <3>1
      <3> HIDE DEF bytes
      <3> QED BY <1>1, <1>2, <2>1, <2>2, <2>3, <2>5, <3>1, <3>2, <3>3 DEF SweepTypeOK, FewPads
    <2> QED BY <2>6, <2>7
  <1>6. CASE MeasureFails
    BY <1>1, <1>2, <1>3, <1>6 DEF MeasureFails, Measured, SweepTypeOK, FewPads
  <1>7. CASE Search
    <2>1. CASE Decodes /\ kind # "call"
      <3>1. i \in 1 .. Len(code) /\ Size[kind] \in Nat \ {0} /\ Size[kind] <= left
        BY <2>1, DecodesType
      <3>2. i' = i + 1 /\ left' = left - Size[kind] /\ phase = "search" /\ phase' = "search"
            /\ UNCHANGED <<layout, size, found, starting, pads>>
        BY <1>7, <2>1 DEF Search
      <3>3. left \in 0 .. MaxSize + 1 /\ left <= size /\ size \in 0 .. MaxSize + 1
        BY <3>2 DEF SweepTypeOK
      <3>4. i' \in 1 .. Len(code) + 1 /\ left' \in 0 .. MaxSize + 1 /\ left' <= size
        BY <1>1, <3>1, <3>2, <3>3
      <3> QED BY <1>2, <3>2, <3>4 DEF SweepTypeOK, FewPads
    <2>2. CASE ~(Decodes /\ kind # "call")
      BY <1>2, <1>7, <2>2 DEF Search, SweepTypeOK, FewPads
    <2> QED BY <2>1, <2>2
  <1>8. CASE SearchFails
    BY <1>2, <1>8 DEF SearchFails, SweepTypeOK, FewPads
  <1>9. CASE UNCHANGED vars
    BY <1>2, <1>9 DEF vars, SweepTypeOK, FewPads
  <1> QED BY <1>4, <1>5, <1>6, <1>7, <1>8, <1>9 DEF Next

\* The initial states have the types.
LEMMA TypeInit ==
  ASSUME Init
  PROVE  SweepTypeOK /\ FewPads
  <1>1. layout \in Layouts BY DEF Init
  <1>2. Len(code) \in Nat /\ Len(code) >= 1 BY <1>1, CodeType
  <1>3. MaxSize \in Nat BY SizeAssumption
  <1>4. 1 \in 1 .. Len(code) + 1 /\ MaxSize \in 0 .. MaxSize + 1 /\ 0 \in 0 .. MaxSize + 1
    BY <1>2, <1>3
  <1>6. size + left = MaxSize BY <1>3 DEF Init
  <1>5. found \in BOOLEAN /\ starting \in BOOLEAN BY DEF Init
  <1>7. phase = "measure" /\ i = 1 /\ left = MaxSize /\ size = 0 /\ pads = 0 BY DEF Init
  <1> QED BY <1>1, <1>4, <1>5, <1>6, <1>7 DEF SweepTypeOK, FewPads

\* Neither loop of det.c leaves its bytes, whatever it finds in them.
THEOREM SweepTypeCorrect == Spec => []SweepTypeOK
  <1>1. Init => SweepTypeOK /\ FewPads BY TypeInit
  <1>2. SweepTypeOK /\ FewPads /\ [Next]_vars => (SweepTypeOK /\ FewPads)' BY TypeNext
  <1> QED BY <1>1, <1>2, PTL DEF Spec
----------------------------------------------------------------------------
\* What the flags mean behind the first k instructions.
FoundUpTo(k) == IF layout.arch = "x86" THEN Behind(k) ELSE k > 0 /\ code[k] = "epilogue"

StartingUpTo(k) == \A j \in 1 .. k : code[j] = "prologue" \/ (j = 1 /\ code[1] # "epilogue")

Flags ==
    /\ found <=> FoundUpTo(i - 1)
    /\ layout.arch # "x86" => (starting <=> StartingUpTo(i - 1)) /\ pads = 0
    /\ layout.arch = "x86" /\ found =>
         /\ pads >= 1 <=> code[i - 1] = "nop"
         /\ pads >= 2 <=> i > 2 /\ code[i - 1] = "nop" /\ code[i - 2] = "nop"

\* The measure ended behind m instructions: before one that looks like the end,
\* or that is not there, or not within MaxSize; or with one that does.
EndedAt(sum, m) ==
    \/ /\ size = sum[m] /\ \A k \in 1 .. m : ~LooksLikeEnd(k)
       /\ m = Len(code) \/ LooksLikeEnd(m + 1) \/ sum[m] + Size[code[m + 1]] > MaxSize
    \/ /\ m >= 1 /\ size \in {sum[m], sum[m] + 1}
       /\ LooksLikeEnd(m) /\ code[m] # "call" /\ \A k \in 1 .. m - 1 : ~LooksLikeEnd(k)

\* What the two loops know, in terms of the bytes of the instructions.
Swept(sum) ==
    /\ phase = "measure" =>
         size = sum[i - 1] /\ Flags /\ \A k \in 1 .. i - 1 : ~LooksLikeEnd(k)
    /\ phase \in {"search", "found", "none"} =>
         /\ size = 0 \/ \E m \in 0 .. Len(code) : EndedAt(sum, m)
         /\ size = sum[i - 1] + left
         /\ \A k \in 1 .. i - 1 : code[k] # "call"
         /\ phase = "found" => Decodes /\ kind = "call"
         /\ phase = "none" => ~Decodes

\* One instruction more, and what it does to the flag found_epilogue on x86.
LEMMA BehindNext ==
  ASSUME NEW k \in Nat \ {0}
  PROVE  Behind(k) <=> code[k] \in {"branch", "call", "ret"} \/ (Behind(k - 1) /\ code[k] # "jmp")
  <1>1. ASSUME Behind(k), code[k] \notin {"branch", "call", "ret"}
        PROVE  Behind(k - 1) /\ code[k] # "jmp"
    <2>1. PICK j \in 1 .. k : /\ code[j] \in {"branch", "call", "ret"}
                              /\ \A l \in j + 1 .. k : code[l] # "jmp"
      BY <1>1 DEF Behind
    <2>2. j \in 1 .. k - 1 /\ k \in j + 1 .. k BY <1>1, <2>1
    <2>3. \A l \in j + 1 .. k - 1 : l \in j + 1 .. k OBVIOUS
    <2> QED BY <2>1, <2>2, <2>3 DEF Behind
  <1>2. ASSUME code[k] \in {"branch", "call", "ret"}
        PROVE  Behind(k)
    <2>1. k \in 1 .. k /\ \A l \in k + 1 .. k : code[l] # "jmp" OBVIOUS
    <2> QED BY <1>2, <2>1 DEF Behind
  <1>3. ASSUME Behind(k - 1), code[k] # "jmp"
        PROVE  Behind(k)
    <2>1. PICK j \in 1 .. k - 1 : /\ code[j] \in {"branch", "call", "ret"}
                                  /\ \A l \in j + 1 .. k - 1 : code[l] # "jmp"
      BY <1>3 DEF Behind
    <2>2. j \in 1 .. k /\ \A l \in j + 1 .. k : l \in j + 1 .. k - 1 \/ l = k OBVIOUS
    <2> QED BY <1>3, <2>1, <2>2 DEF Behind
  <1> QED BY <1>1, <1>2, <1>3

\* The flag found_epilogue is what FoundUpTo says.
LEMMA FoundNext ==
  ASSUME SweepTypeOK, Decodes, Flags
  PROVE  FoundEpilogue <=> FoundUpTo(i)
  <1>1. i \in Nat \ {0} /\ kind = code[i] /\ found \in BOOLEAN
    BY CodeType, DecodesType DEF SweepTypeOK
  <1>2. CASE layout.arch = "x86"
    BY <1>1, <1>2, BehindNext DEF FoundEpilogue, FoundUpTo, Flags
  <1>3. CASE layout.arch # "x86"
    BY <1>1, <1>3 DEF FoundEpilogue, FoundUpTo
  <1> QED BY <1>2, <1>3

\* And to starting_prologues.
LEMMA StartingNext ==
  ASSUME NEW k \in Nat \ {0}
  PROVE  StartingUpTo(k) <=>
           StartingUpTo(k - 1) /\ (code[k] = "prologue" \/ (k = 1 /\ code[1] # "epilogue"))
  <1>1. \A j \in 1 .. k : j \in 1 .. k - 1 \/ j = k OBVIOUS
  <1>2. \A j \in 1 .. k - 1 : j \in 1 .. k OBVIOUS
  <1> QED BY <1>1, <1>2 DEF StartingUpTo

\* Where the next function seems to start, the code looks like an end.
LEMMA NextFunctionLooks ==
  ASSUME SweepTypeOK, Decodes, Flags, NextFunction
  PROVE  LooksLikeEnd(i)
  <1>1. /\ i \in 1 .. Len(code) /\ kind = code[i] /\ layout \in Layouts
        /\ found \in BOOLEAN /\ starting \in BOOLEAN
    BY DecodesType DEF SweepTypeOK
  <1>2. /\ layout.arch = "x86" => code[i] \notin {"prologue", "epilogue", "lsls"}
        /\ layout.arch # "x86" => code[i] \notin {"leave", "endbr"}
    BY <1>1, KindsHere
  <1>3. CASE ProloguePastStart
    <2>1. layout.arch # "x86" /\ code[i] = "prologue" BY <1>1, <1>2, <1>3 DEF ProloguePastStart
    <2>2. CASE found
      <3>1. i - 1 > 0 /\ code[i - 1] = "epilogue" BY <2>1, <2>2 DEF Flags, FoundUpTo
      <3>2. i - 1 \in 1 .. i - 1 /\ (i - 1 > 1 \/ i - 1 = 1) BY <1>1, <3>1
      <3>3. \E j \in 1 .. i - 1 : code[j] # "prologue" /\ (j > 1 \/ code[j] = "epilogue")
        BY <3>1, <3>2
      <3> QED BY <2>1, <3>3 DEF LooksLikeEnd
    <2>3. CASE i > 1 /\ ~starting
      <3>1. PICK j \in 1 .. i - 1 : code[j] # "prologue" /\ ~(j = 1 /\ code[1] # "epilogue")
        BY <2>1, <2>3 DEF Flags, StartingUpTo
      <3>2. j > 1 \/ code[j] = "epilogue" BY <3>1
      <3> QED BY <2>1, <3>1, <3>2 DEF LooksLikeEnd
    <2> QED BY <1>3, <2>2, <2>3 DEF ProloguePastStart
  <1>4. CASE layout.arch = "arm" /\ found /\ kind \in {"nop", "lsls"}
    <2>1. i - 1 > 0 /\ code[i - 1] = "epilogue" BY <1>4 DEF Flags, FoundUpTo
    <2>2. i > 1 BY <1>1, <2>1
    <2> QED BY <1>1, <1>4, <2>1, <2>2 DEF LooksLikeEnd
  <1>5. CASE kind = "endbr" /\ FoundEpilogue
    <2>1. layout.arch = "x86" BY <1>1, <1>2, <1>5
    <2>2. Behind(i) BY <1>5, <2>1, FoundNext DEF FoundUpTo
    <2> QED BY <1>1, <1>5, <2>2 DEF LooksLikeEnd
  <1> QED BY <1>3, <1>4, <1>5 DEF NextFunction

\* A leave behind a branch looks like an end.
LEMMA LastInstructionLooks ==
  ASSUME SweepTypeOK, Decodes, Flags, LastInstruction
  PROVE  LooksLikeEnd(i)
  <1>1. i \in 1 .. Len(code) /\ kind = code[i] /\ layout \in Layouts /\ kind = "leave"
    BY DecodesType DEF SweepTypeOK, LastInstruction
  <1>2. layout.arch = "x86" BY <1>1, KindsHere
  <1>3. Behind(i) BY <1>2, FoundNext DEF FoundUpTo, LastInstruction
  <1> QED BY <1>1, <1>3 DEF LooksLikeEnd

\* Three nops are counted where they stand behind a branch, and only there.
LEMMA ThreeNops ==
  ASSUME SweepTypeOK, FewPads, Decodes, Flags, Add
  PROVE  Padded(pads') <=>
           layout.arch = "x86" /\ i > 2 /\ Behind(i) /\ \A j \in i - 2 .. i : code[j] = "nop"
  <1>1. /\ i \in 1 .. Len(code) /\ kind = code[i] /\ layout \in Layouts /\ found \in BOOLEAN
        /\ pads \in 0 .. 2 /\ i \in Nat
    BY CodeType, DecodesType DEF SweepTypeOK, Add, FewPads
  <1>2. pads' = IF ~FoundEpilogue THEN pads ELSE IF kind = "nop" THEN pads + 1 ELSE 0
    BY DEF Add
  <1>3. CASE layout.arch # "x86"
    <2>1. pads = 0 BY <1>3 DEF Flags
    <2> QED BY <1>2, <1>3, <2>1 DEF Padded
  <1>4. CASE layout.arch = "x86"
    <2>1. FoundEpilogue <=> Behind(i) BY <1>4, FoundNext DEF FoundUpTo
    <2>2. Behind(i) /\ kind = "nop" => found
      <3>1. i \in Nat \ {0} BY <1>1
      <3>2. Behind(i) /\ code[i] = "nop" => Behind(i - 1) BY <3>1, BehindNext
      <3> QED BY <1>1, <1>4, <3>2 DEF Flags, FoundUpTo
    <2>3. found => (pads >= 2 <=> i > 2 /\ code[i - 1] = "nop" /\ code[i - 2] = "nop")
      BY <1>4 DEF Flags
    <2>4. i > 2 => (i - 2 .. i = {i - 2, i - 1, i}) BY <1>1
    <2>5. Padded(pads') <=> FoundEpilogue /\ kind = "nop" /\ pads >= 2
      BY <1>1, <1>2 DEF Padded
    <2>6. (\A j \in i - 2 .. i : code[j] = "nop") /\ i > 2
            <=> i > 2 /\ code[i - 2] = "nop" /\ code[i - 1] = "nop" /\ code[i] = "nop"
      <3>1. i > 2 => i - 2 \in i - 2 .. i /\ i - 1 \in i - 2 .. i /\ i \in i - 2 .. i BY <1>1
      <3>2. i > 2 => \A j \in i - 2 .. i : j = i - 2 \/ j = i - 1 \/ j = i BY <1>1
      <3> QED BY <3>1, <3>2
    <2> QED BY <1>1, <1>4, <2>1, <2>2, <2>3, <2>5, <2>6
  <1> QED BY <1>3, <1>4

\* What the sweep takes for neither, and adds, does not look like an end,
\* except for the third nop.
LEMMA AddLooks ==
  ASSUME SweepTypeOK, FewPads, Flags, Add
  PROVE  /\ ~Padded(pads') => ~LooksLikeEnd(i)
         /\ Padded(pads') => LooksLikeEnd(i) /\ code[i] = "nop"
  <1>1. /\ Decodes /\ ~NextFunction /\ ~LastInstruction BY DEF Add
  <1>2. /\ i \in 1 .. Len(code) /\ kind = code[i] /\ layout \in Layouts /\ found \in BOOLEAN
        /\ starting \in BOOLEAN /\ kind # "data" /\ layout.arch \in {"x86", "arm", "aarch64"}
    BY <1>1, CodeType, DecodesType DEF SweepTypeOK
  <1>3. /\ layout.arch = "x86" => code[i] \notin {"prologue", "epilogue", "lsls"}
        /\ layout.arch # "x86" => code[i] \notin {"leave", "endbr"}
    BY <1>2, KindsHere
  <1>4. ~(code[i] \in {"leave", "endbr"} /\ Behind(i))
    <2> SUFFICES ASSUME code[i] \in {"leave", "endbr"}, Behind(i) PROVE FALSE
      OBVIOUS
    <2>1. FoundEpilogue BY <1>1, <1>3, FoundNext DEF FoundUpTo
    <2> QED BY <1>1, <1>2, <2>1 DEF NextFunction, LastInstruction
  <1>5. ~(/\ code[i] = "prologue"
          /\ \E j \in 1 .. i - 1 : code[j] # "prologue" /\ (j > 1 \/ code[j] = "epilogue"))
    <2> SUFFICES ASSUME code[i] = "prologue", NEW j \in 1 .. i - 1,
                        code[j] # "prologue", j > 1 \/ code[j] = "epilogue"
                 PROVE  FALSE
      OBVIOUS
    <2>1. layout.arch # "x86" BY <1>3
    <2>2. ~StartingUpTo(i - 1) BY DEF StartingUpTo
    <2>3. ~starting BY <2>1, <2>2 DEF Flags
    <2>4. i > 1 BY <1>2
    <2> QED BY <1>1, <1>2, <2>3, <2>4 DEF NextFunction, ProloguePastStart
  <1>6. ~(layout.arch = "arm" /\ code[i] \in {"nop", "lsls"} /\ i > 1 /\ code[i - 1] = "epilogue")
    <2> SUFFICES ASSUME layout.arch = "arm", code[i] \in {"nop", "lsls"}, i > 1,
                        code[i - 1] = "epilogue"
                 PROVE  FALSE
      OBVIOUS
    <2>1. found BY <1>2 DEF Flags, FoundUpTo
    <2> QED BY <1>1, <1>2, <2>1 DEF NextFunction
  <1>7. Padded(pads') <=>
          layout.arch = "x86" /\ i > 2 /\ Behind(i) /\ \A j \in i - 2 .. i : code[j] = "nop"
    BY <1>1, ThreeNops
  <1>8. Padded(pads') => code[i] = "nop"
    <2> SUFFICES ASSUME Padded(pads') PROVE code[i] = "nop"
      OBVIOUS
    <2>1. i \in i - 2 .. i BY <1>2
    <2> QED BY <1>7, <2>1
  <1>9. LooksLikeEnd(i) <=> Padded(pads') BY <1>2, <1>4, <1>5, <1>6, <1>7 DEF LooksLikeEnd
  <1> QED BY <1>8, <1>9
----------------------------------------------------------------------------
\* The layout stays, and with it all that is said of the code.
LEMMA SameCode ==
  ASSUME layout' = layout
  PROVE  /\ code' = code
         /\ \A k : LooksLikeEnd(k)' <=> LooksLikeEnd(k)
         /\ \A k : FoundUpTo(k)' <=> FoundUpTo(k)
         /\ \A k : StartingUpTo(k)' <=> StartingUpTo(k)
         /\ \A sum : Sums(sum)' <=> Sums(sum)
  <1>1. code' = code BY DEF code
  <1>2. \A k : Behind(k)' <=> Behind(k) BY <1>1 DEF Behind
  <1>3. \A k : LooksLikeEnd(k)' <=> LooksLikeEnd(k) BY <1>1, <1>2 DEF LooksLikeEnd
  <1>4. \A k : FoundUpTo(k)' <=> FoundUpTo(k) BY <1>1, <1>2 DEF FoundUpTo
  <1>5. \A k : StartingUpTo(k)' <=> StartingUpTo(k) BY <1>1 DEF StartingUpTo
  <1>6. \A sum : Sums(sum)' <=> Sums(sum) BY <1>1 DEF Sums
  <1> QED BY <1>1, <1>3, <1>4, <1>5, <1>6

\* A step into the second loop: only where the measure ended matters.
LEMMA MeasuredSwept ==
  ASSUME SweepTypeOK, NEW sum, Sums(sum), layout' = layout, NEW CONSTANT bytes, Measured(bytes),
         bytes \in Nat,
         bytes = 0 \/ \E m \in 0 .. Len(code) :
             \/ /\ bytes = sum[m] /\ \A k \in 1 .. m : ~LooksLikeEnd(k)
                /\ m = Len(code) \/ LooksLikeEnd(m + 1) \/ sum[m] + Size[code[m + 1]] > MaxSize
             \/ /\ m >= 1 /\ bytes \in {sum[m], sum[m] + 1}
                /\ LooksLikeEnd(m) /\ code[m] # "call" /\ \A k \in 1 .. m - 1 : ~LooksLikeEnd(k)
  PROVE  Swept(sum)'
  <1>1. size' = bytes /\ left' = bytes /\ i' = 1 /\ phase' = "search" BY DEF Measured
  <1>2. code' = code /\ \A k : LooksLikeEnd(k)' <=> LooksLikeEnd(k) BY SameCode
  <1>3. size' = 0 \/ \E m \in 0 .. Len(code) : EndedAt(sum, m)'
    BY <1>1, <1>2 DEF EndedAt
  <1>4. size' = sum[i' - 1] + left' BY <1>1 DEF Sums
  <1> QED BY <1>1, <1>2, <1>3, <1>4 DEF Swept

\* Where the measure ends before an instruction or with a leave.
LEMMA EndMeasureSwept ==
  ASSUME SweepTypeOK, NEW sum, Sums(sum), Swept(sum), EndMeasure
  PROVE  Swept(sum)'
  <1>1. /\ phase = "measure" /\ layout' = layout /\ size = sum[i - 1] /\ Flags
        /\ \A k \in 1 .. i - 1 : ~LooksLikeEnd(k)
    BY DEF EndMeasure, Swept
  <1>2. /\ layout \in Layouts /\ Len(code) \in Nat /\ i \in 1 .. Len(code) + 1
        /\ size \in Nat /\ left \in Nat /\ size + left = MaxSize /\ MaxSize \in Nat
    BY <1>1, CodeType, SizeAssumption DEF SweepTypeOK
  <1>3. i - 1 \in 0 .. Len(code) /\ (i - 1) + 1 = i BY <1>2
  <1>4. CASE Decodes /\ LastInstruction /\ Measured(size + LeaveAndRet)
    <2>1. i \in 1 .. Len(code) /\ code[i] = "leave" /\ Size["leave"] \in Nat
      BY <1>4, DecodesType DEF LastInstruction
    <2>2. LooksLikeEnd(i) BY <1>1, <1>4, LastInstructionLooks
    <2>3. sum[i] = sum[i - 1] + Size["leave"] /\ sum[i] \in Nat BY <2>1 DEF Sums
    <2>4. size + LeaveAndRet = sum[i] + 1
      <3>1. sum[i] = size + Size["leave"] BY <1>1, <2>3
      <3>2. \A a, b \in Nat : a + (b + 1) = (a + b) + 1 OBVIOUS
      <3> QED BY <1>2, <2>1, <3>1, <3>2 DEF LeaveAndRet
    <2>5. size + LeaveAndRet \in Nat BY <2>3, <2>4
    <2>6. i \in 0 .. Len(code) /\ i >= 1 BY <1>2, <2>1
    <2> DEFINE bytes == size + LeaveAndRet
    <2>7. \E m \in 0 .. Len(code) :
            /\ m >= 1 /\ bytes \in {sum[m], sum[m] + 1}
            /\ LooksLikeEnd(m) /\ code[m] # "call" /\ \A k \in 1 .. m - 1 : ~LooksLikeEnd(k)
      BY <1>1, <2>1, <2>2, <2>4, <2>6
    <2> QED BY <1>1, <1>4, <2>5, <2>7, MeasuredSwept
  <1>5. CASE Measured(size) /\ (~Decodes \/ (Decodes /\ NextFunction))
    <2>1. i = Len(code) + 1 \/ LooksLikeEnd(i) \/ sum[i - 1] + Size[code[i]] > MaxSize
      <3>1. CASE ~Decodes
        <4>1. CASE i <= Len(code) /\ code[i] = "data" BY <4>1 DEF LooksLikeEnd
        <4>2. CASE i <= Len(code) /\ ~(Size[code[i]] <= left)
          <5>1. i \in 1 .. Len(code) BY <1>2, <4>2
          <5>2. Size[code[i]] \in Nat BY <1>2, <5>1, KindsHere
          <5> QED BY <1>1, <1>2, <4>2, <5>2
        <4> QED BY <1>2, <3>1, <4>1, <4>2 DEF Decodes, kind
      <3>2. CASE Decodes /\ NextFunction BY <1>1, <3>2, NextFunctionLooks
      <3> QED BY <1>5, <3>1, <3>2
    <2>2. \E m \in 0 .. Len(code) :
            /\ size = sum[m] /\ \A k \in 1 .. m : ~LooksLikeEnd(k)
            /\ m = Len(code) \/ LooksLikeEnd(m + 1) \/ sum[m] + Size[code[m + 1]] > MaxSize
      <3>1. i = Len(code) + 1 => i - 1 = Len(code) BY <1>2
      <3> QED BY <1>1, <1>3, <2>1, <3>1
    <2> QED BY <1>1, <1>2, <1>5, <2>2, MeasuredSwept
  <1> QED BY <1>4, <1>5 DEF EndMeasure

\* Where it goes on, or ends with what it added.
LEMMA AddSwept ==
  ASSUME SweepTypeOK, FewPads, NEW sum, Sums(sum), Swept(sum), Add
  PROVE  Swept(sum)'
  <1>1. /\ phase = "measure" /\ layout' = layout /\ size = sum[i - 1] /\ Flags /\ Decodes
        /\ \A k \in 1 .. i - 1 : ~LooksLikeEnd(k)
    BY DEF Add, Swept
  <1>2. /\ layout \in Layouts /\ Len(code) \in Nat /\ i \in 1 .. Len(code) /\ kind = code[i]
        /\ size \in Nat /\ left \in Nat /\ size + left = MaxSize /\ MaxSize \in Nat
        /\ Size[kind] \in Nat \ {0}
    BY <1>1, CodeType, DecodesType, SizeAssumption DEF SweepTypeOK
  <1>3. /\ ~Padded(pads') => ~LooksLikeEnd(i)
        /\ Padded(pads') => LooksLikeEnd(i) /\ code[i] = "nop"
    BY <1>1, AddLooks
  <1>4. sum[i] = size + Size[kind] /\ sum[i] \in Nat /\ i \in 0 .. Len(code) /\ i >= 1
    BY <1>1, <1>2 DEF Sums
  <1>5. CASE Padded(pads')
    <2>1. Measured(sum[i]) BY <1>4, <1>5 DEF Add
    <2>2. \E m \in 0 .. Len(code) :
            /\ m >= 1 /\ sum[i] \in {sum[m], sum[m] + 1}
            /\ LooksLikeEnd(m) /\ code[m] # "call" /\ \A k \in 1 .. m - 1 : ~LooksLikeEnd(k)
      BY <1>1, <1>3, <1>4, <1>5
    <2> QED BY <1>1, <1>4, <2>1, <2>2, MeasuredSwept
  <1>6. ASSUME ~Padded(pads') PROVE \A k \in 1 .. i : ~LooksLikeEnd(k)
    <2>1. \A k \in 1 .. i : k \in 1 .. i - 1 \/ k = i BY <1>2
    <2> QED BY <1>1, <1>3, <1>6, <2>1
  <1>7. CASE ~Padded(pads') /\ sum[i] >= MaxSize
    <2>1. Measured(sum[i]) BY <1>4, <1>7 DEF Add
    <2>2. i = Len(code) \/ sum[i] + Size[code[i + 1]] > MaxSize
      <3> SUFFICES ASSUME i # Len(code) PROVE sum[i] + Size[code[i + 1]] > MaxSize
        OBVIOUS
      <3>1. i + 1 \in 1 .. Len(code) BY <1>2
      <3>2. Size[code[i + 1]] \in Nat \ {0} BY <1>2, <3>1, KindsHere
      <3> QED BY <1>2, <1>4, <1>7, <3>2
    <2>3. \E m \in 0 .. Len(code) :
            /\ sum[i] = sum[m] /\ \A k \in 1 .. m : ~LooksLikeEnd(k)
            /\ m = Len(code) \/ LooksLikeEnd(m + 1) \/ sum[m] + Size[code[m + 1]] > MaxSize
      BY <1>4, <1>6, <1>7, <2>2
    <2> QED BY <1>1, <1>4, <2>1, <2>3, MeasuredSwept
  <1>8. CASE ~Padded(pads') /\ sum[i] < MaxSize
    <2>1. size' = sum[i] /\ i' = i + 1 /\ phase' = "measure"
      BY <1>1, <1>2, <1>4, <1>8 DEF Add
    <2>2. i' - 1 = i /\ i' - 2 = i - 1 /\ i' > 1 BY <1>2, <2>1
    <2>3. /\ code' = code /\ \A k : LooksLikeEnd(k)' <=> LooksLikeEnd(k)
          /\ \A k : FoundUpTo(k)' <=> FoundUpTo(k)
          /\ \A k : StartingUpTo(k)' <=> StartingUpTo(k)
      BY <1>1, SameCode
    <2>4. /\ found' = FoundEpilogue
          /\ starting' = (starting /\ ((i = 1 /\ ~FoundEpilogue) \/ kind = "prologue"))
          /\ pads' = IF ~FoundEpilogue THEN pads ELSE IF kind = "nop" THEN pads + 1 ELSE 0
      BY DEF Add
    <2>5. found' <=> FoundUpTo(i) BY <1>1, <2>4, FoundNext
    <2>6. layout.arch # "x86" => (starting' <=> StartingUpTo(i)) /\ pads' = 0
      <3> SUFFICES ASSUME layout.arch # "x86" PROVE (starting' <=> StartingUpTo(i)) /\ pads' = 0
        OBVIOUS
      <3>1. (starting <=> StartingUpTo(i - 1)) /\ pads = 0 BY <1>1 DEF Flags
      <3>2. FoundEpilogue <=> code[i] = "epilogue" BY <1>2 DEF FoundEpilogue
      <3>3. i \in Nat \ {0} BY <1>2
      <3>4. StartingUpTo(i) <=>
              StartingUpTo(i - 1) /\ (code[i] = "prologue" \/ (i = 1 /\ code[1] # "epilogue"))
        BY <3>3, StartingNext
      <3>5. i = 1 => code[1] = code[i] OBVIOUS
      <3>6. starting' <=> StartingUpTo(i) BY <1>2, <2>4, <3>1, <3>2, <3>4, <3>5
      <3>7. pads' = 0 BY <1>2, <2>4, <3>1, <3>2
      <3> QED BY <3>6, <3>7
    <2>7. layout.arch = "x86" /\ found' =>
            /\ pads' >= 1 <=> code[i] = "nop"
            /\ pads' >= 2 <=> i > 1 /\ code[i] = "nop" /\ code[i - 1] = "nop"
      <3> SUFFICES ASSUME layout.arch = "x86", found'
                   PROVE  /\ pads' >= 1 <=> code[i] = "nop"
                          /\ pads' >= 2 <=> i > 1 /\ code[i] = "nop" /\ code[i - 1] = "nop"
        OBVIOUS
      <3>1. FoundEpilogue /\ pads \in Nat BY <2>4 DEF SweepTypeOK
      <3>2. CASE code[i] # "nop" BY <1>2, <2>4, <3>1, <3>2
      <3>3. CASE code[i] = "nop"
        <4>1. found BY <1>2, <3>1, <3>3 DEF FoundEpilogue, SweepTypeOK
        <4>2. pads >= 1 <=> code[i - 1] = "nop" BY <1>1, <4>1 DEF Flags
        <4>3. i > 1
          <5>1. Behind(i - 1) BY <1>1, <4>1 DEF Flags, FoundUpTo
          <5> QED BY <1>2, <5>1 DEF Behind
        <4>4. pads' = pads + 1 BY <1>2, <2>4, <3>1, <3>3
        <4> QED BY <3>1, <3>3, <4>2, <4>3, <4>4
      <3> QED BY <3>2, <3>3
    <2>8. Flags'
      <3>1. i' > 2 <=> i > 1 BY <1>2, <2>1
      <3> QED BY <1>1, <2>2, <2>3, <2>5, <2>6, <2>7, <3>1 DEF Flags
    <2> QED BY <1>6, <1>8, <2>1, <2>2, <2>3, <2>8 DEF Swept
  <1> QED BY <1>2, <1>4, <1>5, <1>7, <1>8

\* Where it did not begin.
LEMMA MeasureFailsSwept ==
  ASSUME SweepTypeOK, NEW sum, Sums(sum), Swept(sum), MeasureFails
  PROVE  Swept(sum)'
  <1>1. layout' = layout /\ Measured(0) BY DEF MeasureFails
  <1> QED BY <1>1, MeasuredSwept

\* The second loop, over the same instructions.
LEMMA SearchSwept ==
  ASSUME SweepTypeOK, NEW sum, Sums(sum), Swept(sum), Search
  PROVE  Swept(sum)'
  <1>1. phase = "search" /\ layout' = layout /\ size' = size BY DEF Search
  <1>2. code' = code /\ \A k : LooksLikeEnd(k)' <=> LooksLikeEnd(k) BY <1>1, SameCode
  <1>3. size' = 0 \/ \E m \in 0 .. Len(code) : EndedAt(sum, m)'
    <2>1. size = 0 \/ \E m \in 0 .. Len(code) : EndedAt(sum, m) BY <1>1 DEF Swept
    <2>2. \A m : EndedAt(sum, m)' <=> EndedAt(sum, m) BY <1>1, <1>2 DEF EndedAt
    <2> QED BY <1>1, <2>1, <2>2
  <1>4. size = sum[i - 1] + left /\ \A k \in 1 .. i - 1 : code[k] # "call" BY <1>1 DEF Swept
  <1>5. left' = left /\ i' = i => (Decodes' <=> Decodes) /\ kind' = kind
    BY <1>2 DEF Decodes, kind
  <1>6. CASE Decodes /\ kind = "call"
    <2>1. phase' = "found" /\ i' = i /\ left' = left BY <1>1, <1>6 DEF Search
    <2> QED BY <1>1, <1>2, <1>3, <1>4, <1>5, <1>6, <2>1 DEF Swept
  <1>7. CASE ~Decodes
    <2>1. phase' = "none" /\ i' = i /\ left' = left BY <1>1, <1>7 DEF Search
    <2> QED BY <1>1, <1>2, <1>3, <1>4, <1>5, <1>7, <2>1 DEF Swept
  <1>8. CASE Decodes /\ kind # "call"
    <2>1. phase' = "search" /\ i' = i + 1 /\ left' = left - Size[kind]
      BY <1>1, <1>8 DEF Search
    <2>2. i \in 1 .. Len(code) /\ kind = code[i] /\ Size[kind] \in Nat \ {0} /\ left \in Nat
      BY <1>8, DecodesType DEF SweepTypeOK
    <2>3. sum[i] = sum[i - 1] + Size[kind] /\ sum[i - 1] \in Nat /\ sum[i] \in Nat /\ i' - 1 = i
      <3>1. i - 1 \in 0 .. Len(code) /\ i \in 0 .. Len(code) BY <2>2
      <3> QED BY <2>1, <2>2, <3>1 DEF Sums
    <2>4. size' = sum[i' - 1] + left'
      <3>1. \A a, b, d \in Nat : a + b = (a + d) + (b - d) OBVIOUS
      <3>2. sum[i' - 1] = sum[i - 1] + Size[kind] BY <2>3
      <3>3. sum[i - 1] + left = (sum[i - 1] + Size[kind]) + (left - Size[kind])
        BY <2>2, <2>3, <3>1
      <3> QED BY <1>1, <1>4, <2>1, <3>2, <3>3
    <2>5. \A k \in 1 .. i' - 1 : code[k] # "call"
      <3>1. \A k \in 1 .. i : k \in 1 .. i - 1 \/ k = i BY <2>2
      <3> QED BY <1>4, <1>8, <2>2, <2>3, <3>1
    <2> QED BY <1>2, <1>3, <2>1, <2>4, <2>5 DEF Swept
  <1> QED BY <1>6, <1>7, <1>8

\* And no step at all.
LEMMA StutterSwept ==
  ASSUME NEW sum, Swept(sum), UNCHANGED vars
  PROVE  Swept(sum)'
  <1>1. UNCHANGED <<layout, phase, i, left, size, found, starting, pads>> BY DEF vars
  <1>2. /\ code' = code /\ \A k : LooksLikeEnd(k)' <=> LooksLikeEnd(k)
        /\ \A k : FoundUpTo(k)' <=> FoundUpTo(k)
        /\ \A k : StartingUpTo(k)' <=> StartingUpTo(k)
    BY <1>1, SameCode
  <1>3. \A m : EndedAt(sum, m)' <=> EndedAt(sum, m) BY <1>1, <1>2 DEF EndedAt
  <1>4. (Decodes' <=> Decodes) /\ kind' = kind BY <1>1, <1>2 DEF Decodes, kind
  <1>5. Flags' <=> Flags BY <1>1, <1>2 DEF Flags
  <1> QED BY <1>1, <1>2, <1>3, <1>4, <1>5 DEF Swept

\* What the loops know stays true, of the sums of any code.
SweptForAll == \A sum : Sums(sum) => Swept(sum)

\* Every step keeps what the loops know.
LEMMA SweptNext ==
  ASSUME SweepTypeOK, FewPads, SweptForAll, [Next]_vars
  PROVE  SweptForAll'
  <1>1. layout' = layout
    BY DEF Next, EndMeasure, Add, MeasureFails, Search, SearchFails, vars
  <1>2. SUFFICES ASSUME NEW CONSTANT sum, Sums(sum)' PROVE Swept(sum)'
    BY DEF SweptForAll
  <1>3. Sums(sum) BY <1>1, <1>2, SameCode
  <1>4. Swept(sum) BY <1>3 DEF SweptForAll
  <1>5. CASE EndMeasure BY <1>3, <1>4, <1>5, EndMeasureSwept
  <1>6. CASE Add BY <1>3, <1>4, <1>6, AddSwept
  <1>7. CASE MeasureFails BY <1>3, <1>4, <1>7, MeasureFailsSwept
  <1>8. CASE Search BY <1>3, <1>4, <1>8, SearchSwept
  <1>9. CASE SearchFails BY <1>9 DEF SearchFails, Swept
  <1>10. CASE UNCHANGED vars BY <1>4, <1>10, StutterSwept
  <1> QED BY <1>5, <1>6, <1>7, <1>8, <1>9, <1>10 DEF Next

\* They know it at the start.
LEMMA SweptInit ==
  ASSUME Init
  PROVE  SweptForAll
  <1>1. /\ layout \in Layouts /\ phase = "measure" /\ i = 1 /\ size = 0
        /\ found = FALSE /\ starting = TRUE /\ pads = 0 /\ i - 1 = 0
    BY DEF Init
  <1>2. ~FoundUpTo(0)
    <2>1. ~Behind(0) BY DEF Behind
    <2> QED BY <2>1 DEF FoundUpTo
  <1>3. StartingUpTo(0) BY DEF StartingUpTo
  <1>4. ~found /\ starting BY <1>1
  <1>5. Flags BY <1>1, <1>2, <1>3, <1>4 DEF Flags
  <1> QED BY <1>1, <1>5 DEF SweptForAll, Swept, Sums

\* Types, and what the loops of det.c know of the bytes, in every state.
THEOREM SweepInvariant == Spec => [](SweepTypeOK /\ FewPads /\ SweptForAll)
  <1>1. Init => SweepTypeOK /\ FewPads /\ SweptForAll BY TypeInit, SweptInit
  <1>2. SweepTypeOK /\ FewPads /\ SweptForAll /\ [Next]_vars => (SweepTypeOK /\ FewPads /\ SweptForAll)'
    BY TypeNext, SweptNext
  <1> QED BY <1>1, <1>2, PTL DEF Spec
----------------------------------------------------------------------------
\* What looks like an end is no call.
LEMMA EndIsNoCall ==
  ASSUME NEW k \in Nat, LooksLikeEnd(k)
  PROVE  code[k] # "call"
  <1>1. k > 2 => k \in k - 2 .. k OBVIOUS
  <1> QED BY <1>1 DEF LooksLikeEnd

\* The search stopped before the call: either where the measure had ended,
\* which looked like an end, or where MaxSize bytes end.
LEMMA MissHolds ==
  ASSUME SweepTypeOK, SweptForAll
  PROVE  MissExplained
  <1> SUFFICES ASSUME phase = "none", size > 0, NEW c \in 1 .. Own, code[c] = "call",
                      ~(size + Size[kind] > MaxSize)
               PROVE  \E k \in 1 .. c - 1 : LooksLikeEnd(k)
    BY DEF MissExplained
  <1>1. /\ layout \in Layouts /\ Len(code) \in Nat /\ Own \in 1 .. Len(code)
        /\ i \in 1 .. Len(code) + 1 /\ size \in Nat /\ left \in Nat /\ MaxSize \in Nat
    BY CodeType, SizeAssumption DEF SweepTypeOK
  <1>2. PICK sum : Sums(sum) BY <1>1, SumsExist
  <1>3. /\ size = 0 \/ \E m \in 0 .. Len(code) : EndedAt(sum, m)
        /\ size = sum[i - 1] + left
        /\ \A k \in 1 .. i - 1 : code[k] # "call"
        /\ ~Decodes
    BY <1>2 DEF SweptForAll, Swept
  <1>4. PICK m \in 0 .. Len(code) : EndedAt(sum, m) BY <1>1, <1>3
  <1>5. c \in 1 .. Len(code) /\ i <= c /\ i \in 1 .. Len(code)
    <2>1. ~(c \in 1 .. i - 1) BY <1>3
    <2> QED BY <1>1, <2>1
  <1>6. CASE kind = "data"
    <2>1. LooksLikeEnd(i) /\ i # c BY <1>5, <1>6 DEF LooksLikeEnd, kind
    <2>2. i \in 1 .. c - 1 BY <1>1, <1>5, <2>1
    <2> QED BY <2>1, <2>2
  <1>7. CASE kind # "data"
    <2>1. ~(Size[kind] <= left) /\ kind = code[i] BY <1>3, <1>5, <1>7 DEF Decodes, kind
    <2>2. Size[kind] \in Nat /\ i - 1 \in 0 .. Len(code) /\ i \in 0 .. Len(code)
      BY <1>1, <1>5, <2>1, KindsHere
    <2>3. sum[i] = sum[i - 1] + Size[kind] /\ sum[i - 1] \in Nat /\ sum[i] \in Nat /\ sum[m] \in Nat
      BY <1>2, <1>5, <2>1, <2>2 DEF Sums
    <2>4. sum[i - 1] <= size /\ size < sum[i]
      <3>1. \A a, b, d \in Nat : ~(d <= b) => a <= a + b /\ a + b < a + d OBVIOUS
      <3> QED BY <1>1, <1>3, <2>1, <2>2, <2>3, <3>1
    <2>5. sum[m] <= size BY <1>4, <2>3 DEF EndedAt
    <2>6. m < i
      <3> SUFFICES ASSUME i < m PROVE FALSE
        BY <1>1, <2>3, <2>4, <2>5
      <3>1. m \in i + 1 .. Len(code) BY <1>1
      <3>2. sum[i] < sum[m] BY <1>1, <1>2, <2>2, <3>1, SumsGrow
      <3> QED BY <1>1, <2>3, <2>4, <2>5, <3>2
    <2>7. CASE m >= 1 /\ LooksLikeEnd(m)
      <3>1. m \in 1 .. c - 1 BY <1>1, <1>5, <2>6, <2>7
      <3> QED BY <2>7, <3>1
    <2>8. CASE /\ size = sum[m]
               /\ m = Len(code) \/ LooksLikeEnd(m + 1) \/ sum[m] + Size[code[m + 1]] > MaxSize
      <3>1. i = m + 1
        <4> SUFFICES ASSUME m < i - 1 PROVE FALSE
          BY <1>1, <2>6
        <4>1. i - 1 \in m + 1 .. Len(code) BY <1>1, <1>5
        <4>2. sum[m] < sum[i - 1] BY <1>1, <1>2, <4>1, SumsGrow
        <4> QED BY <1>1, <2>3, <2>4, <2>8, <4>2
      <3>2. LooksLikeEnd(i) BY <1>1, <1>5, <2>1, <2>8, <3>1
      <3>3. i # c BY <1>1, <3>2, EndIsNoCall
      <3>4. i \in 1 .. c - 1 BY <1>1, <1>5, <3>3
      <3> QED BY <3>2, <3>4
    <2> QED BY <1>4, <2>7, <2>8 DEF EndedAt
  <1> QED BY <1>6, <1>7

\* The call that was found is inside the bytes of the measure, so the measure
\* had passed all that stands before it.
LEMMA ForeignHolds ==
  ASSUME SweepTypeOK, SweptForAll
  PROVE  ForeignExplained
  <1> SUFFICES ASSUME phase = "found", i > Own
               PROVE  /\ \A c \in 1 .. Own : code[c] # "call"
                      /\ \A k \in 1 .. NextStart : ~LooksLikeEnd(k)
    BY DEF ForeignExplained
  <1>1. /\ layout \in Layouts /\ Len(code) \in Nat /\ Own \in 1 .. Len(code)
        /\ NextStart \in Own + 1 .. Len(code) + 1
        /\ \A k \in Own + 1 .. NextStart - 1 : code[k] \in Fill
        /\ i \in 1 .. Len(code) + 1 /\ size \in Nat /\ left \in Nat /\ left <= size
    BY CodeType DEF SweepTypeOK
  <1>2. PICK sum : Sums(sum) BY <1>1, SumsExist
  <1>3. /\ size = 0 \/ \E m \in 0 .. Len(code) : EndedAt(sum, m)
        /\ size = sum[i - 1] + left
        /\ \A k \in 1 .. i - 1 : code[k] # "call"
        /\ Decodes /\ kind = "call"
    BY <1>2 DEF SweptForAll, Swept
  <1>4. /\ i \in 1 .. Len(code) /\ code[i] = "call" /\ Size["call"] <= left
        /\ Size["call"] \in Nat /\ Size["call"] > 1
    BY <1>3, DecodesType, SizeAssumption
  <1>5. PICK m \in 0 .. Len(code) : EndedAt(sum, m) BY <1>1, <1>3, <1>4
  <1>6. \A c \in 1 .. Own : code[c] # "call"
    <2>1. \A c \in 1 .. Own : c \in 1 .. i - 1 BY <1>1
    <2> QED BY <1>3, <2>1
  <1>7. NextStart <= i
    <2>1. ~(i \in Own + 1 .. NextStart - 1) BY <1>1, <1>4 DEF Fill
    <2> QED BY <1>1, <2>1
  <1>8. i <= m
    <2> SUFFICES ASSUME m < i PROVE FALSE
      BY <1>1
    <2>1. i - 1 \in 0 .. Len(code) /\ i \in 0 .. Len(code) BY <1>1, <1>4
    <2>2. sum[i] = sum[i - 1] + Size["call"] /\ sum[i - 1] \in Nat /\ sum[i] \in Nat /\ sum[m] \in Nat
      BY <1>2, <1>4, <2>1 DEF Sums
    <2>3. sum[m] <= sum[i - 1]
      <3>1. CASE m = i - 1 BY <2>2, <3>1
      <3>2. CASE m # i - 1
        <4>1. i - 1 \in m + 1 .. Len(code) BY <1>1, <2>1, <3>2
        <4> QED BY <1>1, <1>2, <2>2, <4>1, SumsGrow
      <3> QED BY <3>1, <3>2
    <2>4. size <= sum[m] + 1 BY <1>5, <2>2 DEF EndedAt
    <2>5. \A a, b, d, e \in Nat : d <= a /\ e > 1 /\ e <= b => ~(a + b <= d + 1) OBVIOUS
    <2> QED BY <1>1, <1>3, <1>4, <2>2, <2>3, <2>4, <2>5
  <1>9. \A k \in 1 .. NextStart : ~LooksLikeEnd(k)
    <2>1. CASE \A k \in 1 .. m : ~LooksLikeEnd(k)
      <3>1. \A k \in 1 .. NextStart : k \in 1 .. m BY <1>1, <1>7, <1>8
      <3> QED BY <2>1, <3>1
    <2>2. CASE code[m] # "call" /\ \A k \in 1 .. m - 1 : ~LooksLikeEnd(k)
      <3>1. i # m BY <1>4, <2>2
      <3>2. \A k \in 1 .. NextStart : k \in 1 .. m - 1 BY <1>1, <1>7, <1>8, <3>1
      <3> QED BY <2>2, <3>2
    <2> QED BY <1>5, <2>1, <2>2 DEF EndedAt
  <1> QED BY <1>6, <1>9

\* For every function and whatever stands behind it: a call of the function is
\* missed only for the ends that MissExplained lists.
THEOREM MissesExplained == Spec => []MissExplained
  <1>1. SweepTypeOK /\ SweptForAll => MissExplained BY MissHolds
  <1> QED BY <1>1, SweepInvariant, PTL

\* And the call of another function is taken only where nothing up to its
\* entry looks like the end of the first.
THEOREM ForeignCallsExplained == Spec => []ForeignExplained
  <1>1. SweepTypeOK /\ SweptForAll => ForeignExplained BY ForeignHolds
  <1> QED BY <1>1, SweepInvariant, PTL
----------------------------------------------------------------------------
(* The bytes that are left to read, in both loops: the second reads what the *)
(* first answered, at most MaxSize + 1 bytes.                                *)
BytesToRead ==
    IF phase = "measure" THEN MaxSize + 3 + left ELSE IF phase = "search" THEN left + 1 ELSE 0

(* The step comes nearer to the end of the search.                           *)
ReadsOn == BytesToRead' < BytesToRead

\* Whatever the code is, and wherever cs_malloc fails, the two loops of a
\* mock_apply end after at most 2 * MaxSize + 3 steps: each lowers the number of
\* bytes to read, which is natural.
THEOREM SweepsEnd == Spec => [](BytesToRead \in 0 .. 2 * MaxSize + 3) /\ [][ReadsOn]_vars
  <1>1. MaxSize \in Nat BY SizeAssumption
  <1>2. SweepTypeOK => BytesToRead \in 0 .. 2 * MaxSize + 3
    <2> SUFFICES ASSUME SweepTypeOK PROVE BytesToRead \in 0 .. 2 * MaxSize + 3
      OBVIOUS
    <2>1. left \in Nat /\ left <= MaxSize + 1 /\ (phase = "measure" => left <= MaxSize)
      BY <1>1 DEF SweepTypeOK
    <2> QED BY <1>1, <2>1 DEF BytesToRead
  <1>3. SweepTypeOK /\ SweepTypeOK' /\ [Next]_vars => [ReadsOn]_vars
    <2> SUFFICES ASSUME SweepTypeOK, SweepTypeOK', Next PROVE ReadsOn
      OBVIOUS
    <2>1. /\ left \in Nat /\ left' \in Nat /\ left' <= MaxSize + 1
      BY <1>1 DEF SweepTypeOK
    <2>0. left' + 1 < MaxSize + 3 + left
      <3>1. \A m, x, y \in Nat : x <= m + 1 => x + 1 < m + 3 + y OBVIOUS
      <3> QED BY <1>1, <2>1, <3>1
    <2>2. ASSUME NEW bytes, phase = "measure", Measured(bytes) PROVE ReadsOn
      <3>1. phase' = "search" BY <2>2 DEF Measured
      <3>2. BytesToRead = MaxSize + 3 + left /\ BytesToRead' = left' + 1
        BY <2>2, <3>1 DEF BytesToRead
      <3> QED BY <2>0, <3>2 DEF ReadsOn
    <2>3. CASE EndMeasure BY <2>2, <2>3 DEF EndMeasure
    <2>4. CASE MeasureFails BY <2>2, <2>4 DEF MeasureFails
    <2>5. CASE Add
      <3>1. phase = "measure" /\ Decodes BY <2>5 DEF Add
      <3>2. Size[kind] \in Nat \ {0} /\ Size[kind] <= left BY <3>1, DecodesType
      <3>3. CASE left' = left - Size[kind] /\ phase' = phase
        BY <1>1, <2>1, <3>1, <3>2, <3>3 DEF ReadsOn, BytesToRead
      <3>4. CASE Measured(size + Size[kind]) BY <2>2, <3>1, <3>4
      <3> QED BY <2>5, <3>3, <3>4 DEF Add
    <2>6. CASE Search
      <3>1. phase = "search" BY <2>6 DEF Search
      <3>2. CASE Decodes /\ left' = left - Size[kind] /\ phase' = phase
        <4>1. Size[kind] \in Nat \ {0} /\ Size[kind] <= left BY <3>2, DecodesType
        <4> QED BY <2>1, <3>1, <3>2, <4>1 DEF ReadsOn, BytesToRead
      <3>3. CASE phase' \in {"found", "none"} BY <2>1, <3>1, <3>3 DEF ReadsOn, BytesToRead
      <3> QED BY <2>6, <3>2, <3>3 DEF Search
    <2>7. CASE SearchFails BY <2>1, <2>7 DEF SearchFails, ReadsOn, BytesToRead
    <2> QED BY <2>3, <2>4, <2>5, <2>6, <2>7 DEF Next
  <1> QED BY <1>2, <1>3, SweepTypeCorrect, PTL DEF Spec
=============================================================================
