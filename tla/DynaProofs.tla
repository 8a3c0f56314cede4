----------------------------- MODULE DynaProofs -----------------------------
(***************************************************************************)
(* The dynamic array is a list, and its loops visit what they should, for  *)
(* every first capacity, every length and every answer of the allocator.   *)
(***************************************************************************)
EXTENDS Dyna, SequenceTheorems, TLAPS

\* What is listed was written.
Written == \A k \in Cells(length) : data[k] \in Items

\* A forward loop has been through what lies up to its cursor, and reads
\* nothing behind the end whatever its body pops.
ForwardLoop ==
  loop = "forward" =>
    /\ Len(visited) = cursor + 1
    /\ \A k \in 1 .. cursor + 1 : visited[k] \in Items
    /\ "seen" \notin popped =>
         cursor < length /\ \A k \in 1 .. cursor + 1 : visited[k] = data[k - 1]

\* A backward loop has still to go through what lay before its cursor in the
\* beginning, and that is where it was unless the body popped some of it.
BackwardLoop ==
  loop = "backward" =>
    /\ cursor \in 1 .. Len(before)
    /\ Len(visited) = Len(before) - cursor + 1
    /\ "ahead" \notin popped =>
         /\ cursor <= length + 1
         /\ \A k \in 1 .. cursor - 1 : data[k - 1] = before[k]
         /\ \A k \in 1 .. Len(visited) : visited[k] = before[Len(before) - k + 1]

DynaInv ==
  /\ DynaTypeOK
  /\ Written
  /\ ForwardLoop
  /\ BackwardLoop
  /\ NullExplained
  /\ state = "none" => loop = "none"
-----------------------------------------------------------------------------
\* The first n cells as a sequence.
LEMMA CellsSeq ==
  ASSUME NEW n \in Nat, NEW cells, \A k \in Cells(n) : cells[k] \in Items
  PROVE  LET listed == [k \in 1 .. n |-> cells[k - 1]]
         IN  /\ listed \in Seq(Items) /\ Len(listed) = n
             /\ \A k \in 1 .. n : listed[k] = cells[k - 1]
  <1> DEFINE listed == [k \in 1 .. n |-> cells[k - 1]]
  <1>1. \A k \in 1 .. n : cells[k - 1] \in Items BY DEF Cells
  <1>2. listed \in [1 .. n -> Items] BY <1>1
  <1>3. listed \in Seq(Items) BY <1>2, SeqDef
  <1> QED BY <1>2, <1>3

\* The listed elements as a sequence.
LEMMA ContentsSeq ==
  ASSUME length \in Nat, Written
  PROVE  /\ Contents \in Seq(Items) /\ Len(Contents) = length
         /\ \A k \in 1 .. length : Contents[k] = data[k - 1]
  <1>1. \A k \in Cells(length) : data[k] \in Items BY DEF Written
  <1> QED BY <1>1, CellsSeq DEF Contents

\* Reading gives the element, or null behind the end.
LEMMA GetGives ==
  ASSUME DynaTypeOK, Written, NEW index \in Nat
  PROVE  /\ Get(index) \in Items \union {Null}
         /\ index < length => Get(index) = data[index] /\ data[index] \in Items
         /\ index >= length => Get(index) = Null
  BY DEF DynaTypeOK, Written, Get, Cells

\* The loops do not notice what happens behind the listed elements.
LEMMA LoopsUndisturbed ==
  ASSUME DynaInv, UNCHANGED loopVars, length' \in Nat, length <= length',
         \A k \in Cells(length) : data'[k] = data[k]
  PROVE  ForwardLoop' /\ BackwardLoop' /\ NullExplained'
  <1> USE DEF DynaInv, DynaTypeOK, loopVars
  <1>1. ForwardLoop'
    BY DEF ForwardLoop, Cells
  <1>2. BackwardLoop'
    <2>1. CASE loop = "backward" /\ "ahead" \notin popped
      <3>1. \A k \in 1 .. cursor - 1 : k - 1 \in Cells(length)
        BY <2>1 DEF BackwardLoop, Cells
      <3>2. /\ cursor \in 1 .. Len(before) /\ Len(visited) = Len(before) - cursor + 1
            /\ cursor <= length + 1
            /\ \A k \in 1 .. cursor - 1 : data[k - 1] = before[k]
            /\ \A k \in 1 .. Len(visited) : visited[k] = before[Len(before) - k + 1]
        BY <2>1 DEF BackwardLoop
      <3>3. \A k \in 1 .. cursor - 1 : data'[k - 1] = before[k] BY <3>1, <3>2
      <3>4. cursor <= length' + 1
        <4> DEFINE n == length'
        <4>1. n \in Nat /\ length <= n OBVIOUS
        <4> HIDE DEF n
        <4>2. cursor <= n + 1 BY <3>2, <4>1
        <4> QED BY <4>2 DEF n
      <3> QED BY <2>1, <3>2, <3>3, <3>4 DEF BackwardLoop
    <2>2. CASE ~(loop = "backward" /\ "ahead" \notin popped)
      BY <2>2 DEF BackwardLoop
    <2> QED BY <2>1, <2>2
  <1>3. NullExplained' BY DEF NullExplained
  <1> QED BY <1>1, <1>2, <1>3

\* What the block holds after realloc.
LEMMA ResizedHolds ==
  ASSUME DynaTypeOK, NEW n \in Nat
  PROVE  /\ Resized(n) \in [Cells(n) -> Items \union {Garbage}]
         /\ \A k \in Cells(n) : k < capacity => Resized(n)[k] = data[k]
  BY DEF DynaTypeOK, Resized, Cells
-----------------------------------------------------------------------------
\* One lemma for each operation, which keeps the invariant: nothing is listed
\* before the array is made.
LEMMA InitKeeps == ASSUME Init PROVE DynaInv
  <1>1. Cells(0) = {} BY DEF Cells
  <1>2. data \in [Cells(0) -> Items \union {Garbage}] BY <1>1 DEF Init
  <1>3. DynaTypeOK
    <2>1. data \in [Cells(capacity) -> Items \union {Garbage}] BY <1>2 DEF Init
    <2>2. visited \in Seq(Items \union {Null}) /\ before \in Seq(Items) BY DEF Init
    <2>3. /\ state = "none" /\ loop = "none" /\ returned = Null /\ popped = {}
          /\ length = 0 /\ capacity = 0 /\ cursor = 0 /\ block \in BOOLEAN
      BY DEF Init
    <2> QED BY <2>1, <2>2, <2>3 DEF DynaTypeOK
  <1>4. Written BY <1>1 DEF Init, Written
  <1> QED BY <1>3, <1>4 DEF Init, DynaInv, ForwardLoop, BackwardLoop, NullExplained

\* An array made from elements holds them.
LEMMA MakeKeeps == ASSUME DynaInv, NEW s \in Arrays, Make(s) PROVE DynaInv'
  <1>1. s \in Seq(Items) /\ Len(s) \in Nat BY SeqDef, DynaAssumption DEF Arrays
  <1>2. /\ length' = Len(s) /\ capacity' = Len(s)
        /\ data' = [k \in Cells(Len(s)) |-> s[k + 1]]
        /\ UNCHANGED loopVars /\ UNCHANGED returned /\ block' = TRUE
        /\ state = "none" /\ state' = "live"
    BY DEF Make
  <1>3. \A k \in Cells(Len(s)) : s[k + 1] \in Items
    BY <1>1, ElementOfSeq DEF Cells
  <1>4. data' \in [Cells(Len(s)) -> Items] BY <1>2, <1>3
  <1>5. Written' BY <1>2, <1>4 DEF Written, Cells
  <1>6. DynaTypeOK' BY <1>1, <1>2, <1>4 DEF DynaInv, DynaTypeOK, loopVars, Cells
  <1>7. loop = "none" BY <1>2 DEF DynaInv
  <1>8. ForwardLoop' /\ BackwardLoop' /\ NullExplained'
    BY <1>2, <1>7 DEF DynaInv, ForwardLoop, BackwardLoop, NullExplained, loopVars
  <1> QED BY <1>2, <1>5, <1>6, <1>8 DEF DynaInv

\* What a push that succeeds does to the cells.
LEMMA PushWrites ==
  ASSUME DynaInv, NEW x \in Items, NEW granted \in BOOLEAN, Push(x, granted), ~Full \/ granted
  PROVE  /\ length' = length + 1 /\ capacity' \in Nat /\ length + 1 <= capacity'
         /\ data' \in [Cells(capacity') -> Items \union {Garbage}]
         /\ data'[length] = x /\ \A k \in Cells(length) : data'[k] = data[k]
         /\ block' = TRUE /\ UNCHANGED <<state, returned, loopVars>>
  <1>1. /\ capacity' = IF Full THEN GrownCapacity ELSE capacity
        /\ data' = [Resized(capacity') EXCEPT ![length] = x]
        /\ length' = length + 1 /\ block' = TRUE /\ UNCHANGED <<state, returned, loopVars>>
    BY DEF Push
  <1>2. length \in Nat /\ capacity \in Nat /\ length <= capacity BY DEF DynaInv, DynaTypeOK
  <1>3. capacity' \in Nat /\ length + 1 <= capacity' /\ capacity <= capacity'
    BY <1>1, <1>2, DynaAssumption DEF Full, GrownCapacity
  <1> DEFINE cells == Resized(capacity')
  <1>4. /\ cells \in [Cells(capacity') -> Items \union {Garbage}]
        /\ \A k \in Cells(capacity') : k < capacity => cells[k] = data[k]
    BY <1>3, ResizedHolds DEF DynaInv
  <1> HIDE DEF cells
  <1>5. /\ data' \in [Cells(capacity') -> Items \union {Garbage}]
        /\ data'[length] = x
        /\ \A k \in Cells(capacity') : k # length => data'[k] = cells[k]
    BY <1>1, <1>2, <1>3, <1>4 DEF Cells, cells
  <1>6. \A k \in Cells(length) : data'[k] = data[k]
    <2> SUFFICES ASSUME NEW k \in Cells(length) PROVE data'[k] = data[k]
      OBVIOUS
    <2>1. k \in Nat /\ k < length /\ k < capacity /\ k \in Cells(capacity')
      <3>1. k \in Nat /\ k < length BY <1>2 DEF Cells
      <3>2. k < capacity' /\ k < capacity BY <1>2, <1>3, <3>1
      <3> DEFINE n == capacity'
      <3>3. n \in Nat /\ k < n BY <1>3, <3>2
      <3> HIDE DEF n
      <3>4. k \in 0 .. n - 1 BY <3>1, <3>3
      <3>5. k \in Cells(n) BY <3>4 DEF Cells
      <3> QED BY <3>1, <3>2, <3>5 DEF n
    <2>2. data'[k] = cells[k] BY <1>2, <1>5, <2>1
    <2> QED BY <1>4, <2>1, <2>2
  <1> QED BY <1>1, <1>3, <1>5, <1>6

\* A push changes nothing or adds behind what the loops look at.
LEMMA PushKeeps ==
  ASSUME DynaInv, NEW x \in Items, NEW granted \in BOOLEAN, Push(x, granted)
  PROVE  DynaInv'
  <1>1. CASE ~Full \/ granted
    <2>1. length \in Nat BY DEF DynaInv, DynaTypeOK
    <2>2. /\ length' = length + 1 /\ capacity' \in Nat /\ length + 1 <= capacity'
          /\ data' \in [Cells(capacity') -> Items \union {Garbage}]
          /\ data'[length] = x /\ \A k \in Cells(length) : data'[k] = data[k]
          /\ block' = TRUE /\ UNCHANGED <<state, returned, loopVars>>
      BY <1>1, PushWrites
    <2>3. DynaTypeOK' BY <2>1, <2>2 DEF DynaInv, DynaTypeOK, loopVars
    <2>4. Written'
      <3> SUFFICES ASSUME NEW k \in Cells(length') PROVE data'[k] \in Items
        BY DEF Written
      <3>1. k = length \/ k \in Cells(length) BY <2>1, <2>2 DEF Cells
      <3>2. \A l \in Cells(length) : data[l] \in Items BY DEF DynaInv, Written
      <3> QED BY <2>2, <3>1, <3>2
    <2>5. ForwardLoop' /\ BackwardLoop' /\ NullExplained'
      BY <2>1, <2>2, LoopsUndisturbed
    <2> QED BY <2>2, <2>3, <2>4, <2>5 DEF DynaInv, loopVars
  <1>2. CASE Full /\ ~granted
    <2>1. UNCHANGED dvars BY <1>2 DEF Push, dvars, arrayVars
    <2> QED BY <2>1 DEF DynaInv, dvars, arrayVars, loopVars, DynaTypeOK, Written, ForwardLoop, BackwardLoop, NullExplained
  <1> QED BY <1>1, <1>2
-----------------------------------------------------------------------------
\* What a pop that is not behind the end does to the cells.
LEMMA PopShifts ==
  ASSUME DynaInv, NEW index \in Nat, Pop(index), index < length
  PROVE  /\ length' = length - 1 /\ length' \in Nat
         /\ data' \in [Cells(capacity) -> Items \union {Garbage}]
         /\ \A k \in Cells(length') : data'[k] = IF k < index THEN data[k] ELSE data[k + 1]
  <1>1. data' = Shifted(index) /\ length' = length - 1 BY DEF Pop, DynaInv, DynaTypeOK
  <1>2. length \in Nat /\ capacity \in Nat /\ length <= capacity /\ data \in [Cells(capacity) -> Items \union {Garbage}]
    BY DEF DynaInv, DynaTypeOK
  <1> QED BY <1>1, <1>2 DEF Shifted, Cells

\* A pop moves what lies behind it, on one side of a loop or on the other.
LEMMA PopKeeps == ASSUME DynaInv, NEW index \in Nat, Pop(index) PROVE DynaInv'
  <1>1. /\ UNCHANGED <<state, capacity, block, loop, cursor, visited, before>>
        /\ returned' = Get(index) /\ returned' \in Items \union {Null}
        /\ state = "live"
    BY GetGives DEF Pop, DynaInv
  <1>2. CASE index >= length
    <2>1. UNCHANGED <<data, length, popped>> BY <1>2 DEF Pop
    <2> QED BY <1>1, <2>1 DEF DynaInv, DynaTypeOK, Written, ForwardLoop, BackwardLoop, NullExplained
  <1>3. CASE index < length
    <2>1. /\ length' = length - 1 /\ length' \in Nat
          /\ data' \in [Cells(capacity) -> Items \union {Garbage}]
          /\ \A k \in Cells(length') : data'[k] = IF k < index THEN data[k] ELSE data[k + 1]
      BY <1>3, PopShifts
    <2>2. /\ Looping => popped' = popped \union {IF Seen(index) THEN "seen" ELSE "ahead"}
          /\ ~Looping => popped' = popped
      BY <1>3 DEF Pop, DynaInv, DynaTypeOK
    <2>3. /\ length \in Nat /\ capacity \in Nat /\ length <= capacity /\ popped \subseteq {"seen", "ahead"}
          /\ cursor \in Nat /\ visited \in Seq(Items \union {Null}) /\ before \in Seq(Items)
      BY DEF DynaInv, DynaTypeOK
    <2>4. popped \subseteq popped' /\ popped' \subseteq {"seen", "ahead"} BY <2>2, <2>3
    <2>5. DynaTypeOK' BY <1>1, <2>1, <2>3, <2>4 DEF DynaInv, DynaTypeOK
    <2>6. Written' BY <2>1, <2>3 DEF DynaInv, Written, Cells
    <2>7. ForwardLoop'
      <3> SUFFICES ASSUME loop = "forward" PROVE ForwardLoop'
        BY <1>1 DEF ForwardLoop
      <3>1. /\ Len(visited) = cursor + 1
            /\ \A k \in 1 .. cursor + 1 : visited[k] \in Items
        BY DEF DynaInv, ForwardLoop
      <3>2. CASE "seen" \in popped' BY <1>1, <3>1, <3>2 DEF ForwardLoop
      <3>3. CASE "seen" \notin popped'
        <4>1. cursor < index /\ "seen" \notin popped
          BY <2>2, <2>3, <2>4, <3>3 DEF Looping, Seen
        <4>2. \A k \in 1 .. cursor + 1 : visited[k] = data[k - 1]
          BY <4>1 DEF DynaInv, ForwardLoop
        <4>3. cursor < length' BY <1>3, <2>1, <2>3, <4>1
        <4>4. \A k \in 1 .. cursor + 1 : data'[k - 1] = data[k - 1]
          BY <2>1, <2>3, <4>1, <4>3 DEF Cells
        <4> QED BY <1>1, <3>1, <4>2, <4>3, <4>4 DEF ForwardLoop
      <3> QED BY <3>2, <3>3
    <2>8. BackwardLoop'
      <3> SUFFICES ASSUME loop = "backward" PROVE BackwardLoop'
        BY <1>1 DEF BackwardLoop
      <3>1. cursor \in 1 .. Len(before) /\ Len(visited) = Len(before) - cursor + 1
        BY DEF DynaInv, BackwardLoop
      <3>2. CASE "ahead" \in popped' BY <1>1, <3>1, <3>2 DEF BackwardLoop
      <3>3. CASE "ahead" \notin popped'
        <4>1. index >= cursor - 1 /\ "ahead" \notin popped
          BY <2>2, <2>3, <2>4, <3>3 DEF Looping, Seen
        <4>2. /\ \A k \in 1 .. cursor - 1 : data[k - 1] = before[k]
              /\ \A k \in 1 .. Len(visited) : visited[k] = before[Len(before) - k + 1]
          BY <4>1 DEF DynaInv, BackwardLoop
        <4>3. cursor <= length' + 1 BY <1>3, <2>1, <2>3, <4>1
        <4>4. \A k \in 1 .. cursor - 1 : data'[k - 1] = data[k - 1]
          BY <2>1, <2>3, <4>1, <4>3 DEF Cells
        <4> QED BY <1>1, <3>1, <4>2, <4>3, <4>4 DEF BackwardLoop
      <3> QED BY <3>2, <3>3
    <2>9. NullExplained' BY <1>1, <2>4 DEF DynaInv, NullExplained
    <2> QED BY <1>1, <2>5, <2>6, <2>7, <2>8, <2>9 DEF DynaInv
  <1> QED BY <1>2, <1>3, GetGives DEF DynaInv, DynaTypeOK

\* A shrink keeps the cells that are listed.
LEMMA ShrinkKeeps ==
  ASSUME DynaInv, NEW granted \in BOOLEAN, Shrink(granted)
  PROVE  DynaInv'
  <1>1. length \in Nat /\ capacity \in Nat /\ length <= capacity BY DEF DynaInv, DynaTypeOK
  <1>2. UNCHANGED <<length, returned, loopVars>> /\ state = "live" BY DEF Shrink
  <1>3. CASE granted
    <2>1. data' = Resized(length) /\ capacity' = length /\ block' = TRUE /\ state' = "live"
      BY <1>2, <1>3 DEF Shrink
    <2>2. /\ data' \in [Cells(length) -> Items \union {Garbage}]
          /\ \A k \in Cells(length) : data'[k] = data[k]
      BY <1>1, <2>1, ResizedHolds DEF DynaInv, Cells
    <2>3. DynaTypeOK' BY <1>1, <1>2, <2>1, <2>2 DEF DynaInv, DynaTypeOK, loopVars
    <2>4. Written' BY <1>2, <2>2 DEF DynaInv, Written
    <2>5. ForwardLoop' /\ BackwardLoop' /\ NullExplained'
      BY <1>1, <1>2, <2>2, LoopsUndisturbed
    <2> QED BY <2>1, <2>3, <2>4, <2>5 DEF DynaInv
  <1>4. CASE ~granted
    <2>1. state' = "exited" /\ UNCHANGED <<data, capacity, block>> BY <1>4 DEF Shrink
    <2> QED BY <1>2, <2>1 DEF DynaInv, loopVars, DynaTypeOK, Written, ForwardLoop, BackwardLoop, NullExplained
  <1> QED BY <1>3, <1>4
-----------------------------------------------------------------------------
\* A loop begins with the element its first test allows.
LEMMA StartKeeps ==
  ASSUME DynaInv, StartForward \/ StartBackward
  PROVE  DynaInv'
  <1>1. /\ DynaTypeOK /\ length \in Nat /\ length > 0 /\ state = "live"
        /\ UNCHANGED arrayVars /\ UNCHANGED returned /\ before' = Contents /\ popped' = {}
    BY DEF StartForward, StartBackward, Start, DynaInv, DynaTypeOK
  <1>2. /\ Contents \in Seq(Items) /\ Len(Contents) = length
        /\ \A k \in 1 .. length : Contents[k] = data[k - 1]
    BY ContentsSeq DEF DynaInv, DynaTypeOK
  <1>3. Written' BY <1>1 DEF DynaInv, Written, arrayVars
  <1>4. \A e \in Items : <<e>> \in Seq(Items \union {Null}) /\ Len(<<e>>) = 1 /\ <<e>>[1] = e
    OBVIOUS
  <1>5. CASE StartForward
    <2>1. loop' = "forward" /\ cursor' = 0 /\ visited' = <<data[0]>> /\ data[0] \in Items
      BY <1>1, <1>5, GetGives DEF StartForward, Start, DynaInv
    <2>2. visited' \in Seq(Items \union {Null}) /\ Len(visited') = 1 /\ visited'[1] = data[0]
      BY <1>4, <2>1
    <2>3. DynaTypeOK' BY <1>1, <1>2, <2>1, <2>2 DEF DynaTypeOK, arrayVars
    <2>4. ForwardLoop' BY <1>1, <2>1, <2>2 DEF ForwardLoop, arrayVars
    <2>5. \A k \in DOMAIN visited' : visited'[k] # Null
      BY <2>1, <2>2, DynaAssumption
    <2> QED BY <1>1, <1>3, <2>1, <2>3, <2>4, <2>5 DEF DynaInv, BackwardLoop, NullExplained, arrayVars
  <1>6. CASE StartBackward
    <2>1. /\ loop' = "backward" /\ cursor' = length
          /\ visited' = <<data[length - 1]>> /\ data[length - 1] \in Items
      BY <1>1, <1>6, GetGives DEF StartBackward, Start, DynaInv
    <2>2. /\ visited' \in Seq(Items \union {Null}) /\ Len(visited') = 1
          /\ visited'[1] = data[length - 1]
      BY <1>4, <2>1
    <2>3. DynaTypeOK' BY <1>1, <1>2, <2>1, <2>2 DEF DynaTypeOK, arrayVars
    <2>4. BackwardLoop' BY <1>1, <1>2, <2>1, <2>2 DEF BackwardLoop, arrayVars
    <2>5. \A k \in DOMAIN visited' : visited'[k] # Null
      BY <2>1, <2>2, DynaAssumption
    <2> QED BY <1>1, <1>3, <2>1, <2>3, <2>4, <2>5 DEF DynaInv, ForwardLoop, NullExplained, arrayVars
  <1> QED BY <1>5, <1>6

\* What the body is given next.
LEMMA VisitAppends ==
  ASSUME DynaInv, NEW index \in Nat, visited' = Append(visited, Get(index))
  PROVE  /\ visited' \in Seq(Items \union {Null}) /\ Len(visited') = Len(visited) + 1
         /\ \A k \in 1 .. Len(visited) : visited'[k] = visited[k]
         /\ visited'[Len(visited) + 1] = Get(index)
  <1>1. visited \in Seq(Items \union {Null}) /\ Get(index) \in Items \union {Null}
    BY GetGives DEF DynaInv, DynaTypeOK
  <1> QED BY <1>1, AppendProperties

\* One more element of a forward loop, or its end.
LEMMA ForwardKeeps == ASSUME DynaInv, NextForward PROVE DynaInv'
  <1>1. /\ length \in Nat /\ cursor \in Nat /\ visited \in Seq(Items \union {Null}) /\ Len(visited) = cursor + 1
        /\ loop = "forward" /\ state = "live" /\ UNCHANGED <<arrayVars, returned, before, popped>>
        /\ \A k \in 1 .. cursor + 1 : visited[k] \in Items
    BY DEF NextForward, Advance, DynaInv, DynaTypeOK, ForwardLoop
  <1>2. Written' BY <1>1 DEF DynaInv, Written, arrayVars
  <1>3. CASE cursor + 1 < length
    <2>1. loop' = "forward" /\ cursor' = cursor + 1 /\ visited' = Append(visited, Get(cursor + 1))
      BY <1>1, <1>3 DEF NextForward, Advance
    <2>2. Get(cursor + 1) = data[cursor + 1] /\ data[cursor + 1] \in Items
      BY <1>1, <1>3, GetGives DEF DynaInv
    <2>3. /\ visited' \in Seq(Items \union {Null}) /\ Len(visited') = Len(visited) + 1
          /\ \A k \in 1 .. Len(visited) : visited'[k] = visited[k]
          /\ visited'[Len(visited) + 1] = Get(cursor + 1)
      BY <1>1, <2>1, VisitAppends
    <2>4. DynaTypeOK' BY <1>1, <2>1, <2>3 DEF DynaInv, DynaTypeOK, arrayVars
    <2>5. \A k \in 1 .. cursor' + 1 : visited'[k] \in Items
      BY <1>1, <2>1, <2>2, <2>3
    <2>6. ForwardLoop'
      <3>1. "seen" \notin popped => \A k \in 1 .. cursor + 1 : visited[k] = data[k - 1]
        BY <1>1 DEF DynaInv, ForwardLoop
      <3>2. "seen" \notin popped => \A k \in 1 .. cursor' + 1 : visited'[k] = data[k - 1]
        BY <1>1, <2>1, <2>2, <2>3, <3>1
      <3> QED BY <1>1, <1>3, <2>1, <2>3, <2>5, <3>2 DEF ForwardLoop, arrayVars
    <2>7. NullExplained'
      <3>1. DOMAIN visited' = 1 .. cursor' + 1 BY <1>1, <2>1, <2>3
      <3> QED BY <2>5, <3>1, DynaAssumption DEF NullExplained
    <2> QED BY <1>1, <1>2, <2>1, <2>4, <2>6, <2>7 DEF DynaInv, BackwardLoop, arrayVars
  <1>4. CASE ~(cursor + 1 < length)
    <2>1. loop' = "done" /\ UNCHANGED <<cursor, visited>> BY <1>4 DEF NextForward, Advance
    <2>2. DynaTypeOK' BY <1>1, <2>1 DEF DynaInv, DynaTypeOK, arrayVars
    <2>3. NullExplained'
      <3>1. DOMAIN visited = 1 .. cursor + 1 BY <1>1
      <3> QED BY <1>1, <2>1, <3>1, DynaAssumption DEF NullExplained
    <2> QED BY <1>1, <1>2, <2>1, <2>2, <2>3 DEF DynaInv, ForwardLoop, BackwardLoop, arrayVars
  <1> QED BY <1>3, <1>4

\* One more element of a backward loop, or its end.
LEMMA BackwardKeeps == ASSUME DynaInv, NextBackward PROVE DynaInv'
  <1>1. /\ length \in Nat /\ cursor \in 1 .. Len(before) /\ before \in Seq(Items) /\ Len(before) \in Nat
        /\ visited \in Seq(Items \union {Null}) /\ Len(visited) = Len(before) - cursor + 1
        /\ loop = "backward" /\ state = "live" /\ UNCHANGED <<arrayVars, returned, before, popped>>
    BY DEF NextBackward, Advance, DynaInv, DynaTypeOK, BackwardLoop
  <1>2. Written' BY <1>1 DEF DynaInv, Written, arrayVars
  <1>3. "ahead" \notin popped =>
          /\ cursor <= length + 1
          /\ \A k \in 1 .. cursor - 1 : data[k - 1] = before[k]
          /\ \A k \in 1 .. Len(visited) : visited[k] = before[Len(before) - k + 1]
    BY <1>1 DEF DynaInv, BackwardLoop
  <1>4. CASE cursor > 1
    <2>1. loop' = "backward" /\ cursor' = cursor - 1 /\ visited' = Append(visited, Get(cursor - 2))
      BY <1>1, <1>4 DEF NextBackward, Advance
    <2>2. cursor - 2 \in Nat BY <1>1, <1>4
    <2>3. /\ visited' \in Seq(Items \union {Null}) /\ Len(visited') = Len(visited) + 1
          /\ \A k \in 1 .. Len(visited) : visited'[k] = visited[k]
          /\ visited'[Len(visited) + 1] = Get(cursor - 2)
      BY <2>1, <2>2, VisitAppends
    <2>4. DynaTypeOK' BY <1>1, <1>4, <2>1, <2>3 DEF DynaInv, DynaTypeOK, arrayVars
    <2>5. "ahead" \notin popped => \A k \in 1 .. Len(visited') : visited'[k] = before[Len(before) - k + 1]
      <3> SUFFICES ASSUME "ahead" \notin popped, NEW k \in 1 .. Len(visited')
                   PROVE  visited'[k] = before[Len(before) - k + 1]
        OBVIOUS
      <3>1. CASE k \in 1 .. Len(visited) BY <1>3, <2>3, <3>1
      <3>2. CASE k = Len(visited) + 1
        <4>1. Get(cursor - 2) = data[cursor - 2]
          <5>1. cursor - 2 < length BY <1>1, <1>3
          <5> QED BY <2>2, <5>1, GetGives DEF DynaInv
        <4>2. data[(cursor - 1) - 1] = before[cursor - 1] BY <1>1, <1>3, <1>4
        <4>3. (cursor - 1) - 1 = cursor - 2 /\ Len(before) - k + 1 = cursor - 1 BY <1>1, <3>2
        <4> QED BY <2>3, <3>2, <4>1, <4>2, <4>3
      <3> QED BY <1>1, <2>3, <3>1, <3>2
    <2>6. BackwardLoop'
      <3>1. cursor' \in 1 .. Len(before) /\ Len(visited') = Len(before) - cursor' + 1
        BY <1>1, <1>4, <2>1, <2>3
      <3>2. "ahead" \notin popped =>
              cursor' <= length + 1 /\ \A k \in 1 .. cursor' - 1 : data[k - 1] = before[k]
        BY <1>1, <1>3, <2>1
      <3>3. UNCHANGED <<data, length>> BY <1>1 DEF arrayVars
      <3> QED BY <1>1, <2>1, <2>5, <3>1, <3>2, <3>3 DEF BackwardLoop
    <2>7. NullExplained'
      <3> SUFFICES ASSUME "ahead" \notin popped, NEW k \in 1 .. Len(visited') PROVE visited'[k] # Null
        BY <1>1, <2>1, <2>3 DEF NullExplained
      <3>1. Len(before) - k + 1 \in 1 .. Len(before) BY <1>1, <1>4, <2>3
      <3>2. before[Len(before) - k + 1] \in Items BY <1>1, <3>1, ElementOfSeq
      <3> QED BY <2>5, <3>2, DynaAssumption
    <2> QED BY <1>1, <1>2, <2>1, <2>4, <2>6, <2>7 DEF DynaInv, ForwardLoop, arrayVars
  <1>5. CASE ~(cursor > 1)
    <2>1. loop' = "done" /\ UNCHANGED <<cursor, visited>> BY <1>5 DEF NextBackward, Advance
    <2>2. DynaTypeOK' BY <1>1, <2>1 DEF DynaInv, DynaTypeOK, arrayVars
    <2>3. NullExplained' BY <1>1, <2>1 DEF DynaInv, NullExplained
    <2> QED BY <1>1, <1>2, <2>1, <2>2, <2>3 DEF DynaInv, ForwardLoop, BackwardLoop, arrayVars
  <1> QED BY <1>4, <1>5
-----------------------------------------------------------------------------
\* Every step keeps the invariant.
LEMMA StepKeeps == ASSUME DynaInv, [Next]_dvars PROVE DynaInv'
  <1>1. CASE UNCHANGED arrayVars /\ UNCHANGED loopVars /\ returned' \in Items \union {Null}
    BY <1>1 DEF DynaInv, arrayVars, loopVars, DynaTypeOK, Written, ForwardLoop, BackwardLoop, NullExplained
  <1>2. CASE Create \/ Free
    BY <1>2 DEF Create, Free, DynaInv, loopVars, DynaTypeOK, Written, ForwardLoop, BackwardLoop, NullExplained
  <1>3. ASSUME NEW s \in Arrays, Make(s) PROVE DynaInv' BY <1>3, MakeKeeps
  <1>4. ASSUME NEW x \in Items, NEW granted \in ReallocOutcomes, Push(x, granted) PROVE DynaInv'
    BY <1>4, PushKeeps, DynaAssumption
  <1>5. ASSUME NEW index \in 0 .. MaxLength, Pop(index) PROVE DynaInv'
    BY <1>5, PopKeeps
  <1>6. ASSUME NEW index \in 0 .. MaxLength, Read(index) PROVE DynaInv'
    <2>1. returned' \in Items \union {Null} BY <1>6, GetGives DEF Read, DynaInv
    <2> QED BY <1>1, <1>6, <2>1 DEF Read
  <1>7. ASSUME NEW granted \in BOOLEAN, Shrink(granted) PROVE DynaInv' BY <1>7, ShrinkKeeps
  <1>8. CASE UNCHANGED dvars
    BY <1>1, <1>8 DEF dvars, DynaInv, DynaTypeOK
  <1> QED BY <1>2, <1>3, <1>4, <1>5, <1>6, <1>7, <1>8, StartKeeps, ForwardKeeps, BackwardKeeps DEF Next

\* DynaInv is an invariant.
THEOREM DynaInvariant == Spec => []DynaInv
  BY InitKeeps, StepKeeps, PTL DEF Spec

\* The cells that are listed were allocated, for every growth and shrinking.
THEOREM DynaTypeCorrect == Spec => []DynaTypeOK
  <1>1. DynaInv => DynaTypeOK BY DEF DynaInv
  <1> QED BY <1>1, DynaInvariant, PTL

\* Bodies of loops are handed null only where NullExplained says.
THEOREM NullsExplained == Spec => []NullExplained
  <1>1. DynaInv => NullExplained BY DEF DynaInv
  <1> QED BY <1>1, DynaInvariant, PTL
-----------------------------------------------------------------------------
\* A loop ends only by its own test.
LEMMA LoopsEnd ==
  ASSUME [Next]_dvars, Looping, loop' = "done"
  PROVE  (loop = "forward" /\ NextForward) \/ (loop = "backward" /\ NextBackward)
  <1>1. loop' # loop BY DEF Looping
  <1>2. Next BY <1>1 DEF dvars, loopVars
  <1>3. ~(StartForward \/ StartBackward) BY DEF StartForward, StartBackward, Start
  <1>4. NextForward \/ NextBackward
    BY <1>1, <1>2, <1>3
       DEF Next, Create, Make, Push, Pop, Read, Shrink, Free, loopVars
  <1> QED BY <1>4 DEF NextForward, NextBackward, Advance

\* When the test of a forward loop fails, its cursor is at the end.
LEMMA ForwardEnds ==
  ASSUME DynaInv, [Next]_dvars, loop = "forward", loop' = "done", "seen" \notin popped
  PROVE  visited = Contents
  <1>1. /\ length \in Nat /\ cursor \in Nat /\ visited \in Seq(Items \union {Null})
        /\ Len(visited) = cursor + 1 /\ cursor < length
        /\ \A k \in 1 .. cursor + 1 : visited[k] = data[k - 1]
    BY DEF DynaInv, DynaTypeOK, ForwardLoop
  <1>2. NextForward BY LoopsEnd DEF Looping
  <1>3. ~(cursor + 1 < length) BY <1>2 DEF NextForward, Advance
  <1>4. cursor + 1 = length BY <1>1, <1>3
  <1>5. /\ Contents \in Seq(Items) /\ Len(Contents) = length
        /\ \A k \in 1 .. length : Contents[k] = data[k - 1]
    BY <1>1, ContentsSeq DEF DynaInv
  <1>6. Contents \in Seq(Items \union {Null}) BY <1>5, SeqMonotonic
  <1>7. \A k \in 1 .. Len(visited) : visited[k] = Contents[k] BY <1>1, <1>4, <1>5
  <1> QED BY <1>1, <1>4, <1>5, <1>6, <1>7, SeqEqual

\* When the test of a backward loop fails, it is at the first element.
LEMMA BackwardEnds ==
  ASSUME DynaInv, [Next]_dvars, loop = "backward", loop' = "done", "ahead" \notin popped
  PROVE  visited = Reverse(before)
  <1>1. /\ cursor \in 1 .. Len(before) /\ before \in Seq(Items) /\ Len(before) \in Nat
        /\ visited \in Seq(Items \union {Null}) /\ Len(visited) = Len(before) - cursor + 1
        /\ \A k \in 1 .. Len(visited) : visited[k] = before[Len(before) - k + 1]
    BY DEF DynaInv, DynaTypeOK, BackwardLoop
  <1>2. NextBackward BY LoopsEnd DEF Looping
  <1>3. ~(cursor > 1) BY <1>2 DEF NextBackward, Advance
  <1>4. Len(visited) = Len(before) BY <1>1, <1>3
  <1>5. visited = [k \in 1 .. Len(visited) |-> visited[k]] BY <1>1
  <1> QED BY <1>1, <1>4, <1>5 DEF Reverse

\* Forward loops visit what is listed in the end, whatever their bodies push
\* and pop ahead of them, at every length.
THEOREM ForwardLoopsVisitAll == Spec => ForwardVisitsAll
  <1>1. DynaInv /\ [Next]_dvars =>
          [(loop = "forward" /\ loop' = "done" /\ "seen" \notin popped) => visited = Contents]_dvars
    BY ForwardEnds
  <1> QED BY <1>1, DynaInvariant, PTL DEF Spec, ForwardVisitsAll

\* Backward loops visit what was listed in the beginning, whatever their
\* bodies push, pop behind them or shrink, at every length.
THEOREM BackwardLoopsVisitAll == Spec => BackwardVisitsAll
  <1>1. DynaInv /\ [Next]_dvars =>
          [(loop = "backward" /\ loop' = "done" /\ "ahead" \notin popped) => visited = Reverse(before)]_dvars
    BY BackwardEnds
  <1> QED BY <1>1, DynaInvariant, PTL DEF Spec, BackwardVisitsAll
-----------------------------------------------------------------------------
\* A sequence is what its places hold.
LEMMA SeqPlaces ==
  ASSUME NEW S, NEW seq \in Seq(S), NEW n, Len(seq) = n
  PROVE  seq = [k \in 1 .. n |-> seq[k]]
  BY LenProperties

\* RemoveAt as List knows it.
LEMMA RemovedAt ==
  ASSUME NEW s, NEW i
  PROVE  Abstract!RemoveAt(s, i) = SubSeq(s, 1, i - 1) \o SubSeq(s, i + 1, Len(s))
  BY DEF Abstract!RemoveAt

\* The mapping to List changes only with the listed cells.
LEMMA SameContents ==
  ASSUME UNCHANGED length, \A k \in Cells(length) : data'[k] = data[k], length \in Nat
  PROVE  Contents' = Contents
  <1>1. \A k \in 1 .. length : data'[k - 1] = data[k - 1] BY DEF Cells
  <1> QED BY <1>1 DEF Contents

\* Each operation is one of the list, or hidden from it: push,
LEMMA PushAdds ==
  ASSUME DynaInv, NEW x \in Items, NEW granted \in BOOLEAN, Push(x, granted)
  PROVE  [Abstract!ListNext]_Abstract!lvars
  <1>1. state = "live" /\ state' = "live" /\ returned' = returned BY DEF Push
  <1>2. CASE ~Full \/ granted
    <2>1. length \in Nat BY DEF DynaInv, DynaTypeOK
    <2>2. /\ length' = length + 1 /\ data'[length] = x
          /\ \A k \in Cells(length) : data'[k] = data[k]
      BY <1>2, PushWrites
    <2>3. /\ Contents \in Seq(Items) /\ Len(Contents) = length
          /\ \A k \in 1 .. length : Contents[k] = data[k - 1]
      BY <2>1, ContentsSeq DEF DynaInv
    <2>4. /\ Append(Contents, x) \in Seq(Items) /\ Len(Append(Contents, x)) = length + 1
          /\ \A k \in 1 .. length : Append(Contents, x)[k] = Contents[k]
          /\ Append(Contents, x)[length + 1] = x
      BY <2>3, AppendProperties
    <2>5. \A k \in 1 .. length + 1 : Append(Contents, x)[k] = data'[k - 1]
      <3> SUFFICES ASSUME NEW k \in 1 .. length + 1 PROVE Append(Contents, x)[k] = data'[k - 1]
        OBVIOUS
      <3>1. CASE k = length + 1 BY <2>1, <2>2, <2>4, <3>1
      <3>2. CASE k # length + 1
        <4>1. k \in 1 .. length /\ k - 1 \in Cells(length) BY <2>1, <3>2 DEF Cells
        <4> QED BY <2>2, <2>3, <2>4, <4>1
      <3> QED BY <3>1, <3>2
    <2>6. Append(Contents, x) = [k \in 1 .. length + 1 |-> data'[k - 1]]
      <3>1. Append(Contents, x) = [k \in 1 .. length + 1 |-> Append(Contents, x)[k]]
        BY <2>4, SeqPlaces
      <3> QED BY <2>5, <3>1
    <2>7. Contents' = Append(Contents, x) BY <2>2, <2>6 DEF Contents
    <2>8. Abstract!Add(x) BY <1>1, <2>7 DEF Abstract!Add
    <2> QED BY <2>8 DEF Abstract!ListNext
  <1>3. CASE Full /\ ~granted
    <2>1. UNCHANGED <<data, length>> BY <1>3 DEF Push
    <2> QED BY <1>1, <2>1 DEF Contents, Abstract!lvars
  <1> QED BY <1>2, <1>3

\* pop, which moves cells down where the list takes one out,
LEMMA PopTakesOut ==
  ASSUME DynaInv, NEW index \in Nat, Pop(index)
  PROVE  [Abstract!ListNext]_Abstract!lvars
  <1>1. state = "live" /\ state' = "live" /\ returned' = Get(index) BY DEF Pop
  <1>2. /\ length \in Nat /\ Contents \in Seq(Items) /\ Len(Contents) = length
        /\ \A k \in 1 .. length : Contents[k] = data[k - 1]
    BY ContentsSeq DEF DynaInv, DynaTypeOK
  <1>3. CASE index < length
    <2>1. returned' = Contents[index + 1]
      <3>1. Get(index) = data[index] BY <1>3, GetGives DEF DynaInv
      <3>2. index + 1 \in 1 .. length /\ (index + 1) - 1 = index BY <1>2, <1>3
      <3> QED BY <1>1, <1>2, <3>1, <3>2
    <2>2. /\ length' = length - 1
          /\ \A k \in Cells(length - 1) : data'[k] = IF k < index THEN data[k] ELSE data[k + 1]
      BY <1>3, PopShifts
    <2> DEFINE front == SubSeq(Contents, 1, (index + 1) - 1)
               rest == SubSeq(Contents, index + 1 + 1, Len(Contents))
    <2>3. \A k \in 1 .. length : Contents[k] \in Items BY <1>2, ElementOfSeq
    <2>4. /\ front \in Seq(Items) /\ Len(front) = index
          /\ \A k \in 1 .. index : front[k] = Contents[k]
      <3>1. \A k \in 1 .. (index + 1) - 1 : Contents[k] \in Items BY <1>2, <1>3, <2>3
      <3>2. /\ front \in Seq(Items)
            /\ Len(front) = IF 1 <= (index + 1) - 1 THEN (index + 1) - 1 - 1 + 1 ELSE 0
            /\ \A k \in 1 .. (index + 1) - 1 - 1 + 1 : front[k] = Contents[1 + k - 1]
        BY <3>1, SubSeqProperties
      <3> HIDE DEF front
      <3> QED BY <3>2
    <2>5. /\ rest \in Seq(Items) /\ Len(rest) = length - index - 1
          /\ \A k \in 1 .. length - index - 1 : rest[k] = Contents[index + k + 1]
      <3>1. \A k \in index + 1 + 1 .. Len(Contents) : Contents[k] \in Items BY <1>2, <2>3
      <3>2. /\ rest \in Seq(Items)
            /\ Len(rest) = IF index + 1 + 1 <= Len(Contents) THEN Len(Contents) - (index + 1 + 1) + 1 ELSE 0
            /\ \A k \in 1 .. Len(Contents) - (index + 1 + 1) + 1 : rest[k] = Contents[index + 1 + 1 + k - 1]
        BY <1>2, <3>1, SubSeqProperties
      <3> HIDE DEF rest
      <3>3. Len(rest) = length - index - 1 BY <1>2, <1>3, <3>2
      <3>4. ASSUME NEW k \in 1 .. length - index - 1 PROVE rest[k] = Contents[index + k + 1]
        <4>1. k \in 1 .. Len(Contents) - (index + 1 + 1) + 1 /\ index + 1 + 1 + k - 1 = index + k + 1
          BY <1>2
        <4> QED BY <3>2, <4>1
      <3> QED BY <3>2, <3>3, <3>4
    <2> HIDE DEF front, rest
    <2>6. /\ front \o rest \in Seq(Items) /\ Len(front \o rest) = length - 1
          /\ \A k \in 1 .. length - 1 :
               (front \o rest)[k] = IF k <= index THEN front[k] ELSE rest[k - index]
      BY <1>2, <1>3, <2>4, <2>5, ConcatProperties
    <2>7. \A k \in 1 .. length - 1 : (front \o rest)[k] = data'[k - 1]
      <3> SUFFICES ASSUME NEW k \in 1 .. length - 1 PROVE (front \o rest)[k] = data'[k - 1]
        OBVIOUS
      <3>1. k - 1 \in Cells(length - 1) /\ (k - 1) + 1 = k /\ (k + 1) - 1 = k BY <1>2 DEF Cells
      <3>2. CASE k <= index
        <4>1. (front \o rest)[k] = Contents[k] BY <1>2, <1>3, <2>4, <2>6, <3>2
        <4>2. Contents[k] = data[k - 1] BY <1>2
        <4>3. data'[k - 1] = data[k - 1] BY <2>2, <3>1, <3>2
        <4> QED BY <4>1, <4>2, <4>3
      <3>3. CASE k > index
        <4>1. k - index \in 1 .. length - index - 1 /\ index + (k - index) + 1 = k + 1
          BY <1>2, <1>3, <3>3
        <4>2. (front \o rest)[k] = Contents[k + 1] BY <1>2, <1>3, <2>5, <2>6, <3>3, <4>1
        <4>3. k + 1 \in 1 .. length BY <1>2
        <4>4. Contents[k + 1] = data[k] BY <1>2, <3>1, <4>3
        <4>5. ~(k - 1 < index) BY <3>3
        <4>6. data'[k - 1] = data[k] BY <2>2, <3>1, <4>5
        <4> QED BY <4>2, <4>4, <4>6
      <3>4. k <= index \/ k > index BY <1>2
      <3> QED BY <3>2, <3>3, <3>4, Zenon
    <2>8. front \o rest = [k \in 1 .. length - 1 |-> data'[k - 1]]
      <3>1. front \o rest = [k \in 1 .. length - 1 |-> (front \o rest)[k]] BY <2>6, SeqPlaces
      <3> QED BY <2>7, <3>1
    <2>9. Contents' = Abstract!RemoveAt(Contents, index + 1)
      <3>1. Abstract!RemoveAt(Contents, index + 1) = front \o rest
        BY RemovedAt, Zenon DEF front, rest
      <3>2. Contents' = [k \in 1 .. length - 1 |-> data'[k - 1]] BY <2>2 DEF Contents
      <3> QED BY <2>8, <3>1, <3>2
    <2>10. Abstract!TakeOut(index)
      BY <1>1, <1>2, <1>3, <2>1, <2>9 DEF Abstract!TakeOut
    <2>11. index \in 0 .. Len(Contents) BY <1>2, <1>3
    <2> QED BY <2>10, <2>11 DEF Abstract!ListNext
  <1>4. CASE index >= length
    <2>1. UNCHANGED <<data, length>> BY <1>4 DEF Pop
    <2>2. returned' = Null BY <1>1, <1>4, GetGives DEF DynaInv
    <2>3. Abstract!Miss BY <1>1, <2>1, <2>2 DEF Abstract!Miss, Contents
    <2> QED BY <2>3 DEF Abstract!ListNext
  <1> QED BY <1>2, <1>3, <1>4

\* get,
LEMMA ReadReads ==
  ASSUME DynaInv, NEW index \in Nat, Read(index)
  PROVE  [Abstract!ListNext]_Abstract!lvars
  <1>1. /\ state = "live" /\ state' = "live" /\ returned' = Get(index)
        /\ UNCHANGED <<data, length>>
    BY DEF Read, arrayVars
  <1>2. /\ length \in Nat /\ Contents \in Seq(Items) /\ Len(Contents) = length
        /\ \A k \in 1 .. length : Contents[k] = data[k - 1]
    BY ContentsSeq DEF DynaInv, DynaTypeOK
  <1>3. Contents' = Contents BY <1>1 DEF Contents
  <1>4. CASE index < length
    <2>1. Get(index) = data[index] BY <1>4, GetGives DEF DynaInv
    <2>2. index + 1 \in 1 .. length /\ (index + 1) - 1 = index BY <1>2, <1>4
    <2>3. Get(index) = Contents[index + 1] BY <1>2, <2>1, <2>2
    <2>4. Abstract!Read(index) BY <1>1, <1>2, <1>3, <1>4, <2>3 DEF Abstract!Read
    <2>5. index \in 0 .. Len(Contents) BY <1>2, <1>4
    <2> QED BY <2>4, <2>5 DEF Abstract!ListNext
  <1>5. CASE index >= length
    <2>1. returned' = Null BY <1>1, <1>5, GetGives DEF DynaInv
    <2>2. Abstract!Miss BY <1>1, <1>3, <2>1 DEF Abstract!Miss
    <2> QED BY <2>2 DEF Abstract!ListNext
  <1> QED BY <1>2, <1>4, <1>5

\* and shrink: memory is given back without touching the list, or the process ends.
LEMMA ShrinkHides ==
  ASSUME DynaInv, NEW granted \in BOOLEAN, Shrink(granted)
  PROVE  [Abstract!ListNext]_Abstract!lvars
  <1>1. state = "live" /\ UNCHANGED <<length, returned>> BY DEF Shrink
  <1>2. length \in Nat /\ capacity \in Nat /\ length <= capacity BY DEF DynaInv, DynaTypeOK
  <1>3. CASE granted
    <2>1. data' = Resized(length) /\ state' = state BY <1>3 DEF Shrink
    <2>2. \A k \in Cells(length) : data'[k] = data[k]
      BY <1>2, <2>1, ResizedHolds DEF DynaInv, Cells
    <2>3. Contents' = Contents BY <1>1, <1>2, <2>2, SameContents
    <2> QED BY <1>1, <2>1, <2>3 DEF Abstract!lvars
  <1>4. CASE ~granted
    <2>1. state' = "exited" /\ data' = data BY <1>4 DEF Shrink
    <2>2. Abstract!Close BY <1>1, <2>1 DEF Abstract!Close, Contents
    <2> QED BY <2>2 DEF Abstract!ListNext
  <1> QED BY <1>3, <1>4

\* Every step of the array is a step of the list, or none.
LEMMA StepListed ==
  ASSUME DynaInv, DynaInv', [Next]_dvars
  PROVE  [Abstract!ListNext]_Abstract!lvars
  <1>1. Contents' \in Seq(Items)
    <2>1. length' \in Nat /\ \A k \in Cells(length') : data'[k] \in Items
      BY DEF DynaInv, DynaTypeOK, Written
    <2> QED BY <2>1, CellsSeq DEF Contents
  <1>2. ASSUME state = "none", state' = "live", UNCHANGED returned
        PROVE  [Abstract!ListNext]_Abstract!lvars
    BY <1>1, <1>2 DEF Abstract!ListNext, Abstract!Open
  <1>3. CASE Create BY <1>2, <1>3 DEF Create
  <1>4. ASSUME NEW s \in Arrays, Make(s) PROVE [Abstract!ListNext]_Abstract!lvars
    BY <1>2, <1>4 DEF Make
  <1>5. ASSUME NEW x \in Items, NEW granted \in ReallocOutcomes, Push(x, granted)
        PROVE  [Abstract!ListNext]_Abstract!lvars
    BY <1>5, PushAdds, DynaAssumption
  <1>6. ASSUME NEW index \in 0 .. MaxLength, Pop(index) \/ Read(index)
        PROVE  [Abstract!ListNext]_Abstract!lvars
    BY <1>6, PopTakesOut, ReadReads
  <1>7. ASSUME NEW granted \in BOOLEAN, Shrink(granted) PROVE [Abstract!ListNext]_Abstract!lvars
    BY <1>7, ShrinkHides
  <1>8. CASE Free
    <2>1. Abstract!Close BY <1>8 DEF Free, Abstract!Close, Contents
    <2> QED BY <2>1 DEF Abstract!ListNext
  <1>9. CASE StartForward \/ StartBackward \/ NextForward \/ NextBackward \/ UNCHANGED dvars
    <2>1. UNCHANGED <<arrayVars, returned>>
      BY <1>9 DEF StartForward, StartBackward, Start, NextForward, NextBackward, Advance, dvars
    <2> QED BY <2>1 DEF arrayVars, Abstract!lvars, Contents
  <1> QED BY <1>3, <1>4, <1>5, <1>6, <1>7, <1>8, <1>9 DEF Next

\* The array implements the list, for every first capacity and length.
THEOREM ArrayIsList == Spec => ListKept
  <1>1. Init => Abstract!ListInit
    <2> SUFFICES ASSUME Init PROVE Abstract!ListInit OBVIOUS
    <2>1. length = 0 /\ returned = Null /\ state = "none" BY DEF Init
    <2>2. Contents = <<>> BY <2>1 DEF Contents
    <2> QED BY <2>1, <2>2 DEF Abstract!ListInit
  <1>2. DynaInv /\ DynaInv' /\ [Next]_dvars => [Abstract!ListNext]_Abstract!lvars
    BY StepListed
  <1> QED BY <1>1, <1>2, DynaInvariant, PTL DEF Spec, ListKept, Abstract!ListSpec
=============================================================================
