-------------------------------- MODULE Dyna --------------------------------
(***************************************************************************)
(* The dynamic array of src/src/dyna.c and the loops of tapi/dyna.h.  It   *)
(* holds the suite, the mocks of a test and the guards, and is public.     *)
(*                                                                         *)
(* One array is followed from its creation to its end.  realloc and calloc *)
(* are the allocator's: they may fail, and realloc(p, 0) gives null or a   *)
(* unique pointer, as the C library chooses.                               *)
(***************************************************************************)
EXTENDS Integers, Sequences, SequencesExt

CONSTANTS
  Items,        \* the pointers that are pushed; none is null
  Null,         \* 0x0
  Garbage,      \* the content of memory nobody wrote
  First,        \* capacity of the first allocation, 16 in the code
  EmptyOutcomes,   \* does realloc(p, 0) give a pointer?
  ReallocOutcomes, \* does any other realloc?
  MaxLength     \* bound: elements

ASSUME DynaAssumption ==
  /\ Null \notin Items
  /\ Garbage \notin Items
  /\ Null # Garbage
  /\ First \in Nat \ {0}
  /\ EmptyOutcomes \subseteq BOOLEAN
  /\ ReallocOutcomes \subseteq BOOLEAN
  /\ MaxLength \in Nat

VARIABLES
  state,     \* "none", "live", "freed", or "exited" when the process is gone
  data,      \* index -> pointer, for the indices that are allocated
  length,
  capacity,
  block,     \* is array->data a block of the heap (TRUE) or null?
  returned,  \* what the last pop or get returned
  loop,      \* "none", "forward", "backward", or "done"
  cursor,    \* the loop's iter
  visited,   \* what the loop's body was given so far
  before,    \* the contents when the loop began
  popped     \* where the body popped: "seen" elements, or elements "ahead"

arrayVars == <<state, data, length, capacity, block>>
loopVars == <<loop, cursor, visited, before, popped>>
dvars == <<arrayVars, returned, loopVars>>

Cells(n) == 0 .. n - 1

DynaTypeOK ==
  /\ state \in {"none", "live", "freed", "exited"}
  /\ length \in Nat
  /\ capacity \in Nat
  /\ length <= capacity
  /\ data \in [Cells(capacity) -> Items \union {Garbage}]
  /\ block \in BOOLEAN
  /\ returned \in Items \union {Null}
  /\ loop \in {"none", "forward", "backward", "done"}
  /\ cursor \in Nat
  /\ visited \in Seq(Items \union {Null})
  /\ before \in Seq(Items)
  /\ popped \subseteq {"seen", "ahead"}

\* tapi_dyna_get.
Get(index) == IF index < length THEN data[index] ELSE Null

Looping == loop \in {"forward", "backward"}

Contents == [k \in 1 .. length |-> data[k - 1]]

-----------------------------------------------------------------------------
Create ==
  /\ state = "none"
  /\ state' = "live"
  /\ UNCHANGED <<data, length, capacity, block, returned, loopVars>>

\* tapi_dyna_make: calloc gives a block even for no elements.
Make(s) ==
  /\ state = "none"
  /\ state' = "live"
  /\ length' = Len(s)
  /\ capacity' = Len(s)
  /\ data' = [k \in Cells(Len(s)) |-> s[k + 1]]
  /\ block' = TRUE
  /\ UNCHANGED <<returned, loopVars>>

\* What realloc to n cells leaves in them.
Resized(n) == [k \in Cells(n) |-> IF k < capacity THEN data[k] ELSE Garbage]

GrownCapacity == IF capacity = 0 THEN First ELSE 2 * capacity

\* Deviation: the array grows only when the item is past the end.
FullLate == length > capacity

Full == length >= capacity

\* tapi_dyna_push; `granted' is realloc's answer, which matters when full.
Push(x, granted) ==
  /\ state = "live"
  /\ length < MaxLength
  /\ IF Full /\ ~granted
       THEN UNCHANGED <<data, length, capacity, block>>
       ELSE /\ capacity' = IF Full THEN GrownCapacity ELSE capacity
            /\ data' = [Resized(capacity') EXCEPT ![length] = x]
            /\ length' = length + 1
            /\ block' = TRUE
  /\ UNCHANGED <<state, returned, loopVars>>

\* Deviation: the shift stops one element early.
ShiftedButLast(index) ==
  [k \in Cells(capacity) |->
     IF index <= k /\ k + 2 < length THEN data[k + 1] ELSE data[k]]

\* Everything behind index moves down by one; the last cell keeps its copy.
Shifted(index) ==
  [k \in Cells(capacity) |->
     IF index <= k /\ k + 1 < length THEN data[k + 1] ELSE data[k]]

\* Ghost: the elements that a running loop has been through.
Seen(index) == IF loop = "forward" THEN index <= cursor ELSE index >= cursor - 1

\* tapi_dyna_pop
Pop(index) ==
  /\ state = "live"
  /\ returned' = Get(index)
  /\ IF index >= length
       THEN UNCHANGED <<data, length, popped>>
       ELSE /\ data' = Shifted(index)
            /\ length' = length - 1
            /\ popped' = IF Looping THEN popped \union {IF Seen(index) THEN "seen" ELSE "ahead"}
                         ELSE popped
  /\ UNCHANGED <<state, capacity, block, loop, cursor, visited, before>>

Read(index) ==
  /\ state = "live"
  /\ returned' = Get(index)
  /\ UNCHANGED <<arrayVars, loopVars>>

\* tapi_dyna_shrink.  A null answer is taken for a failure, also the one that
\* realloc gives for no elements.
Shrink(granted) ==
  /\ state = "live"
  /\ granted \in (IF length = 0 /\ block THEN EmptyOutcomes ELSE ReallocOutcomes)
  /\ IF granted
       THEN /\ data' = Resized(length)
            /\ capacity' = length
            /\ block' = TRUE
            /\ UNCHANGED state
       ELSE /\ state' = "exited"
            /\ UNCHANGED <<data, capacity, block>>
  /\ UNCHANGED <<length, returned, loopVars>>

\* tapi_dyna_free
Free ==
  /\ state = "live"
  /\ ~Looping
  /\ state' = "freed"
  /\ UNCHANGED <<data, length, capacity, block, returned, loopVars>>

-----------------------------------------------------------------------------
(* DYNA_FOREACH and DYNA_INV_FOREACH: between two steps the body runs *)

Start(direction, iter, index) ==
  /\ state = "live"
  /\ ~Looping
  /\ length > 0
  /\ loop' = direction
  /\ cursor' = iter
  /\ visited' = <<Get(index)>>
  /\ before' = Contents
  /\ popped' = {}
  /\ UNCHANGED <<arrayVars, returned>>

StartForward == Start("forward", 0, 0)

StartBackward == Start("backward", length, length - 1)

\* The loop goes on at iter, with the element at index, or ends.
Advance(direction, more, iter, index) ==
  /\ state = "live"
  /\ loop = direction
  /\ IF more
       THEN cursor' = iter /\ visited' = Append(visited, Get(index)) /\ UNCHANGED loop
       ELSE loop' = "done" /\ UNCHANGED <<cursor, visited>>
  /\ UNCHANGED <<arrayVars, returned, before, popped>>

\* Deviation: the loop's test is `iter <= length'.
NextForwardPast == Advance("forward", cursor + 1 <= length, cursor + 1, cursor + 1)

NextForward == Advance("forward", cursor + 1 < length, cursor + 1, cursor + 1)

\* Deviation: the element is read at iter itself.
NextBackwardAtIter == Advance("backward", cursor > 1, cursor - 1, cursor - 1)

NextBackward == Advance("backward", cursor > 1, cursor - 1, cursor - 2)

Init ==
  /\ state = "none"
  /\ data = <<>>
  /\ length = 0
  /\ capacity = 0
  /\ block = FALSE
  /\ returned = Null
  /\ loop = "none"
  /\ cursor = 0
  /\ visited = <<>>
  /\ before = <<>>
  /\ popped = {}

Arrays == UNION {[1 .. n -> Items] : n \in 0 .. MaxLength}

Next ==
  \/ Create
  \/ \E s \in Arrays : Make(s)
  \/ \E x \in Items, granted \in ReallocOutcomes : Push(x, granted)
  \/ \E index \in 0 .. MaxLength : Pop(index) \/ Read(index)
  \/ \E granted \in BOOLEAN : Shrink(granted)
  \/ Free
  \/ StartForward
  \/ NextForward
  \/ StartBackward
  \/ NextBackward

Spec == Init /\ [][Next]_dvars

-----------------------------------------------------------------------------
Abstract == INSTANCE List WITH
  items <- Contents, answer <- returned, alive <- state = "live"

\* Whatever grows, shrinks and fails underneath, pushes, pops and reads are
\* those of a list: nothing is lost, exchanged or read from memory that was
\* never written, and a push whose realloc fails leaves the rest intact.
ListKept == Abstract!ListSpec

\* A forward loop reads the length again before every element: unless its
\* body pops what it has seen, it visits what is listed in the end, elements
\* pushed meanwhile included, each one once and in order (DYNA_FOREACH).
ForwardVisitsAll ==
  [][(loop = "forward" /\ loop' = "done" /\ "seen" \notin popped) =>
       visited = Contents]_dvars

\* A backward loop takes the length once: unless its body pops what is still
\* ahead, it visits what was listed in the beginning, each element once,
\* whatever is pushed, popped behind it or shrunk (DYNA_INV_FOREACH).
BackwardVisitsAll ==
  [][(loop = "backward" /\ loop' = "done" /\ "ahead" \notin popped) =>
       visited = Reverse(before)]_dvars

\* No body is handed a null pointer, except by a backward loop whose body
\* popped elements that were still ahead (DYNA_GET in both loops).
NullExplained ==
  (\E k \in DOMAIN visited : visited[k] = Null) =>
    loop # "forward" /\ "ahead" \in popped

\* "realloc failed; could not allocate memory for shrink ... exit on failure"
\* (dyna.c:137-138): the process ends only when memory was refused.
ExitsOnlyOnFailure == state = "exited" => FALSE \in ReallocOutcomes
=============================================================================
