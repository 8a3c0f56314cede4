-------------------------------- MODULE List --------------------------------
(***************************************************************************)
(* What tapi_dyna_t is to its users: a list of pointers, without the       *)
(* allocation behind it.  An operation that takes memory may fail; then    *)
(* the list stays as it was.                                               *)
(***************************************************************************)
EXTENDS Integers, Sequences, SequencesExt

CONSTANTS
  Items,  \* the pointers that may be listed
  Null    \* what an index outside the list gives

VARIABLES
  items,    \* the list
  answer,   \* what the last pop or get returned
  alive     \* between creation and the end

lvars == <<items, answer, alive>>

ListInit ==
  /\ items = <<>>
  /\ answer = Null
  /\ alive = FALSE

Open ==
  /\ ~alive
  /\ alive' = TRUE
  /\ items' \in Seq(Items)
  /\ UNCHANGED answer

Add(x) ==
  /\ alive
  /\ items' = Append(items, x)
  /\ UNCHANGED <<answer, alive>>

\* Indices count from zero.
TakeOut(index) ==
  /\ alive
  /\ index < Len(items)
  /\ answer' = items[index + 1]
  /\ items' = RemoveAt(items, index + 1)
  /\ UNCHANGED alive

Read(index) ==
  /\ alive
  /\ answer' = IF index < Len(items) THEN items[index + 1] ELSE Null
  /\ UNCHANGED <<items, alive>>

Miss ==
  /\ alive
  /\ answer' = Null
  /\ UNCHANGED <<items, alive>>

Close ==
  /\ alive
  /\ alive' = FALSE
  /\ UNCHANGED <<items, answer>>

ListNext ==
  \/ Open
  \/ \E x \in Items : Add(x)
  \/ \E index \in 0 .. Len(items) : TakeOut(index) \/ Read(index)
  \/ Miss
  \/ Close

ListSpec == ListInit /\ [][ListNext]_lvars
=============================================================================
