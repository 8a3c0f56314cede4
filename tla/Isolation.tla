----------------------------- MODULE Isolation -----------------------------
(***************************************************************************)
(* What the mocks of a test promise to the rest of the program (usage and  *)
(* mock.h: "isolation from other functions"), without saying how calls are *)
(* searched, guarded or patched.  A test borrows the code: it diverts some *)
(* calls that are still the program's own, its function runs on code that  *)
(* does not move, and before anything else runs every call that differs    *)
(* from the program has been given back, one at a time.                    *)
(***************************************************************************)
CONSTANTS Sites, Callees

VARIABLES
  original,  \* site -> callee, as linked
  code,      \* site -> callee, now
  phase      \* "clean", "diverting", "running", "undoing", "dead"

ivars == <<original, code, phase>>

IsolationInit ==
  /\ original \in [Sites -> Callees]
  /\ code = original
  /\ phase = "clean"

Borrow ==
  /\ phase = "clean"
  /\ code = original
  /\ phase' = "diverting"
  /\ UNCHANGED <<original, code>>

Divert(a, c) ==
  /\ phase = "diverting"
  /\ code[a] = original[a]
  /\ code' = [code EXCEPT ![a] = c]
  /\ UNCHANGED <<original, phase>>

RunFunction ==
  /\ phase = "diverting"
  /\ phase' = "running"
  /\ UNCHANGED <<original, code>>

FunctionDone ==
  /\ phase = "running"
  /\ phase' = "undoing"
  /\ UNCHANGED <<original, code>>

Undo(a) ==
  /\ phase = "undoing"
  /\ code[a] # original[a]
  /\ code' = [code EXCEPT ![a] = original[a]]
  /\ UNCHANGED <<original, phase>>

Return ==
  /\ phase = "undoing"
  /\ code = original
  /\ phase' = "clean"
  /\ UNCHANGED <<original, code>>

\* The process may die, but only while the code is the program's own.
Die ==
  /\ phase = "clean"
  /\ phase' = "dead"
  /\ UNCHANGED <<original, code>>

IsolationNext ==
  \/ Borrow
  \/ \E a \in Sites, c \in Callees : Divert(a, c)
  \/ RunFunction
  \/ FunctionDone
  \/ \E a \in Sites : Undo(a)
  \/ Return
  \/ Die

IsolationSpec == IsolationInit /\ [][IsolationNext]_ivars
=============================================================================
