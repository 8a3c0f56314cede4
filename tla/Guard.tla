------------------------------- MODULE Guard -------------------------------
(***************************************************************************)
(* The write-protect guards of src/int/guard.c (posix build): before a     *)
(* call instruction is patched its page is made writable and remembered in *)
(* one process-wide list, and guard_cleanup gives every remembered page    *)
(* back as read/execute.                                                   *)
(*                                                                         *)
(* The operations are operators over this module's variables; Mock calls   *)
(* them inside its own actions, as patch_call_target and tapi_test_run do. *)
(***************************************************************************)
EXTENDS Integers, Sequences, FiniteSets

CONSTANTS
  PageSize,         \* sysconf(_SC_PAGESIZE), a power of two
  Pages,            \* the page numbers of the code under test
  MprotectOutcomes, \* what mprotect may answer: TRUE granted, FALSE failed
  ReallocOutcomes,  \* what realloc may answer when a list has to grow
  FullLengths       \* the lengths at which a list is full: 0, 16, 32, 64, ...

ASSUME GuardAssumption ==
  /\ PageSize \in Nat \ {0}
  /\ Pages \subseteq Nat
  /\ MprotectOutcomes \subseteq BOOLEAN
  /\ MprotectOutcomes # {}
  /\ ReallocOutcomes \subseteq BOOLEAN
  /\ ReallocOutcomes # {}
  /\ FullLengths \subseteq Nat

VARIABLES
  prot,    \* page -> "rx" or "rwx": the kernel's protection of each page
  guards,  \* the list behind the static pointer `guards'
  gstate,  \* that pointer: "null", "live", or "freed" (cleanup leaves it dangling)
  lost     \* history: the pages that were opened for a guard no list took

gvars == <<prot, guards, gstate, lost>>

-----------------------------------------------------------------------------
PageOf(addr) == addr \div PageSize

\* page & ~(size - 1): the page boundary at or below an address.
PageAlignDown(addr) == PageSize * PageOf(addr)

\* The pages that hold the bytes addr .. addr + len - 1.
PagesOf(addr, len) ==
  {p \in Pages : PageOf(addr) <= p /\ p <= PageOf(addr + len - 1)}

GuardRecord == [address : Nat, length : Nat, ref_count : Nat]

GuardTypeOK ==
  /\ prot \in [Pages -> {"rx", "rwx"}]
  /\ guards \in Seq(GuardRecord)
  /\ gstate \in {"null", "live", "freed"}
  /\ lost \subseteq Pages
  /\ lost # {} => FALSE \in ReallocOutcomes

\* tapi_dyna_push, on the lists the library keeps: none of them is ever popped,
\* so the length tells the capacity.  A realloc that fails is reported, and the
\* item is dropped.
HasRoom(list, grown) == grown \/ Len(list) \notin FullLengths

Pushed(list, item, grown) == IF HasRoom(list, grown) THEN Append(list, item) ELSE list

\* mprotect over the pages of a range that starts on a page boundary.
Protected(ps, mode) == [p \in Pages |-> IF p \in ps THEN mode ELSE prot[p]]

\* The pages a listed guard stands for.
GuardPages(k) == PagesOf(guards[k].address, guards[k].length)

\* The entries that guard_create takes for the request.  It compares the raw
\* address of the request with the aligned address of the entry.
Matching(addr, len) ==
  {k \in DOMAIN guards : guards[k].address = addr /\ guards[k].length = len}

NewGuard(addr, len) ==
  [address |-> PageAlignDown(addr), length |-> len, ref_count |-> 1]

\* What guard_create(addr, len) leaves when mprotect would answer `granted' and
\* realloc `grown': the protection, the list, and what the list failed to take.
ProtAfterCreate(addr, len, granted) ==
  IF Matching(addr, len) = {} /\ granted
    THEN Protected(PagesOf(PageAlignDown(addr), len), "rwx")
    ELSE prot

IsFirstMatch(k, addr, len) ==
  /\ k \in Matching(addr, len)
  /\ \A n \in Matching(addr, len) : k <= n

\* Deviation: a guard whose mprotect failed is listed like the others.
GuardsListedAnyway(addr, len, granted, grown) == Pushed(guards, NewGuard(addr, len), grown)

GuardsAfterCreate(addr, len, granted, grown) ==
  IF Matching(addr, len) # {}
    THEN [k \in DOMAIN guards |->
            IF IsFirstMatch(k, addr, len)
              THEN [guards[k] EXCEPT !.ref_count = @ + 1]
              ELSE guards[k]]
  ELSE IF granted THEN Pushed(guards, NewGuard(addr, len), grown)
  ELSE guards

LostAfterCreate(addr, len, granted, grown) ==
  IF Matching(addr, len) = {} /\ granted /\ ~HasRoom(guards, grown)
    THEN lost \union PagesOf(PageAlignDown(addr), len)
    ELSE lost

\* guard_create, on a list that was not yet freed.
GuardCreate(addr, len, granted) ==
  /\ gstate # "freed"
  /\ prot' = ProtAfterCreate(addr, len, granted)
  /\ \E grown \in ReallocOutcomes :
       /\ guards' = GuardsAfterCreate(addr, len, granted, grown)
       /\ lost' = LostAfterCreate(addr, len, granted, grown)
  /\ gstate' = "live"

\* Deviation: the loop stops one guard early.
ClosedButLast(outcome) ==
  UNION {GuardPages(k) : k \in {n \in DOMAIN guards : outcome[n] /\ n < Len(guards)}}

\* guard_cleanup: close every guard in turn (an mprotect that fails is only
\* reported), free the list, and leave the pointer as it was.
ClosedPages(outcome) == UNION {GuardPages(k) : k \in {n \in DOMAIN guards : outcome[n]}}

GuardCleanup ==
  \/ /\ gstate = "null"
     /\ UNCHANGED gvars
  \/ /\ gstate = "live"
     /\ \E outcome \in [DOMAIN guards -> MprotectOutcomes] :
          prot' = Protected(ClosedPages(outcome), "rx")
     /\ guards' = <<>>
     /\ gstate' = "freed"
     /\ UNCHANGED lost

GuardInit ==
  /\ prot = [p \in Pages |-> "rx"]
  /\ guards = <<>>
  /\ gstate = "null"
  /\ lost = {}

-----------------------------------------------------------------------------
\* A page of the program is writable exactly as long as the list knows it, or
\* tapi_dyna_push lost its guard behind a granted mprotect: the raw-against-
\* aligned comparison of guard_create may add entries twice or count a
\* reference without calling mprotect, but it must not open a page in any other
\* way that guard_cleanup would not find, nor count a reference to a page that
\* is closed (guard_create, guard_cleanup).
OpenPagesListed ==
  gstate # "freed" =>
    \A p \in Pages :
      prot[p] = "rwx" <=> p \in lost \/ \E k \in DOMAIN guards : p \in GuardPages(k)

\* When mprotect does not fail, nothing of the code stays writable once
\* guard_cleanup has run but pages whose guard the list failed to take, whatever
\* was asked for before and however the requests overlapped (guard_cleanup,
\* guard_close).
CleanupClosesAll ==
  (gstate = "freed" /\ FALSE \notin MprotectOutcomes) =>
    \A p \in Pages : prot[p] = "rwx" => p \in lost
=============================================================================
