---------------------------- MODULE GuardProofs ----------------------------
(***************************************************************************)
(* What guard_create and guard_cleanup do to the list and to the pages,    *)
(* for every page size, set of pages, request and outcome of mprotect and  *)
(* of realloc: the lemmas are about any step that makes these calls,       *)
(* whatever module the step belongs to, and the proofs about the runner    *)
(* cite them.                                                              *)
(***************************************************************************)
EXTENDS Guard, TLAPS

\* Rounding a natural number down to a page gives a natural number.
LEMMA AlignedNat ==
  ASSUME NEW addr \in Nat
  PROVE  PageAlignDown(addr) \in Nat
  <1>1. PageSize \in Nat \ {0} BY GuardAssumption
  <1>2. addr \div PageSize \in Nat BY <1>1
  <1> QED BY <1>1, <1>2 DEF PageAlignDown, PageOf

\* A push appends, or leaves the list as it was: what was there stays.
LEMMA PushedFacts ==
  ASSUME NEW S, NEW list \in Seq(S), NEW item \in S, NEW grown
  PROVE  /\ Pushed(list, item, grown) \in Seq(S)
         /\ Pushed(list, item, grown) \in {list, Append(list, item)}
         /\ \A k \in DOMAIN list :
              k \in DOMAIN Pushed(list, item, grown) /\ Pushed(list, item, grown)[k] = list[k]
  <1>1. CASE Pushed(list, item, grown) = list
    BY <1>1
  <1>2. CASE Pushed(list, item, grown) = Append(list, item)
    BY <1>2
  <1> QED BY <1>1, <1>2 DEF Pushed

\* guard_create keeps the types of the guard's state.
LEMMA CreateTypeOK ==
  ASSUME GuardTypeOK, NEW addr \in Nat, NEW len \in Nat \ {0},
         NEW granted \in BOOLEAN, GuardCreate(addr, len, granted)
  PROVE  GuardTypeOK'
  <1>1. prot' \in [Pages -> {"rx", "rwx"}]
    BY DEF GuardTypeOK, GuardCreate, ProtAfterCreate, Protected
  <1>2. guards' \in Seq(GuardRecord)
    <2>1. CASE Matching(addr, len) # {}
      <3>1. guards \in [1 .. Len(guards) -> GuardRecord] /\ Len(guards) \in Nat
        BY DEF GuardTypeOK
      <3>2. guards' = [k \in 1 .. Len(guards) |->
                         IF IsFirstMatch(k, addr, len)
                           THEN [guards[k] EXCEPT !.ref_count = @ + 1]
                           ELSE guards[k]]
        BY <2>1 DEF GuardCreate, GuardsAfterCreate, GuardTypeOK
      <3>3. \A k \in 1 .. Len(guards) :
              [guards[k] EXCEPT !.ref_count = @ + 1] \in GuardRecord
        BY <3>1 DEF GuardRecord
      <3>4. guards' \in [1 .. Len(guards) -> GuardRecord]
        BY <3>1, <3>2, <3>3
      <3> QED BY <3>1, <3>4
    <2>2. CASE Matching(addr, len) = {}
      <3>1. NewGuard(addr, len) \in GuardRecord
        BY AlignedNat DEF NewGuard, GuardRecord
      <3>2. \A g \in BOOLEAN : Pushed(guards, NewGuard(addr, len), g) \in Seq(GuardRecord)
        BY <3>1, PushedFacts DEF GuardTypeOK
      <3>3. PICK g \in ReallocOutcomes : guards' = GuardsAfterCreate(addr, len, granted, g)
        BY DEF GuardCreate
      <3> QED BY <2>2, <3>2, <3>3, GuardAssumption DEF GuardTypeOK, GuardsAfterCreate
    <2> QED BY <2>1, <2>2
  <1>3. lost' \subseteq Pages /\ (lost' # {} => FALSE \in ReallocOutcomes)
    BY GuardAssumption
    DEF GuardTypeOK, GuardCreate, LostAfterCreate, HasRoom, PagesOf
  <1> QED BY <1>1, <1>2, <1>3 DEF GuardTypeOK, GuardCreate

\* guard_create keeps the list, with what it failed to take, and the open pages
\* in step, on each of its four paths: counted, granted and listed, granted and
\* lost, failed.
LEMMA CreateKeepsListed ==
  ASSUME GuardTypeOK, OpenPagesListed, NEW addr \in Nat, NEW len \in Nat \ {0},
         NEW granted \in BOOLEAN, GuardCreate(addr, len, granted)
  PROVE  OpenPagesListed'
  <1> DEFINE Listed(p) == \E k \in DOMAIN guards : p \in GuardPages(k)
  <1>0. \A p \in Pages : prot[p] = "rwx" <=> p \in lost \/ Listed(p)
    BY DEF OpenPagesListed, GuardCreate
  <1> SUFFICES ASSUME NEW p \in Pages
               PROVE  prot'[p] = "rwx"
                        <=> p \in lost' \/ \E k \in DOMAIN guards' : p \in GuardPages(k)'
    BY DEF OpenPagesListed
  <1>g. PICK grown \in ReallocOutcomes :
          /\ guards' = GuardsAfterCreate(addr, len, granted, grown)
          /\ lost' = LostAfterCreate(addr, len, granted, grown)
    BY DEF GuardCreate
  <1>1. CASE Matching(addr, len) # {}
    <2>1. prot' = prot /\ lost' = lost
      BY <1>1, <1>g DEF GuardCreate, ProtAfterCreate, LostAfterCreate
    <2>2. guards' = [k \in DOMAIN guards |->
                       IF IsFirstMatch(k, addr, len)
                         THEN [guards[k] EXCEPT !.ref_count = @ + 1]
                         ELSE guards[k]]
      BY <1>1, <1>g DEF GuardsAfterCreate
    <2>3. DOMAIN guards' = DOMAIN guards
      BY <2>2
    <2>4. \A k \in DOMAIN guards : guards[k] \in GuardRecord
      BY DEF GuardTypeOK
    <2>5. \A k \in DOMAIN guards : /\ guards'[k].address = guards[k].address
                                   /\ guards'[k].length = guards[k].length
      BY <2>2, <2>4 DEF GuardRecord
    <2>6. \A k \in DOMAIN guards : GuardPages(k)' = GuardPages(k)
      BY <2>5 DEF GuardPages, PagesOf
    <2> QED BY <1>0, <2>1, <2>3, <2>6
  <1>2. CASE Matching(addr, len) = {} /\ granted /\ HasRoom(guards, grown)
    <2>1. guards' = Append(guards, NewGuard(addr, len)) /\ lost' = lost
      BY <1>2, <1>g DEF GuardsAfterCreate, LostAfterCreate, Pushed
    <2>2. prot' = Protected(PagesOf(PageAlignDown(addr), len), "rwx")
      BY <1>2 DEF GuardCreate, ProtAfterCreate
    <2>3. NewGuard(addr, len) \in GuardRecord
      BY AlignedNat DEF NewGuard, GuardRecord
    <2>4. PICK n \in Nat : n = Len(guards) + 1
      BY DEF GuardTypeOK
    <2>5. /\ DOMAIN guards' = DOMAIN guards \union {n}
          /\ \A k \in DOMAIN guards : guards'[k] = guards[k]
          /\ guards'[n] = NewGuard(addr, len)
      BY <2>1, <2>3, <2>4 DEF GuardTypeOK
    <2>6. \A k \in DOMAIN guards : GuardPages(k)' = GuardPages(k)
      BY <2>5 DEF GuardPages
    <2>7. GuardPages(n)' = PagesOf(PageAlignDown(addr), len)
      <3>1. guards'[n].address = PageAlignDown(addr) /\ guards'[n].length = len
        BY <2>5 DEF NewGuard
      <3> QED BY <3>1 DEF GuardPages
    <2>8. (\E k \in DOMAIN guards' : p \in GuardPages(k)')
            <=> Listed(p) \/ p \in PagesOf(PageAlignDown(addr), len)
      BY <2>5, <2>6, <2>7
    <2>9. prot'[p] = "rwx" <=> prot[p] = "rwx" \/ p \in PagesOf(PageAlignDown(addr), len)
      BY <2>2 DEF Protected
    <2> QED BY <1>0, <2>1, <2>8, <2>9
  <1>3. CASE Matching(addr, len) = {} /\ granted /\ ~HasRoom(guards, grown)
    <2>1. guards' = guards /\ lost' = lost \union PagesOf(PageAlignDown(addr), len)
      BY <1>3, <1>g DEF GuardsAfterCreate, LostAfterCreate, Pushed
    <2>2. prot' = Protected(PagesOf(PageAlignDown(addr), len), "rwx")
      BY <1>3 DEF GuardCreate, ProtAfterCreate
    <2>3. prot'[p] = "rwx" <=> prot[p] = "rwx" \/ p \in PagesOf(PageAlignDown(addr), len)
      BY <2>2 DEF Protected
    <2> QED BY <1>0, <2>1, <2>3 DEF GuardPages, PagesOf
  <1>4. CASE Matching(addr, len) = {} /\ ~granted
    <2>1. guards' = guards /\ lost' = lost /\ prot' = prot
      BY <1>4, <1>g
      DEF GuardCreate, GuardsAfterCreate, LostAfterCreate, ProtAfterCreate
    <2> QED BY <1>0, <2>1 DEF GuardPages, PagesOf
  <1> QED BY <1>1, <1>2, <1>3, <1>4

\* guard_create opens pages, it closes none.
LEMMA CreateOnlyOpens ==
  ASSUME GuardTypeOK, NEW addr \in Nat, NEW len \in Nat \ {0},
         NEW granted \in BOOLEAN, GuardCreate(addr, len, granted), NEW p \in Pages,
         prot[p] = "rwx"
  PROVE  prot'[p] = "rwx"
  BY DEF GuardCreate, ProtAfterCreate, Protected

\* Unless mprotect fails, what a call needs inside the page asked for and inside
\* the page of its address is open afterwards, also when guard_create answers
\* by counting alone.
LEMMA CreateOpens ==
  ASSUME GuardTypeOK, OpenPagesListed, gstate # "freed", NEW addr, NEW len,
         NEW granted, granted \/ Matching(addr, len) # {},
         NEW p \in Pages, p \in PagesOf(addr, len), p \in PagesOf(PageAlignDown(addr), len)
  PROVE  ProtAfterCreate(addr, len, granted)[p] = "rwx"
  <1>1. CASE Matching(addr, len) = {}
    BY <1>1 DEF ProtAfterCreate, Protected
  <1>2. CASE Matching(addr, len) # {}
    <2>1. PICK k \in DOMAIN guards : guards[k].address = addr /\ guards[k].length = len
      BY <1>2 DEF Matching
    <2>2. p \in GuardPages(k)
      BY <2>1 DEF GuardPages
    <2>3. prot[p] = "rwx"
      BY <2>2 DEF OpenPagesListed
    <2> QED BY <1>2, <2>3 DEF ProtAfterCreate
  <1> QED BY <1>1, <1>2

\* guard_cleanup keeps the types.
LEMMA CleanupTypeOK ==
  ASSUME GuardTypeOK, GuardCleanup
  PROVE  GuardTypeOK'
  <1>1. CASE gstate = "null" /\ UNCHANGED gvars
    BY <1>1 DEF GuardTypeOK, gvars
  <1>2. CASE gstate = "live"
    <2>1. PICK outcome \in [DOMAIN guards -> MprotectOutcomes] :
            prot' = Protected(ClosedPages(outcome), "rx")
      BY <1>2 DEF GuardCleanup
    <2>2. prot' \in [Pages -> {"rx", "rwx"}]
      BY <2>1 DEF Protected, GuardTypeOK
    <2>3. guards' = <<>> /\ gstate' = "freed" /\ lost' = lost
      BY <1>2 DEF GuardCleanup
    <2>4. <<>> \in Seq(GuardRecord)
      OBVIOUS
    <2>5. lost \subseteq Pages /\ (lost # {} => FALSE \in ReallocOutcomes)
      BY DEF GuardTypeOK
    <2>6. guards' \in Seq(GuardRecord)
      BY <2>3, <2>4
    <2>7. lost' \subseteq Pages /\ (lost' # {} => FALSE \in ReallocOutcomes)
      BY <2>3, <2>5
    <2> QED BY <2>2, <2>3, <2>6, <2>7 DEF GuardTypeOK
  <1> QED BY <1>1, <1>2 DEF GuardCleanup

\* It leaves no list to compare with the pages.
LEMMA CleanupKeeps ==
  ASSUME GuardTypeOK, OpenPagesListed, GuardCleanup
  PROVE  GuardTypeOK' /\ OpenPagesListed'
  <1>1. gstate = "null" => OpenPagesListed'
    BY DEF GuardCleanup, gvars, OpenPagesListed, GuardPages, PagesOf
  <1>2. gstate = "live" => gstate' = "freed"
    BY DEF GuardCleanup
  <1>3. gstate \in {"null", "live"}
    BY DEF GuardCleanup
  <1> QED BY <1>1, <1>2, <1>3, CleanupTypeOK DEF OpenPagesListed

\* When mprotect cannot fail, guard_cleanup closes every page but those it lost.
LEMMA CleanupCloses ==
  ASSUME GuardTypeOK, OpenPagesListed, CleanupClosesAll, GuardCleanup
  PROVE  CleanupClosesAll'
  <1> SUFFICES ASSUME gstate' = "freed", FALSE \notin MprotectOutcomes,
                      NEW p \in Pages, p \notin lost'
               PROVE  prot'[p] # "rwx"
    BY DEF CleanupClosesAll
  <1>0. CASE gstate = "null"
    BY <1>0 DEF GuardCleanup, gvars
  <1>1. CASE gstate = "live"
    <2>1. PICK outcome \in [DOMAIN guards -> MprotectOutcomes] :
            prot' = Protected(ClosedPages(outcome), "rx")
      BY <1>1 DEF GuardCleanup
    <2>2. \A k \in DOMAIN guards : outcome[k] = TRUE
      BY <2>1, GuardAssumption
    <2>3. CASE \E k \in DOMAIN guards : p \in GuardPages(k)
      <3>1. p \in ClosedPages(outcome)
        BY <2>2, <2>3 DEF ClosedPages
      <3> QED BY <2>1, <3>1 DEF Protected
    <2>4. CASE ~\E k \in DOMAIN guards : p \in GuardPages(k)
      <3>1. p \notin lost
        BY <1>1 DEF GuardCleanup
      <3>2. prot[p] # "rwx"
        BY <1>1, <2>4, <3>1 DEF OpenPagesListed
      <3> QED BY <2>1, <3>2 DEF Protected
    <2> QED BY <2>3, <2>4
  <1> QED BY <1>0, <1>1 DEF GuardCleanup
=============================================================================
