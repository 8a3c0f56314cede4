---------------------------- MODULE RunnerProofs ----------------------------
(***************************************************************************)
(* The invariant of RunnerInv, and what it gives, for one run of a         *)
(* disciplined suite: for every program, every set of tests and of mocks,  *)
(* and every choice of points at which callbacks edit the suite.           *)
(***************************************************************************)
EXTENDS RunnerInv, GuardProofs

\* First what the pieces of a run do under DisciplineAssumption: the search,
\* the patch, mock_apply, mock_restore, and the steps of user code.

\* With 64-bit addresses above 4 GB and no two callees at one address, the
\* search finds exactly the calls that go to the target.
LEMMA FindsExact ==
  ASSUME MockTypeOK, NEW f \in Tested, NEW t \in Callees
  PROVE  Finds(f, t) = {a \in Span[f] : text[a] = t}
  <1>1. Span[f] \subseteq Sites
    BY MockAssumption
  <1>2. ASSUME NEW a \in Sites
        PROVE  Decoded(a) = Entry[t] <=> text[a] = t
    <2>1. text[a] \in Callees
      BY DEF MockTypeOK
    <2>2. ~Misread(text[a])
      BY <2>1, DisciplineAssumption DEF Disciplined
    <2>3. Entry[text[a]] = Entry[t] => text[a] = t
      BY <2>1, MockAssumption
    <2> QED BY <2>2, <2>3 DEF Decoded
  <1> QED BY <1>1, <1>2 DEF Finds

\* The guard made for a call site opens the bytes that the patch writes, be
\* it a new guard or one the list already had.
LEMMA PatchWritable ==
  ASSUME GuardTypeOK, OpenPagesListed, gstate # "freed", NEW a \in Sites
  PROVE  Writable(a, ProtAfterCreate(a, Length[a], TRUE))
  <1> SUFFICES ASSUME NEW p \in PagesOf(a + 1, 4)
               PROVE  ProtAfterCreate(a, Length[a], TRUE)[p] = "rwx"
    BY DEF Writable
  <1>1. p \in Pages
    BY DEF PagesOf
  <1>2. p \in PagesOf(a, Length[a]) /\ p \in PagesOf(PageAlignDown(a), Length[a])
    BY DisciplineAssumption DEF Disciplined, WithinGuard
  <1> QED BY <1>1, <1>2, CreateOpens

\* Under discipline a patch is never refused and never faults.
LEMMA NoPatchCrash ==
  ASSUME GuardTypeOK, OpenPagesListed, gstate # "freed",
         NEW a \in Sites, NEW c \in Callees, NEW granted \in MprotectOutcomes
  PROVE  ~PatchCrash(a, c, granted)
  <1>1. granted = TRUE
    BY DisciplineAssumption DEF Disciplined
  <1>2. Writable(a, ProtAfterCreate(a, Length[a], granted))
    BY <1>1, PatchWritable
  <1> QED BY <1>2 DEF PatchCrash

\* In a disciplined program patch_call_target rewrites exactly the call it is
\* given, and changes nothing else but the guards.
LEMMA PatchEffect ==
  ASSUME MockTypeOK, GuardTypeOK, OpenPagesListed, 
         NEW a \in Sites, NEW c \in Callees, NEW granted \in MprotectOutcomes,
         PatchCallTarget(a, c, granted)
  PROVE  /\ text' = [text EXCEPT ![a] = c]
         /\ UNCHANGED <<image, said, status>>
         /\ gstate' = "live"
         /\ GuardTypeOK'
         /\ OpenPagesListed'
  <1>1. granted \in BOOLEAN /\ a \in Nat /\ Length[a] \in Nat \ {0}
    BY GuardAssumption, MockAssumption
  <1>2. Accepts(a, c)
    BY DisciplineAssumption DEF Disciplined
  <1>3. GuardCreate(a, Length[a], granted)
    BY DEF PatchCallTarget
  <1>4. GuardTypeOK' /\ OpenPagesListed'
    BY <1>1, <1>3, CreateTypeOK, CreateKeepsListed
  <1>5. granted
    BY DisciplineAssumption DEF Disciplined
  <1>6. Complaints(a, c, granted) = {}
    BY <1>2, <1>5 DEF Complaints, NotOpened
  <1>7. said' = said
    BY <1>6 DEF PatchCallTarget
  <1> QED BY <1>2, <1>3, <1>4, <1>7 DEF PatchCallTarget, Patch, GuardCreate

-----------------------------------------------------------------------------
\* mock_apply of a fresh mock either finds no call and changes nothing, or
\* diverts the first call to the target.
LEMMA ApplyEffect ==
  ASSUME MockTypeOK, GuardTypeOK, OpenPagesListed, gstate # "freed",
         NEW m \in Mocks, def[m] # None, m \notin freed, MockApply(m)
  PROVE  /\ UNCHANGED <<image, def, freed, status>>
         /\ gstate' # "freed"
         /\ GuardTypeOK'
         /\ OpenPagesListed'
         /\ MockTypeOK'
         /\ \/ UNCHANGED <<text, call, origBytes, mockedBytes>>
            \/ \E a \in Span[def[m].orig] :
                 /\ a \in Sites
                 /\ text[a] = def[m].target
                 /\ \A b \in Span[def[m].orig] : text[b] = def[m].target => a <= b
                 /\ text' = [text EXCEPT ![a] = def[m].mocked]
                 /\ call' = [call EXCEPT ![m] = a]
                 /\ origBytes' = [origBytes EXCEPT ![m] = def[m].target]
                 /\ mockedBytes' = [mockedBytes EXCEPT ![m] = def[m].mocked]
  <1>1. def[m] \in MockDefs /\ def[m] \in [orig : Tested, target : Callees, mocked : Callees]
    BY MockAssumption DEF MockTypeOK
  <1>2. def[m].orig \in Tested /\ def[m].target \in Callees /\ def[m].mocked \in Callees
    BY <1>1
  <1>3. CASE UNCHANGED mvars
    <2>1. UNCHANGED <<prot, guards, gstate, lost, image, text, def, call, origBytes, mockedBytes, freed, status>>
      BY <1>3 DEF mvars, gvars, mockVars
    <2>2. GuardTypeOK' /\ OpenPagesListed'
      BY <2>1 DEF GuardTypeOK, OpenPagesListed, GuardPages, PagesOf
    <2>3. said' \subseteq Messages
      BY <1>3 DEF MockTypeOK, mvars
    <2> QED BY <2>1, <2>2, <2>3 DEF MockTypeOK
  <1>4. ASSUME NEW a \in Sites, NEW granted \in MprotectOutcomes,
               IsFirstCall(def[m].orig, def[m].target, a),
               PatchCallTarget(a, def[m].mocked, granted),
               call' = [call EXCEPT ![m] = a],
               origBytes' = [origBytes EXCEPT ![m] = text[a]],
               mockedBytes' = [mockedBytes EXCEPT ![m] = text'[a]],
               UNCHANGED <<def, freed>>
        PROVE  /\ UNCHANGED <<image, def, freed, status>>
               /\ gstate' # "freed"
               /\ GuardTypeOK'
               /\ OpenPagesListed'
               /\ MockTypeOK'
               /\ a \in Span[def[m].orig]
               /\ text[a] = def[m].target
               /\ \A b \in Span[def[m].orig] : text[b] = def[m].target => a <= b
               /\ text' = [text EXCEPT ![a] = def[m].mocked]
               /\ origBytes' = [origBytes EXCEPT ![m] = def[m].target]
               /\ mockedBytes' = [mockedBytes EXCEPT ![m] = def[m].mocked]
    <2>1. Finds(def[m].orig, def[m].target)
            = {b \in Span[def[m].orig] : text[b] = def[m].target}
      BY <1>2, FindsExact
    <2>2. /\ a \in Span[def[m].orig]
          /\ text[a] = def[m].target
          /\ \A b \in Span[def[m].orig] : text[b] = def[m].target => a <= b
      BY <1>4, <2>1 DEF IsFirstCall
    <2>3. /\ text' = [text EXCEPT ![a] = def[m].mocked]
          /\ UNCHANGED <<image, said, status>>
          /\ gstate' = "live"
          /\ GuardTypeOK'
          /\ OpenPagesListed'
      BY <1>2, <1>4, PatchEffect
    <2>4. text'[a] = def[m].mocked
      BY <2>3 DEF MockTypeOK
    <2>5. MockTypeOK'
      BY <1>2, <1>4, <2>2, <2>3, <2>4 DEF MockTypeOK
    <2> QED BY <1>4, <2>2, <2>3, <2>4, <2>5
  <1>5. ASSUME NEW a \in Sites, NEW granted \in MprotectOutcomes
        PROVE  ~PatchCrash(a, def[m].mocked, granted)
    BY <1>2, NoPatchCrash
  <1>6. ~SearchFails
    BY DisciplineAssumption DEF Disciplined, SearchFails
  <1> QED BY <1>3, <1>4, <1>5, <1>6 DEF MockApply, SearchFinds

\* A listed mock is at one of the places that the bound allows.
LEMMA ListedPlace ==
  ASSUME RunnerTypeOK, ListInv, NEW t \in Tests, NEW k \in DOMAIN mocks[t]
  PROVE  k \in Places /\ k \in Nat /\ mocks[t][k] \in Mocks
  <1>1. mocks[t] \in Seq(Mocks) /\ Len(mocks[t]) <= MaxMocks
    BY DEF RunnerTypeOK, ListInv
  <1>2. k \in 1 .. Len(mocks[t]) /\ Len(mocks[t]) \in Nat
    BY <1>1
  <1> QED BY <1>1, <1>2, RunnerAssumption DEF Places

\* Inside the loop over the tests, i points at a listed test.
LEMMA CurrentTest ==
  ASSUME RunnerTypeOK, ControlInv
  PROVE  pc \notin {"main", "next"} => Current \in Tests
  <1>1. pc \notin {"main", "next"} => i \in DOMAIN suite
    BY DEF ControlInv
  <1>2. suite \in Seq(Tests)
    BY DEF RunnerTypeOK
  <1>3. \A k \in DOMAIN suite : suite[k] \in Tests
    BY <1>2
  <1> QED BY <1>1, <1>3 DEF Current

\* mock_restore of an active mock, reached in the order of the list, gives
\* back the very call that mock_apply had diverted for it.
LEMMA RestoreEffect ==
  ASSUME IInv, pc = "restore", j \in DOMAIN mocks[Current],
         NEW m \in Mocks, m = mocks[Current][j], MockRestore(m)
  PROVE  /\ UNCHANGED <<image, def, call, origBytes, mockedBytes, status>>
         /\ gstate' # "freed"
         /\ GuardTypeOK'
         /\ OpenPagesListed'
         /\ MockTypeOK'
         /\ \/ call[m] = NullCall /\ UNCHANGED <<text, freed>>
            \/ /\ Active(m)
               /\ text' = [text EXCEPT ![call[m]] = def[m].target]
               /\ freed' = freed \union {m}
  <1>1. /\ GuardTypeOK /\ MockTypeOK /\ OpenPagesListed
        /\ gstate # "freed"
        /\ i \in DOMAIN suite
        /\ Current \in Tests
        /\ j \in Nat
    BY DEF IInv, TypeOK, ControlInv, RunnerTypeOK, Current
  <1>0. Listed(m, Current, j) /\ j \in Places
    BY <1>1, ListedPlace DEF IInv, TypeOK, Listed
  <1>2. m \notin freed
    BY <1>0, <1>1 DEF IInv, FreshInv
  <1>3. def[m] # None
    BY <1>0, <1>1 DEF IInv, ListInv
  <1>4. def[m] \in MockDefs /\ def[m] \in [orig : Tested, target : Callees, mocked : Callees]
    BY <1>1, <1>3, MockAssumption DEF MockTypeOK
  <1>5. def[m].orig \in Tested /\ def[m].target \in Callees /\ def[m].mocked \in Callees
    BY <1>4
  <1>6. def[m].mocked \notin Natives
    BY <1>4, DisciplineAssumption DEF Disciplined
  <1>7. CASE Unapplied(m) /\ UNCHANGED mvars
    <2>1. UNCHANGED <<prot, guards, gstate, lost, image, text, def, call, origBytes, mockedBytes, freed, status>>
      BY <1>7 DEF mvars, gvars, mockVars
    <2>2. GuardTypeOK' /\ OpenPagesListed'
      BY <1>1, <2>1 DEF GuardTypeOK, OpenPagesListed, GuardPages, PagesOf
    <2>3. said' \subseteq Messages
      BY <1>1, <1>7 DEF MockTypeOK, mvars
    <2> QED BY <1>1, <1>7, <2>1, <2>2, <2>3 DEF MockTypeOK, Unapplied
  <1>8. ASSUME ~Unapplied(m)
        PROVE  /\ Active(m)
               /\ call[m] \in Span[def[m].orig]
               /\ text[call[m]] = def[m].mocked
               /\ call[m] \in Finds(def[m].orig, def[m].mocked)
    <2>1. Active(m)
      BY <1>2, <1>8 DEF Active, Unapplied
    <2>2. call[m] \in Span[def[m].orig] /\ text[call[m]] = def[m].mocked
      BY <2>1 DEF IInv, TextInv
    <2> QED BY <1>1, <1>5, <2>1, <2>2, FindsExact
  <1>9. ASSUME ~Unapplied(m), NEW a \in Sites, NEW granted \in MprotectOutcomes,
               IsFirstCall(def[m].orig, def[m].mocked, a),
               PatchCallTarget(a, def[m].target, granted),
               freed' = freed \union {m},
               UNCHANGED <<def, call, origBytes, mockedBytes>>
        PROVE  /\ UNCHANGED <<image, status>>
               /\ gstate' # "freed"
               /\ GuardTypeOK'
               /\ OpenPagesListed'
               /\ MockTypeOK'
               /\ text' = [text EXCEPT ![call[m]] = def[m].target]
    <2>1. /\ a \in Span[def[m].orig]
          /\ text[a] = def[m].mocked
          /\ a <= call[m]
      BY <1>1, <1>5, <1>8, <1>9, FindsExact DEF IsFirstCall
    <2>2. image[a] \in Natives
      BY <1>1 DEF MockTypeOK
    <2>3. PICK n \in Mocks : Active(n) /\ call[n] = a
      BY <1>6, <2>1, <2>2 DEF IInv, TextInv
    <2>4. def[n].mocked = def[m].mocked
      BY <2>1, <2>3 DEF IInv, TextInv
    <2>5. PICK k \in Places : Listed(n, Current, k) /\ k >= j
      BY <2>3 DEF IInv, PlaceInv
    <2>6. k \in Nat /\ call[n] \in Nat /\ call[m] \in Nat
      <3>1. call[n] \in Sites \union {NullCall} /\ call[m] \in Sites \union {NullCall}
        BY <1>1 DEF MockTypeOK
      <3> QED BY <3>1, MockAssumption, RunnerAssumption DEF NullCall, Places
    <2>7. CASE k > j
      <3>1. call[n] \in Span[def[m].orig]
        BY <2>1, <2>3
      <3>2. Active(m)
        BY <1>8, <1>9
      <3>3. call[m] < call[n]
        BY <1>0, <1>1, <2>3, <2>4, <2>5, <2>7, <3>1, <3>2 DEF IInv, OrderInv
      <3> QED BY <2>1, <2>3, <2>6, <3>3
    <2>8. CASE k = j
      <3>1. a = call[m]
        BY <1>0, <2>3, <2>5, <2>8 DEF Listed
      <3>2. /\ text' = [text EXCEPT ![a] = def[m].target]
            /\ UNCHANGED <<image, said, status>>
            /\ gstate' = "live"
            /\ GuardTypeOK'
            /\ OpenPagesListed'
        BY <1>1, <1>5, <1>9, PatchEffect
      <3>3. MockTypeOK'
        BY <1>1, <1>5, <1>9, <3>2 DEF MockTypeOK
      <3> QED BY <3>1, <3>2, <3>3
    <2> QED BY <1>1, <2>5, <2>6, <2>7, <2>8
  <1>10. ASSUME NEW a \in Sites, NEW granted \in MprotectOutcomes
         PROVE  ~PatchCrash(a, def[m].target, granted)
    BY <1>1, <1>5, NoPatchCrash
  <1>11. ~SearchFails
    BY DisciplineAssumption DEF Disciplined, SearchFails
  <1> QED BY <1>2, <1>7, <1>8, <1>9, <1>10, <1>11 DEF MockRestore, SearchFinds

-----------------------------------------------------------------------------
\* The parts of the invariant that speak of memory do not notice a step of
\* user code or of control that leaves it alone.
LEMMA MemoryUntouched ==
  ASSUME IInv, UNCHANGED <<gvars, image, text, call, origBytes, mockedBytes, freed>>
  PROVE  /\ GuardTypeOK'
         /\ OpenPagesListed'
         /\ \A m \in Mocks : (Active(m)' <=> Active(m)) /\ (Fresh(m)' <=> Fresh(m))
  <1>1. UNCHANGED <<prot, guards, gstate, lost, call, freed>>
    BY DEF gvars
  <1> QED BY <1>1 DEF IInv, TypeOK, GuardTypeOK, OpenPagesListed, GuardPages, PagesOf,
                      Active, Fresh

\* A step of control alone: the lists and the code keep their invariants.
LEMMA ControlStep ==
  ASSUME IInv, UNCHANGED <<mvars, testVars>>, RunnerTypeOK',
         pc # "main" \/ runs = 0
  PROVE  /\ TypeOK'
         /\ OpenPagesListed'
         /\ ListInv'
         /\ TextInv'
         /\ OrderInv'
         /\ \A m \in Mocks : (Active(m)' <=> Active(m)) /\ (Fresh(m)' <=> Fresh(m))
         /\ \A m \in Mocks, t \in Tests, k \in Places : Listed(m, t, k)' <=> Listed(m, t, k)
  <1>1. UNCHANGED <<gvars, image, text, def, call, origBytes, mockedBytes, freed, said,
                    status, lstate, suite, test, mocks>>
    BY DEF mvars, mockVars, testVars
  <1>2. /\ GuardTypeOK' /\ OpenPagesListed'
        /\ \A m \in Mocks : (Active(m)' <=> Active(m)) /\ (Fresh(m)' <=> Fresh(m))
    BY <1>1, MemoryUntouched
  <1>3. \A m \in Mocks, t \in Tests, k \in Places : Listed(m, t, k)' <=> Listed(m, t, k)
    BY <1>1 DEF Listed
  <1>4. TypeOK'
    BY <1>1, <1>2 DEF IInv, TypeOK, MockTypeOK
  <1>5. ListInv'
    BY <1>1, <1>3 DEF IInv, ListInv
  <1>6. TextInv'
    BY <1>1, <1>2 DEF IInv, TextInv
  <1>7. OrderInv'
    BY <1>1, <1>2, <1>3 DEF IInv, OrderInv
  <1> QED BY <1>2, <1>3, <1>4, <1>5, <1>6, <1>7

-----------------------------------------------------------------------------
\* Then the invariant, one lemma for each action.

\* The program as linked, with no test made, satisfies the invariant.
LEMMA InitInv == Init => IInv
  <1> SUFFICES ASSUME Init PROVE IInv
    OBVIOUS
  <1> USE DEF Init, MockInit, GuardInit
  <1>1. TypeOK
    <2>1. GuardTypeOK BY DEF GuardTypeOK
    <2>2. MockTypeOK
      <3>1. image \in [Sites -> Natives] /\ text \in [Sites -> Callees]
        BY MockAssumption
      <3> QED BY <3>1 DEF MockTypeOK
    <2>3. RunnerTypeOK
      <3>1. test \in [Tests -> {"none", "live", "freed"}] /\ suite \in Seq(Tests)
        OBVIOUS
      <3>2. mocks \in [Tests -> Seq(Mocks)] /\ result \in [Tests -> Results \union {"none"}]
        OBVIOUS
      <3> QED BY <3>1, <3>2 DEF RunnerTypeOK
    <2> QED BY <2>1, <2>2, <2>3 DEF TypeOK
  <1>2. OpenPagesListed BY DEF OpenPagesListed
  <1>3. ControlInv BY DEF ControlInv
  <1>0. \A t \in Tests, k \in Places, m \in Mocks : ~Listed(m, t, k)
    <2>1. \A t \in Tests : mocks[t] = <<>> OBVIOUS
    <2>2. DOMAIN <<>> = {} OBVIOUS
    <2> QED BY <2>1, <2>2 DEF Listed
  <1>4. ListInv
    <2>1. \A t \in Tests : Len(mocks[t]) = 0 OBVIOUS
    <2>2. DOMAIN suite = {} OBVIOUS
    <2> QED BY <1>0, <2>1, <2>2, RunnerAssumption DEF ListInv
  <1>5. FreshInv
    <2>1. \A m \in Mocks : Fresh(m) BY DEF Fresh
    <2> QED BY <2>1 DEF FreshInv
  <1>6. \A m \in Mocks : ~Active(m) BY DEF Active
  <1>7. PlaceInv /\ FirstInv BY <1>6 DEF PlaceInv, FirstInv
  <1>8. TextInv BY <1>6 DEF TextInv
  <1>9. OrderInv BY <1>0 DEF OrderInv
  <1> QED BY <1>1, <1>2, <1>3, <1>4, <1>5, <1>7, <1>8, <1>9 DEF IInv

-----------------------------------------------------------------------------
(* Steps of user code: they leave the code, the pages and the mocks that   *)
(* exist as they are, and touch no test whose mocks the run has reached.   *)

\* tapi_test_make preserves the invariant: the new test has no mock and is
\* not listed.
LEMMA TestMakeInv ==
  ASSUME IInv, NEW t \in Tests, TestMake(t)
  PROVE  IInv'
  <1>1. /\ UNCHANGED <<gvars, image, text, def, call, origBytes, mockedBytes, freed,
                       said, status, lstate, suite, mocks, result, passed, pc, i, j, runs>>
        /\ test' = [test EXCEPT ![t] = "live"]
    BY DEF TestMake, mvars, mockVars, runVars
  <1>2. /\ GuardTypeOK' /\ OpenPagesListed'
        /\ \A m \in Mocks : (Active(m)' <=> Active(m)) /\ (Fresh(m)' <=> Fresh(m))
    BY <1>1, MemoryUntouched
  <1>3. \A m \in Mocks, u \in Tests, k \in Places : Listed(m, u, k)' <=> Listed(m, u, k)
    BY <1>1 DEF Listed
  <1> USE DEF IInv
  <1>4. TypeOK'
    BY <1>1, <1>2 DEF TypeOK, MockTypeOK, RunnerTypeOK
  <1>5. ControlInv'
    BY <1>1 DEF ControlInv, gvars
  <1>6. ListInv'
    <2>1. \A k \in DOMAIN suite : test'[suite[k]] = "freed" => test[suite[k]] = "freed"
      BY <1>1 DEF TypeOK, RunnerTypeOK
    <2> QED BY <1>1, <1>3, <2>1 DEF ListInv
  <1>7. Current' = Current /\ \A u \in Tests : Reached(u)' <=> Reached(u)
    BY <1>1 DEF Current, Reached
  <1>8. pc \notin {"main", "next"} => Current \in Tests
    BY CurrentTest DEF TypeOK
  <1>9. FreshInv'
    BY <1>1, <1>2, <1>3, <1>7, <1>8 DEF FreshInv
  <1>10. PlaceInv'
    BY <1>1, <1>2, <1>3, <1>7, <1>8 DEF PlaceInv
  <1>11. TextInv' /\ FirstInv' /\ OrderInv'
    BY <1>1, <1>2, <1>3 DEF TextInv, FirstInv, OrderInv
  <1> QED BY <1>2, <1>4, <1>5, <1>6, <1>9, <1>10, <1>11

\* tapi_test_destroy preserves the invariant: it is called after the run, when
\* nothing will reach the freed test.
LEMMA TestDestroyInv ==
  ASSUME IInv, NEW t \in Tests, TestDestroy(t)
  PROVE  IInv'
  <1>1. /\ UNCHANGED <<gvars, image, text, def, call, origBytes, mockedBytes, freed,
                       said, status, lstate, suite, mocks, result, passed, pc, i, j, runs>>
        /\ test' = [test EXCEPT ![t] = "freed"]
        /\ pc = "main" /\ runs > 0
    BY DEF TestDestroy, mvars, mockVars, runVars
  <1>2. /\ GuardTypeOK' /\ OpenPagesListed'
        /\ \A m \in Mocks : (Active(m)' <=> Active(m)) /\ (Fresh(m)' <=> Fresh(m))
    BY <1>1, MemoryUntouched
  <1>3. \A m \in Mocks, u \in Tests, k \in Places : Listed(m, u, k)' <=> Listed(m, u, k)
    BY <1>1 DEF Listed
  <1> USE DEF IInv
  <1>4. TypeOK'
    BY <1>1, <1>2 DEF TypeOK, MockTypeOK, RunnerTypeOK
  <1>5. ControlInv'
    BY <1>1 DEF ControlInv, gvars
  <1>6. ListInv'
    <2>1. runs \in {0, 1}
      BY DEF ControlInv
    <2>2. runs = 1
      BY <1>1, <2>1
    <2> QED BY <1>1, <1>3, <2>2 DEF ListInv
  <1>7. Current' = Current /\ \A u \in Tests : Reached(u)' <=> Reached(u)
    BY <1>1 DEF Current, Reached
  <1>8. FreshInv'
    BY <1>1, <1>2, <1>3, <1>7 DEF FreshInv
  <1>9. PlaceInv'
    BY <1>1, <1>2 DEF PlaceInv
  <1>10. TextInv' /\ FirstInv' /\ OrderInv'
    BY <1>1, <1>2, <1>3 DEF TextInv, FirstInv, OrderInv
  <1> QED BY <1>2, <1>4, <1>5, <1>6, <1>8, <1>9, <1>10

\* Listing a test, by either function: it was not listed before, so the run
\* has not reached it.
LEMMA ListingInv ==
  ASSUME IInv,
         UNCHANGED <<gvars, image, text, def, call, origBytes, mockedBytes, freed,
                     status, test, mocks, result, passed, pc, i, j, runs>>,
         said' \subseteq Messages, status = "ok",
         pc = "main" => runs = 0,
         lstate' = "live",
         \/ UNCHANGED suite
         \/ \E t \in Tests : /\ test[t] = "live"
                             /\ t \notin Elems(suite)
                             /\ suite' = Append(suite, t)
  PROVE  IInv'
  <1>1. /\ suite \in Seq(Tests) /\ Len(suite) \in Nat
        /\ DOMAIN suite = 1 .. Len(suite)
        /\ i \in Nat \ {0}
    BY DEF IInv, TypeOK, RunnerTypeOK
  <1>2. /\ suite' \in Seq(Tests)
        /\ DOMAIN suite \subseteq DOMAIN suite'
        /\ \A k \in DOMAIN suite : suite'[k] = suite[k]
        /\ \A k \in DOMAIN suite' : k \notin DOMAIN suite =>
             /\ k = Len(suite) + 1
             /\ suite'[k] \notin Elems(suite)
             /\ test[suite'[k]] = "live"
    BY <1>1
  <1>3. /\ GuardTypeOK' /\ OpenPagesListed'
        /\ \A m \in Mocks : (Active(m)' <=> Active(m)) /\ (Fresh(m)' <=> Fresh(m))
    BY MemoryUntouched
  <1>4. \A m \in Mocks, u \in Tests, k \in Places : Listed(m, u, k)' <=> Listed(m, u, k)
    BY DEF Listed
  <1> USE DEF IInv
  <1>5. TypeOK'
    BY <1>2, <1>3 DEF TypeOK, MockTypeOK, RunnerTypeOK
  <1>6. ControlInv'
    BY <1>1, <1>2 DEF ControlInv, gvars
  <1>7. ListInv'
    <2>1. \A k, n \in DOMAIN suite' : suite'[k] = suite'[n] => k = n
      BY <1>2 DEF ListInv, Elems
    <2>2. \A k \in DOMAIN suite' : test'[suite'[k]] = "freed" => pc' = "main" /\ runs' = 1
      BY <1>2 DEF ListInv
    <2> QED BY <1>4, <2>1, <2>2 DEF ListInv
  <1>8. pc \notin {"main", "next"} => Current' = Current /\ Current \in Tests
    BY <1>2 DEF ControlInv, Current, TypeOK, RunnerTypeOK
  <1>9. \A t \in Tests : Reached(t) => Reached(t)'
    BY <1>2 DEF Reached
  <1>10. FreshInv'
    BY <1>3, <1>4, <1>8, <1>9 DEF FreshInv
  <1>11. PlaceInv'
    BY <1>3, <1>4, <1>8 DEF PlaceInv
  <1>12. TextInv' /\ FirstInv' /\ OrderInv'
    BY <1>3, <1>4 DEF TextInv, FirstInv, OrderInv
  <1> QED BY <1>3, <1>5, <1>6, <1>7, <1>10, <1>11, <1>12

\* Adding a mock: it is new, so no list has it and no call is diverted for it.
\* Its test may fail to list it.
LEMMA TestAddMockInv ==
  ASSUME IInv, NEW t \in Tests, NEW m \in Mocks, NEW d \in MockDefs, TestAddMock(t, m, d)
  PROVE  IInv'
  <1> USE DEF IInv
  <1>1. /\ UNCHANGED <<gvars, image, text, call, origBytes, mockedBytes, freed, said,
                       status, lstate, suite, test, result, passed, pc, i, j, runs>>
        /\ def' = [def EXCEPT ![m] = d]
        /\ \E grown \in ReallocOutcomes : mocks' = [mocks EXCEPT ![t] = Pushed(@, m, grown)]
        /\ def[m] = None /\ d # None
        /\ Len(mocks[t]) < MaxMocks
        /\ pc \in {"main", "setup", "function", "teardown"}
    <2>1. /\ Building /\ MockCreate(m, d) /\ Len(mocks[t]) < MaxMocks
          /\ \E grown \in ReallocOutcomes : mocks' = [mocks EXCEPT ![t] = Pushed(@, m, grown)]
          /\ UNCHANGED <<lstate, suite, test>> /\ UNCHANGED runVars
      BY DEF TestAddMock
    <2>2. UNCHANGED <<result, passed, pc, i, j, runs>>
      BY <2>1 DEF runVars
    <2>3. /\ UNCHANGED <<gvars, image, text, call, origBytes, mockedBytes, freed, said, status>>
          /\ def' = [def EXCEPT ![m] = d] /\ def[m] = None
      BY <2>1 DEF MockCreate
    <2>4. d # None
      BY MockAssumption
    <2>5. pc \in {"main", "setup", "function", "teardown"}
      BY <2>1, RunnerAssumption DEF Building, AtUserCode, Callbacks
    <2> QED BY <2>1, <2>2, <2>3, <2>4, <2>5
  <1>2. /\ \A x \in Mocks : (Active(x)' <=> Active(x)) /\ (Fresh(x)' <=> Fresh(x))
        /\ GuardTypeOK' /\ OpenPagesListed'
    BY <1>1, MemoryUntouched
  <1>3. Fresh(m) /\ ~Active(m)
    BY <1>1 DEF FreshInv, Fresh, Active
  <1>4. /\ mocks[t] \in Seq(Mocks) /\ Len(mocks[t]) \in Nat
        /\ DOMAIN mocks[t] = 1 .. Len(mocks[t])
    BY DEF TypeOK, RunnerTypeOK
  <1>6. /\ mocks'[t] = mocks[t] \/ mocks'[t] = Append(mocks[t], m)
        /\ \A u \in Tests : u # t => mocks'[u] = mocks[u]
        /\ DOMAIN mocks' = Tests /\ mocks' = [u \in Tests |-> mocks'[u]]
    BY <1>1 DEF TypeOK, RunnerTypeOK, Pushed
  <1>5. mocks' \in [Tests -> Seq(Mocks)]
    <2>1. mocks'[t] \in Seq(Mocks)
      <3>1. Append(mocks[t], m) \in Seq(Mocks)
        BY <1>4
      <3> QED BY <1>4, <1>6, <3>1
    <2>2. \A u \in Tests : mocks[u] \in Seq(Mocks)
      BY DEF TypeOK, RunnerTypeOK
    <2> QED BY <1>6, <2>1, <2>2
  <1>7. \A x \in Mocks, u \in Tests, k \in Places :
          /\ Listed(x, u, k) => Listed(x, u, k)'
          /\ Listed(x, u, k)' => \/ Listed(x, u, k)
                                 \/ x = m /\ u = t /\ k = Len(mocks[t]) + 1
    <2> SUFFICES ASSUME NEW x \in Mocks, NEW u \in Tests, NEW k \in Places
                 PROVE  /\ Listed(x, u, k) => Listed(x, u, k)'
                        /\ Listed(x, u, k)' => \/ Listed(x, u, k)
                                               \/ x = m /\ u = t /\ k = Len(mocks[t]) + 1
      OBVIOUS
    <2>1. CASE u = t
      BY <1>4, <1>6, <2>1 DEF Listed
    <2>2. CASE u # t
      BY <1>6, <2>2 DEF Listed
    <2> QED BY <2>1, <2>2
  <1>8. \A u \in Tests, k \in Places : ~Listed(m, u, k)
    BY <1>1 DEF ListInv
  <1>9. \A x \in Mocks : x # m => def'[x] = def[x]
    BY <1>1 DEF TypeOK, MockTypeOK
  <1>10. def'[m] = d
    BY <1>1 DEF TypeOK, MockTypeOK
  <1>11. TypeOK'
    BY <1>1, <1>2, <1>5 DEF TypeOK, MockTypeOK, RunnerTypeOK
  <1>12. ControlInv'
    BY <1>1 DEF ControlInv, gvars
  <1>13. ListInv'
    <2>1. \A u \in Tests : Len(mocks'[u]) <= MaxMocks
      <3>1. Len(mocks'[t]) <= Len(mocks[t]) + 1 /\ Len(mocks'[t]) \in Nat
        BY <1>4, <1>6
      <3>2. Len(mocks'[t]) <= MaxMocks
        BY <1>1, <1>4, <3>1, RunnerAssumption
      <3> QED BY <1>6, <3>2 DEF ListInv
    <2>2. \A u, v \in Tests, k, n \in Places, x \in Mocks :
            Listed(x, u, k)' /\ Listed(x, v, n)' => u = v /\ k = n
      BY <1>7, <1>8 DEF ListInv
    <2>3. \A u \in Tests, k \in Places, x \in Mocks : Listed(x, u, k)' => def'[x] # None
      BY <1>1, <1>7, <1>9, <1>10 DEF ListInv
    <2> QED BY <1>1, <2>1, <2>2, <2>3 DEF ListInv
  <1>14. Current' = Current /\ \A u \in Tests : Reached(u)' <=> Reached(u)
    BY <1>1 DEF Current, Reached
  <1>15. pc \notin {"main", "next"} => Current \in Tests
    BY CurrentTest DEF TypeOK
  <1>16. FreshInv'
    BY <1>1, <1>2, <1>3, <1>7, <1>9, <1>10, <1>14, <1>15 DEF FreshInv, Fresh
  <1>17. PlaceInv'
    BY <1>1, <1>2, <1>7, <1>14, <1>15 DEF PlaceInv
  <1>18. TextInv' /\ FirstInv'
    BY <1>1, <1>2, <1>3, <1>9 DEF TextInv, FirstInv
  <1>19. OrderInv'
    BY <1>1, <1>2, <1>3, <1>7, <1>9 DEF OrderInv
  <1> QED BY <1>2, <1>11, <1>12, <1>13, <1>16, <1>17, <1>18, <1>19

\* The suite is built before its only run, or by a callback of that run.
LEMMA BuildingFacts ==
  ASSUME IInv, Building
  PROVE  status = "ok" /\ (pc = "main" => runs = 0)
  <1>1. runs \in Nat
    BY DEF IInv, TypeOK, RunnerTypeOK
  <1>2. pc = "main" => runs < 1
    BY DisciplineAssumption DEF Building
  <1> QED BY <1>1, <1>2 DEF Building, AtUserCode

\* Whatever user code builds, inside a callback or outside, preserves the
\* invariant.
LEMMA UserStepInv == ASSUME IInv, UserStep PROVE IInv'
  <1>1. ASSUME NEW t \in Tests, TestAdd(t) PROVE IInv'
    <2>1. /\ UNCHANGED <<gvars, image, text, def, call, origBytes, mockedBytes, freed,
                         said, status, test, mocks, result, passed, pc, i, j, runs>>
          /\ lstate' = "live"
          /\ \E grown \in ReallocOutcomes : suite' = Pushed(suite, t, grown)
          /\ test[t] = "live" /\ t \notin Elems(suite)
          /\ status = "ok"
          /\ pc = "main" => runs = 0
      BY <1>1, BuildingFacts, DisciplineAssumption
      DEF TestAdd, MayList, mvars, mockVars, runVars
    <2>2. said' \subseteq Messages
      BY <2>1 DEF IInv, TypeOK, MockTypeOK
    <2>3. suite' = suite \/ suite' = Append(suite, t)
      BY <2>1 DEF Pushed
    <2> QED BY <2>1, <2>2, <2>3, ListingInv
  <1>2. ASSUME NEW tests, TestSetup(tests),
               tests = <<>> \/ \E t \in Tests : MayList(t) /\ tests = <<t>>
        PROVE  IInv'
    <2>1. /\ UNCHANGED <<gvars, image, text, def, call, origBytes, mockedBytes, freed,
                         status, test, mocks, result, passed, pc, i, j, runs>>
          /\ status = "ok"
          /\ pc = "main" => runs = 0
          /\ \/ lstate = "live" /\ UNCHANGED <<lstate, suite>>
             \/ /\ lstate = "null" /\ lstate' = "live"
                /\ suite' = tests \/ suite' = <<>>
          /\ said' = said
      BY <1>2, BuildingFacts DEF TestSetup, mvars, mockVars, runVars
    <2>2. said' \subseteq Messages /\ lstate' = "live"
      BY <2>1 DEF IInv, TypeOK, MockTypeOK, RunnerTypeOK
    <2>3. lstate = "null" => suite = <<>>
      BY DEF IInv, ListInv
    <2>4. \/ UNCHANGED suite
          \/ \E t \in Tests : /\ test[t] = "live"
                              /\ t \notin Elems(suite)
                              /\ suite' = Append(suite, t)
      <3>1. CASE UNCHANGED suite
        BY <3>1
      <3>2. CASE lstate = "null" /\ suite' = tests /\ tests # <<>>
        <4>1. PICK t \in Tests : MayList(t) /\ tests = <<t>>
          BY <1>2, <3>2
        <4>2. <<t>> = Append(<<>>, t)
          OBVIOUS
        <4> QED BY <2>3, <3>2, <4>1, <4>2, DisciplineAssumption DEF MayList
      <3> QED BY <2>1, <2>3, <3>1, <3>2
    <2> QED BY <2>1, <2>2, <2>4, ListingInv
  <1> QED BY <1>1, <1>2, TestMakeInv, TestAddMockInv, TestDestroyInv DEF UserStep

-----------------------------------------------------------------------------
(* Steps of tapi_test_run that only move control: each keeps its own place *)
(* in the invariant.                                                       *)

\* Entering tapi_test_run preserves the invariant; without a list it ends in
\* the one fault that is allowed.
LEMMA StartInv == ASSUME IInv, Start PROVE IInv'
  <1> USE DEF IInv
  <1>1. /\ status = "ok" /\ pc = "main" /\ runs = 0 /\ runs' = 1
        /\ i = 1 /\ i \in Nat \ {0} /\ gstate # "freed"
    <2>1. runs \in Nat /\ i \in Nat \ {0}
      BY DEF TypeOK, RunnerTypeOK
    <2>2. runs < 1 /\ runs' = runs + 1 /\ status = "ok" /\ pc = "main"
      BY DisciplineAssumption DEF Start, At
    <2>3. runs = 0 /\ runs' = 1
      BY <2>1, <2>2
    <2>4. i = 1 /\ gstate # "freed"
      BY <2>3 DEF ControlInv
    <2> QED BY <2>1, <2>2, <2>3, <2>4
  <1>2. \A m \in Mocks : ~Active(m)
    BY <1>1 DEF PlaceInv
  <1>3. CASE lstate = "null" /\ Crash("null suite")
                  /\ UNCHANGED <<testVars, result, passed, pc, i, j>>
    <2>1. /\ UNCHANGED <<gvars, image, text, def, call, origBytes, mockedBytes, freed, said,
                         lstate, suite, test, mocks, result, passed, pc, i, j>>
          /\ status' = "null suite"
      BY <1>3 DEF Crash, CrashSaying, mockVars, testVars
    <2>2. /\ GuardTypeOK' /\ OpenPagesListed'
          /\ \A m \in Mocks : (Active(m)' <=> Active(m)) /\ (Fresh(m)' <=> Fresh(m))
      BY <2>1, MemoryUntouched
    <2>3. \A m \in Mocks, u \in Tests, k \in Places : Listed(m, u, k)' <=> Listed(m, u, k)
      BY <2>1 DEF Listed
    <2>4. TypeOK'
      BY <1>1, <2>1, <2>2 DEF TypeOK, MockTypeOK, RunnerTypeOK, Faults
    <2>5. ControlInv'
      BY <1>1, <1>3, <2>1 DEF ControlInv, gvars
    <2>6. ListInv'
      BY <1>1, <2>1, <2>3 DEF ListInv
    <2>7. \A u \in Tests : Reached(u)' <=> Reached(u)
      BY <2>1 DEF Reached
    <2>8. FreshInv' /\ PlaceInv'
      BY <1>1, <1>2, <2>1, <2>2, <2>3, <2>7 DEF FreshInv, PlaceInv
    <2>9. TextInv' /\ FirstInv' /\ OrderInv'
      BY <1>2, <2>1, <2>2 DEF TextInv, FirstInv, OrderInv
    <2> QED BY <2>2, <2>4, <2>5, <2>6, <2>8, <2>9
  <1>4. CASE /\ lstate = "live" /\ passed' = 0 /\ pc' = "next" /\ i' = 1
             /\ UNCHANGED <<mvars, testVars, result, j>>
    <2>1. RunnerTypeOK'
      BY <1>1, <1>4 DEF TypeOK, RunnerTypeOK, testVars
    <2>2. /\ TypeOK' /\ OpenPagesListed' /\ ListInv' /\ TextInv' /\ OrderInv'
          /\ \A m \in Mocks : (Active(m)' <=> Active(m)) /\ (Fresh(m)' <=> Fresh(m))
          /\ \A m \in Mocks, t \in Tests, k \in Places : Listed(m, t, k)' <=> Listed(m, t, k)
      BY <1>1, <1>4, <2>1, ControlStep
    <2>3. UNCHANGED <<status, gstate, lstate, suite, def>>
      BY <1>4 DEF mvars, gvars, mockVars, testVars
    <2>4. ControlInv'
      BY <1>1, <1>4, <2>3 DEF ControlInv
    <2>5. \A u \in Tests : Reached(u)' <=> Reached(u)
      BY <1>1, <1>4, <2>3 DEF Reached
    <2>6. FreshInv' /\ PlaceInv' /\ FirstInv'
      BY <1>2, <1>4, <2>2, <2>3, <2>5 DEF FreshInv, PlaceInv, FirstInv
    <2> QED BY <2>2, <2>4, <2>6
  <1> QED BY <1>3, <1>4 DEF Start

\* The common part of BeginTest, ..., TeardownReturns.
LEMMA PlainStep ==
  ASSUME IInv, UNCHANGED <<mvars, testVars, runs>>, RunnerTypeOK',
         pc # "main", status = "ok", pc' # "main",
         pc' # "next" => i' \in DOMAIN suite,
         \A t \in Tests : Reached(t) => Reached(t)'
  PROVE  /\ TypeOK' /\ OpenPagesListed' /\ ControlInv' /\ ListInv' /\ TextInv' /\ OrderInv'
         /\ \A m \in Mocks : (Active(m)' <=> Active(m)) /\ (Fresh(m)' <=> Fresh(m))
         /\ \A m \in Mocks, t \in Tests, k \in Places : Listed(m, t, k)' <=> Listed(m, t, k)
         /\ \A m \in Mocks : def'[m] = None => Fresh(m)'
         /\ \A t \in Tests, k \in Places, m \in Mocks :
              Listed(m, t, k)' => Reached(t)' \/ Fresh(m)'
         /\ UNCHANGED <<text, def, call, freed>>
  <1>1. /\ TypeOK' /\ OpenPagesListed' /\ ListInv' /\ TextInv' /\ OrderInv'
        /\ \A m \in Mocks : (Active(m)' <=> Active(m)) /\ (Fresh(m)' <=> Fresh(m))
        /\ \A m \in Mocks, t \in Tests, k \in Places : Listed(m, t, k)' <=> Listed(m, t, k)
    BY ControlStep
  <1>2. UNCHANGED <<status, gstate, lstate, suite, runs, text, def, call, freed>>
    BY DEF mvars, gvars, mockVars, testVars
  <1>3. runs = 1 /\ lstate = "live" /\ gstate # "freed"
    BY DEF IInv, ControlInv
  <1>4. ControlInv'
    BY <1>2, <1>3 DEF ControlInv
  <1> QED BY <1>1, <1>2, <1>4 DEF IInv, FreshInv

\* Taking the next test preserves the invariant: its mocks are all fresh.
LEMMA BeginTestInv == ASSUME IInv, BeginTest PROVE IInv'
  <1>1. /\ status = "ok" /\ pc = "next" /\ i \in DOMAIN suite
        /\ test[Current] # "freed"
    <2>1. suite \in Seq(Tests) /\ i \in Nat \ {0}
      BY DEF IInv, TypeOK, RunnerTypeOK
    <2>2. pc = "next" /\ i <= Len(suite) /\ status = "ok"
      BY DEF BeginTest, At
    <2>3. i \in DOMAIN suite
      BY <2>1, <2>2
    <2> QED BY <2>2, <2>3 DEF IInv, ListInv, Current
  <1>2. pc' = "setup" /\ UNCHANGED <<mvars, testVars, result, passed, i, j, runs>>
    BY <1>1 DEF BeginTest
  <1>3. RunnerTypeOK' /\ UNCHANGED suite
    BY <1>2 DEF IInv, TypeOK, RunnerTypeOK, testVars, Callbacks
  <1>4. \A t \in Tests : Reached(t) => Reached(t)'
    BY <1>1, <1>2, <1>3 DEF Reached
  <1>5. /\ TypeOK' /\ OpenPagesListed' /\ ControlInv' /\ ListInv' /\ TextInv' /\ OrderInv'
        /\ \A m \in Mocks : (Active(m)' <=> Active(m)) /\ (Fresh(m)' <=> Fresh(m))
        /\ \A m \in Mocks : def'[m] = None => Fresh(m)'
        /\ \A t \in Tests, k \in Places, m \in Mocks :
             Listed(m, t, k)' => Reached(t)' \/ Fresh(m)'
    BY <1>1, <1>2, <1>3, <1>4, PlainStep
  <1>6. \A m \in Mocks : ~Active(m)
    BY <1>1 DEF IInv, PlaceInv
  <1>7. FreshInv' /\ PlaceInv' /\ FirstInv'
    BY <1>2, <1>5, <1>6 DEF FreshInv, PlaceInv, FirstInv
  <1> QED BY <1>5, <1>7 DEF IInv

\* The run comes to the mocks of a test that it has not reached before.
LEMMA SetupReturnsInv == ASSUME IInv, SetupReturns PROVE IInv'
  <1>1. /\ status = "ok" /\ pc = "setup" /\ pc' = "apply" /\ j' = 1
        /\ UNCHANGED <<mvars, testVars, result, passed, i, runs>>
        /\ i \in DOMAIN suite
    BY DEF SetupReturns, At, IInv, ControlInv
  <1>2. RunnerTypeOK' /\ UNCHANGED suite
    BY <1>1 DEF IInv, TypeOK, RunnerTypeOK, testVars
  <1>3. \A t \in Tests : Reached(t) => Reached(t)'
    BY <1>1, <1>2 DEF Reached
  <1>4. /\ TypeOK' /\ OpenPagesListed' /\ ControlInv' /\ ListInv' /\ TextInv' /\ OrderInv'
        /\ \A m \in Mocks : (Active(m)' <=> Active(m)) /\ (Fresh(m)' <=> Fresh(m))
        /\ \A m \in Mocks, t \in Tests, k \in Places : Listed(m, t, k)' <=> Listed(m, t, k)
        /\ \A m \in Mocks : def'[m] = None => Fresh(m)'
        /\ \A t \in Tests, k \in Places, m \in Mocks :
             Listed(m, t, k)' => Reached(t)' \/ Fresh(m)'
    BY <1>1, <1>2, <1>3, PlainStep
  <1>5. \A m \in Mocks : ~Active(m)
    BY <1>1 DEF IInv, PlaceInv
  <1>6. Current \in Tests /\ Current' = Current
    BY <1>1, <1>2, CurrentTest DEF IInv, TypeOK, Current
  <1>7. ~Reached(Current)
    <2>1. i \in Nat /\ \A k \in DOMAIN suite : suite[k] = Current => k = i
      BY <1>1 DEF IInv, TypeOK, RunnerTypeOK, ListInv, Current
    <2> QED BY <1>1, <2>1 DEF Reached
  <1>8. \A k \in Places, m \in Mocks : Listed(m, Current, k) => Fresh(m)
    BY <1>6, <1>7 DEF IInv, FreshInv
  <1>9. FreshInv'
    BY <1>1, <1>4, <1>6, <1>8 DEF FreshInv, Fresh
  <1>10. PlaceInv' /\ FirstInv'
    BY <1>4, <1>5 DEF PlaceInv, FirstInv
  <1> QED BY <1>4, <1>9, <1>10 DEF IInv

\* Leaving the loop over mock_apply preserves the invariant.
LEMMA ApplyDoneInv == ASSUME IInv, ApplyDone PROVE IInv'
  <1>1. /\ status = "ok" /\ pc = "apply" /\ pc' = "function"
        /\ UNCHANGED <<mvars, testVars, result, passed, i, j, runs>>
        /\ i \in DOMAIN suite
    BY DEF ApplyDone, At, IInv, ControlInv
  <1>2. RunnerTypeOK' /\ UNCHANGED suite
    BY <1>1 DEF IInv, TypeOK, RunnerTypeOK, testVars, Callbacks
  <1>3. \A t \in Tests : Reached(t) => Reached(t)'
    BY <1>1, <1>2 DEF Reached
  <1>4. /\ TypeOK' /\ OpenPagesListed' /\ ControlInv' /\ ListInv' /\ TextInv' /\ OrderInv'
        /\ \A m \in Mocks : (Active(m)' <=> Active(m)) /\ (Fresh(m)' <=> Fresh(m))
        /\ \A m \in Mocks, t \in Tests, k \in Places : Listed(m, t, k)' <=> Listed(m, t, k)
        /\ \A m \in Mocks : def'[m] = None => Fresh(m)'
        /\ \A t \in Tests, k \in Places, m \in Mocks :
             Listed(m, t, k)' => Reached(t)' \/ Fresh(m)'
        /\ UNCHANGED <<text, def, call, freed>>
    BY <1>1, <1>2, <1>3, PlainStep
  <1>5. Current \in Tests /\ Current' = Current
    BY <1>1, <1>2, CurrentTest DEF IInv, TypeOK, Current
  <1>6. FreshInv'
    BY <1>1, <1>4, <1>5 DEF IInv, FreshInv
  <1>7. PlaceInv'
    BY <1>1, <1>4, <1>5 DEF IInv, PlaceInv
  <1>8. FirstInv'
    BY <1>1, <1>4 DEF IInv, FirstInv
  <1> QED BY <1>4, <1>6, <1>7, <1>8 DEF IInv

\* The return of a test function preserves the invariant: every call diverted
\* is on the part of the list that mock_restore has still to visit.
LEMMA FunctionReturnsInv == ASSUME IInv, NEW r \in Results, FunctionReturns(r) PROVE IInv'
  <1>1. /\ status = "ok" /\ pc = "function" /\ pc' = "restore" /\ j' = 1
        /\ UNCHANGED <<mvars, testVars, i, runs>>
        /\ result' = [result EXCEPT ![Current] = r]
        /\ passed' = passed + 1 \/ passed' = passed
        /\ i \in DOMAIN suite
    BY DEF FunctionReturns, At, IInv, ControlInv
  <1>2. RunnerTypeOK' /\ UNCHANGED suite
    <2>1. UNCHANGED <<lstate, suite, test, mocks>>
      BY <1>1 DEF testVars
    <2>2. result' \in [Tests -> Results \union {"none"}]
      BY <1>1 DEF IInv, TypeOK, RunnerTypeOK
    <2>3. passed' \in Nat
      BY <1>1 DEF IInv, TypeOK, RunnerTypeOK
    <2> QED BY <1>1, <2>1, <2>2, <2>3 DEF IInv, TypeOK, RunnerTypeOK
  <1>3. \A t \in Tests : Reached(t) => Reached(t)'
    BY <1>1, <1>2 DEF Reached
  <1>4. /\ TypeOK' /\ OpenPagesListed' /\ ControlInv' /\ ListInv' /\ TextInv' /\ OrderInv'
        /\ \A m \in Mocks : (Active(m)' <=> Active(m)) /\ (Fresh(m)' <=> Fresh(m))
        /\ \A m \in Mocks, t \in Tests, k \in Places : Listed(m, t, k)' <=> Listed(m, t, k)
        /\ \A m \in Mocks : def'[m] = None => Fresh(m)'
        /\ \A t \in Tests, k \in Places, m \in Mocks :
             Listed(m, t, k)' => Reached(t)' \/ Fresh(m)'
        /\ UNCHANGED <<text, def, call, freed>>
    BY <1>1, <1>2, <1>3, PlainStep
  <1>5. Current \in Tests /\ Current' = Current
    BY <1>1, <1>2, CurrentTest DEF IInv, TypeOK, Current
  <1>6. FreshInv'
    BY <1>1, <1>4, <1>5 DEF IInv, FreshInv
  <1>7. PlaceInv'
    <2>1. \A k \in Places : k >= 1
      BY DEF Places
    <2> QED BY <1>1, <1>4, <1>5, <2>1 DEF IInv, PlaceInv
  <1>8. FirstInv'
    BY <1>1 DEF FirstInv
  <1> QED BY <1>4, <1>6, <1>7, <1>8 DEF IInv

\* When the second loop ends, every place of the list is behind j.
LEMMA RestoreDoneInv == ASSUME IInv, RestoreDone PROVE IInv'
  <1>1. /\ status = "ok" /\ pc = "restore" /\ pc' = "teardown"
        /\ j > Len(mocks[Current])
        /\ UNCHANGED <<mvars, testVars, result, passed, i, j, runs>>
        /\ i \in DOMAIN suite
    BY DEF RestoreDone, At, IInv, ControlInv
  <1>2. RunnerTypeOK' /\ UNCHANGED suite
    BY <1>1 DEF IInv, TypeOK, RunnerTypeOK, testVars, Callbacks
  <1>3. \A t \in Tests : Reached(t) => Reached(t)'
    BY <1>1, <1>2 DEF Reached
  <1>4. /\ TypeOK' /\ OpenPagesListed' /\ ControlInv' /\ ListInv' /\ TextInv' /\ OrderInv'
        /\ \A m \in Mocks : (Active(m)' <=> Active(m)) /\ (Fresh(m)' <=> Fresh(m))
        /\ \A m \in Mocks : def'[m] = None => Fresh(m)'
        /\ \A t \in Tests, k \in Places, m \in Mocks :
             Listed(m, t, k)' => Reached(t)' \/ Fresh(m)'
    BY <1>1, <1>2, <1>3, PlainStep
  <1>5. \A m \in Mocks : ~Active(m)
    <2>1. Current \in Tests /\ j \in Nat
      BY <1>1, CurrentTest DEF IInv, TypeOK, RunnerTypeOK
    <2>2. Len(mocks[Current]) \in Nat /\ DOMAIN mocks[Current] = 1 .. Len(mocks[Current])
      BY <2>1 DEF IInv, TypeOK, RunnerTypeOK
    <2>3. \A k \in DOMAIN mocks[Current] : ~(k >= j)
      BY <1>1, <2>1, <2>2
    <2> QED BY <1>1, <2>3 DEF IInv, PlaceInv, Listed
  <1>6. FreshInv' /\ PlaceInv' /\ FirstInv'
    BY <1>1, <1>4, <1>5 DEF FreshInv, PlaceInv, FirstInv
  <1> QED BY <1>4, <1>6 DEF IInv

\* The step to the next test preserves the invariant: no mock is active.
LEMMA TeardownReturnsInv == ASSUME IInv, TeardownReturns PROVE IInv'
  <1>1. /\ status = "ok" /\ pc = "teardown" /\ pc' = "next" /\ i' = i + 1
        /\ UNCHANGED <<mvars, testVars, result, passed, j, runs>>
    BY DEF TeardownReturns, At
  <1>2. RunnerTypeOK' /\ UNCHANGED suite
    BY <1>1 DEF IInv, TypeOK, RunnerTypeOK, testVars
  <1>3. \A t \in Tests : Reached(t) => Reached(t)'
    <2>1. i \in Nat /\ DOMAIN suite \subseteq Nat
      BY DEF IInv, TypeOK, RunnerTypeOK
    <2>2. \A k \in DOMAIN suite : k < i \/ k = i => k < i + 1
      BY <2>1
    <2> QED BY <1>1, <1>2, <2>2 DEF Reached
  <1>4. /\ TypeOK' /\ OpenPagesListed' /\ ControlInv' /\ ListInv' /\ TextInv' /\ OrderInv'
        /\ \A m \in Mocks : (Active(m)' <=> Active(m)) /\ (Fresh(m)' <=> Fresh(m))
        /\ \A m \in Mocks : def'[m] = None => Fresh(m)'
        /\ \A t \in Tests, k \in Places, m \in Mocks :
             Listed(m, t, k)' => Reached(t)' \/ Fresh(m)'
    BY <1>1, <1>2, <1>3, PlainStep
  <1>5. \A m \in Mocks : ~Active(m)
    BY <1>1 DEF IInv, PlaceInv
  <1>6. FreshInv' /\ PlaceInv' /\ FirstInv'
    BY <1>1, <1>4, <1>5 DEF FreshInv, PlaceInv, FirstInv
  <1> QED BY <1>4, <1>6 DEF IInv

-----------------------------------------------------------------------------
(* mock_apply and mock_restore as steps of the run.                        *)

\* What the steps of the two loops leave as it is.
LEMMA LoopStep ==
  ASSUME IInv, pc \in {"apply", "restore"}, UNCHANGED pc, j \in DOMAIN mocks[Current],
         UNCHANGED <<testVars, result, passed, i, runs>>, j' = j + 1,
         UNCHANGED <<def, status>>, gstate' # "freed"
  PROVE  /\ RunnerTypeOK' /\ ControlInv' /\ ListInv'
         /\ Current \in Tests /\ Current' = Current
         /\ \A t \in Tests : Reached(t) => Reached(t)'
         /\ Reached(Current)
         /\ \A m \in Mocks, t \in Tests, k \in Places : Listed(m, t, k)' <=> Listed(m, t, k)
         /\ j \in Places /\ j \in Nat /\ mocks[Current][j] \in Mocks
         /\ Listed(mocks[Current][j], Current, j)
  <1>1. UNCHANGED <<lstate, suite, test, mocks>>
    BY DEF testVars
  <1>2. j \in Nat \ {0} /\ RunnerTypeOK
    BY DEF IInv, TypeOK, RunnerTypeOK
  <1>3. RunnerTypeOK'
    BY <1>1, <1>2 DEF RunnerTypeOK
  <1>4. i \in DOMAIN suite
    BY DEF IInv, ControlInv
  <1>5. ControlInv'
    BY <1>1 DEF IInv, ControlInv
  <1>6. \A m \in Mocks, t \in Tests, k \in Places : Listed(m, t, k)' <=> Listed(m, t, k)
    BY <1>1 DEF Listed
  <1>7. ListInv'
    BY <1>1, <1>6 DEF IInv, ListInv
  <1>8. Current \in Tests /\ Current' = Current
    BY <1>1, CurrentTest DEF IInv, TypeOK, Current
  <1>9. Reached(Current) /\ \A t \in Tests : Reached(t) => Reached(t)'
    BY <1>1, <1>4 DEF Reached, Current
  <1>10. j \in Places /\ mocks[Current][j] \in Mocks
    BY <1>2, <1>8, ListedPlace DEF IInv
  <1> QED BY <1>2, <1>3, <1>5, <1>6, <1>7, <1>8, <1>9, <1>10 DEF Listed

\* A call to a native is the program's own: stubs are not natives.
LEMMA NativeUntouched ==
  ASSUME IInv, NEW a \in Sites, text[a] \in Natives
  PROVE  text[a] = image[a]
  <1> SUFFICES ASSUME text[a] # image[a] PROVE FALSE
    OBVIOUS
  <1>1. PICK n \in Mocks : Active(n) /\ call[n] = a
    BY DEF IInv, TextInv
  <1>2. text[a] = def[n].mocked
    BY <1>1 DEF IInv, TextInv
  <1>3. def[n] \in MockDefs
    BY <1>1 DEF IInv, FreshInv, Fresh, Active, TypeOK, MockTypeOK
  <1> QED BY <1>2, <1>3, DisciplineAssumption DEF Disciplined

\* What a step of the first loop does: it reports a mock whose call is not
\* found, or diverts the first call that the program has to the target.
LEMMA ApplyNextEffect ==
  ASSUME IInv, ApplyNext
  PROVE  \E m \in Mocks :
           /\ pc = "apply" /\ j \in DOMAIN mocks[Current]
           /\ UNCHANGED <<testVars, result, passed, pc, i, runs>> /\ j' = j + 1
           /\ Current \in Tests /\ Listed(m, Current, j) /\ j \in Places /\ j \in Nat
           /\ Fresh(m) /\ def[m] # None /\ MockTypeOK
           /\ UNCHANGED <<image, def, freed, status>>
           /\ gstate' # "freed"
           /\ GuardTypeOK' /\ OpenPagesListed' /\ MockTypeOK'
           /\ \/ UNCHANGED <<text, call, origBytes, mockedBytes>>
              \/ \E a \in Span[def[m].orig] :
                   /\ a \in Sites
                   /\ text[a] = def[m].target
                   /\ image[a] = def[m].target
                   /\ \A b \in Span[def[m].orig] : text[b] = def[m].target => a <= b
                   /\ text' = [text EXCEPT ![a] = def[m].mocked]
                   /\ call' = [call EXCEPT ![m] = a]
                   /\ origBytes' = [origBytes EXCEPT ![m] = def[m].target]
                   /\ mockedBytes' = [mockedBytes EXCEPT ![m] = def[m].mocked]
  <1>1. /\ status = "ok" /\ pc = "apply" /\ j <= Len(mocks[Current])
        /\ UNCHANGED <<testVars, result, passed, pc, i, runs>> /\ j' = j + 1
        /\ MockApply(mocks[Current][j])
    BY DEF ApplyNext, At
  <1>2. /\ Current \in Tests /\ j \in DOMAIN mocks[Current] /\ gstate # "freed"
        /\ GuardTypeOK /\ MockTypeOK /\ OpenPagesListed
    <2>1. Current \in Tests /\ j \in Nat \ {0} /\ gstate # "freed"
      BY <1>1, CurrentTest DEF IInv, TypeOK, RunnerTypeOK, ControlInv
    <2>2. mocks[Current] \in Seq(Mocks)
      BY <2>1 DEF IInv, TypeOK, RunnerTypeOK
    <2>3. j \in DOMAIN mocks[Current]
      BY <1>1, <2>1, <2>2
    <2> QED BY <2>1, <2>3 DEF IInv, TypeOK
  <1>3. PICK m \in Mocks : m = mocks[Current][j]
    BY <1>2, ListedPlace DEF IInv, TypeOK
  <1>4. Listed(m, Current, j) /\ j \in Places /\ j \in Nat /\ MockApply(m)
    BY <1>1, <1>2, <1>3, ListedPlace DEF IInv, TypeOK, Listed
  <1>5. Fresh(m) /\ def[m] # None
    <2>1. j >= j
      BY <1>4
    <2> QED BY <1>1, <1>2, <1>4, <2>1 DEF IInv, FreshInv, ListInv
  <1>6. /\ UNCHANGED <<image, def, freed, status>>
        /\ gstate' # "freed"
        /\ GuardTypeOK' /\ OpenPagesListed' /\ MockTypeOK'
        /\ \/ UNCHANGED <<text, call, origBytes, mockedBytes>>
           \/ \E a \in Span[def[m].orig] :
                /\ a \in Sites
                /\ text[a] = def[m].target
                /\ \A b \in Span[def[m].orig] : text[b] = def[m].target => a <= b
                /\ text' = [text EXCEPT ![a] = def[m].mocked]
                /\ call' = [call EXCEPT ![m] = a]
                /\ origBytes' = [origBytes EXCEPT ![m] = def[m].target]
                /\ mockedBytes' = [mockedBytes EXCEPT ![m] = def[m].mocked]
    BY <1>2, <1>4, <1>5, ApplyEffect DEF Fresh
  <1>7. def[m].target \in Natives
    <2>1. def[m] \in MockDefs
      BY <1>2, <1>5 DEF MockTypeOK
    <2> QED BY <2>1, DisciplineAssumption DEF Disciplined
  <1>8. \A a \in Sites : text[a] = def[m].target => image[a] = def[m].target
    BY <1>7, NativeUntouched
  <1> QED BY <1>1, <1>2, <1>4, <1>5, <1>6, <1>8

\* One mock_apply preserves the invariant, whether or not it finds a call.
LEMMA ApplyNextInv == ASSUME IInv, ApplyNext PROVE IInv'
  <1>1. PICK m \in Mocks :
           /\ pc = "apply" /\ j \in DOMAIN mocks[Current]
           /\ UNCHANGED <<testVars, result, passed, pc, i, runs>> /\ j' = j + 1
           /\ Current \in Tests /\ Listed(m, Current, j) /\ j \in Places /\ j \in Nat
           /\ Fresh(m) /\ def[m] # None /\ MockTypeOK
           /\ UNCHANGED <<image, def, freed, status>>
           /\ gstate' # "freed"
           /\ GuardTypeOK' /\ OpenPagesListed' /\ MockTypeOK'
           /\ \/ UNCHANGED <<text, call, origBytes, mockedBytes>>
              \/ \E a \in Span[def[m].orig] :
                   /\ a \in Sites
                   /\ text[a] = def[m].target
                   /\ image[a] = def[m].target
                   /\ \A b \in Span[def[m].orig] : text[b] = def[m].target => a <= b
                   /\ text' = [text EXCEPT ![a] = def[m].mocked]
                   /\ call' = [call EXCEPT ![m] = a]
                   /\ origBytes' = [origBytes EXCEPT ![m] = def[m].target]
                   /\ mockedBytes' = [mockedBytes EXCEPT ![m] = def[m].mocked]
    BY ApplyNextEffect
  <1>6. /\ RunnerTypeOK' /\ ControlInv' /\ ListInv'
        /\ Current' = Current
        /\ \A t \in Tests : Reached(t) => Reached(t)'
        /\ Reached(Current)
        /\ \A x \in Mocks, t \in Tests, k \in Places : Listed(x, t, k)' <=> Listed(x, t, k)
    BY <1>1, LoopStep
  <1>7. \A x \in Mocks : x # m => (Active(x)' <=> Active(x)) /\ (Fresh(x)' <=> Fresh(x))
                                  /\ call'[x] = call[x]
    BY <1>1 DEF MockTypeOK, Active, Fresh
  <1>8. \A x \in Mocks, t \in Tests, k \in Places :
          Listed(x, t, k) /\ x = m => t = Current /\ k = j
    BY <1>1 DEF IInv, ListInv
  <1>9. FreshInv'
    <2>1. \A x \in Mocks : def'[x] = None => Fresh(x)'
      BY <1>1, <1>7 DEF IInv, FreshInv
    <2>2. \A t \in Tests, k \in Places, x \in Mocks :
            Listed(x, t, k)' => Reached(t)' \/ Fresh(x)'
      BY <1>1, <1>6, <1>7, <1>8 DEF IInv, FreshInv
    <2>3. \A k \in Places : k >= j + 1 => k >= j /\ k # j
      BY <1>1 DEF Places
    <2> QED BY <1>1, <1>6, <1>7, <1>8, <2>1, <2>2, <2>3 DEF IInv, FreshInv
  <1>10. PlaceInv'
    <2>1. \A k \in Places : k < j => k < j + 1
      BY <1>1 DEF Places
    <2>2. j < j + 1
      BY <1>1
    <2> SUFFICES ASSUME NEW x \in Mocks, Active(x)'
                 PROVE  \E k \in Places : Listed(x, Current, k) /\ k < j + 1
      BY <1>1, <1>6 DEF PlaceInv
    <2>3. CASE x = m
      BY <1>1, <2>2, <2>3
    <2>4. CASE x # m
      BY <1>1, <1>7, <2>1, <2>4 DEF IInv, PlaceInv
    <2> QED BY <2>3, <2>4
  <1>11. CASE UNCHANGED <<text, call, origBytes, mockedBytes>>
    <2>1. \A x \in Mocks : Active(x)' <=> Active(x)
      BY <1>1, <1>11 DEF Active
    <2>2. TextInv' /\ FirstInv' /\ OrderInv'
      BY <1>1, <1>6, <1>11, <2>1 DEF IInv, TextInv, FirstInv, OrderInv
    <2> QED BY <1>1, <1>6, <1>9, <1>10, <2>2 DEF IInv, TypeOK
  <1>12. ASSUME NEW a \in Span[def[m].orig], a \in Sites,
                text[a] = def[m].target, image[a] = def[m].target,
                \A b \in Span[def[m].orig] : text[b] = def[m].target => a <= b,
                text' = [text EXCEPT ![a] = def[m].mocked],
                call' = [call EXCEPT ![m] = a],
                origBytes' = [origBytes EXCEPT ![m] = def[m].target],
                mockedBytes' = [mockedBytes EXCEPT ![m] = def[m].mocked]
         PROVE  TextInv' /\ FirstInv' /\ OrderInv'
    <2>1. /\ \A x \in Mocks : def[x] # None =>
               /\ def[x] \in MockDefs
               /\ def[x].orig \in Tested
               /\ def[x].target \in Natives
               /\ def[x].mocked \notin Natives
          /\ \A x \in Mocks : def[x] # None /\ def[x].mocked = def[m].mocked =>
               def[x].target = def[m].target
      <3>1. \A x \in Mocks : def[x] # None => def[x] \in MockDefs
        BY <1>1 DEF MockTypeOK
      <3>2. \A d \in MockDefs : d.orig \in Tested
        BY MockAssumption
      <3>3. /\ \A d \in MockDefs : d.target \in Natives /\ d.mocked \notin Natives
            /\ \A d, e \in MockDefs : d.mocked = e.mocked => d.target = e.target
        BY DisciplineAssumption DEF Disciplined
      <3> QED BY <1>1, <3>1, <3>2, <3>3
    <2>2. \A x \in Mocks : Active(x) => def[x] # None /\ x # m
      BY <1>1 DEF IInv, FreshInv, Fresh, Active
    <2>3. /\ text'[a] = def[m].mocked
          /\ \A b \in Sites : b # a => text'[b] = text[b]
          /\ call'[m] = a /\ origBytes'[m] = def[m].target
          /\ mockedBytes'[m] = def[m].mocked
          /\ \A x \in Mocks : x # m => /\ origBytes'[x] = origBytes[x]
                                       /\ mockedBytes'[x] = mockedBytes[x]
      BY <1>1, <1>12 DEF MockTypeOK
    <2>4. \A x \in Mocks : Active(x) => call[x] # a
      BY <1>1, <1>12, <2>1, <2>2 DEF IInv, TextInv
    <2>5. image[a] = def[m].target
      BY <1>12
    <2>6. \A x \in Mocks : Active(x)' <=> Active(x) \/ x = m
      <3>1. a # NullCall
        BY <1>12, MockAssumption DEF NullCall
      <3>2. Active(m)'
        BY <1>1, <2>3, <3>1 DEF Active, Fresh
      <3> QED BY <1>7, <3>2
    <2>7. \A f \in Tested : Span[f] \subseteq Sites
      BY MockAssumption
    <2>8. TextInv'
      <3>1. \A x \in Mocks : Active(x)' =>
              /\ call'[x] \in Span[def[x].orig]
              /\ text'[call'[x]] = def[x].mocked
              /\ image[call'[x]] = def[x].target
              /\ origBytes'[x] = def[x].target
              /\ mockedBytes'[x] = def[x].mocked
        <4> SUFFICES ASSUME NEW x \in Mocks, Active(x)'
                     PROVE  /\ call'[x] \in Span[def[x].orig]
                            /\ text'[call'[x]] = def[x].mocked
                            /\ image[call'[x]] = def[x].target
                            /\ origBytes'[x] = def[x].target
                            /\ mockedBytes'[x] = def[x].mocked
          OBVIOUS
        <4>1. CASE x = m
          BY <1>12, <2>3, <2>5, <4>1
        <4>2. CASE x # m
          <5>1. Active(x) /\ call'[x] = call[x]
            BY <1>7, <4>2
          <5>2. /\ call[x] \in Span[def[x].orig] /\ call[x] # a /\ call[x] \in Sites
            BY <2>1, <2>2, <2>4, <2>7, <5>1 DEF IInv, TextInv
          <5> QED BY <2>3, <4>2, <5>1, <5>2 DEF IInv, TextInv
        <4> QED BY <4>1, <4>2
      <3>2. \A x, y \in Mocks : Active(x)' /\ Active(y)' /\ call'[x] = call'[y] => x = y
        BY <1>7, <2>3, <2>4, <2>6 DEF IInv, TextInv
      <3>3. \A b \in Sites : text'[b] # image[b] => \E x \in Mocks : Active(x)' /\ call'[x] = b
        <4> SUFFICES ASSUME NEW b \in Sites, text'[b] # image[b]
                     PROVE  \E x \in Mocks : Active(x)' /\ call'[x] = b
          OBVIOUS
        <4>1. CASE b = a
          BY <1>1, <2>3, <2>6, <4>1
        <4>2. CASE b # a
          <5>1. PICK x \in Mocks : Active(x) /\ call[x] = b
            BY <2>3, <4>2 DEF IInv, TextInv
          <5> QED BY <1>7, <2>2, <2>6, <5>1
        <4> QED BY <4>1, <4>2
      <3> QED BY <1>1, <3>1, <3>2, <3>3 DEF TextInv
    <2>9. FirstInv'
      <3> SUFFICES ASSUME NEW x \in Mocks, Active(x)', NEW b \in Span[def[x].orig],
                          text'[b] = def[x].target
                   PROVE  call'[x] < b
        BY <1>1 DEF FirstInv
      <3>1. def[x] # None /\ b \in Sites /\ b \in Nat /\ a \in Nat
        BY <1>1, <1>12, <2>1, <2>2, <2>6, <2>7, MockAssumption
      <3>2. b # a /\ text[b] = def[x].target
        <4>1. def[x].target # def[m].mocked
          BY <1>1, <2>1, <3>1
        <4>2. b # a
          BY <2>3, <4>1
        <4> QED BY <2>3, <3>1, <4>2
      <3>3. CASE x = m
        <4>1. a <= b
          BY <1>12, <3>2, <3>3
        <4> QED BY <2>3, <3>1, <3>2, <3>3, <4>1
      <3>4. CASE x # m
        BY <1>1, <1>7, <3>2, <3>4 DEF IInv, FirstInv
      <3> QED BY <3>3, <3>4
    <2>10. OrderInv'
      <3> SUFFICES ASSUME NEW t \in Tests, NEW k \in Places, NEW n \in Places,
                          NEW x \in Mocks, NEW y \in Mocks,
                          Listed(x, t, k), Listed(y, t, n), k < n, Active(x)', Active(y)',
                          def[x].mocked = def[y].mocked, call'[y] \in Span[def[x].orig]
                   PROVE  call'[x] < call'[y]
        BY <1>1, <1>6 DEF OrderInv
      <3>1. CASE x = m
        <4>1. y # m /\ Active(y)
          <5>1. k # n
            BY DEF Places
          <5>2. y # m
            BY <1>8, <3>1, <5>1
          <5> QED BY <1>7, <5>2
        <4>2. PICK q \in Places : Listed(y, Current, q) /\ q < j
          BY <1>1, <4>1 DEF IInv, PlaceInv
        <4>3. n = q /\ k = j
          BY <1>1, <1>8, <3>1, <4>2 DEF IInv, ListInv
        <4> QED BY <4>2, <4>3, <1>1 DEF Places
      <3>2. CASE x # m /\ y = m
        <4>1. Active(x)
          BY <1>7, <3>2
        <4>2. text[a] = def[x].target /\ a \in Span[def[x].orig]
          BY <1>12, <2>1, <2>2, <2>3, <3>2, <4>1
        <4>3. call[x] < a
          BY <1>1, <4>1, <4>2 DEF IInv, FirstInv
        <4> QED BY <1>7, <2>3, <3>2, <4>3
      <3>3. CASE x # m /\ y # m
        <4>1. Active(x) /\ Active(y) /\ call'[x] = call[x] /\ call'[y] = call[y]
          BY <1>7, <3>3
        <4> QED BY <4>1 DEF IInv, OrderInv
      <3> QED BY <3>1, <3>2, <3>3
    <2> QED BY <2>8, <2>9, <2>10
  <1> QED BY <1>1, <1>6, <1>9, <1>10, <1>11, <1>12 DEF IInv, TypeOK

\* What a step of the second loop does: it skips a mock that was never
\* applied, or undoes an active one.
LEMMA RestoreNextEffect ==
  ASSUME IInv, RestoreNext
  PROVE  \E m \in Mocks :
           /\ pc = "restore" /\ j \in DOMAIN mocks[Current]
           /\ UNCHANGED <<testVars, result, passed, pc, i, runs>> /\ j' = j + 1
           /\ Current \in Tests /\ Listed(m, Current, j) /\ j \in Places /\ j \in Nat
           /\ UNCHANGED <<image, def, call, origBytes, mockedBytes, status>>
           /\ gstate' # "freed"
           /\ GuardTypeOK' /\ OpenPagesListed' /\ MockTypeOK'
           /\ \/ call[m] = NullCall /\ UNCHANGED <<text, freed>>
              \/ /\ Active(m)
                 /\ text' = [text EXCEPT ![call[m]] = def[m].target]
                 /\ freed' = freed \union {m}
  <1>1. /\ status = "ok" /\ pc = "restore" /\ j <= Len(mocks[Current])
        /\ UNCHANGED <<testVars, result, passed, pc, i, runs>> /\ j' = j + 1
        /\ MockRestore(mocks[Current][j])
    BY DEF RestoreNext, At
  <1>2. Current \in Tests /\ j \in DOMAIN mocks[Current]
    <2>1. Current \in Tests /\ j \in Nat \ {0}
      BY <1>1, CurrentTest DEF IInv, TypeOK, RunnerTypeOK
    <2>2. mocks[Current] \in Seq(Mocks)
      BY <2>1 DEF IInv, TypeOK, RunnerTypeOK
    <2> QED BY <1>1, <2>1, <2>2
  <1>3. PICK m \in Mocks : m = mocks[Current][j]
    BY <1>2, ListedPlace DEF IInv, TypeOK
  <1>4. Listed(m, Current, j) /\ j \in Places /\ j \in Nat /\ MockRestore(m)
    BY <1>1, <1>2, <1>3, ListedPlace DEF IInv, TypeOK, Listed
  <1>5. /\ UNCHANGED <<image, def, call, origBytes, mockedBytes, status>>
        /\ gstate' # "freed"
        /\ GuardTypeOK' /\ OpenPagesListed' /\ MockTypeOK'
        /\ \/ call[m] = NullCall /\ UNCHANGED <<text, freed>>
           \/ /\ Active(m)
              /\ text' = [text EXCEPT ![call[m]] = def[m].target]
              /\ freed' = freed \union {m}
    BY <1>1, <1>2, <1>3, <1>4, RestoreEffect
  <1> QED BY <1>1, <1>2, <1>4, <1>5

\* One mock_restore preserves the invariant: it finds the call of its own mock.
LEMMA RestoreNextInv == ASSUME IInv, RestoreNext PROVE IInv'
  <1>1. PICK m \in Mocks :
           /\ pc = "restore" /\ j \in DOMAIN mocks[Current]
           /\ UNCHANGED <<testVars, result, passed, pc, i, runs>> /\ j' = j + 1
           /\ Current \in Tests /\ Listed(m, Current, j) /\ j \in Places /\ j \in Nat
           /\ UNCHANGED <<image, def, call, origBytes, mockedBytes, status>>
           /\ gstate' # "freed"
           /\ GuardTypeOK' /\ OpenPagesListed' /\ MockTypeOK'
           /\ \/ call[m] = NullCall /\ UNCHANGED <<text, freed>>
              \/ /\ Active(m)
                 /\ text' = [text EXCEPT ![call[m]] = def[m].target]
                 /\ freed' = freed \union {m}
    BY RestoreNextEffect
  <1>2. /\ RunnerTypeOK' /\ ControlInv' /\ ListInv'
        /\ Current' = Current
        /\ \A t \in Tests : Reached(t) => Reached(t)'
        /\ Reached(Current)
        /\ \A x \in Mocks, t \in Tests, k \in Places : Listed(x, t, k)' <=> Listed(x, t, k)
    BY <1>1, LoopStep
  <1>3. \A x \in Mocks : Active(x)' <=> Active(x) /\ x # m
    BY <1>1 DEF Active
  <1>4. \A x \in Mocks : x # m => (Fresh(x)' <=> Fresh(x)) /\ (x \in freed' <=> x \in freed)
    BY <1>1 DEF Fresh
  <1>5. \A x \in Mocks, t \in Tests, k \in Places :
          Listed(x, t, k) /\ x = m => t = Current /\ k = j
    BY <1>1 DEF IInv, ListInv
  <1>6. def[m] # None
    BY <1>1 DEF IInv, ListInv
  <1>7. \A k \in Places : k >= j + 1 <=> k >= j /\ k # j
    BY <1>1 DEF Places
  <1>8. \A k \in Places : k < j => k < j + 1
    BY <1>1 DEF Places
  <1>9. FreshInv'
    <2>1. \A x \in Mocks : def'[x] = None => Fresh(x)'
      BY <1>1, <1>4, <1>6 DEF IInv, FreshInv
    <2>2. \A t \in Tests, k \in Places, x \in Mocks :
            Listed(x, t, k)' => Reached(t)' \/ Fresh(x)'
      BY <1>1, <1>2, <1>4, <1>5 DEF IInv, FreshInv
    <2>3. \A k \in Places, x \in Mocks :
            Listed(x, Current, k) => k < j + 1 \/ x \notin freed'
      <3> SUFFICES ASSUME NEW k \in Places, NEW x \in Mocks, Listed(x, Current, k), x \in freed'
                   PROVE  k < j + 1
        OBVIOUS
      <3>1. CASE x = m
        BY <1>1, <1>5, <3>1
      <3>2. CASE x # m
        BY <1>1, <1>4, <1>8, <3>2 DEF IInv, FreshInv
      <3> QED BY <3>1, <3>2
    <2> QED BY <1>1, <1>2, <2>1, <2>2, <2>3 DEF FreshInv
  <1>10. PlaceInv'
    <2> SUFFICES ASSUME NEW x \in Mocks, Active(x)'
                 PROVE  \E k \in Places : Listed(x, Current, k) /\ k >= j + 1
      BY <1>1, <1>2 DEF PlaceInv
    <2>1. Active(x) /\ x # m
      BY <1>3
    <2>2. PICK k \in Places : Listed(x, Current, k) /\ k >= j
      BY <1>1, <2>1 DEF IInv, PlaceInv
    <2>3. k # j
      BY <1>1, <2>1, <2>2 DEF Listed
    <2> QED BY <1>7, <2>2, <2>3
  <1>11. TextInv'
    <2>1. CASE UNCHANGED <<text, freed>> /\ call[m] = NullCall
      <3>1. ~Active(m)
        BY <2>1 DEF Active
      <3> QED BY <1>1, <1>3, <2>1, <3>1 DEF IInv, TextInv
    <2>2. CASE Active(m) /\ text' = [text EXCEPT ![call[m]] = def[m].target]
      <3>1. /\ call[m] \in Sites /\ image[call[m]] = def[m].target
            /\ \A x \in Mocks : Active(x) => call[x] \in Sites
            /\ text \in [Sites -> Callees]
        <4>1. \A x \in Mocks : Active(x) => call[x] \in Sites
          BY DEF IInv, TypeOK, MockTypeOK, Active
        <4> QED BY <2>2, <4>1 DEF IInv, TypeOK, MockTypeOK, TextInv
      <3>2. /\ text'[call[m]] = image[call[m]]
            /\ \A b \in Sites : b # call[m] => text'[b] = text[b]
        BY <2>2, <3>1
      <3>3. \A x \in Mocks : Active(x)' => text'[call[x]] = text[call[x]]
        BY <1>3, <2>2, <3>1, <3>2 DEF IInv, TextInv
      <3>4. \A b \in Sites : text'[b] # image[b] => \E x \in Mocks : Active(x)' /\ call[x] = b
        BY <1>3, <3>2 DEF IInv, TextInv
      <3> QED BY <1>1, <1>3, <3>3, <3>4 DEF IInv, TextInv
    <2> QED BY <1>1, <2>1, <2>2
  <1>12. FirstInv'
    BY <1>1 DEF FirstInv
  <1>13. OrderInv'
    BY <1>1, <1>2, <1>3 DEF IInv, OrderInv
  <1> QED BY <1>1, <1>2, <1>9, <1>10, <1>11, <1>12, <1>13 DEF IInv, TypeOK

\* guard_cleanup at the end of the run preserves the invariant.
LEMMA EndRunInv == ASSUME IInv, EndRun PROVE IInv'
  <1>1. status = "ok" /\ pc = "next" /\ i > Len(suite) /\ gstate # "freed" /\ runs = 1
    BY DEF EndRun, At, IInv, ControlInv
  <1>2. /\ GuardCleanup /\ pc' = "main"
        /\ UNCHANGED <<image, text, def, call, origBytes, mockedBytes, freed, said, status,
                       lstate, suite, test, mocks, result, passed, i, j, runs>>
    BY <1>1 DEF EndRun, mockVars, testVars
  <1>3. GuardTypeOK' /\ OpenPagesListed'
    BY <1>2, CleanupKeeps DEF IInv, TypeOK
  <1>4. \A m \in Mocks : (Active(m)' <=> Active(m)) /\ (Fresh(m)' <=> Fresh(m))
    BY <1>2 DEF Active, Fresh
  <1>5. \A m \in Mocks, t \in Tests, k \in Places : Listed(m, t, k)' <=> Listed(m, t, k)
    BY <1>2 DEF Listed
  <1>6. \A m \in Mocks : ~Active(m)
    BY <1>1 DEF IInv, PlaceInv
  <1>7. TypeOK'
    BY <1>2, <1>3 DEF IInv, TypeOK, MockTypeOK, RunnerTypeOK
  <1>8. ControlInv'
    BY <1>1, <1>2 DEF IInv, ControlInv
  <1>9. ListInv'
    BY <1>1, <1>2, <1>5 DEF IInv, ListInv
  <1>10. \A t \in Tests : Reached(t) => Reached(t)'
    BY <1>1, <1>2 DEF Reached
  <1>11. FreshInv' /\ PlaceInv' /\ FirstInv'
    BY <1>2, <1>4, <1>5, <1>6, <1>10 DEF IInv, FreshInv, PlaceInv, FirstInv
  <1>12. TextInv' /\ OrderInv'
    BY <1>2, <1>4, <1>5 DEF IInv, TextInv, OrderInv
  <1> QED BY <1>3, <1>7, <1>8, <1>9, <1>11, <1>12 DEF IInv

\* A stuttering step preserves the invariant.
LEMMA StutterInv == ASSUME IInv, UNCHANGED vars PROVE IInv'
  <1>1. UNCHANGED <<prot, guards, gstate, lost, image, text, def, call, origBytes, mockedBytes, freed,
                    said, status, lstate, suite, test, mocks, result, passed, pc, i, j, runs>>
    BY DEF vars, mvars, gvars, mockVars, testVars, runVars
  <1>2. /\ GuardTypeOK' /\ OpenPagesListed'
        /\ \A m \in Mocks : (Active(m)' <=> Active(m)) /\ (Fresh(m)' <=> Fresh(m))
    BY <1>1, MemoryUntouched DEF gvars
  <1>3. \A m \in Mocks, t \in Tests, k \in Places : Listed(m, t, k)' <=> Listed(m, t, k)
    BY <1>1 DEF Listed
  <1>4. Current' = Current /\ \A t \in Tests : Reached(t)' <=> Reached(t)
    BY <1>1 DEF Current, Reached
  <1>5. pc \notin {"main", "next"} => Current \in Tests
    BY CurrentTest DEF IInv, TypeOK
  <1>6. TypeOK'
    BY <1>1, <1>2 DEF IInv, TypeOK, MockTypeOK, RunnerTypeOK
  <1>7. ControlInv'
    BY <1>1 DEF IInv, ControlInv
  <1>8. ListInv'
    BY <1>1, <1>3 DEF IInv, ListInv
  <1>9. FreshInv' /\ PlaceInv'
    BY <1>1, <1>2, <1>3, <1>4, <1>5 DEF IInv, FreshInv, PlaceInv
  <1>10. TextInv' /\ FirstInv' /\ OrderInv'
    BY <1>1, <1>2, <1>3 DEF IInv, TextInv, FirstInv, OrderInv
  <1> QED BY <1>2, <1>6, <1>7, <1>8, <1>9, <1>10 DEF IInv

\* The invariant is inductive.
LEMMA NextInv == ASSUME IInv, [Next]_vars PROVE IInv'
  <1>1. ASSUME UserStep PROVE IInv'
    BY <1>1, UserStepInv
  <1>2. ASSUME Start PROVE IInv'
    BY <1>2, StartInv
  <1>3. ASSUME RunStep PROVE IInv'
    <2>1. ASSUME BeginTest PROVE IInv'
      BY <2>1, BeginTestInv
    <2>2. ASSUME SetupReturns PROVE IInv'
      BY <2>2, SetupReturnsInv
    <2>3. ASSUME ApplyNext PROVE IInv'
      BY <2>3, ApplyNextInv
    <2>4. ASSUME ApplyDone PROVE IInv'
      BY <2>4, ApplyDoneInv
    <2>5. ASSUME NEW r \in Results, FunctionReturns(r) PROVE IInv'
      BY <2>5, FunctionReturnsInv
    <2>6. ASSUME RestoreNext PROVE IInv'
      BY <2>6, RestoreNextInv
    <2>7. ASSUME RestoreDone PROVE IInv'
      BY <2>7, RestoreDoneInv
    <2>8. ASSUME TeardownReturns PROVE IInv'
      BY <2>8, TeardownReturnsInv
    <2>9. ASSUME EndRun PROVE IInv'
      BY <2>9, EndRunInv
    <2> QED BY <1>3, <2>1, <2>2, <2>3, <2>4, <2>5, <2>6, <2>7, <2>8, <2>9 DEF RunStep
  <1>4. CASE UNCHANGED vars
    BY <1>4, StutterInv
  <1> QED BY <1>1, <1>2, <1>3, <1>4 DEF Next

-----------------------------------------------------------------------------
(* What the invariant gives.                                               *)

\* IInv holds in every state of every run.
THEOREM Invariance == Spec => []IInv
  <1>1. Init => IInv
    BY InitInv
  <1>2. IInv /\ [Next]_vars => IInv'
    BY NextInv
  <1> QED BY <1>1, <1>2, PTL DEF Spec

\* Every variable keeps to its type: no list of mocks, no saved bytes and no
\* guard ever holds what tapi_test_run does not expect there.
THEOREM RunnerTypeCorrect == Spec => []TypeOK
  <1>1. IInv => TypeOK
    BY DEF IInv
  <1> QED BY <1>1, Invariance, PTL

\* The pages that are writable are those guard_cleanup will find, and those whose
\* guard a failing realloc made the list lose.
THEOREM RunnerListsOpenPages == Spec => []OpenPagesListed
  <1>1. IInv => OpenPagesListed
    BY DEF IInv
  <1> QED BY <1>1, Invariance, PTL

\* Without an active mock the code is the program's own.
LEMMA NoMockNoChange ==
  ASSUME IInv, \A m \in Mocks : ~Active(m)
  PROVE  text = image
  <1>1. \A a \in Sites : text[a] = image[a]
    BY DEF IInv, TextInv
  <1>2. text \in [Sites -> Callees] /\ image \in [Sites -> Natives]
    BY DEF IInv, TypeOK, MockTypeOK
  <1> QED BY <1>1, <1>2

\* The invariant implies that the code is the program's own between tests.
LEMMA InvClean == ASSUME IInv PROVE CleanBetweenTests
  <1> SUFFICES ASSUME pc \notin {"apply", "function", "restore"} PROVE text = image
    BY DEF CleanBetweenTests
  <1>1. \A m \in Mocks : ~Active(m)
    BY DEF IInv, PlaceInv
  <1> QED BY <1>1, NoMockNoChange

\* Whatever a disciplined suite mocks, every other test, and the setup and
\* teardown of the same test, run the program as it was linked.
THEOREM RunsAreClean == Spec => []CleanBetweenTests
  BY Invariance, InvClean, PTL

\* A disciplined suite meets no null call, no closed page and no freed
\* memory: the unchecked result in mock_restore is never null.
THEOREM NoFaultReached == Spec => []NoFault
  <1>1. IInv => NoFault
    BY DEF IInv, ControlInv, NoFault
  <1> QED BY <1>1, Invariance, PTL

\* The invariant implies that the diverted calls are the first ones.
LEMMA InvFirst == ASSUME IInv PROVE FirstCallsDiverted
  <1> SUFFICES ASSUME pc = "function",
                      NEW k \in DOMAIN mocks[Current],
                      NEW m, m = mocks[Current][k], call[m] # NullCall
               PROVE  /\ image[call[m]] = def[m].target
                      /\ text[call[m]] = def[m].mocked
                      /\ \A b \in Span[def[m].orig] :
                           (b < call[m] /\ image[b] = def[m].target) => text[b] # image[b]
    BY DEF FirstCallsDiverted, DivertsFirst
  <1>1. Current \in Tests
    BY CurrentTest DEF IInv, TypeOK
  <1>2. m \in Mocks /\ k \in Places /\ Listed(m, Current, k)
    BY <1>1, ListedPlace DEF IInv, TypeOK, Listed
  <1>3. Active(m)
    BY <1>1, <1>2 DEF IInv, FreshInv, Active
  <1>4. image[call[m]] = def[m].target /\ text[call[m]] = def[m].mocked
    BY <1>2, <1>3 DEF IInv, TextInv
  <1>5. \A b \in Span[def[m].orig] : text[b] = def[m].target => call[m] < b
    BY <1>2, <1>3 DEF IInv, FirstInv
  <1>6. call[m] \in Nat /\ \A b \in Span[def[m].orig] : b \in Nat
    <2>1. def[m] \in MockDefs
      BY <1>2, <1>3 DEF IInv, FreshInv, Fresh, Active, TypeOK, MockTypeOK
    <2>2. call[m] \in Sites /\ def[m].orig \in Tested
      BY <1>2, <1>3, <2>1, MockAssumption DEF IInv, TypeOK, MockTypeOK, Active
    <2> QED BY <2>2, MockAssumption
  <1> QED BY <1>4, <1>5, <1>6

\* While a test function runs, its mocks divert a prefix of the calls to
\* their targets, although each mock_apply searches only for what is left.
THEOREM MocksDivertFirstCalls == Spec => []FirstCallsDiverted
  BY Invariance, InvFirst, PTL

-----------------------------------------------------------------------------
\* mock_restore is what frees mocks; no other step does.
LEMMA OnlyRestoreFrees ==
  ASSUME [Next]_vars, freed' # freed
  PROVE  RestoreNext
  <1>1. ~UserStep
    BY DEF UserStep, TestMake, TestAddMock, MockCreate, TestAdd, TestSetup, TestDestroy,
           mvars, mockVars
  <1>2. ~Start
    BY DEF Start, Crash, CrashSaying, mvars, mockVars
  <1>3. ~ApplyNext
    <2> SUFFICES ASSUME NEW m, MockApply(m) PROVE freed' = freed
      BY DEF ApplyNext
    <2> QED BY DEF MockApply, PatchCrash, Crash, CrashSaying, mvars, mockVars
  <1>4. ~BeginTest /\ ~SetupReturns /\ ~ApplyDone /\ ~RestoreDone /\ ~TeardownReturns /\ ~EndRun
    BY DEF BeginTest, SetupReturns, ApplyDone, RestoreDone, TeardownReturns, EndRun,
           Crash, CrashSaying, mvars, mockVars
  <1>5. \A r \in Results : ~FunctionReturns(r)
    BY DEF FunctionReturns, mvars, mockVars
  <1>6. ~UNCHANGED vars
    BY DEF vars, mvars, mockVars
  <1> QED BY <1>1, <1>2, <1>3, <1>4, <1>5, <1>6 DEF Next, RunStep

\* A step that frees a mock is a mock_restore that undid that mock's patch.
LEMMA RestoreExact ==
  ASSUME IInv, [Next]_vars, NEW m \in freed' \ freed
  PROVE  /\ text[call[m]] = mockedBytes[m]
         /\ text'[call[m]] = origBytes[m]
         /\ \A a \in Sites \ {call[m]} : text'[a] = text[a]
  <1>1. RestoreNext
    BY OnlyRestoreFrees
  <1>2. PICK n \in Mocks :
           \/ call[n] = NullCall /\ UNCHANGED <<text, freed>>
           \/ /\ Active(n)
              /\ text' = [text EXCEPT ![call[n]] = def[n].target]
              /\ freed' = freed \union {n}
    BY <1>1, RestoreNextEffect
  <1>3. m = n /\ Active(m) /\ text' = [text EXCEPT ![call[m]] = def[m].target]
    BY <1>2
  <1>4. text \in [Sites -> Callees] /\ call[m] \in Sites
    BY <1>2, <1>3 DEF IInv, TypeOK, MockTypeOK, Active
  <1> QED BY <1>2, <1>3, <1>4 DEF IInv, TextInv

\* The search for the stub in mock_restore finds the call that mock_apply
\* patched for this very mock, whatever else the test mocks with that stub.
THEOREM RestoreIsExact == Spec => RestoreUndoesApply
  <1>1. ASSUME IInv, [Next]_vars
        PROVE  [\A m \in freed' \ freed :
                  /\ text[call[m]] = mockedBytes[m]
                  /\ text'[call[m]] = origBytes[m]
                  /\ \A a \in Sites \ {call[m]} : text'[a] = text[a]]_vars
    BY <1>1, RestoreExact
  <1> QED BY <1>1, Invariance, PTL DEF Spec, RestoreUndoesApply

-----------------------------------------------------------------------------
\* Every step keeps CleanupClosesAll: only guard_cleanup closes the list, and
\* it closes every page the list accounts for.
LEMMA StepCloses ==
  ASSUME IInv, CleanupClosesAll, [Next]_vars
  PROVE  CleanupClosesAll'
  <1>1. ASSUME UNCHANGED gvars PROVE CleanupClosesAll'
    BY <1>1 DEF gvars, CleanupClosesAll
  <1>2. ASSUME gstate' # "freed" PROVE CleanupClosesAll'
    BY <1>2 DEF CleanupClosesAll
  <1>3. ASSUME UserStep PROVE UNCHANGED gvars
    BY <1>3 DEF UserStep, TestMake, TestAddMock, MockCreate, TestAdd, TestSetup, TestDestroy,
                mvars
  <1>4. ASSUME Start \/ BeginTest PROVE UNCHANGED gvars
    BY <1>4 DEF Start, BeginTest, Crash, CrashSaying, mvars
  <1>5. ASSUME SetupReturns \/ ApplyDone \/ RestoreDone \/ TeardownReturns PROVE UNCHANGED gvars
    BY <1>5 DEF SetupReturns, ApplyDone, RestoreDone, TeardownReturns, mvars
  <1>6. ASSUME NEW r \in Results, FunctionReturns(r) PROVE UNCHANGED gvars
    BY <1>6 DEF FunctionReturns, mvars
  <1>7. ASSUME ApplyNext \/ RestoreNext PROVE gstate' # "freed"
    BY <1>7, ApplyNextEffect, RestoreNextEffect
  <1>8. ASSUME EndRun PROVE CleanupClosesAll'
    <2>1. CASE GuardCleanup
      BY <2>1, CleanupCloses DEF IInv, TypeOK
    <2>2. CASE Crash("freed guards")
      BY <1>1, <2>2 DEF Crash, CrashSaying
    <2> QED BY <1>8, <2>1, <2>2 DEF EndRun
  <1>9. ASSUME UNCHANGED vars PROVE UNCHANGED gvars
    BY <1>9 DEF vars, mvars
  <1> QED BY <1>1, <1>2, <1>3, <1>4, <1>5, <1>6, <1>7, <1>8, <1>9 DEF Next, RunStep

\* After a run no page of the program is left writable but those whose guard was
\* lost, whatever calls the mocks patched and however their guards overlapped.
THEOREM RunLeavesPagesClosed == Spec => []CleanupClosesAll
  <1>1. Init => CleanupClosesAll
    BY DEF Init, MockInit, GuardInit, CleanupClosesAll
  <1> QED BY <1>1, StepCloses, Invariance, PTL DEF Spec

-----------------------------------------------------------------------------
(* The runner implements Isolation.                                        *)

\* mock_apply diverts a call that was the program's own, or stutters.
LEMMA ApplyNextIsolates == ASSUME IInv, ApplyNext PROVE [Promise!IsolationNext]_Promise!ivars
  <1>1. PICK m \in Mocks :
           /\ pc = "apply" /\ UNCHANGED <<pc, image, status>>
           /\ def[m] # None
           /\ \/ UNCHANGED text
              \/ \E a \in Sites :
                   /\ text[a] = def[m].target
                   /\ image[a] = def[m].target
                   /\ text' = [text EXCEPT ![a] = def[m].mocked]
    BY ApplyNextEffect
  <1>2. status = "ok"
    BY DEF ApplyNext, At
  <1>3. Phase = "diverting" /\ Phase' = "diverting"
    BY <1>1, <1>2 DEF Phase
  <1>4. CASE UNCHANGED text
    BY <1>1, <1>3, <1>4 DEF Promise!ivars
  <1>5. ASSUME NEW a \in Sites, text[a] = image[a],
               text' = [text EXCEPT ![a] = def[m].mocked]
        PROVE  Promise!IsolationNext
    <2>1. def[m].mocked \in Callees
      BY <1>1, MockAssumption DEF IInv, TypeOK, MockTypeOK
    <2>2. Promise!Divert(a, def[m].mocked)
      BY <1>1, <1>3, <1>5 DEF Promise!Divert
    <2> QED BY <2>1, <2>2 DEF Promise!IsolationNext
  <1> QED BY <1>1, <1>4, <1>5

\* mock_restore gives one diverted call back, or stutters.
LEMMA RestoreNextIsolates == ASSUME IInv, RestoreNext PROVE [Promise!IsolationNext]_Promise!ivars
  <1>1. PICK m \in Mocks :
           /\ pc = "restore" /\ UNCHANGED <<pc, image, status>>
           /\ \/ UNCHANGED text
              \/ /\ Active(m)
                 /\ text' = [text EXCEPT ![call[m]] = def[m].target]
    BY RestoreNextEffect
  <1>2. status = "ok"
    BY DEF RestoreNext, At
  <1>3. Phase = "undoing" /\ Phase' = "undoing"
    BY <1>1, <1>2 DEF Phase
  <1>4. CASE UNCHANGED text
    BY <1>1, <1>3, <1>4 DEF Promise!ivars
  <1>5. CASE Active(m) /\ text' = [text EXCEPT ![call[m]] = def[m].target]
    <2>1. /\ call[m] \in Sites
          /\ text[call[m]] = def[m].mocked
          /\ image[call[m]] = def[m].target
      BY <1>5 DEF IInv, TypeOK, MockTypeOK, TextInv, Active
    <2>2. def[m].target # def[m].mocked
      <3>1. def[m] \in MockDefs
        BY <1>5 DEF IInv, FreshInv, Fresh, Active, TypeOK, MockTypeOK
      <3> QED BY <3>1, DisciplineAssumption DEF Disciplined
    <2>3. Promise!Undo(call[m])
      BY <1>1, <1>3, <1>5, <2>1, <2>2 DEF Promise!Undo
    <2> QED BY <2>1, <2>3 DEF Promise!IsolationNext
  <1> QED BY <1>1, <1>4, <1>5

\* Every step of the runner is a step of Isolation or a stutter.
LEMMA StepIsolates ==
  ASSUME IInv, IInv', [Next]_vars
  PROVE  [Promise!IsolationNext]_Promise!ivars
  <1> USE DEF Promise!ivars
  <1>1. ASSUME UserStep PROVE UNCHANGED <<image, text, Phase>>
    <2>1. UNCHANGED <<image, text, status, pc>>
      BY <1>1 DEF UserStep, TestMake, TestAddMock, MockCreate, TestAdd, TestSetup, TestDestroy,
                  mvars, runVars
    <2> QED BY <2>1 DEF Phase
  <1>2. ASSUME Start PROVE [Promise!IsolationNext]_Promise!ivars
    <2>1. CASE Crash("null suite") /\ UNCHANGED pc
      <3>1. UNCHANGED <<image, text>> /\ Phase = "clean" /\ Phase' = "dead"
        BY <1>2, <2>1 DEF Start, At, Crash, CrashSaying, Phase
      <3> QED BY <3>1 DEF Promise!IsolationNext, Promise!Die
    <2>2. CASE pc' = "next" /\ UNCHANGED mvars
      BY <1>2, <2>2 DEF Start, At, Phase, mvars
    <2> QED BY <1>2, <2>1, <2>2 DEF Start
  <1>3. ASSUME BeginTest PROVE UNCHANGED <<image, text, Phase>>
    <2>1. status = "ok" /\ pc = "next"
      BY <1>3 DEF BeginTest, At
    <2>2. CASE Crash("freed test")
      <3>1. status' = "freed test"
        BY <2>2 DEF Crash, CrashSaying
      <3> QED BY <3>1 DEF IInv, ControlInv
    <2>3. CASE pc' = "setup" /\ UNCHANGED mvars
      BY <2>1, <2>3 DEF Phase, mvars
    <2> QED BY <1>3, <2>2, <2>3 DEF BeginTest
  <1>4. ASSUME SetupReturns PROVE Promise!IsolationNext
    <2>1. status = "ok" /\ pc = "setup" /\ pc' = "apply" /\ UNCHANGED <<image, text, status>>
      BY <1>4 DEF SetupReturns, At, mvars
    <2>2. text = image
      BY <2>1, InvClean DEF CleanBetweenTests
    <2>3. Promise!Borrow
      BY <2>1, <2>2 DEF Promise!Borrow, Phase
    <2> QED BY <2>3 DEF Promise!IsolationNext
  <1>5. ASSUME ApplyDone PROVE Promise!IsolationNext
    <2>1. status = "ok" /\ pc = "apply" /\ pc' = "function" /\ UNCHANGED <<image, text, status>>
      BY <1>5 DEF ApplyDone, At, mvars
    <2>2. Promise!RunFunction
      BY <2>1 DEF Promise!RunFunction, Phase
    <2> QED BY <2>2 DEF Promise!IsolationNext
  <1>6. ASSUME NEW r \in Results, FunctionReturns(r) PROVE Promise!IsolationNext
    <2>1. status = "ok" /\ pc = "function" /\ pc' = "restore" /\ UNCHANGED <<image, text, status>>
      BY <1>6 DEF FunctionReturns, At, mvars
    <2>2. Promise!FunctionDone
      BY <2>1 DEF Promise!FunctionDone, Phase
    <2> QED BY <2>2 DEF Promise!IsolationNext
  <1>7. ASSUME RestoreDone PROVE Promise!IsolationNext
    <2>1. status = "ok" /\ pc = "restore" /\ pc' = "teardown" /\ UNCHANGED <<image, text, status>>
      BY <1>7 DEF RestoreDone, At, mvars
    <2>2. text' = image'
      <3>1. \A m \in Mocks : ~Active(m)'
        BY <2>1 DEF IInv, PlaceInv
      <3>2. \A a \in Sites : text'[a] = image'[a]
        BY <3>1 DEF IInv, TextInv
      <3>3. text' \in [Sites -> Callees] /\ image' \in [Sites -> Natives]
        BY DEF IInv, TypeOK, MockTypeOK
      <3> QED BY <3>2, <3>3
    <2>3. Promise!Return
      BY <2>1, <2>2 DEF Promise!Return, Phase
    <2> QED BY <2>3 DEF Promise!IsolationNext
  <1>8. ASSUME TeardownReturns PROVE UNCHANGED <<image, text, Phase>>
    BY <1>8 DEF TeardownReturns, At, mvars, Phase
  <1>9. ASSUME EndRun PROVE UNCHANGED <<image, text, Phase>>
    <2>1. status = "ok" /\ pc = "next" /\ gstate # "freed"
      BY <1>9 DEF EndRun, At, IInv, ControlInv
    <2>2. UNCHANGED <<image, text, status>> /\ pc' = "main"
      BY <1>9, <2>1 DEF EndRun
    <2> QED BY <2>1, <2>2 DEF Phase
  <1>10. CASE UNCHANGED vars
    BY <1>10 DEF vars, mvars, runVars, Phase
  <1> QED BY <1>1, <1>2, <1>3, <1>4, <1>5, <1>6, <1>7, <1>8, <1>9, <1>10,
             ApplyNextIsolates, RestoreNextIsolates DEF Next, RunStep

\* The initial states of the runner are initial states of Isolation.
LEMMA InitIsolates == ASSUME Init PROVE Promise!IsolationInit
  <1>1. image \in [Sites -> Callees]
    BY MockAssumption DEF Init, MockInit
  <1> QED BY <1>1 DEF Init, MockInit, Promise!IsolationInit, Phase

\* Running a disciplined suite, search by search and patch by patch, is a
\* sequence of loans of the code that are each given back in full.
THEOREM RunnerImplementsIsolation == Spec => IsolationKept
  <1>1. Init => Promise!IsolationInit
    BY InitIsolates
  <1>2. IInv /\ IInv' /\ [Next]_vars => [Promise!IsolationNext]_Promise!ivars
    BY StepIsolates
  <1> QED BY <1>1, <1>2, Invariance, PTL DEF Spec, IsolationKept, Promise!IsolationSpec
=============================================================================
