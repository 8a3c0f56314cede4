---------------------------- MODULE MisuseProofs ----------------------------
(***************************************************************************)
(* What every user of the runner may rely on: MisuseInv, and what it gives *)
(* for suites listed and run any number of times, mocks that share stubs,  *)
(* calls that cannot be patched and an mprotect that fails.                *)
(***************************************************************************)
EXTENDS MisuseInv, GuardProofs, FiniteSetTheorems

\* First what the pieces of a run do: the patch, mock_apply and mock_restore.

\* patch_call_target writes one call or reports that it refused to, and keeps
\* the types of what it touches.
LEMMA PatchFacts ==
  ASSUME GuardTypeOK, MockTypeOK, NEW a \in Sites, NEW c \in Callees,
         NEW granted \in MprotectOutcomes, PatchCallTarget(a, c, granted)
  PROVE  /\ GuardTypeOK' /\ UNCHANGED <<image, status>>
         /\ gstate # "freed" /\ gstate' # "freed"
         /\ text' \in [Sites -> Callees]
         /\ said \subseteq said' /\ said' \subseteq Messages
         /\ "refused" \in said' \/ text' = [text EXCEPT ![a] = c]
  <1>1. granted \in BOOLEAN /\ a \in Nat /\ Length[a] \in Nat \ {0}
    BY GuardAssumption, MockAssumption
  <1>2. GuardCreate(a, Length[a], granted)
    BY DEF PatchCallTarget
  <1>3. GuardTypeOK'
    BY <1>1, <1>2, CreateTypeOK
  <1>4. Patch(a, c) /\ UNCHANGED <<image, status>>
    BY DEF PatchCallTarget
  <1>5. said' = said \union Complaints(a, c, granted)
    BY DEF PatchCallTarget
  <1>6. Complaints(a, c, granted) \subseteq Messages
    BY DEF Complaints, Messages
  <1>7. text' \in [Sites -> Callees]
    BY <1>4 DEF Patch, MockTypeOK
  <1>8. "refused" \in said' \/ text' = [text EXCEPT ![a] = c]
    <2>1. CASE Accepts(a, c)
      BY <1>4, <2>1 DEF Patch
    <2>2. CASE ~Accepts(a, c)
      BY <1>5, <2>2 DEF Complaints
    <2> QED BY <2>1, <2>2
  <1> QED BY <1>2, <1>3, <1>4, <1>5, <1>6, <1>7, <1>8 DEF MockTypeOK, GuardCreate

\* What is the same for mock_apply and mock_restore of m, whatever they do: a
\* use of freed memory shows that it was freed.
Survives(m) ==
  /\ GuardTypeOK' /\ MockTypeOK'
  /\ UNCHANGED <<image, def>>
  /\ said \subseteq said'
  /\ gstate' = "freed" => gstate = "freed"
  /\ status' = "freed mock" => m \in freed
  /\ status' = "freed guards" => gstate = "freed"
  /\ status' # "freed test"

\* A crash keeps the state, and is one of the known faults.
LEMMA CrashFacts ==
  ASSUME GuardTypeOK, MockTypeOK, NEW reason \in Faults,
         NEW messages \in SUBSET Messages, CrashSaying(reason, messages)
  PROVE  /\ GuardTypeOK' /\ MockTypeOK' /\ status' = reason /\ status' # "ok"
         /\ UNCHANGED <<prot, guards, gstate, lost, image, text, def, call, origBytes,
                        mockedBytes, freed>>
         /\ said' = said \union messages
  <1>1. /\ UNCHANGED <<prot, guards, gstate, lost, image, text, def, call, origBytes,
                       mockedBytes, freed>>
        /\ status' = reason
        /\ said' = said \union messages
    BY DEF CrashSaying, gvars, mockVars
  <1> QED BY <1>1 DEF GuardTypeOK, MockTypeOK, Faults

\* A crash inside patch_call_target.
LEMMA PatchCrashFacts ==
  ASSUME GuardTypeOK, MockTypeOK, NEW a, NEW c, NEW granted, PatchCrash(a, c, granted),
         NEW m
  PROVE  /\ Survives(m) /\ status' # "ok" /\ status' # "null call"
         /\ UNCHANGED <<text, call, freed>>
  <1>1. Complaints(a, c, granted) \in SUBSET Messages /\ {} \in SUBSET Messages
    BY DEF Complaints, Messages
  <1>2. PICK reason \in {"freed guards", "unwritable"}, messages \in SUBSET Messages :
          CrashSaying(reason, messages) /\ (reason = "freed guards" => gstate = "freed")
    BY <1>1 DEF PatchCrash, Crash
  <1>3. reason \in Faults
    BY DEF Faults
  <1> QED BY <1>2, <1>3, CrashFacts DEF Survives

\* A message on stderr changes nothing else.
LEMMA SayFacts ==
  ASSUME GuardTypeOK, MockTypeOK, NEW messages \in SUBSET Messages, said' = said \union messages,
         UNCHANGED <<gvars, image, text, mockVars, status>>, status = "ok", NEW m
  PROVE  /\ Survives(m) /\ status' = "ok"
         /\ UNCHANGED <<text, call, freed>>
  <1>1. UNCHANGED <<prot, guards, gstate, lost, image, text, def, call, origBytes,
                    mockedBytes, freed, status>>
    BY DEF gvars, mockVars
  <1>2. said \subseteq said' /\ said' \subseteq Messages
    BY DEF MockTypeOK
  <1> QED BY <1>1, <1>2 DEF GuardTypeOK, MockTypeOK, Survives

\* mock_apply records a call it found, also when the patch was refused; when it
\* finds none or the process dies, the mock stays as it was.
LEMMA ApplyFacts ==
  ASSUME GuardTypeOK, MockTypeOK, status = "ok",
         NEW m \in Mocks, def[m] # None, MockApply(m)
  PROVE  /\ Survives(m) /\ status' # "null call" /\ UNCHANGED freed
         /\ \/ UNCHANGED <<text, call>>
            \/ \E a \in Finds(def[m].orig, def[m].target) :
                 /\ a \in Sites
                 /\ m \notin freed
                 /\ \A b \in Finds(def[m].orig, def[m].target) : a <= b
                 /\ call' = [call EXCEPT ![m] = a]
                 /\ "refused" \in said' \/ text' = [text EXCEPT ![a] = def[m].mocked]
  <1>1. def[m].orig \in Tested /\ def[m].target \in Callees /\ def[m].mocked \in Callees
    BY MockAssumption DEF MockTypeOK
  <1>2. CASE m \in freed /\ Crash("freed mock")
    <2>1. "freed mock" \in Faults /\ {} \in SUBSET Messages
      BY DEF Faults
    <2> QED BY <1>2, <2>1, CrashFacts DEF Survives, Crash
  <1>3. CASE UNCHANGED mvars
    <2>1. {} \in SUBSET Messages /\ said' = said \union {}
          /\ UNCHANGED <<gvars, image, text, mockVars, status>>
      BY <1>3 DEF mvars
    <2> QED BY <2>1, SayFacts
  <1>4. ASSUME NEW a \in Sites, NEW granted \in MprotectOutcomes, m \notin freed,
               IsFirstCall(def[m].orig, def[m].target, a),
               PatchCallTarget(a, def[m].mocked, granted),
               call' = [call EXCEPT ![m] = a],
               origBytes' = [origBytes EXCEPT ![m] = text[a]],
               mockedBytes' = [mockedBytes EXCEPT ![m] = text'[a]],
               UNCHANGED <<def, freed>>
        PROVE  /\ Survives(m) /\ status' # "null call" /\ UNCHANGED freed
               /\ a \in Finds(def[m].orig, def[m].target)
               /\ \A b \in Finds(def[m].orig, def[m].target) : a <= b
               /\ call' = [call EXCEPT ![m] = a]
               /\ "refused" \in said' \/ text' = [text EXCEPT ![a] = def[m].mocked]
    <2>1. /\ GuardTypeOK' /\ UNCHANGED <<image, status>>
          /\ gstate # "freed" /\ gstate' # "freed"
          /\ text' \in [Sites -> Callees]
          /\ said \subseteq said' /\ said' \subseteq Messages
          /\ "refused" \in said' \/ text' = [text EXCEPT ![a] = def[m].mocked]
      BY <1>1, <1>4, PatchFacts
    <2>2. text[a] \in Callees /\ text'[a] \in Callees
      BY <2>1 DEF MockTypeOK
    <2>3. MockTypeOK'
      BY <1>4, <2>1, <2>2 DEF MockTypeOK
    <2> QED BY <1>4, <2>1, <2>3 DEF Survives, IsFirstCall
  <1>5. ASSUME NEW a \in Sites, NEW granted \in MprotectOutcomes,
               PatchCrash(a, def[m].mocked, granted)
        PROVE  Survives(m) /\ status' # "null call" /\ UNCHANGED <<text, call, freed>>
    BY <1>5, PatchCrashFacts
  <1>6. CASE /\ said' = said \union {"no memory"}
             /\ UNCHANGED <<gvars, image, text, mockVars, status>>
    <2>1. {"no memory"} \in SUBSET Messages
      BY DEF Messages
    <2> QED BY <1>6, <2>1, SayFacts
  <1> QED BY <1>2, <1>3, <1>4, <1>5, <1>6 DEF MockApply, SearchFinds

\* mock_restore crashes on a null call if its search finds nothing or has no
\* memory; else it frees the mock, unless mock_apply never gave it a call.
LEMMA RestoreFacts ==
  ASSUME GuardTypeOK, MockTypeOK, status = "ok",
         NEW m \in Mocks, def[m] # None, MockRestore(m)
  PROVE  /\ Survives(m) /\ UNCHANGED call
         /\ status' = "null call" =>
              /\ m \notin freed /\ call[m] # NullCall
              /\ "no memory" \in said' \/ Finds(def[m].orig, def[m].mocked) = {}
         /\ \/ UNCHANGED <<text, freed>> /\ (status' # "ok" \/ call[m] = NullCall)
            \/ /\ freed' = freed \union {m}
               /\ m \notin freed /\ call[m] # NullCall
               /\ \E a \in Finds(def[m].orig, def[m].mocked) :
                    /\ a \in Sites
                    /\ "refused" \in said' \/ text' = [text EXCEPT ![a] = def[m].target]
  <1>1. def[m].orig \in Tested /\ def[m].target \in Callees /\ def[m].mocked \in Callees
    BY MockAssumption DEF MockTypeOK
  <1>2. CASE m \in freed /\ Crash("freed mock")
    <2>1. "freed mock" \in Faults /\ {} \in SUBSET Messages
      BY DEF Faults
    <2> QED BY <1>2, <2>1, CrashFacts DEF Survives, Crash
  <1>3. CASE Unapplied(m) /\ UNCHANGED mvars
    <2>1. {} \in SUBSET Messages /\ said' = said \union {}
          /\ UNCHANGED <<gvars, image, text, mockVars, status>>
      BY <1>3 DEF mvars
    <2> QED BY <1>3, <2>1, SayFacts DEF Unapplied
  <1>4. CASE /\ m \notin freed /\ ~Unapplied(m)
             /\ Finds(def[m].orig, def[m].mocked) = {} /\ Crash("null call")
    <2>1. "null call" \in Faults /\ {} \in SUBSET Messages
      BY DEF Faults
    <2> QED BY <1>4, <2>1, CrashFacts DEF Survives, Unapplied, Crash
  <1>5. ASSUME NEW a \in Sites, NEW granted \in MprotectOutcomes,
               m \notin freed, ~Unapplied(m),
               IsFirstCall(def[m].orig, def[m].mocked, a),
               PatchCallTarget(a, def[m].target, granted),
               freed' = freed \union {m},
               UNCHANGED <<def, call, origBytes, mockedBytes>>
        PROVE  /\ Survives(m) /\ UNCHANGED call /\ status' # "null call"
               /\ freed' = freed \union {m}
               /\ m \notin freed /\ call[m] # NullCall
               /\ a \in Finds(def[m].orig, def[m].mocked)
               /\ "refused" \in said' \/ text' = [text EXCEPT ![a] = def[m].target]
    <2>1. /\ GuardTypeOK' /\ UNCHANGED <<image, status>>
          /\ gstate # "freed" /\ gstate' # "freed"
          /\ text' \in [Sites -> Callees]
          /\ said \subseteq said' /\ said' \subseteq Messages
          /\ "refused" \in said' \/ text' = [text EXCEPT ![a] = def[m].target]
      BY <1>1, <1>5, PatchFacts
    <2>2. MockTypeOK'
      BY <1>5, <2>1 DEF MockTypeOK
    <2> QED BY <1>5, <2>1, <2>2 DEF Survives, IsFirstCall, Unapplied
  <1>6. ASSUME NEW a \in Sites, NEW granted \in MprotectOutcomes,
               PatchCrash(a, def[m].target, granted)
        PROVE  Survives(m) /\ status' # "null call" /\ status' # "ok"
               /\ UNCHANGED <<text, call, freed>>
    BY <1>6, PatchCrashFacts
  <1>7. CASE m \notin freed /\ ~Unapplied(m) /\ CrashSaying("null call", {"no memory"})
    <2>1. "null call" \in Faults /\ {"no memory"} \in SUBSET Messages
      BY DEF Faults, Messages
    <2> QED BY <1>7, <2>1, CrashFacts DEF Survives, Unapplied
  <1> QED BY <1>2, <1>3, <1>4, <1>5, <1>6, <1>7 DEF MockRestore, SearchFinds

-----------------------------------------------------------------------------
(* Counting calls and mocks.                                               *)

One(condition) == IF condition THEN 1 ELSE 0

\* A finite set has one element more than without x, if x is in it.
LEMMA CountWithout ==
  ASSUME NEW S, IsFiniteSet(S), NEW x
  PROVE  /\ Cardinality(S) \in Nat /\ Cardinality(S \ {x}) \in Nat
         /\ IsFiniteSet(S \ {x})
         /\ Cardinality(S) = Cardinality(S \ {x}) + One(x \in S)
  <1>1. CASE x \in S
    <2>1. /\ Cardinality(S) \in Nat /\ IsFiniteSet(S \ {x})
          /\ Cardinality(S \ {x}) = Cardinality(S) - 1 /\ Cardinality(S \ {x}) \in Nat
      BY <1>1, FS_RemoveElement, FS_CardinalityType
    <2> QED BY <1>1, <2>1 DEF One
  <1>2. CASE x \notin S
    <2>1. S \ {x} = S
      BY <1>2
    <2>2. Cardinality(S) \in Nat
      BY FS_CardinalityType
    <2>3. One(x \in S) = 0
      BY <1>2 DEF One
    <2> QED BY <2>1, <2>2, <2>3
  <1> QED BY <1>1, <1>2

\* Two finite sets that differ in x at most.
LEMMA CountDiffers ==
  ASSUME NEW S, NEW T, IsFiniteSet(S), IsFiniteSet(T), NEW x, S \ {x} = T \ {x}
  PROVE  /\ Cardinality(S) \in Nat /\ Cardinality(T) \in Nat
         /\ Cardinality(T) + One(x \in S) = Cardinality(S) + One(x \in T)
  <1>1. /\ Cardinality(S) \in Nat /\ Cardinality(T) \in Nat /\ Cardinality(S \ {x}) \in Nat
        /\ Cardinality(S) = Cardinality(S \ {x}) + One(x \in S)
        /\ Cardinality(T) = Cardinality(S \ {x}) + One(x \in T)
    BY CountWithout
  <1>2. One(x \in S) \in Nat /\ One(x \in T) \in Nat
    BY DEF One
  <1> QED BY <1>1, <1>2

\* One rewritten call is one fewer to what it called and one more to what it
\* calls now.
LEMMA CountRewritten ==
  ASSUME NEW f \in [Sites -> Callees], NEW a \in Sites, NEW c \in Callees, NEW x \in Callees
  PROVE  /\ Cardinality(CallsTo(f, x)) \in Nat
         /\ Cardinality(CallsTo([f EXCEPT ![a] = c], x)) \in Nat
         /\ Cardinality(CallsTo([f EXCEPT ![a] = c], x)) + One(f[a] = x)
              = Cardinality(CallsTo(f, x)) + One(c = x)
  <1> DEFINE g == [f EXCEPT ![a] = c]
             S == CallsTo(f, x)
             T == CallsTo(g, x)
  <1>1. IsFiniteSet(S) /\ IsFiniteSet(T)
    <2>1. S \in SUBSET Sites /\ T \in SUBSET Sites
      BY DEF CallsTo
    <2>2. IsFiniteSet(Sites)
      BY MockAssumption
    <2> HIDE DEF S, T
    <2> QED BY <2>1, <2>2, FS_Subset
  <1>2. S \ {a} = T \ {a} /\ (a \in S <=> f[a] = x) /\ (a \in T <=> c = x)
    BY DEF CallsTo
  <1>3. One(a \in S) = One(f[a] = x) /\ One(a \in T) = One(c = x)
    BY <1>2 DEF One
  <1>4. /\ Cardinality(S) \in Nat /\ Cardinality(T) \in Nat
        /\ Cardinality(T) + One(a \in S) = Cardinality(S) + One(a \in T)
    <2> HIDE DEF S, T
    <2> QED BY <1>1, <1>2, CountDiffers
  <1> QED BY <1>3, <1>4

\* The program as linked has a number of calls to c.
LEMMA ImageCount == ASSUME NEW c PROVE Cardinality(CallsTo(image, c)) \in Nat
  <1>1. CallsTo(image, c) \in SUBSET Sites
    BY DEF CallsTo
  <1>2. IsFiniteSet(Sites)
    BY MockAssumption
  <1>3. IsFiniteSet(CallsTo(image, c))
    BY <1>1, <1>2, FS_Subset
  <1> QED BY <1>3, FS_CardinalityType

-----------------------------------------------------------------------------
(* The steps that call neither mock_apply nor mock_restore.                *)

QuietStep ==
  \/ UserStep
  \/ Start
  \/ BeginTest
  \/ SetupReturns
  \/ ApplyDone
  \/ \E r \in Results : FunctionReturns(r)
  \/ RestoreDone
  \/ TeardownReturns
  \/ EndRun
  \/ UNCHANGED vars

\* What no such step does: touch the code or a mock that exists.
Kept ==
  /\ UNCHANGED <<image, text, call, freed>>
  /\ said \subseteq said'
  /\ status' = "ok" => status = "ok"
  /\ \A m \in Mocks : def[m] # None => def'[m] = def[m]

\* The lists of tests and of mocks only get longer.
Grown ==
  /\ \A k \in DOMAIN suite : k \in DOMAIN suite' /\ suite'[k] = suite[k]
  /\ \A t \in Tests : \A k \in DOMAIN mocks[t] :
       k \in DOMAIN mocks'[t] /\ mocks'[t][k] = mocks[t][k]

\* Steps that leave the mocks and the pages alone.
LEMMA MemoryKept ==
  ASSUME TypeOK, UNCHANGED mvars
  PROVE  GuardTypeOK' /\ MockTypeOK' /\ Kept
  BY DEF TypeOK, GuardTypeOK, MockTypeOK, Kept, mvars, gvars, mockVars

\* A crash of the runner itself.
LEMMA RunnerCrash ==
  ASSUME TypeOK, NEW reason \in Faults, Crash(reason)
  PROVE  GuardTypeOK' /\ MockTypeOK' /\ Kept /\ status' = reason
  <1>1. GuardTypeOK' /\ MockTypeOK' /\ status' = reason /\ status' # "ok"
        /\ UNCHANGED <<prot, guards, gstate, lost, image, text, def, call, origBytes,
                       mockedBytes, freed, said>>
    BY CrashFacts DEF TypeOK, Crash
  <1> QED BY <1>1 DEF Kept

\* Lists that stay as they are have grown by nothing.
LEMMA ListsKept ==
  ASSUME UNCHANGED testVars
  PROVE  Grown /\ UNCHANGED <<lstate, suite, test, mocks>>
  BY DEF testVars, Grown

\* User code extends lists, makes tests and mocks, and moves no control.
LEMMA UserKeeps ==
  ASSUME TypeOK, StepInv, UserStep
  PROVE  TypeOK' /\ Kept /\ Grown
  <1> USE DEF TypeOK, RunnerTypeOK, runVars
  <1>1. ASSUME NEW t \in Tests, TestMake(t)
        PROVE  TypeOK' /\ Kept /\ Grown
    BY <1>1, MemoryKept DEF TestMake, Grown
  <1>2. ASSUME NEW t \in Tests, NEW m \in Mocks, NEW d \in MockDefs, TestAddMock(t, m, d)
        PROVE  TypeOK' /\ Kept /\ Grown
    <2>1. /\ def[m] = None /\ def' = [def EXCEPT ![m] = d]
          /\ UNCHANGED <<prot, guards, gstate, lost, image, text, call, origBytes,
                         mockedBytes, freed, said, status>>
          /\ \E grown \in ReallocOutcomes :
               mocks' = [mocks EXCEPT ![t] = Pushed(mocks[t], m, grown)]
          /\ UNCHANGED <<lstate, suite, test, result, passed, pc, i, j, runs>>
      BY <1>2 DEF TestAddMock, MockCreate, gvars
    <2>2. GuardTypeOK' /\ MockTypeOK' /\ Kept
      BY <2>1 DEF GuardTypeOK, MockTypeOK, Kept
    <2>3. mocks[t] \in Seq(Mocks) /\ mocks \in [Tests -> Seq(Mocks)]
      OBVIOUS
    <2>4. PICK list \in Seq(Mocks) :
            /\ mocks' = [mocks EXCEPT ![t] = list]
            /\ \A k \in DOMAIN mocks[t] : k \in DOMAIN list /\ list[k] = mocks[t][k]
      <3>1. PICK grown \in ReallocOutcomes :
              mocks' = [mocks EXCEPT ![t] = Pushed(mocks[t], m, grown)]
        BY <2>1
      <3>2. /\ Pushed(mocks[t], m, grown) \in Seq(Mocks)
            /\ \A k \in DOMAIN mocks[t] :
                 /\ k \in DOMAIN Pushed(mocks[t], m, grown)
                 /\ Pushed(mocks[t], m, grown)[k] = mocks[t][k]
        BY <2>3, PushedFacts
      <3> QED BY <3>1, <3>2
    <2>5. mocks' \in [Tests -> Seq(Mocks)] /\ Grown
      BY <2>1, <2>3, <2>4 DEF Grown
    <2> QED BY <2>1, <2>2, <2>5
  <1>3. ASSUME NEW t \in Tests, TestAdd(t)
        PROVE  TypeOK' /\ Kept /\ Grown
    <2>1. UNCHANGED mvars /\ lstate' = "live"
          /\ \E grown : suite' = Pushed(suite, t, grown)
          /\ UNCHANGED <<test, mocks, result, passed, pc, i, j, runs>>
      BY <1>3 DEF TestAdd
    <2>2. suite' \in Seq(Tests)
          /\ \A k \in DOMAIN suite : k \in DOMAIN suite' /\ suite'[k] = suite[k]
      BY <2>1, PushedFacts
    <2> QED BY <2>1, <2>2, MemoryKept DEF Grown
  <1>4. ASSUME NEW tests \in Seq(Tests), TestSetup(tests)
        PROVE  TypeOK' /\ Kept /\ Grown
    <2>1. /\ UNCHANGED <<prot, guards, gstate, lost, image, text, def, call, origBytes,
                         mockedBytes, freed, status>>
          /\ UNCHANGED <<test, mocks, result, passed, pc, i, j, runs>>
          /\ said \subseteq said' /\ said' \subseteq Messages
          /\ lstate' = "live"
          /\ suite' = suite \/ (lstate = "null" /\ suite' \in {tests, <<>>})
      BY <1>4 DEF TestSetup, mvars, gvars, mockVars, MockTypeOK
    <2>2. GuardTypeOK' /\ MockTypeOK' /\ Kept
      BY <2>1 DEF GuardTypeOK, MockTypeOK, Kept
    <2>3. \A k \in DOMAIN suite : k \in DOMAIN suite' /\ suite'[k] = suite[k]
      BY <2>1 DEF StepInv
    <2>4. <<>> \in Seq(Tests)
      OBVIOUS
    <2>5. suite' \in Seq(Tests)
      BY <2>1, <2>4
    <2> QED BY <2>1, <2>2, <2>3, <2>5 DEF Grown
  <1>5. ASSUME NEW t \in Tests, TestDestroy(t)
        PROVE  TypeOK' /\ Kept /\ Grown
    BY <1>5, MemoryKept DEF TestDestroy, Grown
  <1>6. <<>> \in Seq(Tests) /\ \A t \in Tests : <<t>> \in Seq(Tests)
    OBVIOUS
  <1> QED BY <1>1, <1>2, <1>3, <1>4, <1>5, <1>6 DEF UserStep

\* Where a step of the run leads that calls no mock: control moves, or the
\* process dies of something freed.
LEMMA QuietKeeps ==
  ASSUME MisuseInv, QuietStep
  PROVE  TypeOK' /\ Kept /\ Grown
  <1> USE DEF TypeOK, RunnerTypeOK
  <1>0. TypeOK /\ StepInv
    BY DEF MisuseInv
  <1>1. CASE UserStep
    BY <1>0, <1>1, UserKeeps
  <1>2. CASE Start
    <2>1. CASE Crash("null suite") /\ runs' = runs + 1
               /\ UNCHANGED <<testVars, result, passed, pc, i, j>>
      <3>1. "null suite" \in Faults
        BY DEF Faults
      <3>2. GuardTypeOK' /\ MockTypeOK' /\ Kept
        BY <1>0, <2>1, <3>1, RunnerCrash
      <3>3. runs + 1 \in Nat
        BY <1>0
      <3> QED BY <1>0, <2>1, <3>2, <3>3, ListsKept
    <2>2. CASE /\ passed' = 0 /\ pc' = "next" /\ i' = 1 /\ runs' = runs + 1
               /\ UNCHANGED <<mvars, testVars, result, j>>
      BY <1>0, <2>2, MemoryKept, ListsKept
    <2> QED BY <1>2, <2>1, <2>2 DEF Start
  <1>3. CASE BeginTest
    <2>1. CASE Crash("freed test") /\ UNCHANGED <<testVars, runVars>>
      <3>1. "freed test" \in Faults
        BY DEF Faults
      <3>2. GuardTypeOK' /\ MockTypeOK' /\ Kept
        BY <1>0, <2>1, <3>1, RunnerCrash
      <3> QED BY <1>0, <2>1, <3>2, ListsKept DEF runVars
    <2>2. CASE pc' = "setup" /\ UNCHANGED <<mvars, testVars, result, passed, i, j, runs>>
      BY <1>0, <2>2, MemoryKept, ListsKept DEF Callbacks
    <2> QED BY <1>3, <2>1, <2>2 DEF BeginTest
  <1>4. CASE SetupReturns
    BY <1>0, <1>4, MemoryKept, ListsKept DEF SetupReturns, Callbacks
  <1>5. CASE ApplyDone
    BY <1>0, <1>5, MemoryKept, ListsKept DEF ApplyDone, Callbacks
  <1>6. ASSUME NEW r \in Results, FunctionReturns(r)
        PROVE  TypeOK' /\ Kept /\ Grown
    <2>1. result' \in [Tests -> Results \union {"none"}]
      BY <1>0, <1>6 DEF FunctionReturns
    <2>2. passed + 1 \in Nat /\ passed' \in {passed, passed + 1}
      BY <1>0, <1>6 DEF FunctionReturns
    <2> QED BY <1>0, <1>6, <2>1, <2>2, MemoryKept, ListsKept DEF FunctionReturns
  <1>7. CASE RestoreDone
    BY <1>0, <1>7, MemoryKept, ListsKept DEF RestoreDone, Callbacks
  <1>8. CASE TeardownReturns
    BY <1>0, <1>8, MemoryKept, ListsKept DEF TeardownReturns
  <1>9. CASE EndRun
    <2>1. CASE Crash("freed guards") /\ UNCHANGED <<testVars, runVars>>
      <3>1. "freed guards" \in Faults
        BY DEF Faults
      <3>2. GuardTypeOK' /\ MockTypeOK' /\ Kept
        BY <1>0, <2>1, <3>1, RunnerCrash
      <3> QED BY <1>0, <2>1, <3>2, ListsKept DEF runVars
    <2>2. CASE /\ GuardCleanup /\ pc' = "main"
               /\ UNCHANGED <<image, text, mockVars, said, status, testVars,
                              result, passed, i, j, runs>>
      <3>1. GuardTypeOK'
        BY <1>0, <2>2, CleanupTypeOK
      <3>2. MockTypeOK' /\ Kept
        BY <1>0, <2>2 DEF MockTypeOK, Kept, mockVars
      <3> QED BY <1>0, <2>2, <3>1, <3>2, ListsKept
    <2> QED BY <1>9, <2>1, <2>2 DEF EndRun
  <1>10. CASE UNCHANGED vars
    BY <1>0, <1>10, MemoryKept, ListsKept DEF vars, runVars
  <1> QED BY <1>1, <1>2, <1>3, <1>4, <1>5, <1>6, <1>7, <1>8, <1>9, <1>10 DEF QuietStep

-----------------------------------------------------------------------------
(* StepInv, BuiltInv and FreedInv.                                         *)

\* User code moves no control; it destroys tests only after a run.
LEMMA UserControl ==
  ASSUME TypeOK, StepInv, UserStep
  PROVE  /\ status = "ok" /\ pc \in {"main", "setup", "function", "teardown"}
         /\ UNCHANGED runVars /\ UNCHANGED <<gstate, status>>
         /\ lstate' = "live" \/ UNCHANGED <<lstate, suite>>
         /\ DOMAIN suite \subseteq DOMAIN suite' /\ Len(suite) <= Len(suite')
         /\ \A t \in Tests : test'[t] = "freed" =>
              test[t] = "freed" \/ (pc = "main" /\ runs > 0)
  <1> USE DEF TypeOK, RunnerTypeOK
  <1>1. status = "ok" /\ pc \in UserPoints
    BY DEF UserStep, TestMake, TestAddMock, TestAdd, TestSetup, TestDestroy, Building, AtUserCode
  <1>2. pc \in {"main", "setup", "function", "teardown"}
    BY <1>1, RunnerAssumption DEF Callbacks
  <1>3. UNCHANGED runVars /\ UNCHANGED <<gstate, status>>
    BY DEF UserStep, TestMake, TestAddMock, TestAdd, TestSetup, TestDestroy, MockCreate,
           mvars, gvars
  <1>4. lstate' = "live" \/ UNCHANGED <<lstate, suite>>
    BY DEF UserStep, TestMake, TestAddMock, TestAdd, TestSetup, TestDestroy
  <1>5. Grown /\ suite' \in Seq(Tests)
    BY UserKeeps
  <1>6. DOMAIN suite \subseteq DOMAIN suite' /\ Len(suite) <= Len(suite')
    <2>1. DOMAIN suite \subseteq DOMAIN suite'
      BY <1>5 DEF Grown
    <2>2. Len(suite) \in Nat /\ Len(suite') \in Nat /\ DOMAIN suite = 1 .. Len(suite)
          /\ DOMAIN suite' = 1 .. Len(suite')
      BY <1>5
    <2>3. CASE Len(suite) = 0
      BY <2>1, <2>2, <2>3
    <2>4. CASE Len(suite) # 0
      <3>1. Len(suite) \in DOMAIN suite
        BY <2>2, <2>4
      <3>2. Len(suite) \in DOMAIN suite'
        BY <2>1, <3>1
      <3> QED BY <2>1, <2>2, <3>2
    <2> QED BY <2>3, <2>4
  <1>7. \A t \in Tests : test'[t] = "freed" =>
          test[t] = "freed" \/ (pc = "main" /\ runs > 0)
    BY DEF UserStep, TestMake, TestAddMock, TestAdd, TestSetup, TestDestroy
  <1> QED BY <1>1, <1>2, <1>3, <1>4, <1>6, <1>7

\* Control stays within the suite, and nothing is freed during a first run.
LEMMA QuietStepInv == ASSUME MisuseInv, QuietStep PROVE StepInv'
  <1> USE DEF StepInv, At
  <1>0. TypeOK /\ StepInv
    BY DEF MisuseInv
  <1>i. i \in Nat \ {0} /\ runs \in Nat /\ Len(suite) \in Nat /\ DOMAIN suite = 1 .. Len(suite)
    BY <1>0 DEF TypeOK, RunnerTypeOK
  <1>1. CASE UserStep
    BY <1>0, <1>1, <1>i, UserControl DEF runVars
  <1>2. CASE Start
    <2>1. CASE lstate = "null"
      <3>1. UNCHANGED <<testVars, pc, i, gstate>> /\ pc = "main" /\ runs' = runs + 1
        BY <1>2, <2>1 DEF Start, Crash, CrashSaying, gvars
      <3>2. runs + 1 # 0
        BY <1>i
      <3> QED BY <1>0, <3>1, <3>2, ListsKept
    <2>2. CASE lstate = "live"
      <3>1. /\ UNCHANGED <<testVars, gstate>> /\ pc = "main" /\ pc' = "next"
            /\ i' = 1 /\ runs' = runs + 1
        BY <1>2, <2>2 DEF Start, mvars, gvars
      <3>2. UNCHANGED <<lstate, suite, test>>
        BY <3>1, ListsKept
      <3> QED BY <1>0, <1>i, <2>2, <3>1, <3>2
    <2> QED BY <1>2, <2>1, <2>2 DEF Start
  <1>3. CASE BeginTest
    <2>1. UNCHANGED <<testVars, gstate, i, runs>> /\ pc = "next" /\ pc' \in {"next", "setup"}
          /\ i <= Len(suite)
      BY <1>3 DEF BeginTest, Crash, CrashSaying, mvars, gvars, runVars
    <2> QED BY <1>0, <1>i, <2>1, ListsKept
  <1>4. CASE SetupReturns
    <2>1. UNCHANGED <<testVars, gstate, i, runs>> /\ pc = "setup" /\ pc' = "apply"
      BY <1>4 DEF SetupReturns, mvars, gvars
    <2> QED BY <1>0, <1>i, <2>1, ListsKept
  <1>5. CASE ApplyDone
    <2>1. UNCHANGED <<testVars, gstate, i, runs>> /\ pc = "apply" /\ pc' = "function"
      BY <1>5 DEF ApplyDone, mvars, gvars
    <2> QED BY <1>0, <1>i, <2>1, ListsKept
  <1>6. ASSUME NEW r \in Results, FunctionReturns(r)
        PROVE  StepInv'
    <2>1. UNCHANGED <<testVars, gstate, i, runs>> /\ pc = "function" /\ pc' = "restore"
      BY <1>6 DEF FunctionReturns, mvars, gvars
    <2> QED BY <1>0, <1>i, <2>1, ListsKept
  <1>7. CASE RestoreDone
    <2>1. UNCHANGED <<testVars, gstate, i, runs>> /\ pc = "restore" /\ pc' = "teardown"
      BY <1>7 DEF RestoreDone, mvars, gvars
    <2> QED BY <1>0, <1>i, <2>1, ListsKept
  <1>8. CASE TeardownReturns
    <2>1. UNCHANGED <<testVars, gstate, runs>> /\ pc = "teardown" /\ pc' = "next" /\ i' = i + 1
      BY <1>8 DEF TeardownReturns, mvars, gvars
    <2> QED BY <1>0, <1>i, <2>1, ListsKept
  <1>9. CASE EndRun
    <2>1. UNCHANGED <<testVars, i, runs>> /\ pc = "next"
          /\ (pc' = "main" \/ (pc' = "next" /\ UNCHANGED gstate))
      BY <1>9 DEF EndRun, Crash, CrashSaying, gvars, runVars
    <2> QED BY <1>0, <1>i, <2>1, ListsKept
  <1>10. CASE UNCHANGED vars
    <2>1. UNCHANGED <<testVars, gstate, i, runs, pc>>
      BY <1>10 DEF vars, runVars, mvars, gvars
    <2> QED BY <1>0, <2>1, ListsKept
  <1> QED BY <1>1, <1>2, <1>3, <1>4, <1>5, <1>6, <1>7, <1>8, <1>9, <1>10 DEF QuietStep

\* Steps that make no mock leave the lists of mocks alone.
LEMMA MocksListed ==
  ASSUME MisuseInv, QuietStep
  PROVE  \/ UNCHANGED mocks
         \/ \E t \in Tests, m \in Mocks, d \in MockDefs : TestAddMock(t, m, d)
  <1>1. CASE UserStep
    BY <1>1 DEF UserStep, TestMake, TestAdd, TestSetup, TestDestroy
  <1>2. CASE Start \/ BeginTest \/ EndRun
    BY <1>2 DEF Start, BeginTest, EndRun, testVars
  <1>3. CASE SetupReturns \/ ApplyDone \/ RestoreDone \/ TeardownReturns \/ UNCHANGED vars
    BY <1>3 DEF SetupReturns, ApplyDone, RestoreDone, TeardownReturns, vars, testVars
  <1>4. ASSUME NEW r \in Results, FunctionReturns(r)
        PROVE  UNCHANGED mocks
    BY <1>4 DEF FunctionReturns, testVars
  <1> QED BY <1>1, <1>2, <1>3, <1>4 DEF QuietStep

\* A listed mock is one of the mocks.
LEMMA ListedIsMock ==
  ASSUME TypeOK, NEW t \in Tests, NEW k \in DOMAIN mocks[t]
  PROVE  mocks[t][k] \in Mocks /\ DOMAIN mocks[t] = 1 .. Len(mocks[t]) /\ Len(mocks[t]) \in Nat
  <1>1. mocks[t] \in Seq(Mocks)
    BY DEF TypeOK, RunnerTypeOK
  <1> QED BY <1>1

\* A new mock is in no list yet.
LEMMA QuietBuiltInv == ASSUME MisuseInv, QuietStep PROVE BuiltInv'
  <1>0. TypeOK /\ BuiltInv /\ Kept
    BY QuietKeeps DEF MisuseInv
  <1>1. CASE UNCHANGED mocks
    <2>1. \A t \in Tests : \A k \in DOMAIN mocks[t] : def'[mocks[t][k]] = def[mocks[t][k]]
      BY <1>0, ListedIsMock DEF BuiltInv, Kept
    <2> QED BY <1>0, <1>1, <2>1 DEF BuiltInv
  <1>2. ASSUME NEW t \in Tests, NEW m \in Mocks, NEW d \in MockDefs, TestAddMock(t, m, d)
        PROVE  BuiltInv'
    <2>1. /\ def[m] = None /\ def' = [def EXCEPT ![m] = d]
          /\ \E grown \in ReallocOutcomes :
               mocks' = [mocks EXCEPT ![t] = Pushed(mocks[t], m, grown)]
      BY <1>2 DEF TestAddMock, MockCreate
    <2>2. mocks[t] \in Seq(Mocks) /\ mocks \in [Tests -> Seq(Mocks)]
      BY <1>0 DEF TypeOK, RunnerTypeOK
    <2>3. PICK n \in Nat : n = Len(mocks[t]) + 1
      BY <2>2
    <2>4. /\ DOMAIN Append(mocks[t], m) = DOMAIN mocks[t] \union {n}
          /\ n \notin DOMAIN mocks[t]
          /\ \A k \in DOMAIN mocks[t] : Append(mocks[t], m)[k] = mocks[t][k]
          /\ Append(mocks[t], m)[n] = m
      BY <2>2, <2>3
    <2>5. def'[m] # None /\ \A u \in Tests : \A k \in DOMAIN mocks[u] :
            mocks[u][k] # m /\ def'[mocks[u][k]] # None
      <3>1. d # None
        BY MockAssumption
      <3>2. \A u \in Tests : \A k \in DOMAIN mocks[u] :
              mocks[u][k] # m /\ mocks[u][k] \in Mocks /\ def[mocks[u][k]] # None
        BY <1>0, <2>1, ListedIsMock DEF BuiltInv
      <3> QED BY <1>0, <2>1, <3>1, <3>2 DEF TypeOK, MockTypeOK
    <2>6. /\ mocks'[t] \in {mocks[t], Append(mocks[t], m)}
          /\ \A u \in Tests \ {t} : mocks'[u] = mocks[u]
      BY <2>1, <2>2 DEF Pushed
    <2> HIDE <1>2
    <2>7. \A u \in Tests : \A k \in DOMAIN mocks'[u] :
            \/ u = t /\ k = n /\ mocks'[u][k] = m
            \/ k \in DOMAIN mocks[u] /\ mocks'[u][k] = mocks[u][k]
      BY <2>4, <2>6
    <2>8. \A u \in Tests : \A k \in DOMAIN mocks'[u] : def'[mocks'[u][k]] # None
      BY <2>5, <2>7
    <2>9. \A u, v \in Tests : \A k \in DOMAIN mocks'[u] : \A l \in DOMAIN mocks'[v] :
            mocks'[u][k] = mocks'[v][l] => u = v /\ k = l
      BY <1>0, <2>5, <2>7 DEF BuiltInv
    <2> QED BY <2>8, <2>9 DEF BuiltInv
  <1> QED BY <1>1, <1>2, MocksListed

\* What lies behind the run stays behind it, until a second run.
LEMMA QuietBehind ==
  ASSUME MisuseInv, QuietStep, NEW k \in DOMAIN suite, NEW n \in Nat, Behind(k, n)
  PROVE  runs' > 1 \/ Behind(k, n)'
  <1> USE DEF Behind, At
  <1>0. TypeOK /\ StepInv /\ i \in Nat \ {0} /\ runs \in Nat /\ k \in Nat \ {0}
    BY DEF MisuseInv, TypeOK, RunnerTypeOK
  <1>1. CASE UserStep \/ UNCHANGED vars
    <2>1. UNCHANGED <<pc, i, j>>
      BY <1>0, <1>1, UserControl DEF vars, runVars
    <2> QED BY <2>1
  <1>2. CASE Start
    <2>1. runs' = runs + 1 /\ pc = "main"
      BY <1>2 DEF Start
    <2>2. runs # 0
      BY <1>0, <2>1 DEF StepInv
    <2>3. runs + 1 > 1
      BY <1>0, <2>2
    <2> QED BY <2>1, <2>3
  <1>3. CASE BeginTest \/ EndRun
    BY <1>3 DEF BeginTest, EndRun, runVars
  <1>4. CASE SetupReturns \/ ApplyDone \/ RestoreDone
    BY <1>4 DEF SetupReturns, ApplyDone, RestoreDone
  <1>5. ASSUME NEW r \in Results, FunctionReturns(r)
        PROVE  Behind(k, n)'
    BY <1>5 DEF FunctionReturns
  <1>6. CASE TeardownReturns
    BY <1>0, <1>6 DEF TeardownReturns
  <1> QED BY <1>1, <1>2, <1>3, <1>4, <1>5, <1>6 DEF QuietStep

\* Runs are only counted up.
LEMMA QuietRuns == ASSUME MisuseInv, QuietStep PROVE runs' = runs \/ runs' = runs + 1
  <1>0. TypeOK /\ StepInv
    BY DEF MisuseInv
  <1>1. CASE UserStep \/ UNCHANGED vars
    BY <1>0, <1>1, UserControl DEF vars, runVars
  <1>2. CASE Start \/ BeginTest \/ EndRun
    BY <1>2 DEF Start, BeginTest, EndRun, runVars
  <1>3. CASE SetupReturns \/ ApplyDone \/ RestoreDone \/ TeardownReturns
    BY <1>3 DEF SetupReturns, ApplyDone, RestoreDone, TeardownReturns
  <1>4. ASSUME NEW r \in Results, FunctionReturns(r)
        PROVE  runs' = runs
    BY <1>4 DEF FunctionReturns
  <1> QED BY <1>1, <1>2, <1>3, <1>4 DEF QuietStep

\* The mocks freed in a first run stay behind.
LEMMA QuietFreedInv == ASSUME MisuseInv, QuietStep PROVE FreedInv'
  <1>0. TypeOK /\ Kept /\ Grown /\ FreedInv
    BY QuietKeeps DEF MisuseInv
  <1> SUFFICES ASSUME NEW m \in freed, ~(runs' > 1)
               PROVE  \E k \in DOMAIN suite' : \E n \in DOMAIN mocks'[suite'[k]] :
                        mocks'[suite'[k]][n] = m /\ Behind(k, n)'
    BY <1>0 DEF FreedInv, Kept
  <1>1. ~(runs > 1)
    <2>1. runs \in Nat
      BY <1>0 DEF TypeOK, RunnerTypeOK
    <2> QED BY <2>1, QuietRuns
  <1>k. PICK k \in DOMAIN suite : \E n \in DOMAIN mocks[suite[k]] :
          mocks[suite[k]][n] = m /\ Behind(k, n)
    BY <1>0, <1>1 DEF FreedInv
  <1>2. PICK n \in DOMAIN mocks[suite[k]] : mocks[suite[k]][n] = m /\ Behind(k, n)
    BY <1>k
  <1>3. suite[k] \in Tests
    BY <1>0 DEF TypeOK, RunnerTypeOK
  <1>4. k \in DOMAIN suite' /\ suite'[k] = suite[k]
        /\ n \in DOMAIN mocks'[suite[k]] /\ mocks'[suite[k]][n] = m
    BY <1>0, <1>2, <1>3 DEF Grown
  <1>5. n \in Nat
    BY <1>0, <1>3, ListedIsMock
  <1>6. Behind(k, n)'
    BY <1>2, <1>5, QuietBehind
  <1> QED BY <1>4, <1>6

-----------------------------------------------------------------------------
(* DivertingInv, StubInv and CountInv across the quiet steps.              *)

\* While calls are diverted the current test is one of the tests, and a quiet
\* step stays with it.
LEMMA QuietCurrent ==
  ASSUME MisuseInv, QuietStep, status = "ok", pc \in {"apply", "function", "restore"}
  PROVE  /\ i' = i /\ Current \in Tests /\ Current' = Current
         /\ \/ UNCHANGED <<pc, j>> /\ pc = "function"
            \/ UNCHANGED <<pc, j>>
            \/ pc = "apply" /\ pc' = "function" /\ UNCHANGED j
            \/ pc = "function" /\ pc' = "restore" /\ j' = 1
            \/ pc = "restore" /\ pc' = "teardown" /\ j > Len(mocks[Current])
  <1> USE DEF At
  <1>0. TypeOK /\ StepInv /\ Grown
    BY QuietKeeps DEF MisuseInv
  <1>1. i \in DOMAIN suite /\ Current \in Tests
    BY <1>0 DEF StepInv, TypeOK, RunnerTypeOK, Current
  <1>2. i' = i => Current' = Current
    BY <1>0, <1>1 DEF Grown, Current
  <1>3. CASE UserStep \/ UNCHANGED vars
    <2>1. UNCHANGED <<pc, i, j>>
      BY <1>0, <1>3, UserControl DEF vars, runVars
    <2> QED BY <1>1, <1>2, <2>1
  <1>4. CASE Start \/ BeginTest \/ EndRun \/ SetupReturns \/ TeardownReturns
    BY <1>4 DEF Start, BeginTest, EndRun, SetupReturns, TeardownReturns
  <1>5. CASE ApplyDone \/ RestoreDone
    BY <1>1, <1>2, <1>5 DEF ApplyDone, RestoreDone
  <1>6. ASSUME NEW r \in Results, FunctionReturns(r)
        PROVE  i' = i /\ pc = "function" /\ pc' = "restore" /\ j' = 1
    BY <1>6 DEF FunctionReturns
  <1> QED BY <1>1, <1>2, <1>3, <1>4, <1>5, <1>6 DEF QuietStep

\* No call is diverted or given back.
LEMMA QuietDiverting ==
  ASSUME MisuseInv, QuietStep
  PROVE  /\ Diverting' = Diverting
         /\ status' = "ok" => status = "ok" /\ \A m \in Diverting :
              def[m] # None /\ def'[m] = def[m] /\ pc \in {"apply", "function", "restore"}
  <1>1. Kept /\ TypeOK /\ DivertingInv /\ BuiltInv /\ StepInv
    BY QuietKeeps DEF MisuseInv
  <1>2. Diverting' = Diverting
    BY <1>1 DEF Kept, Diverting
  <1>3. ASSUME status = "ok", NEW m \in Diverting
        PROVE  def[m] # None /\ def'[m] = def[m] /\ pc \in {"apply", "function", "restore"}
    <2>1. pc \in {"apply", "function", "restore"} /\ \E k \in DOMAIN mocks[Current] : mocks[Current][k] = m
      BY <1>1, <1>3 DEF DivertingInv
    <2>2. Current \in Tests
      BY <1>1, <2>1 DEF StepInv, TypeOK, RunnerTypeOK, Current
    <2>3. def[m] # None /\ m \in Mocks
      BY <1>1, <2>1, <2>2 DEF BuiltInv, Diverting
    <2> QED BY <1>1, <2>1, <2>3 DEF Kept
  <1> QED BY <1>1, <1>2, <1>3 DEF Kept

\* The diverted calls are those of the current test.
LEMMA QuietDivertingInv == ASSUME MisuseInv, QuietStep PROVE DivertingInv'
  <1>0. TypeOK /\ Grown /\ DivertingInv
    BY QuietKeeps DEF MisuseInv
  <1> SUFFICES ASSUME status' = "ok", NEW m \in Diverting
               PROVE  /\ pc' \in {"apply", "function", "restore"}
                      /\ \E k \in DOMAIN mocks'[Current'] :
                           /\ mocks'[Current'][k] = m
                           /\ pc' = "apply" => k < j'
                           /\ pc' = "restore" => k >= j'
    BY QuietDiverting DEF DivertingInv
  <1>1. status = "ok" /\ pc \in {"apply", "function", "restore"}
    BY QuietDiverting
  <1>2. PICK k \in DOMAIN mocks[Current] :
          /\ mocks[Current][k] = m
          /\ pc = "apply" => k < j
          /\ pc = "restore" => k >= j
    BY <1>0, <1>1 DEF DivertingInv
  <1>3. /\ Current \in Tests /\ Current' = Current
        /\ \/ UNCHANGED <<pc, j>>
           \/ pc = "apply" /\ pc' = "function"
           \/ pc = "function" /\ pc' = "restore" /\ j' = 1
           \/ pc = "restore" /\ pc' = "teardown" /\ j > Len(mocks[Current])
    BY <1>1, QuietCurrent
  <1>4. k \in DOMAIN mocks'[Current] /\ mocks'[Current][k] = m
    BY <1>0, <1>2, <1>3 DEF Grown
  <1>5. k \in 1 .. Len(mocks[Current]) /\ Len(mocks[Current]) \in Nat /\ j \in Nat
    BY <1>0, <1>3, ListedIsMock DEF TypeOK, RunnerTypeOK
  <1>6. ~(pc = "restore" /\ j > Len(mocks[Current]))
    BY <1>2, <1>5
  <1>7. pc' \in {"apply", "function", "restore"}
    BY <1>1, <1>3, <1>6
  <1>8. (pc' = "apply" => k < j') /\ (pc' = "restore" => k >= j')
    <2>1. CASE UNCHANGED <<pc, j>>
      BY <1>2, <2>1
    <2>2. CASE pc = "function" /\ pc' = "restore" /\ j' = 1
      <3>1. k >= 1
        BY <1>5
      <3> QED BY <2>2, <3>1
    <2> QED BY <1>3, <1>6, <2>1, <2>2
  <1> QED BY <1>3, <1>4, <1>7, <1>8

\* Nothing but mock_apply and mock_restore moves a diverted call, and a longer
\* list only disturbs more.
LEMMA QuietStubInv == ASSUME MisuseInv, QuietStep PROVE StubInv'
  <1>0. TypeOK /\ Grown /\ Kept /\ StubInv /\ BuiltInv
    BY QuietKeeps DEF MisuseInv
  <1> SUFFICES ASSUME status' = "ok", "refused" \notin said', NEW m \in Diverting,
                      ~Misread(def'[m].mocked), Undisturbed(m)'
               PROVE  call'[m] \in Span[def'[m].orig] /\ text'[call'[m]] = def'[m].mocked
    BY QuietDiverting DEF StubInv, Misread
  <1>1. /\ status = "ok" /\ pc \in {"apply", "function", "restore"} /\ def'[m] = def[m]
        /\ "refused" \notin said
    BY <1>0, QuietDiverting DEF Kept
  <1>2. Current \in Tests /\ Current' = Current
    BY <1>1, QuietCurrent
  <1>3. Undisturbed(m)
    <2> SUFFICES ASSUME NEW k \in DOMAIN mocks[Current], mocks[Current][k] # m
                 PROVE  ~Disturbs(mocks[Current][k], m)
      BY DEF Undisturbed
    <2>1. k \in DOMAIN mocks'[Current] /\ mocks'[Current][k] = mocks[Current][k]
      BY <1>0, <1>2 DEF Grown
    <2>2. def'[mocks[Current][k]] = def[mocks[Current][k]]
      BY <1>0, <1>2, ListedIsMock DEF BuiltInv, Kept
    <2>3. /\ def'[mocks[Current][k]].target # def'[m].mocked
          /\ def'[mocks[Current][k]].mocked # def'[m].mocked
      BY <1>2, <2>1 DEF Undisturbed, Disturbs
    <2> QED BY <1>1, <2>1, <2>2, <2>3 DEF Disturbs
  <1> QED BY <1>0, <1>1, <1>3 DEF StubInv, Kept

\* Nor does anything else change a count.
LEMMA QuietCountInv == ASSUME MisuseInv, QuietStep PROVE CountInv'
  <1>0. Kept /\ CountInv
    BY QuietKeeps DEF MisuseInv
  <1> SUFFICES ASSUME NoMistake, status' = "ok", "refused" \notin said'
               PROVE  /\ IsFiniteSet(Diverting)
                      /\ \A c \in Callees :
                           Cardinality(CallsTo(text, c)) + Cardinality({m \in Diverting : def'[m].target = c})
                             = Cardinality(CallsTo(image, c))
                               + Cardinality({m \in Diverting : def'[m].mocked = c})
    BY <1>0, QuietDiverting DEF CountInv, Kept, CallsTo, NoMistake, Misread
  <1>1. status = "ok" /\ "refused" \notin said /\ \A m \in Diverting : def'[m] = def[m]
    BY <1>0, QuietDiverting DEF Kept
  <1>2. \A c : /\ {m \in Diverting : def'[m].target = c} = {m \in Diverting : def[m].target = c}
               /\ {m \in Diverting : def'[m].mocked = c} = {m \in Diverting : def[m].mocked = c}
    BY <1>1
  <1> QED BY <1>0, <1>1, <1>2 DEF CountInv

\* What the rule for stubs says of the mocks of the current test.
LEMMA OwnsFacts ==
  ASSUME StubsOwned, Current \in Tests, NEW k \in DOMAIN mocks[Current],
         NEW n \in DOMAIN mocks[Current]
  PROVE  /\ def[mocks[Current][n]].target # def[mocks[Current][k]].mocked
         /\ def[mocks[Current][n]].mocked = def[mocks[Current][k]].mocked =>
              def[mocks[Current][n]].target = def[mocks[Current][k]].target
         /\ \A a \in Span[def[mocks[Current][k]].orig] : image[a] # def[mocks[Current][k]].mocked
  BY DEF StubsOwned, OwnsStub

\* Once no call is diverted, a call to a stub would be one too many: all calls
\* the program has to it are in place, since no mock of the test targets it.
LEMMA OwnedClean ==
  ASSUME MisuseInv, NoMistake, status = "ok", "refused" \notin said, StubsOwned,
         Diverting = {}, NEW a \in Sites
  PROVE  text[a] = image[a]
  <1> SUFFICES ASSUME text[a] # image[a] PROVE FALSE
    OBVIOUS
  <1>1. pc \in {"apply", "function", "restore"} /\ TypeOK /\ StepInv
    BY DEF MisuseInv, OwnedInv
  <1>2. Current \in Tests
    BY <1>1 DEF StepInv, TypeOK, RunnerTypeOK, Current
  <1>3. PICK k \in DOMAIN mocks[Current] :
          def[mocks[Current][k]].target = image[a] /\ def[mocks[Current][k]].mocked = text[a]
    BY DEF MisuseInv, OwnedInv
  <1> DEFINE s == text[a]
             S == CallsTo(text, s)
             T == CallsTo(image, s)
  <1>4. s \in Callees
    BY <1>1 DEF TypeOK, MockTypeOK
  <1>5. ASSUME NEW b \in T PROVE b \in S
    <2>1. b \in Sites /\ image[b] = s
      BY <1>5 DEF CallsTo
    <2>2. CASE text[b] # image[b]
      <3>1. PICK n \in DOMAIN mocks[Current] : def[mocks[Current][n]].target = image[b]
        BY <2>1, <2>2 DEF MisuseInv, OwnedInv
      <3>2. def[mocks[Current][n]].target # def[mocks[Current][k]].mocked
        BY <1>2, OwnsFacts
      <3> QED BY <1>3, <2>1, <3>1, <3>2
    <2> QED BY <2>1, <2>2 DEF CallsTo
  <1>6. a \in S /\ a \notin T
    BY DEF CallsTo
  <1>7. /\ {m \in Diverting : def[m].target = s} = {}
        /\ {m \in Diverting : def[m].mocked = s} = {}
    OBVIOUS
  <1>8. Cardinality(S) + 0 = Cardinality(T) + 0
    <2>1. Cardinality({}) = 0
      BY FS_EmptySet
    <2> QED BY <1>4, <1>7, <2>1 DEF MisuseInv, CountInv
  <1>9. S \in SUBSET Sites /\ IsFiniteSet(Sites)
    BY MockAssumption DEF CallsTo
  <1> HIDE DEF s, S, T
  <1>10. IsFiniteSet(S)
    BY <1>9, FS_Subset
  <1>11. Cardinality(S) \in Nat /\ Cardinality(T) \in Nat
    BY <1>10, FS_CardinalityType, ImageCount DEF T
  <1>12. T \in SUBSET S /\ Cardinality(S) = Cardinality(T)
    BY <1>5, <1>8, <1>11
  <1>13. S = T
    BY <1>10, <1>12, FS_Subset
  <1> QED BY <1>6, <1>13

\* Whoever keeps the rule after more was built has kept it before.
LEMMA QuietOwns ==
  ASSUME MisuseInv, QuietStep, StubsOwned'
  PROVE  StubsOwned
  <1>0. TypeOK /\ Grown /\ Kept /\ BuiltInv
    BY QuietKeeps DEF MisuseInv
  <1> SUFFICES ASSUME NEW t \in Tests, NEW k \in DOMAIN mocks[t] PROVE OwnsStub(t, mocks[t][k])
    BY DEF StubsOwned
  <1>1. \A n \in DOMAIN mocks[t] :
          /\ n \in DOMAIN mocks'[t] /\ mocks'[t][n] = mocks[t][n]
          /\ def'[mocks[t][n]] = def[mocks[t][n]]
    BY <1>0, ListedIsMock DEF Grown, BuiltInv, Kept
  <1>m. PICK m : m = mocks[t][k]
    OBVIOUS
  <1>2. OwnsStub(t, m)'
    <2>1. mocks'[t][k] = m /\ k \in DOMAIN mocks'[t]
      BY <1>1, <1>m
    <2> QED BY <2>1 DEF StubsOwned
  <1>3. image' = image /\ def'[m] = def[m]
    BY <1>0, <1>1, <1>m DEF Kept
  <1>4. ASSUME NEW n \in DOMAIN mocks[t]
        PROVE  /\ def[mocks[t][n]].target # def[m].mocked
               /\ def[mocks[t][n]].mocked = def[m].mocked => def[mocks[t][n]].target = def[m].target
    BY <1>1, <1>2, <1>3 DEF OwnsStub
  <1>5. \A b \in Span[def[m].orig] : image[b] # def[m].mocked
    BY <1>2, <1>3 DEF OwnsStub
  <1> QED BY <1>m, <1>4, <1>5 DEF OwnsStub

\* Control leaves the mocks of a test when none of its calls is diverted.
LEMMA QuietOwnedInv == ASSUME MisuseInv, QuietStep PROVE OwnedInv'
  <1>0. TypeOK /\ StepInv /\ Grown /\ Kept /\ BuiltInv /\ OwnedInv
    BY QuietKeeps DEF MisuseInv
  <1> SUFFICES ASSUME NoMistake, status' = "ok", "refused" \notin said', StubsOwned',
                      NEW a \in Sites, text[a] # image[a]
               PROVE  /\ pc' \in {"apply", "function", "restore"}
                      /\ \E k \in DOMAIN mocks'[Current'] :
                           /\ def'[mocks'[Current'][k]].target = image[a]
                           /\ def'[mocks'[Current'][k]].mocked = text[a]
    BY <1>0 DEF OwnedInv, Kept, NoMistake, Misread
  <1>1. status = "ok" /\ "refused" \notin said
    BY <1>0 DEF Kept
  <1>2. StubsOwned
    BY QuietOwns
  <1>3. pc \in {"apply", "function", "restore"}
    BY <1>0, <1>1, <1>2 DEF OwnedInv
  <1>4. PICK k \in DOMAIN mocks[Current] :
          def[mocks[Current][k]].target = image[a] /\ def[mocks[Current][k]].mocked = text[a]
    BY <1>0, <1>1, <1>2 DEF OwnedInv
  <1>5. /\ Current \in Tests /\ Current' = Current
        /\ pc' \in {"apply", "function", "restore", "teardown"}
    BY <1>1, <1>3, QuietCurrent
  <1>6. pc' # "teardown"
    <2> SUFFICES ASSUME pc' = "teardown" PROVE FALSE
      OBVIOUS
    <2>1. Diverting = {}
      BY QuietDivertingInv, QuietDiverting DEF DivertingInv
    <2> QED BY <1>1, <1>2, <2>1, OwnedClean
  <1>7. /\ k \in DOMAIN mocks'[Current] /\ mocks'[Current][k] = mocks[Current][k]
        /\ def'[mocks[Current][k]] = def[mocks[Current][k]]
    BY <1>0, <1>5, ListedIsMock DEF Grown, BuiltInv, Kept
  <1> QED BY <1>4, <1>5, <1>6, <1>7

\* Control that is past the restores does not come back to diverted calls.
LEMMA QuietFirstOwnedInv == ASSUME MisuseInv, QuietStep PROVE FirstOwnedInv'
  <1>0. TypeOK /\ Kept /\ FirstOwnedInv
    BY QuietKeeps DEF MisuseInv
  <1> SUFFICES ASSUME NoMistake, status' = "ok", "refused" \notin said', StubsOwned',
                      pc' \in {"apply", "function"}, NEW m \in Diverting
               PROVE  /\ image[call[m]] = def'[m].target
                      /\ text[call[m]] = def'[m].mocked
                      /\ \A b \in Span[def'[m].orig] : b < call[m] => text[b] # def'[m].target
    BY <1>0, QuietDiverting DEF FirstOwnedInv, Kept, NoMistake, Misread
  <1>1. /\ status = "ok" /\ "refused" \notin said /\ StubsOwned
        /\ def'[m] = def[m] /\ pc \in {"apply", "function", "restore"}
    BY <1>0, QuietOwns, QuietDiverting DEF Kept
  <1>2. pc \in {"apply", "function"}
    BY <1>1, QuietCurrent
  <1> QED BY <1>0, <1>1, <1>2 DEF FirstOwnedInv

\* The quiet steps preserve the invariant.
LEMMA QuietInv == ASSUME MisuseInv, QuietStep PROVE MisuseInv'
  BY QuietKeeps, QuietStepInv, QuietBuiltInv, QuietFreedInv, QuietDivertingInv,
     QuietStubInv, QuietCountInv, QuietOwnedInv, QuietFirstOwnedInv
  DEF MisuseInv

-----------------------------------------------------------------------------
(* The loops over test->mocks.                                             *)

\* What both loops keep, and the mock they are at.
LEMMA LoopFacts ==
  ASSUME MisuseInv, ApplyNext \/ RestoreNext
  PROVE  /\ status = "ok" /\ pc \in {"apply", "restore"}
         /\ UNCHANGED <<testVars, result, passed, pc, i, runs>> /\ j' = j + 1 /\ j \in Nat \ {0}
         /\ UNCHANGED <<lstate, suite, test, mocks>>
         /\ i \in DOMAIN suite /\ Current \in Tests /\ Current' = Current
         /\ j \in DOMAIN mocks[Current]
         /\ mocks[Current][j] \in Mocks /\ def[mocks[Current][j]] # None
         /\ def[mocks[Current][j]].orig \in Tested
         /\ def[mocks[Current][j]].target \in Callees
         /\ def[mocks[Current][j]].mocked \in Callees
  <1>1. /\ status = "ok" /\ pc \in {"apply", "restore"}
        /\ UNCHANGED <<testVars, result, passed, pc, i, runs>> /\ j' = j + 1
        /\ j <= Len(mocks[Current])
    BY DEF ApplyNext, RestoreNext, At
  <1>2. TypeOK /\ StepInv /\ BuiltInv
    BY DEF MisuseInv
  <1>3. i \in DOMAIN suite /\ Current \in Tests /\ j \in Nat \ {0}
    BY <1>1, <1>2 DEF StepInv, TypeOK, RunnerTypeOK, Current
  <1>4. mocks[Current] \in Seq(Mocks)
    BY <1>2, <1>3 DEF TypeOK, RunnerTypeOK
  <1>5. j \in DOMAIN mocks[Current] /\ mocks[Current][j] \in Mocks
    BY <1>1, <1>3, <1>4
  <1>6. def[mocks[Current][j]] # None
    BY <1>2, <1>3, <1>5 DEF BuiltInv
  <1>7. def[mocks[Current][j]] \in MockDefs
    BY <1>2, <1>5, <1>6 DEF TypeOK, MockTypeOK
  <1>8. UNCHANGED <<lstate, suite, test, mocks>>
    BY <1>1, ListsKept
  <1>9. Current' = Current
    BY <1>1, <1>8 DEF Current
  <1> QED BY <1>1, <1>3, <1>5, <1>6, <1>7, <1>8, <1>9, MockAssumption

\* A mock that the process survives leaves lists and control in order.
LEMMA LoopKeeps ==
  ASSUME MisuseInv, ApplyNext \/ RestoreNext, Survives(mocks[Current][j])
  PROVE  TypeOK' /\ StepInv' /\ BuiltInv'
  <1>1. TypeOK /\ StepInv /\ BuiltInv
    BY DEF MisuseInv
  <1>2. /\ UNCHANGED <<testVars, result, passed, pc, i, runs>> /\ j' = j + 1 /\ j \in Nat \ {0}
        /\ UNCHANGED <<lstate, suite, test, mocks>>
    BY LoopFacts
  <1>3. j + 1 \in Nat \ {0}
    BY <1>2
  <1>4. TypeOK'
    BY <1>1, <1>2, <1>3 DEF TypeOK, RunnerTypeOK, Survives
  <1>5. StepInv'
    BY <1>1, <1>2 DEF StepInv, Survives
  <1>6. BuiltInv'
    <2>1. UNCHANGED <<mocks, def>>
      BY <1>2 DEF Survives
    <2> QED BY <1>1, <2>1 DEF BuiltInv
  <1> QED BY <1>4, <1>5, <1>6

\* The search takes a call for one to t only if it is, unless it misreads it.
LEMMA FindsCall ==
  ASSUME MockTypeOK, NEW f \in Tested, NEW t \in Callees, NEW a \in Finds(f, t), a \in Sites
  PROVE  /\ a \in Span[f]
         /\ ~Misread(text[a]) \/ NoMistake => text[a] = t
  <1>1. a \in Span[f] /\ Decoded(a) = Entry[t]
    BY DEF Finds
  <1>2. text[a] \in Callees
    BY DEF MockTypeOK
  <1>3. CASE Misread(text[a])
    BY <1>1, <1>2, <1>3 DEF Decoded, NoMistake
  <1>4. CASE ~Misread(text[a])
    <2>1. Entry[text[a]] = Entry[t]
      BY <1>1, <1>4 DEF Decoded
    <2> QED BY <1>1, <1>2, <2>1, MockAssumption
  <1> QED BY <1>3, <1>4

\* What mock_apply does to the mock the loop is at.
LEMMA ApplyNextFacts ==
  ASSUME MisuseInv, ApplyNext, NEW m, m = mocks[Current][j]
  PROVE  /\ Survives(m) /\ status' # "null call" /\ UNCHANGED freed
         /\ pc = "apply" /\ m \notin Diverting
         /\ \/ UNCHANGED <<text, call>> /\ Diverting' = Diverting
            \/ \E a \in Finds(def[m].orig, def[m].target) :
                 /\ a \in Sites
                 /\ \A b \in Finds(def[m].orig, def[m].target) : a <= b
                 /\ Diverting' = Diverting \union {m}
                 /\ call' = [call EXCEPT ![m] = a]
                 /\ "refused" \in said' \/ text' = [text EXCEPT ![a] = def[m].mocked]
  <1>1. /\ status = "ok" /\ j \in Nat \ {0} /\ Current \in Tests /\ j \in DOMAIN mocks[Current]
        /\ m \in Mocks /\ def[m] # None /\ TypeOK
    BY LoopFacts DEF MisuseInv
  <1>2. pc = "apply" /\ MockApply(m)
    BY DEF ApplyNext, At
  <1>3. GuardTypeOK /\ MockTypeOK
    BY <1>1 DEF TypeOK
  <1>4. /\ Survives(m) /\ status' # "null call" /\ UNCHANGED freed
        /\ \/ UNCHANGED <<text, call>>
           \/ \E a \in Finds(def[m].orig, def[m].target) :
                /\ a \in Sites
                /\ m \notin freed
                /\ \A b \in Finds(def[m].orig, def[m].target) : a <= b
                /\ call' = [call EXCEPT ![m] = a]
                /\ "refused" \in said' \/ text' = [text EXCEPT ![a] = def[m].mocked]
    BY <1>1, <1>2, <1>3, ApplyFacts
  <1>5. m \notin Diverting
    <2> SUFFICES ASSUME m \in Diverting PROVE FALSE
      OBVIOUS
    <2>1. PICK k \in DOMAIN mocks[Current] : mocks[Current][k] = m /\ k < j
      BY <1>1, <1>2 DEF MisuseInv, DivertingInv
    <2>2. k = j
      BY <1>1, <2>1 DEF MisuseInv, BuiltInv
    <2> QED BY <1>1, <2>1, <2>2
  <1>6. UNCHANGED call => Diverting' = Diverting
    BY <1>4 DEF Diverting
  <1>7. ASSUME NEW a \in Sites, m \notin freed, call' = [call EXCEPT ![m] = a]
        PROVE  Diverting' = Diverting \union {m}
    <2>1. a # NullCall /\ call \in [Mocks -> Sites \union {NullCall}]
      BY <1>3, MockAssumption DEF NullCall, MockTypeOK
    <2>2. freed' = freed /\ m \in Mocks
      BY <1>1, <1>4
    <2> QED BY <1>7, <2>1, <2>2 DEF Diverting
  <1> QED BY <1>2, <1>4, <1>5, <1>6, <1>7

\* What mock_restore does to the mock the loop is at.
LEMMA RestoreNextFacts ==
  ASSUME MisuseInv, RestoreNext, NEW m, m = mocks[Current][j]
  PROVE  /\ Survives(m) /\ UNCHANGED call /\ pc = "restore"
         /\ status' = "null call" =>
              /\ m \in Diverting
              /\ "no memory" \in said' \/ Finds(def[m].orig, def[m].mocked) = {}
         /\ \/ UNCHANGED <<text, freed>> /\ (status' # "ok" \/ m \notin Diverting)
               /\ Diverting' = Diverting
            \/ /\ freed' = freed \union {m} /\ m \in Diverting
               /\ Diverting' = Diverting \ {m}
               /\ \E a \in Finds(def[m].orig, def[m].mocked) :
                    /\ a \in Sites
                    /\ "refused" \in said' \/ text' = [text EXCEPT ![a] = def[m].target]
  <1>1. /\ status = "ok" /\ m \in Mocks /\ def[m] # None /\ TypeOK
    BY LoopFacts DEF MisuseInv
  <1>2. pc = "restore" /\ MockRestore(m)
    BY DEF RestoreNext, At
  <1>3. GuardTypeOK /\ MockTypeOK
    BY <1>1 DEF TypeOK
  <1>4. /\ Survives(m) /\ UNCHANGED call
        /\ status' = "null call" =>
             /\ m \notin freed /\ call[m] # NullCall
             /\ "no memory" \in said' \/ Finds(def[m].orig, def[m].mocked) = {}
        /\ \/ UNCHANGED <<text, freed>> /\ (status' # "ok" \/ call[m] = NullCall)
           \/ /\ freed' = freed \union {m}
              /\ m \notin freed /\ call[m] # NullCall
              /\ \E a \in Finds(def[m].orig, def[m].mocked) :
                   /\ a \in Sites
                   /\ "refused" \in said' \/ text' = [text EXCEPT ![a] = def[m].target]
    BY <1>1, <1>2, <1>3, RestoreFacts
  <1> QED BY <1>1, <1>2, <1>4 DEF Diverting

\* The freed mocks of a first run lie behind it, the one just freed as well.
LEMMA LoopFreedInv ==
  ASSUME MisuseInv, ApplyNext \/ RestoreNext, def' = def,
         freed' = freed \/ (pc = "restore" /\ freed' = freed \union {mocks[Current][j]})
  PROVE  FreedInv'
  <1>1. /\ UNCHANGED <<pc, i, runs, suite, mocks>> /\ j' = j + 1 /\ j \in Nat \ {0}
        /\ i \in DOMAIN suite /\ Current \in Tests /\ j \in DOMAIN mocks[Current]
        /\ pc \in {"apply", "restore"}
    BY LoopFacts
  <1>2. TypeOK /\ FreedInv
    BY DEF MisuseInv
  <1> SUFFICES ASSUME NEW m \in freed', ~(runs > 1)
               PROVE  \E k \in DOMAIN suite : \E n \in DOMAIN mocks[suite[k]] :
                        mocks[suite[k]][n] = m /\ Behind(k, n)'
    BY <1>1 DEF FreedInv
  <1>3. CASE m \in freed
    <2>k. PICK k \in DOMAIN suite : \E n \in DOMAIN mocks[suite[k]] :
            mocks[suite[k]][n] = m /\ Behind(k, n)
      BY <1>2, <1>3 DEF FreedInv
    <2>1. PICK n \in DOMAIN mocks[suite[k]] : mocks[suite[k]][n] = m /\ Behind(k, n)
      BY <2>k
    <2>2. suite[k] \in Tests
      BY <1>2 DEF TypeOK, RunnerTypeOK
    <2>3. n \in Nat
      BY <1>2, <2>2, ListedIsMock
    <2>4. n < j => n < j + 1
      BY <1>1, <2>3
    <2>5. Behind(k, n)'
      BY <1>1, <2>1, <2>4 DEF Behind
    <2> QED BY <2>1, <2>5
  <1>4. CASE m \notin freed
    <2>1. PICK k \in DOMAIN suite : k = i
      BY <1>1
    <2>2. PICK n \in DOMAIN mocks[suite[k]] : n = j
      BY <1>1, <2>1 DEF Current
    <2>3. pc = "restore" /\ mocks[suite[k]][n] = m
      BY <1>1, <1>4, <2>1, <2>2 DEF Current
    <2>4. n < j + 1
      BY <1>1, <2>2
    <2>5. Behind(k, n)'
      BY <1>1, <2>1, <2>3, <2>4 DEF Behind
    <2> QED BY <2>3, <2>5
  <1> QED BY <1>3, <1>4

\* mock_apply puts its mock on the side of j that is still to be undone.
LEMMA ApplyDivertingInv == ASSUME MisuseInv, ApplyNext PROVE DivertingInv'
  <1> DEFINE m == mocks[Current][j]
  <1>1. /\ UNCHANGED <<pc, mocks>> /\ Current' = Current /\ j' = j + 1 /\ j \in Nat \ {0}
        /\ Current \in Tests /\ j \in DOMAIN mocks[Current] /\ status = "ok" /\ TypeOK
    BY LoopFacts DEF MisuseInv
  <1>2. pc = "apply" /\ Diverting' \subseteq Diverting \union {m}
    BY ApplyNextFacts
  <1> SUFFICES ASSUME NEW x \in Diverting'
               PROVE  \E k \in DOMAIN mocks[Current] : mocks[Current][k] = x /\ k < j + 1
    BY <1>1, <1>2 DEF DivertingInv
  <1>3. CASE x = m
    <2>1. j < j + 1
      BY <1>1
    <2> QED BY <1>1, <1>3, <2>1
  <1>4. CASE x \in Diverting
    <2>1. PICK k \in DOMAIN mocks[Current] : mocks[Current][k] = x /\ k < j
      BY <1>1, <1>2, <1>4 DEF MisuseInv, DivertingInv
    <2>2. k \in Nat
      BY <1>1, ListedIsMock
    <2>3. k < j + 1
      BY <1>1, <2>1, <2>2
    <2> QED BY <2>1, <2>3
  <1> QED BY <1>2, <1>3, <1>4

\* mock_restore leaves no mock on the side it has passed.
LEMMA RestoreDivertingInv == ASSUME MisuseInv, RestoreNext PROVE DivertingInv'
  <1> DEFINE m == mocks[Current][j]
  <1>1. /\ UNCHANGED <<pc, mocks>> /\ Current' = Current /\ j' = j + 1 /\ j \in Nat \ {0}
        /\ Current \in Tests /\ j \in DOMAIN mocks[Current] /\ status = "ok" /\ TypeOK
    BY LoopFacts DEF MisuseInv
  <1>2. pc = "restore" /\ (status' = "ok" => Diverting' \subseteq Diverting \ {m})
    BY RestoreNextFacts
  <1> SUFFICES ASSUME status' = "ok", NEW x \in Diverting'
               PROVE  \E k \in DOMAIN mocks[Current] : mocks[Current][k] = x /\ k >= j + 1
    BY <1>1, <1>2 DEF DivertingInv
  <1>3. x \in Diverting /\ x # m
    BY <1>2
  <1>4. PICK k \in DOMAIN mocks[Current] : mocks[Current][k] = x /\ k >= j
    BY <1>1, <1>2, <1>3 DEF MisuseInv, DivertingInv
  <1>5. k \in Nat /\ k # j
    BY <1>1, <1>3, <1>4, ListedIsMock
  <1>6. k >= j + 1
    BY <1>1, <1>4, <1>5
  <1> QED BY <1>4, <1>6

\* A rewritten call is not that of an undisturbed mock.
LEMMA OthersCall ==
  ASSUME MisuseInv, ApplyNext \/ RestoreNext, "refused" \notin said,
         NEW m, m = mocks[Current][j],
         NEW t \in Callees, t = def[m].target \/ t = def[m].mocked,
         NEW a \in Finds(def[m].orig, t), a \in Sites,
         NEW x \in Diverting, x # m, ~Misread(def[x].mocked), Undisturbed(x)
  PROVE  call[x] \in Span[def[x].orig] /\ text[call[x]] = def[x].mocked /\ call[x] # a
  <1>1. /\ status = "ok" /\ j \in DOMAIN mocks[Current] /\ def[m].orig \in Tested /\ MockTypeOK
    BY LoopFacts DEF MisuseInv, TypeOK
  <1>2. call[x] \in Span[def[x].orig] /\ text[call[x]] = def[x].mocked
    BY <1>1 DEF MisuseInv, StubInv
  <1>3. ASSUME call[x] = a PROVE FALSE
    <2>1. text[a] = t
      BY <1>1, <1>2, <1>3, FindsCall
    <2>2. Disturbs(m, x)
      BY <1>2, <1>3, <2>1 DEF Disturbs
    <2> QED BY <1>1, <2>2 DEF Undisturbed
  <1> QED BY <1>2, <1>3

\* An applied mock keeps its call as long as none disturbs it.
LEMMA ApplyStubInv == ASSUME MisuseInv, ApplyNext PROVE StubInv'
  <1> DEFINE m == mocks[Current][j]
  <1>1. /\ UNCHANGED mocks /\ Current' = Current /\ status = "ok" /\ TypeOK /\ MockTypeOK
        /\ m \in Mocks /\ def[m].orig \in Tested /\ def[m].target \in Callees
    BY LoopFacts DEF MisuseInv, TypeOK
  <1>2. /\ Survives(m) /\ UNCHANGED freed /\ m \notin Diverting
        /\ \/ UNCHANGED <<text, call>> /\ Diverting' = Diverting
           \/ \E a \in Finds(def[m].orig, def[m].target) :
                /\ a \in Sites
                /\ Diverting' = Diverting \union {m}
                /\ call' = [call EXCEPT ![m] = a]
                /\ "refused" \in said' \/ text' = [text EXCEPT ![a] = def[m].mocked]
    BY ApplyNextFacts
  <1>3. def' = def /\ said \subseteq said'
    BY <1>2 DEF Survives
  <1> HIDE DEF m
  <1>4. \A x : Undisturbed(x)' <=> Undisturbed(x)
    BY <1>1, <1>3 DEF Undisturbed, Disturbs
  <1> SUFFICES ASSUME "refused" \notin said', NEW x \in Diverting',
                      ~Misread(def[x].mocked), Undisturbed(x)
               PROVE  call'[x] \in Span[def[x].orig] /\ text'[call'[x]] = def[x].mocked
    BY <1>3, <1>4 DEF StubInv, Misread
  <1>5. "refused" \notin said
    BY <1>3
  <1>6. CASE UNCHANGED <<text, call>> /\ Diverting' = Diverting
    BY <1>1, <1>5, <1>6 DEF MisuseInv, StubInv
  <1>7. ASSUME NEW a \in Finds(def[m].orig, def[m].target), a \in Sites,
               Diverting' = Diverting \union {m},
               call' = [call EXCEPT ![m] = a], text' = [text EXCEPT ![a] = def[m].mocked]
        PROVE  call'[x] \in Span[def[x].orig] /\ text'[call'[x]] = def[x].mocked
    <2>1. call \in [Mocks -> Sites \union {NullCall}] /\ text \in [Sites -> Callees]
      BY <1>1 DEF MockTypeOK
    <2>2. CASE x = m
      <3>1. a \in Span[def[m].orig]
        BY DEF Finds
      <3> QED BY <1>1, <1>7, <2>1, <2>2, <3>1
    <2>3. CASE x # m
      <3>1. x \in Diverting
        BY <1>7, <2>3
      <3>2. call[x] \in Span[def[x].orig] /\ text[call[x]] = def[x].mocked /\ call[x] # a
        BY <1>1, <1>5, <1>7, <2>3, <3>1, OthersCall DEF m
      <3>3. x \in Mocks /\ call[x] \in Sites
        BY <2>1, <3>1 DEF Diverting
      <3> QED BY <1>7, <2>1, <2>3, <3>2, <3>3
    <2> QED BY <2>2, <2>3
  <1> QED BY <1>2, <1>6, <1>7

\* Nor does a restored mock take the call of one it does not disturb.
LEMMA RestoreStubInv == ASSUME MisuseInv, RestoreNext PROVE StubInv'
  <1> DEFINE m == mocks[Current][j]
  <1>1. /\ UNCHANGED mocks /\ Current' = Current /\ status = "ok" /\ TypeOK /\ MockTypeOK
        /\ def[m].mocked \in Callees
    BY LoopFacts DEF MisuseInv, TypeOK
  <1>2. /\ Survives(m) /\ UNCHANGED call
        /\ \/ UNCHANGED text /\ Diverting' = Diverting
           \/ /\ Diverting' = Diverting \ {m}
              /\ \E a \in Finds(def[m].orig, def[m].mocked) :
                   /\ a \in Sites
                   /\ "refused" \in said' \/ text' = [text EXCEPT ![a] = def[m].target]
    BY RestoreNextFacts
  <1>3. def' = def /\ said \subseteq said'
    BY <1>2 DEF Survives
  <1> HIDE DEF m
  <1>4. \A x : Undisturbed(x)' <=> Undisturbed(x)
    BY <1>1, <1>3 DEF Undisturbed, Disturbs
  <1> SUFFICES ASSUME "refused" \notin said', NEW x \in Diverting',
                      ~Misread(def[x].mocked), Undisturbed(x)
               PROVE  call[x] \in Span[def[x].orig] /\ text'[call[x]] = def[x].mocked
    BY <1>2, <1>3, <1>4 DEF StubInv, Misread
  <1>5. "refused" \notin said
    BY <1>3
  <1>6. CASE UNCHANGED text /\ Diverting' = Diverting
    BY <1>1, <1>5, <1>6 DEF MisuseInv, StubInv
  <1>7. ASSUME NEW a \in Finds(def[m].orig, def[m].mocked), a \in Sites,
               Diverting' = Diverting \ {m}, text' = [text EXCEPT ![a] = def[m].target]
        PROVE  call[x] \in Span[def[x].orig] /\ text'[call[x]] = def[x].mocked
    <2>1. x \in Diverting /\ x # m
      BY <1>7
    <2>2. call[x] \in Span[def[x].orig] /\ text[call[x]] = def[x].mocked /\ call[x] # a
      BY <1>1, <1>5, <1>7, <2>1, OthersCall DEF m
    <2>3. x \in Mocks /\ call[x] \in Sites /\ text \in [Sites -> Callees]
      BY <1>1, <2>1 DEF Diverting, MockTypeOK
    <2> QED BY <1>7, <2>2, <2>3
  <1> QED BY <1>2, <1>6, <1>7

\* What a call and a mock add to the two sides of CountInv.
CallCount(c) == Cardinality(CallsTo(text, c))
TargetCount(c) == Cardinality({m \in Diverting : def[m].target = c})
StubCount(c) == Cardinality({m \in Diverting : def[m].mocked = c})

\* One more or one fewer diverting mock.
LEMMA DivertingCounts ==
  ASSUME IsFiniteSet(Diverting), IsFiniteSet(Diverting'), def' = def,
         NEW m, Diverting \ {m} = Diverting' \ {m}, NEW c
  PROVE  /\ TargetCount(c) \in Nat /\ TargetCount(c)' \in Nat
         /\ StubCount(c) \in Nat /\ StubCount(c)' \in Nat
         /\ TargetCount(c)' + One(m \in Diverting /\ def[m].target = c)
              = TargetCount(c) + One(m \in Diverting' /\ def[m].target = c)
         /\ StubCount(c)' + One(m \in Diverting /\ def[m].mocked = c)
              = StubCount(c) + One(m \in Diverting' /\ def[m].mocked = c)
  <1> DEFINE S == {n \in Diverting : def[n].target = c}
             T == {n \in Diverting' : def[n].target = c}
             U == {n \in Diverting : def[n].mocked = c}
             V == {n \in Diverting' : def[n].mocked = c}
  <1>1. /\ S \in SUBSET Diverting /\ U \in SUBSET Diverting
        /\ T \in SUBSET Diverting' /\ V \in SUBSET Diverting'
    OBVIOUS
  <1>2. S \ {m} = T \ {m} /\ U \ {m} = V \ {m}
    <2>1. \A n : n # m => (n \in Diverting <=> n \in Diverting')
      OBVIOUS
    <2> QED BY <2>1
  <1>3. /\ (m \in S <=> m \in Diverting /\ def[m].target = c)
        /\ (m \in T <=> m \in Diverting' /\ def[m].target = c)
        /\ (m \in U <=> m \in Diverting /\ def[m].mocked = c)
        /\ (m \in V <=> m \in Diverting' /\ def[m].mocked = c)
    OBVIOUS
  <1>4. /\ TargetCount(c) = Cardinality(S) /\ TargetCount(c)' = Cardinality(T)
        /\ StubCount(c) = Cardinality(U) /\ StubCount(c)' = Cardinality(V)
    BY DEF TargetCount, StubCount
  <1> HIDE DEF S, T, U, V
  <1>5. IsFiniteSet(S) /\ IsFiniteSet(T) /\ IsFiniteSet(U) /\ IsFiniteSet(V)
    BY <1>1, FS_Subset
  <1>6. /\ Cardinality(S) \in Nat /\ Cardinality(T) \in Nat
        /\ Cardinality(T) + One(m \in S) = Cardinality(S) + One(m \in T)
    BY <1>2, <1>5, CountDiffers
  <1>7. /\ Cardinality(U) \in Nat /\ Cardinality(V) \in Nat
        /\ Cardinality(V) + One(m \in U) = Cardinality(U) + One(m \in V)
    BY <1>2, <1>5, CountDiffers
  <1> QED BY <1>3, <1>4, <1>6, <1>7 DEF One

\* What a call from a to b, where text has another, changes for c.
CallMoved(a, b, c) ==
  /\ CallCount(c) \in Nat /\ CallCount(c)' \in Nat
  /\ CallCount(c)' + One(text[a] = c) = CallCount(c) + One(b = c)

\* One rewritten call.
LEMMA CallCounts ==
  ASSUME text \in [Sites -> Callees], NEW a \in Sites, NEW b \in Callees,
         text' = [text EXCEPT ![a] = b], NEW c \in Callees
  PROVE  CallMoved(a, b, c)
  BY CountRewritten DEF CallCount, CallsTo, CallMoved

\* The patch of mock_apply and the mock it diverts balance.
LEMMA ApplyCountInv == ASSUME MisuseInv, ApplyNext PROVE CountInv'
  <1> DEFINE m == mocks[Current][j]
  <1>1. /\ status = "ok" /\ MockTypeOK /\ def[m].orig \in Tested
        /\ def[m].target \in Callees /\ def[m].mocked \in Callees
    BY LoopFacts DEF MisuseInv, TypeOK
  <1>2. /\ Survives(m) /\ m \notin Diverting
        /\ \/ UNCHANGED <<text, call>> /\ Diverting' = Diverting
           \/ \E a \in Finds(def[m].orig, def[m].target) :
                /\ a \in Sites
                /\ Diverting' = Diverting \union {m}
                /\ "refused" \in said' \/ text' = [text EXCEPT ![a] = def[m].mocked]
    BY ApplyNextFacts
  <1>3. def' = def /\ image' = image /\ said \subseteq said'
    BY <1>2 DEF Survives
  <1> HIDE DEF m
  <1> SUFFICES ASSUME NoMistake, "refused" \notin said'
               PROVE  /\ IsFiniteSet(Diverting')
                      /\ \A c \in Callees : CallCount(c)' + TargetCount(c)'
                           = Cardinality(CallsTo(image, c)) + StubCount(c)'
    BY <1>3 DEF CountInv, CallsTo, NoMistake, Misread, CallCount, TargetCount, StubCount
  <1>4. /\ IsFiniteSet(Diverting)
        /\ \A c \in Callees : CallCount(c) + TargetCount(c)
             = Cardinality(CallsTo(image, c)) + StubCount(c)
    BY <1>1, <1>3 DEF MisuseInv, CountInv, CallCount, TargetCount, StubCount
  <1>5. CASE UNCHANGED <<text, call>> /\ Diverting' = Diverting
    BY <1>3, <1>4, <1>5 DEF CallCount, CallsTo, TargetCount, StubCount
  <1>6. ASSUME NEW a \in Sites, a \in Finds(def[m].orig, def[m].target),
               Diverting' = Diverting \union {m}, text' = [text EXCEPT ![a] = def[m].mocked]
        PROVE  /\ IsFiniteSet(Diverting')
               /\ \A c \in Callees : CallCount(c)' + TargetCount(c)'
                    = Cardinality(CallsTo(image, c)) + StubCount(c)'
    <2>1. IsFiniteSet(Diverting')
      BY <1>4, <1>6, FS_AddElement
    <2> SUFFICES ASSUME NEW c \in Callees
                 PROVE  CallCount(c)' + TargetCount(c)'
                          = Cardinality(CallsTo(image, c)) + StubCount(c)'
      BY <2>1
    <2>2. text[a] = def[m].target
      BY <1>1, <1>6, FindsCall
    <2>3. text \in [Sites -> Callees]
      BY <1>1 DEF MockTypeOK
    <2>4. /\ CallCount(c) \in Nat /\ CallCount(c)' \in Nat
          /\ CallCount(c)' + One(text[a] = c) = CallCount(c) + One(def[m].mocked = c)
      <3>1. PICK b \in Callees : b = def[m].mocked
        BY <1>1
      <3>2. text' = [text EXCEPT ![a] = b]
        BY <1>6, <3>1
      <3>3. CallMoved(a, b, c)
        BY <2>3, <3>2, CallCounts
      <3> QED BY <3>1, <3>3 DEF CallMoved
    <2>5. Diverting \ {m} = Diverting' \ {m} /\ m \in Diverting'
      BY <1>6
    <2>6. /\ TargetCount(c) \in Nat /\ TargetCount(c)' \in Nat
          /\ StubCount(c) \in Nat /\ StubCount(c)' \in Nat
          /\ TargetCount(c)' + One(m \in Diverting /\ def[m].target = c)
               = TargetCount(c) + One(m \in Diverting' /\ def[m].target = c)
          /\ StubCount(c)' + One(m \in Diverting /\ def[m].mocked = c)
               = StubCount(c) + One(m \in Diverting' /\ def[m].mocked = c)
      BY <1>3, <1>4, <2>1, <2>5, DivertingCounts
    <2>7. /\ One(text[a] = c) = One(m \in Diverting' /\ def[m].target = c)
          /\ One(def[m].mocked = c) = One(m \in Diverting' /\ def[m].mocked = c)
          /\ One(m \in Diverting /\ def[m].target = c) = 0
          /\ One(m \in Diverting /\ def[m].mocked = c) = 0
          /\ One(text[a] = c) \in Nat /\ One(def[m].mocked = c) \in Nat
      BY <1>2, <2>2, <2>5 DEF One
    <2> DEFINE n == CallCount(c)  n1 == CallCount(c)'
               p == TargetCount(c)  p1 == TargetCount(c)'
               q == StubCount(c)  q1 == StubCount(c)'
               x == One(text[a] = c)  y == One(def[m].mocked = c)
               all == Cardinality(CallsTo(image, c))
    <2>8. /\ n \in Nat /\ n1 \in Nat /\ p \in Nat /\ p1 \in Nat /\ q \in Nat /\ q1 \in Nat
          /\ x \in Nat /\ y \in Nat
          /\ n1 + x = n + y /\ p1 + 0 = p + x /\ q1 + 0 = q + y /\ n + p = all + q
      BY <1>4, <2>4, <2>6, <2>7
    <2>9. all \in Nat
      BY ImageCount
    <2> HIDE DEF n, n1, p, p1, q, q1, x, y, all
    <2>10. n1 + p1 = all + q1
      BY <2>8, <2>9
    <2> QED BY <2>10 DEF n1, p1, q1, all
  <1> QED BY <1>2, <1>5, <1>6

\* So do the patch of mock_restore and the mock it frees.
LEMMA RestoreCountInv == ASSUME MisuseInv, RestoreNext PROVE CountInv'
  <1> DEFINE m == mocks[Current][j]
  <1>1. /\ status = "ok" /\ MockTypeOK /\ def[m].orig \in Tested
        /\ def[m].target \in Callees /\ def[m].mocked \in Callees
    BY LoopFacts DEF MisuseInv, TypeOK
  <1>2. /\ Survives(m)
        /\ \/ UNCHANGED text /\ Diverting' = Diverting
           \/ /\ m \in Diverting /\ Diverting' = Diverting \ {m}
              /\ \E a \in Finds(def[m].orig, def[m].mocked) :
                   /\ a \in Sites
                   /\ "refused" \in said' \/ text' = [text EXCEPT ![a] = def[m].target]
    BY RestoreNextFacts
  <1>3. def' = def /\ image' = image /\ said \subseteq said'
    BY <1>2 DEF Survives
  <1> HIDE DEF m
  <1> SUFFICES ASSUME NoMistake, "refused" \notin said'
               PROVE  /\ IsFiniteSet(Diverting')
                      /\ \A c \in Callees : CallCount(c)' + TargetCount(c)'
                           = Cardinality(CallsTo(image, c)) + StubCount(c)'
    BY <1>3 DEF CountInv, CallsTo, NoMistake, Misread, CallCount, TargetCount, StubCount
  <1>4. /\ IsFiniteSet(Diverting)
        /\ \A c \in Callees : CallCount(c) + TargetCount(c)
             = Cardinality(CallsTo(image, c)) + StubCount(c)
    BY <1>1, <1>3 DEF MisuseInv, CountInv, CallCount, TargetCount, StubCount
  <1>5. CASE UNCHANGED text /\ Diverting' = Diverting
    BY <1>3, <1>4, <1>5 DEF CallCount, CallsTo, TargetCount, StubCount
  <1>6. ASSUME NEW a \in Sites, a \in Finds(def[m].orig, def[m].mocked),
               m \in Diverting, Diverting' = Diverting \ {m},
               text' = [text EXCEPT ![a] = def[m].target]
        PROVE  /\ IsFiniteSet(Diverting')
               /\ \A c \in Callees : CallCount(c)' + TargetCount(c)'
                    = Cardinality(CallsTo(image, c)) + StubCount(c)'
    <2>1. IsFiniteSet(Diverting')
      BY <1>4, <1>6, FS_RemoveElement
    <2> SUFFICES ASSUME NEW c \in Callees
                 PROVE  CallCount(c)' + TargetCount(c)'
                          = Cardinality(CallsTo(image, c)) + StubCount(c)'
      BY <2>1
    <2>2. text[a] = def[m].mocked
      BY <1>1, <1>6, FindsCall
    <2>3. text \in [Sites -> Callees]
      BY <1>1 DEF MockTypeOK
    <2>4. /\ CallCount(c) \in Nat /\ CallCount(c)' \in Nat
          /\ CallCount(c)' + One(text[a] = c) = CallCount(c) + One(def[m].target = c)
      <3>1. PICK b \in Callees : b = def[m].target
        BY <1>1
      <3>2. text' = [text EXCEPT ![a] = b]
        BY <1>6, <3>1
      <3>3. CallMoved(a, b, c)
        BY <2>3, <3>2, CallCounts
      <3> QED BY <3>1, <3>3 DEF CallMoved
    <2>5. Diverting \ {m} = Diverting' \ {m} /\ m \notin Diverting'
      BY <1>6
    <2>6. /\ TargetCount(c) \in Nat /\ TargetCount(c)' \in Nat
          /\ StubCount(c) \in Nat /\ StubCount(c)' \in Nat
          /\ TargetCount(c)' + One(m \in Diverting /\ def[m].target = c)
               = TargetCount(c) + One(m \in Diverting' /\ def[m].target = c)
          /\ StubCount(c)' + One(m \in Diverting /\ def[m].mocked = c)
               = StubCount(c) + One(m \in Diverting' /\ def[m].mocked = c)
      BY <1>3, <1>4, <2>1, <2>5, DivertingCounts
    <2>7. /\ One(text[a] = c) = One(m \in Diverting /\ def[m].mocked = c)
          /\ One(def[m].target = c) = One(m \in Diverting /\ def[m].target = c)
          /\ One(m \in Diverting' /\ def[m].target = c) = 0
          /\ One(m \in Diverting' /\ def[m].mocked = c) = 0
          /\ One(text[a] = c) \in Nat /\ One(def[m].target = c) \in Nat
      BY <1>6, <2>2, <2>5 DEF One
    <2> DEFINE n == CallCount(c)  n1 == CallCount(c)'
               p == TargetCount(c)  p1 == TargetCount(c)'
               q == StubCount(c)  q1 == StubCount(c)'
               x == One(text[a] = c)  y == One(def[m].target = c)
               all == Cardinality(CallsTo(image, c))
    <2>8. /\ n \in Nat /\ n1 \in Nat /\ p \in Nat /\ p1 \in Nat /\ q \in Nat /\ q1 \in Nat
          /\ x \in Nat /\ y \in Nat
          /\ n1 + x = n + y /\ p1 + y = p + 0 /\ q1 + x = q + 0 /\ n + p = all + q
      BY <1>4, <2>4, <2>6, <2>7
    <2>9. all \in Nat
      BY ImageCount
    <2> HIDE DEF n, n1, p, p1, q, q1, x, y, all
    <2>10. n1 + p1 = all + q1
      BY <2>8, <2>9
    <2> QED BY <2>10 DEF n1, p1, q1, all
  <1> QED BY <1>2, <1>5, <1>6

\* What both loops do to the rule and to the current test: nothing.
LEMMA LoopOwns ==
  ASSUME MisuseInv, ApplyNext \/ RestoreNext, Survives(mocks[Current][j])
  PROVE  /\ StubsOwned' <=> StubsOwned
         /\ UNCHANGED <<pc, mocks, def, image>> /\ Current' = Current
         /\ pc \in {"apply", "function", "restore"}
  <1>1. UNCHANGED <<pc, mocks, def, image>> /\ Current' = Current /\ pc \in {"apply", "restore"}
    BY LoopFacts DEF Survives
  <1> QED BY <1>1 DEF StubsOwned, OwnsStub

\* mock_apply takes a call that is still the program's own.
LEMMA ApplyTakesOwn ==
  ASSUME MisuseInv, ApplyNext, NoMistake, "refused" \notin said, StubsOwned,
         NEW m, m = mocks[Current][j],
         NEW a \in Finds(def[m].orig, def[m].target), a \in Sites
  PROVE  text[a] = def[m].target /\ image[a] = def[m].target
  <1>1. /\ status = "ok" /\ MockTypeOK /\ def[m].orig \in Tested /\ Current \in Tests
        /\ def[m].target \in Callees /\ j \in DOMAIN mocks[Current]
    BY LoopFacts DEF MisuseInv, TypeOK
  <1>2. text[a] = def[m].target
    BY <1>1, FindsCall
  <1> SUFFICES ASSUME text[a] # image[a] PROVE FALSE
    BY <1>2
  <1>3. PICK k \in DOMAIN mocks[Current] : def[mocks[Current][k]].mocked = text[a]
    BY <1>1 DEF MisuseInv, OwnedInv
  <1>4. def[mocks[Current][j]].target # def[mocks[Current][k]].mocked
    BY <1>1, OwnsFacts
  <1> QED BY <1>2, <1>3, <1>4

\* So the mock it is for diverts the call.
LEMMA ApplyOwnedInv == ASSUME MisuseInv, ApplyNext PROVE OwnedInv'
  <1>m. PICK m : m = mocks[Current][j]
    OBVIOUS
  <1>1. /\ status = "ok" /\ MockTypeOK /\ def[m].orig \in Tested /\ Current \in Tests
        /\ def[m].target \in Callees /\ def[m].mocked \in Callees /\ j \in DOMAIN mocks[Current]
        /\ OwnedInv
    BY <1>m, LoopFacts DEF MisuseInv, TypeOK
  <1>2. /\ Survives(m)
        /\ \/ UNCHANGED <<text, call>>
           \/ \E a \in Finds(def[m].orig, def[m].target) :
                /\ a \in Sites
                /\ "refused" \in said' \/ text' = [text EXCEPT ![a] = def[m].mocked]
    BY <1>m, ApplyNextFacts
  <1>3. /\ StubsOwned' <=> StubsOwned
        /\ UNCHANGED <<pc, mocks, def, image>> /\ Current' = Current
        /\ pc \in {"apply", "function", "restore"}
    BY <1>m, <1>2, LoopOwns
  <1>4. said \subseteq said'
    BY <1>2 DEF Survives
  <1> DEFINE Held(b, c) == \E k \in DOMAIN mocks[Current] :
                             def[mocks[Current][k]].target = image[b] /\ def[mocks[Current][k]].mocked = c
  <1> SUFFICES ASSUME NoMistake, "refused" \notin said', StubsOwned,
                      NEW b \in Sites, text'[b] # image[b]
               PROVE  Held(b, text'[b])
    BY <1>3 DEF OwnedInv, NoMistake, Misread
  <1>5. \A c \in Sites : text[c] # image[c] => Held(c, text[c])
    BY <1>1, <1>4 DEF OwnedInv
  <1>6. CASE UNCHANGED text
    BY <1>5, <1>6
  <1>7. ASSUME NEW a \in Finds(def[m].orig, def[m].target), a \in Sites,
               text' = [text EXCEPT ![a] = def[m].mocked]
        PROVE  Held(b, text'[b])
    <2>2. image[a] = def[m].target
      BY <1>m, <1>4, <1>7, ApplyTakesOwn
    <2>3. CASE b = a
      <3>1. text'[b] = def[m].mocked
        BY <1>1, <1>7, <2>3 DEF MockTypeOK
      <3> QED BY <1>m, <1>1, <2>2, <2>3, <3>1
    <2>4. CASE b # a
      <3>1. text'[b] = text[b]
        BY <1>1, <1>7, <2>4 DEF MockTypeOK
      <3> QED BY <1>5, <3>1
    <2> QED BY <2>3, <2>4
  <1> HIDE DEF Held
  <1> QED BY <1>2, <1>6, <1>7

\* A call taken in mock_apply is not one that another mock holds, what is put
\* there is nobody's target, and those before it are none of m's.
LEMMA ApplyFirstOwnedInv == ASSUME MisuseInv, ApplyNext PROVE FirstOwnedInv'
  <1>m. PICK m : m = mocks[Current][j]
    OBVIOUS
  <1>1. /\ status = "ok" /\ MockTypeOK /\ def[m].orig \in Tested /\ Current \in Tests
        /\ def[m].target \in Callees /\ def[m].mocked \in Callees /\ j \in DOMAIN mocks[Current]
        /\ m \in Mocks /\ FirstOwnedInv /\ DivertingInv
    BY <1>m, LoopFacts DEF MisuseInv, TypeOK
  <1>2. /\ Survives(m) /\ pc = "apply" /\ m \notin Diverting
        /\ \/ UNCHANGED <<text, call>> /\ Diverting' = Diverting
           \/ \E a \in Finds(def[m].orig, def[m].target) :
                /\ a \in Sites
                /\ \A b \in Finds(def[m].orig, def[m].target) : a <= b
                /\ Diverting' = Diverting \union {m}
                /\ call' = [call EXCEPT ![m] = a]
                /\ "refused" \in said' \/ text' = [text EXCEPT ![a] = def[m].mocked]
    BY <1>m, ApplyNextFacts
  <1>3. /\ StubsOwned' <=> StubsOwned
        /\ UNCHANGED <<pc, mocks, def, image>> /\ Current' = Current
    BY <1>m, <1>2, LoopOwns
  <1>4. said \subseteq said'
    BY <1>2 DEF Survives
  <1> SUFFICES ASSUME NoMistake, "refused" \notin said', StubsOwned, NEW x \in Diverting'
               PROVE  /\ image[call'[x]] = def[x].target
                      /\ text'[call'[x]] = def[x].mocked
                      /\ \A b \in Span[def[x].orig] : b < call'[x] => text'[b] # def[x].target
    BY <1>3 DEF FirstOwnedInv, NoMistake, Misread
  <1>5. ASSUME NEW y \in Diverting
        PROVE  /\ image[call[y]] = def[y].target
               /\ text[call[y]] = def[y].mocked
               /\ \A b \in Span[def[y].orig] : b < call[y] => text[b] # def[y].target
               /\ y \in Mocks /\ call[y] \in Sites
               /\ def[y].orig \in Tested
               /\ \E k \in DOMAIN mocks[Current] : mocks[Current][k] = y
    <2>1. y \in Mocks /\ call[y] \in Sites
      BY <1>1 DEF Diverting, MockTypeOK
    <2>2. PICK k \in DOMAIN mocks[Current] : mocks[Current][k] = y
      BY <1>1 DEF DivertingInv
    <2>3. def[y] \in MockDefs
      BY <1>1, <2>1, <2>2 DEF MisuseInv, BuiltInv, MockTypeOK
    <2> QED BY <1>1, <1>2, <1>4, <2>1, <2>2, <2>3, MockAssumption DEF FirstOwnedInv
  <1>6. CASE UNCHANGED <<text, call>> /\ Diverting' = Diverting
    BY <1>5, <1>6
  <1>7. ASSUME NEW a \in Finds(def[m].orig, def[m].target), a \in Sites,
               \A b \in Finds(def[m].orig, def[m].target) : a <= b,
               Diverting' = Diverting \union {m}, call' = [call EXCEPT ![m] = a],
               text' = [text EXCEPT ![a] = def[m].mocked]
        PROVE  /\ image[call'[x]] = def[x].target
               /\ text'[call'[x]] = def[x].mocked
               /\ \A b \in Span[def[x].orig] : b < call'[x] => text'[b] # def[x].target
    <2>0. /\ call \in [Mocks -> Sites \union {NullCall}] /\ text \in [Sites -> Callees]
          /\ \A f \in Tested : Span[f] \subseteq Sites
      BY <1>1, MockAssumption DEF MockTypeOK
    <2>1. text[a] = def[m].target /\ image[a] = def[m].target
      BY <1>m, <1>4, <1>7, ApplyTakesOwn
    <2>2. CASE x = m
      <3>1. call'[x] = a /\ text'[a] = def[m].mocked
        BY <1>1, <1>7, <2>0, <2>2
      <3>2. def[m].mocked # def[m].target
        BY <1>m, <1>1, OwnsFacts
      <3>3. ASSUME NEW b \in Span[def[m].orig], b < a, text'[b] = def[m].target
            PROVE  FALSE
        <4>1. b \in Sites /\ b \in Nat /\ a \in Nat
          BY <1>1, <1>7, <2>0, MockAssumption
        <4>2. b # a /\ text[b] = def[m].target
          BY <1>7, <2>0, <3>2, <3>3, <4>1
        <4>3. Decoded(b) = Entry[def[m].target]
          <5>1. CASE Misread(def[m].target)
            <6>1. Decoded(a) = a + Length[a] + Entry[def[m].target]
              BY <2>1, <5>1 DEF Decoded
            <6>2. Decoded(a) = Entry[def[m].target]
              BY <1>7 DEF Finds
            <6> QED BY <1>1, <1>7, <5>1, <6>1, <6>2 DEF NoMistake
          <5>2. CASE ~Misread(def[m].target)
            BY <4>2, <5>2 DEF Decoded
          <5> QED BY <5>1, <5>2
        <4>4. a <= b
          BY <1>7, <3>3, <4>3 DEF Finds
        <4> QED BY <3>3, <4>1, <4>4
      <3> QED BY <2>1, <2>2, <3>1, <3>3
    <2>3. CASE x # m
      <3>1. x \in Diverting
        BY <1>7, <2>3
      <3>2. PICK k \in DOMAIN mocks[Current] : mocks[Current][k] = x
        BY <1>5, <3>1
      <3>3. def[m].target # def[x].mocked /\ def[x].target # def[m].mocked
        BY <1>m, <1>1, <3>2, OwnsFacts
      <3>4. call'[x] = call[x] /\ x \in Mocks /\ call[x] \in Sites /\ Span[def[x].orig] \subseteq Sites
        BY <1>5, <1>7, <2>0, <2>3, <3>1
      <3>5. call[x] # a /\ text'[call[x]] = text[call[x]]
        BY <1>5, <1>7, <2>0, <2>1, <3>1, <3>3, <3>4
      <3>6. ASSUME NEW b \in Span[def[x].orig], b < call[x]
            PROVE  text'[b] # def[x].target
        <4>1. text[b] # def[x].target /\ b \in Sites
          BY <1>5, <3>1, <3>4, <3>6
        <4>2. text'[b] = text[b] \/ text'[b] = def[m].mocked
          BY <1>7, <2>0, <4>1
        <4> QED BY <3>3, <4>1, <4>2
      <3> QED BY <1>5, <3>1, <3>4, <3>5, <3>6
    <2> QED BY <2>2, <2>3
  <1> QED BY <1>2, <1>6, <1>7

\* mock_restore takes a call that one of the mocks with this stub diverted, so
\* that it gives back what was there.
LEMMA RestoreOwnedInv == ASSUME MisuseInv, RestoreNext PROVE OwnedInv'
  <1>m. PICK m : m = mocks[Current][j]
    OBVIOUS
  <1>1. /\ status = "ok" /\ MockTypeOK /\ def[m].orig \in Tested /\ Current \in Tests
        /\ def[m].target \in Callees /\ def[m].mocked \in Callees /\ j \in DOMAIN mocks[Current]
        /\ OwnedInv
    BY <1>m, LoopFacts DEF MisuseInv, TypeOK
  <1>2. /\ Survives(m)
        /\ \/ UNCHANGED text
           \/ \E a \in Finds(def[m].orig, def[m].mocked) :
                /\ a \in Sites
                /\ "refused" \in said' \/ text' = [text EXCEPT ![a] = def[m].target]
    BY <1>m, RestoreNextFacts
  <1>3. /\ StubsOwned' <=> StubsOwned
        /\ UNCHANGED <<pc, mocks, def, image>> /\ Current' = Current
        /\ pc \in {"apply", "function", "restore"}
    BY <1>m, <1>2, LoopOwns
  <1>4. said \subseteq said'
    BY <1>2 DEF Survives
  <1> DEFINE Held(b, c) == \E k \in DOMAIN mocks[Current] :
                             def[mocks[Current][k]].target = image[b] /\ def[mocks[Current][k]].mocked = c
  <1> SUFFICES ASSUME NoMistake, "refused" \notin said', StubsOwned,
                      NEW b \in Sites, text'[b] # image[b]
               PROVE  Held(b, text'[b])
    BY <1>3 DEF OwnedInv, NoMistake, Misread
  <1>5. \A c \in Sites : text[c] # image[c] => Held(c, text[c])
    BY <1>1, <1>4 DEF OwnedInv
  <1>6. CASE UNCHANGED text
    BY <1>5, <1>6
  <1>7. ASSUME NEW a \in Finds(def[m].orig, def[m].mocked), a \in Sites,
               text' = [text EXCEPT ![a] = def[m].target]
        PROVE  Held(b, text'[b])
    <2>1. text[a] = def[m].mocked /\ a \in Span[def[m].orig]
      BY <1>1, <1>7, FindsCall
    <2>2. text[a] # image[a]
      BY <1>m, <1>1, <2>1, OwnsFacts
    <2>3. PICK k \in DOMAIN mocks[Current] :
            def[mocks[Current][k]].target = image[a] /\ def[mocks[Current][k]].mocked = text[a]
      BY <1>5, <1>7, <2>2
    <2>4. image[a] = def[m].target
      BY <1>m, <1>1, <2>1, <2>3, OwnsFacts
    <2>5. b # a /\ text'[b] = text[b]
      BY <1>1, <1>7, <2>4 DEF MockTypeOK
    <2> QED BY <1>5, <2>5
  <1> HIDE DEF Held
  <1> QED BY <1>2, <1>6, <1>7

-----------------------------------------------------------------------------
(* The invariant, and the promises.                                        *)

\* Nothing is listed, applied or freed at first.
LEMMA MisuseInit == Init => MisuseInv
  <1> SUFFICES ASSUME Init PROVE MisuseInv
    OBVIOUS
  <1> USE DEF Init, MockInit
  <1>1. GuardTypeOK
    BY DEF GuardInit, GuardTypeOK
  <1>2. MockTypeOK
    BY MockAssumption DEF MockTypeOK, NullCall
  <1>3. RunnerTypeOK
    BY DEF RunnerTypeOK
  <1>4. StepInv /\ BuiltInv /\ FreedInv
    BY DEF StepInv, BuiltInv, FreedInv, GuardInit
  <1>5. Diverting = {}
    BY DEF Diverting
  <1>6. DivertingInv /\ StubInv
    BY <1>5 DEF DivertingInv, StubInv
  <1>7. CountInv
    <2>1. IsFiniteSet({})
      BY FS_EmptySet
    <2>2. \A c : {m \in Diverting : def[m].target = c} = {} /\ {m \in Diverting : def[m].mocked = c} = {}
      BY <1>5
    <2>3. \A c : CallsTo(text, c) = CallsTo(image, c)
      OBVIOUS
    <2> QED BY <1>5, <2>1, <2>2, <2>3 DEF CountInv
  <1>8. OwnedInv /\ FirstOwnedInv
    BY DEF OwnedInv, FirstOwnedInv
  <1> QED BY <1>1, <1>2, <1>3, <1>4, <1>6, <1>7, <1>8 DEF MisuseInv, TypeOK

\* mock_apply and mock_restore preserve the invariant, and so does every step.
LEMMA MisuseNext == ASSUME MisuseInv, [Next]_vars PROVE MisuseInv'
  <1>1. CASE ApplyNext
    <2>1. Survives(mocks[Current][j]) /\ UNCHANGED freed
      BY <1>1, ApplyNextFacts
    <2>2. TypeOK' /\ StepInv' /\ BuiltInv'
      BY <1>1, <2>1, LoopKeeps
    <2>3. FreedInv'
      BY <1>1, <2>1, LoopFreedInv DEF Survives
    <2> QED BY <1>1, <2>2, <2>3, ApplyDivertingInv, ApplyStubInv, ApplyCountInv, ApplyOwnedInv,
              ApplyFirstOwnedInv DEF MisuseInv
  <1>2. CASE RestoreNext
    <2>1. /\ Survives(mocks[Current][j]) /\ pc = "restore"
          /\ freed' = freed \/ freed' = freed \union {mocks[Current][j]}
      BY <1>2, RestoreNextFacts
    <2>2. TypeOK' /\ StepInv' /\ BuiltInv'
      BY <1>2, <2>1, LoopKeeps
    <2>3. FreedInv'
      BY <1>2, <2>1, LoopFreedInv DEF Survives
    <2>4. FirstOwnedInv'
      <3>1. pc' = "restore"
        BY <1>2, <2>1, LoopFacts
      <3> QED BY <3>1 DEF FirstOwnedInv
    <2> QED BY <1>2, <2>2, <2>3, <2>4, RestoreDivertingInv, RestoreStubInv, RestoreCountInv,
              RestoreOwnedInv DEF MisuseInv
  <1>3. CASE QuietStep
    BY <1>3, QuietInv
  <1> QED BY <1>1, <1>2, <1>3 DEF Next, RunStep, QuietStep

\* The inductive invariant holds whatever the user does.
THEOREM MisuseInvariance == Spec => []MisuseInv
  BY MisuseInit, MisuseNext, PTL DEF Spec

\* When the process lives and the run is outside a mocked test no call is
\* diverted, so the counts of CountInv are those of the two programs.
LEMMA InvConserved == MisuseInv => CalleesConserved
  <1> SUFFICES ASSUME MisuseInv, NoMistake, status = "ok", "refused" \notin said,
                      pc \notin {"apply", "function", "restore"}, NEW c \in Callees
               PROVE  Cardinality({a \in Sites : text[a] = c})
                        = Cardinality({a \in Sites : image[a] = c})
    BY DEF CalleesConserved
  <1>1. Diverting = {}
    BY DEF MisuseInv, DivertingInv
  <1>2. {m \in Diverting : def[m].target = c} = {} /\ {m \in Diverting : def[m].mocked = c} = {}
    BY <1>1
  <1>3. Cardinality(CallsTo(text, c)) + 0 = Cardinality(CallsTo(image, c)) + 0
    <2>1. Cardinality({}) = 0
      BY FS_EmptySet
    <2> QED BY <1>2, <2>1 DEF MisuseInv, CountInv
  <1>4. Cardinality(CallsTo(text, c)) \in Nat /\ Cardinality(CallsTo(image, c)) \in Nat
    <2>1. CallsTo(text, c) \in SUBSET Sites
      BY DEF CallsTo
    <2>2. IsFiniteSet(CallsTo(text, c))
      BY <2>1, FS_Subset, MockAssumption
    <2> QED BY <2>2, FS_CardinalityType, ImageCount
  <1> QED BY <1>3, <1>4 DEF CallsTo

\* However suites are listed, run, refused and entangled: as long as no patch
\* was refused and no call mistaken, calls are exchanged but never lost.
THEOREM CalleesAreConserved == Spec => []CalleesConserved
  BY MisuseInvariance, InvConserved, PTL

\* Both halves of the promise are parts of the invariant.
LEMMA InvIsolated == MisuseInv => IsolatedIfStubsOwned
  <1> SUFFICES ASSUME MisuseInv, NoMistake, status = "ok", "refused" \notin said, StubsOwned
               PROVE  /\ pc \notin {"apply", "function", "restore"} => text = image
                      /\ pc = "function" =>
                           \A k \in DOMAIN mocks[Current] :
                             (call[mocks[Current][k]] # NullCall /\ mocks[Current][k] \notin freed) =>
                               DivertsFirst(mocks[Current][k])
    BY DEF IsolatedIfStubsOwned
  <1>1. ASSUME pc \notin {"apply", "function", "restore"}
        PROVE  text = image
    <2>1. \A a \in Sites : text[a] = image[a]
      BY <1>1 DEF MisuseInv, OwnedInv
    <2>2. text \in [Sites -> Callees] /\ image \in [Sites -> Natives]
      BY DEF MisuseInv, TypeOK, MockTypeOK
    <2> QED BY <2>1, <2>2
  <1>2. ASSUME pc = "function", NEW k \in DOMAIN mocks[Current], NEW m, m = mocks[Current][k],
               call[m] # NullCall, m \notin freed
        PROVE  DivertsFirst(m)
    <2>1. TypeOK /\ StepInv
      BY DEF MisuseInv
    <2>2. Current \in Tests
      BY <1>2, <2>1 DEF StepInv, TypeOK, RunnerTypeOK, Current
    <2>3. m \in Diverting
      BY <1>2, <2>1, <2>2, ListedIsMock DEF Diverting
    <2> QED BY <1>2, <2>3 DEF MisuseInv, FirstOwnedInv, DivertsFirst
  <1> QED BY <1>1, <1>2

\* Isolation needs no more than a rule that each test can keep by itself: what
\* stubs different tests share, how often tests are listed and run, where
\* calls are and what mprotect answers does not matter.
THEOREM IsolatedWhereStubsAreOwned == Spec => []IsolatedIfStubsOwned
  BY MisuseInvariance, InvIsolated, PTL

\* A user and a machine that are disciplined keep the rule in every suite.
LEMMA DisciplinedOwn == ASSUME Disciplined, MisuseInv PROVE StubsOwned /\ NoMistake
  <1>1. NoMistake
    BY DEF Disciplined, NoMistake
  <1>2. ASSUME NEW t \in Tests, NEW k \in DOMAIN mocks[t]
        PROVE  OwnsStub(t, mocks[t][k])
    <2>1. TypeOK /\ BuiltInv
      BY DEF MisuseInv
    <2>2. \A n \in DOMAIN mocks[t] : def[mocks[t][n]] \in MockDefs
      BY <2>1, ListedIsMock DEF BuiltInv, TypeOK, MockTypeOK
    <2>3. PICK m : m = mocks[t][k]
      OBVIOUS
    <2>4. def[m] \in MockDefs /\ def[m].orig \in Tested
      BY <2>2, <2>3, MockAssumption
    <2>5. \A a \in Span[def[m].orig] : image[a] # def[m].mocked
      <3>1. \A a \in Span[def[m].orig] : image[a] \in Natives
        BY <2>1, <2>4, MockAssumption DEF TypeOK, MockTypeOK
      <3> QED BY <2>4, <3>1 DEF Disciplined
    <2>6. ASSUME NEW n \in DOMAIN mocks[t]
          PROVE  /\ def[mocks[t][n]].target # def[m].mocked
                 /\ def[mocks[t][n]].mocked = def[m].mocked => def[mocks[t][n]].target = def[m].target
      BY <2>2, <2>4, <2>6 DEF Disciplined
    <2> QED BY <2>3, <2>5, <2>6 DEF OwnsStub
  <1> QED BY <1>1, <1>2 DEF StubsOwned

\* Where every call is plain and every callee in reach, no patch is refused.
LEMMA NeverRefused ==
  ASSUME Disciplined, MisuseInv, [Next]_vars, "refused" \notin said
  PROVE  "refused" \notin said'
  <1>0. "no memory" # "refused" /\ "not opened" # "refused"
    BY Zenon
  <1>1. CASE ApplyNext \/ RestoreNext
    <2>1. PICK m \in Mocks : /\ MockApply(m) \/ MockRestore(m)
                             /\ def[m].target \in Callees /\ def[m].mocked \in Callees
      BY <1>1, LoopFacts DEF ApplyNext, RestoreNext
    <2>2. ASSUME NEW a \in Sites, NEW c \in Callees, NEW granted,
                 PatchCrash(a, c, granted) \/ PatchCallTarget(a, c, granted)
          PROVE  "refused" \notin said'
      <3>1. "refused" \notin Complaints(a, c, granted)
        BY <1>0 DEF Disciplined, Complaints
      <3> QED BY <2>2, <3>1 DEF PatchCrash, PatchCallTarget, Crash, CrashSaying
    <2>3. CASE MockApply(m)
      BY <1>0, <2>1, <2>2, <2>3 DEF MockApply, Crash, CrashSaying, mvars
    <2>4. CASE MockRestore(m)
      BY <1>0, <2>1, <2>2, <2>4 DEF MockRestore, Crash, CrashSaying, mvars
    <2> QED BY <2>1, <2>3, <2>4
  <1>2. CASE UserStep
    <2>1. ASSUME NEW t, NEW m, NEW d, TestAddMock(t, m, d) PROVE said' = said
      BY <2>1 DEF TestAddMock, MockCreate
    <2>2. ASSUME NEW tests, TestSetup(tests) PROVE said' = said
      BY <2>2 DEF TestSetup, mvars
    <2>3. ASSUME NEW t, TestMake(t) \/ TestAdd(t) \/ TestDestroy(t) PROVE said' = said
      BY <2>3 DEF TestMake, TestAdd, TestDestroy, mvars
    <2>4. CASE \E tests : TestSetup(tests)
      BY <2>2, <2>4
    <2> QED BY <1>2, <2>1, <2>3, <2>4 DEF UserStep
  <1>3. CASE Start \/ BeginTest \/ SetupReturns \/ ApplyDone \/ RestoreDone \/ TeardownReturns
             \/ EndRun \/ UNCHANGED vars
    BY <1>3 DEF Start, BeginTest, SetupReturns, ApplyDone, RestoreDone, TeardownReturns, EndRun,
                Crash, CrashSaying, vars, mvars
  <1>4. ASSUME NEW r \in Results, FunctionReturns(r) PROVE said' = said
    BY <1>4 DEF FunctionReturns, mvars
  <1> QED BY <1>1, <1>2, <1>3, <1>4 DEF Next, RunStep

\* With disciplined stubs and a machine that cooperates, tests may be listed
\* twice and run any number of times: as long as the process lives, the program
\* outside of a test is the one that was linked.
THEOREM CleanThroughEveryRun == Disciplined => (Spec => []CleanBetweenTests)
  <1> SUFFICES ASSUME Disciplined PROVE Spec => []CleanBetweenTests
    OBVIOUS
  <1>1. Init => "refused" \notin said
    BY DEF Init, MockInit
  <1>2. MisuseInv /\ "refused" \notin said /\ [Next]_vars => ("refused" \notin said)'
    BY NeverRefused
  <1>3. MisuseInv /\ "refused" \notin said => CleanBetweenTests
    BY DisciplinedOwn, InvIsolated DEF IsolatedIfStubsOwned, CleanBetweenTests
  <1> QED BY <1>1, <1>2, <1>3, MisuseInvariance, PTL DEF Spec

-----------------------------------------------------------------------------
\* The runner uses freed memory only on a second way to a test.
LEMMA SecondUseStep ==
  MisuseInv /\ SecondUseExplained /\ [Next]_vars => SecondUseExplained'
  <1> DEFINE Touches == status' \in {"freed mock", "freed guards", "freed test"}
  <1> SUFFICES ASSUME MisuseInv, SecondUseExplained, [Next]_vars, ~(runs' > 1), Touches
               PROVE  i' \in DOMAIN suite' /\ \E k \in 1 .. i' - 1 : suite'[k] = suite'[i']
    BY DEF SecondUseExplained
  <1> HIDE DEF Touches
  <1>0. /\ TypeOK /\ StepInv /\ runs \in Nat /\ i \in Nat \ {0}
        /\ suite \in Seq(Tests)
    BY DEF MisuseInv, TypeOK, RunnerTypeOK
  <1>k. \A k \in DOMAIN suite : k \in Nat \ {0} /\ suite[k] \in Tests
    BY <1>0
  <1>s. (pc # "main" /\ runs' = runs) =>
          gstate # "freed" /\ \A t \in Tests : test[t] # "freed"
    <2> SUFFICES ASSUME pc # "main", runs' = runs
                 PROVE  gstate # "freed" /\ \A t \in Tests : test[t] # "freed"
      OBVIOUS
    <2>1. runs > 0
      BY <1>0 DEF StepInv
    <2>2. runs = 1
      BY <1>0, <2>1
    <2> QED BY <1>0, <2>2 DEF StepInv
  <1>1. CASE ApplyNext \/ RestoreNext
    <2> DEFINE m == mocks[Current][j]
    <2>1. /\ status = "ok" /\ pc \in {"apply", "restore"} /\ UNCHANGED <<pc, i, runs, suite>>
          /\ i \in DOMAIN suite /\ Current \in Tests /\ j \in DOMAIN mocks[Current]
          /\ j \in Nat \ {0}
      BY <1>1, LoopFacts
    <2>2. Survives(m)
      BY <1>1, ApplyNextFacts, RestoreNextFacts
    <2>3. gstate # "freed" /\ ~(runs > 1)
      BY <1>s, <2>1
    <2> HIDE DEF m
    <2>4. m \in freed
      BY <2>2, <2>3 DEF Survives, Touches
    <2>k. PICK k \in DOMAIN suite : \E n \in DOMAIN mocks[suite[k]] :
            mocks[suite[k]][n] = m /\ Behind(k, n)
      BY <2>3, <2>4 DEF MisuseInv, FreedInv
    <2>5. PICK n \in DOMAIN mocks[suite[k]] : mocks[suite[k]][n] = m /\ Behind(k, n)
      BY <2>k
    <2>6. suite[k] \in Tests /\ k \in Nat \ {0}
      BY <1>k
    <2>7. suite[k] = Current /\ n = j
      BY <2>1, <2>5, <2>6 DEF MisuseInv, BuiltInv, m
    <2>8. ~(j < j) /\ pc # "teardown"
      BY <2>1
    <2>9. k < i
      BY <2>5, <2>7, <2>8 DEF Behind
    <2>10. k \in 1 .. i - 1
      BY <1>0, <2>6, <2>9
    <2> QED BY <2>1, <2>7, <2>10 DEF Current
  <1>2. CASE BeginTest \/ EndRun
    <2>1. status = "ok" => FALSE
      <3>1. runs' = runs /\ pc = "next"
        BY <1>2 DEF BeginTest, EndRun, At, runVars
      <3>2. gstate # "freed" /\ \A t \in Tests : test[t] # "freed"
        BY <1>s, <3>1
      <3>3. CASE BeginTest
        <4>1. i \in DOMAIN suite
          <5>1. i <= Len(suite)
            BY <3>3 DEF BeginTest
          <5> QED BY <1>0, <5>1
        <4> QED BY <1>k, <3>2, <3>3, <4>1 DEF BeginTest, At, mvars, Current, Touches
      <3>4. CASE EndRun
        BY <3>2, <3>4 DEF EndRun, At, Touches
      <3> QED BY <1>2, <3>3, <3>4
    <2> QED BY <1>2, <2>1 DEF BeginTest, EndRun, At
  <1>3. CASE UserStep
    BY <1>0, <1>3, UserControl DEF Touches
  <1>4. CASE Start
    BY <1>4 DEF Start, At, Crash, CrashSaying, mvars, Touches
  <1>5. CASE SetupReturns \/ ApplyDone \/ RestoreDone \/ TeardownReturns
    BY <1>5 DEF SetupReturns, ApplyDone, RestoreDone, TeardownReturns, At, mvars, Touches
  <1>6. ASSUME NEW r \in Results, FunctionReturns(r)
        PROVE  FALSE
    BY <1>6 DEF FunctionReturns, At, mvars, Touches
  <1>7. CASE UNCHANGED vars
    BY <1>7 DEF vars, mvars, testVars, runVars, SecondUseExplained, Touches
  <1> QED BY <1>1, <1>2, <1>3, <1>4, <1>5, <1>6, <1>7 DEF Next, RunStep

\* No single pass over distinct tests touches freed memory.
THEOREM SecondUseIsExplained == Spec => []SecondUseExplained
  <1>1. Init => SecondUseExplained
    BY DEF Init, MockInit, SecondUseExplained
  <1> QED BY <1>1, SecondUseStep, MisuseInvariance, PTL DEF Spec

\* The search of mock_restore fails only for a reason that is named.
LEMMA NullCallStep ==
  MisuseInv /\ NullCallExplained /\ [Next]_vars => NullCallExplained'
  <1> DEFINE Fails == status' = "null call"
  <1> SUFFICES ASSUME MisuseInv, NullCallExplained, [Next]_vars, Fails
               PROVE  NullCallExplained'
    BY DEF NullCallExplained
  <1> HIDE DEF Fails
  <1>0. TypeOK /\ StepInv
    BY DEF MisuseInv
  <1>1. CASE ApplyNext
    BY <1>1, ApplyNextFacts DEF Fails
  <1>2. CASE RestoreNext
    <2> DEFINE m == mocks[Current][j]
    <2>1. /\ status = "ok" /\ UNCHANGED mocks /\ Current' = Current /\ j' = j + 1
          /\ j \in Nat \ {0} /\ Current \in Tests /\ j \in DOMAIN mocks[Current]
          /\ def[m].mocked \in Callees /\ def[m].orig \in Tested
      BY <1>2, LoopFacts
    <2>2. /\ Survives(m) /\ m \in Diverting
          /\ "no memory" \in said' \/ Finds(def[m].orig, def[m].mocked) = {}
      BY <1>2, RestoreNextFacts DEF Fails
    <2>0. (j + 1) - 1 = j
      BY <2>1
    <2>3. def' = def /\ said \subseteq said' /\ j' - 1 = j
      BY <2>0, <2>1, <2>2 DEF Survives
    <2> HIDE DEF m
    <2> SUFFICES ASSUME "refused" \notin said, "no memory" \notin said', ~Misread(def[m].mocked),
                        \A k \in DOMAIN mocks[Current] :
                          k # j => ~Disturbs(mocks[Current][k], m)
                 PROVE  FALSE
      <3>1. \/ "refused" \in said'
            \/ "no memory" \in said'
            \/ Misread(def[m].mocked)
            \/ \E k \in DOMAIN mocks[Current] : k # j /\ Disturbs(mocks[Current][k], m)
        BY <2>3
      <3> QED BY <2>1, <2>3, <3>1 DEF NullCallExplained, Disturbs, m, Misread
    <2>4. Undisturbed(m)
      BY DEF Undisturbed, m
    <2>5. call[m] \in Span[def[m].orig] /\ text[call[m]] = def[m].mocked
      BY <2>1, <2>2, <2>4 DEF MisuseInv, StubInv
    <2>6. Decoded(call[m]) = Entry[def[m].mocked]
      BY <2>5 DEF Decoded
    <2> QED BY <2>2, <2>5, <2>6 DEF Finds
  <1>3. CASE UserStep
    BY <1>0, <1>3, UserControl DEF Fails
  <1>4. CASE Start \/ BeginTest \/ EndRun
    BY <1>4 DEF Start, BeginTest, EndRun, At, Crash, CrashSaying, mvars, Fails
  <1>5. CASE SetupReturns \/ ApplyDone \/ RestoreDone \/ TeardownReturns
    BY <1>5 DEF SetupReturns, ApplyDone, RestoreDone, TeardownReturns, At, mvars, Fails
  <1>6. ASSUME NEW r \in Results, FunctionReturns(r)
        PROVE  FALSE
    BY <1>6 DEF FunctionReturns, At, mvars, Fails
  <1>7. CASE UNCHANGED vars
    BY <1>7 DEF vars, mvars, mockVars, testVars, runVars, NullCallExplained, Disturbs, Misread, Current
  <1> QED BY <1>1, <1>2, <1>3, <1>4, <1>5, <1>6, <1>7 DEF Next, RunStep

\* mock_restore dereferences null only after a refused patch or a search that
\* had no memory, for a stub below 4 GB, or for a mock that another one of its
\* test disturbs.
THEOREM NullCallIsExplained == Spec => []NullCallExplained
  <1>1. Init => NullCallExplained
    BY DEF Init, MockInit, NullCallExplained
  <1> QED BY <1>1, NullCallStep, MisuseInvariance, PTL DEF Spec

-----------------------------------------------------------------------------
(* The count of the tests that passed.                                     *)

Distinct == \A k, n \in DOMAIN suite : suite[k] = suite[n] => k = n

Done == IF pc \in {"restore", "teardown"} THEN i ELSE i - 1

PassedAt == {k \in 1 .. Done : result[suite[k]] = "PASSED"}

Counted == (status = "ok" /\ pc # "main" /\ Distinct) => passed = Cardinality(PassedAt)

LEMMA CountedExact == PassedExact <=> Counted
  BY DEF PassedExact, Counted, Distinct, PassedAt, Done

\* The tests done are listed, and entries of the suite stay where they are.
LEMMA DoneListed ==
  ASSUME TypeOK, StepInv, pc # "main", Grown
  PROVE  /\ Done \in Nat /\ 1 .. Done \subseteq DOMAIN suite
         /\ \A k \in 1 .. Done : suite'[k] = suite[k]
         /\ Distinct' => Distinct
         /\ IsFiniteSet(PassedAt)
  <1>1. i \in Nat \ {0} /\ suite \in Seq(Tests)
    BY DEF TypeOK, RunnerTypeOK
  <1>2. Len(suite) \in Nat /\ DOMAIN suite = 1 .. Len(suite)
    BY <1>1
  <1>3. Done \in Nat /\ Done <= Len(suite)
    <2>1. CASE pc = "next"
      <3>1. i <= Len(suite) + 1
        BY DEF StepInv
      <3>2. Done = i - 1
        BY <2>1 DEF Done
      <3> QED BY <1>1, <1>2, <3>1, <3>2
    <2>2. CASE pc # "next"
      <3>1. i \in DOMAIN suite
        BY <2>2 DEF StepInv
      <3>2. Done = i \/ Done = i - 1
        BY DEF Done
      <3> QED BY <1>1, <1>2, <3>1, <3>2
    <2> QED BY <2>1, <2>2
  <1>4. 1 .. Done \subseteq DOMAIN suite
    BY <1>2, <1>3
  <1>5. IsFiniteSet(PassedAt)
    <2>1. IsFiniteSet(1 .. Done)
      <3> DEFINE d == Done
      <3>1. d \in Int /\ 1 \in Int
        BY <1>3
      <3> HIDE DEF d
      <3>2. IsFiniteSet(1 .. d)
        BY <3>1, FS_Interval
      <3> QED BY <3>2 DEF d
    <2>2. PassedAt \in SUBSET (1 .. Done)
      BY DEF PassedAt
    <2> QED BY <2>1, <2>2, FS_Subset
  <1>6. \A k \in DOMAIN suite : k \in DOMAIN suite' /\ suite'[k] = suite[k]
    BY DEF Grown
  <1>7. Distinct' => Distinct
    BY <1>6 DEF Distinct
  <1> QED BY <1>3, <1>4, <1>5, <1>6, <1>7

\* A step that moves control past no test function counts nothing.
LEMMA NothingCounted ==
  ASSUME TypeOK, StepInv, Counted, Grown, status = "ok", pc # "main",
         UNCHANGED <<result, passed>>, Done' = Done
  PROVE  Counted'
  <1>1. Distinct' => Distinct
    BY DoneListed
  <1>2. \A k \in 1 .. Done : suite'[k] = suite[k]
    BY DoneListed
  <1>3. PassedAt' = PassedAt
    BY <1>2 DEF PassedAt
  <1> QED BY <1>1, <1>3 DEF Counted

\* The result of the current test is counted once.
LEMMA ResultCounted ==
  ASSUME MisuseInv, Counted, NEW r \in Results, FunctionReturns(r)
  PROVE  Counted'
  <1> SUFFICES ASSUME Distinct' PROVE passed' = Cardinality(PassedAt')
    BY DEF Counted
  <1>1. TypeOK /\ StepInv /\ TypeOK'
    BY QuietKeeps DEF MisuseInv, QuietStep
  <1>2. /\ status = "ok" /\ pc = "function" /\ pc' = "restore"
        /\ UNCHANGED <<status, lstate, suite, test, mocks, i>>
        /\ passed' = IF r = "PASSED" THEN passed + 1 ELSE passed
        /\ result' = [result EXCEPT ![Current] = r]
    BY DEF FunctionReturns, At, mvars, testVars
  <1>3. Grown
    BY <1>2 DEF Grown
  <1>4. /\ Done \in Nat /\ 1 .. Done \subseteq DOMAIN suite /\ Distinct
        /\ IsFiniteSet(PassedAt)
    BY <1>1, <1>2, <1>3, DoneListed
  <1>5. i \in DOMAIN suite /\ i \in Nat \ {0} /\ Current \in Tests
    BY <1>1, <1>2 DEF StepInv, TypeOK, RunnerTypeOK, Current
  <1>6. Done = i - 1 /\ Done' = i
    BY <1>2 DEF Done
  <1>7. \A k \in 1 .. i - 1 : k # i /\ suite[k] # Current
    <2> SUFFICES ASSUME NEW k \in 1 .. i - 1 PROVE k # i /\ suite[k] # Current
      OBVIOUS
    <2>1. k # i
      BY <1>5
    <2>2. k \in DOMAIN suite
      BY <1>4, <1>6
    <2> QED BY <1>4, <1>5, <2>1, <2>2 DEF Distinct, Current
  <1>8. result \in [Tests -> Results \union {"none"}] /\ passed \in Nat
    BY <1>1 DEF TypeOK, RunnerTypeOK
  <1>9. \A k \in 1 .. i - 1 : result'[suite[k]] = result[suite[k]]
    <2> SUFFICES ASSUME NEW k \in 1 .. i - 1 PROVE result'[suite[k]] = result[suite[k]]
      OBVIOUS
    <2>1. suite[k] \in Tests
      <3>1. k \in DOMAIN suite
        BY <1>4, <1>6
      <3> QED BY <1>1, <3>1 DEF TypeOK, RunnerTypeOK
    <2> QED BY <1>2, <1>7, <1>8, <2>1
  <1>10. result'[suite[i]] = r
    BY <1>2, <1>5, <1>8 DEF Current
  <1>11. PassedAt' = {k \in 1 .. i : result'[suite[k]] = "PASSED"}
    BY <1>2, <1>6 DEF PassedAt
  <1>12. 1 .. i = (1 .. i - 1) \union {i} /\ i \notin 1 .. i - 1
    BY <1>5
  <1>13. /\ PassedAt' \ {i} = PassedAt \ {i}
         /\ i \notin PassedAt
         /\ i \in PassedAt' <=> r = "PASSED"
    BY <1>6, <1>9, <1>10, <1>11, <1>12 DEF PassedAt
  <1>14. IsFiniteSet(PassedAt')
    <2>1. PassedAt' \in SUBSET (PassedAt \union {i})
      BY <1>13
    <2>2. IsFiniteSet(PassedAt \union {i})
      BY <1>4, FS_AddElement
    <2> QED BY <2>1, <2>2, FS_Subset
  <1> DEFINE S == PassedAt
             T == PassedAt'
  <1>15. /\ Cardinality(S) \in Nat /\ Cardinality(T) \in Nat
         /\ Cardinality(T) + One(i \in S) = Cardinality(S) + One(i \in T)
    <2>1. IsFiniteSet(S) /\ IsFiniteSet(T) /\ S \ {i} = T \ {i}
      BY <1>4, <1>13, <1>14
    <2> HIDE DEF S, T
    <2> QED BY <2>1, CountDiffers
  <1>16. One(i \in S) = 0 /\ One(i \in T) = IF r = "PASSED" THEN 1 ELSE 0
    BY <1>13 DEF One
  <1>17. passed = Cardinality(S)
    BY <1>2, <1>4 DEF Counted
  <1> HIDE DEF S, T
  <1>18. passed' = Cardinality(T)
    BY <1>2, <1>8, <1>15, <1>16, <1>17
  <1> QED BY <1>18 DEF T

\* Every step keeps the count right.
LEMMA CountedStep == MisuseInv /\ Counted /\ [Next]_vars => Counted'
  <1> SUFFICES ASSUME MisuseInv, Counted, [Next]_vars PROVE Counted'
    OBVIOUS
  <1>0. TypeOK /\ StepInv /\ i \in Nat \ {0}
    BY DEF MisuseInv, TypeOK, RunnerTypeOK
  <1>1. CASE ApplyNext \/ RestoreNext
    <2>1. /\ status = "ok" /\ pc # "main" /\ UNCHANGED <<testVars, result, passed, pc, i>>
      BY <1>1, LoopFacts
    <2>2. Done' = Done
      BY <2>1 DEF Done
    <2> QED BY <1>0, <2>1, <2>2, ListsKept, NothingCounted
  <1>2. CASE UserStep
    <2>1. Grown /\ status = "ok" /\ UNCHANGED <<result, passed, pc, i>>
      BY <1>0, <1>2, UserKeeps, UserControl DEF runVars
    <2>2. Done' = Done
      BY <2>1 DEF Done
    <2>3. CASE pc = "main"
      BY <2>1, <2>3 DEF Counted
    <2>4. CASE pc # "main"
      BY <1>0, <2>1, <2>2, <2>4, NothingCounted
    <2> QED BY <2>3, <2>4
  <1>3. CASE Start
    <2>1. CASE lstate = "null"
      <3>1. status' # "ok"
        BY <1>3, <2>1 DEF Start, Crash, CrashSaying
      <3> QED BY <3>1 DEF Counted
    <2>2. CASE lstate # "null"
      <3>1. passed' = 0 /\ pc' = "next" /\ i' = 1
        BY <1>3, <2>2 DEF Start
      <3>2. Done' = 1 - 1
        BY <3>1 DEF Done
      <3>3. 1 .. Done' = {}
        BY <3>2
      <3>4. PassedAt' = {}
        BY <3>3 DEF PassedAt
      <3> QED BY <3>1, <3>4, FS_EmptySet DEF Counted
    <2> QED BY <2>1, <2>2
  <1>4. CASE BeginTest
    <2>1. CASE test[Current] = "freed"
      <3>1. status' # "ok"
        BY <1>4, <2>1 DEF BeginTest, Crash, CrashSaying
      <3> QED BY <3>1 DEF Counted
    <2>2. CASE test[Current] # "freed"
      <3>1. /\ status = "ok" /\ pc = "next" /\ pc' = "setup"
            /\ UNCHANGED <<testVars, result, passed, i>>
        BY <1>4, <2>2 DEF BeginTest, At
      <3>2. Done' = Done
        BY <3>1 DEF Done
      <3> QED BY <1>0, <3>1, <3>2, ListsKept, NothingCounted
    <2> QED BY <2>1, <2>2
  <1>5. CASE SetupReturns \/ ApplyDone \/ RestoreDone
    <2>1. /\ status = "ok" /\ pc # "main" /\ UNCHANGED <<testVars, result, passed, i>>
          /\ pc \in {"restore", "teardown"} <=> pc' \in {"restore", "teardown"}
      BY <1>5 DEF SetupReturns, ApplyDone, RestoreDone, At
    <2>2. Done' = Done
      BY <2>1 DEF Done
    <2> QED BY <1>0, <2>1, <2>2, ListsKept, NothingCounted
  <1>6. ASSUME NEW r \in Results, FunctionReturns(r)
        PROVE  Counted'
    BY <1>6, ResultCounted
  <1>7. CASE TeardownReturns
    <2>1. /\ status = "ok" /\ pc = "teardown" /\ pc' = "next" /\ i' = i + 1
          /\ UNCHANGED <<testVars, result, passed>>
      BY <1>7 DEF TeardownReturns, At
    <2>2. (i + 1) - 1 = i
      BY <1>0
    <2>3. Done' = Done
      BY <2>1, <2>2 DEF Done
    <2> QED BY <1>0, <2>1, <2>3, ListsKept, NothingCounted
  <1>8. CASE EndRun
    <2>1. status' # "ok" \/ pc' = "main"
      BY <1>8 DEF EndRun, Crash, CrashSaying
    <2> QED BY <2>1 DEF Counted
  <1>9. CASE UNCHANGED vars
    <2>1. UNCHANGED <<status, pc, i, suite, result, passed>>
      BY <1>9 DEF vars, mvars, testVars, runVars
    <2> QED BY <2>1 DEF Counted, Distinct, PassedAt, Done
  <1> QED BY <1>1, <1>2, <1>3, <1>4, <1>5, <1>6, <1>7, <1>8, <1>9 DEF Next, RunStep

\* The printed count is that of the tests of this run that passed so far,
\* whatever the callbacks of tapi_test_run add to the suite.
THEOREM PassedIsExact == Spec => []PassedExact
  <1>1. Init => Counted
    BY DEF Init, Counted
  <1>2. Spec => []Counted
    BY <1>1, CountedStep, MisuseInvariance, PTL DEF Spec
  <1> QED BY <1>2, CountedExact, PTL

-----------------------------------------------------------------------------
(* The pages, under any user: the runner's patches and the end of its runs *)
(* are the calls that GuardProofs is about.                                *)

\* A step of the runner asks for the bytes of one call, or closes everything
\* at the end of a run, or leaves pages and list alone.
GuardStep ==
  \/ \E a \in Sites, granted \in MprotectOutcomes : GuardCreate(a, Length[a], granted)
  \/ GuardCleanup /\ pc = "next" /\ pc' = "main"
  \/ UNCHANGED gvars

LEMMA LoopGuardStep == ASSUME ApplyNext \/ RestoreNext PROVE GuardStep
  <1>1. PICK m : MockApply(m) \/ MockRestore(m)
    BY DEF ApplyNext, RestoreNext
  <1>2. ASSUME NEW a \in Sites, NEW c, NEW granted \in MprotectOutcomes,
               PatchCrash(a, c, granted) \/ PatchCallTarget(a, c, granted)
        PROVE  GuardStep
    BY <1>2 DEF PatchCrash, PatchCallTarget, Crash, CrashSaying, GuardStep
  <1>3. CASE MockApply(m)
    <2>1. \/ UNCHANGED gvars
          \/ \E a \in Sites, granted \in MprotectOutcomes :
               PatchCrash(a, def[m].mocked, granted) \/ PatchCallTarget(a, def[m].mocked, granted)
      BY <1>3 DEF MockApply, Crash, CrashSaying, mvars
    <2> QED BY <1>2, <2>1 DEF GuardStep
  <1>4. CASE MockRestore(m)
    <2>1. \/ UNCHANGED gvars
          \/ \E a \in Sites, granted \in MprotectOutcomes :
               PatchCrash(a, def[m].target, granted) \/ PatchCallTarget(a, def[m].target, granted)
      BY <1>4 DEF MockRestore, Crash, CrashSaying, mvars
    <2> QED BY <1>2, <2>1 DEF GuardStep
  <1> QED BY <1>1, <1>3, <1>4

LEMMA NextGuardStep == ASSUME [Next]_vars PROVE GuardStep
  <1>1. CASE UserStep
    <2>1. ASSUME NEW t, NEW m, NEW d, TestAddMock(t, m, d) PROVE UNCHANGED gvars
      BY <2>1 DEF TestAddMock, MockCreate
    <2>2. ASSUME NEW tests, TestSetup(tests) PROVE UNCHANGED gvars
      BY <2>2 DEF TestSetup, mvars
    <2>3. ASSUME NEW t, TestMake(t) \/ TestAdd(t) \/ TestDestroy(t) PROVE UNCHANGED gvars
      BY <2>3 DEF TestMake, TestAdd, TestDestroy, mvars
    <2> QED BY <1>1, <2>1, <2>2, <2>3 DEF UserStep, GuardStep
  <1>2. CASE Start \/ BeginTest \/ SetupReturns \/ ApplyDone \/ RestoreDone \/ TeardownReturns
    BY <1>2 DEF Start, BeginTest, SetupReturns, ApplyDone, RestoreDone, TeardownReturns, Crash, CrashSaying,
                mvars, GuardStep
  <1>3. ASSUME NEW r \in Results, FunctionReturns(r) PROVE GuardStep
    BY <1>3 DEF FunctionReturns, mvars, GuardStep
  <1>4. CASE EndRun
    BY <1>4 DEF EndRun, At, Crash, CrashSaying, GuardStep
  <1>5. CASE UNCHANGED vars
    BY <1>5 DEF vars, mvars, GuardStep
  <1> QED BY <1>1, <1>2, <1>3, <1>4, <1>5, LoopGuardStep DEF Next, RunStep

\* What GuardProofs says of guard_create and guard_cleanup, for such a step.
LEMMA PagesStep ==
  ASSUME GuardTypeOK, OpenPagesListed, CleanupClosesAll, [Next]_vars
  PROVE  OpenPagesListed' /\ CleanupClosesAll'
  <1>1. ASSUME NEW a \in Sites, NEW granted \in MprotectOutcomes,
               GuardCreate(a, Length[a], granted)
        PROVE  OpenPagesListed' /\ CleanupClosesAll'
    <2>1. a \in Nat /\ Length[a] \in Nat \ {0} /\ granted \in BOOLEAN
      BY GuardAssumption, MockAssumption
    <2>2. CleanupClosesAll'
      BY <1>1 DEF GuardCreate, CleanupClosesAll
    <2> QED BY <1>1, <2>1, <2>2, CreateKeepsListed
  <1>2. CASE GuardCleanup
    BY <1>2, CleanupKeeps, CleanupCloses
  <1>3. CASE UNCHANGED gvars
    BY <1>3 DEF gvars, OpenPagesListed, CleanupClosesAll, GuardPages, PagesOf
  <1> QED BY <1>1, <1>2, <1>3, NextGuardStep DEF GuardStep

\* The two invariants of the pages hold in every run of every user.
LEMMA PagesInvariant == Spec => [](OpenPagesListed /\ CleanupClosesAll)
  <1>1. Init => OpenPagesListed /\ CleanupClosesAll
    BY DEF Init, MockInit, GuardInit, OpenPagesListed, CleanupClosesAll
  <1>2. MisuseInv => GuardTypeOK
    BY DEF MisuseInv, TypeOK
  <1> QED BY <1>1, <1>2, PagesStep, MisuseInvariance, PTL DEF Spec

\* Through all misuse and refusals, and whatever mprotect and realloc answer, a
\* page of the program is writable exactly while the list of guards knows it or
\* because its guard was lost by a list that could not grow.
THEOREM MisuseAccountsForPages == Spec => []OpenPagesListed
  BY PagesInvariant, PTL

\* And where mprotect does not fail, a run that ends leaves no page writable but
\* those whose guard was lost, whatever its tests did.
THEOREM MisuseClosesPages == Spec => []CleanupClosesAll
  BY PagesInvariant, PTL

\* The early return of guard_create, in every run of every user: the entry that
\* is counted stands for pages that are open.
THEOREM AlignedCallsAreWritable == Spec => AlignedCallsWritable
  <1> DEFINE Opened == \A a \in Sites :
                         a = PageAlignDown(a) /\ GuardCreate(a, Length[a], TRUE) =>
                           \A p \in PagesOf(a, Length[a]) : prot'[p] = "rwx"
  <1>1. MisuseInv /\ OpenPagesListed /\ [Next]_vars => [Opened]_vars
    <2> SUFFICES ASSUME MisuseInv, OpenPagesListed, NEW a \in Sites, a = PageAlignDown(a),
                        GuardCreate(a, Length[a], TRUE), NEW p \in PagesOf(a, Length[a])
                 PROVE  prot'[p] = "rwx"
      OBVIOUS
    <2>1. GuardTypeOK /\ gstate # "freed" /\ p \in Pages
      BY DEF MisuseInv, TypeOK, GuardCreate, PagesOf
    <2>2. ProtAfterCreate(a, Length[a], TRUE)[p] = "rwx"
      BY <2>1, CreateOpens
    <2> QED BY <2>2 DEF GuardCreate
  <1>2. Spec => []OpenPagesListed
    BY PagesInvariant, PTL
  <1> QED BY <1>1, <1>2, MisuseInvariance, PTL DEF Spec, AlignedCallsWritable

\* A patch that faults was refused its page, or is of a call that lies beyond it.
LEMMA PatchFaultExplained ==
  ASSUME GuardTypeOK, OpenPagesListed, NEW a \in Sites, NEW c, NEW granted,
         PatchCrash(a, c, granted), status' = "unwritable"
  PROVE  "not opened" \in said' \/ ~WithinGuard(a)
  <1> SUFFICES ASSUME WithinGuard(a), "not opened" \notin said'
               PROVE  FALSE
    OBVIOUS
  <1>1. /\ gstate # "freed"
        /\ ~Writable(a, ProtAfterCreate(a, Length[a], granted))
        /\ said' = said \union Complaints(a, c, granted)
    BY DEF PatchCrash, Crash, CrashSaying
  <1>2. granted \/ Matching(a, Length[a]) # {}
    BY <1>1 DEF Complaints, NotOpened
  <1>3. PICK p \in PagesOf(a + 1, 4) : ProtAfterCreate(a, Length[a], granted)[p] # "rwx"
    BY <1>1 DEF Writable
  <1>4. p \in PagesOf(a, Length[a]) /\ p \in PagesOf(PageAlignDown(a), Length[a])
    BY DEF WithinGuard
  <1>5. p \in Pages
    BY DEF PagesOf
  <1> QED BY <1>1, <1>2, <1>3, <1>4, <1>5, CreateOpens

\* mock_apply and mock_restore fault at a call that they found.
LEMMA LoopFault ==
  ASSUME GuardTypeOK, OpenPagesListed, NEW m, status = "ok", status' = "unwritable",
         MockApply(m) \/ MockRestore(m)
  PROVE  \/ "not opened" \in said'
         \/ \E a \in Sites : MayPatch(m, a) /\ ~WithinGuard(a)
  <1>1. ASSUME NEW a \in Sites, NEW c, NEW granted, PatchCallTarget(a, c, granted)
        PROVE  FALSE
    BY <1>1 DEF PatchCallTarget
  <1>2. PICK a, c, granted : a \in Sites /\ MayPatch(m, a) /\ PatchCrash(a, c, granted)
    BY <1>1 DEF MockApply, MockRestore, SearchFinds, IsFirstCall, MayPatch,
                Crash, CrashSaying, mvars
  <1> QED BY <1>2, PatchFaultExplained

\* A patch faults on a protected page for one of the two named reasons only.
LEMMA UnwritableStep ==
  MisuseInv /\ OpenPagesListed /\ UnwritableExplained /\ [Next]_vars => UnwritableExplained'
  <1> DEFINE Fails == status' = "unwritable"
  <1> SUFFICES ASSUME MisuseInv, OpenPagesListed, UnwritableExplained, [Next]_vars, Fails
               PROVE  UnwritableExplained'
    BY DEF UnwritableExplained
  <1> HIDE DEF Fails
  <1>0. TypeOK /\ StepInv
    BY DEF MisuseInv
  <1>1. CASE ApplyNext \/ RestoreNext
    <2> DEFINE m == mocks[Current][j]
    <2>1. /\ status = "ok" /\ UNCHANGED mocks /\ Current' = Current /\ j' = j + 1
          /\ j \in Nat \ {0}
      BY <1>1, LoopFacts
    <2>2. MockApply(m) \/ MockRestore(m)
      BY <1>1 DEF ApplyNext, RestoreNext
    <2>3. UNCHANGED <<text, def>>
      BY <2>1, <2>2
      DEF MockApply, MockRestore, PatchCallTarget, PatchCrash, Crash, CrashSaying,
          mvars, mockVars, Fails
    <2> HIDE DEF m
    <2>4. \/ "not opened" \in said'
          \/ \E a \in Sites : MayPatch(m, a) /\ ~WithinGuard(a)
      BY <1>0, <2>1, <2>2, LoopFault DEF TypeOK, Fails
    <2>5. \A x, a : MayPatch(x, a)' <=> MayPatch(x, a)
      BY <2>3 DEF MayPatch, Finds, Decoded, Misread
    <2>6. (j + 1) - 1 = j
      BY <2>1
    <2>7. PICK x : x = m
      OBVIOUS
    <2>8. mocks'[Current'][j' - 1] = x
      BY <2>1, <2>6, <2>7 DEF m
    <2>9. \/ "not opened" \in said'
          \/ \E a \in Sites : MayPatch(x, a)' /\ ~WithinGuard(a)
      BY <2>4, <2>5, <2>7
    <2> QED BY <2>8, <2>9 DEF UnwritableExplained, MayPatch, Finds, Decoded, Misread
  <1>3. CASE UserStep
    BY <1>0, <1>3, UserControl DEF Fails
  <1>4. CASE Start \/ BeginTest \/ EndRun
    BY <1>4 DEF Start, BeginTest, EndRun, At, Crash, CrashSaying, mvars, Fails
  <1>5. CASE SetupReturns \/ ApplyDone \/ RestoreDone \/ TeardownReturns
    BY <1>5 DEF SetupReturns, ApplyDone, RestoreDone, TeardownReturns, At, mvars, Fails
  <1>6. ASSUME NEW r \in Results, FunctionReturns(r)
        PROVE  FALSE
    BY <1>6 DEF FunctionReturns, At, mvars, Fails
  <1>7. CASE UNCHANGED vars
    BY <1>7 DEF vars, mvars, mockVars, testVars, runVars, UnwritableExplained, MayPatch,
                WithinGuard, Finds, Decoded, Misread, Current
  <1> QED BY <1>1, <1>3, <1>4, <1>5, <1>6, <1>7 DEF Next, RunStep

\* A patch of the runner never faults but where mprotect failed and said so, or
\* at a call whose bytes leave the page that guard_create asks for: no overlap of
\* requests, counted entry or lost guard adds a third reason.
THEOREM UnwritableIsExplained == Spec => []UnwritableExplained
  <1>1. Init => UnwritableExplained
    BY DEF Init, MockInit, UnwritableExplained
  <1>2. Spec => []OpenPagesListed
    BY PagesInvariant, PTL
  <1> QED BY <1>1, <1>2, UnwritableStep, MisuseInvariance, PTL DEF Spec

\* The step closes page p only as the last one of a run.
Closed(p) == (prot[p] = "rwx" /\ prot'[p] = "rx") =>
               pc = "next" /\ pc' = "main" /\ gstate' = "freed"

\* Pages are closed at one place, the end of a run: no mock_restore takes the
\* permission that a later one will need.
THEOREM RunsOnlyCloseAtTheEnd == Spec => [][\A p \in Pages : Closed(p)]_vars
  <1>1. MisuseInv /\ [Next]_vars => [\A p \in Pages : Closed(p)]_vars
    <2> SUFFICES ASSUME MisuseInv, [Next]_vars, NEW p \in Pages, prot[p] = "rwx", prot'[p] = "rx"
                 PROVE  pc = "next" /\ pc' = "main" /\ gstate' = "freed"
      BY DEF Closed
    <2>1. ASSUME NEW a \in Sites, NEW granted \in MprotectOutcomes,
                 GuardCreate(a, Length[a], granted)
          PROVE  FALSE
      <3>1. a \in Nat /\ Length[a] \in Nat \ {0} /\ granted \in BOOLEAN /\ GuardTypeOK
        BY GuardAssumption, MockAssumption DEF MisuseInv, TypeOK
      <3>2. prot'[p] = "rwx"
        BY <2>1, <3>1, CreateOnlyOpens
      <3> QED BY <3>2
    <2>2. CASE GuardCleanup /\ pc = "next" /\ pc' = "main"
      BY <2>2 DEF GuardCleanup, gvars
    <2>3. CASE UNCHANGED gvars
      BY <2>3 DEF gvars
    <2> QED BY <2>1, <2>2, <2>3, NextGuardStep DEF GuardStep
  <1> QED BY <1>1, MisuseInvariance, PTL DEF Spec

-----------------------------------------------------------------------------
\* The points of a test in the order in which a run comes to them.
Points == <<"next", "setup", "apply", "function", "restore", "teardown">>

\* The step of the run leads to a later point of the test, to the next element
\* of the list it walks, or to the next test; the lists have not ended.
RunsOn ==
  \/ \E n \in 1 .. 5 : pc = Points[n] /\ pc' = Points[n + 1] /\ i' = i
  \/ pc \in {"apply", "restore"} /\ pc' = pc /\ i' = i /\ j' = j + 1 /\ j \in DOMAIN mocks[Current]
  \/ pc = "teardown" /\ pc' = "next" /\ i' = i + 1 /\ i \in DOMAIN suite
  \/ pc = "next" /\ pc' = "main"
  \/ status' # "ok"

\* Whatever was listed, refused or used twice, a run comes to its end unless
\* callbacks add for ever: its own steps go through the six points of a test and
\* through lists that have not ended, and those of the user do not turn it back.
THEOREM RunsGoOn ==
  Spec => [][(RunStep => RunsOn) /\ (UserStep => UNCHANGED runVars)]_vars
  <1>1. MisuseInv /\ [Next]_vars => [(RunStep => RunsOn) /\ (UserStep => UNCHANGED runVars)]_vars
    <2>1. ASSUME UserStep PROVE UNCHANGED runVars
      BY <2>1 DEF UserStep, TestMake, TestAddMock, TestAdd, TestSetup, TestDestroy
    <2>2. ASSUME MisuseInv, RunStep PROVE RunsOn
      <3>1. TypeOK /\ StepInv
        BY <2>2 DEF MisuseInv
      <3>2. CASE SetupReturns \/ ApplyDone \/ RestoreDone \/ \E r \in Results : FunctionReturns(r)
        <4>1. i' = i /\ \/ pc = Points[2] /\ pc' = Points[3]
                        \/ pc = Points[3] /\ pc' = Points[4]
                        \/ pc = Points[4] /\ pc' = Points[5]
                        \/ pc = Points[5] /\ pc' = Points[6]
          BY <3>2 DEF SetupReturns, ApplyDone, RestoreDone, FunctionReturns, At, Points
        <4> HIDE DEF Points
        <4>2. \E n \in 1 .. 5 : pc = Points[n] /\ pc' = Points[n + 1]
          BY <4>1
        <4> QED BY <4>1, <4>2 DEF RunsOn
      <3>3. CASE BeginTest
        <4>1. status' # "ok" \/ (i' = i /\ pc = Points[1] /\ pc' = Points[2])
          BY <3>3 DEF BeginTest, At, Points, Crash, CrashSaying
        <4> QED BY <4>1 DEF RunsOn
      <3>4. CASE ApplyNext \/ RestoreNext
        <4>1. /\ pc \in {"apply", "restore"} /\ pc' = pc /\ i' = i /\ j' = j + 1
              /\ j <= Len(mocks[Current])
          BY <3>4 DEF ApplyNext, RestoreNext, At
        <4>2. Current \in Tests
          BY <3>1, <4>1 DEF StepInv, TypeOK, RunnerTypeOK, Current
        <4>3. j \in Nat \ {0} /\ mocks[Current] \in Seq(Mocks)
          BY <3>1, <4>2 DEF TypeOK, RunnerTypeOK
        <4>4. j \in DOMAIN mocks[Current]
          BY <4>1, <4>3
        <4> QED BY <4>1, <4>4 DEF RunsOn
      <3>5. CASE TeardownReturns
        BY <3>1, <3>5 DEF TeardownReturns, At, StepInv, RunsOn
      <3>6. CASE EndRun
        BY <3>6 DEF EndRun, At, Crash, CrashSaying, RunsOn
      <3> QED BY <2>2, <3>2, <3>3, <3>4, <3>5, <3>6 DEF RunStep
    <2> QED BY <2>1, <2>2
  <1> QED BY <1>1, MisuseInvariance, PTL DEF Spec
=============================================================================
