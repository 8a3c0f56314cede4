------------------------------- MODULE Runner -------------------------------
(***************************************************************************)
(* The test runner, src/src/tapi.c: user code builds tests, gives them     *)
(* mocks and lists them; tapi_test_run then takes every listed test in     *)
(* turn through setup, mock_apply for each of its mocks, the test          *)
(* function, mock_restore for each of its mocks and teardown, and calls    *)
(* guard_cleanup at the end.                                               *)
(*                                                                         *)
(* The library is single threaded.  `pc' is where its control is; at a     *)
(* callback (setup, function, teardown) and outside a run ("main") user    *)
(* code executes and may call the building functions again.  A test        *)
(* without setup or teardown is one whose callback returns at once.        *)
(***************************************************************************)
EXTENDS Mock

CONSTANTS
  Tests,       \* test identities, in allocation order
  Results,     \* what a test function may return
  UserPoints,  \* the points at which user code may edit the suite
  Relist,      \* may one test be listed more than once, or after it has run?
  MaxSuite,    \* bound: tests listed
  MaxMocks,    \* bound: mocks of one test
  MaxRuns      \* bound: calls of tapi_test_run

Callbacks == {"setup", "function", "teardown"}

ASSUME RunnerAssumption ==
  /\ Tests \subseteq Nat
  /\ Results \subseteq {"PASSED", "FAILED", "SKIPPED"}
  /\ UserPoints \subseteq Callbacks \union {"main"}
  /\ Relist \in BOOLEAN
  /\ MaxSuite \in Nat
  /\ MaxMocks \in Nat
  /\ MaxRuns \in Nat

VARIABLES
  lstate,  \* the pointer l_tests: "null" or "live"
  suite,   \* the tests listed in l_tests
  test,    \* test -> "none", "live" or "freed"
  mocks,   \* test -> the list test->mocks
  result,  \* test -> test->result, "none" before it ran
  passed,  \* the local counter of tapi_test_run
  pc, i, j,  \* control: the step, the test and the mock it is at
  runs     \* calls of tapi_test_run so far

testVars == <<lstate, suite, test, mocks>>
runVars == <<result, passed, pc, i, j, runs>>
vars == <<mvars, testVars, runVars>>

Elems(s) == {s[k] : k \in DOMAIN s}

RunnerTypeOK ==
  /\ lstate \in {"null", "live"}
  /\ suite \in Seq(Tests)
  /\ test \in [Tests -> {"none", "live", "freed"}]
  /\ mocks \in [Tests -> Seq(Mocks)]
  /\ result \in [Tests -> Results \union {"none"}]
  /\ passed \in Nat
  /\ pc \in Callbacks \union {"main", "next", "apply", "restore"}
  /\ i \in Nat \ {0}
  /\ j \in Nat \ {0}
  /\ runs \in Nat

TypeOK == GuardTypeOK /\ MockTypeOK /\ RunnerTypeOK

-----------------------------------------------------------------------------
(* User code *)

AtUserCode == status = "ok" /\ pc \in UserPoints

\* bound: nothing is built after the last run.
Building == AtUserCode /\ (pc = "main" => runs < MaxRuns)

\* tapi_test_make
TestMake(t) ==
  /\ Building
  /\ test[t] = "none"
  /\ \A u \in Tests : u < t => test[u] # "none"
  /\ test' = [test EXCEPT ![t] = "live"]
  /\ UNCHANGED <<mvars, lstate, suite, mocks, runVars>>

\* tapi_test_add_mock: the mock is made, also when its list cannot grow.
TestAddMock(t, m, d) ==
  /\ Building
  /\ test[t] = "live"
  /\ Len(mocks[t]) < MaxMocks
  /\ MockCreate(m, d)
  /\ \E grown \in ReallocOutcomes :
       mocks' = [mocks EXCEPT ![t] = Pushed(@, m, grown)]
  /\ UNCHANGED <<lstate, suite, test, runVars>>

MayList(t) ==
  /\ test[t] = "live"
  /\ Relist \/ t \notin Elems(suite)

\* tapi_test_add: a push that fails leaves the list, and the test out of it.
TestAdd(t) ==
  /\ Building
  /\ MayList(t)
  /\ Len(suite) < MaxSuite
  /\ lstate' = "live"
  /\ \E grown \in ReallocOutcomes : suite' = Pushed(suite, t, grown)
  /\ UNCHANGED <<mvars, test, mocks, runVars>>

\* tapi_test_setup with an array of one test, or of none; the whole array is
\* dropped when a list exists.
TestSetup(tests) ==
  /\ Building
  /\ \/ /\ lstate = "live"
        /\ UNCHANGED <<lstate, suite>>
     \/ /\ lstate = "null"
        /\ lstate' = "live"
        /\ \E grown \in ReallocOutcomes :
             suite' = IF HasRoom(suite, grown) THEN tests ELSE <<>>
  /\ UNCHANGED <<mvars, test, mocks, runVars>>

\* tapi_test_destroy, "after they have been ran": the test, its name and its
\* list of mocks are freed; the mocks themselves are not.
TestDestroy(t) ==
  /\ AtUserCode
  /\ pc = "main"
  /\ runs > 0
  /\ test[t] = "live"
  /\ test' = [test EXCEPT ![t] = "freed"]
  /\ UNCHANGED <<mvars, lstate, suite, mocks, runVars>>

UserStep ==
  \/ \E t \in Tests : TestMake(t)
  \/ \E t \in Tests, m \in Mocks, d \in MockDefs : TestAddMock(t, m, d)
  \/ \E t \in Tests : TestAdd(t)
  \/ TestSetup(<<>>)
  \/ \E t \in Tests : MayList(t) /\ MaxSuite > 0 /\ TestSetup(<<t>>)
  \/ \E t \in Tests : TestDestroy(t)

-----------------------------------------------------------------------------
(* tapi_test_run *)

At(point) == status = "ok" /\ pc = point

Current == suite[i]

\* Deviation: the counter is not reset.
StartKeepsCount ==
  /\ At("main")
  /\ lstate = "live"
  /\ runs < MaxRuns
  /\ runs' = runs + 1
  /\ pc' = "next"
  /\ i' = 1
  /\ UNCHANGED <<mvars, testVars, result, passed, j>>

\* The loop over l_tests reads its length without testing the pointer.
Start ==
  /\ At("main")
  /\ runs < MaxRuns
  /\ runs' = runs + 1
  /\ \/ /\ lstate = "null"
        /\ Crash("null suite")
        /\ UNCHANGED <<testVars, result, passed, pc, i, j>>
     \/ /\ lstate = "live"
        /\ passed' = 0
        /\ pc' = "next"
        /\ i' = 1
        /\ UNCHANGED <<mvars, testVars, result, j>>

BeginTest ==
  /\ At("next")
  /\ i <= Len(suite)
  /\ \/ /\ test[Current] = "freed"
        /\ Crash("freed test")
        /\ UNCHANGED <<testVars, runVars>>
     \/ /\ test[Current] # "freed"
        /\ pc' = "setup"
        /\ UNCHANGED <<mvars, testVars, result, passed, i, j, runs>>

SetupReturns ==
  /\ At("setup")
  /\ pc' = "apply"
  /\ j' = 1
  /\ UNCHANGED <<mvars, testVars, result, passed, i, runs>>

\* Deviation: the loop stays at a mock whose call is not found.
ApplyUntilFound ==
  /\ At("apply")
  /\ j <= Len(mocks[Current])
  /\ MockApply(mocks[Current][j])
  /\ j' = IF call' = call THEN j ELSE j + 1
  /\ UNCHANGED <<testVars, result, passed, pc, i, runs>>

\* The loops over test->mocks read the length again before every element.
ApplyNext ==
  /\ At("apply")
  /\ j <= Len(mocks[Current])
  /\ MockApply(mocks[Current][j])
  /\ j' = j + 1
  /\ UNCHANGED <<testVars, result, passed, pc, i, runs>>

ApplyDone ==
  /\ At("apply")
  /\ j > Len(mocks[Current])
  /\ pc' = "function"
  /\ UNCHANGED <<mvars, testVars, result, passed, i, j, runs>>

\* Deviation: teardown follows at once.
FunctionReturnsToTeardown(r) ==
  /\ At("function")
  /\ result' = [result EXCEPT ![Current] = r]
  /\ passed' = IF r = "PASSED" THEN passed + 1 ELSE passed
  /\ pc' = "teardown"
  /\ UNCHANGED <<mvars, testVars, i, j, runs>>

FunctionReturns(r) ==
  /\ At("function")
  /\ result' = [result EXCEPT ![Current] = r]
  /\ passed' = IF r = "PASSED" THEN passed + 1 ELSE passed
  /\ pc' = "restore"
  /\ j' = 1
  /\ UNCHANGED <<mvars, testVars, i, runs>>

RestoreNext ==
  /\ At("restore")
  /\ j <= Len(mocks[Current])
  /\ MockRestore(mocks[Current][j])
  /\ j' = j + 1
  /\ UNCHANGED <<testVars, result, passed, pc, i, runs>>

RestoreDone ==
  /\ At("restore")
  /\ j > Len(mocks[Current])
  /\ pc' = "teardown"
  /\ UNCHANGED <<mvars, testVars, result, passed, i, j, runs>>

\* Deviation: the guards are cleaned up after every test.
TeardownCleansUp ==
  /\ At("teardown")
  /\ GuardCleanup
  /\ pc' = "next"
  /\ i' = i + 1
  /\ UNCHANGED <<image, text, mockVars, said, status, testVars, result, passed, j, runs>>

TeardownReturns ==
  /\ At("teardown")
  /\ pc' = "next"
  /\ i' = i + 1
  /\ UNCHANGED <<mvars, testVars, result, passed, j, runs>>

\* guard_cleanup runs at the end of every call; the second one finds the
\* dangling pointer of the first.
EndRun ==
  /\ At("next")
  /\ i > Len(suite)
  /\ \/ /\ gstate = "freed"
        /\ Crash("freed guards")
        /\ UNCHANGED <<testVars, runVars>>
     \/ /\ GuardCleanup
        /\ pc' = "main"
        /\ UNCHANGED <<image, text, mockVars, said, status, testVars,
                       result, passed, i, j, runs>>

RunStep ==
  \/ BeginTest
  \/ SetupReturns
  \/ ApplyNext
  \/ ApplyDone
  \/ \E r \in Results : FunctionReturns(r)
  \/ RestoreNext
  \/ RestoreDone
  \/ TeardownReturns
  \/ EndRun

Init ==
  /\ MockInit
  /\ lstate = "null"
  /\ suite = <<>>
  /\ test = [t \in Tests |-> "none"]
  /\ mocks = [t \in Tests |-> <<>>]
  /\ result = [t \in Tests |-> "none"]
  /\ passed = 0
  /\ pc = "main"
  /\ i = 1
  /\ j = 1
  /\ runs = 0

Next == UserStep \/ Start \/ RunStep

Spec == Init /\ [][Next]_vars

\* The steps of tapi_test_run are a program executing; that its callbacks
\* return is assumed of the user.  Nobody is obliged to call the library.
FairSpec == Spec /\ WF_vars(RunStep)

-----------------------------------------------------------------------------
(* What a disciplined user may rely on *)

\* The promise of isolation, with the runner's control as its phases.
Phase ==
  IF status # "ok" THEN "dead"
  ELSE IF pc = "apply" THEN "diverting"
  ELSE IF pc = "function" THEN "running"
  ELSE IF pc = "restore" THEN "undoing"
  ELSE "clean"

Promise == INSTANCE Isolation WITH original <- image, code <- text, phase <- Phase

\* The runner, with its searches that ignore where a mock was applied,
\* implements the isolation of a test: it diverts only calls that are still
\* the program's own, and gives back every one of them before teardown.
IsolationKept == Promise!IsolationSpec

\* Outside the span from the first mock_apply to the last mock_restore of a
\* test, in particular in its setup and teardown and in every other test, the
\* program calls what it was linked to call (tapi_test_run).
CleanBetweenTests ==
  (status = "ok" /\ pc \notin {"apply", "function", "restore"}) => text = image

\* No order of building, listing and running disciplined tests kills the
\* process, except a run with nothing ever listed, whose l_tests is null.
NoFault == status \in {"ok", "null suite"}

\* mock_restore finds its call by searching for the stub again: what it
\* rewrites is the call this mock had patched, which still goes where
\* mock_apply had sent it, and it gets the bytes that mock_apply had saved,
\* although other mocks of the test use the same stub.
RestoreUndoesApply ==
  [][\A m \in freed' \ freed :
       /\ text[call[m]] = mockedBytes[m]
       /\ text'[call[m]] = origBytes[m]
       /\ \A a \in Sites \ {call[m]} : text'[a] = text[a]]_vars

\* The call of m is diverted, and so is each before it that m might have taken.
DivertsFirst(m) ==
  /\ image[call[m]] = def[m].target
  /\ text[call[m]] = def[m].mocked
  /\ \A b \in Span[def[m].orig] :
       (b < call[m] /\ image[b] = def[m].target) => text[b] # image[b]

\* "mock the first call occurrence to a target" (mock.h:46): while the test
\* function runs, a diverted call is preceded, in the function searched, only
\* by calls of that target that are diverted as well, so n mocks of one target
\* divert its first n calls, even where the sweeps of two functions overlap.
FirstCallsDiverted ==
  (status = "ok" /\ pc = "function") =>
    \A k \in DOMAIN mocks[Current] :
      call[mocks[Current][k]] # NullCall => DivertsFirst(mocks[Current][k])

\* The count printed beside a test and in the summary is the number of tests
\* of this run that passed so far, whatever callbacks add to the suite
\* meanwhile, as long as no test is listed twice (tapi_test_run).
PassedExact ==
  (/\ status = "ok"
   /\ pc # "main"
   /\ \A k, n \in DOMAIN suite : suite[k] = suite[n] => k = n) =>
    LET done == IF pc \in {"restore", "teardown"} THEN i ELSE i - 1 IN
    passed = Cardinality({k \in 1 .. done : result[suite[k]] = "PASSED"})

\* A run that starts comes to its end (or dies), although its loops read the
\* lengths again while callbacks add tests and mocks.
RunEnds == (pc # "main") ~> (pc = "main" \/ status # "ok")

-----------------------------------------------------------------------------
(* What remains when calls cannot be reached, pages stay closed, stubs are *)
(* shared and tests are listed or run again                                *)

\* A call to a misread callee never looks like a call to another one.
NoMistake ==
  \A a \in Sites, c, e \in Callees :
    Misread(c) => a + Length[a] + Entry[c] # Entry[e]

\* As long as no patch was refused, no call is mistaken for another and the
\* process lives, a test may leave its function's calls exchanged but not
\* changed: every callee is called from as many sites as the program as linked
\* has.
CalleesConserved ==
  (NoMistake /\ status = "ok" /\ "refused" \notin said
     /\ pc \notin {"apply", "function", "restore"}) =>
    \A c \in Callees :
      Cardinality({a \in Sites : text[a] = c})
        = Cardinality({a \in Sites : image[a] = c})

\* Mock n disturbs mock m of its test: it mocks m's stub, or they share one.
Disturbs(n, m) ==
  \/ def[n].target = def[m].mocked
  \/ def[n].mocked = def[m].mocked

\* Mock m of test t has its stub to itself: no other mock of t targets it or
\* diverts another target to it, and the function m is for has no call to it.
OwnsStub(t, m) ==
  /\ \A k \in DOMAIN mocks[t] :
       LET n == mocks[t][k] IN
       /\ def[n].target # def[m].mocked
       /\ def[n].mocked = def[m].mocked => def[n].target = def[m].target
  /\ \A a \in Span[def[m].orig] : image[a] # def[m].mocked

StubsOwned == \A t \in Tests : \A k \in DOMAIN mocks[t] : OwnsStub(t, mocks[t][k])

\* A rule that each test can be held to by itself is enough for isolation: if
\* every mock owns its stub within its test, no patch was refused and no call
\* mistaken, a test diverts the first calls of its functions and leaves the
\* program as it was linked, whatever stubs different tests share, however
\* often tests are listed and run, wherever calls are and whatever mprotect
\* answers (mock_apply, mock_restore).
IsolatedIfStubsOwned ==
  (NoMistake /\ status = "ok" /\ "refused" \notin said /\ StubsOwned) =>
    /\ pc \notin {"apply", "function", "restore"} => text = image
    /\ pc = "function" =>
         \A k \in DOMAIN mocks[Current] :
           LET m == mocks[Current][k] IN
           (call[m] # NullCall /\ m \notin freed) => DivertsFirst(m)

\* mock_restore does not test the result of its search.  It is null only
\* after a patch was refused, when the search, of this mock or of an earlier
\* one, had no memory, for a stub below 4 GB in a 64-bit program, or when
\* another mock of the test disturbs the one restored.
NullCallExplained ==
  status = "null call" =>
    \/ "refused" \in said
    \/ "no memory" \in said
    \/ Misread(def[mocks[Current][j - 1]].mocked)
    \/ \E k \in DOMAIN mocks[Current] :
         k # j - 1 /\ Disturbs(mocks[Current][k], mocks[Current][j - 1])

\* The call that mock m is at, in mock_apply or in mock_restore.
MayPatch(m, a) ==
  a \in Finds(def[m].orig, def[m].target) \union Finds(def[m].orig, def[m].mocked)

\* A patch faults on a protected page only where guard_create was refused a page
\* by mprotect and said so, or at a call whose bytes lie beyond the page that
\* guard_create asks for: neither an entry that is only counted, nor a guard
\* that was lost, nor a page shared with another call keeps a patch from writing.
UnwritableExplained ==
  status = "unwritable" =>
    \/ "not opened" \in said
    \/ \E a \in Sites : MayPatch(mocks[Current][j - 1], a) /\ ~WithinGuard(a)

\* A call that starts on a page boundary is the one guard_create can find in
\* its list and answer by counting alone: unless mprotect failed, all its bytes
\* in the pages asked for are writable all the same (guard_create's early
\* return), whatever was requested, refused or lost before.
AlignedCallsWritable ==
  [][\A a \in Sites :
       a = PageAlignDown(a) /\ GuardCreate(a, Length[a], TRUE) =>
         \A p \in PagesOf(a, Length[a]) : prot'[p] = "rwx"]_vars

\* The runner touches freed memory only when a test is reached a second time,
\* through a second entry in the suite or a second run: no single pass over
\* distinct tests does (mock_restore, guard_cleanup, tapi_test_destroy).
SecondUseExplained ==
  status \in {"freed mock", "freed guards", "freed test"} =>
    \/ runs > 1
    \/ i \in DOMAIN suite /\ \E k \in 1 .. i - 1 : suite[k] = suite[i]
=============================================================================
