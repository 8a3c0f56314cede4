----------------------------- MODULE RunnerInv -----------------------------
(***************************************************************************)
(* The inductive invariant behind CleanBetweenTests and NoFault, for one   *)
(* run of a disciplined suite: Relist = FALSE and MaxRuns = 1.             *)
(***************************************************************************)
EXTENDS Runner

ASSUME DisciplineAssumption ==
  /\ Disciplined
  /\ ~Relist
  /\ MaxRuns = 1

\* A mock that mock_apply has not touched yet, and one whose call is diverted.
Fresh(m) == call[m] = NullCall /\ m \notin freed
Active(m) == call[m] # NullCall /\ m \notin freed

\* The tests that the run has brought to their mocks.
Reached(t) ==
  \E k \in DOMAIN suite :
    /\ suite[k] = t
    /\ k < i \/ (k = i /\ pc \notin {"main", "next", "setup"})

\* Where control may be.
ControlInv ==
  /\ runs \in {0, 1}
  /\ pc # "main" => runs = 1 /\ lstate = "live" /\ status = "ok"
  /\ runs = 0 \/ pc # "main" => gstate # "freed"
  /\ runs = 0 => i = 1
  /\ pc \notin {"main", "next"} => i \in DOMAIN suite
  /\ pc = "main" /\ runs = 1 => i > Len(suite) \/ status # "ok"
  /\ status \in {"ok", "null suite"}
  /\ status # "ok" => lstate = "null"

Places == 1 .. MaxMocks

\* m is the k-th mock of t.
Listed(m, t, k) == k \in DOMAIN mocks[t] /\ mocks[t][k] = m

\* The lists user code builds: no test and no mock is listed twice.
ListInv ==
  /\ lstate = "null" => suite = <<>>
  /\ \A k, n \in DOMAIN suite : suite[k] = suite[n] => k = n
  /\ \A k \in DOMAIN suite : test[suite[k]] = "freed" => pc = "main" /\ runs = 1
  /\ \A t \in Tests : Len(mocks[t]) <= MaxMocks
  /\ \A t, u \in Tests, k, n \in Places, m \in Mocks :
       Listed(m, t, k) /\ Listed(m, u, n) => t = u /\ k = n
  /\ \A t \in Tests, k \in Places, m \in Mocks : Listed(m, t, k) => def[m] # None

\* mock_apply never meets a mock it has met before, nor mock_restore.
FreshInv ==
  /\ \A m \in Mocks : def[m] = None => Fresh(m)
  /\ \A t \in Tests, k \in Places, m \in Mocks : Listed(m, t, k) =>
       \/ Reached(t)
       \/ Fresh(m)
  /\ pc \in {"apply", "function", "restore"} =>
       \A k \in Places, m \in Mocks : Listed(m, Current, k) =>
         /\ pc = "apply" /\ k >= j => Fresh(m)
         /\ pc = "restore" => k < j \/ m \notin freed
         /\ pc # "restore" => m \notin freed

\* A diverted call belongs to a mock of the current test, on the side of j
\* that the loop has not undone.
PlaceInv ==
  \A m \in Mocks : Active(m) =>
    /\ pc \in {"apply", "function", "restore"}
    /\ \E k \in Places :
         /\ Listed(m, Current, k)
         /\ pc = "apply" => k < j
         /\ pc = "restore" => k >= j

\* The code differs from the program at the calls of active mocks only, one
\* call each.
TextInv ==
  /\ \A m \in Mocks : Active(m) =>
       /\ call[m] \in Span[def[m].orig]
       /\ text[call[m]] = def[m].mocked
       /\ image[call[m]] = def[m].target
       /\ origBytes[m] = def[m].target
       /\ mockedBytes[m] = def[m].mocked
  /\ \A m, n \in Mocks : Active(m) /\ Active(n) /\ call[m] = call[n] => m = n
  /\ \A a \in Sites : text[a] # image[a] => \E m \in Mocks : Active(m) /\ call[m] = a

\* While calls are being diverted, none is left before a diverted one.
FirstInv ==
  pc \in {"apply", "function"} =>
    \A m \in Mocks : Active(m) =>
      \A b \in Span[def[m].orig] : text[b] = def[m].target => call[m] < b

\* Mocks that share a stub find their calls again in the order in which they
\* are restored: the search of an earlier one meets its own call first.
OrderInv ==
  \A t \in Tests, k, n \in Places, x, y \in Mocks :
    (/\ Listed(x, t, k)
     /\ Listed(y, t, n)
     /\ k < n
     /\ Active(x)
     /\ Active(y)
     /\ def[x].mocked = def[y].mocked
     /\ call[y] \in Span[def[x].orig]) => call[x] < call[y]

IInv ==
  /\ TypeOK
  /\ OpenPagesListed
  /\ ControlInv
  /\ ListInv
  /\ FreshInv
  /\ PlaceInv
  /\ TextInv
  /\ FirstInv
  /\ OrderInv
=============================================================================
