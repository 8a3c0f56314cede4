----------------------------- MODULE MisuseInv -----------------------------
(***************************************************************************)
(* The inductive invariant behind what is promised to every user of the    *)
(* runner: whatever is listed or run again, refused, shared or failing.    *)
(***************************************************************************)
EXTENDS Runner

\* Where control may be, and what exists only once a run has ended.
StepInv ==
  /\ lstate = "null" => suite = <<>>
  /\ pc # "main" => lstate = "live" /\ runs > 0 /\ i <= Len(suite) + 1
  /\ pc \notin {"main", "next"} => i \in DOMAIN suite
  /\ runs = 0 => i = 1
  /\ runs = 1 /\ pc # "main" => gstate # "freed" /\ \A t \in Tests : test[t] # "freed"
  /\ runs = 0 => gstate # "freed" /\ \A t \in Tests : test[t] # "freed"

\* A mock is in one list at one place, and it was created.
BuiltInv ==
  \A t \in Tests : \A k \in DOMAIN mocks[t] :
    /\ def[mocks[t][k]] # None
    /\ \A u \in Tests : \A n \in DOMAIN mocks[u] :
         mocks[t][k] = mocks[u][n] => t = u /\ k = n

\* The run has left the n-th mock of the k-th listed test behind.
Behind(k, n) ==
  \/ k < i
  \/ k = i /\ (pc = "teardown" \/ (pc = "restore" /\ n < j))

\* In a first run only mocks that were passed are freed.
FreedInv ==
  \A m \in freed :
    \/ runs > 1
    \/ \E k \in DOMAIN suite : \E n \in DOMAIN mocks[suite[k]] :
         mocks[suite[k]][n] = m /\ Behind(k, n)

\* The mocks that mock_apply gave a call and mock_restore has not freed.
Diverting == {m \in Mocks : call[m] # NullCall /\ m \notin freed}

\* They belong to the current test, on the side of j that is not undone.
DivertingInv ==
  status = "ok" =>
    \A m \in Diverting :
      /\ pc \in {"apply", "function", "restore"}
      /\ \E k \in DOMAIN mocks[Current] :
           /\ mocks[Current][k] = m
           /\ pc = "apply" => k < j
           /\ pc = "restore" => k >= j

\* No other mock of the current test disturbs m.
Undisturbed(m) ==
  \A k \in DOMAIN mocks[Current] :
    mocks[Current][k] # m => ~Disturbs(mocks[Current][k], m)

\* A call stays diverted to a stub that the search can find.
StubInv ==
  (status = "ok" /\ "refused" \notin said) =>
    \A m \in Diverting :
      (~Misread(def[m].mocked) /\ Undisturbed(m)) =>
        call[m] \in Span[def[m].orig] /\ text[call[m]] = def[m].mocked

\* The sites of a program that call c.
CallsTo(program, c) == {a \in Sites : program[a] = c}

\* Every diverted call is one fewer to the target and one more to the stub.
CountInv ==
  (NoMistake /\ status = "ok" /\ "refused" \notin said) =>
    /\ IsFiniteSet(Diverting)
    /\ \A c \in Callees :
         Cardinality(CallsTo(text, c)) + Cardinality({m \in Diverting : def[m].target = c})
           = Cardinality(CallsTo(image, c)) + Cardinality({m \in Diverting : def[m].mocked = c})

\* What was rewritten is a call that a mock of the current test diverts.
OwnedInv ==
  (NoMistake /\ status = "ok" /\ "refused" \notin said /\ StubsOwned) =>
    \A a \in Sites : text[a] # image[a] =>
      /\ pc \in {"apply", "function", "restore"}
      /\ \E k \in DOMAIN mocks[Current] :
           LET m == mocks[Current][k] IN
           def[m].target = image[a] /\ def[m].mocked = text[a]

\* No call is left that a mock should have taken before the one it took.
FirstOwnedInv ==
  (/\ NoMistake
   /\ status = "ok"
   /\ "refused" \notin said
   /\ StubsOwned
   /\ pc \in {"apply", "function"}) =>
    \A m \in Diverting :
      /\ image[call[m]] = def[m].target
      /\ text[call[m]] = def[m].mocked
      /\ \A b \in Span[def[m].orig] : b < call[m] => text[b] # def[m].target

MisuseInv ==
  /\ TypeOK
  /\ StepInv
  /\ BuiltInv
  /\ FreedInv
  /\ DivertingInv
  /\ StubInv
  /\ CountInv
  /\ OwnedInv
  /\ FirstOwnedInv
=============================================================================
