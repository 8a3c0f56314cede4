# Verification of tapi

tapi is a C library for unit tests whose mocks are made by rewriting call
instructions in the running program, and which can capture what a program prints. This directory holds
TLA+ models of it, the TLC configurations that check them on small instances,
and theorems that the TLA+ proof system proves for instances of every size.
Line numbers such as `mock.c:86` refer to the repository's `src/` and
`include/tapi/` directories.

## The system

| component | state | operations | used by |
|---|---|---|---|
| test runner, `tapi.c` | the static list `l_tests`, each test's mocks and result, the loop positions and pass counter of `tapi_test_run` | make, add_mock, add, setup, run, destroy | the user |
| mocks, `mock.c` | per mock: the functions, the call it patched, the bytes before and after | create, apply, restore | the runner |
| call search, function size, `int/det.c` | none (capstone handles and the flags of the sweep are local) | `det_function_size`, `det_call_target` | mocks |
| patch, `int/patch.c` | the program's machine code | `patch_call_target`, one encoder per architecture | mocks |
| guards, `int/guard.c` | the static list `guards`, page protections | `guard_create`, `guard_cleanup` | patch, runner |
| signatures, `int/sig.c` | none | `sig_compare`, prologue and epilogue tests (ARM) | call search |
| dynamic array, `dyna.c` | block, length, capacity | create, make, push, pop, get, shrink, free, two loops | runner, guards, user |
| captures and sinks, `capture.c`, `sink.c` | descriptors, a pipe, a buffer or stream | make, end, destroy; make, setdbf, setdfp, destroy | the user |
| entry points and architecture, `int/entry.c`, `int/arch.c` | none | none at run time | |

There is one thread and no lock. What makes the library hard is elsewhere:

- **Callbacks.** A run calls setup, the test function and teardown; each may add
  tests and mocks to the very lists the run is walking.
- **Heuristics.** Nothing in the binary says where a function ends. The size is
  the sum of instructions up to something that looks like an end: branches and
  a `leave` on x86, texts that match the signatures of prologues and epilogues on ARM.
- **Shared machine code.** All mocks of a test patch the same calls. Restoring
  a mock does not go back to where it was applied: it searches again, for the
  stub. The extent of a function is a guess, so two functions may compete for
  a call.
- **Shared pages.** Guards are per page, calls share pages or straddle them,
  requests are compared with aligned addresses before they are aligned.
- **Partial failure.** A call not found, a patch refused, an `mprotect`,
  `realloc`, `pipe` or `dup2` that fails: the code goes on in most cases, with
  some of its state changed.
- **Lifetimes.** `mock_restore` frees the mock, `guard_cleanup` frees the list
  but keeps the pointer, `tapi_test_destroy` frees some things and not others.
- **One thread at both ends of a pipe.** A capture writes to a pipe that only
  its own later `tapi_capture_end` reads.

What makes the parts correct:

- guards: a page is writable exactly while the list knows it, or because the list
  had no memory for its guard; cleanup closes all the others;
- signatures: an instruction is a prologue or an epilogue exactly when a signature fits it;
- call search: a call of the function is missed, and one of its neighbour taken,
  only when the code before it looks in a certain way;
- mocks and runner: the first calls of the named function are diverted while
  the test function runs, and before anything else runs, the program is as it
  was; nothing is used after it was freed; a run ends; the count is right;
- array: it is a list, under every allocation failure and inside its loops;
- captures: bytes go to the innermost capture or to the file, in
  order; ending a capture returns and restores the stream.

`PROJECT.json` lists the hazards line by line with the property that answers
each, and maps every definition to the lines it stands for.

## Modules

```
 List      <- Dyna           Redirection <- Capture     (<- : implemented by)
              DynaProofs                    CaptureProofs
 Isolation <- Runner EXTENDS Mock EXTENDS Guard
              RunnerInv (inductive invariant) EXTENDS Runner
              MCSuites, MCRunner: instances for TLC
              RunnerProofs
              MisuseInv (the same for any user) EXTENDS Runner
              MisuseProofs
 GuardProofs EXTENDS Guard: lemmas
   RunnerProofs EXTENDS RunnerInv, GuardProofs
   MisuseProofs EXTENDS MisuseInv, GuardProofs
 PatchArm; MCPatchArm;  PatchArmProofs
 SignatureLists EXTENDS Signatures;  MCSignatures;  SignatureProofs
 Sweep; MCSweep;  SweepProofs
```

**Guard** is `guard.c`, posix build. `prot` is the kernel's page protection,
`guards` the list and `gstate` the static pointer, which `guard_cleanup` leaves
dangling ("freed"). `guard_create` and `guard_cleanup` are operators, because
the code calls them from inside `patch_call_target` and `tapi_test_run`.
`Matching` keeps the code's comparison of the raw request with the aligned
entry. `Pushed` is `tapi_dyna_push` on a list that is never popped, so that its length
tells whether it is full; when `realloc` then fails the item is dropped without an answer. For a
guard this happens behind an `mprotect` that was granted (guard.c:129): the page stays
writable and nobody knows it. `lost` is the history of these pages. The module has no specification of its own: the
only callers are `patch_call_target` and `tapi_test_run`, under which it is checked and proved about.

**Mock** is `mock.c` with `det_call_target` and `patch_call_target` on x86-64 and
i386 (`Mode`, the word size; i386 programs with addresses below 2 GB).
`text` maps each call instruction to its callee; `image` is the program as
linked, and a run of TLC covers a set of images. `SearchFinds` is the search: the first call
to the target, with the reading of small absolute addresses as offsets (`Decoded`, det.c:227). `SearchFails` is
its answer 0x0 for want of memory, whatever there is to find: a failed `calloc` or `cs_malloc`, or a failed
`det_function_size`, after which no byte is searched. `mock_apply` then reports a call not found,
`mock_restore` uses the null pointer. `PatchCallTarget` is guard, encoding tests, store. A refused patch is only
reported, as in the code. Undefined behaviour (a null call, a write to a
protected page, freed memory) ends the behaviour in a `status` that names it:
the model never guesses what follows.

**Runner** is `tapi.c`. `pc`, `i` and `j` are the control of `tapi_test_run`;
each round of each loop is an action that reads the length again, as
`DYNA_FOREACH_IT` does. A push of a test or a mock that fails leaves the list as it was. `UserPoints` says at which callbacks user code runs the
building functions. **Isolation** is its abstract specification: borrow the
code, divert calls that are still the program's own, run, undo one call at a
time, return.

**PatchArm** is the part of the search and of `patch.c` that Mock, an x86 model,
does not contain: how ARM32, Thumb and AArch64 calls are compared, tested and
encoded. One call goes through `mock_apply` and `mock_restore` again and again;
`Callee` is the architecture's own reading of the instruction (marked external),
so that what the encoders write is judged by where it leads. Field widths are
constants.

**Sweep** is how the extent of a function is guessed and used: the loop of
`det_function_size` with its flags (`found`, `starting`, `pads`), then that of
`det_call_target` over the bytes it answered. The code is a sequence of kinds of
instructions, the function's own, padding, and the function the linker put
behind. Kinds are what the code asks capstone or the signatures for, so an
indirect jump, which the code asks nothing about, is "plain". Mock takes the answers of Sweep as
a constant, the spans of its functions, of which some overlap.

**Signatures** is `sig.c`: the loop over the signatures of both lists and, in it,
`sig_compare` with its two pointers; every comparison formats the instruction
anew and may fail for want of memory. Lists and text are parameters.
**SignatureLists** has the lists of `sig.h`, in words instead of characters, and
what they amount to. `TextsAssumption` says what a disassembler writes.

**Dyna** is `dyna.c` and the two loop macros: cells, capacity, `realloc` that
may fail and may answer `realloc(p, 0)` in the two ways C allows, and loop
bodies that change the array. **List** is what it implements.

**Capture** is `capture.c` and `sink.c` over a small model of descriptors,
pipes and stream buffers (marked external). `tapi_capture_end` is `End`, one
`DrainChunk` per read, `DrainEmpty`/`Finish`. `given` and `disorder` are
history: what a sink was given, and whether captures of a stream were ended in
another order than last in, first out. **Redirection** is what it implements.

A definition whose comment begins with *Deviation* is not the code: it is the
code with a plausible bug, named in `PROJECT.json` under "mutants". Replacing
the definition it deviates from must make TLC find the property violated.

## Runs

| run | instance | shows |
|---|---|---|
| `runner` | every suite of 2 tests and 3 mocks, built before the run and inside test functions; 3 programs, 3 calls, 2 pages, overlapping sweeps; lists that may fail to grow from their second item on | isolation (refinement), exact restores, first calls diverted, no fault, no page left open but those of lost guards, the run ends; `IInv` is an invariant |
| `misuse` | tests listed and run twice, stubs that are shared, mocked themselves, out of reach or below 4 GB, a straddling call, failing `mprotect`, searches without memory, two runs, callbacks that build; 2 tests, 2 mocks, 3 calls of two functions with overlapping sweeps, two programs | which misuse explains which fault; isolation for tests whose mocks own their stubs; callees conserved; open pages accounted for; aligned calls writable even when only counted; the count exact; `MisuseInv` is an invariant |
| `shared_stub` | 1 test, 2 mocks, 1 stub, 2 targets | *violated*: calls are what they were after the test |
| `patch_arm` | every call instruction with 4-bit offset fields (reach 32 bytes), 3 addresses, every stub in a space of 128 bytes that wraps | a patched call reaches its stub; restored bit for bit unless a Thumb `blx`; Thumb always gives back; which calls are lost |
| `patch_arm_range` | the same, ARM only | *violated*: a diverted call is restored |
| `signatures` | every signature of up to 4 characters over 2 letters and `?`, before or after a short one, pairs of short prologues, texts of up to 4 letters; the lists of `sig.h` against instructions with up to 4 registers and `lr` or `pc` | an instruction is classified by whether a signature fits it; no read passes the end of a string or list; the check answers; what the lists of `sig.h` recognise |
| `signature_docs` | signatures and texts of up to 3 characters | *violated*: k times `?` stands for 1 to k characters, and `push {fp, ...}` is a prologue |
| `sweep` | every well-formed function of up to 4 instructions on x86, ARM and AArch64, 3 or 4 paddings, 2 or 3 neighbours; sizes 1 and 2 with `MaxSize` 7 | when the first call is missed, when the neighbour's is taken |
| `dyna` | 2 items, first capacity 2, length at most 3 | the array is a list; the loops visit what they should under bodies that push, pop and shrink |
| `dyna_shrink` | the same | *violated*: the process exits only after a failure |
| `capture` | 2 captures, 2 streams (1 buffered), 1 sink, 4 bytes of which one is `'\0'`, pipe of 3, reads of 2, buffers of 1 | redirection (refinement), sink text, streams restored, hangs explained, draining ends |
| `capture_eof` | the same | *violated*: `read` never waits for itself |

Bounds, and why they suffice. Two tests show interference between tests and
with one added while another runs. Two calls that can be patched, in programs that call the same
function twice or two different ones, are what it takes for a restore to find another mock's call
(with one, calls could not be exchanged, and `CalleesConserved` had nothing to count). Three mocks over two functions, in `runner`, allow
two mocks of one target, a mock of the callee the sweeps share, and a shared
stub in one test; more mocks repeat these pairs, and the invariant that is
proved relates two mocks at a time. A list is full at 16, 32, 64... items; in `runner` (`FullLengths`) 1 stands for 16, so that
the second test, mock and guard may fail to be listed and the next push may fail or succeed. `mprotect` and searches fail in `misuse` only, and
pushes in `runner` only, which keeps both instances small; what is proved holds for all of it together. Page numbers
and addresses scaled by 2^16 (`OffsetMax`, `LowMax`) keep the relations between
addresses that the code tests; no sweep spans more than the 4096 bytes that det.c:432 allows. The fields of `MCPatchArm` have the ratio to the
limits that the code has, and all their values occur. Four characters hold a run
of `?` with letters on both sides, two runs, and a letter that occurs twice, which
is where a matcher without backtracking could go wrong. Four instructions reach every
flag of the sweep in both values, three pads, and, with the scaled sizes, `MaxSize`. `First` = 2 and length 3 pass through
growth, refusal, shrinking to an odd capacity and to nothing. A pipe of 3 with
reads of 2 and a buffer of 1 reach a full pipe, a second read, a full sink and
a dropped rest. `MaxRuns`, `MaxSuite`, `MaxMocks`,
`MaxLength` and `MaxBytes` are the bounds in guards. Deadlock is not checked:
a user may stop calling the library at any time.

Fairness. `FairSpec` of Runner has weak fairness of `RunStep` and Capture of
`Drain`: once the library's loop is entered, the processor goes on executing
it, and a test function that is called returns (a user whose callback loops
has no claim). Building and calling the library carry no fairness. `RunEnds`
assumes bounded building: a callback that adds tests for ever keeps the run
going for ever, in the code as well. Signatures is one call of `sig_aarch64_chk`
or `sig_armhf_chk`; weak fairness of `Next` says that the processor goes on with it.

## Discipline

The properties of the run `runner` are about users and machines that `Disciplined` (Mock)
and `DisciplineAssumption` (RunnerInv) describe: a position-independent program, calls
that are plain `e8` within a page and within reach, a stub stands for one
function and is not itself mocked, `mprotect` succeeds, the allocations of `det_call_target` and `det_function_size` succeed
(`AllocOutcomes`), no test is listed
twice, one run. That lists grow is not assumed: a push may fail at any time, and a test or mock that was not listed is not run or applied. The repository's own tests are of this kind. Each
condition is needed for `NoFault`: `misuse` and `shared_stub` show what happens without it. In `misuse` each
way to die but the null suite has a property that lists its causes: `NullCallExplained`, `UnwritableExplained` and `SecondUseExplained`. What is not claimed there is what
a test leaves behind after a refused patch. Isolation needs less. `IsolatedIfStubsOwned` asks of each test, by itself, that
its mocks own their stubs: within a test no stub stands for two functions, is itself mocked, or is called by the
function already. Different tests may use one stub for different functions, and may be listed and run again. The properties of `misuse` assume no discipline: they name,
in their own hypotheses, the event that excuses the code (`Misread`, `NoMistake`,
`Disturbs`, a refused patch, an `mprotect` or a search that failed, a second use). All instances share `MockAssumption`: a program has
finitely many calls and different functions have different entries.

## Proofs

`GuardProofs` has the lemmas about `guard_create` and `guard_cleanup`, for every page size, set of pages,
list and outcome of `mprotect` and `realloc`: what they leave is of its type, `OpenPagesListed` is kept, a creation only opens pages and
a cleanup closes those of all guards. They are used twice, under the runner and under its misuse. `OpenPagesListed`
needs no strengthening beyond types, but it needs `lost`: without it the failing push of guard.c:129 refutes it, and with it
says that this is the only way to an open page that cleanup does not find.

`RunnerProofs` proves, for every program, span, suite and number of mocks under the
discipline: `[]IInv`, and from it `TypeOK`, `OpenPagesListed`,
`CleanBetweenTests`, `NoFault`, `FirstCallsDiverted`, `CleanupClosesAll`,
`RestoreUndoesApply` and that `Runner` implements `Isolation`. `IInv` has these
parts:

- `ControlInv`, `ListInv`: where control may be, and that no mock is listed twice,
  so that no loop meets a freed mock;
- `FreshInv`, `PlaceInv`: apply meets only untouched mocks, and a mock whose call
  is diverted is one of the current test on the side of `j` still to be undone;
  a mock added by the running test is fresh and is only reported;
- `TextInv`: the code differs from the program exactly at the calls of active
  mocks, one call each;
- `FirstInv`, `OrderInv`: the argument proper. A search always takes the first
  call, so no call to a target is left before a diverted one, and of two
  mocks that share a stub the one applied first holds the lower call. Restoring in
  the same order, the search for the stub finds each mock's own call although
  the code never looks at where it was applied. Without `OrderInv` the
  invariant is not inductive: a restore might take a later mock's call.

The first part of the module holds the facts about searches, patches and single steps. Every
definition `IInv` rests on was first checked by TLC in the run `runner`.

`MisuseProofs` assumes no discipline. For every program, span, suite and sequence of uses, however
often tests are listed or run, it proves `[]MisuseInv` and from it `CalleesConserved`, `IsolatedIfStubsOwned`,
`NullCallExplained`, `SecondUseExplained` and `PassedExact`. The parts of `MisuseInv`:

- `StepInv`, `BuiltInv`: what exists only once a run has ended, and that a mock is in one list
  at one place (`tapi_test_add_mock` is called once with what `tapi_mock_create` returned);
- `FreedInv`: in a first run a freed mock is one that the loops have left behind, so only
  a second entry or a second run can meet it. This is the argument of `SecondUseExplained`;
- `DivertingInv`: a mock that was given a call and is not freed belongs to the current test, on
  the side of `j` that is not undone. Between tests there is none;
- `StubInv`: unless another mock of the test disturbs it, such a mock's call still goes
  to its stub, so that the search at restore finds something (`NullCallExplained`);
- `CountInv`: the argument of `CalleesConserved`. A search may take another mock's call, but
  what it rewrites went to the function it looked for. So for each callee, the sites that call it now
  plus the unfreed mocks that target it are as many as the sites that called it when linked plus
  the unfreed mocks that divert to it. When no mock is left, the counts are equal;
- `OwnedInv`: where stubs are owned, a call that is not as linked goes from the target to the stub of a mock of the current
  test. A restore finds *a* call to its stub, and what it gives back is what was linked, because mocks that share
  the stub share the target and the function has no call to the stub of its own. So no order of restoring is needed, unlike
  in `IInv`. When the last mock is restored no call is left rewritten, by `CountInv`: no mock of the test targets
  the stub of such a call, so with nothing diverted the call to the stub would be one more than was linked;
- `FirstOwnedInv`: where stubs are owned, until restoring begins, an unfreed mock's call goes from its target to its stub and
  the mock's function has no call to the target before it.

`IsolatedIfStubsOwned` is then read off. A user and a machine that are `Disciplined` keep the rule and are refused
nothing (`NeverRefused`), so `CleanBetweenTests` holds of them also when tests are listed twice and run again
(`CleanThroughEveryRun`); the other conditions of the run `runner` are for `NoFault`. Of the
pages the module proves, from the lemmas of `GuardProofs`, that every step either requests a guard, cleans up at the end of a run or leaves
guards alone (`GuardStep`), hence `OpenPagesListed` and `CleanupClosesAll` for every misuse,
that pages are closed at the end of a run only (`RunsOnlyCloseAtTheEnd`), and that a call on a page boundary, the only one that `guard_create` may
answer by counting, is writable all the same (`AlignedCallsAreWritable`). `UnwritableIsExplained` looks at the one step that meets a protected page: there
`guard_create` either opened the page a moment ago, or counted an entry whose page `OpenPagesListed` says is open; so
`mprotect` was refused and said so, or the call straddles.

`PassedExact` adds its own conjunct (`Counted`): the counter is the number of places of the suite behind the
loop whose test has passed, and what a callback appends is not behind it.

The proof found an earlier form of these properties wrong. It excused a null call only when
two mocks of a test shared a stub. In a program whose calls all go to `A`, one test may mock `A` by `B`
and `B` by `S`: the second mock takes the call that the first diverted, the restore of the first finds no call to `B`, and
nothing is shared. `HardImages` has such a program since, on which TLC shows it. `Disturbs` says when
another mock of the test matters; `NoMistake` and `Misread` do so for the addresses below 4 GB that
det.c:227 takes for offsets.

`SignatureProofs` proves, for all lists, signatures and texts: `SigTypeOK`, which
is that no pointer passes the end of its string, and `Classified`, which the
run checks as `ClassifiedSmall` where alignments can be enumerated. `Classified`
says "there is an assignment of the signature's characters to places of the text";
the matcher tries only one. The invariant is `Compared`: no earlier signature
fits, and any assignment that fits puts the current character of the signature at
the current place of the text (`ComparedTo`). It is kept because a run of `?` may not
hold the letter that follows it, so the first occurrence of that letter is the
only place it can have.

From `Classified` follows `ListsDecide`, for any text that a disassembler writes (`TextsAssumption`: one brace, that
closes a register list; two registers and a place for a pair; no operand for a hint). So
whatever the number of registers, of the 36 signatures of armhf only the shortest of each opcode matter. A signature that
fits begins as the text does (`FitsStart`), which refutes all of another opcode or another first
character of a register; and where the beginning agrees an alignment of the shortest is given (`ListFits`, `PairFits`).

`SweepProofs` proves, for every code, every size of instructions and every `MaxSize`:
`SweepTypeOK`, `MissExplained` and `ForeignExplained`. The flags of the loop are first
tied to the code that was read (`Flags`: `found` on x86 is `Behind`, on ARM the
instruction before is an epilogue, `pads` counts nops), then what was read without ending
does not look like an end, and where the measure ended one thing did
(`EndedAt`). The bytes are related to the instructions by the sums that both loops
add up (`Swept`): the second loop stops short of a call only where the first did.

`DynaProofs` proves, for every first capacity, every length, every outcome of `realloc` and
every loop body: `DynaTypeOK`, `NullExplained`, `ForwardVisitsAll`, `BackwardVisitsAll` and
that `Dyna` implements `List`. The array is a list because the listed cells were all written
(`Written`); the loops are tied to what they visited by one invariant each: unless its body popped
something seen, a forward loop has visited exactly the cells up to its cursor (`ForwardLoop`); unless its body
popped something ahead, a backward loop has its cursor within the list and, below it, the
cells as they were when it began (`BackwardLoop`).

`CaptureProofs` proves, for any streams, captures and sinks, and for pipes, reads and
buffers of every size: `CaptureTypeOK`, `SinkShowsPrefix`, `HangExplained`, `StreamsRestored`
and that `Capture` implements `Redirection`. The invariant has four parts beyond types:

- `LifeInv`, `LinkInv`: which descriptors a capture has in each phase, and that a descriptor
  leads to its own stream's file or to an earlier capture of that stream, never to
  the pipe being read;
- `StackInv`: while captures are ended last in, first out, those of a stream form a stack, each
  leads to an open one and no two lead to the same. This is what makes `End` restore what
  was there before, and why a `read` always comes to the end of the file;
- `PipeInv`: what pipes hold are bytes that the program wrote, each in one place. Because the
  pipe a chunk is printed to is not the one it was read from, both together hold no more
  than was written (`TwoPipes`, by the pigeonhole principle), which bounds when a write
  can block;
- `SinkInv`: the buffer holds what was given up to the first `'\0'`, and a `'\0'` behind it, although
  `length` counts more than was copied. It is kept by the way `strncpy` pads.

`PatchArmProofs` proves, for all widths of the offset fields, addresses, calls and stubs, and for
any number of rounds of `mock_apply` and `mock_restore`: `PatchArmInv`, and from it
`AppliedReachesStub`, `RestoredUnlessBlx`, `ThumbGivesBack` and `LostExplained`. The
invariant adds to types that an ARM call keeps its operation and that only the apply of the current
mock was refused; the work is arithmetic. Quotient and remainder of a division are
unique, hence two's complement is the one number of its range that is congruent (`Signed`), an offset
reduced to a field of words is recovered from it when the test let it pass, and the digits
that `patch_relative_barmth` cuts from a Thumb offset are those that `ThumbOffset` puts together, sign
and inverted `j1`, `j2` included. Conversely a field is determined by what the call
reaches, which is why a restored call is the linked one bit for bit. What is assumed of the constants
(`PatchArmAssumption`) is what the architecture has: even field sizes, a range test no
wider than the field, calls and pointers aligned for their instruction set, and an address space
at least as wide as the reach. On AArch64 a pointer is a multiple of 4 (`IsPointer`).

Three of these modules need a least number with a property. Induction schemes are out of the prover's
reach, so each derives it from `WFMin` on the naturals (`NatMin`).

Only model-checked: the liveness properties `RunEnds`, `DrainEnds` and `Answers`. Fairness and `ENABLED` are
out of the prover's reach, and so is induction over a measure. What makes the loops end is proved as
action properties: each step of a loop goes forward in something that has an end.

- `SweepsEnd`: a natural number, at most `2 * MaxSize + 3`, falls with every step of the two loops of a search;
- `ReadsShorten`: every round of `tapi_capture_end` shortens the pipe it reads. A stream sink
  prints meanwhile, and that it never prints into this pipe is `LinkInv`;
- `ComparisonsGoOnward`: every step of a check ends it, turns to the next signature or moves on in the one it is at.
  A `?` that stood still would be a matcher that hangs; the ends are those of `SignatureTypes`;
- `RunsGoOn`: every step of a run goes on through the six points of a test, or through a list that has not ended,
  and no user step turns it back. Only callbacks that add for ever keep a run going.

## Where code and documents disagree

- `guard.c:108`: a request that straddles a page leaves its tail protected, while
  guard.h speaks of "the length of bytes to be protected". `UnwritableExplained` says
  that other calls are safe; in `misuse` a straddling call is one that faults.
- `mock.c:86`: two mocks of a test that share a stub for two targets exchange the
  calls for every later test (`shared_stub`).
- `patch.c:108`: the range test bounds bytes by the limit of a field of words, 8 MB
  where the comment says 32 MB (and 64 for 128 at `patch.c:218`); a call diverted from beyond it
  is never given back (`patch_arm_range`).
- `tapi.c:147`: "frees all of its elements, including mocks"; a mock that found no
  call is freed by nobody (`tapi_mock_restore` frees only on its way to the end).
- `dyna.c:134`: shrinking an empty array ends the process on the answer null of
  `realloc(p, 0)` (`dyna_shrink`).
- `sig.c:77` and the comment above it, repeated in sig.h: k times `?` are said to stand for 1 to k characters. They
  stand for any number, none included, up to the first occurrence of the character
  that follows (`Classified`), and the first occurrence is final; at the end of a signature they take all that is left, so the
  `max of #0xffff` of sig.h:73 is no bound either (`signature_docs`).
- `sig.h`: register lists that begin with `fp` or `lr` fit no signature, although
  det.c:131 speaks of "push {fp, ...}" (`signature_docs`), and neither does the usual end of an AArch64
  function, `ldp x29, x30, [sp], #16` (`ListsDecide`). On ARM32 a `sub sp` after a first
  instruction that is no prologue counts as the start of the next function and ends the
  measure (`LooksLikeEnd`).
- `capture.c:88`: "close writer side so pipe will hit EOF" closes nothing; nested
  captures of one stream ended outer first wait for ever (`capture_eof`).

## What is left out

- Windows branches; i386 programs with addresses of 2 GB or more.
- Sweep and the runner together: spans are constants of Mock and may be any sets, so
  what is proved of the runner holds whatever the heuristic answers.
- The tests for padding behind an ARM epilogue at det.c:165-178, which no instruction
  can pass: the same instruction would have to be an epilogue and a `nop`.
- PatchArm and the runner together: guards and several calls are Mock's, in whose
  place PatchArm has one call and no pages.
- Calls through the PLT or relative to `rip`: the search does not see them either.
- `mock_apply` and `mock_restore` called by the user directly, and a run started inside a
  callback. `calloc` returning null in make and create functions and in `guard_create`, which no code tests.
- A count of writes: `Redirection` says where bytes go, in which order, and that what a capture holds is handed over
  once. It lets a program write any byte at any time, so it does not relate what
  arrives to single writes. In the same way `List` allows a
  push to leave the array as it was, as the code does when it has no memory.
- The reuse of a freed address by a later allocation: a freed object keeps its identity.
- A `read` that fails in `tapi_capture_end` (reported, then as at end of file),
  and the memory stream of `tapi_sink_setdbf`, which nothing uses.
- `assert`s on null arguments are preconditions. Of the messages only those are kept, as a set, that
  say why a later step may fail (`said`); colours, counts and layout of the printed lines are not modelled.

## Plan

What may still be added:

1. Composition of Capture with Runner if an assertion that leaves a capture open can be
   given a property the documents support.
2. A property of the run as a whole under `IsolatedIfStubsOwned`: a refinement of `Isolation` for tests whose mocks own their
   stubs, which needs an abstract specification that survives a fault.
