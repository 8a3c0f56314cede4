-------------------------------- MODULE Mock --------------------------------
(***************************************************************************)
(* Mocks: src/src/mock.c with the search (det_call_target) and the patch   *)
(* (patch_call_target) it is built from, on x86-64 and on i386.            *)
(*                                                                         *)
(* The machine code of the tested functions is abstracted to its direct    *)
(* calls: `text' maps the address of each call instruction to the function *)
(* it calls.  Span[f] are the call addresses that a linear sweep from f    *)
(* over det_function_size(f) bytes decodes; the size is a heuristic, so    *)
(* spans may overlap or miss calls.  A patch changes neither the length of *)
(* an instruction nor where functions end, so Span is constant.            *)
(***************************************************************************)
EXTENDS Guard

CONSTANTS
  Sites,      \* addresses of the call instructions
  Length,     \* Length[a]: bytes of the instruction at a
  Plain,      \* the sites whose first byte is 0xe8 (no prefix)
  Tested,     \* functions that are searched for calls
  Span,       \* Span[f]: the sites a sweep of f decodes
  Mode,       \* CS_MODE_64 or CS_MODE_32, as 64 or 32
  Callees,    \* functions that are called: natives and stubs
  Natives,    \* the callees of the program as it was linked
  Images,     \* the programs considered: which native each site calls
  Entry,      \* Entry[c]: address of callee c
  OffsetMax,  \* INT32_MAX (scaled)
  LowMax,     \* UINT32_MAX (scaled)
  MockDefs,   \* the [orig, target, mocked] triples mocks are made from
  None,       \* not created, not recorded
  Mocks,      \* mock identities, in allocation order
  AllocOutcomes  \* what calloc and cs_malloc may answer in a search

ASSUME MockAssumption ==
  /\ Sites \subseteq Nat \ {0}
  /\ IsFiniteSet(Sites)
  /\ Length \in [Sites -> Nat \ {0}]
  /\ Plain \subseteq Sites
  /\ Span \in [Tested -> SUBSET Sites]
  /\ Natives \subseteq Callees
  /\ Images \subseteq [Sites -> Natives]
  /\ Entry \in [Callees -> Nat]
  /\ \A c, e \in Callees : Entry[c] = Entry[e] => c = e
  /\ OffsetMax \in Nat
  /\ LowMax \in Nat
  /\ Mode \in {32, 64}
  /\ MockDefs \subseteq [orig : Tested, target : Callees, mocked : Callees]
  /\ None \notin MockDefs
  /\ None \notin Callees
  /\ Mocks \subseteq Nat
  /\ AllocOutcomes \subseteq BOOLEAN

VARIABLES
  image,        \* site -> callee as linked; never changes
  text,         \* site -> callee now
  def,          \* mock -> its definition, None when not created
  call,         \* mock -> the site it patched, 0x0 before mock_apply found one
  origBytes,    \* mock -> the call as found by mock_apply
  mockedBytes,  \* mock -> the call as read back after the patch
  freed,        \* the mocks that mock_restore has freed
  said,         \* the kinds of message printed on stderr, of those modelled
  status        \* "ok", or the first undefined or fatal thing that happened

mockVars == <<def, call, origBytes, mockedBytes, freed>>
mvars == <<gvars, image, text, mockVars, said, status>>

NullCall == 0

\* Those that say why a later step may fail; that a call is not found, that a
\* mock was not applied and that tests exist already is printed and forgotten.
Messages == {"refused", "not opened", "no memory"}
Faults == {"null suite", "null call", "unwritable", "freed mock",
           "freed guards", "freed test"}

MockTypeOK ==
  /\ image \in [Sites -> Natives]
  /\ text \in [Sites -> Callees]
  /\ def \in [Mocks -> MockDefs \union {None}]
  /\ call \in [Mocks -> Sites \union {NullCall}]
  /\ origBytes \in [Mocks -> Callees \union {None}]
  /\ mockedBytes \in [Mocks -> Callees \union {None}]
  /\ freed \subseteq Mocks
  /\ said \subseteq Messages
  /\ status \in Faults \union {"ok"}

-----------------------------------------------------------------------------
\* In 64-bit mode find_call_bx86 takes an address that fits in 32 bits for an
\* offset.
Misread(c) == Mode = 64 /\ Entry[c] <= LowMax

\* find_call_bx86 on the call at a: capstone reports the absolute address of
\* the callee; what is taken for an offset is added to the address of the next
\* instruction.
Decoded(a) ==
  IF Misread(text[a])
    THEN a + Length[a] + Entry[text[a]]
    ELSE Entry[text[a]]

Finds(f, t) == {a \in Span[f] : Decoded(a) = Entry[t]}

\* Deviation: a search that returns any call to the target.
IsSomeCall(f, t, a) == a \in Finds(f, t)

\* The loop of det_call_target ends at the first call of the sweep that goes to t.
IsFirstCall(f, t, a) ==
  /\ a \in Finds(f, t)
  /\ \A b \in Finds(f, t) : a <= b

\* det_call_target returns the call at a.
SearchFinds(f, t, a) == TRUE \in AllocOutcomes /\ IsFirstCall(f, t, a)

\* It returns 0x0 for want of memory, whatever there is to find: its calloc or
\* cs_malloc failed, or that of det_function_size, which then measures 0 bytes.
SearchFails == FALSE \in AllocOutcomes

\* patch_relative_bx86 accepts a plain 5-byte call whose new offset fits.
Accepts(a, c) ==
  LET offset == Entry[c] - (a + 5) IN
  /\ Length[a] >= 5
  /\ a \in Plain
  /\ -OffsetMax - 1 <= offset
  /\ offset <= OffsetMax

\* It stores the four bytes of the offset behind the opcode.
Writable(a, p) == \A page \in PagesOf(a + 1, 4) : p[page] = "rwx"

\* A null or protected page is written, or freed memory is used: from here on
\* the program is undefined and the model says nothing more.
CrashSaying(reason, messages) ==
  /\ status' = reason
  /\ said' = said \union messages
  /\ UNCHANGED <<gvars, image, text, mockVars>>

Crash(reason) == CrashSaying(reason, {})

\* guard_create asks for a page and does not get it: it says so, and the patch
\* goes on.
NotOpened(a, granted) == Matching(a, Length[a]) = {} /\ ~granted

Complaints(a, new, granted) ==
  {message \in {"not opened"} : NotOpened(a, granted)}
    \union {message \in {"refused"} : ~Accepts(a, new)}

\* What patch_call_target(call at a, new) does besides making the guard: a
\* refused patch is only reported, an accepted one is written.
Patch(a, new) ==
  IF Accepts(a, new) THEN text' = [text EXCEPT ![a] = new] ELSE UNCHANGED text

PatchCrash(a, new, granted) ==
  \/ gstate = "freed" /\ Crash("freed guards")
  \/ /\ gstate # "freed"
     /\ Accepts(a, new)
     /\ ~Writable(a, ProtAfterCreate(a, Length[a], granted))
     /\ CrashSaying("unwritable", Complaints(a, new, granted))

\* Deviation: what the comment at the end of patch_call_target says, "close the
\* guard", is done, but the list keeps the guard.
PatchAndClose(a, new, granted) ==
  /\ gstate # "freed"
  /\ Accepts(a, new) => Writable(a, ProtAfterCreate(a, Length[a], granted))
  /\ prot' = Protected(PagesOf(PageAlignDown(a), Length[a]), "rx")
  /\ guards' = GuardsAfterCreate(a, Length[a], granted, TRUE)
  /\ gstate' = "live"
  /\ Patch(a, new)
  /\ said' = said \union Complaints(a, new, granted)
  /\ UNCHANGED <<lost, image, status>>

PatchCallTarget(a, new, granted) ==
  /\ GuardCreate(a, Length[a], granted)
  /\ Accepts(a, new) => Writable(a, ProtAfterCreate(a, Length[a], granted))
  /\ Patch(a, new)
  /\ said' = said \union Complaints(a, new, granted)
  /\ UNCHANGED <<image, status>>

-----------------------------------------------------------------------------
\* tapi_mock_create: a zeroed structure with its three functions.
MockCreate(m, d) ==
  /\ def[m] = None
  /\ \A n \in Mocks : n < m => def[n] # None
  /\ def' = [def EXCEPT ![m] = d]
  /\ UNCHANGED <<gvars, image, text, call, origBytes, mockedBytes, freed, said, status>>

MockApply(m) ==
  \/ /\ m \in freed
     /\ Crash("freed mock")
  \/ /\ m \notin freed
     /\ TRUE \in AllocOutcomes
     /\ Finds(def[m].orig, def[m].target) = {}
     /\ UNCHANGED mvars
  \/ /\ m \notin freed
     /\ SearchFails
     /\ said' = said \union {"no memory"}
     /\ UNCHANGED <<gvars, image, text, mockVars, status>>
  \/ /\ m \notin freed
     /\ \E a \in Sites, granted \in MprotectOutcomes :
          /\ SearchFinds(def[m].orig, def[m].target, a)
          /\ \/ PatchCrash(a, def[m].mocked, granted)
             \/ /\ PatchCallTarget(a, def[m].mocked, granted)
                /\ call' = [call EXCEPT ![m] = a]
                /\ origBytes' = [origBytes EXCEPT ![m] = text[a]]
                /\ mockedBytes' = [mockedBytes EXCEPT ![m] = text'[a]]
                /\ UNCHANGED <<def, freed>>

\* Deviation: mock_restore without its first test.
NeverUnapplied(m) == FALSE

\* The test of mock_restore: mock_apply never found a call for m.
Unapplied(m) == call[m] = NullCall

\* tapi_mock_restore looks for the first call to the stub again; it does not
\* use mock->call or mock->orig_bytes, and it does not test what it found.
MockRestore(m) ==
  \/ /\ m \in freed
     /\ Crash("freed mock")
  \/ /\ m \notin freed
     /\ Unapplied(m)
     /\ UNCHANGED mvars
  \/ /\ m \notin freed
     /\ ~Unapplied(m)
     /\ TRUE \in AllocOutcomes
     /\ Finds(def[m].orig, def[m].mocked) = {}
     /\ Crash("null call")
  \/ /\ m \notin freed
     /\ ~Unapplied(m)
     /\ SearchFails
     /\ CrashSaying("null call", {"no memory"})
  \/ /\ m \notin freed
     /\ ~Unapplied(m)
     /\ \E a \in Sites, granted \in MprotectOutcomes :
          /\ SearchFinds(def[m].orig, def[m].mocked, a)
          /\ \/ PatchCrash(a, def[m].target, granted)
             \/ /\ PatchCallTarget(a, def[m].target, granted)
                /\ freed' = freed \union {m}
                /\ UNCHANGED <<def, call, origBytes, mockedBytes>>

MockInit ==
  /\ GuardInit
  /\ image \in Images
  /\ text = image
  /\ def = [m \in Mocks |-> None]
  /\ call = [m \in Mocks |-> NullCall]
  /\ origBytes = [m \in Mocks |-> None]
  /\ mockedBytes = [m \in Mocks |-> None]
  /\ freed = {}
  /\ said = {}
  /\ status = "ok"

-----------------------------------------------------------------------------
\* The bytes written at a are on pages that the guard for a stands for, be it
\* the entry guard_create appends or one it finds.  A call that straddles a
\* page boundary fails this.
WithinGuard(a) ==
  \A base \in {a, PageAlignDown(a)} : PagesOf(a + 1, 4) \subseteq PagesOf(base, Length[a])

\* How the library is meant to be used, and a machine that cooperates: calls
\* are plain, within one page and within reach of every callee; a 64-bit
\* program is position independent (every address is above 4 GB); a stub stands in
\* for one function and is not itself called or mocked; mprotect succeeds, and
\* so do the allocations of a search.  Lists may fail to grow all the same.
Disciplined ==
  /\ MprotectOutcomes = {TRUE}
  /\ AllocOutcomes = {TRUE}
  /\ \A c \in Callees : ~Misread(c)
  /\ \A a \in Sites : WithinGuard(a) /\ \A c \in Callees : Accepts(a, c)
  /\ \A d \in MockDefs : d.target \in Natives /\ d.mocked \notin Natives
  /\ \A d, e \in MockDefs : d.mocked = e.mocked => d.target = e.target
=============================================================================
