--------------------------- MODULE CaptureProofs ---------------------------
(***************************************************************************)
(* Captures over any number of streams, sinks and captures, pipes and      *)
(* reads of any size: what is redirected where, what a sink shows, and     *)
(* why the only thread can be stopped.                                     *)
(***************************************************************************)
EXTENDS Capture, WellFoundedInduction, FiniteSetTheorems, SequenceTheorems, TLAPS

\* Every set of natural numbers but the empty one has a least element: what
\* is known of `<' as a well-founded relation, for one set.
LEMMA NatMin ==
  ASSUME NEW set \in SUBSET Nat, set # {}
  PROVE  \E least \in set : \A n \in set : least <= n
  <1> DEFINE Less == {pair \in Nat \X Nat : pair[1] < pair[2]}
  <1>1. IsWellFoundedOn(Less, Nat)
    BY NatLessThanWellFounded DEF OpToRel
  <1>2. PICK least \in set : \A n \in set : ~(<<n, least>> \in Less)
    <2> HIDE DEF Less
    <2> QED BY <1>1, WFMin
  <1>3. \A n \in set : least <= n
    <2> TAKE n \in set
    <2>1. <<n, least>> \in Nat \X Nat OBVIOUS
    <2>2. ~(n < least) BY <1>2, <2>1
    <2>3. n \in Nat /\ least \in Nat OBVIOUS
    <2> QED BY <2>2, <2>3
  <1> QED BY <1>3

\* What the phase of a capture says of its descriptors.
LifeInv ==
  \A c \in Captures :
    /\ phase[c] \in {"none", "ended"} => saved[c] = Closed /\ c \notin reader
    /\ phase[c] # "none" => source[c] \in Streams /\ source[c] \notin buffered /\ target[c] \in Sinks
    /\ phase[c] = "capturing" /\ draining # c => saved[c] # Closed
    /\ draining = c => phase[c] = "capturing" /\ saved[c] = Closed
    /\ saved[c] # Closed => c \in reader

\* A descriptor leads to its own stream's file or to a capture of that stream
\* that was made before, and never to the one that is being read.
LinkInv ==
  /\ \A s \in Streams :
       /\ s \in buffered => fd[s] = s
       /\ fd[s] # s => fd[s] \in Captures /\ source[fd[s]] = s /\ phase[fd[s]] # "none"
       /\ fd[s] # draining
  /\ \A c \in Captures :
       saved[c] # Closed /\ saved[c] # source[c] =>
         /\ saved[c] \in Captures /\ saved[c] # c
         /\ source[saved[c]] = source[c] /\ phase[saved[c]] # "none"

\* While captures are ended last in, first out, those of a stream are a stack:
\* each leads to an open one, and no two descriptors to the same.
StackInv ==
  ~disorder =>
    /\ \A s \in Streams : fd[s] # s => saved[fd[s]] # Closed
    /\ \A c \in Captures : saved[c] \in Captures => saved[saved[c]] # Closed
    /\ \A s \in Streams, c \in Captures : fd[s] \in Captures => saved[c] # fd[s]
    /\ \A c, d \in Captures : saved[c] \in Captures /\ saved[c] = saved[d] => c = d

DescInv == LifeInv /\ LinkInv /\ StackInv

descVars == <<fd, buffered, phase, source, saved, reader, target, draining, disorder>>
-----------------------------------------------------------------------------
\* At the start every descriptor leads to its own file.
LEMMA InitDesc == ASSUME Init PROVE DescInv
  <1>1. LifeInv BY CaptureAssumption DEF Init, LifeInv
  <1>2. LinkInv BY CaptureAssumption DEF Init, LinkInv
  <1>3. StackInv BY CaptureAssumption DEF Init, StackInv
  <1> QED BY <1>1, <1>2, <1>3 DEF DescInv

\* A new capture becomes the top of its stream's stack.
LEMMA MakeDesc ==
  ASSUME CaptureTypeOK, DescInv, NEW c \in Captures, NEW k \in Sinks, NEW s \in Streams, Make(c, k, s)
  PROVE  DescInv'
  <1>1. CASE UNCHANGED <<streamVars, captureVars>>
    BY <1>1 DEF Make, streamVars, captureVars, DescInv, LifeInv, LinkInv, StackInv
  <1>2. CASE /\ phase' = [phase EXCEPT ![c] = "capturing"]
             /\ source' = [source EXCEPT ![c] = s]
             /\ target' = [target EXCEPT ![c] = k]
             /\ saved' = [saved EXCEPT ![c] = fd[s]]
             /\ reader' = reader \union {c}
             /\ fd' = [fd EXCEPT ![s] = c]
             /\ buffered' = buffered \ {s}
    <2>1. phase[c] = "none" /\ draining = None /\ UNCHANGED <<draining, disorder>>
      BY DEF Make, Idle
    <2>2. /\ fd \in [Streams -> Streams \union Captures] /\ phase \in [Captures -> {"none", "capturing", "ended", "freed"}]
          /\ saved \in [Captures -> Streams \union Captures \union {Closed}]
          /\ source \in [Captures -> Streams \union {None}]
          /\ target \in [Captures -> Sinks \union {None}]
      BY DEF CaptureTypeOK, Destinations
    <2>3. /\ Closed \notin Streams \union Captures /\ None \notin Streams \union Captures
          /\ Streams \intersect Captures = {}
      BY CaptureAssumption
    <2>4. saved[c] = Closed /\ c \notin reader BY <2>1 DEF DescInv, LifeInv
    <2>5. LifeInv' BY <1>2, <2>1, <2>2, <2>3, <2>4 DEF DescInv, LifeInv
    <2>6. LinkInv' BY <1>2, <2>1, <2>2, <2>3, <2>4 DEF DescInv, LinkInv
    <2>7. StackInv' BY <1>2, <2>1, <2>2, <2>3, <2>4 DEF DescInv, LinkInv, StackInv
    <2> QED BY <2>5, <2>6, <2>7 DEF DescInv
  <1> QED BY <1>1, <1>2 DEF Make

\* Ending the top of a stack takes it off; ending another is disorder.
LEMMA EndDesc ==
  ASSUME CaptureTypeOK, DescInv, NEW c \in Captures, End(c)
  PROVE  DescInv'
  <1>1. CASE UNCHANGED <<fd, saved, draining, disorder>>
    BY <1>1 DEF End, DescInv, LifeInv, LinkInv, StackInv
  <1>2. CASE /\ fd' = [fd EXCEPT ![source[c]] = saved[c]]
             /\ SavedClosed(c)
             /\ draining' = c
             /\ disorder' = (disorder \/ fd[source[c]] # c)
    <2>1. /\ phase[c] = "capturing" /\ draining = None
          /\ UNCHANGED <<buffered, phase, source, reader, target>>
      BY DEF End, Idle
    <2>2. /\ fd \in [Streams -> Streams \union Captures] /\ phase \in [Captures -> {"none", "capturing", "ended", "freed"}]
          /\ saved \in [Captures -> Streams \union Captures \union {Closed}]
          /\ source \in [Captures -> Streams \union {None}]
      BY DEF CaptureTypeOK, Destinations
    <2>3. /\ Closed \notin Streams \union Captures /\ None \notin Streams \union Captures
          /\ Streams \intersect Captures = {}
      BY CaptureAssumption
    <2>4. /\ source[c] \in Streams /\ source[c] \notin buffered
          /\ saved[c] # Closed /\ saved[c] \in Streams \union Captures
      BY <2>1, <2>2, <2>3 DEF DescInv, LifeInv
    <2>5. saved' = [saved EXCEPT ![c] = Closed] BY <1>2 DEF SavedClosed
    <2>6. LifeInv' BY <1>2, <2>1, <2>2, <2>3, <2>4, <2>5 DEF DescInv, LifeInv
    <2>7. LinkInv' BY <1>2, <2>1, <2>2, <2>3, <2>4, <2>5 DEF DescInv, LinkInv
    <2>8. StackInv'
      <3> SUFFICES ASSUME ~disorder' PROVE StackInv'
        BY DEF StackInv
      <3>1. ~disorder /\ fd[source[c]] = c BY <1>2
      <3> QED BY <1>2, <2>1, <2>2, <2>3, <2>4, <2>5, <3>1 DEF DescInv, LinkInv, StackInv
    <2> QED BY <2>6, <2>7, <2>8 DEF DescInv
  <1> QED BY <1>1, <1>2 DEF End

\* Behind the loop of tapi_capture_end only the read end is left to close.
LEMMA FinishDesc ==
  ASSUME CaptureTypeOK, DescInv, draining # None, Finish(draining),
         UNCHANGED <<fd, buffered, source, saved, target, disorder>>
  PROVE  DescInv'
  <1>1. draining \in Captures /\ draining' = None BY DEF CaptureTypeOK, Finish
  <1>2. /\ phase \in [Captures -> {"none", "capturing", "ended", "freed"}]
        /\ phase' = [phase EXCEPT ![draining] = "ended"] /\ reader' = reader \ {draining}
        /\ saved[draining] = Closed /\ phase[draining] = "capturing"
    BY <1>1 DEF CaptureTypeOK, Finish, DescInv, LifeInv
  <1>3. None \notin Captures /\ None \notin Streams BY CaptureAssumption
  <1>4. fd \in [Streams -> Streams \union Captures] BY DEF CaptureTypeOK, Destinations
  <1>5. LifeInv' BY <1>1, <1>2, <1>3 DEF DescInv, LifeInv
  <1>6. LinkInv' BY <1>1, <1>2, <1>3, <1>4 DEF DescInv, LinkInv
  <1>7. StackInv' BY DEF DescInv, StackInv
  <1> QED BY <1>5, <1>6, <1>7 DEF DescInv

\* Freeing the structure closes nothing.
LEMMA DestroyDesc ==
  ASSUME CaptureTypeOK, DescInv, NEW c \in Captures, Destroy(c)
  PROVE  DescInv'
  <1>1. /\ phase \in [Captures -> {"none", "capturing", "ended", "freed"}]
        /\ phase' = [phase EXCEPT ![c] = "freed"] /\ phase[c] \in {"capturing", "ended"}
        /\ draining = None
        /\ UNCHANGED <<fd, buffered, source, saved, reader, target, draining, disorder>>
    BY DEF Destroy, Idle, CaptureTypeOK, streamVars
  <1>2. None \notin Captures BY CaptureAssumption
  <1>3. LifeInv' BY <1>1, <1>2 DEF DescInv, LifeInv
  <1>4. LinkInv' BY <1>1, <1>2 DEF DescInv, LinkInv
  <1>5. StackInv' BY <1>1 DEF DescInv, StackInv
  <1> QED BY <1>3, <1>4, <1>5 DEF DescInv

\* Everything else leaves the descriptors alone.
LEMMA OthersDesc == ASSUME DescInv, UNCHANGED descVars PROVE DescInv'
  BY DEF DescInv, LifeInv, LinkInv, StackInv, descVars

\* Every step keeps the descriptors in order.
LEMMA StepDesc == ASSUME CaptureTypeOK, DescInv, [Next]_vars PROVE DescInv'
  <1>1. ASSUME NEW c \in Captures, NEW k \in Sinks, NEW s \in Streams, Make(c, k, s) PROVE DescInv'
    BY <1>1, MakeDesc
  <1>2. ASSUME NEW c \in Captures, End(c) \/ Destroy(c) PROVE DescInv'
    BY <1>2, EndDesc, DestroyDesc
  <1>3. CASE DrainEmpty
    <2>1. draining # None /\ UNCHANGED <<fd, buffered, source, saved, target, disorder>>
      BY <1>3 DEF DrainEmpty, streamVars
    <2>2. CASE Finish(draining) BY <2>1, <2>2, FinishDesc
    <2>3. CASE UNCHANGED <<phase, reader, pipe, draining>> BY <2>1, <2>3, OthersDesc DEF descVars
    <2> QED BY <1>3, <2>2, <2>3 DEF DrainEmpty
  <1>4. CASE DrainChunk
    <2>1. draining # None /\ UNCHANGED <<fd, buffered, source, saved, target, disorder>>
      BY <1>4 DEF DrainChunk
    <2>2. CASE Finish(draining) BY <2>1, <2>2, FinishDesc
    <2>3. CASE UNCHANGED <<phase, reader, draining>> BY <2>1, <2>3, OthersDesc DEF descVars
    <2> QED BY <1>4, <2>2, <2>3 DEF DrainChunk
  <1>5. ASSUME NEW s \in Streams, Emit(s) \/ Flush(s) PROVE DescInv'
    BY <1>5, OthersDesc DEF Emit, Flush, descVars, captureVars
  <1>6. ASSUME NEW k \in Sinks, NEW n \in Capacities, SetBuffer(k, n) PROVE DescInv'
    BY <1>6, OthersDesc DEF SetBuffer, descVars, captureVars, streamVars
  <1>7. ASSUME NEW k \in Sinks, NEW s \in Streams, SetStream(k, s) PROVE DescInv'
    BY <1>7, OthersDesc DEF SetStream, descVars, captureVars, streamVars
  <1>8. ASSUME NEW k \in Sinks, SinkMake(k) \/ SinkDestroy(k) PROVE DescInv'
    BY <1>8, OthersDesc DEF SinkMake, SinkDestroy, descVars, captureVars, streamVars
  <1>9. CASE UNCHANGED vars
    BY <1>9, OthersDesc DEF vars, descVars, captureVars, streamVars
  <1> QED BY <1>1, <1>2, <1>3, <1>4, <1>5, <1>6, <1>7, <1>8, <1>9 DEF Next, Drain

\* In order, when all captures are over, nothing is left redirected.
LEMMA Restored == ASSUME CaptureTypeOK, DescInv PROVE StreamsRestored
  <1> SUFFICES ASSUME ~disorder, \A c \in Captures : phase[c] \in {"none", "ended"}
               PROVE  /\ fd = [s \in Streams |-> s]
                      /\ saved = [c \in Captures |-> Closed]
                      /\ reader = {}
    BY DEF StreamsRestored
  <1>1. \A c \in Captures : saved[c] = Closed /\ c \notin reader BY DEF DescInv, LifeInv
  <1>2. \A s \in Streams : fd[s] = s BY <1>1 DEF DescInv, LinkInv, StackInv
  <1> QED BY <1>1, <1>2 DEF CaptureTypeOK
-----------------------------------------------------------------------------
\* Sequences: what is taken from the front, what is left, what is appended.
LEMMA Taken ==
  ASSUME NEW S, NEW seq \in Seq(S), NEW n \in 0 .. Len(seq)
  PROVE  /\ SubSeq(seq, 1, n) \in Seq(S) /\ Len(SubSeq(seq, 1, n)) = n
         /\ \A m \in 1 .. n : SubSeq(seq, 1, n)[m] = seq[m]
  <1>1. n \in Nat /\ Len(seq) \in Nat OBVIOUS
  <1>2. \A m \in 1 .. n : seq[m] \in S BY <1>1, ElementOfSeq
  <1>3. /\ SubSeq(seq, 1, n) \in Seq(S)
        /\ Len(SubSeq(seq, 1, n)) = IF 1 <= n THEN n - 1 + 1 ELSE 0
        /\ \A m \in 1 .. n - 1 + 1 : SubSeq(seq, 1, n)[m] = seq[1 + m - 1]
    BY <1>1, <1>2, SubSeqProperties
  <1> DEFINE taken == SubSeq(seq, 1, n)
  <1> HIDE DEF taken
  <1>4. taken \in Seq(S) /\ Len(taken) = n /\ \A m \in 1 .. n : taken[m] = seq[m]
    BY <1>1, <1>3 DEF taken
  <1> QED BY <1>4 DEF taken

\* What is behind the first n.
LEMMA Left ==
  ASSUME NEW S, NEW seq \in Seq(S), NEW n \in 0 .. Len(seq)
  PROVE  LET left == SubSeq(seq, n + 1, Len(seq))
         IN  /\ left \in Seq(S) /\ Len(left) = Len(seq) - n
             /\ \A m \in 1 .. Len(seq) - n : left[m] = seq[m + n]
  <1> DEFINE left == SubSeq(seq, n + 1, Len(seq))
  <1>1. n \in Nat /\ Len(seq) \in Nat /\ n + 1 \in Int OBVIOUS
  <1>2. \A m \in n + 1 .. Len(seq) : seq[m] \in S BY <1>1, ElementOfSeq
  <1>3. /\ left \in Seq(S)
        /\ Len(left) = IF n + 1 <= Len(seq) THEN Len(seq) - (n + 1) + 1 ELSE 0
        /\ \A m \in 1 .. Len(seq) - (n + 1) + 1 : left[m] = seq[n + 1 + m - 1]
    BY <1>1, <1>2, SubSeqProperties
  <1> HIDE DEF left
  <1>4. Len(left) = Len(seq) - n BY <1>1, <1>3
  <1>5. ASSUME NEW m \in 1 .. Len(seq) - n PROVE left[m] = seq[m + n]
    <2>1. m \in 1 .. Len(seq) - (n + 1) + 1 /\ n + 1 + m - 1 = m + n BY <1>1
    <2> QED BY <1>3, <2>1
  <1> QED BY <1>3, <1>4, <1>5

\* One sequence of many grows.
LEMMA Appended ==
  ASSUME NEW I, NEW S, NEW f \in [I -> Seq(S)], NEW x \in I, NEW bytes \in Seq(S)
  PROVE  LET g == [f EXCEPT ![x] = @ \o bytes]
         IN  /\ g \in [I -> Seq(S)]
             /\ g[x] = f[x] \o bytes
             /\ Len(g[x]) = Len(f[x]) + Len(bytes)
             /\ \A y \in I : y # x => g[y] = f[y]
             /\ bytes = <<>> => g = f
  <1>1. f[x] \o bytes \in Seq(S) /\ Len(f[x] \o bytes) = Len(f[x]) + Len(bytes)
    BY ConcatProperties
  <1>2. bytes = <<>> => f[x] \o bytes = f[x] BY ConcatEmptySeq
  <1> QED BY <1>1, <1>2

\* Where a C string ends: at its first '\0', or nowhere.
Ends(byte) == byte \in Nuls \union {NulByte}

\* Only the first end counts.
LEMMA CStringIs ==
  ASSUME NEW bytes \in Seq(Nat), NEW e \in 0 .. Len(bytes),
         \A n \in 1 .. e : ~Ends(bytes[n]),
         e < Len(bytes) => Ends(bytes[e + 1])
  PROVE  CString(bytes) = SubSeq(bytes, 1, e)
  <1> DEFINE ends == {n \in DOMAIN bytes : bytes[n] \in Nuls \union {NulByte}}
  <1>1. Len(bytes) \in Nat /\ DOMAIN bytes = 1 .. Len(bytes) BY LenProperties
  <1>2. CASE e = Len(bytes)
    <2>1. ends = {} BY <1>1, <1>2 DEF Ends
    <2>2. SubSeq(bytes, 1, e) = bytes BY <1>2, SubSeqFull
    <2> QED BY <2>1, <2>2 DEF CString
  <1>3. CASE e < Len(bytes)
    <2>1. e + 1 \in ends BY <1>1, <1>3 DEF Ends
    <2>2. \A n \in ends : e + 1 <= n BY <1>1 DEF Ends
    <2>3. ends \subseteq Nat BY <1>1
    <2> HIDE DEF ends
    <2>4. \A n \in ends : (\A k \in ends : n <= k) => n = e + 1 BY <2>1, <2>2, <2>3
    <2>5. (CHOOSE n \in ends : \A k \in ends : n <= k) = e + 1
      BY <2>1, <2>2, <2>4
    <2>6. CString(bytes) = SubSeq(bytes, 1, (CHOOSE n \in ends : \A k \in ends : n <= k) - 1)
      BY <2>1 DEF CString, ends
    <2>7. (e + 1) - 1 = e OBVIOUS
    <2> QED BY <2>5, <2>6, <2>7
  <1> DEFINE len == Len(bytes)
  <1>4. len \in Nat /\ e \in 0 .. len BY <1>1
  <1> HIDE DEF len
  <1>5. e = len \/ e < len BY <1>4
  <1> QED BY <1>2, <1>3, <1>5 DEF len

\* Every sequence of bytes has a string, a prefix of it.
LEMMA CStringEnds ==
  ASSUME NEW bytes \in Seq(Nat)
  PROVE  \E e \in 0 .. Len(bytes) :
           /\ CString(bytes) = SubSeq(bytes, 1, e)
           /\ CString(bytes) \in Seq(Nat) /\ Len(CString(bytes)) = e
           /\ \A n \in 1 .. e : CString(bytes)[n] = bytes[n] /\ ~Ends(bytes[n])
           /\ e < Len(bytes) => Ends(bytes[e + 1])
  <1>1. \E e \in 0 .. Len(bytes) :
          (\A n \in 1 .. e : ~Ends(bytes[n])) /\ (e < Len(bytes) => Ends(bytes[e + 1]))
    <2> DEFINE ends == {n \in 1 .. Len(bytes) : Ends(bytes[n])}
    <2>1. Len(bytes) \in Nat OBVIOUS
    <2>2. CASE ends = {} BY <2>1, <2>2
    <2>3. CASE ends # {}
      <3>1. ends \in SUBSET Nat BY <2>1
      <3>2. PICK n \in ends : \A k \in ends : n <= k
        <4> HIDE DEF ends
        <4> QED BY <2>3, <3>1, NatMin
      <3>3. n - 1 \in 0 .. Len(bytes) /\ (n - 1) + 1 = n BY <2>1, <3>2
      <3>4. \A k \in 1 .. n - 1 : ~Ends(bytes[k]) BY <2>1, <3>2
      <3> QED BY <3>2, <3>3, <3>4
    <2> QED BY <2>2, <2>3
  <1>2. PICK e \in 0 .. Len(bytes) :
          (\A n \in 1 .. e : ~Ends(bytes[n])) /\ (e < Len(bytes) => Ends(bytes[e + 1]))
    BY <1>1
  <1>3. CString(bytes) = SubSeq(bytes, 1, e) BY <1>2, CStringIs
  <1>4. /\ SubSeq(bytes, 1, e) \in Seq(Nat) /\ Len(SubSeq(bytes, 1, e)) = e
        /\ \A m \in 1 .. e : SubSeq(bytes, 1, e)[m] = bytes[m]
    BY Taken
  <1> QED BY <1>2, <1>3, <1>4
-----------------------------------------------------------------------------
\* What the pipes hold are bytes that the program wrote, each of them once.
Distinct(pipes, t) ==
  /\ \A c \in Captures : \A m \in 1 .. Len(pipes[c]) : pipes[c][m] \in 1 .. t
  /\ \A c, d \in Captures : \A m \in 1 .. Len(pipes[c]), n \in 1 .. Len(pipes[d]) :
       pipes[c][m] = pipes[d][n] => c = d /\ m = n

PipeInv ==
  /\ Distinct(pipe, total)
  /\ \A c \in Captures : c \notin reader => pipe[c] = <<>>
  /\ \A s \in Streams : s \notin buffered => pending[s] = <<>>

\* A sink has what it was given, up to the first '\0', and '\0' behind it.
SinkInv ==
  \A k \in Sinks :
    /\ kind[k] = "str" => stream[k] \in Streams
    /\ Len(given[k]) = Smaller(stored[k], Capacity(k))
    /\ \A n \in 1 .. Capacity(k) :
         (\A m \in 1 .. Len(given[k]) : m < n => ~Ends(given[k][m])) =>
           IF n <= Len(given[k]) /\ ~Ends(given[k][n])
             THEN store[k][n] = given[k][n]
             ELSE Ends(store[k][n])

\* What a round of the loop of tapi_capture_end has in its hands.
LEMMA DrainFacts ==
  ASSUME CaptureTypeOK, DescInv, draining # None, pipe[draining] # <<>>
  PROVE  LET c == draining
             n == Smaller(Len(pipe[c]), ReadSize)
             chunk == SubSeq(pipe[c], 1, n)
             rest == [pipe EXCEPT ![c] = SubSeq(@, n + 1, Len(@))]
         IN  /\ c \in Captures /\ target[c] \in Sinks /\ pipe[c] \in Seq(Nat)
             /\ n \in 1 .. Len(pipe[c])
             /\ chunk \in Seq(Nat) /\ Len(chunk) = n /\ \A m \in 1 .. n : chunk[m] = pipe[c][m]
             /\ rest \in [Captures -> Seq(Nat)]
             /\ \A d \in Captures : d # c => rest[d] = pipe[d]
             /\ rest[c] = SubSeq(pipe[c], n + 1, Len(pipe[c]))
             /\ Len(rest[c]) = Len(pipe[c]) - n
             /\ \A m \in 1 .. Len(pipe[c]) - n : rest[c][m] = pipe[c][m + n]
  <1> DEFINE c == draining
             n == Smaller(Len(pipe[c]), ReadSize)
             chunk == SubSeq(pipe[c], 1, n)
             left == SubSeq(pipe[c], n + 1, Len(pipe[c]))
             rest == [pipe EXCEPT ![c] = SubSeq(@, n + 1, Len(@))]
  <1>1. c \in Captures /\ pipe \in [Captures -> Seq(Nat)] /\ pipe[c] \in Seq(Nat)
    BY DEF CaptureTypeOK
  <1>2. target[c] \in Sinks BY <1>1 DEF DescInv, LifeInv
  <1>3. Len(pipe[c]) \in Nat \ {0} BY <1>1, EmptySeq
  <1>4. n \in 1 .. Len(pipe[c]) BY <1>3, CaptureAssumption DEF Smaller
  <1> HIDE DEF n
  <1>5. chunk \in Seq(Nat) /\ Len(chunk) = n /\ \A m \in 1 .. n : chunk[m] = pipe[c][m]
    BY <1>1, <1>3, <1>4, Taken
  <1>6. /\ left \in Seq(Nat) /\ Len(left) = Len(pipe[c]) - n
        /\ \A m \in 1 .. Len(pipe[c]) - n : left[m] = pipe[c][m + n]
    BY <1>1, <1>3, <1>4, Left
  <1> HIDE DEF left, chunk
  <1>7. rest = [pipe EXCEPT ![c] = left] BY DEF left
  <1> HIDE DEF rest, c
  <1>8. /\ rest \in [Captures -> Seq(Nat)] /\ \A d \in Captures : d # c => rest[d] = pipe[d]
        /\ rest[c] = left
    BY <1>1, <1>6, <1>7
  <1> QED BY <1>1, <1>2, <1>4, <1>5, <1>6, <1>8 DEF c, n, chunk, left, rest

\* Writing keeps the types.
LEMMA GoesTypes ==
  ASSUME CaptureTypeOK, NEW s \in Streams, NEW bytes \in Seq(Nat), NEW pipes \in [Captures -> Seq(Nat)],
         \A c \in Captures : Len(pipes[c]) <= PipeSize, Goes(s, bytes, pipes)
  PROVE  /\ pending' \in [Streams -> Seq(Nat)] /\ file' \in [Streams -> Seq(Nat)]
         /\ pipe' \in [Captures -> Seq(Nat)] /\ \A c \in Captures : Len(pipe'[c]) <= PipeSize
         /\ status' = status
  <1>1. /\ pending \in [Streams -> Seq(Nat)] /\ file \in [Streams -> Seq(Nat)]
        /\ fd \in [Streams -> Destinations] /\ reader \subseteq Captures
    BY DEF CaptureTypeOK
  <1>2. CASE bytes = <<>> /\ pipe' = pipes /\ UNCHANGED <<pending, file, status>>
    BY <1>1, <1>2
  <1>3. CASE pending' = [pending EXCEPT ![s] = @ \o bytes] /\ pipe' = pipes /\ UNCHANGED <<file, status>>
    BY <1>1, <1>3, Appended
  <1>4. CASE /\ fd[s] \in Streams /\ file' = [file EXCEPT ![fd[s]] = @ \o bytes]
             /\ pipe' = pipes /\ UNCHANGED <<pending, status>>
    BY <1>1, <1>4, Appended
  <1>5. CASE /\ fd[s] \in reader /\ Len(pipes[fd[s]] \o bytes) <= PipeSize
             /\ pipe' = [pipes EXCEPT ![fd[s]] = @ \o bytes] /\ UNCHANGED <<pending, file, status>>
    <2>1. fd[s] \in Captures BY <1>1, <1>5
    <2>2. /\ pipe' \in [Captures -> Seq(Nat)] /\ pipe'[fd[s]] = pipes[fd[s]] \o bytes
          /\ \A c \in Captures : c # fd[s] => pipe'[c] = pipes[c]
      BY <1>5, <2>1, Appended
    <2>3. Len(pipe'[fd[s]]) <= PipeSize BY <1>5, <2>2
    <2>4. \A c \in Captures : Len(pipe'[c]) <= PipeSize
      <3> SUFFICES ASSUME NEW c \in Captures PROVE Len(pipe'[c]) <= PipeSize
        OBVIOUS
      <3>1. CASE c = fd[s] BY <2>3, <3>1
      <3>2. CASE c # fd[s] BY <2>2, <3>2
      <3> QED BY <3>1, <3>2
    <2> QED BY <1>1, <1>5, <2>2, <2>4
  <1> QED BY <1>2, <1>3, <1>4, <1>5 DEF Goes

\* A write that gets stuck says so.
LEMMA StuckTypes ==
  ASSUME NEW s, NEW bytes, Stuck(s, bytes)
  PROVE  status' \in {"sigpipe", "write blocks"}
  BY DEF Stuck, Stops

\* Printing keeps the types.
LEMMA EmitTypes ==
  ASSUME CaptureTypeOK, NEW s \in Streams, Emit(s)
  PROVE  CaptureTypeOK'
  <1>0. total \in Nat /\ total < MaxBytes /\ total' = total + 1 /\ MaxBytes \in Nat
    <2>1. MaxBytes \in Nat BY CaptureAssumption
    <2>2. total \in 0 .. MaxBytes BY DEF CaptureTypeOK
    <2>3. total < MaxBytes /\ total' = total + 1 BY DEF Emit
    <2> QED BY <2>1, <2>2, <2>3
  <1>1. /\ total' \in 0 .. MaxBytes
        /\ UNCHANGED <<fd, buffered, phase, source, saved, reader, target, sinkVars, draining, disorder>>
    BY <1>0 DEF Emit
  <1>2. <<total + 1>> \in Seq(Nat) BY <1>0
  <1>3. pipe \in [Captures -> Seq(Nat)] /\ \A c \in Captures : Len(pipe[c]) <= PipeSize
    BY DEF CaptureTypeOK
  <1>4. CASE Goes(s, <<total + 1>>, pipe)
    <2>1. /\ pending' \in [Streams -> Seq(Nat)] /\ file' \in [Streams -> Seq(Nat)]
          /\ pipe' \in [Captures -> Seq(Nat)] /\ \A c \in Captures : Len(pipe'[c]) <= PipeSize
          /\ status' = status
      BY <1>2, <1>3, <1>4, GoesTypes
    <2> QED BY <1>1, <2>1 DEF CaptureTypeOK, sinkVars, Capacity
  <1>5. CASE Stuck(s, <<total + 1>>) /\ UNCHANGED <<pending, file, pipe>>
    <2>1. status' \in {"sigpipe", "write blocks"} BY <1>5, StuckTypes
    <2> QED BY <1>1, <1>5, <2>1 DEF CaptureTypeOK, sinkVars, Capacity
  <1> QED BY <1>4, <1>5 DEF Emit

\* So does flushing,
LEMMA FlushTypes ==
  ASSUME CaptureTypeOK, NEW s \in Streams, Flush(s)
  PROVE  CaptureTypeOK'
  <1>1. pending[s] \in Seq(Nat) /\ file \in [Streams -> Seq(Nat)] BY DEF CaptureTypeOK
  <1>2. file' \in [Streams -> Seq(Nat)] BY <1>1, Appended DEF Flush
  <1>3. pending' \in [Streams -> Seq(Nat)] BY EmptySeq DEF Flush, CaptureTypeOK
  <1>4. UNCHANGED <<fd, buffered, total, captureVars, sinkVars, draining, status, disorder>> BY DEF Flush
  <1> QED BY <1>2, <1>3, <1>4 DEF CaptureTypeOK, captureVars, sinkVars, Capacity

\* every operation on sinks,
LEMMA SinkTypes ==
  ASSUME CaptureTypeOK, NEW k \in Sinks,
         \/ SinkMake(k) \/ SinkDestroy(k)
         \/ \E n \in Capacities : SetBuffer(k, n)
         \/ \E s \in Streams : SetStream(k, s)
  PROVE  CaptureTypeOK'
  <1>1. ASSUME NEW n \in Capacities, SetBuffer(k, n) PROVE CaptureTypeOK'
    <2> DEFINE blank == [m \in 1 .. n |-> NulByte]
    <2>1. n \in Nat BY CaptureAssumption
    <2>2. blank \in [1 .. n -> Nat] BY DEF NulByte
    <2>3. blank \in Seq(Nat) /\ Len(blank) = n BY <2>1, <2>2, SeqDef
    <2>4. store' = [store EXCEPT ![k] = blank] BY <1>1 DEF SetBuffer
    <2> HIDE DEF blank
    <2>5. store' \in [Sinks -> Seq(Nat)] BY <2>3, <2>4 DEF CaptureTypeOK
    <2>6. \A l \in Sinks : Capacity(l)' \in Capacities \union {0}
      <3> SUFFICES ASSUME NEW l \in Sinks PROVE Len(store'[l]) \in Capacities \union {0}
        BY DEF Capacity
      <3>1. CASE l = k BY <2>3, <2>4, <3>1 DEF CaptureTypeOK
      <3>2. CASE l # k
        <4>1. store'[l] = store[l] BY <2>4, <3>2 DEF CaptureTypeOK
        <4> QED BY <4>1 DEF CaptureTypeOK, Capacity
      <3> QED BY <3>1, <3>2
    <2>7. /\ kind' = [kind EXCEPT ![k] = "buf"] /\ stored' = [stored EXCEPT ![k] = 0]
          /\ stream' = [stream EXCEPT ![k] = None] /\ given' = [given EXCEPT ![k] = <<>>]
          /\ UNCHANGED <<streamVars, total, captureVars, draining, status, disorder>>
      BY <1>1 DEF SetBuffer
    <2>8. given' \in [Sinks -> Seq(Nat)] BY <2>7, EmptySeq DEF CaptureTypeOK
    <2> QED BY <2>5, <2>6, <2>7, <2>8 DEF CaptureTypeOK, streamVars, captureVars
  <1>2. ASSUME NEW s \in Streams, SetStream(k, s) PROVE CaptureTypeOK'
    BY <1>2 DEF SetStream, CaptureTypeOK, streamVars, captureVars, Capacity
  <1>3. CASE SinkMake(k) \/ SinkDestroy(k)
    BY <1>3 DEF SinkMake, SinkDestroy, CaptureTypeOK, streamVars, captureVars, Capacity
  <1> QED BY <1>1, <1>2, <1>3

\* beginning a capture,
LEMMA MakeTypes ==
  ASSUME CaptureTypeOK, NEW c \in Captures, NEW k \in Sinks, NEW s \in Streams, Make(c, k, s)
  PROVE  CaptureTypeOK'
  <1>1. UNCHANGED <<total, sinkVars, draining, disorder>> BY DEF Make
  <1>2. CASE Stops("exit") /\ UNCHANGED <<streamVars, captureVars>>
    BY <1>1, <1>2 DEF Stops, CaptureTypeOK, streamVars, captureVars, sinkVars, Capacity
  <1>3. CASE /\ phase' = [phase EXCEPT ![c] = "capturing"]
             /\ source' = [source EXCEPT ![c] = s]
             /\ target' = [target EXCEPT ![c] = k]
             /\ saved' = [saved EXCEPT ![c] = fd[s]]
             /\ reader' = reader \union {c}
             /\ fd' = [fd EXCEPT ![s] = c]
             /\ Flushed(c, s)
             /\ pending' = [pending EXCEPT ![s] = <<>>]
             /\ buffered' = buffered \ {s}
             /\ UNCHANGED status
    <2>1. pipe' = pipe /\ file' = [file EXCEPT ![s] = @ \o pending[s]] BY <1>3 DEF Flushed
    <2>2. pending[s] \in Seq(Nat) /\ file \in [Streams -> Seq(Nat)] BY DEF CaptureTypeOK
    <2>3. file' \in [Streams -> Seq(Nat)] BY <2>1, <2>2, Appended
    <2>4. pending' \in [Streams -> Seq(Nat)] BY <1>3, EmptySeq DEF CaptureTypeOK
    <2>5. fd' \in [Streams -> Destinations] /\ saved' \in [Captures -> Destinations \union {Closed}]
      BY <1>3 DEF CaptureTypeOK, Destinations
    <2> QED BY <1>1, <1>3, <2>1, <2>3, <2>4, <2>5 DEF CaptureTypeOK, sinkVars, Capacity
  <1> QED BY <1>2, <1>3 DEF Make

\* ending one,
LEMMA EndTypes ==
  ASSUME CaptureTypeOK, DescInv, NEW c \in Captures, End(c)
  PROVE  CaptureTypeOK'
  <1>1. UNCHANGED <<pending, buffered, file, total, phase, source, reader, pipe, target, sinkVars, status>>
    BY DEF End
  <1>2. CASE UNCHANGED <<fd, saved, draining, disorder>>
    BY <1>1, <1>2 DEF CaptureTypeOK, sinkVars, Capacity
  <1>3. CASE /\ fd' = [fd EXCEPT ![source[c]] = saved[c]]
             /\ SavedClosed(c) /\ draining' = c
             /\ disorder' = (disorder \/ fd[source[c]] # c)
    <2>1. saved[c] # Closed BY CaptureAssumption DEF End, Idle, DescInv, LifeInv
    <2>2. fd' \in [Streams -> Destinations] BY <1>3, <2>1 DEF CaptureTypeOK
    <2>3. saved' \in [Captures -> Destinations \union {Closed}] BY <1>3 DEF SavedClosed, CaptureTypeOK
    <2>4. disorder' \in BOOLEAN BY <1>3
    <2> QED BY <1>1, <1>3, <2>2, <2>3, <2>4 DEF CaptureTypeOK, sinkVars, Capacity
  <1> QED BY <1>2, <1>3 DEF End

\* leaving the loop,
LEMMA FinishTypes ==
  ASSUME CaptureTypeOK, draining # None, Finish(draining),
         UNCHANGED <<fd, pending, buffered, file, total, source, saved, target, sinkVars, status, disorder>>
  PROVE  CaptureTypeOK'
  <1>1. pipe' = [pipe EXCEPT ![draining] = <<>>] /\ draining' = None
        /\ phase' = [phase EXCEPT ![draining] = "ended"] /\ reader' = reader \ {draining}
    BY DEF Finish
  <1>2. pipe' \in [Captures -> Seq(Nat)] BY <1>1, EmptySeq DEF CaptureTypeOK
  <1>3. \A c \in Captures : Len(pipe'[c]) <= PipeSize
    <2> SUFFICES ASSUME NEW c \in Captures PROVE Len(pipe'[c]) <= PipeSize
      OBVIOUS
    <2>1. CASE c = draining
      <3>1. pipe'[c] = <<>> BY <1>1, <2>1 DEF CaptureTypeOK
      <3>2. Len(<<>>) <= PipeSize BY CaptureAssumption
      <3> QED BY <3>1, <3>2
    <2>2. CASE c # draining
      <3>1. pipe'[c] = pipe[c] BY <1>1, <2>2 DEF CaptureTypeOK
      <3> QED BY <3>1 DEF CaptureTypeOK
    <2> QED BY <2>1, <2>2
  <1> QED BY <1>1, <1>2, <1>3 DEF CaptureTypeOK, sinkVars, Capacity

\* What strncpy leaves in the buffer of a sink.
LEMMA CopiedHolds ==
  ASSUME CaptureTypeOK, NEW k \in Sinks, NEW chunk \in Seq(Nat)
  PROVE  LET text == CString(chunk)
         IN  /\ Copied(k, text) \in Seq(Nat) /\ Len(Copied(k, text)) = Capacity(k)
             /\ \A n \in 1 .. Capacity(k) :
                  Copied(k, text)[n] =
                    IF n <= stored[k] THEN store[k][n]
                    ELSE IF n - stored[k] <= Len(text) THEN text[n - stored[k]] ELSE NulByte
  <1> DEFINE text == CString(chunk)
             cap == Capacity(k)
             copied == Copied(k, text)
  <1>1. store[k] \in Seq(Nat) /\ stored[k] \in Nat BY DEF CaptureTypeOK
  <1>2. cap \in Nat /\ \A n \in 1 .. cap : store[k][n] \in Nat BY <1>1, ElementOfSeq DEF Capacity
  <1>3. text \in Seq(Nat) /\ Len(text) \in Nat /\ \A n \in 1 .. Len(text) : text[n] \in Nat
    <2>1. text \in Seq(Nat) BY CStringEnds
    <2> HIDE DEF text
    <2> QED BY <2>1, ElementOfSeq
  <1>4. copied = [n \in 1 .. cap |->
                    IF n <= stored[k] THEN store[k][n]
                    ELSE IF n - stored[k] <= Len(text) THEN text[n - stored[k]] ELSE NulByte]
    BY DEF Copied
  <1> HIDE DEF text, cap, copied
  <1>5. copied \in [1 .. cap -> Nat]
    <2>1. ASSUME NEW n \in 1 .. cap
          PROVE  (IF n <= stored[k] THEN store[k][n]
                  ELSE IF n - stored[k] <= Len(text) THEN text[n - stored[k]] ELSE NulByte) \in Nat
      <3>1. ~(n <= stored[k]) /\ n - stored[k] <= Len(text) => n - stored[k] \in 1 .. Len(text)
        BY <1>1, <1>2, <1>3
      <3> QED BY <1>2, <1>3, <3>1 DEF NulByte
    <2> QED BY <1>4, <2>1
  <1>6. copied \in Seq(Nat) /\ Len(copied) = cap BY <1>2, <1>5, SeqDef
  <1> QED BY <1>4, <1>6 DEF text, cap, copied

\* and a round of it.
LEMMA DrainChunkTypes ==
  ASSUME CaptureTypeOK, DescInv, SinkInv, DrainChunk
  PROVE  CaptureTypeOK'
  <1> DEFINE c == draining
             k == target[c]
             n == Smaller(Len(pipe[c]), ReadSize)
             chunk == SubSeq(pipe[c], 1, n)
             rest == [pipe EXCEPT ![c] = SubSeq(@, n + 1, Len(@))]
  <1>1. /\ draining # None /\ pipe[draining] # <<>> /\ status = "ok"
        /\ UNCHANGED <<fd, buffered, total, source, saved, target, kind, stream, disorder>>
    BY DEF DrainChunk
  <1>2. /\ c \in Captures /\ k \in Sinks /\ n \in 1 .. Len(pipe[c]) /\ chunk \in Seq(Nat)
        /\ rest \in [Captures -> Seq(Nat)] /\ \A d \in Captures : d # c => rest[d] = pipe[d]
        /\ Len(rest[c]) = Len(pipe[c]) - n
    BY <1>1, DrainFacts
  <1>3. \A d \in Captures : Len(rest[d]) <= PipeSize
    <2> HIDE DEF n, rest
    <2>1. Len(pipe[c]) \in Nat /\ n \in 1 .. Len(pipe[c]) /\ Len(pipe[c]) <= PipeSize /\ PipeSize \in Nat
      <3>1. pipe[c] \in Seq(Nat) /\ Len(pipe[c]) <= PipeSize BY <1>2 DEF CaptureTypeOK
      <3>2. PipeSize \in Nat BY CaptureAssumption
      <3> QED BY <1>2, <3>1, <3>2
    <2>2. Len(rest[c]) <= PipeSize BY <1>2, <2>1
    <2>3. \A d \in Captures : d # c => Len(rest[d]) <= PipeSize BY <1>2 DEF CaptureTypeOK
    <2> QED BY <2>2, <2>3
  <1>4. CASE /\ store' = [store EXCEPT ![k] = Copied(k, CString(chunk))]
             /\ stored' = [stored EXCEPT ![k] = Counted(k, chunk)]
             /\ given' = [given EXCEPT ![k] = @ \o SubSeq(chunk, 1, Smaller(n, Capacity(k) - stored[k]))]
             /\ pipe' = rest /\ stored[k] < Capacity(k)
             /\ UNCHANGED <<phase, reader, draining, pending, file, status>>
    <2>1. Copied(k, CString(chunk)) \in Seq(Nat) /\ Len(Copied(k, CString(chunk))) = Capacity(k)
      BY <1>2, CopiedHolds
    <2>2. store' \in [Sinks -> Seq(Nat)] BY <1>2, <1>4, <2>1 DEF CaptureTypeOK
    <2>3. \A l \in Sinks : Capacity(l)' \in Capacities \union {0}
      <3> SUFFICES ASSUME NEW l \in Sinks PROVE Len(store'[l]) \in Capacities \union {0}
        BY DEF Capacity
      <3>1. CASE l = k BY <1>4, <2>1, <3>1 DEF CaptureTypeOK
      <3>2. CASE l # k
        <4>1. store'[l] = store[l] BY <1>4, <3>2 DEF CaptureTypeOK
        <4> QED BY <4>1 DEF CaptureTypeOK, Capacity
      <3> QED BY <3>1, <3>2
    <2> HIDE DEF n, chunk, rest
    <2>4. stored[k] \in Nat /\ Len(chunk) \in Nat /\ Capacity(k) \in Nat /\ n \in Nat
      <3>1. stored[k] \in Nat /\ store[k] \in Seq(Nat) BY <1>2 DEF CaptureTypeOK
      <3>2. pipe[c] \in Seq(Nat) BY <1>2 DEF CaptureTypeOK
      <3> QED BY <1>2, <3>1, <3>2 DEF Capacity
    <2>5. stored' \in [Sinks -> Nat]
      <3>1. Counted(k, chunk) \in Nat BY <2>4 DEF Counted
      <3> QED BY <1>4, <3>1 DEF CaptureTypeOK
    <2>6. Smaller(n, Capacity(k) - stored[k]) \in 0 .. Len(chunk)
      <3>1. Len(chunk) = n BY <1>1, DrainFacts DEF chunk, n
      <3> QED BY <1>4, <2>4, <3>1 DEF Smaller
    <2>7. SubSeq(chunk, 1, Smaller(n, Capacity(k) - stored[k])) \in Seq(Nat)
      BY <1>2, <2>6, Taken
    <2>8. given' \in [Sinks -> Seq(Nat)]
      <3>1. given \in [Sinks -> Seq(Nat)] BY DEF CaptureTypeOK
      <3> QED BY <1>2, <1>4, <2>7, <3>1, Appended
    <2> HIDE DEF k
    <2> QED BY <1>1, <1>2, <1>3, <1>4, <2>2, <2>3, <2>5, <2>8 DEF CaptureTypeOK
  <1>5. CASE Finish(c) /\ UNCHANGED <<store, stored, given, pending, file, status>>
    BY <1>1, <1>5, FinishTypes DEF sinkVars
  <1>6. CASE /\ kind[k] = "str"
             /\ \/ Goes(stream[k], CString(chunk), rest)
                \/ Stuck(stream[k], CString(chunk)) /\ UNCHANGED <<pending, file, pipe>>
             /\ UNCHANGED <<store, stored, given, phase, reader, draining>>
    <2>1. CString(chunk) \in Seq(Nat) BY <1>2, CStringEnds
    <2>2. stream[k] \in Streams BY <1>2, <1>6 DEF SinkInv
    <2>3. CASE Goes(stream[k], CString(chunk), rest)
      <3>1. /\ pending' \in [Streams -> Seq(Nat)] /\ file' \in [Streams -> Seq(Nat)]
            /\ pipe' \in [Captures -> Seq(Nat)] /\ \A d \in Captures : Len(pipe'[d]) <= PipeSize
            /\ status' = status
        BY <1>2, <1>3, <2>1, <2>2, <2>3, GoesTypes
      <3> QED BY <1>1, <1>6, <3>1 DEF CaptureTypeOK, Capacity
    <2>4. CASE Stuck(stream[k], CString(chunk)) /\ UNCHANGED <<pending, file, pipe>>
      <3>1. status' \in {"sigpipe", "write blocks"} BY <2>4, StuckTypes
      <3> QED BY <1>1, <1>6, <2>4, <3>1 DEF CaptureTypeOK, Capacity
    <2> QED BY <1>6, <2>3, <2>4
  <1>7. CASE Stops("null stream") /\ UNCHANGED <<store, stored, given, pipe, phase, reader, draining, pending, file>>
    BY <1>1, <1>7 DEF Stops, CaptureTypeOK, Capacity
  <1> QED BY <1>4, <1>5, <1>6, <1>7 DEF DrainChunk

\* Every step keeps the types.
LEMMA StepTypes ==
  ASSUME CaptureTypeOK, DescInv, SinkInv, [Next]_vars
  PROVE  CaptureTypeOK'
  <1>1. ASSUME NEW s \in Streams, Emit(s) \/ Flush(s) PROVE CaptureTypeOK'
    BY <1>1, EmitTypes, FlushTypes
  <1>2. ASSUME NEW k \in Sinks, NEW n \in Capacities, SetBuffer(k, n) PROVE CaptureTypeOK'
    BY <1>2, SinkTypes
  <1>3. ASSUME NEW k \in Sinks, NEW s \in Streams, SetStream(k, s) PROVE CaptureTypeOK'
    BY <1>3, SinkTypes
  <1>4. ASSUME NEW k \in Sinks, SinkMake(k) \/ SinkDestroy(k) PROVE CaptureTypeOK'
    BY <1>4, SinkTypes
  <1>5. ASSUME NEW c \in Captures, NEW k \in Sinks, NEW s \in Streams, Make(c, k, s) PROVE CaptureTypeOK'
    BY <1>5, MakeTypes
  <1>6. ASSUME NEW c \in Captures, End(c) PROVE CaptureTypeOK'
    BY <1>6, EndTypes
  <1>7. ASSUME NEW c \in Captures, Destroy(c) PROVE CaptureTypeOK'
    BY <1>7 DEF Destroy, CaptureTypeOK, streamVars, sinkVars, Capacity
  <1>8. CASE DrainEmpty
    <2>1. draining # None /\ UNCHANGED <<streamVars, total, source, saved, target, sinkVars, disorder>>
      BY <1>8 DEF DrainEmpty
    <2>2. CASE Finish(draining) /\ UNCHANGED status
      BY <2>1, <2>2, FinishTypes DEF streamVars
    <2>3. CASE Stops("read blocks") /\ UNCHANGED <<phase, reader, pipe, draining>>
      BY <2>1, <2>3 DEF Stops, CaptureTypeOK, streamVars, sinkVars, Capacity
    <2> QED BY <1>8, <2>2, <2>3 DEF DrainEmpty
  <1>9. CASE UNCHANGED vars
    BY <1>9 DEF vars, CaptureTypeOK, streamVars, captureVars, sinkVars, Capacity
  <1> QED BY <1>1, <1>2, <1>3, <1>4, <1>5, <1>6, <1>7, <1>8, <1>9, DrainChunkTypes DEF Next, Drain

\* Everything starts typed.
LEMMA InitTypes == ASSUME Init PROVE CaptureTypeOK
  <1>1. <<>> \in Seq(Nat) /\ Len(<<>>) = 0 OBVIOUS
  <1>2. PipeSize \in Nat /\ MaxBytes \in Nat BY CaptureAssumption
  <1>3. \A c \in Captures : Len(pipe[c]) <= PipeSize BY <1>1, <1>2 DEF Init
  <1>4. \A k \in Sinks : Capacity(k) \in Capacities \union {0} BY <1>1 DEF Init, Capacity
  <1>5. /\ pending \in [Streams -> Seq(Nat)] /\ file \in [Streams -> Seq(Nat)]
        /\ pipe \in [Captures -> Seq(Nat)] /\ store \in [Sinks -> Seq(Nat)] /\ given \in [Sinks -> Seq(Nat)]
    BY <1>1 DEF Init
  <1>6. total \in 0 .. MaxBytes BY <1>2 DEF Init
  <1>7. /\ fd \in [Streams -> Destinations] /\ buffered \subseteq Buffered
        /\ phase \in [Captures -> {"none", "capturing", "ended", "freed"}]
        /\ source \in [Captures -> Streams \union {None}]
        /\ saved \in [Captures -> Destinations \union {Closed}]
        /\ reader \subseteq Captures /\ target \in [Captures -> Sinks \union {None}]
        /\ kind \in [Sinks -> {"absent", "none", "buf", "str", "freed"}]
        /\ stored \in [Sinks -> Nat] /\ stream \in [Sinks -> Streams \union {None}]
        /\ draining = None /\ status = "ok" /\ disorder \in BOOLEAN
    BY DEF Init, Destinations
  <1> QED BY <1>3, <1>4, <1>5, <1>6, <1>7 DEF CaptureTypeOK
-----------------------------------------------------------------------------
\* What a buffer takes of the next n bytes.
LEMMA Cut ==
  ASSUME NEW had \in Nat, NEW cap \in Nat, NEW n \in Nat, had < cap
  PROVE  /\ Smaller(n, cap - had) \in 0 .. n /\ had + Smaller(n, cap - had) <= cap
         /\ Smaller(n, cap - had) < n => had + Smaller(n, cap - had) = cap
         /\ had + Smaller(n, cap - had) = Smaller(had + n, cap)
  BY DEF Smaller

\* Sinks: what a chunk adds to the buffer and to what was given.
LEMMA ChunkShown ==
  ASSUME CaptureTypeOK, SinkInv, NEW k \in Sinks, NEW chunk \in Seq(Nat), NEW n, n = Len(chunk),
         stored[k] < Capacity(k),
         store' = [store EXCEPT ![k] = Copied(k, CString(chunk))],
         stored' = [stored EXCEPT ![k] = Counted(k, chunk)],
         given' = [given EXCEPT ![k] = @ \o SubSeq(chunk, 1, Smaller(n, Capacity(k) - stored[k]))],
         UNCHANGED <<kind, stream>>
  PROVE  SinkInv'
  <1> DEFINE cap == Capacity(k)
             had == stored[k]
             took == Smaller(n, cap - had)
             taken == SubSeq(chunk, 1, took)
             text == CString(chunk)
             copied == Copied(k, text)
             shown == given[k] \o taken
  <1>1. /\ store \in [Sinks -> Seq(Nat)] /\ stored \in [Sinks -> Nat] /\ given \in [Sinks -> Seq(Nat)]
        /\ store[k] \in Seq(Nat) /\ stored[k] \in Nat /\ given[k] \in Seq(Nat)
    BY DEF CaptureTypeOK
  <1>2. cap \in Nat /\ had \in Nat /\ had < cap /\ n \in Nat BY <1>1 DEF Capacity
  <1>3. /\ took \in 0 .. n /\ (took < n => had + took = cap) /\ had + took <= cap
        /\ had + took = Smaller(had + n, cap)
    <2> HIDE DEF cap, had
    <2> QED BY <1>2, Cut
  <1>4. Len(given[k]) = had BY <1>1, <1>2 DEF SinkInv, Smaller
  <1>5. taken \in Seq(Nat) /\ Len(taken) = took /\ \A m \in 1 .. took : taken[m] = chunk[m]
    <2> HIDE DEF took
    <2> QED BY <1>3, Taken
  <1>6. /\ shown \in Seq(Nat) /\ Len(shown) = had + took
        /\ \A m \in 1 .. had + took : shown[m] = IF m <= had THEN given[k][m] ELSE chunk[m - had]
    <2> HIDE DEF took, had, taken
    <2>1. /\ shown \in Seq(Nat) /\ Len(shown) = Len(given[k]) + Len(taken)
          /\ \A m \in 1 .. Len(given[k]) + Len(taken) :
               shown[m] = IF m <= Len(given[k]) THEN given[k][m] ELSE taken[m - Len(given[k])]
      BY <1>1, <1>5, ConcatProperties
    <2> HIDE DEF shown
    <2>2. Len(shown) = had + took BY <1>4, <1>5, <2>1
    <2>3. ASSUME NEW m \in 1 .. had + took
          PROVE  shown[m] = IF m <= had THEN given[k][m] ELSE chunk[m - had]
      <3>1. shown[m] = IF m <= had THEN given[k][m] ELSE taken[m - had]
        BY <1>4, <1>5, <2>1
      <3>2. ~(m <= had) => m - had \in 1 .. took BY <1>2, <1>3
      <3> QED BY <1>5, <3>1, <3>2
    <2> QED BY <2>1, <2>2, <2>3
  <1>7. PICK e \in 0 .. n :
          /\ Len(text) = e /\ \A m \in 1 .. e : text[m] = chunk[m] /\ ~Ends(chunk[m])
          /\ e < n => Ends(chunk[e + 1])
    BY CStringEnds
  <1>8. /\ copied \in Seq(Nat) /\ Len(copied) = cap
        /\ \A m \in 1 .. cap :
             copied[m] = IF m <= had THEN store[k][m]
                         ELSE IF m - had <= e THEN text[m - had] ELSE NulByte
    BY <1>7, CopiedHolds
  <1>9. Ends(NulByte) BY DEF Ends
  <1>10. \A m \in 1 .. cap :
           (\A l \in 1 .. had : l < m => ~Ends(given[k][l])) =>
             IF m <= had /\ ~Ends(given[k][m]) THEN store[k][m] = given[k][m] ELSE Ends(store[k][m])
    BY <1>4 DEF SinkInv
  <1> HIDE DEF cap, had, took, taken, text, copied, shown
  <1>11. ASSUME NEW m \in 1 .. cap, \A l \in 1 .. had + took : l < m => ~Ends(shown[l])
         PROVE  IF m <= had + took /\ ~Ends(shown[m]) THEN copied[m] = shown[m] ELSE Ends(copied[m])
    <2>1. CASE m <= had
      <3>1. \A l \in 1 .. had : l < m => ~Ends(given[k][l])
        <4> SUFFICES ASSUME NEW l \in 1 .. had, l < m PROVE ~Ends(given[k][l])
          OBVIOUS
        <4>1. l \in 1 .. had + took /\ l <= had BY <1>2, <1>3
        <4>2. shown[l] = given[k][l] BY <1>6, <4>1
        <4> QED BY <1>11, <4>1, <4>2
      <3>2. m \in 1 .. had + took BY <1>2, <1>3, <2>1
      <3>3. shown[m] = given[k][m] /\ copied[m] = store[k][m] BY <1>6, <1>8, <2>1, <3>2
      <3>4. IF ~Ends(given[k][m]) THEN store[k][m] = given[k][m] ELSE Ends(store[k][m])
        BY <1>10, <2>1, <3>1
      <3>5. m <= had + took BY <1>2, <1>3, <2>1
      <3> QED BY <3>3, <3>4, <3>5
    <2>2. CASE m > had
      <3> DEFINE i == m - had
      <3>1. i \in 1 .. cap - had /\ m = had + i BY <1>2, <2>2
      <3> HIDE DEF i
      <3>2. copied[m] = IF i <= e THEN text[i] ELSE NulByte
        <4>1. m - had = i /\ ~(m <= had) BY <1>2, <3>1
        <4> QED BY <1>8, <4>1
      <3>3. \A l \in 1 .. took : shown[had + l] = chunk[l]
        <4> SUFFICES ASSUME NEW l \in 1 .. took PROVE shown[had + l] = chunk[l]
          OBVIOUS
        <4>1. had + l \in 1 .. had + took /\ ~(had + l <= had) /\ (had + l) - had = l BY <1>2, <1>3
        <4> QED BY <1>6, <4>1
      <3>4. \A l \in 1 .. took : l < i => ~Ends(chunk[l])
        <4> SUFFICES ASSUME NEW l \in 1 .. took, l < i PROVE ~Ends(chunk[l])
          OBVIOUS
        <4>1. had + l \in 1 .. had + took /\ had + l < m BY <1>2, <1>3, <3>1
        <4> QED BY <1>11, <3>3, <4>1
      <3>5. CASE i <= took /\ ~Ends(chunk[i])
        <4>1. i \in 1 .. took BY <1>3, <3>1, <3>5
        <4>2. i <= e
          <5> SUFFICES ASSUME i > e PROVE FALSE
            BY <3>1
          <5>1. e + 1 \in 1 .. took /\ e < n BY <1>3, <3>1, <3>5
          <5>2. Ends(chunk[e + 1]) BY <1>7, <5>1
          <5>3. e + 1 < i \/ e + 1 = i BY <3>1
          <5> QED BY <3>4, <3>5, <5>1, <5>2, <5>3
        <4>3. copied[m] = chunk[i] BY <1>7, <3>1, <3>2, <4>2
        <4>4. shown[m] = chunk[i] BY <3>1, <3>3, <4>1
        <4>5. m <= had + took BY <1>2, <1>3, <3>1, <3>5
        <4> QED BY <3>5, <4>3, <4>4, <4>5
      <3>6. CASE i <= took /\ Ends(chunk[i])
        <4>1. i \in 1 .. took BY <1>3, <3>1, <3>6
        <4>2. ~(i <= e) BY <1>7, <3>1, <3>6
        <4>3. copied[m] = NulByte BY <3>2, <4>2
        <4>4. Ends(shown[m]) BY <3>1, <3>3, <3>6, <4>1
        <4> QED BY <1>9, <4>3, <4>4
      <3>7. CASE i > took
        <4>1. took = n BY <1>2, <1>3, <3>1, <3>7
        <4>2. ~(i <= e) BY <3>1, <3>7, <4>1
        <4>3. copied[m] = NulByte BY <3>2, <4>2
        <4>4. ~(m <= had + took) BY <1>2, <1>3, <3>1, <3>7
        <4> QED BY <1>9, <4>3, <4>4
      <3>8. i <= took \/ i > took BY <1>3, <3>1
      <3> QED BY <3>5, <3>6, <3>7, <3>8
    <2> QED BY <1>2, <2>1, <2>2
  <1>12. /\ store'[k] = copied /\ given'[k] = shown /\ stored'[k] = had + n
         /\ \A l \in Sinks : l # k => store'[l] = store[l] /\ given'[l] = given[l] /\ stored'[l] = stored[l]
    <2>1. Counted(k, chunk) = had + n BY DEF Counted, had
    <2> QED BY <1>1, <2>1 DEF copied, shown, taken, took, cap, had, text
  <1>13. ASSUME NEW l \in Sinks
         PROVE  /\ kind'[l] = "str" => stream'[l] \in Streams
                /\ Len(given'[l]) = Smaller(stored'[l], Len(store'[l]))
                /\ \A m \in 1 .. Len(store'[l]) :
                     (\A p \in 1 .. Len(given'[l]) : p < m => ~Ends(given'[l][p])) =>
                       IF m <= Len(given'[l]) /\ ~Ends(given'[l][m])
                         THEN store'[l][m] = given'[l][m]
                         ELSE Ends(store'[l][m])
    <2>1. kind'[l] = "str" => stream'[l] \in Streams BY DEF SinkInv
    <2>2. CASE l = k
      <3>1. /\ store'[l] = copied /\ Len(store'[l]) = cap
            /\ given'[l] = shown /\ Len(given'[l]) = had + took
            /\ Smaller(stored'[l], Len(store'[l])) = had + took
        BY <1>3, <1>6, <1>8, <1>12, <2>2
      <3> QED BY <1>11, <2>1, <3>1
    <2>3. CASE l # k
      <3>1. store'[l] = store[l] /\ given'[l] = given[l] /\ stored'[l] = stored[l] BY <1>12, <2>3
      <3> QED BY <2>1, <3>1 DEF SinkInv, Capacity
    <2> QED BY <2>2, <2>3
  <1> QED BY <1>13 DEF SinkInv, Capacity, Ends

\* Every step keeps what sinks show.
LEMMA StepSink ==
  ASSUME CaptureTypeOK, DescInv, SinkInv, [Next]_vars
  PROVE  SinkInv'
  <1>1. CASE UNCHANGED sinkVars
    BY <1>1 DEF SinkInv, sinkVars, Capacity, Ends
  <1>2. ASSUME NEW k \in Sinks, NEW n \in Capacities, SetBuffer(k, n) PROVE SinkInv'
    <2> DEFINE blank == [m \in 1 .. n |-> NulByte]
    <2>1. n \in Nat BY CaptureAssumption
    <2>2. blank \in [1 .. n -> Nat] BY DEF NulByte
    <2>3. Len(blank) = n /\ \A m \in 1 .. n : Ends(blank[m])
      <3>1. blank \in Seq(Nat) /\ Len(blank) = n BY <2>1, <2>2, SeqDef
      <3> QED BY <3>1 DEF Ends
    <2>4. /\ kind' = [kind EXCEPT ![k] = "buf"] /\ stored' = [stored EXCEPT ![k] = 0]
          /\ stream' = [stream EXCEPT ![k] = None] /\ given' = [given EXCEPT ![k] = <<>>]
          /\ store' = [store EXCEPT ![k] = blank]
      BY <1>2 DEF SetBuffer
    <2> HIDE DEF blank
    <2>5. ASSUME NEW l \in Sinks, l # k
          PROVE  /\ kind'[l] = kind[l] /\ stored'[l] = stored[l] /\ stream'[l] = stream[l]
                 /\ given'[l] = given[l] /\ store'[l] = store[l]
      BY <2>4, <2>5 DEF CaptureTypeOK
    <2>6. /\ kind'[k] = "buf" /\ stored'[k] = 0 /\ given'[k] = <<>> /\ store'[k] = blank
      BY <2>4 DEF CaptureTypeOK
    <2>7. Len(<<>>) = 0 /\ Smaller(0, n) = 0 BY <2>1 DEF Smaller
    <2>8. ASSUME NEW l \in Sinks
          PROVE  /\ kind'[l] = "str" => stream'[l] \in Streams
                 /\ Len(given'[l]) = Smaller(stored'[l], Len(store'[l]))
                 /\ \A m \in 1 .. Len(store'[l]) :
                      (\A p \in 1 .. Len(given'[l]) : p < m => ~Ends(given'[l][p])) =>
                        IF m <= Len(given'[l]) /\ ~Ends(given'[l][m])
                          THEN store'[l][m] = given'[l][m]
                          ELSE Ends(store'[l][m])
      <3>1. CASE l = k BY <2>1, <2>3, <2>6, <2>7, <3>1
      <3>2. CASE l # k BY <2>5, <3>2 DEF SinkInv, Capacity
      <3> QED BY <3>1, <3>2
    <2> QED BY <2>8 DEF SinkInv, Capacity, Ends
  <1>3. ASSUME NEW k \in Sinks, NEW s \in Streams, SetStream(k, s) PROVE SinkInv'
    BY <1>3 DEF SetStream, SinkInv, CaptureTypeOK, Capacity, Ends
  <1>4. ASSUME NEW k \in Sinks, SinkMake(k) \/ SinkDestroy(k) PROVE SinkInv'
    BY <1>4 DEF SinkMake, SinkDestroy, SinkInv, CaptureTypeOK, Capacity, Ends
  <1>5. CASE DrainChunk
    <2> DEFINE c == draining
               k == target[c]
               n == Smaller(Len(pipe[c]), ReadSize)
               chunk == SubSeq(pipe[c], 1, n)
    <2>1. draining # None /\ pipe[draining] # <<>> /\ UNCHANGED <<kind, stream>>
      BY <1>5 DEF DrainChunk
    <2>2. k \in Sinks /\ chunk \in Seq(Nat) /\ n = Len(chunk) BY <2>1, DrainFacts
    <2>3. CASE /\ stored[k] < Capacity(k)
               /\ store' = [store EXCEPT ![k] = Copied(k, CString(chunk))]
               /\ stored' = [stored EXCEPT ![k] = Counted(k, chunk)]
               /\ given' = [given EXCEPT ![k] = @ \o SubSeq(chunk, 1, Smaller(n, Capacity(k) - stored[k]))]
      <3> HIDE DEF k, chunk, n
      <3> QED BY <2>1, <2>2, <2>3, ChunkShown
    <2>4. CASE UNCHANGED <<store, stored, given>>
      BY <1>1, <2>1, <2>4 DEF sinkVars
    <2> QED BY <1>5, <2>3, <2>4 DEF DrainChunk
  <1>6. ASSUME NEW s \in Streams, Emit(s) \/ Flush(s) PROVE SinkInv'
    BY <1>1, <1>6 DEF Emit, Flush
  <1>7. ASSUME NEW c \in Captures, End(c) \/ Destroy(c) PROVE SinkInv'
    BY <1>1, <1>7 DEF End, Destroy
  <1>8. ASSUME NEW c \in Captures, NEW k \in Sinks, NEW s \in Streams, Make(c, k, s) PROVE SinkInv'
    BY <1>1, <1>8 DEF Make
  <1>9. CASE DrainEmpty BY <1>1, <1>9 DEF DrainEmpty
  <1>10. CASE UNCHANGED vars BY <1>1, <1>10 DEF vars
  <1> QED BY <1>2, <1>3, <1>4, <1>5, <1>6, <1>7, <1>8, <1>9, <1>10 DEF Next, Drain

\* At the start nothing was given.
LEMMA InitSink == ASSUME Init PROVE SinkInv
  <1>1. Len(<<>>) = 0 OBVIOUS
  <1> QED BY <1>1 DEF Init, SinkInv, Capacity, Smaller

\* The string in the buffer is that of what was given.
LEMMA SinkShows == ASSUME CaptureTypeOK, SinkInv PROVE SinkShowsPrefix
  <1> SUFFICES ASSUME NEW k \in Sinks PROVE CString(store[k]) = CString(given[k])
    BY DEF SinkShowsPrefix
  <1> DEFINE g == given[k]
             b == store[k]
             cap == Len(store[k])
  <1>1. g \in Seq(Nat) /\ b \in Seq(Nat) /\ Len(b) = cap /\ stored[k] \in Nat BY DEF CaptureTypeOK
  <1>2. /\ cap \in Nat /\ Len(g) = Smaller(stored[k], cap)
        /\ \A n \in 1 .. cap :
             (\A m \in 1 .. Len(g) : m < n => ~Ends(g[m])) =>
               IF n <= Len(g) /\ ~Ends(g[n]) THEN b[n] = g[n] ELSE Ends(b[n])
    BY <1>1 DEF SinkInv, Capacity
  <1> HIDE DEF g, b, cap
  <1>3. Len(g) \in 0 .. cap BY <1>1, <1>2 DEF Smaller
  <1>4. PICK e \in 0 .. Len(g) :
          /\ CString(g) = SubSeq(g, 1, e)
          /\ \A n \in 1 .. e : ~Ends(g[n])
          /\ e < Len(g) => Ends(g[e + 1])
    BY <1>1, CStringEnds
  <1>5. e \in 0 .. cap BY <1>2, <1>3
  <1>6. ASSUME NEW n \in 1 .. e PROVE b[n] = g[n]
    <2>1. n \in 1 .. cap /\ n <= Len(g) BY <1>2, <1>3
    <2>2. \A m \in 1 .. Len(g) : m < n => ~Ends(g[m]) BY <1>4
    <2> QED BY <1>2, <1>4, <2>1, <2>2
  <1>7. e < cap => Ends(b[e + 1])
    <2> SUFFICES ASSUME e < cap PROVE Ends(b[e + 1])
      OBVIOUS
    <2>1. e + 1 \in 1 .. cap BY <1>2, <1>3
    <2>2. \A m \in 1 .. Len(g) : m < e + 1 => ~Ends(g[m]) BY <1>3, <1>4
    <2>3. ~(e + 1 <= Len(g) /\ ~Ends(g[e + 1])) BY <1>3, <1>4
    <2> QED BY <1>2, <2>1, <2>2, <2>3
  <1>8. CString(b) = SubSeq(b, 1, e) BY <1>1, <1>4, <1>5, <1>6, <1>7, CStringIs
  <1>9. /\ SubSeq(b, 1, e) \in Seq(Nat) /\ Len(SubSeq(b, 1, e)) = e
        /\ \A m \in 1 .. e : SubSeq(b, 1, e)[m] = b[m]
    BY <1>1, <1>5, Taken
  <1>10. /\ SubSeq(g, 1, e) \in Seq(Nat) /\ Len(SubSeq(g, 1, e)) = e
         /\ \A m \in 1 .. e : SubSeq(g, 1, e)[m] = g[m]
    BY <1>1, Taken
  <1>11. SubSeq(b, 1, e) = SubSeq(g, 1, e) BY <1>6, <1>9, <1>10, SeqEqual
  <1> QED BY <1>4, <1>8, <1>11 DEF b, g
-----------------------------------------------------------------------------
\* Each byte in q is one that was in p: in pipe f[c][m] at place g[c][m].
From(p, q, f, g) ==
  /\ \A c \in Captures : \A m \in 1 .. Len(q[c]) :
       /\ f[c][m] \in Captures /\ g[c][m] \in 1 .. Len(p[f[c][m]])
       /\ q[c][m] = p[f[c][m]][g[c][m]]
  /\ \A c, d \in Captures : \A m \in 1 .. Len(q[c]), n \in 1 .. Len(q[d]) :
       f[c][m] = f[d][n] /\ g[c][m] = g[d][n] => c = d /\ m = n

\* Bytes that move from pipe to pipe, or get lost, stay distinct.
LEMMA Moved ==
  ASSUME NEW p, NEW q, NEW t, Distinct(p, t), NEW f, NEW g, From(p, q, f, g)
  PROVE  Distinct(q, t)
  <1>1. ASSUME NEW c \in Captures, NEW m \in 1 .. Len(q[c]) PROVE q[c][m] \in 1 .. t
    <2> DEFINE x == f[c][m]
               i == g[c][m]
    <2>1. x \in Captures /\ i \in 1 .. Len(p[x]) /\ q[c][m] = p[x][i] BY DEF From
    <2> HIDE DEF x, i
    <2> QED BY <2>1 DEF Distinct
  <1>2. ASSUME NEW c \in Captures, NEW d \in Captures, NEW m \in 1 .. Len(q[c]), NEW n \in 1 .. Len(q[d]),
               q[c][m] = q[d][n]
        PROVE  c = d /\ m = n
    <2> DEFINE x == f[c][m]
               i == g[c][m]
               y == f[d][n]
               j == g[d][n]
    <2>1. x \in Captures /\ i \in 1 .. Len(p[x]) /\ q[c][m] = p[x][i] BY DEF From
    <2>2. y \in Captures /\ j \in 1 .. Len(p[y]) /\ q[d][n] = p[y][j] BY DEF From
    <2>3. x = y /\ i = j => c = d /\ m = n BY DEF From
    <2> HIDE DEF x, i, y, j
    <2>4. p[x][i] = p[y][j] BY <1>2, <2>1, <2>2
    <2>5. x = y /\ i = j BY <2>1, <2>2, <2>4 DEF Distinct
    <2> QED BY <2>3, <2>5
  <1> QED BY <1>1, <1>2 DEF Distinct

\* From p to q, pipe c loses its first n bytes.
Loses(p, q, c, n) ==
  /\ Len(q[c]) = Len(p[c]) - n
  /\ \A m \in 1 .. Len(p[c]) - n : q[c][m] = p[c][m + n]

\* Pipe x gets the first e of them.
Gets(p, q, c, x, e) ==
  /\ Len(q[x]) = Len(p[x]) + e
  /\ \A m \in 1 .. Len(p[x]) + e :
       q[x][m] = IF m <= Len(p[x]) THEN p[x][m] ELSE p[c][m - Len(p[x])]

\* The first n bytes of a pipe are lost.
LEMMA Dropped ==
  ASSUME NEW p \in [Captures -> Seq(Nat)], NEW q \in [Captures -> Seq(Nat)], NEW t, Distinct(p, t),
         NEW c \in Captures, NEW n \in 0 .. Len(p[c]),
         \A d \in Captures : d # c => q[d] = p[d], Loses(p, q, c, n)
  PROVE  Distinct(q, t)
  <1> DEFINE f == [d \in Captures |-> [m \in Nat |-> d]]
             g == [d \in Captures |-> [m \in Nat |-> IF d = c THEN m + n ELSE m]]
  <1>1. \A d \in Captures : Len(p[d]) \in Nat /\ Len(q[d]) \in Nat OBVIOUS
  <1>2. \A d \in Captures, m \in Nat : f[d][m] = d /\ g[d][m] = IF d = c THEN m + n ELSE m
    OBVIOUS
  <1> HIDE DEF f, g
  <1>3. ASSUME NEW d \in Captures, NEW m \in 1 .. Len(q[d])
        PROVE  /\ f[d][m] \in Captures /\ g[d][m] \in 1 .. Len(p[f[d][m]])
               /\ q[d][m] = p[f[d][m]][g[d][m]]
    <2>1. m \in Nat BY <1>1
    <2>2. CASE d = c
      <3>1. m \in 1 .. Len(p[c]) - n /\ m + n \in 1 .. Len(p[c]) BY <1>1, <2>2 DEF Loses
      <3>2. f[d][m] = c /\ g[d][m] = m + n BY <1>2, <2>1, <2>2
      <3> QED BY <2>2, <3>1, <3>2 DEF Loses
    <2>3. CASE d # c BY <1>2, <2>1, <2>3
    <2> QED BY <2>2, <2>3
  <1>4. \A d, e \in Captures : \A m \in 1 .. Len(q[d]), l \in 1 .. Len(q[e]) :
          f[d][m] = f[e][l] /\ g[d][m] = g[e][l] => d = e /\ m = l
    <2> TAKE d, e \in Captures
    <2> TAKE m \in 1 .. Len(q[d]), l \in 1 .. Len(q[e])
    <2> HAVE f[d][m] = f[e][l] /\ g[d][m] = g[e][l]
    <2>1. m \in Nat /\ l \in Nat BY <1>1
    <2>2. /\ f[d][m] = d /\ g[d][m] = IF d = c THEN m + n ELSE m
          /\ f[e][l] = e /\ g[e][l] = IF e = c THEN l + n ELSE l
      BY <1>2, <2>1
    <2>3. d = e /\ (IF d = c THEN m + n ELSE m) = (IF d = c THEN l + n ELSE l) BY <2>2
    <2>4. n \in Nat BY <1>1
    <2> QED BY <2>1, <2>3, <2>4
  <1>5. From(p, q, f, g) BY <1>3, <1>4 DEF From
  <1> QED BY <1>5, Moved

\* The first n bytes leave one pipe, e of them go to another.
LEMMA Passed ==
  ASSUME NEW p \in [Captures -> Seq(Nat)], NEW q \in [Captures -> Seq(Nat)], NEW t, Distinct(p, t),
         NEW c \in Captures, NEW x \in Captures, x # c, NEW n \in 0 .. Len(p[c]), NEW e \in 0 .. n,
         \A d \in Captures : d # c /\ d # x => q[d] = p[d],
         Loses(p, q, c, n), Gets(p, q, c, x, e)
  PROVE  Distinct(q, t)
  <1> DEFINE new(d, m) == d = x /\ m > Len(p[x])
             f == [d \in Captures |-> [m \in Nat |-> IF new(d, m) THEN c ELSE d]]
             g == [d \in Captures |-> [m \in Nat |-> IF new(d, m) THEN m - Len(p[x])
                                                     ELSE IF d = c THEN m + n ELSE m]]
  <1>1. \A d \in Captures : Len(p[d]) \in Nat /\ Len(q[d]) \in Nat OBVIOUS
  <1>2. \A d \in Captures, m \in Nat :
          /\ f[d][m] = IF new(d, m) THEN c ELSE d
          /\ g[d][m] = IF new(d, m) THEN m - Len(p[x]) ELSE IF d = c THEN m + n ELSE m
    OBVIOUS
  <1> HIDE DEF f, g
  <1>3. ASSUME NEW d \in Captures, NEW m \in 1 .. Len(q[d])
        PROVE  /\ f[d][m] \in Captures /\ g[d][m] \in 1 .. Len(p[f[d][m]])
               /\ q[d][m] = p[f[d][m]][g[d][m]]
    <2>1. m \in Nat BY <1>1
    <2>2. CASE d = c
      <3>1. m \in 1 .. Len(p[c]) - n /\ m + n \in 1 .. Len(p[c]) BY <1>1, <2>2 DEF Loses
      <3> QED BY <1>2, <2>1, <2>2, <3>1 DEF Loses
    <2>3. CASE new(d, m)
      <3>1. m - Len(p[x]) \in 1 .. Len(p[c]) /\ ~(m <= Len(p[x])) /\ m \in 1 .. Len(p[x]) + e
        BY <1>1, <2>1, <2>3 DEF Gets
      <3>2. q[d][m] = p[c][m - Len(p[x])] BY <2>3, <3>1 DEF Gets
      <3> QED BY <1>2, <2>1, <2>3, <3>1, <3>2
    <2>4. CASE d = x /\ ~new(d, m)
      <3>1. m <= Len(p[x]) /\ m \in 1 .. Len(p[x]) /\ m \in 1 .. Len(p[x]) + e BY <1>1, <2>1, <2>4 DEF Gets
      <3> QED BY <1>2, <2>1, <2>4, <3>1 DEF Gets
    <2>5. CASE d # c /\ d # x BY <1>2, <2>1, <2>5
    <2> QED BY <2>2, <2>3, <2>4, <2>5
  <1>4. \A d, k \in Captures : \A m \in 1 .. Len(q[d]), l \in 1 .. Len(q[k]) :
          f[d][m] = f[k][l] /\ g[d][m] = g[k][l] => d = k /\ m = l
    <2> TAKE d, k \in Captures
    <2> TAKE m \in 1 .. Len(q[d]), l \in 1 .. Len(q[k])
    <2> HAVE f[d][m] = f[k][l] /\ g[d][m] = g[k][l]
    <2>1. m \in Nat /\ l \in Nat /\ m >= 1 /\ l >= 1 BY <1>1
    <2> DEFINE had == Len(p[x])
    <2>2. /\ had \in Nat /\ n \in Nat /\ e \in 0 .. n
          /\ d = x => m \in 1 .. had + e
          /\ k = x => l \in 1 .. had + e
      BY <1>1 DEF Gets
    <2>3. /\ f[d][m] = (IF new(d, m) THEN c ELSE d)
          /\ g[d][m] = IF new(d, m) THEN m - had ELSE IF d = c THEN m + n ELSE m
          /\ f[k][l] = (IF new(k, l) THEN c ELSE k)
          /\ g[k][l] = IF new(k, l) THEN l - had ELSE IF k = c THEN l + n ELSE l
      BY <1>2, <2>1
    <2> HIDE DEF had
    <2>4. /\ new(d, m) <=> d = x /\ m > had
          /\ new(k, l) <=> k = x /\ l > had
      BY DEF had
    <2> HIDE DEF new
    <2>5. CASE new(d, m) /\ new(k, l)
      <3>1. m - had = l - had BY <2>3, <2>5
      <3> QED BY <2>1, <2>2, <2>4, <2>5, <3>1
    <2>6. CASE new(d, m) /\ ~new(k, l)
      <3>1. k = c /\ m - had = l + n BY <2>3, <2>6
      <3> QED BY <2>1, <2>2, <2>4, <2>6, <3>1
    <2>7. CASE ~new(d, m) /\ new(k, l)
      <3>1. d = c BY <2>3, <2>7
      <3>2. g[d][m] = m + n /\ g[k][l] = l - had BY <2>3, <2>7, <3>1
      <3>3. d = c /\ l - had = m + n BY <3>1, <3>2
      <3> QED BY <2>1, <2>2, <2>4, <2>7, <3>3
    <2>8. CASE ~new(d, m) /\ ~new(k, l)
      <3>1. d = k /\ (IF d = c THEN m + n ELSE m) = (IF d = c THEN l + n ELSE l)
        BY <2>3, <2>8
      <3> QED BY <2>1, <2>2, <3>1
    <2> QED BY <2>5, <2>6, <2>7, <2>8
  <1>5. From(p, q, f, g) BY <1>3, <1>4 DEF From
  <1> QED BY <1>5, Moved

\* A byte that was never written before is appended, or lost.
LEMMA Fresh ==
  ASSUME NEW p \in [Captures -> Seq(Nat)], NEW q \in [Captures -> Seq(Nat)], NEW t \in Nat, Distinct(p, t),
         \/ q = p
         \/ \E x \in Captures : q = [p EXCEPT ![x] = @ \o <<t + 1>>]
  PROVE  Distinct(q, t + 1)
  <1>1. CASE q = p BY <1>1 DEF Distinct
  <1>2. ASSUME NEW x \in Captures, q = [p EXCEPT ![x] = @ \o <<t + 1>>] PROVE Distinct(q, t + 1)
    <2>1. <<t + 1>> \in Seq(Nat) /\ Len(<<t + 1>>) = 1 /\ <<t + 1>>[1] = t + 1 OBVIOUS
    <2>2. /\ Len(q[x]) = Len(p[x]) + 1 /\ q[x] = p[x] \o <<t + 1>>
          /\ \A d \in Captures : d # x => q[d] = p[d]
      BY <1>2, <2>1, Appended
    <2>3. \A m \in 1 .. Len(p[x]) + 1 :
            q[x][m] = IF m <= Len(p[x]) THEN p[x][m] ELSE <<t + 1>>[m - Len(p[x])]
      BY <2>1, <2>2, ConcatProperties
    <2>4. \A d \in Captures : Len(p[d]) \in Nat /\ Len(q[d]) \in Nat OBVIOUS
    <2>5. ASSUME NEW d \in Captures, NEW m \in 1 .. Len(q[d])
          PROVE  \/ m \in 1 .. Len(p[d]) /\ q[d][m] = p[d][m] /\ q[d][m] \in 1 .. t
                 \/ d = x /\ m = Len(p[x]) + 1 /\ q[d][m] = t + 1
      <3>1. CASE d # x BY <2>2, <3>1 DEF Distinct
      <3>2. CASE d = x /\ m <= Len(p[x])
        <4>1. m \in 1 .. Len(p[x]) /\ m \in 1 .. Len(p[x]) + 1 BY <2>4, <3>2
        <4> QED BY <2>3, <3>2, <4>1 DEF Distinct
      <3>3. CASE d = x /\ ~(m <= Len(p[x]))
        <4>1. m = Len(p[x]) + 1 BY <2>2, <2>4, <3>3
        <4>2. m - Len(p[x]) = 1 /\ m \in 1 .. Len(p[x]) + 1 BY <2>4, <4>1
        <4>3. q[x][m] = <<t + 1>>[1] BY <2>3, <3>3, <4>2
        <4> QED BY <2>1, <3>3, <4>1, <4>3
      <3> QED BY <3>1, <3>2, <3>3
    <2>6. \A d \in Captures : \A m \in 1 .. Len(q[d]) : q[d][m] \in 1 .. t + 1 BY <2>5
    <2>7. ASSUME NEW d \in Captures, NEW e \in Captures, NEW m \in 1 .. Len(q[d]), NEW n \in 1 .. Len(q[e]),
                 q[d][m] = q[e][n]
          PROVE  d = e /\ m = n
      <3>1. ~(t + 1 \in 1 .. t) OBVIOUS
      <3>2. CASE m \in 1 .. Len(p[d]) /\ q[d][m] = p[d][m] /\ q[d][m] \in 1 .. t
        <4>1. n \in 1 .. Len(p[e]) /\ q[e][n] = p[e][n] BY <2>5, <2>7, <3>1, <3>2
        <4>2. p[d][m] = p[e][n] BY <2>7, <3>2, <4>1
        <4> QED BY <3>2, <4>1, <4>2 DEF Distinct
      <3>3. CASE d = x /\ m = Len(p[x]) + 1 /\ q[d][m] = t + 1
        <4>1. ~(q[e][n] \in 1 .. t) BY <2>7, <3>1, <3>3
        <4>2. e = x /\ n = Len(p[x]) + 1 BY <2>5, <4>1
        <4> QED BY <3>3, <4>2
      <3> QED BY <2>5, <3>2, <3>3
    <2> QED BY <2>6, <2>7 DEF Distinct
  <1> QED BY <1>1, <1>2

\* Two pipes together hold no more than was written.
LEMMA TwoPipes ==
  ASSUME NEW p \in [Captures -> Seq(Nat)], NEW t \in Nat, Distinct(p, t),
         NEW x \in Captures, NEW y \in Captures, x # y
  PROVE  Len(p[x]) + Len(p[y]) <= t
  <1> DEFINE lx == Len(p[x])
             ly == Len(p[y])
             f == [i \in 1 .. lx + ly |-> IF i <= lx THEN p[x][i] ELSE p[y][i - lx]]
  <1>1. lx \in Nat /\ ly \in Nat OBVIOUS
  <1>2. /\ \A i \in 1 .. lx : p[x][i] \in 1 .. t
        /\ \A i \in 1 .. ly : p[y][i] \in 1 .. t
        /\ \A i, j \in 1 .. lx : p[x][i] = p[x][j] => i = j
        /\ \A i, j \in 1 .. ly : p[y][i] = p[y][j] => i = j
        /\ \A i \in 1 .. lx, j \in 1 .. ly : p[x][i] # p[y][j]
    BY DEF Distinct
  <1> HIDE DEF lx, ly
  <1>3. f \in [1 .. lx + ly -> 1 .. t]
    <2>1. ASSUME NEW i \in 1 .. lx + ly
          PROVE  (IF i <= lx THEN p[x][i] ELSE p[y][i - lx]) \in 1 .. t
      <3>1. CASE i <= lx
        <4>1. i \in 1 .. lx BY <1>1, <3>1
        <4> QED BY <1>2, <3>1, <4>1
      <3>2. CASE ~(i <= lx)
        <4>1. i - lx \in 1 .. ly BY <1>1, <3>2
        <4> QED BY <1>2, <3>2, <4>1
      <3> QED BY <3>1, <3>2
    <2> QED BY <2>1
  <1>4. ASSUME NEW i \in 1 .. lx + ly, NEW j \in 1 .. lx + ly, f[i] = f[j] PROVE i = j
    <2>1. /\ i <= lx => i \in 1 .. lx /\ f[i] = p[x][i]
          /\ ~(i <= lx) => i - lx \in 1 .. ly /\ f[i] = p[y][i - lx]
          /\ j <= lx => j \in 1 .. lx /\ f[j] = p[x][j]
          /\ ~(j <= lx) => j - lx \in 1 .. ly /\ f[j] = p[y][j - lx]
      BY <1>1
    <2> HIDE DEF f
    <2>2. CASE i <= lx /\ j <= lx BY <1>2, <1>4, <2>1, <2>2
    <2>3. CASE i <= lx /\ ~(j <= lx) BY <1>2, <1>4, <2>1, <2>3
    <2>4. CASE ~(i <= lx) /\ j <= lx BY <1>2, <1>4, <2>1, <2>4
    <2>5. CASE ~(i <= lx) /\ ~(j <= lx)
      <3>1. i - lx = j - lx BY <1>2, <1>4, <2>1, <2>5
      <3> QED BY <1>1, <3>1
    <2> QED BY <2>2, <2>3, <2>4, <2>5
  <1> HIDE DEF f
  <1>5. /\ IsFiniteSet(1 .. lx + ly) /\ Cardinality(1 .. lx + ly) = IF 1 > lx + ly THEN 0 ELSE lx + ly - 1 + 1
        /\ IsFiniteSet(1 .. t) /\ Cardinality(1 .. t) = IF 1 > t THEN 0 ELSE t - 1 + 1
    BY <1>1, FS_Interval
  <1>6. ~(Cardinality(1 .. t) < Cardinality(1 .. lx + ly))
    <2> SUFFICES ASSUME Cardinality(1 .. t) < Cardinality(1 .. lx + ly) PROVE FALSE
      OBVIOUS
    <2>1. \E i, j \in 1 .. lx + ly : i # j /\ f[i] = f[j] BY <1>3, <1>5, FS_PigeonHole, Zenon
    <2> QED BY <1>4, <2>1
  <1> DEFINE ct == Cardinality(1 .. t)
             cl == Cardinality(1 .. lx + ly)
  <1>7. ct = t /\ cl = lx + ly BY <1>1, <1>5
  <1>8. ~(ct < cl) BY <1>6
  <1> HIDE DEF ct, cl
  <1>9. lx + ly <= t BY <1>1, <1>7, <1>8
  <1> QED BY <1>9 DEF lx, ly

\* A pipe holds no more than was written.
LEMMA OnePipe ==
  ASSUME NEW p \in [Captures -> Seq(Nat)], NEW t \in Nat, Distinct(p, t), NEW x \in Captures
  PROVE  Len(p[x]) <= t
  <1> DEFINE lx == Len(p[x])
  <1>1. lx \in Nat OBVIOUS
  <1>2. /\ p[x] \in [1 .. lx -> 1 .. t]
        /\ \A i, j \in 1 .. lx : p[x][i] = p[x][j] => i = j
    <2>1. /\ \A i \in 1 .. lx : p[x][i] \in 1 .. t
          /\ \A i, j \in 1 .. lx : p[x][i] = p[x][j] => i = j
      BY DEF Distinct
    <2>2. p[x] \in [1 .. lx -> Nat] BY LenProperties
    <2> HIDE DEF lx
    <2> QED BY <2>1, <2>2
  <1> HIDE DEF lx
  <1>3. /\ IsFiniteSet(1 .. lx) /\ Cardinality(1 .. lx) = IF 1 > lx THEN 0 ELSE lx - 1 + 1
        /\ IsFiniteSet(1 .. t) /\ Cardinality(1 .. t) = IF 1 > t THEN 0 ELSE t - 1 + 1
    BY <1>1, FS_Interval
  <1>4. ~(Cardinality(1 .. t) < Cardinality(1 .. lx))
    <2> SUFFICES ASSUME Cardinality(1 .. t) < Cardinality(1 .. lx) PROVE FALSE
      OBVIOUS
    <2> DEFINE f == p[x]
    <2>1. f \in [1 .. lx -> 1 .. t] /\ \A i, j \in 1 .. lx : f[i] = f[j] => i = j BY <1>2
    <2> HIDE DEF f
    <2>2. \E i, j \in 1 .. lx : i # j /\ f[i] = f[j] BY <1>3, <2>1, FS_PigeonHole, Zenon
    <2> QED BY <2>1, <2>2
  <1> DEFINE ct == Cardinality(1 .. t)
             cl == Cardinality(1 .. lx)
  <1>5. ct = t /\ cl = lx BY <1>1, <1>3
  <1>6. ~(ct < cl) BY <1>4
  <1> HIDE DEF ct, cl
  <1>7. lx <= t BY <1>1, <1>5, <1>6
  <1> QED BY <1>7 DEF lx
-----------------------------------------------------------------------------
\* A write reaches a pipe only if its read end is open, a buffer only if the
\* stream still has one.
LEMMA GoesPipe ==
  ASSUME CaptureTypeOK, PipeInv, NEW s \in Streams, NEW bytes \in Seq(Nat),
         NEW pipes \in [Captures -> Seq(Nat)],
         \A c \in Captures : c \notin reader => pipes[c] = <<>>,
         Goes(s, bytes, pipes), UNCHANGED <<buffered, reader>>
  PROVE  /\ \A c \in Captures : c \notin reader' => pipe'[c] = <<>>
         /\ \A r \in Streams : r \notin buffered' => pending'[r] = <<>>
         /\ \/ pipe' = pipes
            \/ fd[s] \in Captures /\ pipe' = [pipes EXCEPT ![fd[s]] = @ \o bytes]
  <1>1. /\ pending \in [Streams -> Seq(Nat)] /\ reader \subseteq Captures
        /\ \A r \in Streams : r \notin buffered => pending[r] = <<>>
    BY DEF CaptureTypeOK, PipeInv
  <1>2. CASE bytes = <<>> /\ pipe' = pipes /\ UNCHANGED <<pending, file, status>>
    BY <1>1, <1>2
  <1>3. CASE /\ s \in buffered /\ pending' = [pending EXCEPT ![s] = @ \o bytes]
             /\ pipe' = pipes /\ UNCHANGED <<file, status>>
    BY <1>1, <1>3
  <1>4. CASE /\ fd[s] \in Streams /\ file' = [file EXCEPT ![fd[s]] = @ \o bytes]
             /\ pipe' = pipes /\ UNCHANGED <<pending, status>>
    BY <1>1, <1>4
  <1>5. CASE /\ fd[s] \in reader
             /\ pipe' = [pipes EXCEPT ![fd[s]] = @ \o bytes] /\ UNCHANGED <<pending, file, status>>
    BY <1>1, <1>5
  <1> QED BY <1>2, <1>3, <1>4, <1>5 DEF Goes

\* A byte that the program prints is not in a pipe yet.
LEMMA EmitPipe ==
  ASSUME CaptureTypeOK, PipeInv, NEW s \in Streams, Emit(s), CaptureTypeOK'
  PROVE  PipeInv'
  <1>1. total \in Nat /\ total' = total + 1 /\ UNCHANGED <<buffered, reader>>
    <2>1. total \in 0 .. MaxBytes /\ MaxBytes \in Nat BY CaptureAssumption DEF CaptureTypeOK
    <2> QED BY <2>1 DEF Emit
  <1>2. /\ pipe \in [Captures -> Seq(Nat)] /\ Distinct(pipe, total)
        /\ \A c \in Captures : c \notin reader => pipe[c] = <<>>
    BY DEF CaptureTypeOK, PipeInv
  <1>3. pipe' \in [Captures -> Seq(Nat)] BY DEF CaptureTypeOK
  <1>4. <<total + 1>> \in Seq(Nat) BY <1>1
  <1>5. /\ \A c \in Captures : c \notin reader' => pipe'[c] = <<>>
        /\ \A r \in Streams : r \notin buffered' => pending'[r] = <<>>
        /\ \/ pipe' = pipe
           \/ fd[s] \in Captures /\ pipe' = [pipe EXCEPT ![fd[s]] = @ \o <<total + 1>>]
    <2>1. CASE Goes(s, <<total + 1>>, pipe) BY <1>1, <1>2, <1>4, <2>1, GoesPipe
    <2>2. CASE UNCHANGED <<pending, file, pipe>> BY <1>1, <2>2 DEF PipeInv
    <2> QED BY <2>1, <2>2 DEF Emit
  <1>6. Distinct(pipe', total + 1) BY <1>1, <1>2, <1>3, <1>5, Fresh
  <1>7. Distinct(pipe', total') BY <1>1, <1>6
  <1> QED BY <1>5, <1>7 DEF PipeInv, Distinct

\* A round of the loop moves a chunk, or what is left of it as text.
LEMMA DrainPipe ==
  ASSUME CaptureTypeOK, DescInv, SinkInv, PipeInv, DrainChunk, CaptureTypeOK'
  PROVE  PipeInv'
  <1> DEFINE c == draining
             k == target[c]
             n == Smaller(Len(pipe[c]), ReadSize)
             chunk == SubSeq(pipe[c], 1, n)
             text == CString(chunk)
             rest == [pipe EXCEPT ![c] = SubSeq(@, n + 1, Len(@))]
  <1>1. /\ draining # None /\ pipe[draining] # <<>>
        /\ UNCHANGED <<fd, buffered, total>>
    BY DEF DrainChunk
  <1>2. /\ c \in Captures /\ k \in Sinks /\ n \in 1 .. Len(pipe[c])
        /\ chunk \in Seq(Nat) /\ Len(chunk) = n /\ \A m \in 1 .. n : chunk[m] = pipe[c][m]
        /\ rest \in [Captures -> Seq(Nat)] /\ \A d \in Captures : d # c => rest[d] = pipe[d]
        /\ Len(rest[c]) = Len(pipe[c]) - n
        /\ \A m \in 1 .. Len(pipe[c]) - n : rest[c][m] = pipe[c][m + n]
    BY <1>1, DrainFacts
  <1>3. PICK e \in 0 .. n :
          text \in Seq(Nat) /\ Len(text) = e /\ \A m \in 1 .. e : text[m] = chunk[m]
    <2> HIDE DEF chunk, n
    <2> QED BY <1>2, CStringEnds
  <1>4. /\ pipe \in [Captures -> Seq(Nat)] /\ Distinct(pipe, total)
        /\ \A d \in Captures : d \notin reader => pipe[d] = <<>>
        /\ \A r \in Streams : r \notin buffered => pending[r] = <<>>
        /\ c \in reader
    BY <1>1, <1>2 DEF CaptureTypeOK, PipeInv
  <1>5. pipe' \in [Captures -> Seq(Nat)] BY DEF CaptureTypeOK
  <1> HIDE DEF n, chunk, text, rest, c
  <1>6. n \in 0 .. Len(pipe[c]) /\ Len(pipe[c]) \in Nat
    <2>1. Len(pipe[c]) \in Nat BY <1>2, <1>4
    <2> QED BY <1>2, <2>1
  <1>7. Loses(pipe, rest, c, n) BY <1>2 DEF Loses
  <1>8. Distinct(rest, total) BY <1>2, <1>4, <1>6, <1>7, Dropped
  <1>9. \A d \in Captures : d \notin reader => rest[d] = <<>> BY <1>2, <1>4
  <1>10. CASE pipe' = rest /\ UNCHANGED <<reader, pending>>
    <2>1. Distinct(pipe', total') BY <1>1, <1>8, <1>10
    <2> QED BY <1>1, <1>4, <1>9, <1>10, <2>1 DEF PipeInv, Distinct
  <1>11. CASE Finish(c) /\ UNCHANGED pending
    <2>1. pipe' = [pipe EXCEPT ![c] = <<>>] /\ reader' = reader \ {c} BY <1>11 DEF Finish
    <2>2. pipe'[c] = <<>> /\ \A d \in Captures : d # c => pipe'[d] = pipe[d] BY <1>2, <1>4, <2>1
    <2>3. Distinct(pipe', total)
      <3>1. Len(pipe'[c]) = 0 BY <2>2
      <3>2. \A d \in Captures : \A m \in 1 .. Len(pipe'[d]) : d # c BY <3>1
      <3> QED BY <1>4, <2>2, <3>2 DEF Distinct
    <2>4. Distinct(pipe', total') BY <1>1, <2>3
    <2> QED BY <1>1, <1>4, <1>11, <2>1, <2>2, <2>4 DEF PipeInv, Distinct
  <1>12. CASE kind[k] = "str" /\ Goes(stream[k], text, rest) /\ UNCHANGED reader
    <2> DEFINE s == stream[k]
               x == fd[s]
    <2>1. s \in Streams BY <1>2, <1>12 DEF SinkInv
    <2>2. x # c BY <1>1, <2>1 DEF DescInv, LinkInv, c
    <2>3. /\ \A d \in Captures : d \notin reader' => pipe'[d] = <<>>
          /\ \A r \in Streams : r \notin buffered' => pending'[r] = <<>>
          /\ \/ pipe' = rest
             \/ x \in Captures /\ pipe' = [rest EXCEPT ![x] = @ \o text]
      <3>1. /\ text \in Seq(Nat) /\ rest \in [Captures -> Seq(Nat)] /\ Goes(s, text, rest)
            /\ UNCHANGED <<buffered, reader>>
        BY <1>1, <1>2, <1>3, <1>12
      <3> HIDE DEF s
      <3> QED BY <1>9, <2>1, <3>1, GoesPipe
    <2> HIDE DEF s, x
    <2>4. Distinct(pipe', total)
      <3>1. CASE pipe' = rest BY <1>8, <3>1
      <3>2. CASE x \in Captures /\ pipe' = [rest EXCEPT ![x] = @ \o text]
        <4> DEFINE q == pipe'
        <4>1. q \in [Captures -> Seq(Nat)] BY <1>5
        <4>2. /\ \A d \in Captures : d # x => q[d] = rest[d]
              /\ q[x] = rest[x] \o text /\ Len(q[x]) = Len(rest[x]) + Len(text)
          <5>1. text \in Seq(Nat) /\ rest \in [Captures -> Seq(Nat)] BY <1>2, <1>3
          <5> QED BY <3>2, <5>1, Appended
        <4> HIDE DEF q
        <4>3. rest[x] = pipe[x] /\ pipe[x] \in Seq(Nat) /\ q[c] = rest[c]
          BY <1>2, <1>4, <2>2, <3>2, <4>2
        <4>4. Len(q[x]) = Len(pipe[x]) + e BY <1>3, <4>2, <4>3
        <4>5. \A m \in 1 .. Len(pipe[x]) + Len(text) :
                (pipe[x] \o text)[m] = IF m <= Len(pipe[x]) THEN pipe[x][m] ELSE text[m - Len(pipe[x])]
          BY <1>3, <4>3, ConcatProperties
        <4>6. ASSUME NEW m \in 1 .. Len(pipe[x]) + e
              PROVE  q[x][m] = IF m <= Len(pipe[x]) THEN pipe[x][m] ELSE pipe[c][m - Len(pipe[x])]
          <5>1. q[x][m] = IF m <= Len(pipe[x]) THEN pipe[x][m] ELSE text[m - Len(pipe[x])]
            BY <1>3, <4>2, <4>3, <4>5
          <5>2. Len(pipe[x]) \in Nat BY <4>3
          <5>3. ~(m <= Len(pipe[x])) => m - Len(pipe[x]) \in 1 .. e /\ m - Len(pipe[x]) \in 1 .. n
            BY <1>3, <1>6, <5>2
          <5> QED BY <1>2, <1>3, <5>1, <5>3
        <4>7. \A d \in Captures : d # c /\ d # x => q[d] = pipe[d] BY <1>2, <4>2
        <4>8. Loses(pipe, q, c, n) BY <1>7, <4>3 DEF Loses
        <4>9. Gets(pipe, q, c, x, e) BY <4>4, <4>6 DEF Gets
        <4>10. /\ c \in Captures /\ x \in Captures /\ x # c /\ n \in 0 .. Len(pipe[c]) /\ e \in 0 .. n
               /\ pipe \in [Captures -> Seq(Nat)] /\ Distinct(pipe, total)
          BY <1>2, <1>3, <1>4, <1>6, <2>2, <3>2
        <4>11. Distinct(q, total) BY <4>1, <4>7, <4>8, <4>9, <4>10, Passed
        <4> QED BY <4>11 DEF q
      <3> QED BY <2>3, <3>1, <3>2
    <2>5. Distinct(pipe', total') BY <1>1, <2>4
    <2> QED BY <2>3, <2>5 DEF PipeInv, Distinct
  <1>13. CASE UNCHANGED <<pipe, reader, pending>>
    BY <1>1, <1>13 DEF PipeInv, Distinct
  <1> QED BY <1>10, <1>11, <1>12, <1>13 DEF DrainChunk, c, k, n, chunk, text, rest

\* Every step keeps the pipes' bytes apart.
LEMMA StepPipe ==
  ASSUME CaptureTypeOK, DescInv, SinkInv, PipeInv, [Next]_vars, CaptureTypeOK'
  PROVE  PipeInv'
  <1>1. CASE UNCHANGED <<pipe, pending, buffered, reader, total>>
    BY <1>1 DEF PipeInv, Distinct
  <1>2. ASSUME NEW s \in Streams, Flush(s) PROVE PipeInv'
    <2>1. /\ pending' = [pending EXCEPT ![s] = <<>>] /\ UNCHANGED <<pipe, buffered, reader, total>>
      BY <1>2 DEF Flush, captureVars
    <2>2. \A r \in Streams : r \notin buffered => pending'[r] = <<>> BY <2>1 DEF PipeInv, CaptureTypeOK
    <2> QED BY <2>1, <2>2 DEF PipeInv, Distinct
  <1>3. ASSUME NEW c \in Captures, NEW k \in Sinks, NEW s \in Streams, Make(c, k, s) PROVE PipeInv'
    <2>1. UNCHANGED total BY <1>3 DEF Make
    <2>2. CASE UNCHANGED <<streamVars, captureVars>>
      BY <1>1, <2>1, <2>2 DEF streamVars, captureVars
    <2>3. CASE /\ reader' = reader \union {c} /\ Flushed(c, s)
               /\ pending' = [pending EXCEPT ![s] = <<>>]
               /\ buffered' = buffered \ {s}
      <3>1. \A r \in Streams : r \notin buffered' => pending'[r] = <<>> BY <2>3 DEF PipeInv, CaptureTypeOK
      <3>2. pipe' = pipe /\ \A d \in Captures : d \notin reader' => d \notin reader BY <2>3 DEF Flushed
      <3> QED BY <2>1, <3>1, <3>2 DEF PipeInv, Distinct
    <2> QED BY <1>3, <2>2, <2>3 DEF Make
  <1>4. CASE DrainEmpty
    <2>1. /\ pipe[draining] = <<>> /\ draining # None
          /\ UNCHANGED <<streamVars, total>>
      BY <1>4 DEF DrainEmpty
    <2>2. CASE Finish(draining)
      <3>1. pipe' = [pipe EXCEPT ![draining] = <<>>] /\ reader' = reader \ {draining} BY <2>2 DEF Finish
      <3>2. pipe' = pipe BY <2>1, <3>1 DEF CaptureTypeOK
      <3> QED BY <2>1, <3>1, <3>2 DEF PipeInv, Distinct, streamVars
    <2>3. CASE UNCHANGED <<phase, reader, pipe, draining>> BY <1>1, <2>1, <2>3 DEF streamVars
    <2> QED BY <1>4, <2>2, <2>3 DEF DrainEmpty
  <1>5. ASSUME NEW c \in Captures, End(c) \/ Destroy(c) PROVE PipeInv'
    BY <1>1, <1>5 DEF End, Destroy, streamVars
  <1>6. ASSUME NEW k \in Sinks, SinkMake(k) \/ SinkDestroy(k) PROVE PipeInv'
    BY <1>1, <1>6 DEF SinkMake, SinkDestroy, streamVars, captureVars
  <1>7. ASSUME NEW k \in Sinks, NEW n \in Capacities, SetBuffer(k, n) PROVE PipeInv'
    BY <1>1, <1>7 DEF SetBuffer, streamVars, captureVars
  <1>8. ASSUME NEW k \in Sinks, NEW s \in Streams, SetStream(k, s) PROVE PipeInv'
    BY <1>1, <1>8 DEF SetStream, streamVars, captureVars
  <1>9. ASSUME NEW s \in Streams, Emit(s) PROVE PipeInv'
    BY <1>9, EmitPipe
  <1>10. CASE UNCHANGED vars BY <1>1, <1>10 DEF vars, streamVars, captureVars
  <1> QED BY <1>2, <1>3, <1>4, <1>5, <1>6, <1>7, <1>8, <1>9, <1>10, DrainPipe DEF Next, Drain

\* At the start the pipes are empty.
LEMMA InitPipe == ASSUME Init PROVE PipeInv
  <1>1. \A c \in Captures : pipe[c] = <<>> /\ Len(pipe[c]) = 0 BY DEF Init
  <1>2. \A s \in Streams : pending[s] = <<>> BY DEF Init
  <1>3. Distinct(pipe, total) BY <1>1 DEF Distinct
  <1> QED BY <1>1, <1>2, <1>3 DEF PipeInv
-----------------------------------------------------------------------------
\* A write that blocks or kills: the reader of the pipe is open unless
\* captures were ended out of order.
LEMMA StuckExplained ==
  ASSUME CaptureTypeOK, DescInv, NEW s \in Streams, NEW bytes, Stuck(s, bytes)
  PROVE  /\ fd[s] \in Captures /\ fd[s] # draining
         /\ status' = "sigpipe" => disorder
         /\ status' = "write blocks" => Len(pipe[fd[s]] \o bytes) > PipeSize
         /\ status' \in {"sigpipe", "write blocks"}
  <1>1. fd[s] \in Captures /\ fd[s] # s BY CaptureAssumption DEF Stuck
  <1>2. fd[s] # draining BY DEF DescInv, LinkInv
  <1>3. CASE fd[s] \notin reader /\ status' = "sigpipe"
    <2>1. saved[fd[s]] = Closed BY <1>1, <1>3 DEF DescInv, LifeInv
    <2>2. disorder BY <1>1, <2>1 DEF DescInv, StackInv
    <2> QED BY <1>1, <1>2, <1>3, <2>2
  <1>4. CASE Len(pipe[fd[s]] \o bytes) > PipeSize /\ status' = "write blocks"
    BY <1>1, <1>2, <1>4
  <1> QED BY <1>3, <1>4 DEF Stuck, Stops

\* Nobody waits for what the program has not written.
LEMMA StepHang ==
  ASSUME CaptureTypeOK, DescInv, SinkInv, PipeInv, HangExplained, [Next]_vars
  PROVE  HangExplained'
  <1>1. total \in Nat /\ PipeSize \in Nat /\ pipe \in [Captures -> Seq(Nat)] /\ Distinct(pipe, total)
    <2>1. PipeSize \in Nat /\ MaxBytes \in Nat BY CaptureAssumption
    <2>2. total \in 0 .. MaxBytes /\ pipe \in [Captures -> Seq(Nat)] BY DEF CaptureTypeOK
    <2>3. total \in Nat BY <2>1, <2>2
    <2> QED BY <2>1, <2>2, <2>3 DEF PipeInv
  <1>2. CASE status' = "ok" \/ status' = "exit" \/ status' = "null stream" BY <1>2 DEF HangExplained
  <1>3. CASE UNCHANGED <<status, total, disorder>> BY <1>3 DEF HangExplained
  <1>4. ASSUME NEW s \in Streams, Emit(s) PROVE HangExplained'
    <2>1. status = "ok" /\ total' = total + 1 /\ disorder' = disorder BY <1>4 DEF Emit, Idle
    <2>2. CASE Goes(s, <<total + 1>>, pipe)
      <3>1. status' = "ok" BY <2>1, <2>2 DEF Goes
      <3> QED BY <1>2, <3>1
    <2>3. CASE Stuck(s, <<total + 1>>)
      <3> DEFINE x == fd[s]
      <3>1. /\ x \in Captures /\ status' \in {"sigpipe", "write blocks"}
            /\ status' = "sigpipe" => disorder
            /\ status' = "write blocks" => Len(pipe[x] \o <<total + 1>>) > PipeSize
        BY <2>3, StuckExplained
      <3> HIDE DEF x
      <3>2. Len(pipe[x] \o <<total + 1>>) = Len(pipe[x]) + 1 /\ Len(pipe[x]) \in Nat
        <4>1. <<total + 1>> \in Seq(Nat) /\ Len(<<total + 1>>) = 1 BY <1>1
        <4>2. pipe[x] \in Seq(Nat) BY <1>1, <3>1
        <4>3. Len(pipe[x]) \in Nat BY <4>2, LenProperties
        <4> QED BY <4>1, <4>2, <4>3, ConcatProperties
      <3>3. Len(pipe[x]) <= total BY <1>1, <3>1, OnePipe
      <3>4. Len(pipe[x] \o <<total + 1>>) > PipeSize => total + 1 > PipeSize BY <1>1, <3>2, <3>3
      <3> QED BY <2>1, <3>1, <3>4 DEF HangExplained
    <2> QED BY <1>4, <2>2, <2>3 DEF Emit
  <1>5. CASE DrainChunk
    <2> DEFINE c == draining
               k == target[c]
               n == Smaller(Len(pipe[c]), ReadSize)
               chunk == SubSeq(pipe[c], 1, n)
               text == CString(chunk)
               rest == [pipe EXCEPT ![c] = SubSeq(@, n + 1, Len(@))]
    <2>1. /\ status = "ok" /\ draining # None /\ pipe[draining] # <<>>
          /\ UNCHANGED <<total, disorder>>
      BY <1>5 DEF DrainChunk
    <2>2. /\ c \in Captures /\ k \in Sinks /\ n \in 1 .. Len(pipe[c])
          /\ chunk \in Seq(Nat) /\ Len(chunk) = n
      BY <2>1, DrainFacts
    <2>3. PICK e \in 0 .. n : text \in Seq(Nat) /\ Len(text) = e
      <3> HIDE DEF chunk, n
      <3> QED BY <2>2, CStringEnds
    <2>4. CASE kind[k] = "str" /\ Stuck(stream[k], text)
      <3> DEFINE s == stream[k]
                 x == fd[s]
      <3>1. s \in Streams BY <2>2, <2>4 DEF SinkInv
      <3>2. Stuck(s, text) BY <2>4
      <3> HIDE DEF s, text
      <3>3. /\ x \in Captures /\ x # draining /\ status' \in {"sigpipe", "write blocks"}
            /\ status' = "sigpipe" => disorder
            /\ status' = "write blocks" => Len(pipe[x] \o text) > PipeSize
        BY <3>1, <3>2, StuckExplained
      <3> HIDE DEF x, n
      <3>4. Len(pipe[x] \o text) = Len(pipe[x]) + e /\ Len(pipe[x]) \in Nat
        <4>1. pipe[x] \in Seq(Nat) BY <1>1, <3>3
        <4>2. Len(pipe[x]) \in Nat BY <4>1, LenProperties
        <4> QED BY <2>3, <4>1, <4>2, ConcatProperties
      <3>5. Len(pipe[x]) + Len(pipe[c]) <= total BY <1>1, <2>2, <3>3, TwoPipes
      <3>6. Len(pipe[c]) \in Nat BY <1>1, <2>2
      <3>7. Len(pipe[x]) + e <= total BY <1>1, <2>2, <3>4, <3>5, <3>6
      <3>8. Len(pipe[x] \o text) > PipeSize => total > PipeSize BY <1>1, <3>4, <3>7
      <3> QED BY <2>1, <3>3, <3>8 DEF HangExplained
    <2>5. CASE UNCHANGED status BY <1>3, <2>1, <2>5
    <2>6. CASE Goes(stream[k], text, rest)
      <3>1. status' = status BY <2>6 DEF Goes
      <3> QED BY <2>5, <3>1
    <2>7. CASE Stops("null stream") BY <1>2, <2>7 DEF Stops
    <2> QED BY <1>5, <2>4, <2>5, <2>6, <2>7 DEF DrainChunk
  <1>6. CASE DrainEmpty
    <2>1. status = "ok" /\ draining # None /\ UNCHANGED <<total, disorder>> BY <1>6 DEF DrainEmpty
    <2>2. CASE UNCHANGED status BY <1>3, <2>1, <2>2
    <2>3. CASE Writers(draining) # {} /\ Stops("read blocks")
      <3>1. draining \in Captures /\ saved[draining] = Closed
        BY <2>1 DEF CaptureTypeOK, DescInv, LifeInv
      <3>2. \A s \in Streams : fd[s] # draining BY DEF DescInv, LinkInv
      <3>3. PICK d \in Captures : saved[d] = draining BY <2>3, <3>2 DEF Writers
      <3>4. disorder BY <3>1, <3>3 DEF DescInv, StackInv
      <3> QED BY <2>1, <2>3, <3>4 DEF Stops, HangExplained
    <2> QED BY <1>6, <2>2, <2>3 DEF DrainEmpty
  <1>7. ASSUME NEW s \in Streams, Flush(s) PROVE HangExplained'
    BY <1>3, <1>7 DEF Flush
  <1>8. ASSUME NEW c \in Captures, NEW k \in Sinks, NEW s \in Streams, Make(c, k, s) PROVE HangExplained'
    BY <1>2, <1>3, <1>8 DEF Make, Stops
  <1>9. ASSUME NEW c \in Captures, End(c) \/ Destroy(c) PROVE HangExplained'
    <2>1. status' = "ok" BY <1>9 DEF End, Destroy, Idle
    <2> QED BY <1>2, <2>1
  <1>10. ASSUME NEW k \in Sinks, SinkMake(k) \/ SinkDestroy(k) PROVE HangExplained'
    BY <1>3, <1>10 DEF SinkMake, SinkDestroy
  <1>11. ASSUME NEW k \in Sinks, NEW n \in Capacities, SetBuffer(k, n) PROVE HangExplained'
    BY <1>3, <1>11 DEF SetBuffer
  <1>12. ASSUME NEW k \in Sinks, NEW s \in Streams, SetStream(k, s) PROVE HangExplained'
    BY <1>3, <1>12 DEF SetStream
  <1>13. CASE UNCHANGED vars BY <1>3, <1>13 DEF vars
  <1> QED BY <1>4, <1>5, <1>6, <1>7, <1>8, <1>9, <1>10, <1>11, <1>12, <1>13 DEF Next, Drain
-----------------------------------------------------------------------------
\* The bytes that are for a stream's own file, written or still buffered.
Shown == [s \in Streams |-> file[s] \o pending[s]]

\* What the abstract specification sees, but for what sinks are given.
SameView == UNCHANGED <<fd, saved, pipe, disorder>> /\ Shown' = Shown

\* A write goes to the innermost capture, or is for the file.
LEMMA GoesShown ==
  ASSUME CaptureTypeOK, DescInv, PipeInv, NEW s \in Streams, NEW bytes \in Seq(Nat),
         NEW pipes \in [Captures -> Seq(Nat)], Goes(s, bytes, pipes)
  PROVE  \/ fd[s] = s /\ Shown' = [Shown EXCEPT ![s] = @ \o bytes] /\ pipe' = pipes
         \/ fd[s] # s /\ Shown' = Shown /\ pipe' = [pipes EXCEPT ![fd[s]] = @ \o bytes]
  <1>1. /\ pending \in [Streams -> Seq(Nat)] /\ file \in [Streams -> Seq(Nat)]
        /\ s \notin buffered => pending[s] = <<>>
        /\ s \in buffered => fd[s] = s
        /\ fd[s] # s => fd[s] \in Captures
        /\ pending[s] \in Seq(Nat) /\ file[s] \in Seq(Nat)
    BY DEF CaptureTypeOK, DescInv, LinkInv, PipeInv
  <1>2. CASE bytes = <<>> /\ pipe' = pipes /\ UNCHANGED <<pending, file, status>>
    <2>1. Shown' = Shown BY <1>2 DEF Shown
    <2>2. CASE fd[s] = s
      <3>1. Shown[s] \in Seq(Nat) BY <1>1, ConcatProperties DEF Shown
      <3>2. Shown[s] \o bytes = Shown[s] BY <1>2, <3>1, ConcatEmptySeq
      <3>3. [Shown EXCEPT ![s] = @ \o bytes] = Shown BY <3>2 DEF Shown
      <3> QED BY <1>2, <2>1, <2>2, <3>3
    <2>3. CASE fd[s] # s
      <3>1. pipes[fd[s]] \in Seq(Nat) BY <1>1, <2>3
      <3>2. pipes[fd[s]] \o bytes = pipes[fd[s]] BY <1>2, <3>1, ConcatEmptySeq
      <3>3. [pipes EXCEPT ![fd[s]] = @ \o bytes] = pipes BY <3>2
      <3> QED BY <1>2, <2>1, <2>3, <3>3
    <2> QED BY <2>2, <2>3
  <1>3. CASE /\ s \in buffered /\ pending' = [pending EXCEPT ![s] = @ \o bytes]
             /\ pipe' = pipes /\ UNCHANGED <<file, status>>
    <2>1. (file[s] \o pending[s]) \o bytes = file[s] \o (pending[s] \o bytes)
      BY <1>1, ConcatAssociative
    <2>2. \A r \in Streams : file'[r] \o pending'[r] =
            IF r = s THEN (file[s] \o pending[s]) \o bytes ELSE file[r] \o pending[r]
      BY <1>1, <1>3, <2>1
    <2>3. Shown' = [Shown EXCEPT ![s] = @ \o bytes] BY <2>2 DEF Shown
    <2> QED BY <1>1, <1>3, <2>3
  <1>4. CASE /\ s \notin buffered /\ fd[s] \in Streams /\ file' = [file EXCEPT ![fd[s]] = @ \o bytes]
             /\ pipe' = pipes /\ UNCHANGED <<pending, status>>
    <2>1. fd[s] = s BY <1>1, <1>4, CaptureAssumption
    <2>2. pending[s] = <<>> BY <1>1, <1>4
    <2>3. file[s] \o bytes \in Seq(Nat) BY <1>1, ConcatProperties
    <2>4. (file[s] \o bytes) \o <<>> = file[s] \o bytes /\ file[s] \o <<>> = file[s]
      BY <1>1, <2>3, ConcatEmptySeq
    <2>5. \A r \in Streams : file'[r] \o pending'[r] =
            IF r = s THEN (file[s] \o pending[s]) \o bytes ELSE file[r] \o pending[r]
      BY <1>1, <1>4, <2>1, <2>2, <2>4
    <2>6. Shown' = [Shown EXCEPT ![s] = @ \o bytes] BY <2>5 DEF Shown
    <2> QED BY <1>4, <2>1, <2>6
  <1>5. CASE /\ fd[s] \in reader /\ pipe' = [pipes EXCEPT ![fd[s]] = @ \o bytes]
             /\ UNCHANGED <<pending, file, status>>
    <2>1. fd[s] # s BY <1>5, CaptureAssumption DEF CaptureTypeOK
    <2> QED BY <1>5, <2>1 DEF Shown
  <1> QED BY <1>2, <1>3, <1>4, <1>5 DEF Goes

\* Flushing shows nothing new.
LEMMA FlushShown ==
  ASSUME CaptureTypeOK, NEW s \in Streams,
         file' = [file EXCEPT ![s] = @ \o pending[s]], pending' = [pending EXCEPT ![s] = <<>>]
  PROVE  Shown' = Shown
  <1>1. /\ pending \in [Streams -> Seq(Nat)] /\ file \in [Streams -> Seq(Nat)]
        /\ pending[s] \in Seq(Nat) /\ file[s] \in Seq(Nat)
    BY DEF CaptureTypeOK
  <1>2. file[s] \o pending[s] \in Seq(Nat) BY <1>1, ConcatProperties
  <1>3. (file[s] \o pending[s]) \o <<>> = file[s] \o pending[s] BY <1>2, ConcatEmptySeq
  <1>4. \A r \in Streams : file'[r] \o pending'[r] = file[r] \o pending[r] BY <1>1, <1>3
  <1> QED BY <1>4 DEF Shown

\* The length of a sink's store is the limit of what it takes.
Limit == [k \in Sinks |-> Capacity(k)]

RedirectionStep == [Promise!RedirectionNext]_(Promise!rvars)

\* A step that the abstract specification does not see.
LEMMA Unseen ==
  ASSUME SameView, UNCHANGED given, Limit' = Limit
  PROVE  RedirectionStep
  BY DEF RedirectionStep, Promise!rvars, SameView, Shown, Limit

\* The program's own byte.
LEMMA EmitMaps ==
  ASSUME CaptureTypeOK, DescInv, PipeInv, NEW s \in Streams, Emit(s)
  PROVE  RedirectionStep
  <1>1. /\ UNCHANGED <<fd, saved, given, disorder, store>> BY DEF Emit, sinkVars
  <1>2. Limit' = Limit BY <1>1 DEF Limit, Capacity
  <1>3. total + 1 \in 1 .. MaxBytes /\ <<total + 1>> \in Seq(Nat)
    <2>1. MaxBytes \in Nat BY CaptureAssumption
    <2>2. total \in 0 .. MaxBytes BY DEF CaptureTypeOK
    <2>3. total < MaxBytes BY DEF Emit
    <2> QED BY <2>1, <2>2, <2>3
  <1>4. CASE Stuck(s, <<total + 1>>) /\ UNCHANGED <<pending, file, pipe>>
    <2>1. SameView BY <1>1, <1>4 DEF SameView, Shown
    <2> QED BY <1>1, <1>2, <2>1, Unseen
  <1>5. CASE Goes(s, <<total + 1>>, pipe)
    <2>1. pipe \in [Captures -> Seq(Nat)] BY DEF CaptureTypeOK
    <2>2. \/ fd[s] = s /\ Shown' = [Shown EXCEPT ![s] = @ \o <<total + 1>>] /\ pipe' = pipe
          \/ fd[s] # s /\ Shown' = Shown /\ pipe' = [pipe EXCEPT ![fd[s]] = @ \o <<total + 1>>]
      BY <1>3, <1>5, <2>1, GoesShown
    <2>3. \E b \in 1 .. MaxBytes :
            \/ fd[s] = s /\ Shown' = [Shown EXCEPT ![s] = @ \o <<b>>] /\ pipe' = pipe
            \/ fd[s] # s /\ Shown' = Shown /\ pipe' = [pipe EXCEPT ![fd[s]] = @ \o <<b>>]
      BY <1>3, <2>2
    <2>4. Promise!Emit(s) BY <1>1, <1>2, <2>3 DEF Promise!Emit, Promise!Put, Limit, Shown
    <2> QED BY <2>4 DEF RedirectionStep, Promise!RedirectionNext
  <1> QED BY <1>4, <1>5 DEF Emit

\* A chunk for a buffer.
LEMMA HandMaps ==
  ASSUME CaptureTypeOK, DescInv, SinkInv, draining # None, pipe[draining] # <<>>,
         NEW k, k = target[draining], NEW n, n = Smaller(Len(pipe[draining]), ReadSize),
         NEW chunk, chunk = SubSeq(pipe[draining], 1, n),
         stored[k] < Capacity(k),
         store' = [store EXCEPT ![k] = Copied(k, CString(chunk))],
         given' = [given EXCEPT ![k] = @ \o SubSeq(chunk, 1, Smaller(n, Capacity(k) - stored[k]))],
         pipe' = [pipe EXCEPT ![draining] = SubSeq(@, n + 1, Len(@))],
         UNCHANGED <<fd, saved, file, pending, disorder>>
  PROVE  RedirectionStep
  <1> DEFINE c == draining
             cap == Capacity(k)
             had == stored[k]
             took == Smaller(n, cap - had)
  <1>1. /\ c \in Captures /\ k \in Sinks /\ pipe[c] \in Seq(Nat) /\ n \in 1 .. Len(pipe[c])
        /\ chunk \in Seq(Nat) /\ Len(chunk) = n /\ \A m \in 1 .. n : chunk[m] = pipe[c][m]
    BY DrainFacts
  <1>2. cap \in Nat /\ had \in Nat /\ had < cap /\ Len(pipe[c]) \in Nat /\ n \in Nat
    <2>1. store[k] \in Seq(Nat) /\ stored[k] \in Nat BY <1>1 DEF CaptureTypeOK
    <2>2. cap \in Nat /\ Len(pipe[c]) \in Nat BY <1>1, <2>1, LenProperties DEF Capacity
    <2> QED BY <1>1, <2>1, <2>2
  <1>3. /\ took \in 0 .. n /\ (took < n => had + took = cap)
    <2> HIDE DEF cap, had
    <2> QED BY <1>2, Cut
  <1>4. Len(given[k]) = had BY <1>1, <1>2 DEF SinkInv, Smaller
  <1>5. Limit' = Limit
    <2>1. Len(Copied(k, CString(chunk))) = Capacity(k) BY <1>1, CopiedHolds
    <2>2. ASSUME NEW l \in Sinks PROVE Len(store'[l]) = Len(store[l])
      <3>1. CASE l = k BY <1>1, <2>1, <3>1 DEF CaptureTypeOK, Capacity
      <3>2. CASE l # k BY <3>2 DEF CaptureTypeOK
      <3> QED BY <3>1, <3>2
    <2> QED BY <2>2 DEF Limit, Capacity
  <1>6. saved[c] = Closed BY <1>1 DEF DescInv, LifeInv
  <1> HIDE DEF took, had, cap
  <1>7. SubSeq(chunk, 1, took) = SubSeq(pipe[c], 1, took)
    <2>1. took \in 0 .. Len(chunk) /\ took \in 0 .. Len(pipe[c]) BY <1>1, <1>2, <1>3
    <2>2. /\ SubSeq(chunk, 1, took) \in Seq(Nat) /\ Len(SubSeq(chunk, 1, took)) = took
          /\ \A m \in 1 .. took : SubSeq(chunk, 1, took)[m] = chunk[m]
      BY <1>1, <2>1, Taken
    <2>3. /\ SubSeq(pipe[c], 1, took) \in Seq(Nat) /\ Len(SubSeq(pipe[c], 1, took)) = took
          /\ \A m \in 1 .. took : SubSeq(pipe[c], 1, took)[m] = pipe[c][m]
      BY <1>1, <2>1, Taken
    <2>4. \A m \in 1 .. took : m \in 1 .. n BY <1>2, <1>3
    <2> QED BY <1>1, <2>2, <2>3, <2>4, SeqEqual
  <1>8. given' = [given EXCEPT ![k] = @ \o SubSeq(pipe[c], 1, took)]
    BY <1>7 DEF took, cap, had
  <1>9. took < n => Len(given'[k]) = Limit[k]
    <2>1. given[k] \in Seq(Nat) /\ given'[k] = given[k] \o SubSeq(pipe[c], 1, took)
      BY <1>1, <1>8 DEF CaptureTypeOK
    <2>2. took \in 0 .. Len(pipe[c]) BY <1>1, <1>2, <1>3
    <2>3. SubSeq(pipe[c], 1, took) \in Seq(Nat) /\ Len(SubSeq(pipe[c], 1, took)) = took
      BY <1>1, <2>2, Taken
    <2>4. Len(given'[k]) = had + took
      <3> DEFINE bytes == SubSeq(pipe[c], 1, took)
      <3>1. bytes \in Seq(Nat) /\ Len(bytes) = took /\ given'[k] = given[k] \o bytes BY <2>1, <2>3
      <3> HIDE DEF bytes
      <3>2. Len(given[k] \o bytes) = Len(given[k]) + Len(bytes) BY <2>1, <3>1, ConcatProperties
      <3> QED BY <1>4, <3>1, <3>2
    <2>5. Limit[k] = cap BY <1>1 DEF Limit, cap
    <2> QED BY <1>3, <2>4, <2>5
  <1>10. pipe' = [pipe EXCEPT ![c] = Promise!Drop(@, n)] BY DEF Promise!Drop
  <1>11. \E taken \in 0 .. n :
           /\ given' = [given EXCEPT ![k] = @ \o SubSeq(pipe[c], 1, taken)]
           /\ taken < n => Len(given'[k]) = Limit[k]
    BY <1>3, <1>8, <1>9
  <1>12. Promise!Hand(c, k, n)
    BY <1>5, <1>6, <1>10, <1>11 DEF Promise!Hand, Limit
  <1> QED BY <1>1, <1>12 DEF RedirectionStep, Promise!RedirectionNext

\* A full buffer.
LEMMA WasteMaps ==
  ASSUME CaptureTypeOK, DescInv, SinkInv, draining # None,
         stored[target[draining]] >= Capacity(target[draining]), Finish(draining),
         UNCHANGED <<fd, saved, store, given, pending, file, disorder>>
  PROVE  RedirectionStep
  <1> DEFINE c == draining
             k == target[c]
             cap == Capacity(k)
             had == stored[k]
  <1>1. /\ c \in Captures /\ k \in Sinks /\ saved[c] = Closed BY DEF CaptureTypeOK, DescInv, LifeInv
  <1>2. cap \in Nat /\ had \in Nat
    <2>1. store[k] \in Seq(Nat) /\ stored[k] \in Nat BY <1>1 DEF CaptureTypeOK
    <2> QED BY <2>1, LenProperties DEF Capacity
  <1>3. Len(given[k]) = cap
    <2>1. Len(given[k]) = Smaller(had, cap) BY <1>1 DEF SinkInv
    <2>2. had >= cap OBVIOUS
    <2> HIDE DEF had, cap
    <2> QED BY <1>2, <2>1, <2>2 DEF Smaller
  <1>4. pipe' = [pipe EXCEPT ![c] = <<>>] BY DEF Finish
  <1>5. Limit' = Limit /\ Len(given[k]) = Limit[k] BY <1>1, <1>3 DEF Limit, Capacity
  <1> HIDE DEF c, k
  <1>6. Promise!Waste(c, k) BY <1>1, <1>4, <1>5 DEF Promise!Waste, Limit
  <1> QED BY <1>1, <1>6 DEF RedirectionStep, Promise!RedirectionNext

\* A chunk that is printed again.
LEMMA PassMaps ==
  ASSUME CaptureTypeOK, DescInv, SinkInv, PipeInv, draining # None, pipe[draining] # <<>>,
         NEW k, k = target[draining], NEW n, n = Smaller(Len(pipe[draining]), ReadSize),
         NEW chunk, chunk = SubSeq(pipe[draining], 1, n), kind[k] = "str",
         Goes(stream[k], CString(chunk), [pipe EXCEPT ![draining] = SubSeq(@, n + 1, Len(@))]),
         UNCHANGED <<fd, saved, store, given, disorder>>
  PROVE  RedirectionStep
  <1> DEFINE c == draining
             s == stream[k]
             rest == [pipe EXCEPT ![c] = SubSeq(@, n + 1, Len(@))]
             text == CString(chunk)
  <1>1. /\ c \in Captures /\ k \in Sinks /\ pipe[c] \in Seq(Nat) /\ n \in 1 .. Len(pipe[c])
        /\ chunk \in Seq(Nat) /\ Len(chunk) = n /\ \A m \in 1 .. n : chunk[m] = pipe[c][m]
        /\ rest \in [Captures -> Seq(Nat)]
    BY DrainFacts
  <1>2. s \in Streams BY <1>1 DEF SinkInv
  <1>3. saved[c] = Closed /\ fd[s] # c BY <1>1, <1>2 DEF DescInv, LifeInv, LinkInv
  <1>4. PICK e \in 0 .. n :
          /\ text \in Seq(Nat) /\ Len(text) = e /\ \A m \in 1 .. e : text[m] = chunk[m]
          /\ e < n => Ends(chunk[e + 1])
    <2>1. chunk \in Seq(Nat) /\ Len(chunk) = n BY <1>1
    <2>2. \E e \in 0 .. Len(chunk) :
            /\ text \in Seq(Nat) /\ Len(text) = e /\ \A m \in 1 .. e : text[m] = chunk[m]
            /\ e < Len(chunk) => Ends(chunk[e + 1])
      <3>1. PICK e \in 0 .. Len(chunk) :
              /\ CString(chunk) \in Seq(Nat) /\ Len(CString(chunk)) = e
              /\ \A m \in 1 .. e : CString(chunk)[m] = chunk[m] /\ ~Ends(chunk[m])
              /\ e < Len(chunk) => Ends(chunk[e + 1])
        BY <2>1, CStringEnds, Zenon
      <3> QED BY <3>1
    <2> QED BY <2>1, <2>2
  <1>5. Len(pipe[c]) \in Nat /\ n \in Nat
    <2>1. Len(pipe[c]) \in Nat BY <1>1, LenProperties
    <2> QED BY <1>1, <2>1
  <1>6. \A m \in 1 .. Len(pipe[c]) : pipe[c][m] \in 1 .. total
    BY <1>1 DEF PipeInv, Distinct
  <1>7. Goes(s, text, rest) OBVIOUS
  <1>8. rest = [pipe EXCEPT ![c] = Promise!Drop(@, n)] BY DEF Promise!Drop
  <1> HIDE DEF c, s, rest, text
  <1>9. \/ fd[s] = s /\ Shown' = [Shown EXCEPT ![s] = @ \o text] /\ pipe' = rest
        \/ fd[s] # s /\ Shown' = Shown /\ pipe' = [rest EXCEPT ![fd[s]] = @ \o text]
    <2>1. s \in Streams /\ text \in Seq(Nat) /\ rest \in [Captures -> Seq(Nat)] /\ Goes(s, text, rest)
      BY <1>1, <1>2, <1>4, <1>7
    <2> QED BY <2>1, GoesShown
  <1>10. text = SubSeq(pipe[c], 1, e)
    <2>1. e \in 0 .. Len(pipe[c]) BY <1>1, <1>4, <1>5
    <2>2. /\ SubSeq(pipe[c], 1, e) \in Seq(Nat) /\ Len(SubSeq(pipe[c], 1, e)) = e
          /\ \A m \in 1 .. e : SubSeq(pipe[c], 1, e)[m] = pipe[c][m]
      BY <1>1, <2>1, Taken
    <2>3. \A m \in 1 .. e : m \in 1 .. n BY <1>4, <1>5
    <2>4. \A m \in 1 .. e : text[m] = SubSeq(pipe[c], 1, e)[m] BY <1>1, <1>4, <2>2, <2>3
    <2> QED BY <1>4, <2>2, <2>4, SeqEqual
  <1>11. e < n => pipe[c][e + 1] \in Nuls
    <2> SUFFICES ASSUME e < n PROVE pipe[c][e + 1] \in Nuls
      OBVIOUS
    <2>1. e + 1 \in 1 .. n /\ e + 1 \in 1 .. Len(pipe[c]) BY <1>1, <1>4, <1>5
    <2>2. Ends(pipe[c][e + 1]) BY <1>1, <1>4, <2>1
    <2>3. pipe[c][e + 1] # NulByte BY <1>6, <2>1 DEF NulByte
    <2> QED BY <2>2, <2>3 DEF Ends
  <1>12. UNCHANGED <<fd, saved, given, disorder>> /\ Limit' = Limit BY DEF Limit, Capacity
  <1>13. Promise!Pass(c, s, n)
    <2> DEFINE bytes == SubSeq(pipe[c], 1, e)
               left == [pipe EXCEPT ![c] = Promise!Drop(@, n)]
    <2>1. \/ /\ fd[s] = s
             /\ Shown' = [Shown EXCEPT ![s] = @ \o bytes]
             /\ pipe' = left
          \/ /\ fd[s] # s
             /\ pipe' = [left EXCEPT ![fd[s]] = @ \o bytes]
             /\ Shown' = Shown
      BY <1>8, <1>9, <1>10
    <2> QED BY <1>3, <1>4, <1>11, <1>12, <2>1 DEF Promise!Pass, Shown, Limit
  <1> QED BY <1>1, <1>2, <1>13 DEF RedirectionStep, Promise!RedirectionNext

\* A new capture is opened on top, the top one is closed.
LEMMA MakeEndMaps ==
  ASSUME CaptureTypeOK, DescInv, PipeInv, NEW c \in Captures, ~disorder',
         \/ \E k \in Sinks, s \in Streams : Make(c, k, s)
         \/ End(c)
  PROVE  RedirectionStep
  <1>1. ASSUME NEW k \in Sinks, NEW s \in Streams, Make(c, k, s) PROVE RedirectionStep
    <2>1. UNCHANGED <<given, store, disorder>> /\ phase[c] = "none" BY <1>1 DEF Make, sinkVars
    <2>2. Limit' = Limit BY <2>1 DEF Limit, Capacity
    <2>3. CASE UNCHANGED <<streamVars, captureVars>>
      <3>1. SameView BY <2>1, <2>3 DEF SameView, streamVars, captureVars, Shown
      <3> QED BY <2>1, <2>2, <3>1, Unseen
    <2>4. CASE /\ saved' = [saved EXCEPT ![c] = fd[s]]
               /\ fd' = [fd EXCEPT ![s] = c]
               /\ Flushed(c, s)
               /\ pending' = [pending EXCEPT ![s] = <<>>]
      <3>1. saved[c] = Closed /\ pipe[c] = <<>> BY <2>1 DEF DescInv, LifeInv, PipeInv
      <3>2. pipe' = pipe /\ file' = [file EXCEPT ![s] = @ \o pending[s]] BY <2>4 DEF Flushed
      <3>3. Shown' = Shown BY <2>4, <3>2, FlushShown
      <3>4. Promise!Open(c, s) BY <2>1, <2>2, <2>4, <3>1, <3>2, <3>3 DEF Promise!Open, Shown, Limit
      <3> QED BY <3>4 DEF RedirectionStep, Promise!RedirectionNext
    <2> QED BY <1>1, <2>3, <2>4 DEF Make
  <1>2. CASE End(c)
    <2>1. UNCHANGED <<given, store, file, pending, pipe>> /\ phase[c] = "capturing" BY <1>2 DEF End, sinkVars
    <2>2. Limit' = Limit /\ Shown' = Shown BY <2>1 DEF Limit, Capacity, Shown
    <2>3. CASE UNCHANGED <<fd, saved, draining, disorder>>
      <3>1. SameView BY <2>1, <2>2, <2>3 DEF SameView
      <3> QED BY <2>1, <2>2, <3>1, Unseen
    <2>4. CASE /\ fd' = [fd EXCEPT ![source[c]] = saved[c]] /\ SavedClosed(c)
               /\ disorder' = (disorder \/ fd[source[c]] # c)
      <3>1. source[c] \in Streams BY <2>1 DEF DescInv, LifeInv
      <3>2. fd[source[c]] = c /\ ~disorder BY <2>4
      <3>3. saved' = [saved EXCEPT ![c] = Closed] BY <2>4 DEF SavedClosed
      <3>4. disorder' = disorder BY <3>2, <2>4 DEF CaptureTypeOK
      <3>5. Promise!Close(c, source[c])
        BY <2>1, <2>2, <2>4, <3>2, <3>3, <3>4 DEF Promise!Close, Shown, Limit
      <3> QED BY <3>1, <3>5 DEF RedirectionStep, Promise!RedirectionNext
    <2> QED BY <1>2, <2>3, <2>4 DEF End
  <1> QED BY <1>1, <1>2

\* Once captures are ended out of order nothing is promised any more.
LEMMA VoidMaps ==
  ASSUME CaptureTypeOK, DescInv, [Next]_vars, disorder'
  PROVE  RedirectionStep
  <1>1. CASE disorder BY <1>1 DEF RedirectionStep, Promise!RedirectionNext
  <1>2. CASE ~disorder
    <2>1. PICK c \in Captures : End(c)
      BY <1>2 DEF Next, Drain, Emit, Flush, SetBuffer, SetStream, SinkMake, SinkDestroy, Make, Destroy,
                  DrainChunk, DrainEmpty, vars
    <2>2. /\ phase[c] = "capturing" /\ draining # c /\ fd[source[c]] # c
      BY <1>2, <2>1, CaptureAssumption DEF End, Idle
    <2>3. saved[c] # Closed /\ source[c] \in Streams BY <2>2 DEF DescInv, LifeInv
    <2>4. Promise!CloseOutOfOrder(c, source[c]) BY <2>2, <2>3 DEF Promise!CloseOutOfOrder
    <2> QED BY <2>3, <2>4 DEF RedirectionStep, Promise!RedirectionNext
  <1> QED BY <1>1, <1>2 DEF CaptureTypeOK

\* Every step is one that captures promise.
LEMMA StepMaps ==
  ASSUME CaptureTypeOK, DescInv, SinkInv, PipeInv, [Next]_vars, CaptureTypeOK'
  PROVE  RedirectionStep
  <1>0. CASE disorder' BY <1>0, VoidMaps
  <1>1. CASE ~disorder'
    <2>1. ASSUME SameView, UNCHANGED <<given, store>> PROVE RedirectionStep
      <3>1. Limit' = Limit BY <2>1 DEF Limit, Capacity
      <3> QED BY <2>1, <3>1, Unseen
    <2>2. ASSUME NEW s \in Streams, Flush(s) PROVE RedirectionStep
      <3>1. Shown' = Shown BY <2>2, FlushShown DEF Flush
      <3>2. SameView BY <2>2, <3>1 DEF Flush, captureVars, SameView
      <3> QED BY <2>1, <2>2, <3>2 DEF Flush, sinkVars
    <2>3. ASSUME NEW k \in Sinks, NEW n \in Capacities, SetBuffer(k, n) PROVE RedirectionStep
      <3> DEFINE blank == [m \in 1 .. n |-> NulByte]
      <3>1. n \in Nat BY CaptureAssumption
      <3>2. blank \in [1 .. n -> Nat] BY DEF NulByte
      <3>3. Len(blank) = n BY <3>1, <3>2, SeqDef
      <3>4. /\ store' = [store EXCEPT ![k] = blank] /\ given' = [given EXCEPT ![k] = <<>>]
            /\ UNCHANGED <<streamVars, captureVars, disorder>>
        BY <2>3 DEF SetBuffer
      <3> HIDE DEF blank
      <3>5. Limit' = [Limit EXCEPT ![k] = n]
        <4>1. ASSUME NEW l \in Sinks PROVE Len(store'[l]) = IF l = k THEN n ELSE Len(store[l])
          BY <3>3, <3>4 DEF CaptureTypeOK
        <4> QED BY <4>1 DEF Limit, Capacity
      <3>6. Shown' = Shown BY <3>4 DEF streamVars, Shown
      <3>7. Promise!Renew(k)
        BY <3>4, <3>5, <3>6 DEF Promise!Renew, streamVars, captureVars, Shown, Limit
      <3> QED BY <3>7 DEF RedirectionStep, Promise!RedirectionNext
    <2>4. ASSUME NEW k \in Sinks, NEW s \in Streams, SetStream(k, s) PROVE RedirectionStep
      BY <2>1, <2>4 DEF SetStream, SameView, Shown, streamVars, captureVars
    <2>5. ASSUME NEW k \in Sinks, SinkMake(k) \/ SinkDestroy(k) PROVE RedirectionStep
      BY <2>1, <2>5 DEF SinkMake, SinkDestroy, SameView, Shown, streamVars, captureVars
    <2>6. ASSUME NEW c \in Captures, Destroy(c) PROVE RedirectionStep
      BY <2>1, <2>6 DEF Destroy, SameView, Shown, streamVars, sinkVars
    <2>7. CASE DrainEmpty
      <3>1. /\ pipe[draining] = <<>> /\ UNCHANGED <<streamVars, saved, sinkVars, disorder>>
        BY <2>7 DEF DrainEmpty
      <3>2. pipe' = pipe
        <4>1. CASE Finish(draining)
          <5>1. pipe' = [pipe EXCEPT ![draining] = <<>>] BY <4>1 DEF Finish
          <5>2. pipe \in [Captures -> Seq(Nat)] BY DEF CaptureTypeOK
          <5> QED BY <3>1, <5>1, <5>2
        <4>2. CASE UNCHANGED <<phase, reader, pipe, draining>> BY <4>2
        <4> QED BY <2>7, <4>1, <4>2 DEF DrainEmpty
      <3> QED BY <2>1, <3>1, <3>2 DEF SameView, Shown, streamVars, sinkVars
    <2>8. CASE DrainChunk
      <3> DEFINE c == draining
                 k == target[c]
                 n == Smaller(Len(pipe[c]), ReadSize)
                 chunk == SubSeq(pipe[c], 1, n)
      <3>1. /\ draining # None /\ pipe[draining] # <<>> /\ UNCHANGED <<fd, saved, disorder>>
        BY <2>8 DEF DrainChunk
      <3>2. CASE /\ stored[k] < Capacity(k)
                 /\ store' = [store EXCEPT ![k] = Copied(k, CString(chunk))]
                 /\ given' = [given EXCEPT ![k] = @ \o SubSeq(chunk, 1, Smaller(n, Capacity(k) - stored[k]))]
                 /\ pipe' = [pipe EXCEPT ![c] = SubSeq(@, n + 1, Len(@))]
                 /\ UNCHANGED <<pending, file>>
        BY <3>1, <3>2, HandMaps
      <3>3. CASE stored[k] >= Capacity(k) /\ Finish(c) /\ UNCHANGED <<store, given, pending, file>>
        BY <3>1, <3>3, WasteMaps
      <3>4. CASE /\ kind[k] = "str"
                 /\ Goes(stream[k], CString(chunk), [pipe EXCEPT ![c] = SubSeq(@, n + 1, Len(@))])
                 /\ UNCHANGED <<store, given>>
        BY <3>1, <3>4, PassMaps
      <3>5. CASE UNCHANGED <<store, given, pipe, pending, file>>
        BY <2>1, <3>1, <3>5 DEF SameView, Shown
      <3> QED BY <2>8, <3>2, <3>3, <3>4, <3>5 DEF DrainChunk
    <2>9. CASE UNCHANGED vars
      BY <2>1, <2>9 DEF vars, SameView, Shown, streamVars, captureVars, sinkVars
    <2>10. ASSUME NEW c \in Captures,
                  End(c) \/ \E k \in Sinks, s \in Streams : Make(c, k, s)
           PROVE  RedirectionStep
      BY <1>1, <2>10, MakeEndMaps
    <2> QED BY <2>2, <2>3, <2>4, <2>5, <2>6, <2>7, <2>8, <2>9, <2>10, EmitMaps DEF Next, Drain
  <1> QED BY <1>0, <1>1

\* At the start nothing is captured.
LEMMA InitMaps == ASSUME Init PROVE Promise!RedirectionInit
  <1>1. <<>> \o <<>> = <<>> /\ Len(<<>>) = 0 BY ConcatEmptySeq, EmptySeq
  <1> QED BY <1>1 DEF Init, Promise!RedirectionInit, Capacity
-----------------------------------------------------------------------------
CaptureInv == CaptureTypeOK /\ DescInv /\ SinkInv /\ PipeInv /\ HangExplained

\* The invariant holds at the start,
LEMMA InitInv == ASSUME Init PROVE CaptureInv
  <1>1. HangExplained BY DEF Init, HangExplained
  <1> QED BY <1>1, InitTypes, InitDesc, InitSink, InitPipe DEF CaptureInv

\* and every step keeps it and is one that the promise allows.
LEMMA StepInv == ASSUME CaptureInv, [Next]_vars PROVE CaptureInv' /\ RedirectionStep
  <1>1. CaptureTypeOK' BY StepTypes DEF CaptureInv
  <1>2. DescInv' BY StepDesc DEF CaptureInv
  <1>3. SinkInv' BY StepSink DEF CaptureInv
  <1>4. PipeInv' BY <1>1, StepPipe DEF CaptureInv
  <1>5. HangExplained' BY StepHang DEF CaptureInv
  <1>6. RedirectionStep BY <1>1, StepMaps DEF CaptureInv
  <1> QED BY <1>1, <1>2, <1>3, <1>4, <1>5, <1>6 DEF CaptureInv

\* The invariant behind everything below.
THEOREM CaptureInvariant == Spec => []CaptureInv
  <1>1. Init => CaptureInv BY InitInv
  <1>2. CaptureInv /\ [Next]_vars => CaptureInv' BY StepInv
  <1> QED BY <1>1, <1>2, PTL DEF Spec

\* The variables have their types in every reachable state; among others no
\* pipe ever holds more than PipeSize bytes.
THEOREM CaptureTypeCorrect == Spec => []CaptureTypeOK
  <1>1. CaptureInv => CaptureTypeOK BY DEF CaptureInv
  <1> QED BY <1>1, CaptureInvariant, PTL

\* What a sink shows of what it was given.
THEOREM SinksShowPrefix == Spec => []SinkShowsPrefix
  <1>1. CaptureInv => SinkShowsPrefix BY SinkShows DEF CaptureInv
  <1> QED BY <1>1, CaptureInvariant, PTL

\* The only thread is stopped in read, or killed writing, only after captures
\* of one stream were ended out of order, and stopped in write only after more
\* than a pipe holds was written.
THEOREM HangsExplained == Spec => []HangExplained
  <1>1. CaptureInv => HangExplained BY DEF CaptureInv
  <1> QED BY <1>1, CaptureInvariant, PTL

\* Captures ended in order leave no stream redirected and no descriptor open.
THEOREM StreamsAreRestored == Spec => []StreamsRestored
  <1>1. CaptureInv => StreamsRestored BY Restored DEF CaptureInv
  <1> QED BY <1>1, CaptureInvariant, PTL

\* Over pipes, descriptors, buffers and partial reads, captures deliver every
\* byte where the abstract specification says, once and in order.
THEOREM CaptureImplementsRedirection == Spec => RedirectionKept
  <1>1. Init => Promise!RedirectionInit BY InitMaps
  <1>2. CaptureInv /\ [Next]_vars => [Promise!RedirectionNext]_(Promise!rvars)
    BY StepInv DEF RedirectionStep
  <1> QED BY <1>1, <1>2, CaptureInvariant, PTL DEF Spec, RedirectionKept, Promise!RedirectionSpec
-----------------------------------------------------------------------------
\* As long as the loop of tapi_capture_end goes on, its pipe gets shorter.
ReadShortens ==
  (draining # None /\ draining' = draining /\ status' = "ok") =>
    Len(pipe'[draining]) < Len(pipe[draining])

\* The loop of tapi_capture_end makes at most as many rounds as its pipe holds
\* bytes: every round takes some out and, although a stream sink may print
\* into another pipe, none puts a byte into the pipe that is read.
THEOREM ReadsShorten == Spec => [][ReadShortens]_vars
  <1>1. CaptureInv /\ [Next]_vars => [ReadShortens]_vars
    <2> SUFFICES ASSUME CaptureInv, Next, draining # None, draining' = draining, status' = "ok"
                 PROVE  Len(pipe'[draining]) < Len(pipe[draining])
      BY DEF ReadShortens
    <2>1. CaptureTypeOK /\ DescInv /\ SinkInv BY DEF CaptureInv
    <2>2. Drain
      BY DEF Next, Idle, Emit, Flush, SetBuffer, SetStream, SinkMake, SinkDestroy, Make, End, Destroy
    <2>3. CASE DrainEmpty BY <2>3 DEF DrainEmpty, Finish, Stops
    <2>4. CASE DrainChunk
      <3> DEFINE c == draining
                 k == target[c]
                 n == Smaller(Len(pipe[c]), ReadSize)
                 text == CString(SubSeq(pipe[c], 1, n))
                 rest == [pipe EXCEPT ![c] = SubSeq(@, n + 1, Len(@))]
      <3>1. pipe[c] # <<>> BY <2>4 DEF DrainChunk
      <3>2. /\ c \in Captures /\ k \in Sinks /\ pipe[c] \in Seq(Nat) /\ n \in 1 .. Len(pipe[c])
            /\ Len(rest[c]) = Len(pipe[c]) - n /\ rest \in [Captures -> Seq(Nat)]
        BY <2>1, <3>1, DrainFacts
      <3>3. CASE pipe'[c] = rest[c]
        <4>1. Len(pipe[c]) \in Nat BY <3>2
        <4> HIDE DEF rest, n
        <4> QED BY <3>2, <3>3, <4>1
      <3>4. CASE kind[k] = "str" /\ Goes(stream[k], text, rest)
        <4>1. stream[k] \in Streams BY <2>1, <3>2, <3>4 DEF SinkInv
        <4>2. fd[stream[k]] # c BY <2>1, <4>1 DEF DescInv, LinkInv
        <4>3. pipe' = rest \/ \E bytes : pipe' = [rest EXCEPT ![fd[stream[k]]] = bytes]
          <5> HIDE DEF rest, text
          <5> QED BY <3>4 DEF Goes
        <4>4. pipe'[c] = rest[c]
          <5> HIDE DEF rest
          <5> QED BY <3>2, <4>2, <4>3
        <4> QED BY <3>3, <4>4
      <3>5. CASE Finish(c) BY <3>5 DEF Finish
      <3>6. CASE kind[k] = "str" /\ Stuck(stream[k], text)
        BY <3>6, StuckTypes
      <3>7. CASE Stops("null stream") BY <3>7 DEF Stops
      <3> QED BY <2>4, <3>3, <3>4, <3>5, <3>6, <3>7 DEF DrainChunk
    <2> QED BY <2>2, <2>3, <2>4 DEF Drain
  <1> QED BY <1>1, CaptureInvariant, PTL DEF Spec
=============================================================================
