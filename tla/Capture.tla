------------------------------ MODULE Capture ------------------------------
(***************************************************************************)
(* Output capturing: src/src/capture.c and src/src/sink.c over the pipes,  *)
(* descriptors and stream buffers they use.                                *)
(*                                                                         *)
(* A stream's descriptor leads to the stream's own file or to the write    *)
(* end of some capture's pipe.  The process has one thread: while          *)
(* tapi_capture_end reads a pipe (`draining') nobody writes to it.  The    *)
(* n-th byte that the program writes is the number n.                      *)
(***************************************************************************)
EXTENDS Integers, Sequences, FiniteSets

CONSTANTS
  Streams,     \* stdout, stderr
  Captures,    \* capture structures, in allocation order
  Sinks,       \* sink structures, in allocation order
  Buffered,    \* the streams that start with a buffer (not stderr)
  Nuls,        \* the bytes that are '\0'
  Capacities,  \* the lengths given to tapi_sink_setdbf
  PipeSize,    \* what a pipe holds, 65536 on Linux (scaled)
  ReadSize,    \* what one read asks for, 4096 in the code (scaled)
  Failing,     \* the system calls that may fail: "make", "end"
  Closed,      \* a descriptor that is closed
  None,
  MaxBytes     \* bound: bytes the program writes

ASSUME CaptureAssumption ==
  /\ Buffered \subseteq Streams
  /\ Captures \subseteq Nat
  /\ Sinks \subseteq Nat
  /\ Streams \intersect Captures = {}
  /\ Closed \notin Streams \union Captures
  /\ None \notin Streams \union Captures \union Sinks
  /\ Nuls \subseteq Nat
  /\ Capacities \subseteq Nat
  /\ PipeSize \in Nat \ {0}
  /\ ReadSize \in Nat \ {0}
  /\ MaxBytes \in Nat

VARIABLES
  fd,        \* stream -> where its descriptor leads
  pending,   \* stream -> the bytes in its buffer
  buffered,  \* the streams that still have a buffer
  file,      \* stream -> the bytes that reached its own file
  total,     \* how many bytes the program has written
  phase,     \* capture -> "none", "capturing", "ended" or "freed"
  source,    \* capture -> capture->stream
  saved,     \* capture -> where capture->dst_fd leads
  reader,    \* the captures whose fds[0] is open
  pipe,      \* capture -> the bytes in its pipe
  target,    \* capture -> capture->sink
  kind,      \* sink -> sink->type, or "absent" before and "freed" after its life
  store,     \* sink -> sink->buffer.data, `capacity' bytes of it
  stored,    \* sink -> sink->buffer.length
  stream,    \* sink -> sink->stream
  draining,  \* the capture that tapi_capture_end is reading, or None
  status,    \* "ok", or why the process goes no further
  given,     \* ghost: sink -> the bytes it was given and could take
  disorder   \* ghost: was a capture ended that was not the innermost?

streamVars == <<fd, pending, buffered, file>>
captureVars == <<phase, source, saved, reader, pipe, target>>
sinkVars == <<kind, store, stored, stream, given>>
vars == <<streamVars, total, captureVars, sinkVars, draining, status, disorder>>

Capacity(k) == Len(store[k])

Destinations == Streams \union Captures
NulByte == 0  \* a byte of store that was never written, or padded

CaptureTypeOK ==
  /\ fd \in [Streams -> Destinations]
  /\ pending \in [Streams -> Seq(Nat)]
  /\ buffered \subseteq Buffered
  /\ file \in [Streams -> Seq(Nat)]
  /\ total \in 0 .. MaxBytes
  /\ phase \in [Captures -> {"none", "capturing", "ended", "freed"}]
  /\ source \in [Captures -> Streams \union {None}]
  /\ saved \in [Captures -> Destinations \union {Closed}]
  /\ reader \subseteq Captures
  /\ pipe \in [Captures -> Seq(Nat)]
  /\ \A c \in Captures : Len(pipe[c]) <= PipeSize
  /\ target \in [Captures -> Sinks \union {None}]
  /\ kind \in [Sinks -> {"absent", "none", "buf", "str", "freed"}]
  /\ store \in [Sinks -> Seq(Nat)]
  /\ \A k \in Sinks : Capacity(k) \in Capacities \union {0}
  /\ stored \in [Sinks -> Nat]
  /\ stream \in [Sinks -> Streams \union {None}]
  /\ draining \in Captures \union {None}
  /\ status \in {"ok", "exit", "null stream", "write blocks", "read blocks", "sigpipe"}
  /\ given \in [Sinks -> Seq(Nat)]
  /\ disorder \in BOOLEAN

Smaller(m, n) == IF m <= n THEN m ELSE n

\* The bytes before the first '\0': what "%s", strncpy and strlen see.
CString(bytes) ==
  LET ends == {n \in DOMAIN bytes : bytes[n] \in Nuls \union {NulByte}} IN
  IF ends = {} THEN bytes
  ELSE SubSeq(bytes, 1, (CHOOSE n \in ends : \A e \in ends : n <= e) - 1)

\* Where the write end of c's pipe is still open.
Writers(c) ==
  {s \in Streams : fd[s] = c} \union {d \in Captures : saved[d] = c}

-----------------------------------------------------------------------------
\* The effect on streams and pipes of writing bytes to s, if the process
\* gets through it; `pipes' are the pipes as they are just before.
Stops(reason) == status' = reason

Goes(s, bytes, pipes) ==
  \/ /\ bytes = <<>>
     /\ pipe' = pipes
     /\ UNCHANGED <<pending, file, status>>
  \/ /\ s \in buffered
     /\ pending' = [pending EXCEPT ![s] = @ \o bytes]
     /\ pipe' = pipes
     /\ UNCHANGED <<file, status>>
  \/ /\ s \notin buffered
     /\ fd[s] \in Streams
     /\ file' = [file EXCEPT ![fd[s]] = @ \o bytes]
     /\ pipe' = pipes
     /\ UNCHANGED <<pending, status>>
  \/ /\ s \notin buffered
     /\ fd[s] \in reader
     /\ Len(pipes[fd[s]] \o bytes) <= PipeSize
     /\ pipe' = [pipes EXCEPT ![fd[s]] = @ \o bytes]
     /\ UNCHANGED <<pending, file, status>>

\* A write nobody will ever read the room for, or nobody can read at all.
Stuck(s, bytes) ==
  /\ s \notin buffered
  /\ fd[s] \in Captures
  /\ bytes # <<>>
  /\ \/ fd[s] \notin reader /\ Stops("sigpipe")
     \/ /\ fd[s] \in reader
        /\ Len(pipe[fd[s]] \o bytes) > PipeSize
        /\ Stops("write blocks")

Idle == status = "ok" /\ draining = None

\* The program prints one byte.
Emit(s) ==
  /\ Idle
  /\ total < MaxBytes
  /\ total' = total + 1
  /\ \/ Goes(s, <<total + 1>>, pipe)
     \/ Stuck(s, <<total + 1>>) /\ UNCHANGED <<pending, file, pipe>>
  /\ UNCHANGED <<fd, buffered, phase, source, saved, reader, target, sinkVars,
                 draining, disorder>>

\* A buffered stream is flushed, by the program or because it is full.
Flush(s) ==
  /\ Idle
  /\ pending[s] # <<>>
  /\ file' = [file EXCEPT ![s] = @ \o pending[s]]
  /\ pending' = [pending EXCEPT ![s] = <<>>]
  /\ UNCHANGED <<fd, buffered, total, captureVars, sinkVars, draining, status, disorder>>

-----------------------------------------------------------------------------
Exists(k) == kind[k] \notin {"absent", "freed"}

\* tapi_sink_make
SinkMake(k) ==
  /\ Idle
  /\ kind[k] = "absent"
  /\ \A l \in Sinks : l < k => kind[l] # "absent"
  /\ kind' = [kind EXCEPT ![k] = "none"]
  /\ UNCHANGED <<streamVars, total, captureVars, store, stored, stream, given,
                 draining, status, disorder>>

\* No capture under way writes to k.
Unused(k) == \A c \in Captures : target[c] = k => phase[c] # "capturing"

\* tapi_sink_setdbf.  The memory stream it opens as well is never used.
SetBuffer(k, capacity) ==
  /\ Idle
  /\ Exists(k)
  /\ kind' = [kind EXCEPT ![k] = "buf"]
  /\ store' = [store EXCEPT ![k] = [n \in 1 .. capacity |-> NulByte]]
  /\ stored' = [stored EXCEPT ![k] = 0]
  /\ stream' = [stream EXCEPT ![k] = None]
  /\ given' = [given EXCEPT ![k] = <<>>]
  /\ UNCHANGED <<streamVars, total, captureVars, draining, status, disorder>>

\* tapi_sink_setdfp
SetStream(k, s) ==
  /\ Idle
  /\ Exists(k)
  /\ kind' = [kind EXCEPT ![k] = "str"]
  /\ stream' = [stream EXCEPT ![k] = s]
  /\ UNCHANGED <<streamVars, total, captureVars, store, stored, given, draining,
                 status, disorder>>

\* tapi_sink_destroy
SinkDestroy(k) ==
  /\ Idle
  /\ Exists(k)
  /\ Unused(k)
  /\ kind' = [kind EXCEPT ![k] = "freed"]
  /\ UNCHANGED <<streamVars, total, captureVars, store, stored, stream, given,
                 draining, status, disorder>>

-----------------------------------------------------------------------------
\* Deviation: the descriptor is replaced first, so that the buffer is flushed
\* into the pipe.
FlushedLate(c, s) == pipe' = [pipe EXCEPT ![c] = pending[s]] /\ UNCHANGED file

\* What the buffer of s holds goes where the stream led before.
Flushed(c, s) == file' = [file EXCEPT ![s] = @ \o pending[s]] /\ UNCHANGED pipe

\* tapi_capture_make(k, s): pipe, fflush, dup, dup2, close, setvbuf.
Make(c, k, s) ==
  /\ Idle
  /\ phase[c] = "none"
  /\ \A d \in Captures : d < c => phase[d] # "none"
  /\ Exists(k)
  /\ \/ /\ "make" \in Failing
        /\ Stops("exit")
        /\ UNCHANGED <<streamVars, captureVars>>
     \/ /\ phase' = [phase EXCEPT ![c] = "capturing"]
        /\ source' = [source EXCEPT ![c] = s]
        /\ target' = [target EXCEPT ![c] = k]
        /\ saved' = [saved EXCEPT ![c] = fd[s]]
        /\ reader' = reader \union {c}
        /\ fd' = [fd EXCEPT ![s] = c]
        /\ Flushed(c, s)
        /\ pending' = [pending EXCEPT ![s] = <<>>]
        /\ buffered' = buffered \ {s}
        /\ UNCHANGED status
  /\ UNCHANGED <<total, sinkVars, draining, disorder>>

\* Deviation: the saved descriptor stays open.
SavedKept(c) == UNCHANGED saved

SavedClosed(c) == saved' = [saved EXCEPT ![c] = Closed]

\* tapi_capture_end up to its loop: fflush (the stream has no buffer), dup2,
\* close.  A dup2 that fails leaves everything as it was.
End(c) ==
  /\ Idle
  /\ phase[c] = "capturing"
  /\ \/ /\ "end" \in Failing
        /\ UNCHANGED <<fd, saved, draining, disorder>>
     \/ /\ fd' = [fd EXCEPT ![source[c]] = saved[c]]
        /\ SavedClosed(c)
        /\ draining' = c
        /\ disorder' = (disorder \/ fd[source[c]] # c)
  /\ UNCHANGED <<pending, buffered, file, total, phase, source, reader, pipe,
                 target, sinkVars, status>>

\* Behind the loop: the read end is closed, what was not read is gone.
Finish(c) ==
  /\ phase' = [phase EXCEPT ![c] = "ended"]
  /\ reader' = reader \ {c}
  /\ pipe' = [pipe EXCEPT ![c] = <<>>]
  /\ draining' = None

\* Deviation: the chunk is copied whole.
CopiedWhole(k, text) == SubSeq(store[k], 1, stored[k]) \o text

\* strncpy(data + length, buf, remaining): pads with '\0' when buf is short.
Copied(k, text) ==
  [n \in 1 .. Capacity(k) |->
     IF n <= stored[k] THEN store[k][n]
     ELSE IF n - stored[k] <= Len(text) THEN text[n - stored[k]]
     ELSE NulByte]

\* Deviation: length counts the characters copied, not the bytes read.
CountedAsText(k, chunk) == stored[k] + Len(CString(chunk))

\* buffer.length += n: every byte read is counted, copied or not.
Counted(k, chunk) == stored[k] + Len(chunk)

\* One round of the loop of tapi_capture_end that reads something.
DrainChunk ==
  /\ status = "ok"
  /\ draining # None
  /\ pipe[draining] # <<>>
  /\ LET c == draining
         k == target[c]
         n == Smaller(Len(pipe[c]), ReadSize)
         chunk == SubSeq(pipe[c], 1, n)
         rest == [pipe EXCEPT ![c] = SubSeq(@, n + 1, Len(@))]
     IN \/ /\ kind[k] = "buf"
           /\ stored[k] < Capacity(k)
           /\ store' = [store EXCEPT ![k] = Copied(k, CString(chunk))]
           /\ stored' = [stored EXCEPT ![k] = Counted(k, chunk)]
           /\ given' = [given EXCEPT ![k] =
                          @ \o SubSeq(chunk, 1, Smaller(n, Capacity(k) - stored[k]))]
           /\ pipe' = rest
           /\ UNCHANGED <<phase, reader, draining, pending, file, status>>
        \/ /\ kind[k] = "buf"
           /\ stored[k] >= Capacity(k)
           /\ Finish(c)
           /\ UNCHANGED <<store, stored, given, pending, file, status>>
        \/ /\ kind[k] = "str"
           /\ \/ Goes(stream[k], CString(chunk), rest)
              \/ Stuck(stream[k], CString(chunk)) /\ UNCHANGED <<pending, file, pipe>>
           /\ UNCHANGED <<store, stored, given, phase, reader, draining>>
        \/ /\ kind[k] = "none"
           /\ Stops("null stream")
           /\ UNCHANGED <<store, stored, given, pipe, phase, reader, draining,
                          pending, file>>
  /\ UNCHANGED <<fd, buffered, total, source, saved, target, kind, stream, disorder>>

\* Deviation: the loop goes on at end of file.
DrainPastEof ==
  /\ status = "ok"
  /\ draining # None
  /\ pipe[draining] = <<>>
  /\ Writers(draining) # {}
  /\ Stops("read blocks")
  /\ UNCHANGED <<streamVars, total, captureVars, sinkVars, draining, disorder>>

\* The pipe is empty: end of file if no write end is open, else read waits,
\* and the only thread with it.
DrainEmpty ==
  /\ status = "ok"
  /\ draining # None
  /\ pipe[draining] = <<>>
  /\ \/ /\ Writers(draining) = {}
        /\ Finish(draining)
        /\ UNCHANGED status
     \/ /\ Writers(draining) # {}
        /\ Stops("read blocks")
        /\ UNCHANGED <<phase, reader, pipe, draining>>
  /\ UNCHANGED <<streamVars, total, source, saved, target, sinkVars, disorder>>

\* tapi_capture_destroy, also of a capture that a failed assertion abandoned.
Destroy(c) ==
  /\ Idle
  /\ phase[c] \in {"capturing", "ended"}
  /\ phase' = [phase EXCEPT ![c] = "freed"]
  /\ UNCHANGED <<streamVars, total, source, saved, reader, pipe, target, sinkVars,
                 draining, status, disorder>>

Drain == DrainChunk \/ DrainEmpty

Init ==
  /\ fd = [s \in Streams |-> s]
  /\ pending = [s \in Streams |-> <<>>]
  /\ buffered = Buffered
  /\ file = [s \in Streams |-> <<>>]
  /\ total = 0
  /\ phase = [c \in Captures |-> "none"]
  /\ source = [c \in Captures |-> None]
  /\ saved = [c \in Captures |-> Closed]
  /\ reader = {}
  /\ pipe = [c \in Captures |-> <<>>]
  /\ target = [c \in Captures |-> None]
  /\ kind = [k \in Sinks |-> "absent"]
  /\ store = [k \in Sinks |-> <<>>]
  /\ stored = [k \in Sinks |-> 0]
  /\ stream = [k \in Sinks |-> None]
  /\ draining = None
  /\ status = "ok"
  /\ given = [k \in Sinks |-> <<>>]
  /\ disorder = FALSE

Next ==
  \/ \E s \in Streams : Emit(s) \/ Flush(s)
  \/ \E k \in Sinks, n \in Capacities : SetBuffer(k, n)
  \/ \E k \in Sinks, s \in Streams : SetStream(k, s)
  \/ \E k \in Sinks : SinkMake(k) \/ SinkDestroy(k)
  \/ \E c \in Captures, k \in Sinks, s \in Streams : Make(c, k, s)
  \/ \E c \in Captures : End(c) \/ Destroy(c)
  \/ Drain

\* The loop of tapi_capture_end is a program executing; the user owes nothing.
Spec == Init /\ [][Next]_vars /\ WF_vars(Drain)

-----------------------------------------------------------------------------
Promise == INSTANCE Redirection WITH
  Bytes <- 1 .. MaxBytes,
  Limits <- Capacities,
  top <- fd,
  under <- saved,
  held <- pipe,
  shown <- [s \in Streams |-> file[s] \o pending[s]],
  limit <- [k \in Sinks |-> Capacity(k)],
  void <- disorder

\* Captures nested last in, first out, over any mix of streams and sinks,
\* deliver every byte to the innermost capture of its stream or to the file,
\* once and in order, whatever was buffered when a capture began and however
\* the pipe is read in pieces.
RedirectionKept == Promise!RedirectionSpec

\* The string in a buffer sink is what was captured, cut at the capacity and
\* at the first '\0', although strncpy pads and length counts bytes that
\* were not copied (tapi_capture_end).
SinkShowsPrefix ==
  \A k \in Sinks : kind[k] = "buf" => CString(store[k]) = CString(given[k])

\* The single thread waits on its own pipe, or is killed writing to a pipe
\* whose reader it closed, only if captures of one stream were ended out of
\* order; and whatever captures were left open or abandoned by a failed
\* assertion, it blocks in a print only after the program has written more
\* than a pipe holds (tapi_capture_make, tapi_capture_end).
HangExplained ==
  /\ status \in {"read blocks", "sigpipe"} => disorder
  /\ status = "write blocks" => total > PipeSize

\* When every capture that was made has been ended in order, the streams lead
\* to their own files again and no descriptor of a capture is left open.
StreamsRestored ==
  (/\ ~disorder
   /\ draining = None
   /\ status = "ok"
   /\ \A c \in Captures : phase[c] \in {"none", "ended"}) =>
     /\ fd = [s \in Streams |-> s]
     /\ saved = [c \in Captures |-> Closed]
     /\ reader = {}

\* tapi_capture_end returns, or the process stops for a reason that status
\* names: reading in pieces makes progress also when the sink is a stream.
DrainEnds == (draining # None) ~> (draining = None \/ status # "ok")

\* "so pipe will hit EOF" (capture.c:86): tapi_capture_end never waits for
\* more than was written.
PipeHitsEOF == status # "read blocks"
=============================================================================
