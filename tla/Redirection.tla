---------------------------- MODULE Redirection ----------------------------
(***************************************************************************)
(* What captures promise (capture.h, usage): what a program writes to a    *)
(* stream goes to the innermost capture of that stream, or else to the     *)
(* stream's own file, in order; a capture that was closed hands what it    *)
(* held to its sink, in order, until the sink is full.  Pipes, descriptors *)
(* and stream buffers do not appear.  The promise is void once captures of *)
(* one stream are closed in another order than last in, first out.         *)
(***************************************************************************)
EXTENDS Integers, Sequences

CONSTANTS
  Streams,
  Captures,
  Sinks,
  Bytes,  \* what programs write
  Limits, \* the sizes of buffers
  Nuls,   \* the bytes that are '\0'
  Closed  \* no destination

VARIABLES
  top,    \* stream -> its innermost capture, or the stream itself
  under,  \* capture -> what was on top when it was opened
  held,   \* capture -> the bytes it has taken and not handed over
  shown,  \* stream -> the bytes that are for its own file
  given,  \* buffer sink -> the bytes it was given and could take
  limit,  \* sink -> the number of bytes it can take
  void

rvars == <<top, under, held, shown, given, limit, void>>

RedirectionInit ==
  /\ top = [s \in Streams |-> s]
  /\ under = [c \in Captures |-> Closed]
  /\ held = [c \in Captures |-> <<>>]
  /\ shown = [s \in Streams |-> <<>>]
  /\ given = [k \in Sinks |-> <<>>]
  /\ limit = [k \in Sinks |-> 0]
  /\ ~void

Put(s, bytes) ==
  \/ /\ top[s] = s
     /\ shown' = [shown EXCEPT ![s] = @ \o bytes]
     /\ UNCHANGED held
  \/ /\ top[s] # s
     /\ held' = [held EXCEPT ![top[s]] = @ \o bytes]
     /\ UNCHANGED shown

Emit(s) ==
  /\ \E b \in Bytes : Put(s, <<b>>)
  /\ UNCHANGED <<top, under, given, limit, void>>

Open(c, s) ==
  /\ held[c] = <<>>
  /\ under[c] = Closed
  /\ top' = [top EXCEPT ![s] = c]
  /\ under' = [under EXCEPT ![c] = top[s]]
  /\ UNCHANGED <<held, shown, given, limit, void>>

Close(c, s) ==
  /\ top[s] = c
  /\ top' = [top EXCEPT ![s] = under[c]]
  /\ under' = [under EXCEPT ![c] = Closed]
  /\ UNCHANGED <<held, shown, given, limit, void>>

Drop(s, n) == SubSeq(s, n + 1, Len(s))

\* The next n bytes: the sink takes all it has room for.
Hand(c, k, n) ==
  /\ under[c] = Closed
  /\ held' = [held EXCEPT ![c] = Drop(@, n)]
  /\ \E taken \in 0 .. n :
       /\ given' = [given EXCEPT ![k] = @ \o SubSeq(held[c], 1, taken)]
       /\ taken < n => Len(given'[k]) = limit[k]
  /\ UNCHANGED <<top, under, shown, limit, void>>

\* The next n bytes are printed again, as text, on another stream.
Pass(c, s, n) ==
  /\ under[c] = Closed
  /\ top[s] # c
  /\ \E taken \in 0 .. n :
       /\ taken < n => held[c][taken + 1] \in Nuls
       /\ LET bytes == SubSeq(held[c], 1, taken)
              rest == [held EXCEPT ![c] = Drop(@, n)]
          IN \/ /\ top[s] = s
                /\ shown' = [shown EXCEPT ![s] = @ \o bytes]
                /\ held' = rest
             \/ /\ top[s] # s
                /\ held' = [rest EXCEPT ![top[s]] = @ \o bytes]
                /\ UNCHANGED shown
  /\ UNCHANGED <<top, under, given, limit, void>>

\* What a full sink cannot take is dropped.
Waste(c, k) ==
  /\ under[c] = Closed
  /\ Len(given[k]) = limit[k]
  /\ held' = [held EXCEPT ![c] = <<>>]
  /\ UNCHANGED <<top, under, shown, given, limit, void>>

Renew(k) ==
  /\ given' = [given EXCEPT ![k] = <<>>]
  /\ \E n \in Limits : limit' = [limit EXCEPT ![k] = n]
  /\ UNCHANGED <<top, under, held, shown, void>>

CloseOutOfOrder(c, s) ==
  /\ under[c] # Closed
  /\ top[s] # c
  /\ void'

RedirectionNext ==
  \/ \E s \in Streams : Emit(s)
  \/ \E c \in Captures, s \in Streams :
       \/ Open(c, s) \/ Close(c, s) \/ CloseOutOfOrder(c, s)
       \/ \E n \in 1 .. Len(held[c]) : Pass(c, s, n)
  \/ \E c \in Captures, k \in Sinks :
       \/ Waste(c, k)
       \/ \E n \in 1 .. Len(held[c]) : Hand(c, k, n)
  \/ \E k \in Sinks : Renew(k)
  \/ void /\ void'

RedirectionSpec == RedirectionInit /\ [][RedirectionNext]_rvars
=============================================================================
