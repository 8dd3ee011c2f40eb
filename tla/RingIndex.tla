----------------------------- MODULE RingIndex -----------------------------
(***************************************************************************)
(* RingIndex<T, Max> of aether/ring_buffer.h: an index that moves          *)
(* clockwise and counter-clockwise on a ring.  An index is represented by  *)
(* value_.  Every operation is the source's arithmetic, its "-1 for zero   *)
(* value" included, not the arithmetic modulo Max its comment promises.    *)
(***************************************************************************)
EXTENDS Integers, Sequences, FiniteSets, FiniteSetsExt

CONSTANTS
    RingMax,            \* the template argument Max
    WindowSize,         \* SafeStreamConfig::window_size
    MaxRepeatCount      \* SafeStreamConfig::max_repeat_count

ASSUME RingMaxAssumption == RingMax \in Nat \ {0}
ASSUME WindowAssumption == WindowSize \in Nat \ {0} /\ WindowSize <= RingMax
ASSUME RepeatAssumption == MaxRepeatCount \in Nat

\* The values value_ can hold: the class never leaves 0 .. RingMax, but RingMax
\* itself is reachable.
RingValues == 0 .. RingMax

\* RingIndex{val}: also how an offset is rebuilt from a received message.
Ring(val) == val % RingMax

Clockwise(i, val) ==
    LET v == val % RingMax
    IN  IF RingMax - v < i THEN v - (RingMax - i) - 1 ELSE i + v

CounterClockwise(i, val) ==
    LET v == val % RingMax
    IN  IF i < v THEN RingMax - (v - i) ELSE i - v

\* operator+ and operator- for an unsigned T.
Plus(i, val) == IF val > 0 THEN Clockwise(i, val) ELSE i
Minus(i, val) == IF val > 0 THEN CounterClockwise(i, val) ELSE i

\* i.Distance(j): how far clockwise j is from i.
Distance(i, j) ==
    LET a == RingMax - i
        b == RingMax - j
    IN  IF a >= b THEN a - b ELSE a + j

\* While a move does not pass the end of the ring it is plain arithmetic:
\* Distance measures it and the opposite move takes it back.
MovesMeasured(i) ==
    \A val \in 0 .. RingMax - 1 :
        i + val <= RingMax =>
            /\ Plus(i, val) = i + val
            /\ Distance(i, Plus(i, val)) = val
            /\ Minus(Plus(i, val), val) = i

(***************************************************************************)
(* safe_stream_types.h: offsets of the safe stream are ring indices and    *)
(* are compared through a window: o is at or after b when its distance     *)
(* from b is at most WindowSize.                                           *)
(*                                                                         *)
(* A byte of the stream is represented by its absolute position in it, a   *)
(* natural number; a data buffer is the sequence of the positions of its   *)
(* bytes.  Garbage stands for a byte read outside of a data buffer.        *)
(***************************************************************************)

Garbage == -1

\* OffsetRange{begin, end, window_size}, offset in [begin:end].
InRange(begin, end, offset) ==
    /\ Distance(begin, offset) <= WindowSize
    /\ Distance(offset, end) <= WindowSize

\* OffsetRange::Before: "offset range is before offset ( end < offset)".
Before(end, offset) == Distance(offset, end) > WindowSize

\* The elements of s at the indices ks, in their order.
Kept(s, ks) ==
    LET upTo[n \in 0 .. Len(s)] ==
            IF n = 0 THEN <<>> ELSE IF n \in ks THEN Append(upTo[n - 1], s[n]) ELSE upTo[n - 1]
    IN  upTo[Len(s)]

\* s without its i-th element.
RemovedAt(s, i) == Kept(s, DOMAIN s \ {i})

\* The bytes at positions from .. from + size - 1.
Bytes(from, size) == [j \in 1 .. size |-> from + j - 1]
=============================================================================
