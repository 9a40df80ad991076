----------------------------- MODULE InputRing -----------------------------
(***************************************************************************)
(* InputEventCircularReader (libsensors/InputEventReader.cpp): the ring    *)
(* through which a sensor driver reads input events.  The array is twice   *)
(* as long as the ring, so that one read() may run past the ring's end;    *)
(* what ran past it is then copied to the front.  Positions are offsets    *)
(* from mBuffer, and mBufferEnd is the offset size.                        *)
(***************************************************************************)
EXTENDS Integers, Sequences

\* A ring of n events that are taken from the set any.
Ring(n, any) ==
  [size : {n}, buf : [0 .. 2 * n - 1 -> any], head : Int, curr : Int, free : Int]

\* The constructor; the array holds whatever new[] left there.
NewRing(n, any) ==
  [size |-> n, buf |-> [i \in 0 .. 2 * n - 1 |-> any],
   head |-> 0, curr |-> 0, free |-> n]

Available(r) == r.size - r.free

\* read() stores the events from mHead on.
Stored(r, events) ==
  [i \in DOMAIN r.buf |->
     IF i \in r.head .. r.head + Len(events) - 1
     THEN events[i - r.head + 1] ELSE r.buf[i]]

\* mutant: what ran past the end is not copied
NotWrapped(buf, size, over) == buf

\* The memcpy of the events that were stored past the end.
Wrapped(buf, size, over) ==
  [i \in DOMAIN buf |-> IF i < over THEN buf[i + size] ELSE buf[i]]

(* fill(), when read() returned these events (at most mFreeSpace).         *)
Fill(r, events) ==
  LET head == r.head + Len(events)
      over == head - r.size
  IN [size |-> r.size,
      buf |-> IF over > 0 THEN Wrapped(Stored(r, events), r.size, over)
                          ELSE Stored(r, events),
      head |-> IF over > 0 THEN over ELSE head,
      curr |-> r.curr,
      free |-> r.free - Len(events)]

\* readEvent(), when an event is available.
Front(r) == r.buf[r.curr]

\* next()
Advance(r) ==
  [size |-> r.size, buf |-> r.buf, head |-> r.head,
   curr |-> IF r.curr + 1 >= r.size THEN 0 ELSE r.curr + 1,
   free |-> r.free + 1]

-----------------------------------------------------------------------------
(* What a ring is for: the events it holds, the oldest first.              *)
Position(r, i) == IF r.curr + i < r.size THEN r.curr + i ELSE r.curr + i - r.size
Contents(r) == [i \in 1 .. Available(r) |-> r.buf[Position(r, i - 1)]]

(* The positions are inside the array and enclose what is available.       *)
RingOK(r) ==
  /\ r.curr \in 0 .. r.size - 1 /\ r.head \in 0 .. r.size /\ r.free \in 0 .. r.size
  /\ \/ r.head = r.curr + Available(r)
     \/ r.head = r.curr + Available(r) - r.size
     \/ r.head = r.size /\ r.curr = 0 /\ Available(r) = 0
=============================================================================
