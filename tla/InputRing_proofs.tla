-------------------------- MODULE InputRing_proofs --------------------------
(***************************************************************************)
(* InputEventCircularReader is a queue: for a ring of any size, fill()     *)
(* appends what read() returned, readEvent() shows the oldest event and    *)
(* next() removes it, and no position ever leaves the array.               *)
(***************************************************************************)
EXTENDS InputRing, SequenceTheorems, TLAPS

(* A new ring is in order and holds nothing.                               *)
LEMMA NewRingOK ==
  ASSUME NEW n \in Nat \ {0}, NEW E, NEW any \in E
  PROVE  /\ NewRing(n, any) \in Ring(n, E)
         /\ RingOK(NewRing(n, any))
         /\ Available(NewRing(n, any)) = 0
BY DEF NewRing, Ring, RingOK, Available

(* readEvent() shows an event that was put into the ring.                  *)
LEMMA FrontIsEvent ==
  ASSUME NEW n \in Nat \ {0}, NEW E, NEW r \in Ring(n, E), RingOK(r)
  PROVE  Front(r) \in E
<1>1. r.curr \in 0 .. 2 * n - 1
  BY DEF RingOK, Ring
<1>2. r.buf \in [0 .. 2 * n - 1 -> E]
  BY DEF Ring
<1> QED BY <1>1, <1>2 DEF Front

(* next() keeps the ring in order.                                         *)
LEMMA AdvanceOK ==
  ASSUME NEW n \in Nat \ {0}, NEW E, NEW r \in Ring(n, E), RingOK(r), Available(r) > 0
  PROVE  /\ Advance(r) \in Ring(n, E)
         /\ RingOK(Advance(r))
         /\ Available(Advance(r)) = Available(r) - 1
<1>1. /\ r.size = n /\ n \in Nat /\ n > 0 /\ r.free \in 0 .. n /\ r.curr \in 0 .. n - 1
      /\ r.head \in 0 .. n
  BY DEF Ring, RingOK
<1>2. r.buf \in [0 .. 2 * n - 1 -> E]
  BY DEF Ring
<1>3. Advance(r) \in Ring(n, E)
  BY <1>1, <1>2 DEF Advance, Ring
<1>4. Available(Advance(r)) = Available(r) - 1
  BY <1>1 DEF Advance, Available
<1>5. RingOK(Advance(r))
  BY <1>1 DEF Advance, RingOK, Available
<1> QED BY <1>3, <1>4, <1>5

(* What is in the ring are events.                                         *)
LEMMA ContentsAreEvents ==
  ASSUME NEW n \in Nat \ {0}, NEW E, NEW r \in Ring(n, E), RingOK(r)
  PROVE  /\ Available(r) \in 0 .. n
         /\ Contents(r) \in Seq(E)
         /\ Len(Contents(r)) = Available(r)
         /\ \A i \in 1 .. Available(r) : Contents(r)[i] = r.buf[Position(r, i - 1)]
<1>1. /\ r.size = n /\ n \in Nat /\ r.free \in 0 .. n /\ r.curr \in 0 .. n - 1
      /\ r.buf \in [0 .. 2 * n - 1 -> E] /\ Available(r) \in 0 .. n
  BY DEF Ring, RingOK, Available
<1>2. \A i \in 1 .. Available(r) : Position(r, i - 1) \in 0 .. n - 1
  BY <1>1 DEF Position
<1>3. \A i \in 1 .. Available(r) : r.buf[Position(r, i - 1)] \in E
  BY <1>1, <1>2
<1>4. Contents(r) \in [1 .. Available(r) -> E]
  BY <1>3 DEF Contents
<1>5. Contents(r) \in Seq(E)
  BY <1>1, <1>4, SeqDef
<1>6. Len(Contents(r)) = Available(r)
  BY <1>1, <1>4, <1>5, LenProperties
<1>7. \A i \in 1 .. Available(r) : Contents(r)[i] = r.buf[Position(r, i - 1)]
  BY DEF Contents
<1> QED BY <1>1, <1>5, <1>6, <1>7

(* readEvent() shows the oldest event, and next() removes just that one.   *)
THEOREM AdvanceIsTail ==
  ASSUME NEW n \in Nat \ {0}, NEW E, NEW r \in Ring(n, E), RingOK(r), Available(r) > 0
  PROVE  /\ Front(r) = Head(Contents(r))
         /\ Contents(Advance(r)) = Tail(Contents(r))
<1> DEFINE s == Advance(r)
<1>1. s \in Ring(n, E) /\ RingOK(s) /\ Available(s) = Available(r) - 1
  BY AdvanceOK
<1>2. /\ r.size = n /\ n \in Nat /\ r.free \in 0 .. n /\ r.curr \in 0 .. n - 1
      /\ Available(r) \in 1 .. n
  BY DEF Ring, RingOK, Available
<1>3. /\ Contents(r) \in Seq(E) /\ Len(Contents(r)) = Available(r)
      /\ \A i \in 1 .. Available(r) : Contents(r)[i] = r.buf[Position(r, i - 1)]
  BY ContentsAreEvents
<1>4. /\ Contents(s) \in Seq(E) /\ Len(Contents(s)) = Available(s)
      /\ \A i \in 1 .. Available(s) : Contents(s)[i] = s.buf[Position(s, i - 1)]
  BY <1>1, ContentsAreEvents
<1>5. Contents(r) # <<>>
  BY <1>2, <1>3, EmptySeq
<1>6. Front(r) = Head(Contents(r))
  <2>1. Position(r, 0) = r.curr
    BY <1>2 DEF Position
  <2>2. Contents(r)[1] = r.buf[r.curr]
    BY <1>2, <1>3, <2>1
  <2> QED BY <1>3, <1>5, <2>2 DEF Front
<1>7. /\ Tail(Contents(r)) \in Seq(E) /\ Len(Tail(Contents(r))) = Available(r) - 1
      /\ \A i \in 1 .. Available(r) - 1 : Tail(Contents(r))[i] = Contents(r)[i + 1]
  BY <1>3, <1>5, HeadTailProperties
<1>8. \A i \in 1 .. Available(s) : Position(s, i - 1) = Position(r, i) /\ s.buf = r.buf
  BY <1>1, <1>2 DEF Advance, Position
<1>9. \A i \in 1 .. Available(s) : Contents(s)[i] = Tail(Contents(r))[i]
  <2> SUFFICES ASSUME NEW i \in 1 .. Available(s) PROVE Contents(s)[i] = Tail(Contents(r))[i]
    OBVIOUS
  <2>1. i \in 1 .. Available(r) - 1 /\ i + 1 \in 1 .. Available(r) /\ i + 1 - 1 = i
    BY <1>1, <1>2
  <2>2. Tail(Contents(r))[i] = r.buf[Position(r, i)]
    BY <1>3, <1>7, <2>1
  <2>3. Contents(s)[i] = r.buf[Position(r, i)]
    BY <1>4, <1>8
  <2> QED BY <2>2, <2>3
<1>10. Contents(s) = Tail(Contents(r))
  BY <1>1, <1>4, <1>7, <1>9, SeqEqual
<1> QED BY <1>6, <1>10

-----------------------------------------------------------------------------
(* The positions of a ring whose free space takes the events.              *)
LEMMA RingFacts ==
  ASSUME NEW n \in Nat \ {0}, NEW E, NEW r \in Ring(n, E), RingOK(r),
         NEW events \in Seq(E), Len(events) <= r.free
  PROVE  /\ n \in Nat /\ n > 0 /\ r.size = n /\ r.buf \in [0 .. 2 * n - 1 -> E]
         /\ r.free \in 0 .. n /\ r.curr \in 0 .. n - 1 /\ r.head \in 0 .. n
         /\ Available(r) \in 0 .. n /\ Available(r) + r.free = n
         /\ Len(events) \in 0 .. r.free
         /\ \A j \in 1 .. Len(events) : events[j] \in E
<1>1. Len(events) \in Nat /\ \A j \in 1 .. Len(events) : events[j] \in E
  BY LenProperties, ElementOfSeq
<1>2. r.size = n /\ r.buf \in [0 .. 2 * n - 1 -> E] /\ r.free \in 0 .. n
      /\ r.curr \in 0 .. n - 1 /\ r.head \in 0 .. n
  BY DEF Ring, RingOK
<1> QED BY <1>1, <1>2 DEF Available

(* read() writes inside the array, because it is twice as long as the ring. *)
LEMMA StoredOK ==
  ASSUME NEW n \in Nat \ {0}, NEW E, NEW r \in Ring(n, E), RingOK(r),
         NEW events \in Seq(E), Len(events) <= r.free
  PROVE  /\ Stored(r, events) \in [0 .. 2 * n - 1 -> E]
         /\ \A j \in 1 .. Len(events) :
              /\ r.head + j - 1 \in 0 .. 2 * n - 1
              /\ Stored(r, events)[r.head + j - 1] = events[j]
         /\ \A p \in 0 .. 2 * n - 1 :
              p \notin r.head .. r.head + Len(events) - 1 => Stored(r, events)[p] = r.buf[p]
<1> DEFINE L == Len(events)
<1>1. /\ n \in Nat /\ n > 0 /\ r.buf \in [0 .. 2 * n - 1 -> E] /\ L \in 0 .. n
      /\ r.head \in 0 .. n /\ \A j \in 1 .. L : events[j] \in E
  BY RingFacts
<1>2. Stored(r, events) =
        [i \in 0 .. 2 * n - 1 |->
          IF i \in r.head .. r.head + L - 1 THEN events[i - r.head + 1] ELSE r.buf[i]]
  BY <1>1 DEF Stored
<1> HIDE DEF L
<1>3. \A i \in r.head .. r.head + L - 1 : i - r.head + 1 \in 1 .. L
  BY <1>1
<1>4. \A i \in 0 .. 2 * n - 1 :
        (IF i \in r.head .. r.head + L - 1 THEN events[i - r.head + 1] ELSE r.buf[i]) \in E
  BY <1>1, <1>3
<1>5. Stored(r, events) \in [0 .. 2 * n - 1 -> E]
  BY <1>2, <1>4
<1>6. ASSUME NEW j \in 1 .. L
      PROVE  /\ r.head + j - 1 \in 0 .. 2 * n - 1
             /\ Stored(r, events)[r.head + j - 1] = events[j]
  <2>1. r.head + j - 1 \in 0 .. 2 * n - 1 /\ r.head + j - 1 \in r.head .. r.head + L - 1
        /\ (r.head + j - 1) - r.head + 1 = j
    BY <1>1, <1>6
  <2> QED BY <1>2, <2>1
<1>7. \A p \in 0 .. 2 * n - 1 :
        p \notin r.head .. r.head + L - 1 => Stored(r, events)[p] = r.buf[p]
  BY <1>2
<1> QED BY <1>5, <1>6, <1>7 DEF L

(* How the positions move: h and c are mHead and mCurr, f what is free, A  *)
(* what is available, L what is added.                                     *)
LEMMA HeadMoves ==
  ASSUME NEW n \in Nat, NEW h \in 0 .. n, NEW c \in 0 .. n - 1, NEW f \in 0 .. n,
         NEW A \in 0 .. n, NEW L \in 0 .. f, A + f = n,
         (h = c + A) \/ (h = c + A - n) \/ (h = n /\ c = 0 /\ A = 0),
         NEW k \in Int, k = IF h + L - n > 0 THEN h + L - n ELSE h + L
  PROVE  /\ k \in 0 .. n /\ f - L \in 0 .. n
         /\ (k = c + (A + L)) \/ (k = c + (A + L) - n) \/ (k = n /\ c = 0 /\ A + L = 0)
OBVIOUS

(* Where the i-th event is: the old ones are outside what read() and the   *)
(* memcpy overwrite, the new ones are what they wrote.                     *)
LEMMA PlacesMove ==
  ASSUME NEW n \in Nat, NEW h \in 0 .. n, NEW c \in 0 .. n - 1, NEW f \in 0 .. n,
         NEW A \in 0 .. n, NEW L \in 0 .. f, A + f = n,
         (h = c + A) \/ (h = c + A - n) \/ (h = n /\ c = 0 /\ A = 0),
         NEW i \in 1 .. A + L,
         NEW p \in Int, p = IF c + (i - 1) < n THEN c + (i - 1) ELSE c + (i - 1) - n
  PROVE  /\ p \in 0 .. n - 1
         /\ i <= A => ~(p < h + L - n) /\ p \notin h .. h + L - 1 /\ p \in 0 .. 2 * n - 1
         /\ ~(i <= A) => /\ i - A \in 1 .. L
                         /\ \/ p < h + L - n /\ p + n = h + (i - A) - 1
                            \/ ~(p < h + L - n) /\ p = h + (i - A) - 1
OBVIOUS

(* fill() keeps the ring in order.                                         *)
LEMMA FillOK ==
  ASSUME NEW n \in Nat \ {0}, NEW E, NEW r \in Ring(n, E), RingOK(r),
         NEW events \in Seq(E), Len(events) <= r.free
  PROVE  /\ Fill(r, events) \in Ring(n, E)
         /\ RingOK(Fill(r, events))
         /\ Available(Fill(r, events)) = Available(r) + Len(events)
<1> DEFINE over == r.head + Len(events) - r.size
           s == Fill(r, events)
<1>1. /\ n \in Nat /\ n > 0 /\ r.size = n /\ r.free \in 0 .. n /\ r.curr \in 0 .. n - 1
      /\ r.head \in 0 .. n /\ Available(r) + r.free = n /\ Len(events) \in 0 .. r.free
      /\ Available(r) \in 0 .. n
  BY RingFacts
<1>2. Stored(r, events) \in [0 .. 2 * n - 1 -> E]
  BY StoredOK
<1>3. over > 0 => Wrapped(Stored(r, events), n, over) \in [0 .. 2 * n - 1 -> E]
  <2> SUFFICES ASSUME over > 0 PROVE Wrapped(Stored(r, events), n, over) \in [0 .. 2 * n - 1 -> E]
    OBVIOUS
  <2>1. over \in 1 .. n
    BY <1>1
  <2> HIDE DEF over
  <2>2. \A i \in 0 .. 2 * n - 1 :
          (IF i < over THEN Stored(r, events)[i + n] ELSE Stored(r, events)[i]) \in E
    BY <1>1, <1>2, <2>1
  <2> QED BY <1>2, <2>2 DEF Wrapped
<1>4. s \in Ring(n, E)
  BY <1>1, <1>2, <1>3 DEF Fill, Ring
<1>5. Available(s) = Available(r) + Len(events)
  BY <1>1 DEF Fill, Available
<1>6. /\ s.size = n /\ s.curr = r.curr /\ s.free = r.free - Len(events)
      /\ s.head = IF over > 0 THEN over ELSE r.head + Len(events)
      /\ over = r.head + Len(events) - n
  BY <1>1 DEF Fill
<1>7. \/ r.head = r.curr + Available(r)
      \/ r.head = r.curr + Available(r) - n
      \/ r.head = n /\ r.curr = 0 /\ Available(r) = 0
  BY <1>1 DEF RingOK
<1>8. /\ s.head \in Int
      /\ s.head = IF r.head + Len(events) - n > 0 THEN r.head + Len(events) - n
                                                   ELSE r.head + Len(events)
  BY <1>1, <1>6
<1> HIDE DEF s, over
<1>n. n \in Nat /\ r.head \in 0 .. n /\ r.curr \in 0 .. n - 1 /\ r.free \in 0 .. n
      /\ Available(r) \in 0 .. n /\ Len(events) \in 0 .. r.free /\ Available(r) + r.free = n
  BY <1>1
<1>9. /\ s.head \in 0 .. n /\ r.free - Len(events) \in 0 .. n
      /\ \/ s.head = r.curr + (Available(r) + Len(events))
         \/ s.head = r.curr + (Available(r) + Len(events)) - n
         \/ s.head = n /\ r.curr = 0 /\ Available(r) + Len(events) = 0
  <2>1. PICK h \in Int, c \in Int, f \in Int, A \in Int, L \in Int, k \in Int :
          /\ h = r.head /\ c = r.curr /\ f = r.free /\ A = Available(r) /\ L = Len(events)
          /\ k = s.head
    <3>1. /\ r.head \in Int /\ r.curr \in Int /\ r.free \in Int /\ Available(r) \in Int
          /\ Len(events) \in Int /\ s.head \in Int
      BY <1>n, <1>8
    <3> QED BY <3>1, Zenon
  <2>2. /\ h \in 0 .. n /\ c \in 0 .. n - 1 /\ f \in 0 .. n /\ A \in 0 .. n /\ L \in 0 .. f
        /\ A + f = n
    BY <1>n, <2>1
  <2>3. (h = c + A) \/ (h = c + A - n) \/ (h = n /\ c = 0 /\ A = 0)
    BY <1>7, <2>1
  <2>4. k = IF h + L - n > 0 THEN h + L - n ELSE h + L
    BY <1>8, <2>1
  <2>5. /\ k \in 0 .. n /\ f - L \in 0 .. n
        /\ (k = c + (A + L)) \/ (k = c + (A + L) - n) \/ (k = n /\ c = 0 /\ A + L = 0)
    BY <1>n, <2>2, <2>3, <2>4, HeadMoves
  <2> QED BY <2>1, <2>5
<1>10. RingOK(s)
  BY <1>1, <1>5, <1>6, <1>9 DEF RingOK, s
<1> QED BY <1>4, <1>5, <1>10 DEF s

(* What fill() leaves in the place of the i-th event of the new contents.  *)
LEMMA FillPlaces ==
  ASSUME NEW n \in Nat \ {0}, NEW E, NEW r \in Ring(n, E), RingOK(r),
         NEW events \in Seq(E), Len(events) <= r.free,
         NEW i \in 1 .. Available(r) + Len(events)
  PROVE  Fill(r, events).buf[Position(Fill(r, events), i - 1)] =
           IF i <= Available(r) THEN r.buf[Position(r, i - 1)] ELSE events[i - Available(r)]
<1> DEFINE L == Len(events)
           A == Available(r)
           over == r.head + L - n
           P == IF r.curr + (i - 1) < n THEN r.curr + (i - 1) ELSE r.curr + (i - 1) - n
           S == Stored(r, events)
           b == Fill(r, events).buf
<1>1. /\ n \in Nat /\ n > 0 /\ r.size = n /\ r.free \in 0 .. n /\ r.curr \in 0 .. n - 1
      /\ r.head \in 0 .. n /\ A + r.free = n /\ L \in 0 .. r.free /\ A \in 0 .. n
  BY RingFacts
<1>2. /\ S \in [0 .. 2 * n - 1 -> E]
      /\ \A j \in 1 .. L : r.head + j - 1 \in 0 .. 2 * n - 1 /\ S[r.head + j - 1] = events[j]
      /\ \A p \in 0 .. 2 * n - 1 : p \notin r.head .. r.head + L - 1 => S[p] = r.buf[p]
  BY StoredOK
<1>3. Position(Fill(r, events), i - 1) = P /\ Position(r, i - 1) = P /\ P \in Int
  BY <1>1 DEF Position, Fill
<1>4. b = IF over > 0 THEN Wrapped(S, n, over) ELSE S
  BY <1>1 DEF Fill
<1>5. \/ r.head = r.curr + A
      \/ r.head = r.curr + A - n
      \/ r.head = n /\ r.curr = 0 /\ A = 0
  BY <1>1 DEF RingOK, Available
<1>6. /\ P \in 0 .. n - 1
      /\ i <= A => ~(P < over) /\ P \notin r.head .. r.head + L - 1 /\ P \in 0 .. 2 * n - 1
      /\ ~(i <= A) => /\ i - A \in 1 .. L
                      /\ \/ P < over /\ P + n = r.head + (i - A) - 1
                         \/ ~(P < over) /\ P = r.head + (i - A) - 1
  <2> HIDE DEF A, L
  <2>1. i \in 1 .. A + L
    BY DEF A, L
  <2>2. P \in Int /\ P = IF r.curr + (i - 1) < n THEN r.curr + (i - 1) ELSE r.curr + (i - 1) - n
    BY <1>3
  <2> HIDE DEF P
  <2>3. PICK h \in Int, c \in Int, f \in Int, a \in Int, l \in Int, p \in Int :
          /\ h = r.head /\ c = r.curr /\ f = r.free /\ a = A /\ l = L /\ p = P
    <3>1. /\ r.head \in Int /\ r.curr \in Int /\ r.free \in Int /\ A \in Int /\ L \in Int
          /\ P \in Int
      BY <1>1, <2>2
    <3> QED BY <3>1, Zenon
  <2>4. /\ h \in 0 .. n /\ c \in 0 .. n - 1 /\ f \in 0 .. n /\ a \in 0 .. n /\ l \in 0 .. f
        /\ a + f = n /\ i \in 1 .. a + l
    BY <1>1, <2>1, <2>3
  <2>5. (h = c + a) \/ (h = c + a - n) \/ (h = n /\ c = 0 /\ a = 0)
    BY <1>5, <2>3
  <2>6. p = IF c + (i - 1) < n THEN c + (i - 1) ELSE c + (i - 1) - n
    BY <2>2, <2>3
  <2>7. /\ p \in 0 .. n - 1
        /\ i <= a => ~(p < h + l - n) /\ p \notin h .. h + l - 1 /\ p \in 0 .. 2 * n - 1
        /\ ~(i <= a) => /\ i - a \in 1 .. l
                        /\ \/ p < h + l - n /\ p + n = h + (i - a) - 1
                           \/ ~(p < h + l - n) /\ p = h + (i - a) - 1
    BY <1>1, <2>4, <2>5, <2>6, PlacesMove
  <2> QED BY <2>3, <2>7
<1>7. b[P] = IF P < over THEN S[P + n] ELSE S[P]
  <2>1. CASE over > 0
    <3>1. P \in DOMAIN S
      BY <1>1, <1>2, <1>6
    <3> HIDE DEF P, over, S
    <3>2. Wrapped(S, n, over)[P] = IF P < over THEN S[P + n] ELSE S[P]
      BY <3>1 DEF Wrapped
    <3> QED BY <1>4, <2>1, <3>2
  <2>2. CASE ~(over > 0)
    <3>1. over \in Int
      BY <1>1
    <3> HIDE DEF P, over
    <3>2. ~(P < over)
      BY <1>6, <2>2, <3>1
    <3> QED BY <1>4, <2>2, <3>2
  <2> QED BY <2>1, <2>2
<1> HIDE DEF P, over, S, b, L, A
<1>8. CASE i <= A
  <2>1. b[P] = r.buf[P]
    BY <1>2, <1>6, <1>7, <1>8
  <2> QED BY <1>3, <1>8, <2>1 DEF A, b
<1>9. CASE ~(i <= A)
  <2>1. S[r.head + (i - A) - 1] = events[i - A]
    BY <1>2, <1>6, <1>9
  <2>2. b[P] = events[i - A]
    BY <1>6, <1>7, <1>9, <2>1
  <2> QED BY <1>3, <1>9, <2>2 DEF A, b
<1> QED BY <1>8, <1>9

(* fill() appends what read() returned to the contents of the ring: a read *)
(* that runs past the ring's end loses nothing and overwrites nothing.     *)
THEOREM FillAppends ==
  ASSUME NEW n \in Nat \ {0}, NEW E, NEW r \in Ring(n, E), RingOK(r),
         NEW events \in Seq(E), Len(events) <= r.free
  PROVE  Contents(Fill(r, events)) = Contents(r) \o events
<1> DEFINE s == Fill(r, events)
<1>1. s \in Ring(n, E) /\ RingOK(s) /\ Available(s) = Available(r) + Len(events)
  BY FillOK
<1>2. /\ Contents(r) \in Seq(E) /\ Len(Contents(r)) = Available(r) /\ Available(r) \in 0 .. n
      /\ \A i \in 1 .. Available(r) : Contents(r)[i] = r.buf[Position(r, i - 1)]
  BY ContentsAreEvents
<1>3. /\ Contents(s) \in Seq(E) /\ Len(Contents(s)) = Available(s)
      /\ \A i \in 1 .. Available(s) : Contents(s)[i] = s.buf[Position(s, i - 1)]
  BY <1>1, ContentsAreEvents
<1>4. Len(events) \in Nat
  BY LenProperties
<1>5. /\ Contents(r) \o events \in Seq(E)
      /\ Len(Contents(r) \o events) = Available(r) + Len(events)
      /\ \A i \in 1 .. Available(r) + Len(events) :
           (Contents(r) \o events)[i] =
             IF i <= Available(r) THEN Contents(r)[i] ELSE events[i - Available(r)]
  <2>1. /\ Contents(r) \o events \in Seq(E)
        /\ Len(Contents(r) \o events) = Len(Contents(r)) + Len(events)
        /\ \A i \in 1 .. Len(Contents(r)) + Len(events) :
             (Contents(r) \o events)[i] =
               IF i <= Len(Contents(r)) THEN Contents(r)[i] ELSE events[i - Len(Contents(r))]
    BY <1>2, ConcatProperties
  <2> QED BY <1>2, <2>1
<1>6. ASSUME NEW i \in 1 .. Available(s) PROVE Contents(s)[i] = (Contents(r) \o events)[i]
  <2>1. i \in 1 .. Available(r) + Len(events)
    BY <1>1
  <2>2. Contents(s)[i] =
          IF i <= Available(r) THEN r.buf[Position(r, i - 1)] ELSE events[i - Available(r)]
    BY <1>3, <2>1, FillPlaces
  <2>3. i <= Available(r) => Contents(r)[i] = r.buf[Position(r, i - 1)]
    BY <1>2, <1>4, <2>1
  <2> QED BY <1>5, <2>1, <2>2, <2>3
<1> QED BY <1>1, <1>3, <1>5, <1>6, SeqEqual
=============================================================================
