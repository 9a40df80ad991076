---------------------------- MODULE Marks_proofs ----------------------------
(***************************************************************************)
(* The positions of the marks stay inside the array and the marks go out   *)
(* in the order they came in, for an array and a client of any size.       *)
(***************************************************************************)
EXTENDS Marks, SequenceTheorems, TLAPS

(* The inductive invariant: reading a mark that is pending needs both.     *)
IInv == TypeOK /\ PendingAreMarks

(* The array starts empty.                                                 *)
LEMMA InitIInv == Init => IInv
BY MarksAssumption DEF Init, IInv, TypeOK, PendingAreMarks

(* An accepted mark lies in the array, behind the pending ones.            *)
LEMMA MarkBufferIInv ==
  ASSUME IInv, NEW m \in Messages, MarkBuffer(m)
  PROVE  IInv'
<1> USE MarksAssumption DEF IInv, TypeOK, PendingAreMarks, MarkBuffer, HasSpace
<1>1. TypeOK'
  OBVIOUS
<1>2. PendingAreMarks'
  OBVIOUS
<1> QED BY <1>1, <1>2

(* Taking the last pending mark takes both positions back to the start.    *)
LEMMA CarryMarkIInv ==
  ASSUME IInv, CarryMark
  PROVE  IInv'
<1> USE MarksAssumption DEF IInv, TypeOK, PendingAreMarks, CarryMark, LastMark, markcount
<1>1. mark_read_pos < mark_write_pos /\ Oldest \in Messages
  BY DEF Oldest
<1>2. TypeOK'
  BY <1>1
<1>3. PendingAreMarks'
  BY <1>1
<1> QED BY <1>2, <1>3

(* Every step keeps the invariant.                                         *)
LEMMA NextIInv == IInv /\ [Next]_vars => IInv'
<1> SUFFICES ASSUME IInv, [Next]_vars PROVE IInv'
  OBVIOUS
<1>1. ASSUME NEW m \in Messages, MarkBuffer(m) PROVE IInv'
  BY <1>1, MarkBufferIInv
<1>2. CASE NoSpaceForMark
  BY <1>2 DEF NoSpaceForMark, IInv, TypeOK, PendingAreMarks
<1>3. CASE CarryMark
  BY <1>3, CarryMarkIInv
<1>4. CASE UNCHANGED vars
  BY <1>4 DEF vars, IInv, TypeOK, PendingAreMarks
<1> QED BY <1>1, <1>2, <1>3, <1>4 DEF Next

(* The invariant holds in every reachable state.                           *)
THEOREM Invariance == Spec => []IInv
BY InitIInv, NextIInv, PTL DEF Spec

(* No mark is ever written or read outside the array.                      *)
THEOREM TypeCorrect == Spec => []TypeOK
BY Invariance, PTL DEF IInv

(* What is pending is a mark the client sent, never a place not written.   *)
THEOREM MarksArePending == Spec => []PendingAreMarks
BY Invariance, PTL DEF IInv

-----------------------------------------------------------------------------
(* The pending marks, as the fifo's queue.                                 *)
Pending == [i \in 1..markcount |-> marks[mark_read_pos + i - 1]]

(* They are a sequence of marks.                                           *)
PendingOK ==
  /\ markcount \in Nat /\ Pending \in Seq(Messages) /\ Len(Pending) = markcount
  /\ \A i \in 1..markcount : Pending[i] = marks[mark_read_pos + i - 1]

(* The pending places hold a mark each.                                    *)
LEMMA PendingIsASeq == IInv => PendingOK
<1> SUFFICES ASSUME IInv PROVE PendingOK
  OBVIOUS
<1>1. markcount \in Nat
  BY MarksAssumption DEF IInv, TypeOK, PendingAreMarks, markcount
<1>2. \A i \in 1..markcount : marks[mark_read_pos + i - 1] \in Messages
  BY MarksAssumption DEF IInv, TypeOK, PendingAreMarks, markcount
<1> QED BY <1>1, <1>2 DEF Pending, PendingOK

(* MarkBuffer enqueues the mark.                                           *)
LEMMA MarkBufferEnqueues ==
  ASSUME IInv, NEW m \in Messages, MarkBuffer(m)
  PROVE  Pending' = Append(Pending, m)
<1>1. PendingOK /\ PendingOK'
  BY MarkBufferIInv, PendingIsASeq, PTL
<1>2. /\ markcount' = markcount + 1
      /\ \A i \in 1..markcount :
            marks'[mark_read_pos' + i - 1] = marks[mark_read_pos + i - 1]
      /\ marks'[mark_read_pos' + markcount' - 1] = m
  BY MarksAssumption
  DEF IInv, TypeOK, PendingAreMarks, MarkBuffer, HasSpace, markcount, MarksAssumption
<1>3. /\ Append(Pending, m) \in Seq(Messages)
      /\ Len(Append(Pending, m)) = markcount + 1
      /\ \A i \in 1..markcount : Append(Pending, m)[i] = Pending[i]
      /\ Append(Pending, m)[markcount + 1] = m
  BY <1>1, AppendProperties DEF PendingOK
<1>4. \A i \in 1..Len(Pending') : Pending'[i] = Append(Pending, m)[i]
  BY <1>1, <1>2, <1>3 DEF PendingOK
<1> QED BY <1>1, <1>2, <1>3, <1>4, SeqEqual DEF PendingOK

(* CarryMark dequeues it, also when it is the last one.                    *)
LEMMA CarryMarkDequeues ==
  ASSUME IInv, CarryMark
  PROVE  Pending # <<>> /\ Oldest = Head(Pending) /\ Pending' = Tail(Pending)
<1>1. PendingOK /\ PendingOK'
  BY CarryMarkIInv, PendingIsASeq, PTL
<1>2. /\ markcount' = markcount - 1 /\ markcount >= 1
      /\ \A i \in 1..markcount' :
            marks'[mark_read_pos' + i - 1] = marks[mark_read_pos + i]
  BY MarksAssumption
  DEF IInv, TypeOK, PendingAreMarks, CarryMark, LastMark, markcount, MarksAssumption
<1>3. mark_read_pos + 1 - 1 = mark_read_pos /\ 1 \in 1..markcount
  BY <1>1, <1>2, MarksAssumption DEF IInv, TypeOK, MarksAssumption, PendingOK
<1>4. Pending # <<>> /\ Head(Pending) = Oldest
  BY <1>1, <1>3 DEF PendingOK, Oldest
<1>5. /\ Tail(Pending) \in Seq(Messages)
      /\ Len(Tail(Pending)) = markcount - 1
      /\ \A i \in 1..Len(Tail(Pending)) : Tail(Pending)[i] = Pending[i + 1]
  BY <1>1, <1>4, HeadTailProperties DEF PendingOK
<1>6. \A i \in 1..Len(Pending') : Pending'[i] = Tail(Pending)[i]
  <2> SUFFICES ASSUME NEW i \in 1..Len(Pending') PROVE Pending'[i] = Tail(Pending)[i]
    OBVIOUS
  <2>1. i \in 1..markcount' /\ i + 1 \in 1..markcount /\ mark_read_pos + (i + 1) - 1 = mark_read_pos + i
    BY <1>1, <1>2, MarksAssumption DEF IInv, TypeOK, MarksAssumption, PendingOK
  <2>2. Pending'[i] = marks[mark_read_pos + i]
    BY <1>1, <1>2, <2>1 DEF PendingOK
  <2>3. Pending[i + 1] = marks[mark_read_pos + i]
    BY <1>1, <2>1 DEF PendingOK
  <2> QED BY <1>1, <1>2, <1>5, <2>1, <2>2, <2>3 DEF PendingOK
<1> QED BY <1>1, <1>2, <1>4, <1>5, <1>6, SeqEqual DEF PendingOK

(* Each step of the array is a step of the fifo, or changes nothing there. *)
LEMMA StepRefines == IInv /\ [Next]_vars => [Abstract!Next]_(Abstract!vars)
<1> SUFFICES ASSUME IInv, [Next]_vars PROVE [Abstract!Next]_(Abstract!vars)
  OBVIOUS
<1> USE DEF Abstract!vars
<1>1. ASSUME NEW m \in Messages, MarkBuffer(m) PROVE Abstract!Next
  BY <1>1, MarkBufferEnqueues DEF MarkBuffer, Pending, Abstract!Next, Abstract!Enqueue
<1>2. CASE NoSpaceForMark
  BY <1>2 DEF NoSpaceForMark, markcount
<1>3. CASE CarryMark
  <2>1. carried' = Append(carried, Head(Pending))
    BY <1>3, CarryMarkDequeues DEF CarryMark
  <2>2. Abstract!Dequeue
    BY <1>3, <2>1, CarryMarkDequeues DEF Pending, Abstract!Dequeue
  <2> QED BY <2>2 DEF Abstract!Next
<1>4. CASE UNCHANGED vars
  BY <1>4 DEF vars, markcount
<1> QED BY <1>1, <1>2, <1>3, <1>4 DEF Next

(* Accepted marks are carried once, in the order they were accepted.       *)
THEOREM Refinement == Spec => ImplementsFifo
<1>1. Init => Abstract!Init
  <2> SUFFICES ASSUME Init PROVE Abstract!Init
    OBVIOUS
  <2>1. markcount = 0 /\ 1..0 = {}
    BY DEF Init, markcount
  <2> QED BY <2>1 DEF Init, Abstract!Init
<1>2. IInv /\ [Next]_vars => [Abstract!Next]_(Abstract!vars)
  BY StepRefines
<1> QED BY <1>1, <1>2, Invariance, PTL DEF Spec, ImplementsFifo, Abstract!Spec
=============================================================================
