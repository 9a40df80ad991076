-------------------------------- MODULE Marks --------------------------------
(***************************************************************************)
(* The marks an encoder component has been told to attach to its output:   *)
(* marks[], mark_write_pos and mark_read_pos of encoder.c.  The component  *)
(* thread is the only one to touch them: a MarkBuffer command appends a    *)
(* mark, and each encoded frame carries the oldest one away.               *)
(***************************************************************************)
EXTENDS Naturals, Sequences

CONSTANTS
  N,            \* the size of the array, 10 in the code
  Messages,     \* the marks the client sends
  MaxMarks,     \* bound: commands sent in a behaviour
  NoMark

ASSUME MarksAssumption == N \in Nat \ {0} /\ NoMark \notin Messages /\ MaxMarks \in Nat

VARIABLES
  marks, mark_write_pos, mark_read_pos,
  carried,      \* history: the marks carried by output buffers
  commands      \* history: how many MarkBuffer commands there were

vars == <<marks, mark_write_pos, mark_read_pos, carried, commands>>

markcount == mark_write_pos - mark_read_pos

Init ==
  /\ marks = [i \in 0..N-1 |-> NoMark]
  /\ mark_write_pos = 0 /\ mark_read_pos = 0
  /\ carried = <<>> /\ commands = 0

HasSpace == mark_write_pos < N

(* async_encoder_mark_buffer *)
MarkBuffer(m) ==
  /\ HasSpace /\ commands < MaxMarks
  /\ marks' = [marks EXCEPT ![mark_write_pos] = m]
  /\ mark_write_pos' = mark_write_pos + 1
  /\ commands' = commands + 1
  /\ UNCHANGED <<mark_read_pos, carried>>

NoSpaceForMark ==
  /\ ~HasSpace /\ commands < MaxMarks
  /\ commands' = commands + 1
  /\ UNCHANGED <<marks, mark_write_pos, mark_read_pos, carried>>

NeverLast == FALSE  \* mutant: the positions are not reset
LastMark == markcount = 1

Newest == marks[mark_write_pos - 1]  \* mutant: the last in, the first out
Oldest == marks[mark_read_pos]

(* async_encode_video_data, for each frame while a mark is pending.        *)
CarryMark ==
  /\ markcount # 0
  /\ carried' = Append(carried, Oldest)
  /\ mark_read_pos' = IF LastMark THEN 0 ELSE mark_read_pos + 1
  /\ mark_write_pos' = IF LastMark THEN 0 ELSE mark_write_pos
  /\ UNCHANGED <<marks, commands>>

Next == (\E m \in Messages : MarkBuffer(m)) \/ NoSpaceForMark \/ CarryMark

Spec == Init /\ [][Next]_vars

-----------------------------------------------------------------------------
(* The positions stay in the array, and the array is typed.                *)
TypeOK ==
  /\ marks \in [0..N-1 -> Messages \cup {NoMark}]
  /\ mark_write_pos \in 0..N /\ mark_read_pos \in 0..N
  /\ carried \in Seq(Messages)
  /\ commands \in Nat

(* The pending marks are real ones, and the positions are at the start of  *)
(* the array whenever none is pending: an idle component has all its space. *)
PendingAreMarks ==
  /\ mark_read_pos <= mark_write_pos
  /\ mark_read_pos = mark_write_pos => mark_write_pos = 0
  /\ \A i \in mark_read_pos..mark_write_pos-1 : marks[i] \in Messages

(* Accepted marks go out in the order they were accepted, each once.       *)
Abstract == INSTANCE Fifo WITH
  queue <- [i \in 1..markcount |-> marks[mark_read_pos + i - 1]],
  received <- carried, closed <- FALSE

ImplementsFifo == Abstract!Spec
=============================================================================
