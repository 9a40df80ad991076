-------------------------------- MODULE Fifo --------------------------------
(***************************************************************************)
(* What a message queue promises its users: every message that is sent     *)
(* goes to the back, the receiver gets the one at the front, and nothing   *)
(* is lost, duplicated or reordered.                                       *)
(***************************************************************************)
EXTENDS Sequences

CONSTANTS Messages

VARIABLES
  queue,      \* messages sent and not yet received, the oldest first
  received,   \* messages handed to the receiver, in order
  closed      \* the queue has been destroyed

vars == <<queue, received, closed>>

TypeOK == /\ queue \in Seq(Messages)
          /\ received \in Seq(Messages)
          /\ closed \in BOOLEAN

Init == queue = <<>> /\ received = <<>> /\ closed = FALSE

Enqueue(m) == /\ ~closed
              /\ queue' = Append(queue, m)
              /\ UNCHANGED <<received, closed>>

Dequeue == /\ ~closed /\ queue # <<>>
           /\ received' = Append(received, Head(queue))
           /\ queue' = Tail(queue)
           /\ UNCHANGED closed

\* The owner destroys the queue and drops whatever is still in it.
Close == /\ ~closed
         /\ closed' = TRUE
         /\ queue' = <<>>
         /\ UNCHANGED received

Next == \/ \E m \in Messages : Enqueue(m)
        \/ Dequeue
        \/ Close

Spec == Init /\ [][Next]_vars
=============================================================================
