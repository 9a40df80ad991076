------------------------------ MODULE MsgQueue ------------------------------
(***************************************************************************)
(* The command queue between the IL client and an encoder component:       *)
(* msgque.c, a doubly linked list under a mutex with an OSAL event (a pipe *)
(* and a flag, OSAL.c) that the component's thread selects on.             *)
(*                                                                         *)
(* The critical sections of push_back and get_front are one step each;     *)
(* what push_back does before it takes the mutex (malloc, and the read of  *)
(* q->tail into tail->next) is a step of its own, because nothing keeps    *)
(* the receiver out between the two.  The model is of the build with       *)
(* NDEBUG: the asserts of the code are properties here, not steps.         *)
(***************************************************************************)
EXTENDS Naturals, Sequences, FiniteSets

CONSTANTS
  Senders,      \* threads that call push_back
  Nodes,        \* the msg_node objects malloc can return
  Messages,     \* the payloads; each is sent at most once (a bound)
  PipeFails,    \* may write() or read() on the event's pipe fail?
  NULL

ASSUME MsgQueueAssumption ==
  /\ NULL \notin Nodes /\ NULL \notin Messages
  /\ PipeFails \in BOOLEAN

VARIABLES
  next, prev, data,     \* the three fields of every node
  allocated,            \* nodes malloc has handed out and nobody has freed
  head, tail, size,     \* the fields of struct msgque
  signaled,             \* bSignaled of the event, a byte in its pipe
  eventLocked,          \* a failure left the event's own mutex locked
  stuck,                \* a thread holds q->mutex and sleeps on the event's
  pc, node,             \* each sender: where it is and the node it links
  sent,                 \* messages some sender has taken up
  receiver,             \* the component's thread: selecting or draining
  order,                \* history: the linked nodes, the oldest first
  received,             \* history: what get_front has returned
  destroyed             \* msgque_destroy has run

list == <<head, tail, size, prev, data, order>>
senders == <<pc, node, sent>>
event == <<signaled, eventLocked, stuck>>
vars == <<next, allocated, list, event, senders, receiver, received, destroyed>>

Init ==
  /\ next = [n \in Nodes |-> NULL]
  /\ prev = [n \in Nodes |-> NULL]
  /\ data = [n \in Nodes |-> NULL]
  /\ allocated = {}
  /\ head = NULL /\ tail = NULL /\ size = 0
  /\ signaled = FALSE /\ eventLocked = FALSE /\ stuck = FALSE
  /\ pc = [s \in Senders |-> "idle"]
  /\ node = [s \in Senders |-> NULL]
  /\ sent = {}
  /\ receiver = "select"
  /\ order = <<>> /\ received = <<>>
  /\ destroyed = FALSE

-----------------------------------------------------------------------------
(* push_back: malloc, then tail->next = q->tail before the mutex is taken. *)
PushBegin(s) ==
  /\ pc[s] = "idle" /\ ~destroyed
  /\ \E m \in Messages \ sent, n \in Nodes \ allocated :
       /\ sent' = sent \cup {m}
       /\ allocated' = allocated \cup {n}
       /\ next' = [next EXCEPT ![n] = tail]
       /\ prev' = [prev EXCEPT ![n] = NULL]
       /\ data' = [data EXCEPT ![n] = m]
       /\ node' = [node EXCEPT ![s] = n]
  /\ pc' = [pc EXCEPT ![s] = "lock"]
  /\ UNCHANGED <<head, tail, size, order, event, receiver, received, destroyed>>

PushReturns(s) ==
  /\ pc' = [pc EXCEPT ![s] = "idle"]
  /\ node' = [node EXCEPT ![s] = NULL]
  /\ UNCHANGED sent

NotLinked(n) == prev  \* mutant: tail->prev is not set
LinkedTo(n) == IF tail # NULL THEN [prev EXCEPT ![tail] = n] ELSE prev

SignaledTooLate == signaled \/ size = 1  \* mutant: off by one
SignaledByPush == signaled \/ size = 0

(* push_back under the mutex: set the event of an empty queue, then link.  *)
PushLink(s) ==
  LET n == node[s] IN
  /\ pc[s] = "lock" /\ ~stuck
  /\ size = 0 => ~eventLocked
  /\ signaled' = SignaledByPush
  /\ size' = size + 1
  /\ prev' = LinkedTo(n)
  /\ tail' = n
  /\ head' = IF head = NULL THEN n ELSE head
  /\ order' = Append(order, n)
  /\ PushReturns(s)
  /\ UNCHANGED <<next, data, allocated, eventLocked, stuck, receiver, received,
                 destroyed>>

(* push_back when write() fails: the queue is as it was, but the node is   *)
(* not freed and OSAL_EventSet has returned without unlocking the event.   *)
PushFails(s) ==
  /\ PipeFails
  /\ pc[s] = "lock" /\ ~stuck /\ size = 0 /\ ~eventLocked
  /\ eventLocked' = TRUE
  /\ PushReturns(s)
  /\ UNCHANGED <<next, allocated, list, signaled, stuck, receiver, received,
                 destroyed>>

(* After such a failure the next EventSet or EventReset never returns, and *)
(* its caller holds the queue's mutex.                                     *)
PushBlocks(s) ==
  /\ pc[s] = "lock" /\ ~stuck /\ size = 0 /\ eventLocked
  /\ stuck' = TRUE
  /\ UNCHANGED <<next, allocated, list, signaled, eventLocked, senders,
                 receiver, received, destroyed>>

-----------------------------------------------------------------------------
(* The component's thread selects on the event, then takes messages until  *)
(* get_front returns none.                                                 *)
Select ==
  /\ receiver = "select" /\ signaled /\ ~destroyed
  /\ receiver' = "drain"
  /\ UNCHANGED <<next, allocated, list, event, senders, received, destroyed>>

NeverReset == signaled  \* mutant: the event is not reset
SignaledAfterGet == signaled /\ size # 1

Newest == data[tail]  \* mutant: the wrong end of the list
Oldest == data[head]

(* get_front of a queue that is not empty, under the mutex throughout.     *)
GetFront ==
  /\ receiver = "drain" /\ ~destroyed /\ ~stuck /\ size > 0
  /\ size = 1 => ~eventLocked
  /\ signaled' = SignaledAfterGet
  /\ received' = Append(received, Oldest)
  /\ allocated' = allocated \ {head}
  /\ head' = prev[head]
  /\ size' = size - 1
  /\ next' = IF prev[head] # NULL THEN [next EXCEPT ![prev[head]] = NULL]
             ELSE next
  /\ tail' = IF prev[head] # NULL THEN tail ELSE NULL
  /\ order' = Tail(order)
  /\ UNCHANGED <<prev, data, eventLocked, stuck, senders, receiver, destroyed>>

GetNone ==
  /\ receiver = "drain" /\ ~destroyed /\ ~stuck /\ size = 0
  /\ receiver' = "select"
  /\ UNCHANGED <<next, allocated, list, event, senders, received, destroyed>>

\* read() fails in OSAL_EventReset: the message stays, the event stays locked.
GetFrontFails ==
  /\ PipeFails
  /\ receiver = "drain" /\ ~destroyed /\ ~stuck /\ size = 1 /\ ~eventLocked
  /\ eventLocked' = TRUE
  /\ UNCHANGED <<next, allocated, list, signaled, stuck, senders, receiver,
                 received, destroyed>>

GetFrontBlocks ==
  /\ receiver = "drain" /\ ~destroyed /\ ~stuck /\ size = 1 /\ eventLocked
  /\ stuck' = TRUE
  /\ UNCHANGED <<next, allocated, list, signaled, eventLocked, senders,
                 receiver, received, destroyed>>

-----------------------------------------------------------------------------
(* The k-th pointer msgque_destroy frees: tail, tail->next, ...            *)
Visit[k \in Nat] == IF k = 0 THEN tail
                    ELSE IF Visit[k - 1] = NULL THEN NULL ELSE next[Visit[k - 1]]

Visits == {k \in 0..Cardinality(Nodes) : Visit[k] # NULL}

(* basecomp_destroy: the thread has been joined, no push_back is running,  *)
(* the walk frees what it reaches and the structure is zeroed.             *)
Destroy ==
  /\ ~destroyed /\ ~stuck /\ ~eventLocked
  /\ \A s \in Senders : pc[s] = "idle"
  /\ destroyed' = TRUE
  /\ allocated' = allocated \ {Visit[k] : k \in Visits}
  /\ head' = NULL /\ tail' = NULL /\ size' = 0 /\ order' = <<>>
  /\ signaled' = FALSE
  /\ UNCHANGED <<next, prev, data, eventLocked, stuck, senders, receiver,
                 received>>

Next ==
  \/ \E s \in Senders : PushBegin(s) \/ PushLink(s) \/ PushFails(s) \/ PushBlocks(s)
  \/ Select \/ GetFront \/ GetNone \/ GetFrontFails \/ GetFrontBlocks
  \/ Destroy

(* The scheduler runs every thread; nothing makes a client send or destroy. *)
Fairness ==
  /\ \A s \in Senders : WF_vars(PushLink(s))
  /\ WF_vars(Select) /\ WF_vars(GetFront) /\ WF_vars(GetNone)

Spec == Init /\ [][Next]_vars

FairSpec == Spec /\ Fairness

-----------------------------------------------------------------------------
(* The state is well typed; order is a sequence without repetition.        *)
TypeOK ==
  /\ next \in [Nodes -> Nodes \cup {NULL}]
  /\ prev \in [Nodes -> Nodes \cup {NULL}]
  /\ data \in [Nodes -> Messages \cup {NULL}]
  /\ allocated \subseteq Nodes
  /\ head \in Nodes \cup {NULL} /\ tail \in Nodes \cup {NULL}
  /\ size \in Nat
  /\ signaled \in BOOLEAN /\ eventLocked \in BOOLEAN /\ stuck \in BOOLEAN
  /\ pc \in [Senders -> {"idle", "lock"}]
  /\ node \in [Senders -> Nodes \cup {NULL}]
  /\ sent \subseteq Messages
  /\ receiver \in {"select", "drain"}
  /\ order \in Seq(Nodes) /\ received \in Seq(Messages)
  /\ destroyed \in BOOLEAN

(* The list that head, tail, size and prev describe is the list of linked  *)
(* nodes in the order they were linked, whatever the stale next pointers   *)
(* hold, and all of it is memory the queue owns.                           *)
ChainIntact ==
  /\ size = Len(order)
  /\ head = IF order = <<>> THEN NULL ELSE order[1]
  /\ tail = IF order = <<>> THEN NULL ELSE order[Len(order)]
  /\ \A i \in 1..Len(order) :
       /\ order[i] \in allocated
       /\ prev[order[i]] = IF i = Len(order) THEN NULL ELSE order[i + 1]

(* The event is set exactly while the queue holds a message: a thread that *)
(* selects on it neither misses a message nor spins on an empty queue.     *)
EventMirrorsQueue == signaled <=> size > 0

(* Seen by its users, the list is a fifo: nothing lost, duplicated or      *)
(* reordered, with the senders racing one another and the receiver.        *)
Abstract == INSTANCE Fifo WITH
  queue <- [i \in DOMAIN order |-> data[order[i]]], closed <- destroyed

ImplementsFifo == Abstract!Spec

(* Every message that was linked reaches the receiver, unless the queue is *)
(* destroyed first or the event's pipe fails.                              *)
Delivered ==
  \A m \in Messages :
    (\E i \in DOMAIN order : data[order[i]] = m)
      ~> (destroyed \/ eventLocked \/ \E i \in DOMAIN received : received[i] = m)

(* msgque_destroy frees each of its nodes once, and no other memory        *)
(* ("free allocated resources", msgque.h).                                 *)
DestroyFreesItsNodes ==
  [][destroyed' # destroyed =>
       /\ {Visit[k] : k \in Visits} \subseteq allocated
       /\ \A j, k \in Visits : j # k => Visit[j] # Visit[k]]_vars
=============================================================================
