-------------------------- MODULE MsgQueue_proofs --------------------------
(***************************************************************************)
(* The list of msgque.c is intact, its event mirrors it, and it implements *)
(* the fifo of Fifo, for any number of senders, nodes and messages.        *)
(***************************************************************************)
EXTENDS MsgQueue, SequenceTheorems, TLAPS

(* No node is linked twice, and linked nodes carry messages.               *)
OrderOK ==
  /\ \A i, j \in 1..Len(order) : order[i] = order[j] => i = j
  /\ \A i \in 1..Len(order) : data[order[i]] \in Messages

(* A node a sender is about to link is its own: allocated, not linked yet, *)
(* nobody else's, and the last of a list as soon as it is linked.          *)
InFlightOK ==
  \A s \in Senders : pc[s] = "lock" =>
    /\ node[s] \in allocated
    /\ prev[node[s]] = NULL
    /\ data[node[s]] \in Messages
    /\ \A i \in 1..Len(order) : order[i] # node[s]
    /\ \A t \in Senders : (pc[t] = "lock" /\ node[t] = node[s]) => s = t

(* Destroy leaves no list and no sender inside.                            *)
DestroyedOK == destroyed => order = <<>> /\ \A s \in Senders : pc[s] = "idle"

(* The inductive invariant.                                                *)
IInv == TypeOK /\ ChainIntact /\ EventMirrorsQueue /\ OrderOK /\ InFlightOK /\ DestroyedOK

(* The queue starts empty, with nothing in flight.                         *)
LEMMA InitIInv == Init => IInv
<1> SUFFICES ASSUME Init PROVE IInv
  OBVIOUS
<1> USE DEF Init
<1>1. Len(order) = 0 /\ order \in Seq(Nodes) /\ received \in Seq(Messages)
  OBVIOUS
<1>2. TypeOK
  BY <1>1 DEF TypeOK
<1>3. ChainIntact /\ EventMirrorsQueue
  BY <1>1 DEF ChainIntact, EventMirrorsQueue
<1>4. OrderOK /\ InFlightOK /\ DestroyedOK
  BY <1>1 DEF OrderOK, InFlightOK, DestroyedOK
<1> QED BY <1>2, <1>3, <1>4 DEF IInv

(* push_back up to the mutex: only a node that nobody had is written.      *)
LEMMA PushBeginIInv ==
  ASSUME IInv, NEW s \in Senders, PushBegin(s)
  PROVE  IInv'
<1> USE DEF IInv
<1>1. PICK m \in Messages \ sent, n \in Nodes \ allocated :
        /\ sent' = sent \cup {m}
        /\ allocated' = allocated \cup {n}
        /\ next' = [next EXCEPT ![n] = tail]
        /\ prev' = [prev EXCEPT ![n] = NULL]
        /\ data' = [data EXCEPT ![n] = m]
        /\ node' = [node EXCEPT ![s] = n]
  BY DEF PushBegin
<1>2. \A i \in 1..Len(order) : order[i] # n
  BY DEF ChainIntact
<1>3. TypeOK'
  BY <1>1 DEF PushBegin, TypeOK, event
<1>4. ChainIntact'
  BY <1>1, <1>2 DEF PushBegin, ChainIntact, TypeOK
<1>5. EventMirrorsQueue'
  BY DEF PushBegin, EventMirrorsQueue, event
<1>6. OrderOK'
  BY <1>1, <1>2 DEF PushBegin, OrderOK, TypeOK
<1>7. InFlightOK'
  BY <1>1, <1>2 DEF PushBegin, InFlightOK, TypeOK
<1>8. DestroyedOK'
  BY DEF PushBegin, DestroyedOK
<1> QED BY <1>3, <1>4, <1>5, <1>6, <1>7, <1>8

(* push_back under the mutex.                                              *)
LEMMA PushLinkIInv ==
  ASSUME IInv, NEW s \in Senders, PushLink(s)
  PROVE  IInv'
<1> USE DEF IInv
<1> DEFINE n == node[s]
<1>1. /\ n \in Nodes /\ n \in allocated /\ prev[n] = NULL /\ data[n] \in Messages
      /\ \A i \in 1..Len(order) : order[i] # n
  BY DEF PushLink, LinkedTo, SignaledByPush, InFlightOK, TypeOK
<1>2. /\ order' = Append(order, n) /\ Len(order') = Len(order) + 1
      /\ order'[Len(order) + 1] = n
      /\ \A i \in 1..Len(order) : order'[i] = order[i]
  BY <1>1 DEF PushLink, LinkedTo, SignaledByPush, TypeOK
<1>3. TypeOK'
  BY <1>1 DEF PushLink, LinkedTo, SignaledByPush, PushReturns, TypeOK
<1>4. ChainIntact'
  <2>1. size' = Len(order') /\ tail' = order'[Len(order')]
    BY <1>2 DEF PushLink, LinkedTo, SignaledByPush, ChainIntact, TypeOK
  <2>2. head' = order'[1]
    BY <1>1, <1>2, MsgQueueAssumption DEF MsgQueueAssumption, PushLink, ChainIntact, TypeOK
  <2>3. CASE order = <<>>
    BY <2>1, <2>2, <2>3, <1>1, <1>2 DEF PushLink, LinkedTo, SignaledByPush, ChainIntact
  <2>4. CASE order # <<>>
    <3>1. tail = order[Len(order)] /\ tail \in Nodes /\ tail # NULL /\ tail # n
      BY <2>4, <1>1, MsgQueueAssumption DEF MsgQueueAssumption, ChainIntact, TypeOK
    <3>2. prev' = [prev EXCEPT ![tail] = n]
      BY <3>1 DEF PushLink, LinkedTo, SignaledByPush
    <3>3. \A i \in 1..Len(order) :
            /\ order[i] \in allocated'
            /\ prev'[order[i]] = order'[i + 1]
      BY <3>1, <3>2, <1>2, <1>1 DEF PushLink, LinkedTo, SignaledByPush, ChainIntact, OrderOK, TypeOK
    <3>4. order'[Len(order')] \in allocated' /\ prev'[order'[Len(order')]] = NULL
      BY <3>1, <3>2, <1>1, <1>2 DEF PushLink, LinkedTo, SignaledByPush, TypeOK
    <3> QED BY <2>1, <2>2, <3>3, <3>4, <1>2 DEF ChainIntact, TypeOK
  <2> QED BY <2>3, <2>4
<1>5. EventMirrorsQueue'
  <2>1. size' > 0 /\ (size = 0 \/ size > 0)
    BY DEF PushLink, TypeOK
  <2>2. signaled'
    BY <2>1, Zenon DEF PushLink, SignaledByPush, EventMirrorsQueue
  <2> QED BY <2>1, <2>2, Zenon DEF EventMirrorsQueue
<1>6. OrderOK'
  BY <1>1, <1>2 DEF PushLink, LinkedTo, SignaledByPush, OrderOK, TypeOK
<1>7. InFlightOK'
  <2> SUFFICES ASSUME NEW t \in Senders, pc'[t] = "lock"
               PROVE  /\ node'[t] \in allocated'
                      /\ prev'[node'[t]] = NULL
                      /\ data'[node'[t]] \in Messages
                      /\ \A i \in 1..Len(order') : order'[i] # node'[t]
                      /\ \A u \in Senders : (pc'[u] = "lock" /\ node'[u] = node'[t]) => t = u
    BY DEF InFlightOK
  <2>1. t # s /\ pc[t] = "lock" /\ node'[t] = node[t]
    BY DEF PushLink, LinkedTo, SignaledByPush, PushReturns, TypeOK
  <2>2. node[t] # n
    BY <2>1 DEF PushLink, LinkedTo, SignaledByPush, InFlightOK
  <2>3. tail # NULL => tail # node[t]
    BY <2>1 DEF ChainIntact, InFlightOK, TypeOK
  <2>4. prev'[node'[t]] = NULL
    BY <2>1, <2>3 DEF PushLink, LinkedTo, SignaledByPush, InFlightOK, TypeOK
  <2>5. \A i \in 1..Len(order') : order'[i] # node'[t]
    BY <2>1, <2>2, <1>2 DEF InFlightOK, TypeOK
  <2>6. \A u \in Senders : (pc'[u] = "lock" /\ node'[u] = node'[t]) => t = u
    BY <2>1 DEF PushLink, LinkedTo, SignaledByPush, PushReturns, InFlightOK, TypeOK
  <2> QED BY <2>1, <2>4, <2>5, <2>6 DEF PushLink, LinkedTo, SignaledByPush, InFlightOK
<1>8. DestroyedOK'
  BY DEF PushLink, LinkedTo, SignaledByPush, DestroyedOK
<1> QED BY <1>3, <1>4, <1>5, <1>6, <1>7, <1>8

(* A failed push_back forgets its node; the list is untouched.             *)
LEMMA PushFailsIInv ==
  ASSUME IInv, NEW s \in Senders, PushFails(s)
  PROVE  IInv'
BY DEF IInv, PushFails, PushReturns, list, TypeOK, ChainIntact, EventMirrorsQueue,
       OrderOK, InFlightOK, DestroyedOK

(* get_front of a queue that is not empty.                                 *)
LEMMA GetFrontIInv ==
  ASSUME IInv, GetFront
  PROVE  IInv'
<1> USE DEF IInv
<1>1. /\ order \in Seq(Nodes) /\ order # <<>> /\ Len(order) \in Nat /\ Len(order) > 0
      /\ head = order[1] /\ head \in Nodes /\ head \in allocated
  BY DEF GetFront, Oldest, SignaledAfterGet, ChainIntact, TypeOK
<1>2. /\ order' = Tail(order) /\ Len(order') = Len(order) - 1
      /\ \A i \in 1..Len(order') : order'[i] = order[i + 1] /\ i + 1 \in 1..Len(order)
  BY <1>1 DEF GetFront, Oldest, SignaledAfterGet
<1>3. prev[head] = IF Len(order) = 1 THEN NULL ELSE order[2]
  BY <1>1 DEF ChainIntact
<1>4. Len(order) # 1 => order[2] \in Nodes /\ order[2] # NULL
  <2> SUFFICES ASSUME Len(order) # 1
               PROVE  order[2] \in Nodes /\ order[2] # NULL
    OBVIOUS
  <2> DEFINE k == Len(order)
  <2>1. k \in Nat /\ k > 0 /\ k # 1
    BY <1>1
  <2> HIDE DEF k
  <2>2. 2 \in 1..k
    BY <2>1
  <2>3. order[2] \in Nodes
    BY <2>2, <1>1, ElementOfSeq DEF k
  <2> QED BY <2>3, MsgQueueAssumption DEF MsgQueueAssumption
<1>5. TypeOK'
  BY <1>1, <1>2, <1>3, <1>4 DEF GetFront, Oldest, SignaledAfterGet, TypeOK, OrderOK, senders, ChainIntact
<1>6. ChainIntact'
  <2>1. size' = Len(order')
    BY <1>1, <1>2 DEF GetFront, Oldest, SignaledAfterGet, ChainIntact
  <2>2. head' = IF order' = <<>> THEN NULL ELSE order'[1]
    BY <1>1, <1>2, <1>3 DEF GetFront, Oldest, SignaledAfterGet
  <2>3. tail' = IF order' = <<>> THEN NULL ELSE order'[Len(order')]
    BY <1>1, <1>2, <1>3, <1>4 DEF GetFront, Oldest, SignaledAfterGet, ChainIntact
  <2>4. \A i \in 1..Len(order') : order'[i] \in allocated'
    BY <1>1, <1>2 DEF GetFront, Oldest, SignaledAfterGet, ChainIntact, OrderOK
  <2>5. \A i \in 1..Len(order') :
          prev'[order'[i]] = IF i = Len(order') THEN NULL ELSE order'[i + 1]
    BY <1>1, <1>2 DEF GetFront, Oldest, SignaledAfterGet, ChainIntact
  <2> QED BY <2>1, <2>2, <2>3, <2>4, <2>5 DEF ChainIntact
<1>7. EventMirrorsQueue'
  <2>1. size \in Nat /\ size > 0 /\ size' = size - 1
    BY DEF GetFront, Oldest, SignaledAfterGet, TypeOK
  <2>2. signaled = TRUE
    BY <2>1 DEF EventMirrorsQueue, TypeOK
  <2>3. signaled' <=> size # 1
    BY <2>2, Zenon DEF GetFront, Oldest, SignaledAfterGet
  <2> QED BY <2>1, <2>3 DEF EventMirrorsQueue
<1>8. OrderOK'
  BY <1>1, <1>2 DEF GetFront, Oldest, SignaledAfterGet, OrderOK
<1>9. InFlightOK'
  BY <1>1, <1>2 DEF GetFront, Oldest, SignaledAfterGet, InFlightOK, senders
<1>10. DestroyedOK'
  BY DEF GetFront, Oldest, SignaledAfterGet, DestroyedOK
<1> QED BY <1>5, <1>6, <1>7, <1>8, <1>9, <1>10

(* msgque_destroy leaves an empty queue, whatever its walk frees.          *)
LEMMA DestroyIInv ==
  ASSUME IInv, Destroy
  PROVE  IInv'
<1> USE DEF IInv, Destroy, senders
<1>1. Len(order') = 0 /\ order' = <<>> /\ order' \in Seq(Nodes)
  OBVIOUS
<1>2. TypeOK'
  BY <1>1 DEF TypeOK
<1>3. ChainIntact' /\ EventMirrorsQueue'
  BY <1>1 DEF ChainIntact, EventMirrorsQueue
<1>4. OrderOK' /\ InFlightOK' /\ DestroyedOK'
  BY <1>1 DEF OrderOK, InFlightOK, DestroyedOK, TypeOK
<1> QED BY <1>2, <1>3, <1>4

(* Every step keeps the invariant.                                         *)
LEMMA NextIInv == IInv /\ [Next]_vars => IInv'
<1> SUFFICES ASSUME IInv, [Next]_vars PROVE IInv'
  OBVIOUS
<1> USE DEF IInv, TypeOK, ChainIntact, EventMirrorsQueue, OrderOK, InFlightOK, DestroyedOK
<1>1. ASSUME NEW s \in Senders, PushBegin(s) PROVE IInv'
  BY <1>1, PushBeginIInv
<1>2. ASSUME NEW s \in Senders, PushLink(s) PROVE IInv'
  BY <1>2, PushLinkIInv
<1>3. ASSUME NEW s \in Senders, PushFails(s) PROVE IInv'
  BY <1>3, PushFailsIInv
<1>4. ASSUME NEW s \in Senders, PushBlocks(s) PROVE IInv'
  BY <1>4 DEF PushBlocks, list, senders
<1>5. CASE Select
  BY <1>5 DEF Select, list, senders, event
<1>6. CASE GetFront
  BY <1>6, GetFrontIInv
<1>7. CASE GetNone
  BY <1>7 DEF GetNone, list, senders, event
<1>8. CASE GetFrontFails
  BY <1>8 DEF GetFrontFails, list, senders
<1>9. CASE GetFrontBlocks
  BY <1>9 DEF GetFrontBlocks, list, senders
<1>10. CASE Destroy
  BY <1>10, DestroyIInv
<1>11. CASE UNCHANGED vars
  BY <1>11 DEF vars, list, senders, event
<1> QED BY <1>1, <1>2, <1>3, <1>4, <1>5, <1>6, <1>7, <1>8, <1>9, <1>10, <1>11 DEF Next

(* The inductive invariant holds in every reachable state of the queue.    *)
THEOREM Invariance == Spec => []IInv
BY InitIInv, NextIInv, PTL DEF Spec

-----------------------------------------------------------------------------
(* The values of the variables have their types.                           *)
THEOREM TypeCorrect == Spec => []TypeOK
BY Invariance, PTL DEF IInv

(* head, tail, size and prev describe the list of linked nodes.            *)
THEOREM ListIsIntact == Spec => []ChainIntact
BY Invariance, PTL DEF IInv

(* The event is set exactly while there is a message.                      *)
THEOREM EventIsRight == Spec => []EventMirrorsQueue
BY Invariance, PTL DEF IInv

-----------------------------------------------------------------------------
(* The refinement mapping: the messages of the linked nodes.               *)
Contents == [i \in DOMAIN order |-> data[order[i]]]

ContentsOK ==
  /\ Contents \in Seq(Messages) /\ Len(Contents) = Len(order)
  /\ \A i \in 1..Len(order) : Contents[i] = data[order[i]]

(* The payloads of the linked nodes, in order, are a sequence of messages. *)
LEMMA ContentsIsASeq == IInv => ContentsOK
<1> SUFFICES ASSUME IInv PROVE ContentsOK
  OBVIOUS
<1>1. order \in Seq(Nodes) /\ Len(order) \in Nat /\ DOMAIN order = 1..Len(order)
  BY DEF IInv, TypeOK
<1>2. \A i \in 1..Len(order) : data[order[i]] \in Messages
  BY DEF IInv, OrderOK
<1>3. Contents = [i \in 1..Len(order) |-> data[order[i]]]
  BY <1>1 DEF Contents
<1>4. Contents \in Seq(Messages)
  BY <1>1, <1>2, <1>3
<1>5. Len(Contents) = Len(order)
  BY <1>1, <1>3
<1> QED BY <1>3, <1>4, <1>5 DEF ContentsOK

\* push_back before the mutex does not touch what is queued.
LEMMA PushBeginContents ==
  ASSUME IInv, NEW s \in Senders, PushBegin(s)
  PROVE  Contents' = Contents
<1>1. PICK m \in Messages \ sent, n \in Nodes \ allocated :
        data' = [data EXCEPT ![n] = m]
  BY DEF PushBegin
<1>2. order' = order /\ DOMAIN order = 1..Len(order) /\ order \in Seq(Nodes)
  BY DEF PushBegin, IInv, TypeOK
<1>3. \A i \in DOMAIN order : order[i] # n /\ order[i] \in Nodes
  BY <1>2 DEF IInv, ChainIntact
<1>4. \A i \in DOMAIN order : data'[order[i]] = data[order[i]]
  BY <1>1, <1>3 DEF IInv, TypeOK
<1> QED BY <1>2, <1>4 DEF Contents

\* push_back under the mutex enqueues its message.
LEMMA PushLinkEnqueues ==
  ASSUME IInv, NEW s \in Senders, PushLink(s)
  PROVE  \E m \in Messages : Abstract!Enqueue(m)
<1>1. IInv'
  BY PushLinkIInv
<1> DEFINE n == node[s]
<1>2. /\ n \in Nodes /\ data[n] \in Messages /\ ~destroyed
      /\ order \in Seq(Nodes) /\ order' = Append(order, n)
      /\ data' = data /\ received' = received /\ destroyed' = destroyed
  BY DEF PushLink, LinkedTo, SignaledByPush, IInv, InFlightOK, DestroyedOK, TypeOK
<1>3. /\ Len(order') = Len(order) + 1 /\ order'[Len(order) + 1] = n
      /\ Len(order) \in Nat
      /\ \A i \in 1..Len(order) : order'[i] = order[i]
  BY <1>2
<1>4. ContentsOK
  BY ContentsIsASeq
<1>5. ContentsOK'
  BY <1>1, ContentsIsASeq, PTL
<1>6. Contents' = Append(Contents, data[n])
  <2> USE DEF ContentsOK
  <2>1. Append(Contents, data[n]) \in Seq(Messages)
    BY <1>2, <1>4
  <2>2. Len(Contents') = Len(Append(Contents, data[n]))
    BY <1>2, <1>3, <1>4, <1>5
  <2>3. \A i \in 1..Len(Contents') : Contents'[i] = Append(Contents, data[n])[i]
    BY <1>2, <1>3, <1>4, <1>5
  <2> QED BY <1>5, <2>1, <2>2, <2>3, SeqEqual
<1> QED BY <1>2, <1>6 DEF Abstract!Enqueue, Contents

\* get_front dequeues the front message.
LEMMA GetFrontDequeues ==
  ASSUME IInv, GetFront
  PROVE  Abstract!Dequeue
<1>1. IInv'
  BY GetFrontIInv
<1>2. /\ order \in Seq(Nodes) /\ order # <<>> /\ order' = Tail(order)
      /\ head = order[1] /\ ~destroyed
      /\ data' = data /\ received' = Append(received, data[head])
      /\ destroyed' = destroyed
  BY DEF GetFront, Oldest, SignaledAfterGet, IInv, ChainIntact, TypeOK
<1>3. /\ Len(order') = Len(order) - 1 /\ Len(order) \in Nat /\ Len(order) > 0
      /\ \A i \in 1..Len(order') : order'[i] = order[i + 1] /\ i + 1 \in 1..Len(order)
  BY <1>2
<1>4. ContentsOK
  BY ContentsIsASeq
<1>5. ContentsOK'
  BY <1>1, ContentsIsASeq, PTL
<1> USE DEF ContentsOK
<1>6. Contents # <<>> /\ Head(Contents) = data[head]
  BY <1>2, <1>3, <1>4
<1>7. Contents' = Tail(Contents)
  <2>1. /\ Tail(Contents) \in Seq(Messages)
        /\ Len(Tail(Contents)) = Len(Contents) - 1
        /\ \A i \in 1..Len(Tail(Contents)) : Tail(Contents)[i] = Contents[i + 1]
    BY <1>4, <1>6, HeadTailProperties
  <2>2. Len(Contents') = Len(Tail(Contents))
    BY <2>1, <1>3, <1>4, <1>5
  <2>3. \A i \in 1..Len(Contents') : Contents'[i] = Tail(Contents)[i]
    BY <2>1, <2>2, <1>2, <1>3, <1>4, <1>5
  <2> QED BY <1>5, <2>1, <2>2, <2>3, SeqEqual
<1> QED BY <1>2, <1>6, <1>7 DEF Abstract!Dequeue, Contents

\* msgque_destroy closes it.
LEMMA DestroyCloses ==
  ASSUME IInv, Destroy
  PROVE  Abstract!Close
<1>1. /\ ~destroyed /\ destroyed' = TRUE /\ received' = received
      /\ order' = <<>> /\ DOMAIN order' = {}
  BY DEF Destroy
<1>2. Contents' = <<>>
  BY <1>1 DEF Contents
<1> QED BY <1>1, <1>2 DEF Abstract!Close, Contents

\* Each step of the list is a step of the fifo or leaves the fifo unchanged.
LEMMA StepRefines == IInv /\ [Next]_vars => [Abstract!Next]_(Abstract!vars)
<1> SUFFICES ASSUME IInv, [Next]_vars PROVE [Abstract!Next]_(Abstract!vars)
  OBVIOUS
<1> USE DEF Abstract!Next, Abstract!vars, Contents
<1>1. ASSUME NEW s \in Senders, PushBegin(s) PROVE UNCHANGED Abstract!vars
  BY <1>1, PushBeginContents DEF PushBegin
<1>2. ASSUME NEW s \in Senders, PushLink(s) PROVE Abstract!Next
  BY <1>2, PushLinkEnqueues
<1>3. ASSUME NEW s \in Senders, PushFails(s) \/ PushBlocks(s)
      PROVE  UNCHANGED Abstract!vars
  BY <1>3 DEF PushFails, PushBlocks, list
<1>4. ASSUME Select \/ GetNone \/ GetFrontFails \/ GetFrontBlocks
      PROVE  UNCHANGED Abstract!vars
  BY <1>4 DEF Select, GetNone, GetFrontFails, GetFrontBlocks, list
<1>5. CASE GetFront
  BY <1>5, GetFrontDequeues
<1>6. CASE Destroy
  BY <1>6, DestroyCloses
<1>7. CASE UNCHANGED vars
  BY <1>7 DEF vars, list
<1> QED BY <1>1, <1>2, <1>3, <1>4, <1>5, <1>6, <1>7 DEF Next

(* The list implements the fifo: no message is lost, duplicated or         *)
(* reordered, whoever races whom, and also when a push_back fails.         *)
THEOREM Refinement == Spec => ImplementsFifo
<1>1. Init => Abstract!Init
  <2> SUFFICES ASSUME Init PROVE Abstract!Init
    OBVIOUS
  <2>1. order = <<>> /\ DOMAIN order = {} /\ received = <<>> /\ destroyed = FALSE
    BY DEF Init
  <2>2. [i \in DOMAIN order |-> data[order[i]]] = <<>>
    BY <2>1
  <2> QED BY <2>1, <2>2 DEF Abstract!Init
<1> QED BY <1>1, StepRefines, Invariance, PTL DEF Spec, ImplementsFifo, Abstract!Spec
=============================================================================
