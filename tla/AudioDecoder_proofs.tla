------------------------- MODULE AudioDecoder_proofs -------------------------
(***************************************************************************)
(* Proofs about AudioDecoder for every number of buffers, frames and       *)
(* commands.  For every client: type correctness, that the thread's read   *)
(* of the data pipe finds a buffer, that decoding steps do not mix, that a *)
(* buffer is in one place and that input waits in its order.  For a client *)
(* that waits for its commands: that they return every buffer, and that    *)
(* what has been freed is not used.  For one that never flushes the output *)
(* port alone: that EOS follows the frame that carried it.                 *)
(***************************************************************************)
EXTENDS AudioDecoder, SequenceTheorems, TLAPS

\* A buffer that has been written and not yet counted.
Uncounted(call) == IF call # None /\ call.written THEN 1 ELSE 0

ControlOK ==
  /\ curState \in States
  /\ thread \in {"select", "data", "command", "drain", "return", "exited", "crashed"}
  /\ command \in Commands \cup {None} /\ cmdPipe \in Seq(Commands)
  /\ exit \in BOOLEAN /\ sent \in 0..MaxCommands

\* The thread's turn is about something.
TurnOK ==
  /\ thread = "data" => dataPipe # <<>>
  /\ thread = "command" => cmdPipe # <<>>
  /\ thread \in {"drain", "return"} => command \in Commands

\* Every buffer in the pipe is counted or about to be, and none twice.
PipeOK ==
  /\ dataPipe \in Seq(Buffers) /\ outstanding \in Int
  /\ emptying \in CallsOn(InBuffers) \cup {None} /\ filling \in CallsOn(OutBuffers) \cup {None}
  /\ Len(dataPipe) = outstanding + Uncounted(emptying) + Uncounted(filling)

QueuesOK ==
  /\ inQ \in Seq(InBuffers) /\ outQ \in Seq(OutBuffers)
  /\ cur \in InBuffers \cup {None} /\ offset \in 0..MaxLen
  /\ queues \in BOOLEAN /\ sendAfterEOS \in BOOLEAN /\ firstBuff \in 0..2

ClientOK ==
  /\ content \in [InBuffers -> Frames]
  /\ client \subseteq Buffers /\ fed \in 0..MaxFrames

HistoryOK == before \subseteq Buffers /\ decoded \in Seq(0..MaxFrames) /\ flagged \in BOOLEAN

\* The inductive invariant.
IInv == ControlOK /\ TurnOK /\ PipeOK /\ QueuesOK /\ ClientOK /\ HistoryOK

(* A call is counted as written only when it is.                           *)
LEMMA UncountedFacts ==
  ASSUME NEW S, S \subseteq Buffers, NEW call \in CallsOn(S)
  PROVE  /\ call # None
         /\ call.buffer \in S /\ call.written \in BOOLEAN
         /\ Written(call) \in CallsOn(S)
         /\ Uncounted(Written(call)) = 1
         /\ ~call.written => Uncounted(call) = 0
         /\ call.written => Uncounted(call) = 1
<1>1. call \in CallsOn(Buffers)
  BY DEF CallsOn
<1>2. call # None
  BY <1>1, AudioDecoderAssumption DEF AudioDecoderAssumption
<1>3. call.buffer \in S /\ call.written \in BOOLEAN
  BY DEF CallsOn
<1>4. Written(call) \in CallsOn(S) /\ Written(call).written = TRUE
  BY <1>3 DEF CallsOn, Written
<1>5. Written(call) # None
  BY <1>4, AudioDecoderAssumption DEF AudioDecoderAssumption, CallsOn
<1>6. Uncounted(Written(call)) = 1
  BY <1>4, <1>5, Zenon DEF Uncounted
<1>7. ~call.written => Uncounted(call) = 0
  BY Zenon DEF Uncounted
<1>8. call.written => Uncounted(call) = 1
  BY <1>2, Zenon DEF Uncounted
<1> QED BY <1>2, <1>3, <1>4, <1>6, <1>7, <1>8

(* Without a call nothing is uncounted; with one at most one buffer is.    *)
LEMMA UncountedBounds == Uncounted(None) = 0 /\ \A call : Uncounted(call) \in {0, 1}
BY DEF Uncounted

-----------------------------------------------------------------------------
(* The parts of the invariant that an action leaves alone.                 *)
LEMMA ControlStays ==
  ASSUME IInv, UNCHANGED <<curState, command, cmdPipe, exit, sent>>, thread' \in {"select", "exited"}
  PROVE  ControlOK' /\ TurnOK'
BY DEF IInv, ControlOK, TurnOK

(* The same for the pipe and the calls.                                    *)
LEMMA PipeStays ==
  ASSUME IInv, UNCHANGED <<dataPipe, outstanding, emptying, filling>>
  PROVE  PipeOK'
BY DEF IInv, PipeOK

(* The same for the queues.                                                *)
LEMMA QueuesStay == ASSUME IInv, UNCHANGED data PROVE QueuesOK'
BY DEF IInv, QueuesOK, data

(* The same for the client's buffers.                                      *)
LEMMA ClientStays ==
  ASSUME IInv, UNCHANGED <<content, fed>>, client' \subseteq Buffers
  PROVE  ClientOK'
BY DEF IInv, ClientOK

(* The same for the history.                                               *)
LEMMA HistoryStays ==
  ASSUME IInv, UNCHANGED <<decoded, flagged>>, before' \subseteq Buffers
  PROVE  HistoryOK'
BY DEF IInv, HistoryOK

(* What an action of the client does to the thread: nothing.               *)
LEMMA ThreadStays ==
  ASSUME IInv, UNCHANGED <<curState, thread, command, cmdPipe, exit, sent>>,
         dataPipe' = dataPipe \/ \E b \in Buffers : dataPipe' = Append(dataPipe, b)
  PROVE  ControlOK' /\ TurnOK'
<1>1. dataPipe # <<>> => dataPipe' # <<>>
  BY DEF IInv, PipeOK
<1> QED BY <1>1 DEF IInv, ControlOK, TurnOK

(* Giving buffers back.                                                    *)
LEMMA GiveBackFacts ==
  ASSUME IInv, NEW bs, bs \subseteq Buffers, GiveBack(bs)
  PROVE  client' \subseteq Buffers /\ before' \subseteq Buffers
BY DEF IInv, ClientOK, HistoryOK, GiveBack

-----------------------------------------------------------------------------
(* The client's calls.                                                     *)
LEMMA BeginEmptyIInv ==
  ASSUME IInv, NEW b \in InBuffers, NEW f \in Frames, BeginEmpty(b, f)
  PROVE  IInv'
<1> DEFINE call == [buffer |-> b, written |-> FALSE]
<1>1. call \in CallsOn(InBuffers) /\ InBuffers \subseteq Buffers
  BY DEF CallsOn, Buffers
<1>2. Uncounted(emptying') = 0 /\ Uncounted(emptying) = 0
  BY <1>1, UncountedFacts, UncountedBounds, Zenon DEF BeginEmpty
<1>3. PipeOK'
  BY <1>1, <1>2 DEF BeginEmpty, IInv, PipeOK
<1>4. fed' \in 0..MaxFrames
  BY AudioDecoderAssumption DEF BeginEmpty, IInv, ClientOK, AudioDecoderAssumption, Frames
<1>5. ClientOK'
  BY <1>4 DEF BeginEmpty, IInv, ClientOK
<1> QED BY <1>3, <1>5, ThreadStays, QueuesStay, HistoryStays
        DEF BeginEmpty, IInv, history, HistoryOK

(* The same for FillThisBuffer.                                            *)
LEMMA BeginFillIInv ==
  ASSUME IInv, NEW b \in OutBuffers, BeginFill(b)
  PROVE  IInv'
<1> DEFINE call == [buffer |-> b, written |-> FALSE]
<1>1. call \in CallsOn(OutBuffers) /\ OutBuffers \subseteq Buffers
  BY DEF CallsOn, Buffers
<1>2. Uncounted(filling') = 0 /\ Uncounted(filling) = 0
  BY <1>1, UncountedFacts, UncountedBounds, Zenon DEF BeginFill
<1>3. PipeOK'
  BY <1>1, <1>2 DEF BeginFill, IInv, PipeOK
<1>4. ClientOK'
  BY ClientStays DEF BeginFill, IInv, ClientOK
<1> QED BY <1>3, <1>4, ThreadStays, QueuesStay, HistoryStays
        DEF BeginFill, IInv, history, HistoryOK

(* A write puts one more buffer into the pipe, uncounted.                  *)
LEMMA WriteEmptyIInv == ASSUME IInv, WriteEmpty PROVE IInv'
<1>1. emptying \in CallsOn(InBuffers) /\ InBuffers \subseteq Buffers
  BY DEF WriteEmpty, IInv, PipeOK, Buffers
<1>2. emptying.buffer \in Buffers /\ emptying' \in CallsOn(InBuffers)
  BY <1>1, UncountedFacts, Zenon DEF WriteEmpty
<1>3. Uncounted(emptying) = 0 /\ Uncounted(emptying') = 1
  BY <1>1, UncountedFacts, Zenon DEF WriteEmpty
<1>4. dataPipe' \in Seq(Buffers) /\ Len(dataPipe') = Len(dataPipe) + 1
  BY <1>2 DEF WriteEmpty, IInv, PipeOK
<1>5. PipeOK'
  BY <1>2, <1>3, <1>4, UncountedBounds DEF WriteEmpty, IInv, PipeOK
<1> QED BY <1>2, <1>5, ThreadStays, QueuesStay, ClientStays, HistoryStays
        DEF WriteEmpty, IInv, ClientOK, history, HistoryOK

(* The same for an output buffer.                                          *)
LEMMA WriteFillIInv == ASSUME IInv, WriteFill PROVE IInv'
<1>1. filling \in CallsOn(OutBuffers) /\ OutBuffers \subseteq Buffers
  BY DEF WriteFill, IInv, PipeOK, Buffers
<1>2. filling.buffer \in Buffers /\ filling' \in CallsOn(OutBuffers)
  BY <1>1, UncountedFacts, Zenon DEF WriteFill
<1>3. Uncounted(filling) = 0 /\ Uncounted(filling') = 1
  BY <1>1, UncountedFacts, Zenon DEF WriteFill
<1>4. dataPipe' \in Seq(Buffers) /\ Len(dataPipe') = Len(dataPipe) + 1
  BY <1>2 DEF WriteFill, IInv, PipeOK
<1>5. PipeOK'
  BY <1>2, <1>3, <1>4, UncountedBounds DEF WriteFill, IInv, PipeOK
<1> QED BY <1>2, <1>5, ThreadStays, QueuesStay, ClientStays, HistoryStays
        DEF WriteFill, IInv, ClientOK, history, HistoryOK

(* Counting does not change the pipe.                                      *)
LEMMA CountEmptyIInv == ASSUME IInv, CountEmpty PROVE IInv'
<1>1. emptying \in CallsOn(InBuffers) /\ InBuffers \subseteq Buffers
  BY DEF CountEmpty, IInv, PipeOK, Buffers
<1>2. Uncounted(emptying) = 1 /\ Uncounted(emptying') = 0
  BY <1>1, UncountedFacts, UncountedBounds, Zenon DEF CountEmpty
<1>3. PipeOK'
  BY <1>2, UncountedBounds DEF CountEmpty, IInv, PipeOK
<1> QED BY <1>3, ThreadStays, QueuesStay, ClientStays, HistoryStays
        DEF CountEmpty, IInv, ClientOK, history, HistoryOK

(* The same for an output buffer.                                          *)
LEMMA CountFillIInv == ASSUME IInv, CountFill PROVE IInv'
<1>1. filling \in CallsOn(OutBuffers) /\ OutBuffers \subseteq Buffers
  BY DEF CountFill, IInv, PipeOK, Buffers
<1>2. Uncounted(filling) = 1 /\ Uncounted(filling') = 0
  BY <1>1, UncountedFacts, UncountedBounds, Zenon DEF CountFill
<1>3. PipeOK'
  BY <1>2, UncountedBounds DEF CountFill, IInv, PipeOK
<1> QED BY <1>3, ThreadStays, QueuesStay, ClientStays, HistoryStays
        DEF CountFill, IInv, ClientOK, history, HistoryOK

(* Sending a command appends it.                                           *)
LEMMA SendCommandIInv ==
  ASSUME IInv, NEW c \in Requests, SendCommand(c)
  PROVE  IInv'
<1>1. c \in Commands
  BY AudioDecoderAssumption DEF AudioDecoderAssumption
<1>2. cmdPipe' \in Seq(Commands) /\ (cmdPipe # <<>> => cmdPipe' # <<>>)
  BY <1>1 DEF SendCommand, IInv, ControlOK
<1>3. sent' \in 0..MaxCommands
  BY AudioDecoderAssumption DEF SendCommand, IInv, ControlOK, AudioDecoderAssumption
<1>4. ControlOK' /\ TurnOK'
  BY <1>2, <1>3 DEF SendCommand, IInv, ControlOK, TurnOK, States
<1>5. before' \subseteq Buffers
  BY DEF SendCommand, IInv, HistoryOK, Held
<1> QED BY <1>4, <1>5, PipeStays, QueuesStay, ClientStays, HistoryStays
        DEF SendCommand, IInv, ClientOK, calls

(* Destroying the component only raises the flag.                          *)
LEMMA DeinitIInv == ASSUME IInv, Deinit PROVE IInv'
<1>1. ControlOK' /\ TurnOK'
  BY DEF Deinit, IInv, ControlOK, TurnOK
<1> QED BY <1>1, PipeStays, QueuesStay, ClientStays, HistoryStays
        DEF Deinit, IInv, ClientOK, HistoryOK, calls, history

(* The thread turns to a pipe that has something.                          *)
LEMMA SelectIInv == ASSUME IInv, Select PROVE IInv'
<1>1. thread' \in {"data", "command", "exited"}
  BY DEF Select, Selected
<1>2. thread' = "data" => dataPipe # <<>>
  BY DEF Select, Selected
<1>3. thread' = "command" => cmdPipe # <<>>
  BY DEF Select, Selected
<1>4. ControlOK' /\ TurnOK'
  BY <1>1, <1>2, <1>3 DEF Select, IInv, ControlOK, TurnOK
<1> QED BY <1>4, PipeStays, QueuesStay, ClientStays, HistoryStays
        DEF Select, IInv, ClientOK, HistoryOK, calls, history

-----------------------------------------------------------------------------
(* The data pipe: one buffer less, and one less outstanding.               *)
LEMMA TakeFacts ==
  ASSUME IInv, NEW b \in Buffers, Take(b), thread' \in {"select", "exited"}
  PROVE  ControlOK' /\ TurnOK' /\ PipeOK' /\ UNCHANGED <<content, fed>>
<1>1. dataPipe # <<>>
  BY DEF Take, IInv, TurnOK
<1>2. dataPipe' \in Seq(Buffers) /\ Len(dataPipe') = Len(dataPipe) - 1
  BY <1>1 DEF Take, IInv, PipeOK
<1>3. PipeOK'
  BY <1>2, UncountedBounds DEF Take, IInv, PipeOK, calls
<1> QED BY <1>3, ControlStays DEF Take, calls

(* A decoding step stays inside the input buffer.                          *)
LEMMA DecodeStepFacts ==
  ASSUME IInv, NEW b \in InBuffers, NEW o \in OutBuffers, NEW from \in 0..MaxLen,
         NEW steps, NEW last, DecodeStep(b, o, from, steps, last),
         \A n \in steps : n \in Nat /\ from + n \in 0..MaxLen
  PROVE  /\ cur' \in {None, b} /\ offset' \in 0..MaxLen
         /\ client' \subseteq Buffers /\ HistoryOK'
         /\ cur' = None => b \in client'
<1>1. PICK n \in steps :
        LET emptied == from + n = content[b].len IN
        /\ cur' = IF emptied THEN None ELSE b
        /\ offset' = IF emptied THEN 0 ELSE from + n
        /\ GiveBack(IF emptied THEN {b, o} ELSE {o})
        /\ decoded' = IF decoded # <<>> /\ Last(decoded) = content[b].n THEN decoded
                      ELSE Append(decoded, content[b].n)
        /\ flagged' = (flagged \/ (sendAfterEOS' /\ last /\ emptied))
  BY Zenon DEF DecodeStep
<1> DEFINE emptied == from + n = content[b].len
<1>2. cur' \in {None, b}
  BY <1>1
<1>3. offset' \in 0..MaxLen
  BY <1>1, AudioDecoderAssumption DEF AudioDecoderAssumption
<1>4. client' \subseteq Buffers /\ before' \subseteq Buffers
  BY <1>1, GiveBackFacts DEF Buffers
<1>5. content[b].n \in 0..MaxFrames
  BY DEF IInv, ClientOK, Frames
<1>6. decoded' \in Seq(0..MaxFrames)
  <2>1. decoded \in Seq(0..MaxFrames)
    BY DEF IInv, HistoryOK
  <2>2. Append(decoded, content[b].n) \in Seq(0..MaxFrames)
    BY <2>1, <1>5
  <2>3. decoded' = decoded \/ decoded' = Append(decoded, content[b].n)
    BY <1>1, Zenon
  <2> QED BY <2>1, <2>2, <2>3
<1>7. flagged' \in BOOLEAN
  BY <1>1, Zenon
<1>8. cur' = None => b \in client'
  <2>1. CASE emptied
    BY <2>1, <1>1 DEF GiveBack
  <2>2. CASE ~emptied
    <3>1. b # None
      BY AudioDecoderAssumption DEF AudioDecoderAssumption, Buffers
    <3> QED BY <2>2, <3>1, <1>1
  <2> QED BY <2>1, <2>2
<1> QED BY <1>2, <1>3, <1>4, <1>6, <1>7, <1>8 DEF HistoryOK

(* What a decoding step may take stays inside the buffer.                  *)
LEMMA StepsFacts ==
  ASSUME NEW len \in 0..MaxLen, NEW from \in 0..MaxLen, NEW n \in Steps(len - from)
  PROVE  n \in Nat /\ from + n \in 0..MaxLen
BY AudioDecoderAssumption DEF AudioDecoderAssumption, Steps

(* A put keeps a queue's type.                                             *)
LEMMA PutFacts ==
  ASSUME NEW S, NEW q \in Seq(S), NEW b \in S
  PROVE  Put(q, b) \in Seq(S)
BY DEF Put

(* The flag for EOS is Boolean, once input has been accepted.              *)
LEMMA AcceptedFacts ==
  ASSUME NEW b, Accepted(b)
  PROVE  b \in InBuffers /\ b \in Buffers /\ sendAfterEOS' \in BOOLEAN
<1>1. sendAfterEOS' = (content[b].n \in EosFrames)
  BY Zenon DEF Accepted, IsEos
<1>2. (content[b].n \in EosFrames) \in BOOLEAN
  OBVIOUS
<1>3. sendAfterEOS' \in BOOLEAN
  BY <1>1, <1>2
<1> QED BY <1>3 DEF Accepted, Buffers

(* Opening the codec leaves it open.                                       *)
LEMMA OpenedFacts ==
  ASSUME NEW b, Opened(b)
  PROVE  b \in InBuffers /\ b \in Buffers /\ sendAfterEOS' \in BOOLEAN /\ firstBuff' = 2
BY AcceptedFacts DEF Opened

(* A buffer that is handed back, forgotten or queued.                      *)
LEMMA ReturnedIInv ==
  ASSUME IInv, NEW b \in Buffers, ReturnInput(b) \/ ReturnOutput(b)
  PROVE  IInv'
<1>1. Take(b) /\ thread' = "select" /\ GiveBack({b}) /\ UNCHANGED <<data, decoded, flagged>>
  BY DEF ReturnInput, ReturnOutput, Done
<1>2. ControlOK' /\ TurnOK' /\ PipeOK' /\ UNCHANGED <<content, fed>>
  BY <1>1, TakeFacts
<1>3. client' \subseteq Buffers /\ before' \subseteq Buffers
  BY <1>1, GiveBackFacts
<1> QED BY <1>1, <1>2, <1>3, QueuesStay, ClientStays, HistoryStays DEF IInv

(* The same for a buffer with the codec's data, or that it cannot be opened for. *)
LEMMA NotDecodedIInv ==
  ASSUME IInv, NEW b \in Buffers, TakeConfig(b) \/ OpenFails(b)
  PROVE  IInv'
<1>1. /\ Accepted(b) /\ Take(b) /\ thread' \in {"select", "exited"} /\ GiveBack({b})
      /\ firstBuff' = 1 /\ UNCHANGED <<inQ, outQ, cur, offset, queues, decoded, flagged>>
  BY DEF TakeConfig, OpenFails, Done
<1>2. ControlOK' /\ TurnOK' /\ PipeOK' /\ UNCHANGED <<content, fed>>
  BY <1>1, TakeFacts
<1>3. client' \subseteq Buffers /\ before' \subseteq Buffers
  BY <1>1, GiveBackFacts
<1>4. sendAfterEOS' \in BOOLEAN
  BY <1>1, AcceptedFacts
<1>5. QueuesOK'
  BY <1>1, <1>4 DEF IInv, QueuesOK
<1> QED BY <1>1, <1>2, <1>3, <1>5, ClientStays, HistoryStays DEF IInv

(* An input buffer that is decoded at once.                                *)
LEMMA DecodeInputIInv ==
  ASSUME IInv, NEW b \in Buffers, DecodeInput(b)
  PROVE  IInv'
<1> DEFINE f == content[b]
           steps == IF f.kind = "seek" THEN {f.len} ELSE Steps(f.len)
<1>1. b \in InBuffers /\ sendAfterEOS' \in BOOLEAN /\ firstBuff' = 2
  BY OpenedFacts DEF DecodeInput
<1>2. ControlOK' /\ TurnOK' /\ PipeOK' /\ UNCHANGED <<content, fed>>
  BY TakeFacts DEF DecodeInput, Done
<1>3. outQ \in Seq(OutBuffers) /\ outQ # <<>>
  BY DEF DecodeInput, MayDecodeAtOnce, IInv, QueuesOK
<1>4. Head(outQ) \in OutBuffers /\ outQ' \in Seq(OutBuffers)
  BY <1>3 DEF DecodeInput
<1>5. f.len \in 0..MaxLen
  BY <1>1 DEF IInv, ClientOK, Frames
<1>6. \A n \in steps : n \in Nat /\ 0 + n \in 0..MaxLen
  <2> SUFFICES ASSUME NEW n \in steps PROVE n \in Nat /\ 0 + n \in 0..MaxLen
    OBVIOUS
  <2>1. n = f.len \/ n \in Steps(f.len)
    OBVIOUS
  <2>2. f.len \in Nat /\ MaxLen \in Nat
    BY <1>5, AudioDecoderAssumption DEF AudioDecoderAssumption
  <2>3. n \in 0..f.len
    BY <2>1, <2>2 DEF Steps
  <2> QED BY <2>2, <2>3, <1>5
<1>7. DecodeStep(b, Head(outQ), 0, steps, TRUE)
  BY DEF DecodeInput
<1>8. 0 \in 0..MaxLen
  BY AudioDecoderAssumption DEF AudioDecoderAssumption
<1>9. /\ cur' \in {None, b} /\ offset' \in 0..MaxLen
      /\ client' \subseteq Buffers /\ HistoryOK'
  <2> HIDE DEF steps
  <2> QED BY <1>1, <1>4, <1>6, <1>7, <1>8, DecodeStepFacts
<1>10. QueuesOK'
  BY <1>1, <1>4, <1>9 DEF DecodeInput, IInv, QueuesOK
<1> QED BY <1>2, <1>9, <1>10, ClientStays DEF IInv

(* A decoding failure keeps both buffers.                                  *)
LEMMA DecodeInputFailsIInv ==
  ASSUME IInv, NEW b \in Buffers, DecodeInputFails(b)
  PROVE  IInv'
<1>1. b \in InBuffers /\ sendAfterEOS' \in BOOLEAN /\ firstBuff' = 2
  BY OpenedFacts DEF DecodeInputFails
<1>2. ControlOK' /\ TurnOK' /\ PipeOK' /\ UNCHANGED <<content, fed>>
  BY TakeFacts DEF DecodeInputFails
<1>3. outQ' \in Seq(OutBuffers)
  BY DEF DecodeInputFails, MayDecodeAtOnce, IInv, QueuesOK
<1>4. 0 \in 0..MaxLen
  BY AudioDecoderAssumption DEF AudioDecoderAssumption
<1>5. QueuesOK'
  BY <1>1, <1>3, <1>4 DEF DecodeInputFails, IInv, QueuesOK
<1> QED BY <1>2, <1>5, ClientStays, HistoryStays DEF DecodeInputFails, IInv, ClientOK, history, HistoryOK

(* Input that waits, or that is forgotten.                                 *)
LEMMA InputKeptIInv ==
  ASSUME IInv, NEW b \in Buffers, QueueInput(b) \/ ForgetInput(b)
  PROVE  IInv'
<1>1. /\ Opened(b) /\ Take(b) /\ thread' = "select"
      /\ UNCHANGED <<outQ, cur, offset, queues, client, history>>
      /\ inQ' = inQ \/ inQ' = Put(inQ, b)
  BY DEF QueueInput, ForgetInput, Done
<1>2. b \in InBuffers /\ sendAfterEOS' \in BOOLEAN /\ firstBuff' = 2
  BY <1>1, OpenedFacts
<1>3. ControlOK' /\ TurnOK' /\ PipeOK' /\ UNCHANGED <<content, fed>>
  BY <1>1, TakeFacts
<1>4. inQ' \in Seq(InBuffers)
  BY <1>1, <1>2, PutFacts DEF IInv, QueuesOK
<1>5. QueuesOK'
  BY <1>1, <1>2, <1>4 DEF IInv, QueuesOK
<1> QED BY <1>1, <1>3, <1>5, ClientStays, HistoryStays DEF IInv, ClientOK, history, HistoryOK

(* The input an output buffer is filled from.                              *)
LEMMA SourceFacts ==
  ASSUME IInv, HasInput
  PROVE  Source \in InBuffers /\ InQAfter \in Seq(InBuffers)
<1>1. cur \in InBuffers \cup {None} /\ inQ \in Seq(InBuffers)
  BY DEF IInv, QueuesOK
<1>2. cur = None => inQ # <<>>
  BY DEF HasInput
<1> QED BY <1>1, <1>2 DEF Source, InQAfter

(* An output buffer that is filled.                                        *)
LEMMA DecodeOutputIInv ==
  ASSUME IInv, NEW o \in Buffers, DecodeOutput(o)
  PROVE  IInv'
<1> DEFINE f == content[Source]
           steps == IF f.kind = "seek" THEN {0} ELSE Steps(f.len - offset)
<1>1. o \in OutBuffers /\ Source \in InBuffers /\ inQ' \in Seq(InBuffers)
  BY SourceFacts DEF DecodeOutput
<1>2. ControlOK' /\ TurnOK' /\ PipeOK' /\ UNCHANGED <<content, fed>>
  BY TakeFacts DEF DecodeOutput, Done
<1>3. f.len \in 0..MaxLen /\ offset \in 0..MaxLen
  BY <1>1 DEF IInv, ClientOK, QueuesOK, Frames
<1>4. \A n \in steps : n \in Nat /\ offset + n \in 0..MaxLen
  <2> SUFFICES ASSUME NEW n \in steps PROVE n \in Nat /\ offset + n \in 0..MaxLen
    OBVIOUS
  <2>1. n = 0 \/ n \in Steps(f.len - offset)
    OBVIOUS
  <2>2. MaxLen \in Nat
    BY AudioDecoderAssumption DEF AudioDecoderAssumption
  <2> QED BY <2>1, <2>2, <1>3, StepsFacts
<1>5. DecodeStep(Source, o, offset, steps, NothingQueued(inQ'))
  BY DEF DecodeOutput
<1>6. /\ cur' \in {None, Source} /\ offset' \in 0..MaxLen
      /\ client' \subseteq Buffers /\ HistoryOK'
  <2> HIDE DEF steps
  <2> QED BY <1>1, <1>3, <1>4, <1>5, DecodeStepFacts
<1>7. QueuesOK'
  BY <1>1, <1>6 DEF DecodeOutput, IInv, QueuesOK
<1> QED BY <1>2, <1>6, <1>7, ClientStays DEF IInv

(* The other fates of an output buffer.                                    *)
LEMMA OutputKeptIInv ==
  ASSUME IInv, NEW o \in Buffers, DecodeOutputFails(o) \/ QueueOutput(o) \/ ForgetOutput(o)
  PROVE  IInv'
<1>1. Take(o) /\ thread' \in {"select", "exited"} /\ UNCHANGED <<client, history>>
  BY DEF DecodeOutputFails, QueueOutput, ForgetOutput, Done
<1>2. ControlOK' /\ TurnOK' /\ PipeOK' /\ UNCHANGED <<content, fed>>
  BY <1>1, TakeFacts
<1>3. QueuesOK'
  <2>1. CASE DecodeOutputFails(o)
    BY <2>1, SourceFacts DEF DecodeOutputFails, IInv, QueuesOK
  <2>2. CASE QueueOutput(o)
    <3>1. Put(outQ, o) \in Seq(OutBuffers)
      BY <2>2, PutFacts DEF QueueOutput, IInv, QueuesOK
    <3> QED BY <2>2, <3>1 DEF QueueOutput, IInv, QueuesOK
  <2>3. CASE ForgetOutput(o)
    BY <2>3, QueuesStay DEF ForgetOutput
  <2> QED BY <2>1, <2>2, <2>3
<1> QED BY <1>1, <1>2, <1>3, ClientStays, HistoryStays DEF IInv, ClientOK, history, HistoryOK

-----------------------------------------------------------------------------
(* The command pipe.                                                       *)
LEMMA TakeCommandFacts ==
  ASSUME IInv, NEW c, TakeCommand(c)
  PROVE  /\ cmdPipe' \in Seq(Commands) /\ c \in Commands
         /\ PipeOK' /\ ClientOK' /\ HistoryOK' /\ UNCHANGED <<exit, sent>>
<1>1. cmdPipe \in Seq(Commands) /\ cmdPipe # <<>>
  BY DEF TakeCommand, IInv, ControlOK, TurnOK
<1>2. cmdPipe' \in Seq(Commands) /\ c \in Commands
  BY <1>1 DEF TakeCommand
<1> QED BY <1>2, PipeStays, ClientStays, HistoryStays
        DEF TakeCommand, IInv, ClientOK, HistoryOK, calls, history

(* A command that only changes the state, or nothing.                      *)
LEMMA StateCommandIInv ==
  ASSUME IInv, NEW c, ChangeState(c) \/ NoTransition(c)
  PROVE  IInv'
<1>1. /\ TakeCommand(c) /\ thread' = "select" /\ UNCHANGED <<command, data>>
      /\ curState' = curState \/ curState' = c.to
  BY DEF ChangeState, NoTransition, Done
<1>2. /\ cmdPipe' \in Seq(Commands) /\ c \in Commands
      /\ PipeOK' /\ ClientOK' /\ HistoryOK' /\ UNCHANGED <<exit, sent>>
  BY <1>1, TakeCommandFacts
<1>3. c.to \in States
  BY <1>2 DEF Commands, StateSet, Flush, States
<1>4. ControlOK' /\ TurnOK'
  BY <1>1, <1>2, <1>3 DEF IInv, ControlOK, TurnOK
<1> QED BY <1>1, <1>2, <1>4, QueuesStay DEF IInv

(* A command after which the queues are gone.                              *)
LEMMA QueuesFreedIInv ==
  ASSUME IInv, NEW c, ToLoaded(c) \/ ToInvalid(c)
  PROVE  IInv'
<1>1. /\ TakeCommand(c) /\ thread' \in {"select", "exited"} /\ UNCHANGED command
      /\ curState' \in {"Loaded", "Invalid"}
      /\ queues' = FALSE /\ inQ' = <<>> /\ outQ' = <<>> /\ cur' = None /\ offset' = 0
      /\ UNCHANGED <<firstBuff, sendAfterEOS>>
  BY DEF ToLoaded, ToInvalid, Done
<1>2. /\ cmdPipe' \in Seq(Commands)
      /\ PipeOK' /\ ClientOK' /\ HistoryOK' /\ UNCHANGED <<exit, sent>>
  BY <1>1, TakeCommandFacts
<1>3. ControlOK' /\ TurnOK'
  BY <1>1, <1>2 DEF IInv, ControlOK, TurnOK, States
<1>4. 0 \in 0..MaxLen
  BY AudioDecoderAssumption DEF AudioDecoderAssumption
<1>5. inQ' \in Seq(InBuffers) /\ outQ' \in Seq(OutBuffers) /\ queues' \in BOOLEAN
  <2>1. inQ' = <<>> /\ outQ' = <<>>
    BY <1>1, Zenon
  <2>2. queues' \in BOOLEAN
    BY <1>1, Zenon
  <2> QED BY <2>1, <2>2
<1>6. sendAfterEOS' \in BOOLEAN /\ firstBuff' \in 0..2
  BY <1>1 DEF IInv, QueuesOK
<1>7. cur' \in InBuffers \cup {None} /\ offset' \in 0..MaxLen
  BY <1>1, <1>4
<1>8. QueuesOK'
  BY <1>5, <1>6, <1>7 DEF QueuesOK
<1> QED BY <1>2, <1>3, <1>8 DEF IInv

(* A command that returns buffers.                                         *)
LEMMA StartReturningIInv ==
  ASSUME IInv, NEW c, StartReturning(c)
  PROVE  IInv'
<1>1. /\ cmdPipe' \in Seq(Commands) /\ c \in Commands
      /\ PipeOK' /\ ClientOK' /\ HistoryOK' /\ UNCHANGED <<exit, sent>>
  BY TakeCommandFacts DEF StartReturning
<1>2. ControlOK' /\ TurnOK'
  BY <1>1 DEF StartReturning, IInv, ControlOK, TurnOK
<1> QED BY <1>1, <1>2, QueuesStay DEF StartReturning, IInv

(* A read of the data pipe inside a command.                               *)
LEMMA DrainOneIInv == ASSUME IInv, DrainOne PROVE IInv'
<1>1. dataPipe \in Seq(Buffers) /\ dataPipe # <<>>
  BY DEF DrainOne, IInv, PipeOK
<1>2. /\ Head(dataPipe) \in Buffers
      /\ dataPipe' \in Seq(Buffers) /\ Len(dataPipe') = Len(dataPipe) - 1
  BY <1>1 DEF DrainOne
<1>3. PipeOK'
  BY <1>2, UncountedBounds DEF DrainOne, IInv, PipeOK, calls
<1>4. inQ' \in Seq(InBuffers)
  BY PutFacts DEF DrainOne, IInv, QueuesOK
<1>5. outQ' \in Seq(OutBuffers)
  BY PutFacts DEF DrainOne, IInv, QueuesOK
<1>6. QueuesOK'
  BY <1>4, <1>5 DEF DrainOne, IInv, QueuesOK
<1>7. ControlOK' /\ TurnOK'
  BY DEF DrainOne, IInv, ControlOK, TurnOK
<1> QED BY <1>3, <1>6, <1>7, ClientStays, HistoryStays
        DEF DrainOne, IInv, ClientOK, HistoryOK, calls, history

(* The end of those reads, and of the command.                             *)
LEMMA DrainEndsIInv ==
  ASSUME IInv, DrainEnds \/ Complete
  PROVE  IInv'
<1>1. ControlOK' /\ TurnOK'
  BY DEF DrainEnds, Complete, Done, IInv, ControlOK, TurnOK, States
<1>2. UNCHANGED <<dataPipe, data, outstanding, calls, client, history>>
  BY DEF DrainEnds, Complete
<1> QED BY <1>1, <1>2, PipeStays, QueuesStay, ClientStays, HistoryStays
        DEF IInv, ClientOK, HistoryOK, calls, history

(* A buffer that a command returns.                                        *)
LEMMA ReturnNextIInv ==
  ASSUME IInv, ReturnNextInput \/ ReturnNextOutput
  PROVE  IInv'
<1>1. /\ UNCHANGED <<curState, thread, command, cmdPipe, dataPipe, queues, firstBuff, sendAfterEOS,
                     outstanding, exit, calls, sent, decoded, flagged>>
  BY DEF ReturnNextInput, ReturnNextOutput
<1>2. ControlOK' /\ TurnOK'
  BY <1>1, ThreadStays
<1>3. QueuesOK' /\ client' \subseteq Buffers /\ before' \subseteq Buffers
  <2>1. CASE ReturnNextInput
    <3>1. Source \in InBuffers /\ InQAfter \in Seq(InBuffers)
      BY <2>1, SourceFacts DEF ReturnNextInput, OwedIn, HasInput
    <3>2. client' \subseteq Buffers /\ before' \subseteq Buffers
      BY <2>1, <3>1, GiveBackFacts DEF ReturnNextInput, Buffers
    <3>3. 0 \in 0..MaxLen
      BY AudioDecoderAssumption DEF AudioDecoderAssumption
    <3> QED BY <2>1, <3>1, <3>2, <3>3 DEF ReturnNextInput, IInv, QueuesOK
  <2>2. CASE ReturnNextOutput
    <3>1. outQ \in Seq(OutBuffers) /\ outQ # <<>>
      BY <2>2 DEF ReturnNextOutput, OwedOut, IInv, QueuesOK
    <3>2. Head(outQ) \in OutBuffers /\ Tail(outQ) \in Seq(OutBuffers)
      BY <3>1
    <3>3. client' \subseteq Buffers /\ before' \subseteq Buffers
      BY <2>2, <3>2, GiveBackFacts DEF ReturnNextOutput, Buffers
    <3> QED BY <2>2, <3>2, <3>3 DEF ReturnNextOutput, IInv, QueuesOK
  <2> QED BY <2>1, <2>2
<1> QED BY <1>1, <1>2, <1>3, PipeStays, ClientStays, HistoryStays DEF IInv, calls

-----------------------------------------------------------------------------
(* The invariant holds at the start.                                       *)
LEMMA InitIInv == Init => IInv
<1> SUFFICES ASSUME Init PROVE IInv
  OBVIOUS
<1>1. MaxLen \in Nat /\ MaxFrames \in Nat /\ MaxCommands \in Nat
  BY AudioDecoderAssumption DEF AudioDecoderAssumption
<1>2. /\ curState = "Loaded" /\ thread = "select" /\ command = None
      /\ cmdPipe = <<>> /\ dataPipe = <<>> /\ inQ = <<>> /\ outQ = <<>> /\ decoded = <<>>
      /\ cur = None /\ offset = 0 /\ firstBuff = 0 /\ outstanding = 0
      /\ emptying = None /\ filling = None /\ client = Buffers
      /\ fed = 0 /\ sent = 0 /\ before = {}
  BY Zenon DEF Init
<1>3. queues \in BOOLEAN /\ sendAfterEOS \in BOOLEAN /\ exit \in BOOLEAN /\ flagged \in BOOLEAN
  BY Zenon DEF Init
<1>4. ControlOK /\ TurnOK
  BY <1>1, <1>2, <1>3 DEF ControlOK, TurnOK, States
<1>5. PipeOK
  BY <1>2, UncountedBounds DEF PipeOK
<1>6. QueuesOK
  BY <1>1, <1>2, <1>3 DEF QueuesOK
<1>7. NoFrame \in Frames
  BY <1>1 DEF NoFrame, Frames
<1>8. ClientOK
  BY <1>1, <1>2, <1>7 DEF Init, ClientOK
<1>9. HistoryOK
  BY <1>1, <1>2, <1>3 DEF HistoryOK
<1> QED BY <1>4, <1>5, <1>6, <1>8, <1>9 DEF IInv

(* Serving the data pipe keeps the invariant.                              *)
LEMMA HandleDataBufIInv == ASSUME IInv, HandleDataBuf PROVE IInv'
<1>1. PICK b \in Buffers :
        \/ ReturnInput(b) \/ TakeConfig(b) \/ OpenFails(b) \/ DecodeInput(b) \/ DecodeInputFails(b)
        \/ QueueInput(b) \/ ForgetInput(b)
        \/ ReturnOutput(b) \/ DecodeOutput(b) \/ DecodeOutputFails(b) \/ QueueOutput(b)
        \/ ForgetOutput(b)
  BY Zenon DEF HandleDataBuf
<1>2. CASE ReturnInput(b) \/ ReturnOutput(b)
  BY <1>2, ReturnedIInv, Zenon
<1>3. CASE TakeConfig(b) \/ OpenFails(b)
  BY <1>3, NotDecodedIInv, Zenon
<1>4. CASE DecodeInput(b)
  BY <1>4, DecodeInputIInv, Zenon
<1>5. CASE DecodeInputFails(b)
  BY <1>5, DecodeInputFailsIInv, Zenon
<1>6. CASE QueueInput(b) \/ ForgetInput(b)
  BY <1>6, InputKeptIInv, Zenon
<1>7. CASE DecodeOutput(b)
  BY <1>7, DecodeOutputIInv, Zenon
<1>8. CASE DecodeOutputFails(b) \/ QueueOutput(b) \/ ForgetOutput(b)
  BY <1>8, OutputKeptIInv, Zenon
<1> QED BY <1>1, <1>2, <1>3, <1>4, <1>5, <1>6, <1>7, <1>8, Zenon

(* So does serving the command pipe.                                       *)
LEMMA HandleCommandIInv == ASSUME IInv, HandleCommand PROVE IInv'
<1>1. CASE \E c \in Requests : ChangeState(c) \/ NoTransition(c)
  BY <1>1, StateCommandIInv, Zenon
<1>2. CASE \E c \in Requests : ToLoaded(c) \/ ToInvalid(c)
  BY <1>2, QueuesFreedIInv, Zenon
<1>3. CASE \E c \in Requests : StartReturning(c)
  BY <1>3, StartReturningIInv, Zenon
<1>4. CASE DrainOne
  BY <1>4, DrainOneIInv
<1>5. CASE DrainEnds \/ Complete
  BY <1>5, DrainEndsIInv, Zenon
<1>6. CASE ReturnNextInput \/ ReturnNextOutput
  BY <1>6, ReturnNextIInv, Zenon
<1> QED BY <1>1, <1>2, <1>3, <1>4, <1>5, <1>6, Zenon DEF HandleCommand

(* Every step keeps the invariant.                                         *)
LEMMA NextIInv == ASSUME IInv, [Next]_vars PROVE IInv'
<1>1. CASE UNCHANGED vars
  BY <1>1 DEF vars, data, calls, history, IInv, ControlOK, TurnOK, PipeOK, QueuesOK, ClientOK,
              HistoryOK, Uncounted
<1>2. CASE \E b \in InBuffers, f \in Frames : BeginEmpty(b, f)
  BY <1>2, BeginEmptyIInv, Zenon
<1>3. CASE \E b \in OutBuffers : BeginFill(b)
  BY <1>3, BeginFillIInv, Zenon
<1>4. CASE WriteEmpty
  BY <1>4, WriteEmptyIInv
<1>5. CASE WriteFill
  BY <1>5, WriteFillIInv
<1>6. CASE CountEmpty
  BY <1>6, CountEmptyIInv
<1>7. CASE CountFill
  BY <1>7, CountFillIInv
<1>8. CASE \E c \in Requests : SendCommand(c)
  BY <1>8, SendCommandIInv, Zenon
<1>9. CASE Deinit
  BY <1>9, DeinitIInv
<1>10. CASE Select
  BY <1>10, SelectIInv
<1>11. CASE HandleDataBuf
  BY <1>11, HandleDataBufIInv
<1>12. CASE HandleCommand
  BY <1>12, HandleCommandIInv
<1> QED BY <1>1, <1>2, <1>3, <1>4, <1>5, <1>6, <1>7, <1>8, <1>9, <1>10, <1>11, <1>12, Zenon
        DEF Next, ComponentThread

(* The invariant holds in every reachable state.                           *)
THEOREM Invariance == Spec => []IInv
BY InitIInv, NextIInv, PTL DEF Spec

(* Type correctness, for every client, codec and number of buffers.        *)
THEOREM TypeCorrect == Spec => []TypeOK
<1>1. IInv => TypeOK
  BY DEF IInv, ControlOK, PipeOK, QueuesOK, ClientOK, HistoryOK, TypeOK
<1> QED BY Invariance, <1>1, PTL

(* The read inside a command finds a buffer: the pipe holds every buffer   *)
(* that is counted, and those written but not yet counted besides.         *)
THEOREM ReadFindsABuffer == Spec => []ReadNeverBlocks
<1>1. IInv => ReadNeverBlocks
  <2> SUFFICES ASSUME IInv, outstanding > 0 PROVE dataPipe # <<>>
    BY DEF ReadNeverBlocks
  <2>1. Len(dataPipe) > 0
    BY UncountedBounds DEF IInv, PipeOK
  <2> QED BY <2>1
<1> QED BY Invariance, <1>1, PTL

-----------------------------------------------------------------------------
(* What StepsTogether says of one step.                                    *)
KeepsCurrent == cur # None /\ cur' # cur => cur' = None /\ (queues' => cur \in client')

(* Only an output buffer continues the current input buffer.               *)
LEMMA DecodeOutputKeepsCurrent ==
  ASSUME IInv, NEW o \in Buffers, DecodeOutput(o)
  PROVE  KeepsCurrent
<1> DEFINE f == content[Source]
           steps == IF f.kind = "seek" THEN {0} ELSE Steps(f.len - offset)
<1>1. o \in OutBuffers /\ Source \in InBuffers
  BY SourceFacts DEF DecodeOutput
<1>2. PICK n \in steps :
        LET emptied == offset + n = content[Source].len IN
        /\ cur' = IF emptied THEN None ELSE Source
        /\ GiveBack(IF emptied THEN {Source, o} ELSE {o})
  <2> HIDE DEF steps
  <2>1. DecodeStep(Source, o, offset, steps, NothingQueued(inQ'))
    BY DEF DecodeOutput, steps
  <2> QED BY <2>1, Zenon DEF DecodeStep
<1>3. cur # None => Source = cur
  BY DEF Source
<1>4. CASE offset + n = content[Source].len
  BY <1>2, <1>3, <1>4 DEF KeepsCurrent, GiveBack
<1>5. CASE offset + n # content[Source].len
  BY <1>2, <1>3, <1>5 DEF KeepsCurrent
<1> QED BY <1>4, <1>5

(* Serving the data pipe never replaces the current input buffer.          *)
LEMMA HandleDataBufKeepsCurrent == ASSUME IInv, HandleDataBuf PROVE KeepsCurrent
<1>1. PICK b \in Buffers :
        \/ ReturnInput(b) \/ TakeConfig(b) \/ OpenFails(b) \/ DecodeInput(b) \/ DecodeInputFails(b)
        \/ QueueInput(b) \/ ForgetInput(b)
        \/ ReturnOutput(b) \/ DecodeOutput(b) \/ DecodeOutputFails(b) \/ QueueOutput(b)
        \/ ForgetOutput(b)
  BY Zenon DEF HandleDataBuf
<1>2. CASE \/ ReturnInput(b) \/ TakeConfig(b) \/ OpenFails(b) \/ QueueInput(b) \/ ForgetInput(b)
           \/ ReturnOutput(b) \/ QueueOutput(b) \/ ForgetOutput(b)
  <2>1. cur' = cur
    BY <1>2 DEF ReturnInput, TakeConfig, OpenFails, QueueInput, ForgetInput, ReturnOutput,
                QueueOutput, ForgetOutput, data
  <2> QED BY <2>1 DEF KeepsCurrent
<1>3. CASE DecodeInput(b) \/ DecodeInputFails(b)
  BY <1>3 DEF DecodeInput, DecodeInputFails, MayDecodeAtOnce, KeepsCurrent
<1>4. CASE DecodeOutput(b)
  BY <1>4, DecodeOutputKeepsCurrent
<1>5. CASE DecodeOutputFails(b)
  BY <1>5 DEF DecodeOutputFails, Source, KeepsCurrent
<1> QED BY <1>1, <1>2, <1>3, <1>4, <1>5, Zenon

(* A command hands the current input buffer back, or frees the queues.     *)
LEMMA HandleCommandKeepsCurrent == ASSUME IInv, HandleCommand PROVE KeepsCurrent
<1>1. CASE \E c \in Requests : ChangeState(c) \/ StartReturning(c) \/ NoTransition(c)
  BY <1>1 DEF ChangeState, StartReturning, NoTransition, data, KeepsCurrent
<1>2. CASE \E c \in Requests : ToLoaded(c) \/ ToInvalid(c)
  BY <1>2 DEF ToLoaded, ToInvalid, KeepsCurrent
<1>3. CASE DrainOne \/ DrainEnds \/ Complete \/ ReturnNextOutput
  BY <1>3 DEF DrainOne, DrainEnds, Complete, ReturnNextOutput, data, KeepsCurrent
<1>4. CASE ReturnNextInput
  BY <1>4 DEF ReturnNextInput, GiveBack, Source, KeepsCurrent
<1> QED BY <1>1, <1>2, <1>3, <1>4, Zenon DEF HandleCommand

(* No step of the component replaces the current input buffer.             *)
LEMMA NextKeepsCurrent == ASSUME IInv, [Next]_vars PROVE KeepsCurrent
<1>1. CASE UNCHANGED cur
  BY <1>1 DEF KeepsCurrent
<1>2. CASE HandleDataBuf
  BY <1>2, HandleDataBufKeepsCurrent
<1>3. CASE HandleCommand
  BY <1>3, HandleCommandKeepsCurrent
<1>4. [Next]_vars => UNCHANGED cur \/ HandleDataBuf \/ HandleCommand
  BY DEF Next, ComponentThread, Select, BeginEmpty, BeginFill, WriteEmpty, WriteFill, CountEmpty,
         CountFill, SendCommand, Deinit, vars, data
<1> QED BY <1>1, <1>2, <1>3, <1>4

(* The decoding steps of two input buffers never mix.                      *)
THEOREM StepsDoNotMix == Spec => StepsTogether
<1>1. IInv /\ [Next]_vars => [KeepsCurrent]_vars
  BY NextKeepsCurrent
<1> QED BY Invariance, <1>1, PTL DEF Spec, StepsTogether, KeepsCurrent

-----------------------------------------------------------------------------
(* Sequences without repetition.                                           *)
LEMMA EmptyInjective == IsInjective(<<>>) /\ ToSet(<<>>) = {}
BY DEF IsInjective, ToSet

(* Adding an element that is not there.                                    *)
LEMMA AppendInjectiveTo ==
  ASSUME NEW S, NEW s \in Seq(S), NEW x \in S
  PROVE  /\ ToSet(Append(s, x)) = ToSet(s) \cup {x}
         /\ IsInjective(s) /\ x \notin ToSet(s) => IsInjective(Append(s, x))
<1> DEFINE t == Append(s, x)
<1>1. /\ Len(t) = Len(s) + 1 /\ Len(s) \in Nat /\ DOMAIN s = 1..Len(s) /\ DOMAIN t = 1..Len(t)
      /\ \A i \in 1..Len(s) : t[i] = s[i]
      /\ t[Len(s) + 1] = x
  BY AppendProperties, LenProperties
<1> HIDE DEF t
<1>2. ToSet(t) = ToSet(s) \cup {x}
  BY <1>1 DEF ToSet
<1>3. ASSUME IsInjective(s), x \notin ToSet(s) PROVE IsInjective(t)
  BY <1>1, <1>3 DEF IsInjective, ToSet
<1> QED BY <1>2, <1>3 DEF t

(* Removing the first element.                                             *)
LEMMA TailInjective ==
  ASSUME NEW S, NEW s \in Seq(S), s # <<>>
  PROVE  /\ Head(s) \in ToSet(s) /\ Head(s) \in S
         /\ ToSet(Tail(s)) \subseteq ToSet(s) /\ ToSet(s) = ToSet(Tail(s)) \cup {Head(s)}
         /\ IsInjective(s) => IsInjective(Tail(s)) /\ Head(s) \notin ToSet(Tail(s))
<1> DEFINE t == Tail(s)
<1>1. /\ Len(t) = Len(s) - 1 /\ Len(s) \in Nat \ {0} /\ DOMAIN s = 1..Len(s)
      /\ DOMAIN t = 1..Len(t) /\ Head(s) = s[1] /\ Head(s) \in S
      /\ \A i \in 1..Len(t) : t[i] = s[i + 1]
  BY HeadTailProperties, LenProperties
<1> HIDE DEF t
<1>2. Head(s) \in ToSet(s)
  BY <1>1 DEF ToSet
<1>3. ToSet(t) \subseteq ToSet(s)
  BY <1>1 DEF ToSet
<1>4. ToSet(s) \subseteq ToSet(t) \cup {Head(s)}
  <2> SUFFICES ASSUME NEW i \in 1..Len(s), i # 1 PROVE s[i] \in ToSet(t)
    BY <1>1, Zenon DEF ToSet
  <2>1. i - 1 \in 1..Len(t) /\ t[i - 1] = s[i]
    BY <1>1
  <2> QED BY <1>1, <2>1 DEF ToSet
<1>5. ASSUME IsInjective(s) PROVE IsInjective(t) /\ Head(s) \notin ToSet(t)
  <2>1. \A i \in 1..Len(t) : i + 1 \in 1..Len(s) /\ t[i] = s[i + 1] /\ i + 1 # 1
    BY <1>1
  <2>2. IsInjective(t)
    BY <1>1, <1>5, <2>1 DEF IsInjective
  <2>3. 1 \in 1..Len(s)
    BY <1>1
  <2>4. Head(s) \notin ToSet(t)
    BY <1>1, <1>5, <2>1, <2>3 DEF IsInjective, ToSet
  <2> QED BY <2>2, <2>4
<1> QED BY <1>1, <1>2, <1>3, <1>4, <1>5 DEF t

(* Two sequences that share nothing, one behind the other.                 *)
LEMMA ConcatInjective ==
  ASSUME NEW S, NEW s \in Seq(S), NEW t \in Seq(S)
  PROVE  /\ s \o t \in Seq(S) /\ ToSet(s \o t) = ToSet(s) \cup ToSet(t)
         /\ IsInjective(s) /\ IsInjective(t) /\ ToSet(s) \cap ToSet(t) = {}
              => IsInjective(s \o t)
<1> DEFINE u == s \o t
<1>1. /\ u \in Seq(S) /\ Len(u) = Len(s) + Len(t) /\ Len(s) \in Nat /\ Len(t) \in Nat
      /\ DOMAIN s = 1..Len(s) /\ DOMAIN t = 1..Len(t) /\ DOMAIN u = 1..Len(u)
      /\ \A i \in 1..Len(u) : u[i] = IF i <= Len(s) THEN s[i] ELSE t[i - Len(s)]
  BY ConcatProperties, LenProperties
<1> HIDE DEF u
<1>2. ToSet(u) \subseteq ToSet(s) \cup ToSet(t)
  <2> SUFFICES ASSUME NEW i \in 1..Len(u) PROVE u[i] \in ToSet(s) \cup ToSet(t)
    BY <1>1, Zenon DEF ToSet
  <2>1. CASE i <= Len(s)
    BY <1>1, <2>1 DEF ToSet
  <2>2. CASE i > Len(s)
    <3>1. i - Len(s) \in 1..Len(t) /\ u[i] = t[i - Len(s)]
      BY <1>1, <2>2
    <3> QED BY <3>1, <1>1 DEF ToSet
  <2> QED BY <1>1, <2>1, <2>2
<1>3. ToSet(s) \subseteq ToSet(u)
  BY <1>1 DEF ToSet
<1>4. ToSet(t) \subseteq ToSet(u)
  <2> SUFFICES ASSUME NEW i \in 1..Len(t) PROVE t[i] \in ToSet(u)
    BY <1>1 DEF ToSet
  <2>1. i + Len(s) \in 1..Len(u) /\ u[i + Len(s)] = t[i]
    BY <1>1
  <2> QED BY <1>1, <2>1 DEF ToSet
<1>5. ASSUME IsInjective(s), IsInjective(t), ToSet(s) \cap ToSet(t) = {},
             NEW i \in 1..Len(u), NEW j \in 1..Len(u), u[i] = u[j]
      PROVE  i = j
  <2>1. CASE i <= Len(s) /\ j <= Len(s)
    BY <1>1, <1>5, <2>1 DEF IsInjective
  <2>2. CASE i > Len(s) /\ j > Len(s)
    <3>1. i - Len(s) \in 1..Len(t) /\ j - Len(s) \in 1..Len(t)
          /\ t[i - Len(s)] = t[j - Len(s)]
      BY <1>1, <1>5, <2>2
    <3>2. i - Len(s) = j - Len(s)
      BY <1>1, <1>5, <3>1 DEF IsInjective
    <3> QED BY <3>2, <1>1
  <2>3. \A k \in 1..Len(u) : /\ k <= Len(s) => u[k] \in ToSet(s)
                             /\ k > Len(s) => k - Len(s) \in 1..Len(t) /\ u[k] = t[k - Len(s)]
    BY <1>1 DEF ToSet
  <2>4. \A k \in 1..Len(u) : k > Len(s) => u[k] \in ToSet(t)
    BY <2>3, <1>1 DEF ToSet
  <2> QED BY <1>1, <1>5, <2>1, <2>2, <2>3, <2>4
<1>6. IsInjective(s) /\ IsInjective(t) /\ ToSet(s) \cap ToSet(t) = {} => IsInjective(u)
  BY <1>1, <1>5 DEF IsInjective
<1> QED BY <1>1, <1>2, <1>3, <1>4, <1>6 DEF u

(* The elements of a sequence are of its type.                             *)
LEMMA ToSetType == ASSUME NEW S, NEW s \in Seq(S) PROVE ToSet(s) \subseteq S
BY DEF ToSet

\* The buffer of a call that has not written it yet.
Writing(call) == IF call # None /\ ~call.written THEN {call.buffer} ELSE {}

\* No buffer is in two places, and no pipe or queue has one twice.
OwnersOK ==
  /\ IsInjective(dataPipe) /\ IsInjective(inQ) /\ IsInjective(outQ)
  /\ client \cap (Writing(emptying) \cup Writing(filling) \cup ToSet(dataPipe) \cup ToSet(inQ)
                    \cup ToSet(outQ) \cup {cur}) = {}
  /\ ToSet(dataPipe) \cap (Writing(emptying) \cup Writing(filling) \cup ToSet(inQ)
                             \cup ToSet(outQ) \cup {cur}) = {}
  /\ ToSet(inQ) \cap (Writing(emptying) \cup {cur}) = {} /\ cur \notin Writing(emptying)
  /\ ToSet(outQ) \cap Writing(filling) = {}

(* Which buffers may be where.                                             *)
LEMMA PlaceTypes ==
  ASSUME IInv
  PROVE  /\ Writing(emptying) \subseteq InBuffers /\ Writing(filling) \subseteq OutBuffers
         /\ ToSet(dataPipe) \subseteq Buffers /\ ToSet(inQ) \subseteq InBuffers
         /\ ToSet(outQ) \subseteq OutBuffers
         /\ cur \in InBuffers \cup {None} /\ client \subseteq Buffers
         /\ InBuffers \cap OutBuffers = {} /\ None \notin Buffers
         /\ Buffers = InBuffers \cup OutBuffers
<1>1. Writing(emptying) \subseteq InBuffers /\ Writing(filling) \subseteq OutBuffers
  BY UncountedFacts, Buffers = InBuffers \cup OutBuffers DEF IInv, PipeOK, Writing, CallsOn, Buffers
<1>2. /\ ToSet(dataPipe) \subseteq Buffers /\ ToSet(inQ) \subseteq InBuffers
      /\ ToSet(outQ) \subseteq OutBuffers
  BY ToSetType DEF IInv, PipeOK, QueuesOK
<1> QED BY <1>1, <1>2, AudioDecoderAssumption
        DEF IInv, QueuesOK, ClientOK, AudioDecoderAssumption, Buffers

(* What a call has still to write, at each of its moments.                 *)
LEMMA WritingFacts ==
  /\ Writing(None) = {}
  /\ \A b \in Buffers : Writing([buffer |-> b, written |-> FALSE]) = {b}
  /\ \A call : Writing(Written(call)) = {}
  /\ \A call : call.written => Writing(call) = {}
  /\ \A call : call # None /\ ~call.written => Writing(call) = {call.buffer}
<1>1. ASSUME NEW b \in Buffers PROVE Writing([buffer |-> b, written |-> FALSE]) = {b}
  <2>1. [buffer |-> b, written |-> FALSE] \in CallsOn(Buffers)
    BY DEF CallsOn
  <2> QED BY <2>1, UncountedFacts DEF Writing
<1>2. \A call : Writing(Written(call)) = {}
  BY DEF Writing, Written
<1> QED BY <1>1, <1>2 DEF Writing

(* A call begins: its buffer leaves the client.                            *)
LEMMA BeginOwners ==
  ASSUME IInv, OwnersOK,
         \/ \E b \in InBuffers, f \in Frames : BeginEmpty(b, f)
         \/ \E b \in OutBuffers : BeginFill(b)
  PROVE  OwnersOK'
<1>1. ASSUME NEW b \in InBuffers, NEW f \in Frames, BeginEmpty(b, f) PROVE OwnersOK'
  <2>1. Writing(emptying) = {} /\ Writing(emptying)' = {b} /\ b \in client /\ client' = client \ {b}
    BY <1>1, WritingFacts DEF BeginEmpty, Buffers
  <2>2. UNCHANGED <<dataPipe, inQ, outQ, cur, filling>>
    BY <1>1 DEF BeginEmpty, data
  <2> QED BY <2>1, <2>2, PlaceTypes DEF OwnersOK
<1>2. ASSUME NEW b \in OutBuffers, BeginFill(b) PROVE OwnersOK'
  <2>1. Writing(filling) = {} /\ Writing(filling)' = {b} /\ b \in client /\ client' = client \ {b}
    BY <1>2, WritingFacts DEF BeginFill, Buffers
  <2>2. UNCHANGED <<dataPipe, inQ, outQ, cur, emptying>>
    BY <1>2 DEF BeginFill, data
  <2> QED BY <2>1, <2>2, PlaceTypes DEF OwnersOK
<1> QED BY <1>1, <1>2, Zenon

(* A call writes its buffer into the pipe, or counts it.                   *)
LEMMA WriteOwners ==
  ASSUME IInv, OwnersOK, WriteEmpty \/ WriteFill \/ CountEmpty \/ CountFill
  PROVE  OwnersOK'
<1> USE PlaceTypes
<1>1. ASSUME WriteEmpty PROVE OwnersOK'
  <2>1. Writing(emptying) = {emptying.buffer} /\ Writing(emptying)' = {}
    BY <1>1, WritingFacts DEF WriteEmpty
  <2>2. dataPipe' = Append(dataPipe, emptying.buffer) /\ dataPipe \in Seq(Buffers)
    BY <1>1 DEF WriteEmpty, IInv, PipeOK
  <2>3. emptying.buffer \notin ToSet(dataPipe) /\ emptying.buffer \in Buffers
    BY <2>1 DEF OwnersOK
  <2>4. ToSet(dataPipe') = ToSet(dataPipe) \cup {emptying.buffer} /\ IsInjective(dataPipe')
    BY <2>2, <2>3, AppendInjectiveTo DEF OwnersOK
  <2>5. UNCHANGED <<inQ, outQ, cur, filling, client>>
    BY <1>1 DEF WriteEmpty, data
  <2> QED BY <2>1, <2>4, <2>5 DEF OwnersOK
<1>2. ASSUME WriteFill PROVE OwnersOK'
  <2>1. Writing(filling) = {filling.buffer} /\ Writing(filling)' = {}
    BY <1>2, WritingFacts DEF WriteFill
  <2>2. dataPipe' = Append(dataPipe, filling.buffer) /\ dataPipe \in Seq(Buffers)
    BY <1>2 DEF WriteFill, IInv, PipeOK
  <2>3. filling.buffer \notin ToSet(dataPipe) /\ filling.buffer \in Buffers
    BY <2>1 DEF OwnersOK
  <2>4. ToSet(dataPipe') = ToSet(dataPipe) \cup {filling.buffer} /\ IsInjective(dataPipe')
    BY <2>2, <2>3, AppendInjectiveTo DEF OwnersOK
  <2>5. UNCHANGED <<inQ, outQ, cur, emptying, client>>
    BY <1>2 DEF WriteFill, data
  <2> QED BY <2>1, <2>4, <2>5 DEF OwnersOK
<1>3. ASSUME CountEmpty \/ CountFill PROVE OwnersOK'
  <2>1. Writing(emptying)' = Writing(emptying) /\ Writing(filling)' = Writing(filling)
    BY <1>3, WritingFacts DEF CountEmpty, CountFill
  <2>2. UNCHANGED <<dataPipe, inQ, outQ, cur, client>>
    BY <1>3 DEF CountEmpty, CountFill, data
  <2> QED BY <2>1, <2>2 DEF OwnersOK
<1> QED BY <1>1, <1>2, <1>3

(* Steps that leave every buffer where it is.                              *)
LEMMA OwnersStay ==
  ASSUME OwnersOK, UNCHANGED <<dataPipe, inQ, outQ, cur, emptying, filling, client>>
  PROVE  OwnersOK'
BY DEF OwnersOK, Writing

(* The buffer taken from the data pipe is nowhere else.                    *)
LEMMA TakeOwners ==
  ASSUME IInv, OwnersOK, NEW b \in Buffers, Take(b)
  PROVE  /\ b \in ToSet(dataPipe) /\ ToSet(dataPipe) = ToSet(dataPipe') \cup {b}
         /\ b \notin ToSet(dataPipe') /\ IsInjective(dataPipe')
         /\ Writing(emptying)' = Writing(emptying) /\ Writing(filling)' = Writing(filling)
<1>1. dataPipe \in Seq(Buffers) /\ dataPipe # <<>> /\ b = Head(dataPipe) /\ dataPipe' = Tail(dataPipe)
  BY DEF Take, IInv, PipeOK, TurnOK
<1>2. UNCHANGED <<emptying, filling>>
  BY DEF Take, calls
<1> QED BY <1>1, <1>2, TailInjective DEF OwnersOK, Writing

(* What one decoding step does to the buffers.                             *)
LEMMA DecodeStepOwners ==
  ASSUME NEW b, NEW o, NEW from, NEW steps, NEW last, DecodeStep(b, o, from, steps, last)
  PROVE  \/ cur' = None /\ client' = client \cup {b, o}
         \/ cur' = b /\ client' = client \cup {o}
<1>1. PICK n \in steps :
        LET emptied == from + n = content[b].len IN
        /\ cur' = IF emptied THEN None ELSE b
        /\ GiveBack(IF emptied THEN {b, o} ELSE {o})
  BY Zenon DEF DecodeStep
<1> QED BY <1>1 DEF GiveBack

(* The input an output buffer is filled from leaves the queue.             *)
LEMMA SourceOwners ==
  ASSUME IInv, OwnersOK, HasInput
  PROVE  /\ Source \in InBuffers /\ IsInjective(InQAfter)
         /\ Source \notin ToSet(InQAfter)
         /\ ToSet(inQ) \cup ({cur} \ {None}) = ToSet(InQAfter) \cup {Source}
<1>1. inQ \in Seq(InBuffers) /\ (cur = None => inQ # <<>>)
  BY DEF HasInput, IInv, QueuesOK
<1>2. CASE cur = None
  BY <1>1, <1>2, TailInjective, PlaceTypes DEF Source, InQAfter, OwnersOK
<1>3. CASE cur # None
  BY <1>3, PlaceTypes DEF Source, InQAfter, OwnersOK
<1> QED BY <1>2, <1>3

(* The buffers taken from the data pipe.                                   *)
LEMMA HandleDataBufOwners == ASSUME IInv, OwnersOK, HandleDataBuf PROVE OwnersOK'
<1>1. PICK b \in Buffers :
        \/ ReturnInput(b) \/ TakeConfig(b) \/ OpenFails(b) \/ DecodeInput(b) \/ DecodeInputFails(b)
        \/ QueueInput(b) \/ ForgetInput(b)
        \/ ReturnOutput(b) \/ DecodeOutput(b) \/ DecodeOutputFails(b) \/ QueueOutput(b)
        \/ ForgetOutput(b)
  BY Zenon DEF HandleDataBuf
<1>2. Take(b)
  BY <1>1 DEF ReturnInput, TakeConfig, OpenFails, DecodeInput, DecodeInputFails, QueueInput,
     ForgetInput, ReturnOutput, DecodeOutput, DecodeOutputFails, QueueOutput, ForgetOutput
<1>3. /\ b \in ToSet(dataPipe) /\ ToSet(dataPipe) = ToSet(dataPipe') \cup {b}
      /\ b \notin ToSet(dataPipe') /\ IsInjective(dataPipe')
      /\ Writing(emptying)' = Writing(emptying) /\ Writing(filling)' = Writing(filling)
  BY <1>2, TakeOwners
<1>4. CASE ReturnInput(b) \/ TakeConfig(b) \/ OpenFails(b) \/ ReturnOutput(b)
  <2>1. UNCHANGED <<inQ, outQ, cur>> /\ client' = client \cup {b}
    BY <1>4 DEF ReturnInput, TakeConfig, OpenFails, ReturnOutput, GiveBack, data
  <2> QED BY <1>3, <2>1, PlaceTypes DEF OwnersOK
<1>5. CASE ForgetInput(b) \/ ForgetOutput(b)
  <2>1. UNCHANGED <<inQ, outQ, cur, client>>
    BY <1>5 DEF ForgetInput, ForgetOutput, data
  <2> QED BY <1>3, <2>1, PlaceTypes DEF OwnersOK
<1>6. CASE QueueInput(b)
  <2>1. UNCHANGED <<outQ, cur, client>> /\ inQ' = Append(inQ, b) /\ b \in InBuffers
    BY <1>6, OpenedFacts DEF QueueInput, Put
  <2>2. inQ \in Seq(InBuffers) /\ b \notin ToSet(inQ)
    BY <1>3 DEF IInv, QueuesOK, OwnersOK
  <2>3. ToSet(inQ') = ToSet(inQ) \cup {b} /\ IsInjective(inQ')
    BY <2>1, <2>2, AppendInjectiveTo DEF OwnersOK
  <2> QED BY <1>3, <2>1, <2>3, PlaceTypes DEF OwnersOK
<1>7. CASE QueueOutput(b)
  <2>1. UNCHANGED <<inQ, cur, client>> /\ outQ' = Append(outQ, b) /\ b \in OutBuffers
    BY <1>7 DEF QueueOutput, Put
  <2>2. outQ \in Seq(OutBuffers) /\ b \notin ToSet(outQ)
    BY <1>3 DEF IInv, QueuesOK, OwnersOK
  <2>3. ToSet(outQ') = ToSet(outQ) \cup {b} /\ IsInjective(outQ')
    BY <2>1, <2>2, AppendInjectiveTo DEF OwnersOK
  <2> QED BY <1>3, <2>1, <2>3, PlaceTypes DEF OwnersOK
<1>8. CASE DecodeInput(b) \/ DecodeInputFails(b)
  <2>1. /\ b \in InBuffers /\ cur = None /\ outQ # <<>> /\ outQ' = Tail(outQ) /\ inQ' = inQ
        /\ outQ \in Seq(OutBuffers)
    BY <1>8, OpenedFacts DEF DecodeInput, DecodeInputFails, MayDecodeAtOnce, IInv, QueuesOK
  <2>2. /\ Head(outQ) \in ToSet(outQ) /\ ToSet(outQ) = ToSet(outQ') \cup {Head(outQ)}
        /\ Head(outQ) \notin ToSet(outQ') /\ IsInjective(outQ')
    BY <2>1, TailInjective DEF OwnersOK
  <2>3. \/ cur' = None /\ client' = client \cup {b, Head(outQ)}
        \/ cur' = b /\ client' = client \cup {Head(outQ)}
        \/ cur' = b /\ client' = client
    BY <1>8, DecodeStepOwners DEF DecodeInput, DecodeInputFails
  <2> QED BY <1>3, <2>1, <2>2, <2>3, PlaceTypes DEF OwnersOK
<1>9. CASE DecodeOutput(b) \/ DecodeOutputFails(b)
  <2>1. b \in OutBuffers /\ HasInput /\ inQ' = InQAfter /\ outQ' = outQ
    BY <1>9 DEF DecodeOutput, DecodeOutputFails
  <2>2. /\ Source \in InBuffers /\ IsInjective(InQAfter) /\ Source \notin ToSet(InQAfter)
        /\ ToSet(inQ) \cup ({cur} \ {None}) = ToSet(InQAfter) \cup {Source}
    BY <2>1, SourceOwners
  <2>3. \/ cur' = None /\ client' = client \cup {Source, b}
        \/ cur' = Source /\ client' = client \cup {b}
        \/ cur' = Source /\ client' = client
    BY <1>9, DecodeStepOwners DEF DecodeOutput, DecodeOutputFails
  <2> QED BY <1>3, <2>1, <2>2, <2>3, PlaceTypes DEF OwnersOK
<1> QED BY <1>1, <1>4, <1>5, <1>6, <1>7, <1>8, <1>9

(* The buffers a command drains, returns or drops.                         *)
LEMMA HandleCommandOwners == ASSUME IInv, OwnersOK, HandleCommand PROVE OwnersOK'
<1> USE PlaceTypes
<1>1. CASE \E c \in Requests : ChangeState(c) \/ StartReturning(c) \/ NoTransition(c)
  <2>1. UNCHANGED <<dataPipe, inQ, outQ, cur, emptying, filling, client>>
    BY <1>1 DEF ChangeState, StartReturning, NoTransition, TakeCommand, data, calls
  <2> QED BY <2>1, OwnersStay
<1>2. CASE \E c \in Requests : ToLoaded(c) \/ ToInvalid(c)
  <2>1. /\ UNCHANGED <<dataPipe, emptying, filling, client>>
        /\ inQ' = <<>> /\ outQ' = <<>> /\ cur' = None
    BY <1>2 DEF ToLoaded, ToInvalid, TakeCommand, calls
  <2> QED BY <2>1, EmptyInjective DEF OwnersOK, Writing
<1>3. CASE DrainOne
  <2> DEFINE b == Head(dataPipe)
  <2>1. /\ dataPipe \in Seq(Buffers) /\ dataPipe # <<>> /\ dataPipe' = Tail(dataPipe)
        /\ inQ \in Seq(InBuffers) /\ outQ \in Seq(OutBuffers)
        /\ UNCHANGED <<cur, client>>
        /\ Writing(emptying)' = Writing(emptying) /\ Writing(filling)' = Writing(filling)
    BY <1>3 DEF DrainOne, IInv, PipeOK, QueuesOK, calls, Writing
  <2>2. /\ b \in ToSet(dataPipe) /\ ToSet(dataPipe) = ToSet(dataPipe') \cup {b}
        /\ b \notin ToSet(dataPipe') /\ IsInjective(dataPipe') /\ b \in Buffers
    BY <2>1, TailInjective DEF OwnersOK
  <2>3. CASE b \in InBuffers
    <3>1. inQ' = Append(inQ, b) /\ outQ' = outQ /\ b \notin ToSet(inQ)
      BY <1>3, <2>2, <2>3 DEF DrainOne, Put, OwnersOK
    <3>2. ToSet(inQ') = ToSet(inQ) \cup {b} /\ IsInjective(inQ')
      BY <2>1, <2>3, <3>1, AppendInjectiveTo DEF OwnersOK
    <3> QED BY <2>1, <2>2, <2>3, <3>1, <3>2 DEF OwnersOK
  <2>4. CASE b \in OutBuffers
    <3>1. outQ' = Append(outQ, b) /\ inQ' = inQ /\ b \notin ToSet(outQ)
      BY <1>3, <2>2, <2>4 DEF DrainOne, Put, OwnersOK
    <3>2. ToSet(outQ') = ToSet(outQ) \cup {b} /\ IsInjective(outQ')
      BY <2>1, <2>4, <3>1, AppendInjectiveTo DEF OwnersOK
    <3> QED BY <2>1, <2>2, <2>4, <3>1, <3>2 DEF OwnersOK
  <2> QED BY <2>2, <2>3, <2>4
<1>4. CASE DrainEnds \/ Complete
  <2>1. UNCHANGED <<dataPipe, inQ, outQ, cur, emptying, filling, client>>
    BY <1>4 DEF DrainEnds, Complete, data, calls
  <2> QED BY <2>1, OwnersStay
<1>5. CASE ReturnNextInput
  <2>1. /\ HasInput /\ inQ' = InQAfter /\ cur' = None /\ client' = client \cup {Source}
        /\ UNCHANGED <<dataPipe, outQ, emptying, filling>>
    BY <1>5 DEF ReturnNextInput, OwedIn, HasInput, GiveBack, calls
  <2>2. /\ Source \in InBuffers /\ IsInjective(InQAfter) /\ Source \notin ToSet(InQAfter)
        /\ ToSet(inQ) \cup ({cur} \ {None}) = ToSet(InQAfter) \cup {Source}
    BY <2>1, SourceOwners
  <2> QED BY <2>1, <2>2 DEF OwnersOK, Writing
<1>6. CASE ReturnNextOutput
  <2>1. /\ outQ # <<>> /\ outQ' = Tail(outQ) /\ client' = client \cup {Head(outQ)}
        /\ outQ \in Seq(OutBuffers)
        /\ UNCHANGED <<dataPipe, inQ, cur, emptying, filling>>
    BY <1>6 DEF ReturnNextOutput, OwedOut, GiveBack, calls, IInv, QueuesOK
  <2>2. /\ Head(outQ) \in ToSet(outQ) /\ ToSet(outQ) = ToSet(outQ') \cup {Head(outQ)}
        /\ Head(outQ) \notin ToSet(outQ') /\ IsInjective(outQ')
    BY <2>1, TailInjective DEF OwnersOK
  <2> QED BY <2>1, <2>2 DEF OwnersOK, Writing
<1> QED BY <1>1, <1>2, <1>3, <1>4, <1>5, <1>6, Zenon DEF HandleCommand

(* At the start the client has every buffer.                               *)
LEMMA InitOwners == Init => OwnersOK
<1> SUFFICES ASSUME Init PROVE OwnersOK
  OBVIOUS
<1>1. /\ dataPipe = <<>> /\ inQ = <<>> /\ outQ = <<>> /\ cur = None
      /\ emptying = None /\ filling = None /\ client = Buffers
  BY Zenon DEF Init
<1> QED BY <1>1, EmptyInjective, WritingFacts, AudioDecoderAssumption
        DEF OwnersOK, AudioDecoderAssumption

(* No step puts a buffer in a second place.                                *)
LEMMA NextOwners == ASSUME IInv, OwnersOK, [Next]_vars PROVE OwnersOK'
<1>1. CASE UNCHANGED <<dataPipe, inQ, outQ, cur, emptying, filling, client>>
  BY <1>1, OwnersStay
<1>2. CASE (\E b \in InBuffers, f \in Frames : BeginEmpty(b, f)) \/ \E b \in OutBuffers : BeginFill(b)
  BY <1>2, BeginOwners
<1>3. CASE WriteEmpty \/ WriteFill \/ CountEmpty \/ CountFill
  BY <1>3, WriteOwners
<1>4. CASE HandleDataBuf
  BY <1>4, HandleDataBufOwners
<1>5. CASE HandleCommand
  BY <1>5, HandleCommandOwners
<1>6. (\E c \in Requests : SendCommand(c)) \/ Deinit \/ Select \/ UNCHANGED vars
        => UNCHANGED <<dataPipe, inQ, outQ, cur, emptying, filling, client>>
  BY DEF SendCommand, Deinit, Select, vars, data, calls
<1> QED BY <1>1, <1>2, <1>3, <1>4, <1>5, <1>6, Zenon DEF Next, ComponentThread

(* No step puts a buffer in a second place, whatever the client does.      *)
THEOREM Ownership == Spec => []OwnersOK
BY Invariance, InitOwners, NextOwners, PTL DEF Spec

(* The places, one behind the other, have no buffer twice.                 *)
THEOREM OneOwnerCorrect == Spec => []OneOwner
<1>1. ASSUME IInv, OwnersOK PROVE OneOwner
  <2> USE PlaceTypes
  <2>1. /\ dataPipe \in Seq(Buffers) /\ inQ \in Seq(Buffers) /\ outQ \in Seq(Buffers)
    BY <1>1 DEF IInv, PipeOK, QueuesOK, Buffers
  <2>2. \A call : Writing(call) \subseteq Buffers =>
          /\ BeingWritten(call) \in Seq(Buffers) /\ IsInjective(BeingWritten(call))
          /\ ToSet(BeingWritten(call)) = Writing(call)
    BY DEF BeingWritten, Writing, IsInjective, ToSet
  <2>3. Current \in Seq(Buffers) /\ IsInjective(Current) /\ ToSet(Current) = {cur} \ {None}
    BY <1>1 DEF Current, IsInjective, ToSet
  <2> DEFINE E == BeingWritten(emptying)  F == BeingWritten(filling)
             EF == E \o F  EFD == EF \o dataPipe  EFDI == EFD \o inQ  EFDIO == EFDI \o outQ
  <2>4. /\ E \in Seq(Buffers) /\ IsInjective(E) /\ ToSet(E) = Writing(emptying)
        /\ F \in Seq(Buffers) /\ IsInjective(F) /\ ToSet(F) = Writing(filling)
    BY <1>1, <2>2
  <2> HIDE DEF E, F
  <2>5. EF \in Seq(Buffers) /\ IsInjective(EF) /\ ToSet(EF) = Writing(emptying) \cup Writing(filling)
    BY <1>1, <2>4, ConcatInjective
  <2> HIDE DEF EF
  <2>6. /\ EFD \in Seq(Buffers) /\ IsInjective(EFD)
        /\ ToSet(EFD) = Writing(emptying) \cup Writing(filling) \cup ToSet(dataPipe)
    BY <1>1, <2>1, <2>5, ConcatInjective DEF OwnersOK
  <2> HIDE DEF EFD
  <2>7. /\ EFDI \in Seq(Buffers) /\ IsInjective(EFDI)
        /\ ToSet(EFDI) = Writing(emptying) \cup Writing(filling) \cup ToSet(dataPipe) \cup ToSet(inQ)
    BY <1>1, <2>1, <2>6, ConcatInjective DEF OwnersOK
  <2> HIDE DEF EFDI
  <2>8. /\ EFDIO \in Seq(Buffers) /\ IsInjective(EFDIO)
        /\ ToSet(EFDIO) = Writing(emptying) \cup Writing(filling) \cup ToSet(dataPipe) \cup ToSet(inQ)
                            \cup ToSet(outQ)
    BY <1>1, <2>1, <2>7, ConcatInjective DEF OwnersOK
  <2> HIDE DEF EFDIO
  <2>9. /\ IsInjective(EFDIO \o Current)
        /\ ToSet(EFDIO \o Current) = Writing(emptying) \cup Writing(filling) \cup ToSet(dataPipe)
                                       \cup ToSet(inQ) \cup ToSet(outQ) \cup ({cur} \ {None})
    BY <1>1, <2>3, <2>8, ConcatInjective DEF OwnersOK
  <2>10. Inside = EFDIO \o Current
    BY DEF Inside, EFDIO, EFDI, EFD, EF, E, F
  <2> QED BY <1>1, <2>9, <2>10 DEF OneOwner, OwnersOK
<1> QED BY Invariance, Ownership, <1>1, PTL

-----------------------------------------------------------------------------
\* The input in a sequence of buffers is in the order of its submission.
Ordered(q) ==
  \A i, j \in DOMAIN q : i < j /\ {q[i], q[j]} \subseteq InBuffers => content[q[i]].n < content[q[j]].n

\* The frames in sequence q came before the frames in sequence r.
Precede(q, r) == \A b \in ToSet(q) \cap InBuffers, c \in ToSet(r) \cap InBuffers : content[b].n < content[c].n

\* Input is queued, and waits in the pipe, in order; a call that has not
\* written its buffer yet has the newest frame.
OrderOK ==
  /\ Ordered(inQ) /\ Ordered(dataPipe) /\ Precede(inQ, dataPipe)
  /\ \A b \in InBuffers : content[b].n <= fed
  /\ \A b \in Writing(emptying) :
       /\ content[b].n = fed
       /\ \A c \in (ToSet(inQ) \cup ToSet(dataPipe)) \cap InBuffers : content[c].n < fed

(* Adding a newer frame, or an output buffer.                              *)
LEMMA OrderedAppend ==
  ASSUME NEW S, NEW q \in Seq(S), NEW x \in S, Ordered(q),
         x \in InBuffers => \A b \in ToSet(q) \cap InBuffers : content[b].n < content[x].n
  PROVE  Ordered(Append(q, x))
<1> DEFINE t == Append(q, x)
<1>1. /\ Len(t) = Len(q) + 1 /\ Len(q) \in Nat /\ DOMAIN q = 1..Len(q) /\ DOMAIN t = 1..Len(t)
      /\ \A i \in 1..Len(q) : t[i] = q[i]
      /\ t[Len(q) + 1] = x
  BY AppendProperties, LenProperties
<1> HIDE DEF t
<1>2. \A i \in 1..Len(q) : q[i] \in ToSet(q)
  BY <1>1 DEF ToSet
<1>3. SUFFICES ASSUME NEW i \in 1..Len(t), NEW j \in 1..Len(t), i < j, {t[i], t[j]} \subseteq InBuffers
               PROVE  content[t[i]].n < content[t[j]].n
  BY <1>1 DEF Ordered, t
<1>4. CASE j = Len(q) + 1
  BY <1>1, <1>2, <1>3, <1>4
<1>5. CASE j # Len(q) + 1
  BY <1>1, <1>3, <1>5 DEF Ordered
<1> QED BY <1>4, <1>5

(* The rest of an ordered sequence is ordered, and newer than its first.   *)
LEMMA OrderedTail ==
  ASSUME NEW S, NEW q \in Seq(S), q # <<>>, Ordered(q)
  PROVE  /\ Ordered(Tail(q))
         /\ Head(q) \in InBuffers
              => \A b \in ToSet(Tail(q)) \cap InBuffers : content[Head(q)].n < content[b].n
<1> DEFINE t == Tail(q)
<1>1. /\ Len(t) = Len(q) - 1 /\ Len(q) \in Nat \ {0} /\ DOMAIN q = 1..Len(q)
      /\ DOMAIN t = 1..Len(t) /\ Head(q) = q[1]
      /\ \A i \in 1..Len(t) : t[i] = q[i + 1]
  BY HeadTailProperties, LenProperties
<1> HIDE DEF t
<1>2. \A i \in 1..Len(t) : i + 1 \in 1..Len(q) /\ 1 < i + 1 /\ t[i] = q[i + 1]
  BY <1>1
<1>3. Ordered(t)
  <2> SUFFICES ASSUME NEW i \in 1..Len(t), NEW j \in 1..Len(t), i < j, {t[i], t[j]} \subseteq InBuffers
               PROVE  content[t[i]].n < content[t[j]].n
    BY <1>1 DEF Ordered
  <2>1. i + 1 < j + 1
    BY <1>1
  <2> QED BY <1>1, <1>2, <2>1 DEF Ordered
<1>4. ASSUME NEW b \in ToSet(t) \cap InBuffers, Head(q) \in InBuffers
      PROVE  content[Head(q)].n < content[b].n
  <2>1. PICK i \in 1..Len(t) : b = t[i]
    BY <1>1, <1>4 DEF ToSet
  <2>2. 1 \in 1..Len(q)
    BY <1>1
  <2> QED BY <1>1, <1>2, <1>4, <2>1, <2>2 DEF Ordered
<1> QED BY <1>3, <1>4 DEF t

(* Two ordered sequences of which one precedes the other.                  *)
LEMMA OrderedConcat ==
  ASSUME NEW S, NEW q \in Seq(S), NEW r \in Seq(S), Ordered(q), Ordered(r), Precede(q, r)
  PROVE  Ordered(q \o r)
<1> DEFINE u == q \o r
<1>1. /\ Len(u) = Len(q) + Len(r) /\ Len(q) \in Nat /\ Len(r) \in Nat
      /\ DOMAIN q = 1..Len(q) /\ DOMAIN r = 1..Len(r) /\ DOMAIN u = 1..Len(u)
      /\ \A i \in 1..Len(u) : u[i] = IF i <= Len(q) THEN q[i] ELSE r[i - Len(q)]
  BY ConcatProperties, LenProperties
<1> HIDE DEF u
<1>2. SUFFICES ASSUME NEW i \in 1..Len(u), NEW j \in 1..Len(u), i < j, {u[i], u[j]} \subseteq InBuffers
               PROVE  content[u[i]].n < content[u[j]].n
  BY <1>1 DEF Ordered, u
<1>3. CASE j <= Len(q)
  BY <1>1, <1>2, <1>3 DEF Ordered
<1>4. CASE i > Len(q)
  <2>1. /\ i - Len(q) \in 1..Len(r) /\ j - Len(q) \in 1..Len(r) /\ i - Len(q) < j - Len(q)
        /\ u[i] = r[i - Len(q)] /\ u[j] = r[j - Len(q)]
    BY <1>1, <1>2, <1>4
  <2> QED BY <1>1, <1>2, <2>1 DEF Ordered
<1>5. CASE i <= Len(q) /\ j > Len(q)
  <2>1. i \in 1..Len(q) /\ j - Len(q) \in 1..Len(r) /\ u[i] = q[i] /\ u[j] = r[j - Len(q)]
    BY <1>1, <1>2, <1>5
  <2>2. u[i] \in ToSet(q) /\ u[j] \in ToSet(r)
    BY <1>1, <2>1 DEF ToSet
  <2> QED BY <1>2, <2>2 DEF Precede
<1> QED BY <1>1, <1>2, <1>3, <1>4, <1>5

(* What is queued and waiting is in order, one behind the other.           *)
LEMMA OrderedArriving == IInv /\ OrderOK => ReceivedInOrder
<1> SUFFICES ASSUME IInv, OrderOK PROVE ReceivedInOrder
  OBVIOUS
<1>1. inQ \in Seq(Buffers) /\ dataPipe \in Seq(Buffers)
  BY DEF IInv, QueuesOK, PipeOK, Buffers
<1>2. Ordered(Arriving)
  BY <1>1, OrderedConcat DEF OrderOK, Arriving
<1> QED BY <1>2, Zenon DEF Ordered, ReceivedInOrder

(* Buffers leave the places where input waits, or move up.                 *)
LEMMA OrderKept ==
  ASSUME OrderOK, UNCHANGED <<content, fed>>, Writing(emptying)' \subseteq Writing(emptying),
         Ordered(inQ'), Ordered(dataPipe'),
         ToSet(inQ') \subseteq ToSet(inQ), ToSet(dataPipe') \subseteq ToSet(dataPipe)
  PROVE  OrderOK'
<1>1. Ordered(inQ)' /\ Ordered(dataPipe)'
  BY DEF Ordered
<1>2. Precede(inQ, dataPipe)'
  BY DEF OrderOK, Precede
<1>3. /\ \A b \in InBuffers : content'[b].n <= fed'
      /\ \A b \in Writing(emptying)' :
           /\ content'[b].n = fed'
           /\ \A c \in (ToSet(inQ') \cup ToSet(dataPipe')) \cap InBuffers : content'[c].n < fed'
  BY DEF OrderOK
<1> QED BY <1>1, <1>2, <1>3 DEF OrderOK

(* The oldest input in the pipe becomes the newest in the queue.           *)
LEMMA OrderMoved ==
  ASSUME IInv, OrderOK, UNCHANGED <<content, fed, emptying>>,
         dataPipe # <<>>, Head(dataPipe) \in InBuffers,
         dataPipe' = Tail(dataPipe), inQ' = Append(inQ, Head(dataPipe))
  PROVE  OrderOK'
<1> DEFINE b == Head(dataPipe)
<1>1. dataPipe \in Seq(Buffers) /\ inQ \in Seq(InBuffers)
  BY DEF IInv, PipeOK, QueuesOK
<1>2. /\ b \in ToSet(dataPipe) /\ ToSet(dataPipe') \subseteq ToSet(dataPipe)
      /\ ToSet(inQ') = ToSet(inQ) \cup {b}
  BY <1>1, TailInjective, AppendInjectiveTo
<1>3. /\ Ordered(dataPipe')
      /\ \A c \in ToSet(dataPipe') \cap InBuffers : content[b].n < content[c].n
  BY <1>1, OrderedTail DEF OrderOK
<1>4. \A c \in ToSet(inQ) \cap InBuffers : content[c].n < content[b].n
  BY <1>2 DEF OrderOK, Precede
<1>5. Ordered(inQ')
  BY <1>1, <1>4, OrderedAppend DEF OrderOK
<1> HIDE DEF b
<1>6. Precede(inQ', dataPipe')
  BY <1>2, <1>3 DEF OrderOK, Precede
<1>7. Ordered(inQ)' /\ Ordered(dataPipe)' /\ Precede(inQ, dataPipe)'
  BY <1>3, <1>5, <1>6 DEF Ordered, Precede
<1>8. Writing(emptying)' = Writing(emptying)
  BY DEF Writing
<1>9. /\ \A c \in InBuffers : content'[c].n <= fed'
      /\ \A c \in Writing(emptying)' :
           /\ content'[c].n = fed'
           /\ \A d \in (ToSet(inQ') \cup ToSet(dataPipe')) \cap InBuffers : content'[d].n < fed'
  BY <1>2, <1>8 DEF OrderOK
<1> QED BY <1>7, <1>9 DEF OrderOK

(* A buffer that is submitted has the newest frame.                        *)
LEMMA BeginEmptyOrder ==
  ASSUME IInv, OwnersOK, OrderOK, NEW b \in InBuffers, NEW f \in Frames, BeginEmpty(b, f)
  PROVE  OrderOK'
<1>1. /\ Writing(emptying)' = {b} /\ b \notin ToSet(inQ) /\ b \notin ToSet(dataPipe)
      /\ UNCHANGED <<inQ, dataPipe>> /\ f.n = fed + 1 /\ fed' = f.n
      /\ content' = [content EXCEPT ![b] = f]
  BY WritingFacts DEF BeginEmpty, Buffers, data, OwnersOK
<1>2. /\ content'[b] = f
      /\ \A c \in InBuffers : c # b => content'[c] = content[c]
      /\ fed \in Nat /\ \A c \in InBuffers : content[c].n \in Nat
  BY <1>1 DEF IInv, ClientOK, Frames
<1>3. \A q : b \notin ToSet(q) /\ Ordered(q)
         => \A i, j \in DOMAIN q : i < j /\ {q[i], q[j]} \subseteq InBuffers
              => content'[q[i]].n < content'[q[j]].n
  BY <1>2 DEF Ordered, ToSet
<1>4. Ordered(inQ)' /\ Ordered(dataPipe)'
  BY <1>1, <1>3 DEF Ordered, OrderOK
<1>5. Precede(inQ, dataPipe)'
  BY <1>1, <1>2 DEF OrderOK, Precede
<1>6. \A c \in InBuffers : content'[c].n <= fed' /\ (c # b => content'[c].n < fed')
  BY <1>1, <1>2 DEF OrderOK
<1> QED BY <1>1, <1>2, <1>4, <1>5, <1>6 DEF OrderOK

(* A buffer that is written goes behind the older ones.                    *)
LEMMA WriteOrder ==
  ASSUME IInv, OwnersOK, OrderOK, WriteEmpty \/ WriteFill
  PROVE  OrderOK'
<1> USE PlaceTypes
<1>1. dataPipe \in Seq(Buffers)
  BY DEF IInv, PipeOK
<1>2. CASE WriteEmpty
  <2> DEFINE x == emptying.buffer
  <2>1. /\ Writing(emptying) = {x} /\ Writing(emptying)' = {} /\ x \in InBuffers /\ x \in Buffers
        /\ dataPipe' = Append(dataPipe, x) /\ UNCHANGED <<inQ, content, fed>>
    BY <1>2, WritingFacts DEF WriteEmpty, data
  <2>2. /\ content[x].n = fed
        /\ \A c \in (ToSet(inQ) \cup ToSet(dataPipe)) \cap InBuffers : content[c].n < fed
    BY <2>1 DEF OrderOK
  <2>3. Ordered(dataPipe') /\ ToSet(dataPipe') = ToSet(dataPipe) \cup {x}
    BY <1>1, <2>1, <2>2, OrderedAppend, AppendInjectiveTo DEF OrderOK
  <2> HIDE DEF x
  <2>4. Precede(inQ, dataPipe)'
    BY <2>1, <2>2, <2>3 DEF OrderOK, Precede
  <2> QED BY <2>1, <2>3, <2>4 DEF OrderOK, Ordered
<1>3. CASE WriteFill
  <2> DEFINE x == filling.buffer
  <2>1. /\ Writing(filling) = {x} /\ x \in OutBuffers /\ x \in Buffers /\ x \notin InBuffers
        /\ dataPipe' = Append(dataPipe, x) /\ UNCHANGED <<inQ, content, fed, emptying>>
    BY <1>3, WritingFacts DEF WriteFill, data
  <2>2. Ordered(dataPipe') /\ ToSet(dataPipe') = ToSet(dataPipe) \cup {x}
    BY <1>1, <2>1, OrderedAppend, AppendInjectiveTo DEF OrderOK
  <2> HIDE DEF x
  <2>3. Precede(inQ, dataPipe)'
    BY <2>1, <2>2 DEF OrderOK, Precede
  <2>4. ToSet(dataPipe') \cap InBuffers = ToSet(dataPipe) \cap InBuffers
    BY <2>1, <2>2
  <2> QED BY <2>1, <2>2, <2>3, <2>4 DEF OrderOK, Ordered, Writing
<1> QED BY <1>2, <1>3

(* Taking the first of the queued input, or none.                          *)
LEMMA InQAfterOrder ==
  ASSUME IInv, OrderOK, HasInput
  PROVE  Ordered(InQAfter) /\ ToSet(InQAfter) \subseteq ToSet(inQ)
<1>1. inQ \in Seq(InBuffers) /\ (cur = None => inQ # <<>>)
  BY DEF HasInput, IInv, QueuesOK
<1> QED BY <1>1, OrderedTail, TailInjective DEF OrderOK, InQAfter

(* The buffers taken from the data pipe.                                   *)
LEMMA HandleDataBufOrder == ASSUME IInv, OrderOK, HandleDataBuf PROVE OrderOK'
<1>1. PICK b \in Buffers :
        \/ ReturnInput(b) \/ TakeConfig(b) \/ OpenFails(b) \/ DecodeInput(b) \/ DecodeInputFails(b)
        \/ QueueInput(b) \/ ForgetInput(b)
        \/ ReturnOutput(b) \/ DecodeOutput(b) \/ DecodeOutputFails(b) \/ QueueOutput(b)
        \/ ForgetOutput(b)
  BY Zenon DEF HandleDataBuf
<1>2. Take(b)
  BY <1>1 DEF ReturnInput, TakeConfig, OpenFails, DecodeInput, DecodeInputFails, QueueInput,
     ForgetInput, ReturnOutput, DecodeOutput, DecodeOutputFails, QueueOutput, ForgetOutput
<1>3. /\ dataPipe \in Seq(Buffers) /\ dataPipe # <<>> /\ b = Head(dataPipe)
      /\ dataPipe' = Tail(dataPipe) /\ UNCHANGED <<content, fed, emptying>>
  BY <1>2 DEF Take, calls, IInv, PipeOK, TurnOK
<1>4. Ordered(dataPipe') /\ ToSet(dataPipe') \subseteq ToSet(dataPipe)
  BY <1>3, OrderedTail, TailInjective DEF OrderOK
<1>5. CASE QueueInput(b)
  <2>1. b \in InBuffers /\ inQ' = Append(inQ, b)
    BY <1>5, OpenedFacts DEF QueueInput, Put
  <2> QED BY <1>3, <2>1, OrderMoved
<1>6. CASE ~QueueInput(b)
  <2>1. inQ' = inQ \/ (HasInput /\ inQ' = InQAfter)
    BY <1>1, <1>6 DEF ReturnInput, TakeConfig, OpenFails, DecodeInput, DecodeInputFails,
       ForgetInput, ReturnOutput, DecodeOutput, DecodeOutputFails, QueueOutput, ForgetOutput, data
  <2>2. Ordered(inQ') /\ ToSet(inQ') \subseteq ToSet(inQ)
    BY <2>1, InQAfterOrder DEF OrderOK
  <2> QED BY <1>3, <1>4, <2>2, OrderKept DEF Writing
<1> QED BY <1>5, <1>6

(* The buffers a command drains, returns or drops.                         *)
LEMMA HandleCommandOrder == ASSUME IInv, OrderOK, HandleCommand PROVE OrderOK'
<1>1. UNCHANGED <<content, fed, emptying>>
  BY DEF HandleCommand, ChangeState, ToLoaded, ToInvalid, StartReturning, NoTransition,
     TakeCommand, DrainOne, DrainEnds, ReturnNextInput, ReturnNextOutput, Complete, calls
<1>2. CASE DrainOne
  <2>1. dataPipe \in Seq(Buffers) /\ dataPipe # <<>> /\ dataPipe' = Tail(dataPipe)
    BY <1>2 DEF DrainOne, IInv, PipeOK
  <2>2. CASE Head(dataPipe) \in InBuffers
    BY <1>1, <1>2, <2>1, <2>2, OrderMoved DEF DrainOne, Put
  <2>3. CASE Head(dataPipe) \notin InBuffers
    <3>1. inQ' = inQ
      BY <1>2, <2>3 DEF DrainOne
    <3>2. Ordered(dataPipe') /\ ToSet(dataPipe') \subseteq ToSet(dataPipe)
      BY <2>1, OrderedTail, TailInjective DEF OrderOK
    <3> QED BY <1>1, <3>1, <3>2, OrderKept DEF OrderOK, Writing
  <2> QED BY <2>2, <2>3
<1>3. CASE HandleCommand /\ ~DrainOne
  <2>1. dataPipe' = dataPipe /\ (inQ' = inQ \/ inQ' = <<>> \/ (HasInput /\ inQ' = InQAfter))
    BY <1>3 DEF HandleCommand, ChangeState, ToLoaded, ToInvalid, StartReturning, NoTransition,
       TakeCommand, DrainEnds, ReturnNextInput, ReturnNextOutput, Complete, OwedIn, HasInput, data
  <2>2. Ordered(<<>>) /\ ToSet(<<>>) = {}
    BY EmptyInjective DEF Ordered
  <2>3. Ordered(inQ') /\ ToSet(inQ') \subseteq ToSet(inQ)
    BY <2>1, <2>2, InQAfterOrder DEF OrderOK
  <2> QED BY <1>1, <2>1, <2>3, OrderKept DEF OrderOK, Writing
<1> QED BY <1>2, <1>3

(* At the start nothing waits.                                             *)
LEMMA InitOrder == Init => OrderOK
<1> SUFFICES ASSUME Init PROVE OrderOK
  OBVIOUS
<1>1. inQ = <<>> /\ dataPipe = <<>> /\ emptying = None /\ fed = 0
      /\ content = [b \in InBuffers |-> NoFrame]
  BY Zenon DEF Init
<1>2. \A b \in InBuffers : content[b].n <= fed
  BY <1>1 DEF NoFrame
<1> QED BY <1>1, <1>2, EmptyInjective, WritingFacts DEF OrderOK, Ordered, Precede

(* Every step keeps the order.                                             *)
LEMMA NextOrder == ASSUME IInv, OwnersOK, OrderOK, [Next]_vars PROVE OrderOK'
<1>1. CASE \E b \in InBuffers, f \in Frames : BeginEmpty(b, f)
  BY <1>1, BeginEmptyOrder, Zenon
<1>2. CASE WriteEmpty \/ WriteFill
  BY <1>2, WriteOrder
<1>3. CASE HandleDataBuf
  BY <1>3, HandleDataBufOrder
<1>4. CASE HandleCommand
  BY <1>4, HandleCommandOrder
<1>5. CASE \/ \E b \in OutBuffers : BeginFill(b)
           \/ CountEmpty \/ CountFill \/ Deinit \/ Select \/ UNCHANGED vars
           \/ \E c \in Requests : SendCommand(c)
  <2>1. UNCHANGED <<content, fed, inQ, dataPipe>>
    BY <1>5 DEF BeginFill, CountEmpty, CountFill, Deinit, Select, SendCommand, vars, data, calls
  <2>2. emptying' = emptying \/ emptying' = None
    BY <1>5 DEF BeginFill, CountEmpty, CountFill, Deinit, Select, SendCommand, vars, data, calls
  <2>3. Writing(emptying)' \subseteq Writing(emptying)
    BY <2>2, WritingFacts DEF Writing
  <2> QED BY <2>1, <2>3, OrderKept DEF OrderOK
<1> QED BY <1>1, <1>2, <1>3, <1>4, <1>5, Zenon DEF Next, ComponentThread

(* Input waits in the order of its submission, whatever the client does.   *)
THEOREM Order == Spec => []OrderOK
BY Invariance, Ownership, InitOrder, NextOrder, PTL DEF Spec

(* What is queued and in the pipe is in that order too.                    *)
THEOREM ReceivedInOrderCorrect == Spec => []ReceivedInOrder
BY Invariance, Order, OrderedArriving, PTL

-----------------------------------------------------------------------------
\* The thread has a command in hand while it drains and returns, and only
\* then; no state is Pause, which nothing assigns.
TurnsOK ==
  /\ curState # "Pause"
  /\ cmdPipe \in Seq(Requests) /\ command \in Requests \cup {None}
  /\ command # None <=> thread \in {"drain", "return", "crashed"}

(* What serving the data pipe does to the thread, state and queues.        *)
LEMMA DataBufFacts ==
  ASSUME IInv, HandleDataBuf
  PROVE  /\ thread = "data" /\ thread' \in {"select", "exited"}
         /\ dataPipe # <<>> /\ dataPipe' = Tail(dataPipe)
         /\ UNCHANGED <<curState, command, cmdPipe, queues, exit, emptying, filling>>
         /\ curState # "Executing" => UNCHANGED <<inQ, outQ, cur>>
<1>1. PICK b \in Buffers :
        \/ ReturnInput(b) \/ TakeConfig(b) \/ OpenFails(b) \/ DecodeInput(b) \/ DecodeInputFails(b)
        \/ QueueInput(b) \/ ForgetInput(b)
        \/ ReturnOutput(b) \/ DecodeOutput(b) \/ DecodeOutputFails(b) \/ QueueOutput(b)
        \/ ForgetOutput(b)
  BY Zenon DEF HandleDataBuf
<1>2. Take(b)
  BY <1>1 DEF ReturnInput, TakeConfig, OpenFails, DecodeInput, DecodeInputFails, QueueInput,
     ForgetInput, ReturnOutput, DecodeOutput, DecodeOutputFails, QueueOutput, ForgetOutput
<1>3. thread' \in {"select", "exited"} /\ UNCHANGED queues
      /\ (curState # "Executing" => UNCHANGED <<inQ, outQ, cur>>)
  BY <1>1 DEF ReturnInput, TakeConfig, OpenFails, DecodeInput, DecodeInputFails, QueueInput,
     ForgetInput, ReturnOutput, DecodeOutput, DecodeOutputFails, QueueOutput, ForgetOutput,
     Done, data
<1> QED BY <1>2, <1>3 DEF Take, calls, IInv, TurnOK

(* What the calls do: nothing to the thread, the commands or the queues.   *)
LEMMA CallFacts ==
  ASSUME \/ \E b \in InBuffers, f \in Frames : BeginEmpty(b, f)
         \/ \E b \in OutBuffers : BeginFill(b)
         \/ WriteEmpty \/ WriteFill \/ CountEmpty \/ CountFill
  PROVE  /\ UNCHANGED <<curState, thread, command, cmdPipe, inQ, outQ, cur, queues, exit>>
         /\ \/ Streaming /\ dataPipe' = dataPipe /\ OutOfCalls
               /\ (emptying' = emptying \/ filling' = filling)
            \/ ~(emptying = None /\ filling = None)
               /\ (emptying = None => emptying' = None) /\ (filling = None => filling' = None)
BY DEF BeginEmpty, BeginFill, WriteEmpty, WriteFill, CountEmpty, CountFill, data

(* A command that was sent is one of the requests.                         *)
LEMMA TakenFacts ==
  ASSUME IInv, TurnsOK, NEW c, TakeCommand(c)
  PROVE  /\ cmdPipe' \in Seq(Requests) /\ c \in Requests /\ c # None /\ command = None
         /\ cmdPipe # <<>> /\ Len(cmdPipe') = Len(cmdPipe) - 1
<1>1. cmdPipe \in Seq(Requests) /\ cmdPipe # <<>> /\ c = Head(cmdPipe) /\ cmdPipe' = Tail(cmdPipe)
      /\ thread = "command"
  BY DEF TakeCommand, IInv, TurnOK, TurnsOK
<1>2. None \notin Requests
  BY AudioDecoderAssumption DEF AudioDecoderAssumption
<1> QED BY <1>1, <1>2, HeadTailProperties DEF TurnsOK

(* The thread's turn and the command it handles go together.               *)
LEMMA NextTurns == ASSUME IInv, TurnsOK, [Next]_vars PROVE TurnsOK'
<1>1. CASE \/ \E b \in InBuffers, f \in Frames : BeginEmpty(b, f)
           \/ \E b \in OutBuffers : BeginFill(b)
           \/ WriteEmpty \/ WriteFill \/ CountEmpty \/ CountFill
  BY <1>1, CallFacts DEF TurnsOK
<1>2. CASE \E c \in Requests : SendCommand(c)
  BY <1>2 DEF SendCommand, TurnsOK
<1>3. CASE HandleDataBuf
  BY <1>3, DataBufFacts DEF TurnsOK
<1>4. CASE \E c \in Requests :
             ChangeState(c) \/ ToLoaded(c) \/ ToInvalid(c) \/ StartReturning(c) \/ NoTransition(c)
  <2>1. PICK c \in Requests :
             ChangeState(c) \/ ToLoaded(c) \/ ToInvalid(c) \/ StartReturning(c) \/ NoTransition(c)
    BY <1>4
  <2>2. TakeCommand(c)
    BY <2>1 DEF ChangeState, ToLoaded, ToInvalid, StartReturning, NoTransition
  <2>3. cmdPipe' \in Seq(Requests) /\ c # None /\ command = None
    BY <2>2, TakenFacts
  <2>4. CASE ChangeState(c)
    BY <2>3, <2>4 DEF ChangeState, AtOnce, Done, TurnsOK
  <2>5. CASE ToLoaded(c) \/ ToInvalid(c) \/ NoTransition(c)
    BY <2>3, <2>5 DEF ToLoaded, ToInvalid, NoTransition, Done, TurnsOK
  <2>6. CASE StartReturning(c)
    BY <2>3, <2>6 DEF StartReturning, TurnsOK
  <2> QED BY <2>1, <2>4, <2>5, <2>6
<1>5. CASE DrainOne \/ DrainEnds \/ ReturnNextInput \/ ReturnNextOutput \/ Complete
  BY <1>5 DEF DrainOne, DrainEnds, ReturnNextInput, ReturnNextOutput, Complete, Done, Returning,
     OwedIn, OwedOut, TurnsOK
<1>6. CASE Deinit \/ Select \/ UNCHANGED vars
  BY <1>6 DEF Deinit, Select, Selected, vars, TurnsOK
<1> QED BY <1>1, <1>2, <1>3, <1>4, <1>5, <1>6, Zenon DEF Next, ComponentThread, HandleCommand

(* The thread's turns, for every client.                                   *)
THEOREM Turns == Spec => []TurnsOK
<1>1. Init => TurnsOK
  <2> SUFFICES ASSUME Init PROVE TurnsOK
    OBVIOUS
  <2>1. curState = "Loaded" /\ thread = "select" /\ command = None /\ cmdPipe = <<>>
    BY Zenon DEF Init
  <2> QED BY <2>1 DEF TurnsOK
<1> QED BY Invariance, <1>1, NextTurns, PTL DEF Spec

-----------------------------------------------------------------------------
NoCalls == emptying = None /\ filling = None
EmptyQueues == inQ = <<>> /\ outQ = <<>> /\ cur = None

\* What a careful client can rely on.  One command at a time: so a command
\* finds the component in a state that lasts until it is handled, and Idle,
\* once a command has been read, has nothing left to serve.
CarefulOK ==
  /\ Len(cmdPipe) \in {0, 1} /\ (command # None => cmdPipe = <<>>)
  /\ curState = "Invalid" => ~Busy
  /\ ~queues => thread = "exited" \/ curState = "Invalid"
  /\ thread # "crashed"
  /\ emptying = None \/ filling = None
  /\ curState = "Idle" => EmptyQueues
  /\ curState = "Idle" /\ Busy => NoCalls
  /\ curState = "Idle" /\ thread \in {"command", "drain", "return"} => dataPipe = <<>>
  /\ curState \in {"Loaded", "WaitForResources"} => EmptyQueues /\ NoCalls /\ dataPipe = <<>>

(* The calls: none in Loaded, and none begins in Idle.                     *)
LEMMA CallsCareful ==
  ASSUME Careful, IInv, TurnsOK, CarefulOK,
         \/ \E b \in InBuffers, f \in Frames : BeginEmpty(b, f)
         \/ \E b \in OutBuffers : BeginFill(b)
         \/ WriteEmpty \/ WriteFill \/ CountEmpty \/ CountFill
  PROVE  CarefulOK'
<1>1. /\ UNCHANGED <<curState, thread, command, cmdPipe, inQ, outQ, cur, queues>>
      /\ \/ Streaming /\ dataPipe' = dataPipe /\ OutOfCalls
            /\ (emptying' = emptying \/ filling' = filling)
         \/ ~(emptying = None /\ filling = None)
            /\ (emptying = None => emptying' = None) /\ (filling = None => filling' = None)
  BY CallFacts
<1>2. thread \in {"command", "drain", "return"} => Busy
  BY DEF Busy, IInv, TurnOK, TurnsOK
<1> QED BY <1>1, <1>2 DEF CarefulOK, Streaming, OutOfCalls, NoCalls, EmptyQueues, Busy

(* A command is sent when none is left and no call is in progress.         *)
LEMMA SendCareful ==
  ASSUME Careful, TurnsOK, CarefulOK, NEW c \in Requests, SendCommand(c)
  PROVE  CarefulOK'
<1>1. cmdPipe = <<>> /\ command = None /\ NoCalls /\ curState # "Invalid"
  BY DEF SendCommand, MayCommand, OutOfCalls, Busy, NoCalls, Usable
<1>2. Len(cmdPipe') \in {0, 1}
  <2>1. cmdPipe' = <<>> \/ cmdPipe' = Append(<<>>, c)
    BY <1>1 DEF SendCommand
  <2>2. <<>> \in Seq(Requests) /\ Len(<<>>) = 0
    OBVIOUS
  <2>3. Len(Append(<<>>, c)) = 1
    BY <2>2, AppendProperties
  <2>4. Len(cmdPipe') = 0 \/ Len(cmdPipe') = 1
    BY <2>1, <2>2, <2>3, Zenon
  <2> QED BY <2>4
<1>3. /\ UNCHANGED <<thread, command, dataPipe, inQ, outQ, cur, queues, emptying, filling>>
      /\ \/ curState' = "Invalid" /\ cmdPipe' = cmdPipe
         \/ curState' = curState
  BY DEF SendCommand, data, calls
<1> QED BY <1>1, <1>2, <1>3 DEF CarefulOK, NoCalls, EmptyQueues, Busy, TurnsOK

(* The data pipe: in Idle every buffer goes back.                          *)
LEMMA HandleDataBufCareful ==
  ASSUME Careful, IInv, CarefulOK, HandleDataBuf
  PROVE  CarefulOK'
<1>1. curState \notin {"Loaded", "WaitForResources"}
  BY DataBufFacts DEF CarefulOK
<1> QED BY <1>1, DataBufFacts DEF CarefulOK, NoCalls, EmptyQueues, Busy

(* The command that was sent is the only one.                              *)
LEMMA TakeCareful ==
  ASSUME IInv, TurnsOK, CarefulOK, NEW c, TakeCommand(c)
  PROVE  /\ cmdPipe' = <<>> /\ command = None /\ Busy /\ thread = "command"
         /\ curState # "Invalid" /\ queues = TRUE
         /\ UNCHANGED <<dataPipe, emptying, filling>>
<1>1. cmdPipe' \in Seq(Requests) /\ command = None /\ cmdPipe # <<>> /\ Len(cmdPipe') = Len(cmdPipe) - 1
  BY TakenFacts
<1>2. cmdPipe \in Seq(Requests) /\ Len(cmdPipe) \in {0, 1}
  BY DEF TurnsOK, CarefulOK
<1>3. Len(cmdPipe') = 0
  BY <1>1, <1>2, LenProperties
<1>4. cmdPipe' = <<>>
  BY <1>1, <1>3, EmptySeq
<1> QED BY <1>1, <1>4 DEF TakeCommand, CarefulOK, Busy, calls, IInv, QueuesOK

(* The command pipe.                                                       *)
LEMMA HandleCommandCareful ==
  ASSUME Careful, IInv, TurnsOK, CarefulOK, HandleCommand
  PROVE  CarefulOK'
<1>1. ASSUME NEW c \in Requests, ChangeState(c) \/ NoTransition(c) PROVE CarefulOK'
  <2>1. /\ cmdPipe' = <<>> /\ command = None /\ Busy /\ thread = "command"
        /\ curState # "Invalid" /\ queues = TRUE
        /\ UNCHANGED <<dataPipe, emptying, filling>>
    BY <1>1, TakeCareful DEF ChangeState, NoTransition
  <2>2. UNCHANGED <<command, inQ, outQ, cur, queues>> /\ thread' = "select"
    BY <1>1 DEF ChangeState, NoTransition, Done, data
  <2>3. \/ curState' = curState
        \/ curState \in {"Loaded", "WaitForResources"} /\ curState' \in {"Loaded", "WaitForResources", "Idle"}
        \/ curState' = "Executing"
    BY <1>1 DEF ChangeState, NoTransition, AtOnce
  <2> QED BY <2>1, <2>2, <2>3 DEF CarefulOK, NoCalls, EmptyQueues, Busy
<1>2. ASSUME NEW c \in Requests, ToLoaded(c) \/ ToInvalid(c) PROVE CarefulOK'
  <2>1. /\ cmdPipe' = <<>> /\ command = None /\ Busy /\ thread = "command"
        /\ UNCHANGED <<dataPipe, emptying, filling>>
    BY <1>2, TakeCareful DEF ToLoaded, ToInvalid
  <2>2. /\ UNCHANGED command /\ inQ' = <<>> /\ outQ' = <<>> /\ cur' = None
        /\ \/ curState = "Idle" /\ curState' = "Loaded" /\ thread' = "exited"
           \/ curState' = "Invalid" /\ thread' = "select"
    BY <1>2 DEF ToLoaded, ToInvalid, Done
  <2> QED BY <2>1, <2>2 DEF CarefulOK, NoCalls, EmptyQueues, Busy
<1>3. ASSUME NEW c \in Requests, StartReturning(c) PROVE CarefulOK'
  <2>1. /\ cmdPipe' = <<>> /\ command = None /\ Busy /\ thread = "command"
        /\ curState # "Invalid" /\ queues = TRUE
        /\ UNCHANGED <<dataPipe, emptying, filling>>
    BY <1>3, TakeCareful DEF StartReturning
  <2>2. UNCHANGED <<curState, inQ, outQ, cur, queues>> /\ thread' = "drain"
    BY <1>3, <2>1 DEF StartReturning, data
  <2> QED BY <2>1, <2>2 DEF CarefulOK, NoCalls, EmptyQueues, Busy
<1>4. ASSUME DrainOne PROVE CarefulOK'
  <2>1. /\ UNCHANGED <<curState, thread, command, cmdPipe, cur, queues, emptying, filling>>
        /\ thread = "drain" /\ dataPipe # <<>>
    BY <1>4 DEF DrainOne, calls
  <2>2. curState \notin {"Idle", "Loaded", "WaitForResources"}
    BY <2>1 DEF CarefulOK
  <2> QED BY <2>1, <2>2 DEF CarefulOK, NoCalls, EmptyQueues, Busy
<1>5. ASSUME DrainEnds PROVE CarefulOK'
  BY <1>5 DEF DrainEnds, CarefulOK, NoCalls, EmptyQueues, Busy, data, calls
<1>6. ASSUME ReturnNextInput \/ ReturnNextOutput PROVE CarefulOK'
  <2>1. /\ UNCHANGED <<curState, thread, command, cmdPipe, dataPipe, queues, emptying, filling>>
        /\ ~EmptyQueues
    BY <1>6 DEF ReturnNextInput, ReturnNextOutput, OwedIn, OwedOut, calls, EmptyQueues
  <2>2. curState \notin {"Idle", "Loaded", "WaitForResources"}
    BY <2>1 DEF CarefulOK
  <2> QED BY <2>1, <2>2 DEF CarefulOK, NoCalls, EmptyQueues, Busy
<1>7. ASSUME Complete PROVE CarefulOK'
  <2>1. /\ thread = "return" /\ thread' = "select" /\ command' = None /\ command # None
        /\ UNCHANGED <<cmdPipe, dataPipe, inQ, outQ, cur, queues, emptying, filling>>
    BY <1>7 DEF Complete, Done, data, calls, TurnsOK
  <2>2. \/ curState' = curState
        \/ curState' = "Idle" /\ EmptyQueues
    BY <1>7 DEF Complete, OwedIn, OwedOut, Returning, PortsReturned, Ports, EmptyQueues
  <2> QED BY <2>1, <2>2 DEF CarefulOK, NoCalls, EmptyQueues, Busy
<1> QED BY <1>1, <1>2, <1>3, <1>4, <1>5, <1>6, <1>7, Zenon DEF HandleCommand

(* Every step keeps what a careful client relies on.                       *)
LEMMA NextCareful == ASSUME Careful, IInv, TurnsOK, CarefulOK, [Next]_vars PROVE CarefulOK'
<1>1. CASE Deinit \/ UNCHANGED vars
  BY <1>1 DEF Deinit, vars, data, calls, CarefulOK, NoCalls, EmptyQueues, Busy
<1>2. CASE Select
  BY <1>2 DEF Select, Selected, data, calls, CarefulOK, NoCalls, EmptyQueues, Busy
<1> QED BY <1>1, <1>2, CallsCareful, SendCareful, HandleDataBufCareful, HandleCommandCareful, Zenon
        DEF Next, ComponentThread

(* What a careful client relies on.                                        *)
THEOREM CarefulClient == Careful /\ Spec => []CarefulOK
<1>1. Init => CarefulOK
  <2> SUFFICES ASSUME Init PROVE CarefulOK
    OBVIOUS
  <2>1. /\ curState = "Loaded" /\ thread = "select" /\ command = None /\ cmdPipe = <<>>
        /\ dataPipe = <<>> /\ inQ = <<>> /\ outQ = <<>> /\ cur = None /\ queues = TRUE
        /\ emptying = None /\ filling = None
    BY Zenon DEF Init
  <2> QED BY <2>1 DEF CarefulOK, NoCalls, EmptyQueues, Busy
<1>2. Careful /\ IInv /\ TurnsOK /\ CarefulOK /\ [Next]_vars => CarefulOK'
  BY NextCareful
<1>3. ASSUME Careful PROVE Spec => []CarefulOK
  <2>1. IInv /\ TurnsOK /\ CarefulOK /\ [Next]_vars => CarefulOK'
    BY <1>2, <1>3
  <2> QED BY Invariance, Turns, <1>1, <2>1, PTL DEF Spec
<1> QED BY <1>3

(* A queue is never used after it has been freed: the command that would   *)
(* use it is refused, as the component is Invalid by then, or not read.    *)
THEOREM QueuesOutliveUseCorrect == Careful /\ Spec => []QueuesOutliveUse
<1>1. CarefulOK => QueuesOutliveUse
  BY DEF CarefulOK, QueuesOutliveUse
<1> QED BY CarefulClient, <1>1, PTL

(* Back in Loaded the component has no buffer.                             *)
THEOREM LoadedHoldsNothingCorrect == Careful /\ Spec => []LoadedHoldsNothing
<1>1. CarefulOK => LoadedHoldsNothing
  <2> SUFFICES ASSUME CarefulOK, curState = "Loaded" PROVE Inside = <<>>
    BY DEF LoadedHoldsNothing
  <2>1. emptying = None /\ filling = None /\ dataPipe = <<>> /\ inQ = <<>> /\ outQ = <<>> /\ cur = None
    BY DEF CarefulOK, NoCalls, EmptyQueues
  <2>2. BeingWritten(emptying) = <<>> /\ BeingWritten(filling) = <<>> /\ Current = <<>>
    BY <2>1 DEF BeingWritten, Current
  <2> QED BY <2>1, <2>2 DEF Inside
<1> QED BY CarefulClient, <1>1, PTL

-----------------------------------------------------------------------------
\* What the component has beyond its data pipe.
Inner == ToSet(inQ) \cup ToSet(outQ) \cup ({cur} \ {None})

Pending == IF command # None THEN command ELSE Head(cmdPipe)
OfPorts(ps) == {b \in Buffers : /\ b \in InBuffers => "in" \in ps
                                /\ b \in OutBuffers => "out" \in ps}

\* No buffer is lost, unless the component is Invalid.
ConservedOK ==
  curState # "Invalid" =>
    Buffers \subseteq client \cup Writing(emptying) \cup Writing(filling) \cup ToSet(dataPipe) \cup Inner

\* What still has to come back is of the ports of the command that is pending.
PendingOK ==
  before # {} => /\ Busy
                 /\ Pending.op = "Flush" \/ Stops(Pending)
                 /\ before \subseteq OfPorts(PortsReturned(Pending))

\* It is where that command finds it: nothing of it is in the pipe any more
\* once the command returns buffers.
OwedOK == before \subseteq Inner \cup (IF thread = "return" THEN {} ELSE ToSet(dataPipe))

\* A call in progress has a buffer of its own, which is the last in the pipe.
LastWritten(call) ==
  call # None => /\ call.buffer \notin before
                 /\ call.written /\ dataPipe # <<>> => Last(dataPipe) = call.buffer

ReturnOK ==
  ~Gone => ConservedOK /\ PendingOK /\ OwedOK /\ LastWritten(emptying) /\ LastWritten(filling)

(* The last element of a sequence that grows or loses its first.           *)
LEMMA LastFacts ==
  ASSUME NEW S, NEW s \in Seq(S)
  PROVE  /\ \A x \in S : Last(Append(s, x)) = x
         /\ s # <<>> /\ Tail(s) # <<>> => Last(Tail(s)) = Last(s)
         /\ s # <<>> /\ Len(s) <= 1 => ToSet(s) = {Last(s)}
<1>1. \A x \in S : Last(Append(s, x)) = x
  BY AppendProperties, LenProperties DEF Last
<1>2. ASSUME s # <<>>, Tail(s) # <<>> PROVE Last(Tail(s)) = Last(s)
  <2> DEFINE t == Tail(s)
  <2>1. /\ Len(t) = Len(s) - 1 /\ Len(s) \in Nat /\ t \in Seq(S)
        /\ \A i \in 1..Len(t) : t[i] = s[i + 1]
    BY <1>2, HeadTailProperties, LenProperties
  <2>2. Len(t) # 0
    BY <1>2, <2>1, EmptySeq
  <2> HIDE DEF t
  <2>3. Len(t) \in 1..Len(t) /\ Len(t) + 1 = Len(s)
    BY <2>1, <2>2, LenProperties
  <2>4. t[Len(t)] = s[Len(s)]
    BY <2>1, <2>3
  <2> QED BY <2>4 DEF Last, t
<1>3. ASSUME s # <<>>, Len(s) <= 1 PROVE ToSet(s) = {Last(s)}
  <2>1. Len(s) \in Nat /\ DOMAIN s = 1..Len(s)
    BY LenProperties
  <2>2. Len(s) # 0
    BY <1>3, EmptySeq
  <2>3. Len(s) = 1
    BY <1>3, <2>1, <2>2
  <2>4. ToSet(s) = {s[1]}
    BY <2>1, <2>3 DEF ToSet
  <2> QED BY <2>3, <2>4 DEF Last
<1> QED BY <1>1, <1>2, <1>3

(* A buffer that is begun is not owed.                                     *)
LEMMA BeginReturn ==
  ASSUME IInv, OwnersOK, TurnsOK, ReturnOK,
         \/ \E b \in InBuffers, f \in Frames : BeginEmpty(b, f)
         \/ \E b \in OutBuffers : BeginFill(b)
  PROVE  ReturnOK'
<1> USE PlaceTypes
<1> SUFFICES ASSUME ~Gone' PROVE ReturnOK'
  BY DEF ReturnOK
<1>1. /\ UNCHANGED <<curState, thread, command, cmdPipe, dataPipe, inQ, outQ, cur, before>>
      /\ ConservedOK /\ PendingOK /\ OwedOK /\ LastWritten(emptying) /\ LastWritten(filling)
  BY DEF BeginEmpty, BeginFill, data, history, ReturnOK, Gone
<1>2. /\ Inner' = Inner /\ PendingOK' /\ OwedOK'
  BY <1>1 DEF Inner, PendingOK, OwedOK, Busy, Pending, Stops
<1>3. before \cap client = {}
  BY <1>1 DEF OwedOK, OwnersOK, Inner
<1>4. ASSUME NEW b \in InBuffers, NEW f \in Frames, BeginEmpty(b, f)
      PROVE  ConservedOK' /\ LastWritten(emptying)' /\ LastWritten(filling)'
  <2>1. /\ Writing(emptying)' = {b} /\ b \in client /\ client' = client \ {b}
        /\ Writing(emptying) = {} /\ filling' = filling
    BY <1>4, WritingFacts DEF BeginEmpty, Buffers
  <2>2. emptying'.buffer = b /\ emptying'.written = FALSE
    BY <1>4 DEF BeginEmpty
  <2> QED BY <1>1, <1>2, <1>3, <2>1, <2>2 DEF ConservedOK, LastWritten, Writing
<1>5. ASSUME NEW b \in OutBuffers, BeginFill(b)
      PROVE  ConservedOK' /\ LastWritten(emptying)' /\ LastWritten(filling)'
  <2>1. /\ Writing(filling)' = {b} /\ b \in client /\ client' = client \ {b}
        /\ Writing(filling) = {} /\ emptying' = emptying
    BY <1>5, WritingFacts DEF BeginFill, Buffers
  <2>2. filling'.buffer = b /\ filling'.written = FALSE
    BY <1>5 DEF BeginFill
  <2> QED BY <1>1, <1>2, <1>3, <2>1, <2>2 DEF ConservedOK, LastWritten, Writing
<1> QED BY <1>2, <1>4, <1>5, Zenon DEF ReturnOK

(* The buffer that a call writes is the last in the pipe.                  *)
LEMMA WriteReturn ==
  ASSUME IInv, CarefulOK, ReturnOK, WriteEmpty \/ WriteFill \/ CountEmpty \/ CountFill
  PROVE  ReturnOK'
<1> USE PlaceTypes
<1> SUFFICES ASSUME ~Gone' PROVE ReturnOK'
  BY DEF ReturnOK
<1>1. /\ UNCHANGED <<curState, thread, command, cmdPipe, inQ, outQ, cur, before, client>>
      /\ ConservedOK /\ PendingOK /\ OwedOK /\ LastWritten(emptying) /\ LastWritten(filling)
  BY DEF WriteEmpty, WriteFill, CountEmpty, CountFill, data, history, ReturnOK, Gone
<1>2. Inner' = Inner /\ PendingOK'
  BY <1>1 DEF Inner, PendingOK, Busy, Pending, Stops
<1>3. dataPipe \in Seq(Buffers)
  BY DEF IInv, PipeOK
<1>4. ASSUME WriteEmpty PROVE ReturnOK'
  <2>1. /\ Writing(emptying) = {emptying.buffer} /\ Writing(emptying)' = {}
        /\ dataPipe' = Append(dataPipe, emptying.buffer) /\ emptying' = Written(emptying)
        /\ filling = None /\ filling' = None /\ emptying.buffer \in Buffers
    BY <1>4, WritingFacts DEF WriteEmpty, CarefulOK
  <2>2. ToSet(dataPipe') = ToSet(dataPipe) \cup {emptying.buffer} /\ Last(dataPipe') = emptying.buffer
    BY <1>3, <2>1, AppendInjectiveTo, LastFacts
  <2>3. ConservedOK' /\ OwedOK'
    BY <1>1, <1>2, <2>1, <2>2, WritingFacts DEF ConservedOK, OwedOK
  <2>4. emptying'.buffer = emptying.buffer /\ emptying.buffer \notin before
    BY <1>1, <1>4, <2>1 DEF Written, LastWritten, WriteEmpty
  <2>5. LastWritten(emptying)' /\ LastWritten(filling)'
    BY <1>1, <2>1, <2>2, <2>4 DEF LastWritten
  <2> QED BY <1>2, <2>3, <2>5 DEF ReturnOK
<1>5. ASSUME WriteFill PROVE ReturnOK'
  <2>1. /\ Writing(filling) = {filling.buffer} /\ Writing(filling)' = {}
        /\ dataPipe' = Append(dataPipe, filling.buffer) /\ filling' = Written(filling)
        /\ emptying = None /\ emptying' = None /\ filling.buffer \in Buffers
    BY <1>5, WritingFacts DEF WriteFill, CarefulOK
  <2>2. ToSet(dataPipe') = ToSet(dataPipe) \cup {filling.buffer} /\ Last(dataPipe') = filling.buffer
    BY <1>3, <2>1, AppendInjectiveTo, LastFacts
  <2>3. ConservedOK' /\ OwedOK'
    BY <1>1, <1>2, <2>1, <2>2, WritingFacts DEF ConservedOK, OwedOK
  <2>4. filling'.buffer = filling.buffer /\ filling.buffer \notin before
    BY <1>1, <1>5, <2>1 DEF Written, LastWritten, WriteFill
  <2>5. LastWritten(emptying)' /\ LastWritten(filling)'
    BY <1>1, <2>1, <2>2, <2>4 DEF LastWritten
  <2> QED BY <1>2, <2>3, <2>5 DEF ReturnOK
<1>6. ASSUME CountEmpty \/ CountFill PROVE ReturnOK'
  <2>1. /\ dataPipe' = dataPipe
        /\ (emptying' = emptying \/ emptying' = None) /\ (filling' = filling \/ filling' = None)
        /\ Writing(emptying)' = Writing(emptying) /\ Writing(filling)' = Writing(filling)
    BY <1>6, WritingFacts DEF CountEmpty, CountFill
  <2> QED BY <1>1, <1>2, <2>1 DEF ReturnOK, ConservedOK, OwedOK, LastWritten
<1> QED BY <1>4, <1>5, <1>6

(* What a command owes is what the component holds of its ports.           *)
LEMMA SendReturn ==
  ASSUME Careful, IInv, TurnsOK, CarefulOK, ReturnOK, NEW c \in Requests, SendCommand(c)
  PROVE  ReturnOK'
<1> USE PlaceTypes
<1> SUFFICES ASSUME ~Gone' PROVE ReturnOK'
  BY DEF ReturnOK
<1>1. /\ UNCHANGED <<thread, command, dataPipe, inQ, outQ, cur, client, emptying, filling>>
      /\ ConservedOK /\ PendingOK /\ OwedOK
  BY DEF SendCommand, data, calls, ReturnOK, Gone
<1>2. /\ emptying = None /\ filling = None /\ cmdPipe = <<>> /\ command = None
      /\ curState # "Invalid" /\ thread # "return" /\ before = {} /\ ~Busy
      /\ Writing(emptying) = {} /\ Writing(filling) = {}
  BY <1>1, WritingFacts DEF SendCommand, MayCommand, OutOfCalls, Busy, Usable, PendingOK, TurnsOK
<1>3. Inner' = Inner
  BY <1>1 DEF Inner
<1>4. \/ curState' = "Invalid" /\ c = StateSet("Invalid")
      \/ curState' = curState /\ cmdPipe' = Append(cmdPipe, c)
  BY DEF SendCommand
<1>5. ConservedOK'
  BY <1>1, <1>3, <1>4 DEF ConservedOK, Writing
<1>6. LastWritten(emptying)' /\ LastWritten(filling)'
  BY <1>1, <1>2 DEF LastWritten
<1>7. CASE ~(c.op = "Flush" \/ Stops(c))
  <2>1. before' = {}
    BY <1>2, <1>7 DEF SendCommand
  <2> QED BY <1>5, <1>6, <2>1 DEF ReturnOK, PendingOK, OwedOK
<1>8. CASE c.op = "Flush" \/ Stops(c)
  <2>1. before' = Held(PortsReturned(c))
    BY <1>2, <1>8 DEF SendCommand
  <2>2. before' \subseteq OfPorts(PortsReturned(c)) /\ before' \cap client = {} /\ before' \subseteq Buffers
    BY <2>1 DEF Held, OfPorts
  <2>3. before' \subseteq ToSet(dataPipe) \cup Inner
    BY <1>1, <1>2, <2>2 DEF ConservedOK
  <2>4. curState' = curState /\ cmdPipe' = Append(cmdPipe, c)
    BY <1>4, <1>8 DEF Stops, StateSet
  <2>5. cmdPipe' # <<>> /\ Head(cmdPipe') = c
    <3>1. cmdPipe \in Seq(Requests)
      BY DEF TurnsOK
    <3> QED BY <1>2, <2>4, <3>1, AppendProperties
  <2>6. Pending' = c /\ Busy'
    BY <1>1, <1>2, <2>5 DEF Pending, Busy
  <2>7. Stops(c)' = Stops(c)
    BY <2>4 DEF Stops
  <2>8. PendingOK'
    BY <1>8, <2>2, <2>6, <2>7 DEF PendingOK, OfPorts, PortsReturned, Stops
  <2>9. OwedOK'
    BY <1>1, <1>2, <1>3, <2>3 DEF OwedOK
  <2> QED BY <1>5, <1>6, <2>8, <2>9 DEF ReturnOK
<1> QED BY <1>7, <1>8

(* A buffer goes into its queue.                                           *)
LEMMA InnerGrows ==
  ASSUME IInv, NEW b, cur' = cur,
         \/ inQ' = Append(inQ, b) /\ outQ' = outQ /\ b \in InBuffers
         \/ outQ' = Append(outQ, b) /\ inQ' = inQ /\ b \in OutBuffers
  PROVE  Inner' = Inner \cup {b}
<1>1. inQ \in Seq(InBuffers) /\ outQ \in Seq(OutBuffers)
  BY DEF IInv, QueuesOK
<1>2. CASE inQ' = Append(inQ, b) /\ outQ' = outQ /\ b \in InBuffers
  <2>1. ToSet(inQ') = ToSet(inQ) \cup {b}
    BY <1>1, <1>2, AppendInjectiveTo
  <2> QED BY <1>2, <2>1 DEF Inner
<1>3. CASE outQ' = Append(outQ, b) /\ inQ' = inQ /\ b \in OutBuffers
  <2>1. ToSet(outQ') = ToSet(outQ) \cup {b}
    BY <1>1, <1>3, AppendInjectiveTo
  <2> QED BY <1>3, <2>1 DEF Inner
<1> QED BY <1>2, <1>3

(* The buffer taken from the pipe is given back or kept, and so is what    *)
(* the component had; only the states that forget it are left out.         *)
LEMMA TakenIsKept ==
  ASSUME IInv, NEW b \in Buffers,
         \/ ReturnInput(b) \/ TakeConfig(b) \/ DecodeInput(b) \/ QueueInput(b)
         \/ ReturnOutput(b) \/ DecodeOutput(b) \/ QueueOutput(b)
  PROVE  \E bs \in SUBSET Buffers : GiveBack(bs) /\ Inner \cup {b} \subseteq Inner' \cup bs
<1> USE PlaceTypes
<1>1. CASE ReturnInput(b) \/ TakeConfig(b) \/ ReturnOutput(b)
  <2>1. GiveBack({b}) /\ UNCHANGED <<inQ, outQ, cur>>
    BY <1>1 DEF ReturnInput, TakeConfig, ReturnOutput, data
  <2>2. Inner' = Inner
    BY <2>1 DEF Inner
  <2> QED BY <2>1, <2>2
<1>2. CASE QueueInput(b) \/ QueueOutput(b)
  <2>1. /\ UNCHANGED <<cur, client, before>>
        /\ \/ inQ' = Append(inQ, b) /\ outQ' = outQ /\ b \in InBuffers
           \/ outQ' = Append(outQ, b) /\ inQ' = inQ /\ b \in OutBuffers
    BY <1>2, OpenedFacts DEF QueueInput, QueueOutput, Put, history
  <2>3. Inner' = Inner \cup {b}
    BY <2>1, InnerGrows
  <2>4. GiveBack({})
    BY <2>1 DEF GiveBack
  <2> QED BY <2>3, <2>4
<1>3. CASE DecodeInput(b)
  <2>1. /\ b \in InBuffers /\ cur = None /\ outQ # <<>> /\ outQ' = Tail(outQ) /\ inQ' = inQ
        /\ outQ \in Seq(OutBuffers)
    BY <1>3, OpenedFacts DEF DecodeInput, MayDecodeAtOnce, IInv, QueuesOK
  <2> DEFINE o == Head(outQ)
  <2>2. o \in OutBuffers /\ ToSet(outQ) = ToSet(outQ') \cup {o}
    BY <2>1, TailInjective
  <2>3. \/ cur' = None /\ GiveBack({b, o})
        \/ cur' = b /\ GiveBack({o})
    <3> HIDE DEF o
    <3>1. PICK from, steps, last : DecodeStep(b, o, from, steps, last)
      BY <1>3, Zenon DEF DecodeInput, o
    <3>2. PICK n \in steps :
            LET emptied == from + n = content[b].len IN
            /\ cur' = IF emptied THEN None ELSE b
            /\ GiveBack(IF emptied THEN {b, o} ELSE {o})
      BY <3>1, Zenon DEF DecodeStep
    <3> QED BY <3>2
  <2> HIDE DEF o
  <2> QED BY <2>1, <2>2, <2>3 DEF Inner
<1>4. CASE DecodeOutput(b)
  <2>1. b \in OutBuffers /\ HasInput /\ inQ' = InQAfter /\ outQ' = outQ
    BY <1>4 DEF DecodeOutput
  <2>2. Source \in InBuffers /\ ToSet(inQ) \cup ({cur} \ {None}) = ToSet(InQAfter) \cup {Source}
    <3>1. inQ \in Seq(InBuffers) /\ (cur = None => inQ # <<>>)
      BY <2>1 DEF HasInput, IInv, QueuesOK
    <3>2. CASE cur = None
      BY <3>1, <3>2, TailInjective DEF Source, InQAfter
    <3>3. CASE cur # None
      BY <3>3 DEF Source, InQAfter
    <3> QED BY <3>2, <3>3
  <2>3. \/ cur' = None /\ GiveBack({Source, b})
        \/ cur' = Source /\ GiveBack({b})
    <3>1. PICK from, steps, last : DecodeStep(Source, b, from, steps, last)
      BY <1>4, Zenon DEF DecodeOutput
    <3>2. PICK n \in steps :
            LET emptied == from + n = content[Source].len IN
            /\ cur' = IF emptied THEN None ELSE Source
            /\ GiveBack(IF emptied THEN {Source, b} ELSE {b})
      BY <3>1, Zenon DEF DecodeStep
    <3> QED BY <3>2
  <2> QED BY <2>1, <2>2, <2>3 DEF Inner
<1> QED BY <1>1, <1>2, <1>3, <1>4

(* Serving the data pipe loses nothing that a command still owes.          *)
LEMMA HandleDataBufReturn ==
  ASSUME Careful, IInv, TurnsOK, CarefulOK, ReturnOK, HandleDataBuf
  PROVE  ReturnOK'
<1> SUFFICES ASSUME ~Gone' PROVE ReturnOK'
  BY DEF ReturnOK
<1>1. PICK b \in Buffers :
        \/ ReturnInput(b) \/ TakeConfig(b) \/ OpenFails(b) \/ DecodeInput(b) \/ DecodeInputFails(b)
        \/ QueueInput(b) \/ ForgetInput(b)
        \/ ReturnOutput(b) \/ DecodeOutput(b) \/ DecodeOutputFails(b) \/ QueueOutput(b)
        \/ ForgetOutput(b)
  BY Zenon DEF HandleDataBuf
<1>2. Take(b) /\ thread = "data" /\ thread' = "select"
  BY <1>1, DataBufFacts DEF ReturnInput, TakeConfig, OpenFails, DecodeInput, DecodeInputFails, QueueInput,
     ForgetInput, ReturnOutput, DecodeOutput, DecodeOutputFails, QueueOutput, ForgetOutput, Gone
<1>3. /\ dataPipe \in Seq(Buffers) /\ dataPipe # <<>> /\ b = Head(dataPipe) /\ dataPipe' = Tail(dataPipe)
      /\ UNCHANGED <<curState, command, cmdPipe, emptying, filling>>
      /\ ToSet(dataPipe) = ToSet(dataPipe') \cup {b}
      /\ dataPipe' # <<>> => Last(dataPipe') = Last(dataPipe)
  BY <1>2, TailInjective, LastFacts DEF Take, calls, IInv, PipeOK, TurnOK
<1>4. ConservedOK /\ PendingOK /\ OwedOK /\ LastWritten(emptying) /\ LastWritten(filling)
  BY <1>2 DEF ReturnOK, Gone
<1>5. ASSUME before' \subseteq before
      PROVE  PendingOK' /\ LastWritten(emptying)' /\ LastWritten(filling)'
  BY <1>3, <1>4, <1>5 DEF PendingOK, LastWritten, Busy, Pending, Stops
<1>6. CASE ForgetInput(b) \/ ForgetOutput(b)
  <2>1. curState \notin {"Idle", "Executing"} /\ UNCHANGED before
    BY <1>6 DEF ForgetInput, ForgetOutput, Opened, Accepted, history
  <2>2. curState = "Invalid"
    BY <1>3, <2>1 DEF CarefulOK, TurnsOK, IInv, ControlOK, States
  <2>3. before = {}
    BY <1>4, <2>2 DEF PendingOK, CarefulOK
  <2>4. ConservedOK' /\ OwedOK'
    BY <1>3, <2>1, <2>2, <2>3 DEF ConservedOK, OwedOK
  <2> QED BY <1>5, <2>1, <2>4 DEF ReturnOK
<1>7. CASE \/ ReturnInput(b) \/ TakeConfig(b) \/ DecodeInput(b) \/ QueueInput(b)
           \/ ReturnOutput(b) \/ DecodeOutput(b) \/ QueueOutput(b)
  <2>1. PICK bs \in SUBSET Buffers : GiveBack(bs) /\ Inner \cup {b} \subseteq Inner' \cup bs
    BY <1>7, TakenIsKept
  <2>2. client' = client \cup bs /\ before' = before \ bs
    BY <2>1 DEF GiveBack
  <2>3. ConservedOK' /\ OwedOK'
    BY <1>2, <1>3, <1>4, <2>1, <2>2 DEF ConservedOK, OwedOK, Writing
  <2> QED BY <1>5, <2>2, <2>3 DEF ReturnOK
<1>8. ~(OpenFails(b) \/ DecodeInputFails(b) \/ DecodeOutputFails(b))
  BY <1>2 DEF OpenFails, DecodeInputFails, DecodeOutputFails
<1> QED BY <1>1, <1>6, <1>7, <1>8

(* At most the buffer of a call in progress is left in the pipe.           *)
LEMMA DrainEndsReturn ==
  ASSUME IInv, CarefulOK, ReturnOK, DrainEnds
  PROVE  ReturnOK'
<1>1. /\ UNCHANGED <<curState, command, cmdPipe, dataPipe, inQ, outQ, cur, client, emptying,
                     filling, before>>
      /\ thread = "drain" /\ outstanding <= 0
  BY DEF DrainEnds, AllHandled, data, calls, history
<1>2. ConservedOK /\ PendingOK /\ OwedOK /\ LastWritten(emptying) /\ LastWritten(filling)
  BY <1>1 DEF ReturnOK, Gone
<1>3. dataPipe # <<>> => ToSet(dataPipe) \cap before = {}
  <2> SUFFICES ASSUME dataPipe # <<>> PROVE ToSet(dataPipe) \cap before = {}
    OBVIOUS
  <2>1. /\ dataPipe \in Seq(Buffers) /\ outstanding \in Int
        /\ Len(dataPipe) = outstanding + Uncounted(emptying) + Uncounted(filling)
    BY DEF IInv, PipeOK
  <2>2. Len(dataPipe) \in Nat \ {0}
    BY <2>1, EmptySeq
  <2>3. Uncounted(None) = 0 /\ Uncounted(emptying) \in {0, 1} /\ Uncounted(filling) \in {0, 1}
    BY UncountedBounds
  <2>4. emptying = None \/ filling = None
    BY DEF CarefulOK
  <2>5. Len(dataPipe) <= 1 /\ (Uncounted(emptying) = 1 \/ Uncounted(filling) = 1)
    BY <1>1, <2>1, <2>2, <2>3, <2>4
  <2>6. Last(dataPipe) \notin before
    BY <1>2, <2>5 DEF LastWritten, Uncounted
  <2> QED BY <2>1, <2>5, <2>6, LastFacts
<1>4. OwedOK'
  BY <1>1, <1>2, <1>3, EmptyInjective DEF OwedOK, Inner
<1> QED BY <1>1, <1>2, <1>4
        DEF ReturnOK, ConservedOK, Inner, Writing, PendingOK, Busy, Pending, Stops, LastWritten

(* A command that returns nothing is not owed anything.                    *)
LEMMA OtherCommandReturn ==
  ASSUME IInv, TurnsOK, CarefulOK, ReturnOK, NEW c \in Requests,
         ChangeState(c) \/ ToLoaded(c) \/ ToInvalid(c) \/ NoTransition(c)
  PROVE  ReturnOK'
<1> SUFFICES ASSUME ~Gone' PROVE ReturnOK'
  BY DEF ReturnOK
<1>1. TakeCommand(c)
  BY DEF ChangeState, ToLoaded, ToInvalid, NoTransition
<1>2. /\ cmdPipe' = <<>> /\ command = None /\ thread = "command" /\ curState # "Invalid"
      /\ UNCHANGED <<dataPipe, emptying, filling, client, before>> /\ c = Head(cmdPipe)
  BY <1>1, TakeCareful DEF TakeCommand, history
<1>3. ConservedOK /\ PendingOK /\ OwedOK /\ LastWritten(emptying) /\ LastWritten(filling)
  BY <1>2 DEF ReturnOK, Gone
<1>4. ~(c.op = "Flush" \/ Stops(c))
  <2>1. CASE ChangeState(c)
    BY <2>1 DEF ChangeState, AtOnce, Stops, StateSet
  <2>2. CASE ToLoaded(c)
    BY <2>2 DEF ToLoaded, Stops, StateSet
  <2>3. CASE ToInvalid(c)
    BY <2>3 DEF ToInvalid, Stops, StateSet
  <2>4. CASE NoTransition(c)
    BY <2>4 DEF NoTransition
  <2> QED BY <2>1, <2>2, <2>3, <2>4
<1>5. before = {}
  BY <1>2, <1>3, <1>4 DEF PendingOK, Pending
<1>6. PendingOK' /\ OwedOK' /\ LastWritten(emptying)' /\ LastWritten(filling)'
  BY <1>2, <1>3, <1>5 DEF PendingOK, OwedOK, LastWritten
<1>7. \/ UNCHANGED <<inQ, outQ, cur>>
      \/ curState' = "Invalid"
  BY DEF ChangeState, ToLoaded, ToInvalid, NoTransition, data, Gone
<1>8. ConservedOK'
  BY <1>2, <1>3, <1>7 DEF ConservedOK, Inner, Writing
<1> QED BY <1>6, <1>8 DEF ReturnOK

(* A command that returns buffers is the one that owes them.               *)
LEMMA StartReturningReturn ==
  ASSUME IInv, TurnsOK, CarefulOK, ReturnOK, NEW c \in Requests, StartReturning(c)
  PROVE  ReturnOK'
<1>1. TakeCommand(c) /\ UNCHANGED <<curState, inQ, outQ, cur>> /\ command' = c
  BY DEF StartReturning, data
<1>2. /\ command = None /\ c # None /\ thread = "command" /\ queues = TRUE
      /\ UNCHANGED <<dataPipe, emptying, filling, client, before>> /\ c = Head(cmdPipe)
  BY <1>1, TakeCareful, TakenFacts DEF TakeCommand, history
<1>3. ConservedOK /\ PendingOK /\ OwedOK /\ LastWritten(emptying) /\ LastWritten(filling)
  BY <1>2 DEF ReturnOK, Gone
<1>4. Pending = c /\ Pending' = c /\ Busy' /\ thread' = "drain"
  BY <1>1, <1>2 DEF Pending, Busy, StartReturning
<1>5. PendingOK'
  BY <1>1, <1>2, <1>3, <1>4 DEF PendingOK, Stops
<1>6. ConservedOK' /\ OwedOK' /\ LastWritten(emptying)' /\ LastWritten(filling)'
  BY <1>1, <1>2, <1>3, <1>4 DEF ConservedOK, OwedOK, LastWritten, Inner, Writing
<1> QED BY <1>5, <1>6 DEF ReturnOK

(* A buffer drained from the pipe is in a queue now.                       *)
LEMMA DrainOneReturn ==
  ASSUME IInv, ReturnOK, DrainOne
  PROVE  ReturnOK'
<1> USE PlaceTypes
<1> DEFINE b == Head(dataPipe)
<1>1. /\ UNCHANGED <<curState, thread, command, cmdPipe, cur, client, emptying, filling, before>>
      /\ thread = "drain" /\ dataPipe \in Seq(Buffers) /\ dataPipe # <<>> /\ dataPipe' = Tail(dataPipe)
      /\ inQ \in Seq(InBuffers) /\ outQ \in Seq(OutBuffers)
  BY DEF DrainOne, calls, history, IInv, PipeOK, QueuesOK
<1>2. ConservedOK /\ PendingOK /\ OwedOK /\ LastWritten(emptying) /\ LastWritten(filling)
  BY <1>1 DEF ReturnOK, Gone
<1>3. /\ ToSet(dataPipe) = ToSet(dataPipe') \cup {b} /\ b \in Buffers
      /\ dataPipe' # <<>> => Last(dataPipe') = Last(dataPipe)
  BY <1>1, TailInjective, LastFacts
<1>4. Inner' = Inner \cup {b}
  <2>1. \/ inQ' = Append(inQ, b) /\ outQ' = outQ /\ b \in InBuffers
        \/ outQ' = Append(outQ, b) /\ inQ' = inQ /\ b \in OutBuffers
    BY <1>3 DEF DrainOne, Put
  <2> QED BY <1>1, <2>1, InnerGrows
<1> HIDE DEF b
<1>5. PendingOK' /\ LastWritten(emptying)' /\ LastWritten(filling)'
  BY <1>1, <1>2, <1>3 DEF PendingOK, LastWritten, Busy, Pending, Stops
<1>6. ConservedOK' /\ OwedOK'
  BY <1>1, <1>2, <1>3, <1>4 DEF ConservedOK, OwedOK, Writing
<1> QED BY <1>5, <1>6 DEF ReturnOK

(* A buffer that is returned is owed no longer.                            *)
LEMMA ReturnNextReturn ==
  ASSUME IInv, ReturnOK, ReturnNextInput \/ ReturnNextOutput
  PROVE  ReturnOK'
<1> USE PlaceTypes
<1>1. /\ UNCHANGED <<curState, thread, command, cmdPipe, dataPipe, emptying, filling>>
      /\ thread = "return"
  BY DEF ReturnNextInput, ReturnNextOutput, OwedIn, OwedOut, Returning, calls
<1>2. ConservedOK /\ PendingOK /\ OwedOK /\ LastWritten(emptying) /\ LastWritten(filling)
  BY <1>1 DEF ReturnOK, Gone
<1>3. PICK b : GiveBack({b}) /\ Inner \subseteq Inner' \cup {b}
  <2>1. CASE ReturnNextInput
    <3>1. /\ GiveBack({Source}) /\ inQ' = InQAfter /\ cur' = None /\ outQ' = outQ
          /\ inQ \in Seq(InBuffers) /\ (cur = None => inQ # <<>>)
      BY <2>1 DEF ReturnNextInput, OwedIn, IInv, QueuesOK
    <3>2. Inner \subseteq Inner' \cup {Source}
      BY <3>1, TailInjective DEF Inner, InQAfter, Source
    <3> QED BY <3>1, <3>2
  <2>2. CASE ReturnNextOutput
    <3>1. /\ GiveBack({Head(outQ)}) /\ outQ' = Tail(outQ) /\ inQ' = inQ /\ cur' = cur
          /\ outQ \in Seq(OutBuffers) /\ outQ # <<>>
      BY <2>2 DEF ReturnNextOutput, OwedOut, IInv, QueuesOK
    <3>2. Inner \subseteq Inner' \cup {Head(outQ)}
      BY <3>1, TailInjective DEF Inner
    <3> QED BY <3>1, <3>2
  <2> QED BY <2>1, <2>2
<1>4. client' = client \cup {b} /\ before' = before \ {b}
  BY <1>3 DEF GiveBack
<1>5. PendingOK' /\ LastWritten(emptying)' /\ LastWritten(filling)'
  BY <1>1, <1>2, <1>4 DEF PendingOK, LastWritten, Busy, Pending, Stops
<1>6. ConservedOK' /\ OwedOK'
  BY <1>1, <1>2, <1>3, <1>4 DEF ConservedOK, OwedOK, Writing
<1> QED BY <1>5, <1>6 DEF ReturnOK

(* A command that has returned what was queued owes nothing.               *)
LEMMA CompleteReturn ==
  ASSUME IInv, TurnsOK, CarefulOK, ReturnOK, Complete
  PROVE  ReturnOK'
<1> USE PlaceTypes
<1>1. /\ UNCHANGED <<cmdPipe, dataPipe, inQ, outQ, cur, client, emptying, filling, before>>
      /\ thread = "return" /\ thread' = "select" /\ command # None
  BY DEF Complete, Done, data, calls, history, TurnsOK
<1>2. ConservedOK /\ PendingOK /\ OwedOK /\ LastWritten(emptying) /\ LastWritten(filling)
  BY <1>1 DEF ReturnOK, Gone
<1>3. before = {}
  <2> SUFFICES ASSUME NEW b \in before PROVE FALSE
    OBVIOUS
  <2>1. b \in Inner /\ b \in OfPorts(PortsReturned(command))
    BY <1>1, <1>2 DEF OwedOK, PendingOK, Pending
  <2>2. CASE b \in InBuffers
    <3>1. inQ = <<>> /\ cur = None
      BY <1>1, <2>1, <2>2 DEF Complete, OwedIn, Returning, OfPorts
    <3> QED BY <2>1, <2>2, <3>1, EmptyInjective DEF Inner
  <2>3. CASE b \in OutBuffers
    <3>1. outQ = <<>>
      BY <1>1, <2>1, <2>3 DEF Complete, OwedOut, Returning, OfPorts
    <3> QED BY <2>1, <2>3, <3>1, EmptyInjective DEF Inner
  <2> QED BY <2>1, <2>2, <2>3 DEF OfPorts
<1>4. curState # "Invalid"
  BY <1>1 DEF CarefulOK, Busy
<1> QED BY <1>1, <1>2, <1>3, <1>4
        DEF ReturnOK, ConservedOK, Inner, Writing, PendingOK, OwedOK, LastWritten

(* Every step keeps what a command owes where it will find it.             *)
LEMMA NextReturn ==
  ASSUME Careful, IInv, OwnersOK, TurnsOK, CarefulOK, ReturnOK, [Next]_vars
  PROVE  ReturnOK'
<1>1. CASE Deinit \/ Select \/ UNCHANGED vars
  <2>1. /\ UNCHANGED <<curState, command, cmdPipe, dataPipe, inQ, outQ, cur, client, emptying,
                       filling, before>>
        /\ thread' = thread \/ (thread = "select" /\ thread' # "return")
    BY <1>1 DEF Deinit, Select, Selected, vars, data, calls, history
  <2> QED BY <2>1 DEF ReturnOK, Gone, ConservedOK, Inner, Writing, PendingOK, Busy, Pending,
               Stops, OwedOK, LastWritten
<1>2. CASE HandleCommand
  BY <1>2, OtherCommandReturn, StartReturningReturn, DrainOneReturn, DrainEndsReturn,
     ReturnNextReturn, CompleteReturn, Zenon DEF HandleCommand
<1> QED BY <1>1, <1>2, BeginReturn, WriteReturn, SendReturn, HandleDataBufReturn, Zenon
        DEF Next, ComponentThread

(* Where the buffers are that a command owes.                              *)
THEOREM CommandOwes == Careful /\ Spec => []ReturnOK
<1>1. Init => ReturnOK
  <2> SUFFICES ASSUME Init PROVE ReturnOK
    OBVIOUS
  <2>1. emptying = None /\ filling = None /\ client = Buffers /\ before = {}
    BY Zenon DEF Init
  <2> QED BY <2>1 DEF ReturnOK, ConservedOK, PendingOK, OwedOK, LastWritten
<1>2. ASSUME Careful PROVE Spec => []ReturnOK
  <2>1. IInv /\ OwnersOK /\ TurnsOK /\ CarefulOK /\ ReturnOK /\ [Next]_vars => ReturnOK'
    BY <1>2, NextReturn
  <2>2. Spec => []CarefulOK
    BY <1>2, CarefulClient
  <2> QED BY Invariance, Ownership, Turns, <1>1, <2>1, <2>2, PTL DEF Spec
<1> QED BY <1>2

(* With no command left, every buffer that one had to return is back.      *)
THEOREM CommandReturnsAllCorrect == Careful /\ Spec => []CommandReturnsAll
<1>1. ReturnOK => CommandReturnsAll
  BY DEF ReturnOK, PendingOK, CommandReturnsAll, Gone
<1> QED BY CommandOwes, <1>1, PTL

-----------------------------------------------------------------------------
\* A client that flushes the input port whenever it flushes the output port.
FlushesInput == Flush({"out"}) \notin Requests

\* No two buffers have the same frame; no frame is decoded before it is fed;
\* a seek or config packet carries no EOS.
FramesOK ==
  /\ \A b, c \in InBuffers : content[b].n = content[c].n /\ content[b].n # 0 => b = c
  /\ \A b \in InBuffers \ client : content[b].n # 0
  /\ \A b \in InBuffers : content[b].kind # "data" => content[b].n \notin EosFrames
  /\ \A i \in DOMAIN decoded : decoded[i] <= fed

\* Outside Idle and Executing there is no input, and before the first of them
\* the client has every buffer.
NoInputOK ==
  /\ curState \in {"Loaded", "WaitForResources"} /\ thread # "exited" => client = Buffers
  /\ curState \in {"Loaded", "WaitForResources", "Invalid"} => ~HasInput
  /\ curState = "Invalid" /\ queues /\ thread # "exited" => client = Buffers
  /\ thread \in {"drain", "return"} => queues

\* Frame n has been decoded to its end.
BackWith(n) == Contains(decoded, n) /\ \A b \in InBuffers : content[b].n = n => b \in client
EosBack == \E n \in EosFrames : BackWith(n)

\* The input that came last, if the component has any.
Newest == IF inQ # <<>> THEN Last(inQ) ELSE cur

\* Whenever EOS would be put on the next output buffer that empties the input,
\* what is last in the queue, or being decoded, has it, or it is decoded.
EosOK ==
  /\ flagged => EosBack
  /\ sendAfterEOS /\ HasInput /\ thread \in {"select", "data", "command"} =>
       \/ content[Newest].n \in EosFrames
       \/ cur # None /\ content[cur].n \in EosFrames
       \/ EosBack

(* What a sequence contains when it grows.                                 *)
LEMMA GrownContains ==
  ASSUME NEW S, NEW s \in Seq(S), NEW x \in S
  PROVE  /\ Contains(Append(s, x), x)
         /\ \A n : Contains(s, n) => Contains(Append(s, x), n)
         /\ \A i \in DOMAIN Append(s, x) : Append(s, x)[i] = x \/ (i \in DOMAIN s /\ Append(s, x)[i] = s[i])
         /\ s # <<>> => Contains(s, Last(s))
<1> DEFINE t == Append(s, x)
<1>1. /\ Len(t) = Len(s) + 1 /\ Len(s) \in Nat /\ DOMAIN s = 1..Len(s) /\ DOMAIN t = 1..Len(t)
      /\ \A i \in 1..Len(s) : t[i] = s[i]
      /\ t[Len(s) + 1] = x
  BY AppendProperties, LenProperties
<1> HIDE DEF t
<1>2. Contains(t, x)
  BY <1>1 DEF Contains
<1>3. \A n : Contains(s, n) => Contains(t, n)
  BY <1>1 DEF Contains
<1>4. \A i \in DOMAIN t : t[i] = x \/ (i \in DOMAIN s /\ t[i] = s[i])
  BY <1>1
<1>5. s # <<>> => Len(s) \in 1..Len(s)
  BY <1>1, EmptySeq
<1>6. s # <<>> => Contains(s, Last(s))
  BY <1>5 DEF Contains, Last
<1> QED BY <1>2, <1>3, <1>4, <1>6 DEF t

(* What a decoding step does to the history.                               *)
LEMMA DecodeStepEos ==
  ASSUME IInv, NEW b \in InBuffers, NEW o, NEW from, NEW steps, NEW last,
         DecodeStep(b, o, from, steps, last)
  PROVE  /\ decoded' = decoded \/ decoded' = Append(decoded, content[b].n)
         /\ Contains(decoded', content[b].n) /\ client \subseteq client'
         /\ \/ cur' = None /\ b \in client' /\ flagged' = (flagged \/ (sendAfterEOS' /\ last))
            \/ cur' = b /\ flagged' = flagged
<1>1. PICK n \in steps :
        LET emptied == from + n = content[b].len IN
        /\ cur' = IF emptied THEN None ELSE b
        /\ GiveBack(IF emptied THEN {b, o} ELSE {o})
        /\ decoded' = IF decoded # <<>> /\ Last(decoded) = content[b].n THEN decoded
                      ELSE Append(decoded, content[b].n)
        /\ flagged' = (flagged \/ (sendAfterEOS' /\ last /\ emptied))
  BY Zenon DEF DecodeStep
<1>2. decoded \in Seq(0..MaxFrames) /\ content[b].n \in 0..MaxFrames /\ flagged \in BOOLEAN
  BY DEF IInv, HistoryOK, ClientOK, Frames
<1>3. Contains(decoded', content[b].n) /\ (decoded' = decoded \/ decoded' = Append(decoded, content[b].n))
  <2>1. CASE decoded # <<>> /\ Last(decoded) = content[b].n
    <3>1. decoded' = decoded
      BY <1>1, <2>1, Zenon
    <3> QED BY <1>2, <2>1, <3>1, GrownContains
  <2>2. CASE ~(decoded # <<>> /\ Last(decoded) = content[b].n)
    <3>1. decoded' = Append(decoded, content[b].n)
      BY <1>1, <2>2, Zenon
    <3>2. \A x \in 0..MaxFrames : Contains(Append(decoded, x), x)
      BY <1>2, GrownContains
    <3> QED BY <1>2, <3>1, <3>2, Zenon
  <2> QED BY <2>1, <2>2
<1>4. CASE from + n = content[b].len
  <2>1. flagged' = (flagged \/ (sendAfterEOS' /\ last))
    BY <1>1, <1>4, Zenon
  <2> QED BY <1>1, <1>3, <1>4, <2>1 DEF GiveBack
<1>5. CASE from + n # content[b].len
  <2>1. flagged' = (flagged \/ FALSE)
    BY <1>1, <1>5, Zenon
  <2>2. flagged' = flagged
    BY <1>2, <2>1
  <2> QED BY <1>1, <1>3, <1>5, <2>2 DEF GiveBack
<1> QED BY <1>4, <1>5

(* No step but EmptyThisBuffer takes input from the client or renames it.  *)
LEMMA StepGrows ==
  ASSUME IInv, [Next]_vars, ~\E b \in InBuffers, f \in Frames : BeginEmpty(b, f)
  PROVE  /\ content' = content /\ fed' = fed /\ client \cap InBuffers \subseteq client'
         /\ decoded' = decoded \/ \E b \in InBuffers : decoded' = Append(decoded, content[b].n)
<1>1. CASE \/ \E b \in OutBuffers : BeginFill(b)
           \/ WriteEmpty \/ WriteFill \/ CountEmpty \/ CountFill \/ Deinit \/ Select \/ UNCHANGED vars
           \/ \E c \in Requests : SendCommand(c)
  BY <1>1, PlaceTypes DEF BeginFill, WriteEmpty, WriteFill, CountEmpty, CountFill, Deinit, Select,
     SendCommand, vars, calls, history
<1>2. CASE HandleCommand
  BY <1>2 DEF HandleCommand, ChangeState, ToLoaded, ToInvalid, StartReturning, NoTransition,
     TakeCommand, DrainOne, DrainEnds, ReturnNextInput, ReturnNextOutput, Complete, GiveBack,
     calls, history
<1>3. CASE HandleDataBuf
  <2>1. PICK b \in Buffers :
          \/ ReturnInput(b) \/ TakeConfig(b) \/ OpenFails(b) \/ DecodeInput(b) \/ DecodeInputFails(b)
          \/ QueueInput(b) \/ ForgetInput(b)
          \/ ReturnOutput(b) \/ DecodeOutput(b) \/ DecodeOutputFails(b) \/ QueueOutput(b)
          \/ ForgetOutput(b)
    BY <1>3, Zenon DEF HandleDataBuf
  <2>2. content' = content /\ fed' = fed
    BY <2>1 DEF ReturnInput, TakeConfig, OpenFails, DecodeInput, DecodeInputFails, QueueInput,
       ForgetInput, ReturnOutput, DecodeOutput, DecodeOutputFails, QueueOutput, ForgetOutput,
       Take, calls
  <2>3. CASE DecodeInput(b)
    <3>1. b \in InBuffers
      BY <2>3, OpenedFacts DEF DecodeInput
    <3>2. PICK o, from, steps, last : DecodeStep(b, o, from, steps, last)
      BY <2>3, Zenon DEF DecodeInput
    <3> QED BY <2>2, <3>1, <3>2, DecodeStepEos
  <2>4. CASE DecodeOutput(b)
    <3>1. Source \in InBuffers
      BY <2>4, SourceFacts DEF DecodeOutput, HasInput
    <3>2. PICK o, from, steps, last : DecodeStep(Source, o, from, steps, last)
      BY <2>4, Zenon DEF DecodeOutput
    <3> QED BY <2>2, <3>1, <3>2, DecodeStepEos
  <2>5. CASE ~DecodeInput(b) /\ ~DecodeOutput(b)
    <3>1. decoded' = decoded /\ client \subseteq client'
      BY <2>1, <2>5 DEF ReturnInput, TakeConfig, OpenFails, DecodeInputFails, QueueInput,
       ForgetInput, ReturnOutput, DecodeOutputFails, QueueOutput, ForgetOutput, GiveBack, history
    <3> QED BY <2>2, <3>1
  <2> QED BY <2>3, <2>4, <2>5
<1> QED BY <1>1, <1>2, <1>3, Zenon DEF Next, ComponentThread

(* A frame that has been decoded stays decoded, and its buffer is reused   *)
(* only for another.                                                       *)
LEMMA BackStays ==
  ASSUME IInv, FramesOK, [Next]_vars, EosBack
  PROVE  EosBack'
<1>1. PICK n \in EosFrames : BackWith(n)
  BY DEF EosBack
<1>2. decoded \in Seq(0..MaxFrames) /\ \A b \in InBuffers : content[b].n \in 0..MaxFrames
  BY DEF IInv, HistoryOK, ClientOK, Frames
<1>3. ASSUME NEW b \in InBuffers, NEW f \in Frames, BeginEmpty(b, f)
      PROVE  BackWith(n)'
  <2>1. /\ f.n = fed + 1 /\ content' = [content EXCEPT ![b] = f] /\ client' = client \ {b}
        /\ decoded' = decoded /\ fed \in Nat /\ content \in [InBuffers -> Frames]
    BY <1>3 DEF BeginEmpty, history, IInv, ClientOK
  <2>2. PICK i \in 1..Len(decoded) : decoded[i] = n
    BY <1>1 DEF BackWith, Contains
  <2>3. n <= fed
    BY <1>2, <2>2, LenProperties DEF FramesOK
  <2>4. n \in Int /\ f.n # n
    BY <2>1, <2>3, AudioDecoderAssumption DEF AudioDecoderAssumption
  <2> QED BY <1>1, <2>1, <2>4 DEF BackWith
<1>4. ASSUME ~\E b \in InBuffers, f \in Frames : BeginEmpty(b, f)
      PROVE  BackWith(n)'
  <2>1. /\ content' = content /\ client \cap InBuffers \subseteq client'
        /\ decoded' = decoded \/ \E b \in InBuffers : decoded' = Append(decoded, content[b].n)
    BY <1>4, StepGrows
  <2>2. ASSUME NEW b \in InBuffers PROVE Contains(Append(decoded, content[b].n), n)
    <3>1. content[b].n \in 0..MaxFrames /\ Contains(decoded, n)
      BY <1>1, <1>2 DEF BackWith
    <3>2. \A x \in 0..MaxFrames : Contains(decoded, n) => Contains(Append(decoded, x), n)
      BY <1>2, GrownContains
    <3> QED BY <3>1, <3>2, Zenon
  <2>3. Contains(decoded', n)
    BY <1>1, <2>1, <2>2 DEF BackWith
  <2> QED BY <1>1, <2>1, <2>3 DEF BackWith
<1>5. BackWith(n)'
  BY <1>3, <1>4, Zenon
<1> QED BY <1>5 DEF EosBack

(* Every step keeps the frames apart.                                      *)
LEMMA NextFrames == ASSUME IInv, OrderOK, FramesOK, [Next]_vars PROVE FramesOK'
<1>1. /\ decoded \in Seq(0..MaxFrames) /\ content \in [InBuffers -> Frames] /\ fed \in Nat
      /\ \A b \in InBuffers : content[b].n \in 0..MaxFrames
  BY DEF IInv, HistoryOK, ClientOK, Frames
<1>2. ASSUME NEW b \in InBuffers, NEW f \in Frames, BeginEmpty(b, f)
      PROVE  FramesOK'
  <2>1. /\ f.n = fed + 1 /\ content' = [content EXCEPT ![b] = f] /\ client' = client \ {b}
        /\ decoded' = decoded /\ fed' = f.n /\ (f.kind # "data" => f.n \notin EosFrames)
    BY <1>2 DEF BeginEmpty, history
  <2>2. \A c \in InBuffers : content[c].n <= fed /\ content[c].n # f.n
    BY <1>1, <2>1 DEF OrderOK
  <2>3. f.n # 0
    BY <1>1, <2>1
  <2>4. \A i \in DOMAIN decoded : decoded[i] <= fed'
    <3>1. \A i \in DOMAIN decoded : decoded[i] \in 0..MaxFrames /\ decoded[i] <= fed
      BY <1>1, LenProperties DEF FramesOK
    <3> QED BY <1>1, <2>1, <3>1
  <2> QED BY <1>1, <2>1, <2>2, <2>3, <2>4 DEF FramesOK
<1>3. CASE ~\E b \in InBuffers, f \in Frames : BeginEmpty(b, f)
  <2>1. /\ content' = content /\ fed' = fed /\ client \cap InBuffers \subseteq client'
        /\ decoded' = decoded \/ \E b \in InBuffers : decoded' = Append(decoded, content[b].n)
    BY <1>3, StepGrows
  <2>2. \A i \in DOMAIN decoded' : decoded'[i] <= fed'
    BY <1>1, <2>1, GrownContains DEF FramesOK, OrderOK
  <2> QED BY <2>1, <2>2 DEF FramesOK
<1> QED BY <1>2, <1>3, Zenon

(* With every buffer at the client nothing waits in the pipe.              *)
LEMMA NothingWaits ==
  ASSUME IInv, OwnersOK, client = Buffers
  PROVE  dataPipe = <<>> /\ outQ = <<>>
<1>1. dataPipe \in Seq(Buffers) /\ outQ \in Seq(OutBuffers)
  BY DEF IInv, PipeOK, QueuesOK
<1>2. dataPipe # <<>> => Head(dataPipe) \in ToSet(dataPipe) \cap client
  BY <1>1, TailInjective
<1>3. outQ # <<>> => Head(outQ) \in ToSet(outQ) \cap client
  BY <1>1, TailInjective DEF Buffers
<1> QED BY <1>2, <1>3 DEF OwnersOK

(* Every step keeps input out of the other states.                         *)
LEMMA NextNoInput ==
  ASSUME IInv, OwnersOK, TurnsOK, NoInputOK, [Next]_vars
  PROVE  NoInputOK'
<1>1. CASE \/ \E b \in InBuffers, f \in Frames : BeginEmpty(b, f)
           \/ \E b \in OutBuffers : BeginFill(b)
  <2>1. UNCHANGED <<curState, thread, inQ, cur, queues>> /\ curState = "Executing"
    BY <1>1 DEF BeginEmpty, BeginFill, data, Streaming, TurnsOK
  <2> QED BY <2>1 DEF NoInputOK, HasInput
<1>2. CASE WriteEmpty \/ WriteFill \/ CountEmpty \/ CountFill \/ Deinit \/ Select \/ UNCHANGED vars
  <2>1. /\ UNCHANGED <<curState, inQ, cur, queues, client>>
        /\ thread' = thread \/ (thread = "select" /\ thread' \notin {"drain", "return"})
    BY <1>2 DEF WriteEmpty, WriteFill, CountEmpty, CountFill, Deinit, Select, Selected, vars, data
  <2> QED BY <2>1 DEF NoInputOK, HasInput
<1>3. CASE \E c \in Requests : SendCommand(c)
  <2>1. /\ UNCHANGED <<thread, inQ, cur, queues, client>>
        /\ curState' = curState \/ (curState = "Loaded" /\ curState' = "Invalid")
    BY <1>3 DEF SendCommand, data
  <2> QED BY <2>1 DEF NoInputOK, HasInput
<1>4. CASE HandleDataBuf
  <2>1. /\ thread = "data" /\ thread' \in {"select", "exited"} /\ dataPipe # <<>>
        /\ UNCHANGED <<curState, queues>>
        /\ curState # "Executing" => UNCHANGED <<inQ, outQ, cur>>
    BY <1>4, DataBufFacts
  <2>2. client # Buffers
    BY <2>1, NothingWaits
  <2> QED BY <2>1, <2>2 DEF NoInputOK, HasInput
<1>5. ASSUME NEW c \in Requests,
             ChangeState(c) \/ ToLoaded(c) \/ ToInvalid(c) \/ StartReturning(c) \/ NoTransition(c)
      PROVE  NoInputOK'
  <2>1. client' = client /\ thread = "command"
    BY <1>5 DEF ChangeState, ToLoaded, ToInvalid, StartReturning, NoTransition, TakeCommand
  <2>2. CASE ChangeState(c) \/ NoTransition(c)
    <3>1. /\ UNCHANGED <<inQ, cur, queues>> /\ thread' = "select"
          /\ \/ curState' = curState
             \/ curState \in {"Loaded", "WaitForResources"}
                /\ curState' \in {"Loaded", "WaitForResources", "Idle"}
             \/ curState' = "Executing"
      BY <2>2 DEF ChangeState, NoTransition, AtOnce, Done, data
    <3> QED BY <2>1, <3>1 DEF NoInputOK, HasInput
  <2>3. CASE ToLoaded(c) \/ ToInvalid(c)
    <3>1. /\ inQ' = <<>> /\ cur' = None /\ queues' = FALSE
          /\ \/ curState' = "Loaded" /\ thread' = "exited"
             \/ curState' = "Invalid" /\ thread' = "select"
      BY <2>3 DEF ToLoaded, ToInvalid, Done
    <3> QED BY <3>1 DEF NoInputOK, HasInput
  <2>4. CASE StartReturning(c)
    <3>1. UNCHANGED <<curState, inQ, cur, queues>> /\ thread' = IF queues THEN "drain" ELSE "crashed"
      BY <2>4 DEF StartReturning, data
    <3> QED BY <2>1, <3>1 DEF NoInputOK, HasInput
  <2> QED BY <1>5, <2>2, <2>3, <2>4
<1>6. CASE DrainOne
  <2>1. UNCHANGED <<curState, thread, cur, queues, client>> /\ thread = "drain" /\ dataPipe # <<>>
    BY <1>6 DEF DrainOne
  <2>2. client # Buffers
    BY <2>1, NothingWaits
  <2> QED BY <2>1, <2>2 DEF NoInputOK, HasInput
<1>7. CASE ReturnNextInput \/ ReturnNextOutput
  <2>1. /\ UNCHANGED <<curState, thread, queues>> /\ thread = "return"
        /\ HasInput \/ (outQ # <<>> /\ UNCHANGED <<inQ, cur>>)
    BY <1>7 DEF ReturnNextInput, ReturnNextOutput, OwedIn, OwedOut, Returning, HasInput
  <2>2. outQ # <<>> => client # Buffers
    BY NothingWaits
  <2> QED BY <2>1, <2>2 DEF NoInputOK, HasInput
<1>8. CASE DrainEnds \/ Complete
  <2>1. /\ UNCHANGED <<inQ, cur, queues, client>> /\ thread \in {"drain", "return"}
        /\ thread' \in {"return", "select"}
        /\ curState' = curState \/ curState' = "Idle"
    BY <1>8 DEF DrainEnds, Complete, Done, data
  <2> QED BY <2>1 DEF NoInputOK, HasInput
<1> QED BY <1>1, <1>2, <1>3, <1>4, <1>5, <1>6, <1>7, <1>8, Zenon
        DEF Next, ComponentThread, HandleCommand

(* Input that has been decoded and given back with EOS.                    *)
LEMMA EosDecoded ==
  ASSUME FramesOK, NEW b \in InBuffers, content[b].n \in EosFrames, content' = content,
         Contains(decoded', content[b].n), b \in client'
  PROVE  EosBack'
<1>1. content[b].n # 0
  BY AudioDecoderAssumption DEF AudioDecoderAssumption
<1>2. \A c \in InBuffers : content'[c].n = content[b].n => c \in client'
  BY <1>1 DEF FramesOK
<1>3. BackWith(content[b].n)'
  BY <1>2 DEF BackWith
<1> QED BY <1>3 DEF EosBack

(* Steps that leave the input where it is.                                 *)
LEMMA EosKept ==
  ASSUME EosOK, EosBack => EosBack', UNCHANGED <<flagged, sendAfterEOS, inQ, cur>>,
         HasInput => content'[Newest] = content[Newest],
         cur # None => content'[cur] = content[cur],
         thread' \in {"select", "data", "command"} => thread \in {"select", "data", "command"}
  PROVE  EosOK'
<1>1. HasInput' = HasInput /\ Newest' = Newest
  BY DEF HasInput, Newest
<1> QED BY <1>1 DEF EosOK

(* The calls leave the input that the component has alone.                 *)
LEMMA CallsEos ==
  ASSUME IInv, OwnersOK, EosOK, EosBack => EosBack',
         \/ \E b \in InBuffers, f \in Frames : BeginEmpty(b, f)
         \/ \E b \in OutBuffers : BeginFill(b)
         \/ WriteEmpty \/ WriteFill \/ CountEmpty \/ CountFill
  PROVE  EosOK'
<1>1. UNCHANGED <<thread, flagged, sendAfterEOS, inQ, cur>>
  BY DEF BeginEmpty, BeginFill, WriteEmpty, WriteFill, CountEmpty, CountFill, data, history
<1>2. \/ content' = content
      \/ \E b \in client : \A c \in InBuffers : c # b => content'[c] = content[c]
  BY DEF BeginEmpty, BeginFill, WriteEmpty, WriteFill, CountEmpty, CountFill, calls, IInv, ClientOK
<1>3. HasInput => Newest \in InBuffers \ client
  <2>1. inQ \in Seq(InBuffers)
    BY DEF IInv, QueuesOK
  <2>2. inQ # <<>> => Last(inQ) \in ToSet(inQ)
    <3>1. inQ # <<>> => Len(inQ) \in DOMAIN inQ
      BY <2>1, EmptySeq, LenProperties
    <3> QED BY <3>1 DEF Last, ToSet
  <2> QED BY <2>2, PlaceTypes DEF HasInput, Newest, OwnersOK
<1>4. cur # None => cur \in InBuffers \ client
  BY PlaceTypes DEF OwnersOK
<1> QED BY <1>1, <1>2, <1>3, <1>4, EosKept

(* The newest of the input that is left when the first is taken.           *)
LEMMA NewestFacts ==
  ASSUME IInv, HasInput
  PROVE  /\ InQAfter # <<>> => inQ # <<>> /\ Last(InQAfter) = Last(inQ)
         /\ InQAfter = <<>> => Newest = Source
         /\ cur # None => Source = cur
<1>1. inQ \in Seq(InBuffers) /\ (cur = None => inQ # <<>>)
  BY DEF HasInput, IInv, QueuesOK
<1>2. CASE cur # None
  BY <1>2 DEF InQAfter, Newest, Source
<1>3. CASE cur = None
  <2>1. Tail(inQ) # <<>> => Last(Tail(inQ)) = Last(inQ)
    BY <1>1, <1>3, LastFacts
  <2>2. Tail(inQ) = <<>> => Last(inQ) = Head(inQ)
    <3>1. Len(Tail(inQ)) = Len(inQ) - 1 /\ Len(inQ) \in Nat \ {0} /\ Head(inQ) = inQ[1]
      BY <1>1, <1>3, HeadTailProperties, EmptySeq
    <3>2. Tail(inQ) = <<>> => Len(inQ) = 1
      BY <3>1, EmptySeq
    <3> QED BY <3>1, <3>2 DEF Last
  <2> QED BY <1>1, <1>3, <2>1, <2>2 DEF InQAfter, Newest, Source
<1> QED BY <1>2, <1>3

(* An input buffer that is decoded at once.                                *)
LEMMA DecodeInputEos ==
  ASSUME IInv, FramesOK, EosOK, EosBack => EosBack', NEW b \in Buffers, DecodeInput(b)
  PROVE  EosOK'
<1>1. /\ b \in InBuffers /\ content' = content /\ inQ' = inQ
      /\ sendAfterEOS' = (content[b].n \in EosFrames)
  BY OpenedFacts DEF DecodeInput, Take, calls, Opened, Accepted, IsEos
<1>2. /\ Contains(decoded', content[b].n)
      /\ \/ cur' = None /\ b \in client' /\ flagged' = (flagged \/ sendAfterEOS')
         \/ cur' = b /\ flagged' = flagged
  <2>1. PICK o, from, steps : DecodeStep(b, o, from, steps, TRUE)
    BY Zenon DEF DecodeInput
  <2> QED BY <1>1, <2>1, DecodeStepEos
<1>3. sendAfterEOS' /\ cur' = None => EosBack'
  BY <1>1, <1>2, EosDecoded, PlaceTypes
<1>4. flagged' => EosBack'
  BY <1>2, <1>3 DEF EosOK
<1>5. sendAfterEOS' => (cur' # None /\ content'[cur'].n \in EosFrames) \/ EosBack'
  BY <1>1, <1>2, <1>3, PlaceTypes
<1> QED BY <1>4, <1>5 DEF EosOK

(* An output buffer, filled from the input that comes first.               *)
LEMMA DecodeOutputEos ==
  ASSUME IInv, FramesOK, EosOK, EosBack => EosBack', NEW o \in Buffers, DecodeOutput(o)
  PROVE  EosOK'
<1>1. /\ content' = content /\ inQ' = InQAfter /\ sendAfterEOS' = sendAfterEOS /\ HasInput
      /\ thread = "data" /\ sendAfterEOS \in BOOLEAN /\ flagged \in BOOLEAN
  BY DEF DecodeOutput, Take, calls, IInv, QueuesOK, HistoryOK
<1>2. Source \in InBuffers /\ Source # None
  BY <1>1, SourceFacts, PlaceTypes DEF HasInput
<1>3. /\ Contains(decoded', content[Source].n)
      /\ \/ cur' = None /\ Source \in client' /\ flagged' = (flagged \/ (sendAfterEOS' /\ inQ' = <<>>))
         \/ cur' = Source /\ flagged' = flagged
  <2>1. PICK from, steps : DecodeStep(Source, o, from, steps, NothingQueued(inQ'))
    BY Zenon DEF DecodeOutput
  <2> QED BY <1>2, <2>1, DecodeStepEos DEF NothingQueued
<1>4. cur' = None /\ content[Source].n \in EosFrames => EosBack'
  BY <1>1, <1>2, <1>3, EosDecoded
<1>5. sendAfterEOS => \/ content[Newest].n \in EosFrames
                      \/ content[Source].n \in EosFrames
                      \/ EosBack'
  BY <1>1, NewestFacts DEF EosOK
<1>6. flagged' => EosBack'
  BY <1>1, <1>3, <1>4, <1>5, NewestFacts DEF EosOK
<1>7. ASSUME sendAfterEOS', HasInput'
      PROVE  \/ content'[Newest'].n \in EosFrames
             \/ cur' # None /\ content'[cur'].n \in EosFrames
             \/ EosBack'
  <2>1. inQ' # <<>> => Newest' = Last(inQ') /\ Newest = Last(inQ) /\ Last(inQ') = Last(inQ)
    BY <1>1, NewestFacts DEF Newest
  <2>2. inQ' = <<>> => Newest = Source /\ cur' = Source
    BY <1>1, <1>3, <1>7, NewestFacts DEF HasInput
  <2>3. CASE content[Newest].n \in EosFrames
    BY <1>1, <1>2, <2>1, <2>2, <2>3
  <2>4. CASE content[Source].n \in EosFrames
    BY <1>1, <1>2, <1>3, <1>4, <2>4
  <2> QED BY <1>1, <1>5, <1>7, <2>3, <2>4
<1> QED BY <1>6, <1>7 DEF EosOK

(* The buffers taken from the data pipe.                                   *)
LEMMA HandleDataBufEos ==
  ASSUME IInv, TurnsOK, FramesOK, NoInputOK, EosOK, EosBack => EosBack', HandleDataBuf
  PROVE  EosOK'
<1>1. PICK b \in Buffers :
        \/ ReturnInput(b) \/ TakeConfig(b) \/ OpenFails(b) \/ DecodeInput(b) \/ DecodeInputFails(b)
        \/ QueueInput(b) \/ ForgetInput(b)
        \/ ReturnOutput(b) \/ DecodeOutput(b) \/ DecodeOutputFails(b) \/ QueueOutput(b)
        \/ ForgetOutput(b)
  BY Zenon DEF HandleDataBuf
<1>2. thread = "data"
  BY DataBufFacts
<1>3. content' = content
  BY <1>1 DEF ReturnInput, TakeConfig, OpenFails, DecodeInput, DecodeInputFails, QueueInput,
     ForgetInput, ReturnOutput, DecodeOutput, DecodeOutputFails, QueueOutput, ForgetOutput,
     Take, calls
<1>4. CASE ReturnInput(b) \/ ReturnOutput(b) \/ QueueOutput(b) \/ ForgetOutput(b)
  <2>1. UNCHANGED <<flagged, sendAfterEOS, inQ, cur>>
    BY <1>4 DEF ReturnInput, ReturnOutput, QueueOutput, ForgetOutput, data, history
  <2> QED BY <1>2, <1>3, <2>1, EosKept
<1>5. CASE OpenFails(b) \/ DecodeInputFails(b) \/ DecodeOutputFails(b)
  <2>1. flagged' = flagged /\ thread' = "exited"
    BY <1>5 DEF OpenFails, DecodeInputFails, DecodeOutputFails, history
  <2> QED BY <2>1 DEF EosOK
<1>6. CASE TakeConfig(b)
  <2>1. flagged' = flagged /\ sendAfterEOS' = (content[b].n \in EosFrames) /\ b \in InBuffers
        /\ content[b].kind = "config"
    BY <1>6 DEF TakeConfig, Accepted, IsEos, IsConfig
  <2>2. ~sendAfterEOS'
    BY <2>1 DEF FramesOK
  <2> QED BY <2>1, <2>2 DEF EosOK
<1>7. CASE ForgetInput(b)
  <2>1. UNCHANGED <<flagged, inQ, cur>> /\ curState \notin {"Idle", "Executing"}
    BY <1>7 DEF ForgetInput, Opened, Accepted, history
  <2>2. curState \in {"Loaded", "WaitForResources", "Invalid"}
    BY <2>1 DEF TurnsOK, IInv, ControlOK, States
  <2>3. ~HasInput'
    BY <2>1, <2>2 DEF NoInputOK, HasInput
  <2> QED BY <2>1, <2>3 DEF EosOK
<1>8. CASE QueueInput(b)
  <2>1. /\ flagged' = flagged /\ sendAfterEOS' = (content[b].n \in EosFrames)
        /\ b \in InBuffers /\ inQ' = Append(inQ, b) /\ inQ \in Seq(InBuffers)
    BY <1>8 DEF QueueInput, Opened, Accepted, IsEos, Put, history, IInv, QueuesOK
  <2>2. inQ' # <<>> /\ Last(inQ') = b
    BY <2>1, LastFacts, AppendProperties
  <2>3. Newest' = b
    BY <2>2 DEF Newest
  <2> QED BY <1>3, <2>1, <2>3 DEF EosOK
<1> QED BY <1>1, <1>4, <1>5, <1>6, <1>7, <1>8, DecodeInputEos, DecodeOutputEos

(* A command returns the input it finds, unless it is for the output port  *)
(* alone.                                                                  *)
LEMMA HandleCommandEos ==
  ASSUME FlushesInput, IInv, TurnsOK, EosOK, EosBack => EosBack', HandleCommand
  PROVE  EosOK'
<1>1. UNCHANGED <<content, flagged, sendAfterEOS>>
  BY DEF HandleCommand, ChangeState, ToLoaded, ToInvalid, StartReturning, NoTransition,
     TakeCommand, DrainOne, DrainEnds, ReturnNextInput, ReturnNextOutput, Complete, calls, history, data
<1>2. CASE \E c \in Requests : ChangeState(c) \/ StartReturning(c) \/ NoTransition(c)
  <2>1. UNCHANGED <<inQ, cur>> /\ thread = "command"
    BY <1>2 DEF ChangeState, StartReturning, NoTransition, TakeCommand, data
  <2> QED BY <1>1, <2>1, EosKept
<1>3. CASE \E c \in Requests : ToLoaded(c) \/ ToInvalid(c)
  <2>1. ~HasInput'
    BY <1>3 DEF ToLoaded, ToInvalid, HasInput
  <2> QED BY <1>1, <2>1 DEF EosOK
<1>4. CASE DrainOne \/ DrainEnds \/ ReturnNextInput \/ ReturnNextOutput
  <2>1. thread' \in {"drain", "return"}
    BY <1>4 DEF DrainOne, DrainEnds, ReturnNextInput, ReturnNextOutput, OwedIn, OwedOut, Returning
  <2> QED BY <1>1, <2>1 DEF EosOK
<1>5. CASE Complete
  <2>1. command \in Requests /\ command # Flush({"out"}) /\ command \in Commands
    BY <1>5, AudioDecoderAssumption DEF Complete, TurnsOK, FlushesInput, AudioDecoderAssumption
  <2>2. "in" \in PortsReturned(command)
    <3>1. CASE command.op = "Flush"
      <4>1. PICK ps \in (SUBSET Ports) \ {{}} : command = Flush(ps)
        BY <2>1, <3>1 DEF Commands, StateSet
      <4>2. ps # {"out"}
        BY <2>1, <4>1
      <4>3. "in" \in ps
        BY <4>2 DEF Ports
      <4> QED BY <3>1, <4>1, <4>3 DEF PortsReturned, Flush
    <3>2. CASE command.op # "Flush"
      BY <3>2 DEF PortsReturned, Ports
    <3> QED BY <3>1, <3>2
  <2>3. ~HasInput'
    BY <1>5, <2>2 DEF Complete, OwedIn, Returning, HasInput, data
  <2> QED BY <1>1, <2>3 DEF EosOK
<1> QED BY <1>2, <1>3, <1>4, <1>5, Zenon DEF HandleCommand

(* Every step keeps the EOS with its frame.                                *)
LEMMA NextEos ==
  ASSUME FlushesInput, IInv, OwnersOK, TurnsOK, FramesOK, NoInputOK, EosOK, [Next]_vars
  PROVE  EosOK'
<1>1. EosBack => EosBack'
  BY BackStays
<1>2. CASE Deinit \/ Select \/ UNCHANGED vars \/ \E c \in Requests : SendCommand(c)
  <2>1. /\ UNCHANGED <<flagged, sendAfterEOS, inQ, cur, content>>
        /\ thread' = thread \/ thread = "select"
    BY <1>2 DEF Deinit, Select, SendCommand, vars, data, calls, history
  <2> QED BY <1>1, <2>1, EosKept
<1> QED BY <1>1, <1>2, CallsEos, HandleDataBufEos, HandleCommandEos, Zenon DEF Next, ComponentThread

(* Where the EOS is that the component still has to pass on.               *)
THEOREM EosIsPending ==
  FlushesInput /\ Spec => [](FramesOK /\ NoInputOK /\ EosOK)
<1>1. Init => FramesOK /\ NoInputOK /\ EosOK
  <2> SUFFICES ASSUME Init PROVE FramesOK /\ NoInputOK /\ EosOK
    OBVIOUS
  <2>1. /\ curState = "Loaded" /\ thread = "select" /\ cur = None /\ inQ = <<>> /\ client = Buffers
        /\ content = [b \in InBuffers |-> NoFrame] /\ decoded = <<>>
    BY Zenon DEF Init
  <2>2. ~flagged
    BY Zenon DEF Init
  <2>3. ~HasInput
    BY <2>1 DEF HasInput
  <2>4. \A b \in InBuffers : content[b].n = 0 /\ content[b].kind = "data"
    BY <2>1 DEF NoFrame
  <2>5. FramesOK
    BY <2>1, <2>4 DEF FramesOK, Buffers
  <2> QED BY <2>1, <2>2, <2>3, <2>5 DEF NoInputOK, EosOK
<1>2. ASSUME FlushesInput PROVE Spec => [](FramesOK /\ NoInputOK /\ EosOK)
  <2>1. IInv /\ OwnersOK /\ OrderOK /\ TurnsOK /\ FramesOK /\ NoInputOK /\ EosOK /\ [Next]_vars
          => FramesOK' /\ NoInputOK' /\ EosOK'
    BY <1>2, NextFrames, NextNoInput, NextEos
  <2> QED BY Invariance, Ownership, Order, Turns, <1>1, <2>1, PTL DEF Spec
<1> QED BY <1>2

(* EOS is put on an output buffer only behind the frame that carried it,   *)
(* as long as the output port is never flushed alone.                      *)
THEOREM EosAfterItsFrameCorrect == FlushesInput /\ Spec => []EosAfterItsFrame
<1>1. IInv /\ OwnersOK /\ EosOK => EosAfterItsFrame
  <2> SUFFICES ASSUME IInv, OwnersOK, EosOK, flagged
               PROVE  \E n \in EosFrames : Contains(decoded, n) /\ (cur # None => content[cur].n # n)
    BY DEF EosAfterItsFrame
  <2>1. PICK n \in EosFrames : BackWith(n)
    BY DEF EosOK, EosBack
  <2>2. cur # None => cur \in InBuffers /\ cur \notin client
    BY PlaceTypes DEF OwnersOK
  <2> QED BY <2>1, <2>2 DEF BackWith
<1> QED BY Invariance, Ownership, EosIsPending, <1>1, PTL
=============================================================================
