---------------------------- MODULE AudioDecoder ----------------------------
(***************************************************************************)
(* The OMX IL audio decoder component (nuaudio_dec): an IL client, whose   *)
(* calls execute in its own threads and write into pipes, and the          *)
(* component thread, which serves the data pipe before the command pipe,   *)
(* pairs input with output buffers, decodes, and calls back.  Pipes carry  *)
(* buffers in order and never fill up here.  The ports stay enabled and    *)
(* populated; marks, timestamps and the audio itself are left out.         *)
(***************************************************************************)
EXTENDS Integers, Sequences, SequencesExt

CONSTANTS
  InBuffers, OutBuffers,  \* the buffer headers of the two ports
  Requests,               \* the commands the client may send
  Kinds,                  \* of input: "data", "seek", "config"
  MaxLen,                 \* bound: decoding steps one input buffer is good for
  MaxFrames,              \* bound: input buffers submitted in a behaviour
  EosFrames,              \* the frames that carry OMX_BUFFERFLAG_EOS
  MaxCommands,            \* bound: commands sent in a behaviour
  Careful,                \* does the client make one call at a time, and wait
                          \* for a command before it sends another?
  CodecFails,             \* may avcodec_open or a decoding step fail?
  Deinits,                \* does the client destroy the component?
  None

Buffers == InBuffers \cup OutBuffers
Ports == {"in", "out"}
States == {"Loaded", "Idle", "Executing", "Pause", "WaitForResources", "Invalid"}

StateSet(s) == [op |-> "StateSet", to |-> s, on |-> {}]
Flush(ps)   == [op |-> "Flush", to |-> "Loaded", on |-> ps]
Commands == {StateSet(s) : s \in States} \cup {Flush(ps) : ps \in (SUBSET Ports) \ {{}}}

\* What the client put into an input buffer: the n-th, and its nFilledLen.
Frames == [n : 0..MaxFrames, len : 0..MaxLen, kind : Kinds \cup {"data"}]
NoFrame == [n |-> 0, len |-> 0, kind |-> "data"]

\* A call in progress: has it written its buffer into the pipe?
CallsOn(buffers) == [buffer : buffers, written : BOOLEAN]

ASSUME AudioDecoderAssumption ==
  /\ InBuffers \cap OutBuffers = {}
  /\ None \notin Buffers \cup Commands \cup CallsOn(Buffers)
  /\ Requests \subseteq Commands
  /\ Kinds \subseteq {"data", "seek", "config"}
  /\ MaxLen \in Nat \ {0} /\ MaxFrames \in Nat /\ MaxCommands \in Nat
  /\ EosFrames \subseteq 1..MaxFrames
  /\ {Careful, CodecFails, Deinits} \subseteq BOOLEAN

VARIABLES
  curState,
  thread,      \* where the component thread is
  command,     \* the command it handles, or None
  cmdPipe, dataPipe,
  inQ, outQ,   \* spInputBufQ, spOutputBufQ
  cur,         \* spInputBufQ->pCurBufHeader; BufFlag says that there is one
  offset,      \* spInputBufQ->Offset
  queues,      \* the two queues exist
  firstBuff, sendAfterEOS,
  outstanding, \* nUnhandledEmpty... + nUnhandledFill... - nHandled... - nHandled...
  exit,        \* bExitCompThrd
  content,     \* of each input buffer, its frame
  emptying, filling,  \* the client's EmptyThisBuffer and FillThisBuffer
  client,      \* the buffers the client may use
  fed, sent,   \* frames submitted, commands sent
  before,      \* history: what a command that returns buffers still has to return
  decoded,     \* history: the frames in the order their decoding began
  flagged      \* history: an output buffer with OMX_BUFFERFLAG_EOS was emitted

data    == <<inQ, outQ, cur, offset, queues, firstBuff, sendAfterEOS>>
calls   == <<emptying, filling, content, fed>>
history == <<before, decoded, flagged>>
vars    == <<curState, thread, command, cmdPipe, dataPipe, data, outstanding, exit, calls,
             client, sent, history>>

Init ==
  /\ curState = "Loaded" /\ thread = "select" /\ command = None
  /\ cmdPipe = <<>> /\ dataPipe = <<>> /\ inQ = <<>> /\ outQ = <<>>
  /\ cur = None /\ offset = 0 /\ queues = TRUE
  /\ firstBuff = 0 /\ sendAfterEOS = FALSE /\ outstanding = 0 /\ exit = FALSE
  /\ content = [b \in InBuffers |-> NoFrame]
  /\ emptying = None /\ filling = None /\ client = Buffers
  /\ fed = 0 /\ sent = 0
  /\ before = {} /\ decoded = <<>> /\ flagged = FALSE

-----------------------------------------------------------------------------
(* The client's calls.                                                     *)
Gone == thread \in {"exited", "crashed"}
Busy == cmdPipe # <<>> \/ command # None

OutOfCalls == Careful => emptying = None /\ filling = None
MayCommand == OutOfCalls /\ (Careful => ~Busy)

Streaming == curState \in {"Executing", "Pause"}

\* EmptyThisBuffer and FillThisBuffer check the state, write, then count.
BeginEmpty(b, f) ==
  /\ ~exit /\ OutOfCalls /\ emptying = None
  /\ b \in client /\ Streaming /\ fed < MaxFrames
  /\ f.n = fed + 1 /\ (f.kind # "data" => f.len > 0 /\ f.n \notin EosFrames)
  /\ fed' = f.n
  /\ content' = [content EXCEPT ![b] = f]
  /\ emptying' = [buffer |-> b, written |-> FALSE]
  /\ client' = client \ {b}
  /\ UNCHANGED <<curState, thread, command, cmdPipe, dataPipe, data, outstanding, exit, filling,
                 sent, history>>

BeginFill(b) ==
  /\ ~exit /\ OutOfCalls /\ filling = None
  /\ b \in client /\ Streaming
  /\ filling' = [buffer |-> b, written |-> FALSE]
  /\ client' = client \ {b}
  /\ UNCHANGED <<curState, thread, command, cmdPipe, dataPipe, data, outstanding, exit, emptying,
                 content, fed, sent, history>>

Written(call) == [buffer |-> call.buffer, written |-> TRUE]

WriteEmpty ==
  /\ emptying # None /\ ~emptying.written
  /\ dataPipe' = Append(dataPipe, emptying.buffer)
  /\ emptying' = Written(emptying)
  /\ UNCHANGED <<curState, thread, command, cmdPipe, data, outstanding, exit, filling, content,
                 fed, client, sent, history>>

WriteFill ==
  /\ filling # None /\ ~filling.written
  /\ dataPipe' = Append(dataPipe, filling.buffer)
  /\ filling' = Written(filling)
  /\ UNCHANGED <<curState, thread, command, cmdPipe, data, outstanding, exit, emptying, content,
                 fed, client, sent, history>>

CountEmpty ==
  /\ emptying # None /\ emptying.written
  /\ outstanding' = outstanding + 1
  /\ emptying' = None
  /\ UNCHANGED <<curState, thread, command, cmdPipe, dataPipe, data, exit, filling, content, fed,
                 client, sent, history>>

CountFill ==
  /\ filling # None /\ filling.written
  /\ outstanding' = outstanding + 1
  /\ filling' = None
  /\ UNCHANGED <<curState, thread, command, cmdPipe, dataPipe, data, exit, emptying, content, fed,
                 client, sent, history>>

\* What the component holds of the ports, the calls in progress apart.
Held(ps) ==
  {b \in Buffers \ client :
     /\ b \in InBuffers => "in" \in ps
     /\ b \in OutBuffers => "out" \in ps
     /\ emptying # None => b # emptying.buffer
     /\ filling # None => b # filling.buffer}

\* mutant: a stack instead of a queue
PutFirst(q, b) == <<b>> \o q

\* OMX_Buf_Q_Put.
Put(q, b) == Append(q, b)

PortsReturned(c) == IF c.op = "Flush" THEN c.on ELSE Ports
Stops(c) == c = StateSet("Idle") /\ curState = "Executing"

\* mutant: an invalid component goes on taking commands
InAnyState == TRUE

Usable == curState # "Invalid"

\* Both writes of SendCommand; OMX_StateInvalid is not queued in Loaded, and
\* Executing and Pause are refused there.
SendCommand(c) ==
  /\ ~exit /\ MayCommand /\ sent < MaxCommands
  /\ Usable
  /\ curState = "Loaded" /\ c.op = "StateSet" => c.to \notin {"Executing", "Pause"}
  /\ sent' = sent + 1
  /\ IF curState = "Loaded" /\ c = StateSet("Invalid")
     THEN curState' = "Invalid" /\ UNCHANGED cmdPipe
     ELSE cmdPipe' = Append(cmdPipe, c) /\ UNCHANGED curState
  /\ before' = IF c.op = "Flush" \/ Stops(c) THEN before \cup Held(PortsReturned(c)) ELSE before
  /\ UNCHANGED <<thread, command, dataPipe, data, outstanding, exit, calls, client, decoded,
                 flagged>>

\* ComponentDeInit, which then joins the thread.
Deinit ==
  /\ Deinits /\ ~exit /\ OutOfCalls
  /\ exit' = TRUE
  /\ UNCHANGED <<curState, thread, command, cmdPipe, dataPipe, data, outstanding, calls, client,
                 sent, history>>

-----------------------------------------------------------------------------
(* NUAUDIODEC_ComponentThread: what pselect reported decides the turn.     *)
\* mutant: the command pipe is served first
CommandsFirst ==
  IF exit THEN "exited" ELSE IF cmdPipe # <<>> THEN "command" ELSE "data"

\* mutant: bExitCompThrd is not looked at
ExitUnseen ==
  IF dataPipe # <<>> THEN "data" ELSE IF cmdPipe # <<>> THEN "command" ELSE "select"

Selected == IF exit THEN "exited" ELSE IF dataPipe # <<>> THEN "data" ELSE "command"

Select ==
  /\ thread = "select"
  /\ exit \/ dataPipe # <<>> \/ cmdPipe # <<>>
  /\ thread' = Selected
  /\ UNCHANGED <<curState, command, cmdPipe, dataPipe, data, outstanding, exit, calls, client,
                 sent, history>>

(* NUAUDIODEC_HandleDataBuf_FromApp.                                       *)
\* mutant: without nHandled...++
TakeUncounted(b) ==
  /\ thread = "data" /\ b = Head(dataPipe)
  /\ dataPipe' = Tail(dataPipe)
  /\ UNCHANGED <<curState, command, cmdPipe, outstanding, exit, calls, sent>>

Take(b) ==
  /\ thread = "data" /\ b = Head(dataPipe)
  /\ dataPipe' = Tail(dataPipe)
  /\ outstanding' = outstanding - 1
  /\ UNCHANGED <<curState, command, cmdPipe, exit, calls, sent>>

GiveBack(bs) == client' = client \cup bs /\ before' = before \ bs

Done == thread' = "select"

IsEos(b)  == content[b].n \in EosFrames
IsData(b) == content[b].len > 0 \/ IsEos(b)

\* In Idle every input buffer goes back, and an empty one in any state.
ReturnInput(b) ==
  /\ b \in InBuffers /\ Take(b) /\ Done
  /\ curState = "Idle" \/ ~IsData(b)
  /\ GiveBack({b})
  /\ UNCHANGED <<data, decoded, flagged>>

Accepted(b) == b \in InBuffers /\ curState # "Idle" /\ IsData(b) /\ sendAfterEOS' = IsEos(b)

IsConfig(b) == firstBuff = 0 /\ content[b].kind = "config"

\* The codec's extra data, in the first buffer.
TakeConfig(b) ==
  /\ Accepted(b) /\ Take(b) /\ Done
  /\ IsConfig(b) /\ firstBuff' = 1
  /\ GiveBack({b})
  /\ UNCHANGED <<inQ, outQ, cur, offset, queues, decoded, flagged>>

\* The codec is opened for the first buffer of data.
OpenFails(b) ==
  /\ CodecFails
  /\ Accepted(b) /\ Take(b)
  /\ firstBuff < 2 /\ ~IsConfig(b) /\ firstBuff' = 1
  /\ GiveBack({b})
  /\ thread' = "exited"
  /\ UNCHANGED <<inQ, outQ, cur, offset, queues, decoded, flagged>>

Opened(b) == Accepted(b) /\ ~IsConfig(b) /\ firstBuff' = 2

\* A decoding step takes what the codec says of what is left, which may be nothing;
\* one that fails takes all of it if the codec opens again.
Steps(left) == 0..left

\* Input b, decoded up to from, fills o; last: nothing must follow EOS.
DecodeStep(b, o, from, steps, last) ==
  \E n \in steps :
    LET emptied == from + n = content[b].len IN
    /\ cur' = IF emptied THEN None ELSE b
    /\ offset' = IF emptied THEN 0 ELSE from + n
    /\ GiveBack(IF emptied THEN {b, o} ELSE {o})
    /\ decoded' = IF decoded # <<>> /\ Last(decoded) = content[b].n THEN decoded
                  ELSE Append(decoded, content[b].n)
    /\ flagged' = (flagged \/ (sendAfterEOS' /\ last /\ emptied))

\* mutant: all input waits
NeverAtOnce == FALSE

MayDecodeAtOnce == outQ # <<>> /\ cur = None

DecodeInput(b) ==
  /\ Take(b) /\ Done
  /\ Opened(b) /\ curState = "Executing"
  /\ MayDecodeAtOnce
  /\ LET f == content[b] IN
     DecodeStep(b, Head(outQ), 0, IF f.kind = "seek" THEN {f.len} ELSE Steps(f.len), TRUE)
  /\ outQ' = Tail(outQ)
  /\ UNCHANGED <<inQ, queues>>

\* A step fails and the codec does not open again: the thread ends and keeps both.
DecodeInputFails(b) ==
  /\ CodecFails
  /\ Take(b) /\ thread' = "exited"
  /\ Opened(b) /\ curState = "Executing"
  /\ MayDecodeAtOnce /\ content[b].kind # "seek"
  /\ cur' = b /\ offset' = 0
  /\ outQ' = Tail(outQ)
  /\ UNCHANGED <<inQ, queues, client, history>>

QueueInput(b) ==
  /\ Take(b) /\ Done
  /\ Opened(b) /\ curState = "Executing"
  /\ ~MayDecodeAtOnce
  /\ inQ' = Put(inQ, b)
  /\ UNCHANGED <<outQ, cur, offset, queues, client, history>>

\* In the other states the buffer is forgotten.
ForgetInput(b) ==
  /\ Take(b) /\ Done
  /\ Opened(b) /\ curState # "Executing"
  /\ UNCHANGED <<inQ, outQ, cur, offset, queues, client, history>>

ReturnOutput(o) ==
  /\ o \in OutBuffers /\ Take(o) /\ Done
  /\ curState = "Idle"
  /\ GiveBack({o})
  /\ UNCHANGED <<data, decoded, flagged>>

\* The input an output buffer is filled from: the current one, else the first queued.
Source == IF cur # None THEN cur ELSE Head(inQ)
HasInput == cur # None \/ inQ # <<>>

\* mutant: a Get that does not unlink
StaysQueued == inQ

InQAfter == IF cur # None THEN inQ ELSE Tail(inQ)

\* mutant: EOS is put on an output buffer while input is queued
EvenIfQueued(q) == TRUE

NothingQueued(q) == q = <<>>

DecodeOutput(o) ==
  /\ o \in OutBuffers /\ Take(o) /\ Done
  /\ curState = "Executing" /\ HasInput
  /\ inQ' = InQAfter
  /\ sendAfterEOS' = sendAfterEOS
  /\ LET f == content[Source] IN
     DecodeStep(Source, o, offset, IF f.kind = "seek" THEN {0} ELSE Steps(f.len - offset),
                NothingQueued(inQ'))
  /\ UNCHANGED <<outQ, queues, firstBuff>>

DecodeOutputFails(o) ==
  /\ CodecFails
  /\ o \in OutBuffers /\ Take(o) /\ thread' = "exited"
  /\ curState = "Executing" /\ HasInput /\ content[Source].kind # "seek"
  /\ inQ' = InQAfter /\ cur' = Source
  /\ UNCHANGED <<outQ, offset, queues, firstBuff, sendAfterEOS, client, history>>

QueueOutput(o) ==
  /\ o \in OutBuffers /\ Take(o) /\ Done
  /\ curState = "Executing" /\ ~HasInput
  /\ outQ' = Put(outQ, o)
  /\ UNCHANGED <<inQ, cur, offset, queues, firstBuff, sendAfterEOS, client, history>>

ForgetOutput(o) ==
  /\ o \in OutBuffers /\ Take(o) /\ Done
  /\ curState \notin {"Idle", "Executing"}
  /\ UNCHANGED <<data, client, history>>

HandleDataBuf ==
  \E b \in Buffers :
    \/ ReturnInput(b) \/ TakeConfig(b) \/ OpenFails(b) \/ DecodeInput(b) \/ DecodeInputFails(b)
    \/ QueueInput(b) \/ ForgetInput(b)
    \/ ReturnOutput(b) \/ DecodeOutput(b) \/ DecodeOutputFails(b) \/ QueueOutput(b)
    \/ ForgetOutput(b)

-----------------------------------------------------------------------------
(* NUAUDIODEC_HandleCommand.  Nothing ever assigns OMX_StatePause to       *)
(* curState, so the transitions from Pause are left out.                   *)
TakeCommand(c) ==
  /\ thread = "command" /\ c = Head(cmdPipe)
  /\ cmdPipe' = Tail(cmdPipe)
  /\ UNCHANGED <<dataPipe, outstanding, exit, calls, client, sent, history>>

AtOnce == {<<"Loaded", "Idle">>, <<"WaitForResources", "Idle">>, <<"Idle", "Executing">>,
           <<"WaitForResources", "Loaded">>, <<"Loaded", "WaitForResources">>}

ChangeState(c) ==
  /\ TakeCommand(c) /\ Done
  /\ c.op = "StateSet" /\ <<curState, c.to>> \in AtOnce
  /\ curState' = c.to
  /\ UNCHANGED <<command, data>>

\* EXIT_COMPONENT_THRD: the thread frees the queues and ends.
ToLoaded(c) ==
  /\ TakeCommand(c) /\ thread' = "exited"
  /\ c = StateSet("Loaded") /\ curState = "Idle"
  /\ curState' = "Loaded"
  /\ queues' = FALSE /\ inQ' = <<>> /\ outQ' = <<>> /\ cur' = None /\ offset' = 0
  /\ UNCHANGED <<command, firstBuff, sendAfterEOS>>

ToInvalid(c) ==
  /\ TakeCommand(c) /\ Done
  /\ c = StateSet("Invalid") /\ curState # "Invalid"
  /\ curState' = "Invalid"
  /\ queues' = FALSE /\ inQ' = <<>> /\ outQ' = <<>> /\ cur' = None /\ offset' = 0
  /\ UNCHANGED <<command, firstBuff, sendAfterEOS>>

\* A flush that finds the queues freed follows a null pointer.
StartReturning(c) ==
  /\ TakeCommand(c)
  /\ c.op = "Flush" \/ Stops(c)
  /\ command' = c
  /\ thread' = IF queues THEN "drain" ELSE "crashed"
  /\ UNCHANGED <<curState, data>>

\* The same state, an illegal transition (an error event), or Pause from
\* Executing or Idle (no event at all).
NoTransition(c) ==
  /\ TakeCommand(c) /\ Done
  /\ c.op = "StateSet" /\ ~Stops(c)
  /\ c.to # "Invalid" \/ curState = "Invalid"
  /\ <<curState, c.to>> \notin AtOnce \cup {<<"Idle", "Loaded">>}
  /\ UNCHANGED <<curState, command, data>>

AllHandled == outstanding <= 0

\* One blocking read of the data pipe, while buffers counted are not handled.
DrainOne ==
  /\ thread = "drain" /\ ~AllHandled /\ dataPipe # <<>>
  /\ LET b == Head(dataPipe) IN
     /\ inQ' = IF b \in InBuffers THEN Put(inQ, b) ELSE inQ
     /\ outQ' = IF b \in OutBuffers THEN Put(outQ, b) ELSE outQ
  /\ dataPipe' = Tail(dataPipe)
  /\ outstanding' = outstanding - 1
  /\ UNCHANGED <<curState, thread, command, cmdPipe, cur, offset, queues, firstBuff,
                 sendAfterEOS, exit, calls, client, sent, history>>

DrainEnds ==
  /\ thread = "drain" /\ AllHandled
  /\ thread' = "return"
  /\ UNCHANGED <<curState, command, cmdPipe, dataPipe, data, outstanding, exit, calls, client,
                 sent, history>>

Returning(p) == thread = "return" /\ p \in PortsReturned(command)

\* mutant: the current buffer is forgotten
OwedQueued == Returning("in") /\ inQ # <<>>

OwedIn == Returning("in") /\ (cur # None \/ inQ # <<>>)

OwedOut == Returning("out") /\ outQ # <<>>

ReturnNextInput ==
  /\ OwedIn
  /\ GiveBack({Source}) /\ inQ' = InQAfter
  /\ cur' = None /\ offset' = 0
  /\ UNCHANGED <<curState, thread, command, cmdPipe, dataPipe, outQ, queues, firstBuff,
                 sendAfterEOS, outstanding, exit, calls, sent, decoded, flagged>>

ReturnNextOutput ==
  /\ ~OwedIn /\ OwedOut
  /\ GiveBack({Head(outQ)}) /\ outQ' = Tail(outQ)
  /\ UNCHANGED <<curState, thread, command, cmdPipe, dataPipe, inQ, cur, offset, queues,
                 firstBuff, sendAfterEOS, outstanding, exit, calls, sent, decoded, flagged>>

Complete ==
  /\ thread = "return" /\ ~OwedIn /\ ~OwedOut
  /\ curState' = IF command.op = "StateSet" THEN "Idle" ELSE curState
  /\ command' = None /\ Done
  /\ UNCHANGED <<cmdPipe, dataPipe, data, outstanding, exit, calls, client, sent, history>>

HandleCommand ==
  \/ \E c \in Requests :
       ChangeState(c) \/ ToLoaded(c) \/ ToInvalid(c) \/ StartReturning(c) \/ NoTransition(c)
  \/ DrainOne \/ DrainEnds \/ ReturnNextInput \/ ReturnNextOutput \/ Complete

ComponentThread == Select \/ HandleDataBuf \/ HandleCommand

Next ==
  \/ \E b \in InBuffers, f \in Frames : BeginEmpty(b, f)
  \/ \E b \in OutBuffers : BeginFill(b)
  \/ WriteEmpty \/ WriteFill \/ CountEmpty \/ CountFill
  \/ \E c \in Requests : SendCommand(c)
  \/ Deinit
  \/ ComponentThread

Spec == Init /\ [][Next]_vars

Refill == \E b \in OutBuffers : BeginFill(b)

\* The codec takes some of the current input, or the last of it.
CodecTakes == \E o \in OutBuffers : DecodeOutput(o) /\ (cur' = None \/ offset' > offset)

\* The threads are scheduled, the client refills; and a codec that is given the
\* same input again and again takes some of it at last, which nothing in this
\* component ensures.
FairSpec ==
  /\ Spec /\ WF_vars(ComponentThread)
  /\ WF_vars(WriteEmpty \/ CountEmpty) /\ WF_vars(WriteFill \/ CountFill) /\ WF_vars(Refill)
  /\ SF_vars(CodecTakes)

-----------------------------------------------------------------------------
\* The variables keep to their types.
TypeOK ==
  /\ curState \in States
  /\ thread \in {"select", "data", "command", "drain", "return", "exited", "crashed"}
  /\ command \in Commands \cup {None} /\ cmdPipe \in Seq(Commands)
  /\ dataPipe \in Seq(Buffers) /\ inQ \in Seq(InBuffers) /\ outQ \in Seq(OutBuffers)
  /\ cur \in InBuffers \cup {None} /\ offset \in 0..MaxLen
  /\ queues \in BOOLEAN /\ sendAfterEOS \in BOOLEAN /\ exit \in BOOLEAN /\ flagged \in BOOLEAN
  /\ firstBuff \in 0..2 /\ outstanding \in Int
  /\ content \in [InBuffers -> Frames]
  /\ emptying \in CallsOn(InBuffers) \cup {None} /\ filling \in CallsOn(OutBuffers) \cup {None}
  /\ client \subseteq Buffers /\ before \subseteq Buffers
  /\ fed \in 0..MaxFrames /\ sent \in 0..MaxCommands
  /\ decoded \in Seq(0..MaxFrames)

BeingWritten(call) == IF call # None /\ ~call.written THEN <<call.buffer>> ELSE <<>>
Current == IF cur # None THEN <<cur>> ELSE <<>>

\* Every place where the component has a buffer.
Inside == BeingWritten(emptying) \o BeingWritten(filling) \o dataPipe \o inQ \o outQ \o Current

\* No buffer is in two places, and none that the component still has is back
\* with the client: a header is never decoded while the client refills it.
OneOwner == IsInjective(Inside) /\ ToSet(Inside) \cap client = {}

Arriving == inQ \o dataPipe

\* Input waits in the order in which the client submitted it, so a flush
\* "return[s] all buffers ... in the order in which the buffers were received".
ReceivedInOrder ==
  \A i, j \in DOMAIN Arriving :
    i < j /\ {Arriving[i], Arriving[j]} \subseteq InBuffers
      => content[Arriving[i]].n < content[Arriving[j]].n

\* The blocking read of the data pipe inside a command finds a buffer, although
\* the client counts a buffer only after it has written it: the thread that
\* serves both pipes never waits for the client.
ReadNeverBlocks == thread = "drain" /\ outstanding > 0 => dataPipe # <<>>

\* When the component has no command left, every buffer it had when Idle or a
\* flush was asked for has come back.
CommandReturnsAll == thread = "select" /\ ~Busy => before = {}

\* The component that has gone back to Loaded keeps no buffer: whatever was
\* written while it became Idle was served before the command that ends the thread.
LoadedHoldsNothing == thread = "exited" /\ curState = "Loaded" => Inside = <<>>

\* A queue is never used after NUAUDIODEC_Ffmpeg_Deinit has freed it.
QueuesOutliveUse == thread # "crashed"

\* Once an input buffer is being decoded, the next step decodes it too, unless
\* it is handed back: the steps of two buffers never mix.
StepsTogether == [][cur # None /\ cur' # cur => cur' = None /\ (queues' => cur \in client')]_vars

\* EOS is put on an output buffer only when the frame that carried it has been
\* decoded to its end.
EosAfterItsFrame ==
  flagged => \E n \in EosFrames : Contains(decoded, n) /\ (cur # None => content[cur].n # n)

Stuck == cur # None /\ content[cur].kind = "seek"

\* A command is handled to its end (Pause, Idle and a flush among them) unless
\* the thread has ended; a seek packet may keep the data pipe busy for ever, and
\* so would a codec that never takes anything (see FairSpec).
CommandsHandled == Busy ~> (~Busy \/ Gone \/ Stuck)

\* An input buffer handed over comes back, as long as the client refills its
\* output buffers, the thread runs, and the codec takes some of it at last,
\* however often it takes nothing before.
InputComesBack ==
  \A b \in InBuffers : (b \notin client) ~> (b \in client \/ Gone \/ Stuck \/ curState = "Invalid")

\* ComponentDeInit joins the thread, so the thread must end.
DeinitReturns == exit ~> Gone

\* OMX_Core.h: "an output port shall set EOS on the last buffer it emits".
EosOnLastBuffer == [][flagged => decoded' = decoded]_vars
=============================================================================
