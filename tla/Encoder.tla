------------------------------ MODULE Encoder ------------------------------
(***************************************************************************)
(* The OMX IL video encoder component (encoder.c): its state machine, its  *)
(* two ports, and the component thread that handles commands and encodes.  *)
(* Two kinds of actor run: the IL client, whose calls execute in its own   *)
(* threads, and the component thread, which polls, waits and calls back.   *)
(* The command queue is the fifo that MsgQueue implements; ports are not   *)
(* tunnelled; marks are modelled in Marks.  The asserts of the code are    *)
(* properties here (the Makefile builds with NDEBUG).                      *)
(***************************************************************************)
EXTENDS Naturals, Sequences, FiniteSets

CONSTANTS
  InBuffers, OutBuffers,  \* the BUFFER objects of the input and output port
  OwnBuffers,             \* those AllocateBuffer made (BUFFER_FLAG_MY_BUFFER);
                          \* UseBuffer made the others
  Actual,                 \* nBufferCountActual of each port
  Requests,               \* the commands the client may send
  MaxCommands,            \* bound: commands sent in a behaviour
  MaxFrames,              \* bound: input buffers submitted in a behaviour
  EosFrames,              \* the frames that carry OMX_BUFFERFLAG_EOS
  Careful,                \* does the client respect the protocol (see below)?
  Reentrant,              \* does it submit buffers from inside callbacks?
  MaxStray,               \* bound: submissions of buffers the client does not
                          \* hold (a careful one makes none)
  Deinits,                \* does it destroy the component?
  CodecFails,             \* may the codec or an allocation fail?
  NoBuffer

Ports == {"in", "out"}
BuffersOf(p) == IF p = "in" THEN InBuffers ELSE OutBuffers
Buffers == InBuffers \cup OutBuffers

States == {"Loaded", "Idle", "Executing", "Pause", "WaitForResources", "Invalid"}

(* A command as the queue carries it; nParam1 = -1 stands for both ports.  *)
PortLists == {<<"in">>, <<"out">>, <<"in", "out">>}
StateSet(s) == [op |-> "StateSet", to |-> s, on |-> <<>>]
Flush(ps)   == [op |-> "Flush", to |-> "Loaded", on |-> ps]
Disable(ps) == [op |-> "Disable", to |-> "Loaded", on |-> ps]
Enable(ps)  == [op |-> "Enable", to |-> "Loaded", on |-> ps]
ExitLoop    == [op |-> "Exit", to |-> "Loaded", on |-> <<>>]
ClientCommands == {StateSet(s) : s \in States}
                    \cup UNION {{Flush(ps), Disable(ps), Enable(ps)} : ps \in PortLists}
Commands == ClientCommands \cup {ExitLoop}

ASSUME EncoderAssumption ==
  /\ InBuffers \cap OutBuffers = {}
  /\ OwnBuffers \subseteq Buffers
  /\ NoBuffer \notin Buffers
  /\ Actual \in [Ports -> Nat \ {0}]
  /\ Requests \subseteq ClientCommands
  /\ {MaxCommands, MaxFrames, MaxStray} \subseteq Nat /\ EosFrames \subseteq 1..MaxFrames
  /\ {Careful, Reentrant, Deinits, CodecFails} \subseteq BOOLEAN

VARIABLES
  state, statetrans,      \* the state, and the state last asked for
  run,                    \* the component thread goes on
  codec,                  \* the codec object exists
  streamStarted,
  enabled, populated,     \* of each port: bEnabled, bPopulated,
  allocated, queue,       \* its BUFFER objects, its queue of submitted ones
  cmds,                   \* the command queue
  pc, cmd,                \* where the component thread is; its command
  todo,                   \* ports its command has still to deal with
  idx, count,             \* i and count of async_encoder_return_buffers
  sigIn,                  \* the input event was set when select returned
  frames, left,           \* frame_in, and how much of it is not yet encoded
  copied,                 \* the input frame went through frame_in
  held,                   \* buffers of each port in the client's hands
  submitting,             \* the buffer inside Empty/FillThisBuffer
  contents,               \* the frame each input buffer carries, 0 for none
  frameCount, sentCount,  \* how many frames and commands there have been
  freeing,                \* buffers encoder_free_buffer has taken from their
                          \* list; it is about to clear bPopulated
  deinit,                 \* progress of encoder_deinit
  last, header,           \* history: the last frame encoded, and whether this
                          \* codec has been given a stream_start
  crossed,                \* history: ports that were given a buffer meanwhile
                          \* and have not been emptied since
  stray                   \* history: submissions of buffers not held

comp   == <<state, statetrans, run, codec, streamStarted>>
ports  == <<enabled, populated, allocated, queue>>
thread == <<pc, cmd, todo, idx, count, sigIn>>
data   == <<frames, left, copied, last, header>>
calls  == <<freeing, crossed, stray>>
client == <<held, submitting, contents, frameCount, sentCount, deinit, calls>>
vars   == <<comp, ports, cmds, thread, data, client>>

(* OMX_ComponentInit. *)
Init ==
  /\ state = "Loaded" /\ statetrans = "Loaded" /\ run = TRUE
  /\ codec = FALSE /\ streamStarted = FALSE
  /\ enabled = [p \in Ports |-> TRUE]
  /\ populated = [p \in Ports |-> FALSE]
  /\ allocated = [p \in Ports |-> {}]
  /\ queue = [p \in Ports |-> <<>>]
  /\ cmds = <<>>
  /\ pc = "loop" /\ cmd = ExitLoop /\ todo = <<>>
  /\ idx = 1 /\ count = 0 /\ sigIn = FALSE
  /\ frames = <<>> /\ left = 0 /\ copied = FALSE /\ last = 0 /\ header = FALSE
  /\ held = [p \in Ports |-> {}]
  /\ submitting = NoBuffer
  /\ contents = [b \in Buffers |-> 0]
  /\ frameCount = 0 /\ sentCount = 0
  /\ freeing = {} /\ crossed = {} /\ stray = 0
  /\ deinit = "no"

PortOf(b) == IF b \in InBuffers THEN "in" ELSE "out"
InSeq(x, s) == \E i \in DOMAIN s : s[i] = x

\* HantroOmx_port_is_ready
Ready(p) == enabled[p] => populated[p]

\* The component thread is in async_encoder_return_buffers and has p locked.
Locked(p) == pc = "returning" /\ Head(todo) = p

(* The queued buffers of p that have not been handed back already: a       *)
(* callback hands a buffer back before the buffer leaves the queue.        *)
HandedBack(p) ==
  IF Locked(p) THEN idx - 1
  ELSE IF pc = (IF p = "in" THEN "inputpop" ELSE "startpop") \/ (p = "out" /\ pc = "endpop")
  THEN 1 ELSE 0
Live(p) == HandedBack(p) + 1 .. Len(queue[p])

-----------------------------------------------------------------------------
(* The client.  A careful one makes one call at a time, and acts on a port *)
(* only while no command that concerns the port is unanswered.             *)
Busy == pc \in {"setstate", "return", "returning", "dealloc", "enable"}

PendingOn(op, p) ==
  \/ Busy /\ cmd.op = op /\ InSeq(p, cmd.on)
  \/ \E i \in DOMAIN cmds : cmds[i].op = op /\ InSeq(p, cmds[i].on)

Quiet(p) == \A op \in {"Flush", "Disable", "Enable"} : ~PendingOn(op, p)

CanCall == deinit = "no" /\ (Careful => submitting = NoBuffer /\ freeing = {})

(* A careful client keeps state changes and port changes apart, and enables *)
(* a port only where it can then allocate the port's buffers.              *)
IsCareful(c) ==
  /\ \A p \in Ports : InSeq(p, c.on) => Quiet(p)
  /\ c.op = "StateSet" => \A p \in Ports : Quiet(p)
  /\ c.op \in {"Disable", "Enable"} => statetrans = state
  /\ c.op = "Enable" => state \in {"Loaded", "Idle", "Executing"}

AcceptsAnything(c) == TRUE  \* mutant: no check

\* Another change of state is refused while one is pending.
Accepts(c) == c.op = "StateSet" => statetrans = state

(* encoder_send_command: port commands change bEnabled at once, in the     *)
(* client's thread, and a state command is refused while one is pending.   *)
SendCommand(c) ==
  /\ CanCall /\ sentCount < MaxCommands /\ state # "Invalid"
  /\ Careful => IsCareful(c)
  /\ sentCount' = sentCount + 1
  /\ Accepts(c)
  /\ statetrans' = IF c.op = "StateSet" THEN c.to ELSE statetrans
  /\ enabled' = [p \in Ports |->
                   IF c.op \in {"Disable", "Enable"} /\ InSeq(p, c.on)
                   THEN c.op = "Enable" ELSE enabled[p]]
  /\ cmds' = Append(cmds, c)
  /\ UNCHANGED <<state, run, codec, streamStarted, populated, allocated, queue,
                 thread, data, held, submitting, contents, frameCount, deinit, calls>>

(* encoder_verify_buffer_allocation *)
MayAllocate(p) ==
  /\ ~populated[p]
  /\ \/ state = "Loaded" /\ statetrans = "Idle"
     \/ state \in {"Idle", "Executing"}
     \/ state = "Pause" /\ ~enabled[p]

(* A careful client allocates what a pending command waits for.            *)
WantsToAllocate(p) ==
  /\ enabled[p]
  /\ ~PendingOn("Disable", p)
  /\ \/ state = "Loaded" /\ statetrans = "Idle"
     \/ state # "Loaded" /\ PendingOn("Enable", p)

\* A FreeBuffer of a buffer of p is between its two writes.
Freeing(p) == \E b \in freeing : PortOf(b) = p

(* encoder_use_buffer, encoder_allocate_buffer.  The component thread asks *)
(* the list only whether it is empty, and bPopulated for everything else.  *)
AllocateBuffer(b) ==
  LET p == PortOf(b) IN
  /\ CanCall /\ b \notin allocated[p] \cup {submitting}
  /\ MayAllocate(p)
  /\ Careful => WantsToAllocate(p)
  /\ allocated' = [allocated EXCEPT ![p] = @ \cup {b}]
  /\ populated' = [populated EXCEPT ![p] = @ \/ Cardinality(allocated'[p]) = Actual[p]]
  /\ held' = [held EXCEPT ![p] = @ \cup {b}]
  /\ crossed' = crossed \cup {q \in {p} : Freeing(q)}
  /\ UNCHANGED <<comp, enabled, queue, cmds, thread, data, submitting, contents,
                 frameCount, sentCount, deinit, freeing, stray>>

(* A careful client frees what a pending command waits for.                *)
WantsToFree(p) ==
  \/ state = "Idle" /\ statetrans = "Loaded"
  \/ PendingOn("Disable", p)

NeverShort(p) == FALSE  \* mutant: bPopulated is never cleared

\* The port has fewer buffers left than it needs.
ShortAfterFree(p) == Cardinality(allocated'[p]) < Actual[p]

(* encoder_free_buffer, of a buffer the client holds and the component does *)
(* not (it would free memory in use): the buffer leaves the list, and the  *)
(* count of what is left decides whether bPopulated will be cleared.  No   *)
(* lock is taken: others run between the two writes.                       *)
FreeBuffer(b) ==
  LET p == PortOf(b) IN
  /\ CanCall /\ freeing = {} /\ b \in held[p] /\ b \in allocated[p]
  /\ \A i \in Live(p) : queue[p][i] # b
  /\ Careful => WantsToFree(p)
  /\ allocated' = [allocated EXCEPT ![p] = @ \ {b}]
  /\ freeing' = IF ShortAfterFree(p) THEN freeing \cup {b} ELSE freeing
  /\ held' = [held EXCEPT ![p] = @ \ {b}]
  /\ contents' = [contents EXCEPT ![b] = 0]
  /\ UNCHANGED <<comp, enabled, populated, queue, cmds, thread, data, submitting,
                 frameCount, sentCount, deinit, crossed, stray>>

Unpopulate(b) ==
  /\ b \in freeing
  /\ populated' = [populated EXCEPT ![PortOf(b)] = FALSE]
  /\ freeing' = freeing \ {b}
  /\ crossed' = {p \in crossed : allocated[p] # {}}
  /\ UNCHANGED <<comp, enabled, allocated, queue, cmds, thread, data, held, submitting,
                 contents, frameCount, sentCount, deinit, stray>>

(* The buffer passed in is looked up in the port's list and nowhere else:  *)
(* one that the component has is accepted, and queued, again.              *)
MayPass(b) ==
  /\ \/ b \in held[PortOf(b)]
     \/ ~Careful /\ b \in allocated[PortOf(b)] /\ stray < MaxStray
  /\ stray' = IF b \in held[PortOf(b)] THEN stray ELSE stray + 1

(* encoder_push_buffer up to the lock: the state and bEnabled are read     *)
(* without it.  A refused call changes nothing.                            *)
SubmitCheck(b) ==
  LET p == PortOf(b) IN
  /\ CanCall /\ submitting = NoBuffer /\ MayPass(b)
  /\ state \in {"Executing", "Pause"} /\ enabled[p]
  /\ Careful => statetrans = state /\ Quiet(p)
  /\ p = "in" => frameCount < MaxFrames
  /\ frameCount' = IF p = "in" THEN frameCount + 1 ELSE frameCount
  /\ contents' = IF p = "in" THEN [contents EXCEPT ![b] = frameCount + 1] ELSE contents
  /\ submitting' = b
  /\ held' = [held EXCEPT ![p] = @ \ {b}]
  /\ UNCHANGED <<comp, ports, cmds, thread, data, sentCount, deinit, freeing, crossed>>

(* encoder_push_buffer under the lock: a buffer freed meanwhile is refused. *)
SubmitPush ==
  /\ submitting # NoBuffer
  /\ LET p == PortOf(submitting) IN
       /\ ~Locked(p)
       /\ queue' = [queue EXCEPT ![p] = IF submitting \in allocated[p]
                                        THEN Append(@, submitting) ELSE @]
  /\ submitting' = NoBuffer
  /\ UNCHANGED <<comp, enabled, populated, allocated, cmds, thread, data, held,
                 contents, frameCount, sentCount, deinit, calls>>

(* The same call made from a callback of the component thread, which holds *)
(* the (recursive) lock of the port it is returning.                       *)
SubmitFromCallback(b) ==
  LET p == PortOf(b) IN
  /\ Reentrant /\ Locked(p) /\ MayPass(b)
  /\ state \in {"Executing", "Pause"} /\ enabled[p]
  /\ p = "in" => frameCount < MaxFrames
  /\ frameCount' = IF p = "in" THEN frameCount + 1 ELSE frameCount
  /\ contents' = IF p = "in" THEN [contents EXCEPT ![b] = frameCount + 1] ELSE contents
  /\ queue' = [queue EXCEPT ![p] = Append(@, b)]
  /\ held' = [held EXCEPT ![p] = @ \ {b}]
  /\ UNCHANGED <<comp, enabled, populated, allocated, cmds, thread, data,
                 submitting, sentCount, deinit, freeing, crossed>>

\* mutant: the thread is not woken up
DeinitSendsNothing ==
  /\ Deinits /\ deinit = "no" /\ submitting = NoBuffer /\ freeing = {}
  /\ run' = FALSE
  /\ deinit' = "joining"
  /\ UNCHANGED <<state, statetrans, codec, streamStarted, ports, cmds, thread, data, held,
                 submitting, contents, frameCount, sentCount, calls>>

(* encoder_deinit: tell the thread to leave, then join it, then tear down. *)
Deinit ==
  /\ Deinits /\ deinit = "no" /\ submitting = NoBuffer /\ freeing = {}
  /\ Careful => /\ state \in {"Loaded", "Invalid"} /\ (state = "Loaded" => statetrans = state)
                /\ cmds = <<>> /\ pc \in {"loop", "select", "exited"}
                /\ state = "Loaded" => \A p \in Ports : allocated[p] = {}
  /\ run' = FALSE
  /\ cmds' = Append(cmds, ExitLoop)
  /\ deinit' = "joining"
  /\ UNCHANGED <<state, statetrans, codec, streamStarted, ports, thread, data, held,
                 submitting, contents, frameCount, sentCount, calls>>

DeinitJoined ==
  /\ deinit = "joining" /\ pc = "exited"
  /\ deinit' = "done"
  /\ codec' = (codec /\ state = "Loaded")
  /\ cmds' = <<>>
  /\ allocated' = [p \in Ports |-> {}]
  /\ queue' = [p \in Ports |-> <<>>]
  /\ held' = [p \in Ports |-> {}]
  /\ populated' = [p \in Ports |-> FALSE]
  /\ UNCHANGED <<state, statetrans, run, streamStarted, enabled, thread,
                 data, submitting, contents, frameCount, sentCount, calls>>

-----------------------------------------------------------------------------
(* The component thread: encoder_thread_main.                              *)
Goto(l) == pc' = l

ThreadUnchanged == UNCHANGED <<ports, client, data>>

Loop ==
  /\ pc = "loop"
  /\ Goto(IF run THEN "select" ELSE "exited")
  /\ UNCHANGED <<comp, ports, cmds, cmd, todo, idx, count, sigIn, data, client>>

(* select() on the command event and the input port's buffer event; run is *)
(* not looked at again before the next turn.                               *)
Select ==
  /\ pc = "select"
  /\ cmds # <<>> \/ queue["in"] # <<>>
  /\ sigIn' = (queue["in"] # <<>>)
  /\ Goto(IF cmds # <<>> THEN "drain" ELSE "input")
  /\ UNCHANGED <<comp, ports, cmds, cmd, todo, idx, count, data, client>>

Handler(c) == CASE c.op = "StateSet" -> "setstate"
                [] c.op = "Flush" -> "return"
                [] c.op = "Disable" -> "return"
                [] c.op = "Enable" -> "enable"
                [] c.op = "Exit" -> "input"

(* try_recv_command and cmd_dispatch; run is not looked at between two     *)
(* commands, and EXIT leaves the loop with whatever is queued behind it.   *)
TakeCommand ==
  /\ pc = "drain" /\ cmds # <<>>
  /\ cmd' = Head(cmds)
  /\ cmds' = Tail(cmds)
  /\ run' = (run /\ cmd'.op # "Exit")
  /\ todo' = cmd'.on
  /\ Goto(Handler(cmd'))
  /\ UNCHANGED <<state, statetrans, codec, streamStarted, ports, idx, count, sigIn,
                 data, client>>

Drained ==
  /\ pc = "drain" /\ cmds = <<>>
  /\ Goto("input")
  /\ UNCHANGED <<comp, ports, cmds, cmd, todo, idx, count, sigIn, data, client>>

EncodesInAnyState == sigIn  \* mutant: the state is not looked at

(* The input event was set, and the component executes.                    *)
Encodes == sigIn /\ state = "Executing"

Input ==
  /\ pc = "input"
  /\ Goto(IF Encodes
          THEN IF streamStarted THEN "frame" ELSE "start"
          ELSE "loop")
  /\ UNCHANGED <<comp, ports, cmds, cmd, todo, idx, count, sigIn, data, client>>

-----------------------------------------------------------------------------
(* async_encoder_set_state                                                 *)
Direct == {<<"Idle", "Executing">>, <<"Pause", "Executing">>, <<"Idle", "Pause">>,
           <<"Executing", "Pause">>, <<"Loaded", "WaitForResources">>,
           <<"WaitForResources", "Loaded">>}
ToIdle == {<<"Executing", "Idle">>, <<"Pause", "Idle">>}
Legal == Direct \cup ToIdle \cup {<<"Loaded", "Idle">>, <<"Idle", "Loaded">>}

Transition == <<state, cmd.to>>

SameState ==
  /\ pc = "setstate" /\ cmd.to = state
  /\ Goto("drain")
  /\ UNCHANGED <<comp, cmds, cmd, todo, idx, count, sigIn>> /\ ThreadUnchanged

\* mutant: the request stays pending
IncorrectTransitionStaysPending ==
  /\ pc = "setstate" /\ cmd.to \notin {state, "Invalid"} /\ Transition \notin Legal
  /\ Goto("drain")
  /\ UNCHANGED <<comp, cmds, cmd, todo, idx, count, sigIn>> /\ ThreadUnchanged

(* OMX_ErrorIncorrectStateTransition takes the request back.               *)
IncorrectTransition ==
  /\ pc = "setstate" /\ cmd.to \notin {state, "Invalid"} /\ Transition \notin Legal
  /\ statetrans' = state
  /\ Goto("drain")
  /\ UNCHANGED <<state, run, codec, streamStarted, cmds, cmd, todo, idx, count, sigIn>>
  /\ ThreadUnchanged

(* Any other error: the component becomes invalid and its thread will end. *)
Fail(l) ==
  /\ state' = "Invalid" /\ run' = FALSE
  /\ Goto(l)

SetInvalid ==
  /\ pc = "setstate" /\ state # "Invalid" /\ cmd.to = "Invalid"
  /\ Fail("drain")
  /\ UNCHANGED <<statetrans, codec, streamStarted, cmds, cmd, todo, idx, count, sigIn>>
  /\ ThreadUnchanged

TransitionComplete ==
  /\ statetrans' = cmd.to /\ state' = cmd.to
  /\ Goto("drain")

DirectTransition ==
  /\ pc = "setstate" /\ Transition \in Direct
  /\ TransitionComplete
  /\ UNCHANGED <<run, codec, streamStarted, cmds, cmd, todo, idx, count, sigIn>>
  /\ ThreadUnchanged

(* transition_to_idle_from_loaded polls until both ports are ready, then   *)
(* creates the codec and the two frame buffers.                            *)
LoadedToIdle ==
  /\ pc = "setstate" /\ Transition = <<"Loaded", "Idle">>
  /\ \A p \in Ports : Ready(p)
  /\ codec' = TRUE /\ header' = FALSE
  /\ frames' = <<>>
  /\ TransitionComplete
  /\ UNCHANGED <<run, streamStarted, ports, cmds, cmd, todo, idx, count, sigIn,
                 left, copied, last, client>>

LoadedToIdleFails ==
  /\ CodecFails
  /\ pc = "setstate" /\ Transition = <<"Loaded", "Idle">>
  /\ Fail("drain")
  /\ UNCHANGED <<statetrans, codec, streamStarted, cmds, cmd, todo, idx, count, sigIn>>
  /\ ThreadUnchanged

(* transition_to_idle_from_executing and _from_paused return the buffers.  *)
ToIdleBegin ==
  /\ pc = "setstate" /\ Transition \in ToIdle
  /\ todo' = <<"in", "out">>
  /\ Goto("return")
  /\ UNCHANGED <<comp, cmds, cmd, idx, count, sigIn>> /\ ThreadUnchanged

(* ...and only the former clears streamStarted.                            *)
ToIdleEnd ==
  /\ pc = "return" /\ todo = <<>> /\ cmd.op = "StateSet"
  /\ streamStarted' = (streamStarted /\ state # "Executing")
  /\ TransitionComplete
  /\ UNCHANGED <<run, codec, cmds, cmd, todo, idx, count, sigIn>> /\ ThreadUnchanged

(* transition_to_loaded_from_idle polls until both ports have no buffers.  *)
IdleToLoaded ==
  /\ pc = "setstate" /\ Transition = <<"Idle", "Loaded">>
  /\ \A p \in Ports : allocated[p] = {}
  /\ codec' = FALSE
  /\ frames' = <<>>
  /\ TransitionComplete
  /\ UNCHANGED <<run, streamStarted, ports, cmds, cmd, todo, idx, count, sigIn,
                 left, copied, last, header, client>>

-----------------------------------------------------------------------------
\* mutant: the last buffer is not counted
ReturnLockMissesLast ==
  /\ pc = "return" /\ todo # <<>>
  /\ idx' = 1 /\ count' = Len(queue[Head(todo)]) - 1
  /\ Goto("returning")
  /\ UNCHANGED <<comp, cmds, cmd, todo, sigIn>> /\ ThreadUnchanged

(* async_encoder_return_buffers, port by port: lock and count, call back   *)
(* for each counted buffer, clear the queue and unlock.                    *)
ReturnLock ==
  /\ pc = "return" /\ todo # <<>>
  /\ idx' = 1 /\ count' = Len(queue[Head(todo)])
  /\ Goto("returning")
  /\ UNCHANGED <<comp, cmds, cmd, todo, sigIn>> /\ ThreadUnchanged

Return(p, b) == held' = [held EXCEPT ![p] = @ \cup {b}]

ReturnOne ==
  /\ pc = "returning" /\ idx <= count
  /\ Return(Head(todo), queue[Head(todo)][idx])
  /\ idx' = idx + 1
  /\ UNCHANGED <<comp, ports, cmds, pc, cmd, todo, count, sigIn, data, submitting,
                 contents, frameCount, sentCount, deinit, calls>>

\* mutant: the queue is not cleared
ReturnUnlockKeepsQueue ==
  /\ pc = "returning" /\ idx > count
  /\ todo' = Tail(todo)
  /\ Goto("return")
  /\ UNCHANGED <<comp, ports, cmds, cmd, idx, count, sigIn, data, client>>

ReturnUnlock ==
  /\ pc = "returning" /\ idx > count
  /\ queue' = [queue EXCEPT ![Head(todo)] = <<>>]
  /\ todo' = Tail(todo)
  /\ Goto("return")
  /\ UNCHANGED <<comp, enabled, populated, allocated, cmds, cmd, idx, count, sigIn,
                 data, client>>

(* async_encoder_flush_port *)
FlushComplete ==
  /\ pc = "return" /\ todo = <<>> /\ cmd.op = "Flush"
  /\ Goto("drain")
  /\ UNCHANGED <<comp, cmds, cmd, todo, idx, count, sigIn>> /\ ThreadUnchanged

(* async_encoder_disable_port: wait until the client freed the buffers.    *)
DisableReturned ==
  /\ pc = "return" /\ todo = <<>> /\ cmd.op = "Disable"
  /\ todo' = cmd.on
  /\ Goto("dealloc")
  /\ UNCHANGED <<comp, cmds, cmd, idx, count, sigIn>> /\ ThreadUnchanged

Deallocated ==
  /\ pc = "dealloc" /\ todo # <<>> /\ allocated[Head(todo)] = {}
  /\ todo' = Tail(todo)
  /\ Goto(IF Tail(todo) = <<>> THEN "drain" ELSE "dealloc")
  /\ UNCHANGED <<comp, cmds, cmd, idx, count, sigIn>> /\ ThreadUnchanged

\* mutant: waits for buffers in Loaded too
EnablePortAlwaysWaits ==
  /\ pc = "enable" /\ todo # <<>>
  /\ Ready(Head(todo))
  /\ todo' = Tail(todo)
  /\ Goto(IF Tail(todo) = <<>> THEN "drain" ELSE "enable")
  /\ UNCHANGED <<comp, cmds, cmd, idx, count, sigIn>> /\ ThreadUnchanged

(* async_encoder_enable_port: in Loaded there is nothing to wait for.      *)
EnablePort ==
  /\ pc = "enable" /\ todo # <<>>
  /\ state = "Loaded" \/ Ready(Head(todo))
  /\ todo' = Tail(todo)
  /\ Goto(IF Tail(todo) = <<>> THEN "drain" ELSE "enable")
  /\ UNCHANGED <<comp, cmds, cmd, idx, count, sigIn>> /\ ThreadUnchanged

-----------------------------------------------------------------------------
(* async_video_encoder_encode.  While there is no output buffer the thread *)
(* retries (4000 times 5 ms); a requested Pause or running out of retries  *)
(* makes it give up, a requested Idle makes it abandon the frame.          *)
NoOutput == queue["out"] = <<>>
Abandons == NoOutput /\ statetrans = "Idle" /\ state = "Executing"

(* async_start_stream: the stream header goes out in the first buffer, which *)
(* is popped only after the client has got it.                             *)
StartStream ==
  /\ pc = "start" /\ ~NoOutput
  /\ streamStarted' = TRUE /\ header' = TRUE
  /\ Return("out", Head(queue["out"]))
  /\ Goto("startpop")
  /\ UNCHANGED <<state, statetrans, run, codec, ports, cmds, cmd, todo, idx, count,
                 sigIn, frames, left, copied, last, submitting,
                 contents, frameCount, sentCount, deinit, calls>>

Pop(p, l) ==
  /\ queue' = [queue EXCEPT ![p] = Tail(@)]
  /\ Goto(l)
  /\ UNCHANGED <<comp, enabled, populated, allocated, cmds, cmd, todo, idx, count,
                 sigIn, data, client>>

StartPop == pc = "startpop" /\ Pop("out", "frame")

StartGivesUp ==
  /\ pc = "start" /\ NoOutput
  /\ Goto("loop")
  /\ UNCHANGED <<comp, cmds, cmd, todo, idx, count, sigIn>> /\ ThreadUnchanged

EncodeFails ==
  /\ CodecFails
  /\ (pc = "start" \/ pc = "output") /\ ~NoOutput
  /\ Fail("loop")
  /\ UNCHANGED <<statetrans, codec, streamStarted, cmds, cmd, todo, idx, count, sigIn>>
  /\ ThreadUnchanged

\* A command handled since select may have returned the input buffer.
NoFrame ==
  /\ pc = "frame" /\ queue["in"] = <<>>
  /\ Goto("loop")
  /\ UNCHANGED <<comp, cmds, cmd, todo, idx, count, sigIn>> /\ ThreadUnchanged

InFront(b) == <<contents[b]>> \o frames  \* mutant: the copy goes to the front

\* async_get_frame_buffer copies to the end of what frame_in holds.
Behind(b) == Append(frames, contents[b])

(* Peek at the input buffer; copy it behind what frame_in holds, unless it *)
(* is the component's own and frame_in is empty.                           *)
TakeFrame ==
  /\ pc = "frame" /\ queue["in"] # <<>>
  /\ LET b == Head(queue["in"]) IN
       /\ copied' = (b \notin OwnBuffers \/ frames # <<>>)
       /\ frames' = IF copied' THEN Behind(b) ELSE frames
       /\ left' = IF copied' THEN Len(frames') ELSE 1
  /\ Goto("output")
  /\ UNCHANGED <<comp, ports, cmds, cmd, todo, idx, count, sigIn, last, header, client>>

AfterFrames == IF contents[Head(queue["in"])] \in EosFrames THEN "eos" ELSE "done"

NextFrame == IF copied THEN frames[1] ELSE contents[Head(queue["in"])]

(* One turn of the loop of async_encode_video_data: encode the frame at    *)
(* the front, move the rest of frame_in forward, pop an output buffer and  *)
(* deliver it.  frame_in counts as consumed only when the loop ends.       *)
EncodeFrame ==
  /\ pc = "output" /\ ~NoOutput
  /\ last' = NextFrame
  /\ left' = left - 1
  /\ frames' = IF ~copied THEN frames
               ELSE IF left = 1 THEN <<>>
               ELSE [i \in DOMAIN frames |-> IF i < left THEN frames[i + 1] ELSE frames[i]]
  /\ queue' = [queue EXCEPT !["out"] = Tail(@)]
  /\ Return("out", Head(queue["out"]))
  /\ Goto(IF left = 1 THEN AfterFrames ELSE "output")
  /\ UNCHANGED <<comp, enabled, populated, allocated, cmds, cmd, todo, idx, count, sigIn,
                 copied, header, submitting, contents, frameCount, sentCount, deinit,
                 calls>>

(* OMX_ErrorOverflow, from the codec or for want of an output buffer: the  *)
(* copying path reports it, drops frame_in and goes on; the other path     *)
(* makes the component invalid.                                            *)
Overflow ==
  /\ pc = "output"
  /\ NoOutput \/ CodecFails
  /\ IF copied
     THEN /\ frames' = <<>> /\ Goto(AfterFrames) /\ UNCHANGED comp
     ELSE /\ Fail("loop") /\ UNCHANGED <<statetrans, codec, streamStarted, frames>>
  /\ UNCHANGED <<ports, cmds, cmd, todo, idx, count, sigIn, left, copied, last,
                 header, client>>

(* OMX_ErrorVendorStartUnused: return, with the input buffer still queued. *)
Abandon ==
  /\ pc = "start" \/ pc = "output"
  /\ Abandons
  /\ Goto("loop")
  /\ UNCHANGED <<comp, cmds, cmd, todo, idx, count, sigIn>> /\ ThreadUnchanged

(* async_end_stream: does not wait for an output buffer, and when it fails *)
(* the input buffer stays at the front of its queue.                       *)
EndStream ==
  /\ pc = "eos" /\ ~NoOutput
  /\ streamStarted' = FALSE
  /\ Return("out", Head(queue["out"]))
  /\ Goto("endpop")
  /\ UNCHANGED <<state, statetrans, run, codec, ports, cmds, cmd, todo, idx, count,
                 sigIn, data, submitting, contents, frameCount, sentCount, deinit, calls>>

EndPop == pc = "endpop" /\ Pop("out", "done")

EndStreamFails ==
  /\ pc = "eos"
  /\ NoOutput \/ CodecFails
  /\ Goto("loop")
  /\ UNCHANGED <<comp, cmds, cmd, todo, idx, count, sigIn>> /\ ThreadUnchanged

(* EmptyBufferDone, and only then the pop.                                 *)
InputDone ==
  /\ pc = "done"
  /\ Return("in", Head(queue["in"]))
  /\ Goto("inputpop")
  /\ UNCHANGED <<comp, ports, cmds, cmd, todo, idx, count, sigIn, data, submitting,
                 contents, frameCount, sentCount, deinit, calls>>

InputPop == pc = "inputpop" /\ Pop("in", "loop")

-----------------------------------------------------------------------------
CommandStep ==
  \/ TakeCommand \/ Drained \/ SameState \/ IncorrectTransition \/ SetInvalid
  \/ DirectTransition \/ LoadedToIdle \/ LoadedToIdleFails \/ ToIdleBegin \/ ToIdleEnd
  \/ IdleToLoaded \/ ReturnLock \/ ReturnOne \/ ReturnUnlock \/ FlushComplete
  \/ DisableReturned \/ Deallocated \/ EnablePort

EncodeStep ==
  \/ StartStream \/ StartPop \/ StartGivesUp \/ EncodeFails \/ NoFrame \/ TakeFrame
  \/ EncodeFrame \/ Overflow \/ Abandon \/ EndStream \/ EndPop \/ EndStreamFails
  \/ InputDone \/ InputPop

ThreadStep == Loop \/ Select \/ Input \/ CommandStep \/ EncodeStep

ClientStep ==
  \/ \E c \in Requests : SendCommand(c)
  \/ \E b \in Buffers : AllocateBuffer(b) \/ FreeBuffer(b) \/ Unpopulate(b)
                          \/ SubmitCheck(b) \/ SubmitFromCallback(b)
  \/ SubmitPush \/ Deinit \/ DeinitJoined

Next == ClientStep \/ ThreadStep

Spec == Init /\ [][Next]_vars

(* The scheduler runs the component thread; a careful client answers what  *)
(* the component waits for.  Nothing makes it send commands or buffers.    *)
Fairness ==
  /\ WF_vars(ThreadStep)
  /\ WF_vars(SubmitPush) /\ WF_vars(DeinitJoined)
  /\ \A b \in Buffers : /\ WF_vars(AllocateBuffer(b)) /\ WF_vars(FreeBuffer(b))
                        /\ WF_vars(Unpopulate(b))

FairSpec == Spec /\ Fairness

-----------------------------------------------------------------------------
(* The types, by the groups of variables that comp, ports, ... name.       *)
CompType ==
  /\ state \in States /\ statetrans \in States
  /\ run \in BOOLEAN /\ codec \in BOOLEAN /\ streamStarted \in BOOLEAN

PortsType ==
  /\ enabled \in [Ports -> BOOLEAN] /\ populated \in [Ports -> BOOLEAN]
  /\ allocated \in [Ports -> SUBSET Buffers]
  /\ queue \in [Ports -> Seq(Buffers)]

ThreadType ==
  /\ pc \in {"loop", "select", "drain", "input", "exited", "setstate", "return", "returning",
             "dealloc", "enable", "start", "startpop", "frame", "output", "eos",
             "endpop", "done", "inputpop"}
  /\ cmd \in Commands /\ todo \in PortLists \cup {<<>>}
  /\ idx \in Nat /\ count \in Nat /\ sigIn \in BOOLEAN

DataType ==
  /\ frames \in Seq(Nat) /\ left \in Nat /\ copied \in BOOLEAN
  /\ last \in Nat /\ header \in BOOLEAN

ClientType ==
  /\ held \in [Ports -> SUBSET Buffers]
  /\ submitting \in Buffers \cup {NoBuffer}
  /\ contents \in [Buffers -> Nat]
  /\ frameCount \in Nat /\ sentCount \in Nat
  /\ deinit \in {"no", "joining", "done"}
  /\ freeing \in SUBSET Buffers /\ crossed \in SUBSET Ports /\ stray \in Nat

(* The state is well typed: queues hold buffers and the thread is at one   *)
(* of its places, with a command and a number of buffers it can deal with. *)
TypeOK ==
  /\ CompType /\ PortsType /\ cmds \in Seq(Commands)
  /\ ThreadType /\ DataType /\ ClientType

(* statetrans is the state the last accepted StateSet asks for as long as  *)
(* that command is pending, and no second change of state is accepted: the *)
(* assertions on state and statetrans of the transition functions.         *)
IsChange(c) == c.op = "StateSet" /\ c.to # state
OneTransition ==
  (state # "Invalid" /\ deinit # "done") =>
    /\ (Busy /\ IsChange(cmd)) =>
         /\ cmd.to = statetrans
         /\ \A i \in 1..Len(cmds) : cmds[i].op # "StateSet"
    /\ \A i \in 1..Len(cmds) : IsChange(cmds[i]) =>
         /\ cmds[i].to = statetrans
         /\ \A j \in i+1..Len(cmds) : cmds[j].op # "StateSet"
    /\ statetrans # state =>
         (Busy /\ IsChange(cmd)) \/ \E i \in 1..Len(cmds) : IsChange(cmds[i])

(* The codec exists exactly from Idle up, and always while one is needed:  *)
(* the assertions on codec of the transitions and of the encode function.  *)
Encoding == pc \in {"start", "startpop", "frame", "output", "eos", "endpop", "done",
                    "inputpop"}
CodecExists ==
  /\ (state \in {"Idle", "Executing", "Pause"} /\ deinit # "done") => codec
  /\ state \in {"Loaded", "WaitForResources"} => ~codec
  /\ Encoding => codec /\ state = "Executing"

Places(p, b) ==
  Cardinality({i \in Live(p) : queue[p][i] = b})
    + (IF b \in held[p] THEN 1 ELSE 0) + (IF b = submitting THEN 1 ELSE 0)

(* Every allocated buffer is in exactly one place: with the client, inside *)
(* one of its calls, or queued once; and nothing else is in those places.  *)
OwnedOnce ==
  stray = 0 =>
    \A p \in Ports : \A b \in BuffersOf(p) :
      Places(p, b) = IF b \in allocated[p] THEN 1 ELSE 0

(* Even with calls from inside callbacks no buffer has two owners, and no  *)
(* freed buffer has one, as long as the client passes in only what it      *)
(* holds: encoder_push_buffer does not see to that.                        *)
NeverTwice ==
  stray = 0 =>
    \A p \in Ports : \A b \in BuffersOf(p) :
      Places(p, b) <= IF b \in allocated[p] THEN 1 ELSE 0

(* A port that counts as populated has all its buffers, but for the window *)
(* inside FreeBuffer; and unless another thread gave the port a buffer in  *)
(* such a window, a port with all its buffers counts as populated and no   *)
(* port gets more.                                                         *)
PopulatedIsFull ==
  \A p \in Ports :
    /\ populated[p] => Cardinality(allocated[p]) >= Actual[p] \/ Freeing(p)
    /\ p \notin crossed => /\ Cardinality(allocated[p]) <= Actual[p]
                           /\ Cardinality(allocated[p]) = Actual[p] => populated[p]

(* Outside Executing and Pause nothing is queued: the assertions of        *)
(* transition_to_loaded_from_idle ("should be okay without locking").      *)
NothingQueuedBelowIdle ==
  (pc = "setstate" /\ Transition = <<"Idle", "Loaded">>) =>
     \A p \in Ports : queue[p] = <<>>

(* The frames come out in the order in which they were submitted, as long  *)
(* as no buffer is submitted, and so written, while the component has it.  *)
EncodesInOrder == [][EncodeFrame /\ stray = 0 => NextFrame >= last]_vars

(* A codec encodes only after its stream has been started.                 *)
StreamStartedFirst == pc \in {"frame", "output", "eos"} => header

(* To a careful client the component is what OmxComponent describes: it    *)
(* completes only the transition that was asked for, and becomes Idle only *)
(* when it has given back every buffer, also one that was just submitted.  *)
Component == INSTANCE OmxComponent WITH
  target <- statetrans,
  owner <- [b \in Buffers |-> LET p == PortOf(b) IN
              IF b \notin allocated[p] THEN "none"
              ELSE IF b \in held[p] THEN "client" ELSE "component"]

ImplementsComponent == Component!Spec

(* A flush, or a disabled port, has given back everything that was queued. *)
FlushedIsEmpty ==
  (pc = "return" /\ todo = <<>>) => \A p \in Ports : InSeq(p, cmd.on) => queue[p] = <<>>

(* Every requested change of state is made, refused or fails.              *)
TransitionsAnswered ==
  statetrans # state ~> (statetrans = state \/ state = "Invalid")

(* Every command is taken from the queue and carried out to its end.       *)
CommandsAnswered ==
  (cmds # <<>> \/ ~(pc \in {"select", "exited"}))
    ~> (state = "Invalid" \/ deinit # "no" \/ (cmds = <<>> /\ pc \in {"select", "exited"}))

(* encoder_deinit joins the component thread and returns.                  *)
DeinitReturns == deinit = "joining" ~> deinit = "done"
=============================================================================
