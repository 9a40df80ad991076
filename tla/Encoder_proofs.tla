--------------------------- MODULE Encoder_proofs ---------------------------
(***************************************************************************)
(* For every number of buffers, commands and frames, and whatever the      *)
(* client does: the encoder's variables are typed, it carries out one      *)
(* change of state at a time, the one that was asked for, its codec exists *)
(* when it is used, and a port is populated when it has all its buffers    *)
(* (but for the windows of FreeBuffer).  As long as the client passes in   *)
(* only buffers it holds, no buffer is queued twice and frames are encoded *)
(* in the order they came in; if FillThisBuffer is not called from a       *)
(* callback either, every buffer has one owner.  If the client is careful, *)
(* a command that takes the buffers away leaves none behind; if both, the  *)
(* component does what OmxComponent says of it.                            *)
(***************************************************************************)
EXTENDS Encoder, SequenceTheorems, FiniteSetTheorems, TLAPS

(* What the component thread knows at each place: the command it carries   *)
(* out, and that nobody takes away the buffers it works on.                *)
ThreadOK ==
  /\ pc = "setstate" => cmd.op = "StateSet"
  /\ (pc \in {"return", "returning"} /\ cmd.op = "StateSet") => Transition \in ToIdle
  /\ pc \in {"return", "returning"} => cmd.op \in {"StateSet", "Flush", "Disable"}
  /\ pc = "dealloc" => cmd.op = "Disable"
  /\ pc = "enable" => cmd.op = "Enable"
  /\ pc = "returning" => /\ todo # <<>> /\ idx >= 1
                         /\ count <= Len(queue[Head(todo)])
  /\ pc \in {"startpop", "endpop"} => queue["out"] # <<>>
  /\ pc \in {"output", "eos", "endpop", "done", "inputpop"} => queue["in"] # <<>>
  /\ pc = "output" => left >= 1 /\ (copied => left <= Len(frames))
  /\ deinit = "done" => pc = "exited"

IInv == TypeOK /\ ThreadOK

(* The fields of a command.                                                *)
LEMMA CommandTypes ==
  /\ \A c \in Commands : /\ c.op \in {"StateSet", "Flush", "Disable", "Enable", "Exit"}
                         /\ c.to \in States
                         /\ c.on \in PortLists \cup {<<>>}
  /\ ClientCommands \subseteq Commands
  /\ ExitLoop \in Commands
BY DEF Commands, ClientCommands, ExitLoop, StateSet, Flush, Disable, Enable, States

(* The lists of ports a command deals with.                                *)
LEMMA PortListTypes ==
  /\ <<"in", "out">> \in PortLists
  /\ \A ps \in PortLists : Head(ps) \in Ports /\ Tail(ps) \in PortLists \cup {<<>>}
BY DEF PortLists, Ports

(* Every buffer belongs to a port.                                         *)
LEMMA PortOfType == \A b \in Buffers : PortOf(b) \in Ports
BY DEF PortOf, Ports

(* The component starts in Loaded, idle and empty.                         *)
LEMMA InitIInv == Init => IInv
<1> SUFFICES ASSUME Init PROVE IInv
  OBVIOUS
<1>1. "Loaded" \in States /\ ExitLoop \in Commands
  BY CommandTypes DEF States
<1>2. /\ queue \in [Ports -> Seq(Buffers)] /\ cmds \in Seq(Commands) /\ frames \in Seq(Nat)
      /\ todo \in PortLists \cup {<<>>}
  BY DEF Init
<1>3. /\ enabled \in [Ports -> BOOLEAN] /\ populated \in [Ports -> BOOLEAN]
      /\ allocated \in [Ports -> SUBSET Buffers] /\ held \in [Ports -> SUBSET Buffers]
      /\ contents \in [Buffers -> Nat]
  BY DEF Init
<1>4. TypeOK
  BY <1>1, <1>2, <1>3, Zenon
  DEF Init, TypeOK, CompType, PortsType, ThreadType, DataType, ClientType
<1>5. ThreadOK
  BY DEF Init, ThreadOK
<1> QED BY <1>4, <1>5 DEF IInv

(* A part of the state that does not change keeps its type.                *)
LEMMA Unchanged ==
  ASSUME TypeOK
  PROVE  /\ UNCHANGED comp => CompType'
         /\ UNCHANGED ports => PortsType'
         /\ UNCHANGED cmds => cmds' \in Seq(Commands)
         /\ UNCHANGED thread => ThreadType'
         /\ UNCHANGED data => DataType'
         /\ UNCHANGED client => ClientType'
BY DEF TypeOK, comp, ports, thread, data, client, calls,
       CompType, PortsType, ThreadType, DataType, ClientType

(* A queue to which a buffer is added.                                     *)
LEMMA Pushed ==
  ASSUME PortsType, NEW p \in Ports, NEW b \in Buffers,
         queue' = [queue EXCEPT ![p] = Append(@, b)]
  PROVE  /\ queue' \in [Ports -> Seq(Buffers)]
         /\ Len(queue[p]) \in Nat
         /\ \A r \in Ports : /\ queue[r] # <<>> => queue'[r] # <<>>
                             /\ Len(queue'[r]) >= Len(queue[r])
<1>1. queue[p] \in Seq(Buffers)
  BY DEF PortsType
<1>2. /\ Append(queue[p], b) \in Seq(Buffers) /\ Append(queue[p], b) # <<>>
      /\ Len(Append(queue[p], b)) = Len(queue[p]) + 1
  BY <1>1, AppendProperties
<1>3. \A r \in Ports : queue'[r] = IF r = p THEN Append(queue[p], b) ELSE queue[r]
  BY DEF PortsType
<1>4. \A r \in Ports : Len(queue[r]) \in Nat
  BY LenProperties DEF PortsType
<1> QED BY <1>1, <1>2, <1>3, <1>4 DEF PortsType

(* A queue whose first buffer is removed.                                  *)
LEMMA Popped ==
  ASSUME PortsType, NEW p \in Ports, queue[p] # <<>>,
         queue' = [queue EXCEPT ![p] = Tail(@)]
  PROVE  /\ queue' \in [Ports -> Seq(Buffers)]
         /\ \A r \in Ports : r # p => queue'[r] = queue[r]
<1>1. Tail(queue[p]) \in Seq(Buffers)
  BY HeadTailProperties DEF PortsType
<1> QED BY <1>1 DEF PortsType

(* What the client does keeps the invariant.                               *)
LEMMA ClientIInv == IInv /\ ClientStep => IInv'
<1> SUFFICES ASSUME IInv, ClientStep PROVE IInv'
  OBVIOUS
<1>1. ASSUME NEW c \in Requests, SendCommand(c) PROVE IInv'
  <2>1. c \in Commands /\ c.to \in States
    BY CommandTypes, EncoderAssumption DEF EncoderAssumption
  <2>2. Append(cmds, c) \in Seq(Commands)
    BY <2>1, AppendProperties DEF IInv, TypeOK
  <2>3. enabled' \in [Ports -> BOOLEAN]
    BY <1>1, Zenon DEF SendCommand, IInv, TypeOK, PortsType
  <2>4. TypeOK'
    BY <1>1, <2>1, <2>2, <2>3, Unchanged
    DEF IInv, TypeOK, CompType, PortsType, ClientType, SendCommand, thread, data, calls
  <2>5. ThreadOK'
    BY <1>1 DEF IInv, ThreadOK, SendCommand, Transition, thread, data
  <2> QED BY <2>4, <2>5 DEF IInv
<1>2. ASSUME NEW b \in Buffers, AllocateBuffer(b) PROVE IInv'
  <2>1. PortOf(b) \in Ports
    BY PortOfType
  <2>2. crossed' \in SUBSET Ports
    BY <1>2, <2>1, Zenon DEF IInv, TypeOK, ClientType, AllocateBuffer
  <2>3. PortsType' /\ ClientType'
    BY <1>2, <2>1, <2>2 DEF IInv, TypeOK, PortsType, ClientType, AllocateBuffer
  <2>4. TypeOK'
    BY <1>2, <2>3, Unchanged DEF IInv, TypeOK, AllocateBuffer
  <2>5. ThreadOK'
    BY <1>2 DEF IInv, ThreadOK, AllocateBuffer, Transition, comp, thread, data
  <2> QED BY <2>4, <2>5 DEF IInv
<1>3. ASSUME NEW b \in Buffers, FreeBuffer(b) PROVE IInv'
  <2>1. PortOf(b) \in Ports
    BY PortOfType
  <2>2. allocated' \in [Ports -> SUBSET Buffers]
    BY <1>3, <2>1 DEF IInv, TypeOK, PortsType, FreeBuffer
  <2>3. freeing' \in SUBSET Buffers
    BY <1>3, Zenon DEF IInv, TypeOK, ClientType, FreeBuffer
  <2>4. ClientType'
    BY <1>3, <2>1, <2>3 DEF IInv, TypeOK, ClientType, FreeBuffer
  <2>5. TypeOK'
    BY <1>3, <2>2, <2>4, Unchanged DEF IInv, TypeOK, PortsType, FreeBuffer
  <2>6. ThreadOK'
    BY <1>3 DEF IInv, ThreadOK, FreeBuffer, Transition, comp, thread, data
  <2> QED BY <2>5, <2>6 DEF IInv
<1>9. ASSUME NEW b \in Buffers, Unpopulate(b) PROVE IInv'
  <2>1. populated' \in [Ports -> BOOLEAN]
    BY <1>9 DEF IInv, TypeOK, PortsType, Unpopulate
  <2>2. freeing' \in SUBSET Buffers /\ crossed' \in SUBSET Ports
    BY <1>9 DEF IInv, TypeOK, ClientType, Unpopulate
  <2>3. PortsType' /\ ClientType'
    BY <1>9, <2>1, <2>2 DEF IInv, TypeOK, PortsType, ClientType, Unpopulate
  <2>4. TypeOK'
    BY <1>9, <2>3, Unchanged DEF IInv, TypeOK, Unpopulate
  <2>5. ThreadOK'
    BY <1>9 DEF IInv, ThreadOK, Unpopulate, Transition, comp, thread, data
  <2> QED BY <2>4, <2>5 DEF IInv
<1>4. ASSUME NEW b \in Buffers, SubmitCheck(b) PROVE IInv'
  <2>1. PortOf(b) \in Ports
    BY PortOfType
  <2>2. ClientType'
    BY <1>4, <2>1 DEF IInv, TypeOK, ClientType, SubmitCheck, MayPass
  <2>3. TypeOK'
    BY <1>4, <2>2, Unchanged DEF IInv, TypeOK, SubmitCheck
  <2>4. ThreadOK'
    BY <1>4 DEF IInv, ThreadOK, SubmitCheck, Transition, comp, ports, thread, data
  <2> QED BY <2>3, <2>4 DEF IInv
<1>5. ASSUME NEW b \in Buffers, SubmitFromCallback(b) PROVE IInv'
  <2>1. PortOf(b) \in Ports
    BY PortOfType
  <2>2. queue' = [queue EXCEPT ![PortOf(b)] = Append(@, b)]
    BY <1>5 DEF SubmitFromCallback
  <2>3. PortsType
    BY DEF IInv, TypeOK
  <2>4. /\ queue' \in [Ports -> Seq(Buffers)]
        /\ \A r \in Ports : /\ queue[r] # <<>> => queue'[r] # <<>>
                            /\ Len(queue'[r]) >= Len(queue[r])
    BY <2>1, <2>2, <2>3, Pushed
  <2>5. PortsType' /\ ClientType'
    BY <1>5, <2>1, <2>4 DEF IInv, TypeOK, PortsType, ClientType, SubmitFromCallback, MayPass
  <2>6. TypeOK'
    BY <1>5, <2>5, Unchanged DEF IInv, TypeOK, SubmitFromCallback
  <2>7. pc' = "returning" => count' <= Len(queue'[Head(todo')])
    <3> SUFFICES ASSUME pc = "returning" PROVE count <= Len(queue'[Head(todo)])
      BY <1>5 DEF SubmitFromCallback, thread
    <3>1. todo # <<>> /\ count <= Len(queue[Head(todo)]) /\ count \in Nat
          /\ Head(todo) \in Ports
      BY PortListTypes DEF IInv, ThreadOK, TypeOK, ThreadType
    <3>2. Len(queue[Head(todo)]) \in Nat /\ Len(queue'[Head(todo)]) \in Nat
      BY <2>4, <3>1, LenProperties DEF IInv, TypeOK, PortsType
    <3> QED BY <2>4, <3>1, <3>2
  <2>8. ThreadOK'
    BY <1>5, <2>4, <2>7 DEF IInv, ThreadOK, SubmitFromCallback, Transition, Ports, comp,
        thread, data
  <2> QED BY <2>6, <2>8 DEF IInv
<1>6. CASE SubmitPush
  <2>1. submitting \in Buffers /\ PortOf(submitting) \in Ports
    BY <1>6, PortOfType DEF IInv, TypeOK, ClientType, SubmitPush
  <2>2. \/ queue' = [queue EXCEPT ![PortOf(submitting)] = Append(@, submitting)]
        \/ queue' = [queue EXCEPT ![PortOf(submitting)] = @]
    BY <1>6 DEF SubmitPush
  <2>3. PortsType
    BY DEF IInv, TypeOK
  <2>4. /\ queue' \in [Ports -> Seq(Buffers)]
        /\ \A r \in Ports : /\ queue[r] # <<>> => queue'[r] # <<>>
                            /\ Len(queue'[r]) >= Len(queue[r])
    <3>1. CASE queue' = [queue EXCEPT ![PortOf(submitting)] = Append(@, submitting)]
      BY <2>1, <2>3, <3>1, Pushed
    <3>2. CASE queue' = [queue EXCEPT ![PortOf(submitting)] = @]
      <4>1. queue' = queue /\ \A r \in Ports : Len(queue[r]) \in Nat
        BY <2>3, <3>2, LenProperties DEF PortsType
      <4> QED BY <2>3, <4>1 DEF PortsType
    <3> QED BY <2>2, <3>1, <3>2
  <2>5. PortsType' /\ ClientType'
    BY <1>6, <2>1, <2>4 DEF IInv, TypeOK, PortsType, ClientType, SubmitPush, calls
  <2>6. TypeOK'
    BY <1>6, <2>5, Unchanged DEF IInv, TypeOK, SubmitPush
  <2>7. pc' = "returning" => count' <= Len(queue'[Head(todo')])
    <3> SUFFICES ASSUME pc = "returning" PROVE count <= Len(queue'[Head(todo)])
      BY <1>6 DEF SubmitPush, thread
    <3>1. todo # <<>> /\ count <= Len(queue[Head(todo)]) /\ count \in Nat
          /\ Head(todo) \in Ports
      BY PortListTypes DEF IInv, ThreadOK, TypeOK, ThreadType
    <3>2. Len(queue[Head(todo)]) \in Nat /\ Len(queue'[Head(todo)]) \in Nat
      BY <2>4, <3>1, LenProperties DEF IInv, TypeOK, PortsType
    <3> QED BY <2>4, <3>1, <3>2
  <2>8. ThreadOK'
    BY <1>6, <2>4, <2>7 DEF IInv, ThreadOK, SubmitPush, Transition, Ports, comp,
        thread, data
  <2> QED BY <2>6, <2>8 DEF IInv
<1>7. CASE Deinit
  <2>1. cmds' \in Seq(Commands)
    BY <1>7, CommandTypes, AppendProperties DEF IInv, TypeOK, Deinit
  <2>2. TypeOK'
    BY <1>7, <2>1, Unchanged DEF IInv, TypeOK, CompType, ClientType, Deinit, calls
  <2>3. ThreadOK'
    BY <1>7 DEF IInv, ThreadOK, Deinit, Transition, ports, thread, data
  <2> QED BY <2>2, <2>3 DEF IInv
<1>8. CASE DeinitJoined
  <2>1. codec' \in BOOLEAN
    BY <1>8, Zenon DEF DeinitJoined
  <2>2. /\ queue' \in [Ports -> Seq(Buffers)] /\ populated' \in [Ports -> BOOLEAN]
        /\ allocated' \in [Ports -> SUBSET Buffers] /\ held' \in [Ports -> SUBSET Buffers]
        /\ cmds' \in Seq(Commands)
    BY <1>8 DEF DeinitJoined
  <2>3. CompType' /\ PortsType' /\ ClientType'
    BY <1>8, <2>1, <2>2 DEF IInv, TypeOK, CompType, PortsType, ClientType, DeinitJoined, calls
  <2>4. TypeOK'
    BY <1>8, <2>2, <2>3, Unchanged DEF IInv, TypeOK, DeinitJoined
  <2>5. ThreadOK'
    BY <1>8 DEF IInv, ThreadOK, DeinitJoined, thread
  <2> QED BY <2>4, <2>5 DEF IInv
<1> QED BY <1>1, <1>2, <1>3, <1>4, <1>5, <1>6, <1>7, <1>8, <1>9 DEF ClientStep

(* The frame buffer may be emptied while the rest of its state stays.      *)
LEMMA FramesDropped ==
  ASSUME DataType, frames' \in Seq(Nat),
         left' = left, copied' = copied, last' = last, header' = header
  PROVE  DataType'
BY DEF DataType

(* What the thread does when it polls or carries out a command keeps the   *)
(* invariant.                                                              *)
LEMMA CommandIInv == IInv /\ (Loop \/ Select \/ Input \/ CommandStep) => IInv'
<1> SUFFICES ASSUME IInv, Loop \/ Select \/ Input \/ CommandStep PROVE IInv'
  OBVIOUS
<1> USE DEF IInv, TypeOK, CompType, ThreadType, ThreadOK, Transition, Goto, ThreadUnchanged
<1>1. CASE Loop
  BY <1>1, Unchanged DEF Loop, comp, ports, data, client
<1>2. CASE Select
  BY <1>2, Unchanged DEF Select, comp, ports, data, client
<1>3. CASE Input
  BY <1>3, Unchanged DEF Input, comp, ports, data, client
<1>4. CASE TakeCommand
  <2>1. Head(cmds) \in Commands /\ Tail(cmds) \in Seq(Commands)
    BY <1>4, HeadTailProperties DEF TakeCommand
  <2>2. /\ cmd' \in Commands /\ todo' \in PortLists \cup {<<>>} /\ cmds' \in Seq(Commands)
        /\ cmd'.op \in {"StateSet", "Flush", "Disable", "Enable", "Exit"}
    BY <1>4, <2>1, CommandTypes DEF TakeCommand
  <2>3. run' \in BOOLEAN
    BY <1>4, Zenon DEF TakeCommand
  <2>4. /\ pc' \in {"setstate", "return", "enable", "input"}
        /\ pc' = "setstate" => cmd'.op = "StateSet"
        /\ pc' = "return" => cmd'.op \in {"Flush", "Disable"}
        /\ pc' = "enable" => cmd'.op = "Enable"
    BY <1>4, <2>2 DEF TakeCommand, Handler
  <2>5. TypeOK'
    BY <1>4, <2>2, <2>3, <2>4, Unchanged DEF TakeCommand
  <2>6. ThreadOK'
    BY <1>4, <2>4 DEF TakeCommand, client
  <2> QED BY <2>5, <2>6
<1>5. CASE Drained
  BY <1>5, Unchanged DEF Drained, comp, ports, data, client
<1>6. CASE SameState
  BY <1>6, Unchanged DEF SameState, comp, ports, data, client
<1>7. CASE IncorrectTransition
  BY <1>7, Unchanged DEF IncorrectTransition, comp, ports, data, client
<1>8. CASE SetInvalid
  BY <1>8, Unchanged DEF SetInvalid, Fail, States, comp, ports, data, client
<1>9. CASE DirectTransition
  BY <1>9, Unchanged, CommandTypes
  DEF DirectTransition, TransitionComplete, comp, ports, data, client
<1>10. CASE LoadedToIdle
  <2>1. CompType'
    BY <1>10, CommandTypes DEF LoadedToIdle, TransitionComplete
  <2>2. frames' \in Seq(Nat)
    BY <1>10 DEF LoadedToIdle
  <2>3. DataType'
    BY <1>10, <2>2, Zenon DEF LoadedToIdle, DataType
  <2>4. TypeOK'
    BY <1>10, <2>1, <2>3, Unchanged DEF LoadedToIdle, TransitionComplete
  <2>5. ThreadOK'
    BY <1>10 DEF LoadedToIdle, TransitionComplete, client
  <2> QED BY <2>4, <2>5
<1>11. CASE LoadedToIdleFails
  BY <1>11, Unchanged DEF LoadedToIdleFails, Fail, States, comp, ports, data, client
<1>12. CASE ToIdleBegin
  BY <1>12, Unchanged, PortListTypes DEF ToIdleBegin, comp, ports, data, client
<1>13. CASE ToIdleEnd
  <2>1. streamStarted' \in BOOLEAN
    BY <1>13, Zenon DEF ToIdleEnd
  <2> QED
    BY <1>13, <2>1, Unchanged, CommandTypes
    DEF ToIdleEnd, TransitionComplete, comp, ports, data, client
<1>14. CASE IdleToLoaded
  <2>1. CompType'
    BY <1>14, CommandTypes DEF IdleToLoaded, TransitionComplete
  <2>2. DataType'
    BY <1>14 DEF IdleToLoaded, DataType
  <2>3. TypeOK'
    BY <1>14, <2>1, <2>2, Unchanged DEF IdleToLoaded, TransitionComplete
  <2>4. ThreadOK'
    BY <1>14 DEF IdleToLoaded, TransitionComplete, client
  <2> QED BY <2>3, <2>4
<1>15. CASE ReturnLock
  <2>1. Head(todo) \in Ports
    BY <1>15, PortListTypes DEF ReturnLock
  <2>2. Len(queue[Head(todo)]) \in Nat
    BY <2>1, LenProperties DEF PortsType
  <2> QED
    BY <1>15, <2>2, Unchanged DEF ReturnLock, comp, ports, data, client
<1>16. CASE ReturnOne
  <2>1. Head(todo) \in Ports
    BY <1>16, PortListTypes DEF ReturnOne
  <2>2. queue[Head(todo)] \in Seq(Buffers) /\ idx \in 1..Len(queue[Head(todo)])
    BY <1>16, <2>1, LenProperties DEF ReturnOne, PortsType
  <2>3. queue[Head(todo)][idx] \in Buffers
    BY <2>2, ElementOfSeq
  <2>4. ClientType'
    BY <1>16, <2>1, <2>3 DEF ReturnOne, Return, ClientType, calls
  <2>5. TypeOK'
    BY <1>16, <2>4, Unchanged DEF ReturnOne
  <2>6. ThreadOK'
    BY <1>16 DEF ReturnOne, comp, ports, data
  <2> QED BY <2>5, <2>6
<1>17. CASE ReturnUnlock
  <2>1. Head(todo) \in Ports /\ Tail(todo) \in PortLists \cup {<<>>}
    BY <1>17, PortListTypes DEF ReturnUnlock
  <2>2. PortsType'
    BY <1>17, <2>1 DEF ReturnUnlock, PortsType
  <2> QED
    BY <1>17, <2>1, <2>2, Unchanged DEF ReturnUnlock, comp, data, client
<1>18. CASE FlushComplete
  BY <1>18, Unchanged DEF FlushComplete, comp, ports, data, client
<1>19. CASE DisableReturned
  BY <1>19, Unchanged, CommandTypes DEF DisableReturned, comp, ports, data, client
<1>20. CASE Deallocated
  BY <1>20, Unchanged, PortListTypes DEF Deallocated, comp, ports, data, client
<1>21. CASE EnablePort
  BY <1>21, Unchanged, PortListTypes DEF EnablePort, comp, ports, data, client
<1> QED BY <1>1, <1>2, <1>3, <1>4, <1>5, <1>6, <1>7, <1>8, <1>9, <1>10, <1>11, <1>12, <1>13,
           <1>14, <1>15, <1>16, <1>17, <1>18, <1>19, <1>20, <1>21, Zenon DEF CommandStep

(* Encoding keeps the invariant: the input buffer stays in its queue until *)
(* the thread itself removes it.                                           *)
LEMMA EncodeIInv == IInv /\ EncodeStep => IInv'
<1> SUFFICES ASSUME IInv, EncodeStep PROVE IInv'
  OBVIOUS
<1> USE DEF IInv, TypeOK, CompType, ThreadType, ThreadOK, Transition, Goto, ThreadUnchanged
<1>a. "in" \in Ports /\ "out" \in Ports
  BY DEF Ports
<1>b. ~NoOutput => Head(queue["out"]) \in Buffers
  BY <1>a, HeadTailProperties DEF NoOutput, PortsType
<1>c. queue["in"] # <<>> => Head(queue["in"]) \in Buffers
  BY <1>a, HeadTailProperties DEF PortsType
<1>1. CASE StartStream
  <2>1. ClientType' /\ DataType'
    BY <1>1, <1>a, <1>b DEF StartStream, Return, ClientType, calls, DataType
  <2> QED
    BY <1>1, <2>1, Unchanged DEF StartStream, NoOutput, ports
<1>2. CASE StartPop
  <2>1. PortsType'
    BY <1>2, <1>a, Popped DEF StartPop, Pop, PortsType
  <2> QED
    BY <1>2, <2>1, Unchanged DEF StartPop, Pop, comp, data, client
<1>3. CASE StartGivesUp
  BY <1>3, Unchanged DEF StartGivesUp, comp, ports, data, client
<1>4. CASE EncodeFails
  BY <1>4, Unchanged DEF EncodeFails, Fail, States, comp, ports, data, client
<1>5. CASE NoFrame
  BY <1>5, Unchanged DEF NoFrame, comp, ports, data, client
<1>6. CASE TakeFrame
  <2>1. contents[Head(queue["in"])] \in Nat
    BY <1>6, <1>c DEF TakeFrame, ClientType, calls
  <2>2. /\ Behind(Head(queue["in"])) \in Seq(Nat)
        /\ Len(Behind(Head(queue["in"]))) \in Nat \ {0}
    BY <2>1, AppendProperties, LenProperties DEF Behind, DataType
  <2>3. /\ copied' \in BOOLEAN
        /\ copied' = (Head(queue["in"]) \notin OwnBuffers \/ frames # <<>>)
    BY <1>6, Zenon DEF TakeFrame
  <2>4. /\ frames' = IF copied' THEN Behind(Head(queue["in"])) ELSE frames
        /\ left' = IF copied' THEN Len(frames') ELSE 1
    BY <1>6 DEF TakeFrame
  <2>5. /\ frames' \in Seq(Nat) /\ left' \in Nat /\ left' >= 1
        /\ copied' => left' <= Len(frames')
    BY <2>2, <2>4 DEF DataType
  <2>6. DataType'
    BY <1>6, <2>3, <2>5 DEF TakeFrame, DataType
  <2>7. TypeOK'
    BY <1>6, <2>6, Unchanged DEF TakeFrame
  <2>8. ThreadOK'
    BY <1>6, <2>5 DEF TakeFrame, ports, client
  <2> QED BY <2>7, <2>8
<1>7. CASE EncodeFrame
  <2>1. /\ queue["in"] # <<>> /\ left \in Nat /\ left >= 1
        /\ copied => left <= Len(frames)
        /\ frames \in Seq(Nat) /\ contents[Head(queue["in"])] \in Nat
    BY <1>7, <1>c DEF EncodeFrame, ClientType, calls, DataType
  <2>2. last' \in Nat
    <3>1. CASE copied
      BY <1>7, <2>1, <3>1, LenProperties, ElementOfSeq DEF EncodeFrame, NextFrame
    <3>2. CASE ~copied
      BY <1>7, <2>1, <3>2 DEF EncodeFrame, NextFrame
    <3> QED BY <3>1, <3>2
  <2>3. left' \in Nat /\ (left # 1 => left' >= 1)
    BY <1>7, <2>1 DEF EncodeFrame
  <2>4. /\ frames' \in Seq(Nat)
        /\ (copied /\ left # 1) => Len(frames') = Len(frames)
    <3>1. CASE copied /\ left # 1
      <4> DEFINE f == [i \in DOMAIN frames |-> IF i < left THEN frames[i + 1] ELSE frames[i]]
      <4>1. frames' = f
        BY <1>7, <3>1 DEF EncodeFrame
      <4>2. /\ Len(frames) \in Nat /\ DOMAIN frames = 1..Len(frames)
            /\ \A i \in 1..Len(frames) : frames[i] \in Nat
        BY <2>1, LenProperties, ElementOfSeq
      <4>3. \A i \in 1..Len(frames) : f[i] \in Nat
        BY <2>1, <3>1, <4>2
      <4>4. f \in Seq(Nat) /\ Len(f) = Len(frames)
        <5>1. f \in [1..Len(frames) -> Nat]
          BY <4>2, <4>3
        <5>2. f \in Seq(Nat)
          BY <4>2, <5>1, SeqDef
        <5>3. DOMAIN f = 1..Len(frames)
          BY <4>2
        <5> HIDE DEF f
        <5> QED BY <4>2, <5>2, <5>3, LenProperties
      <4> QED BY <4>1, <4>4
    <3>2. CASE ~(copied /\ left # 1)
      BY <1>7, <2>1, <3>2 DEF EncodeFrame
    <3> QED BY <3>1, <3>2
  <2>5. DataType'
    BY <1>7, <2>2, <2>3, <2>4 DEF EncodeFrame, DataType
  <2>6. ClientType'
    BY <1>7, <1>a, <1>b DEF EncodeFrame, Return, ClientType, calls
  <2>7. PortsType' /\ queue'["in"] = queue["in"]
    BY <1>7, <1>a, Popped DEF EncodeFrame, NoOutput, PortsType
  <2>8. pc' = (IF left = 1 THEN AfterFrames ELSE "output") /\ AfterFrames \in {"eos", "done"}
    BY <1>7 DEF EncodeFrame, AfterFrames
  <2>9. TypeOK'
    BY <1>7, <2>5, <2>6, <2>7, <2>8, Unchanged DEF EncodeFrame
  <2>10. ThreadOK'
    BY <1>7, <2>1, <2>3, <2>4, <2>7, <2>8 DEF EncodeFrame
  <2> QED BY <2>9, <2>10
<1>8. CASE Overflow
  <2>1. AfterFrames \in {"eos", "done"}
    BY DEF AfterFrames
  <2>2. pc' \in {"eos", "done", "loop"} /\ CompType'
    BY <1>8, <2>1 DEF Overflow, Fail, States, comp
  <2>3. frames' = frames \/ frames' = <<>>
    BY <1>8 DEF Overflow
  <2>4. frames' \in Seq(Nat)
    BY <2>3, EmptySeq, Zenon DEF DataType
  <2>5. left' = left /\ copied' = copied /\ last' = last /\ header' = header
    BY <1>8 DEF Overflow
  <2>6. DataType'
    BY <2>4, <2>5, FramesDropped
  <2>7. TypeOK'
    BY <1>8, <2>2, <2>6, Unchanged DEF Overflow
  <2>8. ThreadOK'
    BY <1>8, <2>2 DEF Overflow, ports, client
  <2> QED BY <2>7, <2>8
<1>9. CASE Abandon
  BY <1>9, Unchanged DEF Abandon, comp, ports, data, client
<1>10. CASE EndStream
  <2>1. ClientType'
    BY <1>10, <1>a, <1>b DEF EndStream, Return, ClientType, calls
  <2> QED
    BY <1>10, <2>1, Unchanged DEF EndStream, NoOutput, ports, data
<1>11. CASE EndPop
  <2>1. PortsType' /\ queue'["in"] = queue["in"]
    BY <1>11, <1>a, Popped DEF EndPop, Pop, PortsType
  <2> QED
    BY <1>11, <2>1, Unchanged DEF EndPop, Pop, comp, data, client
<1>12. CASE EndStreamFails
  BY <1>12, Unchanged DEF EndStreamFails, comp, ports, data, client
<1>13. CASE InputDone
  <2>1. ClientType'
    BY <1>13, <1>a, <1>c DEF InputDone, Return, ClientType, calls
  <2> QED
    BY <1>13, <2>1, Unchanged DEF InputDone, comp, ports, data
<1>14. CASE InputPop
  <2>1. PortsType'
    BY <1>14, <1>a, Popped DEF InputPop, Pop, PortsType
  <2> QED
    BY <1>14, <2>1, Unchanged DEF InputPop, Pop, comp, data, client
<1> QED BY <1>1, <1>2, <1>3, <1>4, <1>5, <1>6, <1>7, <1>8, <1>9, <1>10, <1>11, <1>12, <1>13,
           <1>14, Zenon DEF EncodeStep

(* Every step keeps the invariant.                                         *)
LEMMA NextIInv == IInv /\ [Next]_vars => IInv'
<1> SUFFICES ASSUME IInv, [Next]_vars PROVE IInv'
  OBVIOUS
<1>1. CASE ClientStep
  BY <1>1, ClientIInv
<1>2. CASE ThreadStep
  BY <1>2, CommandIInv, EncodeIInv DEF ThreadStep
<1>3. CASE UNCHANGED vars
  <2>1. TypeOK'
    BY <1>3, Unchanged DEF vars, IInv, TypeOK
  <2>2. ThreadOK'
    BY <1>3 DEF vars, comp, ports, thread, data, client, IInv, ThreadOK, Transition
  <2> QED BY <2>1, <2>2 DEF IInv
<1> QED BY <1>1, <1>2, <1>3 DEF Next

(* The invariant holds in every reachable state.                           *)
THEOREM Invariance == Spec => []IInv
BY InitIInv, NextIInv, PTL DEF Spec

(* The encoder's variables keep their types whatever the client and the    *)
(* component thread do.                                                    *)
THEOREM TypeCorrect == Spec => []TypeOK
<1>1. IInv => TypeOK
  BY DEF IInv
<1> QED BY <1>1, Invariance, PTL

(* A codec exists whenever the state or the encode function needs one, and *)
(* none is left over in Loaded.                                            *)
LEMMA NextCodecExists == IInv /\ CodecExists /\ [Next]_vars => CodecExists'
<1> SUFFICES ASSUME IInv, CodecExists, [Next]_vars PROVE CodecExists'
  OBVIOUS
<1> USE DEF CodecExists, Encoding
<1>1. CASE ClientStep
  <2>1. CASE DeinitJoined
    BY <2>1 DEF IInv, TypeOK, CompType, DeinitJoined, thread
  <2>2. CASE ~DeinitJoined
    <3>1. state' = state /\ codec' = codec /\ pc' = pc /\ (deinit' # "done" => deinit # "done")
      BY <1>1, <2>2
      DEF ClientStep, SendCommand, AllocateBuffer, FreeBuffer, Unpopulate, SubmitCheck,
          SubmitFromCallback, SubmitPush, Deinit, comp, thread, CanCall
    <3> QED BY <3>1
  <2> QED BY <2>1, <2>2
<1>2. CASE Input
  BY <1>2 DEF Input, Goto, Encodes, IInv, ThreadOK, comp, client
<1>3. CASE LoadedToIdle
  BY <1>3 DEF LoadedToIdle, TransitionComplete, Transition, Goto, client
<1>4. CASE IdleToLoaded
  BY <1>4 DEF IdleToLoaded, TransitionComplete, Transition, Goto, client
<1>5. CASE DirectTransition
  BY <1>5 DEF DirectTransition, Direct, TransitionComplete, Transition, Goto,
              ThreadUnchanged, client
<1>6. CASE ToIdleEnd
  BY <1>6 DEF ToIdleEnd, ToIdle, TransitionComplete, Transition, Goto,
              ThreadUnchanged, client, IInv, ThreadOK
<1>7. CASE SetInvalid \/ LoadedToIdleFails \/ EncodeFails \/ (Overflow /\ ~copied)
  <2>1. state' = "Invalid" /\ pc' \in {"drain", "loop"}
    BY <1>7 DEF SetInvalid, LoadedToIdleFails, EncodeFails, Overflow, Fail, Goto
  <2> QED BY <2>1
<1>8. CASE Overflow /\ copied
  BY <1>8 DEF Overflow, AfterFrames, Goto, comp, client
<1>9. CASE TakeCommand
  <2>1. Head(cmds) \in Commands
    BY <1>9, HeadTailProperties DEF TakeCommand, IInv, TypeOK
  <2>2. pc' \in {"setstate", "return", "enable", "input"}
    BY <1>9, <2>1, CommandTypes DEF TakeCommand, Handler, Goto
  <2> QED BY <1>9, <2>2 DEF TakeCommand, client
<1>10. CASE \/ Loop \/ Select \/ Drained \/ SameState \/ IncorrectTransition \/ ToIdleBegin
            \/ ReturnLock \/ ReturnOne \/ ReturnUnlock \/ FlushComplete \/ DisableReturned
            \/ Deallocated \/ EnablePort
  <2>1. /\ state' = state /\ codec' = codec /\ deinit' = deinit
        /\ pc' \in {"select", "exited", "drain", "input", "return", "returning", "dealloc",
                    "enable"}
    BY <1>10
    DEF Loop, Select, Drained, SameState, IncorrectTransition, ToIdleBegin, ReturnLock,
        ReturnOne, ReturnUnlock, FlushComplete, DisableReturned, Deallocated, EnablePort,
        Goto, ThreadUnchanged, comp, client
  <2> QED BY <2>1
<1>11. CASE \/ StartStream \/ StartPop \/ StartGivesUp \/ NoFrame \/ TakeFrame \/ EncodeFrame
            \/ Abandon \/ EndStream \/ EndPop \/ EndStreamFails \/ InputDone \/ InputPop
  <2>1. state' = state /\ codec' = codec /\ deinit' = deinit /\ Encoding
    BY <1>11
    DEF StartStream, StartPop, StartGivesUp, NoFrame, TakeFrame, EncodeFrame, Abandon,
        EndStream, EndPop, EndStreamFails, InputDone, InputPop, Pop, ThreadUnchanged,
        comp, client
  <2> QED BY <2>1
<1>12. CASE UNCHANGED vars
  BY <1>12 DEF vars, comp, thread, client
<1>13. ThreadStep => \/ Input \/ LoadedToIdle \/ IdleToLoaded \/ DirectTransition \/ ToIdleEnd
                     \/ SetInvalid \/ LoadedToIdleFails \/ EncodeFails \/ Overflow
                     \/ TakeCommand
                     \/ Loop \/ Select \/ Drained \/ SameState \/ IncorrectTransition
                     \/ ToIdleBegin \/ ReturnLock \/ ReturnOne \/ ReturnUnlock
                     \/ FlushComplete \/ DisableReturned \/ Deallocated \/ EnablePort
                     \/ StartStream \/ StartPop \/ StartGivesUp \/ NoFrame \/ TakeFrame
                     \/ EncodeFrame \/ Abandon \/ EndStream \/ EndPop \/ EndStreamFails
                     \/ InputDone \/ InputPop
  BY Zenon DEF ThreadStep, CommandStep, EncodeStep
<1> QED BY <1>1, <1>2, <1>3, <1>4, <1>5, <1>6, <1>7, <1>8, <1>9, <1>10, <1>11, <1>12, <1>13
        DEF Next

(* The codec exists exactly from Idle up, and always while a frame is      *)
(* encoded: the assertions on codec of the transition functions and of     *)
(* async_video_encoder_encode never fail.                                  *)
THEOREM CodecAlwaysExists == Spec => []CodecExists
<1>1. Init => CodecExists
  BY DEF Init, CodecExists, Encoding
<1> QED BY <1>1, Invariance, NextCodecExists, PTL DEF Spec

(* A step that touches neither the states nor the queue nor the pending    *)
(* change keeps OneTransition.                                             *)
LEMMA SamePending ==
  ASSUME OneTransition,
         state' = state, statetrans' = statetrans, cmds' = cmds,
         deinit' # "done" => deinit # "done",
         (Busy /\ IsChange(cmd))' <=> (Busy /\ IsChange(cmd)),
         Busy' => cmd' = cmd
  PROVE  OneTransition'
BY DEF OneTransition, IsChange

(* A step that makes or refuses the change the thread works on keeps it.   *)
LEMMA ChangeAnswered ==
  ASSUME OneTransition, state # "Invalid", deinit # "done", Busy, IsChange(cmd),
         cmds' = cmds, statetrans' = state', ~Busy'
  PROVE  OneTransition'
BY DEF OneTransition, IsChange

(* Only an accepted StateSet, taking it from the queue and answering it    *)
(* touch the pending change of state.                                      *)
LEMMA NextOneTransition == IInv /\ OneTransition /\ [Next]_vars => OneTransition'
<1> SUFFICES ASSUME IInv, OneTransition, [Next]_vars PROVE OneTransition'
  OBVIOUS
<1>a. cmds \in Seq(Commands)
  BY DEF IInv, TypeOK
<1>1. ASSUME NEW c \in Requests, SendCommand(c) PROVE OneTransition'
  <2>1. c \in Commands
    BY CommandTypes, EncoderAssumption DEF EncoderAssumption
  <2>2. /\ cmds' = Append(cmds, c) /\ Len(cmds) \in Nat
        /\ Len(cmds') = Len(cmds) + 1
        /\ \A i \in 1..Len(cmds) : cmds'[i] = cmds[i]
        /\ cmds'[Len(cmds) + 1] = c
    BY <1>1, <1>a, <2>1, AppendProperties, LenProperties DEF SendCommand
  <2>3. state' = state /\ deinit' = deinit /\ Busy' = Busy /\ cmd' = cmd /\ state # "Invalid"
    BY <1>1 DEF SendCommand, Busy, thread
  <2>4. CASE c.op = "StateSet"
    <3>1. statetrans = state /\ statetrans' = c.to
      BY <1>1, <2>4 DEF SendCommand, Accepts
    <3>2. deinit # "done" => /\ ~(Busy /\ IsChange(cmd))
                             /\ \A i \in 1..Len(cmds) : ~IsChange(cmds[i])
      BY <2>3, <3>1 DEF OneTransition, IsChange
    <3> QED BY <2>2, <2>3, <2>4, <3>1, <3>2 DEF OneTransition, IsChange
  <2>5. CASE c.op # "StateSet"
    <3>1. statetrans' = statetrans
      BY <1>1, <2>5 DEF SendCommand
    <3> QED BY <2>2, <2>3, <2>5, <3>1 DEF OneTransition, IsChange
  <2> QED BY <2>4, <2>5
<1>2. ASSUME NEW b \in Buffers,
             \/ AllocateBuffer(b) \/ FreeBuffer(b) \/ Unpopulate(b)
             \/ SubmitCheck(b) \/ SubmitFromCallback(b)
      PROVE  OneTransition'
  <2>1. UNCHANGED <<comp, cmds, thread, deinit>>
    BY <1>2 DEF AllocateBuffer, FreeBuffer, Unpopulate, SubmitCheck, SubmitFromCallback
  <2> QED BY <2>1, SamePending DEF comp, thread, Busy, IsChange
<1>3. CASE SubmitPush \/ UNCHANGED vars
  <2>1. UNCHANGED <<comp, cmds, thread, deinit>>
    BY <1>3 DEF SubmitPush, vars, client
  <2> QED BY <2>1, SamePending DEF comp, thread, Busy, IsChange
<1>4. CASE Deinit
  <2>1. /\ cmds' = Append(cmds, ExitLoop) /\ Len(cmds) \in Nat
        /\ Len(cmds') = Len(cmds) + 1
        /\ \A i \in 1..Len(cmds) : cmds'[i] = cmds[i]
        /\ cmds'[Len(cmds) + 1].op = "Exit"
    BY <1>4, <1>a, CommandTypes, AppendProperties, LenProperties DEF Deinit, ExitLoop
  <2>2. /\ state' = state /\ statetrans' = statetrans /\ Busy' = Busy /\ cmd' = cmd
        /\ deinit # "done"
    BY <1>4 DEF Deinit, Busy, thread
  <2> QED BY <2>1, <2>2 DEF OneTransition, IsChange
<1>5. CASE DeinitJoined
  BY <1>5 DEF DeinitJoined, OneTransition
<1>6. CASE TakeCommand
  <2>1. /\ cmd' \in Commands /\ cmds' = Tail(cmds) /\ cmds # <<>>
        /\ Len(cmds) \in Nat \ {0} /\ Len(cmds') = Len(cmds) - 1
        /\ cmd' = cmds[1] /\ \A i \in 1..Len(cmds') : cmds'[i] = cmds[i + 1]
    BY <1>6, <1>a, HeadTailProperties, EmptySeq DEF TakeCommand
  <2>2. state' = state /\ statetrans' = statetrans /\ deinit' = deinit /\ ~Busy
    BY <1>6 DEF TakeCommand, client, Busy
  <2>3. cmd'.op = "StateSet" => Busy'
    BY <1>6 DEF TakeCommand, Handler, Goto, Busy
  <2> SUFFICES ASSUME state # "Invalid", deinit # "done"
               PROVE  /\ (Busy' /\ IsChange(cmd)') =>
                           /\ cmd'.to = statetrans
                           /\ \A i \in 1..Len(cmds') : cmds'[i].op # "StateSet"
                      /\ \A i \in 1..Len(cmds') : IsChange(cmds[i])' =>
                           /\ cmds'[i].to = statetrans
                           /\ \A j \in i+1..Len(cmds') : cmds'[j].op # "StateSet"
                      /\ statetrans # state =>
                           (Busy' /\ IsChange(cmd)') \/ \E i \in 1..Len(cmds') : IsChange(cmds[i])'
    BY <2>2 DEF OneTransition, IsChange
  <2>4. (Busy' /\ IsChange(cmd)') =>
           /\ cmd'.to = statetrans
           /\ \A i \in 1..Len(cmds') : cmds'[i].op # "StateSet"
    BY <2>1, <2>2 DEF OneTransition, IsChange
  <2>5. \A i \in 1..Len(cmds') : IsChange(cmds[i])' =>
           /\ cmds'[i].to = statetrans
           /\ \A j \in i+1..Len(cmds') : cmds'[j].op # "StateSet"
    BY <2>1, <2>2 DEF OneTransition, IsChange
  <2>6. ASSUME statetrans # state
        PROVE  (Busy' /\ IsChange(cmd)') \/ \E i \in 1..Len(cmds') : IsChange(cmds[i])'
    <3>1. PICK i \in 1..Len(cmds) : IsChange(cmds[i])
      BY <2>2, <2>6 DEF OneTransition
    <3>2. CASE i = 1
      BY <2>1, <2>2, <2>3, <3>1, <3>2 DEF IsChange
    <3>3. CASE i # 1
      <4>1. i - 1 \in 1..Len(cmds') /\ cmds'[i - 1] = cmds[i]
        BY <2>1, <3>3
      <4> QED BY <2>2, <3>1, <4>1 DEF IsChange
    <3> QED BY <3>2, <3>3
  <2> QED BY <2>4, <2>5, <2>6
<1>7. CASE DirectTransition \/ LoadedToIdle \/ IdleToLoaded \/ ToIdleEnd \/ IncorrectTransition
  <2>1. /\ cmds' = cmds /\ statetrans' = state' /\ pc' = "drain" /\ deinit' = deinit
    BY <1>7
    DEF DirectTransition, LoadedToIdle, IdleToLoaded, ToIdleEnd, IncorrectTransition,
        TransitionComplete, Goto, ThreadUnchanged, client
  <2>2. CASE state = "Invalid" \/ deinit = "done"
    <3>1. state' = state
      BY <1>7, <2>2
      DEF DirectTransition, LoadedToIdle, IdleToLoaded, ToIdleEnd, IncorrectTransition,
          IInv, ThreadOK, Transition, Direct, ToIdle
    <3> QED BY <2>1, <2>2, <3>1 DEF OneTransition
  <2>3. CASE state # "Invalid" /\ deinit # "done"
    <3>1. Busy /\ IsChange(cmd)
      BY <1>7
      DEF DirectTransition, LoadedToIdle, IdleToLoaded, ToIdleEnd, IncorrectTransition,
          IInv, ThreadOK, Transition, Direct, ToIdle, Busy, IsChange
    <3>2. ~Busy'
      BY <2>1 DEF Busy
    <3> QED BY <2>1, <2>3, <3>1, <3>2, ChangeAnswered
  <2> QED BY <2>2, <2>3
<1>8. CASE SetInvalid \/ LoadedToIdleFails \/ EncodeFails \/ (Overflow /\ ~copied)
  BY <1>8 DEF SetInvalid, LoadedToIdleFails, EncodeFails, Overflow, Fail, OneTransition
<1>9. CASE \/ Loop \/ Select \/ Input \/ Drained \/ SameState \/ ToIdleBegin \/ ReturnLock
           \/ ReturnOne \/ ReturnUnlock \/ FlushComplete \/ DisableReturned \/ Deallocated
           \/ EnablePort
  <2>1. /\ state' = state /\ statetrans' = statetrans /\ cmds' = cmds /\ deinit' = deinit
        /\ cmd' = cmd
    BY <1>9
    DEF Loop, Select, Input, Drained, SameState, ToIdleBegin, ReturnLock, ReturnOne,
        ReturnUnlock, FlushComplete, DisableReturned, Deallocated, EnablePort,
        ThreadUnchanged, comp, client
  <2>2. (Busy /\ IsChange(cmd))' <=> (Busy /\ IsChange(cmd))
    BY <1>9, <2>1
    DEF Loop, Select, Input, Drained, SameState, ToIdleBegin, ReturnLock, ReturnOne,
        ReturnUnlock, FlushComplete, DisableReturned, Deallocated, EnablePort, Goto,
        Busy, IsChange, IInv, ThreadOK
  <2> QED BY <2>1, <2>2, SamePending
<1>10. CASE \/ StartStream \/ StartPop \/ StartGivesUp \/ NoFrame \/ TakeFrame \/ EncodeFrame
            \/ Abandon \/ EndStream \/ EndPop \/ EndStreamFails \/ InputDone \/ InputPop
            \/ (Overflow /\ copied)
  <2>1. /\ state' = state /\ statetrans' = statetrans /\ cmds' = cmds /\ deinit' = deinit
        /\ cmd' = cmd
    BY <1>10
    DEF StartStream, StartPop, StartGivesUp, NoFrame, TakeFrame, EncodeFrame, Abandon,
        EndStream, EndPop, EndStreamFails, InputDone, InputPop, Pop, Overflow,
        ThreadUnchanged, comp, client
  <2>2. ~Busy /\ ~Busy'
    BY <1>10
    DEF StartStream, StartPop, StartGivesUp, NoFrame, TakeFrame, EncodeFrame, Abandon,
        EndStream, EndPop, EndStreamFails, InputDone, InputPop, Pop, Overflow,
        AfterFrames, Goto, Busy
  <2> QED BY <2>1, <2>2, SamePending
<1>11. ThreadStep => \/ TakeCommand \/ DirectTransition \/ LoadedToIdle \/ IdleToLoaded
                     \/ ToIdleEnd \/ IncorrectTransition
                     \/ SetInvalid \/ LoadedToIdleFails \/ EncodeFails \/ Overflow
                     \/ Loop \/ Select \/ Input \/ Drained \/ SameState \/ ToIdleBegin
                     \/ ReturnLock \/ ReturnOne \/ ReturnUnlock \/ FlushComplete
                     \/ DisableReturned \/ Deallocated \/ EnablePort
                     \/ StartStream \/ StartPop \/ StartGivesUp \/ NoFrame \/ TakeFrame
                     \/ EncodeFrame \/ Abandon \/ EndStream \/ EndPop \/ EndStreamFails
                     \/ InputDone \/ InputPop
  BY Zenon DEF ThreadStep, CommandStep, EncodeStep
<1> QED BY <1>1, <1>2, <1>3, <1>4, <1>5, <1>6, <1>7, <1>8, <1>9, <1>10, <1>11
        DEF Next, ClientStep

(* At most one change of state is pending, and statetrans names it: the    *)
(* assertions on state and statetrans of the transition functions never    *)
(* fail.                                                                   *)
THEOREM OneTransitionAtATime == Spec => []OneTransition
<1>1. Init => OneTransition
  BY DEF Init, OneTransition, Busy, IsChange
<1> QED BY <1>1, Invariance, NextOneTransition, PTL DEF Spec

(* A port has finitely many buffers.                                       *)
FiniteBuffers == \A p \in Ports : IsFiniteSet(allocated[p])

(* While FreeBuffer is between its two writes the port lacks a buffer.      *)
FreeingOK ==
  \A p \in Ports : Freeing(p) /\ p \notin crossed => Cardinality(allocated[p]) < Actual[p]

PopulatedOK == FiniteBuffers /\ FreeingOK /\ PopulatedIsFull

(* What is to be shown of one port.                                        *)
PortOK(p) ==
  /\ IsFiniteSet(allocated[p])
  /\ Freeing(p) /\ p \notin crossed => Cardinality(allocated[p]) < Actual[p]
  /\ populated[p] => Cardinality(allocated[p]) >= Actual[p] \/ Freeing(p)
  /\ p \notin crossed => /\ Cardinality(allocated[p]) <= Actual[p]
                         /\ Cardinality(allocated[p]) = Actual[p] => populated[p]

(* A port none of whose parts changes.                                     *)
LEMMA SamePort ==
  ASSUME NEW p \in Ports, PortOK(p), allocated'[p] = allocated[p],
         populated'[p] = populated[p], Freeing(p)' <=> Freeing(p), p \in crossed' <=> p \in crossed
  PROVE  PortOK(p)'
BY Zenon DEF PortOK

(* The component thread allocates and frees nothing, and the client's      *)
(* calls that move buffers are not its own.                                *)
LEMMA ThreadLeavesCalls ==
  ThreadStep => UNCHANGED <<allocated, populated, freeing, crossed, stray>>
<1>1. CASE Loop \/ Select \/ Input \/ CommandStep
  BY <1>1
  DEF Loop, Select, Input, CommandStep, TakeCommand, Drained, SameState,
      IncorrectTransition, SetInvalid, DirectTransition, LoadedToIdle,
      LoadedToIdleFails, ToIdleBegin, ToIdleEnd, IdleToLoaded, ReturnLock, ReturnOne,
      ReturnUnlock, FlushComplete, DisableReturned, Deallocated, EnablePort,
      ThreadUnchanged, ports, client, calls
<1>2. CASE EncodeStep
  BY <1>2
  DEF EncodeStep, StartStream, StartPop, StartGivesUp, EncodeFails, NoFrame,
      TakeFrame, EncodeFrame, Overflow, Abandon, EndStream, EndPop, EndStreamFails,
      InputDone, InputPop, Pop, ThreadUnchanged, ports, client, calls
<1> QED BY <1>1, <1>2 DEF ThreadStep

(* Only a client that is not careful submits a buffer it does not hold.    *)
LEMMA StraySteps ==
  [Next]_vars => stray' = stray \/ (~Careful /\ stray' = stray + 1)
<1>1. CASE \E c \in Requests : SendCommand(c)
  BY <1>1 DEF SendCommand, calls
<1>2. CASE \E b \in Buffers : AllocateBuffer(b) \/ FreeBuffer(b) \/ Unpopulate(b)
  BY <1>2 DEF AllocateBuffer, FreeBuffer, Unpopulate
<1>3. CASE \E b \in Buffers : SubmitCheck(b) \/ SubmitFromCallback(b)
  BY <1>3, Zenon DEF SubmitCheck, SubmitFromCallback, MayPass
<1>4. CASE SubmitPush \/ Deinit \/ DeinitJoined \/ UNCHANGED vars
  BY <1>4 DEF SubmitPush, Deinit, DeinitJoined, vars, client, calls
<1>5. CASE ThreadStep
  BY <1>5, ThreadLeavesCalls
<1> QED BY <1>1, <1>2, <1>3, <1>4, <1>5 DEF Next, ClientStep

(* A port stays as it should be when a buffer is allocated, when one is    *)
(* freed, and when bPopulated is cleared.                                  *)
LEMMA NextPopulated == IInv /\ PopulatedOK /\ [Next]_vars => PopulatedOK'
<1> SUFFICES ASSUME IInv, \A p \in Ports : PortOK(p), [Next]_vars, NEW r \in Ports
             PROVE  PortOK(r)'
  BY Zenon DEF PopulatedOK, FiniteBuffers, FreeingOK, PopulatedIsFull, PortOK
<1>a. Actual \in [Ports -> Nat \ {0}]
  BY EncoderAssumption DEF EncoderAssumption
<1>b. /\ allocated \in [Ports -> SUBSET Buffers] /\ populated \in [Ports -> BOOLEAN]
      /\ freeing \subseteq Buffers
  BY DEF IInv, TypeOK, PortsType, ClientType
<1>c. PortOK(r) /\ Actual[r] \in Nat \ {0}
  BY <1>a
<1>d. IsFiniteSet(allocated[r]) /\ Cardinality(allocated[r]) \in Nat
  BY <1>c, FS_CardinalityType DEF PortOK
<1>1. ASSUME NEW b \in Buffers, AllocateBuffer(b) PROVE PortOK(r)'
  <2> DEFINE q == PortOf(b)
  <2>1. q \in Ports
    BY PortOfType
  <2>2. /\ b \notin allocated[q] /\ ~populated[q]
        /\ allocated' = [allocated EXCEPT ![q] = @ \cup {b}]
        /\ populated' = [populated EXCEPT ![q] = @ \/ Cardinality(allocated'[q]) = Actual[q]]
        /\ crossed' = crossed \cup {p \in {q} : Freeing(p)}
        /\ freeing' = freeing
    BY <1>1 DEF AllocateBuffer, MayAllocate
  <2> HIDE DEF q
  <2>3. Freeing(r)' <=> Freeing(r)
    BY <2>2 DEF Freeing, PortOf
  <2>4. CASE r # q
    <3>1. allocated'[r] = allocated[r] /\ populated'[r] = populated[r]
      BY <1>b, <2>2, <2>4, Zenon
    <3>2. r \in crossed' <=> r \in crossed
      BY <2>2, <2>4
    <3> QED BY <1>c, <2>3, <3>1, <3>2, SamePort
  <2>5. CASE r = q
    <3>1. allocated'[r] = allocated[r] \cup {b} /\ b \notin allocated[r] /\ ~populated[r]
      BY <1>b, <2>1, <2>2, <2>5
    <3>2. /\ IsFiniteSet(allocated'[r])
          /\ Cardinality(allocated'[r]) = Cardinality(allocated[r]) + 1
      BY <1>d, <3>1, FS_AddElement
    <3>3. populated'[r] <=> Cardinality(allocated'[r]) = Actual[r]
      BY <1>b, <2>1, <2>2, <2>5, <3>1, Zenon
    <3>4. r \notin crossed' => r \notin crossed /\ ~Freeing(r)
      BY <2>2, <2>5
    <3>5. r \notin crossed => /\ Cardinality(allocated[r]) <= Actual[r]
                              /\ Cardinality(allocated[r]) # Actual[r]
      BY <1>c, <3>1, Zenon DEF PortOK
    <3>6. r \notin crossed' => Cardinality(allocated'[r]) <= Actual[r]
      BY <1>c, <1>d, <3>2, <3>4, <3>5
    <3>7. Cardinality(allocated'[r]) = Actual[r] => Cardinality(allocated'[r]) >= Actual[r]
      BY <1>c
    <3> QED BY <2>3, <3>2, <3>3, <3>4, <3>6, <3>7, Zenon DEF PortOK
  <2> QED BY <2>4, <2>5
<1>2. ASSUME NEW b \in Buffers, FreeBuffer(b) PROVE PortOK(r)'
  <2> DEFINE q == PortOf(b)
  <2>1. q \in Ports
    BY PortOfType
  <2>2. /\ b \in allocated[q]
        /\ allocated' = [allocated EXCEPT ![q] = @ \ {b}]
        /\ populated' = populated /\ crossed' = crossed
        /\ freeing' = IF ShortAfterFree(q) THEN freeing \cup {b} ELSE freeing
    BY <1>2 DEF FreeBuffer
  <2>3. \A p : Freeing(p)' <=> Freeing(p) \/ (ShortAfterFree(q) /\ p = q)
    BY <2>2, Zenon DEF Freeing, PortOf, q
  <2> HIDE DEF q
  <2>4. CASE r # q
    <3>1. allocated'[r] = allocated[r]
      BY <1>b, <2>2, <2>4, Zenon
    <3> QED BY <1>c, <2>2, <2>3, <2>4, <3>1, SamePort
  <2>5. CASE r = q
    <3>1. allocated'[r] = allocated[r] \ {b} /\ b \in allocated[r]
      BY <1>b, <2>1, <2>2, <2>5
    <3>0. /\ IsFiniteSet(allocated[r] \ {b})
          /\ Cardinality(allocated[r] \ {b}) = Cardinality(allocated[r]) - 1
      BY <1>d, <3>1, FS_RemoveElement
    <3>2. /\ IsFiniteSet(allocated'[r])
          /\ Cardinality(allocated'[r]) = Cardinality(allocated[r]) - 1
      BY <3>0, <3>1
    <3>3. /\ ShortAfterFree(q) <=> Cardinality(allocated'[r]) < Actual[r]
          /\ Freeing(r)' <=> Freeing(r) \/ ShortAfterFree(q)
      BY <2>3, <2>5 DEF ShortAfterFree
    <3>4. r \notin crossed => Cardinality(allocated[r]) <= Actual[r]
      BY <1>c DEF PortOK
    <3>5. /\ r \notin crossed => /\ Cardinality(allocated'[r]) < Actual[r]
                                 /\ Cardinality(allocated'[r]) <= Actual[r]
                                 /\ Cardinality(allocated'[r]) # Actual[r]
          /\ ~(Cardinality(allocated'[r]) < Actual[r]) => Cardinality(allocated'[r]) >= Actual[r]
      BY <1>c, <1>d, <3>2, <3>4
    <3> QED BY <2>2, <3>2, <3>3, <3>5, Zenon DEF PortOK
  <2> QED BY <2>4, <2>5
<1>3. ASSUME NEW b \in Buffers, Unpopulate(b) PROVE PortOK(r)'
  <2> DEFINE q == PortOf(b)
  <2>1. q \in Ports
    BY PortOfType
  <2>2. /\ b \in freeing /\ freeing' = freeing \ {b}
        /\ populated' = [populated EXCEPT ![q] = FALSE]
        /\ crossed' = {p \in crossed : allocated[p] # {}}
        /\ allocated' = allocated
    BY <1>3 DEF Unpopulate
  <2>3. \A p : p # q => (Freeing(p)' <=> Freeing(p))
    BY <2>2, Zenon DEF Freeing, PortOf, q
  <2>4. /\ Freeing(q)
        /\ Freeing(r)' => Freeing(r)
    BY <2>2, Zenon DEF Freeing, PortOf, q
  <2> HIDE DEF q
  <2>5. CASE allocated[r] = {}
    <3>1. Cardinality(allocated'[r]) = 0 /\ IsFiniteSet(allocated'[r])
      BY <2>2, <2>5, FS_EmptySet
    <3>2. 0 < Actual[r] /\ 0 <= Actual[r] /\ 0 # Actual[r] /\ ~(0 >= Actual[r])
      BY <1>c
    <3>3. populated[r] => Freeing(r)
      BY <1>c, <2>2, <3>1, <3>2, Zenon DEF PortOK
    <3>4. populated'[r] => Freeing(r)'
      BY <1>b, <2>1, <2>2, <2>3, <3>3
    <3> QED BY <3>1, <3>2, <3>4, Zenon DEF PortOK
  <2>6. CASE allocated[r] # {}
    <3>1. r \in crossed' <=> r \in crossed
      BY <2>2, <2>6
    <3>2. CASE r # q
      <4>1. populated'[r] = populated[r]
        BY <1>b, <2>2, <3>2, Zenon
      <4> QED BY <1>c, <2>2, <2>3, <3>1, <3>2, <4>1, SamePort
    <3>3. CASE r = q
      <4>1. ~populated'[r]
        BY <1>b, <2>1, <2>2, <3>3
      <4>2. r \notin crossed => Cardinality(allocated[r]) < Actual[r]
        BY <1>c, <2>4, <3>3, Zenon DEF PortOK
      <4>3. r \notin crossed => /\ Cardinality(allocated[r]) <= Actual[r]
                                /\ Cardinality(allocated[r]) # Actual[r]
        BY <1>c, <1>d, <4>2
      <4> QED BY <1>d, <2>2, <3>1, <4>1, <4>2, <4>3, Zenon DEF PortOK
    <3> QED BY <3>2, <3>3
  <2> QED BY <2>5, <2>6
<1>4. CASE DeinitJoined
  <2>1. allocated'[r] = {} /\ ~populated'[r]
    BY <1>4 DEF DeinitJoined
  <2>2. IsFiniteSet(allocated'[r]) /\ Cardinality(allocated'[r]) = 0
    BY <2>1, FS_EmptySet
  <2>3. 0 < Actual[r] /\ 0 <= Actual[r] /\ 0 # Actual[r]
    BY <1>c
  <2> QED BY <2>1, <2>2, <2>3, Zenon DEF PortOK
<1>5. CASE \/ (ClientStep /\ ~DeinitJoined
                /\ \A b \in Buffers : ~AllocateBuffer(b) /\ ~FreeBuffer(b) /\ ~Unpopulate(b))
           \/ ThreadStep \/ UNCHANGED vars
  <2>1. UNCHANGED <<allocated, populated, freeing, crossed>>
    <3>1. CASE ClientStep /\ ~DeinitJoined
                /\ \A b \in Buffers : ~AllocateBuffer(b) /\ ~FreeBuffer(b) /\ ~Unpopulate(b)
      BY <3>1 DEF ClientStep, SendCommand, SubmitCheck, SubmitFromCallback, SubmitPush,
                  Deinit, ports, calls
    <3>2. CASE ThreadStep
      BY <3>2, ThreadLeavesCalls
    <3>3. CASE UNCHANGED vars
      BY <3>3 DEF vars, ports, client, calls
    <3> QED BY <1>5, <3>1, <3>2, <3>3
  <2>2. Freeing(r)' <=> Freeing(r)
    BY <2>1 DEF Freeing, PortOf
  <2> QED BY <1>c, <2>1, <2>2, SamePort
<1> QED BY <1>1, <1>2, <1>3, <1>4, <1>5 DEF Next, ClientStep

(* bPopulated without all the buffers is only ever seen inside FreeBuffer, *)
(* between its two writes; and as long as no other thread of the client    *)
(* allocates in there, a port with nBufferCountActual buffers has it set   *)
(* and no port gets more: what encoder_use_buffer, encoder_allocate_buffer *)
(* and encoder_free_buffer keep up without a lock.                         *)
THEOREM PopulatedWhenFull == Spec => []PopulatedIsFull
<1>1. Init => PopulatedOK
  <2> SUFFICES ASSUME Init, NEW p \in Ports PROVE PortOK(p)
    BY Zenon DEF PopulatedOK, FiniteBuffers, FreeingOK, PopulatedIsFull, PortOK
  <2>1. allocated[p] = {} /\ ~populated[p] /\ ~Freeing(p)
    BY DEF Init, Freeing
  <2>2. 0 <= Actual[p] /\ 0 # Actual[p]
    BY EncoderAssumption DEF EncoderAssumption
  <2> QED BY <2>1, <2>2, FS_EmptySet, Zenon DEF PortOK
<1>2. PopulatedOK => PopulatedIsFull
  BY DEF PopulatedOK
<1> QED BY <1>1, <1>2, Invariance, NextPopulated, PTL DEF Spec

(* Where the buffers of port p are, given its queue, how many of the       *)
(* queue's buffers have been handed back, the buffers the client holds,    *)
(* those allocated, and the buffer inside a call: every buffer is held,    *)
(* inside the call or queued once, never two of these.                     *)
Owned(p, q, h, hl, al, s) ==
  /\ hl \subseteq al
  /\ \A b \in al : PortOf(b) = p
  /\ \A i \in h + 1 .. Len(q) : q[i] \in al /\ q[i] \notin hl /\ q[i] # s
  /\ \A i, j \in h + 1 .. Len(q) : q[i] = q[j] => i = j
  /\ (s \in Buffers /\ PortOf(s) = p) => s \in al /\ s \notin hl

(* ...and none is in no place at all.                                      *)
Kept(q, h, hl, al, s) ==
  \A b \in al : b \in hl \/ b = s \/ \E i \in h + 1 .. Len(q) : q[i] = b

(* A buffer that was handed back leaves the queue.                         *)
LEMMA OwnedPop ==
  ASSUME NEW p \in Ports, NEW q \in Seq(Buffers), q # <<>>, NEW hl, NEW al, NEW s
  PROVE  /\ Owned(p, q, 1, hl, al, s) => Owned(p, Tail(q), 0, hl, al, s)
         /\ Kept(q, 1, hl, al, s) => Kept(Tail(q), 0, hl, al, s)
<1>1. /\ Len(q) \in Nat \ {0} /\ Len(Tail(q)) = Len(q) - 1
      /\ \A i \in 1 .. Len(Tail(q)) : Tail(q)[i] = q[i + 1]
  BY HeadTailProperties, EmptySeq, LenProperties
<1>2. \A i \in 0 + 1 .. Len(Tail(q)) : i + 1 \in 1 + 1 .. Len(q) /\ Tail(q)[i] = q[i + 1]
  BY <1>1
<1>3. \A i \in 1 + 1 .. Len(q) : i - 1 \in 0 + 1 .. Len(Tail(q)) /\ Tail(q)[i - 1] = q[i]
  BY <1>1
<1>4. ASSUME Owned(p, q, 1, hl, al, s) PROVE Owned(p, Tail(q), 0, hl, al, s)
  <2>1. \A i \in 0 + 1 .. Len(Tail(q)) :
          Tail(q)[i] \in al /\ Tail(q)[i] \notin hl /\ Tail(q)[i] # s
    BY <1>2, <1>4, Zenon DEF Owned
  <2>2. \A i, j \in 0 + 1 .. Len(Tail(q)) : Tail(q)[i] = Tail(q)[j] => i + 1 = j + 1
    BY <1>2, <1>4, Zenon DEF Owned
  <2>3. \A i, j \in 0 + 1 .. Len(Tail(q)) : Tail(q)[i] = Tail(q)[j] => i = j
    BY <2>2, <1>1
  <2> QED BY <1>4, <2>1, <2>3, Zenon DEF Owned
<1>5. ASSUME Kept(q, 1, hl, al, s) PROVE Kept(Tail(q), 0, hl, al, s)
  BY <1>3, <1>5, Zenon DEF Kept
<1> QED BY <1>4, <1>5

(* The next queued buffer is handed back.                                  *)
LEMMA OwnedReturn ==
  ASSUME NEW p \in Ports, NEW q \in Seq(Buffers), NEW h \in Nat, h + 1 <= Len(q),
         NEW hl, NEW al, NEW s
  PROVE  /\ Owned(p, q, h, hl, al, s) => Owned(p, q, h + 1, hl \cup {q[h + 1]}, al, s)
         /\ Kept(q, h, hl, al, s) => Kept(q, h + 1, hl \cup {q[h + 1]}, al, s)
         /\ Owned(p, q, h, hl, al, s) => q[h + 1] \in al /\ q[h + 1] \notin hl
<1>1. Len(q) \in Nat
  BY LenProperties
<1>2. /\ h + 1 \in h + 1 .. Len(q)
      /\ \A i \in h + 1 + 1 .. Len(q) : i \in h + 1 .. Len(q) /\ i # h + 1
      /\ \A i \in h + 1 .. Len(q) : i = h + 1 \/ i \in h + 1 + 1 .. Len(q)
  BY <1>1
<1>3. ASSUME Owned(p, q, h, hl, al, s) PROVE Owned(p, q, h + 1, hl \cup {q[h + 1]}, al, s)
  BY <1>2, <1>3, Zenon DEF Owned
<1>4. ASSUME Kept(q, h, hl, al, s) PROVE Kept(q, h + 1, hl \cup {q[h + 1]}, al, s)
  BY <1>2, <1>4, Zenon DEF Kept
<1>5. Owned(p, q, h, hl, al, s) => q[h + 1] \in al /\ q[h + 1] \notin hl
  BY <1>2, Zenon DEF Owned
<1> QED BY <1>3, <1>4, <1>5, Zenon

(* A queue is emptied, when everything in it has been handed back.         *)
LEMMA OwnedClear ==
  ASSUME NEW p \in Ports, NEW q \in Seq(Buffers), NEW h \in Nat, NEW hl, NEW al, NEW s
  PROVE  /\ Owned(p, q, h, hl, al, s) => Owned(p, << >>, 0, hl, al, s)
         /\ (Kept(q, h, hl, al, s) /\ h = Len(q)) => Kept(<< >>, 0, hl, al, s)
<1>1. Len(<< >>) = 0 /\ Len(q) \in Nat
  BY EmptySeq, LenProperties
<1>2. \A i : i \notin 0 + 1 .. Len(<< >>)
  BY <1>1
<1>3. h = Len(q) => \A i : i \notin h + 1 .. Len(q)
  BY <1>1
<1>4. Owned(p, q, h, hl, al, s) => Owned(p, << >>, 0, hl, al, s)
  BY <1>2, Zenon DEF Owned
<1>5. (Kept(q, h, hl, al, s) /\ h = Len(q)) => Kept(<< >>, 0, hl, al, s)
  BY <1>3, Zenon DEF Kept
<1> QED BY <1>4, <1>5

(* A queue to which a buffer is added, index by index.                     *)
LEMMA PushedAt ==
  ASSUME NEW q \in Seq(Buffers), NEW b \in Buffers, NEW h \in Nat, h <= Len(q)
  PROVE  /\ \A i \in h + 1 .. Len(Append(q, b)) :
              \/ (i = Len(q) + 1 /\ Append(q, b)[i] = b)
              \/ (i \in h + 1 .. Len(q) /\ i # Len(q) + 1 /\ Append(q, b)[i] = q[i])
         /\ \A i \in h + 1 .. Len(q) :
              i \in h + 1 .. Len(Append(q, b)) /\ Append(q, b)[i] = q[i]
         /\ Len(q) + 1 \in h + 1 .. Len(Append(q, b)) /\ Append(q, b)[Len(q) + 1] = b
<1>1. /\ Len(q) \in Nat /\ Len(Append(q, b)) = Len(q) + 1
      /\ \A i \in 1 .. Len(q) : Append(q, b)[i] = q[i]
      /\ Append(q, b)[Len(q) + 1] = b
  BY AppendProperties, LenProperties
<1> QED BY <1>1

(* The buffer inside a call is queued.                                     *)
LEMMA OwnedPush ==
  ASSUME NEW p \in Ports, NEW q \in Seq(Buffers), NEW h \in Nat, h <= Len(q),
         NEW hl, NEW al \in SUBSET Buffers, NEW s \in Buffers, PortOf(s) = p
  PROVE  /\ Owned(p, q, h, hl, al, s) => Owned(p, Append(q, s), h, hl, al, NoBuffer)
         /\ Kept(q, h, hl, al, s) => Kept(Append(q, s), h, hl, al, NoBuffer)
<1>1. NoBuffer \notin Buffers
  BY EncoderAssumption DEF EncoderAssumption
<1> DEFINE t == Append(q, s)
<1>2. /\ \A i \in h + 1 .. Len(t) :
           \/ (i = Len(q) + 1 /\ t[i] = s)
           \/ (i \in h + 1 .. Len(q) /\ i # Len(q) + 1 /\ t[i] = q[i])
      /\ \A i \in h + 1 .. Len(q) : i \in h + 1 .. Len(t) /\ t[i] = q[i]
      /\ Len(q) + 1 \in h + 1 .. Len(t) /\ t[Len(q) + 1] = s
  BY PushedAt
<1> HIDE DEF t
<1>3. ASSUME Owned(p, q, h, hl, al, s) PROVE Owned(p, t, h, hl, al, NoBuffer)
  <2>1. s \in al /\ s \notin hl
    BY <1>3 DEF Owned
  <2>2. \A i \in h + 1 .. Len(t) : t[i] \in al /\ t[i] \notin hl
    BY <1>2, <1>3, <2>1, Zenon DEF Owned
  <2>3. \A i \in h + 1 .. Len(t) : t[i] # NoBuffer
    BY <1>1, <2>2
  <2>4. \A i, j \in h + 1 .. Len(t) : t[i] = t[j] => i = j
    BY <1>2, <1>3, Zenon DEF Owned
  <2> QED BY <1>1, <1>3, <2>2, <2>3, <2>4, Zenon DEF Owned
<1>4. ASSUME Kept(q, h, hl, al, s) PROVE Kept(t, h, hl, al, NoBuffer)
  <2> SUFFICES ASSUME NEW b \in al, b \notin hl
               PROVE  \E i \in h + 1 .. Len(t) : t[i] = b
    BY DEF Kept
  <2>1. CASE b = s
    BY <1>2, <2>1
  <2>2. CASE b # s
    <3>1. PICK i \in h + 1 .. Len(q) : q[i] = b
      BY <1>4, <2>2 DEF Kept
    <3> QED BY <1>2, <3>1
  <2> QED BY <2>1, <2>2
<1> QED BY <1>3, <1>4 DEF t

(* A buffer the client holds is queued, while another may be inside a call.*)
LEMMA OwnedPushHeld ==
  ASSUME NEW p \in Ports, NEW q \in Seq(Buffers), NEW h \in Nat, h <= Len(q),
         NEW hl, NEW al, NEW s, NEW b \in Buffers, b \in hl
  PROVE  /\ Owned(p, q, h, hl, al, s) => Owned(p, Append(q, b), h, hl \ {b}, al, s)
         /\ Kept(q, h, hl, al, s) => Kept(Append(q, b), h, hl \ {b}, al, s)
<1> DEFINE t == Append(q, b)
<1>2. /\ \A i \in h + 1 .. Len(t) :
           \/ (i = Len(q) + 1 /\ t[i] = b)
           \/ (i \in h + 1 .. Len(q) /\ i # Len(q) + 1 /\ t[i] = q[i])
      /\ \A i \in h + 1 .. Len(q) : i \in h + 1 .. Len(t) /\ t[i] = q[i]
      /\ Len(q) + 1 \in h + 1 .. Len(t) /\ t[Len(q) + 1] = b
  BY PushedAt
<1> HIDE DEF t
<1>3. ASSUME Owned(p, q, h, hl, al, s) PROVE Owned(p, t, h, hl \ {b}, al, s)
  <2>1. b \in al /\ b # s
    BY <1>3 DEF Owned
  <2>2. \A i \in h + 1 .. Len(t) : t[i] \in al /\ t[i] \notin hl \ {b} /\ t[i] # s
    BY <1>2, <1>3, <2>1, Zenon DEF Owned
  <2>4. \A i, j \in h + 1 .. Len(t) : t[i] = t[j] => i = j
    BY <1>2, <1>3, Zenon DEF Owned
  <2> QED BY <1>3, <2>2, <2>4, Zenon DEF Owned
<1>4. ASSUME Kept(q, h, hl, al, s) PROVE Kept(t, h, hl \ {b}, al, s)
  <2> SUFFICES ASSUME NEW c \in al, c \notin hl \ {b}, c # s
               PROVE  \E i \in h + 1 .. Len(t) : t[i] = c
    BY DEF Kept
  <2>1. CASE c = b
    BY <1>2, <2>1
  <2>2. CASE c # b
    <3>1. PICK i \in h + 1 .. Len(q) : q[i] = c
      BY <1>4, <2>2 DEF Kept
    <3> QED BY <1>2, <3>1
  <2> QED BY <2>1, <2>2
<1> QED BY <1>3, <1>4 DEF t

(* The client allocates, frees or passes in a buffer.                      *)
LEMMA OwnedByClient ==
  ASSUME NEW p \in Ports, NEW q, NEW h, NEW hl, NEW al, NEW s, NEW b
  PROVE  /\ (Owned(p, q, h, hl, al, s) /\ b \notin al /\ b # s /\ PortOf(b) = p)
              => Owned(p, q, h, hl \cup {b}, al \cup {b}, s)
         /\ Kept(q, h, hl, al, s) => Kept(q, h, hl \cup {b}, al \cup {b}, s)
         /\ (Owned(p, q, h, hl, al, s) /\ b \in hl)
              => Owned(p, q, h, hl \ {b}, al \ {b}, s)
         /\ Kept(q, h, hl, al, s) => Kept(q, h, hl \ {b}, al \ {b}, s)
         /\ (Owned(p, q, h, hl, al, NoBuffer) /\ b \in hl)
              => Owned(p, q, h, hl \ {b}, al, b)
         /\ (Kept(q, h, hl, al, NoBuffer) /\ NoBuffer \notin al)
              => Kept(q, h, hl \ {b}, al, b)
<1>1. (Owned(p, q, h, hl, al, s) /\ b \notin al /\ b # s /\ PortOf(b) = p)
              => Owned(p, q, h, hl \cup {b}, al \cup {b}, s)
  BY Zenon DEF Owned
<1>2. Kept(q, h, hl, al, s) => Kept(q, h, hl \cup {b}, al \cup {b}, s)
  BY Zenon DEF Kept
<1>3. (Owned(p, q, h, hl, al, s) /\ b \in hl) => Owned(p, q, h, hl \ {b}, al \ {b}, s)
  BY Zenon DEF Owned
<1>4. Kept(q, h, hl, al, s) => Kept(q, h, hl \ {b}, al \ {b}, s)
  BY Zenon DEF Kept
<1>5. (Owned(p, q, h, hl, al, NoBuffer) /\ b \in hl) => Owned(p, q, h, hl \ {b}, al, b)
  BY Zenon DEF Owned
<1>6. (Kept(q, h, hl, al, NoBuffer) /\ NoBuffer \notin al) => Kept(q, h, hl \ {b}, al, b)
  BY Zenon DEF Kept
<1> QED BY <1>1, <1>2, <1>3, <1>4, <1>5, <1>6, Zenon

(* What happens inside a call on the other port does not matter.           *)
LEMMA OwnedElsewhere ==
  ASSUME NEW p \in Ports, NEW q, NEW h, NEW hl, NEW al \in SUBSET Buffers, NEW s, NEW t,
         s = NoBuffer \/ PortOf(s) # p, t = NoBuffer \/ PortOf(t) # p
  PROVE  /\ Owned(p, q, h, hl, al, s) => Owned(p, q, h, hl, al, t)
         /\ (Owned(p, q, h, hl, al, s) /\ Kept(q, h, hl, al, s)) => Kept(q, h, hl, al, t)
<1>1. NoBuffer \notin Buffers
  BY EncoderAssumption DEF EncoderAssumption
<1>2. ASSUME Owned(p, q, h, hl, al, s) PROVE Owned(p, q, h, hl, al, t)
  <2>1. \A b \in al : b # t
    BY <1>1, <1>2, Zenon DEF Owned
  <2> QED BY <1>1, <1>2, <2>1, Zenon DEF Owned
<1>3. ASSUME Owned(p, q, h, hl, al, s), Kept(q, h, hl, al, s) PROVE Kept(q, h, hl, al, t)
  <2>1. \A b \in al : b # s
    BY <1>1, <1>3, Zenon DEF Owned
  <2> QED BY <1>3, <2>1, Zenon DEF Kept
<1> QED BY <1>2, <1>3

(* Every buffer of a port is in at most one place.                         *)
OwnersOK ==
  \A p \in Ports : Owned(p, queue[p], HandedBack(p), held[p], allocated[p], submitting)

(* Without calls from inside callbacks every allocated buffer is somewhere,*)
(* and what a command returns is all there is in the queue.                *)
KeptOK ==
  ~Reentrant =>
    /\ \A p \in Ports : Kept(queue[p], HandedBack(p), held[p], allocated[p], submitting)
    /\ pc = "returning" => count = Len(queue[Head(todo)])

(* The thread returns no more than it counted, and nobody is inside a call *)
(* when the component is destroyed.                                        *)
CallsOK ==
  /\ pc = "returning" => idx <= count + 1
  /\ deinit # "no" => submitting = NoBuffer

PlacesOK == OwnersOK /\ KeptOK /\ CallsOK

(* At most the whole queue has been handed back.                           *)
LEMMA HandedBackType ==
  ASSUME IInv, CallsOK, NEW p \in Ports
  PROVE  /\ HandedBack(p) \in Nat /\ HandedBack(p) <= Len(queue[p]) /\ Len(queue[p]) \in Nat
         /\ queue[p] \in Seq(Buffers) /\ allocated[p] \in SUBSET Buffers
         /\ held[p] \in SUBSET Buffers
<1>1. /\ queue[p] \in Seq(Buffers) /\ allocated[p] \in SUBSET Buffers
      /\ held[p] \in SUBSET Buffers
  BY DEF IInv, TypeOK, PortsType, ClientType
<1>2. Len(queue[p]) \in Nat /\ (queue[p] # << >> => Len(queue[p]) >= 1)
  BY <1>1, LenProperties, EmptySeq
<1>3. idx \in Nat /\ count \in Nat /\ (pc = "returning" => idx >= 1)
  BY DEF IInv, TypeOK, ThreadType, ThreadOK
<1>4. CASE Locked(p)
  BY <1>1, <1>2, <1>3, <1>4 DEF HandedBack, Locked, CallsOK, IInv, ThreadOK
<1>5. CASE ~Locked(p)
  BY <1>1, <1>2, <1>5 DEF HandedBack, IInv, ThreadOK, Ports
<1> QED BY <1>4, <1>5

(* A step that moves no buffer.                                            *)
LEMMA SamePlaces ==
  ASSUME PlacesOK, UNCHANGED <<queue, allocated, held, submitting>>,
         \A p \in Ports : HandedBack(p)' = HandedBack(p),
         CallsOK', (pc' = "returning" /\ ~Reentrant) => count' = Len(queue[Head(todo')])
  PROVE  PlacesOK'
BY DEF PlacesOK, OwnersOK, KeptOK

(* A step that changes what one port has.                                  *)
LEMMA OnePlace ==
  ASSUME PlacesOK, NEW p \in Ports, CallsOK',
         (pc' = "returning" /\ ~Reentrant) => count' = Len(queue'[Head(todo')]),
         submitting' = submitting,
         \A r \in Ports : r # p => /\ queue'[r] = queue[r] /\ HandedBack(r)' = HandedBack(r)
                                   /\ held'[r] = held[r] /\ allocated'[r] = allocated[r],
         Owned(p, queue'[p], HandedBack(p)', held'[p], allocated'[p], submitting),
         ~Reentrant => Kept(queue'[p], HandedBack(p)', held'[p], allocated'[p], submitting)
  PROVE  PlacesOK'
<1>1. OwnersOK'
  BY DEF PlacesOK, OwnersOK
<1>2. KeptOK'
  BY DEF PlacesOK, KeptOK
<1> QED BY <1>1, <1>2 DEF PlacesOK

(* A buffer handed back by a callback: ReturnOne, and Return in the encode *)
(* loop.                                                                   *)
LEMMA ReturnPlaces ==
  ASSUME IInv, PlacesOK, NEW p \in Ports, HandedBack(p) + 1 <= Len(queue[p]),
         held' = [held EXCEPT ![p] = @ \cup {queue[p][HandedBack(p) + 1]}],
         UNCHANGED <<ports, submitting>>,
         HandedBack(p)' = HandedBack(p) + 1,
         \A r \in Ports : r # p => HandedBack(r)' = HandedBack(r),
         CallsOK', (pc' = "returning" /\ ~Reentrant) => count' = Len(queue'[Head(todo')])
  PROVE  PlacesOK'
<1>1. /\ HandedBack(p) \in Nat /\ queue[p] \in Seq(Buffers) /\ held \in [Ports -> SUBSET Buffers]
  BY HandedBackType DEF PlacesOK, IInv, TypeOK, ClientType
<1>2. /\ Owned(p, queue[p], HandedBack(p), held[p], allocated[p], submitting)
      /\ ~Reentrant => Kept(queue[p], HandedBack(p), held[p], allocated[p], submitting)
  BY Zenon DEF PlacesOK, OwnersOK, KeptOK
<1>3. /\ Owned(p, queue[p], HandedBack(p) + 1, held'[p], allocated[p], submitting)
      /\ ~Reentrant => Kept(queue[p], HandedBack(p) + 1, held'[p], allocated[p], submitting)
  BY <1>1, <1>2, OwnedReturn
<1>4. \A r \in Ports : r # p => held'[r] = held[r]
  BY <1>1
<1>5. queue' = queue /\ allocated' = allocated /\ submitting' = submitting
  BY DEF ports
<1>6. \A r \in Ports : r # p => /\ queue'[r] = queue[r] /\ HandedBack(r)' = HandedBack(r)
                                /\ held'[r] = held[r] /\ allocated'[r] = allocated[r]
  BY <1>4, <1>5
<1>7. /\ Owned(p, queue'[p], HandedBack(p)', held'[p], allocated'[p], submitting)
      /\ ~Reentrant => Kept(queue'[p], HandedBack(p)', held'[p], allocated'[p], submitting)
  BY <1>3, <1>5
<1> QED BY <1>5, <1>6, <1>7, OnePlace

(* The first buffer, already handed back, leaves the queue.                *)
LEMMA PopPlaces ==
  ASSUME IInv, PlacesOK, NEW p \in Ports, HandedBack(p) = 1,
         queue' = [queue EXCEPT ![p] = Tail(@)],
         UNCHANGED <<held, allocated, submitting>>,
         HandedBack(p)' = 0,
         \A r \in Ports : r # p => HandedBack(r)' = HandedBack(r),
         CallsOK', pc' # "returning"
  PROVE  PlacesOK'
<1>1. /\ queue[p] \in Seq(Buffers) /\ queue \in [Ports -> Seq(Buffers)] /\ queue[p] # << >>
  BY HandedBackType, EmptySeq DEF PlacesOK, IInv, TypeOK, PortsType
<1>2. /\ Owned(p, queue[p], 1, held[p], allocated[p], submitting)
      /\ ~Reentrant => Kept(queue[p], 1, held[p], allocated[p], submitting)
  BY DEF PlacesOK, OwnersOK, KeptOK
<1>3. /\ Owned(p, Tail(queue[p]), 0, held[p], allocated[p], submitting)
      /\ ~Reentrant => Kept(Tail(queue[p]), 0, held[p], allocated[p], submitting)
  BY <1>1, <1>2, OwnedPop
<1>4. queue'[p] = Tail(queue[p]) /\ \A r \in Ports : r # p => queue'[r] = queue[r]
  BY <1>1
<1>5. \A r \in Ports : r # p => /\ queue'[r] = queue[r] /\ HandedBack(r)' = HandedBack(r)
                                /\ held'[r] = held[r] /\ allocated'[r] = allocated[r]
  BY <1>4
<1>6. /\ Owned(p, queue'[p], HandedBack(p)', held'[p], allocated'[p], submitting)
      /\ ~Reentrant => Kept(queue'[p], HandedBack(p)', held'[p], allocated'[p], submitting)
  BY <1>3, <1>4
<1> QED BY <1>5, <1>6, OnePlace

(* The client, passing in only what it holds, moves buffers of one port.   *)
LEMMA ClientPlaces == IInv /\ PlacesOK /\ stray = 0 /\ stray' = 0 /\ ClientStep => PlacesOK'
<1> SUFFICES ASSUME IInv, PlacesOK, stray = 0, stray' = 0, ClientStep PROVE PlacesOK'
  OBVIOUS
<1>a. /\ held \in [Ports -> SUBSET Buffers] /\ allocated \in [Ports -> SUBSET Buffers]
      /\ queue \in [Ports -> Seq(Buffers)]
      /\ NoBuffer \notin Buffers /\ submitting \in Buffers \cup {NoBuffer}
  BY EncoderAssumption DEF IInv, TypeOK, ClientType, PortsType, EncoderAssumption
<1>b. \A p \in Ports :
        /\ Owned(p, queue[p], HandedBack(p), held[p], allocated[p], submitting)
        /\ ~Reentrant => Kept(queue[p], HandedBack(p), held[p], allocated[p], submitting)
  BY DEF PlacesOK, OwnersOK, KeptOK
<1>c. /\ (pc = "returning" /\ ~Reentrant) => count = Len(queue[Head(todo)])
      /\ CallsOK
  BY DEF PlacesOK, KeptOK
<1>d. pc = "returning" => Head(todo) \in Ports
  BY PortListTypes DEF IInv, ThreadOK, TypeOK, ThreadType
<1>1. ASSUME NEW c \in Requests, SendCommand(c) PROVE PlacesOK'
  <2>1. UNCHANGED <<queue, allocated, held, submitting, thread, deinit>>
    BY <1>1 DEF SendCommand, ports
  <2>2. \A r \in Ports : HandedBack(r)' = HandedBack(r)
    BY <2>1 DEF HandedBack, Locked, thread
  <2>3. CallsOK' /\ ((pc' = "returning" /\ ~Reentrant) => count' = Len(queue[Head(todo')]))
    BY <2>1, <1>c DEF CallsOK, thread
  <2> QED BY <2>1, <2>2, <2>3, SamePlaces
<1>2. ASSUME NEW b \in Buffers, AllocateBuffer(b) PROVE PlacesOK'
  <2> DEFINE p == PortOf(b)
  <2>1. p \in Ports
    BY PortOfType
  <2> HIDE DEF p
  <2>2. /\ b \notin allocated[p] /\ b # submitting
        /\ allocated' = [allocated EXCEPT ![p] = @ \cup {b}]
        /\ held' = [held EXCEPT ![p] = @ \cup {b}]
        /\ UNCHANGED <<queue, thread, submitting, deinit>>
    BY <1>2 DEF AllocateBuffer, p
  <2>3. /\ Owned(p, queue[p], HandedBack(p), held'[p], allocated'[p], submitting)
        /\ ~Reentrant => Kept(queue[p], HandedBack(p), held'[p], allocated'[p], submitting)
    <3>1. held'[p] = held[p] \cup {b} /\ allocated'[p] = allocated[p] \cup {b} /\ PortOf(b) = p
      BY <1>a, <2>1, <2>2 DEF p
    <3>2. /\ Owned(p, queue[p], HandedBack(p), held[p] \cup {b}, allocated[p] \cup {b}, submitting)
          /\ ~Reentrant => Kept(queue[p], HandedBack(p), held[p] \cup {b}, allocated[p] \cup {b},
                                submitting)
      BY <1>b, <2>1, <2>2, <3>1, OwnedByClient
    <3> QED BY <3>1, <3>2
  <2>4. \A r \in Ports : HandedBack(r)' = HandedBack(r)
    BY <2>2 DEF HandedBack, Locked, thread
  <2>5. \A r \in Ports : r # p => held'[r] = held[r] /\ allocated'[r] = allocated[r]
    BY <1>a, <2>2
  <2>6. CallsOK' /\ ((pc' = "returning" /\ ~Reentrant) => count' = Len(queue'[Head(todo')]))
    BY <2>2, <1>c DEF CallsOK, thread
  <2>7. \A r \in Ports : r # p => /\ queue'[r] = queue[r] /\ HandedBack(r)' = HandedBack(r)
                                  /\ held'[r] = held[r] /\ allocated'[r] = allocated[r]
    BY <2>2, <2>4, <2>5
  <2>8. /\ Owned(p, queue'[p], HandedBack(p)', held'[p], allocated'[p], submitting)
        /\ ~Reentrant => Kept(queue'[p], HandedBack(p)', held'[p], allocated'[p], submitting)
    BY <2>1, <2>2, <2>3, <2>4
  <2> QED BY <2>1, <2>2, <2>6, <2>7, <2>8, OnePlace
<1>3. ASSUME NEW b \in Buffers, FreeBuffer(b) PROVE PlacesOK'
  <2> DEFINE p == PortOf(b)
  <2>1. p \in Ports
    BY PortOfType
  <2> HIDE DEF p
  <2>2. /\ b \in held[p]
        /\ allocated' = [allocated EXCEPT ![p] = @ \ {b}]
        /\ held' = [held EXCEPT ![p] = @ \ {b}]
        /\ UNCHANGED <<queue, thread, submitting, deinit>>
    BY <1>3 DEF FreeBuffer, p
  <2>3. /\ Owned(p, queue[p], HandedBack(p), held'[p], allocated'[p], submitting)
        /\ ~Reentrant => Kept(queue[p], HandedBack(p), held'[p], allocated'[p], submitting)
    <3>1. held'[p] = held[p] \ {b} /\ allocated'[p] = allocated[p] \ {b}
      BY <1>a, <2>1, <2>2
    <3>2. /\ Owned(p, queue[p], HandedBack(p), held[p] \ {b}, allocated[p] \ {b}, submitting)
          /\ ~Reentrant => Kept(queue[p], HandedBack(p), held[p] \ {b}, allocated[p] \ {b},
                                submitting)
      BY <1>b, <2>1, <2>2, OwnedByClient
    <3> QED BY <3>1, <3>2
  <2>4. \A r \in Ports : HandedBack(r)' = HandedBack(r)
    BY <2>2 DEF HandedBack, Locked, thread
  <2>5. \A r \in Ports : r # p => held'[r] = held[r] /\ allocated'[r] = allocated[r]
    BY <1>a, <2>2
  <2>6. CallsOK' /\ ((pc' = "returning" /\ ~Reentrant) => count' = Len(queue'[Head(todo')]))
    BY <2>2, <1>c DEF CallsOK, thread
  <2>7. \A r \in Ports : r # p => /\ queue'[r] = queue[r] /\ HandedBack(r)' = HandedBack(r)
                                  /\ held'[r] = held[r] /\ allocated'[r] = allocated[r]
    BY <2>2, <2>4, <2>5
  <2>8. /\ Owned(p, queue'[p], HandedBack(p)', held'[p], allocated'[p], submitting)
        /\ ~Reentrant => Kept(queue'[p], HandedBack(p)', held'[p], allocated'[p], submitting)
    BY <2>1, <2>2, <2>3, <2>4
  <2> QED BY <2>1, <2>2, <2>6, <2>7, <2>8, OnePlace
<1>4. ASSUME NEW b \in Buffers, SubmitCheck(b) PROVE PlacesOK'
  <2> DEFINE p == PortOf(b)
  <2>1. p \in Ports
    BY PortOfType
  <2> HIDE DEF p
  <2>2. /\ submitting = NoBuffer /\ b \in held[p] /\ submitting' = b
        /\ held' = [held EXCEPT ![p] = @ \ {b}]
        /\ deinit = "no"
        /\ UNCHANGED <<queue, allocated, thread, deinit>>
    BY <1>4 DEF SubmitCheck, MayPass, CanCall, ports, p
  <2>4. \A r \in Ports : HandedBack(r)' = HandedBack(r)
    BY <2>2 DEF HandedBack, Locked, thread
  <2>5. \A r \in Ports : r # p => held'[r] = held[r]
    BY <1>a, <2>2
  <2>6. held'[p] = held[p] \ {b}
    BY <1>a, <2>1, <2>2
  <2>7. \A r \in Ports :
          /\ Owned(r, queue'[r], HandedBack(r)', held'[r], allocated'[r], submitting')
          /\ ~Reentrant => Kept(queue'[r], HandedBack(r)', held'[r], allocated'[r], submitting')
    <3> SUFFICES ASSUME NEW r \in Ports
                 PROVE  /\ Owned(r, queue[r], HandedBack(r), held'[r], allocated[r], b)
                        /\ ~Reentrant => Kept(queue[r], HandedBack(r), held'[r], allocated[r], b)
      BY <2>2, <2>4
    <3>1. /\ Owned(r, queue[r], HandedBack(r), held[r], allocated[r], NoBuffer)
          /\ ~Reentrant => Kept(queue[r], HandedBack(r), held[r], allocated[r], NoBuffer)
          /\ NoBuffer \notin allocated[r] /\ allocated[r] \in SUBSET Buffers
      BY <1>a, <1>b, <2>2
    <3>2. CASE r = p
      <4>1. /\ Owned(p, queue[p], HandedBack(p), held[p] \ {b}, allocated[p], b)
            /\ ~Reentrant => Kept(queue[p], HandedBack(p), held[p] \ {b}, allocated[p], b)
        BY <2>1, <2>2, <3>1, <3>2, OwnedByClient
      <4> QED BY <2>6, <3>2, <4>1
    <3>3. CASE r # p
      <4>1. PortOf(b) # r
        BY <3>3 DEF p
      <4> QED BY <2>5, <3>1, <3>3, <4>1, OwnedElsewhere
    <3> QED BY <3>2, <3>3
  <2>8. CallsOK' /\ ((pc' = "returning" /\ ~Reentrant) => count' = Len(queue'[Head(todo')]))
    BY <1>c, <2>2 DEF CallsOK, thread
  <2>9. OwnersOK'
    BY <2>7 DEF OwnersOK
  <2>10. KeptOK'
    BY <2>7, <2>8 DEF KeptOK
  <2> QED BY <2>8, <2>9, <2>10 DEF PlacesOK
<1>5. ASSUME NEW b \in Buffers, SubmitFromCallback(b) PROVE PlacesOK'
  <2> DEFINE p == PortOf(b)
  <2>1. p \in Ports
    BY PortOfType
  <2> HIDE DEF p
  <2>2. /\ Reentrant /\ b \in held[p]
        /\ queue' = [queue EXCEPT ![p] = Append(@, b)]
        /\ held' = [held EXCEPT ![p] = @ \ {b}]
        /\ UNCHANGED <<allocated, thread, submitting, deinit>>
    BY <1>5 DEF SubmitFromCallback, MayPass, p
  <2>3. /\ queue[p] \in Seq(Buffers) /\ HandedBack(p) \in Nat /\ HandedBack(p) <= Len(queue[p])
    BY <1>c, <2>1, HandedBackType
  <2>4. Owned(p, queue'[p], HandedBack(p), held'[p], allocated[p], submitting)
    <3>1. held'[p] = held[p] \ {b} /\ queue'[p] = Append(queue[p], b)
      BY <1>a, <2>1, <2>2
    <3>2. Owned(p, Append(queue[p], b), HandedBack(p), held[p] \ {b}, allocated[p], submitting)
      BY <1>b, <2>1, <2>2, <2>3, OwnedPushHeld
    <3> QED BY <3>1, <3>2
  <2>5. \A r \in Ports : HandedBack(r)' = HandedBack(r)
    BY <2>2 DEF HandedBack, Locked, thread
  <2>6. \A r \in Ports : r # p => held'[r] = held[r] /\ queue'[r] = queue[r]
    BY <1>a, <2>2
  <2>7. CallsOK'
    BY <1>c, <2>2 DEF CallsOK, thread
  <2> QED BY <2>1, <2>2, <2>4, <2>5, <2>6, <2>7, OnePlace
<1>6. CASE SubmitPush
  <2> DEFINE b == submitting
             p == PortOf(submitting)
  <2>0. b \in Buffers
    BY <1>a, <1>6 DEF SubmitPush
  <2>1. p \in Ports
    BY <2>0, PortOfType
  <2>b. b \in allocated[p]
    BY <1>b, <2>0, <2>1, Zenon DEF Owned
  <2>2. /\ ~Locked(p) /\ submitting' = NoBuffer
        /\ queue' = [queue EXCEPT ![p] = Append(@, b)]
        /\ UNCHANGED <<allocated, held, thread, deinit>>
    BY <1>6, <2>b DEF SubmitPush
  <2>a. PortOf(b) = p
    OBVIOUS
  <2> HIDE DEF p, b
  <2>3. /\ queue[p] \in Seq(Buffers) /\ HandedBack(p) \in Nat /\ HandedBack(p) <= Len(queue[p])
    BY <1>c, <2>1, HandedBackType
  <2>5. \A r \in Ports : HandedBack(r)' = HandedBack(r)
    BY <2>2 DEF HandedBack, Locked, thread
  <2>6. /\ \A r \in Ports : r # p => queue'[r] = queue[r]
        /\ queue'[p] = Append(queue[p], b)
    BY <1>a, <2>1, <2>2
  <2>7. \A r \in Ports :
          /\ Owned(r, queue'[r], HandedBack(r)', held'[r], allocated'[r], submitting')
          /\ ~Reentrant => Kept(queue'[r], HandedBack(r)', held'[r], allocated'[r], submitting')
    <3> SUFFICES ASSUME NEW r \in Ports
                 PROVE  /\ Owned(r, queue'[r], HandedBack(r), held[r], allocated[r], NoBuffer)
                        /\ ~Reentrant => Kept(queue'[r], HandedBack(r), held[r], allocated[r],
                                              NoBuffer)
      BY <2>2, <2>5
    <3>1. /\ Owned(r, queue[r], HandedBack(r), held[r], allocated[r], b)
          /\ ~Reentrant => Kept(queue[r], HandedBack(r), held[r], allocated[r], b)
          /\ allocated[r] \in SUBSET Buffers
      BY <1>a, <1>b DEF b
    <3>2. CASE r = p
      <4>1. /\ Owned(p, Append(queue[p], b), HandedBack(p), held[p], allocated[p], NoBuffer)
            /\ ~Reentrant => Kept(Append(queue[p], b), HandedBack(p), held[p], allocated[p],
                                  NoBuffer)
        BY <2>0, <2>a, <2>1, <2>3, <3>1, <3>2, OwnedPush
      <4> QED BY <2>6, <3>2, <4>1
    <3>3. CASE r # p
      BY <2>a, <2>6, <3>1, <3>3, OwnedElsewhere
    <3> QED BY <3>2, <3>3
  <2>8. CallsOK' /\ ((pc' = "returning" /\ ~Reentrant) => count' = Len(queue'[Head(todo')]))
    BY <1>c, <1>d, <2>2, <2>6 DEF CallsOK, thread, Locked
  <2>9. OwnersOK'
    BY <2>7 DEF OwnersOK
  <2>10. KeptOK'
    BY <2>7, <2>8 DEF KeptOK
  <2> QED BY <2>8, <2>9, <2>10 DEF PlacesOK
<1>7. CASE Deinit
  <2>1. UNCHANGED <<queue, allocated, held, submitting, thread>> /\ submitting = NoBuffer
    BY <1>7 DEF Deinit, ports
  <2>2. \A r \in Ports : HandedBack(r)' = HandedBack(r)
    BY <2>1 DEF HandedBack, Locked, thread
  <2>3. CallsOK' /\ ((pc' = "returning" /\ ~Reentrant) => count' = Len(queue[Head(todo')]))
    BY <2>1, <1>c DEF CallsOK, thread
  <2> QED BY <2>1, <2>2, <2>3, SamePlaces
<1>8. CASE DeinitJoined
  <2>1. /\ submitting = NoBuffer /\ pc = "exited" /\ submitting' = submitting /\ pc' = pc
        /\ \A p \in Ports : queue'[p] = << >> /\ held'[p] = {} /\ allocated'[p] = {}
    BY <1>8, <1>c DEF DeinitJoined, CallsOK, thread
  <2>2. \A p \in Ports : HandedBack(p)' = 0
    BY <2>1 DEF HandedBack, Locked
  <2>3. \A p \in Ports : Owned(p, << >>, 0, {}, {}, NoBuffer) /\ Kept(<< >>, 0, {}, {}, NoBuffer)
    <3>1. \A i : i \notin 0 + 1 .. Len(<< >>)
      BY EmptySeq
    <3> QED BY <1>a, <3>1, Zenon DEF Owned, Kept
  <2>4. OwnersOK' /\ KeptOK'
    BY <2>1, <2>2, <2>3 DEF OwnersOK, KeptOK
  <2> QED BY <2>1, <2>4 DEF PlacesOK, CallsOK
<1>9. ASSUME NEW b \in Buffers, Unpopulate(b) PROVE PlacesOK'
  <2>1. UNCHANGED <<queue, allocated, held, submitting, thread, deinit>>
    BY <1>9 DEF Unpopulate
  <2>2. \A r \in Ports : HandedBack(r)' = HandedBack(r)
    BY <2>1 DEF HandedBack, Locked, thread
  <2>3. CallsOK' /\ ((pc' = "returning" /\ ~Reentrant) => count' = Len(queue[Head(todo')]))
    BY <2>1, <1>c DEF CallsOK, thread
  <2> QED BY <2>1, <2>2, <2>3, SamePlaces
<1> QED BY <1>1, <1>2, <1>3, <1>4, <1>5, <1>6, <1>7, <1>8, <1>9 DEF ClientStep

(* The thread hands back what is at the front, then takes it out.          *)
LEMMA ThreadPlaces == IInv /\ PlacesOK /\ ThreadStep => PlacesOK'
<1> SUFFICES ASSUME IInv, PlacesOK, ThreadStep PROVE PlacesOK'
  OBVIOUS
<1>a. /\ held \in [Ports -> SUBSET Buffers] /\ queue \in [Ports -> Seq(Buffers)]
      /\ "in" \in Ports /\ "out" \in Ports
  BY DEF IInv, TypeOK, ClientType, PortsType, Ports
<1>b. \A p \in Ports :
        /\ Owned(p, queue[p], HandedBack(p), held[p], allocated[p], submitting)
        /\ ~Reentrant => Kept(queue[p], HandedBack(p), held[p], allocated[p], submitting)
  BY DEF PlacesOK, OwnersOK, KeptOK
<1>c. /\ (pc = "returning" /\ ~Reentrant) => count = Len(queue[Head(todo)])
      /\ CallsOK
  BY DEF PlacesOK, KeptOK
<1>d. /\ pc = "returning" => /\ Head(todo) \in Ports /\ todo # << >> /\ idx \in Nat /\ idx >= 1
                             /\ count \in Nat /\ count <= Len(queue[Head(todo)])
                             /\ idx <= count + 1
      /\ pc = "return" => (todo # << >> => Head(todo) \in Ports)
  BY <1>c, PortListTypes DEF IInv, ThreadOK, TypeOK, ThreadType, CallsOK
<1>e. \A p \in Ports : queue[p] # << >> => Len(queue[p]) \in Nat /\ 1 <= Len(queue[p])
                                           /\ Head(queue[p]) = queue[p][1]
  BY <1>a, LenProperties, EmptySeq, HeadTailProperties
<1>1. CASE \/ Loop \/ Select \/ Input \/ TakeCommand \/ Drained \/ SameState \/ IncorrectTransition
           \/ SetInvalid \/ DirectTransition \/ LoadedToIdle \/ LoadedToIdleFails \/ ToIdleBegin
           \/ ToIdleEnd \/ IdleToLoaded \/ FlushComplete \/ DisableReturned
           \/ Deallocated \/ EnablePort
  <2>1. UNCHANGED <<queue, allocated, held, submitting, deinit>>
    BY <1>1
    DEF Loop, Select, Input, TakeCommand, Drained, SameState, IncorrectTransition, SetInvalid,
        DirectTransition, LoadedToIdle, LoadedToIdleFails, ToIdleBegin, ToIdleEnd, IdleToLoaded,
        FlushComplete, DisableReturned, Deallocated, EnablePort, ThreadUnchanged, ports, client
  <2>2. pc \notin {"returning", "startpop", "endpop", "inputpop"}
    BY <1>1
    DEF Loop, Select, Input, TakeCommand, Drained, SameState, IncorrectTransition, SetInvalid,
        DirectTransition, LoadedToIdle, LoadedToIdleFails, ToIdleBegin, ToIdleEnd, IdleToLoaded,
        FlushComplete, DisableReturned, Deallocated, EnablePort
  <2>3. pc' \notin {"returning", "startpop", "endpop", "inputpop"}
    <3>1. CASE TakeCommand
      <4>1. Head(cmds) \in Commands
        BY <3>1, HeadTailProperties DEF TakeCommand, IInv, TypeOK
      <4> QED BY <3>1, <4>1, CommandTypes DEF TakeCommand, Handler, Goto
    <3>2. CASE ~TakeCommand
      BY <1>1, <3>2
      DEF Loop, Select, Input, Drained, SameState, IncorrectTransition, SetInvalid,
          DirectTransition, LoadedToIdle, LoadedToIdleFails, ToIdleBegin, ToIdleEnd, IdleToLoaded,
          FlushComplete, DisableReturned, Deallocated, EnablePort, TransitionComplete, Fail, Goto
    <3> QED BY <3>1, <3>2
  <2>4. \A p \in Ports : HandedBack(p) = 0 /\ HandedBack(p)' = 0
    BY <2>2, <2>3 DEF HandedBack, Locked
  <2>5. CallsOK'
    BY <1>c, <2>1, <2>3 DEF CallsOK
  <2> QED BY <2>1, <2>3, <2>4, <2>5, SamePlaces
<1>2. CASE ReturnLock
  <2>1. /\ UNCHANGED <<queue, allocated, held, submitting, deinit>>
        /\ pc = "return" /\ pc' = "returning" /\ todo' = todo /\ idx' = 1 /\ todo # << >>
        /\ count' = Len(queue[Head(todo)])
    BY <1>2 DEF ReturnLock, Goto, ThreadUnchanged, ports, client
  <2>2. \A p \in Ports : HandedBack(p) = 0 /\ HandedBack(p)' = 0
    BY <2>1 DEF HandedBack, Locked
  <2>3. CallsOK'
    <3>1. Len(queue[Head(todo)]) \in Nat
      BY <1>a, <1>d, <2>1, LenProperties
    <3> QED BY <1>c, <2>1, <3>1 DEF CallsOK
  <2> QED BY <2>1, <2>2, <2>3, SamePlaces
<1>3. CASE ReturnOne
  <2>0. PICK p \in Ports : p = Head(todo)
    BY <1>d, <1>3 DEF ReturnOne
  <2>1. /\ UNCHANGED <<queue, allocated, submitting, deinit, pc, todo, count>>
        /\ pc = "returning" /\ idx <= count /\ idx' = idx + 1
        /\ held' = [held EXCEPT ![p] = @ \cup {queue[p][idx]}]
    BY <1>3, <2>0 DEF ReturnOne, Return, ports
  <2>2. p \in Ports /\ HandedBack(p) = idx - 1 /\ HandedBack(p)' = idx
    BY <1>d, <2>0, <2>1 DEF HandedBack, Locked
  <2>3. \A r \in Ports : r # p => HandedBack(r)' = HandedBack(r)
    BY <2>0, <2>1 DEF HandedBack, Locked
  <2>4. CallsOK' /\ ((pc' = "returning" /\ ~Reentrant) => count' = Len(queue'[Head(todo')]))
    BY <1>c, <1>d, <2>0, <2>1 DEF CallsOK
  <2>5. /\ HandedBack(p) + 1 = idx /\ HandedBack(p)' = HandedBack(p) + 1
        /\ HandedBack(p) + 1 <= Len(queue[p])
    <3>1. Len(queue[p]) \in Nat
      BY <1>a, <2>2, LenProperties
    <3> QED BY <1>d, <2>0, <2>1, <2>2, <3>1
  <2>6. UNCHANGED ports
    BY <1>3 DEF ReturnOne
  <2>7. held' = [held EXCEPT ![p] = @ \cup {queue[p][HandedBack(p) + 1]}]
    BY <2>1, <2>5
  <2> QED BY <2>1, <2>2, <2>3, <2>4, <2>5, <2>6, <2>7, ReturnPlaces
<1>4. CASE ReturnUnlock
  <2>0. PICK p \in Ports : p = Head(todo)
    BY <1>d, <1>4 DEF ReturnUnlock
  <2>1. /\ UNCHANGED <<held, allocated, submitting, deinit, count>>
        /\ pc = "returning" /\ idx > count /\ pc' = "return"
        /\ queue' = [queue EXCEPT ![p] = << >>]
    BY <1>4, <2>0 DEF ReturnUnlock, Goto, client
  <2>2. p \in Ports /\ HandedBack(p) = idx - 1 /\ \A r \in Ports : HandedBack(r)' = 0
    BY <1>d, <2>0, <2>1 DEF HandedBack, Locked
  <2>3. \A r \in Ports : r # p => HandedBack(r) = 0
    BY <2>0, <2>1 DEF HandedBack, Locked
  <2>a. idx = count + 1 /\ HandedBack(p) = count /\ HandedBack(p) \in Nat
    BY <1>d, <2>0, <2>1, <2>2
  <2>b. ~Reentrant => HandedBack(p) = Len(queue[p])
    BY <1>c, <2>0, <2>1, <2>a
  <2>4. queue'[p] = << >> /\ \A r \in Ports : r # p => queue'[r] = queue[r]
    BY <1>a, <2>1, <2>2
  <2>5. queue[p] \in Seq(Buffers)
    BY <1>a, <2>2
  <2>6. /\ Owned(p, << >>, 0, held[p], allocated[p], submitting)
        /\ ~Reentrant => Kept(<< >>, 0, held[p], allocated[p], submitting)
    <3>1. /\ Owned(p, queue[p], HandedBack(p), held[p], allocated[p], submitting)
          /\ ~Reentrant => Kept(queue[p], HandedBack(p), held[p], allocated[p], submitting)
      BY <1>b, <2>2
    <3> QED BY <2>2, <2>a, <2>b, <2>5, <3>1, OwnedClear
  <2>7. CallsOK'
    BY <1>c, <2>1 DEF CallsOK
  <2>8. \A r \in Ports : r # p => /\ queue'[r] = queue[r] /\ HandedBack(r)' = HandedBack(r)
                                  /\ held'[r] = held[r] /\ allocated'[r] = allocated[r]
    BY <2>1, <2>2, <2>3, <2>4
  <2>9. /\ Owned(p, queue'[p], HandedBack(p)', held'[p], allocated'[p], submitting)
        /\ ~Reentrant => Kept(queue'[p], HandedBack(p)', held'[p], allocated'[p], submitting)
    BY <2>1, <2>2, <2>4, <2>6
  <2> QED BY <2>1, <2>2, <2>7, <2>8, <2>9, OnePlace
<1>5. CASE StartStream \/ EndStream
  <2>1. /\ UNCHANGED <<ports, submitting, deinit>> /\ ~NoOutput
        /\ pc \in {"start", "eos"} /\ pc' \in {"startpop", "endpop"}
        /\ held' = [held EXCEPT !["out"] = @ \cup {Head(queue["out"])}]
    BY <1>5 DEF StartStream, EndStream, Return, Goto
  <2>2. HandedBack("out") = 0 /\ HandedBack("out")' = 1 /\ HandedBack("in") = 0
        /\ HandedBack("in")' = 0
    BY <1>a, <2>1 DEF HandedBack, Locked
  <2>3. HandedBack("out") + 1 <= Len(queue["out"]) /\ Head(queue["out"]) = queue["out"][0 + 1]
    BY <1>a, <1>e, <2>1, <2>2 DEF NoOutput
  <2>4. CallsOK' /\ pc' # "returning"
    BY <1>c, <2>1 DEF CallsOK
  <2>5. HandedBack("out")' = HandedBack("out") + 1
        /\ \A r \in Ports : r # "out" => HandedBack(r)' = HandedBack(r)
    BY <2>2 DEF Ports
  <2>6. held' = [held EXCEPT !["out"] = @ \cup {queue["out"][HandedBack("out") + 1]}]
    BY <2>1, <2>2, <2>3
  <2> QED BY <1>a, <2>1, <2>3, <2>4, <2>5, <2>6, ReturnPlaces
<1>6. CASE InputDone
  <2>1. /\ UNCHANGED <<ports, submitting, deinit>>
        /\ pc = "done" /\ pc' = "inputpop"
        /\ held' = [held EXCEPT !["in"] = @ \cup {Head(queue["in"])}]
    BY <1>6 DEF InputDone, Return, Goto
  <2>2. HandedBack("in") = 0 /\ HandedBack("in")' = 1 /\ HandedBack("out") = 0
        /\ HandedBack("out")' = 0
    BY <1>a, <2>1 DEF HandedBack, Locked
  <2>3. HandedBack("in") + 1 <= Len(queue["in"]) /\ Head(queue["in"]) = queue["in"][0 + 1]
    BY <1>a, <1>e, <2>1, <2>2 DEF IInv, ThreadOK
  <2>4. CallsOK' /\ pc' # "returning"
    BY <1>c, <2>1 DEF CallsOK
  <2>5. HandedBack("in")' = HandedBack("in") + 1
        /\ \A r \in Ports : r # "in" => HandedBack(r)' = HandedBack(r)
    BY <2>2 DEF Ports
  <2>6. held' = [held EXCEPT !["in"] = @ \cup {queue["in"][HandedBack("in") + 1]}]
    BY <2>1, <2>2, <2>3
  <2> QED BY <1>a, <2>1, <2>3, <2>4, <2>5, <2>6, ReturnPlaces
<1>7. CASE StartPop \/ EndPop
  <2>1. /\ UNCHANGED <<held, allocated, submitting, deinit>>
        /\ pc \in {"startpop", "endpop"} /\ pc' \in {"frame", "done"}
        /\ queue' = [queue EXCEPT !["out"] = Tail(@)]
    BY <1>7 DEF StartPop, EndPop, Pop, Goto, client
  <2>2. /\ HandedBack("out") = 1 /\ HandedBack("out")' = 0
        /\ \A r \in Ports : r # "out" => HandedBack(r)' = HandedBack(r)
    BY <2>1 DEF HandedBack, Locked, Ports
  <2>3. CallsOK' /\ pc' # "returning"
    BY <1>c, <2>1 DEF CallsOK
  <2> QED BY <1>a, <2>1, <2>2, <2>3, PopPlaces
<1>8. CASE InputPop
  <2>1. /\ UNCHANGED <<held, allocated, submitting, deinit>>
        /\ pc = "inputpop" /\ pc' = "loop"
        /\ queue' = [queue EXCEPT !["in"] = Tail(@)]
    BY <1>8 DEF InputPop, Pop, Goto, client
  <2>2. /\ HandedBack("in") = 1 /\ HandedBack("in")' = 0
        /\ \A r \in Ports : r # "in" => HandedBack(r)' = HandedBack(r)
    BY <2>1 DEF HandedBack, Locked, Ports
  <2>3. CallsOK' /\ pc' # "returning"
    BY <1>c, <2>1 DEF CallsOK
  <2> QED BY <1>a, <2>1, <2>2, <2>3, PopPlaces
<1>9. CASE EncodeFrame
  <2> DEFINE q == queue["out"]
             b == Head(queue["out"])
  <2>1. /\ UNCHANGED <<allocated, submitting, deinit>> /\ q # << >>
        /\ pc = "output" /\ pc' \in {"output", "eos", "done"}
        /\ queue' = [queue EXCEPT !["out"] = Tail(@)]
        /\ held' = [held EXCEPT !["out"] = @ \cup {b}]
    BY <1>9 DEF EncodeFrame, NoOutput, Return, Goto, AfterFrames
  <2>2. \A r \in Ports : HandedBack(r) = 0 /\ HandedBack(r)' = 0
    BY <2>1 DEF HandedBack, Locked
  <2>3. /\ queue'["out"] = Tail(q) /\ held'["out"] = held["out"] \cup {b}
        /\ \A r \in Ports : r # "out" => queue'[r] = queue[r] /\ held'[r] = held[r]
    BY <1>a, <2>1
  <2>4. q \in Seq(Buffers) /\ 0 + 1 <= Len(q) /\ b = q[0 + 1]
    BY <1>a, <1>e, <2>1
  <2>a. /\ Owned("out", q, 0, held["out"], allocated["out"], submitting)
        /\ ~Reentrant => Kept(q, 0, held["out"], allocated["out"], submitting)
    BY <1>a, <1>b, <2>2
  <2> HIDE DEF q, b
  <2>5. /\ Owned("out", q, 0 + 1, held["out"] \cup {q[0 + 1]}, allocated["out"], submitting)
        /\ ~Reentrant => Kept(q, 0 + 1, held["out"] \cup {q[0 + 1]}, allocated["out"], submitting)
    BY <1>a, <2>4, <2>a, OwnedReturn
  <2>6. /\ Owned("out", Tail(q), 0, held["out"] \cup {b}, allocated["out"], submitting)
        /\ ~Reentrant => Kept(Tail(q), 0, held["out"] \cup {b}, allocated["out"], submitting)
    <3>1. /\ Owned("out", q, 1, held["out"] \cup {b}, allocated["out"], submitting)
          /\ ~Reentrant => Kept(q, 1, held["out"] \cup {b}, allocated["out"], submitting)
      BY <2>4, <2>5
    <3> QED BY <1>a, <2>1, <2>4, <3>1, OwnedPop
  <2>7. CallsOK' /\ pc' # "returning"
    BY <1>c, <2>1 DEF CallsOK
  <2>8. \A r \in Ports : r # "out" => /\ queue'[r] = queue[r] /\ HandedBack(r)' = HandedBack(r)
                                      /\ held'[r] = held[r] /\ allocated'[r] = allocated[r]
    BY <2>1, <2>2, <2>3
  <2>9. /\ Owned("out", queue'["out"], HandedBack("out")', held'["out"], allocated'["out"],
                 submitting)
        /\ ~Reentrant => Kept(queue'["out"], HandedBack("out")', held'["out"], allocated'["out"],
                              submitting)
    BY <1>a, <2>1, <2>2, <2>3, <2>6
  <2> QED BY <1>a, <2>1, <2>7, <2>8, <2>9, OnePlace
<1>10. CASE \/ StartGivesUp \/ EncodeFails \/ NoFrame \/ TakeFrame \/ Overflow \/ Abandon
            \/ EndStreamFails
  <2>1. UNCHANGED <<queue, allocated, held, submitting, deinit>>
    BY <1>10
    DEF StartGivesUp, EncodeFails, NoFrame, TakeFrame, Overflow, Abandon, EndStreamFails,
        ThreadUnchanged, ports, client
  <2>2. /\ pc \notin {"returning", "startpop", "endpop", "inputpop"}
        /\ pc' \notin {"returning", "startpop", "endpop", "inputpop"}
    BY <1>10
    DEF StartGivesUp, EncodeFails, NoFrame, TakeFrame, Overflow, Abandon, EndStreamFails,
        Goto, Fail, AfterFrames
  <2>4. \A p \in Ports : HandedBack(p) = 0 /\ HandedBack(p)' = 0
    BY <2>2 DEF HandedBack, Locked
  <2>5. CallsOK'
    BY <1>c, <2>1, <2>2 DEF CallsOK
  <2> QED BY <2>1, <2>2, <2>4, <2>5, SamePlaces
<1>11. \/ Loop \/ Select \/ Input \/ TakeCommand \/ Drained \/ SameState \/ IncorrectTransition
       \/ SetInvalid \/ DirectTransition \/ LoadedToIdle \/ LoadedToIdleFails \/ ToIdleBegin
       \/ ToIdleEnd \/ IdleToLoaded \/ FlushComplete \/ DisableReturned \/ Deallocated
       \/ EnablePort \/ ReturnLock \/ ReturnOne \/ ReturnUnlock
       \/ StartStream \/ EndStream \/ InputDone \/ StartPop \/ EndPop \/ InputPop \/ EncodeFrame
       \/ StartGivesUp \/ EncodeFails \/ NoFrame \/ TakeFrame \/ Overflow \/ Abandon
       \/ EndStreamFails
  BY Zenon DEF ThreadStep, CommandStep, EncodeStep
<1> QED BY <1>1, <1>2, <1>3, <1>4, <1>5, <1>6, <1>7, <1>8, <1>9, <1>10, <1>11

(* The places of the buffers are in order in every reachable state, as     *)
(* long as the client has passed in only what it held.                     *)
LEMMA PlacesInvariance == Spec => [](stray = 0 => PlacesOK)
<1>1. Init => PlacesOK
  <2> SUFFICES ASSUME Init PROVE PlacesOK
    OBVIOUS
  <2>1. /\ pc = "loop" /\ deinit = "no" /\ submitting = NoBuffer
        /\ \A p \in Ports : queue[p] = << >> /\ held[p] = {} /\ allocated[p] = {}
    BY DEF Init
  <2>2. \A p \in Ports : HandedBack(p) = 0
    BY <2>1 DEF HandedBack, Locked
  <2>3. \A p \in Ports : Owned(p, << >>, 0, {}, {}, NoBuffer) /\ Kept(<< >>, 0, {}, {}, NoBuffer)
    <3>1. \A i : i \notin 0 + 1 .. Len(<< >>)
      BY EmptySeq
    <3>2. NoBuffer \notin Buffers
      BY EncoderAssumption DEF EncoderAssumption
    <3> QED BY <3>1, <3>2, Zenon DEF Owned, Kept
  <2> QED BY <2>1, <2>2, <2>3 DEF PlacesOK, OwnersOK, KeptOK, CallsOK
<1>2. IInv /\ PlacesOK /\ UNCHANGED vars => PlacesOK'
  <2> SUFFICES ASSUME PlacesOK, UNCHANGED vars PROVE PlacesOK'
    OBVIOUS
  <2>1. UNCHANGED <<queue, allocated, held, submitting, pc, todo, idx, count, deinit>>
    BY DEF vars, ports, thread, client
  <2>2. \A p \in Ports : HandedBack(p)' = HandedBack(p)
    BY <2>1 DEF HandedBack, Locked
  <2> QED BY <2>1, <2>2, SamePlaces DEF PlacesOK, CallsOK, KeptOK
<1>3. IInv /\ (stray = 0 => PlacesOK) /\ [Next]_vars => (stray = 0 => PlacesOK)'
  <2> SUFFICES ASSUME IInv, stray = 0 => PlacesOK, [Next]_vars, stray' = 0 PROVE PlacesOK'
    OBVIOUS
  <2>1. stray \in Nat
    BY DEF IInv, TypeOK, ClientType
  <2>2. stray = 0
    BY <2>1, StraySteps
  <2> QED BY <1>2, <2>2, ClientPlaces, ThreadPlaces DEF Next
<1> QED BY <1>1, <1>3, Invariance, PTL DEF Spec

(* A careful client never passes in a buffer it does not hold.             *)
LEMMA CarefulHolds == Careful /\ Spec => [](stray = 0)
<1>1. Init => stray = 0
  BY DEF Init
<1>2. ASSUME Careful PROVE Spec => [](stray = 0)
  <2>1. stray = 0 /\ [Next]_vars => (stray = 0)'
    BY <1>2, StraySteps
  <2> QED BY <1>1, <2>1, PTL DEF Spec
<1> QED BY <1>2

(* How many places a buffer is in, from how Owned and Kept put it.         *)
LEMMA PlacesCounted ==
  ASSUME IInv, PlacesOK, NEW p \in Ports, NEW b \in BuffersOf(p)
  PROVE  /\ Places(p, b) \in Nat
         /\ Places(p, b) <= IF b \in allocated[p] THEN 1 ELSE 0
         /\ ~Reentrant => Places(p, b) = IF b \in allocated[p] THEN 1 ELSE 0
<1> DEFINE At == {i \in Live(p) : queue[p][i] = b}
<1>1. /\ b \in Buffers /\ PortOf(b) = p
  BY EncoderAssumption DEF EncoderAssumption, BuffersOf, Buffers, PortOf, Ports
<1>2. /\ Owned(p, queue[p], HandedBack(p), held[p], allocated[p], submitting)
      /\ ~Reentrant => Kept(queue[p], HandedBack(p), held[p], allocated[p], submitting)
  BY DEF PlacesOK, OwnersOK, KeptOK
<1>3. \A i \in At : i \in HandedBack(p) + 1 .. Len(queue[p]) /\ queue[p][i] = b
  BY DEF Live
<1>4. /\ At # {} => b \in allocated[p] /\ b \notin held[p] /\ b # submitting
      /\ \A i, j \in At : i = j
      /\ b \in held[p] => b \in allocated[p] /\ b # submitting
      /\ b = submitting => b \in allocated[p]
  <2>1. /\ At # {} => b \in allocated[p] /\ b \notin held[p] /\ b # submitting
        /\ \A i, j \in At : i = j
    <3> DEFINE L == HandedBack(p) + 1 .. Len(queue[p])
    <3>1. /\ \A i \in L : /\ queue[p][i] \in allocated[p] /\ queue[p][i] \notin held[p]
                         /\ queue[p][i] # submitting
          /\ \A i, j \in L : queue[p][i] = queue[p][j] => i = j
      BY <1>2, Zenon DEF Owned
    <3>2. \A i \in At : i \in L /\ queue[p][i] = b
      BY <1>3
    <3> HIDE DEF At, L
    <3> QED BY <3>1, <3>2
  <2>2. /\ b \in held[p] => b \in allocated[p]
        /\ b = submitting => b \in allocated[p] /\ b \notin held[p]
    <3>1. held[p] \subseteq allocated[p]
      BY <1>2, Zenon DEF Owned
    <3>2. (submitting \in Buffers /\ PortOf(submitting) = p)
             => submitting \in allocated[p] /\ submitting \notin held[p]
      BY <1>2, Zenon DEF Owned
    <3> HIDE DEF At
    <3> QED BY <1>1, <3>1, <3>2
  <2> HIDE DEF At
  <2> QED BY <2>1, <2>2, Zenon
<1>5. Cardinality(At) = IF At = {} THEN 0 ELSE 1
  <2>1. CASE At = {}
    BY <2>1, FS_EmptySet
  <2>2. CASE At # {}
    <3>1. PICK i \in At : TRUE
      BY <2>2
    <3>2. At = {i}
      BY <1>4, <3>1, Zenon
    <3> HIDE DEF At
    <3>3. Cardinality({i}) = 1
      BY FS_Singleton
    <3> QED BY <2>2, <3>2, <3>3
  <2> QED BY <2>1, <2>2
<1>6. ~Reentrant => (b \in allocated[p] => b \in held[p] \/ b = submitting \/ At # {})
  BY <1>2 DEF Kept, Live
<1>7. Places(p, b) = Cardinality(At) + (IF b \in held[p] THEN 1 ELSE 0)
                       + (IF b = submitting THEN 1 ELSE 0)
  BY DEF Places
<1> HIDE DEF At
<1> QED BY <1>4, <1>5, <1>6, <1>7

(* No buffer is ever in two places, and no freed buffer is anywhere: not   *)
(* with the client, not in a queue, not inside Empty- or FillThisBuffer.   *)
(* It holds for every client that passes in only buffers it holds, at      *)
(* whatever moment and also from callbacks; encoder_push_buffer, which     *)
(* looks a buffer up in the list of the port and not in its queue, does    *)
(* not enforce that.                                                       *)
THEOREM NeverTwiceCorrect == Spec => []NeverTwice
<1>1. IInv /\ (stray = 0 => PlacesOK) => NeverTwice
  BY PlacesCounted DEF NeverTwice
<1> QED BY <1>1, Invariance, PlacesInvariance, PTL

(* Without calls from inside callbacks no buffer gets lost either: every   *)
(* allocated one is with the client, inside a call or queued once,         *)
(* whatever commands, failures and stops there are, as long as the client  *)
(* passes in only what it holds.                                           *)
THEOREM OwnedOnceCorrect == ~Reentrant /\ Spec => []OwnedOnce
<1>1. ASSUME ~Reentrant PROVE Spec => []OwnedOnce
  <2>1. IInv /\ (stray = 0 => PlacesOK) => OwnedOnce
    BY <1>1, PlacesCounted DEF OwnedOnce
  <2> QED BY <2>1, Invariance, PlacesInvariance, PTL
<1> QED BY <1>1

(* A careful client is inside a call only while no port command concerns   *)
(* the port and no change of state is pending.                             *)
QuietOK ==
  submitting # NoBuffer => /\ Quiet(PortOf(submitting))
                           /\ statetrans = state \/ state = "Invalid"

(* The ports a command has returned the buffers of are empty.              *)
EmptiedOK ==
  pc \in {"return", "returning"} =>
    \A p \in Ports :
      InSeq(p, cmd.on) \/ cmd.op = "StateSet" => InSeq(p, todo) \/ queue[p] = << >>

(* A step of the thread that takes no command and changes the state only   *)
(* to the one asked for.                                                   *)
LEMMA StillQuiet ==
  ASSUME QuietOK, UNCHANGED <<cmds, cmd, submitting>>, Busy' => Busy,
         \/ UNCHANGED <<state, statetrans>>
         \/ statetrans' = state'
         \/ state' = "Invalid"
  PROVE  QuietOK'
<1> SUFFICES ASSUME submitting # NoBuffer
             PROVE  /\ Quiet(PortOf(submitting))' /\ (statetrans' = state' \/ state' = "Invalid")
  BY DEF QuietOK
<1>1. statetrans' = state' \/ state' = "Invalid"
  BY DEF QuietOK
<1>2. \A op, p : PendingOn(op, p)' => PendingOn(op, p)
  BY DEF PendingOn
<1>3. PortOf(submitting)' = PortOf(submitting) /\ Quiet(PortOf(submitting))
  BY DEF QuietOK, PortOf
<1> QED BY <1>1, <1>2, <1>3 DEF Quiet

(* What a client that respects the protocol does keeps its calls apart     *)
(* from the commands that concern their port.                              *)
LEMMA ClientQuiet ==
  ASSUME Careful, IInv, PlacesOK, OneTransition, QuietOK, EmptiedOK, ClientStep
  PROVE  QuietOK' /\ EmptiedOK'
<1>a. /\ NoBuffer \notin Buffers /\ submitting \in Buffers \cup {NoBuffer}
      /\ queue \in [Ports -> Seq(Buffers)]
  BY EncoderAssumption DEF IInv, TypeOK, ClientType, PortsType, EncoderAssumption
<1>1. CASE \/ \E c \in Requests : SendCommand(c)
           \/ Deinit
  <2>1. UNCHANGED <<submitting, pc, cmd, todo, queue>> /\ submitting = NoBuffer
    BY <1>1 DEF SendCommand, Deinit, CanCall, thread, ports
  <2> QED BY <2>1 DEF QuietOK, EmptiedOK
<1>2. CASE \E b \in Buffers : AllocateBuffer(b) \/ FreeBuffer(b) \/ Unpopulate(b)
  <2>1. UNCHANGED <<comp, cmds, thread, submitting, queue>>
    BY <1>2 DEF AllocateBuffer, FreeBuffer, Unpopulate
  <2>2. QuietOK'
    BY <2>1, StillQuiet DEF thread, comp, Busy
  <2> QED BY <2>1, <2>2 DEF EmptiedOK, thread
<1>3. ASSUME NEW b \in Buffers, SubmitCheck(b) PROVE QuietOK' /\ EmptiedOK'
  <2>1. /\ UNCHANGED <<comp, cmds, thread, queue>> /\ submitting' = b
        /\ statetrans = state /\ Quiet(PortOf(b))
    BY <1>3 DEF SubmitCheck, ports
  <2>2. \A op, p : PendingOn(op, p)' <=> PendingOn(op, p)
    BY <2>1 DEF PendingOn, Busy, thread
  <2>3. QuietOK'
    BY <2>1, <2>2 DEF QuietOK, Quiet, comp
  <2> QED BY <2>1, <2>3 DEF EmptiedOK, thread
<1>4. ASSUME NEW b \in Buffers, SubmitFromCallback(b) PROVE QuietOK' /\ EmptiedOK'
  <2> DEFINE p == PortOf(b)
  <2>1. /\ UNCHANGED <<comp, cmds, thread, submitting>>
        /\ pc = "returning" /\ Head(todo) = p
        /\ queue' = [queue EXCEPT ![p] = Append(@, b)]
    BY <1>4 DEF SubmitFromCallback, Locked
  <2>2. QuietOK'
    BY <2>1, StillQuiet DEF thread, comp, Busy
  <2>3. InSeq(p, todo)
    <3>1. todo \in PortLists
      BY <2>1 DEF IInv, ThreadOK, TypeOK, ThreadType
    <3> QED BY <2>1, <3>1 DEF InSeq, PortLists
  <2> HIDE DEF p
  <2>4. \A r \in Ports : r # p => queue'[r] = queue[r]
    BY <1>a, <2>1
  <2>5. EmptiedOK'
    BY <2>1, <2>3, <2>4 DEF EmptiedOK, thread
  <2> QED BY <2>2, <2>5
<1>5. CASE SubmitPush
  <2> DEFINE p == PortOf(submitting)
  <2>1. /\ UNCHANGED <<comp, cmds, thread>> /\ submitting # NoBuffer
        /\ submitting' = NoBuffer
        /\ \/ queue' = [queue EXCEPT ![p] = Append(@, submitting)]
           \/ queue' = [queue EXCEPT ![p] = @]
    BY <1>5 DEF SubmitPush
  <2>2. QuietOK'
    BY <2>1 DEF QuietOK
  <2>3. Quiet(p) /\ (statetrans = state \/ state = "Invalid")
    BY <2>1 DEF QuietOK
  <2> HIDE DEF p
  <2>4. pc \in {"return", "returning"} => ~InSeq(p, cmd.on) /\ cmd.op # "StateSet"
    <3> SUFFICES ASSUME pc \in {"return", "returning"}
                 PROVE  ~InSeq(p, cmd.on) /\ cmd.op # "StateSet"
      OBVIOUS
    <3>1. Busy /\ cmd.op \in {"StateSet", "Flush", "Disable"} /\ deinit # "done"
      BY DEF Busy, IInv, ThreadOK
    <3>2. cmd.op # "StateSet"
      <4> SUFFICES ASSUME cmd.op = "StateSet" PROVE FALSE
        OBVIOUS
      <4>1. state \in {"Executing", "Pause"} /\ cmd.to = "Idle"
        BY DEF IInv, ThreadOK, Transition, ToIdle
      <4> QED BY <2>3, <3>1, <4>1 DEF OneTransition, IsChange
    <3>3. ~InSeq(p, cmd.on)
      BY <2>3, <3>1, <3>2 DEF Quiet, PendingOn
    <3> QED BY <3>2, <3>3
  <2>5. \A r \in Ports : r # p => queue'[r] = queue[r]
    BY <1>a, <2>1
  <2>6. EmptiedOK'
    BY <2>1, <2>4, <2>5 DEF EmptiedOK, thread
  <2> QED BY <2>2, <2>6
<1>6. CASE DeinitJoined
  <2>1. submitting = NoBuffer /\ submitting' = submitting /\ pc' = "exited"
    BY <1>6 DEF DeinitJoined, PlacesOK, CallsOK, thread
  <2> QED BY <2>1 DEF QuietOK, EmptiedOK
<1> QED BY <1>1, <1>2, <1>3, <1>4, <1>5, <1>6 DEF ClientStep

(* Taking a command makes no command more pending than it was, and every   *)
(* other step of the thread at most answers one.                           *)
LEMMA ThreadQuiet ==
  ASSUME IInv, QuietOK, EmptiedOK, ThreadStep
  PROVE  QuietOK' /\ EmptiedOK'
<1>1. CASE TakeCommand
  <2>1. /\ cmds \in Seq(Commands) /\ cmds # << >>
        /\ cmd' = cmds[1] /\ cmds' = Tail(cmds) /\ todo' = cmd'.on
        /\ UNCHANGED <<state, statetrans, submitting, queue>>
    BY <1>1, HeadTailProperties DEF TakeCommand, IInv, TypeOK, ports, client
  <2>2. /\ Len(cmds) \in Nat \ {0} /\ DOMAIN cmds = 1..Len(cmds)
        /\ DOMAIN cmds' = 1..(Len(cmds) - 1)
        /\ \A i \in DOMAIN cmds' : cmds'[i] = cmds[i + 1]
    BY <2>1, HeadTailProperties, LenProperties, EmptySeq
  <2>3. \A op, p : PendingOn(op, p)' => PendingOn(op, p)
    <3> SUFFICES ASSUME NEW op, NEW p, PendingOn(op, p)' PROVE PendingOn(op, p)
      OBVIOUS
    <3>1. 1 \in DOMAIN cmds /\ \A i \in DOMAIN cmds' : i + 1 \in DOMAIN cmds
      BY <2>2
    <3>2. CASE cmd'.op = op /\ InSeq(p, cmd'.on)
      BY <2>1, <3>1, <3>2 DEF PendingOn
    <3>3. CASE ~(cmd'.op = op /\ InSeq(p, cmd'.on))
      <4>1. PICK i \in DOMAIN cmds' : cmds'[i].op = op /\ InSeq(p, cmds'[i].on)
        BY <3>3 DEF PendingOn, InSeq
      <4> QED BY <2>2, <3>1, <4>1 DEF PendingOn
    <3> QED BY <3>2, <3>3
  <2>4. QuietOK'
    BY <2>1, <2>3 DEF QuietOK, Quiet, PortOf
  <2>5. EmptiedOK'
    <3>1. cmd' \in Commands
      BY <2>1, <2>2, ElementOfSeq
    <3>2. pc' \in {"return", "returning"} => cmd'.op # "StateSet"
      BY <1>1, <3>1, CommandTypes DEF TakeCommand, Handler, Goto
    <3> QED BY <2>1, <3>2 DEF EmptiedOK
  <2> QED BY <2>4, <2>5
<1>2. CASE \/ Loop \/ Select \/ Input \/ Drained \/ SameState \/ IncorrectTransition
           \/ SetInvalid \/ DirectTransition \/ LoadedToIdle \/ LoadedToIdleFails
           \/ ToIdleEnd \/ IdleToLoaded \/ FlushComplete \/ DisableReturned
           \/ Deallocated \/ EnablePort
  <2>1. UNCHANGED <<cmds, cmd, submitting>> /\ pc' \notin {"return", "returning"}
    BY <1>2
    DEF Loop, Select, Input, Drained, SameState, IncorrectTransition, SetInvalid,
        DirectTransition, LoadedToIdle, LoadedToIdleFails, ToIdleEnd, IdleToLoaded,
        FlushComplete, DisableReturned, Deallocated, EnablePort, TransitionComplete, Fail, Goto,
        ThreadUnchanged, client
  <2>2. Busy' => Busy
    BY <1>2
    DEF Loop, Select, Input, Drained, SameState, IncorrectTransition, SetInvalid,
        DirectTransition, LoadedToIdle, LoadedToIdleFails, ToIdleEnd, IdleToLoaded,
        FlushComplete, DisableReturned, Deallocated, EnablePort, TransitionComplete, Fail, Goto,
        Busy
  <2>3. \/ UNCHANGED <<state, statetrans>>
        \/ statetrans' = state'
        \/ state' = "Invalid"
    BY <1>2
    DEF Loop, Select, Input, Drained, SameState, IncorrectTransition, SetInvalid,
        DirectTransition, LoadedToIdle, LoadedToIdleFails, ToIdleEnd, IdleToLoaded,
        FlushComplete, DisableReturned, Deallocated, EnablePort, TransitionComplete, Fail, comp
  <2>4. QuietOK'
    BY <2>1, <2>2, <2>3, StillQuiet
  <2> QED BY <2>1, <2>4 DEF EmptiedOK
<1>3. CASE ToIdleBegin \/ ReturnLock \/ ReturnOne \/ ReturnUnlock
  <2>1. UNCHANGED <<cmds, cmd, submitting, state, statetrans>> /\ Busy
    BY <1>3 DEF ToIdleBegin, ReturnLock, ReturnOne, ReturnUnlock, ThreadUnchanged, client, comp,
                Busy
  <2>2. QuietOK'
    BY <2>1, StillQuiet
  <2>3. CASE ToIdleBegin
    <3>1. todo' = <<"in", "out">>
      BY <2>3 DEF ToIdleBegin
    <3>2. \A p \in Ports : InSeq(p, todo')
      BY <3>1 DEF InSeq, Ports
    <3> QED BY <2>2, <3>2 DEF EmptiedOK
  <2>4. CASE ReturnLock \/ ReturnOne
    BY <2>1, <2>2, <2>4
    DEF EmptiedOK, ReturnLock, ReturnOne, ThreadUnchanged, ports
  <2>5. CASE ReturnUnlock
    <3>1. /\ pc = "returning" /\ todo \in PortLists /\ queue \in [Ports -> Seq(Buffers)]
          /\ todo' = Tail(todo) /\ queue' = [queue EXCEPT ![Head(todo)] = << >>]
      BY <2>5 DEF ReturnUnlock, IInv, ThreadOK, TypeOK, ThreadType, PortsType
    <3>2. \A p \in Ports : InSeq(p, todo) => p = Head(todo) \/ InSeq(p, Tail(todo))
      <4>1. /\ todo \in Seq(Ports) /\ todo # << >> /\ DOMAIN todo = 1..Len(todo)
        BY <3>1 DEF PortLists, Ports
      <4>2. /\ Len(todo) \in Nat /\ Head(todo) = todo[1]
            /\ DOMAIN Tail(todo) = 1..(Len(todo) - 1)
            /\ \A i \in 1..(Len(todo) - 1) : Tail(todo)[i] = todo[i + 1]
        BY <4>1, HeadTailProperties, LenProperties
      <4>3. \A i \in 1..Len(todo) : i = 1 \/ (i - 1 \in 1..(Len(todo) - 1)
                                              /\ Tail(todo)[i - 1] = todo[i])
        BY <4>2
      <4> QED BY <4>1, <4>2, <4>3 DEF InSeq
    <3>3. \A p \in Ports : queue'[p] = IF p = Head(todo) THEN << >> ELSE queue[p]
      BY <3>1
    <3> QED BY <2>1, <2>2, <3>1, <3>2, <3>3 DEF EmptiedOK
  <2> QED BY <1>3, <2>3, <2>4, <2>5
<1>4. CASE EncodeStep
  <2>1. /\ UNCHANGED <<cmds, cmd, submitting>> /\ ~Busy' /\ pc' \notin {"return", "returning"}
        /\ UNCHANGED <<state, statetrans>> \/ state' = "Invalid"
    BY <1>4
    DEF EncodeStep, StartStream, StartPop, StartGivesUp, EncodeFails, NoFrame, TakeFrame,
        EncodeFrame, Overflow, Abandon, EndStream, EndPop, EndStreamFails, InputDone, InputPop,
        Pop, AfterFrames, Fail, Goto, Busy, ThreadUnchanged, client, comp
  <2> QED BY <2>1, StillQuiet DEF EmptiedOK
<1>5. \/ TakeCommand \/ Loop \/ Select \/ Input \/ Drained \/ SameState \/ IncorrectTransition
      \/ SetInvalid \/ DirectTransition \/ LoadedToIdle \/ LoadedToIdleFails
      \/ ToIdleEnd \/ IdleToLoaded \/ FlushComplete \/ DisableReturned
      \/ Deallocated \/ EnablePort \/ ToIdleBegin \/ ReturnLock \/ ReturnOne \/ ReturnUnlock
      \/ EncodeStep
  BY Zenon DEF ThreadStep, CommandStep
<1> QED BY <1>1, <1>2, <1>3, <1>4, <1>5

(* To a careful client: both hold in every reachable state.                *)
LEMMA CarefulInvariance == Careful /\ Spec => [](QuietOK /\ EmptiedOK)
<1>1. Init => QuietOK /\ EmptiedOK
  BY DEF Init, QuietOK, EmptiedOK
<1>2. QuietOK /\ EmptiedOK /\ UNCHANGED vars => QuietOK' /\ EmptiedOK'
  <2> SUFFICES ASSUME QuietOK, EmptiedOK, UNCHANGED vars PROVE QuietOK' /\ EmptiedOK'
    OBVIOUS
  <2>1. UNCHANGED <<state, statetrans, cmds, pc, cmd, todo, submitting, queue>>
    BY DEF vars, comp, thread, client, ports
  <2>2. QuietOK'
    BY <2>1, StillQuiet DEF Busy
  <2> QED BY <2>1, <2>2 DEF EmptiedOK
<1>3. ASSUME Careful PROVE Spec => [](QuietOK /\ EmptiedOK)
  <2>1. IInv /\ PlacesOK /\ OneTransition /\ (QuietOK /\ EmptiedOK) /\ [Next]_vars
          => (QuietOK /\ EmptiedOK)'
    BY <1>2, <1>3, ClientQuiet, ThreadQuiet DEF Next
  <2>2. Spec => [](stray = 0)
    BY <1>3, CarefulHolds
  <2> QED BY <1>1, <2>1, <2>2, Invariance, PlacesInvariance, OneTransitionAtATime, PTL DEF Spec
<1> QED BY <1>3

(* When a flush, or the disabling of a port, is about to be answered, each *)
(* port it concerns has an empty queue: what a careful client has passed   *)
(* in it has got back, whatever calls overlapped with the command.         *)
THEOREM FlushedIsEmptyCorrect == Careful /\ Spec => []FlushedIsEmpty
<1>1. IInv /\ QuietOK /\ EmptiedOK => FlushedIsEmpty
  <2>1. \A p : ~InSeq(p, << >>)
    BY DEF InSeq
  <2> QED BY <2>1 DEF EmptiedOK, FlushedIsEmpty
<1>2. ASSUME Careful PROVE Spec => []FlushedIsEmpty
  BY <1>1, <1>2, Invariance, CarefulInvariance, PTL
<1> QED BY <1>2

(* Who owns a buffer, as the refinement mapping of ImplementsComponent     *)
(* tells it.                                                               *)
OwnerOf(b) ==
  IF b \notin allocated[PortOf(b)] THEN "none"
  ELSE IF b \in held[PortOf(b)] THEN "client" ELSE "component"
Owners == [b \in Buffers |-> OwnerOf(b)]

(* The variables of OmxComponent are the states and the owners.            *)
LEMMA ComponentVars == Component!vars = <<state, statetrans, Owners>>
BY DEF Component!vars, Owners, OwnerOf

(* A buffer changes hands.                                                 *)
LEMMA Given ==
  ASSUME NEW b \in Buffers, NEW from, NEW to, OwnerOf(b) = from, OwnerOf(b)' = to,
         \A c \in Buffers : c # b => OwnerOf(c)' = OwnerOf(c),
         UNCHANGED <<state, statetrans>>
  PROVE  Component!Give(b, from, to)
<1>1. Owners[b] = from /\ Owners' = [Owners EXCEPT ![b] = to]
  BY DEF Owners
<1> QED BY <1>1 DEF Component!Give, Owners, OwnerOf

(* The component gives a buffer back.                                      *)
LEMMA Returned ==
  ASSUME IInv, PlacesOK, NEW p \in Ports, NEW b, b \in allocated[p], b \notin held[p],
         held' = [held EXCEPT ![p] = @ \cup {b}],
         UNCHANGED <<allocated, state, statetrans>>
  PROVE  Component!Next
<1>1. /\ held \in [Ports -> SUBSET Buffers] /\ b \in Buffers /\ PortOf(b) = p
  BY DEF IInv, TypeOK, PortsType, ClientType, PlacesOK, OwnersOK, Owned
<1>2. /\ held'[p] = held[p] \cup {b}
      /\ \A r \in Ports : r # p => held'[r] = held[r]
  BY <1>1
<1>3. OwnerOf(b) = "component" /\ OwnerOf(b)' = "client"
  <2>1. OwnerOf(b)' = IF b \notin allocated'[p] THEN "none"
                      ELSE IF b \in held'[p] THEN "client" ELSE "component"
    BY <1>1 DEF OwnerOf, PortOf
  <2> QED BY <1>1, <1>2, <2>1 DEF OwnerOf
<1>4. \A c \in Buffers : c # b => OwnerOf(c)' = OwnerOf(c)
  BY <1>1, <1>2, PortOfType DEF OwnerOf, PortOf
<1>5. Component!Give(b, "component", "client")
  BY <1>1, <1>3, <1>4, Given
<1> QED BY <1>1, <1>5 DEF Component!Next, Component!Return

(* Nothing the abstract component knows of changes.                        *)
LEMMA NothingSeen ==
  ASSUME UNCHANGED <<state, statetrans, allocated, held>>
  PROVE  UNCHANGED Component!vars
<1>1. Owners' = Owners
  BY DEF Owners, OwnerOf, PortOf
<1> QED BY <1>1, ComponentVars DEF Component!vars, Owners, OwnerOf

(* The change of state asked for is the one the thread carries out.        *)
LEMMA PendingIsCommand ==
  ASSUME IInv, OneTransition, Busy, cmd.op = "StateSet", Transition \in Legal
  PROVE  statetrans = cmd.to /\ state # "Invalid" /\ statetrans # state
<1>1. state # "Invalid" /\ cmd.to # state
  BY DEF Transition, Legal, Direct, ToIdle
<1>2. deinit # "done"
  BY DEF IInv, ThreadOK, Busy
<1> QED BY <1>1, <1>2 DEF OneTransition, IsChange

(* Every call of the client is a step of the abstract component, or one it *)
(* does not see.                                                           *)
LEMMA ClientRefines ==
  ASSUME ~Reentrant, IInv, PlacesOK, stray = 0, stray' = 0, ClientStep
  PROVE  [Component!Next]_(Component!vars)
<1>a. /\ held \in [Ports -> SUBSET Buffers] /\ allocated \in [Ports -> SUBSET Buffers]
  BY DEF IInv, TypeOK, ClientType, PortsType
<1>b. \A p \in Ports : held[p] \subseteq allocated[p]
  BY DEF PlacesOK, OwnersOK, Owned
<1>1. ASSUME NEW c \in Requests, SendCommand(c) PROVE [Component!Next]_(Component!vars)
  <2>1. UNCHANGED <<state, allocated, held>> /\ state # "Invalid"
    BY <1>1 DEF SendCommand
  <2>2. CASE c.op = "StateSet"
    <3>1. statetrans = state /\ statetrans' = c.to
      BY <1>1, <2>2 DEF SendCommand, Accepts
    <3>2. c.to \in {"Loaded", "Idle", "Executing", "Pause", "WaitForResources", "Invalid"}
      BY CommandTypes, EncoderAssumption DEF EncoderAssumption, States
    <3>3. Owners' = Owners
      BY <2>1 DEF Owners, OwnerOf, PortOf
    <3>4. Component!Request(c.to)
      BY <2>1, <3>1, <3>3 DEF Component!Request, Owners, OwnerOf
    <3> QED BY <3>2, <3>4 DEF Component!Next
  <2>3. CASE c.op # "StateSet"
    <3>1. statetrans' = statetrans
      BY <1>1, <2>3 DEF SendCommand
    <3> QED BY <2>1, <3>1, NothingSeen
  <2> QED BY <2>2, <2>3
<1>2. ASSUME NEW b \in Buffers, AllocateBuffer(b) PROVE Component!Next
  <2> DEFINE p == PortOf(b)
  <2>1. p \in Ports
    BY PortOfType
  <2>2. /\ b \notin allocated[p] /\ state # "Invalid"
        /\ allocated' = [allocated EXCEPT ![p] = @ \cup {b}]
        /\ held' = [held EXCEPT ![p] = @ \cup {b}]
        /\ UNCHANGED <<state, statetrans>>
    BY <1>2 DEF AllocateBuffer, MayAllocate, comp
  <2>3. OwnerOf(b) = "none" /\ OwnerOf(b)' = "client"
    BY <1>a, <2>1, <2>2 DEF OwnerOf, PortOf
  <2>4. \A c \in Buffers : c # b => OwnerOf(c)' = OwnerOf(c)
    BY <1>a, <2>1, <2>2, PortOfType DEF OwnerOf, PortOf
  <2>5. Component!Give(b, "none", "client")
    BY <2>2, <2>3, <2>4, Given
  <2> QED BY <2>2, <2>5 DEF Component!Next, Component!Allocate
<1>3. ASSUME NEW b \in Buffers, FreeBuffer(b) PROVE Component!Next
  <2> DEFINE p == PortOf(b)
  <2>1. p \in Ports
    BY PortOfType
  <2>2. /\ b \in allocated[p] /\ b \in held[p]
        /\ allocated' = [allocated EXCEPT ![p] = @ \ {b}]
        /\ held' = [held EXCEPT ![p] = @ \ {b}]
        /\ UNCHANGED <<state, statetrans>>
    BY <1>3 DEF FreeBuffer, comp
  <2>3. OwnerOf(b) = "client" /\ OwnerOf(b)' = "none"
    BY <1>a, <2>1, <2>2 DEF OwnerOf, PortOf
  <2>4. \A c \in Buffers : c # b => OwnerOf(c)' = OwnerOf(c)
    BY <1>a, <2>1, <2>2, PortOfType DEF OwnerOf, PortOf
  <2>5. Component!Give(b, "client", "none")
    BY <2>2, <2>3, <2>4, Given
  <2> QED BY <2>2, <2>5 DEF Component!Next, Component!Free
<1>4. ASSUME NEW b \in Buffers, SubmitCheck(b) PROVE Component!Next
  <2> DEFINE p == PortOf(b)
  <2>1. p \in Ports
    BY PortOfType
  <2>2. /\ b \in held[p] /\ b \in allocated[p] /\ state \in {"Executing", "Pause"}
        /\ allocated' = allocated
        /\ held' = [held EXCEPT ![p] = @ \ {b}]
        /\ UNCHANGED <<state, statetrans>>
    BY <1>4, <1>b, <2>1 DEF SubmitCheck, MayPass, comp, ports
  <2>3. OwnerOf(b) = "client" /\ OwnerOf(b)' = "component"
    BY <1>a, <2>1, <2>2 DEF OwnerOf, PortOf
  <2>4. \A c \in Buffers : c # b => OwnerOf(c)' = OwnerOf(c)
    BY <1>a, <2>1, <2>2, PortOfType DEF OwnerOf, PortOf
  <2>5. Component!Give(b, "client", "component")
    BY <2>2, <2>3, <2>4, Given
  <2> QED BY <2>2, <2>5 DEF Component!Next, Component!Submit
<1>5. CASE SubmitPush \/ Deinit \/ \E b \in Buffers : Unpopulate(b)
  <2>1. UNCHANGED <<state, statetrans, allocated, held>>
    BY <1>5 DEF SubmitPush, Deinit, Unpopulate, comp, ports
  <2> QED BY <2>1, NothingSeen
<1>6. CASE DeinitJoined
  <2>1. UNCHANGED <<state, statetrans>> /\ \A p \in Ports : allocated'[p] = {}
    BY <1>6 DEF DeinitJoined
  <2>2. Owners' = [b \in Buffers |-> "none"]
    BY <2>1, PortOfType DEF Owners, OwnerOf, PortOf
  <2>3. Component!Destroy
    BY <2>1, <2>2 DEF Component!Destroy, Owners, OwnerOf
  <2> QED BY <2>3 DEF Component!Next
<1>7. \A b \in Buffers : ~SubmitFromCallback(b)
  BY DEF SubmitFromCallback
<1> QED BY <1>1, <1>2, <1>3, <1>4, <1>5, <1>6, <1>7 DEF ClientStep

(* When the thread is about to answer the change to Idle, every buffer is  *)
(* with the client.                                                        *)
LEMMA IdleOwnsNothing ==
  ASSUME ~Reentrant, IInv, PlacesOK, OneTransition, QuietOK, EmptiedOK, ToIdleEnd
  PROVE  \A b \in Buffers : OwnerOf(b) # "component"
<1> SUFFICES ASSUME NEW b \in Buffers, OwnerOf(b) = "component" PROVE FALSE
  OBVIOUS
<1> DEFINE p == PortOf(b)
<1>1. p \in Ports
  BY PortOfType
<1>2. pc = "return" /\ todo = << >> /\ cmd.op = "StateSet" /\ Transition \in ToIdle
  BY DEF ToIdleEnd, IInv, ThreadOK
<1>3. submitting = NoBuffer
  <2>1. statetrans # state /\ state # "Invalid"
    BY <1>2, PendingIsCommand DEF Legal, Busy
  <2> QED BY <2>1 DEF QuietOK
<1>4. queue[p] = << >>
  <2>1. ~InSeq(p, << >>)
    BY DEF InSeq
  <2> QED BY <1>1, <1>2, <2>1 DEF EmptiedOK
<1>5. b \in allocated[p] /\ b \notin held[p]
  BY DEF OwnerOf
<1>6. Kept(queue[p], HandedBack(p), held[p], allocated[p], submitting)
  BY <1>1 DEF PlacesOK, KeptOK
<1>7. HandedBack(p) = 0 /\ Len(<< >>) = 0
  BY <1>2, EmptySeq DEF HandedBack, Locked
<1>8. NoBuffer \notin Buffers
  BY EncoderAssumption DEF EncoderAssumption
<1> QED BY <1>3, <1>4, <1>5, <1>6, <1>7, <1>8 DEF Kept

(* Every step of the thread is a step of the abstract component, or one it *)
(* does not see.                                                           *)
LEMMA ThreadRefines ==
  ASSUME ~Reentrant, IInv, PlacesOK, OneTransition, QuietOK, EmptiedOK, ThreadStep
  PROVE  [Component!Next]_(Component!vars)
<1>a. /\ queue \in [Ports -> Seq(Buffers)] /\ allocated \in [Ports -> SUBSET Buffers]
      /\ "in" \in Ports /\ "out" \in Ports
  BY DEF IInv, TypeOK, PortsType, Ports
<1>b. \A p \in Ports : queue[p] # << >> => /\ 0 + 1 <= Len(queue[p])
                                           /\ Head(queue[p]) = queue[p][0 + 1]
  BY <1>a, LenProperties, EmptySeq, HeadTailProperties
<1>c. \A p \in Ports :
        /\ Owned(p, queue[p], HandedBack(p), held[p], allocated[p], submitting)
        /\ queue[p] \in Seq(Buffers)
  BY <1>a DEF PlacesOK, OwnersOK
<1>1. CASE \/ Loop \/ Select \/ Input \/ TakeCommand \/ Drained \/ SameState \/ ToIdleBegin
           \/ ReturnLock \/ ReturnUnlock \/ FlushComplete \/ DisableReturned \/ Deallocated
           \/ EnablePort
  <2>1. UNCHANGED <<state, statetrans, allocated, held>>
    BY <1>1
    DEF Loop, Select, Input, TakeCommand, Drained, SameState, ToIdleBegin, ReturnLock,
        ReturnUnlock, FlushComplete, DisableReturned, Deallocated, EnablePort, ThreadUnchanged,
        comp, ports, client
  <2> QED BY <2>1, NothingSeen
<1>2. CASE \/ StartPop \/ StartGivesUp \/ NoFrame \/ TakeFrame \/ Abandon \/ EndPop
           \/ EndStreamFails \/ InputPop \/ (Overflow /\ copied)
  <2>1. UNCHANGED <<state, statetrans, allocated, held>>
    BY <1>2
    DEF StartPop, StartGivesUp, NoFrame, TakeFrame, Abandon, EndPop, EndStreamFails, InputPop,
        Overflow, Pop, ThreadUnchanged, comp, ports, client
  <2> QED BY <2>1, NothingSeen
<1>3. CASE IncorrectTransition
  <2>1. statetrans' = state /\ UNCHANGED <<state, allocated, held>>
    BY <1>3 DEF IncorrectTransition, ThreadUnchanged, ports, client
  <2>2. Owners' = Owners
    BY <2>1 DEF Owners, OwnerOf, PortOf
  <2>3. Component!Refuse
    BY <2>1, <2>2 DEF Component!Refuse, Owners, OwnerOf
  <2> QED BY <2>3 DEF Component!Next
<1>4. CASE SetInvalid \/ LoadedToIdleFails \/ EncodeFails \/ (Overflow /\ ~copied)
  <2>1. state' = "Invalid" /\ UNCHANGED <<statetrans, allocated, held>>
    BY <1>4 DEF SetInvalid, LoadedToIdleFails, EncodeFails, Overflow, Fail, ThreadUnchanged,
                ports, client
  <2>2. Owners' = Owners
    BY <2>1 DEF Owners, OwnerOf, PortOf
  <2>3. Component!Fail
    BY <2>1, <2>2 DEF Component!Fail, Owners, OwnerOf
  <2> QED BY <2>3 DEF Component!Next
<1>5. CASE DirectTransition \/ LoadedToIdle \/ IdleToLoaded \/ ToIdleEnd
  <2>1. /\ statetrans' = cmd.to /\ state' = cmd.to /\ UNCHANGED <<allocated, held>>
        /\ cmd.op = "StateSet" /\ Busy /\ Transition \in Legal
    BY <1>5
    DEF DirectTransition, LoadedToIdle, IdleToLoaded, ToIdleEnd, TransitionComplete,
        ThreadUnchanged, ports, client, IInv, ThreadOK, Busy, Legal
  <2>2. statetrans = cmd.to
    BY <2>1, PendingIsCommand
  <2>3. Owners' = Owners
    BY <2>1 DEF Owners, OwnerOf, PortOf
  <2>4. \/ state = "Loaded" /\ statetrans \in {"Idle", "WaitForResources"}
        \/ state = "WaitForResources" /\ statetrans = "Loaded"
        \/ state = "Idle" /\ statetrans \in {"Executing", "Pause"}
        \/ state = "Executing" /\ statetrans = "Pause"
        \/ state = "Pause" /\ statetrans = "Executing"
        \/ state \in {"Executing", "Pause"} /\ statetrans = "Idle" /\ Component!NobodyOf({"component"})
        \/ state = "Idle" /\ statetrans = "Loaded" /\ Component!NobodyOf({"component", "client"})
    <3>1. CASE DirectTransition
      BY <2>2, <3>1 DEF DirectTransition, Direct, Transition
    <3>2. CASE LoadedToIdle
      BY <2>2, <3>2 DEF LoadedToIdle, Transition
    <3>3. CASE IdleToLoaded
      <4>1. \A p \in Ports : allocated[p] = {}
        BY <3>3 DEF IdleToLoaded
      <4>2. \A b \in Buffers : OwnerOf(b) = "none"
        BY <4>1, PortOfType DEF OwnerOf
      <4>3. Component!NobodyOf({"component", "client"})
        BY <4>2 DEF Component!NobodyOf, OwnerOf
      <4> QED BY <2>2, <3>3, <4>3 DEF IdleToLoaded, Transition
    <3>4. CASE ToIdleEnd
      <4>1. \A b \in Buffers : OwnerOf(b) # "component"
        BY <3>4, IdleOwnsNothing
      <4>2. Component!NobodyOf({"component"})
        BY <4>1 DEF Component!NobodyOf, OwnerOf
      <4>3. Transition \in ToIdle
        BY <3>4 DEF ToIdleEnd, IInv, ThreadOK
      <4> QED BY <2>2, <4>2, <4>3 DEF Transition, ToIdle
    <3> QED BY <1>5, <3>1, <3>2, <3>3, <3>4
  <2>5. Component!Complete
    BY <2>1, <2>2, <2>3, <2>4 DEF Component!Complete, Owners, OwnerOf
  <2> QED BY <2>5 DEF Component!Next
<1>6. CASE ReturnOne
  <2>1. PICK p \in Ports : p = Head(todo)
    BY <1>6, PortListTypes DEF ReturnOne, IInv, ThreadOK, TypeOK, ThreadType
  <2>2. /\ pc = "returning" /\ idx <= count /\ count <= Len(queue[p]) /\ idx >= 1
        /\ idx \in Nat /\ count \in Nat
        /\ held' = [held EXCEPT ![p] = @ \cup {queue[p][idx]}]
        /\ UNCHANGED <<allocated, state, statetrans>>
    BY <1>6, <2>1 DEF ReturnOne, Return, IInv, ThreadOK, TypeOK, ThreadType, comp, ports
  <2>3. HandedBack(p) = idx - 1 /\ HandedBack(p) \in Nat
    BY <2>1, <2>2 DEF HandedBack, Locked
  <2>4. Len(queue[p]) \in Nat /\ queue[p] \in Seq(Buffers)
    BY <1>a, LenProperties
  <2>5. HandedBack(p) + 1 <= Len(queue[p]) /\ HandedBack(p) + 1 = idx
    BY <2>2, <2>3, <2>4
  <2>6. queue[p][idx] \in allocated[p] /\ queue[p][idx] \notin held[p]
    <3>1. Owned(p, queue[p], HandedBack(p), held[p], allocated[p], submitting)
      BY <1>c
    <3> QED BY <2>3, <2>4, <2>5, <3>1, OwnedReturn
  <2>7. Component!Next
    BY <2>2, <2>6, Returned
  <2> QED BY <2>7
<1>7. CASE StartStream \/ EndStream \/ EncodeFrame
  <2>1. /\ queue["out"] # << >> /\ pc \in {"start", "eos", "output"}
        /\ held' = [held EXCEPT !["out"] = @ \cup {Head(queue["out"])}]
        /\ UNCHANGED <<allocated, state, statetrans>>
    BY <1>7 DEF StartStream, EndStream, EncodeFrame, NoOutput, Return, comp, ports
  <2>2. HandedBack("out") = 0
    BY <2>1 DEF HandedBack, Locked
  <2>3. Head(queue["out"]) \in allocated["out"] /\ Head(queue["out"]) \notin held["out"]
    <3>1. /\ Owned("out", queue["out"], 0, held["out"], allocated["out"], submitting)
          /\ queue["out"] \in Seq(Buffers) /\ 0 + 1 <= Len(queue["out"])
          /\ Head(queue["out"]) = queue["out"][0 + 1]
      BY <1>a, <1>b, <1>c, <2>1, <2>2
    <3>2. /\ queue["out"][0 + 1] \in allocated["out"]
          /\ queue["out"][0 + 1] \notin held["out"]
      BY <1>a, <3>1, OwnedReturn
    <3> QED BY <3>1, <3>2
  <2>4. Component!Next
    BY <1>a, <2>1, <2>3, Returned
  <2> QED BY <2>4
<1>8. CASE InputDone
  <2>1. /\ queue["in"] # << >> /\ pc = "done"
        /\ held' = [held EXCEPT !["in"] = @ \cup {Head(queue["in"])}]
        /\ UNCHANGED <<allocated, state, statetrans>>
    BY <1>8 DEF InputDone, IInv, ThreadOK, Return, comp, ports
  <2>2. HandedBack("in") = 0
    BY <2>1 DEF HandedBack, Locked
  <2>3. Head(queue["in"]) \in allocated["in"] /\ Head(queue["in"]) \notin held["in"]
    <3>1. /\ Owned("in", queue["in"], 0, held["in"], allocated["in"], submitting)
          /\ queue["in"] \in Seq(Buffers) /\ 0 + 1 <= Len(queue["in"])
          /\ Head(queue["in"]) = queue["in"][0 + 1]
      BY <1>a, <1>b, <1>c, <2>1, <2>2
    <3>2. /\ queue["in"][0 + 1] \in allocated["in"]
          /\ queue["in"][0 + 1] \notin held["in"]
      BY <1>a, <3>1, OwnedReturn
    <3> QED BY <3>1, <3>2
  <2>4. Component!Next
    BY <1>a, <2>1, <2>3, Returned
  <2> QED BY <2>4
<1>9. \/ Loop \/ Select \/ Input \/ TakeCommand \/ Drained \/ SameState \/ ToIdleBegin
      \/ ReturnLock \/ ReturnUnlock \/ FlushComplete \/ DisableReturned \/ Deallocated
      \/ EnablePort \/ IncorrectTransition \/ SetInvalid \/ LoadedToIdleFails \/ EncodeFails
      \/ Overflow \/ DirectTransition \/ LoadedToIdle \/ IdleToLoaded \/ ToIdleEnd
      \/ ReturnOne \/ StartStream \/ EndStream \/ EncodeFrame \/ InputDone
      \/ StartPop \/ StartGivesUp \/ NoFrame \/ TakeFrame \/ Abandon \/ EndPop
      \/ EndStreamFails \/ InputPop
  BY Zenon DEF ThreadStep, CommandStep, EncodeStep
<1> QED BY <1>1, <1>2, <1>3, <1>4, <1>5, <1>6, <1>7, <1>8, <1>9

(* To a client that respects the protocol and makes no call from inside a  *)
(* callback the encoder is the component of OmxComponent: along legal      *)
(* transitions only, to the state that was asked for, with one owner for   *)
(* every buffer, and none left with the component when it becomes Idle.    *)
THEOREM ComponentImplemented == Careful /\ ~Reentrant /\ Spec => ImplementsComponent
<1>1. Init => Component!Init
  <2> SUFFICES ASSUME Init PROVE Component!Init
    OBVIOUS
  <2>1. Owners = [b \in Buffers |-> "none"]
    BY PortOfType DEF Init, Owners, OwnerOf
  <2> QED BY <2>1 DEF Init, Component!Init, Owners, OwnerOf
<1>2. UNCHANGED vars => UNCHANGED Component!vars
  BY NothingSeen DEF vars, comp, ports, client
<1>3. ASSUME Careful, ~Reentrant PROVE Spec => ImplementsComponent
  <2>1. IInv /\ PlacesOK /\ stray = 0 /\ OneTransition /\ QuietOK /\ EmptiedOK /\ [Next]_vars
          => [Component!Next]_(Component!vars)
    <3> SUFFICES ASSUME IInv, PlacesOK, stray = 0, OneTransition, QuietOK, EmptiedOK, [Next]_vars
                 PROVE  [Component!Next]_(Component!vars)
      OBVIOUS
    <3>1. stray' = 0
      BY <1>3, StraySteps
    <3> QED BY <1>2, <1>3, <3>1, ClientRefines, ThreadRefines DEF Next
  <2>2. Spec => [](QuietOK /\ EmptiedOK)
    BY <1>3, CarefulInvariance
  <2>3. Spec => [](stray = 0)
    BY <1>3, CarefulHolds
  <2> QED BY <1>1, <2>1, <2>2, <2>3, Invariance, PlacesInvariance, OneTransitionAtATime, PTL
          DEF Spec, ImplementsComponent, Component!Spec
<1> QED BY <1>3

(* The frame with number n is not older than the last one encoded, nor     *)
(* than those copied to frame_in.                                          *)
NotPast(l, f, n) == l <= n /\ \A i \in DOMAIN f : f[i] <= n

(* The frames in frame_in are in order, behind the last one encoded.       *)
Sorted(l, f) ==
  \A i \in DOMAIN f : l <= f[i] /\ \A j \in DOMAIN f : i <= j => f[i] <= f[j]

(* Behind those come the queued ones, but for the first h, in order, and   *)
(* behind them the one inside EmptyThisBuffer.                             *)
Ascending(l, f, q, h, c, s) ==
  \A i \in h + 1 .. Len(q) :
    /\ NotPast(l, f, c[q[i]])
    /\ \A j \in h + 1 .. Len(q) : i <= j => c[q[i]] <= c[q[j]]
    /\ s \in InBuffers => c[q[i]] <= c[s]

(* The frames in the component are in the order in which they came; while  *)
(* the input port is locked its queue is about to be emptied.              *)
OrderOK ==
  /\ Sorted(last, frames)
  /\ (pc = "output" /\ ~copied) => frames = << >>
  /\ NotPast(last, frames, frameCount)
  /\ \A b \in Buffers : contents[b] <= frameCount
  /\ submitting \in InBuffers => NotPast(last, frames, contents[submitting])
  /\ ~Locked("in") =>
       Ascending(last, frames, queue["in"], HandedBack("in"), contents, submitting)

(* What those formulas range over.                                         *)
LEMMA OrderTypes ==
  ASSUME IInv
  PROVE  /\ last \in Nat /\ frames \in Seq(Nat) /\ DOMAIN frames = 1..Len(frames)
         /\ Len(frames) \in Nat /\ \A i \in DOMAIN frames : frames[i] \in Nat
         /\ frameCount \in Nat /\ contents \in [Buffers -> Nat]
         /\ queue["in"] \in Seq(Buffers) /\ Len(queue["in"]) \in Nat
         /\ \A i \in 1..Len(queue["in"]) : /\ queue["in"][i] \in Buffers
                                           /\ contents[queue["in"][i]] \in Nat
         /\ InBuffers \subseteq Buffers
<1>1. /\ last \in Nat /\ frames \in Seq(Nat) /\ frameCount \in Nat
      /\ contents \in [Buffers -> Nat] /\ queue["in"] \in Seq(Buffers)
  BY DEF IInv, TypeOK, DataType, ClientType, PortsType, Ports
<1>2. /\ DOMAIN frames = 1..Len(frames) /\ Len(frames) \in Nat
      /\ \A i \in DOMAIN frames : frames[i] \in Nat
  BY <1>1, LenProperties, ElementOfSeq
<1>3. /\ Len(queue["in"]) \in Nat
      /\ \A i \in 1..Len(queue["in"]) : queue["in"][i] \in Buffers
  BY <1>1, LenProperties, ElementOfSeq
<1> QED BY <1>1, <1>2, <1>3 DEF Buffers

(* A step of the thread that leaves the input queue alone, or hands back,  *)
(* or empties it: what was not past the frames before and is at least m is *)
(* not past them after the step.                                           *)
LEMMA FramesMoved ==
  ASSUME IInv, PlacesOK, OrderOK, UNCHANGED <<contents, submitting, frameCount>>,
         \/ queue'["in"] = << >>
         \/ /\ queue'["in"] = queue["in"]
            /\ ~Locked("in")' => ~Locked("in") /\ HandedBack("in") <= HandedBack("in")'
                                 /\ HandedBack("in")' \in Nat,
         Sorted(last', frames'), (pc' = "output" /\ ~copied') => frames' = << >>,
         NEW m \in Nat,
         ~Locked("in")' => \A i \in HandedBack("in") + 1 .. Len(queue'["in"]) :
                             m <= contents[queue["in"][i]],
         m <= frameCount, submitting \in InBuffers => m <= contents[submitting],
         \A n \in Nat : (m <= n /\ NotPast(last, frames, n)) => NotPast(last', frames', n)
  PROVE  OrderOK'
<1>1. NotPast(last', frames', frameCount)
  BY OrderTypes DEF OrderOK
<1>2. submitting \in InBuffers => NotPast(last', frames', contents[submitting])
  BY OrderTypes DEF OrderOK
<1>3. ~Locked("in")' =>
         Ascending(last', frames', queue'["in"], HandedBack("in")', contents, submitting)
  <2>1. CASE queue'["in"] = << >>
    <3>1. HandedBack("in")' = 0 \/ Locked("in")' \/ HandedBack("in")' = 1
      BY DEF HandedBack
    <3>2. ~Locked("in")' => \A i : i \notin HandedBack("in")' + 1 .. Len(queue'["in"])
      BY <2>1, <3>1, EmptySeq
    <3> QED BY <3>2, Zenon DEF Ascending
  <2>2. CASE queue'["in"] # << >>
    <3> SUFFICES ASSUME ~Locked("in")'
                 PROVE  Ascending(last', frames', queue["in"], HandedBack("in")', contents,
                                  submitting)
      BY <2>2
    <3>1. /\ Ascending(last, frames, queue["in"], HandedBack("in"), contents, submitting)
          /\ HandedBack("in") <= HandedBack("in")' /\ HandedBack("in")' \in Nat
          /\ HandedBack("in") \in Nat /\ queue'["in"] = queue["in"]
      BY <2>2, HandedBackType DEF OrderOK, PlacesOK, Ports
    <3>2. \A i \in HandedBack("in")' + 1 .. Len(queue["in"]) :
            /\ i \in HandedBack("in") + 1 .. Len(queue["in"]) /\ i \in 1..Len(queue["in"])
      BY <3>1, OrderTypes
    <3>3. \A i \in HandedBack("in")' + 1 .. Len(queue["in"]) :
            NotPast(last', frames', contents[queue["in"][i]])
      <4> TAKE i \in HandedBack("in")' + 1 .. Len(queue["in"])
      <4>1. NotPast(last, frames, contents[queue["in"][i]])
        BY <3>1, <3>2, Zenon DEF Ascending
      <4>2. contents[queue["in"][i]] \in Nat /\ m <= contents[queue["in"][i]]
        BY <3>1, <3>2, OrderTypes
      <4> QED BY <4>1, <4>2
    <3> QED BY <3>1, <3>2, <3>3, Zenon DEF Ascending
  <2> QED BY <2>1, <2>2
<1> QED BY <1>1, <1>2, <1>3 DEF OrderOK

(* What the client does keeps the order: only SubmitCheck and a call from  *)
(* inside a callback number a frame, and only the pushes queue one.        *)
LEMMA ClientOrder ==
  IInv /\ PlacesOK /\ OrderOK /\ stray = 0 /\ stray' = 0 /\ ClientStep => OrderOK'
<1> SUFFICES ASSUME IInv, PlacesOK, OrderOK, stray = 0, stray' = 0, ClientStep PROVE OrderOK'
  OBVIOUS
<1> DEFINE q == queue["in"]
           h == HandedBack("in")
<1>a. /\ last \in Nat /\ frames \in Seq(Nat) /\ DOMAIN frames = 1..Len(frames)
      /\ Len(frames) \in Nat /\ \A i \in DOMAIN frames : frames[i] \in Nat
      /\ frameCount \in Nat /\ contents \in [Buffers -> Nat]
      /\ q \in Seq(Buffers) /\ Len(q) \in Nat
      /\ \A i \in 1..Len(q) : q[i] \in Buffers /\ contents[q[i]] \in Nat
      /\ InBuffers \subseteq Buffers
  BY OrderTypes
<1>b. /\ h \in Nat /\ h <= Len(q)
      /\ Owned("in", q, h, held["in"], allocated["in"], submitting)
      /\ "in" \in Ports /\ "out" \in Ports
      /\ held \in [Ports -> SUBSET Buffers] /\ queue \in [Ports -> Seq(Buffers)]
      /\ NoBuffer \notin Buffers
  BY HandedBackType, EncoderAssumption
  DEF PlacesOK, OwnersOK, Ports, IInv, TypeOK, ClientType, PortsType, EncoderAssumption
<1>c. \A i \in h + 1 .. Len(q) : i \in 1..Len(q) /\ q[i] \notin held["in"] /\ q[i] # submitting
                                 /\ PortOf(q[i]) = "in"
  BY <1>b, <1>a DEF Owned
<1>d. \A b \in Buffers : b \in InBuffers <=> PortOf(b) = "in"
  BY DEF PortOf
<1>e. /\ Sorted(last, frames)
      /\ (pc = "output" /\ ~copied) => frames = << >>
      /\ NotPast(last, frames, frameCount)
      /\ \A b \in Buffers : contents[b] <= frameCount
      /\ submitting \in InBuffers => NotPast(last, frames, contents[submitting])
      /\ ~Locked("in") => Ascending(last, frames, q, h, contents, submitting)
  BY DEF OrderOK
<1>f. NotPast(last, frames, frameCount + 1)
  BY <1>a, <1>e DEF NotPast
<1> HIDE DEF q, h
<1>1. CASE \/ \E c \in Requests : SendCommand(c)
           \/ \E b \in Buffers : AllocateBuffer(b) \/ Unpopulate(b)
           \/ Deinit
  <2>1. UNCHANGED <<pc, todo, idx, last, frames, copied, queue, submitting, contents, frameCount>>
    BY <1>1 DEF SendCommand, AllocateBuffer, Unpopulate, Deinit, thread, data, ports
  <2> QED BY <1>e, <2>1 DEF OrderOK, HandedBack, Locked, q, h
<1>2. ASSUME NEW b \in Buffers, FreeBuffer(b) PROVE OrderOK'
  <2>1. /\ UNCHANGED <<pc, todo, idx, last, frames, copied, queue, submitting, frameCount>>
        /\ contents' = [contents EXCEPT ![b] = 0] /\ b \in held[PortOf(b)]
    BY <1>2 DEF FreeBuffer, thread, data
  <2>2. HandedBack("in")' = h /\ Locked("in")' = Locked("in") /\ queue'["in"] = q
    BY <2>1 DEF HandedBack, Locked, q, h
  <2>3. \A c \in Buffers : contents'[c] <= frameCount
    BY <1>a, <1>e, <2>1
  <2>4. \A i \in h + 1 .. Len(q) : contents'[q[i]] = contents[q[i]]
    BY <1>a, <1>c, <2>1
  <2>5. submitting \in InBuffers => contents'[submitting] = contents[submitting]
    <3>1. submitting \in InBuffers => submitting \notin held["in"] /\ PortOf(submitting) = "in"
      BY <1>a, <1>b, <1>d DEF Owned
    <3> QED BY <1>a, <2>1, <3>1
  <2>6. ~Locked("in") => Ascending(last, frames, q, h, contents', submitting)
    BY <1>e, <2>4, <2>5 DEF Ascending
  <2> QED BY <1>e, <2>1, <2>2, <2>3, <2>5, <2>6 DEF OrderOK
<1>3. ASSUME NEW b \in Buffers, SubmitCheck(b) PROVE OrderOK'
  <2>1. /\ UNCHANGED <<pc, todo, idx, last, frames, copied, queue>>
        /\ submitting' = b /\ b \in held[PortOf(b)]
    BY <1>3 DEF SubmitCheck, MayPass, thread, data, ports
  <2>2. HandedBack("in")' = h /\ Locked("in")' = Locked("in") /\ queue'["in"] = q
    BY <2>1 DEF HandedBack, Locked, q, h
  <2>3. CASE PortOf(b) = "in"
    <3>1. frameCount' = frameCount + 1 /\ contents' = [contents EXCEPT ![b] = frameCount + 1]
      BY <1>3, <2>3 DEF SubmitCheck
    <3>2. \A c \in Buffers : contents'[c] <= frameCount'
      BY <1>a, <1>e, <3>1
    <3>3. \A i \in h + 1 .. Len(q) : contents'[q[i]] = contents[q[i]]
      BY <1>a, <1>c, <2>1, <2>3, <3>1
    <3>4. contents'[b] = frameCount + 1
      BY <1>a, <3>1
    <3>5. \A i \in h + 1 .. Len(q) : contents'[q[i]] <= contents'[b]
      BY <1>a, <1>c, <1>e, <3>1, <3>3, <3>4
    <3>6. ~Locked("in") => Ascending(last, frames, q, h, contents', b)
      BY <1>e, <3>3, <3>5 DEF Ascending
    <3> QED BY <1>e, <1>f, <2>1, <2>2, <3>1, <3>2, <3>4, <3>6 DEF OrderOK
  <2>4. CASE PortOf(b) # "in"
    <3>1. frameCount' = frameCount /\ contents' = contents /\ b \notin InBuffers
      BY <1>3, <1>d, <2>4 DEF SubmitCheck
    <3>2. ~Locked("in") => Ascending(last, frames, q, h, contents, b)
      BY <1>e, <3>1 DEF Ascending
    <3> QED BY <1>e, <2>1, <2>2, <3>1, <3>2 DEF OrderOK
  <2> QED BY <2>3, <2>4
<1>4. ASSUME NEW b \in Buffers, SubmitFromCallback(b) PROVE OrderOK'
  <2>1. /\ UNCHANGED <<pc, todo, idx, last, frames, copied, submitting>>
        /\ b \in held[PortOf(b)] /\ Locked(PortOf(b))
        /\ queue' = [queue EXCEPT ![PortOf(b)] = Append(@, b)]
    BY <1>4 DEF SubmitFromCallback, MayPass, thread, data
  <2>2. HandedBack("in")' = h /\ Locked("in")' = Locked("in")
    BY <2>1 DEF HandedBack, Locked, h
  <2>3. CASE PortOf(b) = "in"
    <3>1. frameCount' = frameCount + 1 /\ contents' = [contents EXCEPT ![b] = frameCount + 1]
      BY <1>4, <2>3 DEF SubmitFromCallback
    <3>2. \A c \in Buffers : contents'[c] <= frameCount'
      BY <1>a, <1>e, <3>1
    <3>3. submitting \in InBuffers => contents'[submitting] = contents[submitting]
      <4>1. submitting \in InBuffers => submitting \notin held["in"]
        BY <1>a, <1>b, <1>d DEF Owned
      <4> QED BY <1>a, <2>1, <2>3, <3>1, <4>1
    <3>4. Locked("in")'
      BY <2>1, <2>2, <2>3
    <3> QED BY <1>e, <1>f, <2>1, <3>1, <3>2, <3>3, <3>4 DEF OrderOK
  <2>4. CASE PortOf(b) # "in"
    <3>1. frameCount' = frameCount /\ contents' = contents /\ queue'["in"] = q
      BY <1>4, <1>b, <2>1, <2>4 DEF SubmitFromCallback, q
    <3> QED BY <1>e, <2>1, <2>2, <3>1 DEF OrderOK
  <2> QED BY <2>3, <2>4
<1>5. CASE SubmitPush
  <2>1. /\ UNCHANGED <<pc, todo, idx, last, frames, copied, contents, frameCount>>
        /\ submitting' = NoBuffer /\ submitting \in Buffers
        /\ queue' = [queue EXCEPT ![PortOf(submitting)] = Append(@, submitting)]
    <3>1. submitting \in Buffers
      BY <1>5 DEF SubmitPush, IInv, TypeOK, ClientType
    <3>2. Owned(PortOf(submitting), queue[PortOf(submitting)], HandedBack(PortOf(submitting)),
                held[PortOf(submitting)], allocated[PortOf(submitting)], submitting)
      BY <3>1, PortOfType DEF PlacesOK, OwnersOK
    <3>3. submitting \in allocated[PortOf(submitting)]
      BY <3>1, <3>2, Zenon DEF Owned
    <3> QED BY <1>5, <3>1, <3>3 DEF SubmitPush, thread, data
  <2>2. HandedBack("in")' = h /\ Locked("in")' = Locked("in") /\ NoBuffer \notin InBuffers
    BY <1>a, <1>b, <2>1 DEF HandedBack, Locked, h
  <2>3. CASE submitting \in InBuffers
    <3> DEFINE t == Append(q, submitting)
    <3>1. queue'["in"] = t
      BY <1>b, <1>d, <2>1, <2>3 DEF q
    <3>2. \A i \in h + 1 .. Len(t) :
              \/ (i = Len(q) + 1 /\ t[i] = submitting)
              \/ (i \in h + 1 .. Len(q) /\ i # Len(q) + 1 /\ t[i] = q[i] /\ i <= Len(q))
      BY <1>a, <1>b, <2>1, PushedAt
    <3> HIDE DEF t
    <3>3. ASSUME ~Locked("in") PROVE Ascending(last, frames, t, h, contents, NoBuffer)
      <4>0. Ascending(last, frames, q, h, contents, submitting)
        BY <1>e, <3>3
      <4>1. \A i \in h + 1 .. Len(t) : NotPast(last, frames, contents[t[i]])
        BY <1>e, <2>3, <3>2, <4>0, Zenon DEF Ascending
      <4>2. ASSUME NEW i \in h + 1 .. Len(t), NEW j \in h + 1 .. Len(t), i <= j
            PROVE  contents[t[i]] <= contents[t[j]]
        <5>1. contents[submitting] \in Nat
          BY <1>a, <2>1
        <5>2. CASE i = Len(q) + 1
          BY <1>a, <3>2, <4>2, <5>1, <5>2
        <5>3. CASE i # Len(q) + 1
          <6>1. i \in h + 1 .. Len(q) /\ t[i] = q[i]
            BY <3>2, <5>3
          <6>2. CASE j = Len(q) + 1
            <7>1. t[j] = submitting
              BY <3>2, <6>2
            <7>2. contents[q[i]] <= contents[submitting]
              BY <2>3, <4>0, <6>1, Zenon DEF Ascending
            <7> QED BY <6>1, <7>1, <7>2
          <6>3. CASE j # Len(q) + 1
            <7>1. j \in h + 1 .. Len(q) /\ t[j] = q[j]
              BY <3>2, <6>3
            <7>2. contents[q[i]] <= contents[q[j]]
              BY <4>0, <4>2, <6>1, <7>1, Zenon DEF Ascending
            <7> QED BY <6>1, <7>1, <7>2
          <6> QED BY <6>2, <6>3
        <5> QED BY <5>2, <5>3
      <4> QED BY <2>2, <4>1, <4>2, Zenon DEF Ascending
    <3> QED BY <1>e, <2>1, <2>2, <3>1, <3>3 DEF OrderOK
  <2>4. CASE submitting \notin InBuffers
    <3>1. queue'["in"] = q
      BY <1>b, <1>d, <2>1, <2>4 DEF q
    <3>2. ~Locked("in") => Ascending(last, frames, q, h, contents, NoBuffer)
      BY <1>e, <2>2 DEF Ascending
    <3> QED BY <1>e, <2>1, <2>2, <3>1, <3>2 DEF OrderOK
  <2> QED BY <2>3, <2>4
<1>6. CASE DeinitJoined
  <2>1. /\ UNCHANGED <<pc, todo, idx, last, frames, copied, submitting, contents, frameCount>>
        /\ pc = "exited" /\ queue'["in"] = << >>
    BY <1>6, <1>b DEF DeinitJoined, thread, data
  <2>2. HandedBack("in")' = 0 /\ Len(<< >>) = 0
    BY <2>1, EmptySeq DEF HandedBack, Locked
  <2>3. Ascending(last, frames, << >>, 0, contents, submitting)
    BY <2>2 DEF Ascending
  <2> QED BY <1>e, <2>1, <2>2, <2>3 DEF OrderOK
<1> QED BY <1>1, <1>2, <1>3, <1>4, <1>5, <1>6 DEF ClientStep

(* A frame is copied behind the others.                                    *)
LEMMA SortedAppend ==
  ASSUME NEW l \in Nat, NEW f \in Seq(Nat), NEW m \in Nat, Sorted(l, f), NotPast(l, f, m)
  PROVE  /\ Sorted(l, Append(f, m))
         /\ \A n \in Nat : (m <= n /\ NotPast(l, f, n)) => NotPast(l, Append(f, m), n)
<1>1. /\ Len(f) \in Nat /\ DOMAIN f = 1..Len(f) /\ \A i \in 1..Len(f) : f[i] \in Nat
      /\ DOMAIN Append(f, m) = 1..(Len(f) + 1)
      /\ \A i \in 1..Len(f) : Append(f, m)[i] = f[i]
      /\ Append(f, m)[Len(f) + 1] = m
  BY AppendProperties, LenProperties, ElementOfSeq
<1> DEFINE g == Append(f, m)
<1>2. \A i \in DOMAIN g : (i \in DOMAIN f /\ g[i] = f[i] /\ i <= Len(f)) \/ (i = Len(f) + 1 /\ g[i] = m)
  BY <1>1
<1>3. Len(f) \in Nat /\ (\A i \in DOMAIN f : f[i] \in Nat /\ i <= Len(f))
  BY <1>1
<1> HIDE DEF g
<1>4. Sorted(l, g)
  <2> SUFFICES ASSUME NEW i \in DOMAIN g
               PROVE  l <= g[i] /\ \A j \in DOMAIN g : i <= j => g[i] <= g[j]
    BY DEF Sorted
  <2>1. l <= g[i]
    BY <1>2 DEF Sorted, NotPast
  <2>2. ASSUME NEW j \in DOMAIN g, i <= j PROVE g[i] <= g[j]
    <3>1. CASE j \in DOMAIN f /\ g[j] = f[j] /\ j <= Len(f)
      <4>1. i \in DOMAIN f /\ g[i] = f[i]
        BY <1>2, <1>3, <2>2, <3>1, <1>1
      <4>2. f[i] <= f[j]
        BY <2>2, <3>1, <4>1, Zenon DEF Sorted
      <4> QED BY <3>1, <4>1, <4>2
    <3>2. CASE j = Len(f) + 1 /\ g[j] = m
      BY <1>2, <3>2 DEF NotPast
    <3> QED BY <1>2, <3>1, <3>2
  <2> QED BY <2>1, <2>2
<1>5. ASSUME NEW n \in Nat, m <= n, NotPast(l, f, n) PROVE NotPast(l, g, n)
  BY <1>2, <1>5 DEF NotPast
<1> QED BY <1>4, <1>5 DEF g

(* The frame at the front is encoded, and the next k - 1 move forward.     *)
LEMMA SortedShift ==
  ASSUME NEW l \in Nat, NEW f \in Seq(Nat), NEW k \in Nat, k >= 1, k <= Len(f), Sorted(l, f),
         NEW g, g = [i \in DOMAIN f |-> IF i < k THEN f[i + 1] ELSE f[i]]
  PROVE  /\ Sorted(f[1], g) /\ l <= f[1]
         /\ \A n \in Nat : NotPast(l, f, n) => NotPast(f[1], g, n)
<1>1. /\ Len(f) \in Nat /\ DOMAIN f = 1..Len(f) /\ \A i \in 1..Len(f) : f[i] \in Nat
  BY LenProperties, ElementOfSeq
<1> DEFINE a(i) == IF i < k THEN i + 1 ELSE i
<1>2. /\ DOMAIN g = DOMAIN f
      /\ \A i \in DOMAIN f : a(i) \in DOMAIN f /\ g[i] = f[a(i)]
      /\ \A i, j \in DOMAIN f : i <= j => a(i) <= a(j)
      /\ 1 \in DOMAIN f /\ \A i \in DOMAIN f : 1 <= i
  BY <1>1
<1> HIDE DEF a
<1>3. Sorted(f[1], g)
  <2>1. \A i \in DOMAIN f : f[1] <= f[i]
    BY <1>2, Zenon DEF Sorted
  <2>2. \A i, j \in DOMAIN f : i <= j => f[a(i)] <= f[a(j)]
    BY <1>2, Zenon DEF Sorted
  <2>3. \A i \in DOMAIN g : i \in DOMAIN f /\ g[i] = f[a(i)] /\ f[1] <= f[a(i)]
    BY <1>2, <2>1
  <2>4. \A i \in DOMAIN g : f[1] <= g[i]
    BY <2>3
  <2>5. \A i, j \in DOMAIN g : i <= j => g[i] <= g[j]
    BY <2>2, <2>3
  <2> QED BY <2>4, <2>5, Zenon DEF Sorted
<1>4. l <= f[1]
  BY <1>2, Zenon DEF Sorted
<1>5. ASSUME NEW n \in Nat, NotPast(l, f, n) PROVE NotPast(f[1], g, n)
  BY <1>2, <1>5 DEF NotPast
<1> QED BY <1>3, <1>4, <1>5

(* What the thread does keeps the order.                                   *)
LEMMA ThreadOrder == IInv /\ PlacesOK /\ OrderOK /\ ThreadStep => OrderOK'
<1> SUFFICES ASSUME IInv, PlacesOK, OrderOK, ThreadStep PROVE OrderOK'
  OBVIOUS
<1> DEFINE q == queue["in"]
<1>a. /\ last \in Nat /\ frames \in Seq(Nat) /\ DOMAIN frames = 1..Len(frames)
      /\ Len(frames) \in Nat /\ \A i \in DOMAIN frames : frames[i] \in Nat
      /\ frameCount \in Nat /\ contents \in [Buffers -> Nat]
      /\ q \in Seq(Buffers) /\ Len(q) \in Nat
      /\ \A i \in 1..Len(q) : q[i] \in Buffers /\ contents[q[i]] \in Nat
      /\ InBuffers \subseteq Buffers
  BY OrderTypes
<1>b. /\ HandedBack("in") \in Nat /\ HandedBack("in") <= Len(q)
      /\ "in" \in Ports /\ "out" \in Ports /\ queue \in [Ports -> Seq(Buffers)]
  BY HandedBackType DEF PlacesOK, Ports, IInv, TypeOK, PortsType
<1>e. /\ Sorted(last, frames)
      /\ (pc = "output" /\ ~copied) => frames = << >>
      /\ NotPast(last, frames, frameCount)
      /\ \A b \in Buffers : contents[b] <= frameCount
      /\ submitting \in InBuffers => NotPast(last, frames, contents[submitting])
      /\ ~Locked("in") => Ascending(last, frames, q, HandedBack("in"), contents, submitting)
  BY DEF OrderOK
<1>z. /\ \A i \in HandedBack("in") + 1 .. Len(q) : 0 <= contents[q[i]]
      /\ 0 <= frameCount /\ (submitting \in InBuffers => 0 <= contents[submitting])
  BY <1>a, <1>b
<1>f. frames' = << >> /\ last' = last =>
        /\ Sorted(last', frames')
        /\ \A n \in Nat : (0 <= n /\ NotPast(last, frames, n)) => NotPast(last', frames', n)
  BY EmptySeq DEF Sorted, NotPast
<1>1. CASE \/ Loop \/ Select \/ Input \/ TakeCommand \/ Drained \/ SameState \/ IncorrectTransition
           \/ SetInvalid \/ DirectTransition \/ LoadedToIdleFails \/ ToIdleBegin
           \/ ToIdleEnd \/ FlushComplete \/ DisableReturned \/ Deallocated \/ EnablePort
           \/ ReturnLock
  <2>1. UNCHANGED <<last, frames, queue, submitting, contents, frameCount>>
    BY <1>1
    DEF Loop, Select, Input, TakeCommand, Drained, SameState, IncorrectTransition, SetInvalid,
        DirectTransition, LoadedToIdleFails, ToIdleBegin, ToIdleEnd, FlushComplete,
        DisableReturned, Deallocated, EnablePort, ReturnLock, ThreadUnchanged, ports, client, data
  <2>2. pc \notin {"returning", "inputpop"}
    BY <1>1
    DEF Loop, Select, Input, TakeCommand, Drained, SameState, IncorrectTransition, SetInvalid,
        DirectTransition, LoadedToIdleFails, ToIdleBegin, ToIdleEnd, FlushComplete,
        DisableReturned, Deallocated, EnablePort, ReturnLock
  <2>3. pc' \notin {"inputpop", "output"}
    <3>1. CASE TakeCommand
      <4>1. Head(cmds) \in Commands
        BY <3>1, HeadTailProperties DEF TakeCommand, IInv, TypeOK
      <4> QED BY <3>1, <4>1, CommandTypes DEF TakeCommand, Handler, Goto
    <3>2. CASE ~TakeCommand
      BY <1>1, <3>2
      DEF Loop, Select, Input, Drained, SameState, IncorrectTransition, SetInvalid,
          DirectTransition, LoadedToIdleFails, ToIdleBegin, ToIdleEnd, FlushComplete,
          DisableReturned, Deallocated, EnablePort, ReturnLock, TransitionComplete, Fail, Goto
    <3> QED BY <3>1, <3>2
  <2>4. ~Locked("in") /\ HandedBack("in") = 0 /\ (~Locked("in")' => HandedBack("in")' = 0)
    BY <2>2, <2>3 DEF HandedBack, Locked
  <2> HIDE DEF q
  <2> QED BY <1>a, <1>e, <1>z, <2>1, <2>3, <2>4, FramesMoved DEF q
<1>2. CASE ReturnOne
  <2>1. /\ UNCHANGED <<last, frames, queue, submitting, contents, frameCount, pc, todo>>
        /\ pc = "returning"
    BY <1>2 DEF ReturnOne, ports, data
  <2>2. ~Locked("in")' => /\ ~Locked("in") /\ HandedBack("in") = 0 /\ HandedBack("in")' = 0
                          /\ HandedBack("in") <= HandedBack("in")' /\ HandedBack("in")' \in Nat
    BY <2>1 DEF HandedBack, Locked
  <2>3. pc' # "output" /\ queue'["in"] = queue["in"]
    BY <2>1
  <2> QED BY <1>a, <1>e, <1>z, <2>1, <2>2, <2>3, FramesMoved
<1>3. CASE ReturnUnlock
  <2>1. /\ UNCHANGED <<last, frames, submitting, contents, frameCount>>
        /\ pc = "returning" /\ pc' = "return" /\ Head(todo) \in Ports
        /\ queue' = [queue EXCEPT ![Head(todo)] = << >>]
    BY <1>3, PortListTypes
    DEF ReturnUnlock, data, client, Goto, IInv, ThreadOK, TypeOK, ThreadType
  <2>2. \/ queue'["in"] = << >>
        \/ /\ queue'["in"] = queue["in"]
           /\ ~Locked("in")' => ~Locked("in") /\ HandedBack("in") = 0 /\ HandedBack("in")' = 0
    BY <1>b, <2>1 DEF HandedBack, Locked
  <2>3. \A i \in HandedBack("in") + 1 .. Len(queue'["in"]) : 0 <= contents[q[i]]
    <3>1. CASE queue'["in"] = << >>
      BY <1>b, <3>1, EmptySeq
    <3>2. CASE queue'["in"] # << >>
      BY <1>z, <2>2, <3>2
    <3> QED BY <3>1, <3>2
  <2> QED BY <1>a, <1>e, <1>z, <2>1, <2>2, <2>3, FramesMoved
<1>4. CASE \/ StartStream \/ StartPop \/ StartGivesUp \/ EncodeFails \/ NoFrame \/ Abandon
           \/ EndStream \/ EndPop \/ EndStreamFails \/ InputDone \/ (Overflow /\ ~copied)
  <2>1. UNCHANGED <<last, frames, submitting, contents, frameCount>> /\ queue'["in"] = queue["in"]
    BY <1>4, <1>b
    DEF StartStream, StartPop, StartGivesUp, EncodeFails, NoFrame, Abandon, EndStream, EndPop,
        EndStreamFails, InputDone, Overflow, Pop, ThreadUnchanged, ports, client, data
  <2>2. /\ pc \notin {"returning", "inputpop"} /\ pc' \notin {"returning", "output"}
    BY <1>4
    DEF StartStream, StartPop, StartGivesUp, EncodeFails, NoFrame, Abandon, EndStream, EndPop,
        EndStreamFails, InputDone, Overflow, Pop, Fail, Goto
  <2>3. ~Locked("in") /\ HandedBack("in") = 0 /\ HandedBack("in")' \in {0, 1}
    BY <2>2 DEF HandedBack, Locked
  <2>4. HandedBack("in") <= HandedBack("in")' /\ HandedBack("in")' \in Nat
    BY <2>3
  <2> QED BY <1>a, <1>e, <1>z, <2>1, <2>2, <2>3, <2>4, FramesMoved
<1>5. CASE LoadedToIdle \/ IdleToLoaded \/ (Overflow /\ copied)
  <2>1. UNCHANGED <<last, queue, submitting, contents, frameCount>> /\ frames' = << >>
    BY <1>5 DEF LoadedToIdle, IdleToLoaded, Overflow, ports, client
  <2>2. pc \notin {"returning", "inputpop"} /\ pc' \notin {"returning", "inputpop"}
    BY <1>5 DEF LoadedToIdle, IdleToLoaded, TransitionComplete, Overflow, AfterFrames, Goto
  <2>3. ~Locked("in") /\ HandedBack("in") = 0 /\ HandedBack("in")' = 0
    BY <2>2 DEF HandedBack, Locked
  <2> QED BY <1>a, <1>f, <1>z, <2>1, <2>3, FramesMoved
<1>6. CASE TakeFrame
  <2> DEFINE m == contents[Head(q)]
  <2>1. /\ UNCHANGED <<last, queue, submitting, contents, frameCount>> /\ q # << >>
        /\ pc = "frame" /\ pc' = "output"
        /\ copied' = (Head(q) \notin OwnBuffers \/ frames # << >>)
        /\ frames' = IF copied' THEN Append(frames, m) ELSE frames
    BY <1>6 DEF TakeFrame, Behind, ports, client, Goto
  <2>2. ~Locked("in") /\ HandedBack("in") = 0 /\ HandedBack("in")' = 0
    BY <2>1 DEF HandedBack, Locked
  <2>3. Ascending(last, frames, q, 0, contents, submitting)
    BY <1>e, <2>2
  <2>4. 1 \in 0 + 1 .. Len(q) /\ Head(q) = q[1] /\ \A i \in 0 + 1 .. Len(q) : 1 <= i
    BY <1>a, <2>1, HeadTailProperties, EmptySeq
  <2>5. /\ m \in Nat /\ Head(q) \in Buffers
    BY <1>a, <2>4
  <2>6. /\ NotPast(last, frames, m)
        /\ \A i \in 0 + 1 .. Len(q) : m <= contents[q[i]]
        /\ submitting \in InBuffers => m <= contents[submitting]
        /\ m <= frameCount
    <3>1. NotPast(last, frames, contents[q[1]])
      BY <2>3, <2>4, Zenon DEF Ascending
    <3>2. \A i \in 0 + 1 .. Len(q) : contents[q[1]] <= contents[q[i]]
      BY <2>3, <2>4, Zenon DEF Ascending
    <3>3. submitting \in InBuffers => contents[q[1]] <= contents[submitting]
      BY <2>3, <2>4, Zenon DEF Ascending
    <3>4. contents[Head(q)] <= frameCount
      BY <1>e, <2>5
    <3> QED BY <2>4, <3>1, <3>2, <3>3, <3>4
  <2> HIDE DEF m
  <2>7. /\ Sorted(last, Append(frames, m))
        /\ \A n \in Nat : (m <= n /\ NotPast(last, frames, n))
                            => NotPast(last, Append(frames, m), n)
    BY <1>a, <1>e, <2>5, <2>6, SortedAppend
  <2>8. /\ Sorted(last', frames')
        /\ \A n \in Nat : (m <= n /\ NotPast(last, frames, n)) => NotPast(last', frames', n)
        /\ ~copied' => frames' = << >>
    BY <1>e, <2>1, <2>7
  <2>9. \A i \in HandedBack("in") + 1 .. Len(queue'["in"]) : m <= contents[queue["in"][i]]
    BY <2>1, <2>2, <2>6
  <2> QED BY <2>1, <2>2, <2>5, <2>6, <2>8, <2>9, FramesMoved
<1>7. CASE EncodeFrame
  <2>1. /\ UNCHANGED <<submitting, contents, frameCount>> /\ queue'["in"] = q
        /\ pc = "output" /\ pc' \in {"output", "eos", "done"} /\ q # << >>
        /\ last' = NextFrame /\ copied' = copied
        /\ frames' = IF ~copied THEN frames
                     ELSE IF left = 1 THEN << >>
                     ELSE [i \in DOMAIN frames |-> IF i < left THEN frames[i + 1] ELSE frames[i]]
        /\ left \in Nat /\ left >= 1 /\ (copied => left <= Len(frames))
    BY <1>7, <1>b
    DEF EncodeFrame, AfterFrames, Goto, IInv, ThreadOK, TypeOK, DataType
  <2>2. ~Locked("in") /\ HandedBack("in") = 0 /\ HandedBack("in")' = 0
    BY <2>1 DEF HandedBack, Locked
  <2>3. CASE copied
    <3>1. last' = frames[1]
      BY <2>1, <2>3 DEF NextFrame
    <3> DEFINE g == [i \in DOMAIN frames |-> IF i < left THEN frames[i + 1] ELSE frames[i]]
    <3>2. /\ Sorted(frames[1], g)
          /\ \A n \in Nat : NotPast(last, frames, n) => NotPast(frames[1], g, n)
      BY <1>a, <1>e, <2>1, <2>3, SortedShift
    <3>3. frames' = << >> \/ frames' = g
      BY <2>1, <2>3
    <3> HIDE DEF g
    <3>4. /\ Sorted(last', frames')
          /\ \A n \in Nat : (0 <= n /\ NotPast(last, frames, n)) => NotPast(last', frames', n)
      <4>1. CASE frames' = << >>
        <5>1. Sorted(last', << >>)
          BY EmptySeq DEF Sorted
        <5>2. \A n \in Nat : NotPast(frames[1], g, n) => NotPast(frames[1], << >>, n)
          BY EmptySeq DEF NotPast
        <5> QED BY <3>1, <3>2, <4>1, <5>1, <5>2
      <4>2. CASE frames' = g
        BY <3>1, <3>2, <4>2
      <4> QED BY <3>3, <4>1, <4>2
    <3> QED BY <1>z, <2>1, <2>2, <2>3, <3>4, FramesMoved
  <2>4. CASE ~copied
    <3> DEFINE m == contents[Head(q)]
    <3>1. last' = m /\ frames' = << >> /\ frames = << >>
      BY <1>e, <2>1, <2>4 DEF NextFrame
    <3>2. Ascending(last, frames, q, 0, contents, submitting)
      BY <1>e, <2>2
    <3>3. 1 \in 0 + 1 .. Len(q) /\ Head(q) = q[1] /\ \A i \in 0 + 1 .. Len(q) : 1 <= i
      BY <1>a, <2>1, HeadTailProperties, EmptySeq
    <3>4. m \in Nat /\ Head(q) \in Buffers
      BY <1>a, <3>3
    <3>5. /\ \A i \in 0 + 1 .. Len(q) : m <= contents[q[i]]
          /\ submitting \in InBuffers => m <= contents[submitting]
          /\ m <= frameCount
      <4>2. \A i \in 0 + 1 .. Len(q) : contents[q[1]] <= contents[q[i]]
        BY <3>2, <3>3, Zenon DEF Ascending
      <4>3. submitting \in InBuffers => contents[q[1]] <= contents[submitting]
        BY <3>2, <3>3, Zenon DEF Ascending
      <4>4. contents[Head(q)] <= frameCount
        BY <1>e, <3>4
      <4> QED BY <3>3, <4>2, <4>3, <4>4
    <3> HIDE DEF m
    <3>6. /\ Sorted(last', frames')
          /\ \A n \in Nat : (m <= n /\ NotPast(last, frames, n)) => NotPast(last', frames', n)
      BY <3>1, EmptySeq DEF Sorted, NotPast
    <3>7. \A i \in HandedBack("in") + 1 .. Len(queue'["in"]) : m <= contents[queue["in"][i]]
      BY <2>1, <2>2, <3>5
    <3> QED BY <2>1, <2>2, <3>1, <3>4, <3>5, <3>6, <3>7, FramesMoved
  <2> QED BY <2>3, <2>4
<1>8. CASE InputPop
  <2>1. /\ UNCHANGED <<last, frames, submitting, contents, frameCount>>
        /\ pc = "inputpop" /\ pc' = "loop" /\ q # << >>
        /\ queue'["in"] = Tail(q)
    BY <1>8, <1>b DEF InputPop, Pop, data, client, Goto, IInv, ThreadOK
  <2>2. HandedBack("in") = 1 /\ HandedBack("in")' = 0 /\ ~Locked("in")
    BY <2>1 DEF HandedBack, Locked
  <2>3. Ascending(last, frames, q, 1, contents, submitting)
    BY <1>e, <2>2
  <2>4. \A i \in 0 + 1 .. Len(Tail(q)) : i + 1 \in 1 + 1 .. Len(q) /\ Tail(q)[i] = q[i + 1]
    BY <1>a, <2>1, HeadTailProperties, EmptySeq
  <2>5. \A i, j \in 0 + 1 .. Len(Tail(q)) : i <= j => i + 1 <= j + 1
    OBVIOUS
  <2>6. Ascending(last, frames, Tail(q), 0, contents, submitting)
    <3> HIDE DEF q
    <3>1. \A i \in 0 + 1 .. Len(Tail(q)) :
            /\ NotPast(last, frames, contents[q[i + 1]])
            /\ submitting \in InBuffers => contents[q[i + 1]] <= contents[submitting]
      BY <2>3, <2>4, Zenon DEF Ascending
    <3>2. \A i, j \in 0 + 1 .. Len(Tail(q)) : i <= j => contents[q[i + 1]] <= contents[q[j + 1]]
      BY <2>3, <2>4, <2>5, Zenon DEF Ascending
    <3> QED BY <2>4, <3>1, <3>2 DEF Ascending
  <2> QED BY <1>e, <2>1, <2>2, <2>6 DEF OrderOK
<1>9. \/ Loop \/ Select \/ Input \/ TakeCommand \/ Drained \/ SameState \/ IncorrectTransition
      \/ SetInvalid \/ DirectTransition \/ LoadedToIdleFails \/ ToIdleBegin
      \/ ToIdleEnd \/ FlushComplete \/ DisableReturned \/ Deallocated \/ EnablePort
      \/ ReturnLock \/ ReturnOne \/ ReturnUnlock \/ StartStream \/ StartPop \/ StartGivesUp
      \/ EncodeFails \/ NoFrame \/ Abandon \/ EndStream \/ EndPop \/ EndStreamFails \/ InputDone
      \/ Overflow \/ LoadedToIdle \/ IdleToLoaded \/ TakeFrame \/ EncodeFrame \/ InputPop
  BY Zenon DEF ThreadStep, CommandStep, EncodeStep
<1> QED BY <1>1, <1>2, <1>3, <1>4, <1>5, <1>6, <1>7, <1>8, <1>9

(* The order of the frames holds in every reachable state, as long as the  *)
(* client has passed in only what it held.                                 *)
LEMMA OrderInvariance == Spec => [](stray = 0 => OrderOK)
<1>1. Init => OrderOK
  <2> SUFFICES ASSUME Init PROVE OrderOK
    OBVIOUS
  <2>1. /\ frames = << >> /\ queue["in"] = << >> /\ last = 0 /\ frameCount = 0 /\ pc = "loop"
        /\ submitting = NoBuffer /\ \A b \in Buffers : contents[b] = 0
    BY DEF Init, Ports
  <2>2. submitting \notin InBuffers
    BY <2>1, EncoderAssumption DEF EncoderAssumption, Buffers
  <2>3. DOMAIN frames = {} /\ HandedBack("in") = 0 /\ Len(queue["in"]) = 0
    BY <2>1, EmptySeq DEF HandedBack, Locked
  <2>4. Ascending(last, frames, queue["in"], HandedBack("in"), contents, submitting)
    BY <2>3 DEF Ascending
  <2> QED BY <2>1, <2>2, <2>3, <2>4 DEF OrderOK, Sorted, NotPast
<1>2. OrderOK /\ UNCHANGED vars => OrderOK'
  <2> SUFFICES ASSUME OrderOK, UNCHANGED vars PROVE OrderOK'
    OBVIOUS
  <2>1. UNCHANGED <<pc, todo, idx, last, frames, copied, queue, submitting, contents, frameCount>>
    BY DEF vars, thread, data, ports, client
  <2> QED BY <2>1 DEF OrderOK, HandedBack, Locked
<1>3. IInv /\ (stray = 0 => PlacesOK) /\ (stray = 0 => OrderOK) /\ [Next]_vars
        => (stray = 0 => OrderOK)'
  <2> SUFFICES ASSUME IInv, stray = 0 => PlacesOK, stray = 0 => OrderOK, [Next]_vars, stray' = 0
               PROVE  OrderOK'
    OBVIOUS
  <2>1. stray \in Nat
    BY DEF IInv, TypeOK, ClientType
  <2>2. stray = 0
    BY <2>1, StraySteps
  <2> QED BY <1>2, <2>2, ClientOrder, ThreadOrder DEF Next
<1> QED BY <1>1, <1>3, Invariance, PlacesInvariance, PTL DEF Spec

(* No frame is encoded after one that was submitted later, whatever pauses,*)
(* flushes, stops and failures there are: what an abandoned encode left in *)
(* frame_in goes first, and the frames queued behind it follow in order.   *)
(* The client passes in, and so writes to, only buffers it holds.          *)
THEOREM EncodedInOrder == Spec => EncodesInOrder
<1>1. IInv /\ (stray = 0 => OrderOK) /\ [Next]_vars
        => [EncodeFrame /\ stray = 0 => NextFrame >= last]_vars
  <2> SUFFICES ASSUME IInv, OrderOK, EncodeFrame PROVE NextFrame >= last
    OBVIOUS
  <2>1. /\ pc = "output" /\ queue["in"] # << >> /\ (copied => left <= Len(frames))
        /\ left \in Nat /\ left >= 1
    BY DEF EncodeFrame, IInv, ThreadOK, TypeOK, DataType
  <2>2. CASE copied
    <3>1. 1 \in DOMAIN frames /\ frames[1] \in Nat
      BY <2>1, <2>2, OrderTypes
    <3>2. last <= frames[1]
      BY <3>1, Zenon DEF OrderOK, Sorted
    <3> QED BY <2>2, <3>1, <3>2, OrderTypes DEF NextFrame
  <2>3. CASE ~copied
    <3>1. ~Locked("in") /\ HandedBack("in") = 0
      BY <2>1 DEF HandedBack, Locked
    <3>2. Ascending(last, frames, queue["in"], 0, contents, submitting)
      BY <3>1 DEF OrderOK
    <3>3. 1 \in 0 + 1 .. Len(queue["in"]) /\ Head(queue["in"]) = queue["in"][1]
      BY <2>1, OrderTypes, HeadTailProperties, EmptySeq
    <3>4. last <= contents[queue["in"][1]]
      BY <3>2, <3>3, Zenon DEF Ascending, NotPast
    <3>5. contents[queue["in"][1]] \in Nat /\ last \in Nat
      BY <3>3, OrderTypes
    <3> QED BY <2>3, <3>3, <3>4, <3>5 DEF NextFrame
  <2> QED BY <2>2, <2>3
<1> QED BY <1>1, Invariance, OrderInvariance, PTL DEF Spec, EncodesInOrder
=============================================================================
