# A TLA+ model of the Nufront hardware layer

The repository holds the hardware abstraction layers of an Android device: an
OMX IL video encoder and an audio decoder, a GPS stack, camera, sensors and
lights HALs, a compass daemon, and the headers of prebuilt libraries. This
directory models its concurrent cores in TLA+, checks them with TLC and proves
what matters most about them with TLAPS: the video encoder from its command queue
up to what an IL client may rely on, the audio decoder, the sensors HAL, the
camera HAL and the session handler of the GPS HAL.

## Inventory

### Modelled

**Video encoder** (`media_115/omx/video/src/openmax_il/video_encode/source`)

| Part | State | Operations | What is hard |
|---|---|---|---|
| Command queue (`msgque.c`, `OSAL.c`, `basecomp.c`) | a doubly linked list under a mutex, an event (pipe and flag) | push_back, get_front, destroy | a read before the mutex is taken; event and list must agree; failing pipes |
| Component (`h1_encoder/encoder.c`) | `state`, `statetrans`, `run`, codec, `streamStarted`, `frame_in` | SendCommand, Use/AllocateBuffer, FreeBuffer, Empty/FillThisBuffer, ComponentDeInit in the client's threads; set_state, flush, disable, enable, encode in the component's | two threads share the state without a lock; commands wait by polling; callbacks re-enter |
| Ports (`port.c`) | the list of buffers, the queue of submitted ones and its recursive lock, `bEnabled`, `bPopulated` | push, get, pop, find, allocate, release, clear | ownership of buffers during returns, callbacks and late submissions |
| Marks (`marks[]` in `encoder.h`) | ten marks and two positions | MarkBuffer, and what the encode loop takes | positions that only go back to zero together |

A client sends a command: `encoder_send_command` checks it, changes `statetrans`
or `bEnabled` at once and appends the command to the queue. The component thread
selects on the queue's event and on the input port's, first handles every
command, then encodes one input buffer if the input event was set and the state
is Executing. Results go back through EventHandler, EmptyBufferDone and
FillBufferDone, called from the component thread. What must hold: the list is a
fifo and its event mirrors it; one transition at a time, to the state that was
asked for; a codec whenever one is used; every buffer has one owner; a port is
populated exactly when it has its buffers; frames keep their order; what is
disabled, flushed or stopped holds no buffer; commands and destruction end.

**Audio decoder** (`media_115/omx/audio/src/openmax_il/nuaudio_dec`). State: a
command pipe and a data pipe, the counts of handled and unhandled buffers, two
queues of buffers and the input buffer that is half decoded, the codec's first
buffer, EOS. The client's threads write a buffer and then count it, or write a
command; one thread selects on both pipes, serves the data pipe first, pairs input
with output, decodes step by step and calls back. Hard: inside a command the
thread drains the data pipe with blocking reads, led by counts that the client
updates after it has written; commands and data come through different pipes.
What must hold: one owner of a buffer, order, a read that never blocks, nothing kept
after a stop, EOS after the frame it came with, commands, input and destruction
end.

**Sensors HAL** (`libsensors`). State: for each driver an event ring, its
mask of pending kinds and the switches; for the polling thread the array of the
caller and the poll flags; a wake pipe. The framework polls in one thread and
activates in another. Hard: a ring that is filled past its end, packets
cut by a full ring or array, an activation during a poll, failing system
calls. What must hold: no access outside an array, no event lost, repeated or
mixed, poll() only when nothing is left, an initial value is seen.

**Camera HAL** (`libcamera/ns115-usb`). State: the switches of the preview, the
window and its renderer, heaps, `mCaptureInProgress`, the device. The client
calls one operation at a time; a preview, a capture and an auto focus thread
work beside it, and `NuCameraV4L2`, which drives the device, has no lock. Hard:
`NuCameraHardware` must keep the threads out of each other's way, with flags, one
mutex and timeouts. What must hold: one thread at a time inside the device,
what a thread uses is there, every call returns.

**GPS HAL** (`gst4tq_gb/app/AndroidSharedLib/source/gps_sirf.c`). State:
`android_session_check` (who has the receiver), `Noupdatetosessionhandler`, the
running sessions, six semaphores, the data connection and the question asked of
the telephony framework. A session thread carries out sessions of the client, of the
network and of the control plane; the framework, the LSM library's callback and
a status thread act beside it. Hard: a session that takes over from another;
answers that come after their timeout, on one semaphore for three questions;
tokens left in semaphores. What must hold: a handler at rest is free, no answer is
mistaken, what was accepted is served, what was opened is given back.

### Not modelled

| Component | Why |
|---|---|
| Encoder codecs (`encoder_h264.c`, ...), encoder test client | thin wrappers around a prebuilt library; a client, read for the protocol it follows |
| GPS PAL (`gst4tq_gb/sirf/pal/Posix`) | one POSIX call per operation; its semaphores are counters in `GpsSession` |
| GPS LPL and A-GPS clients (`gst4tq_gb/sirf/util/lpl`, `SiRFIF`) | a modem's AT commands and a download, half of whose exchange is in prebuilt libraries |
| GPS protocol (`gst4tq_gb/sirf/util/proto`, `codec`, `ext`) | generated encoders and decoders of single messages, no state between them |
| Lights HAL, compass daemon | one write under a mutex; a loop around a vendor library |
| `gal`, `mali`, `media_115/vpu`, ... | headers and binaries |

`media_115/gst4tq_gb` is a second copy of the GPS stack; the first is modelled.

Inside the modelled components: of the encoder, tunnelled ports, Get/SetParameter
and Get/SetConfig, stabilization, the image domain's encode function, frames that do
not fit one input buffer, timestamps and flags other than EOS, allocation failures in the
client's calls; of the audio decoder, port enable and disable, allocation of buffers,
marks and timestamps; of the sensors, setDelay, unit conversions and missing
devices; of the camera, the parameters but the size, image conversion, the driver's
buffers, and the variants for other boards; of the GPS HAL, configuration, the
contents of positions and NMEA, the user's answer to a notification, test modes,
initialization and clean-up.

## Plan

Done: encoder (`Fifo`, `MsgQueue`, `Marks`, `OmxComponent`, `Encoder`), audio decoder,
sensors, camera and GPS sessions, each with its runs and its proofs. Left, in the
order of what it would add: the port commands of the audio decoder and their
pending flags, with `OmxComponent` as what they implement; the NI user response and
the initialization of the GPS HAL; tunnelled ports of the encoder.

A dozen runs are kept, each with a question of its own. Counterexamples that lost their
run are described below, with the definition that states them.

## Modules

| Module | Models | Form |
|---|---|---|
| `Fifo` | what a queue promises | abstract specification |
| `MsgQueue` | `msgque.c` with its event; implements `Fifo` | state machine |
| `Marks` | `marks[]`; implements `Fifo` without an end | state machine |
| `OmxComponent` | what a component promises an IL client | abstract specification |
| `Encoder` | `encoder.c` and `port.c`; implements `OmxComponent` | state machine |
| `AudioDecoder` | the audio decoder's pipes, thread and queues | state machine |
| `InputRing` | `InputEventReader.cpp` | operators |
| `Sensors` | `nusensors.cpp` and the drivers, over `InputRing` | state machine |
| `CameraModes` | what a camera device promises | abstract specification |
| `Camera` | `NuCameraHardware.cpp` and the states of `NuCameraV4L2`; implements `CameraModes` | state machine |
| `GpsSession` | the sessions of `gps_sirf.c` | state machine |
| `MCMsgQueue`, `MCEncoder`, `MCSensors`, `MCAudioDecoder` | constants (and symmetry, where it is sound) for TLC | |
| `..._proofs` of `MsgQueue`, `Marks`, `Encoder`, `InputRing`, `Sensors`, `AudioDecoder`, `Camera`, `GpsSession` | theorems | proofs |

**MsgQueue.** `next`, `prev` and `data` are the fields of the nodes, `head`, `tail` and
`size` those of the queue. `PushBegin` is `push_back` up to the mutex, `PushLink`
its critical section, `GetFront` all of `get_front`. `order` is a history
variable: the linked nodes. A failed `write` or `read` of the pipe leaves the
event's own mutex locked (`eventLocked`); whoever needs it next sleeps with the
queue's mutex (`stuck`). Payloads are sent once each, nodes are a finite pool
that is reused after a free: this is what makes the stale read visible. The assertion of `get_front`
that the head has no `next` (`msgque.c:140`) does not hold then; it is compiled out
(`NDEBUG`), and `get_front` does not use that `next`.

**Marks.** The component thread alone touches the marks, so the module has no
processes: `MarkBuffer`, its refusal, and `CarryMark`, the part of the encode loop
that attaches a mark. The image and the stabilized encode loops do the same.

**Encoder.** `pc` is the place of the component thread; each of its places is where
the code releases a lock, calls back, polls, or reads what a client may change.
A poll (`while (!ready) sleep`) is an action that is enabled when the poll ends.
The client's calls are one step each, except Empty/FillThisBuffer (the state is
checked before the lock is taken, so `SubmitCheck` and `SubmitPush` are two) and FreeBuffer
(it writes the list, then `bPopulated`, without a lock: `FreeBuffer` and `Unpopulate`). One call of
either kind is in progress at a time.
`held` are the buffers in the client's hands; `queue` may still hold a buffer that a
callback has just handed back, as in the code, until the pop. A frame is its
number; `frame_in` is the sequence of frames copied into it, and one input buffer
carries one frame. `last`, `header`, `crossed` and `stray` are history variables: no action reads them. `stray`
counts the submissions of buffers that the client does not hold, which the code accepts and queues
once more; `crossed` are the ports that were given a buffer inside the window of FreeBuffer.

`Careful` makes the client follow the protocol of the OMX IL specification as the test client
(`testclient/omxtestcommon.c`) does: it touches a port only while no command on the port
is unanswered, makes one call at a time, keeps changes of state and of ports apart,
and allocates or frees what a pending command waits for. Without `Careful` it calls
anything the code accepts, with two exceptions: it frees only buffers it
holds (freeing one that is queued frees memory in use), and two of its threads do not call
SendCommand at the same instant.

The command queue in `Encoder` is the sequence `MsgQueue` is shown to implement, so
that the two compose: `cmds` is `Fifo`'s `queue`.

**AudioDecoder.** `BeginEmpty`, `WriteEmpty` and `CountEmpty` (and the same for output)
are the three moments of a client's call: the state check, the write into the
pipe, the count. `thread` is where the component thread is: in select, at the data
pipe, at a command, draining the data pipe inside a command, returning buffers.
`outstanding` is the sum of the four counters, which is all that the code compares.
One input buffer is good for `len` decoding steps, each of which fills an output
buffer; a step may take none of it, as the codec may return 0, and a step or the opening of the codec may fail. `DecodeInput` is the branch that
takes a new input buffer and decodes it at once, `DecodeOutput` the one that pairs
an output buffer with what waits. `Careful` makes the client wait for the answer to
a command before it sends another; everything else of the protocol is the code's.

**InputRing, Sensors.** A ring is a record of an array twice as long as the ring and of
the positions head, curr and free; `Fill`, `Front` and `Advance` are its methods.
`pc` is where the polling thread is (scanning the drivers, in read(), handling an event, in
poll()), `cpc` where the activating thread is. Whether a driver collects kinds until EV_SYN
(`AmiSensor`) or has an initial value to report (`LightSensor`) is a set of drivers. The
kernel's device is a queue of events. `due` is a history variable: the samples of
each kind that were reported and are still to be handed over; `misread` counts the read()s that have failed in
the present call, `unread` are the drivers whose last one did. Every compass has a
`mPendingMask` of its own in the code; `mask` is their union, of which a compass only reads
and clears its own kinds.

**Camera.** `call` and `at` say what the client does and where it waits or takes the lock;
`preview`, `capture` and `focus` are the places of the threads; `previewLock` is the mutex. A
call of the driver is one step with the states it may leave the device in. A timed wait
may time out (`TimesOut`) while the picture thread goes on. `mTarget` is which renderer there is, `drawsWith` the one
the preview thread is in: `LockAndChange` replaces the one while the thread may be in the other. A
NULL raw heap is dereferenced, and the process is dead (`Alive`). `Careful` makes the
client stop the preview and cancel the picture before it releases, and change the size after
`stopPreview` only: that is what the Android camera service does. `Settled` assumes that the
preview thread has slept once before the client's first call.

**GpsSession.** `check` is `android_session_check`, `noUpdate` is `Noupdatetosessionhandler`. `Idle`
and `Clear` are two steps because the code reads the one and writes the other without
the mutex. `Resume` is `android_session_handler_resume`: refused, a new claim, or a
take-over, which ends the running session, sleeps 20 ms with the mutex held
(`resuming`) and then sets the claim (`Resumed`). `ask` says who waits for which answer; `Answered`, `TimeOut` and
`Expired` are the waits on `semRilEvent`, `Report` the status thread, which merges what is pending.
Semaphores are counters. `overdue` are the questions nobody waits for any longer and whose answers may
still come. Calls and answers come at any moment; `raced` is a history variable, which only the bound
`MaxRaced` and the properties read: the windows (`Windows`, `InWindow`) between two steps of the handler that the code leaves
open and that something has fallen into, so that each property names those that break it, and no other.

## Runs

| Run | Instance | Shows |
|---|---|---|
| `msgque` | 2 senders, 3 nodes, 3 messages, failing pipes | `ChainIntact`, `EventMirrorsQueue`, `ImplementsFifo` (the refinement of `Fifo`), `Delivered` |
| `marks` | 3 places, 2 marks, 6 commands | `PendingAreMarks`, `ImplementsFifo` |
| `encoder_any` | 1 input and 2 output buffers, 3 commands, 2 frames, any client, calls from callbacks, a submission of a buffer it does not hold, failures, destruction | `OneTransition`, `CodecExists`, `PopulatedIsFull`, `NeverTwice` |
| `encoder_stream` | 2 input buffers and 1 output buffer, 4 commands, 2 frames, a client that does not wait for its answers but submits only what it holds | `OwnedOnce`, `EncodesInOrder` |
| `encoder_component` | 1 buffer a port, 5 commands, careful client, failures, destruction | `FlushedIsEmpty`, `ImplementsComponent`, `TransitionsAnswered`, `CommandsAnswered`, `DeinitReturns` |
| `sensors` | a light sensor and a compass of two kinds, rings of 2, arrays of 2, a failing call | `StaysInBuffer`, `NothingLost`, `NoMoreData`, `CompassInOrder`, `InitialValueTaken` |
| `audio` | 2 buffers a port, 2 steps a buffer, 3 frames, 4 commands, failing codec | `OneOwner`, `ReceivedInOrder`, `ReadNeverBlocks`, `CommandReturnsAll`, `LoadedHoldsNothing`, `QueuesOutliveUse`, `EosAfterItsFrame` |
| `audio_live` | 2 input and 1 output buffer, every command, seek packets, destruction | `CommandsHandled`, `InputComesBack`, `DeinitReturns` |
| `camera` | 2 sizes, 6 calls, replaced windows, failing driver and allocations | `OneInside`, `UsedIsThere`, `ImplementsModes` (the refinement of `CameraModes`), `CallsReturn` |
| `camera_refused` | 2 calls | counterexample to `RefusedDuringPicture` |
| `gps` | 3 calls from outside (2 once one has fallen into a window), late answers | `IdleIsFree`, `NoStaleAnswer`, `StartIsServed`, `CpEndsOthers` |
| `gps_connection` | 2 calls, late answers | counterexample to `ConnectionGivenBack` |

`encoder_any` and `encoder_stream` leave the client free; `audio` and `audio_live` have a client that waits for its answers.
`audio` flushes the input port but never the output port alone (`StopRequests`), because
`EosAfterItsFrame` is false with such a flush, as is told below; its EOS comes with the second of three frames,
so that a frame follows it.

Bounds. Three nodes and two senders are the least with which a stale `tail` is
linked, reused and walked. Three places of marks instead of ten leave room for every
relation of the two positions. Two buffers on a port are what distinguishes
returning some from returning all, and order from presence; two frames make a second
one follow an abandoned, dropped or re-encoded one; four or five commands take
a component from Loaded to Executing and back, with one to spare, and the three of
`encoder_any` to Executing, with one that meets it there. Rings of two and
a compass that reports four events make the ring wrap and a packet be cut both by the ring and
by the array. Six calls of the camera are a preview, a picture, a cancel and a
release with one of each to spare, and `INITIAL_SKIP_FRAME` and the step are the code's. Three calls
of the GPS HAL are a session that is taken over and stopped, or taken over twice. Two names of renderers are enough because the thread
has left the replaced one before the next is made. CHECK_DEADLOCK is off
everywhere because the bounds, and a client that has nothing left to ask, let the
system stop.

Fairness. In every module the threads of the component are scheduled (`WF` of their steps: they are
POSIX threads that run, poll or sleep in a wait that ends), and a call that has started goes on;
nothing makes a client begin a call; a call of FreeBuffer clears `bPopulated` at last (`Unpopulate`). Beyond that: a careful client of the encoder allocates and
frees what a pending command waits for; the client of the audio decoder refills its output
buffers (`Refill`), as a player does, and a codec that is given the same input again and again takes some of it at last
(`SF` of `CodecTakes`: nothing in the component ensures it, and without it `InputComesBack` is false); the framework polls the sensors again and
again; the five seconds of the camera and the three and forty seconds of the GPS
HAL elapse, and so do the 20 ms of `Resumed`. No weak fairness is put on answers of the
telephony framework or on the LSM library.

### What the code does otherwise

With a run:

* `camera_refused`: `takePicture` starts the capture thread and then sets `mCaptureInProgress`. A
  thread that has failed and cleared the flag by then leaves it set for ever, and every later
  `startPreview`, `takePicture` and `setParameters` is refused after five seconds.
* `gps_connection`: the first request for the data connection times out and is repeated;
  the failure of the first comes late and sets `DataConnectionStatus` to CLOSED, so that
  the end of the session releases nothing; the connection that answers the second
  request stays open without a session.

Found the same way, without a run of their own; the definition that fails is named where there is one:

* Encoder. `push_back` reads `q->tail` before it locks; if the receiver frees that node
  first, the new node keeps a `next` that leads to freed memory, and destroy walks
  it (`DestroyFreesItsNodes`; `get_front` walks `prev` and is not affected: `ChainIntact` holds and is
  proved). A submission that passed the state check is queued after the transition to
  Idle has emptied the queues, and cannot be had back (`NothingQueuedBelowIdle`). Executing, Pause, Idle,
  Loaded and back: `streamStarted` is still set, so the new codec is not given `stream_start`
  (`StreamStartedFirst`). What a callback submits during a flush is cleared without being
  returned. `encoder_deinit` waits for a thread that polls for buffers and looks
  neither at `run` nor at the queue, if the client has gone. A failed pipe operation leaves the
  event's mutex locked; a mark is refused although places are free; the end of a stream
  without an output buffer makes the last frame be encoded again; the end of a stream
  into a client's own buffer fails the assertion on `bus_data`; a port enabled in
  Pause cannot be populated; two threads may have a change of state accepted at once. `encoder_push_buffer` only looks the
  buffer up in the port's list, so that a buffer that is queued is queued again (`NeverTwice`, `OwnedOnce` and `EncodesInOrder`
  hold up to then, `stray = 0`). A buffer allocated between the two writes of FreeBuffer leaves a full port
  unpopulated, and more buffers are then accepted (`crossed`).
* Audio decoder. `NUAUDIODEC_HandleDataBufFromApp` notes the EOS of a buffer (`SendAfterEOS`) and forgets
  an earlier one as buffers arrive; those that a flush drains from the pipe go into the queues without
  either. A frame with EOS is queued, a flush of the input returns it, the next frame comes in
  through a flush of the output port, and the output of that frame gets the EOS of the one that was never
  decoded; and the EOS of a frame that comes in this way is lost (`EosAfterItsFrame` with
  `Flush({"out"})` among the `Requests`, one input buffer, two frames, four commands). The proof of that
  property met it. New input may be decoded at once while older input is queued, and its EOS is put on
  an output buffer that others follow (`EosOnLastBuffer`). A client that does not wait for its
  commands (`Careful` FALSE) falsifies `CommandReturnsAll`, `LoadedHoldsNothing` and `QueuesOutliveUse`: a
  command queued behind Invalid finds the queues freed, and a buffer written after
  the command to Loaded is lost. Pause from Executing is never answered. A seek packet
  met by an output buffer is never consumed, nor is input of which the codec takes nothing. A codec that does not open again
  ends the thread with two buffers in it. Loaded is announced before the queues are freed. In
  the port commands, which are not modelled: `cond_wait` without a loop,
  and a completion that a second command overwrites.
* Sensors. When readEvents fills the array exactly, POLLIN is kept though the device is
  drained, and the next call waits in read() with events in hand (`WaitsWithNothing`). A failing
  read() returns `-errno`, which is subtracted from the count of free places
  (`StaysInBuffer` says that the position is before the array by that much and no more, and never past its end). `AmiSensor::enable` counts before the ioctl that may fail. An
  initial value hides POLLIN while the ring has events. `SYN_DROPPED` ends a packet like any other EV_SYN.
* Camera. `release` writes `mPreviewRunning` and signals without the lock (a lost wake-up if the
  preview thread has not slept yet, `Settled` FALSE); a signal to the auto focus thread
  is lost while it does not wait; `stopPreviewInternal` waits without a loop;
  `setPreviewWindow` always makes a new renderer (its comment speaks of reuse) and drops the old one before it stops the preview, so
  that the thread may draw with one that is gone until the call returns (`Replacing`); a size set during a
  preview does not fit the heap (`Careful` FALSE); `takePicture` goes on without a raw heap,
  and the picture thread dereferences it (`Alive`); a release without a stop falsifies `OneInside`.
* GPS HAL. Without the exceptions that name them, `IdleIsFree`, `NoStaleAnswer` and the others are false, once for each window in `Windows`. "clear": a request between the read of
  `Noupdatetosessionhandler` and the write of `android_session_check` is lost, and the thread ends at
  UnknownSession, or the claim stays for ever. "dispatch": a take-over before the handler has
  read the claim runs a session twice. "launch": a control-plane session during `LSM_Start` leaves
  the client's session running. "expired" and "overlap": an answer between a timeout and the reset of
  `RilRequestPending`, or two threads in `semRilEvent`, shift the answers by one. "tell": a stop that times out as the
  handler answers leaves a token in `semwaitstop`. Besides: the control-plane state is never
  left, so a later `gps_start` is refused for good; late answers on the identity or the
  cell shift the answers too ("late"): those callbacks release `semRilEvent` whether anybody waits or not; a failed connection counts as an answer; a stop of a session that is only starting
  leaves a token that ends the next one; the status thread ends after the first power saving report.

## Proofs

TLAPS proves the following for every value of the constants: senders, nodes, messages,
places, buffers, commands, frames, drivers, ring sizes, picture sizes and calls. The only assumptions are those
the modules make on their constants (no null pointer among the nodes, ports that share no
buffer, ...), and those named here. No set is assumed finite unless the code has it so.

**`MsgQueue_proofs`**: `TypeCorrect`, `ListIsIntact`, `EventIsRight` and `Refinement`.
`ChainIntact` is not inductive: linking a node could break it if the node were
already in the list, or another sender's. The invariant `IInv` adds

* `OrderOK`: no node is linked twice, and linked nodes carry messages;
* `InFlightOK`: a node that waits for the lock is allocated, not linked, of one sender
  only, and its `prev` is null;
* `DestroyedOK`: after destroy there is no list and no sender inside.

It says nothing of `next`: that is the field the stale read makes wrong, and
the proof shows that neither `get_front` nor the event depends on it. The
refinement maps `Fifo`'s queue to `Contents`, the messages of the linked nodes;
`PushLink` is `Fifo`'s insertion, `GetFront` its removal, the rest stutters.

**`Marks_proofs`**: `TypeCorrect`, `MarksArePending`, `Refinement`. `TypeOK` says that the positions are
inside the array, `PendingAreMarks` that what is between them was written; each
needs the other, and together they are inductive.

**`Encoder_proofs`**, whatever the codec does.

* For any client, whatever it submits: `TypeCorrect`, `OneTransitionAtATime`, `CodecAlwaysExists`, `PopulatedWhenFull`. The
  invariant `IInv` is `TypeOK` and `ThreadOK`, what the component thread knows at each of its places: which
  command it carries out, that the counted buffers are still in the queue it is returning, that
  the buffer whose callback it makes is still at the front of its queue until it
  removes it, and that `frame_in` holds what it has still to encode. Without it the thread would
  take the front of an empty queue and nothing would be typed. On top of `IInv`,
  `OneTransition` and `CodecExists` are inductive as they stand, and `PopulatedIsFull` once the buffers of a
  port are known to be finitely many (`FiniteBuffers`) and a port inside FreeBuffer to be one short. `SamePending` is the argument of
  `OneTransition` for the steps that do not touch the pending change, `ChangeAnswered` for those that end
  it; accepting a command and taking it from the queue are proved one by one.
* For any client, up to its first submission of a buffer it does not hold (`stray = 0`, here and in `EncodedInOrder`): `NeverTwiceCorrect`; without calls from inside callbacks (`~Reentrant`, else `OwnedOnce` is false: what a
  callback submits during a flush is cleared): `OwnedOnceCorrect`. Both follow from `PlacesOK`,
  which says where each buffer is with sets and positions instead of counting; the counts of
  `Places` come last. `OwnersOK` keeps the places apart; `KeptOK` says that every allocated buffer has one and that
  the count of a return is the length of the queue, and `CallsOK` that no call is left behind by a destruction.
* For any client: `EncodedInOrder`. `OrderOK` puts what was encoded last, what `frame_in` holds, the
  queue and the buffer in the client's call into one ascending line; its exception is a buffer that
  is still queued but already handed back, whose contents the client may have changed.
* For a careful client: `FlushedIsEmptyCorrect`. `QuietOK` says that no call is inside a port on which a
  command works (a client that does not care passes the state check before the command
  and queues after it), `EmptiedOK` that the ports a return is through with are empty.
* For a careful client without calls from inside callbacks: `ComponentImplemented`, that `Encoder` implements `OmxComponent`.
  The mapping takes `Owners` from `held` and `allocated`; a step of the thread that ends a
  transition, hands back a buffer or ends the component is the step of `OmxComponent` of that name, and the rest stutters. It
  needs `OwnedOnce` for the owner of each buffer and `EmptiedOK` for "none left when it becomes Idle".

**`InputRing_proofs`**: `AdvanceIsTail` and `FillAppends` read the ring as the sequence of its events. `Fill`
and `Advance` then append to it and take its head, wherever the positions are. **`Sensors_proofs`** builds on
them: `TypeCorrect` includes that every position of every ring is inside its array;
`WritesInsideTheArray` and `WaitsWhenRead` are `StaysInBuffer` and `NoMoreData`, after failed calls of every kind too. The invariant says what the polling thread
knows of `got`, `asked` and the flags at each of its places.

`NothingLostCorrect` and `CompassInOrderCorrect` rest on `DueIsOnItsWay`: the samples that are due are, one for one and in
their order, those on their way. `Stream` is a driver's ring followed by what the kernel holds, so that a read changes nothing:
what `FillAppends` adds to the one is taken from the other, wherever a packet is cut. For a kind of a compass
`SamplesOK` places its values in the stream, with place 0 for the one already collected in `mPendingEvents`: between two of them
there is an EV_SYN, values ascend, and those behind which there is an EV_SYN are what is due. Collecting moves the first
place to 0, EV_SYN removes it. For the drivers of one kind (`TurnsOK`), which hand over each value as it comes, values and EV_SYN take turns and
as many are due as there are values. The invariant holds after failed reads too. The proof asks that a compass
leaves the kinds of another alone, for which `HandleCompassSyn` looks at its own part of `mask` only.

**`AudioDecoder_proofs`**, whatever the codec takes, 0 included.

* For any client: `TypeCorrect`, `ReadFindsABuffer`, `StepsDoNotMix`. `ReadNeverBlocks` needs `PipeOK`: the length
  of the data pipe is what is outstanding plus the buffers written by calls that have not
  counted them yet. The rest of the invariant (`ControlOK`, `TurnOK`, `QueuesOK`, `ClientOK`, `HistoryOK`) says which
  command the thread is at, and whose each buffer is.
* For any client: `OneOwnerCorrect` (`OwnersOK`: the places are disjoint, one by one and pair by pair) and
  `ReceivedInOrderCorrect` (`OrderOK`: each place is in order, the input queue comes before the pipe, and a call that
  has begun carries the newest frame).
* For a client that waits for the answers to its commands (`Careful`; each is false otherwise, as is told above): `QueuesOutliveUseCorrect`,
  `LoadedHoldsNothingCorrect`, `CommandReturnsAllCorrect`. `CarefulOK` says what such a client may rely on in each
  state: in Idle the queues are empty, and in Loaded the pipe is too. `ReturnOK` says where the buffers are that a command still
  owes: before it drains, in the queues or the pipe; then in the queues; then in the queue it is returning (`OwedOK`,
  `PendingOK`, `ConservedOK`).
* For a client that does not flush the output port alone (`FlushesInput`; false otherwise): `EosAfterItsFrameCorrect`. `EosOK`
  says where the EOS is that is noted: with the newest input that waits, or with the frame that is being
  decoded, or it has already come back.

**`Camera_proofs`** (under `Careful` and `Settled`): `TypeCorrect`, `OneInsideCorrect`, `UsedIsThereCorrect` and `Refinement`, that `Camera`
implements `CameraModes`. The invariant says who may be awake at each place of the client's
call: `PreviewOK` (the preview thread is awake only to show, to stop or to exit), `PictureOK` (a picture is taken while
nothing is to be shown, and is known to be taken), `HeapsOK` (which also says with which renderer the thread draws), `ExitOK` and `StreamOK`.

**`GpsSession_proofs`**, for all behaviours: `TypeCorrect`; `IdleIsFreeCorrect`, whose property names the windows "clear"
and "dispatch" (`Seen`); `NoStaleAnswerCorrect`, whose property names "overlap", "expired" and "late" (`Matched`). The theorems thus say
that every other order of calls, answers and timeouts is harmless.
The invariant `ClaimOK` relates the claim, `Noupdatetosessionhandler` and the requests on
their way at each place of the handler: a busy handler has been told not to clear the claim
exactly when a request is coming. `AskOK` says that handler and callback never ask at
once, `AnswerOK` that what `semRilEvent` holds or may still receive answers the question being asked.

Only model-checked: the liveness properties (`Delivered`, `TransitionsAnswered`, `CommandsAnswered`, `DeinitReturns`, `InitialValueTaken`,
`CommandsHandled`, `InputComesBack`, `CallsReturn`, `StartIsServed`, `CpEndsOthers`): liveness under fairness, and ENABLED,
are out of the prover's reach. The abstract specifications state safety only, so that the refinements are proved in full. Every invariant and action property of the
passing runs is a theorem. The type invariants are proved and are not repeated in the runs.
