------------------------------- MODULE Camera -------------------------------
(***************************************************************************)
(* The camera HAL (libcamera/ns115-usb): the calls of a client, and the    *)
(* threads that show the preview, take pictures and focus.  NuCameraV4L2,  *)
(* the object that drives the device, has no lock: NuCameraHardware has to *)
(* see to it that one thread at a time is inside.  The framework calls one *)
(* operation at a time.  The driver, Thread and Condition are external.    *)
(***************************************************************************)
EXTENDS Integers

CONSTANTS
  Sizes,         \* the sizes a preview may have
  InitialSkip,   \* INITIAL_SKIP_FRAME,
  SkipStep,      \* and what a skipped frame takes off mSkipFrame
  MaxCalls,      \* bound: calls of the client
  Careful,       \* the client stops and cancels before it releases, changes
                 \* the size after stopPreview only, starts no recording twice
  Settled,       \* the preview thread slept before the client's first call
  DeviceFails,   \* the driver may refuse what it is asked for
  MemoryFails    \* the heaps for which mGetMemoryCb may return NULL

NoHeap   == 0
NoTarget == "none"

ASSUME CameraAssumption ==
  /\ Sizes # {} /\ NoHeap \notin Sizes
  /\ InitialSkip \in Nat /\ SkipStep \in Nat \ {0} /\ MaxCalls \in Nat
  /\ {Careful, Settled, DeviceFails} \subseteq BOOLEAN
  /\ MemoryFails \subseteq {"preview", "raw", "record"}

VARIABLES
  call, at,                \* the client's call, and where it is in it
  calls,
  preview,                 \* where the preview thread is,
  capture,                 \* the capture thread,
  focus,                   \* and the auto focus thread
  previewLock,             \* who holds mPreviewLock
  mPreviewRunning, mPreviewStartDeferred, mExitPreviewThread,
  mPreviewWindow,          \* there is a window,
  mTarget,                 \* and the renderer that draws in it, or NoTarget
  drawsWith,               \* the renderer that the preview thread is in
  mPreviewHeap,            \* the size of the heap, or NoHeap
  mSkipFrame,
  mCaptureInProgress,
  mRawHeap,
  rawDenied,               \* history: there was no memory for the last raw heap
  mRecordRunning, mRecordHeap,
  mExitAutoFocusThread,
  size,                    \* of preview frames: m_preview_width and _height
  device                   \* m_cam_fd is open, m_flag_camera_start, and what
                           \* the driver streams

client    == <<call, at, calls>>
threads   == <<preview, capture, focus>>
switches  == <<mPreviewRunning, mPreviewStartDeferred, mExitPreviewThread, mExitAutoFocusThread>>
heaps     == <<mPreviewHeap, mRawHeap, rawDenied, mRecordHeap>>
screen    == <<mPreviewWindow, mTarget, drawsWith>>
vars      == <<client, threads, previewLock, switches, heaps, screen, mRecordRunning,
               mSkipFrame, mCaptureInProgress, size, device>>

\* The constructor, with the camera opened.
Init ==
  /\ call = "none" /\ at = "idle" /\ calls = 0
  /\ preview = IF Settled THEN "asleep" ELSE "top"
  /\ capture = "idle" /\ focus = "enter" /\ previewLock = "free"
  /\ mPreviewRunning = FALSE /\ mPreviewStartDeferred = FALSE
  /\ mExitPreviewThread = FALSE /\ mExitAutoFocusThread = FALSE
  /\ mPreviewWindow = FALSE /\ mTarget = NoTarget /\ drawsWith = NoTarget
  /\ mPreviewHeap = NoHeap /\ mRawHeap = FALSE /\ mRecordHeap = FALSE
  /\ rawDenied = FALSE
  /\ mSkipFrame = 0 /\ mCaptureInProgress = FALSE /\ mRecordRunning = FALSE
  /\ size \in Sizes
  /\ device = [open |-> TRUE, started |-> FALSE, stream |-> "off"]

Refusals == {TRUE, ~DeviceFails}   \* whether the driver does what it is asked
Granted(heap) == {TRUE, heap \notin MemoryFails}   \* whether there is memory for it

\* The capture thread has not dereferenced a NULL heap, which ends the process.
Alive == capture # "dead"

-----------------------------------------------------------------------------
(* NuCameraV4L2: the states a call may leave the device in.                *)
Devices == [open : BOOLEAN, started : BOOLEAN, stream : {"off", "preview", "picture"}]

Stopped(d) ==                                              \* stopPreview
  IF ~d.started \/ ~d.open THEN {d}
  ELSE {IF ok THEN [open |-> TRUE, started |-> FALSE, stream |-> "off"] ELSE d : ok \in Refusals}

\* startPreview: it has succeeded where the device is started afterwards.
Started(d) ==
  IF d.started \/ ~d.open THEN {d}
  ELSE {IF ok THEN [open |-> TRUE, started |-> TRUE, stream |-> "preview"] ELSE d : ok \in Refusals}

\* setSnapshotCmd: it stops a preview, and calls a closed camera a success.
SnapshotBegun(d) ==
  LET begun(e) == [open |-> e.open, started |-> e.started, stream |-> "picture"] IN
  UNION {IF e.open THEN {begun(e)} ELSE {e} : e \in Stopped(d)}

SnapshotEnded(d) ==                                        \* endSnapshot
  {IF ok /\ d.open THEN [open |-> TRUE, started |-> d.started, stream |-> "off"] ELSE d
     : ok \in Refusals}

-----------------------------------------------------------------------------
(* The preview thread: previewThreadWrapper and previewThread.             *)
Signalled == IF preview = "asleep" THEN "top" ELSE preview   \* mPreviewCondition

EnterLoop ==
  /\ preview = "top" /\ previewLock = "free"
  /\ IF mPreviewRunning THEN preview' = "go" /\ UNCHANGED previewLock
                        ELSE preview' = "stopping" /\ previewLock' = "preview"
  /\ UNCHANGED <<client, capture, focus, switches, heaps, screen, mRecordRunning,
                 mSkipFrame, mCaptureInProgress, size, device>>

\* mutant: the thread stops without a signal.
NotSignalled == at

StoppedSignalled == IF at = "awaitStopped" THEN "stopped" ELSE at   \* mPreviewStoppedCondition

\* Stop the device, signal, sleep.
Sleep ==
  /\ preview = "stopping" /\ preview' = "asleep"
  /\ device' \in Stopped(device)
  /\ at' = StoppedSignalled
  /\ previewLock' = "free"
  /\ UNCHANGED <<call, calls, capture, focus, switches, heaps, screen, mRecordRunning,
                 mSkipFrame, mCaptureInProgress, size>>

ExitOrGo ==
  /\ preview = "go"
  /\ IF mExitPreviewThread THEN preview' = "done" /\ device' \in Stopped(device)
                           ELSE preview' = "get" /\ UNCHANGED device
  /\ UNCHANGED <<client, capture, focus, previewLock, switches, heaps, screen, mRecordRunning,
                 mSkipFrame, mCaptureInProgress, size>>

\* getPreviewFrame, when the device has a frame or fails to hand it over.
GetPreviewFrame ==
  /\ preview = "get" /\ device.started
  /\ \E ok \in Refusals : preview' = IF ok /\ device.open THEN "frame" ELSE "top"
  /\ UNCHANGED <<client, capture, focus, previewLock, switches, heaps, screen, mRecordRunning,
                 mSkipFrame, mCaptureInProgress, size, device>>

\* getPreviewFrame, when the device is not started or has no data: it is
\* reset, and if it does not start again the frame 0 is returned.
ResetDevice ==
  /\ preview = "get" /\ (device.started => DeviceFails)
  /\ \E d \in Stopped(device), ok, got \in Refusals :
       IF ok /\ d.open
         THEN /\ device' \in Started(d)
              /\ preview' = IF got \/ ~device'.started THEN "frame" ELSE "top"
         ELSE /\ device' = d /\ preview' = "top"
  /\ UNCHANGED <<client, capture, focus, previewLock, switches, heaps, screen, mRecordRunning,
                 mSkipFrame, mCaptureInProgress, size>>

Skips == mSkipFrame > 0

SkipFrame ==
  /\ preview = "frame"
  /\ IF Skips THEN mSkipFrame' = mSkipFrame - SkipStep /\ preview' = "top"
              ELSE preview' = "show" /\ UNCHANGED mSkipFrame
  /\ UNCHANGED <<client, capture, focus, previewLock, switches, heaps, screen, mRecordRunning,
                 mCaptureInProgress, size, device>>

\* The frame is drawn where there is a window, without mPreviewLock.
ShowFrame ==
  /\ preview = "show"
  /\ IF mPreviewWindow THEN preview' = "render" /\ drawsWith' = mTarget
                       ELSE preview' = "copy" /\ UNCHANGED drawsWith
  /\ UNCHANGED <<client, capture, focus, previewLock, switches, heaps, mPreviewWindow, mTarget,
                 mRecordRunning, mSkipFrame, mCaptureInProgress, size, device>>

\* mTarget->render returns.
FrameRendered ==
  /\ preview = "render" /\ preview' = "copy" /\ drawsWith' = NoTarget
  /\ UNCHANGED <<client, capture, focus, previewLock, switches, heaps, mPreviewWindow, mTarget,
                 mRecordRunning, mSkipFrame, mCaptureInProgress, size, device>>

\* Into mPreviewHeap, for the callback.
CopyFrame ==
  /\ preview = "copy" /\ preview' = "record"
  /\ UNCHANGED <<client, capture, focus, previewLock, switches, heaps, screen, mRecordRunning,
                 mSkipFrame, mCaptureInProgress, size, device>>

RecordFrame ==
  /\ preview = "record" /\ preview' = "top"
  /\ UNCHANGED <<client, capture, focus, previewLock, switches, heaps, screen, mRecordRunning,
                 mSkipFrame, mCaptureInProgress, size, device>>

PreviewStep ==
  /\ Alive
  /\ \/ EnterLoop \/ Sleep \/ ExitOrGo \/ GetPreviewFrame \/ ResetDevice
     \/ SkipFrame \/ ShowFrame \/ FrameRendered \/ CopyFrame \/ RecordFrame

-----------------------------------------------------------------------------
(* The capture thread: pictureThreadInternal.                              *)
CaptureRest == <<client, preview, focus, previewLock, switches, mPreviewHeap, rawDenied,
                 mRecordHeap, screen, mRecordRunning, mSkipFrame, size>>

JpegInit ==
  /\ capture = "init"
  /\ \E ok \in Refusals : capture' = IF ok THEN "command" ELSE "out"
  /\ UNCHANGED <<CaptureRest, mRawHeap, mCaptureInProgress, device>>

SetSnapshotCmd ==
  /\ capture = "command"
  /\ \/ device' \in SnapshotBegun(device) /\ capture' = "frames"
     \/ DeviceFails /\ device' \in Stopped(device) /\ capture' = "out"
  /\ UNCHANGED <<CaptureRest, mRawHeap, mCaptureInProgress>>

\* The frames that are skipped and the one that is kept.
GetSnapshotFrames ==
  /\ capture = "frames"
  /\ \E ok \in Refusals : capture' = IF ok /\ device.open THEN "callbacks" ELSE "out"
  /\ UNCHANGED <<CaptureRest, mRawHeap, mCaptureInProgress, device>>

\* Shutter, raw image, JPEG encoding and image; what fails ends the picture.
\* The raw image is copied into mRawHeap if the client wants it.
PictureCallbacks ==
  /\ capture = "callbacks"
  /\ capture' = "out" \/ (~mRawHeap /\ capture' = "dead")
  /\ UNCHANGED <<CaptureRest, mRawHeap, mCaptureInProgress, device>>

\* mutant: the next call goes ahead before the snapshot has ended.
CompletesTooEarly ==
  /\ capture = "out" /\ capture' = "end"
  /\ mRawHeap' = FALSE /\ mCaptureInProgress' = FALSE
  /\ UNCHANGED <<CaptureRest, device>>

\* mRawHeap->release, whether or not there is a heap.
ReleaseRawHeap ==
  /\ capture = "out" /\ capture' = IF mRawHeap THEN "end" ELSE "dead"
  /\ mRawHeap' = FALSE
  /\ UNCHANGED <<CaptureRest, mCaptureInProgress, device>>

EndSnapshot ==
  /\ capture = "end" /\ capture' = "last"
  /\ device' \in SnapshotEnded(device)
  /\ UNCHANGED <<CaptureRest, mRawHeap, mCaptureInProgress>>

CaptureCompletes ==
  /\ capture = "last" /\ capture' = "exit"
  /\ mCaptureInProgress' = FALSE
  /\ UNCHANGED <<CaptureRest, mRawHeap, device>>

\* threadLoop returns !mOneBurst, which is false: the thread ends.
CaptureExits ==
  /\ capture = "exit" /\ capture' = "idle"
  /\ UNCHANGED <<CaptureRest, mRawHeap, mCaptureInProgress, device>>

\* A thread asked to exit before it began does not run (external).
CaptureNeverRuns ==
  /\ capture = "init" /\ at = "join" /\ capture' = "idle"
  /\ UNCHANGED <<CaptureRest, mRawHeap, mCaptureInProgress, device>>

CaptureStep ==
  \/ CaptureNeverRuns \/ JpegInit \/ SetSnapshotCmd \/ GetSnapshotFrames \/ PictureCallbacks
  \/ ReleaseRawHeap \/ EndSnapshot \/ CaptureCompletes \/ CaptureExits

-----------------------------------------------------------------------------
(* The auto focus thread: autoFocusThread.                                 *)
FocusRest == <<client, preview, capture, previewLock, switches, heaps, screen, mRecordRunning,
               mSkipFrame, mCaptureInProgress, size, device>>

FocusEnters ==
  /\ focus = "enter"
  /\ focus' = IF mExitAutoFocusThread THEN "done" ELSE "asleep"
  /\ UNCHANGED FocusRest

FocusWakes ==
  /\ focus = "awake"
  /\ focus' = IF mExitAutoFocusThread THEN "done" ELSE "notify"
  /\ UNCHANGED FocusRest

FocusNotifies ==
  /\ focus = "notify" /\ focus' = "enter"
  /\ UNCHANGED FocusRest

FocusStep == Alive /\ (FocusEnters \/ FocusWakes \/ FocusNotifies)

-----------------------------------------------------------------------------
(* The client: a call begins, takes its steps, and returns.                *)
Begins(c, where) ==
  /\ Alive /\ call = "none" /\ device.open /\ calls < MaxCalls
  /\ call' = c /\ at' = where /\ calls' = calls + 1

Continues(where) == at' = where /\ UNCHANGED <<call, calls>>
Returns          == call' = "none" /\ at' = "idle" /\ UNCHANGED calls

\* The calls that only wait, or take a lock, before they change anything.
Entry == [startPreview |-> "completion", setParameters |-> "completion",
          stopPreview |-> "lock", takePicture |-> "lock", cancelPicture |-> "join"]

Calls ==
  /\ \E c \in DOMAIN Entry : Begins(c, Entry[c])
  /\ UNCHANGED <<threads, previewLock, switches, heaps, screen, mRecordRunning,
                 mSkipFrame, mCaptureInProgress, size, device>>

SetPreviewWindow ==
  /\ \/ mPreviewWindow' = TRUE /\ Begins("setPreviewWindow", "lock")
     \/ mPreviewWindow' = FALSE /\ Begins("none", "idle")
  /\ UNCHANGED <<threads, previewLock, switches, heaps, mTarget, drawsWith, mRecordRunning,
                 mSkipFrame, mCaptureInProgress, size, device>>

StartRecording ==
  /\ Begins("none", "idle") /\ (Careful => ~mRecordRunning)
  /\ mRecordHeap' \in Granted("record")
  /\ mRecordRunning' = (mRecordRunning \/ mRecordHeap')
  /\ UNCHANGED <<threads, previewLock, switches, mPreviewHeap, mRawHeap, rawDenied, screen,
                 mSkipFrame, mCaptureInProgress, size, device>>

StopRecording ==
  /\ Begins("none", "idle")
  /\ mRecordHeap' = FALSE /\ mRecordRunning' = FALSE
  /\ UNCHANGED <<threads, previewLock, switches, mPreviewHeap, mRawHeap, rawDenied, screen,
                 mSkipFrame, mCaptureInProgress, size, device>>

\* The signal is lost unless the thread waits for it.
AutoFocus ==
  /\ Begins("none", "idle")
  /\ focus' = IF focus = "asleep" THEN "awake" ELSE focus
  /\ UNCHANGED <<preview, capture, previewLock, switches, heaps, screen, mRecordRunning,
                 mSkipFrame, mCaptureInProgress, size, device>>

Release ==
  /\ Begins("release", "exitPreview")
  /\ Careful => ~mPreviewRunning /\ capture = "idle"
  /\ mTarget' = NoTarget
  /\ UNCHANGED <<threads, previewLock, switches, heaps, mPreviewWindow, drawsWith, mRecordRunning,
                 mSkipFrame, mCaptureInProgress, size, device>>

-----------------------------------------------------------------------------
(* waitCaptureCompletion, and what its callers do then.                    *)
Completed == ~mCaptureInProgress

CaptureOver ==
  /\ at = "completion" /\ Completed
  /\ Continues(CASE call = "startPreview"  -> "lock"
                 [] call = "setParameters" -> "size"
                 [] call = "takePicture"   -> "thread")
  /\ UNCHANGED <<threads, previewLock, switches, heaps, screen, mRecordRunning,
                 mSkipFrame, mCaptureInProgress, size, device>>

TimesOut ==
  /\ at = "completion" /\ mCaptureInProgress /\ Returns
  /\ UNCHANGED <<threads, previewLock, switches, heaps, screen, mRecordRunning,
                 mSkipFrame, mCaptureInProgress, size, device>>

SetSize ==
  /\ at = "size" /\ Returns
  /\ size' \in IF Careful /\ mPreviewHeap # NoHeap THEN {size} ELSE Sizes
  /\ UNCHANGED <<threads, previewLock, switches, heaps, screen, mRecordRunning,
                 mSkipFrame, mCaptureInProgress, device>>

RunCaptureThread ==
  /\ at = "thread"
  /\ \E ok \in Granted("raw") : mRawHeap' = (mRawHeap \/ ok)
  /\ rawDenied' = ~mRawHeap'
  /\ IF capture = "idle" THEN capture' = "init" /\ Continues("flag")
                         ELSE Returns /\ UNCHANGED capture
  /\ UNCHANGED <<preview, focus, previewLock, switches, mPreviewHeap, mRecordHeap, screen,
                 mRecordRunning, mSkipFrame, mCaptureInProgress, size, device>>

SetCaptureInProgress ==
  /\ at = "flag" /\ Returns
  /\ mCaptureInProgress' = TRUE
  /\ UNCHANGED <<threads, previewLock, switches, heaps, screen, mRecordRunning,
                 mSkipFrame, size, device>>

-----------------------------------------------------------------------------
(* What is done with mPreviewLock.                                         *)
LockAndStart ==
  /\ call = "startPreview" /\ at = "lock" /\ previewLock = "free"
  /\ IF mPreviewRunning THEN UNCHANGED <<mPreviewRunning, mPreviewStartDeferred>>
     ELSE mPreviewRunning' = TRUE /\ mPreviewStartDeferred' = ~mPreviewWindow
  /\ IF ~mPreviewRunning /\ mPreviewWindow
       THEN Continues("device") /\ previewLock' = "client"
       ELSE Returns /\ UNCHANGED previewLock
  /\ UNCHANGED <<threads, mExitPreviewThread, mExitAutoFocusThread, heaps, screen,
                 mRecordRunning, mSkipFrame, mCaptureInProgress, size, device>>

\* mutant: the preview is asked to stop, and not waited for.
NeverAwaits == FALSE

MustAwait == mPreviewRunning /\ ~mPreviewStartDeferred

\* It wakes the preview thread and waits until the thread has stopped.
StopPreviewInternal(then) ==
  /\ mPreviewRunning' = FALSE
  /\ IF MustAwait
       THEN preview' = Signalled /\ Continues("awaitStopped")
       ELSE then /\ UNCHANGED preview

LockAndStop ==
  /\ call \in {"stopPreview", "takePicture"} /\ at = "lock" /\ previewLock = "free"
  /\ StopPreviewInternal(Continues("heap"))
  /\ UNCHANGED <<capture, focus, previewLock, mPreviewStartDeferred, mExitPreviewThread,
                 mExitAutoFocusThread, heaps, screen, mRecordRunning,
                 mSkipFrame, mCaptureInProgress, size, device>>

\* mTarget and mLooper are made anew, and those there were are dropped.  (A third
\* renderer is told from the first by the thread being in neither by then.)
NewTarget == IF mTarget = "first" THEN "second" ELSE "first"

\* A new window: the renderer is replaced, and only then is stopped what runs
\* (mPreviewLock is held from one to the other, but the thread draws without
\* it); what was put off is started.
LockAndChange ==
  /\ call = "setPreviewWindow" /\ at = "lock" /\ previewLock = "free"
  /\ mTarget' = NewTarget
  /\ IF mPreviewRunning /\ mPreviewStartDeferred
       THEN Continues("device") /\ previewLock' = "client" /\ UNCHANGED <<mPreviewRunning, preview>>
       ELSE StopPreviewInternal(Returns) /\ UNCHANGED previewLock
  /\ UNCHANGED <<capture, focus, mPreviewStartDeferred, mExitPreviewThread,
                 mExitAutoFocusThread, heaps, mPreviewWindow, drawsWith, mRecordRunning,
                 mSkipFrame, mCaptureInProgress, size, device>>

StopSeen ==
  /\ at = "stopped" /\ previewLock = "free"
  /\ IF call = "setPreviewWindow" THEN Returns ELSE Continues("heap")
  /\ UNCHANGED <<threads, previewLock, switches, heaps, screen, mRecordRunning,
                 mSkipFrame, mCaptureInProgress, size, device>>

ReleasePreviewHeap ==
  /\ at = "heap" /\ mPreviewHeap' = NoHeap
  /\ IF call = "stopPreview" THEN Returns ELSE Continues("completion")
  /\ UNCHANGED <<threads, previewLock, switches, mRawHeap, rawDenied, mRecordHeap, screen,
                 mRecordRunning, mSkipFrame, mCaptureInProgress, size, device>>

\* mutant: a heap that could not be allocated is not noticed.
NeverMissing == FALSE

HeapMissing == mPreviewHeap' = NoHeap

\* startPreviewInternal, and the signal to the preview thread.
StartPreviewInternal ==
  /\ at = "device"
  /\ \E ok \in Granted("preview") :
       mPreviewHeap' = IF mPreviewHeap = NoHeap /\ ok THEN size ELSE mPreviewHeap
  /\ device' \in IF HeapMissing THEN {device} ELSE Started(device)
  /\ IF ~HeapMissing /\ device'.started
       THEN /\ mSkipFrame' = IF mSkipFrame < InitialSkip THEN InitialSkip ELSE mSkipFrame
            /\ mPreviewStartDeferred' = FALSE /\ preview' = Signalled
       ELSE UNCHANGED <<mSkipFrame, mPreviewStartDeferred, preview>>
  /\ previewLock' = "free" /\ Returns
  /\ UNCHANGED <<capture, focus, mPreviewRunning, mExitPreviewThread, mExitAutoFocusThread,
                 mRawHeap, rawDenied, mRecordHeap, screen, mRecordRunning, mCaptureInProgress, size>>

-----------------------------------------------------------------------------
(* release and the threads it joins.                                       *)
\* Without mPreviewLock.
ExitPreview ==
  /\ at = "exitPreview" /\ Continues("joinPreview")
  /\ mExitPreviewThread' = TRUE /\ mPreviewRunning' = TRUE /\ preview' = Signalled
  /\ UNCHANGED <<capture, focus, previewLock, mPreviewStartDeferred, mExitAutoFocusThread,
                 heaps, screen, mRecordRunning, mSkipFrame, mCaptureInProgress, size, device>>

ExitAutoFocus ==
  /\ at = "joinPreview" /\ preview = "done" /\ Continues("joinFocus")
  /\ mExitAutoFocusThread' = TRUE
  /\ focus' = IF focus = "asleep" THEN "awake" ELSE focus
  /\ UNCHANGED <<preview, capture, previewLock, mPreviewRunning, mPreviewStartDeferred,
                 mExitPreviewThread, heaps, screen, mRecordRunning,
                 mSkipFrame, mCaptureInProgress, size, device>>

FocusJoined ==
  /\ at = "joinFocus" /\ focus = "done" /\ Continues("join")
  /\ UNCHANGED <<threads, previewLock, switches, heaps, screen, mRecordRunning,
                 mSkipFrame, mCaptureInProgress, size, device>>

CaptureJoined ==
  /\ at = "join" /\ capture = "idle" /\ Returns
  /\ IF call = "cancelPicture" THEN UNCHANGED <<heaps, device>>
     ELSE /\ mRawHeap' = FALSE /\ mPreviewHeap' = NoHeap /\ mRecordHeap' = FALSE
          /\ UNCHANGED rawDenied
          /\ device' = [open |-> FALSE, started |-> device.started, stream |-> "off"]
  /\ UNCHANGED <<threads, previewLock, switches, screen, mRecordRunning,
                 mSkipFrame, mCaptureInProgress, size>>

ClientStep ==
  /\ Alive
  /\ \/ CaptureOver \/ TimesOut \/ SetSize \/ RunCaptureThread \/ SetCaptureInProgress
     \/ LockAndStart \/ LockAndStop \/ LockAndChange \/ StopSeen \/ ReleasePreviewHeap
     \/ StartPreviewInternal
     \/ ExitPreview \/ ExitAutoFocus \/ FocusJoined \/ CaptureJoined

CallBegins ==
  \/ Calls \/ SetPreviewWindow \/ StartRecording \/ StopRecording \/ AutoFocus \/ Release

Next == PreviewStep \/ CaptureStep \/ FocusStep \/ ClientStep \/ CallBegins

Spec == Init /\ [][Next]_vars

FairSpec ==
  /\ Spec
  /\ WF_vars(PreviewStep) /\ WF_vars(CaptureStep) /\ WF_vars(FocusStep) /\ WF_vars(ClientStep)

-----------------------------------------------------------------------------
TypeOK ==
  /\ call \in DOMAIN Entry \cup {"none", "setPreviewWindow", "release"}
  /\ at \in {"idle", "completion", "size", "thread", "flag", "lock", "awaitStopped", "stopped",
             "heap", "device", "exitPreview", "joinPreview", "joinFocus", "join"}
  /\ calls \in 0..MaxCalls
  /\ preview \in {"top", "stopping", "asleep", "go", "get", "frame", "show", "render", "copy",
                  "record", "done"}
  /\ capture \in {"idle", "init", "command", "frames", "callbacks", "out", "end", "last", "exit",
                  "dead"}
  /\ focus \in {"enter", "asleep", "awake", "notify", "done"}
  /\ previewLock \in {"free", "preview", "client"}
  /\ mPreviewRunning \in BOOLEAN /\ mPreviewStartDeferred \in BOOLEAN
  /\ mExitPreviewThread \in BOOLEAN /\ mExitAutoFocusThread \in BOOLEAN
  /\ mPreviewWindow \in BOOLEAN /\ {mTarget, drawsWith} \subseteq {NoTarget, "first", "second"}
  /\ mCaptureInProgress \in BOOLEAN /\ mRawHeap \in BOOLEAN /\ rawDenied \in BOOLEAN
  /\ mRecordRunning \in BOOLEAN /\ mRecordHeap \in BOOLEAN
  /\ mPreviewHeap \in Sizes \cup {NoHeap} /\ size \in Sizes
  /\ mSkipFrame \in (1 - SkipStep)..InitialSkip
  /\ device \in Devices

PreviewInside == preview \in {"stopping", "go", "get", "frame", "show", "render", "copy", "record"}
CaptureInside == capture \in {"init", "command", "frames", "callbacks", "out", "end", "dead"}

\* One thread at a time is in NuCameraV4L2, which has no lock: the preview
\* thread, the capture thread, or the client that starts the preview or
\* closes the device (by itself: a joined thread is not inside).
OneInside ==
  /\ ~(PreviewInside /\ CaptureInside)
  /\ at = "device" => ~PreviewInside /\ ~CaptureInside
  /\ ~device.open => ~PreviewInside /\ ~CaptureInside

\* From the snapshot command to the last frame the device streams the picture:
\* no preview thread, woken late or not yet stopped, resets it meanwhile.
PictureKeepsStream == capture \in {"frames", "callbacks"} => device.stream = "picture"

\* setPreviewWindow waits for the preview thread to stop.
Replacing == call = "setPreviewWindow" /\ at = "awaitStopped"

\* What the threads use is there when they use it: the renderer while it draws
\* (one that is replaced meanwhile is left before setPreviewWindow returns), a
\* heap that fits the frame when it is copied, the record heap while recording,
\* the raw heap (unless there was no memory for it) and the stream during a
\* picture.
UsedIsThere ==
  /\ preview = "render" => drawsWith # NoTarget /\ (drawsWith = mTarget \/ Replacing)
  /\ preview = "copy" => mPreviewHeap = size
  /\ preview = "record" /\ mRecordRunning => mRecordHeap
  /\ CaptureInside /\ capture # "end" => mRawHeap \/ rawDenied
  /\ PictureKeepsStream

\* A call is refused, after five seconds, only while the picture thread runs.
RefusedDuringPicture == at = "completion" /\ mCaptureInProgress => capture # "idle"

-----------------------------------------------------------------------------
mode ==
  IF ~device.open THEN "released"
  ELSE IF CaptureInside THEN "picture"
  ELSE IF preview \in {"asleep", "done"} THEN "off" ELSE "preview"

Modes == INSTANCE CameraModes

\* Preview, pictures and the release exclude each other (CameraModes).
ImplementsModes == Modes!Spec

\* Every call returns, unless the process ends: the threads that it waits for
\* stop, end or are timed out.
CallsReturn == call # "none" ~> call = "none" \/ ~Alive
=============================================================================
