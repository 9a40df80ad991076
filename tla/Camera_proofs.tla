--------------------------- MODULE Camera_proofs ---------------------------
(***************************************************************************)
(* Proofs about Camera, for every size, bound and failure of the device,   *)
(* and for a client that is careful and meets a preview thread that sleeps *)
(* (Careful and Settled).  The inductive invariant says who may be awake   *)
(* at each place of the client's call.                                     *)
(***************************************************************************)
EXTENDS Camera, TLAPS

Awake == preview \notin {"asleep", "done"}

\* The places of each call, and what the client holds and knows there.
CallAt ==
  CASE at = "idle"                                  -> {"none"}
    [] at = "completion"                            -> {"startPreview", "setParameters", "takePicture"}
    [] at = "size"                                  -> {"setParameters"}
    [] at \in {"thread", "flag"}                    -> {"takePicture"}
    [] at = "lock"                                  -> {"startPreview", "stopPreview", "takePicture",
                                                        "setPreviewWindow"}
    [] at \in {"awaitStopped", "stopped"}           -> {"stopPreview", "takePicture", "setPreviewWindow"}
    [] at = "heap"                                  -> {"stopPreview", "takePicture"}
    [] at = "device"                                -> {"startPreview", "setPreviewWindow"}
    [] at \in {"exitPreview", "joinPreview", "joinFocus"} -> {"release"}
    [] at = "join"                                  -> {"cancelPicture", "release"}

Stops == call = "takePicture" /\ at \in {"completion", "thread", "flag"}

ControlOK ==
  /\ call \in CallAt
  /\ at \in {"stopped", "heap"} \/ Stops => ~mPreviewRunning
  /\ at = "awaitStopped" => ~mPreviewRunning
  /\ at = "device" => mPreviewRunning /\ preview = "asleep"
  /\ at = "stopped" => preview = "asleep"
  /\ at = "exitPreview" => ~mPreviewRunning

\* The preview thread is awake only to show, to stop, or to exit.
PreviewOK ==
  Awake => \/ mPreviewRunning /\ ~mPreviewStartDeferred
           \/ at = "awaitStopped"
           \/ mExitPreviewThread

ExitOK ==
  /\ mExitPreviewThread => ~device.open \/ (call = "release" /\ at # "exitPreview")
  /\ mExitPreviewThread => mPreviewRunning /\ preview \in {"top", "go", "done"}
  /\ preview = "done" => mExitPreviewThread
  /\ at = "joinFocus" \/ (call = "release" /\ at = "join") \/ ~device.open => preview = "done"
  /\ ~device.open => call = "none"
  /\ call = "release" \/ ~device.open => capture = "idle"

\* A picture is taken while nothing is to be shown, and is known to be taken.
PictureOK ==
  CaptureInside => /\ ~mPreviewRunning
                   /\ mCaptureInProgress \/ at = "flag"
                   /\ at \notin {"thread", "awaitStopped"}
                   /\ ~(call = "startPreview" /\ at = "lock")

Shows == preview \in {"go", "get", "frame", "show", "render", "copy", "record"}
         \/ (Awake /\ mPreviewRunning)

HeapsOK ==
  /\ mPreviewHeap # NoHeap => mPreviewHeap = size
  /\ Shows /\ ~mExitPreviewThread => mPreviewHeap # NoHeap /\ mTarget # NoTarget
  /\ call # "release" /\ device.open /\ ~(call = "setPreviewWindow" /\ at = "lock")
       => (mPreviewWindow => mTarget # NoTarget)
  /\ at = "device" => mTarget # NoTarget
  /\ preview = "render" => drawsWith # NoTarget /\ (drawsWith = mTarget \/ Replacing)
  /\ device.open /\ mRecordRunning => mRecordHeap
  /\ CaptureInside /\ capture # "end" => mRawHeap \/ rawDenied

StreamOK == PictureKeepsStream

Relations == ControlOK /\ PreviewOK /\ ExitOK /\ PictureOK /\ HeapsOK /\ StreamOK

IInv == TypeOK /\ Relations

-----------------------------------------------------------------------------
(* What the driver may do to the device.                                  *)
\* Stopping the preview keeps the device open, or closed, and typed.
LEMMA StoppedFacts ==
  ASSUME NEW d \in Devices, NEW e \in Stopped(d)
  PROVE  e \in Devices /\ e.open = d.open
<1>1. CASE e = d  BY <1>1
<1>2. CASE d.open /\ e = [open |-> TRUE, started |-> FALSE, stream |-> "off"]
  BY <1>2 DEF Devices
<1> QED BY <1>1, <1>2 DEF Stopped, Devices

\* So does starting it,
LEMMA StartedFacts ==
  ASSUME NEW d \in Devices, NEW e \in Started(d)
  PROVE  e \in Devices /\ e.open = d.open
<1>1. CASE e = d  BY <1>1
<1>2. CASE d.open /\ e = [open |-> TRUE, started |-> TRUE, stream |-> "preview"]
  BY <1>2 DEF Devices
<1> QED BY <1>1, <1>2 DEF Started, Devices

\* and ending a snapshot;
LEMMA SnapshotEndedFacts ==
  ASSUME NEW d \in Devices, NEW e \in SnapshotEnded(d)
  PROVE  e \in Devices /\ e.open = d.open
<1>1. CASE e = d  BY <1>1
<1>2. CASE d.open /\ e = [open |-> TRUE, started |-> d.started, stream |-> "off"]
  BY <1>2 DEF Devices
<1> QED BY <1>1, <1>2 DEF SnapshotEnded, Devices

\* a snapshot that has begun streams the picture.
LEMMA SnapshotBegunFacts ==
  ASSUME NEW d \in Devices, NEW e \in SnapshotBegun(d)
  PROVE  e \in Devices /\ e.open = d.open /\ (d.open => e.stream = "picture")
<1>1. PICK f \in Stopped(d) :
        IF f.open THEN e = [open |-> f.open, started |-> f.started, stream |-> "picture"] ELSE e = f
  BY DEF SnapshotBegun
<1>2. f \in Devices /\ f.open = d.open
  BY <1>1, StoppedFacts
<1>3. CASE f.open
  <2>1. e = [open |-> f.open, started |-> f.started, stream |-> "picture"] BY <1>1, <1>3
  <2> QED BY <2>1, <1>2 DEF Devices
<1>4. CASE ~f.open
  BY <1>1, <1>2, <1>4
<1> QED BY <1>3, <1>4
-----------------------------------------------------------------------------
(* Every step keeps the invariant.                                         *)
\* Every step of the preview thread keeps the invariant.
LEMMA PreviewKeeps ==
  ASSUME IInv, Careful, PreviewStep PROVE IInv'
<1> USE CameraAssumption
<1> USE DEF IInv, Relations, TypeOK, ControlOK, CallAt, Stops, PreviewOK, ExitOK, PictureOK,
             HeapsOK, StreamOK, PictureKeepsStream, Awake, Shows, CaptureInside,
             Begins, Continues, Returns, Entry, Signalled, StoppedSignalled, NoHeap,
             Replacing, NoTarget, client, threads, switches, heaps, screen, Refusals
<1>1. CASE EnterLoop
  <2>1. TypeOK'
    BY <1>1 DEF EnterLoop
  <2>2. Relations'
    BY <1>1, SMTT(30) DEF EnterLoop
  <2> QED BY <2>1, <2>2
<1>2. CASE Sleep
  <2>1. device' \in Devices /\ device'.open = device.open
    BY <1>2, StoppedFacts DEF Sleep
  <2>2. TypeOK'
    BY <1>2, <2>1 DEF Sleep
  <2>3. Relations'
    BY <1>2, <2>1, SMTT(30) DEF Sleep
  <2> QED BY <2>2, <2>3
<1>3. CASE ExitOrGo
  <2>1. device' \in Devices /\ device'.open = device.open
    BY <1>3, StoppedFacts DEF ExitOrGo
  <2>2. TypeOK'
    BY <1>3, <2>1 DEF ExitOrGo
  <2>3. Relations'
    BY <1>3, <2>1, SMTT(30) DEF ExitOrGo
  <2> QED BY <2>2, <2>3
<1>4. CASE GetPreviewFrame
  <2>1. TypeOK'
    BY <1>4 DEF GetPreviewFrame
  <2>2. Relations'
    BY <1>4, SMTT(30) DEF GetPreviewFrame
  <2> QED BY <2>1, <2>2
<1>5. CASE ResetDevice
  <2>1. device' \in Devices /\ device'.open = device.open
    BY <1>5, StoppedFacts, StartedFacts DEF ResetDevice
  <2>2. TypeOK'
    BY <1>5, <2>1 DEF ResetDevice
  <2>3. Relations'
    BY <1>5, <2>1, SMTT(30) DEF ResetDevice
  <2> QED BY <2>2, <2>3
<1>6. CASE SkipFrame
  <2>1. TypeOK'
    BY <1>6 DEF SkipFrame, Skips
  <2>2. Relations'
    BY <1>6, SMTT(30) DEF SkipFrame, Skips
  <2> QED BY <2>1, <2>2
<1>7. CASE ShowFrame
  <2>1. TypeOK'
    BY <1>7 DEF ShowFrame
  <2>2. Relations'
    BY <1>7, SMTT(30) DEF ShowFrame
  <2> QED BY <2>1, <2>2
<1>9. CASE FrameRendered
  <2>1. TypeOK'
    BY <1>9 DEF FrameRendered
  <2>2. Relations'
    BY <1>9, SMTT(30) DEF FrameRendered
  <2> QED BY <2>1, <2>2
<1>10. CASE CopyFrame
  <2>1. TypeOK'
    BY <1>10 DEF CopyFrame
  <2>2. Relations'
    BY <1>10, SMTT(30) DEF CopyFrame
  <2> QED BY <2>1, <2>2
<1>8. CASE RecordFrame
  <2>1. TypeOK'
    BY <1>8 DEF RecordFrame
  <2>2. Relations'
    BY <1>8, SMTT(30) DEF RecordFrame
  <2> QED BY <2>1, <2>2
<1> QED BY <1>1, <1>2, <1>3, <1>4, <1>5, <1>6, <1>7, <1>8, <1>9, <1>10 DEF PreviewStep

\* Every step of the capture thread keeps the invariant.
LEMMA CaptureKeeps ==
  ASSUME IInv, Careful, CaptureStep PROVE IInv'
<1> USE CameraAssumption
<1> USE DEF IInv, Relations, TypeOK, ControlOK, CallAt, Stops, PreviewOK, ExitOK, PictureOK,
             HeapsOK, StreamOK, PictureKeepsStream, Awake, Shows, CaptureInside,
             Begins, Continues, Returns, Entry, Signalled, StoppedSignalled, NoHeap,
             Replacing, NoTarget, client, threads, switches, heaps, screen, CaptureRest, Refusals
<1>1. CASE CaptureNeverRuns
  <2>1. TypeOK'
    BY <1>1 DEF CaptureNeverRuns
  <2>2. Relations'
    BY <1>1, SMTT(30) DEF CaptureNeverRuns
  <2> QED BY <2>1, <2>2
<1>2. CASE JpegInit
  <2>1. TypeOK'
    BY <1>2 DEF JpegInit
  <2>2. Relations'
    BY <1>2, SMTT(30) DEF JpegInit
  <2> QED BY <2>1, <2>2
<1>3. CASE SetSnapshotCmd
  <2>1. /\ device' \in Devices /\ device'.open = device.open
        /\ capture' = "frames" /\ device.open => device'.stream = "picture"
    BY <1>3, StoppedFacts, SnapshotBegunFacts DEF SetSnapshotCmd
  <2>2. TypeOK'
    BY <1>3, <2>1 DEF SetSnapshotCmd
  <2>3. Relations'
    BY <1>3, <2>1, SMTT(30) DEF SetSnapshotCmd
  <2> QED BY <2>2, <2>3
<1>4. CASE GetSnapshotFrames
  <2>1. TypeOK'
    BY <1>4 DEF GetSnapshotFrames
  <2>2. Relations'
    BY <1>4, SMTT(30) DEF GetSnapshotFrames
  <2> QED BY <2>1, <2>2
<1>5. CASE PictureCallbacks
  <2>1. TypeOK'
    BY <1>5 DEF PictureCallbacks
  <2>2. Relations'
    BY <1>5, SMTT(30) DEF PictureCallbacks
  <2> QED BY <2>1, <2>2
<1>6. CASE ReleaseRawHeap
  <2>1. mRawHeap' \in BOOLEAN
    BY <1>6, Zenon DEF ReleaseRawHeap
  <2>2. TypeOK'
    BY <1>6, <2>1 DEF ReleaseRawHeap
  <2>3. Relations'
    BY <1>6, SMTT(30) DEF ReleaseRawHeap
  <2> QED BY <2>2, <2>3
<1>7. CASE EndSnapshot
  <2>1. device' \in Devices /\ device'.open = device.open
    BY <1>7, SnapshotEndedFacts DEF EndSnapshot
  <2>2. TypeOK'
    BY <1>7, <2>1 DEF EndSnapshot
  <2>3. Relations'
    BY <1>7, <2>1, SMTT(30) DEF EndSnapshot
  <2> QED BY <2>2, <2>3
<1>8. CASE CaptureCompletes
  <2>1. mCaptureInProgress' \in BOOLEAN
    BY <1>8, Zenon DEF CaptureCompletes
  <2>2. TypeOK'
    BY <1>8, <2>1 DEF CaptureCompletes
  <2>3. Relations'
    BY <1>8, SMTT(30) DEF CaptureCompletes
  <2> QED BY <2>2, <2>3
<1>9. CASE CaptureExits
  <2>1. TypeOK'
    BY <1>9 DEF CaptureExits
  <2>2. Relations'
    BY <1>9, SMTT(30) DEF CaptureExits
  <2> QED BY <2>1, <2>2
<1> QED BY <1>1, <1>2, <1>3, <1>4, <1>5, <1>6, <1>7, <1>8, <1>9 DEF CaptureStep

\* Every step of the focus thread keeps the invariant.
LEMMA FocusKeeps ==
  ASSUME IInv, Careful, FocusStep PROVE IInv'
<1> USE CameraAssumption
<1> USE DEF IInv, Relations, TypeOK, ControlOK, CallAt, Stops, PreviewOK, ExitOK, PictureOK,
             HeapsOK, StreamOK, PictureKeepsStream, Awake, Shows, CaptureInside,
             Begins, Continues, Returns, Entry, Signalled, StoppedSignalled, NoHeap,
             Replacing, NoTarget, client, threads, switches, heaps, screen, FocusRest
<1>1. CASE FocusEnters
  <2>1. TypeOK'
    BY <1>1 DEF FocusEnters
  <2>2. Relations'
    BY <1>1, SMTT(30) DEF FocusEnters
  <2> QED BY <2>1, <2>2
<1>2. CASE FocusWakes
  <2>1. TypeOK'
    BY <1>2 DEF FocusWakes
  <2>2. Relations'
    BY <1>2, SMTT(30) DEF FocusWakes
  <2> QED BY <2>1, <2>2
<1>3. CASE FocusNotifies
  <2>1. TypeOK'
    BY <1>3 DEF FocusNotifies
  <2>2. Relations'
    BY <1>3, SMTT(30) DEF FocusNotifies
  <2> QED BY <2>1, <2>2
<1> QED BY <1>1, <1>2, <1>3 DEF FocusStep

\* Every step of a call of the client keeps the invariant.
LEMMA ClientKeeps ==
  ASSUME IInv, Careful, ClientStep PROVE IInv'
<1> USE CameraAssumption
<1> USE DEF IInv, Relations, TypeOK, ControlOK, CallAt, Stops, PreviewOK, ExitOK, PictureOK,
             HeapsOK, StreamOK, PictureKeepsStream, Awake, Shows, CaptureInside,
             Begins, Continues, Returns, Entry, Signalled, StoppedSignalled, NoHeap,
             Replacing, NoTarget, client, threads, switches, heaps, screen
<1>1. CASE CaptureOver
  <2>1. TypeOK'
    BY <1>1 DEF CaptureOver, Completed
  <2>2. Relations'
    BY <1>1, SMTT(30) DEF CaptureOver, Completed
  <2> QED BY <2>1, <2>2
<1>2. CASE TimesOut
  <2>1. TypeOK'
    BY <1>2 DEF TimesOut
  <2>2. Relations'
    BY <1>2, SMTT(30) DEF TimesOut
  <2> QED BY <2>1, <2>2
<1>3. CASE SetSize
  <2>1. TypeOK'
    BY <1>3 DEF SetSize
  <2>2. Relations'
    BY <1>3, SMTT(30) DEF SetSize
  <2> QED BY <2>1, <2>2
<1>4. CASE RunCaptureThread
  <2>1. mRawHeap' \in BOOLEAN
    BY <1>4, Zenon DEF RunCaptureThread, Granted
  <2>2. rawDenied' \in BOOLEAN /\ (mRawHeap' \/ rawDenied')
    BY <1>4, Zenon DEF RunCaptureThread
  <2>3. TypeOK'
    BY <1>4, <2>1, <2>2 DEF RunCaptureThread, Granted
  <2>4. HeapsOK'
    BY <1>4, <2>2, SMTT(30) DEF RunCaptureThread
  <2>5. ControlOK' /\ PreviewOK' /\ ExitOK' /\ PictureOK' /\ StreamOK'
    BY <1>4, SMTT(30) DEF RunCaptureThread
  <2> QED BY <2>3, <2>4, <2>5
<1>5. CASE SetCaptureInProgress
  <2>1. TypeOK'
    BY <1>5 DEF SetCaptureInProgress
  <2>2. Relations'
    BY <1>5, SMTT(30) DEF SetCaptureInProgress
  <2> QED BY <2>1, <2>2
<1>6. CASE LockAndStart
  <2>1. mPreviewRunning' \in BOOLEAN /\ mPreviewStartDeferred' \in BOOLEAN
    BY <1>6, Zenon DEF LockAndStart
  <2>2. TypeOK'
    BY <1>6, <2>1 DEF LockAndStart
  <2>3. Relations'
    BY <1>6, SMTT(30) DEF LockAndStart
  <2> QED BY <2>2, <2>3
<1>7. CASE LockAndStop
  <2>1. mPreviewRunning' \in BOOLEAN
    BY <1>7, Zenon DEF LockAndStop, MustAwait, StopPreviewInternal
  <2>2. TypeOK'
    BY <1>7, <2>1 DEF LockAndStop, MustAwait, StopPreviewInternal
  <2>3. Relations'
    BY <1>7, SMTT(30) DEF LockAndStop, MustAwait, StopPreviewInternal
  <2> QED BY <2>2, <2>3
<1>8. CASE LockAndChange
  <2>1. mPreviewRunning' \in BOOLEAN /\ mTarget' \in {"first", "second"}
    BY <1>8, Zenon DEF LockAndChange, MustAwait, StopPreviewInternal, NewTarget
  <2>2. TypeOK'
    BY <1>8, <2>1 DEF LockAndChange, MustAwait, StopPreviewInternal
  <2>3. Relations'
    BY <1>8, <2>1, SMTT(30) DEF LockAndChange, MustAwait, StopPreviewInternal
  <2> QED BY <2>2, <2>3
<1>9. CASE StopSeen
  <2>1. TypeOK'
    BY <1>9 DEF StopSeen
  <2>2. Relations'
    BY <1>9, SMTT(30) DEF StopSeen
  <2> QED BY <2>1, <2>2
<1>10. CASE ReleasePreviewHeap
  <2>1. TypeOK'
    BY <1>10 DEF ReleasePreviewHeap
  <2>2. Relations'
    BY <1>10, SMTT(30) DEF ReleasePreviewHeap
  <2> QED BY <2>1, <2>2
<1>11. CASE StartPreviewInternal
  <2>1. device' \in Devices /\ device'.open = device.open
    BY <1>11, StartedFacts DEF StartPreviewInternal
  <2>2. mPreviewStartDeferred' \in BOOLEAN
    BY <1>11, Zenon DEF StartPreviewInternal, HeapMissing, Granted
  <2>3. TypeOK'
    BY <1>11, <2>1, <2>2 DEF StartPreviewInternal, HeapMissing, Granted
  <2>4. Relations'
    BY <1>11, <2>1, SMTT(30) DEF StartPreviewInternal, HeapMissing, Granted
  <2> QED BY <2>3, <2>4
<1>12. CASE ExitPreview
  <2>1. TypeOK'
    BY <1>12 DEF ExitPreview
  <2>2. Relations'
    BY <1>12, SMTT(30) DEF ExitPreview
  <2> QED BY <2>1, <2>2
<1>13. CASE ExitAutoFocus
  <2>1. TypeOK'
    BY <1>13 DEF ExitAutoFocus
  <2>2. Relations'
    BY <1>13, SMTT(30) DEF ExitAutoFocus
  <2> QED BY <2>1, <2>2
<1>14. CASE FocusJoined
  <2>1. TypeOK'
    BY <1>14 DEF FocusJoined
  <2>2. Relations'
    BY <1>14, SMTT(30) DEF FocusJoined
  <2> QED BY <2>1, <2>2
<1>15. CASE CaptureJoined
  <2>1. mRawHeap' \in BOOLEAN /\ mRecordHeap' \in BOOLEAN /\ mPreviewHeap' \in Sizes \cup {NoHeap}
    BY <1>15, Zenon DEF CaptureJoined
  <2>2. device' \in Devices
    <3>1. CASE device' = device  BY <3>1
    <3>2. CASE device' = [open |-> FALSE, started |-> device.started, stream |-> "off"]
      BY <3>2 DEF Devices
    <3> QED BY <1>15, <3>1, <3>2 DEF CaptureJoined
  <2>3. TypeOK'
    BY <1>15, <2>1, <2>2 DEF CaptureJoined
  <2>4. Relations'
    BY <1>15, SMTT(30) DEF CaptureJoined
  <2> QED BY <2>3, <2>4
<1> QED BY <1>1, <1>2, <1>3, <1>4, <1>5, <1>6, <1>7, <1>8, <1>9,
           <1>10, <1>11, <1>12, <1>13, <1>14, <1>15 DEF ClientStep

\* Every step of a call that begins keeps the invariant.
LEMMA BeginKeeps ==
  ASSUME IInv, Careful, CallBegins PROVE IInv'
<1> USE CameraAssumption
<1> USE DEF IInv, Relations, TypeOK, ControlOK, CallAt, Stops, PreviewOK, ExitOK, PictureOK,
             HeapsOK, StreamOK, PictureKeepsStream, Awake, Shows, CaptureInside,
             Begins, Continues, Returns, Entry, Signalled, StoppedSignalled, NoHeap,
             Replacing, NoTarget, client, threads, switches, heaps, screen
<1>1. CASE Calls
  <2>1. TypeOK'
    BY <1>1 DEF Calls
  <2>2. Relations'
    BY <1>1, SMTT(30) DEF Calls
  <2> QED BY <2>1, <2>2
<1>2. CASE SetPreviewWindow
  <2>1. mPreviewWindow' \in BOOLEAN
    BY <1>2, Zenon DEF SetPreviewWindow
  <2>2. TypeOK'
    BY <1>2, <2>1 DEF SetPreviewWindow
  <2>3. Relations'
    BY <1>2, SMTT(30) DEF SetPreviewWindow
  <2> QED BY <2>2, <2>3
<1>3. CASE StartRecording
  <2>1. mRecordHeap' \in BOOLEAN /\ mRecordRunning' \in BOOLEAN
    BY <1>3, Zenon DEF StartRecording, Granted
  <2>2. TypeOK'
    BY <1>3, <2>1 DEF StartRecording, Granted
  <2>3. Relations'
    BY <1>3, SMTT(30) DEF StartRecording, Granted
  <2> QED BY <2>2, <2>3
<1>4. CASE StopRecording
  <2>1. mRecordHeap' \in BOOLEAN /\ mRecordRunning' \in BOOLEAN
    BY <1>4, Zenon DEF StopRecording
  <2>2. TypeOK'
    BY <1>4, <2>1 DEF StopRecording
  <2>3. Relations'
    BY <1>4, SMTT(30) DEF StopRecording
  <2> QED BY <2>2, <2>3
<1>5. CASE AutoFocus
  <2>1. TypeOK'
    BY <1>5 DEF AutoFocus
  <2>2. Relations'
    BY <1>5, SMTT(30) DEF AutoFocus
  <2> QED BY <2>1, <2>2
<1>6. CASE Release
  <2>1. TypeOK'
    BY <1>6 DEF Release
  <2>2. Relations'
    BY <1>6, SMTT(30) DEF Release
  <2> QED BY <2>1, <2>2
<1> QED BY <1>1, <1>2, <1>3, <1>4, <1>5, <1>6 DEF CallBegins

-----------------------------------------------------------------------------
(* The theorems.                                                           *)

\* The invariant holds initially.
LEMMA InitKeeps ==
  ASSUME Init, Settled PROVE IInv
<1> USE CameraAssumption DEF Init
<1>1. TypeOK
  <2>1. device \in Devices
    BY DEF Devices
  <2>2. /\ mPreviewRunning \in BOOLEAN /\ mPreviewStartDeferred \in BOOLEAN
        /\ mExitPreviewThread \in BOOLEAN /\ mExitAutoFocusThread \in BOOLEAN
        /\ mPreviewWindow \in BOOLEAN /\ mCaptureInProgress \in BOOLEAN /\ rawDenied \in BOOLEAN
        /\ mRawHeap \in BOOLEAN /\ mRecordRunning \in BOOLEAN /\ mRecordHeap \in BOOLEAN
    BY Zenon
  <2> QED BY <2>1, <2>2 DEF TypeOK, NoHeap, NoTarget, Entry
<1>2. Relations
  BY DEF Relations, ControlOK, CallAt, Stops, PreviewOK, ExitOK, PictureOK, HeapsOK, StreamOK,
         PictureKeepsStream, Awake, Shows, CaptureInside, NoHeap, NoTarget, Replacing
<1> QED BY <1>1, <1>2 DEF IInv

\* A step that changes nothing keeps it.
LEMMA StutterKeeps ==
  ASSUME IInv, UNCHANGED vars PROVE IInv'
BY SMTT(30) DEF IInv, Relations, TypeOK, ControlOK, CallAt, Stops, PreviewOK, ExitOK, PictureOK,
       HeapsOK, StreamOK, PictureKeepsStream, Awake, Shows, CaptureInside,
       vars, client, threads, switches, heaps, screen, Replacing

\* The inductive invariant.
THEOREM Invariance ==
  ASSUME Careful, Settled PROVE Spec => []IInv
<1>1. Init => IInv
  BY InitKeeps
<1>2. IInv /\ [Next]_vars => IInv'
  BY PreviewKeeps, CaptureKeeps, FocusKeeps, ClientKeeps, BeginKeeps, StutterKeeps DEF Next
<1> QED BY <1>1, <1>2, PTL DEF Spec

\* The variables stay within their types.
THEOREM TypeCorrect ==
  ASSUME Careful, Settled PROVE Spec => []TypeOK
<1>1. IInv => TypeOK
  BY DEF IInv
<1> QED BY <1>1, Invariance, PTL

\* One thread at a time is in NuCameraV4L2, which has no lock.
THEOREM OneInsideCorrect ==
  ASSUME Careful, Settled PROVE Spec => []OneInside
<1>1. IInv => OneInside
  BY DEF IInv, Relations, ControlOK, PreviewOK, ExitOK, PictureOK, CallAt, Awake,
         OneInside, PreviewInside, CaptureInside
<1> QED BY <1>1, Invariance, PTL

\* The renderer, the heaps and the stream that a thread uses are there, and fit.
THEOREM UsedIsThereCorrect ==
  ASSUME Careful, Settled PROVE Spec => []UsedIsThere
<1>1. IInv => UsedIsThere
  BY DEF IInv, Relations, TypeOK, ControlOK, CallAt, ExitOK, HeapsOK, StreamOK, Awake, Shows,
         UsedIsThere, CaptureInside
<1> QED BY <1>1, Invariance, PTL

-----------------------------------------------------------------------------
(* The refinement of CameraModes.                                          *)
\* A step of the preview thread begins or ends the preview, or no mode.
LEMMA PreviewModes ==
  ASSUME IInv, PreviewStep PROVE Modes!Next \/ mode' = mode
<1> USE DEF IInv, Relations, ControlOK, PreviewOK, ExitOK, PictureOK, CallAt, Awake, CaptureInside, mode,
            Modes!Next, Modes!Starts, Modes!Ends, client, threads, TypeOK
<1>1. ASSUME EnterLoop \/ GetPreviewFrame \/ SkipFrame \/ ShowFrame \/ FrameRendered
             \/ CopyFrame \/ RecordFrame
      PROVE  mode' = mode
  BY <1>1 DEF EnterLoop, GetPreviewFrame, SkipFrame, ShowFrame, FrameRendered, CopyFrame, RecordFrame
<1>2. CASE Sleep
  <2>1. device'.open = device.open  BY <1>2, StoppedFacts DEF Sleep
  <2> QED BY <1>2, <2>1 DEF Sleep
<1>3. CASE ExitOrGo
  <2>1. device'.open = device.open  BY <1>3, StoppedFacts DEF ExitOrGo
  <2> QED BY <1>3, <2>1 DEF ExitOrGo
<1>4. CASE ResetDevice
  <2>1. device'.open = device.open  BY <1>4, StoppedFacts, StartedFacts DEF ResetDevice
  <2> QED BY <1>4, <2>1 DEF ResetDevice
<1> QED BY <1>1, <1>2, <1>3, <1>4 DEF PreviewStep

\* A step of the capture thread ends the picture, or no mode.
LEMMA CaptureModes ==
  ASSUME IInv, CaptureStep PROVE Modes!Next \/ mode' = mode
<1> USE DEF IInv, Relations, ControlOK, PreviewOK, ExitOK, PictureOK, CallAt, Awake, CaptureInside, mode,
            Modes!Next, Modes!Starts, Modes!Ends, client, CaptureRest, TypeOK
<1>1. CASE SetSnapshotCmd
  <2>1. device'.open = device.open  BY <1>1, StoppedFacts, SnapshotBegunFacts DEF SetSnapshotCmd
  <2> QED BY <1>1, <2>1 DEF SetSnapshotCmd
<1>2. CASE EndSnapshot
  <2>1. device'.open = device.open  BY <1>2, SnapshotEndedFacts DEF EndSnapshot
  <2> QED BY <1>2, <2>1 DEF EndSnapshot
<1>3. CASE CaptureNeverRuns \/ JpegInit \/ GetSnapshotFrames \/ PictureCallbacks
           \/ ReleaseRawHeap \/ CaptureCompletes \/ CaptureExits
  BY <1>3 DEF CaptureNeverRuns, JpegInit, GetSnapshotFrames, PictureCallbacks, ReleaseRawHeap,
              CaptureCompletes, CaptureExits
<1> QED BY <1>1, <1>2, <1>3 DEF CaptureStep

\* A step of a call begins the preview or a picture, releases, or no mode.
LEMMA ClientModes ==
  ASSUME IInv, ClientStep PROVE Modes!Next \/ mode' = mode
<1> USE DEF IInv, Relations, ControlOK, PreviewOK, ExitOK, PictureOK, CallAt, Stops, Awake,
            CaptureInside, mode,
            Modes!Next, Modes!Starts, Modes!Ends, threads, Signalled, Returns, Continues, TypeOK
<1>1. CASE CaptureOver \/ TimesOut \/ SetSize \/ SetCaptureInProgress \/ LockAndStart
           \/ StopSeen \/ ReleasePreviewHeap \/ ExitAutoFocus \/ FocusJoined
  BY <1>1 DEF CaptureOver, TimesOut, SetSize, SetCaptureInProgress, LockAndStart,
              StopSeen, ReleasePreviewHeap, ExitAutoFocus, FocusJoined
<1>2. CASE RunCaptureThread
  BY <1>2 DEF RunCaptureThread
<1>3. CASE LockAndStop \/ LockAndChange
  BY <1>3 DEF LockAndStop, LockAndChange, StopPreviewInternal, MustAwait
<1>4. CASE StartPreviewInternal
  <2>1. device'.open = device.open  BY <1>4, StartedFacts DEF StartPreviewInternal
  <2> QED BY <1>4, <2>1 DEF StartPreviewInternal
<1>5. CASE ExitPreview
  BY <1>5 DEF ExitPreview
<1>6. CASE CaptureJoined
  BY <1>6 DEF CaptureJoined
<1> QED BY <1>1, <1>2, <1>3, <1>4, <1>5, <1>6 DEF ClientStep

\* Focusing, a call that begins and a stuttering step change no mode.
LEMMA OtherModes ==
  ASSUME FocusStep \/ CallBegins \/ UNCHANGED vars PROVE mode' = mode
<1> USE DEF mode, CaptureInside
<1>1. CASE FocusStep
  BY <1>1 DEF FocusStep, FocusEnters, FocusWakes, FocusNotifies, FocusRest
<1>2. CASE CallBegins
  BY <1>2 DEF CallBegins, Calls, SetPreviewWindow, StartRecording, StopRecording, AutoFocus,
              Release, threads
<1>3. CASE UNCHANGED vars
  BY <1>3 DEF vars, threads
<1> QED BY <1>1, <1>2, <1>3

\* Preview, pictures and the release exclude each other, and each begins only
\* when the other has ended.
THEOREM Refinement ==
  ASSUME Careful, Settled PROVE Spec => ImplementsModes
<1>1. Init => Modes!Init
  BY DEF Init, Modes!Init, mode, CaptureInside
<1>2. IInv /\ [Next]_vars => [Modes!Next]_mode
  BY PreviewModes, CaptureModes, ClientModes, OtherModes DEF Next
<1> QED BY <1>1, <1>2, Invariance, PTL DEF Spec, ImplementsModes, Modes!Spec

=============================================================================
