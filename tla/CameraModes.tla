---------------------------- MODULE CameraModes ----------------------------
(***************************************************************************)
(* What a camera device promises: the preview and a picture exclude each   *)
(* other, each begins only when the other has ended, and the device is     *)
(* released only when neither is going on, for good.                       *)
(***************************************************************************)
VARIABLE mode

Modes == {"off", "preview", "picture", "released"}

Init == mode = "off"

Starts(what) == mode = "off" /\ mode' = what
Ends(what)   == mode = what /\ mode' = "off"

Next ==
  \/ Starts("preview") \/ Ends("preview")
  \/ Starts("picture") \/ Ends("picture")
  \/ Starts("released")

Spec == Init /\ [][Next]_mode
=============================================================================
