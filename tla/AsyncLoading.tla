---------------------------- MODULE AsyncLoading ----------------------------
(***************************************************************************)
(* What asynchronous texture loading promises to the application, one      *)
(* phase per texture and no threads, queues, streams or flags.  Module     *)
(* TextureAsync implements it.                                             *)
(***************************************************************************)
CONSTANT Textures

VARIABLE phase

Phases == {"absent", "idle", "pending", "ready", "loaded"}

Init == phase = [t \in Textures |-> "absent"]

Move(t, from, to) ==
    /\ phase[t] \in from
    /\ phase' = [phase EXCEPT ![t] = to]

(* A texture object is created without anything loaded or requested, and   *)
(* it is deleted only when nothing of it is loaded or on its way.          *)
Create(t) == Move(t, {"absent"}, "idle")
Delete(t) == Move(t, {"idle"}, "absent")

(* The application asks for the image; it may still ask again for one that *)
(* it cancelled.                                                           *)
Request(t) == Move(t, {"idle"}, "pending")

(* The image arrives, or turns out not to be readable.                     *)
Deliver(t) == Move(t, {"pending"}, "ready")
Fail(t)    == Move(t, {"pending"}, "idle")

(* The image is uploaded: the one that was delivered, or one loaded        *)
(* synchronously; an upload the graphics device refuses drops the image.   *)
Upload(t)       == Move(t, {"ready", "idle"}, "loaded")
UploadFailed(t) == Move(t, {"ready"}, "idle")

(* Unloading gives up whatever is requested, delivered or loaded.          *)
Unload(t) == Move(t, {"pending", "ready", "loaded"}, "idle")

Next == \E t \in Textures :
    \/ Create(t) \/ Delete(t) \/ Request(t) \/ Deliver(t) \/ Fail(t)
    \/ Upload(t) \/ UploadFailed(t) \/ Unload(t)

Spec == Init /\ [][Next]_phase
=============================================================================
