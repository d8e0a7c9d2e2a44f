------------------------ MODULE DeviceSystems_proofs ------------------------
(***************************************************************************)
(* Theorems about the systems that can take a device, a context or the     *)
(* focus away: DirectX 9 and Android for themselves, and all of them in    *)
(* their places in DeviceSystems, where the theorems of GLState and        *)
(* MacWindow hold again.                                                   *)
(***************************************************************************)
EXTENDS DeviceSystems, GLState_proofs, MacWindow_proofs, TLAPS

-----------------------------------------------------------------------------
(* DirectX 9.                                                              *)

(* Only a device set up anew is there again, so that what was sent to one  *)
(* that is there has arrived; the back buffer is released for a loss and   *)
(* for nothing else; and what is held during one was loaded during it.     *)
DX9Inv ==
    /\ DX9TypeOK
    /\ phase = "running" => backBuffer
    /\ phase = "lost" =>
        /\ ~backBuffer /\ cooperative # "ok"
        /\ held # {} => "loaded while lost" \in met
    /\ failure = "invalid call" => phase = "ended" /\ "loaded while lost" \in met
    /\ device.fullscreen = asked.fullscreen \/ "mode" \in met
    /\ cooperative = "ok" => (scene \/ "no scene" \in met) /\ DrawsWithAsked

LEMMA StartValues == WindowView \in Views /\ StartMatrix \in OtherMatrices
BY DX9Assumption DEF WindowView, StartMatrix

LEMMA DX9InvInit == DX9Init => DX9Inv
PROOF
<1> SUFFICES ASSUME DX9Init PROVE DX9Inv
  OBVIOUS
<1>1. /\ phase = "running" /\ cooperative = "ok" /\ backBuffer = TRUE /\ scene = TRUE
      /\ held = {} /\ renderTarget = NoTarget /\ failure = "none" /\ met = {"depth buffer"}
      /\ ortho = WindowView
  BY DEF DX9Init
<1>2. /\ asked \in [viewport : {WindowView}, modelview : {StartMatrix}, projection : {StartMatrix},
                   depth : {FALSE}, blending : {"default"}, fullscreen : {FALSE}, resizable : BOOLEAN]
      /\ device = [target |-> NoTarget, viewport |-> WindowView, modelview |-> StartMatrix,
                  projection |-> StartMatrix, depth |-> TRUE, blending |-> "default", fullscreen |-> FALSE]
  BY DEF DX9Init
<1>3. asked \in AskedState /\ device \in DeviceState
  BY <1>2, StartValues DEF AskedState, DeviceState, Matrices9, Blendings
<1>4. DX9TypeOK
  BY <1>1, <1>3, StartValues DEF DX9TypeOK, Defects
<1>5. DrawsWithAsked /\ device.fullscreen = asked.fullscreen
  BY <1>1, <1>2 DEF DrawsWithAsked
<1> QED
  BY <1>1, <1>4, <1>5 DEF DX9Inv

(* A device that was set up anew differs from what is asked of it by       *)
(* nothing but what is noted, and there by what the device starts with.    *)
LEMMA RestoredIs ==
    ASSUME DX9TypeOK, NEW mode \in BOOLEAN, asked' \in AskedState, Restored(mode, asked'),
           UNCHANGED <<renderTarget, ortho>>
    PROVE  /\ cooperative' = "ok" /\ backBuffer' = TRUE /\ scene' = TRUE
           /\ device' \in DeviceState /\ met' \subseteq Defects
           /\ DrawsWithAsked'
           /\ device'.fullscreen = asked'.fullscreen \/ "mode" \in met'
PROOF
<1>1. /\ device' = [target |-> NoTarget, viewport |-> asked'.viewport, modelview |-> asked'.modelview,
                    projection |-> ortho, depth |-> TRUE, blending |-> "default", fullscreen |-> mode]
      /\ cooperative' = "ok" /\ backBuffer' = TRUE /\ scene' = TRUE
      /\ met' = Forgotten(mode, asked')
  BY DEF Restored, SetUpAnew
<1>2. /\ met' \subseteq Defects
      /\ asked'.depth \/ "depth buffer" \in met'
      /\ asked'.projection = ortho \/ "projection" \in met'
      /\ asked'.blending = "default" \/ "blending" \in met'
      /\ renderTarget = NoTarget \/ "forgotten target" \in met'
      /\ mode = asked'.fullscreen \/ "mode" \in met'
  BY <1>1 DEF Forgotten, Defects
<1>3. device' \in DeviceState
  BY <1>1 DEF DX9TypeOK, AskedState, DeviceState, Matrices9, Blendings
<1>4. asked'.depth \in BOOLEAN
  BY DEF AskedState
<1>5. DrawsWithAsked'
  BY <1>1, <1>2, <1>4 DEF DrawsWithAsked
<1> QED
  BY <1>1, <1>2, <1>3, <1>5

(* A call that sends one value: it settles what was known to be wrong of   *)
(* that value, and leaves the frames and the losses alone.                 *)
LEMMA SetterKeeps ==
    ASSUME DX9Inv, UNCHANGED <<phase, failure, cooperative, backBuffer, held, scene, renderTarget>>,
           asked' \in AskedState, ortho' \in Views, device' \in DeviceState,
           device'.fullscreen = device.fullscreen, asked'.fullscreen = asked.fullscreen,
           NEW settled \in {"viewport", "projection", "depth buffer", "blending", "none"},
           met' = met \ {settled}, cooperative = "ok" => DrawsWithAsked'
    PROVE  DX9Inv'
PROOF
<1>1. met' \subseteq Defects /\ \A what \in {"loaded while lost", "no scene", "mode"} : what \in met => what \in met'
  BY DEF DX9Inv, DX9TypeOK
<1>2. backBuffer' \in BOOLEAN /\ scene' \in BOOLEAN
  BY DEF DX9Inv, DX9TypeOK
<1>3. DX9TypeOK'
  BY <1>1, <1>2 DEF DX9Inv, DX9TypeOK
<1> QED
  BY <1>1, <1>3 DEF DX9Inv

LEMMA SettersKeepDX9Inv ==
    ASSUME DX9Inv, DX9Matrices \/ DX9Settings
    PROVE  DX9Inv'
PROOF
<1>0. asked \in AskedState /\ device \in DeviceState /\ ortho \in Views
  BY DEF DX9Inv, DX9TypeOK
<1>1. ASSUME NEW v \in Views, SetViewport(v) PROVE DX9Inv'
  <2>1. /\ asked' = [asked EXCEPT !.viewport = v] /\ met' = met \ {"viewport"} /\ ortho' = ortho
        /\ device' = IF cooperative = "ok" THEN [device EXCEPT !.viewport = v] ELSE device
        /\ UNCHANGED <<phase, failure, cooperative, backBuffer, held, scene, renderTarget>>
    BY <1>1 DEF SetViewport, GoOn, Sent
  <2>2. asked' \in AskedState /\ asked'.fullscreen = asked.fullscreen
    BY <1>0, <2>1 DEF AskedState
  <2>3. device' \in DeviceState /\ device'.fullscreen = device.fullscreen
    BY <1>0, <2>1 DEF DeviceState
  <2>4. cooperative = "ok" => DrawsWithAsked'
    BY <1>0, <2>1 DEF DX9Inv, DrawsWithAsked, AskedState, DeviceState
  <2> QED
    BY <1>0, <2>1, <2>2, <2>3, <2>4, SetterKeeps
<1>2. ASSUME NEW m \in OtherMatrices, SetModelview(m) PROVE DX9Inv'
  <2>1. /\ asked' = [asked EXCEPT !.modelview = m] /\ met' = met \ {"none"} /\ ortho' = ortho
        /\ device' = IF cooperative = "ok" THEN [device EXCEPT !.modelview = m] ELSE device
        /\ UNCHANGED <<phase, failure, cooperative, backBuffer, held, scene, renderTarget>>
    BY <1>2 DEF SetModelview, GoOn, Sent, DX9Inv, DX9TypeOK, Defects
  <2>2. asked' \in AskedState /\ asked'.fullscreen = asked.fullscreen
    BY <1>0, <2>1 DEF AskedState
  <2>3. device' \in DeviceState /\ device'.fullscreen = device.fullscreen
    BY <1>0, <2>1 DEF DeviceState
  <2>4. cooperative = "ok" => DrawsWithAsked'
    BY <1>0, <2>1 DEF DX9Inv, DrawsWithAsked, AskedState, DeviceState
  <2> QED
    BY <1>0, <2>1, <2>2, <2>3, <2>4, SetterKeeps
<1>3. ASSUME NEW m \in Matrices9, SetsProjection(m), ortho' \in Views PROVE DX9Inv'
  <2>1. /\ asked' = [asked EXCEPT !.projection = m] /\ met' = met \ {"projection"}
        /\ device' = IF cooperative = "ok" THEN [device EXCEPT !.projection = m] ELSE device
        /\ UNCHANGED <<phase, failure, cooperative, backBuffer, held, scene, renderTarget>>
    BY <1>3 DEF SetsProjection, GoOn, Sent
  <2>2. asked' \in AskedState /\ asked'.fullscreen = asked.fullscreen
    BY <1>0, <2>1 DEF AskedState
  <2>3. device' \in DeviceState /\ device'.fullscreen = device.fullscreen
    BY <1>0, <2>1 DEF DeviceState
  <2>4. cooperative = "ok" => DrawsWithAsked'
    BY <1>0, <2>1 DEF DX9Inv, DrawsWithAsked, AskedState, DeviceState
  <2> QED
    BY <1>3, <2>1, <2>2, <2>3, <2>4, SetterKeeps
<1>4. CASE \E v \in Views, m \in Matrices9 : SetOrthoProjection(v, m)
  BY <1>3, <1>4 DEF SetOrthoProjection
<1>5. CASE \E m \in Matrices9 : SetProjectionMatrix(m)
  BY <1>0, <1>3, <1>5 DEF SetProjectionMatrix
<1>6. ASSUME NEW on \in BOOLEAN, SetDepth(on) PROVE DX9Inv'
  <2>1. /\ asked' = [asked EXCEPT !.depth = on] /\ met' = met \ {"depth buffer"} /\ ortho' = ortho
        /\ device' = IF cooperative = "ok" THEN [device EXCEPT !.depth = on] ELSE device
        /\ UNCHANGED <<phase, failure, cooperative, backBuffer, held, scene, renderTarget>>
    BY <1>6 DEF SetDepth, GoOn, Sent
  <2>2. asked' \in AskedState /\ asked'.fullscreen = asked.fullscreen
    BY <1>0, <2>1 DEF AskedState
  <2>3. device' \in DeviceState /\ device'.fullscreen = device.fullscreen
    BY <1>0, <2>1 DEF DeviceState
  <2>4. cooperative = "ok" => DrawsWithAsked'
    BY <1>0, <2>1 DEF DX9Inv, DrawsWithAsked, AskedState, DeviceState
  <2> QED
    BY <1>0, <2>1, <2>2, <2>3, <2>4, SetterKeeps
<1>7. ASSUME NEW b \in Blendings, SetBlending(b) PROVE DX9Inv'
  <2>1. /\ asked' = [asked EXCEPT !.blending = b] /\ met' = met \ {"blending"} /\ ortho' = ortho
        /\ device' = IF cooperative = "ok" THEN [device EXCEPT !.blending = b] ELSE device
        /\ UNCHANGED <<phase, failure, cooperative, backBuffer, held, scene, renderTarget>>
    BY <1>7 DEF SetBlending, GoOn, Sent
  <2>2. asked' \in AskedState /\ asked'.fullscreen = asked.fullscreen
    BY <1>0, <2>1 DEF AskedState
  <2>3. device' \in DeviceState /\ device'.fullscreen = device.fullscreen
    BY <1>0, <2>1 DEF DeviceState
  <2>4. cooperative = "ok" => DrawsWithAsked'
    BY <1>0, <2>1 DEF DX9Inv, DrawsWithAsked, AskedState, DeviceState
  <2> QED
    BY <1>0, <2>1, <2>2, <2>3, <2>4, SetterKeeps
<1> QED
  BY <1>1, <1>2, <1>4, <1>5, <1>6, <1>7 DEF DX9Matrices, DX9Settings

LEMMA DX9TypeKept ==
    ASSUME DX9TypeOK, UNCHANGED <<cooperative, backBuffer, scene, renderTarget, asked, ortho, device>>,
           phase' \in {"running", "lost", "ended"}, held' \subseteq Targets,
           failure' \in {"none", "invalid call", "texture without surface", "no back buffer", "closed"},
           met' \subseteq Defects
    PROVE  DX9TypeOK'
PROOF
<1>1. backBuffer' \in BOOLEAN /\ scene' \in BOOLEAN
  BY DEF DX9TypeOK
<1>2. /\ cooperative' \in {"ok", "lost", "not reset"}
      /\ renderTarget' \in Targets \cup {NoTarget}
      /\ asked' \in AskedState /\ ortho' \in Views /\ device' \in DeviceState
  BY DEF DX9TypeOK
<1> QED
  BY <1>1, <1>2 DEF DX9TypeOK

(* Steps that leave what the device draws with and what is asked alone.    *)
LEMMA DrawsAlike ==
    ASSUME UNCHANGED <<renderTarget, asked, ortho, device>>, DrawsWithAsked,
           \A what \in {"viewport", "projection", "depth buffer", "blending", "forgotten target"} :
               what \in met => what \in met'
    PROVE  DrawsWithAsked'
BY DEF DrawsWithAsked

(* The program ends in a state, or goes on with it.                        *)
LEMMA EndingKeepsDX9Inv ==
    ASSUME DX9Inv, UNCHANGED <<cooperative, backBuffer, held, scene, renderTarget, asked, ortho, device, met>>,
           NEW why \in {"texture without surface", "no back buffer", "closed"}, End(why) \/ GoOn
    PROVE  DX9Inv'
PROOF
<1>1. /\ phase' \in {phase, "ended"} /\ failure' \in {failure, why}
      /\ phase' = phase \/ phase' = "ended"
      /\ failure' = "invalid call" => phase' = phase /\ failure = "invalid call"
  BY DEF End, GoOn
<1>2. DX9TypeOK'
  <2>1. /\ phase' \in {"running", "lost", "ended"} /\ held' \subseteq Targets /\ met' \subseteq Defects
        /\ failure' \in {"none", "invalid call", "texture without surface", "no back buffer", "closed"}
    BY <1>1 DEF DX9Inv, DX9TypeOK
  <2> QED
    BY <2>1, DX9TypeKept DEF DX9Inv
<1>3. cooperative = "ok" => DrawsWithAsked'
  BY DrawsAlike DEF DX9Inv
<1> QED
  BY <1>1, <1>2, <1>3 DEF DX9Inv

LEMMA TargetsKeepDX9Inv ==
    ASSUME DX9Inv, DX9Targets
    PROVE  DX9Inv'
PROOF
<1>0. DX9TypeOK
  BY DEF DX9Inv
<1>1. ASSUME NEW t \in Targets, LoadTexture(t) PROVE DX9Inv'
  <2>1. /\ held' = held \cup {t}
        /\ met' = IF phase = "lost" THEN met \cup {"loaded while lost"} ELSE met
        /\ UNCHANGED <<phase, failure, cooperative, backBuffer, scene, renderTarget, asked, ortho, device>>
    BY <1>1 DEF LoadTexture, GoOn
  <2>2. held' \subseteq Targets /\ met' \subseteq Defects
    BY <1>0, <2>1 DEF DX9TypeOK, Defects
  <2>3. DX9TypeOK'
    <3>1. /\ phase' \in {"running", "lost", "ended"}
          /\ failure' \in {"none", "invalid call", "texture without surface", "no back buffer", "closed"}
      BY <1>0, <2>1 DEF DX9TypeOK
    <3> QED
      BY <1>0, <2>1, <2>2, <3>1, DX9TypeKept
  <2>4. cooperative = "ok" => DrawsWithAsked'
    BY <2>1, DrawsAlike DEF DX9Inv
  <2> QED
    BY <2>1, <2>3, <2>4 DEF DX9Inv
<1>2. ASSUME NEW t \in Targets, UnloadTexture(t) PROVE DX9Inv'
  <2>1. /\ held' = held \ {t}
        /\ UNCHANGED <<phase, failure, cooperative, backBuffer, scene, renderTarget, asked, ortho, device, met>>
    BY <1>2 DEF UnloadTexture, GoOn
  <2>2. DX9TypeOK'
    <3>1. /\ held' \subseteq Targets /\ met' \subseteq Defects /\ phase' \in {"running", "lost", "ended"}
          /\ failure' \in {"none", "invalid call", "texture without surface", "no back buffer", "closed"}
      BY <1>0, <2>1 DEF DX9TypeOK
    <3> QED
      BY <1>0, <2>1, <3>1, DX9TypeKept
  <2>3. cooperative = "ok" => DrawsWithAsked'
    BY <2>1, DrawsAlike DEF DX9Inv
  <2> QED
    BY <2>1, <2>2, <2>3 DEF DX9Inv
<1>3. ASSUME NEW t \in Targets \cup {NoTarget}, SetRenderTarget(t) PROVE DX9Inv'
  <2>1. /\ renderTarget' = t
        /\ device' = IF cooperative = "ok"
                     THEN [device EXCEPT !.target = t, !.viewport = WholeTarget] ELSE device
        /\ scene' = ((scene /\ renderTarget = NoTarget) \/ t # NoTarget)
        /\ met' = {"viewport"} \cup (IF t # NoTarget THEN met \ {"no scene", "forgotten target"}
                                     ELSE IF renderTarget # NoTarget
                                          THEN (met \ {"forgotten target"}) \cup {"no scene"}
                                     ELSE met)
        /\ UNCHANGED <<phase, failure, cooperative, backBuffer, held, asked, ortho>>
    BY <1>3 DEF SetRenderTarget, GoOn
  <2>2. device' \in DeviceState /\ device'.fullscreen = device.fullscreen
    BY <1>0, <2>1 DEF DX9TypeOK, DeviceState
  <2>3. scene' \in BOOLEAN
    BY <2>1
  <2>4. /\ met' \subseteq Defects /\ "viewport" \in met'
        /\ \A what \in met \ {"no scene", "forgotten target"} : what \in met'
    BY <1>0, <2>1 DEF DX9TypeOK, Defects
  <2>5. DX9TypeOK'
    BY <1>0, <2>1, <2>2, <2>3, <2>4 DEF DX9TypeOK
  <2>6. cooperative = "ok" => scene' \/ "no scene" \in met'
    BY <2>1 DEF DX9Inv
  <2>7. cooperative = "ok" => DrawsWithAsked'
    BY <1>0, <2>1, <2>4 DEF DX9Inv, DX9TypeOK, DeviceState, DrawsWithAsked
  <2> QED
    BY <2>1, <2>2, <2>4, <2>5, <2>6, <2>7 DEF DX9Inv
<1>4. CASE \E t \in Targets : TargetWithoutSurface(t)
  BY <1>4, EndingKeepsDX9Inv DEF TargetWithoutSurface
<1>5. CASE TakeScreenshot
  BY <1>5, EndingKeepsDX9Inv DEF TakeScreenshot
<1> QED
  BY <1>1, <1>2, <1>3, <1>4, <1>5 DEF DX9Targets

LEMMA FramesKeepDX9Inv ==
    ASSUME DX9Inv, DX9Frames
    PROVE  DX9Inv'
PROOF
<1>0. DX9TypeOK
  BY DEF DX9Inv
<1>1. CASE PresentFrame
  <2>1. /\ scene' = TRUE /\ met' = met \ {"no scene"} /\ phase = "running"
        /\ UNCHANGED <<phase, failure, cooperative, backBuffer, held, renderTarget, asked, ortho, device>>
    BY <1>1 DEF PresentFrame, GoOn
  <2>2. DX9TypeOK'
    BY <1>0, <2>1 DEF DX9TypeOK
  <2>3. cooperative = "ok" => DrawsWithAsked'
    BY <2>1, DrawsAlike DEF DX9Inv
  <2> QED
    BY <2>1, <2>2, <2>3 DEF DX9Inv
<1>2. CASE PresentLost
  <2>1. /\ phase = "running" /\ cooperative # "ok" /\ phase' = "lost"
        /\ held' = {} /\ backBuffer' = FALSE /\ scene' = FALSE
        /\ UNCHANGED <<cooperative, renderTarget, asked, ortho, device, failure, met>>
    BY <1>2 DEF PresentLost
  <2>2. DX9TypeOK'
    BY <1>0, <2>1 DEF DX9TypeOK
  <2> QED
    BY <2>1, <2>2 DEF DX9Inv
<1>3. CASE RestoreDevice
  <2>1. CASE held # {}
    <3>1. phase = "lost" /\ End("invalid call")
          /\ UNCHANGED <<held, renderTarget, asked, ortho, cooperative, device, backBuffer, scene, met>>
      BY <1>3, <2>1 DEF RestoreDevice
    <3>2. DX9TypeOK'
      BY <1>0, <3>1 DEF DX9TypeOK, End
    <3> QED
      BY <2>1, <3>1, <3>2 DEF DX9Inv, End
  <2>2. CASE held = {}
    <3>1. /\ phase = "lost" /\ phase' = "running" /\ Restored(device.fullscreen, asked')
          /\ UNCHANGED <<failure, held, renderTarget, asked, ortho>>
      BY <1>3, <2>2 DEF RestoreDevice
    <3>2. device.fullscreen \in BOOLEAN /\ asked' \in AskedState
      BY <1>0, <3>1 DEF DX9TypeOK, DeviceState
    <3>3. /\ cooperative' = "ok" /\ backBuffer' = TRUE /\ scene' = TRUE
          /\ device' \in DeviceState /\ met' \subseteq Defects
          /\ DrawsWithAsked'
          /\ device'.fullscreen = asked'.fullscreen \/ "mode" \in met'
      BY <1>0, <3>1, <3>2, RestoredIs
    <3>4. DX9TypeOK'
      BY <1>0, <3>1, <3>2, <3>3 DEF DX9TypeOK
    <3>5. failure # "invalid call"
      BY <3>1 DEF DX9Inv
    <3> QED
      BY <3>1, <3>3, <3>4, <3>5 DEF DX9Inv
  <2> QED
    BY <2>1, <2>2
<1>4. CASE NestedFrame
  BY <1>4, EndingKeepsDX9Inv DEF NestedFrame
<1>5. CASE CloseWhileLost
  BY <1>5, EndingKeepsDX9Inv DEF CloseWhileLost
<1>6. ASSUME NEW v \in Views, NEW full \in BOOLEAN, SetMode(v, full) PROVE DX9Inv'
  <2> DEFINE view == IF asked.resizable THEN v ELSE asked.viewport
  <2>1. phase # "ended" /\ UNCHANGED <<phase, failure, renderTarget, ortho>>
    BY <1>6 DEF SetMode, Calls, GoOn
  <2>2. CASE /\ ~backBuffer
             /\ asked' = [asked EXCEPT !.fullscreen = full]
             /\ met' = IF full = device.fullscreen THEN met \ {"mode"} ELSE met \cup {"mode"}
             /\ UNCHANGED <<cooperative, backBuffer, held, scene, device>>
    <3>1. asked' \in AskedState /\ asked'.fullscreen = full
      BY <1>0, <2>2 DEF DX9TypeOK, AskedState
    <3>2. /\ met' \subseteq Defects
          /\ \A what \in met \ {"mode"} : what \in met'
          /\ full = device.fullscreen \/ "mode" \in met'
      BY <1>0, <2>2 DEF DX9TypeOK, Defects
    <3>3. DX9TypeOK'
      BY <1>0, <2>1, <2>2, <3>1, <3>2 DEF DX9TypeOK
    <3>4. cooperative = "ok" => DrawsWithAsked'
      BY <1>0, <2>1, <2>2, <3>2 DEF DX9Inv, DX9TypeOK, AskedState, DrawsWithAsked
    <3> QED
      BY <2>1, <2>2, <3>1, <3>2, <3>3, <3>4 DEF DX9Inv
  <2>3. CASE /\ backBuffer
             /\ asked' = [asked EXCEPT !.viewport = view, !.fullscreen = full]
             /\ held' = {} /\ Restored(full, asked')
    <3>1. asked' \in AskedState
      BY <1>0, <2>3 DEF DX9TypeOK, AskedState
    <3>2. /\ cooperative' = "ok" /\ backBuffer' = TRUE /\ scene' = TRUE
          /\ device' \in DeviceState /\ met' \subseteq Defects
          /\ DrawsWithAsked'
          /\ device'.fullscreen = asked'.fullscreen \/ "mode" \in met'
      BY <1>0, <2>1, <2>3, <3>1, RestoredIs
    <3>3. DX9TypeOK'
      BY <1>0, <2>1, <2>3, <3>1, <3>2 DEF DX9TypeOK
    <3>4. phase = "running" /\ failure # "invalid call"
      BY <1>0, <2>1, <2>3 DEF DX9Inv, DX9TypeOK
    <3> QED
      BY <2>1, <3>2, <3>3, <3>4 DEF DX9Inv
  <2>4. CASE /\ backBuffer /\ full = device.fullscreen
             /\ asked' = [asked EXCEPT !.viewport = v, !.fullscreen = full]
             /\ device' = Sent("viewport", v) /\ met' = met \ {"viewport", "mode"}
             /\ UNCHANGED <<cooperative, backBuffer, held, scene>>
    <3>1. asked' \in AskedState /\ asked'.fullscreen = full
      BY <1>0, <2>4 DEF DX9TypeOK, AskedState
    <3>2. device' = IF cooperative = "ok" THEN [device EXCEPT !.viewport = v] ELSE device
      BY <2>4 DEF Sent
    <3>3. device' \in DeviceState /\ device'.fullscreen = full
      BY <1>0, <2>4, <3>2 DEF DX9TypeOK, DeviceState
    <3>4. /\ met' \subseteq Defects
          /\ \A what \in met \ {"viewport", "mode"} : what \in met'
      BY <1>0, <2>4 DEF DX9TypeOK
    <3>5. DX9TypeOK'
      BY <1>0, <2>1, <2>4, <3>1, <3>3, <3>4 DEF DX9TypeOK
    <3>6. cooperative = "ok" => DrawsWithAsked'
      BY <1>0, <2>1, <2>4, <3>2, <3>4 DEF DX9Inv, DX9TypeOK, AskedState, DeviceState, DrawsWithAsked
    <3> QED
      BY <2>1, <2>4, <3>1, <3>3, <3>4, <3>5, <3>6 DEF DX9Inv
  <2> QED
    BY <1>6, <2>2, <2>3, <2>4 DEF SetMode
<1>7. CASE Cooperate
  <2>1. /\ cooperative' \in {"lost", "not reset"}
        /\ UNCHANGED <<phase, backBuffer, held, scene, renderTarget, asked, ortho, device, failure, met>>
    BY <1>7 DEF Cooperate
  <2>2. backBuffer' \in BOOLEAN /\ scene' \in BOOLEAN
    BY <1>0, <2>1 DEF DX9TypeOK
  <2>3. DX9TypeOK'
    BY <1>0, <2>1, <2>2 DEF DX9TypeOK
  <2> QED
    BY <2>1, <2>3 DEF DX9Inv
<1> QED
  BY <1>1, <1>2, <1>3, <1>4, <1>5, <1>6, <1>7 DEF DX9Frames

LEMMA DX9InvStep == DX9Inv /\ [DX9Next]_dx9Vars => DX9Inv'
PROOF
<1>1. ASSUME DX9Inv, UNCHANGED dx9Vars PROVE DX9Inv'
  BY <1>1, EndingKeepsDX9Inv DEF dx9Vars, GoOn
<1> QED
  BY <1>1, SettersKeepDX9Inv, TargetsKeepDX9Inv, FramesKeepDX9Inv DEF DX9Next

(* The invariant of the DirectX 9 device, for any targets, rectangles and  *)
(* matrices.                                                               *)
THEOREM DX9Invariant == DX9Spec => []DX9Inv
PROOF
<1> QED
  BY DX9InvInit, DX9InvStep, PTL DEF DX9Spec

(* However often the device was lost and reset between the application's   *)
(* calls, a device that is there has the viewport, matrices, depth test,   *)
(* modes and target asked for, and a scene and a back buffer to draw to,   *)
(* but for the known defects, of which it says what they leave             *)
(* (presentFrame() and reset() of DirectX9_RenderSystem.cpp): for any      *)
(* targets, rectangles and matrices.                                       *)
THEOREM DX9DeviceAsAsked == DX9Spec => []DeviceAsAsked
PROOF
<1>1. DX9Inv => DeviceAsAsked
  BY DEF DX9Inv, DeviceAsAsked
<1> QED
  BY <1>1, DX9Invariant, PTL

(* Reset() ends the program only over a texture that the application       *)
(* loaded while the device was lost.                                       *)
THEOREM DX9ResetsHoldNothing == DX9Spec => []ResetsHoldNothing
PROOF
<1>1. DX9Inv => ResetsHoldNothing
  BY DEF DX9Inv, ResetsHoldNothing
<1> QED
  BY <1>1, DX9Invariant, PTL

-----------------------------------------------------------------------------
(* Android.                                                                *)

Present(a) == activity[a] \in {"paused", "resumed", "finishing"}
There(a)   == Present(a) \/ activity[a] = "destroying"
Single     == "two activities" \notin known

AndroidTypes ==
    /\ AndroidTypeOK
    /\ queue \in [Activities -> Seq({"resume", "pause", "focus gained", "focus lost"})]

(* Until an activity is launched beside another one, the library's life is *)
(* that of the one activity there is, whose thread is the one that is      *)
(* called.                                                                 *)
OneActivity ==
    Single =>
        /\ \A a, b \in Activities : There(a) /\ There(b) => a = b
        /\ \A a \in Activities : IF There(a) THEN aprilActivity = {a} ELSE queue[a] = <<>>
        /\ library = "alive" => \E a \in Activities : Present(a)
        /\ library = "destroying" => \E a \in Activities : activity[a] = "destroying"

(* Loaded textures are those of the context that draws, or a pause waits   *)
(* to unload them.                                                         *)
Holds(q, call) == \E i \in 1..Len(q) : q[i] = call
TexturesUnloadedInTime ==
    /\ library = "none" => textures = 0
    /\ Single /\ "context lost" \notin known /\ library = "alive" /\ textures # 0 =>
        \A a \in Activities : Present(a) => context[a] = textures \/ Holds(queue[a], "pause")

(* The calls that wait: the last change of focus is to the focus the       *)
(* window has; after every pause comes a resume if the activity is         *)
(* resumed, and else a pause after every resume and every gain of focus.   *)
QueuedCalls == {"resume", "pause", "focus gained", "focus lost"}
FocusCall(call) == call \in {"focus gained", "focus lost"}
NoFocusCall(q) == \A i \in 1..Len(q) : ~FocusCall(q[i])
LastFocusCallIs(q, on) ==
    \A i \in 1..Len(q) :
        FocusCall(q[i]) /\ (\A j \in (i + 1)..Len(q) : ~FocusCall(q[j])) => (q[i] = "focus gained" <=> on)
EachFollowedBy(q, calls, call) ==
    \A i \in 1..Len(q) : q[i] \in calls => \E j \in (i + 1)..Len(q) : q[j] = call
Gains == {"resume", "focus gained"}
QueueInOrder(a) ==
    /\ LastFocusCallIs(queue[a], windowFocus[a])
    /\ IF activity[a] = "resumed" THEN EachFollowedBy(queue[a], {"pause"}, "resume")
                                  ELSE EachFollowedBy(queue[a], Gains, "pause")

(* The focus the library has, or will have back, is the window's unless a  *)
(* change of focus waits.                                                  *)
FocusInOrder(a) ==
    /\ "focus assumed" \notin known /\ NoFocusCall(queue[a]) =>
        (focused \/ forcedFocus <=> windowFocus[a])
    /\ activity[a] = "resumed" /\ forcedFocus => Holds(queue[a], "resume")
    /\ activity[a] # "resumed" /\ focused => Holds(queue[a], "pause")

FocusOnItsWay ==
    Single => \A a \in Activities :
        Present(a) => QueueInOrder(a) /\ (library = "alive" => FocusInOrder(a))

AndroidInv ==
    /\ AndroidTypes /\ OneActivity /\ NoFrameWhileDestroyed
    /\ TexturesUnloadedInTime /\ FocusOnItsWay

(* The calls that wait, with one more.                                     *)
LEMMA CallAppended ==
    ASSUME NEW q \in Seq(QueuedCalls), NEW call \in QueuedCalls
    PROVE  LET r == Append(q, call) IN
           /\ r \in Seq(QueuedCalls) /\ r # <<>>
           /\ Holds(r, call) /\ \A other : Holds(q, other) => Holds(r, other)
           /\ NoFocusCall(r) => NoFocusCall(q) /\ ~FocusCall(call)
           /\ \A on : LastFocusCallIs(q, on) /\ ~FocusCall(call) => LastFocusCallIs(r, on)
           /\ FocusCall(call) => LastFocusCallIs(r, call = "focus gained")
           /\ \A calls : call \notin calls => EachFollowedBy(r, calls, call)
           /\ \A calls, other : call \notin calls /\ EachFollowedBy(q, calls, other)
                => EachFollowedBy(r, calls, other)
PROOF
<1> DEFINE r == Append(q, call)
<1>1. /\ r \in Seq(QueuedCalls) /\ r # <<>> /\ Len(r) = Len(q) + 1
      /\ \A i \in 1..Len(q) : r[i] = q[i]
      /\ r[Len(q) + 1] = call /\ Len(q) \in Nat
  BY AppendProperties, LenProperties
<1> HIDE DEF r
<1>2. 1..Len(r) = 1..Len(q) \cup {Len(q) + 1} /\ Len(r) \in 1..Len(r)
  BY <1>1
<1>3. Holds(r, call) /\ \A other : Holds(q, other) => Holds(r, other)
  BY <1>1, <1>2 DEF Holds
<1>4. NoFocusCall(r) => NoFocusCall(q) /\ ~FocusCall(call)
  BY <1>1, <1>2 DEF NoFocusCall
<1>5. ASSUME NEW on, LastFocusCallIs(q, on), ~FocusCall(call)
      PROVE  LastFocusCallIs(r, on)
  <2>1. ASSUME NEW i \in 1..Len(r), FocusCall(r[i]), \A j \in (i + 1)..Len(r) : ~FocusCall(r[j])
        PROVE  r[i] = "focus gained" <=> on
    <3>1. i \in 1..Len(q) /\ r[i] = q[i]
      BY <1>1, <1>2, <1>5, <2>1
    <3>2. \A j \in (i + 1)..Len(q) : ~FocusCall(q[j])
      BY <1>1, <2>1, <3>1
    <3> QED
      BY <1>5, <2>1, <3>1, <3>2 DEF LastFocusCallIs
  <2> QED
    BY <2>1 DEF LastFocusCallIs
<1>6. ASSUME FocusCall(call)
      PROVE  LastFocusCallIs(r, call = "focus gained")
  <2>1. ASSUME NEW i \in 1..Len(r), \A j \in (i + 1)..Len(r) : ~FocusCall(r[j])
        PROVE  r[i] = call
    BY <1>1, <1>2, <1>6, <2>1
  <2> QED
    BY <2>1 DEF LastFocusCallIs
<1>7. ASSUME NEW calls, call \notin calls
      PROVE  EachFollowedBy(r, calls, call)
  <2>1. ASSUME NEW i \in 1..Len(r), r[i] \in calls
        PROVE  \E j \in (i + 1)..Len(r) : r[j] = call
    BY <1>1, <1>2, <1>7, <2>1
  <2> QED
    BY <2>1 DEF EachFollowedBy
<1>8. ASSUME NEW calls, NEW other, call \notin calls, EachFollowedBy(q, calls, other)
      PROVE  EachFollowedBy(r, calls, other)
  <2>1. ASSUME NEW i \in 1..Len(r), r[i] \in calls
        PROVE  \E j \in (i + 1)..Len(r) : r[j] = other
    <3>1. i \in 1..Len(q) /\ q[i] \in calls
      BY <1>1, <1>2, <1>8, <2>1
    <3>2. PICK j \in (i + 1)..Len(q) : q[j] = other
      BY <1>8, <3>1 DEF EachFollowedBy
    <3> QED
      BY <1>1, <3>1, <3>2
  <2> QED
    BY <2>1 DEF EachFollowedBy
<1> QED
  BY <1>1, <1>3, <1>4, <1>5, <1>6, <1>7, <1>8 DEF r

(* The same without the one that is run.                                   *)
LEMMA CallRun ==
    ASSUME NEW q \in Seq(QueuedCalls), q # <<>>
    PROVE  LET r == Tail(q) IN
           /\ r \in Seq(QueuedCalls) /\ Head(q) \in QueuedCalls
           /\ \A other : Holds(q, other) /\ Head(q) # other => Holds(r, other)
           /\ NoFocusCall(r) /\ ~FocusCall(Head(q)) => NoFocusCall(q)
           /\ \A on \in BOOLEAN : LastFocusCallIs(q, on) => LastFocusCallIs(r, on)
           /\ \A on \in BOOLEAN : LastFocusCallIs(q, on) /\ NoFocusCall(r) /\ FocusCall(Head(q))
                => (Head(q) = "focus gained" <=> on)
           /\ \A calls, other : EachFollowedBy(q, calls, other)
                => EachFollowedBy(r, calls, other) /\ (Head(q) \in calls => Holds(r, other))
PROOF
<1> DEFINE r == Tail(q)
<1>1. /\ r \in Seq(QueuedCalls) /\ Head(q) \in QueuedCalls /\ Len(r) = Len(q) - 1
      /\ \A i \in 1..Len(r) : r[i] = q[i + 1]
      /\ Head(q) = q[1] /\ Len(q) \in Nat \ {0}
  BY HeadTailProperties, EmptySeq
<1> HIDE DEF r
<1>2. \A i \in 1..Len(q) : i # 1 => i - 1 \in 1..Len(r) /\ r[i - 1] = q[i]
  BY <1>1
<1>3. ASSUME NEW other, Holds(q, other), Head(q) # other PROVE Holds(r, other)
  BY <1>1, <1>2, <1>3 DEF Holds
<1>4. ASSUME NoFocusCall(r), ~FocusCall(Head(q)) PROVE NoFocusCall(q)
  BY <1>1, <1>2, <1>4 DEF NoFocusCall
<1>5. ASSUME NEW on \in BOOLEAN, LastFocusCallIs(q, on)
      PROVE  LastFocusCallIs(r, on)
  <2>1. ASSUME NEW i \in 1..Len(r), FocusCall(r[i]), \A j \in (i + 1)..Len(r) : ~FocusCall(r[j])
        PROVE  r[i] = "focus gained" <=> on
    <3>1. i + 1 \in 1..Len(q) /\ q[i + 1] = r[i]
      BY <1>1, <2>1
    <3>2. \A j \in ((i + 1) + 1)..Len(q) : ~FocusCall(q[j])
      BY <1>1, <1>2, <2>1
    <3>3. FocusCall(q[i + 1])
      BY <2>1, <3>1
    <3>4. q[i + 1] = "focus gained" <=> on
      BY <1>5, <3>1, <3>2, <3>3 DEF LastFocusCallIs
    <3> QED
      BY <3>1, <3>4
  <2> QED
    BY <2>1 DEF LastFocusCallIs
<1>6. ASSUME NEW on \in BOOLEAN, LastFocusCallIs(q, on), NoFocusCall(r), FocusCall(Head(q))
      PROVE  Head(q) = "focus gained" <=> on
  <2>1. \A j \in (1 + 1)..Len(q) : ~FocusCall(q[j])
    BY <1>1, <1>2, <1>6 DEF NoFocusCall
  <2>2. 1 \in 1..Len(q) /\ FocusCall(q[1])
    BY <1>1, <1>6
  <2>3. q[1] = "focus gained" <=> on
    BY <1>6, <2>1, <2>2 DEF LastFocusCallIs
  <2> QED
    BY <1>1, <2>3
<1>7. ASSUME NEW calls, NEW other, EachFollowedBy(q, calls, other)
      PROVE  EachFollowedBy(r, calls, other) /\ (Head(q) \in calls => Holds(r, other))
  <2>1. ASSUME NEW i \in 1..Len(r), r[i] \in calls
        PROVE  \E j \in (i + 1)..Len(r) : r[j] = other
    <3>1. i + 1 \in 1..Len(q) /\ q[i + 1] \in calls
      BY <1>1, <2>1
    <3>2. PICK j \in (i + 2)..Len(q) : q[j] = other
      BY <1>7, <3>1 DEF EachFollowedBy
    <3>3. j - 1 \in (i + 1)..Len(r) /\ r[j - 1] = other
      BY <1>1, <1>2, <3>2
    <3> QED
      BY <3>3
  <2>2. ASSUME Head(q) \in calls PROVE Holds(r, other)
    <3>1. PICK j \in 2..Len(q) : q[j] = other
      BY <1>1, <1>7, <2>2 DEF EachFollowedBy
    <3> QED
      BY <1>1, <1>2, <3>1 DEF Holds
  <2> QED
    BY <2>1, <2>2 DEF EachFollowedBy
<1>8. /\ r \in Seq(QueuedCalls) /\ Head(q) \in QueuedCalls
      /\ \A other : Holds(q, other) /\ Head(q) # other => Holds(r, other)
      /\ NoFocusCall(r) /\ ~FocusCall(Head(q)) => NoFocusCall(q)
  BY <1>1, <1>3, <1>4
<1>9. \A on \in BOOLEAN : LastFocusCallIs(q, on) => LastFocusCallIs(r, on)
  BY <1>5
<1>10. \A on \in BOOLEAN : LastFocusCallIs(q, on) /\ NoFocusCall(r) /\ FocusCall(Head(q))
                => (Head(q) = "focus gained" <=> on)
  BY <1>6
<1>11. \A calls, other : EachFollowedBy(q, calls, other)
                => EachFollowedBy(r, calls, other) /\ (Head(q) \in calls => Holds(r, other))
  BY <1>7
<1> QED
  BY <1>8, <1>9, <1>10, <1>11, Zenon DEF r

LEMMA AndroidInvInit == AndroidInit => AndroidInv
PROOF
<1> SUFFICES ASSUME AndroidInit PROVE AndroidInv
  OBVIOUS
<1>1. AndroidTypes
  <2>1. <<>> \in Seq({"resume", "pause", "focus gained", "focus lost"})
    BY EmptySeq
  <2>2. 0 \in 0..MaxContexts
    BY AndroidAssumption
  <2> QED
    BY <2>1, <2>2 DEF AndroidInit, AndroidTypes, AndroidTypeOK
<1>2. OneActivity /\ NoFrameWhileDestroyed /\ TexturesUnloadedInTime /\ FocusOnItsWay
  BY DEF AndroidInit, OneActivity, NoFrameWhileDestroyed, TexturesUnloadedInTime, FocusOnItsWay,
         There, Present
<1> QED
  BY <1>1, <1>2 DEF AndroidInv

(* The numbers of contexts.                                                *)
LEMMA ContextNumbers ==
    /\ 0 \in 0..MaxContexts
    /\ \A n \in 0..MaxContexts : n < MaxContexts => n + 1 \in 0..MaxContexts
PROOF
<1> QED
  BY AndroidAssumption

(* Every step keeps the types.                                             *)
LEMMA AndroidTypesStep == AndroidTypes /\ [AndroidNext]_androidVars => AndroidTypes'
PROOF
<1> SUFFICES ASSUME AndroidTypes, [AndroidNext]_androidVars PROVE AndroidTypes'
  OBVIOUS
<1> USE DEF AndroidTypes, AndroidTypeOK
<1>1. CASE UNCHANGED androidVars
  BY <1>1 DEF androidVars
<1>2. ASSUME NEW a \in Activities, Launch(a) PROVE AndroidTypes'
  BY <1>2 DEF Launch, Library
<1>0. 0 \in 0..MaxContexts
  BY ContextNumbers
<1>3. ASSUME NEW q \in Seq(QueuedCalls), NEW call \in QueuedCalls
      PROVE  Append(q, call) \in Seq(QueuedCalls)
  BY AppendProperties
<1>4. ASSUME NEW q \in Seq(QueuedCalls), q # <<>> PROVE Tail(q) \in Seq(QueuedCalls)
  BY <1>4, HeadTailProperties
<1>5. ASSUME NEW a \in Activities, Resume(a) PROVE AndroidTypes'
  <2>1. Append(queue[a], "resume") \in Seq(QueuedCalls)
    BY <1>3 DEF QueuedCalls
  <2> QED
    BY <1>5, <2>1 DEF Resume, Library, Queue, QueuedCalls
<1>6. ASSUME NEW a \in Activities, Pause(a) PROVE AndroidTypes'
  <2>1. Append(queue[a], "pause") \in Seq(QueuedCalls)
    BY <1>3 DEF QueuedCalls
  <2>2. /\ queue' \in [Activities -> Seq(QueuedCalls)]
        /\ context' \in [Activities -> 0..MaxContexts]
    BY <1>0, <1>6, <2>1 DEF Pause, Queue, QueuedCalls
  <2>3. activity' \in [Activities -> {"none", "paused", "resumed", "finishing", "destroying", "destroyed"}]
    BY <1>6 DEF Pause
  <2>4. UNCHANGED <<aprilActivity, contexts, windowFocus, Library, process, known>>
    BY <1>6 DEF Pause
  <2> QED
    BY <2>2, <2>3, <2>4 DEF Library, QueuedCalls
<1>7. ASSUME NEW a \in Activities, FocusChange(a) PROVE AndroidTypes'
  <2>1. ASSUME NEW b \in Activities, NEW call \in {"focus lost", "focus gained"}, Queue(b, call)
        PROVE  queue' \in [Activities -> Seq(QueuedCalls)]
    <3>1. Append(queue[b], call) \in Seq(QueuedCalls)
      BY <1>3 DEF QueuedCalls
    <3> QED
      BY <2>1, <3>1 DEF Queue, QueuedCalls
  <2>2. queue' \in [Activities -> Seq(QueuedCalls)]
    <3>1. CASE UNCHANGED queue
      BY <3>1 DEF QueuedCalls
    <3>2. CASE \E b \in aprilActivity : Queue(b, IF windowFocus[a] THEN "focus lost" ELSE "focus gained")
      BY <2>1, <3>2
    <3> QED
      BY <1>7, <3>1, <3>2 DEF FocusChange
  <2> QED
    BY <1>7, <2>2 DEF FocusChange, Library, QueuedCalls
<1>8. ASSUME NEW a \in Activities, DestroyBegins(a) PROVE AndroidTypes'
  BY <1>8 DEF DestroyBegins
<1>9. ASSUME NEW a \in Activities, DestroyEnds(a) PROVE AndroidTypes'
  <2>1. <<>> \in Seq({"resume", "pause", "focus gained", "focus lost"})
    BY EmptySeq
  <2>2. /\ queue' \in [Activities -> Seq({"resume", "pause", "focus gained", "focus lost"})]
        /\ activity' \in [Activities -> {"none", "paused", "resumed", "finishing", "destroying", "destroyed"}]
        /\ windowFocus' \in [Activities -> BOOLEAN]
    BY <1>9, <2>1 DEF DestroyEnds
  <2>3. /\ library' = "none" /\ running' = FALSE /\ textures' = 0 /\ aprilActivity' = {}
        /\ process' \in {"alive", "exited"}
        /\ UNCHANGED <<context, contexts, focused, forcedFocus, known>>
    BY <1>9 DEF DestroyEnds
  <2> QED
    BY <1>0, <2>2, <2>3
<1>10. ASSUME NEW a \in Activities, RunCall(a) PROVE AndroidTypes'
  <2>1. Tail(queue[a]) \in Seq(QueuedCalls)
    BY <1>4, <1>10 DEF QueuedCalls, RunCall
  <2>2. queue' \in [Activities -> Seq(QueuedCalls)]
    BY <1>10, <2>1 DEF QueuedCalls, RunCall
  <2>3. /\ library' = library /\ running' = running
        /\ focused' \in BOOLEAN /\ forcedFocus' \in BOOLEAN /\ textures' \in {0, textures}
        /\ known' \subseteq known \cup {"call while destroyed"}
        /\ UNCHANGED <<aprilActivity, activity, context, contexts, windowFocus, process>>
    BY <1>10 DEF RunCall, Dead, Library, ActivityChange
  <2>4. textures' \in 0..MaxContexts
    BY <1>0, <2>3
  <2> QED
    BY <2>2, <2>3, <2>4 DEF QueuedCalls
<1>11. ASSUME NEW a \in Activities, SurfaceCreated(a) PROVE AndroidTypes'
  <2>1. /\ library' \in {library, "alive"} /\ running' \in BOOLEAN
        /\ focused' \in BOOLEAN /\ forcedFocus' \in BOOLEAN /\ textures' \in {0, textures}
        /\ known' \subseteq known \cup {"frame while destroyed", "focus assumed"}
        /\ UNCHANGED <<aprilActivity, activity, queue, windowFocus, process>>
    BY <1>11 DEF SurfaceCreated, Dead, Library
  <2>2. contexts' = contexts + 1 /\ contexts' \in 0..MaxContexts
    BY <1>11, ContextNumbers DEF SurfaceCreated
  <2>3. context' \in [Activities -> 0..MaxContexts]
    BY <1>11, <2>2 DEF SurfaceCreated
  <2>4. textures' \in 0..MaxContexts
    BY <1>0, <2>1
  <2> QED
    BY <2>1, <2>2, <2>3, <2>4
<1>12. ASSUME NEW a \in Activities, Frame(a) PROVE AndroidTypes'
  <2>1. /\ library' = library /\ running' = running /\ focused' = focused /\ forcedFocus' = forcedFocus
        /\ textures' \in {context[a], textures}
        /\ known' \subseteq known \cup {"frame while destroyed"}
        /\ UNCHANGED <<aprilActivity, activity, queue, context, contexts, windowFocus, process>>
    BY <1>12 DEF Frame, Dead, Library
  <2> QED
    BY <2>1
<1>13. ASSUME NEW a \in Activities, LoseContext(a) PROVE AndroidTypes'
  <2>1. /\ context' \in [Activities -> 0..MaxContexts]
        /\ known' \subseteq known \cup {"context lost"}
        /\ UNCHANGED <<aprilActivity, activity, queue, contexts, windowFocus, Library, process>>
    BY <1>0, <1>13 DEF LoseContext
  <2> QED
    BY <2>1 DEF Library
<1> QED
  BY <1>1, <1>2, <1>5, <1>6, <1>7, <1>8, <1>9, <1>10, <1>11, <1>12, <1>13 DEF AndroidNext

(* What holds while there is one activity.                                 *)
LEMMA TheActivity ==
    ASSUME AndroidInv, Single, NEW a \in Activities, There(a)
    PROVE  /\ aprilActivity = {a}
           /\ \A b \in Activities : There(b) => b = a
           /\ \A b \in Activities \ {a} : queue[b] = <<>> /\ ~There(b)
PROOF
<1> QED
  BY DEF AndroidInv, OneActivity

LEMMA QueuesTyped ==
    ASSUME AndroidInv, NEW a \in Activities
    PROVE  queue[a] \in Seq(QueuedCalls) /\ windowFocus[a] \in BOOLEAN
PROOF
<1> QED
  BY DEF AndroidInv, AndroidTypes, AndroidTypeOK, QueuedCalls

(* A step of the one activity there is keeps the invariant if that         *)
(* activity is in order after it.                                          *)
LEMMA OneActivitySteps ==
    ASSUME NEW a \in Activities,
           \A b \in Activities : There(b)' => b = a,
           IF There(a)' THEN (aprilActivity = {a})' ELSE (queue[a] = <<>>)',
           \A b \in Activities \ {a} : (queue[b] = <<>>)',
           library' = "alive" => Present(a)',
           library' = "destroying" => (activity[a] = "destroying")',
           library' = "none" => textures' = 0,
           ("context lost" \notin known /\ library = "alive" /\ textures # 0 /\ Present(a) =>
               context[a] = textures \/ Holds(queue[a], "pause"))',
           (Present(a) => QueueInOrder(a) /\ (library = "alive" => FocusInOrder(a)))'
    PROVE  (OneActivity /\ TexturesUnloadedInTime /\ FocusOnItsWay)'
PROOF
<1>1. Present(a)' => There(a)'
  BY DEF There
<1>2. ASSUME NEW b \in Activities, Present(b)' PROVE b = a
  BY <1>2 DEF There
<1>3. OneActivity'
  <2>1. \A b, c \in Activities : There(b)' /\ There(c)' => b = c
    OBVIOUS
  <2>2. ASSUME NEW b \in Activities
        PROVE  (IF There(b) THEN aprilActivity = {b} ELSE queue[b] = <<>>)'
    <3>1. CASE b = a
      BY <3>1
    <3>2. CASE b # a
      BY <3>2
    <3> QED
      BY <3>1, <3>2
  <2> QED
    BY <2>1, <2>2 DEF OneActivity
<1>4. TexturesUnloadedInTime'
  BY <1>2 DEF TexturesUnloadedInTime
<1>5. FocusOnItsWay'
  BY <1>2 DEF FocusOnItsWay
<1> QED
  BY <1>3, <1>4, <1>5

(* Beside another activity nothing is promised but that the textures of a  *)
(* library that is gone are gone.                                          *)
LEMMA TwoActivitySteps ==
    ASSUME ~Single', library' = "none" => textures' = 0
    PROVE  (OneActivity /\ NoFrameWhileDestroyed /\ TexturesUnloadedInTime /\ FocusOnItsWay)'
PROOF
<1> QED
  BY DEF Single, OneActivity, NoFrameWhileDestroyed, TexturesUnloadedInTime, FocusOnItsWay

LEMMA LaunchKeeps ==
    ASSUME AndroidInv, NEW a \in Activities, Launch(a)
    PROVE  (OneActivity /\ NoFrameWhileDestroyed /\ TexturesUnloadedInTime /\ FocusOnItsWay)'
PROOF
<1>1. /\ activity[a] = "none" /\ aprilActivity' = {a}
      /\ \A b \in Activities \ {a} : activity[b] \in {"none", "finishing", "destroying", "destroyed"}
      /\ \A b \in Activities : activity'[b] = IF b = a THEN "paused" ELSE activity[b]
      /\ UNCHANGED <<queue, context, contexts, windowFocus, library, running, focused, forcedFocus,
                     textures, process>>
  BY DEF AndroidInv, AndroidTypes, AndroidTypeOK, Launch, Library
<1>2. known \subseteq known' /\ known' \subseteq known \cup {"two activities"}
  BY DEF Launch
<1>3. library = "none" => textures = 0
  BY DEF AndroidInv, TexturesUnloadedInTime
<1>4. CASE ~Single'
  BY <1>1, <1>3, <1>4, TwoActivitySteps
<1>5. CASE Single'
  <2>1. known' = known /\ Single
    BY <1>2, <1>5 DEF Single
  <2>2. \A b \in Activities : activity[b] \notin {"finishing", "destroying"}
    BY <1>5 DEF Launch, Single
  <2>3. \A b \in Activities : ~There(b)
    BY <1>1, <2>2 DEF There, Present
  <2>4. \A b \in Activities : queue'[b] = <<>>
    BY <1>1, <2>1, <2>3 DEF AndroidInv, OneActivity
  <2>5. library' = "none"
    <3>1. library # "alive" /\ library # "destroying"
      BY <2>1, <2>3 DEF AndroidInv, OneActivity, There
    <3> QED
      BY <1>1, <3>1 DEF AndroidInv, AndroidTypes, AndroidTypeOK
  <2>6. There(a)' /\ \A b \in Activities : There(b)' => b = a
    BY <1>1, <2>3 DEF There, Present
  <2>7. QueueInOrder(a)'
    <3>1. queue'[a] = <<>> /\ 1..Len(<<>>) = {}
      BY <2>4
    <3> QED
      BY <3>1 DEF QueueInOrder, LastFocusCallIs, EachFollowedBy
  <2>8. NoFrameWhileDestroyed'
    BY <2>1 DEF AndroidInv, NoFrameWhileDestroyed
  <2>9. (OneActivity /\ TexturesUnloadedInTime /\ FocusOnItsWay)'
    BY <1>1, <1>3, <2>4, <2>5, <2>6, <2>7, OneActivitySteps
  <2> QED
    BY <2>8, <2>9
<1> QED
  BY <1>4, <1>5

LEMMA ResumeKeeps ==
    ASSUME AndroidInv, NEW a \in Activities, Resume(a)
    PROVE  (OneActivity /\ NoFrameWhileDestroyed /\ TexturesUnloadedInTime /\ FocusOnItsWay)'
PROOF
<1> DEFINE r == Append(queue[a], "resume")
<1>1. /\ activity[a] = "paused" /\ activity'[a] = "resumed"
      /\ \A b \in Activities \ {a} : activity'[b] = activity[b]
      /\ queue'[a] = r /\ \A b \in Activities \ {a} : queue'[b] = queue[b]
      /\ UNCHANGED <<aprilActivity, context, contexts, windowFocus, library, running, focused, forcedFocus,
                     textures, process, known>>
  BY DEF AndroidInv, AndroidTypes, AndroidTypeOK, Resume, Queue, Library
<1>2. library = "none" => textures = 0
  BY DEF AndroidInv, TexturesUnloadedInTime
<1>3. CASE ~Single
  BY <1>1, <1>2, <1>3, TwoActivitySteps DEF Single
<1>4. CASE Single
  <2>1. Present(a) /\ There(a) /\ Present(a)' /\ There(a)' /\ activity[a] # "destroying"
    BY <1>1 DEF There, Present
  <2>2. /\ aprilActivity = {a} /\ \A b \in Activities : There(b) => b = a
        /\ \A b \in Activities \ {a} : queue[b] = <<>> /\ ~There(b)
    BY <1>4, <2>1, TheActivity
  <2>3. \A b \in Activities : There(b)' => b = a
    BY <1>1, <2>2 DEF There, Present
  <2>4. /\ Holds(r, "resume") /\ \A other : Holds(queue[a], other) => Holds(r, other)
        /\ NoFocusCall(r) => NoFocusCall(queue[a])
        /\ \A on : LastFocusCallIs(queue[a], on) => LastFocusCallIs(r, on)
        /\ EachFollowedBy(r, {"pause"}, "resume")
    <3>1. "resume" \in QueuedCalls /\ ~FocusCall("resume") /\ "resume" \notin {"pause"}
      BY DEF QueuedCalls, FocusCall
    <3> QED
      BY <3>1, QueuesTyped, CallAppended
  <2> HIDE DEF r
  <2>5. QueueInOrder(a) /\ (library = "alive" => FocusInOrder(a))
    BY <1>4, <2>1 DEF AndroidInv, FocusOnItsWay
  <2>6. QueueInOrder(a)'
    BY <1>1, <2>4, <2>5 DEF QueueInOrder
  <2>7. library' = "alive" => FocusInOrder(a)'
    BY <1>1, <2>4, <2>5 DEF FocusInOrder
  <2>8. ("context lost" \notin known /\ library = "alive" /\ textures # 0 /\ Present(a) =>
               context[a] = textures \/ Holds(queue[a], "pause"))'
    BY <1>1, <1>4, <2>1, <2>4 DEF AndroidInv, TexturesUnloadedInTime
  <2>9. library' # "destroying"
    BY <1>1, <1>4, <2>1, <2>2 DEF AndroidInv, OneActivity, There
  <2>10. NoFrameWhileDestroyed'
    BY <1>1 DEF AndroidInv, NoFrameWhileDestroyed
  <2>11. (OneActivity /\ TexturesUnloadedInTime /\ FocusOnItsWay)'
    BY <1>1, <1>2, <2>1, <2>2, <2>3, <2>6, <2>7, <2>8, <2>9, OneActivitySteps
  <2> QED
    BY <2>10, <2>11
<1> QED
  BY <1>3, <1>4

LEMMA PauseKeeps ==
    ASSUME AndroidInv, NEW a \in Activities, Pause(a)
    PROVE  (OneActivity /\ NoFrameWhileDestroyed /\ TexturesUnloadedInTime /\ FocusOnItsWay)'
PROOF
<1> DEFINE r == Append(queue[a], "pause")
<1>1. /\ activity[a] = "resumed" /\ activity'[a] \in {"paused", "finishing"}
      /\ \A b \in Activities \ {a} : activity'[b] = activity[b]
      /\ queue'[a] = r /\ \A b \in Activities \ {a} : queue'[b] = queue[b]
      /\ UNCHANGED <<aprilActivity, contexts, windowFocus, library, running, focused, forcedFocus,
                     textures, process, known>>
  BY DEF AndroidInv, AndroidTypes, AndroidTypeOK, Pause, Queue, Library
<1>2. library = "none" => textures = 0
  BY DEF AndroidInv, TexturesUnloadedInTime
<1>3. CASE ~Single
  BY <1>1, <1>2, <1>3, TwoActivitySteps DEF Single
<1>4. CASE Single
  <2>1. Present(a) /\ There(a) /\ Present(a)' /\ There(a)' /\ activity[a] # "destroying"
    BY <1>1 DEF There, Present
  <2>2. /\ aprilActivity = {a} /\ \A b \in Activities : There(b) => b = a
        /\ \A b \in Activities \ {a} : queue[b] = <<>> /\ ~There(b)
    BY <1>4, <2>1, TheActivity
  <2>3. \A b \in Activities : There(b)' => b = a
    BY <1>1, <2>2 DEF There, Present
  <2>4. /\ Holds(r, "pause")
        /\ NoFocusCall(r) => NoFocusCall(queue[a])
        /\ \A on : LastFocusCallIs(queue[a], on) => LastFocusCallIs(r, on)
        /\ EachFollowedBy(r, Gains, "pause")
    <3>1. "pause" \in QueuedCalls /\ ~FocusCall("pause") /\ "pause" \notin Gains
      BY DEF QueuedCalls, FocusCall, Gains
    <3> QED
      BY <3>1, QueuesTyped, CallAppended
  <2> HIDE DEF r
  <2>5. QueueInOrder(a) /\ (library = "alive" => FocusInOrder(a))
    BY <1>4, <2>1 DEF AndroidInv, FocusOnItsWay
  <2>6. QueueInOrder(a)'
    BY <1>1, <2>4, <2>5 DEF QueueInOrder
  <2>7. library' = "alive" => FocusInOrder(a)'
    BY <1>1, <2>4, <2>5 DEF FocusInOrder
  <2>8. library' # "destroying"
    BY <1>1, <1>4, <2>1, <2>2 DEF AndroidInv, OneActivity, There
  <2>9. NoFrameWhileDestroyed'
    BY <1>1 DEF AndroidInv, NoFrameWhileDestroyed
  <2>10. (OneActivity /\ TexturesUnloadedInTime /\ FocusOnItsWay)'
    BY <1>1, <1>2, <2>1, <2>2, <2>3, <2>4, <2>6, <2>7, <2>8, OneActivitySteps
  <2> QED
    BY <2>9, <2>10
<1> QED
  BY <1>3, <1>4

LEMMA FocusChangeKeeps ==
    ASSUME AndroidInv, NEW a \in Activities, FocusChange(a)
    PROVE  (OneActivity /\ NoFrameWhileDestroyed /\ TexturesUnloadedInTime /\ FocusOnItsWay)'
PROOF
<1> DEFINE call == IF windowFocus[a] THEN "focus lost" ELSE "focus gained"
<1> DEFINE r == Append(queue[a], call)
<1>1. /\ activity[a] \in {"paused", "resumed", "finishing"}
      /\ windowFocus[a] \/ activity[a] = "resumed"
      /\ windowFocus'[a] = ~windowFocus[a]
      /\ UNCHANGED <<activity, aprilActivity, context, contexts, library, running, focused, forcedFocus,
                     textures, known>>
  BY DEF AndroidInv, AndroidTypes, AndroidTypeOK, FocusChange, Library
<1>2. library = "none" => textures = 0
  BY DEF AndroidInv, TexturesUnloadedInTime
<1>3. CASE ~Single
  BY <1>1, <1>2, <1>3, TwoActivitySteps DEF Single
<1>4. CASE Single
  <2>1. Present(a) /\ There(a) /\ Present(a)' /\ There(a)' /\ activity[a] # "destroying"
    BY <1>1 DEF There, Present
  <2>2. /\ aprilActivity = {a} /\ \A b \in Activities : There(b) => b = a
        /\ \A b \in Activities \ {a} : queue[b] = <<>> /\ ~There(b)
    BY <1>4, <2>1, TheActivity
  <2>3. Queue(a, call)
    BY <2>2 DEF FocusChange
  <2>4. queue'[a] = r /\ \A b \in Activities \ {a} : queue'[b] = queue[b]
    BY <2>3 DEF AndroidInv, AndroidTypes, Queue
  <2>5. call \in QueuedCalls /\ FocusCall(call) /\ call \notin {"pause"} /\ (windowFocus[a] => call \notin Gains)
    BY DEF QueuedCalls, FocusCall, Gains
  <2>6. windowFocus'[a] = (call = "focus gained")
    BY <1>1, QueuesTyped
  <2> HIDE DEF call
  <2>7. /\ \A other : Holds(queue[a], other) => Holds(r, other)
        /\ ~NoFocusCall(r) /\ LastFocusCallIs(r, call = "focus gained")
        /\ \A calls, other : call \notin calls /\ EachFollowedBy(queue[a], calls, other)
                => EachFollowedBy(r, calls, other)
    BY <2>5, QueuesTyped, CallAppended
  <2> HIDE DEF r
  <2>8. QueueInOrder(a) /\ (library = "alive" => FocusInOrder(a))
    BY <1>4, <2>1 DEF AndroidInv, FocusOnItsWay
  <2>9. QueueInOrder(a)'
    <3>1. LastFocusCallIs(queue'[a], windowFocus'[a])
      BY <2>4, <2>6, <2>7
    <3>2. CASE activity[a] = "resumed"
      BY <1>1, <2>4, <2>5, <2>7, <2>8, <3>1, <3>2 DEF QueueInOrder
    <3>3. CASE activity[a] # "resumed"
      BY <1>1, <2>4, <2>5, <2>7, <2>8, <3>1, <3>3 DEF QueueInOrder
    <3> QED
      BY <3>2, <3>3
  <2>10. library' = "alive" => FocusInOrder(a)'
    BY <1>1, <2>4, <2>7, <2>8 DEF FocusInOrder
  <2>11. ("context lost" \notin known /\ library = "alive" /\ textures # 0 /\ Present(a) =>
               context[a] = textures \/ Holds(queue[a], "pause"))'
    BY <1>1, <1>4, <2>1, <2>4, <2>7 DEF AndroidInv, TexturesUnloadedInTime
  <2>12. library' # "destroying"
    BY <1>1, <1>4, <2>1, <2>2 DEF AndroidInv, OneActivity, There
  <2>13. NoFrameWhileDestroyed'
    BY <1>1 DEF AndroidInv, NoFrameWhileDestroyed
  <2>14. \A b \in Activities : There(b)' => b = a
    BY <1>1, <2>2 DEF There, Present
  <2>15. (OneActivity /\ TexturesUnloadedInTime /\ FocusOnItsWay)'
    BY <1>1, <1>2, <2>1, <2>2, <2>4, <2>9, <2>10, <2>11, <2>12, <2>14, OneActivitySteps
  <2> QED
    BY <2>13, <2>15
<1> QED
  BY <1>3, <1>4

LEMMA DestroyBeginsKeeps ==
    ASSUME AndroidInv, NEW a \in Activities, DestroyBegins(a)
    PROVE  (OneActivity /\ NoFrameWhileDestroyed /\ TexturesUnloadedInTime /\ FocusOnItsWay)'
PROOF
<1>1. /\ activity[a] \in {"paused", "finishing"} /\ activity'[a] = "destroying"
      /\ \A b \in Activities \ {a} : activity'[b] = activity[b]
      /\ library' = IF library = "alive" THEN "destroying" ELSE library
      /\ UNCHANGED <<aprilActivity, queue, textures, known>>
  BY DEF AndroidInv, AndroidTypes, AndroidTypeOK, DestroyBegins
<1>2. library' = "none" => textures' = 0
  BY <1>1 DEF AndroidInv, TexturesUnloadedInTime
<1>3. CASE ~Single
  BY <1>1, <1>2, <1>3, TwoActivitySteps DEF Single
<1>4. CASE Single
  <2>1. There(a) /\ There(a)' /\ ~Present(a)'
    BY <1>1 DEF There, Present
  <2>2. /\ aprilActivity = {a} /\ \A b \in Activities : There(b) => b = a
        /\ \A b \in Activities \ {a} : queue[b] = <<>> /\ ~There(b)
    BY <1>4, <2>1, TheActivity
  <2>3. \A b \in Activities : There(b)' => b = a
    BY <1>1, <2>2 DEF There, Present
  <2>4. NoFrameWhileDestroyed'
    BY <1>1 DEF AndroidInv, NoFrameWhileDestroyed
  <2>5. library' # "alive"
    BY <1>1
  <2>6. (OneActivity /\ TexturesUnloadedInTime /\ FocusOnItsWay)'
    BY <1>1, <1>2, <2>1, <2>2, <2>3, <2>5, OneActivitySteps
  <2> QED
    BY <2>4, <2>6
<1> QED
  BY <1>3, <1>4

LEMMA DestroyEndsKeeps ==
    ASSUME AndroidInv, NEW a \in Activities, DestroyEnds(a)
    PROVE  (OneActivity /\ NoFrameWhileDestroyed /\ TexturesUnloadedInTime /\ FocusOnItsWay)'
PROOF
<1>1. /\ activity[a] = "destroying" /\ activity'[a] = "destroyed"
      /\ \A b \in Activities \ {a} : activity'[b] = activity[b]
      /\ library' = "none" /\ textures' = 0 /\ known' = known
      /\ queue'[a] = <<>> /\ \A b \in Activities \ {a} : queue'[b] = queue[b]
  BY DEF AndroidInv, AndroidTypes, AndroidTypeOK, DestroyEnds
<1>2. CASE ~Single
  BY <1>1, <1>2, TwoActivitySteps DEF Single
<1>3. CASE Single
  <2>1. There(a) /\ ~There(a)' /\ ~Present(a)'
    BY <1>1 DEF There, Present
  <2>2. /\ \A b \in Activities : There(b) => b = a
        /\ \A b \in Activities \ {a} : queue[b] = <<>> /\ ~There(b)
    BY <1>3, <2>1, TheActivity
  <2>3. \A b \in Activities : There(b)' => b = a
    BY <1>1, <2>2 DEF There, Present
  <2>4. NoFrameWhileDestroyed'
    BY <1>1 DEF AndroidInv, NoFrameWhileDestroyed
  <2>5. (OneActivity /\ TexturesUnloadedInTime /\ FocusOnItsWay)'
    BY <1>1, <2>1, <2>2, <2>3, OneActivitySteps
  <2> QED
    BY <2>4, <2>5
<1> QED
  BY <1>2, <1>3

(* A call that is run: in a library that is there it does what the queue   *)
(* promised, and what the queue promised of the others stays.              *)
LEMMA RunCallKeeps ==
    ASSUME AndroidInv, NEW a \in Activities, RunCall(a)
    PROVE  (OneActivity /\ NoFrameWhileDestroyed /\ TexturesUnloadedInTime /\ FocusOnItsWay)'
PROOF
<1> DEFINE r == Tail(queue[a])
<1> DEFINE call == Head(queue[a])
<1>1. library \in {"none", "alive", "destroying"}
  BY DEF AndroidInv, AndroidTypes, AndroidTypeOK
<1>2. /\ queue[a] # <<>>
      /\ queue'[a] = r /\ \A b \in Activities \ {a} : queue'[b] = queue[b]
      /\ UNCHANGED <<aprilActivity, activity, context, contexts, windowFocus, library, running, process>>
  BY <1>1 DEF AndroidInv, AndroidTypes, RunCall, Dead, Library
<1>3. /\ library = "none" => UNCHANGED <<focused, forcedFocus, textures, known>>
      /\ library = "destroying" => /\ known' = known \cup {"call while destroyed"}
                                   /\ UNCHANGED <<focused, forcedFocus, textures>>
  BY DEF RunCall, Dead, Library
<1>4. library = "alive" =>
        /\ IF call \in {"resume", "pause"} THEN ActivityChange(call = "resume")
                                           ELSE focused' = (call = "focus gained") /\ forcedFocus' = FALSE
        /\ textures' = IF call = "pause" THEN 0 ELSE textures
        /\ known' = known \ Mended(call)
  BY DEF RunCall
<1>5. "two activities" \notin Mended(call) /\ "frame while destroyed" \notin Mended(call)
  BY DEF Mended
<1>6. Single' <=> Single
  BY <1>3, <1>4, <1>1, <1>5 DEF Single
<1>7. library' = "none" => textures' = 0
  BY <1>2, <1>3 DEF AndroidInv, TexturesUnloadedInTime
<1>8. NoFrameWhileDestroyed'
  BY <1>3, <1>4, <1>1, <1>5 DEF AndroidInv, NoFrameWhileDestroyed
<1>9. CASE ~Single
  BY <1>6, <1>7, <1>9, TwoActivitySteps
<1>10. CASE Single
  <2>1. There(a)
    BY <1>2, <1>10 DEF AndroidInv, OneActivity
  <2>2. /\ aprilActivity = {a} /\ \A b \in Activities : There(b) => b = a
        /\ \A b \in Activities \ {a} : queue[b] = <<>> /\ ~There(b)
    BY <1>10, <2>1, TheActivity
  <2>3. There(a)' /\ (Present(a)' <=> Present(a)) /\ \A b \in Activities : There(b)' => b = a
    BY <1>2, <2>1, <2>2 DEF There, Present
  <2>4. queue[a] \in Seq(QueuedCalls) /\ windowFocus[a] \in BOOLEAN
    BY QueuesTyped
  <2>5. /\ call \in QueuedCalls
        /\ \A other : Holds(queue[a], other) /\ call # other => Holds(r, other)
        /\ NoFocusCall(r) /\ ~FocusCall(call) => NoFocusCall(queue[a])
        /\ \A on \in BOOLEAN : LastFocusCallIs(queue[a], on) => LastFocusCallIs(r, on)
        /\ \A on \in BOOLEAN : LastFocusCallIs(queue[a], on) /\ NoFocusCall(r) /\ FocusCall(call)
                => (call = "focus gained" <=> on)
        /\ \A calls, other : EachFollowedBy(queue[a], calls, other)
                => EachFollowedBy(r, calls, other) /\ (call \in calls => Holds(r, other))
    BY <1>2, <2>4, CallRun
  <2> HIDE DEF r, call
  <2>6. ASSUME Present(a) PROVE QueueInOrder(a) /\ (library = "alive" => FocusInOrder(a))
    BY <1>10, <2>6 DEF AndroidInv, FocusOnItsWay
  <2>7. ASSUME Present(a) PROVE QueueInOrder(a)'
    BY <1>2, <2>4, <2>5, <2>6, <2>7 DEF QueueInOrder
  <2>8. ASSUME Present(a), library = "alive" PROVE FocusInOrder(a)'
    <3>1. focused \in BOOLEAN /\ forcedFocus \in BOOLEAN
      BY DEF AndroidInv, AndroidTypes, AndroidTypeOK
    <3>2. /\ LastFocusCallIs(queue[a], windowFocus[a])
          /\ IF activity[a] = "resumed" THEN EachFollowedBy(queue[a], {"pause"}, "resume")
                                        ELSE EachFollowedBy(queue[a], Gains, "pause")
      BY <2>6, <2>8 DEF QueueInOrder
    <3>3. /\ "focus assumed" \notin known /\ NoFocusCall(queue[a]) =>
                (focused \/ forcedFocus <=> windowFocus[a])
          /\ activity[a] = "resumed" /\ forcedFocus => Holds(queue[a], "resume")
          /\ activity[a] # "resumed" /\ focused => Holds(queue[a], "pause")
      BY <2>6, <2>8 DEF FocusInOrder
    <3>4. CASE call = "resume"
      <4>1. focused' = (focused \/ forcedFocus) /\ forcedFocus' = FALSE /\ known' = known /\ ~FocusCall(call)
        BY <1>4, <2>8, <3>1, <3>4 DEF ActivityChange, Mended, FocusCall
      <4>2. activity[a] # "resumed" => Holds(r, "pause")
        BY <2>5, <3>2, <3>4 DEF Gains
      <4> QED
        BY <1>2, <2>5, <3>3, <4>1, <4>2 DEF FocusInOrder
    <3>5. CASE call = "pause"
      <4>1. /\ focused' = FALSE /\ forcedFocus' = (forcedFocus \/ focused)
            /\ ("focus assumed" \notin known' => "focus assumed" \notin known) /\ ~FocusCall(call)
        BY <1>4, <2>8, <3>1, <3>5 DEF ActivityChange, Mended, FocusCall
      <4>2. activity[a] = "resumed" => Holds(r, "resume")
        BY <2>5, <3>2, <3>5
      <4> QED
        BY <1>2, <2>5, <3>3, <4>1, <4>2 DEF FocusInOrder
    <3>6. CASE FocusCall(call)
      <4>1. focused' = (call = "focus gained") /\ forcedFocus' = FALSE
        BY <1>4, <2>8, <3>6 DEF FocusCall
      <4>2. NoFocusCall(r) => (call = "focus gained" <=> windowFocus[a])
        BY <2>4, <2>5, <3>2, <3>6
      <4>3. activity[a] # "resumed" /\ call = "focus gained" => Holds(r, "pause")
        <5>1. "focus gained" \in Gains
          BY DEF Gains
        <5> QED
          BY <2>5, <3>2, <5>1
      <4> QED
        BY <1>2, <4>1, <4>2, <4>3 DEF FocusInOrder
    <3> QED
      BY <2>5, <3>4, <3>5, <3>6 DEF QueuedCalls, FocusCall
  <2>9. ("context lost" \notin known /\ library = "alive" /\ textures # 0 /\ Present(a) =>
               context[a] = textures \/ Holds(queue[a], "pause"))'
    <3>1. CASE library = "alive" /\ call # "pause"
      <4>1. textures' = textures /\ ("context lost" \notin known' => "context lost" \notin known)
        BY <1>4, <2>5, <3>1 DEF Mended
      <4>2. "context lost" \notin known /\ textures # 0 /\ Present(a)
              => context[a] = textures \/ Holds(queue[a], "pause")
        BY <1>10, <3>1 DEF AndroidInv, TexturesUnloadedInTime
      <4> QED
        BY <1>2, <2>3, <2>5, <3>1, <4>1, <4>2
    <3>2. CASE library = "alive" /\ call = "pause"
      BY <1>4, <3>2
    <3> QED
      BY <1>2, <3>1, <3>2
  <2>10. library' = "alive" => Present(a)'
    BY <1>2, <1>10, <2>2, <2>3 DEF AndroidInv, OneActivity, There
  <2>11. library' = "destroying" => (activity[a] = "destroying")'
    BY <1>2, <1>10, <2>2 DEF AndroidInv, OneActivity, There
  <2>12. (Present(a) => QueueInOrder(a) /\ (library = "alive" => FocusInOrder(a)))'
    BY <1>2, <2>3, <2>7, <2>8
  <2>13. (OneActivity /\ TexturesUnloadedInTime /\ FocusOnItsWay)'
    BY <1>2, <1>7, <2>2, <2>3, <2>9, <2>10, <2>11, <2>12, OneActivitySteps
  <2> QED
    BY <1>8, <2>13
<1> QED
  BY <1>9, <1>10

(* A GL thread that draws has run its calls, and has no library that is    *)
(* being destroyed while its activity is the only one.                     *)
LEMMA WhoDraws ==
    ASSUME AndroidInv, NEW a \in Activities, Drawing(a)
    PROVE  /\ activity[a] = "resumed" /\ queue[a] = <<>> /\ Present(a) /\ There(a)
           /\ Single => library # "destroying"
           /\ ~Holds(queue[a], "pause") /\ ~Holds(queue[a], "resume") /\ NoFocusCall(queue[a])
           /\ Single /\ "context lost" \notin known /\ library = "alive" /\ textures # 0
                => context[a] = textures
PROOF
<1>1. activity[a] = "resumed" /\ queue[a] = <<>> /\ Present(a) /\ There(a)
  BY DEF Drawing, Present, There
<1>2. Single => library # "destroying"
  BY <1>1 DEF AndroidInv, OneActivity, There
<1>3. 1..Len(queue[a]) = {}
  <2>1. 1..Len(<<>>) = {}
    OBVIOUS
  <2> QED
    BY <1>1, <2>1
<1>4. ~Holds(queue[a], "pause") /\ ~Holds(queue[a], "resume") /\ NoFocusCall(queue[a])
  BY <1>3 DEF Holds, NoFocusCall
<1> QED
  BY <1>1, <1>2, <1>4 DEF AndroidInv, TexturesUnloadedInTime

LEMMA SurfaceCreatedKeeps ==
    ASSUME AndroidInv, NEW a \in Activities, SurfaceCreated(a)
    PROVE  (OneActivity /\ NoFrameWhileDestroyed /\ TexturesUnloadedInTime /\ FocusOnItsWay)'
PROOF
<1>1. /\ Drawing(a) /\ context[a] = 0
      /\ \A b \in Activities \ {a} : context'[b] = context[b]
      /\ UNCHANGED <<aprilActivity, activity, queue, windowFocus, process>>
  BY DEF AndroidInv, AndroidTypes, AndroidTypeOK, SurfaceCreated
<1>2. /\ activity[a] = "resumed" /\ queue[a] = <<>> /\ Present(a) /\ There(a)
      /\ Single => library # "destroying"
      /\ ~Holds(queue[a], "pause") /\ ~Holds(queue[a], "resume") /\ NoFocusCall(queue[a])
      /\ Single /\ "context lost" \notin known /\ library = "alive" /\ textures # 0
                => context[a] = textures
  BY <1>1, WhoDraws
<1>3. library = "destroying" =>
        UNCHANGED <<library, textures>> /\ known' = known \cup {"frame while destroyed"}
  BY DEF SurfaceCreated, Dead, Library
<1>4. library = "none" /\ ~running =>
        /\ library' = "alive" /\ focused' = TRUE /\ forcedFocus' = FALSE /\ textures' = 0
        /\ known' = IF windowFocus[a] THEN known ELSE known \cup {"focus assumed"}
  BY DEF SurfaceCreated
<1>5. library # "destroying" /\ ~(library = "none" /\ ~running) =>
        UNCHANGED <<library, focused, forcedFocus, textures, known>>
  BY DEF SurfaceCreated, Library
<1>6. Single' <=> Single
  BY <1>3, <1>4, <1>5 DEF Single
<1>7. library' = "none" => textures' = 0
  BY <1>3, <1>4, <1>5 DEF AndroidInv, TexturesUnloadedInTime
<1>8. CASE ~Single
  BY <1>6, <1>7, <1>8, TwoActivitySteps
<1>9. CASE Single
  <2>1. library # "destroying"
    BY <1>2, <1>9
  <2>2. /\ aprilActivity = {a} /\ \A b \in Activities : There(b) => b = a
        /\ \A b \in Activities \ {a} : queue[b] = <<>> /\ ~There(b)
    BY <1>2, <1>9, TheActivity
  <2>3. Present(a)' /\ There(a)' /\ \A b \in Activities : There(b)' => b = a
    BY <1>1, <1>2, <2>2 DEF There, Present
  <2>4. library' # "destroying"
    BY <1>4, <1>5, <2>1
  <2>5. NoFrameWhileDestroyed'
    <3>1. "frame while destroyed" \in known' => "frame while destroyed" \in known
      <4>1. CASE library = "none" /\ ~running
        <5>1. known' = IF windowFocus[a] THEN known ELSE known \cup {"focus assumed"}
          BY <1>4, <4>1
        <5> QED
          BY <5>1
      <4>2. CASE ~(library = "none" /\ ~running)
        BY <1>5, <2>1, <4>2
      <4> QED
        BY <4>1, <4>2
    <3> QED
      BY <1>6, <3>1 DEF AndroidInv, NoFrameWhileDestroyed, Single
  <2>6. QueueInOrder(a) /\ (library = "alive" => FocusInOrder(a))
    BY <1>2, <1>9 DEF AndroidInv, FocusOnItsWay
  <2>7. QueueInOrder(a)'
    BY <1>1, <2>6 DEF QueueInOrder
  <2>8. library' = "alive" => FocusInOrder(a)'
    <3>1. CASE library = "none" /\ ~running
      BY <1>1, <1>2, <1>4, <3>1 DEF FocusInOrder
    <3>2. CASE ~(library = "none" /\ ~running)
      BY <1>1, <1>5, <2>1, <2>6, <3>2 DEF FocusInOrder
    <3> QED
      BY <3>1, <3>2
  <2>9. ("context lost" \notin known /\ library = "alive" /\ textures # 0 /\ Present(a) =>
               context[a] = textures \/ Holds(queue[a], "pause"))'
    <3>1. CASE library = "none" /\ ~running
      BY <1>4, <3>1
    <3>2. CASE ~(library = "none" /\ ~running)
      BY <1>1, <1>2, <1>5, <1>9, <2>1, <3>2
    <3> QED
      BY <3>1, <3>2
  <2>10. (OneActivity /\ TexturesUnloadedInTime /\ FocusOnItsWay)'
    BY <1>1, <1>7, <2>2, <2>3, <2>4, <2>7, <2>8, <2>9, OneActivitySteps
  <2> QED
    BY <2>5, <2>10
<1> QED
  BY <1>8, <1>9

LEMMA FrameKeeps ==
    ASSUME AndroidInv, NEW a \in Activities, Frame(a)
    PROVE  (OneActivity /\ NoFrameWhileDestroyed /\ TexturesUnloadedInTime /\ FocusOnItsWay)'
PROOF
<1>1. /\ Drawing(a) /\ context[a] # 0
      /\ UNCHANGED <<aprilActivity, activity, queue, context, windowFocus>>
  BY DEF Frame
<1>2. /\ activity[a] = "resumed" /\ queue[a] = <<>> /\ Present(a) /\ There(a)
      /\ Single => library # "destroying"
      /\ ~Holds(queue[a], "pause") /\ ~Holds(queue[a], "resume") /\ NoFocusCall(queue[a])
      /\ Single /\ "context lost" \notin known /\ library = "alive" /\ textures # 0
                => context[a] = textures
  BY <1>1, WhoDraws
<1>3. library \in {"none", "alive", "destroying"}
  BY DEF AndroidInv, AndroidTypes, AndroidTypeOK
<1>4. library = "destroying" =>
        UNCHANGED Library /\ known' = known \cup {"frame while destroyed"}
  BY DEF Frame, Dead
<1>5. library = "none" => UNCHANGED <<Library, known>>
  BY DEF Frame
<1>6. library = "alive" =>
        /\ textures' = IF textures = 0 THEN context[a] ELSE textures
        /\ UNCHANGED <<library, focused, forcedFocus, known>>
  BY DEF Frame
<1>7. library' = library /\ focused' = focused /\ forcedFocus' = forcedFocus /\ (Single' <=> Single)
  BY <1>3, <1>4, <1>5, <1>6 DEF Library, Single
<1>8. library' = "none" => textures' = 0
  BY <1>5, <1>7 DEF AndroidInv, TexturesUnloadedInTime, Library
<1>9. CASE ~Single
  BY <1>7, <1>8, <1>9, TwoActivitySteps
<1>10. CASE Single
  <2>1. known' = known
    BY <1>2, <1>3, <1>5, <1>6, <1>10
  <2>2. /\ aprilActivity = {a} /\ \A b \in Activities : There(b) => b = a
        /\ \A b \in Activities \ {a} : queue[b] = <<>> /\ ~There(b)
    BY <1>2, <1>10, TheActivity
  <2>3. Present(a)' /\ There(a)' /\ \A b \in Activities : There(b)' => b = a
    BY <1>1, <1>2, <2>2 DEF There, Present
  <2>4. library' # "destroying"
    BY <1>2, <1>7, <1>10
  <2>5. NoFrameWhileDestroyed'
    BY <2>1 DEF AndroidInv, NoFrameWhileDestroyed
  <2>6. QueueInOrder(a) /\ (library = "alive" => FocusInOrder(a))
    BY <1>2, <1>10 DEF AndroidInv, FocusOnItsWay
  <2>7. (QueueInOrder(a) /\ (library = "alive" => FocusInOrder(a)))'
    BY <1>1, <1>7, <2>1, <2>6 DEF QueueInOrder, FocusInOrder
  <2>8. ("context lost" \notin known /\ library = "alive" /\ textures # 0 /\ Present(a) =>
               context[a] = textures \/ Holds(queue[a], "pause"))'
    BY <1>1, <1>2, <1>6, <1>7, <1>10, <2>1
  <2>9. (OneActivity /\ TexturesUnloadedInTime /\ FocusOnItsWay)'
    BY <1>1, <1>8, <2>2, <2>3, <2>4, <2>7, <2>8, OneActivitySteps
  <2> QED
    BY <2>5, <2>9
<1> QED
  BY <1>9, <1>10

LEMMA LoseContextKeeps ==
    ASSUME AndroidInv, NEW a \in Activities, LoseContext(a)
    PROVE  (OneActivity /\ NoFrameWhileDestroyed /\ TexturesUnloadedInTime /\ FocusOnItsWay)'
PROOF
<1>1. /\ Drawing(a)
      /\ \A b \in Activities \ {a} : context'[b] = context[b]
      /\ known' = IF textures # 0 THEN known \cup {"context lost"} ELSE known
      /\ UNCHANGED <<aprilActivity, activity, queue, windowFocus, library, focused, forcedFocus, textures>>
  BY DEF AndroidInv, AndroidTypes, AndroidTypeOK, LoseContext, Library
<1>2. /\ activity[a] = "resumed" /\ Present(a) /\ There(a)
      /\ Single => library # "destroying"
  BY <1>1, WhoDraws
<1>3. /\ Single' <=> Single
      /\ "focus assumed" \in known' <=> "focus assumed" \in known
      /\ "frame while destroyed" \in known' <=> "frame while destroyed" \in known
  BY <1>1 DEF Single
<1>4. library' = "none" => textures' = 0
  BY <1>1 DEF AndroidInv, TexturesUnloadedInTime
<1>5. CASE ~Single
  BY <1>3, <1>4, <1>5, TwoActivitySteps
<1>6. CASE Single
  <2>1. /\ aprilActivity = {a} /\ \A b \in Activities : There(b) => b = a
        /\ \A b \in Activities \ {a} : queue[b] = <<>> /\ ~There(b)
    BY <1>2, <1>6, TheActivity
  <2>2. Present(a)' /\ There(a)' /\ \A b \in Activities : There(b)' => b = a
    BY <1>1, <1>2, <2>1 DEF There, Present
  <2>3. library' # "destroying"
    BY <1>1, <1>2, <1>6
  <2>4. NoFrameWhileDestroyed'
    BY <1>3 DEF AndroidInv, NoFrameWhileDestroyed, Single
  <2>5. QueueInOrder(a) /\ (library = "alive" => FocusInOrder(a))
    BY <1>2, <1>6 DEF AndroidInv, FocusOnItsWay
  <2>6. (QueueInOrder(a) /\ (library = "alive" => FocusInOrder(a)))'
    BY <1>1, <1>3, <2>5 DEF QueueInOrder, FocusInOrder
  <2>7. textures' # 0 => "context lost" \in known'
    BY <1>1
  <2>8. (OneActivity /\ TexturesUnloadedInTime /\ FocusOnItsWay)'
    BY <1>1, <1>4, <2>1, <2>2, <2>3, <2>6, <2>7, OneActivitySteps
  <2> QED
    BY <2>4, <2>8
<1> QED
  BY <1>5, <1>6

LEMMA AndroidInvStep == AndroidInv /\ [AndroidNext]_androidVars => AndroidInv'
PROOF
<1> SUFFICES ASSUME AndroidInv, [AndroidNext]_androidVars PROVE AndroidInv'
  OBVIOUS
<1>1. AndroidTypes'
  BY AndroidTypesStep DEF AndroidInv
<1>2. CASE AndroidNext
  <2>1. PICK a \in Activities :
           \/ Launch(a) \/ Resume(a) \/ Pause(a) \/ FocusChange(a)
           \/ DestroyBegins(a) \/ DestroyEnds(a)
           \/ RunCall(a) \/ SurfaceCreated(a) \/ Frame(a) \/ LoseContext(a)
    BY <1>2 DEF AndroidNext
  <2>2. (OneActivity /\ NoFrameWhileDestroyed /\ TexturesUnloadedInTime /\ FocusOnItsWay)'
    BY <2>1, LaunchKeeps, ResumeKeeps, PauseKeeps, FocusChangeKeeps, DestroyBeginsKeeps, DestroyEndsKeeps,
       RunCallKeeps, SurfaceCreatedKeeps, FrameKeeps, LoseContextKeeps
  <2> QED
    BY <1>1, <2>2 DEF AndroidInv
<1>3. CASE UNCHANGED androidVars
  BY <1>1, <1>3 DEF androidVars, AndroidInv, OneActivity, NoFrameWhileDestroyed, TexturesUnloadedInTime,
     FocusOnItsWay, Single, There, Present, QueueInOrder, FocusInOrder
<1> QED
  BY <1>2, <1>3

(* The invariant of the life on Android, for any number of activities,      *)
(* waiting calls and contexts.                                             *)
THEOREM AndroidInvariant == AndroidSpec => []AndroidInv
PROOF
<1> QED
  BY AndroidInvInit, AndroidInvStep, PTL DEF AndroidSpec

(* What the invariant says once a thread has run its calls.                *)
LEMMA AndroidInvImplies ==
    AndroidInv => TexturesOfContext /\ FocusSettles /\ NoFrameWhileDestroyed /\ AndroidTypeOK
PROOF
<1> SUFFICES ASSUME AndroidInv
             PROVE  TexturesOfContext /\ FocusSettles /\ NoFrameWhileDestroyed /\ AndroidTypeOK
  OBVIOUS
<1>1. TexturesOfContext
  <2>1. ASSUME NEW a \in Activities, Drawing(a), library = "alive"
        PROVE  textures \in {0, context[a]} \/ known \cap {"context lost", "two activities"} # {}
    <3>1. Single /\ "context lost" \notin known /\ textures # 0 => context[a] = textures
      BY <2>1, WhoDraws
    <3> QED
      BY <3>1 DEF Single
  <2> QED
    BY <2>1 DEF TexturesOfContext
<1>2. FocusSettles
  <2>1. ASSUME NEW a \in Activities, library = "alive", queue[a] = <<>>,
               known \cap {"focus assumed", "two activities"} = {}
        PROVE  /\ activity[a] = "resumed" => focused = windowFocus[a]
               /\ activity[a] \in {"paused", "finishing"} => ~focused
    <3>1. 1..Len(queue[a]) = {}
      <4>1. 1..Len(<<>>) = {}
        OBVIOUS
      <4> QED
        BY <2>1, <4>1
    <3>2. Present(a) => FocusInOrder(a)
      BY <2>1 DEF AndroidInv, FocusOnItsWay, Single
    <3>3. NoFocusCall(queue[a]) /\ ~Holds(queue[a], "resume") /\ ~Holds(queue[a], "pause")
      BY <3>1 DEF NoFocusCall, Holds
    <3>4. ASSUME activity[a] = "resumed" PROVE focused = windowFocus[a]
      <4>1. ~forcedFocus /\ (focused <=> windowFocus[a])
        BY <2>1, <3>2, <3>3, <3>4 DEF Present, FocusInOrder
      <4>2. focused \in BOOLEAN /\ windowFocus[a] \in BOOLEAN
        BY DEF AndroidInv, AndroidTypes, AndroidTypeOK
      <4> QED
        BY <4>1, <4>2
    <3>5. activity[a] \in {"paused", "finishing"} => ~focused
      BY <3>2, <3>3 DEF Present, FocusInOrder
    <3> QED
      BY <3>4, <3>5
  <2> QED
    BY <2>1 DEF FocusSettles
<1> QED
  BY <1>1, <1>2 DEF AndroidInv, AndroidTypes

(* A GL thread that may draw finds textures of its own context only: those *)
(* of the context a pause dropped were unloaded by the call that waited,   *)
(* whatever else waited with it (activityOnPause() of april's JNI code),   *)
(* for any number of activities, calls and contexts.                       *)
THEOREM AndroidTexturesOfContext == AndroidSpec => []TexturesOfContext
PROOF
<1> QED
  BY AndroidInvImplies, AndroidInvariant, PTL

(* A thread that has run its calls leaves the library's window with the    *)
(* focus of the activity's, in whatever order pauses, resumes and changes  *)
(* of focus came (AndroidJNI_Window::handleActivityChangeEvent()).         *)
THEOREM AndroidFocusSettles == AndroidSpec => []FocusSettles
PROOF
<1> QED
  BY AndroidInvImplies, AndroidInvariant, PTL

(* No frame is drawn with a library the UI thread destroys, unless two     *)
(* activities overlap.                                                     *)
THEOREM AndroidNoFrameWhileDestroyed == AndroidSpec => []NoFrameWhileDestroyed
PROOF
<1> QED
  BY AndroidInvImplies, AndroidInvariant, PTL

-----------------------------------------------------------------------------
(* The systems together.                                                   *)

(* A group of calls is made of calls of the application.                   *)
LEMMA GroupsAreCalls == GLTextures \/ GLMatrices \/ GLSettings => GLNext
PROOF
<1>1. GLTextures => GLNext
  BY GLAssumption DEF GLTextures, GLNext
<1>2. GLMatrices => GLNext
  BY DEF GLMatrices, GLNext
<1>3. GLSettings => GLNext
  BY DEF GLSettings, GLNext
<1> QED
  BY <1>1, <1>2, <1>3

(* A step of one system is a step of it alone, and none of any other.      *)
LEMMA StepsOfSystems ==
    [DeviceNext]_deviceVars =>
        /\ [GLNext]_glVars /\ [DX9Next]_dx9Vars /\ [AndroidNext]_androidVars /\ [MacNext]_macVars
        /\ UNCHANGED system
PROOF
<1> SUFFICES ASSUME [DeviceNext]_deviceVars
             PROVE  /\ [GLNext]_glVars /\ [DX9Next]_dx9Vars /\ [AndroidNext]_androidVars /\ [MacNext]_macVars
                    /\ UNCHANGED system
  OBVIOUS
<1>1. CASE OpenGL
  BY <1>1, GroupsAreCalls DEF OpenGL
<1>2. CASE DirectX9
  BY <1>2 DEF DirectX9, DX9Next, DX9Settings
<1>3. CASE AndroidProcess
  BY <1>3 DEF AndroidProcess
<1>4. CASE MacProcess
  BY <1>4 DEF MacProcess
<1>5. CASE UNCHANGED deviceVars
  BY <1>5 DEF deviceVars
<1> QED
  BY <1>1, <1>2, <1>3, <1>4, <1>5 DEF DeviceNext

(* Each system is, within the whole, what it is by itself: what is proved  *)
(* of the OpenGL state, the DirectX 9 device, the activities and the Mac   *)
(* window holds wherever april::createRenderSystem() put them.             *)
THEOREM DeviceSystemsAreSystems == DeviceSpec => GLSpec /\ DX9Spec /\ AndroidSpec /\ MacSpec
PROOF
<1>1. DeviceInit => GLInit /\ DX9Init /\ AndroidInit /\ MacInit
  BY DEF DeviceInit
<1> QED
  BY <1>1, StepsOfSystems, PTL DEF DeviceSpec, GLSpec, DX9Spec, AndroidSpec, MacSpec

(* The system in use stays what it was chosen to be.                       *)
LEMMA SystemStays == DeviceSpec => [](system \in SystemsOfDevices)
PROOF
<1>1. DeviceInit => system \in SystemsOfDevices
  BY DEF DeviceInit
<1>2. system \in SystemsOfDevices /\ [DeviceNext]_deviceVars => (system \in SystemsOfDevices)'
  BY StepsOfSystems
<1> QED
  BY <1>1, <1>2, PTL DEF DeviceSpec

(* The state of every system has its type.                                 *)
THEOREM DevicesTypeCorrect == DeviceSpec => []TypeOK
PROOF
<1>1. GLInv /\ DX9Inv /\ AndroidInv /\ MacInv /\ system \in SystemsOfDevices => TypeOK
  BY DEF GLInv, DX9Inv, AndroidInv, AndroidTypes, MacInv, TypeOK
<1> QED
  BY <1>1, DeviceSystemsAreSystems, SystemStays, GLInvariant, DX9Invariant, AndroidInvariant, MacInvariant, PTL

(* The safety of whatever system is in use: the OpenGL cache tells what    *)
(* the driver has and every draw is the one asked for, the DirectX 9       *)
(* device is the one asked for and is reset holding nothing, a GL thread   *)
(* of Android draws with its own textures, with the window's focus and a   *)
(* living library, and the Mac's application is called by one thread and   *)
(* told of the focus, by threads of which the one with the mutex goes on.  *)
THEOREM DevicesSafe ==
    DeviceSpec => /\ [](CacheAgrees /\ DeviceAsAsked /\ ResetsHoldNothing
                        /\ TexturesOfContext /\ FocusSettles /\ NoFrameWhileDestroyed
                        /\ OneThreadInApplication /\ ToldOfFocus /\ HolderGoesOn)
                  /\ DrawsAsRequested
PROOF
<1> QED
  BY DeviceSystemsAreSystems, GLCacheAgrees, GLDrawsAsRequested, DX9DeviceAsAsked, DX9ResetsHoldNothing,
     AndroidTexturesOfContext, AndroidFocusSettles, AndroidNoFrameWhileDestroyed,
     MacOneThread, MacToldOfFocus, MacHolderGoesOn, PTL
=============================================================================
