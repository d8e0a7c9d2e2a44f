------------------------------ MODULE DX9Device ------------------------------
(***************************************************************************)
(* The DirectX 9 render system's device: its scene, its target, what it    *)
(* holds in video memory, and the loss of the device, which presentFrame() *)
(* sits out in a loop that handles the window's events.  The loop calls    *)
(* back into the application, so that its calls, and a whole frame after a *)
(* resizing message, may come while the device is lost.                    *)
(*                                                                         *)
(* A reset leaves the device with its defaults.  RenderSystem keeps some   *)
(* of what the application asked for, and sends that again; of the         *)
(* projection it keeps a rectangle, from which it makes the matrix anew.   *)
(***************************************************************************)
EXTENDS FiniteSets, Integers

CONSTANTS Targets,       \* textures the application draws to and from
          Views,         \* rectangles, as viewports and of orthographic projections
          OtherMatrices, \* matrices that setOrthoProjection(rect) makes of no rectangle
          WholeTarget,   \* the viewport that Direct3D gives a new render target
          NoTarget       \* the NULL pointer: drawing goes to the back buffer

ASSUME DX9Assumption ==
    /\ NoTarget \notin Targets /\ Views # {} /\ OtherMatrices # {}
    /\ WholeTarget \notin Views /\ Views \cap OtherMatrices = {}

VARIABLES
    phase,        \* "running", "lost" within presentFrame()'s loop, "ended"
    cooperative,  \* what TestCooperativeLevel() would say: "ok", "lost", "not reset"
    backBuffer,   \* whether the pointer to the back buffer is set
    held,         \* the textures with a surface in video memory
    scene,        \* between BeginScene() and EndScene()
    renderTarget, \* the texture the library believes it draws to
    asked,        \* what the application asked for last, and the window's option
    ortho,        \* RenderSystem::orthoProjection, which a reset starts from
    device,       \* what the device draws with
    failure,      \* what ended the program, "none" so far
    met           \* history: the known defects that still show

dx9Vars == <<phase, cooperative, backBuffer, held, scene, renderTarget, asked, ortho, device, failure, met>>

\* The matrix that setOrthoProjection(rect) makes is named by its rectangle; it
\* follows the window's size by half a pixel, which is left out.  Of the blend
\* and color modes it matters whether they are the defaults.
Matrices9 == Views \cup OtherMatrices
Blendings == {"default", "other"}
AskedState == [viewport : Views, modelview : OtherMatrices, projection : Matrices9, depth : BOOLEAN,
               blending : Blendings, fullscreen : BOOLEAN, resizable : BOOLEAN]
DeviceState == [target : Targets \cup {NoTarget}, viewport : Views \cup {WholeTarget},
                modelview : OtherMatrices, projection : Matrices9, depth : BOOLEAN,
                blending : Blendings, fullscreen : BOOLEAN]

Calls == phase # "ended"  \* the application's calls come from events too
End(why) == phase' = "ended" /\ failure' = why
GoOn == UNCHANGED <<phase, failure>>
WindowView == CHOOSE v \in Views : TRUE
StartMatrix == CHOOSE m \in OtherMatrices : TRUE  \* the identity
\* calls on a lost device are ignored
Sent(field, value) ==
    IF cooperative = "ok" THEN [device EXCEPT ![field] = value] ELSE device
-----------------------------------------------------------------------------
(* The application's calls.                                                *)

\* setViewport(): kept and sent
SetViewport(v) ==
    /\ Calls /\ GoOn
    /\ asked' = [asked EXCEPT !.viewport = v]
    /\ device' = Sent("viewport", v)
    /\ met' = met \ {"viewport"}
    /\ UNCHANGED <<cooperative, backBuffer, held, scene, renderTarget, ortho>>

\* setModelviewMatrix(): kept and sent
SetModelview(m) ==
    /\ Calls /\ GoOn
    /\ asked' = [asked EXCEPT !.modelview = m]
    /\ device' = Sent("modelview", m)
    /\ UNCHANGED <<cooperative, backBuffer, held, scene, renderTarget, ortho, met>>

\* a projection is sent; a reset overwrites projectionMatrix before it sends it
SetsProjection(m) ==
    /\ Calls /\ GoOn
    /\ asked' = [asked EXCEPT !.projection = m]
    /\ device' = Sent("projection", m)
    /\ met' = met \ {"projection"}
    /\ UNCHANGED <<cooperative, backBuffer, held, scene, renderTarget>>

\* setOrthoProjection(): the rectangle is kept, its near and far planes are not
SetOrthoProjection(v, m) ==
    /\ m \in {v} \cup OtherMatrices
    /\ SetsProjection(m)
    /\ ortho' = v

\* setProjectionMatrix(), setPerspective(): the rectangle stays an earlier one
SetProjectionMatrix(m) == SetsProjection(m) /\ UNCHANGED ortho

\* setDepthBuffer(): kept, sent, and not restored after a loss
SetDepth(on) ==
    /\ Calls /\ GoOn
    /\ asked' = [asked EXCEPT !.depth = on]
    /\ device' = Sent("depth", on)
    /\ met' = met \ {"depth buffer"}
    /\ UNCHANGED <<cooperative, backBuffer, held, scene, renderTarget, ortho>>

\* setTextureBlendMode(), setTextureColorMode(): sent, and not kept
SetBlending(b) ==
    /\ Calls /\ GoOn
    /\ asked' = [asked EXCEPT !.blending = b]
    /\ device' = Sent("blending", b)
    /\ met' = met \ {"blending"}
    /\ UNCHANGED <<cooperative, backBuffer, held, scene, renderTarget, ortho>>

\* load(), within setTexture() too; on a lost device it may succeed
LoadTexture(t) ==
    /\ Calls /\ GoOn /\ t \notin held
    /\ held' = held \cup {t}
    /\ met' = IF phase = "lost" THEN met \cup {"loaded while lost"} ELSE met
    /\ UNCHANGED <<cooperative, backBuffer, scene, renderTarget, asked, ortho, device>>

UnloadTexture(t) ==
    /\ Calls /\ GoOn /\ t \in held
    /\ held' = held \ {t}
    /\ UNCHANGED <<cooperative, backBuffer, scene, renderTarget, asked, ortho, device, met>>

\* setRenderTarget(): a scene is ended if the target was a texture and begun
\* if it becomes one, so that none is open when it becomes the back buffer.
\* Direct3D sets the viewport to the whole target; the one kept is not sent.
SetRenderTarget(t) ==
    /\ Calls /\ GoOn /\ (t = NoTarget \/ t \in held)
    /\ renderTarget' = t
    /\ device' = IF cooperative = "ok"
                 THEN [device EXCEPT !.target = t, !.viewport = WholeTarget] ELSE device
    /\ scene' = ((scene /\ renderTarget = NoTarget) \/ t # NoTarget)
    /\ met' = {"viewport"} \cup (IF t # NoTarget THEN met \ {"no scene", "forgotten target"}
                                 ELSE IF renderTarget # NoTarget
                                      THEN (met \ {"forgotten target"}) \cup {"no scene"}
                                 ELSE met)
    /\ UNCHANGED <<cooperative, backBuffer, held, asked, ortho>>

\* a texture unloaded, by a loss too, has no texture to take a surface from
TargetWithoutSurface(t) ==
    /\ Calls /\ t \notin held
    /\ End("texture without surface")
    /\ UNCHANGED <<cooperative, backBuffer, held, scene, renderTarget, asked, ortho, device, met>>

\* takeScreenshot() asks the back buffer, which is released during a loss
TakeScreenshot ==
    /\ Calls
    /\ IF backBuffer THEN GoOn ELSE End("no back buffer")
    /\ UNCHANGED <<cooperative, backBuffer, held, scene, renderTarget, asked, ortho, device, met>>
-----------------------------------------------------------------------------
(* Frames, loss and reset.                                                 *)

\* where a device set up anew differs from what the application asked for
Forgotten(mode, a) ==
    (IF a.depth THEN {} ELSE {"depth buffer"})
    \cup (IF a.projection = ortho THEN {} ELSE {"projection"})
    \cup (IF a.blending = "default" THEN {} ELSE {"blending"})
    \cup (IF renderTarget = NoTarget THEN {} ELSE {"forgotten target"})
    \cup (IF mode = a.fullscreen THEN {} ELSE {"mode"})

\* the viewport and the modelview matrix are sent again, and the projection that
\* setOrthoProjection(orthoProjection) puts in the place of projectionMatrix;
\* _configureDevice() sets the default modes, nobody restores the depth test,
\* which starts as on, and the library keeps its render target
SetUpAnew(mode, a) ==
    [target |-> NoTarget, viewport |-> a.viewport, modelview |-> a.modelview, projection |-> ortho,
     depth |-> TRUE, blending |-> "default", fullscreen |-> mode]

\* the viewport not sent again, a bug to be found
RestoredWithoutViewport(mode, a) ==
    /\ device' = [SetUpAnew(mode, a) EXCEPT !.viewport = WholeTarget]
    /\ cooperative' = "ok" /\ backBuffer' = TRUE /\ scene' = TRUE
    /\ met' = Forgotten(mode, a)

Restored(mode, a) ==
    /\ device' = SetUpAnew(mode, a)
    /\ cooperative' = "ok" /\ backBuffer' = TRUE /\ scene' = TRUE
    /\ met' = Forgotten(mode, a)

\* presentFrame() begins the next scene; a device found lost only when a
\* frame still being drawn is tried again is noticed with the next frame
PresentFrame ==
    /\ phase = "running" /\ GoOn
    /\ scene' = TRUE
    /\ met' = met \ {"no scene"}
    /\ UNCHANGED <<cooperative, backBuffer, held, renderTarget, asked, ortho, device>>

\* the textures kept, a bug to be found
PresentKeepingTextures ==
    /\ phase = "running" /\ cooperative # "ok"
    /\ phase' = "lost"
    /\ backBuffer' = FALSE /\ scene' = FALSE
    /\ UNCHANGED <<held, cooperative, renderTarget, asked, ortho, device, failure, met>>

\* presentFrame() finds the device lost, releases everything and waits
PresentLost ==
    /\ phase = "running" /\ cooperative # "ok"
    /\ phase' = "lost"
    /\ held' = {} /\ backBuffer' = FALSE /\ scene' = FALSE
    /\ UNCHANGED <<cooperative, renderTarget, asked, ortho, device, failure, met>>

\* one turn of the loop: Reset() when the device allows it, which refuses
\* while a surface is held
RestoreDevice ==
    /\ phase = "lost" /\ cooperative = "not reset"
    /\ IF held # {}
       THEN End("invalid call") /\ UNCHANGED <<cooperative, device, backBuffer, scene, met>>
       ELSE phase' = "running" /\ Restored(device.fullscreen, asked) /\ UNCHANGED failure
    /\ UNCHANGED <<held, renderTarget, asked, ortho>>

\* WM_SIZE within the loop draws and presents a frame, which finds the device
\* lost once more and releases the back buffer it no longer has
NestedFrame ==
    /\ phase = "lost" /\ End("no back buffer")
    /\ UNCHANGED <<cooperative, backBuffer, held, scene, renderTarget, asked, ortho, device, met>>

\* the window is closed within the loop
CloseWhileLost ==
    /\ phase = "lost" /\ End("closed")
    /\ UNCHANGED <<cooperative, backBuffer, held, scene, renderTarget, asked, ortho, device, met>>

\* _setResolution() does nothing during a loss.  A new mode, and any change of
\* a window that cannot be resized, resets the device with nothing held;
\* reset() repeats until the device allows it, and the model takes the turn
\* that succeeds.  A window that can be resized sets the viewport.
SetMode(v, full) ==
    LET view == IF asked.resizable THEN v ELSE asked.viewport IN
    /\ Calls /\ GoOn
    /\ \/ /\ ~backBuffer
          /\ asked' = [asked EXCEPT !.fullscreen = full]
          /\ met' = IF full = device.fullscreen THEN met \ {"mode"} ELSE met \cup {"mode"}
          /\ UNCHANGED <<cooperative, backBuffer, held, scene, device>>
       \/ /\ backBuffer /\ (full # device.fullscreen \/ ~asked.resizable)
          /\ asked' = [asked EXCEPT !.viewport = view, !.fullscreen = full]
          /\ held' = {} /\ Restored(full, asked')
       \/ /\ backBuffer /\ full = device.fullscreen /\ asked.resizable
          /\ asked' = [asked EXCEPT !.viewport = v, !.fullscreen = full]
          /\ device' = Sent("viewport", v)
          /\ met' = met \ {"viewport", "mode"}
          /\ UNCHANGED <<cooperative, backBuffer, held, scene>>
    /\ UNCHANGED <<renderTarget, ortho>>

\* the system takes the device away, and in time allows a reset
Cooperate ==
    /\ cooperative' \in IF cooperative = "lost" THEN {"not reset"} ELSE {"lost"}
    /\ UNCHANGED <<phase, backBuffer, held, scene, renderTarget, asked, ortho, device, failure, met>>

\* create() and assignWindow() with a depth buffer, whose test Direct3D starts
\* as on while the library says it is off; the rectangle is the window's
\* although the projection is still the identity
DX9Init ==
    /\ phase = "running" /\ cooperative = "ok" /\ backBuffer = TRUE
    /\ held = {} /\ scene = TRUE /\ renderTarget = NoTarget /\ ortho = WindowView
    /\ asked \in [viewport : {WindowView}, modelview : {StartMatrix}, projection : {StartMatrix},
                  depth : {FALSE}, blending : {"default"}, fullscreen : {FALSE}, resizable : BOOLEAN]
    /\ device = [target |-> NoTarget, viewport |-> WindowView, modelview |-> StartMatrix,
                 projection |-> StartMatrix, depth |-> TRUE, blending |-> "default", fullscreen |-> FALSE]
    /\ failure = "none" /\ met = {"depth buffer"}

\* the calls about matrices
DX9Matrices ==
    \/ \E m \in OtherMatrices : SetModelview(m)
    \/ \E v \in Views, m \in Matrices9 : SetOrthoProjection(v, m)
    \/ \E m \in Matrices9 : SetProjectionMatrix(m)

\* the calls about settings that are one value
DX9Settings ==
    \/ \E v \in Views : SetViewport(v)
    \/ \E on \in BOOLEAN : SetDepth(on)
    \/ \E b \in Blendings : SetBlending(b)

\* the calls about textures and targets
DX9Targets ==
    \/ \E t \in Targets : LoadTexture(t) \/ UnloadTexture(t) \/ TargetWithoutSurface(t)
    \/ \E t \in Targets \cup {NoTarget} : SetRenderTarget(t)
    \/ TakeScreenshot

\* frames, losses and resets
DX9Frames ==
    \/ PresentFrame \/ PresentLost \/ RestoreDevice \/ NestedFrame \/ CloseWhileLost
    \/ \E v \in Views, full \in BOOLEAN : SetMode(v, full)
    \/ Cooperate

DX9Next == DX9Matrices \/ DX9Settings \/ DX9Targets \/ DX9Frames

DX9Spec == DX9Init /\ [][DX9Next]_dx9Vars
-----------------------------------------------------------------------------
Defects == {"viewport", "projection", "depth buffer", "blending", "loaded while lost",
            "forgotten target", "no scene", "mode"}

DX9TypeOK ==
    /\ phase \in {"running", "lost", "ended"}
    /\ cooperative \in {"ok", "lost", "not reset"}
    /\ backBuffer \in BOOLEAN /\ held \subseteq Targets /\ scene \in BOOLEAN
    /\ renderTarget \in Targets \cup {NoTarget}
    /\ asked \in AskedState /\ ortho \in Views /\ device \in DeviceState
    /\ failure \in {"none", "invalid call", "texture without surface", "no back buffer", "closed"}
    /\ met \subseteq Defects

\* What the device draws with is what the application asked for, but for the
\* known defects, and then it is what the defect leaves: the viewport of a new
\* target; a projection made of the rectangle the library kept; the depth test
\* and the modes that a device starts with; the back buffer as target.
DrawsWithAsked ==
    /\ device.viewport = asked.viewport \/ ("viewport" \in met /\ device.viewport = WholeTarget)
    /\ device.modelview = asked.modelview
    /\ device.projection = asked.projection \/ ("projection" \in met /\ device.projection = ortho)
    /\ device.depth = asked.depth \/ ("depth buffer" \in met /\ device.depth)
    /\ device.blending = asked.blending \/ ("blending" \in met /\ device.blending = "default")
    /\ device.target = renderTarget \/ ("forgotten target" \in met /\ device.target = NoTarget)

\* While the library runs on a device that is there, the back buffer is held,
\* draws fall into a scene, and the device's viewport, matrices, depth test,
\* modes, target and window mode are those asked for, however often the device
\* was lost and reset between the calls.  Known defects: a reset restores
\* neither a projection that setProjectionMatrix(), setPerspective() or near and
\* far planes made, nor the depth test, blend and color modes or render target;
\* a new target takes the viewport; no scene is open after a texture was the
\* target; the window's mode set during a loss is dropped.
DeviceAsAsked ==
    phase = "running" =>
        /\ backBuffer
        /\ cooperative = "ok" => (scene \/ "no scene" \in met) /\ DrawsWithAsked
        /\ device.fullscreen = asked.fullscreen \/ "mode" \in met

\* Reset() is called with nothing held, so that it never ends the program,
\* unless the application loaded a texture from an event during the loss.
ResetsHoldNothing == failure = "invalid call" => "loaded while lost" \in met
=============================================================================
