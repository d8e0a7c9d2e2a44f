---------------------------- MODULE DeviceSystems ----------------------------
(***************************************************************************)
(* The systems that can take a context, a device or the focus away from    *)
(* the library, each in the place of the one april::createRenderSystem()   *)
(* or the build chose.  An application on OpenGL makes its calls in        *)
(* groups: those about textures, about matrices, or about settings, each   *)
(* with draws and with contexts created anew between them.  The groups     *)
(* meet in the mode of the matrices only, which textures and matrices both *)
(* change.  On DirectX 9 the groups are matrices, settings, and textures   *)
(* with targets and viewports, each with losses; they meet in the          *)
(* reset only, which gives back, or not, each of the values by itself.     *)
(***************************************************************************)
EXTENDS GLState, DX9Device, AndroidLife, MacWindow

VARIABLE system   \* what is in use

SystemsOfDevices == {"textures", "matrices", "settings", "directx9 matrices", "directx9 settings",
                     "directx9 targets", "android", "mac"}

deviceVars == <<glVars, dx9Vars, androidVars, macVars, system>>

DeviceInit ==
    /\ GLInit /\ DX9Init /\ AndroidInit /\ MacInit
    /\ system \in SystemsOfDevices

\* the calls about textures; the vertices have no colors, and the filter changes
\* of those textures only that fill their surface partly
GLTextures ==
    \/ \E t \in Textures, oom \in BOOLEAN : Upload(t, oom)
    \/ \E t \in Textures : SetTexture(t)
    \/ SetNoTexture
    \/ \E t \in Scaled, s \in Samplings : SetFilter(t, s)
    \/ \E t \in Textures : Unload(t)
    \/ \E arrays \in SUBSET {"textureCoordinates"} : Render(arrays)
    \/ \E m \in Matrices \ {Identity} : SetResolution(m)
    \/ ContextLost

\* the calls about matrices, with textures that are loaded when set
GLMatrices ==
    \/ \E t \in Textures : SetTexture(t)
    \/ SetNoTexture
    \/ \E kind \in Kinds, m \in Matrices : SetMatrix(kind, m)
    \/ \E arrays \in SUBSET Arrays : Render(arrays)
    \/ \E m \in Matrices \ {Identity} : SetResolution(m)
    \/ ContextLost

\* the calls about settings that are one value
GLSettings ==
    \/ \E t \in Textures : SetTexture(t)
    \/ \E p \in Parameters : SetParameter(p)
    \/ \E mode \in ColorModes : SetTextureColorMode(mode)
    \/ \E arrays \in SUBSET Arrays : Render(arrays)
    \/ ContextLost

OpenGL ==
    /\ \/ system = "textures" /\ GLTextures
       \/ system = "matrices" /\ GLMatrices
       \/ system = "settings" /\ GLSettings
    /\ UNCHANGED <<dx9Vars, androidVars, macVars, system>>

DX9System == system \in {"directx9 matrices", "directx9 settings", "directx9 targets"}

DirectX9 ==
    /\ \/ system = "directx9 matrices" /\ DX9Matrices
       \/ system = "directx9 settings" /\ DX9Settings
       \/ system = "directx9 targets" /\ (DX9Targets \/ \E v \in Views : SetViewport(v))
       \/ DX9System /\ DX9Frames
    /\ UNCHANGED <<glVars, androidVars, macVars, system>>

AndroidProcess ==
    /\ system = "android" /\ AndroidNext
    /\ UNCHANGED <<glVars, dx9Vars, macVars, system>>

MacProcess ==
    /\ system = "mac" /\ MacNext
    /\ UNCHANGED <<glVars, dx9Vars, androidVars, system>>

DeviceNext == OpenGL \/ DirectX9 \/ AndroidProcess \/ MacProcess

DeviceSpec == DeviceInit /\ [][DeviceNext]_deviceVars
-----------------------------------------------------------------------------
\* The state of every system has its type.
TypeOK == GLTypeOK /\ DX9TypeOK /\ AndroidTypeOK /\ MacTypeOK /\ system \in SystemsOfDevices

\* On a Mac: the main thread and the thread of the frames never wait for each
\* other, unless a frame shows a message box (renderThreadSyncMutex).
MacWaitsOnlyForBox == system = "mac" => WaitsOnlyForBox
=============================================================================
