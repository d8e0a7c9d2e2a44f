------------------------------- MODULE GLState -------------------------------
(***************************************************************************)
(* The OpenGL render system's three copies of the render state: what the   *)
(* application asked for (currentState, with the matrices of RenderSystem),*)
(* what the library believes the context to hold (deviceState), and what   *)
(* the context does hold.  Only differences between the first two are      *)
(* sent, before each draw.  Uploads of textures and a context created anew *)
(* change the third behind the other two.                                  *)
(*                                                                         *)
(* A setting that is one value, sent when it differs, is a member of a     *)
(* set: vertex arrays, blending, depth.  A texture's filter and address    *)
(* mode are treated alike by the code and are one value, its sampling.     *)
(***************************************************************************)
EXTENDS Integers, FiniteSets

CONSTANTS Textures,    \* the application's textures
          Names,       \* the names glGenTextures() can return
          Scaled,      \* the textures that fill their power-of-two surface partly
          Kinds,       \* the kinds of matrices: "modelview", "projection"
          Arrays,      \* the vertex arrays: "textureCoordinates", "color"
          Parameters,  \* settings the application changes: blending, depth
          Matrices,    \* matrices the application sets, Identity among them
          Identity,
          NoTexture    \* the NULL pointer

ASSUME GLAssumption ==
    /\ Names \subseteq Nat \ {0}
    /\ Scaled \subseteq Textures
    /\ Kinds \subseteq {"modelview", "projection"} /\ "projection" \in Kinds
    /\ "textureCoordinates" \in Arrays /\ Arrays \cap Parameters = {}
    /\ Identity \in Matrices \ Textures
    /\ NoTexture \notin Textures

VARIABLES
    matrix,         \* modelviewMatrix and projectionMatrix of RenderSystem
    changed,        \* the kinds of matrices marked as changed in currentState
    activeTexture,
    cur,            \* currentState: set, texture, sampling, colorMode
    dev,            \* deviceState: the same, with the matrices and their mode
    gl,             \* the context
    name,           \* OpenGL_Texture::textureId, 0 when not loaded
    filter,         \* the filter and address mode of each texture
    stale           \* history: what a known defect has left wrong in the context

glVars == <<matrix, changed, activeTexture, cur, dev, gl, name, filter, stale>>

Modes == {"modelview", "projection", "texture"}  \* of glMatrixMode()
Settings == Arrays \cup Parameters
Samplings == {"nearest", "linear"}
ColorModes == {"multiply", "lerp", "alpha map"}

\* the texture matrix that a texture needs
Scale(t) == IF t \in Scaled THEN t ELSE Identity
-----------------------------------------------------------------------------
(* The context, as the calls of the library use it.                        *)

\* a context just created
NewContext ==
    [set |-> {}, texture |-> 0, mode |-> "modelview",
     matrix |-> [k \in Modes |-> Identity],
     sampling |-> [n \in Names \cup {0} |-> "default"], objects |-> {},
     combines |-> FALSE, colorMode |-> "multiply"]

\* glBindTexture(): a name never used, or deleted, becomes a texture by it
Bound(g, n) == [g EXCEPT !.texture = n, !.objects = @ \cup ({n} \ {0})]

\* glTexParameteri() of the bound texture; FILTER_UNDEFINED is only warned of
Sampled(g, s) ==
    IF s = "undefined" THEN g ELSE [g EXCEPT !.sampling[g.texture] = s]

\* glDeleteTextures(): a bound texture is unbound, and a name used again is
\* a texture with the defaults
Deleted(g, ns) ==
    [g EXCEPT !.objects = @ \ ns, !.texture = IF @ \in ns THEN 0 ELSE @,
              !.sampling = [n \in DOMAIN @ |-> IF n \in ns THEN "default" ELSE @[n]]]

\* what the texture environment shows: the combiner's functions count only
\* after GL_TEXTURE_ENV_MODE was set to GL_COMBINE
ShownColorMode == IF gl.combines THEN gl.colorMode ELSE "multiply"
-----------------------------------------------------------------------------
(* Sending the differences.                                                *)

\* the mode known before sent instead of the new one, a bug to be found
LoadedInOldMode(b, kind, value) ==
    LET mode == IF b.dev.mode # kind THEN b.dev.mode ELSE b.gl.mode IN
    [dev |-> [b.dev EXCEPT !.mode = kind],
     gl |-> [b.gl EXCEPT !.mode = mode, !.matrix = [k \in DOMAIN @ |-> IF k = mode THEN value ELSE @[k]]]]

\* setMatrixMode() and glLoadMatrixf(): loads into the matrix of the mode
Loaded(b, kind, value) ==
    LET mode == IF b.dev.mode # kind THEN kind ELSE b.gl.mode IN
    [dev |-> [b.dev EXCEPT !.mode = kind],
     gl |-> [b.gl EXCEPT !.mode = mode, !.matrix[mode] = value]]

\* the sampling left as it was for the texture before, a bug to be found
BindKeepingSampling(b, c) ==
    IF c.texture = b.dev.texture THEN b
    ELSE LET l == Loaded([b EXCEPT !.gl = Bound(b.gl, c.texture)], "texture",
                         IF c.texture # 0 THEN Scale(activeTexture) ELSE Identity)
         IN [l EXCEPT !.dev.texture = c.texture]

\* the texture with its matrix; the sampling has to be sent again
BindApplied(b, c) ==
    IF c.texture = b.dev.texture THEN b
    ELSE LET l == Loaded([b EXCEPT !.gl = Bound(b.gl, c.texture)], "texture",
                         IF c.texture # 0 THEN Scale(activeTexture) ELSE Identity)
         IN [l EXCEPT !.dev.texture = c.texture, !.dev.sampling = "undefined"]

SamplingApplied(b, c) ==
    IF c.sampling # b.dev.sampling \/ b.dev.sampling = "undefined"
    THEN [dev |-> [b.dev EXCEPT !.sampling = c.sampling], gl |-> Sampled(b.gl, c.sampling)]
    ELSE b

\* settings that are one value: only those that differ are sent
SettingsApplied(b, c) ==
    [dev |-> [b.dev EXCEPT !.set = c.set],
     gl |-> [b.gl EXCEPT !.set = (@ \ (b.dev.set \ c.set)) \cup (c.set \ b.dev.set)]]

\* only CM_LERP sets the environment's mode to GL_COMBINE
ColorModeApplied(b, c) ==
    IF c.colorMode = b.dev.colorMode THEN b
    ELSE [dev |-> [b.dev EXCEPT !.colorMode = c.colorMode],
          gl |-> [b.gl EXCEPT !.combines = @ \/ c.colorMode = "lerp", !.colorMode = c.colorMode]]

\* a matrix is sent if it is marked and differs from the device's copy
Sends(b, kind, ms, marks) == kind \in marks /\ ms[kind] # b.dev.matrix[kind]
MatrixApplied(b, kind, ms, marks) ==
    IF Sends(b, kind, ms, marks)
    THEN LET l == Loaded(b, kind, ms[kind]) IN [l EXCEPT !.dev.matrix[kind] = ms[kind]]
    ELSE b

\* _applyStateChanges() with request c, matrices ms and marks, from bundle b
ApplyStateChanges(b, c, ms, marks) ==
    LET sent == ColorModeApplied(SettingsApplied(SamplingApplied(BindApplied(b, c), c), c), c)
        done == MatrixApplied(MatrixApplied(sent, "modelview", ms, marks), "projection", ms, marks)
        loads == {k \in Kinds : Sends(b, k, ms, marks)}
    IN /\ cur' = c /\ matrix' = ms
       /\ dev' = done.dev /\ gl' = done.gl
       /\ changed' = marks \ loads
       /\ stale' = (IF c.texture = b.dev.texture THEN stale
                    ELSE IF c.texture # 0 /\ name[activeTexture] # c.texture THEN stale \cup {"texture"}
                    ELSE stale \ {"texture"}) \ loads

Bundle == [dev |-> dev, gl |-> gl]
-----------------------------------------------------------------------------
(* Textures.                                                               *)

\* _setCurrentTexture() for texture t with name n
MadeCurrent(b, t, n) ==
    [dev |-> [b.dev EXCEPT !.texture = n, !.sampling = filter[t]],
     gl |-> Sampled(Bound(b.gl, n), filter[t])]

\* the cache not put back, a bug to be found
ForgottenPrevious(b, saved) ==
    IF saved.texture = 0 THEN b
    ELSE [dev |-> b.dev, gl |-> Sampled(Bound(b.gl, saved.texture), saved.sampling)]

\* _resetCurrentTexture(): back to the texture saved before, unless that is 0
MadePrevious(b, saved) ==
    IF saved.texture = 0 THEN b
    ELSE [dev |-> [b.dev EXCEPT !.texture = saved.texture, !.sampling = saved.sampling],
          gl |-> Sampled(Bound(b.gl, saved.texture), saved.sampling)]

\* one upload; if memory runs out, the low-memory handler unloads the
\* textures of the names in gone, and the upload is made again
Uploaded(b, t, n, oom, gone) ==
    LET once == MadePrevious(MadeCurrent(b, t, n), b.dev)
        freed == [once EXCEPT !.gl = Deleted(once.gl, gone)]
    IN IF oom THEN MadePrevious(MadeCurrent(freed, t, n), freed.dev) ELSE once

\* an upload that leaves its texture bound leaves the texture matrix as it was
StaleAfter(b, t, n) ==
    IF b.dev.texture # n THEN stale
    ELSE IF b.gl.matrix["texture"] # Scale(t) THEN stale \cup {"texture"} ELSE stale

\* load() if t has no name yet, with a name no texture has, and its upload;
\* the handler of low memory may unload any of the other textures
Load(t, oom) ==
    \E n \in IF name[t] = 0 THEN Names \ gl.objects ELSE {name[t]} :
    \E others \in IF oom THEN SUBSET {u \in Textures \ {t} : name[u] # 0} ELSE {{}} :
        LET b == Uploaded(Bundle, t, n, oom, {name[u] : u \in others}) IN
        /\ name' = [u \in Textures |-> IF u = t THEN n ELSE IF u \in others THEN 0 ELSE name[u]]
        /\ dev' = b.dev /\ gl' = b.gl /\ stale' = StaleAfter(b, t, n)

\* a texture is loaded or its data is written, within any call
Upload(t, oom) ==
    /\ Load(t, oom)
    /\ UNCHANGED <<matrix, changed, activeTexture, cur, filter>>

\* setTexture() loads what is not loaded
SetTexture(t) ==
    /\ activeTexture' = t
    /\ IF name[t] = 0 THEN Load(t, FALSE) ELSE UNCHANGED <<name, dev, gl, stale>>
    /\ cur' = [cur EXCEPT !.sampling = filter[t], !.texture = name'[t]]
    /\ UNCHANGED <<matrix, changed, filter>>

SetNoTexture ==
    /\ activeTexture' = NoTexture /\ cur' = [cur EXCEPT !.texture = 0]
    /\ UNCHANGED <<matrix, changed, dev, gl, name, filter, stale>>

\* setFilter(), setAddressMode() of a texture: sent when it is set again
SetFilter(t, s) ==
    /\ filter' = [filter EXCEPT ![t] = s]
    /\ UNCHANGED <<matrix, changed, activeTexture, cur, dev, gl, name, stale>>

Unload(t) ==
    /\ name[t] # 0
    /\ gl' = Deleted(gl, {name[t]})
    /\ name' = [name EXCEPT ![t] = 0]
    /\ UNCHANGED <<matrix, changed, activeTexture, cur, dev, filter, stale>>
-----------------------------------------------------------------------------
(* Settings, draws, window and context.                                    *)

\* setTextureBlendMode(), setDepthBuffer(): noted, sent with the next draw
SetParameter(p) ==
    /\ \E on \in BOOLEAN :
        cur' = [cur EXCEPT !.set = IF on THEN @ \cup {p} ELSE @ \ {p}]
    /\ UNCHANGED <<matrix, changed, activeTexture, dev, gl, name, filter, stale>>

SetTextureColorMode(mode) ==
    /\ cur' = [cur EXCEPT !.colorMode = mode]
    /\ UNCHANGED <<matrix, changed, activeTexture, dev, gl, name, filter, stale>>

SetMatrix(kind, m) ==
    /\ matrix' = [matrix EXCEPT ![kind] = m]
    /\ changed' = changed \cup {kind}
    /\ UNCHANGED <<activeTexture, cur, dev, gl, name, filter, stale>>

\* the six render(): arrays are the vertices' own.  The application draws
\* with textures only after setTexture() of one that is still loaded.
Render(arrays) ==
    /\ "textureCoordinates" \in arrays =>
        (cur.texture = 0 \/ (activeTexture # NoTexture /\ name[activeTexture] = cur.texture))
    /\ ApplyStateChanges(Bundle,
            [cur EXCEPT !.set = (@ \ Arrays) \cup arrays,
                        !.texture = IF "textureCoordinates" \in arrays THEN @ ELSE 0],
            matrix, changed)
    /\ UNCHANGED <<activeTexture, name, filter>>

\* _setResolution(): a new orthographic projection, applied at once
SetResolution(m) ==
    /\ ApplyStateChanges(Bundle, cur, [matrix EXCEPT !["projection"] = m], changed \cup {"projection"})
    /\ UNCHANGED <<activeTexture, name, filter>>

Requested0 == [set |-> {}, texture |-> 0, sampling |-> "nearest", colorMode |-> "undefined"]

\* deviceState.reset() leaves the matrices
DeviceReset(d) == [d EXCEPT !.set = {}, !.texture = 0, !.sampling = "undefined",
                            !.colorMode = "undefined", !.mode = "none"]

\* the textures were unloaded, the context is a new one, and reset() sets
\* up its defaults; a matrix equal to the device's old copy is not sent
ContextLost ==
    LET d == DeviceReset(dev)
        sent == SamplingApplied([dev |-> d, gl |-> NewContext], Requested0)
        done == MatrixApplied(MatrixApplied(sent, "modelview", matrix, Kinds), "projection", matrix, Kinds)
    IN /\ name' = [t \in Textures |-> 0]
       /\ cur' = Requested0
       /\ dev' = done.dev /\ gl' = done.gl
       /\ changed' = {k \in Kinds : matrix[k] = dev.matrix[k]}
       /\ stale' = {k \in Kinds : matrix[k] = dev.matrix[k] /\ matrix[k] # Identity}
       /\ UNCHANGED <<matrix, activeTexture, filter>>

\* create() and assignWindow()
GLInit ==
    /\ matrix = [k \in Kinds |-> Identity] /\ changed = {}
    /\ activeTexture = NoTexture
    /\ cur = Requested0
    /\ dev = [set |-> {}, texture |-> 0, sampling |-> "undefined", colorMode |-> "undefined",
              mode |-> "modelview", matrix |-> [k \in Kinds |-> Identity]]
    /\ gl = NewContext
    /\ name = [t \in Textures |-> 0]
    /\ filter = [t \in Textures |-> "linear"]
    /\ stale = {}

GLNext ==
    \/ \E t \in Textures, oom \in BOOLEAN : Upload(t, oom)
    \/ \E t \in Textures : SetTexture(t)
    \/ SetNoTexture
    \/ \E t \in Textures, s \in Samplings : SetFilter(t, s)
    \/ \E t \in Textures : Unload(t)
    \/ \E p \in Parameters : SetParameter(p)
    \/ \E mode \in ColorModes : SetTextureColorMode(mode)
    \/ \E kind \in Kinds, m \in Matrices : SetMatrix(kind, m)
    \/ \E arrays \in SUBSET Arrays : Render(arrays)
    \/ \E m \in Matrices \ {Identity} : SetResolution(m)
    \/ ContextLost

GLSpec == GLInit /\ [][GLNext]_glVars
-----------------------------------------------------------------------------
GLTypeOK ==
    /\ matrix \in [Kinds -> Matrices] /\ changed \subseteq Kinds
    /\ activeTexture \in Textures \cup {NoTexture}
    /\ cur \in [set : SUBSET Settings, texture : Names \cup {0}, sampling : Samplings,
                colorMode : ColorModes \cup {"undefined"}]
    /\ dev \in [set : SUBSET Settings, texture : Names \cup {0},
                sampling : Samplings \cup {"undefined"}, colorMode : ColorModes \cup {"undefined"},
                mode : Modes \cup {"none"}, matrix : [Kinds -> Matrices]]
    /\ gl \in [set : SUBSET Settings, texture : Names \cup {0}, mode : Modes,
               matrix : [Modes -> Matrices \cup Textures],
               sampling : [Names \cup {0} -> Samplings \cup {"default"}], objects : SUBSET Names,
               combines : BOOLEAN, colorMode : ColorModes]
    /\ name \in [Textures -> Names \cup {0}]
    /\ filter \in [Textures -> Samplings]
    /\ stale \subseteq Kinds \cup {"texture"}

\* Two loaded textures never share a name, every name is one the context
\* knows, and deviceState is what the context holds: its settings, its
\* matrices except one a known defect left behind, the sampling of the bound
\* texture if it is known, and the bound texture unless that was deleted.
CacheAgrees ==
    /\ \A t, u \in Textures : name[t] # 0 /\ name[t] = name[u] => t = u
    /\ \A t \in Textures : name[t] # 0 => name[t] \in gl.objects
    /\ dev.set = gl.set
    /\ dev.mode \in {gl.mode, "none"}
    /\ \A k \in Kinds \ stale : dev.matrix[k] = gl.matrix[k]
    /\ \A k \in Kinds \ changed : matrix[k] = dev.matrix[k]
    /\ dev.texture # gl.texture => gl.texture = 0 /\ dev.texture \notin gl.objects
    /\ dev.texture = gl.texture /\ dev.sampling # "undefined" =>
        gl.sampling[gl.texture] = dev.sampling
    /\ dev.colorMode # "undefined" => gl.colorMode = dev.colorMode
    /\ dev.colorMode = "undefined" => cur.colorMode = "undefined" \/ gl.colorMode = "multiply"

\* Whatever was uploaded, unloaded or created anew in between, a draw shows
\* what the application asked for: its settings, its texture with its filter
\* and its part of the surface, its matrices and its color mode.  Three
\* defects are known.  A context created anew has identities where the old
\* one had the application's matrices, until a different one is set.  An
\* upload while no texture is bound, or with the name of one deleted while
\* bound, leaves the texture bound without its matrix.  CM_ALPHA_MAP works
\* only once CM_LERP has been used in the context.
ShowsRequest ==
    /\ gl.set = cur.set
    /\ gl.texture = cur.texture
    /\ cur.texture # 0 => gl.sampling[cur.texture] = cur.sampling
    /\ cur.texture # 0 /\ "texture" \notin stale => gl.matrix["texture"] = Scale(activeTexture)
    /\ \A k \in Kinds \ stale : gl.matrix[k] = matrix[k]
    /\ \/ cur.colorMode \in {ShownColorMode, "undefined"}
       \/ cur.colorMode = "alpha map" /\ ~gl.combines
DrawsAsRequested == [][ShowsRequest' \/ ~ \E arrays \in SUBSET Arrays : Render(arrays)]_glVars
=============================================================================
