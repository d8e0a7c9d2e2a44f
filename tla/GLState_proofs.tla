--------------------------- MODULE GLState_proofs ---------------------------
(***************************************************************************)
(* Theorems about the copies of the render state in GLState, for all       *)
(* textures, names and settings: deviceState is what the context holds,    *)
(* and every draw shows what the application asked for.                    *)
(***************************************************************************)
EXTENDS GLState, TLAPS

TextureNames == Names \cup {0}

DevStates ==
    [set : SUBSET Settings, texture : TextureNames,
     sampling : Samplings \cup {"undefined"}, colorMode : ColorModes \cup {"undefined"},
     mode : Modes \cup {"none"}, matrix : [Kinds -> Matrices]]
Contexts ==
    [set : SUBSET Settings, texture : TextureNames, mode : Modes,
     matrix : [Modes -> Matrices \cup Textures],
     sampling : [TextureNames -> Samplings \cup {"default"}], objects : SUBSET Names,
     combines : BOOLEAN, colorMode : ColorModes]
Requests ==
    [set : SUBSET Settings, texture : TextureNames, sampling : Samplings,
     colorMode : ColorModes \cup {"undefined"}]
Bundles == [dev : DevStates, gl : Contexts]

(* What deviceState says of the context, whatever was asked for.           *)
TexturesAgree(b) ==
    /\ b.dev.texture # b.gl.texture => b.gl.texture = 0 /\ b.dev.texture \notin b.gl.objects
    /\ b.dev.texture = b.gl.texture /\ b.dev.sampling # "undefined" =>
        b.gl.sampling[b.gl.texture] = b.dev.sampling
ColorsAgree(b) ==
    /\ b.gl.colorMode = IF b.dev.colorMode = "undefined" THEN "multiply" ELSE b.dev.colorMode
    /\ b.gl.colorMode = "lerp" => b.gl.combines
Agreeing(b) ==
    /\ b.dev.set = b.gl.set
    /\ b.dev.mode \in {b.gl.mode, "none"}
    /\ TexturesAgree(b) /\ ColorsAgree(b)

(* A color mode that was never asked for in a context was never sent; and  *)
(* the texture asked for is the active one's, at least when it was set.    *)
AskedIsKnown ==
    /\ cur.colorMode = "undefined" => dev.colorMode = "undefined"
    /\ cur.texture # 0 => activeTexture # NoTexture

NamesKnown ==
    /\ \A t, u \in Textures : name[t] # 0 /\ name[t] = name[u] => t = u
    /\ \A t \in Textures : name[t] # 0 => name[t] \in gl.objects

MatricesAgree ==
    /\ \A k \in Kinds \ stale : dev.matrix[k] = gl.matrix[k]
    /\ \A k \in Kinds \ changed : matrix[k] = dev.matrix[k]
    /\ "texture" \notin stale =>
        \A t \in Textures : name[t] # 0 /\ name[t] = dev.texture => gl.matrix["texture"] = Scale(t)

GLInv ==
    /\ GLTypeOK /\ Agreeing(Bundle)
    /\ AskedIsKnown /\ NamesKnown /\ MatricesAgree
-----------------------------------------------------------------------------
(* The calls of the context.                                               *)

LEMMA Zero == 0 \notin Names /\ Identity \in Matrices /\ Kinds \subseteq Modes \ {"texture"}
BY GLAssumption DEF Modes

LEMMA BoundIs ==
    ASSUME NEW g \in Contexts, NEW n \in TextureNames
    PROVE  LET h == Bound(g, n) IN
           /\ h \in Contexts
           /\ h.texture = n /\ h.objects = g.objects \cup ({n} \ {0})
           /\ h.set = g.set /\ h.mode = g.mode /\ h.matrix = g.matrix /\ h.sampling = g.sampling
           /\ h.combines = g.combines /\ h.colorMode = g.colorMode
BY DEF Bound, Contexts, TextureNames

LEMMA SampledIs ==
    ASSUME NEW g \in Contexts, NEW s \in Samplings \cup {"undefined"}
    PROVE  LET h == Sampled(g, s) IN
           /\ h \in Contexts
           /\ s # "undefined" => h.sampling[g.texture] = s
           /\ h.texture = g.texture /\ h.objects = g.objects
           /\ h.set = g.set /\ h.mode = g.mode /\ h.matrix = g.matrix
           /\ h.combines = g.combines /\ h.colorMode = g.colorMode
BY DEF Sampled, Contexts, Samplings

LEMMA DeletedIs ==
    ASSUME NEW g \in Contexts, NEW ns \in SUBSET Names
    PROVE  LET h == Deleted(g, ns) IN
           /\ h \in Contexts
           /\ h.texture = IF g.texture \in ns THEN 0 ELSE g.texture
           /\ h.objects = g.objects \ ns
           /\ \A n \in TextureNames \ ns : h.sampling[n] = g.sampling[n]
           /\ h.set = g.set /\ h.mode = g.mode /\ h.matrix = g.matrix
           /\ h.combines = g.combines /\ h.colorMode = g.colorMode
BY DEF Deleted, Contexts, TextureNames
-----------------------------------------------------------------------------
(* Sending the differences.                                                *)

(* The matrix arrives in the mode it is meant for, whichever is known.     *)
LEMMA LoadedIs ==
    ASSUME NEW b \in Bundles, NEW kind \in Modes, NEW value \in Matrices \cup Textures,
           b.dev.mode \in {b.gl.mode, "none"}
    PROVE  LET l == Loaded(b, kind, value) IN
           /\ l \in Bundles
           /\ l.dev.mode = kind /\ l.gl.mode = kind /\ l.gl.matrix[kind] = value
           /\ \A k \in Modes \ {kind} : l.gl.matrix[k] = b.gl.matrix[k]
           /\ l.dev.set = b.dev.set /\ l.dev.texture = b.dev.texture /\ l.dev.matrix = b.dev.matrix
           /\ l.dev.sampling = b.dev.sampling /\ l.dev.colorMode = b.dev.colorMode
           /\ l.gl.set = b.gl.set /\ l.gl.texture = b.gl.texture /\ l.gl.objects = b.gl.objects
           /\ l.gl.sampling = b.gl.sampling
           /\ l.gl.combines = b.gl.combines /\ l.gl.colorMode = b.gl.colorMode
BY DEF Loaded, Bundles, DevStates, Contexts, Modes

LEMMA BindAppliedIs ==
    ASSUME NEW b \in Bundles, Agreeing(b), NEW c \in Requests,
           c.texture # 0 => activeTexture \in Textures
    PROVE  LET l == BindApplied(b, c) IN
           /\ l \in Bundles /\ Agreeing(l)
           /\ l.dev.texture = c.texture
           /\ c.texture # b.dev.texture => l.gl.texture = c.texture
           /\ c.texture = b.dev.texture => l = b
           /\ c.texture # b.dev.texture /\ c.texture # 0 => l.gl.matrix["texture"] = Scale(activeTexture)
           /\ b.gl.objects \subseteq l.gl.objects
           /\ l.dev.matrix = b.dev.matrix
           /\ \A k \in Kinds : l.gl.matrix[k] = b.gl.matrix[k]
           /\ l.dev.set = b.dev.set /\ l.dev.colorMode = b.dev.colorMode
PROOF
<1>1. CASE c.texture = b.dev.texture
  BY <1>1 DEF BindApplied
<1>2. CASE c.texture # b.dev.texture
  <2> DEFINE bound == [b EXCEPT !.gl = Bound(b.gl, c.texture)]
             value == IF c.texture # 0 THEN Scale(activeTexture) ELSE Identity
             l == Loaded(bound, "texture", value)
             r == [l EXCEPT !.dev.texture = c.texture, !.dev.sampling = "undefined"]
  <2>1. c.texture \in TextureNames /\ b.gl \in Contexts /\ b.dev \in DevStates
    BY DEF Requests, Bundles
  <2>2. bound.gl = Bound(b.gl, c.texture) /\ bound.dev = b.dev /\ bound \in Bundles
    BY <2>1, BoundIs DEF Bundles
  <2>3. value \in Matrices \cup Textures /\ "texture" \in Modes
    BY Zero DEF Scale, Modes
  <2>4. bound.dev.mode \in {bound.gl.mode, "none"}
    BY <2>1, <2>2, BoundIs DEF Agreeing
  <2>5. /\ l \in Bundles
        /\ l.dev.mode = "texture" /\ l.gl.mode = "texture" /\ l.gl.matrix["texture"] = value
        /\ \A k \in Modes \ {"texture"} : l.gl.matrix[k] = bound.gl.matrix[k]
        /\ l.dev.set = b.dev.set /\ l.dev.matrix = b.dev.matrix /\ l.dev.colorMode = b.dev.colorMode
        /\ l.gl.set = bound.gl.set /\ l.gl.texture = bound.gl.texture
        /\ l.gl.objects = bound.gl.objects
        /\ l.gl.combines = bound.gl.combines /\ l.gl.colorMode = bound.gl.colorMode
    <3> HIDE DEF bound, value
    <3> QED
      BY <2>2, <2>3, <2>4, LoadedIs
  <2>6. r = BindApplied(b, c)
    BY <1>2 DEF BindApplied
  <2>7. /\ r \in Bundles /\ r.gl = l.gl
        /\ r.dev.texture = c.texture /\ r.dev.sampling = "undefined" /\ r.dev.mode = "texture"
        /\ r.dev.set = b.dev.set /\ r.dev.colorMode = b.dev.colorMode /\ r.dev.matrix = b.dev.matrix
    <3> HIDE DEF l
    <3> QED
      BY <2>1, <2>5 DEF Bundles, DevStates
  <2>8. /\ bound.gl.texture = c.texture /\ bound.gl.set = b.gl.set /\ bound.gl.matrix = b.gl.matrix
        /\ bound.gl.objects = b.gl.objects \cup ({c.texture} \ {0})
        /\ bound.gl.combines = b.gl.combines /\ bound.gl.colorMode = b.gl.colorMode
    BY <2>1, <2>2, BoundIs
  <2> HIDE DEF r, l, value, bound
  <2>9. /\ r.gl.texture = c.texture /\ r.gl.mode = "texture" /\ r.gl.set = b.gl.set
        /\ r.gl.colorMode = b.gl.colorMode /\ r.gl.combines = b.gl.combines
        /\ r.gl.objects = b.gl.objects \cup ({c.texture} \ {0})
        /\ r.gl.matrix["texture"] = value /\ \A k \in Kinds : r.gl.matrix[k] = b.gl.matrix[k]
    BY <2>5, <2>7, <2>8, Zero
  <2>10. Agreeing(r)
    BY <2>7, <2>9 DEF Agreeing, TexturesAgree, ColorsAgree
  <2> QED
    BY <1>2, <2>6, <2>7, <2>9, <2>10 DEF value
<1> QED
  BY <1>1, <1>2

SameTexture(b, l) ==
    /\ l.dev.texture = b.dev.texture /\ l.gl.texture = b.gl.texture /\ l.gl.objects = b.gl.objects
SameMatrices(b, l) ==
    /\ l.dev.matrix = b.dev.matrix
    /\ \A k \in Kinds \cup {"texture"} : l.gl.matrix[k] = b.gl.matrix[k]

LEMMA SamplingAppliedIs ==
    ASSUME NEW b \in Bundles, Agreeing(b), NEW c \in Requests
    PROVE  LET l == SamplingApplied(b, c) IN
           /\ l \in Bundles /\ Agreeing(l)
           /\ l.dev.sampling = c.sampling
           /\ SameTexture(b, l) /\ SameMatrices(b, l)
           /\ l.dev.set = b.dev.set /\ l.dev.colorMode = b.dev.colorMode
PROOF
<1> DEFINE l == SamplingApplied(b, c)
           sends == c.sampling # b.dev.sampling \/ b.dev.sampling = "undefined"
<1>1. c.sampling \in Samplings /\ b.gl \in Contexts /\ b.dev \in DevStates
  BY DEF Requests, Bundles
<1>2. CASE ~sends
  <2>1. l = b /\ b.dev.sampling = c.sampling
    BY <1>1, <1>2 DEF SamplingApplied
  <2> QED
    BY <2>1 DEF SameTexture, SameMatrices
<1>3. CASE sends
  <2>1. l.gl = Sampled(b.gl, c.sampling) /\ l.dev = [b.dev EXCEPT !.sampling = c.sampling]
        /\ l = [dev |-> l.dev, gl |-> l.gl]
    BY <1>3 DEF SamplingApplied
  <2> HIDE DEF l
  <2>2. /\ l.dev \in DevStates /\ l.dev.sampling = c.sampling
        /\ l.dev.set = b.dev.set /\ l.dev.texture = b.dev.texture /\ l.dev.matrix = b.dev.matrix
        /\ l.dev.colorMode = b.dev.colorMode /\ l.dev.mode = b.dev.mode
    BY <1>1, <2>1 DEF DevStates
  <2>3. /\ l.gl \in Contexts /\ l.gl.sampling[b.gl.texture] = c.sampling
        /\ l.gl.texture = b.gl.texture /\ l.gl.objects = b.gl.objects
        /\ l.gl.set = b.gl.set /\ l.gl.mode = b.gl.mode /\ l.gl.matrix = b.gl.matrix
        /\ l.gl.combines = b.gl.combines /\ l.gl.colorMode = b.gl.colorMode
    BY <1>1, <2>1, SampledIs DEF Samplings
  <2>4. l \in Bundles
    BY <2>1, <2>2, <2>3 DEF Bundles
  <2>5. Agreeing(l)
    BY <2>2, <2>3 DEF Agreeing, TexturesAgree, ColorsAgree
  <2> QED
    BY <2>2, <2>3, <2>4, <2>5 DEF SameTexture, SameMatrices, l
<1> QED
  BY <1>2, <1>3

LEMMA SettingsAppliedIs ==
    ASSUME NEW b \in Bundles, Agreeing(b), NEW c \in Requests
    PROVE  LET l == SettingsApplied(b, c) IN
           /\ l \in Bundles /\ Agreeing(l)
           /\ l.dev.set = c.set
           /\ SameTexture(b, l) /\ SameMatrices(b, l)
           /\ l.dev.sampling = b.dev.sampling /\ l.dev.colorMode = b.dev.colorMode
PROOF
<1> DEFINE l == SettingsApplied(b, c)
<1>1. c.set \subseteq Settings /\ b.gl \in Contexts /\ b.dev \in DevStates
      /\ b.dev.set = b.gl.set
  BY DEF Requests, Bundles, Agreeing
<1>2. /\ l.dev = [b.dev EXCEPT !.set = c.set] /\ l = [dev |-> l.dev, gl |-> l.gl]
      /\ l.gl = [b.gl EXCEPT !.set = (@ \ (b.dev.set \ c.set)) \cup (c.set \ b.dev.set)]
  BY DEF SettingsApplied
<1>3. (b.gl.set \ (b.dev.set \ c.set)) \cup (c.set \ b.dev.set) = c.set
  BY <1>1
<1> HIDE DEF l
<1>4. /\ l.dev \in DevStates /\ l.dev.set = c.set
      /\ l.dev.sampling = b.dev.sampling /\ l.dev.texture = b.dev.texture
      /\ l.dev.matrix = b.dev.matrix /\ l.dev.colorMode = b.dev.colorMode /\ l.dev.mode = b.dev.mode
  BY <1>1, <1>2 DEF DevStates
<1>5. /\ l.gl \in Contexts /\ l.gl.set = c.set /\ l.gl.sampling = b.gl.sampling
      /\ l.gl.texture = b.gl.texture /\ l.gl.objects = b.gl.objects
      /\ l.gl.mode = b.gl.mode /\ l.gl.matrix = b.gl.matrix
      /\ l.gl.combines = b.gl.combines /\ l.gl.colorMode = b.gl.colorMode
  BY <1>1, <1>2, <1>3 DEF Contexts
<1>6. l \in Bundles
  BY <1>2, <1>4, <1>5 DEF Bundles
<1>7. Agreeing(l)
  BY <1>4, <1>5 DEF Agreeing, TexturesAgree, ColorsAgree
<1> QED
  BY <1>4, <1>5, <1>6, <1>7 DEF SameTexture, SameMatrices, l

LEMMA ColorModeAppliedIs ==
    ASSUME NEW b \in Bundles, Agreeing(b), NEW c \in Requests,
           c.colorMode = "undefined" => b.dev.colorMode = "undefined"
    PROVE  LET l == ColorModeApplied(b, c) IN
           /\ l \in Bundles /\ Agreeing(l)
           /\ l.dev.colorMode = c.colorMode
           /\ SameTexture(b, l) /\ SameMatrices(b, l)
           /\ l.dev.sampling = b.dev.sampling /\ l.dev.set = b.dev.set
PROOF
<1> DEFINE l == ColorModeApplied(b, c)
<1>1. c.colorMode \in ColorModes \cup {"undefined"} /\ b.gl \in Contexts /\ b.dev \in DevStates
  BY DEF Requests, Bundles
<1>2. CASE c.colorMode = b.dev.colorMode
  BY <1>2 DEF ColorModeApplied, SameTexture, SameMatrices
<1>3. CASE c.colorMode # b.dev.colorMode
  <2>1. /\ l.dev = [b.dev EXCEPT !.colorMode = c.colorMode] /\ l = [dev |-> l.dev, gl |-> l.gl]
        /\ l.gl = [b.gl EXCEPT !.combines = @ \/ c.colorMode = "lerp", !.colorMode = c.colorMode]
    BY <1>3 DEF ColorModeApplied
  <2>2. c.colorMode \in ColorModes
    BY <1>1, <1>3
  <2> HIDE DEF l
  <2>3. /\ l.dev \in DevStates /\ l.dev.colorMode = c.colorMode
        /\ l.dev.sampling = b.dev.sampling /\ l.dev.texture = b.dev.texture
        /\ l.dev.matrix = b.dev.matrix /\ l.dev.set = b.dev.set /\ l.dev.mode = b.dev.mode
    BY <1>1, <2>1 DEF DevStates
  <2>4. /\ l.gl \in Contexts /\ l.gl.set = b.gl.set /\ l.gl.sampling = b.gl.sampling
        /\ l.gl.texture = b.gl.texture /\ l.gl.objects = b.gl.objects
        /\ l.gl.mode = b.gl.mode /\ l.gl.matrix = b.gl.matrix
        /\ l.gl.colorMode = c.colorMode /\ (c.colorMode = "lerp" => l.gl.combines)
    BY <1>1, <2>1, <2>2 DEF Contexts
  <2>5. l \in Bundles
    BY <2>1, <2>3, <2>4 DEF Bundles
  <2>6. Agreeing(l)
    BY <2>2, <2>3, <2>4 DEF Agreeing, TexturesAgree, ColorsAgree, ColorModes
  <2> QED
    BY <2>3, <2>4, <2>5, <2>6 DEF SameTexture, SameMatrices, l
<1> QED
  BY <1>2, <1>3

LEMMA MatrixAppliedIs ==
    ASSUME NEW b \in Bundles, Agreeing(b), NEW kind \in {"modelview", "projection"},
           NEW ms \in [Kinds -> Matrices], NEW marks \in SUBSET Kinds
    PROVE  LET l == MatrixApplied(b, kind, ms, marks) IN
           /\ l \in Bundles /\ Agreeing(l)
           /\ Sends(b, kind, ms, marks) => l.dev.matrix[kind] = ms[kind] /\ l.gl.matrix[kind] = ms[kind]
           /\ ~Sends(b, kind, ms, marks) => l = b
           /\ \A k \in Kinds \ {kind} : l.dev.matrix[k] = b.dev.matrix[k]
           /\ \A k \in (Kinds \cup {"texture"}) \ {kind} : l.gl.matrix[k] = b.gl.matrix[k]
           /\ SameTexture(b, l)
           /\ l.dev.set = b.dev.set /\ l.dev.sampling = b.dev.sampling
           /\ l.dev.colorMode = b.dev.colorMode
PROOF
<1> DEFINE l == MatrixApplied(b, kind, ms, marks)
           m == Loaded(b, kind, ms[kind])
<1>1. CASE ~Sends(b, kind, ms, marks)
  <2>1. l = b
    BY <1>1 DEF MatrixApplied
  <2> HIDE DEF l
  <2> QED
    BY <1>1, <2>1 DEF SameTexture, l
<1>2. CASE Sends(b, kind, ms, marks)
  <2>1. kind \in Kinds /\ kind \in Modes /\ ms[kind] \in Matrices /\ b.dev.mode \in {b.gl.mode, "none"}
    BY <1>2 DEF Sends, Modes, Agreeing
  <2>2. /\ m \in Bundles /\ m.dev.mode = kind /\ m.gl.mode = kind /\ m.gl.matrix[kind] = ms[kind]
        /\ \A k \in Modes \ {kind} : m.gl.matrix[k] = b.gl.matrix[k]
        /\ m.dev.set = b.dev.set /\ m.dev.texture = b.dev.texture /\ m.dev.matrix = b.dev.matrix
        /\ m.dev.sampling = b.dev.sampling /\ m.dev.colorMode = b.dev.colorMode
        /\ m.gl.set = b.gl.set /\ m.gl.texture = b.gl.texture /\ m.gl.objects = b.gl.objects
        /\ m.gl.sampling = b.gl.sampling
        /\ m.gl.combines = b.gl.combines /\ m.gl.colorMode = b.gl.colorMode
    BY <2>1, LoadedIs
  <2>3. l = [m EXCEPT !.dev.matrix[kind] = ms[kind]]
    BY <1>2 DEF MatrixApplied
  <2> HIDE DEF l, m
  <2>4. /\ l \in Bundles /\ l.gl = m.gl /\ l.dev.matrix[kind] = ms[kind]
        /\ \A k \in Kinds \ {kind} : l.dev.matrix[k] = m.dev.matrix[k]
        /\ l.dev.set = m.dev.set /\ l.dev.texture = m.dev.texture /\ l.dev.mode = m.dev.mode
        /\ l.dev.sampling = m.dev.sampling /\ l.dev.colorMode = m.dev.colorMode
    BY <2>1, <2>2, <2>3 DEF Bundles, DevStates
  <2>5. Agreeing(l)
    BY <2>2, <2>4 DEF Agreeing, TexturesAgree, ColorsAgree
  <2>6. SameTexture(b, l)
    BY <2>2, <2>4 DEF SameTexture
  <2> QED
    BY <1>2, <2>2, <2>4, <2>5, <2>6, Zero DEF Modes, l
<1> QED
  BY <1>1, <1>2

(* What a call of _applyStateChanges() leaves behind: deviceState and the  *)
(* context hold the request c, and the matrices that were marked.          *)
RequestSent(b, c) == ColorModeApplied(SettingsApplied(SamplingApplied(BindApplied(b, c), c), c), c)
Applied(b, c, ms, marks) ==
    MatrixApplied(MatrixApplied(RequestSent(b, c), "modelview", ms, marks), "projection", ms, marks)

LEMMA SentIs ==
    ASSUME NEW b \in Bundles, Agreeing(b), NEW c \in Requests,
           c.texture # 0 => activeTexture \in Textures,
           c.colorMode = "undefined" => b.dev.colorMode = "undefined"
    PROVE  LET l == RequestSent(b, c) IN
           /\ l \in Bundles /\ Agreeing(l)
           /\ l.dev.set = c.set /\ l.dev.texture = c.texture /\ l.dev.sampling = c.sampling
           /\ l.dev.colorMode = c.colorMode
           /\ l.gl.texture = IF c.texture = b.dev.texture THEN b.gl.texture ELSE c.texture
           /\ b.gl.objects \subseteq l.gl.objects
           /\ c.texture = b.dev.texture => l.gl.matrix["texture"] = b.gl.matrix["texture"]
                                           /\ l.gl.objects = b.gl.objects
           /\ c.texture # b.dev.texture /\ c.texture # 0 => l.gl.matrix["texture"] = Scale(activeTexture)
           /\ l.dev.matrix = b.dev.matrix
           /\ \A k \in Kinds : l.gl.matrix[k] = b.gl.matrix[k]
PROOF
<1> DEFINE l1 == BindApplied(b, c)
           l2 == SamplingApplied(l1, c)
           l3 == SettingsApplied(l2, c)
           l4 == ColorModeApplied(l3, c)
<1>1. /\ l1 \in Bundles /\ Agreeing(l1) /\ l1.dev.texture = c.texture
      /\ l1.gl.texture = IF c.texture = b.dev.texture THEN b.gl.texture ELSE c.texture
      /\ c.texture = b.dev.texture => l1 = b
      /\ c.texture # b.dev.texture /\ c.texture # 0 => l1.gl.matrix["texture"] = Scale(activeTexture)
      /\ b.gl.objects \subseteq l1.gl.objects
      /\ l1.dev.matrix = b.dev.matrix /\ l1.dev.colorMode = b.dev.colorMode
      /\ \A k \in Kinds : l1.gl.matrix[k] = b.gl.matrix[k]
  BY BindAppliedIs
<1> HIDE DEF l1
<1>2. /\ l2 \in Bundles /\ Agreeing(l2) /\ l2.dev.sampling = c.sampling
      /\ SameTexture(l1, l2) /\ SameMatrices(l1, l2) /\ l2.dev.colorMode = l1.dev.colorMode
  BY <1>1, SamplingAppliedIs
<1> HIDE DEF l2
<1>3. /\ l3 \in Bundles /\ Agreeing(l3) /\ l3.dev.set = c.set
      /\ SameTexture(l2, l3) /\ SameMatrices(l2, l3)
      /\ l3.dev.sampling = l2.dev.sampling /\ l3.dev.colorMode = l2.dev.colorMode
  BY <1>2, SettingsAppliedIs
<1> HIDE DEF l3
<1>4. /\ l4 \in Bundles /\ Agreeing(l4) /\ l4.dev.colorMode = c.colorMode
      /\ SameTexture(l3, l4) /\ SameMatrices(l3, l4)
      /\ l4.dev.sampling = l3.dev.sampling /\ l4.dev.set = l3.dev.set
  BY <1>1, <1>2, <1>3, ColorModeAppliedIs
<1> HIDE DEF l4
<1>5. l4 = RequestSent(b, c)
  BY DEF RequestSent, l1, l2, l3, l4
<1>6. SameTexture(l1, l4) /\ SameMatrices(l1, l4)
  BY <1>2, <1>3, <1>4 DEF SameTexture, SameMatrices
<1> QED
  BY <1>1, <1>2, <1>3, <1>4, <1>5, <1>6 DEF SameTexture, SameMatrices

LEMMA AppliedIs ==
    ASSUME NEW b \in Bundles, Agreeing(b), NEW c \in Requests,
           NEW ms \in [Kinds -> Matrices], NEW marks \in SUBSET Kinds,
           c.texture # 0 => activeTexture \in Textures,
           c.colorMode = "undefined" => b.dev.colorMode = "undefined"
    PROVE  LET l == Applied(b, c, ms, marks) IN
           /\ l \in Bundles /\ Agreeing(l)
           /\ l.dev.set = c.set /\ l.dev.texture = c.texture /\ l.dev.sampling = c.sampling
           /\ l.dev.colorMode = c.colorMode
           /\ l.gl.texture = IF c.texture = b.dev.texture THEN b.gl.texture ELSE c.texture
           /\ b.gl.objects \subseteq l.gl.objects
           /\ c.texture = b.dev.texture => l.gl.matrix["texture"] = b.gl.matrix["texture"]
                                           /\ l.gl.objects = b.gl.objects
           /\ c.texture # b.dev.texture /\ c.texture # 0 => l.gl.matrix["texture"] = Scale(activeTexture)
           /\ \A k \in Kinds :
                IF Sends(b, k, ms, marks) THEN l.dev.matrix[k] = ms[k] /\ l.gl.matrix[k] = ms[k]
                ELSE l.dev.matrix[k] = b.dev.matrix[k] /\ l.gl.matrix[k] = b.gl.matrix[k]
PROOF
<1> DEFINE s == RequestSent(b, c)
           m == MatrixApplied(s, "modelview", ms, marks)
           l == MatrixApplied(m, "projection", ms, marks)
<1>1. /\ s \in Bundles /\ Agreeing(s)
      /\ s.dev.set = c.set /\ s.dev.texture = c.texture /\ s.dev.sampling = c.sampling
      /\ s.dev.colorMode = c.colorMode
      /\ s.gl.texture = IF c.texture = b.dev.texture THEN b.gl.texture ELSE c.texture
      /\ b.gl.objects \subseteq s.gl.objects
      /\ c.texture = b.dev.texture => s.gl.matrix["texture"] = b.gl.matrix["texture"]
                                      /\ s.gl.objects = b.gl.objects
      /\ c.texture # b.dev.texture /\ c.texture # 0 => s.gl.matrix["texture"] = Scale(activeTexture)
      /\ s.dev.matrix = b.dev.matrix
      /\ \A k \in Kinds : s.gl.matrix[k] = b.gl.matrix[k]
  BY SentIs
<1> HIDE DEF s
<1>2. /\ m \in Bundles /\ Agreeing(m)
      /\ Sends(s, "modelview", ms, marks) =>
            m.dev.matrix["modelview"] = ms["modelview"] /\ m.gl.matrix["modelview"] = ms["modelview"]
      /\ ~Sends(s, "modelview", ms, marks) => m = s
      /\ \A k \in Kinds \ {"modelview"} : m.dev.matrix[k] = s.dev.matrix[k]
      /\ \A k \in (Kinds \cup {"texture"}) \ {"modelview"} : m.gl.matrix[k] = s.gl.matrix[k]
      /\ SameTexture(s, m)
      /\ m.dev.set = s.dev.set /\ m.dev.sampling = s.dev.sampling /\ m.dev.colorMode = s.dev.colorMode
  BY <1>1, MatrixAppliedIs
<1> HIDE DEF m
<1>3. /\ l \in Bundles /\ Agreeing(l)
      /\ Sends(m, "projection", ms, marks) =>
            l.dev.matrix["projection"] = ms["projection"] /\ l.gl.matrix["projection"] = ms["projection"]
      /\ ~Sends(m, "projection", ms, marks) => l = m
      /\ \A k \in Kinds \ {"projection"} : l.dev.matrix[k] = m.dev.matrix[k]
      /\ \A k \in (Kinds \cup {"texture"}) \ {"projection"} : l.gl.matrix[k] = m.gl.matrix[k]
      /\ SameTexture(m, l)
      /\ l.dev.set = m.dev.set /\ l.dev.sampling = m.dev.sampling /\ l.dev.colorMode = m.dev.colorMode
  BY <1>2, MatrixAppliedIs
<1> HIDE DEF l
<1>4. l = Applied(b, c, ms, marks)
  BY DEF Applied, s, m, l
<1>5. l.gl.matrix["texture"] = s.gl.matrix["texture"]
  BY <1>2, <1>3
<1>6. ASSUME NEW k \in Kinds
      PROVE  IF Sends(b, k, ms, marks) THEN l.dev.matrix[k] = ms[k] /\ l.gl.matrix[k] = ms[k]
             ELSE l.dev.matrix[k] = b.dev.matrix[k] /\ l.gl.matrix[k] = b.gl.matrix[k]
  <2>1. CASE k = "modelview"
    BY <1>1, <1>2, <1>3, <2>1 DEF Sends
  <2>2. CASE k = "projection"
    BY <1>1, <1>2, <1>3, <2>2 DEF Sends
  <2> QED
    BY <2>1, <2>2, GLAssumption
<1> QED
  BY <1>1, <1>2, <1>3, <1>4, <1>5, <1>6 DEF SameTexture
-----------------------------------------------------------------------------
(* Uploads, which go behind the cache and put it back.                     *)

(* Neither an upload nor a deletion touches matrices, settings or colors.  *)
SameElse(b, l) ==
    /\ l.dev.matrix = b.dev.matrix /\ l.gl.matrix = b.gl.matrix
    /\ l.dev.set = b.dev.set /\ l.gl.set = b.gl.set /\ l.dev.mode = b.dev.mode /\ l.gl.mode = b.gl.mode
    /\ l.dev.colorMode = b.dev.colorMode /\ l.gl.colorMode = b.gl.colorMode
    /\ l.gl.combines = b.gl.combines

LEMMA MadeCurrentIs ==
    ASSUME NEW b \in Bundles, Agreeing(b), NEW t \in Textures, NEW n \in Names,
           filter \in [Textures -> Samplings]
    PROVE  LET l == MadeCurrent(b, t, n) IN
           /\ l \in Bundles /\ Agreeing(l) /\ SameElse(b, l)
           /\ l.dev.texture = n /\ l.gl.objects = b.gl.objects \cup {n}
PROOF
<1> DEFINE l == MadeCurrent(b, t, n)
           g == Bound(b.gl, n)
<1>1. b.gl \in Contexts /\ b.dev \in DevStates /\ n \in TextureNames /\ n # 0 /\ filter[t] \in Samplings
      /\ filter[t] # "undefined"
  BY Zero DEF Bundles, TextureNames, Samplings
<1>2. /\ g \in Contexts /\ g.texture = n /\ g.objects = b.gl.objects \cup {n}
      /\ g.set = b.gl.set /\ g.mode = b.gl.mode /\ g.matrix = b.gl.matrix
      /\ g.combines = b.gl.combines /\ g.colorMode = b.gl.colorMode
  BY <1>1, BoundIs
<1>3. /\ l.dev = [b.dev EXCEPT !.texture = n, !.sampling = filter[t]]
      /\ l.gl = Sampled(g, filter[t]) /\ l = [dev |-> l.dev, gl |-> l.gl]
  BY DEF MadeCurrent
<1> HIDE DEF l, g
<1>4. /\ l.dev \in DevStates /\ l.dev.texture = n /\ l.dev.sampling = filter[t]
      /\ l.dev.matrix = b.dev.matrix /\ l.dev.set = b.dev.set /\ l.dev.mode = b.dev.mode
      /\ l.dev.colorMode = b.dev.colorMode
  BY <1>1, <1>3 DEF DevStates
<1>5. /\ l.gl \in Contexts /\ l.gl.sampling[n] = filter[t]
      /\ l.gl.texture = n /\ l.gl.objects = g.objects
      /\ l.gl.set = g.set /\ l.gl.mode = g.mode /\ l.gl.matrix = g.matrix
      /\ l.gl.combines = g.combines /\ l.gl.colorMode = g.colorMode
  BY <1>1, <1>2, <1>3, SampledIs
<1>6. l \in Bundles
  BY <1>3, <1>4, <1>5 DEF Bundles
<1>7. SameElse(b, l)
  BY <1>2, <1>4, <1>5 DEF SameElse
<1>8. Agreeing(l)
  BY <1>4, <1>5, <1>7 DEF Agreeing, TexturesAgree, ColorsAgree, SameElse
<1> QED
  BY <1>2, <1>4, <1>5, <1>6, <1>7, <1>8 DEF l

LEMMA MadePreviousIs ==
    ASSUME NEW b \in Bundles, Agreeing(b), NEW saved \in DevStates
    PROVE  LET l == MadePrevious(b, saved) IN
           /\ l \in Bundles /\ Agreeing(l) /\ SameElse(b, l)
           /\ l.dev.texture = IF saved.texture = 0 THEN b.dev.texture ELSE saved.texture
           /\ b.gl.objects \subseteq l.gl.objects
PROOF
<1> DEFINE l == MadePrevious(b, saved)
           g == Bound(b.gl, saved.texture)
<1>1. b.gl \in Contexts /\ b.dev \in DevStates /\ saved.texture \in TextureNames
      /\ saved.sampling \in Samplings \cup {"undefined"}
  BY DEF Bundles, DevStates
<1>2. CASE saved.texture = 0
  BY <1>2 DEF MadePrevious, SameElse
<1>3. CASE saved.texture # 0
  <2>1. /\ g \in Contexts /\ g.texture = saved.texture
        /\ g.objects = b.gl.objects \cup ({saved.texture} \ {0})
        /\ g.set = b.gl.set /\ g.mode = b.gl.mode /\ g.matrix = b.gl.matrix
        /\ g.combines = b.gl.combines /\ g.colorMode = b.gl.colorMode
    BY <1>1, BoundIs
  <2>2. /\ l.dev = [b.dev EXCEPT !.texture = saved.texture, !.sampling = saved.sampling]
        /\ l.gl = Sampled(g, saved.sampling) /\ l = [dev |-> l.dev, gl |-> l.gl]
    BY <1>3 DEF MadePrevious
  <2> HIDE DEF l, g
  <2>3. /\ l.dev \in DevStates /\ l.dev.texture = saved.texture /\ l.dev.sampling = saved.sampling
        /\ l.dev.matrix = b.dev.matrix /\ l.dev.set = b.dev.set /\ l.dev.mode = b.dev.mode
        /\ l.dev.colorMode = b.dev.colorMode
    BY <1>1, <2>2 DEF DevStates
  <2>4. /\ l.gl \in Contexts
        /\ saved.sampling # "undefined" => l.gl.sampling[saved.texture] = saved.sampling
        /\ l.gl.texture = saved.texture /\ l.gl.objects = g.objects
        /\ l.gl.set = g.set /\ l.gl.mode = g.mode /\ l.gl.matrix = g.matrix
        /\ l.gl.combines = g.combines /\ l.gl.colorMode = g.colorMode
    BY <1>1, <2>1, <2>2, SampledIs
  <2>5. l \in Bundles
    BY <2>2, <2>3, <2>4 DEF Bundles
  <2>6. SameElse(b, l)
    BY <2>1, <2>3, <2>4 DEF SameElse
  <2>7. Agreeing(l)
    BY <2>3, <2>4, <2>6 DEF Agreeing, TexturesAgree, ColorsAgree, SameElse
  <2> QED
    BY <1>3, <2>1, <2>3, <2>4, <2>5, <2>6, <2>7 DEF l
<1> QED
  BY <1>2, <1>3

(* A bound texture that is deleted leaves deviceState with a name that is  *)
(* no texture, and the context with none bound.                            *)
LEMMA FreedIs ==
    ASSUME NEW b \in Bundles, Agreeing(b), NEW ns \in SUBSET Names
    PROVE  LET l == [b EXCEPT !.gl = Deleted(b.gl, ns)] IN
           /\ l \in Bundles /\ Agreeing(l) /\ SameElse(b, l)
           /\ l.dev = b.dev /\ l.gl = Deleted(b.gl, ns) /\ l.gl.objects = b.gl.objects \ ns
PROOF
<1> DEFINE l == [b EXCEPT !.gl = Deleted(b.gl, ns)]
<1>1. b.gl \in Contexts /\ b.dev \in DevStates
  BY DEF Bundles
<1>2. b.gl.texture \in TextureNames
  BY <1>1 DEF Contexts
<1>3. l.dev = b.dev /\ l.gl = Deleted(b.gl, ns) /\ l = [dev |-> l.dev, gl |-> l.gl]
  BY DEF Bundles
<1> HIDE DEF l
<1>4. /\ l.gl \in Contexts
      /\ l.gl.texture = IF b.gl.texture \in ns THEN 0 ELSE b.gl.texture
      /\ l.gl.objects = b.gl.objects \ ns
      /\ \A n \in TextureNames \ ns : l.gl.sampling[n] = b.gl.sampling[n]
      /\ l.gl.set = b.gl.set /\ l.gl.mode = b.gl.mode /\ l.gl.matrix = b.gl.matrix
      /\ l.gl.combines = b.gl.combines /\ l.gl.colorMode = b.gl.colorMode
  BY <1>1, <1>3, DeletedIs
<1>5. l \in Bundles
  BY <1>1, <1>3, <1>4 DEF Bundles
<1>6. SameElse(b, l)
  BY <1>3, <1>4 DEF SameElse
<1>7. TexturesAgree(l)
  BY <1>2, <1>3, <1>4, Zero DEF Agreeing, TexturesAgree
<1>8. Agreeing(l)
  BY <1>3, <1>6, <1>7 DEF Agreeing, ColorsAgree, SameElse
<1> QED
  BY <1>3, <1>4, <1>5, <1>6, <1>8 DEF l

LEMMA UploadedIs ==
    ASSUME NEW b \in Bundles, Agreeing(b), NEW t \in Textures, NEW n \in Names,
           NEW oom \in BOOLEAN, NEW gone \in SUBSET Names, filter \in [Textures -> Samplings]
    PROVE  LET l == Uploaded(b, t, n, oom, gone) IN
           /\ l \in Bundles /\ Agreeing(l) /\ SameElse(b, l)
           /\ l.dev.texture = IF b.dev.texture = 0 THEN n ELSE b.dev.texture
           /\ n \in l.gl.objects /\ b.gl.objects \ gone \subseteq l.gl.objects
PROOF
<1> DEFINE m == MadeCurrent(b, t, n)
           once == MadePrevious(m, b.dev)
           freed == [once EXCEPT !.gl = Deleted(once.gl, gone)]
           m2 == MadeCurrent(freed, t, n)
           twice == MadePrevious(m2, freed.dev)
<1>1. b.dev \in DevStates /\ n # 0
  BY Zero DEF Bundles
<1>2. /\ m \in Bundles /\ Agreeing(m) /\ SameElse(b, m)
      /\ m.dev.texture = n /\ m.gl.objects = b.gl.objects \cup {n}
  BY MadeCurrentIs
<1> HIDE DEF m
<1>3. /\ once \in Bundles /\ Agreeing(once) /\ SameElse(m, once)
      /\ once.dev.texture = IF b.dev.texture = 0 THEN n ELSE b.dev.texture
      /\ m.gl.objects \subseteq once.gl.objects
  BY <1>1, <1>2, MadePreviousIs
<1> HIDE DEF once
<1>4. /\ freed \in Bundles /\ Agreeing(freed) /\ SameElse(once, freed)
      /\ freed.dev = once.dev /\ freed.gl.objects = once.gl.objects \ gone
  BY <1>3, FreedIs
<1> HIDE DEF freed
<1>5. freed.dev \in DevStates
  BY <1>4 DEF Bundles
<1>6. /\ m2 \in Bundles /\ Agreeing(m2) /\ SameElse(freed, m2)
      /\ m2.dev.texture = n /\ m2.gl.objects = freed.gl.objects \cup {n}
  BY <1>4, MadeCurrentIs
<1> HIDE DEF m2
<1>7. /\ twice \in Bundles /\ Agreeing(twice) /\ SameElse(m2, twice)
      /\ twice.dev.texture = IF freed.dev.texture = 0 THEN n ELSE freed.dev.texture
      /\ m2.gl.objects \subseteq twice.gl.objects
  BY <1>5, <1>6, MadePreviousIs
<1> HIDE DEF twice
<1>8. Uploaded(b, t, n, oom, gone) = IF oom THEN twice ELSE once
  BY DEF Uploaded, twice, m2, freed, once, m
<1>9. SameElse(b, once) /\ SameElse(b, twice)
  BY <1>2, <1>3, <1>4, <1>6, <1>7 DEF SameElse
<1>10. /\ n \in once.gl.objects /\ b.gl.objects \subseteq once.gl.objects
       /\ n \in twice.gl.objects /\ b.gl.objects \ gone \subseteq twice.gl.objects
  BY <1>2, <1>3, <1>4, <1>6, <1>7
<1>11. twice.dev.texture = IF b.dev.texture = 0 THEN n ELSE b.dev.texture
  BY <1>1, <1>3, <1>4, <1>7
<1> QED
  BY <1>3, <1>7, <1>8, <1>9, <1>10, <1>11
-----------------------------------------------------------------------------
(* The invariant, step by step.                                            *)

LEMMA GLTypes ==
    GLTypeOK <=>
        /\ matrix \in [Kinds -> Matrices] /\ changed \subseteq Kinds
        /\ activeTexture \in Textures \cup {NoTexture}
        /\ cur \in Requests /\ dev \in DevStates /\ gl \in Contexts
        /\ name \in [Textures -> TextureNames] /\ filter \in [Textures -> Samplings]
        /\ stale \subseteq Kinds \cup {"texture"}
BY DEF GLTypeOK, Requests, DevStates, Contexts, TextureNames

LEMMA BundleIs == Bundle.dev = dev /\ Bundle.gl = gl /\ (GLTypeOK => Bundle \in Bundles)
BY GLTypes DEF Bundle, Bundles

LEMMA NewContextIs ==
    /\ NewContext \in Contexts
    /\ NewContext.texture = 0 /\ NewContext.set = {} /\ NewContext.mode = "modelview"
    /\ \A k \in Modes : NewContext.matrix[k] = Identity
    /\ NewContext.colorMode = "multiply" /\ NewContext.combines = FALSE
BY Zero DEF NewContext, Contexts, TextureNames, Modes, ColorModes

LEMMA GLInvInit == GLInit => GLInv
PROOF
<1> SUFFICES ASSUME GLInit PROVE GLInv
  OBVIOUS
<1>1. Identity \in Matrices
  BY Zero
<1>2. dev \in DevStates /\ dev.set = {} /\ dev.texture = 0 /\ dev.sampling = "undefined"
      /\ dev.colorMode = "undefined" /\ dev.mode = "modelview"
      /\ \A k \in Kinds : dev.matrix[k] = Identity
  BY <1>1 DEF GLInit, DevStates, TextureNames, Modes
<1>3. cur \in Requests /\ cur.texture = 0
  BY DEF GLInit, Requested0, Requests, TextureNames, Samplings
<1>4. gl = NewContext
  BY DEF GLInit
<1>5. GLTypeOK
  BY <1>1, <1>2, <1>3, <1>4, NewContextIs, GLTypes DEF GLInit, TextureNames, Samplings
<1>6. Agreeing(Bundle)
  BY <1>2, <1>4, NewContextIs, BundleIs DEF Agreeing, TexturesAgree, ColorsAgree
<1>7. AskedIsKnown /\ NamesKnown
  BY <1>2, <1>3 DEF AskedIsKnown, NamesKnown, GLInit
<1>8. MatricesAgree
  BY <1>2, <1>4, NewContextIs, Zero DEF MatricesAgree, GLInit
<1> QED
  BY <1>5, <1>6, <1>7, <1>8 DEF GLInv

(* What stays of the invariant while deviceState, the context and the      *)
(* names stay.                                                             *)
LEMMA AgreeingKept ==
    ASSUME Agreeing(Bundle), UNCHANGED <<dev, gl>>
    PROVE  Agreeing(Bundle')
BY DEF Bundle

LEMMA NamesKept ==
    ASSUME NamesKnown, UNCHANGED <<name, gl>>
    PROVE  NamesKnown'
BY DEF NamesKnown

(* An upload, of a texture that may need a name.                           *)
LEMMA LoadIs ==
    ASSUME GLInv, NEW t \in Textures, NEW oom \in BOOLEAN, Load(t, oom)
    PROVE  /\ dev' \in DevStates /\ gl' \in Contexts /\ Agreeing(Bundle')
           /\ name' \in [Textures -> TextureNames] /\ stale' \subseteq Kinds \cup {"texture"}
           /\ NamesKnown' /\ name'[t] # 0
           /\ dev'.colorMode = dev.colorMode
           /\ UNCHANGED <<matrix, changed>> => MatricesAgree'
PROOF
<1> USE DEF GLInv
<1>1. PICK n \in IF name[t] = 0 THEN Names \ gl.objects ELSE {name[t]} :
      \E others \in IF oom THEN SUBSET {u \in Textures \ {t} : name[u] # 0} ELSE {{}} :
        LET b == Uploaded(Bundle, t, n, oom, {name[u] : u \in others}) IN
        /\ name' = [u \in Textures |-> IF u = t THEN n ELSE IF u \in others THEN 0 ELSE name[u]]
        /\ dev' = b.dev /\ gl' = b.gl /\ stale' = StaleAfter(b, t, n)
  BY DEF Load
<1>2. PICK others \in IF oom THEN SUBSET {u \in Textures \ {t} : name[u] # 0} ELSE {{}} :
        LET b == Uploaded(Bundle, t, n, oom, {name[u] : u \in others}) IN
        /\ name' = [u \in Textures |-> IF u = t THEN n ELSE IF u \in others THEN 0 ELSE name[u]]
        /\ dev' = b.dev /\ gl' = b.gl /\ stale' = StaleAfter(b, t, n)
  BY <1>1
<1> DEFINE gone == {name[u] : u \in others}
           b == Uploaded(Bundle, t, n, oom, gone)
<1>3. name \in [Textures -> TextureNames] /\ dev \in DevStates /\ gl \in Contexts
      /\ filter \in [Textures -> Samplings] /\ Bundle \in Bundles
      /\ stale \subseteq Kinds \cup {"texture"}
  BY GLTypes, BundleIs
<1>4. others \subseteq {u \in Textures \ {t} : name[u] # 0}
  BY <1>2
<1>5. n \in Names /\ n # 0
  BY <1>1, <1>3, Zero DEF TextureNames
<1>6. gone \subseteq Names
  BY <1>3, <1>4 DEF TextureNames
<1>7. /\ b \in Bundles /\ Agreeing(b) /\ SameElse(Bundle, b)
      /\ b.dev.texture = IF dev.texture = 0 THEN n ELSE dev.texture
      /\ n \in b.gl.objects /\ gl.objects \ gone \subseteq b.gl.objects
  <2> HIDE DEF gone
  <2> QED
    BY <1>3, <1>5, <1>6, UploadedIs, BundleIs
<1>8. dev' = b.dev /\ gl' = b.gl /\ stale' = StaleAfter(b, t, n)
  BY <1>2
<1> HIDE DEF b
<1>9. dev' \in DevStates /\ gl' \in Contexts /\ Bundle' = b
  BY <1>7, <1>8 DEF Bundles, Bundle
<1>10. name' = [u \in Textures |-> IF u = t THEN n ELSE IF u \in others THEN 0 ELSE name[u]]
  BY <1>2
<1>11. name' \in [Textures -> TextureNames] /\ name'[t] = n
  BY <1>3, <1>5, <1>10 DEF TextureNames
<1>12. \A u \in Textures : u # t => name[u] # n \/ name[u] = 0
  BY <1>1, <1>5 DEF NamesKnown
<1>13. \A u \in Textures : name'[u] # 0 /\ u # t => u \notin others /\ name'[u] = name[u] /\ name'[u] # n
  BY <1>10, <1>12
<1>14. NamesKnown'
  <2>1. ASSUME NEW u \in Textures, NEW v \in Textures, name'[u] # 0, name'[u] = name'[v]
        PROVE  u = v
    BY <1>11, <1>13, <2>1 DEF NamesKnown
  <2>2. ASSUME NEW u \in Textures, name'[u] # 0
        PROVE  name'[u] \in gl'.objects
    <3>1. CASE u = t
      BY <1>7, <1>8, <1>11, <3>1
    <3>2. CASE u # t
      <4>1. name'[u] = name[u] /\ name[u] # 0 /\ u \notin others
        BY <1>13, <2>2, <3>2
      <4>2. name[u] \in gl.objects /\ name[u] \notin gone
        BY <1>4, <4>1 DEF NamesKnown
      <4> QED
        BY <1>7, <1>8, <4>1, <4>2
    <3> QED
      BY <3>1, <3>2
  <2> QED
    BY <2>1, <2>2 DEF NamesKnown
<1>15. stale' \subseteq Kinds \cup {"texture"} /\ stale \subseteq stale' /\ stale' \subseteq stale \cup {"texture"}
  BY <1>3, <1>8 DEF StaleAfter
<1>16. dev'.matrix = dev.matrix /\ gl'.matrix = gl.matrix /\ dev'.colorMode = dev.colorMode
  BY <1>7, <1>8, BundleIs DEF SameElse
<1>17. ASSUME UNCHANGED <<matrix, changed>> PROVE MatricesAgree'
  <2>1. \A k \in Kinds \ stale' : dev'.matrix[k] = gl'.matrix[k]
    BY <1>15, <1>16 DEF MatricesAgree
  <2>2. \A k \in Kinds \ changed' : matrix'[k] = dev'.matrix[k]
    BY <1>16, <1>17 DEF MatricesAgree
  <2>3. ASSUME "texture" \notin stale', NEW u \in Textures, name'[u] # 0, name'[u] = dev'.texture
        PROVE  gl'.matrix["texture"] = Scale(u)
    <3>1. CASE u = t
      BY <1>8, <1>11, <1>16, <2>3, <3>1 DEF StaleAfter
    <3>2. CASE u # t
      <4>1. name'[u] = name[u] /\ name[u] # 0 /\ name[u] # n
        BY <1>13, <2>3, <3>2
      <4>2. dev.texture = name[u] /\ "texture" \notin stale
        BY <1>7, <1>8, <1>15, <2>3, <4>1
      <4> QED
        BY <1>16, <4>1, <4>2 DEF MatricesAgree
    <3> QED
      BY <3>1, <3>2
  <2> QED
    BY <2>1, <2>2, <2>3 DEF MatricesAgree
<1> QED
  BY <1>5, <1>7, <1>9, <1>11, <1>14, <1>15, <1>16, <1>17

(* _applyStateChanges() with a request c that leaves the color mode as it  *)
(* was asked for, and every matrix that is not the device's marked.        *)
LEMMA ApplyIs ==
    ASSUME GLInv, NEW c \in Requests, NEW ms \in [Kinds -> Matrices], NEW marks \in SUBSET Kinds,
           ApplyStateChanges(Bundle, c, ms, marks), UNCHANGED <<activeTexture, name, filter>>,
           c.texture # 0 => cur.texture # 0, c.colorMode = cur.colorMode,
           \A k \in Kinds \ marks : ms[k] = dev.matrix[k]
    PROVE  /\ GLInv' /\ cur' = c /\ matrix' = ms
           /\ gl'.texture = IF c.texture = dev.texture THEN gl.texture ELSE c.texture
           /\ dev'.set = c.set /\ dev'.texture = c.texture /\ dev'.sampling = c.sampling
           /\ dev'.colorMode = c.colorMode
           /\ \A k \in Kinds \ stale' : gl'.matrix[k] = ms[k]
           /\ c.texture # dev.texture /\ c.texture # 0 => gl'.matrix["texture"] = Scale(activeTexture)
           /\ c.texture = dev.texture =>
                gl'.matrix["texture"] = gl.matrix["texture"] /\ ("texture" \in stale => "texture" \in stale')
PROOF
<1> USE DEF GLInv
<1>1. /\ name \in [Textures -> TextureNames] /\ filter \in [Textures -> Samplings] /\ Bundle \in Bundles
      /\ activeTexture \in Textures \cup {NoTexture} /\ stale \subseteq Kinds \cup {"texture"}
      /\ Bundle.dev = dev /\ Bundle.gl = gl
  BY GLTypes, BundleIs
<1>2. c.texture # 0 => activeTexture \in Textures
  BY <1>1 DEF AskedIsKnown
<1> DEFINE l == Applied(Bundle, c, ms, marks)
           loads == {k \in Kinds : Sends(Bundle, k, ms, marks)}
<1>3. /\ cur' = c /\ matrix' = ms /\ dev' = l.dev /\ gl' = l.gl /\ changed' = marks \ loads
      /\ stale' = (IF c.texture = dev.texture THEN stale
                   ELSE IF c.texture # 0 /\ name[activeTexture] # c.texture THEN stale \cup {"texture"}
                   ELSE stale \ {"texture"}) \ loads
  BY <1>1 DEF ApplyStateChanges, Applied, RequestSent
<1>4. c.colorMode = "undefined" => dev.colorMode = "undefined"
  BY DEF AskedIsKnown
<1>5. /\ l \in Bundles /\ Agreeing(l)
      /\ l.dev.set = c.set /\ l.dev.texture = c.texture /\ l.dev.sampling = c.sampling
      /\ l.dev.colorMode = c.colorMode
      /\ l.gl.texture = IF c.texture = dev.texture THEN gl.texture ELSE c.texture
      /\ gl.objects \subseteq l.gl.objects
      /\ c.texture = dev.texture => l.gl.matrix["texture"] = gl.matrix["texture"]
      /\ c.texture # dev.texture /\ c.texture # 0 => l.gl.matrix["texture"] = Scale(activeTexture)
      /\ \A k \in Kinds :
           IF Sends(Bundle, k, ms, marks) THEN l.dev.matrix[k] = ms[k] /\ l.gl.matrix[k] = ms[k]
           ELSE l.dev.matrix[k] = dev.matrix[k] /\ l.gl.matrix[k] = gl.matrix[k]
  BY <1>1, <1>2, <1>4, AppliedIs
<1> HIDE DEF l
<1>6. dev' \in DevStates /\ gl' \in Contexts /\ Bundle' = l
  BY <1>3, <1>5 DEF Bundles, Bundle
<1>7. \A k \in Kinds : k \in loads <=> k \in marks /\ ms[k] # dev.matrix[k]
  BY <1>1 DEF Sends
<1>8. loads \subseteq Kinds /\ "texture" \notin loads /\ "texture" \notin Kinds
  BY Zero
<1>9. \A k \in Kinds : k \in stale' => k \in stale \ loads
  BY <1>3, <1>8
<1>10. \A k \in Kinds : k \in stale \ loads => k \in stale'
  BY <1>3, <1>8
<1>11. \A k \in Kinds \ loads : ms[k] = dev.matrix[k]
  BY <1>7
<1>12. \A k \in Kinds \ stale' : gl'.matrix[k] = ms[k] /\ dev'.matrix[k] = ms[k]
  <2>1. ASSUME NEW k \in Kinds \ stale' PROVE gl'.matrix[k] = ms[k] /\ dev'.matrix[k] = ms[k]
    <3>1. CASE k \in loads
      BY <1>3, <1>5, <3>1
    <3>2. CASE k \notin loads
      <4>1. dev.matrix[k] = gl.matrix[k]
        BY <1>10, <2>1, <3>2 DEF MatricesAgree
      <4>2. dev'.matrix[k] = dev.matrix[k] /\ gl'.matrix[k] = gl.matrix[k]
        BY <1>3, <1>5, <2>1, <3>2
      <4> QED
        BY <1>11, <2>1, <3>2, <4>1, <4>2
    <3> QED
      BY <3>1, <3>2
  <2> QED
    BY <2>1
<1>13. GLTypeOK'
  <2>1. changed' \subseteq Kinds /\ stale' \subseteq Kinds \cup {"texture"}
    BY <1>1, <1>3
  <2>2. /\ matrix' \in [Kinds -> Matrices] /\ activeTexture' \in Textures \cup {NoTexture}
        /\ cur' \in Requests /\ name' \in [Textures -> TextureNames]
        /\ filter' \in [Textures -> Samplings]
    BY <1>1, <1>3
  <2> QED
    BY <1>6, <2>1, <2>2 DEF GLTypeOK, Requests, DevStates, Contexts, TextureNames
<1>14. Agreeing(Bundle')
  BY <1>5, <1>6
<1>15. AskedIsKnown'
  BY <1>3, <1>5 DEF AskedIsKnown
<1>16. NamesKnown'
  BY <1>3, <1>5 DEF NamesKnown
<1>17. MatricesAgree'
  <2>1. \A k \in Kinds \ stale' : dev'.matrix[k] = gl'.matrix[k]
    BY <1>12
  <2>2. ASSUME NEW k \in Kinds \ changed' PROVE matrix'[k] = dev'.matrix[k]
    <3>1. CASE k \in loads
      BY <1>3, <1>5, <3>1
    <3>2. CASE k \notin loads
      BY <1>3, <1>5, <1>11, <2>2, <3>2
    <3> QED
      BY <3>1, <3>2
  <2>3. ASSUME "texture" \notin stale', NEW t \in Textures, name'[t] # 0, name'[t] = dev'.texture
        PROVE  gl'.matrix["texture"] = Scale(t)
    <3>1. name[t] = c.texture /\ c.texture # 0
      BY <1>3, <1>5, <2>3
    <3>2. CASE c.texture = dev.texture
      <4>1. "texture" \notin stale
        BY <1>3, <1>8, <2>3, <3>2
      <4> QED
        BY <1>3, <1>5, <3>1, <3>2, <4>1 DEF MatricesAgree
    <3>3. CASE c.texture # dev.texture
      <4>1. name[activeTexture] = c.texture
        BY <1>3, <1>8, <2>3, <3>1, <3>3
      <4>2. t = activeTexture
        BY <1>2, <3>1, <4>1 DEF NamesKnown
      <4> QED
        BY <1>3, <1>5, <3>1, <3>3, <4>2
    <3> QED
      BY <3>2, <3>3
  <2> QED
    BY <2>1, <2>2, <2>3 DEF MatricesAgree
<1>18. c.texture = dev.texture =>
          gl'.matrix["texture"] = gl.matrix["texture"] /\ ("texture" \in stale => "texture" \in stale')
  BY <1>3, <1>5, <1>8
<1> QED
  BY <1>3, <1>5, <1>12, <1>13, <1>14, <1>15, <1>16, <1>17, <1>18

(* A draw, seen from the request it makes.                                 *)
Drawn(arrays) ==
    [cur EXCEPT !.set = (@ \ Arrays) \cup arrays,
                !.texture = IF "textureCoordinates" \in arrays THEN @ ELSE 0]

LEMMA DrawnIs ==
    ASSUME GLTypeOK, NEW arrays \in SUBSET Arrays
    PROVE  LET c == Drawn(arrays) IN
           /\ c \in Requests /\ c.set = (cur.set \ Arrays) \cup arrays
           /\ c.texture = IF "textureCoordinates" \in arrays THEN cur.texture ELSE 0
           /\ c.sampling = cur.sampling /\ c.colorMode = cur.colorMode
PROOF
<1>1. cur \in Requests
  BY GLTypes
<1> QED
  BY <1>1 DEF Drawn, Requests, Settings, TextureNames

LEMMA RenderIs ==
    ASSUME GLInv, NEW arrays \in SUBSET Arrays, Render(arrays)
    PROVE  GLInv' /\ ShowsRequest'
PROOF
<1> DEFINE c == Drawn(arrays)
<1>1. GLTypeOK /\ matrix \in [Kinds -> Matrices] /\ changed \in SUBSET Kinds
      /\ name \in [Textures -> TextureNames] /\ activeTexture \in Textures \cup {NoTexture}
  BY GLTypes DEF GLInv
<1>2. /\ c \in Requests /\ c.set = (cur.set \ Arrays) \cup arrays
      /\ c.texture = IF "textureCoordinates" \in arrays THEN cur.texture ELSE 0
      /\ c.sampling = cur.sampling /\ c.colorMode = cur.colorMode
  BY <1>1, DrawnIs
<1>3. /\ ApplyStateChanges(Bundle, c, matrix, changed) /\ UNCHANGED <<activeTexture, name, filter>>
      /\ "textureCoordinates" \in arrays =>
           (cur.texture = 0 \/ (activeTexture # NoTexture /\ name[activeTexture] = cur.texture))
  BY DEF Render, Drawn
<1> HIDE DEF c
<1>4. \A k \in Kinds \ changed : matrix[k] = dev.matrix[k]
  BY DEF GLInv, MatricesAgree
<1>5. c.texture # 0 => cur.texture # 0
  BY <1>2
<1>6. /\ GLInv' /\ cur' = c /\ matrix' = matrix
      /\ gl'.texture = IF c.texture = dev.texture THEN gl.texture ELSE c.texture
      /\ dev'.set = c.set /\ dev'.texture = c.texture /\ dev'.sampling = c.sampling
      /\ dev'.colorMode = c.colorMode
      /\ \A k \in Kinds \ stale' : gl'.matrix[k] = matrix[k]
      /\ c.texture # dev.texture /\ c.texture # 0 => gl'.matrix["texture"] = Scale(activeTexture)
      /\ c.texture = dev.texture =>
           gl'.matrix["texture"] = gl.matrix["texture"] /\ ("texture" \in stale => "texture" \in stale')
  BY <1>1, <1>2, <1>3, <1>4, <1>5, ApplyIs
<1>7. c.texture # 0 => /\ activeTexture \in Textures /\ name[activeTexture] = c.texture
  BY <1>1, <1>2, <1>3
<1>8. gl'.texture = c.texture
  <2>1. CASE c.texture # dev.texture
    BY <1>6, <2>1
  <2>2. CASE c.texture = dev.texture /\ dev.texture # gl.texture
    <3>1. gl.texture = 0 /\ dev.texture \notin gl.objects
      BY <2>2, BundleIs DEF GLInv, Agreeing, TexturesAgree
    <3>2. c.texture # 0
      BY <2>2, <3>1
    <3>3. c.texture \in gl.objects
      BY <1>7, <3>2 DEF GLInv, NamesKnown
    <3> QED
      BY <2>2, <3>1, <3>3
  <2> QED
    BY <1>6, <2>1, <2>2
<1>9. Agreeing(Bundle')
  BY <1>6 DEF GLInv
<1>10. Bundle'.dev = dev' /\ Bundle'.gl = gl'
  BY DEF Bundle
<1>11. gl'.set = cur'.set /\ gl'.texture = cur'.texture
  BY <1>6, <1>8, <1>9, <1>10 DEF Agreeing
<1>12. cur'.texture # 0 => gl'.sampling[cur'.texture] = cur'.sampling
  <2>1. c.sampling # "undefined"
    BY <1>2 DEF Requests, Samplings
  <2> QED
    BY <1>6, <1>8, <1>9, <1>10, <2>1 DEF Agreeing, TexturesAgree
<1>13. cur'.texture # 0 /\ "texture" \notin stale' => gl'.matrix["texture"] = Scale(activeTexture')
  <2>1. ASSUME c.texture # 0, "texture" \notin stale', c.texture = dev.texture
        PROVE  gl'.matrix["texture"] = Scale(activeTexture)
    BY <1>6, <1>7, <2>1 DEF GLInv, MatricesAgree
  <2>2. activeTexture' = activeTexture
    BY <1>3
  <2> QED
    BY <1>6, <2>1, <2>2
<1>14. \A k \in Kinds \ stale' : gl'.matrix[k] = matrix'[k]
  BY <1>6
<1>15. \/ cur'.colorMode \in {ShownColorMode', "undefined"}
       \/ cur'.colorMode = "alpha map" /\ ~gl'.combines
  <2>1. cur'.colorMode \in ColorModes \cup {"undefined"} /\ cur'.colorMode = dev'.colorMode
    BY <1>2, <1>6 DEF Requests
  <2>2. /\ dev'.colorMode # "undefined" => gl'.colorMode = dev'.colorMode
        /\ gl'.colorMode = "lerp" => gl'.combines
    BY <1>9, <1>10 DEF Agreeing, ColorsAgree
  <2> QED
    BY <2>1, <2>2 DEF ShownColorMode, ColorModes
<1> QED
  BY <1>6, <1>11, <1>12, <1>13, <1>14, <1>15 DEF ShowsRequest

LEMMA SetResolutionIs ==
    ASSUME GLInv, NEW m \in Matrices, SetResolution(m)
    PROVE  GLInv'
PROOF
<1> DEFINE ms == [matrix EXCEPT !["projection"] = m]
           marks == changed \cup {"projection"}
<1>1. cur \in Requests /\ matrix \in [Kinds -> Matrices] /\ changed \subseteq Kinds
      /\ "projection" \in Kinds
  BY GLTypes, GLAssumption DEF GLInv
<1>2. ms \in [Kinds -> Matrices] /\ marks \in SUBSET Kinds
  BY <1>1
<1>3. \A k \in Kinds \ marks : ms[k] = dev.matrix[k]
  BY <1>1 DEF GLInv, MatricesAgree
<1>4. ApplyStateChanges(Bundle, cur, ms, marks) /\ UNCHANGED <<activeTexture, name, filter>>
  BY DEF SetResolution
<1> HIDE DEF ms, marks
<1> QED
  BY <1>1, <1>2, <1>3, <1>4, ApplyIs

(* A context created anew knows none of the textures; deviceState agrees   *)
(* with it in all but the matrices it held before.                         *)
LEMMA ContextLostIs ==
    ASSUME GLInv, ContextLost
    PROVE  GLInv'
PROOF
<1> DEFINE d == DeviceReset(dev)
           b == [dev |-> d, gl |-> NewContext]
           s == SamplingApplied(b, Requested0)
           m == MatrixApplied(s, "modelview", matrix, Kinds)
           l == MatrixApplied(m, "projection", matrix, Kinds)
<1>1. /\ matrix \in [Kinds -> Matrices] /\ dev \in DevStates /\ name \in [Textures -> TextureNames]
      /\ filter \in [Textures -> Samplings] /\ activeTexture \in Textures \cup {NoTexture}
  BY GLTypes DEF GLInv
<1>2. Requested0 \in Requests /\ Requested0.texture = 0 /\ Requested0.colorMode = "undefined"
  BY DEF Requested0, Requests, TextureNames, Samplings
<1>3. /\ d \in DevStates /\ d.set = {} /\ d.texture = 0 /\ d.sampling = "undefined"
      /\ d.colorMode = "undefined" /\ d.mode = "none" /\ d.matrix = dev.matrix
  BY <1>1 DEF DeviceReset, DevStates, TextureNames
<1> HIDE DEF d
<1>4. b \in Bundles /\ b.dev = d /\ b.gl = NewContext
  BY <1>3, NewContextIs DEF Bundles
<1> HIDE DEF b
<1>5. Agreeing(b)
  BY <1>3, <1>4, NewContextIs DEF Agreeing, TexturesAgree, ColorsAgree
<1>6. /\ s \in Bundles /\ Agreeing(s) /\ SameTexture(b, s) /\ SameMatrices(b, s)
      /\ s.dev.colorMode = b.dev.colorMode
  BY <1>2, <1>4, <1>5, SamplingAppliedIs
<1> HIDE DEF s
<1>7. /\ m \in Bundles /\ Agreeing(m)
      /\ Sends(s, "modelview", matrix, Kinds) =>
            m.dev.matrix["modelview"] = matrix["modelview"] /\ m.gl.matrix["modelview"] = matrix["modelview"]
      /\ ~Sends(s, "modelview", matrix, Kinds) => m = s
      /\ \A k \in Kinds \ {"modelview"} : m.dev.matrix[k] = s.dev.matrix[k]
      /\ \A k \in (Kinds \cup {"texture"}) \ {"modelview"} : m.gl.matrix[k] = s.gl.matrix[k]
      /\ SameTexture(s, m) /\ m.dev.colorMode = s.dev.colorMode
  BY <1>1, <1>6, MatrixAppliedIs
<1> HIDE DEF m
<1>8. /\ l \in Bundles /\ Agreeing(l)
      /\ Sends(m, "projection", matrix, Kinds) =>
            l.dev.matrix["projection"] = matrix["projection"] /\ l.gl.matrix["projection"] = matrix["projection"]
      /\ ~Sends(m, "projection", matrix, Kinds) => l = m
      /\ \A k \in Kinds \ {"projection"} : l.dev.matrix[k] = m.dev.matrix[k]
      /\ \A k \in (Kinds \cup {"texture"}) \ {"projection"} : l.gl.matrix[k] = m.gl.matrix[k]
      /\ SameTexture(m, l) /\ l.dev.colorMode = m.dev.colorMode
  BY <1>1, <1>7, MatrixAppliedIs
<1> HIDE DEF l
<1>9. /\ name' = [t \in Textures |-> 0] /\ cur' = Requested0
      /\ dev' = l.dev /\ gl' = l.gl
      /\ changed' = {k \in Kinds : matrix[k] = dev.matrix[k]}
      /\ stale' = {k \in Kinds : matrix[k] = dev.matrix[k] /\ matrix[k] # Identity}
      /\ UNCHANGED <<matrix, activeTexture, filter>>
  BY DEF ContextLost, l, m, s, b, d
<1>10. /\ Bundle' = l /\ dev' \in DevStates /\ gl' \in Contexts /\ dev'.colorMode = "undefined"
  BY <1>3, <1>4, <1>6, <1>7, <1>8, <1>9 DEF Bundles, Bundle
<1>11. ASSUME NEW k \in Kinds
       PROVE  IF matrix[k] # dev.matrix[k] THEN l.dev.matrix[k] = matrix[k] /\ l.gl.matrix[k] = matrix[k]
              ELSE l.dev.matrix[k] = dev.matrix[k] /\ l.gl.matrix[k] = Identity
  <2>1. s.dev.matrix[k] = dev.matrix[k] /\ s.gl.matrix[k] = Identity
    BY <1>3, <1>4, <1>6, NewContextIs, Zero DEF SameMatrices
  <2>2. CASE k = "modelview"
    BY <1>7, <1>8, <2>1, <2>2 DEF Sends
  <2>3. CASE k = "projection"
    BY <1>7, <1>8, <2>1, <2>3 DEF Sends
  <2> QED
    BY <2>2, <2>3, GLAssumption
<1>12. MatricesAgree'
  <2>1. \A k \in Kinds \ stale' : dev'.matrix[k] = gl'.matrix[k]
    BY <1>9, <1>11
  <2>2. \A k \in Kinds \ changed' : matrix'[k] = dev'.matrix[k]
    BY <1>9, <1>11
  <2>3. \A t \in Textures : name'[t] = 0
    BY <1>9
  <2> QED
    BY <2>1, <2>2, <2>3 DEF MatricesAgree
<1>13. GLTypeOK'
  <2>1. changed' \subseteq Kinds /\ stale' \subseteq Kinds \cup {"texture"}
    BY <1>9
  <2>2. /\ matrix' \in [Kinds -> Matrices] /\ activeTexture' \in Textures \cup {NoTexture}
        /\ cur' \in Requests /\ name' \in [Textures -> TextureNames]
        /\ filter' \in [Textures -> Samplings]
    BY <1>1, <1>2, <1>9 DEF TextureNames
  <2> QED
    BY <1>10, <2>1, <2>2 DEF GLTypeOK, Requests, DevStates, Contexts, TextureNames
<1>14. AskedIsKnown' /\ NamesKnown'
  BY <1>2, <1>9, <1>10 DEF AskedIsKnown, NamesKnown
<1> QED
  BY <1>8, <1>10, <1>12, <1>13, <1>14 DEF GLInv

LEMMA UploadIs ==
    ASSUME GLInv, NEW t \in Textures, NEW oom \in BOOLEAN, Upload(t, oom)
    PROVE  GLInv'
PROOF
<1>1. Load(t, oom) /\ UNCHANGED <<matrix, changed, activeTexture, cur, filter>>
  BY DEF Upload
<1>2. GLTypeOK /\ AskedIsKnown
  BY DEF GLInv
<1>3. /\ dev' \in DevStates /\ gl' \in Contexts /\ Agreeing(Bundle')
      /\ name' \in [Textures -> TextureNames] /\ stale' \subseteq Kinds \cup {"texture"}
      /\ NamesKnown' /\ dev'.colorMode = dev.colorMode /\ MatricesAgree'
  BY <1>1, LoadIs
<1>4. GLTypeOK'
  BY <1>1, <1>2, <1>3 DEF GLTypeOK, DevStates, Contexts, TextureNames
<1>5. AskedIsKnown'
  BY <1>1, <1>2, <1>3 DEF AskedIsKnown
<1> QED
  BY <1>3, <1>4, <1>5 DEF GLInv

LEMMA SetTextureIs ==
    ASSUME GLInv, NEW t \in Textures, SetTexture(t)
    PROVE  GLInv'
PROOF
<1>1. /\ matrix \in [Kinds -> Matrices] /\ changed \subseteq Kinds
      /\ cur \in Requests /\ dev \in DevStates /\ gl \in Contexts
      /\ name \in [Textures -> TextureNames] /\ filter \in [Textures -> Samplings]
      /\ stale \subseteq Kinds \cup {"texture"}
      /\ Agreeing(Bundle) /\ AskedIsKnown /\ NamesKnown /\ MatricesAgree
  BY GLTypes DEF GLInv
<1>2. /\ activeTexture' = t /\ cur' = [cur EXCEPT !.sampling = filter[t], !.texture = name'[t]]
      /\ UNCHANGED <<matrix, changed, filter>>
  BY DEF SetTexture
<1>3. /\ dev' \in DevStates /\ gl' \in Contexts /\ Agreeing(Bundle')
      /\ name' \in [Textures -> TextureNames] /\ stale' \subseteq Kinds \cup {"texture"}
      /\ NamesKnown' /\ dev'.colorMode = dev.colorMode /\ MatricesAgree'
  <2>1. CASE name[t] = 0
    <3>1. Load(t, FALSE)
      BY <2>1 DEF SetTexture
    <3> QED
      BY <1>2, <3>1, LoadIs
  <2>2. CASE name[t] # 0
    <3>1. UNCHANGED <<name, dev, gl, stale>>
      BY <2>2 DEF SetTexture
    <3>2. Agreeing(Bundle')
      BY <1>1, <3>1, AgreeingKept
    <3>3. NamesKnown' /\ MatricesAgree'
      BY <1>1, <1>2, <3>1 DEF NamesKnown, MatricesAgree
    <3> QED
      BY <1>1, <3>1, <3>2, <3>3
  <2> QED
    BY <2>1, <2>2
<1>4. cur' \in Requests /\ cur'.colorMode = cur.colorMode
  BY <1>1, <1>2, <1>3 DEF Requests
<1>5. GLTypeOK'
  BY <1>1, <1>2, <1>3, <1>4 DEF GLTypeOK, Requests, DevStates, Contexts, TextureNames
<1>6. AskedIsKnown'
  BY <1>1, <1>2, <1>3, <1>4, GLAssumption DEF AskedIsKnown
<1> QED
  BY <1>3, <1>5, <1>6 DEF GLInv

LEMMA UnloadIs ==
    ASSUME GLInv, NEW t \in Textures, Unload(t)
    PROVE  GLInv'
PROOF
<1>1. /\ dev \in DevStates /\ gl \in Contexts /\ name \in [Textures -> TextureNames]
      /\ GLTypeOK /\ Agreeing(Bundle) /\ AskedIsKnown /\ NamesKnown /\ MatricesAgree
      /\ Bundle \in Bundles /\ Bundle.dev = dev /\ Bundle.gl = gl
  BY GLTypes, BundleIs DEF GLInv
<1>2. /\ name[t] # 0 /\ gl' = Deleted(gl, {name[t]}) /\ name' = [name EXCEPT ![t] = 0]
      /\ UNCHANGED <<matrix, changed, activeTexture, cur, dev, filter, stale>>
  BY DEF Unload
<1>3. {name[t]} \in SUBSET Names
  BY <1>1, <1>2 DEF TextureNames
<1> DEFINE l == [Bundle EXCEPT !.gl = Deleted(Bundle.gl, {name[t]})]
<1>4. /\ l \in Bundles /\ Agreeing(l) /\ SameElse(Bundle, l)
      /\ l.dev = dev /\ l.gl = gl' /\ l.gl.objects = gl.objects \ {name[t]}
  <2>1. /\ l \in Bundles /\ Agreeing(l) /\ SameElse(Bundle, l) /\ l.dev = Bundle.dev
        /\ l.gl = Deleted(Bundle.gl, {name[t]}) /\ l.gl.objects = Bundle.gl.objects \ {name[t]}
    BY <1>1, <1>3, FreedIs
  <2> HIDE DEF l
  <2> QED
    BY <1>1, <1>2, <2>1
<1> HIDE DEF l
<1>5. Bundle' = l /\ gl' \in Contexts /\ gl'.matrix = gl.matrix
  BY <1>1, <1>2, <1>4 DEF Bundles, Bundle, SameElse
<1>6. GLTypeOK'
  <2>1. name' \in [Textures -> TextureNames]
    BY <1>1, <1>2 DEF TextureNames
  <2> QED
    BY <1>1, <1>2, <1>5, <2>1 DEF GLTypeOK, Contexts, TextureNames
<1>7. \A u \in Textures : name'[u] # 0 => u # t /\ name'[u] = name[u]
  BY <1>1, <1>2
<1>8. NamesKnown'
  BY <1>1, <1>2, <1>4, <1>7 DEF NamesKnown
<1>9. MatricesAgree' /\ AskedIsKnown'
  BY <1>1, <1>2, <1>5, <1>7 DEF MatricesAgree, AskedIsKnown
<1> QED
  BY <1>4, <1>5, <1>6, <1>8, <1>9 DEF GLInv

(* What the application asks for without a draw is noted and no more.      *)
LEMMA NotedIs ==
    ASSUME GLInv, UNCHANGED <<dev, gl, name, stale>>,
           cur' \in Requests, matrix' \in [Kinds -> Matrices], changed' \subseteq Kinds,
           filter' \in [Textures -> Samplings], activeTexture' \in Textures \cup {NoTexture},
           \A k \in Kinds \ changed' : k \notin changed /\ matrix'[k] = matrix[k],
           cur'.colorMode = "undefined" => cur.colorMode = "undefined",
           cur'.texture # 0 => cur.texture # 0 /\ activeTexture' = activeTexture
    PROVE  GLInv'
PROOF
<1>1. GLTypeOK /\ Agreeing(Bundle) /\ AskedIsKnown /\ NamesKnown /\ MatricesAgree
  BY DEF GLInv
<1>2. GLTypeOK'
  BY <1>1 DEF GLTypeOK, Requests, TextureNames
<1>3. Agreeing(Bundle') /\ NamesKnown'
  BY <1>1, AgreeingKept, NamesKept
<1>4. AskedIsKnown'
  BY <1>1 DEF AskedIsKnown
<1>5. MatricesAgree'
  BY <1>1 DEF MatricesAgree
<1> QED
  BY <1>2, <1>3, <1>4, <1>5 DEF GLInv

LEMMA GLInvStep == GLInv /\ [GLNext]_glVars => GLInv'
PROOF
<1> SUFFICES ASSUME GLInv, [GLNext]_glVars PROVE GLInv'
  OBVIOUS
<1>1. /\ matrix \in [Kinds -> Matrices] /\ changed \subseteq Kinds
      /\ activeTexture \in Textures \cup {NoTexture}
      /\ cur \in Requests /\ filter \in [Textures -> Samplings]
  BY GLTypes DEF GLInv
<1>2. CASE \E t \in Textures, oom \in BOOLEAN : Upload(t, oom)
  BY <1>2, UploadIs
<1>3. CASE \E t \in Textures : SetTexture(t)
  BY <1>3, SetTextureIs
<1>4. CASE SetNoTexture
  <2>1. cur' \in Requests /\ cur'.texture = 0 /\ cur'.colorMode = cur.colorMode
    BY <1>1, <1>4 DEF SetNoTexture, Requests, TextureNames
  <2> QED
    BY <1>1, <1>4, <2>1, NotedIs DEF SetNoTexture
<1>5. ASSUME NEW t \in Textures, NEW s \in Samplings, SetFilter(t, s)
      PROVE  GLInv'
  BY <1>1, <1>5, NotedIs DEF SetFilter
<1>6. CASE \E t \in Textures : Unload(t)
  BY <1>6, UnloadIs
<1>7. ASSUME NEW p \in Parameters, SetParameter(p)
      PROVE  GLInv'
  <2>1. PICK on \in BOOLEAN : cur' = [cur EXCEPT !.set = IF on THEN @ \cup {p} ELSE @ \ {p}]
    BY <1>7 DEF SetParameter
  <2>2. cur' \in Requests /\ cur'.texture = cur.texture /\ cur'.colorMode = cur.colorMode
    BY <1>1, <2>1 DEF Requests, Settings
  <2> QED
    BY <1>1, <1>7, <2>2, NotedIs DEF SetParameter
<1>8. ASSUME NEW mode \in ColorModes, SetTextureColorMode(mode)
      PROVE  GLInv'
  <2>1. cur' \in Requests /\ cur'.texture = cur.texture /\ cur'.colorMode # "undefined"
    BY <1>1, <1>8 DEF SetTextureColorMode, Requests, ColorModes
  <2> QED
    BY <1>1, <1>8, <2>1, NotedIs DEF SetTextureColorMode
<1>9. ASSUME NEW kind \in Kinds, NEW m \in Matrices, SetMatrix(kind, m)
      PROVE  GLInv'
  BY <1>1, <1>9, NotedIs DEF SetMatrix
<1>10. CASE \E arrays \in SUBSET Arrays : Render(arrays)
  BY <1>10, RenderIs
<1>11. CASE \E m \in Matrices \ {Identity} : SetResolution(m)
  BY <1>11, SetResolutionIs
<1>12. CASE ContextLost
  BY <1>12, ContextLostIs
<1>13. CASE UNCHANGED glVars
  BY <1>1, <1>13, NotedIs DEF glVars
<1> QED
  BY <1>2, <1>3, <1>4, <1>5, <1>6, <1>7, <1>8, <1>9, <1>10, <1>11, <1>12, <1>13 DEF GLNext

(* The invariant of the three copies of the render state.                  *)
THEOREM GLInvariant == GLSpec => []GLInv
PROOF
<1> QED
  BY GLInvInit, GLInvStep, PTL DEF GLSpec

(* Every copy of the render state keeps its type: no name is bound that    *)
(* glGenTextures() did not return, no mode or color that GL does not have. *)
THEOREM GLTypeCorrect == GLSpec => []GLTypeOK
PROOF
<1>1. GLInv => GLTypeOK
  BY DEF GLInv
<1> QED
  BY <1>1, GLInvariant, PTL

(* deviceState is what the context holds, whatever was uploaded, deleted,  *)
(* drawn or created anew (OpenGL_RenderSystem.cpp): for any number of      *)
(* textures, names, arrays and settings.                                   *)
THEOREM GLCacheAgrees == GLSpec => []CacheAgrees
PROOF
<1>1. GLInv => CacheAgrees
  BY BundleIs
  DEF GLInv, CacheAgrees, Agreeing, TexturesAgree, ColorsAgree, NamesKnown, MatricesAgree
<1> QED
  BY <1>1, GLInvariant, PTL

(* Every draw shows the settings, the texture with its filter and its part *)
(* of the surface, the matrices and the color mode that were asked for,    *)
(* but for what the three known defects leave behind.                      *)
THEOREM GLDrawsAsRequested == GLSpec => DrawsAsRequested
PROOF
<1>1. GLInv /\ [GLNext]_glVars => [ShowsRequest' \/ ~ \E arrays \in SUBSET Arrays : Render(arrays)]_glVars
  BY RenderIs
<1> QED
  BY <1>1, GLInvariant, PTL DEF GLSpec, DrawsAsRequested
=============================================================================
