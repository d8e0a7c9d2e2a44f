----------------------- MODULE TextureContent_proofs -----------------------
(***************************************************************************)
(* Proofs about TextureContent: types, surviving contents, the dirty mark  *)
(* and what is shown, for textures of any width and any set of colors.     *)
(***************************************************************************)
EXTENDS TextureContent, TLAPS

Images == [Pixels -> Values]

-----------------------------------------------------------------------------
(* Painting.                                                               *)

(* The values the program distinguishes are pixel values.                  *)
LEMMA AllType == \A v \in Values : All(v) \in Images
  BY DEF All, Images

(* NULL is no image.                                                       *)
LEMMA NoDataNoImage == NoData \notin Images
  BY ContentAssumption DEF Images, Pixels, Values

(* Painting into an image gives an image.                                  *)
LEMMA PaintType ==
  ASSUME NEW image \in Images, NEW from \in Images, NEW r \in Ranges
  PROVE  Paint(image, r, from) \in Images
  BY DEF Paint, Images

(* The whole texture is a range within the texture that contains all of    *)
(* its pixels.                                                             *)
LEMMA WholeRange ==
  /\ Whole \in Ranges /\ Whole.w = Width /\ Within(Whole)
  /\ Inside(Whole) = Pixels
  BY ContentAssumption DEF Whole, Ranges, Within, Inside, Pixels

(* Painting the whole texture leaves nothing of the old image.             *)
LEMMA PaintWhole ==
  ASSUME NEW image \in Images, NEW from \in Images
  PROVE  Paint(image, Whole, from) = from
  BY WholeRange DEF Paint, Images

(* Painting from an image that differs inside the range only gives that    *)
(* image.                                                                  *)
LEMMA PaintAgrees ==
  ASSUME NEW image \in Images, NEW from \in Images, NEW r \in Ranges,
         \A p \in Pixels : p \notin Inside(r) => image[p] = from[p]
  PROVE  Paint(image, r, from) = from
  BY DEF Paint, Images

(* A range as wide as the texture and within it is the whole texture.      *)
LEMMA WideRange ==
  ASSUME NEW r \in Ranges, r.w = Width, Within(r)
  PROVE  r = Whole
  <1>1. r.x \in Int /\ r.x >= 0 /\ r.x + Width <= Width /\ Width \in Nat
    BY ContentAssumption DEF Ranges, Within
  <1>2. r.x = 0
    BY <1>1
  <1> QED
    BY <1>2 DEF Ranges, Whole

-----------------------------------------------------------------------------
(* What reaches the GPU.                                                   *)

KnownSystem == rendersys \in {"gl", "dx9", "dx11"}

(* The GPU gets an image.                                                  *)
LEMMA PaintWithinType ==
  ASSUME NEW image \in Images, NEW from \in Images, NEW r \in Ranges
  PROVE  PaintWithin(image, r, from) \in Images
  BY PaintType DEF PaintWithin

LEMMA ClearOrOldType ==
  ASSUME NEW old \in Images
  PROVE  (IF firstUpload THEN All(Clear) ELSE old) \in Images
  BY AllType DEF Values

(* A buffer of the render system leaves an image on the GPU.               *)
LEMMA SendBufferType ==
  ASSUME KnownSystem, NEW r \in Ranges, NEW from \in Images, NEW old \in Images,
         NEW copy \in Images \cup {NoData}
  PROVE  SendBuffer(r, from, old, copy) \in Images
  <1>1. CASE rendersys = "gl"
    <2>1. PaintWithin(IF firstUpload THEN All(Clear) ELSE old, r, from) \in Images
      BY PaintWithinType, ClearOrOldType
    <2> QED
      BY <1>1, <2>1 DEF SendBuffer, BufferForGL
  <1>2. CASE rendersys = "dx9"
    BY <1>2, PaintWithinType DEF SendBuffer
  <1>3. CASE rendersys = "dx11"
    <2>1. All(Unknown) \in Images
      BY AllType DEF Values
    <2>2. Paint(All(Unknown), r, from) \in Images
      BY <2>1, PaintType
    <2> QED
      BY <1>3, <2>2 DEF SendBuffer, BufferForDirectX11
  <1> QED
    BY <1>1, <1>2, <1>3 DEF KnownSystem

(* So does a direct upload.                                                *)
LEMMA SendDirectlyType ==
  ASSUME KnownSystem, NEW r \in Ranges, NEW from \in Images, NEW old \in Images,
         NEW copy \in Images \cup {NoData}
  PROVE  SendDirectly(r, from, old, copy) \in Images
  <1>1. PaintWithin(IF firstUpload THEN All(Clear) ELSE old, r, from) \in Images
    BY PaintWithinType, ClearOrOldType
  <1>2. SendBuffer(r, from, old, copy) \in Images
    BY SendBufferType
  <1> QED
    BY <1>1, <1>2 DEF SendDirectly

(* And an upload from the copy in RAM.                                     *)
LEMMA SendCopyType ==
  ASSUME KnownSystem, NEW r \in Ranges, NEW copy \in Images, NEW old \in Images
  PROVE  SendCopy(r, copy, old) \in Images
  <1>1. (IF Within(r) THEN copy ELSE All(Unknown)) \in Images
    BY AllType DEF Values
  <1>2. SendBuffer(r, IF Within(r) THEN copy ELSE All(Unknown), old, copy) \in Images
    BY <1>1, SendBufferType
  <1>3. SendDirectly(r, copy, old, copy) \in Images
    BY SendDirectlyType
  <1> QED
    BY <1>2, <1>3 DEF SendCopy

(* What keeps pixels outside of a range as they have to be.                *)
Rest(r, from, old) ==
    r = Whole \/ (/\ ~(rendersys = "gl" /\ firstUpload)
                  /\ Within(r)
                  /\ \A p \in Pixels : p \notin Inside(r) => old[p] = from[p])

(* A range within the texture reaches the GPU of OpenGL and DirectX 9,     *)
(* and the other pixels stay as they are.                                  *)
LEMMA PaintWithinShows ==
  ASSUME NEW r \in Ranges, NEW from \in Images, NEW old \in Images,
         rendersys = "gl", Rest(r, from, old)
  PROVE  PaintWithin(IF firstUpload THEN All(Clear) ELSE old, r, from) = from
  <1>1. CASE r = Whole
    <2>1. Paint(IF firstUpload THEN All(Clear) ELSE old, Whole, from) = from
      BY PaintWhole, ClearOrOldType
    <2> QED
      BY <1>1, <2>1, WholeRange DEF PaintWithin
  <1>2. CASE r # Whole
    <2>1. ~firstUpload /\ Within(r)
      BY <1>2 DEF Rest
    <2>2. \A p \in Pixels : p \notin Inside(r) => old[p] = from[p]
      BY <1>2 DEF Rest
    <2>3. Paint(old, r, from) = from
      BY <2>2, PaintAgrees
    <2> QED
      BY <2>1, <2>3 DEF PaintWithin
  <1> QED
    BY <1>1, <1>2

(* A buffer shows what is to be shown.                                     *)
LEMMA SendBufferShows ==
  ASSUME KnownSystem, NEW r \in Ranges, NEW from \in Images, NEW old \in Images,
         NEW copy \in Images \cup {NoData},
         rendersys = "dx11" => CanMap /\ (copy = from \/ (copy = NoData /\ r = Whole)),
         rendersys # "dx11" => Rest(r, from, old)
  PROVE  SendBuffer(r, from, old, copy) = from
  <1>1. CASE rendersys = "gl"
    <2>1. PaintWithin(IF firstUpload THEN All(Clear) ELSE old, r, from) = from
      BY <1>1, PaintWithinShows
    <2> QED
      BY <1>1, <2>1 DEF SendBuffer, BufferForGL
  <1>2. CASE rendersys = "dx9"
    <2>1. CASE r = Whole
      BY <1>2, <2>1, PaintWhole, WholeRange DEF SendBuffer, PaintWithin
    <2>2. CASE r # Whole
      <3>1. Within(r) /\ Paint(old, r, from) = from
        BY <1>2, <2>2, PaintAgrees DEF Rest
      <3> QED
        BY <1>2, <3>1 DEF SendBuffer, PaintWithin
    <2> QED
      BY <2>1, <2>2
  <1>3. CASE rendersys = "dx11"
    <2>1. CASE copy = from
      BY <1>3, <2>1, NoDataNoImage DEF SendBuffer, BufferForDirectX11
    <2>2. CASE copy = NoData /\ r = Whole
      <3>1. All(Unknown) \in Images
        BY AllType DEF Values
      <3>2. Paint(All(Unknown), Whole, from) = from
        BY <3>1, PaintWhole
      <3> QED
        BY <1>3, <2>2, <3>2 DEF SendBuffer, BufferForDirectX11
    <2> QED
      BY <1>3, <2>1, <2>2
  <1> QED
    BY <1>1, <1>2, <1>3 DEF KnownSystem

(* A direct upload does.                                                   *)
LEMMA SendDirectlyShows ==
  ASSUME KnownSystem, NEW r \in Ranges, NEW from \in Images, NEW old \in Images,
         NEW copy \in Images \cup {NoData},
         rendersys = "dx11" => CanMap /\ (copy = from \/ (copy = NoData /\ r = Whole)),
         rendersys # "dx11" => Rest(r, from, old)
  PROVE  SendDirectly(r, from, old, copy) = from
  <1>1. CASE rendersys = "gl"
    <2>1. PaintWithin(IF firstUpload THEN All(Clear) ELSE old, r, from) = from
      BY <1>1, PaintWithinShows
    <2> QED
      BY <1>1, <2>1 DEF SendDirectly
  <1>2. CASE rendersys # "gl"
    BY <1>2, SendBufferShows DEF SendDirectly
  <1> QED
    BY <1>1, <1>2

(* And so does an upload from the copy in RAM, wherever the range is on    *)
(* DirectX 11.                                                             *)
LEMMA SendCopyShows ==
  ASSUME KnownSystem, NEW r \in Ranges, NEW copy \in Images, NEW old \in Images,
         rendersys = "dx11" => CanMap,
         rendersys # "dx11" => Rest(r, copy, old)
  PROVE  SendCopy(r, copy, old) = copy
  <1>1. SendDirectly(r, copy, old, copy) = copy
    BY SendDirectlyShows
  <1>2. SendBuffer(r, IF Within(r) THEN copy ELSE All(Unknown), old, copy) = copy
    <2>1. CASE rendersys = "dx11"
      BY <2>1, NoDataNoImage DEF SendBuffer, BufferForDirectX11
    <2>2. CASE rendersys # "dx11"
      <3>1. Within(r)
        BY <2>2, WholeRange DEF Rest
      <3>2. SendBuffer(r, copy, old, copy) = copy
        BY <2>2, SendBufferShows
      <3> QED
        BY <3>1, <3>2
    <2> QED
      BY <2>1, <2>2
  <1> QED
    BY <1>1, <1>2 DEF SendCopy

-----------------------------------------------------------------------------
(* The inductive invariant.                                                *)

(* Textures that were not created, locked, sized or loaded yet; what is in *)
(* RAM for each type; on OpenGL a loaded texture has been uploaded before, *)
(* unless its pixels wait for unlock().                                    *)
States ==
    /\ ~created => ~loaded /\ ~locked /\ ~sized /\ ~mapped /\ data = NoData
    /\ loaded => sized
    /\ created /\ ~sized => content = All(FilePixel)
    /\ created /\ manual => sized /\ (type # "volatile" => data # NoData)
    /\ data # NoData => type = "managed" \/ manual
    /\ locked => type = "managed"
    /\ loaded /\ type = "managed" => data # NoData
    /\ mapped => type = "volatile"
    /\ loaded /\ ~dirty /\ rendersys = "gl" => ~firstUpload

Coherence ==
    TypeOK /\ States /\ DirtyWhileLocked /\ ContentSurvives /\ ShownIsContent

(* The invariant holds in the beginning.                                   *)
LEMMA CoherenceInit == Init => Coherence
  <1> SUFFICES ASSUME Init PROVE Coherence
    OBVIOUS
  <1>1. content \in Images
    BY AllType DEF Init, Values
  <1>2. TypeOK
    BY <1>1 DEF Init, TypeOK, Images, Defects
  <1>3. States /\ DirtyWhileLocked /\ ContentSurvives /\ ShownIsContent
    BY DEF Init, States, DirtyWhileLocked, ContentSurvives, ShownIsContent
  <1> QED
    BY <1>2, <1>3 DEF Coherence

(* It depends on the variables only.                                       *)
LEMMA CoherenceStutter == Coherence /\ UNCHANGED contentVars => Coherence'
  <1> SUFFICES ASSUME Coherence, UNCHANGED contentVars PROVE Coherence'
    OBVIOUS
  <1> USE DEF contentVars, kindVars, stateVars, pixelVars
  <1>1. TypeOK'
    BY DEF Coherence, TypeOK, Pixels, Values
  <1>2. States'
    BY DEF Coherence, States, All, Pixels
  <1>3. DirtyWhileLocked' /\ ContentSurvives' /\ ShownIsContent'
    BY DEF Coherence, DirtyWhileLocked, ContentSurvives, ShownIsContent, All, Pixels
  <1> QED
    BY <1>1, <1>2, <1>3 DEF Coherence

(* What the invariant says of types.                                       *)
LEMMA ImageTypes ==
  ASSUME Coherence
  PROVE  /\ KnownSystem /\ type \in {"managed", "immutable", "volatile"}
         /\ data \in Images \cup {NoData} /\ gpu \in Images \cup {NoData}
         /\ content \in Images
         /\ loaded <=> gpu # NoData
         /\ type = "volatile" => data = NoData
  BY ContentAssumption DEF Coherence, TypeOK, KnownSystem, Images

(* A texture of a file is created.                                         *)
LEMMA CreateFromFileKeeps == Coherence /\ CreateFromFile => Coherence'
  <1> SUFFICES ASSUME Coherence, CreateFromFile PROVE Coherence'
    OBVIOUS
  <1>1. content' \in Images
    BY AllType DEF CreateFromFile, Values
  <1>2. TypeOK'
    BY <1>1 DEF Coherence, TypeOK, CreateFromFile, kindVars, pixelVars, Images, Values, Pixels
  <1>3. States'
    BY DEF Coherence, States, CreateFromFile, kindVars, pixelVars, All, Pixels
  <1>4. DirtyWhileLocked' /\ ContentSurvives' /\ ShownIsContent'
    BY DEF Coherence, States, DirtyWhileLocked, ContentSurvives, ShownIsContent,
           CreateFromFile, kindVars, pixelVars, All, Pixels
  <1> QED
    BY <1>2, <1>3, <1>4 DEF Coherence

(* The size of a texture becomes known.                                    *)
LEMMA LoadMetaDataKeeps == Coherence /\ LoadMetaData => Coherence'
  <1> SUFFICES ASSUME Coherence, LoadMetaData PROVE Coherence'
    OBVIOUS
  <1> USE DEF LoadMetaData, kindVars, pixelVars
  <1>1. TypeOK'
    BY DEF Coherence, TypeOK, Pixels, Values
  <1>2. States'
    BY DEF Coherence, States, All, Pixels
  <1>3. DirtyWhileLocked' /\ ContentSurvives' /\ ShownIsContent'
    BY DEF Coherence, DirtyWhileLocked, ContentSurvives, ShownIsContent, All, Pixels
  <1> QED
    BY <1>1, <1>2, <1>3 DEF Coherence

(* lock().                                                                 *)
LEMMA LockKeeps == Coherence /\ Lock => Coherence'
  <1> SUFFICES ASSUME Coherence, Lock PROVE Coherence'
    OBVIOUS
  <1> USE DEF Lock, kindVars, pixelVars
  <1>1. TypeOK'
    BY DEF Coherence, TypeOK, Pixels, Values
  <1>2. States'
    BY DEF Coherence, States, All, Pixels
  <1>3. DirtyWhileLocked' /\ ContentSurvives' /\ ShownIsContent'
    BY DEF Coherence, DirtyWhileLocked, ContentSurvives, ShownIsContent, All, Pixels
  <1> QED
    BY <1>1, <1>2, <1>3 DEF Coherence

(* unload().                                                               *)
LEMMA UnloadKeeps == Coherence /\ Unload => Coherence'
  <1> SUFFICES ASSUME Coherence, Unload PROVE Coherence'
    OBVIOUS
  <1> USE DEF Unload, AfterUnload, kindVars, pixelVars
  <1>1. TypeOK'
    BY DEF Coherence, TypeOK, Pixels, Values
  <1>2. States'
    BY DEF Coherence, States, All, Pixels
  <1>3. DirtyWhileLocked' /\ ContentSurvives' /\ ShownIsContent'
    BY DEF Coherence, DirtyWhileLocked, ContentSurvives, ShownIsContent, All, Pixels
  <1> QED
    BY <1>1, <1>2, <1>3 DEF Coherence

(* A texture is created from data.                                         *)
LEMMA CreateFromDataKeeps ==
  ASSUME NEW c \in Colors, Coherence, CreateFromData(c) PROVE Coherence'
  <1>1. All(c) \in Images /\ All(Unknown) \in Images
    BY AllType DEF Values
  <1>2. gpu' \in Images /\ content' \in Images /\ data' \in Images \cup {NoData}
    BY <1>1 DEF CreateFromData
  <1>3. met' \subseteq Defects
    BY DEF CreateFromData, Defects
  <1>4. /\ created' /\ sized' /\ loaded' /\ manual /\ ~loaded /\ ~dirty /\ ~locked /\ ~mapped
        /\ UNCHANGED <<rendersys, type, manual, locked, dirty, mapped>>
    BY DEF CreateFromData, CreateManually, kindVars, Coherence, States, DirtyWhileLocked
  <1>5. firstUpload' \in BOOLEAN /\ native' \in BOOLEAN
        /\ (rendersys = "gl" => ~firstUpload')
    BY DEF CreateFromData, CreateManually, StillFirst, Coherence, TypeOK
  <1>6. type = "volatile" <=> data' = NoData
    BY <1>1, NoDataNoImage DEF CreateFromData
  <1>7. TypeOK'
    <2>1. gpu' # NoData
      BY <1>2, NoDataNoImage
    <2> QED
      BY <2>1, <1>2, <1>3, <1>4, <1>5, <1>6
      DEF Coherence, TypeOK, CreateFromData, CreateManually, Images, Pixels, Values
  <1>8. States'
    BY <1>4, <1>5, <1>6 DEF States
  <1>9. DirtyWhileLocked'
    BY <1>4 DEF DirtyWhileLocked
  <1>10. ContentSurvives'
    <2> SUFFICES ASSUME type # "volatile", "no copy" \notin met' PROVE data' = content'
      BY <1>4 DEF ContentSurvives
    <2>1. rendersys # "dx11"
      BY DEF CreateFromData
    <2> QED
      BY <2>1 DEF CreateFromData
  <1>11. ShownIsContent'
    BY DEF ShownIsContent, CreateFromData
  <1> QED
    BY <1>7, <1>8, <1>9, <1>10, <1>11 DEF Coherence

(* A texture is created from a color.                                      *)
LEMMA CreateFromColorKeeps ==
  ASSUME NEW c \in Colors, Coherence, CreateFromColor(c) PROVE Coherence'
  <1>1. All(c) \in Images /\ All(Unknown) \in Images
    BY AllType DEF Values
  <1>2. content' = All(c) /\ data' = (IF type = "volatile" THEN NoData ELSE All(c))
    BY DEF CreateFromColor
  <1>3. data' \in Images \cup {NoData} /\ (type = "volatile" <=> data' = NoData)
    BY <1>1, <1>2, NoDataNoImage
  <1>4. gpu' \in Images
    BY <1>1, <1>3, SendBufferType, WholeRange, ImageTypes DEF CreateFromColor
  <1>5. met' \subseteq Defects
    BY DEF CreateFromColor, Defects
  <1>6. /\ created' /\ sized' /\ loaded' /\ manual /\ ~loaded /\ ~dirty /\ ~locked /\ ~mapped
        /\ UNCHANGED <<rendersys, type, manual, locked, dirty, mapped>>
    BY DEF CreateFromColor, CreateManually, kindVars, Coherence, States, DirtyWhileLocked
  <1>7. firstUpload' \in BOOLEAN /\ native' \in BOOLEAN
        /\ (rendersys = "gl" => ~firstUpload')
    BY DEF CreateFromColor, CreateManually, StillFirst, Coherence, TypeOK
  <1>8. TypeOK'
    <2>1. gpu' # NoData
      BY <1>4, NoDataNoImage
    <2> QED
      BY <2>1, <1>1, <1>2, <1>3, <1>4, <1>5, <1>6, <1>7
      DEF Coherence, TypeOK, Images, Pixels, Values
  <1>9. States'
    BY <1>3, <1>6, <1>7 DEF States
  <1>10. DirtyWhileLocked' /\ ContentSurvives'
    BY <1>2, <1>6 DEF DirtyWhileLocked, ContentSurvives
  <1>11. ShownIsContent'
    <2> SUFFICES ASSUME met' = {} PROVE gpu' = All(c)
      BY <1>2 DEF ShownIsContent
    <2>1. rendersys = "dx11" => CanMap
      BY DEF CreateFromColor
    <2>2. SendBuffer(Whole, All(c), All(Unknown), data') = All(c)
      BY <1>1, <1>2, <1>3, <2>1, SendBufferShows, WholeRange, ImageTypes DEF Rest
    <2> QED
      BY <2>2 DEF CreateFromColor
  <1> QED
    BY <1>8, <1>9, <1>10, <1>11 DEF Coherence

(* unlock().                                                               *)
LEMMA UnlockKeeps == Coherence /\ Unlock => Coherence'
  <1> SUFFICES ASSUME Coherence, Unlock PROVE Coherence'
    OBVIOUS
  <1>1. /\ locked /\ type = "managed" /\ ~mapped /\ locked' = FALSE
        /\ dirty' = FALSE
        /\ UNCHANGED <<rendersys, type, manual, created, sized, loaded, native, data,
                       mapped, content>>
    BY DEF Unlock, Coherence, States, kindVars
  <1>2. CASE loaded /\ dirty
    <2>1. data \in Images /\ gpu \in Images
      BY <1>2, ImageTypes DEF Coherence, DirtyWhileLocked
    <2>2. gpu' = SendCopy(Whole, data, gpu) /\ firstUpload' = StillFirst /\ met' = met \ {"outside"}
      BY <1>2 DEF Unlock
    <2>3. gpu' = data
      BY <1>1, <2>1, <2>2, SendCopyShows, WholeRange, ImageTypes DEF Rest, CanMap
    <2>4. firstUpload' \in BOOLEAN /\ (rendersys = "gl" => ~firstUpload')
      BY <2>2 DEF StillFirst, Coherence, TypeOK
    <2>5. TypeOK'
      <3>1. gpu' # NoData
        BY <2>1, <2>3, NoDataNoImage
      <3>2. met' \subseteq Defects
        BY <2>2 DEF Coherence, TypeOK
      <3> QED
        BY <1>1, <1>2, <2>1, <2>3, <2>4, <3>1, <3>2 DEF Coherence, TypeOK, Images, Pixels, Values
    <2>6. States'
      BY <1>1, <2>4 DEF Coherence, States, All, Pixels
    <2>7. DirtyWhileLocked' /\ ContentSurvives'
      BY <1>1, <2>2 DEF DirtyWhileLocked, Coherence, ContentSurvives, All, Pixels
    <2>8. ShownIsContent'
      <3> SUFFICES ASSUME met' = {} PROVE data = content
        BY <1>1, <2>3 DEF ShownIsContent
      <3>1. "no copy" \notin met
        <4>1. met \subseteq {"outside"}
          BY <2>2
        <4> QED
          BY <4>1
      <3> QED
        BY <1>1, <1>2, <2>1, <3>1, NoDataNoImage DEF Coherence, ContentSurvives, TypeOK, States
    <2> QED
      BY <2>5, <2>6, <2>7, <2>8 DEF Coherence
  <1>3. CASE ~(loaded /\ dirty)
    <2>1. UNCHANGED <<gpu, firstUpload, met>>
      BY <1>3 DEF Unlock
    <2>2. TypeOK'
      BY <1>1, <2>1 DEF Coherence, TypeOK, Pixels, Values
    <2>3. States'
      BY <1>1, <1>3, <2>1 DEF Coherence, States, All, Pixels
    <2>4. DirtyWhileLocked' /\ ContentSurvives' /\ ShownIsContent'
      BY <1>1, <1>3, <2>1
      DEF Coherence, DirtyWhileLocked, ContentSurvives, ShownIsContent, All, Pixels
    <2> QED
      BY <2>2, <2>3, <2>4 DEF Coherence
  <1> QED
    BY <1>2, <1>3

(* A write that fails on DirectX 11.                                       *)
LEMMA WriteFailsKeeps ==
  ASSUME NEW r \in Ranges, Coherence, WriteFails(r) PROVE Coherence'
  <1>1. /\ type = "volatile" /\ rendersys = "dx11" /\ loaded /\ mapped'
        /\ gpu' = All(Unknown) /\ met' = met \cup {"mapped"}
        /\ UNCHANGED <<rendersys, type, manual, created, sized, loaded, locked, dirty,
                       firstUpload, native, data, content>>
    BY DEF WriteFails, kindVars, stateVars
  <1>2. gpu' \in Images /\ gpu' # NoData
    BY <1>1, AllType, NoDataNoImage DEF Values
  <1>3. TypeOK'
    <2>1. met' \subseteq Defects
      BY <1>1 DEF Coherence, TypeOK, Defects
    <2> QED
      BY <1>1, <1>2, <2>1 DEF Coherence, TypeOK, Images, Pixels, Values
  <1>4. States'
    BY <1>1 DEF Coherence, States, All, Pixels
  <1>5. DirtyWhileLocked' /\ ContentSurvives' /\ ShownIsContent'
    BY <1>1 DEF Coherence, DirtyWhileLocked, ContentSurvives, ShownIsContent
  <1> QED
    BY <1>3, <1>4, <1>5 DEF Coherence

(* What load() finds.                                                      *)
LEMMA SourceFound ==
  ASSUME Coherence, created, ~loaded
  PROVE  /\ Source \in Images \cup {NoData}
         /\ Source = NoData => type = "volatile" /\ sized
         /\ data # NoData => Source = data
         /\ data = NoData /\ Source # NoData /\ type # "volatile" => Source = All(FilePixel)
         /\ Source # NoData /\ "no copy" \notin met => Source = content
  <1>1. All(FilePixel) \in Images /\ All(FilePixel) # NoData
    BY AllType, NoDataNoImage DEF Values
  <1>2. CASE data # NoData
    <2>1. Source = data /\ data \in Images /\ type # "volatile"
      BY <1>2, ImageTypes DEF Source
    <2>2. "no copy" \notin met => data = content
      BY <1>2, <2>1 DEF Coherence, ContentSurvives
    <2> QED
      BY <1>2, <2>1, <2>2
  <1>3. CASE data = NoData /\ type = "volatile" /\ sized
    BY <1>3 DEF Source
  <1>4. CASE data = NoData /\ ~(type = "volatile" /\ sized)
    <2>1. Source = All(FilePixel)
      BY <1>4 DEF Source
    <2>2. "no copy" \notin met => content = All(FilePixel)
      <3>1. CASE type = "volatile"
        BY <1>4, <3>1 DEF Coherence, States
      <3>2. CASE type # "volatile"
        BY <1>4, <3>2, NoDataNoImage, ImageTypes DEF Coherence, ContentSurvives
      <3> QED
        BY <3>1, <3>2
    <2> QED
      BY <1>1, <1>4, <2>1, <2>2
  <1> QED
    BY <1>2, <1>3, <1>4

(* load().                                                                 *)
LEMMA LoadKeeps == Coherence /\ Load => Coherence'
  <1> SUFFICES ASSUME Coherence, Load PROVE Coherence'
    OBVIOUS
  <1>1. /\ created /\ ~loaded /\ dirty = FALSE /\ loaded' = TRUE /\ sized' = TRUE
        /\ firstUpload' = (StillFirst \/ dirty') /\ met' = met \cap {"no copy"}
        /\ UNCHANGED <<rendersys, type, manual, created, locked, mapped>>
    BY DEF Load, Coherence, TypeOK, DirtyWhileLocked, kindVars
  <1>2. CASE LoadsBlank
    <2>1. /\ type = "volatile" /\ dirty' = FALSE /\ gpu' = All(Clear) /\ content' = All(Clear)
          /\ UNCHANGED <<data, native>>
      BY <1>1, <1>2, SourceFound DEF LoadsBlank
    <2>2. gpu' \in Images /\ gpu' # NoData
      BY <2>1, AllType, NoDataNoImage DEF Values
    <2>3. firstUpload' \in BOOLEAN /\ (rendersys = "gl" => ~firstUpload')
      BY <1>1, <2>1 DEF StillFirst, Coherence, TypeOK
    <2>4. TypeOK'
      BY <1>1, <2>1, <2>2, <2>3 DEF Coherence, TypeOK, Images, Pixels, Values
    <2>5. States'
      BY <1>1, <2>1, <2>3 DEF Coherence, States
    <2>6. DirtyWhileLocked' /\ ContentSurvives' /\ ShownIsContent'
      BY <1>1, <2>1 DEF DirtyWhileLocked, ContentSurvives, ShownIsContent
    <2> QED
      BY <2>4, <2>5, <2>6 DEF Coherence
  <1>3. CASE Loads
    <2> DEFINE onlyInRAM == rendersys # "dx11" /\ locked /\ data # NoData
    <2>1. /\ Source # NoData /\ content' = content
          /\ dirty' = (dirty \/ onlyInRAM)
          /\ gpu' = IF onlyInRAM THEN All(Unknown) ELSE Source
          /\ data' = IF KeepsCopy THEN Source ELSE NoData
          /\ native' = (native \/ ~KeepsCopy)
      BY <1>3 DEF Loads
    <2>2. Source \in Images
      BY <1>1, <2>1, SourceFound
    <2>3. gpu' \in Images /\ gpu' # NoData
      BY <2>1, <2>2, AllType, NoDataNoImage DEF Values
    <2>4. /\ dirty' \in BOOLEAN /\ firstUpload' \in BOOLEAN /\ native' \in BOOLEAN
          /\ (rendersys = "gl" /\ ~dirty' => ~firstUpload')
      BY <1>1, <2>1 DEF StillFirst, Coherence, TypeOK
    <2>5. data' \in Images \cup {NoData} /\ (type = "volatile" => data' = NoData)
      BY <2>1, <2>2 DEF KeepsCopy
    <2>6. TypeOK'
      BY <1>1, <2>1, <2>3, <2>4, <2>5 DEF Coherence, TypeOK, Images, Pixels, Values
    <2>7. type = "managed" => data' # NoData
      BY <2>1 DEF KeepsCopy
    <2>8. manual /\ type # "volatile" => data' # NoData
      BY <2>1, ImageTypes DEF KeepsCopy
    <2>9. States'
      <3>1. data' # NoData => type = "managed" \/ manual
        BY <2>1 DEF KeepsCopy
      <3> QED
        BY <1>1, <2>1, <2>4, <2>7, <2>8, <3>1 DEF Coherence, States
    <2>10. DirtyWhileLocked'
      <3>1. dirty' => locked
        BY <1>1, <2>1
      <3>2. locked => type = "managed"
        BY DEF Coherence, States
      <3> QED
        BY <1>1, <2>7, <3>1, <3>2 DEF DirtyWhileLocked
    <2>11. "no copy" \notin met' => Source = content
      BY <1>1, <2>1, SourceFound
    <2>12. ContentSurvives'
      <3> SUFFICES ASSUME type # "volatile", "no copy" \notin met'
                   PROVE  data' = content \/ (data' = NoData /\ ~manual /\ content = All(FilePixel))
        BY <1>1, <2>1 DEF ContentSurvives, All, Pixels
      <3>1. CASE KeepsCopy
        BY <2>1, <2>11, <3>1
      <3>2. CASE ~KeepsCopy
        <4>1. type = "immutable" /\ ~manual /\ data' = NoData
          BY <2>1, <3>2, ImageTypes DEF KeepsCopy
        <4> QED
          BY <1>1, <2>1, <2>11, <4>1, SourceFound DEF Coherence, States
      <3> QED
        BY <3>1, <3>2
    <2>13. ShownIsContent'
      BY <1>1, <2>1, <2>11 DEF ShownIsContent
    <2> QED
      BY <2>6, <2>9, <2>10, <2>12, <2>13 DEF Coherence
  <1> QED
    BY <1>2, <1>3 DEF Load

(* What a write that meets no defect relies on.                            *)
LEMMA MetAfterProperties ==
  ASSUME Coherence, NEW r \in Ranges
  PROVE  /\ MetAfter(r) \subseteq Defects
         /\ r # Whole => met \subseteq MetAfter(r)
         /\ r # Whole /\ rendersys # "dx11" /\ MetAfter(r) = {} => Within(r)
         /\ r # Whole /\ rendersys = "dx11" /\ MetAfter(r) = {} => data # NoData
  <1>1. met \subseteq Defects
    BY DEF Coherence, TypeOK
  <1>2. {"discarded"} \subseteq Defects /\ {"outside"} \subseteq Defects
    BY DEF Defects
  <1> QED
    BY <1>1, <1>2 DEF MetAfter

(* An image in which the same range was painted in the same color is the   *)
(* same if it was before; if the range is everything, always.              *)
LEMMA PaintSame ==
  ASSUME NEW r \in Ranges, NEW v \in Values, NEW a \in Images, NEW b \in Images,
         r = Whole \/ a = b
  PROVE  Paint(a, r, All(v)) = Paint(b, r, All(v))
  BY PaintWhole, AllType

(* What a write paints agrees with the old image outside of its range.     *)
LEMMA PaintRest ==
  ASSUME NEW r \in Ranges, NEW from \in Images, NEW old \in Images
  PROVE  \A p \in Pixels : p \notin Inside(r) => Paint(old, r, from)[p] = old[p]
  BY DEF Paint

(* A write with a copy in RAM.                                             *)
LEMMA WriteCopyKeeps ==
  ASSUME NEW r \in Ranges, NEW c \in Colors, Coherence, WriteCopy(r, c) PROVE Coherence'
  <1>1. /\ loaded /\ created /\ sized /\ type = "managed" /\ ~mapped /\ content \in Images
        /\ data \in Images /\ gpu \in Images /\ c \in Values /\ All(c) \in Images
    BY ImageTypes, AllType DEF WriteCopy, Coherence, States, Values
  <1>2. /\ data' = Paint(data, r, All(c)) /\ content' = Paint(content, r, All(c))
        /\ UNCHANGED <<rendersys, type, manual, created, sized, loaded, locked, native,
                       mapped>>
    BY DEF WriteCopy, Wrote, kindVars
  <1>3. data' \in Images /\ content' \in Images /\ data' # NoData
    BY <1>1, <1>2, PaintType, NoDataNoImage
  <1>4. r = Whole \/ "no copy" \notin met => data' = content'
    BY <1>1, <1>2, NoDataNoImage, PaintSame DEF Coherence, ContentSurvives
  <1>5. CASE locked
    <2>1. /\ dirty' = TRUE /\ UNCHANGED <<gpu, firstUpload>>
          /\ met' = IF r = Whole THEN met \ {"no copy"} ELSE met
      BY <1>5 DEF WriteCopy, MarksDirty
    <2>2. TypeOK'
      BY <1>1, <1>2, <1>3, <2>1 DEF Coherence, TypeOK, Images, Pixels, Values
    <2>3. States'
      BY <1>1, <1>2, <1>3, <2>1 DEF Coherence, States
    <2>4. DirtyWhileLocked' /\ ShownIsContent'
      BY <1>1, <1>2, <1>3, <1>5, <2>1 DEF DirtyWhileLocked, ShownIsContent
    <2>5. ContentSurvives'
      BY <1>4, <2>1 DEF ContentSurvives
    <2> QED
      BY <2>2, <2>3, <2>4, <2>5 DEF Coherence
  <1>6. CASE ~locked
    <2>1. /\ gpu' = SendCopy(r, data', gpu) /\ firstUpload' = StillFirst
          /\ met' = MetAfter(r) /\ dirty' = dirty
      BY <1>6 DEF WriteCopy
    <2>2. ~dirty
      BY <1>6 DEF Coherence, DirtyWhileLocked
    <2>3. firstUpload' \in BOOLEAN /\ (rendersys = "gl" => ~firstUpload')
      BY <2>1 DEF StillFirst, Coherence, TypeOK
    <2>4. gpu' \in Images /\ gpu' # NoData
      BY <1>1, <1>3, <2>1, SendCopyType, ImageTypes, NoDataNoImage
    <2>5. TypeOK'
      BY <1>1, <1>2, <1>3, <2>1, <2>3, <2>4, MetAfterProperties
      DEF Coherence, TypeOK, Images, Pixels, Values
    <2>6. States'
      BY <1>1, <1>2, <1>3, <2>1, <2>3 DEF Coherence, States
    <2>7. DirtyWhileLocked'
      BY <2>1, <2>2 DEF DirtyWhileLocked
    <2>8. ContentSurvives'
      <3>1. "no copy" \notin met' => data' = content'
        BY <1>4, <2>1, MetAfterProperties
      <3> QED
        BY <3>1 DEF ContentSurvives
    <2>9. ShownIsContent'
      <3> SUFFICES ASSUME met' = {} PROVE gpu' = content'
        BY DEF ShownIsContent
      <3>1. data' = content'
        BY <1>4, <2>1, MetAfterProperties
      <3>2. rendersys = "dx11" => CanMap
        BY <1>1 DEF CanMap
      <3>3. rendersys # "dx11" => Rest(r, data', gpu)
        <4> SUFFICES ASSUME rendersys # "dx11", r # Whole PROVE Rest(r, data', gpu)
          BY DEF Rest
        <4>1. Within(r) /\ met = {}
          BY <2>1, MetAfterProperties
        <4>2. gpu = content /\ ~(rendersys = "gl" /\ firstUpload)
          BY <1>1, <2>2, <4>1 DEF Coherence, ShownIsContent, States
        <4>3. \A p \in Pixels : p \notin Inside(r) => gpu[p] = data'[p]
          BY <1>1, <1>2, <3>1, <4>2, PaintRest
        <4> QED
          BY <4>1, <4>2, <4>3 DEF Rest
      <3>4. SendCopy(r, data', gpu) = data'
        BY <1>1, <1>3, <3>2, <3>3, SendCopyShows, ImageTypes
      <3> QED
        BY <2>1, <3>1, <3>4
    <2> QED
      BY <2>5, <2>6, <2>7, <2>8, <2>9 DEF Coherence
  <1> QED
    BY <1>5, <1>6

(* A write without a copy in RAM.                                          *)
LEMMA WriteGPUKeeps ==
  ASSUME NEW r \in Ranges, NEW c \in Colors, NEW converts \in BOOLEAN,
         Coherence, WriteGPU(r, c, converts)
  PROVE  Coherence'
  <1>1. /\ loaded /\ created /\ type = "volatile" /\ data = NoData /\ content \in Images
        /\ gpu \in Images /\ All(c) \in Images /\ (rendersys = "dx11" => CanMap)
    BY ImageTypes, AllType DEF WriteGPU, Coherence, States, Values
  <1>2. /\ gpu' = IF converts THEN SendBuffer(r, All(c), gpu, NoData)
                  ELSE SendDirectly(r, All(c), gpu, NoData)
        /\ content' = Paint(content, r, All(c)) /\ met' = MetAfter(r)
        /\ firstUpload' = StillFirst
        /\ UNCHANGED <<rendersys, type, manual, created, sized, loaded, locked, dirty,
                       native, data, mapped>>
    BY DEF WriteGPU, Wrote, kindVars
  <1>3. ~dirty /\ ~locked
    BY <1>1 DEF Coherence, DirtyWhileLocked, States
  <1>4. firstUpload' \in BOOLEAN /\ (rendersys = "gl" => ~firstUpload')
    BY <1>2 DEF StillFirst, Coherence, TypeOK
  <1>5. content' \in Images
    BY <1>1, <1>2, PaintType
  <1>6. gpu' \in Images /\ gpu' # NoData
    <2>1. SendBuffer(r, All(c), gpu, NoData) \in Images
      BY <1>1, SendBufferType, ImageTypes
    <2>2. SendDirectly(r, All(c), gpu, NoData) \in Images
      BY <1>1, SendDirectlyType, ImageTypes
    <2> QED
      BY <1>2, <2>1, <2>2, NoDataNoImage
  <1>7. TypeOK'
    BY <1>1, <1>2, <1>4, <1>5, <1>6, MetAfterProperties
    DEF Coherence, TypeOK, Images, Pixels, Values
  <1>8. States'
    BY <1>1, <1>2, <1>4 DEF Coherence, States
  <1>9. DirtyWhileLocked' /\ ContentSurvives'
    BY <1>1, <1>2, <1>3 DEF DirtyWhileLocked, ContentSurvives
  <1>10. ShownIsContent'
    <2> SUFFICES ASSUME met' = {} PROVE gpu' = content'
      BY DEF ShownIsContent
    <2>1. r = Whole \/ rendersys # "dx11"
      BY <1>1, <1>2, MetAfterProperties
    <2>2. CASE r = Whole
      <3>1. content' = All(c)
        BY <1>1, <1>2, <2>2, PaintWhole
      <3>2. SendBuffer(r, All(c), gpu, NoData) = All(c)
        BY <1>1, <2>2, SendBufferShows, ImageTypes DEF Rest
      <3>3. SendDirectly(r, All(c), gpu, NoData) = All(c)
        BY <1>1, <2>2, SendDirectlyShows, ImageTypes DEF Rest
      <3> QED
        BY <1>2, <3>1, <3>2, <3>3
    <2>3. CASE r # Whole /\ rendersys # "dx11"
      <3>1. Within(r) /\ met = {}
        BY <1>2, <2>3, MetAfterProperties
      <3>2. gpu = content /\ ~(rendersys = "gl" /\ firstUpload)
        BY <1>1, <1>3, <3>1 DEF Coherence, ShownIsContent, States
      <3>3. PaintWithin(gpu, r, All(c)) = content'
        BY <1>2, <3>1, <3>2 DEF PaintWithin
      <3>4. r.w # Width
        BY <2>3, <3>1, WideRange
      <3>5. /\ SendBuffer(r, All(c), gpu, NoData) = content'
            /\ SendDirectly(r, All(c), gpu, NoData) = content'
        BY <1>1, <2>3, <3>2, <3>3, <3>4, ImageTypes
        DEF SendBuffer, SendDirectly, BufferForGL, KnownSystem
      <3> QED
        BY <1>2, <3>5
    <2> QED
      BY <2>1, <2>2, <2>3
  <1> QED
    BY <1>7, <1>8, <1>9, <1>10 DEF Coherence

(* Every step keeps the invariant.                                         *)
LEMMA CoherenceStep == Coherence /\ [Next]_contentVars => Coherence'
  <1> SUFFICES ASSUME Coherence, [Next]_contentVars PROVE Coherence'
    OBVIOUS
  <1>1. CASE CreateFromFile
    BY <1>1, CreateFromFileKeeps
  <1>2. CASE LoadMetaData
    BY <1>2, LoadMetaDataKeeps
  <1>3. CASE Load
    BY <1>3, LoadKeeps
  <1>4. CASE Unload
    BY <1>4, UnloadKeeps
  <1>5. CASE Lock
    BY <1>5, LockKeeps
  <1>6. CASE Unlock
    BY <1>6, UnlockKeeps
  <1>7. ASSUME NEW c \in Colors, CreateFromData(c) PROVE Coherence'
    BY <1>7, CreateFromDataKeeps
  <1>8. ASSUME NEW c \in Colors, CreateFromColor(c) PROVE Coherence'
    BY <1>8, CreateFromColorKeeps
  <1>9. ASSUME NEW r \in Ranges, NEW c \in Colors, WriteCopy(r, c) PROVE Coherence'
    BY <1>9, WriteCopyKeeps
  <1>10. ASSUME NEW r \in Ranges, NEW c \in Colors, NEW converts \in BOOLEAN,
                WriteGPU(r, c, converts)
         PROVE  Coherence'
    BY <1>10, WriteGPUKeeps
  <1>11. ASSUME NEW r \in Ranges, WriteFails(r) PROVE Coherence'
    BY <1>11, WriteFailsKeeps
  <1>12. CASE UNCHANGED contentVars
    BY <1>12, CoherenceStutter
  <1> QED
    BY <1>1, <1>2, <1>3, <1>4, <1>5, <1>6, <1>7, <1>8, <1>9, <1>10, <1>11, <1>12 DEF Next

-----------------------------------------------------------------------------
(* The copy in RAM, the texture on the GPU and what was written to it      *)
(* stay coherent, in every order of the calls (Texture.cpp).               *)
THEOREM ContentInvariant == Spec => []Coherence
  <1>1. Init => Coherence
    BY CoherenceInit
  <1>2. Coherence /\ [Next]_contentVars => Coherence'
    BY CoherenceStep
  <1> QED
    BY <1>1, <1>2, PTL DEF Spec

(* Every variable keeps its type; no volatile texture has a copy in RAM.   *)
THEOREM ContentTypes == Spec => []TypeOK
  <1>1. Coherence => TypeOK
    BY DEF Coherence
  <1> QED
    BY <1>1, ContentInvariant, PTL

(* The GPU shows what was written, apart from the recorded defects         *)
(* (_unlock(), _uploadDataToGpu(), load()).                                *)
THEOREM ShowsContent == Spec => []ShownIsContent
  <1>1. Coherence => ShownIsContent
    BY DEF Coherence
  <1> QED
    BY <1>1, ContentInvariant, PTL

(* The contents of a texture that is not volatile are never lost           *)
(* (load(), unload()).                                                     *)
THEOREM ContentIsKept == Spec => []ContentSurvives
  <1>1. Coherence => ContentSurvives
    BY DEF Coherence
  <1> QED
    BY <1>1, ContentInvariant, PTL

(* Pixels wait for the GPU only while unlock() is still to come.           *)
THEOREM DirtyOnlyLocked == Spec => []DirtyWhileLocked
  <1>1. Coherence => DirtyWhileLocked
    BY DEF Coherence
  <1> QED
    BY <1>1, ContentInvariant, PTL
=============================================================================
