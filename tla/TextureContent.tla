--------------------------- MODULE TextureContent ---------------------------
(***************************************************************************)
(* What a texture shows: its pixels on the GPU, its copy in RAM, and how   *)
(* lock(), unlock(), unload(), load() and the functions that write pixels  *)
(* keep them together on the render systems OpenGL, DirectX 9 and          *)
(* DirectX 11 (Texture.cpp and the texture class of each render system).   *)
(*                                                                         *)
(* A texture is one row of pixels, a write paints a range of it in one     *)
(* color.  Pixels are read from uninitialized memory as Unknown.           *)
(***************************************************************************)
EXTENDS Integers

CONSTANTS
    Width,         \* of the texture
    Colors,        \* the application writes
    FilePixel,     \* what every pixel of the image file is
    Clear, Unknown,
    NoData,        \* NULL
    RenderSystems, \* the build may use
    Types          \* Texture::Type of textures the application creates

ASSUME ContentAssumption ==
    /\ Width \in Nat \ {0}
    /\ Clear \notin Colors /\ Unknown \notin Colors \cup {Clear, FilePixel}
    /\ NoData \notin [0..Width - 1 -> Colors \cup {FilePixel, Clear, Unknown}]
    /\ RenderSystems \subseteq {"gl", "dx9", "dx11"}
    /\ Types \subseteq {"managed", "immutable", "volatile"}

VARIABLES
    rendersys, type,
    manual,        \* created from data or a color: filename = ""
    native,        \* the format needs no conversion for the GPU
    created, sized, loaded, locked, dirty, firstUpload,
    data,          \* the copy in RAM, or NoData
    gpu,           \* the internal texture, or NoData
    mapped,        \* DirectX 11: mapped and never unmapped
    \* history
    content,       \* what the application wrote last
    met            \* known defects that made the pixels differ from content

kindVars   == <<rendersys, type, manual>>
stateVars  == <<created, sized, loaded, locked, dirty, firstUpload, native>>
pixelVars  == <<data, gpu, mapped>>
contentVars == <<kindVars, stateVars, pixelVars, content, met>>

Pixels == 0..Width - 1
Values == Colors \cup {FilePixel, Clear, Unknown}
All(v) == [p \in Pixels |-> v]

Defects == {"no copy", "immutable", "raw", "outside", "discarded", "mapped"}

TypeOK ==
    /\ rendersys \in RenderSystems /\ type \in Types /\ met \subseteq Defects
    /\ {manual, native, created, sized, loaded, locked, dirty, firstUpload,
        mapped} \subseteq BOOLEAN
    /\ data \in [Pixels -> Values] \cup {NoData}
    /\ gpu \in [Pixels -> Values] \cup {NoData}
    /\ content \in [Pixels -> Values]
    /\ loaded = (gpu # NoData) /\ (loaded => created)
    /\ data # NoData => sized /\ type # "volatile"

Init ==
    /\ rendersys \in RenderSystems /\ type \in Types
    /\ manual \in BOOLEAN /\ native \in BOOLEAN
    /\ created = FALSE /\ sized = FALSE /\ loaded = FALSE
    /\ locked = FALSE /\ dirty = FALSE /\ firstUpload = TRUE
    /\ data = NoData /\ gpu = NoData /\ mapped = FALSE
    /\ content = All(Unknown) /\ met = {}

-----------------------------------------------------------------------------
(* Ranges of pixels; the application may pass ones that are not within     *)
(* the texture.                                                            *)
Ranges == [x : -1..Width, w : 1..Width]
Whole == [x |-> 0, w |-> Width]
Inside(r) == {p \in Pixels : r.x <= p /\ p < r.x + r.w}
Within(r) == r.x >= 0 /\ r.x + r.w <= Width

Paint(image, r, from) == [p \in Pixels |-> IF p \in Inside(r) THEN from[p] ELSE image[p]]

(* glTexSubImage2D() and UpdateSurface() do nothing for a range that is    *)
(* not within the texture.                                                 *)
PaintWithin(image, r, from) == IF Within(r) THEN Paint(image, r, from) ELSE image

(* DirectX 11: Map() can write neither to an immutable texture nor to one  *)
(* that is still mapped.                                                   *)
CanMap == type # "immutable" /\ ~mapped

(* A buffer of the render system with the pixels of range r is sent to the *)
(* GPU (_tryLockSystem(), _unlockSystem()).  OpenGL takes a buffer of the  *)
(* width of the texture for the whole texture, DirectX 11 discards what is *)
(* not written and restores it from the copy in RAM.                       *)
BufferForGL(r, from, old) ==
    IF r.w = Width THEN from
    ELSE PaintWithin(IF firstUpload THEN All(Clear) ELSE old, r, from)

BufferForDirectX11(r, from, old, copy) ==
    IF ~CanMap THEN old
    ELSE IF copy # NoData THEN copy ELSE Paint(All(Unknown), r, from)

SendBuffer(r, from, old, copy) ==
    IF rendersys = "gl" THEN BufferForGL(r, from, old)
    ELSE IF rendersys = "dx9" THEN PaintWithin(old, r, from)
    ELSE BufferForDirectX11(r, from, old, copy)

(* _uploadToGpu().                                                         *)
SendDirectly(r, from, old, copy) ==
    IF rendersys = "gl"
    THEN PaintWithin(IF firstUpload THEN All(Clear) ELSE old, r, from)
    ELSE SendBuffer(r, from, old, copy)

(* _uploadDataToGpu(): conversion to the native format goes by way of a    *)
(* buffer, which is not written when the range is not within the texture.  *)
SendCopy(r, copy, old) ==
    IF native THEN SendDirectly(r, copy, old, copy)
    ELSE SendBuffer(r, IF Within(r) THEN copy ELSE All(Unknown), old, copy)

StillFirst == rendersys = "dx9" /\ firstUpload

-----------------------------------------------------------------------------
(* createTextureFromFile() and the other ways to create a texture.         *)

CreateFromFile ==
    /\ ~created /\ created' = TRUE
    /\ ~manual
    /\ content' = All(FilePixel)
    /\ UNCHANGED <<kindVars, sized, loaded, locked, dirty, firstUpload, native,
                   pixelVars, met>>

(* A volatile texture gets the native format.                              *)
CreateManually ==
    /\ ~created /\ created' = TRUE
    /\ manual
    /\ sized' = TRUE /\ loaded' = TRUE
    /\ native' = (native \/ type = "volatile")
    /\ UNCHANGED <<kindVars, locked, dirty, mapped>>

(* The copy in RAM is written after the internal texture is created,       *)
(* unless that has uploaded the data already: on DirectX 11.  A volatile   *)
(* texture has the native format by then, so that DirectX 11 does not      *)
(* convert the data.                                                       *)
CreateFromData(c) ==
    /\ CreateManually
    /\ firstUpload' = StillFirst
    /\ content' = All(c)
    /\ data' = IF type = "volatile" THEN NoData
               ELSE All(IF rendersys = "dx11" THEN Unknown ELSE c)
    /\ met' = IF rendersys # "dx11" THEN {}
              ELSE IF type # "volatile" THEN {"no copy"}
              ELSE IF native THEN {} ELSE {"raw"}
    /\ gpu' = All(IF "raw" \in met' THEN Unknown ELSE c)

(* The internal texture is created from uninitialized data and filled      *)
(* afterwards, which an immutable texture of DirectX 11 does not allow.    *)
CreateFromColor(c) ==
    /\ CreateManually
    /\ firstUpload' = StillFirst
    /\ content' = All(c)
    /\ data' = IF type = "volatile" THEN NoData ELSE All(c)
    /\ gpu' = SendBuffer(Whole, All(c), All(Unknown), data')
    /\ met' = IF rendersys = "dx11" /\ ~CanMap THEN {"immutable"} ELSE {}

-----------------------------------------------------------------------------
(* loadMetaData() and load().                                              *)

LoadMetaData ==
    /\ created /\ ~loaded /\ ~sized
    /\ sized' = TRUE
    /\ UNCHANGED <<kindVars, created, loaded, locked, dirty, firstUpload, native,
                   pixelVars, content, met>>

KeepsCopyIfManaged == type = "managed"
KeepsCopy == type = "managed" \/ (type = "immutable" /\ manual)

(* What is loaded: the copy in RAM, nothing into a volatile texture whose  *)
(* size is known, or the file.                                             *)
Source ==
    CASE data # NoData -> data
      [] type = "volatile" /\ sized -> NoData
      [] OTHER -> All(FilePixel)

LoadsBlank ==
    /\ Source = NoData
    /\ gpu' = All(Clear)
    /\ content' = All(Clear)
    /\ dirty' = dirty
    /\ UNCHANGED <<data, native>>

(* While a texture is locked, write() only changes the copy in RAM.        *)
Loads ==
    /\ Source # NoData
    /\ LET onlyInRAM == rendersys # "dx11" /\ locked /\ data # NoData
       IN /\ dirty' = (dirty \/ onlyInRAM)
          /\ gpu' = IF onlyInRAM THEN All(Unknown) ELSE Source
    /\ data' = IF KeepsCopy THEN Source ELSE NoData
    /\ native' = (native \/ ~KeepsCopy)
    /\ UNCHANGED content

Load ==
    /\ created /\ ~loaded
    /\ LoadsBlank \/ Loads
    /\ loaded' = TRUE /\ sized' = TRUE
    /\ firstUpload' = (StillFirst \/ dirty')
    /\ met' = met \cap {"no copy"}
    /\ UNCHANGED <<kindVars, created, locked, mapped>>

(* unload() ends with unlock().                                            *)
AfterUnloadOnly(lock) == lock
AfterUnload(lock) == FALSE

Unload ==
    /\ created
    /\ loaded' = FALSE /\ gpu' = NoData /\ mapped' = FALSE
    /\ firstUpload' = TRUE
    /\ locked' = AfterUnload(locked) /\ dirty' = AfterUnload(dirty)
    /\ UNCHANGED <<kindVars, created, sized, native, data, content, met>>

-----------------------------------------------------------------------------
(* lock() and unlock().                                                    *)

Lock ==
    /\ created /\ type = "managed" /\ ~locked
    /\ locked' = TRUE
    /\ UNCHANGED <<kindVars, created, sized, loaded, dirty, firstUpload, native,
                   pixelVars, content, met>>

Unlock ==
    /\ locked /\ locked' = FALSE
    /\ dirty' = FALSE
    /\ IF loaded /\ dirty
       THEN gpu' = SendCopy(Whole, data, gpu) /\ firstUpload' = StillFirst
            /\ met' = met \ {"outside"}
       ELSE UNCHANGED <<gpu, firstUpload, met>>
    /\ UNCHANGED <<kindVars, created, sized, loaded, native, data, mapped, content>>

-----------------------------------------------------------------------------
(* The functions that write pixels: setPixel(), fillRect(), write(),       *)
(* writeStretch(), blit() and the others.                                  *)

Wrote(r, c) == content' = Paint(content, r, All(c))

(* Defects a write meets: one that sticks out of the texture changes all,  *)
(* nothing or other pixels of the GPU's; DirectX 11 discards the pixels    *)
(* that are not written if there is no copy.  Writing all mends them.      *)
MetAfter(r) ==
    IF r = Whole THEN {}
    ELSE met \cup (IF rendersys = "dx11"
                   THEN IF data = NoData THEN {"discarded"} ELSE {}
                   ELSE IF Within(r) THEN {} ELSE {"outside"})

(* With a copy in RAM: the GPU follows at once, or at unlock().            *)
MarksNothing == dirty
MarksDirty == TRUE

WriteCopy(r, c) ==
    /\ loaded /\ type = "managed" /\ Inside(r) # {}
    /\ data' = Paint(data, r, All(c))
    /\ Wrote(r, c)
    /\ IF locked
       THEN /\ dirty' = MarksDirty
            /\ met' = IF r = Whole THEN met \ {"no copy"} ELSE met
            /\ UNCHANGED <<gpu, firstUpload>>
       ELSE /\ gpu' = SendCopy(r, data', gpu)
            /\ firstUpload' = StillFirst
            /\ met' = MetAfter(r)
            /\ UNCHANGED dirty
    /\ UNCHANGED <<kindVars, created, sized, loaded, locked, native, mapped>>

(* Without a copy: directly, or by way of a buffer of the render system    *)
(* when the data needs conversion or pixels are altered in place.          *)
WriteGPU(r, c, converts) ==
    /\ loaded /\ type = "volatile"
    /\ \/ rendersys # "dx11"
       \/ CanMap /\ (Inside(r) # {} \/ ~converts)
    /\ gpu' = IF converts THEN SendBuffer(r, All(c), gpu, NoData)
              ELSE SendDirectly(r, All(c), gpu, NoData)
    /\ firstUpload' = StillFirst
    /\ Wrote(r, c)
    /\ met' = MetAfter(r)
    /\ UNCHANGED <<kindVars, created, sized, loaded, locked, dirty, native, data,
                   mapped>>

(* DirectX 11: _unlockSystem() does not unmap after a failed write.        *)
WriteFails(r) ==
    /\ loaded /\ type = "volatile" /\ rendersys = "dx11"
    /\ CanMap /\ Inside(r) = {}
    /\ mapped' = TRUE
    /\ gpu' = All(Unknown)
    /\ met' = met \cup {"mapped"}
    /\ UNCHANGED <<kindVars, stateVars, data, content>>

Next ==
    \/ CreateFromFile \/ LoadMetaData \/ Load \/ Unload \/ Lock \/ Unlock
    \/ \E c \in Colors : CreateFromData(c) \/ CreateFromColor(c)
    \/ \E r \in Ranges :
          \/ \E c \in Colors :
                \/ WriteCopy(r, c)
                \/ \E converts \in BOOLEAN : WriteGPU(r, c, converts)
          \/ WriteFails(r)

Spec == Init /\ [][Next]_contentVars

-----------------------------------------------------------------------------
(* The GPU shows what the application wrote, whatever was locked, written, *)
(* unloaded and loaded in between, except for pixels of a locked texture   *)
(* that wait for unlock() and for the defects met since everything was     *)
(* last uploaded (_unlock(), unlock(), load()).                            *)
ShownIsContent == loaded /\ ~dirty /\ met = {} => gpu = content

(* A texture that is not volatile can always be shown again: its contents  *)
(* are in RAM or still in the file, even while it is unloaded, and even    *)
(* those of a write the GPU did not follow (Texture::load(), unload()).    *)
ContentSurvives ==
    created /\ type # "volatile" /\ "no copy" \notin met =>
        data = content \/ (data = NoData /\ ~manual /\ content = All(FilePixel))

(* Pixels wait for unlock() only while it is still to come: the copy in    *)
(* RAM and the texture on the GPU exist then (unload() calls unlock()).    *)
DirtyWhileLocked == dirty => locked /\ loaded /\ data # NoData

(* Texture.h on TYPE_IMMUTABLE: a texture with manual data has a copy of   *)
(* the data in RAM.                                                        *)
ManualDataCopied == type = "immutable" /\ manual /\ created => data = content
=============================================================================
