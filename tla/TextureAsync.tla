---------------------------- MODULE TextureAsync ----------------------------
(***************************************************************************)
(* Asynchronous texture loading: the queue, the reader thread and the      *)
(* decoder threads of TextureAsync.cpp, the per-texture flags of           *)
(* Texture.cpp, and the calls of the application's thread (Texture,        *)
(* RenderSystem and the update at the start of every frame).               *)
(*                                                                         *)
(* A step is one critical section of queueMutex or asyncLoadMutex, or the  *)
(* code between two of them that other threads can tell apart.  A texture  *)
(* is an address: deleting it frees the address, creating one may reuse    *)
(* it.  All API calls are made by one thread, "main".                      *)
(***************************************************************************)
EXTENDS Integers, SequencesExt

CONSTANTS
    Textures,     \* addresses at which textures can live
    Decoders,     \* slots for decoder threads, one per CPU core (cpus)
    None,         \* NULL
    Blank,        \* the image of an upload without data: a cleared texture
    Kind,         \* Texture::Type of the texture created at each address
    LoadMode,     \* Texture::LoadMode of the texture created at each address
    MaxWaiting,   \* getMaxWaitingAsyncTextures(), no limit if <= 0
    MaxUploads    \* getMaxAsyncTextureUploadsPerFrame(), no limit if <= 0

Kinds     == {"managed", "immutable", "volatile"}
LoadModes == {"immediate", "on demand", "async", "async on demand"}

ASSUME ParametersAssumption ==
    /\ IsFiniteSet(Decoders) /\ Decoders # {}
    /\ None \notin Textures /\ Blank \notin Textures /\ Blank # None
    /\ Kind \in [Textures -> Kinds]
    /\ LoadMode \in [Textures -> LoadModes]
    /\ MaxWaiting \in Int /\ MaxUploads \in Int

VARIABLES
    \* TextureAsync, under queueMutex
    queue,          \* textures: waiting to be read from disk or to be decoded
    streams,        \* file contents of a prefix of queue (by their texture)
    readerRunning,
    \* Texture, under asyncLoadMutex
    queued,         \* textures with asyncLoadQueued
    discarded,      \* textures with asyncLoadDiscarded
    dataAsync,      \* decoded image waiting for the upload
    \* Texture, main thread
    alive,          \* textures that exist: rendersys->textures
    gpu,            \* image of the internal texture; loaded = it exists
    data,           \* image kept in RAM
    sized,          \* textures whose width and height are known
    \* main thread
    pc, loading, loadFrom, current, waitFor, waitWhy, todo, uploads, closing,
    \* reader thread
    reader, readerTex, running, size,
    \* decoder threads
    decoder, decoderTex, decoderStream

queueVars   == <<queue, streams, readerRunning>>
flagVars    == <<queued, discarded, dataAsync>>
objectVars  == <<alive, gpu, data, sized>>
callVars    == <<pc, loading, loadFrom, current>>
waitVars    == <<waitFor, waitWhy, closing>>
frameVars   == <<todo, uploads>>
mainVars    == <<callVars, waitVars, frameVars>>
readerVars  == <<reader, readerTex, running, size>>
decoderVars == <<decoder, decoderTex, decoderStream>>
threadVars  == <<readerVars, decoderVars>>
vars == <<queueVars, flagVars, objectVars, mainVars, threadVars>>

Image == Textures \cup {None}

(* hthread objects in decoderThreads: from their start to the join.        *)
DecoderThreads == {d \in Decoders : decoder[d] # "off"}

Loaded(t) == gpu[t] # None

IndexOf(t) == SelectInSeq(queue, LAMBDA u : u = t)

(* removeAt(from), insertAt(to) of one texture.                            *)
MoveUp(from, to) == InsertAt(RemoveAt(queue, from), to, queue[from])

QueueTypes ==
    /\ queue \in Seq(Textures) /\ streams \in Seq(Textures)
    /\ readerRunning \in BOOLEAN

TextureTypes ==
    /\ queued \subseteq Textures /\ discarded \subseteq Textures
    /\ dataAsync \in [Textures -> Image]
    /\ alive \subseteq Textures /\ sized \subseteq Textures
    /\ gpu \in [Textures -> Image \cup {Blank}]
    /\ data \in [Textures -> Image \cup {Blank}]

MainTypes ==
    /\ pc \in {"idle", "created", "load", "destroy", "prioritize", "wait",
               "free", "update", "visit", "drain", "closing", "down"}
    /\ loading \in Image /\ current \in Image \cup {Blank}
    /\ loadFrom \in {"none", "create", "user", "update"}
    /\ waitFor \in Image
    /\ waitWhy \in {"none", "load", "user", "destroy", "all"}
    /\ todo \subseteq Textures /\ uploads \in Nat /\ closing \in BOOLEAN

ThreadTypes ==
    /\ reader \in {"off", "check", "prepare", "reading", "append", "cancel",
                   "full", "spawn", "join", "exited"}
    /\ readerTex \in Image /\ running \in BOOLEAN /\ size \in Nat
    /\ decoder \in [Decoders -> {"off", "take", "prepare", "decoding",
                                 "publish", "done"}]
    /\ decoderTex \in [Decoders -> Image]
    /\ decoderStream \in [Decoders -> Image]

TypeOK == QueueTypes /\ TextureTypes /\ MainTypes /\ ThreadTypes

Init ==
    /\ queue = <<>> /\ streams = <<>> /\ readerRunning = FALSE
    /\ queued = {} /\ discarded = {}
    /\ dataAsync = [t \in Textures |-> None]
    /\ alive = {} /\ sized = {}
    /\ gpu = [t \in Textures |-> None] /\ data = [t \in Textures |-> None]
    /\ pc = "idle" /\ loading = None /\ loadFrom = "none" /\ current = None
    /\ waitFor = None /\ waitWhy = "none" /\ todo = {} /\ uploads = 0
    /\ closing = FALSE
    /\ reader = "off" /\ readerTex = None /\ running = FALSE /\ size = 0
    /\ decoder = [d \in Decoders |-> "off"]
    /\ decoderTex = [d \in Decoders |-> None]
    /\ decoderStream = [d \in Decoders |-> None]

-----------------------------------------------------------------------------
(* Steps in which the main thread changes nothing but its own state: going *)
(* on, dealing with texture t, or waiting for texture t.                   *)
OnlyMain == UNCHANGED <<queueVars, flagVars, objectVars, threadVars, frameVars>>

Goto(label) ==
    /\ pc' = label
    /\ OnlyMain /\ UNCHANGED <<loading, loadFrom, current, waitVars>>

Call(label, t) ==
    /\ pc' = label /\ loading' = t
    /\ OnlyMain /\ UNCHANGED <<loadFrom, current, waitVars>>

Await(label, t, why) ==
    /\ pc' = label /\ waitFor' = t /\ waitWhy' = why
    /\ OnlyMain /\ UNCHANGED <<loading, loadFrom, current, closing>>

-----------------------------------------------------------------------------
(* The application's thread: creating and deleting textures.               *)

(* Texture() and _create(): the object is registered with the render       *)
(* system, nothing is loaded.                                              *)
CreateTexture(t) ==
    /\ pc = "idle" /\ t \notin alive
    /\ alive' = alive \cup {t}
    /\ gpu' = [gpu EXCEPT ![t] = None]
    /\ data' = [data EXCEPT ![t] = None]
    /\ sized' = sized \ {t}
    /\ queued' = queued \ {t} /\ discarded' = discarded \ {t}
    /\ dataAsync' = [dataAsync EXCEPT ![t] = None]
    /\ pc' = "created" /\ loading' = t
    /\ UNCHANGED <<queueVars, loadFrom, current, waitVars, frameVars,
                   threadVars>>

(* queueLoad() refuses a texture that is in the queue.                      *)
MayQueueTwice(t) == TRUE
MayQueue(t) == ~Contains(queue, t)

(* queueLoad(): append, and start the reader if it does not run.           *)
QueueLoad(t) ==
    /\ queue' = Append(queue, t)
    /\ readerRunning' = TRUE
    /\ IF readerRunning THEN UNCHANGED reader ELSE reader' = "check"
    /\ UNCHANGED <<streams, readerTex, running, size>>

(* loadAsync() gets past its early returns.                                *)
MayLoadAsyncTwice(t) ==
    /\ data[t] = None
    /\ ~(Kind[t] = "volatile" /\ t \in sized)

MayLoadAsync(t) ==
    /\ dataAsync[t] = None /\ ~Loaded(t)
    /\ data[t] = None
    /\ ~(Kind[t] = "volatile" /\ t \in sized)

(* loadAsync() has nothing to do or queues the texture: it returns TRUE.   *)
LoadAsyncAccepted(t) ==
    /\ MayLoadAsync(t)
    /\ discarded' = discarded \ {t}
    /\ \/ /\ t \in queued
          /\ UNCHANGED <<queued, queueVars, readerVars>>
       \/ /\ t \notin queued /\ MayQueue(t)
          /\ queued' = queued \cup {t}
          /\ QueueLoad(t)
    /\ UNCHANGED <<dataAsync, objectVars, decoderVars>>

LoadAsyncRefused(t) ==
    ~MayLoadAsync(t) \/ (t \notin queued /\ ~MayQueue(t))

LoadAsync(t) ==
    /\ pc = "idle" /\ t \in alive
    /\ LoadAsyncAccepted(t)
    /\ UNCHANGED mainVars

(* load(): the critical section at its start.  A queued texture is waited  *)
(* for, any other is uploaded from the data kept in RAM, from the decoded  *)
(* image or (current = None) from its file.                                *)
StartLoad(t, from) ==
    /\ ~Loaded(t)
    /\ discarded' = discarded \ {t}
    /\ \/ /\ t \in queued
          /\ pc' = "prioritize" /\ waitFor' = t /\ waitWhy' = "load"
          /\ loading' = None
          /\ UNCHANGED <<loadFrom, current, closing>>
       \/ /\ t \notin queued
          /\ pc' = "load" /\ loading' = t /\ loadFrom' = from
          /\ current' = IF data[t] # None THEN data[t] ELSE dataAsync[t]
          /\ UNCHANGED waitVars
    /\ UNCHANGED <<queueVars, queued, dataAsync, objectVars, threadVars>>

(* _createTextureFromSource(): what happens right after creation depends   *)
(* on the load mode; a texture that cannot be loaded is deleted again.     *)
CreatedImmediate ==
    /\ pc = "created" /\ LoadMode[loading] = "immediate"
    /\ StartLoad(loading, "create")
    /\ UNCHANGED frameVars

CreatedOnDemand ==
    /\ pc = "created" /\ LoadMode[loading] = "on demand"
    /\ Call("idle", None)

CreatedAsync ==
    /\ pc = "created" /\ LoadMode[loading] \in {"async", "async on demand"}
    /\ \/ /\ LoadAsyncAccepted(loading)
          /\ pc' = "idle" /\ loading' = None
       \/ /\ LoadAsyncRefused(loading)
          /\ pc' = "destroy"
          /\ UNCHANGED <<loading, queueVars, flagVars, objectVars, threadVars>>
    /\ UNCHANGED <<loadFrom, current, waitVars, frameVars>>

DestroyTexture(t) ==
    /\ pc = "idle" /\ t \in alive
    /\ Call("destroy", t)

(* unload(): the internal texture goes, a queued load is marked discarded, *)
(* a decoded image is dropped.                                             *)
DropTexture(t) ==
    /\ gpu' = [gpu EXCEPT ![t] = None]
    /\ discarded' = discarded \cup ({t} \cap queued)
    /\ dataAsync' = [dataAsync EXCEPT ![t] = None]
    /\ UNCHANGED <<queueVars, queued, alive, data, sized, threadVars>>

(* The destructor of every texture class calls unload(), ~Texture() then   *)
(* waits until no thread is working for the texture.                       *)
DestroyUnload ==
    /\ pc = "destroy"
    /\ DropTexture(loading)
    /\ pc' = "prioritize" /\ waitFor' = loading /\ waitWhy' = "destroy"
    /\ loading' = None
    /\ UNCHANGED <<loadFrom, current, closing, frameVars>>

(* The end of ~Texture().                                                  *)
FreeTexture ==
    /\ pc = "free"
    /\ alive' = alive \ {waitFor}
    /\ data' = [data EXCEPT ![waitFor] = None]
    /\ queued' = queued \ {waitFor} /\ discarded' = discarded \ {waitFor}
    /\ dataAsync' = [dataAsync EXCEPT ![waitFor] = None]
    /\ sized' = sized \ {waitFor}
    /\ pc' = IF closing THEN "closing" ELSE "idle"
    /\ waitFor' = None /\ waitWhy' = "none"
    /\ UNCHANGED <<queueVars, gpu, loading, loadFrom, current, closing,
                   frameVars, threadVars>>

-----------------------------------------------------------------------------
(* The application's thread: load(), loadAsync(), unload() and the waits.  *)

(* load() reads the file itself, unless it is to create an empty texture   *)
(* of a size known before.                                                 *)
ReadsFile == current = None /\ ~(Kind[loading] = "volatile" /\ loading \in sized)

LoadReturns(result) ==
    /\ loadFrom' = "none" /\ current' = None
    /\ IF loadFrom = "create" /\ ~result
       THEN pc' = "destroy" /\ UNCHANGED loading
       ELSE /\ pc' = IF loadFrom = "update" THEN "visit" ELSE "idle"
            /\ loading' = None
    /\ UNCHANGED <<queueVars, queued, discarded, alive, waitVars, frameVars,
                   threadVars>>

LoadFileMissing ==
    /\ pc = "load" /\ ReadsFile
    /\ LoadReturns(FALSE)
    /\ UNCHANGED <<dataAsync, gpu, data, sized>>

(* _createInternalTexture() fails: the decoded image is dropped as well.   *)
LoadUploadFails ==
    /\ pc = "load"
    /\ dataAsync' = [dataAsync EXCEPT ![loading] = None]
    /\ sized' = IF ReadsFile THEN sized \cup {loading} ELSE sized
    /\ LoadReturns(FALSE)
    /\ UNCHANGED <<gpu, data>>

(* The image is on the GPU; only a managed texture keeps it in RAM.        *)
LoadUploads ==
    /\ pc = "load"
    /\ LET image == CASE ReadsFile -> loading
                      [] current # None -> current
                      [] OTHER -> Blank
       IN /\ gpu' = [gpu EXCEPT ![loading] = image]
          /\ data' = [data EXCEPT ![loading] =
                        IF Kind[loading] = "managed" THEN image ELSE @]
    /\ dataAsync' = [dataAsync EXCEPT ![loading] = None]
    /\ sized' = sized \cup {loading}
    /\ LoadReturns(TRUE)

(* While an upload is under way the render system may run out of VRAM and  *)
(* call the application's onLowMemoryWarning(), which may unload another   *)
(* texture, the one a caller further up is waiting for included.           *)
LowMemoryUnload(t) ==
    /\ pc = "load" /\ t \in alive \ {loading}
    /\ DropTexture(t)
    /\ UNCHANGED mainVars

Load(t) ==
    /\ pc = "idle" /\ t \in alive
    /\ StartLoad(t, "user")
    /\ UNCHANGED frameVars

Unload(t) ==
    /\ pc = "idle" /\ t \in alive
    /\ DropTexture(t)
    /\ UNCHANGED mainVars

(* loadMetaData() of a texture that has no image at hand.                  *)
LoadMetaData(t) ==
    /\ pc = "idle" /\ t \in alive /\ ~Loaded(t)
    /\ data[t] = None /\ dataAsync[t] = None
    /\ sized' = sized \cup {t}
    /\ UNCHANGED <<queueVars, flagVars, alive, gpu, data, mainVars, threadVars>>

(* waitForAsyncLoad(): called by the application, by load() or by ~Texture *)
WaitForAsyncLoad(t) ==
    /\ pc = "idle" /\ t \in alive
    /\ Await("prioritize", t, "user")

PrioritizedAlone(index) ==
    /\ queue' = MoveUp(index, IF index > Len(streams) THEN Len(streams) + 1 ELSE 1)
    /\ UNCHANGED streams

(* prioritizeLoad(): to the first place not read yet, or with its stream   *)
(* to the very front.                                                      *)
Prioritized(index) ==
    IF index > Len(streams)
    THEN /\ queue' = MoveUp(index, Len(streams) + 1)
         /\ UNCHANGED streams
    ELSE /\ queue' = MoveUp(index, 1)
         /\ streams' = Cons(streams[index], RemoveAt(streams, index))

PrioritizeLoad ==
    /\ pc = "prioritize"
    /\ pc' = "wait"
    /\ IF Contains(queue, waitFor)
       THEN Prioritized(IndexOf(waitFor))
       ELSE UNCHANGED <<queue, streams>>
    /\ UNCHANGED <<readerRunning, flagVars, objectVars, loading, loadFrom,
                   current, waitVars, frameVars, threadVars>>

WaitWithoutUpdate ==
    /\ pc = "wait" /\ waitFor \in queued
    /\ UNCHANGED vars

WaitAgain ==
    /\ pc = "wait" /\ waitFor \in queued
    /\ Goto("update")

(* The load is over, or the timeout of the application's own wait expired. *)
WaitOverAnyTime == TRUE
WaitOver == waitFor \notin queued \/ waitWhy = "user"

WaitEnds ==
    /\ pc = "wait" /\ WaitOver
    /\ IF waitWhy = "destroy" THEN Goto("free") ELSE Await("idle", None, "none")

(* RenderSystem::waitForAsyncTextures(), by the application (it may give a *)
(* timeout) or by ~RenderSystem().                                         *)
WaitForAsyncTextures ==
    /\ pc = "idle"
    /\ Await("drain", None, "all")

DrainWithoutUpdate ==
    /\ pc = "drain" /\ readerRunning
    /\ UNCHANGED vars

DrainAgain ==
    /\ pc = "drain" /\ readerRunning
    /\ Goto("update")

DrainOverAnyTime == TRUE
DrainOver == ~readerRunning \/ ~closing

DrainEnds ==
    /\ pc = "drain" /\ DrainOver
    /\ Await(IF closing THEN "down" ELSE "idle", None, "none")

(* april::destroy(): RenderSystem::destroy() deletes every texture, then   *)
(* ~RenderSystem() waits for the reader thread.                            *)
Shutdown ==
    /\ pc = "idle"
    /\ pc' = "closing" /\ closing' = TRUE
    /\ UNCHANGED <<queueVars, flagVars, objectVars, loading, loadFrom, current,
                   waitFor, waitWhy, frameVars, threadVars>>

ShutdownDelete(t) ==
    /\ pc = "closing" /\ t \in alive
    /\ Call("destroy", t)

ShutdownDrain ==
    /\ pc = "closing" /\ alive = {}
    /\ Await("drain", None, "all")

-----------------------------------------------------------------------------
(* TextureAsync::update(), at the start of a frame and inside the waits.   *)

Frame ==
    /\ pc = "idle"
    /\ Goto("update")

(* update() joins the reader when its thread ended.                        *)
ReaderJoinable == readerRunning /\ reader = "exited"

(* ... and starts it when there is something to read.                      *)
NeverRestarted == FALSE
NeedsReader == queue # <<>>

(* A reader thread that ended is joined; the reader is started again for   *)
(* textures that were queued in the meantime.  Then update() takes a copy  *)
(* of the list of textures.                                                *)
Update ==
    /\ pc = "update"
    /\ IF readerRunning /\ ~ReaderJoinable
       THEN UNCHANGED <<readerRunning, reader>>
       ELSE /\ readerRunning' = NeedsReader
            /\ reader' = IF NeedsReader THEN "check" ELSE "off"
    /\ pc' = "visit" /\ todo' = alive /\ uploads' = 0
    /\ UNCHANGED <<queue, streams, flagVars, objectVars, loading, loadFrom,
                   current, waitVars, readerTex, running, size, decoderVars>>

(* isLoadedAsync() of a texture that update() uploads.                     *)
ReadyForUpload(t) ==
    /\ LoadMode[t] # "async on demand"
    /\ t \notin queued /\ dataAsync[t] # None /\ ~Loaded(t)

UpdateSkipsCounting(t) ==
    /\ pc = "visit" /\ t \in todo /\ ~ReadyForUpload(t)
    /\ todo' = IF MaxUploads > 0 THEN {} ELSE todo \ {t}
    /\ UNCHANGED <<queueVars, flagVars, objectVars, callVars, waitVars, uploads,
                   threadVars>>

UpdateSkips(t) ==
    /\ pc = "visit" /\ t \in todo /\ ~ReadyForUpload(t)
    /\ todo' = todo \ {t}
    /\ UNCHANGED <<queueVars, flagVars, objectVars, callVars, waitVars, uploads,
                   threadVars>>

UpdateUploadsCountingDown(t) ==
    /\ pc = "visit" /\ t \in todo /\ ReadyForUpload(t)
    /\ uploads' = uploads - 1
    /\ todo' = IF MaxUploads > 0 /\ uploads' >= MaxUploads THEN {} ELSE todo \ {t}
    /\ StartLoad(t, "update")

UpdateUploads(t) ==
    /\ pc = "visit" /\ t \in todo /\ ReadyForUpload(t)
    /\ uploads' = uploads + 1
    /\ todo' = IF MaxUploads > 0 /\ uploads' >= MaxUploads THEN {} ELSE todo \ {t}
    /\ StartLoad(t, "update")

UpdateEnds ==
    /\ pc = "visit" /\ todo = {}
    /\ pc' = CASE waitFor # None -> "wait"
               [] waitWhy = "all" -> "drain"
               [] OTHER -> "idle"
    /\ uploads' = 0
    /\ UNCHANGED <<queueVars, flagVars, objectVars, loading, loadFrom, current,
                   waitVars, todo, threadVars>>

-----------------------------------------------------------------------------
(* The reader thread, _read().                                             *)

(* Steps of the reader leave the other threads and the textures alone.     *)
ReaderGoto(label) ==
    /\ reader' = label
    /\ UNCHANGED <<readerRunning, dataAsync, objectVars, mainVars>>

(* Another file may be read while its contents need not wait for others.   *)
HasRoomForOneMore == MaxWaiting <= 0 \/ Len(streams) <= MaxWaiting
HasRoom == MaxWaiting <= 0 \/ Len(streams) < MaxWaiting

(* The first queued texture that was not read yet is picked.               *)
ReaderPick ==
    /\ reader = "check" /\ Len(queue) > Len(streams) /\ HasRoom
    /\ readerTex' = queue[Len(streams) + 1] /\ running' = TRUE
    /\ ReaderGoto("prepare")
    /\ UNCHANGED <<queue, streams, queued, discarded, size, decoderVars>>

(* Enough file contents wait for a decoder: the reader sleeps.             *)
ReaderFull ==
    /\ reader = "check" /\ Len(queue) > Len(streams) /\ ~HasRoom
    /\ running' = TRUE
    /\ ReaderGoto("full")
    /\ UNCHANGED <<queue, streams, queued, discarded, readerTex, size,
                   decoderVars>>

(* Nothing to read, or the sleep is over.                                  *)
ReaderIdles ==
    /\ \/ reader = "check" /\ Len(queue) <= Len(streams) /\ running' = FALSE
       \/ reader = "full" /\ UNCHANGED running
    /\ size' = Len(streams)
    /\ ReaderGoto("spawn")
    /\ UNCHANGED <<queue, streams, queued, discarded, readerTex, decoderVars>>

(* The request was taken back: both flags are reset.                       *)
Cancelled(t) == t \notin queued \/ t \in discarded

ClearFlags(t) ==
    /\ queued' = queued \ {t}
    /\ discarded' = discarded \ {t}

(* _prepareAsyncStream() checks for this before it reads the file and      *)
(* again afterwards.                                                       *)
ReaderCancels ==
    /\ reader \in {"prepare", "reading"} /\ Cancelled(readerTex)
    /\ ClearFlags(readerTex)
    /\ ReaderGoto("cancel")
    /\ UNCHANGED <<queue, streams, readerTex, running, size, decoderVars>>

ReaderReads ==
    /\ reader \in {"prepare", "reading"} /\ ~Cancelled(readerTex)
    /\ ReaderGoto(IF reader = "prepare" THEN "reading" ELSE "append")
    /\ UNCHANGED <<queue, streams, queued, discarded, readerTex, running, size,
                   decoderVars>>

PlaceStreamAtEnd(t, index) ==
    /\ streams' = Append(streams, t)
    /\ UNCHANGED queue

(* The stream goes where its texture is in the queue now; a texture that   *)
(* others overtook is put back in front of those not read yet.             *)
PlaceStream(t, index) ==
    IF index > Len(streams)
    THEN /\ queue' = MoveUp(index, Len(streams) + 1)
         /\ streams' = Append(streams, t)
    ELSE /\ streams' = InsertAt(streams, index, t)
         /\ UNCHANGED queue

ReaderAppends ==
    /\ reader = "append"
    /\ PlaceStream(readerTex, IndexOf(readerTex))
    /\ readerTex' = None /\ size' = Len(streams')
    /\ ReaderGoto("spawn")
    /\ UNCHANGED <<queued, discarded, running, decoderVars>>

ReaderRemoves ==
    /\ reader = "cancel"
    /\ queue' = RemoveAt(queue, IndexOf(readerTex))
    /\ readerTex' = None /\ size' = Len(streams)
    /\ ReaderGoto("spawn")
    /\ UNCHANGED <<streams, queued, discarded, running, decoderVars>>

(* One decoder thread per waiting stream and at most one per CPU core,     *)
(* those that still run counted.                                           *)
ReaderSpawns ==
    /\ reader = "spawn"
    /\ LET missing == Min({size, Cardinality(Decoders)}) - Cardinality(DecoderThreads)
       IN \E fresh \in SUBSET (Decoders \ DecoderThreads) :
             /\ Cardinality(fresh) = Max({missing, 0})
             /\ decoder' = [d \in Decoders |->
                               IF d \in fresh THEN "take" ELSE decoder[d]]
    /\ running' = (running \/ size > 0) /\ size' = 0
    /\ ReaderGoto("join")
    /\ UNCHANGED <<queue, streams, queued, discarded, readerTex, decoderTex,
                   decoderStream>>

(* There is something to read or to decode, or a thread to join.           *)
OnlyQueuesMatter == running
ReaderGoesOn == running \/ DecoderThreads # {}

(* Finished decoder threads are joined; the reader ends when there is      *)
(* nothing to read, nothing to decode and no decoder left.                 *)
ReaderJoins ==
    /\ reader = "join"
    /\ decoder' = [d \in Decoders |->
                      IF decoder[d] = "done" THEN "off" ELSE decoder[d]]
    /\ running' = FALSE
    /\ ReaderGoto(IF ReaderGoesOn THEN "check" ELSE "exited")
    /\ UNCHANGED <<queue, streams, queued, discarded, readerTex, size,
                   decoderTex, decoderStream>>

-----------------------------------------------------------------------------
(* A decoder thread, _decode().                                            *)

DecoderGoto(d, label) ==
    /\ decoder' = [decoder EXCEPT ![d] = label]
    /\ UNCHANGED <<readerRunning, alive, gpu, data, mainVars, readerVars>>

DecoderHas(d, t, stream) ==
    /\ decoderTex' = [decoderTex EXCEPT ![d] = t]
    /\ decoderStream' = [decoderStream EXCEPT ![d] = stream]

DecoderTakes(d) ==
    /\ decoder[d] = "take" /\ streams # <<>>
    /\ DecoderHas(d, Head(queue), Head(streams))
    /\ queue' = Tail(queue) /\ streams' = Tail(streams)
    /\ DecoderGoto(d, "prepare")
    /\ UNCHANGED <<flagVars, sized>>

DecoderDone(d) ==
    /\ decoder[d] = "take" /\ streams = <<>>
    /\ DecoderGoto(d, "done")
    /\ UNCHANGED <<queue, streams, flagVars, sized, decoderTex, decoderStream>>

(* The stream is deleted and the next one is taken.                        *)
DecoderNext(d) ==
    /\ ClearFlags(decoderTex[d])
    /\ DecoderHas(d, None, None)
    /\ DecoderGoto(d, "take")
    /\ UNCHANGED <<queue, streams, sized>>

(* _decodeFromAsyncStream(): the check before decoding.                    *)
DecodeNotNeeded(t) == Cancelled(t) \/ dataAsync[t] # None \/ Loaded(t)

(* Nothing is decoded, or the image cannot be decoded.                     *)
DecoderGivesUp(d) ==
    /\ \/ decoder[d] = "prepare" /\ DecodeNotNeeded(decoderTex[d])
       \/ decoder[d] = "decoding"
    /\ DecoderNext(d)
    /\ UNCHANGED dataAsync

DecoderStarts(d) ==
    /\ decoder[d] = "prepare" /\ ~DecodeNotNeeded(decoderTex[d])
    /\ DecoderGoto(d, "decoding")
    /\ UNCHANGED <<queue, streams, flagVars, sized, decoderTex, decoderStream>>

(* Width, height and format are written without holding asyncLoadMutex.    *)
DecoderDecodes(d) ==
    /\ decoder[d] = "decoding"
    /\ sized' = sized \cup {decoderTex[d]}
    /\ DecoderGoto(d, "publish")
    /\ UNCHANGED <<queue, streams, flagVars, decoderTex, decoderStream>>

(* The decoded image is handed over, unless the load was discarded.        *)
WantedWhenQueued(t) == t \in queued
Wanted(t) == ~Cancelled(t)

DecoderPublishes(d) ==
    /\ decoder[d] = "publish"
    /\ dataAsync' = IF Wanted(decoderTex[d])
                    THEN [dataAsync EXCEPT ![decoderTex[d]] = decoderStream[d]]
                    ELSE dataAsync
    /\ DecoderNext(d)

-----------------------------------------------------------------------------
(* What the main thread does on its own accord ...                         *)
AppCalls(t) ==
    \/ CreateTexture(t) \/ DestroyTexture(t) \/ Load(t) \/ LoadAsync(t)
    \/ Unload(t) \/ LoadMetaData(t) \/ WaitForAsyncLoad(t) \/ LowMemoryUnload(t)

(* ... and how the calls it made go on.                                    *)
MainContinues ==
    \/ CreatedImmediate \/ CreatedOnDemand \/ CreatedAsync
    \/ DestroyUnload \/ FreeTexture
    \/ LoadFileMissing \/ LoadUploadFails \/ LoadUploads
    \/ PrioritizeLoad \/ WaitAgain \/ WaitEnds \/ DrainAgain \/ DrainEnds
    \/ ShutdownDrain \/ Update \/ UpdateEnds
    \/ \E t \in Textures : ShutdownDelete(t) \/ UpdateSkips(t) \/ UpdateUploads(t)

ReaderSteps ==
    \/ ReaderPick \/ ReaderFull \/ ReaderIdles
    \/ ReaderCancels \/ ReaderReads \/ ReaderAppends \/ ReaderRemoves
    \/ ReaderSpawns \/ ReaderJoins

DecoderSteps(d) ==
    \/ DecoderTakes(d) \/ DecoderDone(d) \/ DecoderGivesUp(d)
    \/ DecoderStarts(d) \/ DecoderDecodes(d) \/ DecoderPublishes(d)

(* After april::destroy() no thread is left that could take a step.       *)
Terminated == pc = "down" /\ reader = "off" /\ UNCHANGED vars

Next ==
    \/ \E t \in Textures : AppCalls(t)
    \/ WaitForAsyncTextures \/ Shutdown \/ Frame
    \/ MainContinues
    \/ ReaderSteps
    \/ \E d \in Decoders : DecoderSteps(d)
    \/ Terminated

(* Threads that can go on do; the main loop calls update() every frame     *)
(* until shutdown, however many calls the application makes in between.    *)
Fairness ==
    /\ WF_vars(MainContinues)
    /\ SF_vars(Frame)
    /\ WF_vars(ReaderSteps)
    /\ \A d \in Decoders : WF_vars(DecoderSteps(d))

Spec == Init /\ [][Next]_vars
FairSpec == Spec /\ Fairness

-----------------------------------------------------------------------------
(* Safety.                                                                 *)

(* The streams are the contents of the first queued textures, in order:    *)
(* _read() puts a texture that others overtook while its file was read     *)
(* back in place and _decode() pairs the heads of both queues blindly.     *)
StreamsFollowQueue ==
    /\ Len(streams) <= Len(queue)
    /\ \A i \in 1..Len(streams) : streams[i] = queue[i]

Decoding == {"prepare", "decoding", "publish"}

(* How often a texture is in the hands of the loader threads: in the queue *)
(* or with a decoder.                                                      *)
Places(t) == Cardinality({i \in 1..Len(queue) : queue[i] = t})
             + Cardinality({d \in Decoders : decoder[d] \in Decoding
                                              /\ decoderTex[d] = t})

(* asyncLoadQueued says exactly which textures the threads still work for, *)
(* each of them once; only the entry of a load that was just cancelled is  *)
(* still in the queue without it.  ~Texture() relies on the flag alone.    *)
QueuedOncePerRequest ==
    \A t \in Textures :
        Places(t) = IF t \in queued \/ (reader = "cancel" /\ readerTex = t)
                    THEN 1 ELSE 0

(* No thread calls into a texture that was deleted: neither the reader and *)
(* the decoders nor update() with its copy of the list of textures.        *)
NoUseAfterDelete ==
    /\ reader \in {"prepare", "reading"} => readerTex \in alive
    /\ \A d \in Decoders : decoder[d] \in Decoding => decoderTex[d] \in alive
    /\ pc = "visit" => todo \subseteq alive
    /\ pc = "load" => loading \in alive

(* The flags never contradict each other: only a queued load can be        *)
(* discarded, and a queued texture exists and has neither a decoded image  *)
(* (publishing another one would leak it) nor one on the GPU.              *)
FlagsConsistent ==
    /\ discarded \subseteq queued /\ queued \subseteq alive
    /\ \A t \in queued : dataAsync[t] = None /\ ~Loaded(t)
    /\ \A t \in Textures : dataAsync[t] # None => t \in alive /\ ~Loaded(t)

(* Every texture shows the image of its own file, or is a cleared texture  *)
(* without data: no decoder hands a texture the image of another one.      *)
OwnImage ==
    \A t \in Textures :
        /\ dataAsync[t] \in {t, None}
        /\ data[t] \in {t, None}
        /\ gpu[t] \in {t, None, Blank}
        /\ gpu[t] = Blank => Kind[t] = "volatile"

(* setMaxWaitingAsyncTextures() bounds the file contents that wait for a   *)
(* decoder although the check is made before the file is read.             *)
WaitingStreamsBounded == MaxWaiting > 0 => Len(streams) <= MaxWaiting

(* readerRunning, by which everybody decides whether to start a reader, is *)
(* the truth, and the reader never ends while a stream waits or a decoder  *)
(* thread exists: nobody else would start or join one.                     *)
ReaderOutlivesDecoders ==
    /\ readerRunning <=> reader # "off"
    /\ reader \in {"off", "exited"} => streams = <<>> /\ DecoderThreads = {}

(* After april::destroy() no thread and no queued texture is left.         *)
ShutdownQuiescent ==
    pc = "down" => /\ reader = "off" /\ DecoderThreads = {}
                   /\ queue = <<>> /\ streams = <<>> /\ alive = {}

-----------------------------------------------------------------------------
(* The loader implements its abstract specification: for every texture the *)
(* steps of all threads together look like those of AsyncLoading.  An      *)
(* image never turns up after unload() without a new request.              *)
Phase(t) == CASE t \notin alive -> "absent"
              [] Loaded(t) -> "loaded"
              [] dataAsync[t] # None -> "ready"
              [] t \in queued \ discarded -> "pending"
              [] OTHER -> "idle"

Promise == INSTANCE AsyncLoading WITH phase <- [t \in Textures |-> Phase(t)]

ImplementsAsyncLoading == Promise!Spec

-----------------------------------------------------------------------------
(* Liveness, under Fairness.                                               *)

(* A queued load comes to an end, unless the application keeps waiting for *)
(* other textures, which overtake it every time.                           *)
QueuedEnds ==
    \A t \in Textures : <>[](t \in queued) => []<>(waitFor \notin {t, None})

(* waitForAsyncLoad() returns: nothing overtakes the texture it waits for  *)
(* and every state of the loader threads makes progress.                   *)
WaitReturns == \A t \in Textures : (waitFor = t) ~> (waitFor # t)

(* update() uploads every decoded image that is not to wait for its first  *)
(* use, unless it is unloaded before, or other textures, loaded again and  *)
(* again, are uploaded in its place: the limit of uploads per frame ends   *)
(* update() early, and nothing but an upload counts.                       *)
ReadyUploaded ==
    \A t \in Textures : LoadMode[t] # "async on demand" =>
        (<>[](dataAsync[t] # None) =>
            []<>(pc = "load" /\ loading # t /\ loadFrom = "update"))

(* april::destroy() comes to an end.                                       *)
ShutdownEnds == closing ~> (pc = "down")
=============================================================================
