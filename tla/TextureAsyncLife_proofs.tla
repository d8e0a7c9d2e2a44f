---------------------- MODULE TextureAsyncLife_proofs ----------------------
(***************************************************************************)
(* Theorems about the lifetime of textures in TextureAsync: which thread   *)
(* works for which texture, what the flags say about it, and that none     *)
(* works for a texture that was deleted.                                   *)
(***************************************************************************)
EXTENDS TextureAsync_proofs, FiniteSetTheorems

-----------------------------------------------------------------------------
(* The textures in the queue after each operation on it.                   *)

LEMMA AppendContains ==
    ASSUME NEW q \in Seq(Textures), NEW t \in Textures, NEW u
    PROVE  Contains(Append(q, t), u) <=> Contains(q, u) \/ u = t
PROOF
<1>1. /\ Len(q) \in Nat /\ Len(Append(q, t)) = Len(q) + 1
      /\ \A i \in 1..Len(q) : Append(q, t)[i] = q[i]
      /\ Append(q, t)[Len(q) + 1] = t
  OBVIOUS
<1>2. QED
  BY <1>1 DEF Contains

LEMMA MoveUpContains ==
    ASSUME queue \in Seq(Textures), NEW from \in 1..Len(queue), NEW to \in 1..from,
           NEW u
    PROVE  Contains(MoveUp(from, to), u) <=> Contains(queue, u)
PROOF
<1> DEFINE r == MoveUp(from, to)
<1>1. Len(queue) \in Nat /\ from \in Int /\ to \in Int
  OBVIOUS
<1>2. Len(r) = Len(queue)
  BY MoveUpProperties
<1>3. \A k \in 1..Len(queue) :
          r[k] = IF k < to \/ k > from THEN queue[k]
                 ELSE IF k = to THEN queue[from] ELSE queue[k - 1]
  BY MoveUpProperties
<1> HIDE DEF r
<1>4. ASSUME NEW k \in 1..Len(queue) PROVE \E i \in 1..Len(queue) : queue[i] = r[k]
  <2>1. CASE k < to \/ k > from
    BY <1>1, <1>3, <2>1
  <2>2. CASE k = to
    BY <1>1, <1>3, <2>2
  <2>3. CASE to < k /\ k <= from
    BY <1>1, <1>3, <2>3, k - 1 \in 1..Len(queue)
  <2>4. QED
    BY <1>1, <2>1, <2>2, <2>3
<1>5. ASSUME NEW i \in 1..Len(queue) PROVE \E k \in 1..Len(queue) : r[k] = queue[i]
  <2>1. CASE i < to \/ i > from
    BY <1>1, <1>3, <2>1
  <2>2. CASE i = from
    BY <1>1, <1>3, <2>2, to \in 1..Len(queue)
  <2>3. CASE to <= i /\ i < from
    BY <1>1, <1>3, <2>3, i + 1 \in 1..Len(queue)
  <2>4. QED
    BY <1>1, <2>1, <2>2, <2>3
<1>6. Contains(r, u) <=> Contains(queue, u)
  BY <1>2, <1>4, <1>5 DEF Contains
<1>7. QED
  BY <1>6 DEF r

LEMMA PrioritizedContains ==
    ASSUME Paired(queue, streams), NEW index \in 1..Len(queue),
           Prioritized(index), NEW u
    PROVE  Contains(queue', u) <=> Contains(queue, u)
PROOF
<1>1. /\ queue \in Seq(Textures) /\ Len(queue) \in Nat
      /\ Len(streams) \in Nat /\ Len(streams) <= Len(queue)
  BY DEF Paired
<1>2. \E to \in 1..index : queue' = MoveUp(index, to)
  BY <1>1, 1 \in 1..index DEF Prioritized
<1>3. QED
  BY <1>1, <1>2, MoveUpContains

LEMMA PlaceStreamContains ==
    ASSUME Paired(queue, streams), NEW t, Unread(queue, streams, t),
           PlaceStream(t, IndexOf(t)), NEW u
    PROVE  Contains(queue', u) <=> Contains(queue, u)
PROOF
<1>1. /\ queue \in Seq(Textures) /\ Len(queue) \in Nat /\ Injective(queue)
      /\ Len(streams) \in Nat /\ Len(streams) <= Len(queue)
  BY DEF Paired
<1>2. PICK i \in (Len(streams) + 1)..Len(queue) : queue[i] = t
  BY DEF Unread
<1>3. IndexOf(t) = i /\ i \in 1..Len(queue) /\ Len(streams) + 1 \in 1..i
  BY <1>1, <1>2, IndexOfProperties
<1>4. queue' = MoveUp(i, Len(streams) + 1)
  BY <1>1, <1>2, <1>3 DEF PlaceStream
<1>5. QED
  BY <1>1, <1>3, <1>4, MoveUpContains

LEMMA RemoveContains ==
    ASSUME Paired(queue, streams), NEW t, Unread(queue, streams, t), NEW u
    PROVE  Contains(RemoveAt(queue, IndexOf(t)), u) <=>
               Contains(queue, u) /\ u # t
PROOF
<1>1. /\ queue \in Seq(Textures) /\ Len(queue) \in Nat /\ Injective(queue)
      /\ Len(streams) \in Nat
  BY DEF Paired
<1>2. PICK i \in (Len(streams) + 1)..Len(queue) : queue[i] = t
  BY DEF Unread
<1>3. IndexOf(t) = i /\ i \in 1..Len(queue)
  BY <1>1, <1>2, IndexOfProperties
<1> DEFINE rest == RemoveAt(queue, i)
<1>4. /\ Len(rest) = Len(queue) - 1
      /\ \A k \in 1..(Len(queue) - 1) :
            rest[k] = IF k < i THEN queue[k] ELSE queue[k + 1]
  BY <1>1, <1>3, RemoveAtProperties
<1> HIDE DEF rest
<1>5. ASSUME NEW k \in 1..Len(rest)
      PROVE  (\E j \in 1..Len(queue) : queue[j] = rest[k]) /\ rest[k] # t
  BY <1>1, <1>2, <1>3, <1>4 DEF Injective
<1>6. ASSUME NEW j \in 1..Len(queue), queue[j] # t
      PROVE  \E k \in 1..Len(rest) : rest[k] = queue[j]
  <2>1. CASE j < i
    BY <1>1, <1>3, <1>4, <2>1
  <2>2. CASE j > i
    <3>1. j - 1 \in 1..Len(rest) /\ (j - 1) + 1 = j /\ ~(j - 1 < i)
      BY <1>1, <1>3, <1>4, <2>2
    <3>2. rest[j - 1] = queue[j]
      BY <1>1, <1>4, <3>1
    <3>3. QED
      BY <3>1, <3>2
  <2>3. QED
    BY <1>1, <1>2, <1>6, <2>1, <2>2
<1>7. Contains(rest, u) <=> Contains(queue, u) /\ u # t
  BY <1>5, <1>6 DEF Contains
<1>8. QED
  BY <1>3, <1>7 DEF rest

LEMMA TailContains ==
    ASSUME NEW q, NEW s, Paired(q, s), q # <<>>, NEW u
    PROVE  Contains(Tail(q), u) <=> Contains(q, u) /\ u # Head(q)
PROOF
<1>1. q \in Seq(Textures) /\ Len(q) \in Nat \ {0} /\ Injective(q) /\ Head(q) = q[1]
  BY DEF Paired
<1> DEFINE r == Tail(q)
<1>2. /\ Len(r) = Len(q) - 1
      /\ \A k \in 1..(Len(q) - 1) : r[k] = q[k + 1]
  BY <1>1, HeadTailProperties
<1> HIDE DEF r
<1>3. ASSUME NEW k \in 1..Len(r)
      PROVE  (\E j \in 1..Len(q) : q[j] = r[k]) /\ r[k] # q[1]
  BY <1>1, <1>2 DEF Injective
<1>4. ASSUME NEW j \in 1..Len(q), q[j] # q[1]
      PROVE  \E k \in 1..Len(r) : r[k] = q[j]
  <2>1. j - 1 \in 1..Len(r) /\ (j - 1) + 1 = j
    BY <1>1, <1>2, <1>4
  <2>2. r[j - 1] = q[j]
    BY <1>1, <1>2, <2>1
  <2>3. QED
    BY <2>1, <2>2
<1>5. Contains(r, u) <=> Contains(q, u) /\ u # q[1]
  BY <1>1, <1>3, <1>4, ZenonT(60) DEF Contains
<1>6. QED
  BY <1>1, <1>5 DEF r

-----------------------------------------------------------------------------
(* Which thread works for which texture, and the flags.                    *)

(* The texture is in the hands of this decoder.                            *)
HeldBy(d, t) == decoder[d] \in Decoding /\ decoderTex[d] = t

(* The textures with asyncLoadQueued are those in the queue and those held *)
(* by a decoder, each in one place, except the one whose load the reader   *)
(* just cancelled.  readerRunning tells whether there is a reader.         *)
Ownership ==
    /\ readerRunning <=> reader # "off"
    /\ \A t \in Textures : Contains(queue, t) =>
           t \in queued \/ (reader = "cancel" /\ readerTex = t)
    /\ reader = "cancel" => readerTex \notin queued
    /\ \A d \in Decoders : decoder[d] \in Decoding =>
           decoderTex[d] \in queued /\ ~Contains(queue, decoderTex[d])
    /\ \A d, e \in Decoders : decoder[d] \in Decoding /\ decoder[e] \in Decoding
           /\ decoderTex[d] = decoderTex[e] => d = e
    /\ \A t \in queued : Contains(queue, t) \/ \E d \in Decoders : HeldBy(d, t)

(* What the main thread may rely on in the middle of its calls.            *)
CallState ==
    /\ pc \in {"created", "load", "destroy"} => loading \in alive
    /\ pc = "load" => loading \notin queued /\ ~Loaded(loading)
    /\ pc = "free" => waitFor \notin queued
    /\ pc = "visit" \/ (pc = "load" /\ loadFrom = "update") => todo \subseteq alive

Life == Pairing /\ Ownership /\ FlagsConsistent /\ CallState

LEMMA LifeInit == Init => Life
PROOF
<1> SUFFICES ASSUME Init PROVE Life
  OBVIOUS
<1>1. Ownership
  BY DEF Init, Ownership, Contains, Decoding
<1>2. FlagsConsistent /\ CallState
  BY DEF Init, FlagsConsistent, CallState
<1>3. QED
  BY <1>1, <1>2, PairingInit DEF Life

(* A step that leaves the variables of a part alone preserves it.          *)
LEMMA OwnershipStutter ==
    Ownership /\ UNCHANGED <<queueVars, queued, reader, readerTex, decoderVars>>
        => Ownership'
BY DEF Ownership, Contains, HeldBy, queueVars, decoderVars

LEMMA FlagsStutter ==
    FlagsConsistent /\ UNCHANGED <<flagVars, alive, gpu>> => FlagsConsistent'
BY DEF FlagsConsistent, Loaded, flagVars

LEMMA CallStateStutter ==
    CallState /\ UNCHANGED <<mainVars, alive, gpu>> /\ queued' \subseteq queued
        => CallState'
BY DEF CallState, Loaded, mainVars, callVars, waitVars, frameVars

(* A texture the reader works for is in the queue.                         *)
LEMMA ReaderTexQueued ==
    ASSUME Pairing, reader \in {"prepare", "reading", "append", "cancel"}
    PROVE  Contains(queue, readerTex) /\ readerTex \in Textures
BY DEF Pairing, LoaderPart, QueueTypes, ReaderHasPlace, Unread, Contains

LEMMA LoadAsyncAcceptedLife ==
    ASSUME Pairing, Ownership, FlagsConsistent, NEW t \in alive,
           LoadAsyncAccepted(t)
    PROVE  /\ Ownership' /\ FlagsConsistent'
           /\ queued' \subseteq queued \cup {t} /\ UNCHANGED <<alive, gpu>>
PROOF
<1>1. t \in Textures /\ UNCHANGED <<alive, gpu>>
  BY DEF Pairing, TexturePart, TextureTypes, LoadAsyncAccepted, objectVars
<1>2. CASE t \in queued
  <2>1. UNCHANGED <<queueVars, queued, readerVars, decoderVars>>
    BY <1>2 DEF LoadAsyncAccepted
  <2>2. Ownership'
    BY <2>1, OwnershipStutter DEF readerVars
  <2>3. FlagsConsistent'
    BY <1>1, <1>2 DEF LoadAsyncAccepted, FlagsConsistent, Loaded
  <2>4. QED
    BY <1>1, <2>1, <2>2, <2>3
<1>3. CASE t \notin queued
  <2>1. /\ queued' = queued \cup {t} /\ queue' = Append(queue, t)
        /\ ~Contains(queue, t) /\ readerRunning' = TRUE
        /\ reader' = IF readerRunning THEN reader ELSE "check"
        /\ UNCHANGED <<readerTex, decoderVars>>
    BY <1>3 DEF LoadAsyncAccepted, MayQueue, QueueLoad
  <2>2. \A u : Contains(queue', u) <=> Contains(queue, u) \/ u = t
    BY <1>1, <2>1, AppendContains DEF Pairing, LoaderPart, QueueTypes
  <2>3. /\ readerRunning' <=> reader' # "off"
        /\ reader' = "cancel" <=> reader = "cancel"
    BY <2>1 DEF Ownership
  <2>4. reader = "cancel" => readerTex # t
    BY <2>1, ReaderTexQueued
  <2>5. \A d \in Decoders : decoder[d] \in Decoding => decoderTex[d] # t
    BY <1>3 DEF Ownership
  <2>6. Ownership'
    BY <2>1, <2>2, <2>3, <2>4, <2>5 DEF Ownership, HeldBy, decoderVars
  <2>7. FlagsConsistent'
    BY <1>1, <2>1 DEF LoadAsyncAccepted, MayLoadAsync, FlagsConsistent, Loaded
  <2>8. QED
    BY <1>1, <2>1, <2>6, <2>7
<1>4. QED
  BY <1>2, <1>3

LEMMA StartLoadLife ==
    ASSUME Life, NEW t \in alive, NEW from \in {"create", "user", "update"},
           StartLoad(t, from), from = "update" => todo' \subseteq alive
    PROVE  Ownership' /\ FlagsConsistent' /\ CallState'
PROOF
<1>1. Ownership'
  BY OwnershipStutter DEF StartLoad, Life, threadVars, readerVars
<1>2. FlagsConsistent'
  BY DEF StartLoad, Life, FlagsConsistent, Loaded, objectVars
<1>3. CallState'
  BY DEF StartLoad, Life, CallState, Loaded, objectVars
<1>4. QED
  BY <1>1, <1>2, <1>3

LEMMA DropTextureLife ==
    ASSUME Life, NEW t \in alive, DropTexture(t)
    PROVE  /\ Ownership' /\ FlagsConsistent' /\ UNCHANGED <<queued, alive>>
           /\ \A u \in Textures : ~Loaded(u) => ~Loaded(u)'
PROOF
<1>1. Ownership'
  BY OwnershipStutter DEF DropTexture, Life, threadVars, readerVars
<1>2. FlagsConsistent'
  BY DEF DropTexture, Life, FlagsConsistent, Loaded, Pairing, TexturePart,
         TextureTypes
<1>3. \A u \in Textures : ~Loaded(u) => ~Loaded(u)'
  BY DEF DropTexture, Life, Loaded, Pairing, TexturePart, TextureTypes
<1>4. QED
  BY <1>1, <1>2, <1>3 DEF DropTexture

LEMMA LoadReturnsLife ==
    ASSUME Life, NEW result \in BOOLEAN, LoadReturns(result), pc = "load"
    PROVE  Ownership' /\ CallState'
PROOF
<1>1. Ownership'
  BY OwnershipStutter DEF LoadReturns, Life, threadVars, readerVars
<1>2. CallState'
  BY DEF LoadReturns, Life, CallState, waitVars, frameVars
<1>3. QED
  BY <1>1, <1>2

LEMMA LifeAppCalls ==
    ASSUME Life, NEW t \in Textures, AppCalls(t)
    PROVE  Ownership' /\ FlagsConsistent' /\ CallState'
PROOF
<1> USE DEF Life
<1>1. CASE CreateTexture(t)
  <2>1. t \notin queued
    BY <1>1 DEF CreateTexture, FlagsConsistent
  <2>2. queued' = queued
    BY <1>1, <2>1 DEF CreateTexture
  <2>3. Ownership'
    BY <1>1, <2>2, OwnershipStutter DEF CreateTexture, threadVars, readerVars
  <2>4. FlagsConsistent'
    BY <1>1, <2>1 DEF CreateTexture, FlagsConsistent, Loaded, Pairing,
                      TexturePart, TextureTypes
  <2>5. CallState'
    BY <1>1 DEF CreateTexture, CallState
  <2>6. QED
    BY <2>3, <2>4, <2>5
<1>2. CASE DestroyTexture(t) \/ WaitForAsyncLoad(t)
  <2>1. Ownership' /\ FlagsConsistent'
    BY <1>2, OwnershipStutter, FlagsStutter
       DEF DestroyTexture, WaitForAsyncLoad, Call, Await, OnlyMain, threadVars,
           readerVars, flagVars, objectVars
  <2>2. CallState'
    BY <1>2 DEF DestroyTexture, WaitForAsyncLoad, Call, Await, OnlyMain,
                objectVars, CallState
  <2>3. QED
    BY <2>1, <2>2
<1>3. CASE Load(t)
  BY <1>3, StartLoadLife DEF Load
<1>4. CASE LoadAsync(t)
  <2>1. /\ Ownership' /\ FlagsConsistent' /\ queued' \subseteq queued \cup {t}
        /\ UNCHANGED <<alive, gpu>>
    BY <1>4, LoadAsyncAcceptedLife DEF LoadAsync
  <2>2. CallState'
    BY <1>4, <2>1 DEF LoadAsync, CallState, mainVars, callVars, waitVars, frameVars
  <2>3. QED
    BY <2>1, <2>2
<1>5. CASE Unload(t) \/ LowMemoryUnload(t)
  <2>1. /\ Ownership' /\ FlagsConsistent' /\ UNCHANGED <<queued, alive>>
        /\ \A u \in Textures : ~Loaded(u) => ~Loaded(u)'
    BY <1>5, DropTextureLife DEF Unload, LowMemoryUnload
  <2>2. CallState'
    BY <1>5, <2>1 DEF Unload, LowMemoryUnload, CallState, mainVars, callVars,
                      waitVars, frameVars, Pairing, CallPart, CallTarget
  <2>3. QED
    BY <2>1, <2>2
<1>6. CASE LoadMetaData(t)
  BY <1>6, OwnershipStutter, FlagsStutter, CallStateStutter
     DEF LoadMetaData, threadVars, readerVars, flagVars
<1>7. QED
  BY <1>1, <1>2, <1>3, <1>4, <1>5, <1>6 DEF AppCalls

LEMMA LifeMainContinues ==
    ASSUME Life, MainContinues
    PROVE  Ownership' /\ FlagsConsistent' /\ CallState'
PROOF
<1> USE DEF Life
<1>1. CASE CreatedImmediate
  BY <1>1, StartLoadLife DEF CreatedImmediate, CallState
<1>2. CASE CreatedOnDemand \/ WaitAgain \/ WaitEnds \/ DrainAgain \/ DrainEnds
             \/ ShutdownDrain \/ \E t \in Textures : ShutdownDelete(t)
  <2>1. UNCHANGED <<queueVars, flagVars, objectVars, threadVars, frameVars>>
    BY <1>2 DEF CreatedOnDemand, WaitAgain, WaitEnds, DrainAgain, DrainEnds,
                ShutdownDrain, ShutdownDelete, Goto, Call, Await, OnlyMain
  <2>2. Ownership' /\ FlagsConsistent'
    BY <2>1, OwnershipStutter, FlagsStutter
       DEF threadVars, readerVars, flagVars, objectVars
  <2>3. CallState'
    BY <1>2, <2>1
       DEF CreatedOnDemand, WaitAgain, WaitEnds, WaitOver, DrainAgain, DrainEnds,
           ShutdownDrain, ShutdownDelete, Goto, Call, Await, CallState,
           flagVars, objectVars, waitVars
  <2>4. QED
    BY <2>2, <2>3
<1>3. CASE CreatedAsync
  <2>1. CASE LoadAsyncAccepted(loading)
    <3>1. /\ Ownership' /\ FlagsConsistent'
          /\ UNCHANGED <<alive, gpu>>
      BY <1>3, <2>1, LoadAsyncAcceptedLife DEF CreatedAsync, CallState
    <3>2. CallState'
      BY <1>3, <2>1, <3>1 DEF CreatedAsync, CallState
    <3>3. QED
      BY <3>1, <3>2
  <2>2. CASE ~LoadAsyncAccepted(loading)
    <3>1. Ownership' /\ FlagsConsistent'
      BY <1>3, <2>2, OwnershipStutter, FlagsStutter
         DEF CreatedAsync, threadVars, readerVars, flagVars, objectVars
    <3>2. CallState'
      BY <1>3, <2>2 DEF CreatedAsync, CallState, objectVars
    <3>3. QED
      BY <3>1, <3>2
  <2>3. QED
    BY <2>1, <2>2
<1>4. CASE DestroyUnload
  <2>1. Ownership' /\ FlagsConsistent'
    BY <1>4, DropTextureLife DEF DestroyUnload, CallState
  <2>2. CallState'
    BY <1>4 DEF DestroyUnload, CallState
  <2>3. QED
    BY <2>1, <2>2
<1>5. CASE FreeTexture
  <2>1. queued' = queued
    BY <1>5 DEF FreeTexture, CallState
  <2>2. Ownership'
    BY <1>5, <2>1, OwnershipStutter DEF FreeTexture, threadVars, readerVars
  <2>3. FlagsConsistent'
    BY <1>5, <2>1 DEF FreeTexture, CallState, FlagsConsistent, Loaded,
                      Pairing, TexturePart, TextureTypes
  <2>4. CallState'
    BY <1>5 DEF FreeTexture, CallState
  <2>5. QED
    BY <2>2, <2>3, <2>4
<1>6. CASE LoadFileMissing
  <2>1. Ownership' /\ CallState'
    BY <1>6, LoadReturnsLife DEF LoadFileMissing
  <2>2. FlagsConsistent'
    BY <1>6, FlagsStutter DEF LoadFileMissing, LoadReturns, flagVars
  <2>3. QED
    BY <2>1, <2>2
<1>7. CASE LoadUploadFails
  <2>1. Ownership' /\ CallState'
    BY <1>7, LoadReturnsLife DEF LoadUploadFails
  <2>2. FlagsConsistent'
    BY <1>7 DEF LoadUploadFails, LoadReturns, FlagsConsistent, Loaded,
                Pairing, TexturePart, TextureTypes, CallPart, CallTarget
  <2>3. QED
    BY <2>1, <2>2
<1>8. CASE LoadUploads
  <2>1. Ownership' /\ CallState'
    BY <1>8, LoadReturnsLife DEF LoadUploads
  <2>2. loading \in Textures /\ loading \in alive \ queued
    BY <1>8 DEF LoadUploads, CallState, Pairing, CallPart, CallTarget
  <2>3. \A t \in Textures \ {loading} : gpu'[t] = gpu[t]
    BY <1>8 DEF LoadUploads, Pairing, TexturePart, TextureTypes
  <2>4. /\ dataAsync' = [dataAsync EXCEPT ![loading] = None]
        /\ UNCHANGED <<queued, discarded, alive>>
    BY <1>8 DEF LoadUploads, LoadReturns
  <2>5. FlagsConsistent'
    BY <2>2, <2>3, <2>4
       DEF FlagsConsistent, Loaded, Pairing, TexturePart, TextureTypes
  <2>6. QED
    BY <2>1, <2>5
<1>9. CASE PrioritizeLoad
  <2>1. FlagsConsistent'
    BY <1>9, FlagsStutter DEF PrioritizeLoad, flagVars, objectVars
  <2>2. CallState'
    BY <1>9 DEF PrioritizeLoad, CallState, flagVars, objectVars
  <2>3. \A u : Contains(queue', u) <=> Contains(queue, u)
    <3>1. CASE Contains(queue, waitFor)
      <4>1. PICK i \in 1..Len(queue) : queue[i] = waitFor
        BY <3>1 DEF Contains
      <4>2. IndexOf(waitFor) = i
        BY <4>1, IndexOfProperties DEF Pairing, LoaderPart, Paired
      <4>3. QED
        BY <1>9, <3>1, <4>2, PrioritizedContains
           DEF PrioritizeLoad, Pairing, LoaderPart
    <3>2. CASE ~Contains(queue, waitFor)
      BY <1>9, <3>2 DEF PrioritizeLoad
    <3>3. QED
      BY <3>1, <3>2
  <2>4. Ownership'
    BY <1>9, <2>3 DEF PrioritizeLoad, Ownership, HeldBy, flagVars, threadVars,
                      readerVars, decoderVars
  <2>5. QED
    BY <2>1, <2>2, <2>4
<1>10. CASE Update
  <2>1. FlagsConsistent'
    BY <1>10, FlagsStutter DEF Update, flagVars, objectVars
  <2>2. CallState'
    BY <1>10 DEF Update, CallState, flagVars, objectVars
  <2>3. /\ readerRunning' <=> reader' # "off"
        /\ reader' = "cancel" <=> reader = "cancel"
    BY <1>10 DEF Update, ReaderJoinable, Ownership
  <2>4. Ownership'
    BY <1>10, <2>3 DEF Update, Ownership, HeldBy, flagVars, decoderVars
  <2>5. QED
    BY <2>1, <2>2, <2>4
<1>11. CASE UpdateEnds \/ \E t \in Textures : UpdateSkips(t)
  <2>1. UNCHANGED <<queueVars, flagVars, objectVars, threadVars, loading, loadFrom>>
    BY <1>11 DEF UpdateEnds, UpdateSkips, callVars
  <2>2. Ownership' /\ FlagsConsistent'
    BY <2>1, OwnershipStutter, FlagsStutter
       DEF threadVars, readerVars, flagVars, objectVars
  <2>3. CallState'
    BY <1>11, <2>1 DEF UpdateEnds, UpdateSkips, CallState, flagVars, objectVars,
                       callVars, waitVars
  <2>4. QED
    BY <2>2, <2>3
<1>12. ASSUME NEW t \in Textures, UpdateUploads(t)
       PROVE  Ownership' /\ FlagsConsistent' /\ CallState'
  <2>1. t \in alive /\ todo' \subseteq alive
    BY <1>12 DEF UpdateUploads, ReadyForUpload, FlagsConsistent, CallState
  <2>2. QED
    BY <1>12, <2>1, StartLoadLife DEF UpdateUploads
<1>13. QED
  BY <1>1, <1>2, <1>3, <1>4, <1>5, <1>6, <1>7, <1>8, <1>9, <1>10, <1>11, <1>12
     DEF MainContinues

(* Steps of the reader and of the decoders disturb the flags only by       *)
(* clearing them, and by handing over an image.                            *)
LEMMA FlagsCleared ==
    ASSUME Life, NEW t \in Textures, ClearFlags(t),
           UNCHANGED <<alive, gpu>>,
           \/ UNCHANGED dataAsync
           \/ t \in queued /\ \E i : dataAsync' = [dataAsync EXCEPT ![t] = i]
    PROVE  FlagsConsistent'
PROOF
<1>1. queued' = queued \ {t} /\ discarded' = discarded \ {t}
  BY DEF ClearFlags
<1>2. \A u \in Textures : u # t => dataAsync'[u] = dataAsync[u]
  BY DEF Life, Pairing, TexturePart, TextureTypes
<1>3. dataAsync'[t] = dataAsync[t] \/ t \in queued
  OBVIOUS
<1>4. QED
  BY <1>1, <1>2, <1>3
     DEF Life, FlagsConsistent, Loaded, Pairing, TexturePart, TextureTypes

LEMMA LifeReader ==
    ASSUME Life, ReaderSteps
    PROVE  Ownership' /\ FlagsConsistent' /\ CallState'
PROOF
<1> USE DEF Life, ReaderGoto
<1>1. /\ UNCHANGED <<readerRunning, dataAsync, objectVars, mainVars>>
      /\ queued' \subseteq queued /\ reader # "off" /\ reader' # "off"
  BY DEF ReaderSteps, ReaderPick, ReaderFull, ReaderIdles, ReaderCancels,
         ReaderReads, ReaderAppends, ReaderRemoves, ReaderSpawns, ReaderJoins,
         ClearFlags
<1>2. UNCHANGED <<alive, gpu>>
  BY <1>1 DEF objectVars
<1>3. CallState'
  BY <1>1, <1>2, CallStateStutter
<1>4. FlagsConsistent'
  <2>1. CASE ReaderCancels
    BY <1>1, <1>2, <2>1, ReaderTexQueued, FlagsCleared DEF ReaderCancels
  <2>2. CASE ~ReaderCancels
    BY <1>1, <1>2, <2>2, FlagsStutter
       DEF flagVars, ReaderSteps, ReaderPick, ReaderFull, ReaderIdles,
           ReaderReads, ReaderAppends, ReaderRemoves, ReaderSpawns, ReaderJoins
  <2>3. QED
    BY <2>1, <2>2
<1>5. Ownership'
  <2>1. CASE ReaderPick \/ ReaderFull \/ ReaderIdles \/ ReaderReads
    <3>1. /\ UNCHANGED <<queue, queued, decoderVars>>
          /\ reader # "cancel" /\ reader' # "cancel"
      BY <2>1 DEF ReaderPick, ReaderFull, ReaderIdles, ReaderReads
    <3>2. QED
      BY <1>1, <3>1 DEF Ownership, HeldBy, decoderVars
  <2>2. CASE ReaderCancels
    <3>1. Contains(queue, readerTex) /\ readerTex \in Textures
      BY <2>2, ReaderTexQueued DEF ReaderCancels
    <3>2. /\ reader # "cancel" /\ reader' = "cancel"
          /\ queued' = queued \ {readerTex}
          /\ UNCHANGED <<queue, readerTex, decoderVars>>
      BY <2>2 DEF ReaderCancels, ClearFlags
    <3>3. QED
      BY <1>1, <3>1, <3>2 DEF Ownership, HeldBy, decoderVars
  <2>3. CASE ReaderAppends
    <3>1. \A u : Contains(queue', u) <=> Contains(queue, u)
      BY <2>3, PlaceStreamContains
         DEF ReaderAppends, Pairing, LoaderPart, ReaderHasPlace
    <3>2. /\ UNCHANGED <<queued, decoderVars>>
          /\ reader # "cancel" /\ reader' # "cancel"
      BY <2>3 DEF ReaderAppends
    <3>3. QED
      BY <1>1, <3>1, <3>2 DEF Ownership, HeldBy, decoderVars
  <2>4. CASE ReaderRemoves
    <3>1. \A u : Contains(queue', u) <=> Contains(queue, u) /\ u # readerTex
      BY <2>4, RemoveContains
         DEF ReaderRemoves, Pairing, LoaderPart, ReaderHasPlace
    <3>2. /\ UNCHANGED <<queued, decoderVars>>
          /\ reader = "cancel" /\ reader' # "cancel"
      BY <2>4 DEF ReaderRemoves
    <3>3. QED
      BY <1>1, <3>1, <3>2 DEF Ownership, HeldBy, decoderVars
  <2>5. CASE ReaderSpawns \/ ReaderJoins
    <3>1. /\ UNCHANGED <<queue, queued, decoderTex>>
          /\ reader # "cancel" /\ reader' # "cancel"
      BY <2>5 DEF ReaderSpawns, ReaderJoins
    <3>2. \A d \in Decoders : decoder'[d] \in Decoding <=> decoder[d] \in Decoding
      BY <2>5
         DEF ReaderSpawns, ReaderJoins, DecoderThreads, Decoding, Pairing,
             LoaderPart, ThreadTypes
    <3>3. QED
      BY <1>1, <3>1, <3>2 DEF Ownership, HeldBy
  <2>6. QED
    BY <2>1, <2>2, <2>3, <2>4, <2>5 DEF ReaderSteps
<1>6. QED
  BY <1>3, <1>4, <1>5

LEMMA LifeDecoder ==
    ASSUME Life, NEW d \in Decoders, DecoderSteps(d)
    PROVE  Ownership' /\ FlagsConsistent' /\ CallState'
PROOF
<1> USE DEF Life, DecoderGoto
<1>1. /\ UNCHANGED <<readerRunning, alive, gpu, mainVars, readerVars>>
      /\ queued' \subseteq queued
      /\ \E label \in {"take", "prepare", "decoding", "publish", "done"} :
            decoder' = [decoder EXCEPT ![d] = label]
  BY DEF DecoderSteps, DecoderTakes, DecoderDone, DecoderGivesUp, DecoderStarts,
         DecoderDecodes, DecoderPublishes, DecoderNext, ClearFlags, flagVars
<1>2. CallState'
  BY <1>1, CallStateStutter
<1>3. decoder[d] \in Decoding => decoderTex[d] \in Textures \cap queued
  BY DEF Ownership, Pairing, LoaderPart, DecoderPaired
<1>4. /\ decoder \in [Decoders -> {"off", "take", "prepare", "decoding",
                                   "publish", "done"}]
      /\ decoderTex \in [Decoders -> Image]
  BY DEF Pairing, LoaderPart, ThreadTypes
<1>5. FlagsConsistent'
  <2>1. CASE DecoderTakes(d) \/ DecoderDone(d) \/ DecoderStarts(d) \/ DecoderDecodes(d)
    BY <1>1, <2>1, FlagsStutter
       DEF DecoderTakes, DecoderDone, DecoderStarts, DecoderDecodes, flagVars
  <2>2. CASE DecoderGivesUp(d)
    BY <1>1, <1>3, <2>2, FlagsCleared DEF DecoderGivesUp, DecoderNext, Decoding
  <2>3. CASE DecoderPublishes(d)
    BY <1>1, <1>3, <2>3, FlagsCleared DEF DecoderPublishes, DecoderNext, Decoding
  <2>4. QED
    BY <2>1, <2>2, <2>3 DEF DecoderSteps
<1>6. Ownership'
  <2>1. CASE DecoderTakes(d)
    <3>1. /\ queue # <<>> /\ Head(queue) \in Textures
          /\ Head(queue) # readerTex \/ reader # "cancel"
      <4>1. Paired(queue, streams) /\ streams # <<>>
        BY <2>1 DEF DecoderTakes, Pairing, LoaderPart
      <4>2. queue # <<>> /\ Head(queue) \in Textures
        BY <4>1, TailPaired
      <4>3. CASE reader = "cancel"
        <5>1. PICK i \in (Len(streams) + 1)..Len(queue) : queue[i] = readerTex
          BY <4>3 DEF Pairing, LoaderPart, ReaderHasPlace, Unread
        <5>2. i # 1 /\ i \in 1..Len(queue) /\ 1 \in 1..Len(queue)
          BY <4>1 DEF Paired
        <5>3. queue[1] # queue[i]
          BY <4>1, <5>2 DEF Paired, Injective
        <5>4. QED
          BY <4>1, <4>2, <5>1, <5>3 DEF Paired
      <4>4. QED
        BY <4>2, <4>3
    <3>2. \A u : Contains(queue', u) <=> Contains(queue, u) /\ u # Head(queue)
      BY <2>1, <3>1, TailContains DEF DecoderTakes, Pairing, LoaderPart
    <3>3. Contains(queue, Head(queue))
      BY <3>1 DEF Contains, Pairing, LoaderPart, QueueTypes
    <3>4. /\ decoder[d] = "take" /\ decoder'[d] = "prepare"
          /\ decoderTex'[d] = Head(queue)
          /\ \A e \in Decoders \ {d} : decoder'[e] = decoder[e]
                                       /\ decoderTex'[e] = decoderTex[e]
          /\ UNCHANGED <<queued, reader, readerTex>>
      BY <1>1, <1>4, <2>1 DEF DecoderTakes, DecoderHas, flagVars, readerVars
    <3>5. Head(queue) \in queued
      BY <3>1, <3>3 DEF Ownership
    <3>6. QED
      BY <1>1, <3>1, <3>2, <3>3, <3>4, <3>5
         DEF Ownership, HeldBy, Decoding, readerVars
  <2>2. CASE DecoderDone(d) \/ DecoderStarts(d) \/ DecoderDecodes(d)
    <3>1. /\ UNCHANGED <<queue, queued, decoderTex, reader, readerTex>>
          /\ \A e \in Decoders : decoder'[e] \in Decoding <=> decoder[e] \in Decoding
      BY <1>1, <1>4, <2>2
         DEF DecoderDone, DecoderStarts, DecoderDecodes, Decoding, flagVars,
             readerVars
    <3>2. QED
      BY <1>1, <3>1 DEF Ownership, HeldBy
  <2>3. CASE DecoderGivesUp(d) \/ DecoderPublishes(d)
    <3>1. /\ queued' = queued \ {decoderTex[d]} /\ decoder[d] \in Decoding
          /\ decoder'[d] \notin Decoding
          /\ \A e \in Decoders \ {d} : decoder'[e] = decoder[e]
                                       /\ decoderTex'[e] = decoderTex[e]
          /\ UNCHANGED <<queue, reader, readerTex>>
      BY <1>1, <1>4, <2>3
         DEF DecoderGivesUp, DecoderPublishes, DecoderNext, DecoderHas,
             ClearFlags, Decoding, readerVars
    <3>2. QED
      BY <1>1, <3>1 DEF Ownership, HeldBy
  <2>4. QED
    BY <2>1, <2>2, <2>3 DEF DecoderSteps
<1>7. QED
  BY <1>2, <1>5, <1>6

LEMMA LifeStep == Life /\ [Next]_vars => Life'
PROOF
<1> SUFFICES ASSUME Life, [Next]_vars PROVE Life'
  OBVIOUS
<1>1. Pairing'
  BY PairingStep DEF Life
<1>2. Ownership' /\ FlagsConsistent' /\ CallState'
  <2>1. CASE \E t \in Textures : AppCalls(t)
    BY <2>1, LifeAppCalls
  <2>2. CASE WaitForAsyncTextures \/ Shutdown \/ Frame
    <3>1. UNCHANGED <<queueVars, flagVars, objectVars, threadVars, frameVars>>
      BY <2>2 DEF WaitForAsyncTextures, Shutdown, Frame, Await, Goto, OnlyMain
    <3>2. Ownership' /\ FlagsConsistent'
      BY <3>1, OwnershipStutter, FlagsStutter
         DEF Life, threadVars, readerVars, flagVars, objectVars
    <3>3. CallState'
      BY <2>2, <3>1 DEF WaitForAsyncTextures, Shutdown, Frame, Await, Goto,
                        Life, CallState, objectVars
    <3>4. QED
      BY <3>2, <3>3
  <2>3. CASE MainContinues
    BY <2>3, LifeMainContinues
  <2>4. CASE ReaderSteps
    BY <2>4, LifeReader
  <2>5. CASE \E d \in Decoders : DecoderSteps(d)
    BY <2>5, LifeDecoder
  <2>6. CASE Terminated \/ UNCHANGED vars
    <3>1. UNCHANGED <<queueVars, flagVars, objectVars, mainVars, threadVars>>
      BY <2>6 DEF Terminated, vars
    <3>2. QED
      BY <3>1, OwnershipStutter, FlagsStutter, CallStateStutter
         DEF Life, threadVars, readerVars, flagVars, objectVars
  <2>7. QED
    BY <2>1, <2>2, <2>3, <2>4, <2>5, <2>6 DEF Next
<1>3. QED
  BY <1>1, <1>2 DEF Life

(* In every reachable state the flags, the queue and the decoders agree on *)
(* which textures are worked for.                                          *)
THEOREM LifeInvariant == Spec => []Life
PROOF
<1>1. QED
  BY LifeInit, LifeStep, PTL DEF Spec

(* A queued load is the only one that can be discarded, and a queued       *)
(* texture exists and has no image yet.                                    *)
THEOREM FlagsStayConsistent == Spec => []FlagsConsistent
PROOF
<1>1. Life => FlagsConsistent
  BY DEF Life
<1>2. QED
  BY <1>1, LifeInvariant, PTL

(* Neither the reader nor a decoder nor update() touches a deleted texture. *)
THEOREM NoThreadUsesDeleted == Spec => []NoUseAfterDelete
PROOF
<1>1. ASSUME Life PROVE NoUseAfterDelete
  <2>1. reader \in {"prepare", "reading"} => readerTex \in alive
    BY <1>1, ReaderTexQueued DEF Life, Ownership, FlagsConsistent
  <2>2. \A d \in Decoders : decoder[d] \in Decoding => decoderTex[d] \in alive
    BY <1>1 DEF Life, Ownership, FlagsConsistent
  <2>3. (pc = "visit" => todo \subseteq alive) /\ (pc = "load" => loading \in alive)
    BY <1>1 DEF Life, CallState
  <2>4. QED
    BY <2>1, <2>2, <2>3 DEF NoUseAfterDelete
<1>2. QED
  BY <1>1, LifeInvariant, PTL

(* Every queued load is in exactly one place and nothing else is in any,   *)
(* so that ~Texture() may rely on the flag alone.                          *)
THEOREM EveryRequestInOnePlace == Spec => []QueuedOncePerRequest
PROOF
<1>1. ASSUME Life, NEW t \in Textures
      PROVE  Places(t) = IF t \in queued \/ (reader = "cancel" /\ readerTex = t)
                         THEN 1 ELSE 0
  <2> USE <1>1 DEF Life
  <2> DEFINE I == {i \in 1..Len(queue) : queue[i] = t}
             D == {d \in Decoders : decoder[d] \in Decoding /\ decoderTex[d] = t}
  <2>1. Places(t) = Cardinality(I) + Cardinality(D)
    BY DEF Places
  <2>2. /\ \A x : Cardinality({x}) = 1
        /\ Cardinality({}) = 0
    BY FS_Singleton, FS_EmptySet
  <2>3. CASE Contains(queue, t)
    <3>1. PICK i \in 1..Len(queue) : queue[i] = t
      BY <2>3 DEF Contains
    <3>2. I = {i}
      BY <3>1 DEF Pairing, LoaderPart, Paired, Injective
    <3>3. D = {}
      BY <2>3 DEF Ownership
    <3>4. t \in queued \/ (reader = "cancel" /\ readerTex = t)
      BY <2>3 DEF Ownership
    <3>5. Cardinality(I) = 1 /\ Cardinality(D) = 0
      BY <2>2, <3>2, <3>3
    <3> HIDE DEF I, D
    <3>6. QED
      BY <2>1, <3>4, <3>5
  <2>4. CASE ~Contains(queue, t)
    <3>1. I = {} /\ ~(reader = "cancel" /\ readerTex = t)
      BY <2>4, ReaderTexQueued DEF Contains
    <3>2. CASE t \in queued
      <4>1. PICK d \in Decoders : HeldBy(d, t)
        BY <2>4, <3>2 DEF Ownership
      <4>2. D = {d}
        BY <4>1 DEF Ownership, HeldBy
      <4>3. Cardinality(I) = 0 /\ Cardinality(D) = 1
        BY <2>2, <3>1, <4>2
      <4> HIDE DEF I, D
      <4>4. QED
        BY <2>1, <3>2, <4>3
    <3>3. CASE t \notin queued
      <4>1. D = {}
        BY <3>3 DEF Ownership
      <4>2. Cardinality(I) = 0 /\ Cardinality(D) = 0
        BY <2>2, <3>1, <4>1
      <4> HIDE DEF I, D
      <4>3. QED
        BY <2>1, <3>1, <3>3, <4>2
    <3>4. QED
      BY <3>2, <3>3
  <2>5. QED
    BY <2>3, <2>4
<1>2. Life => QueuedOncePerRequest
  BY <1>1 DEF QueuedOncePerRequest
<1>3. QED
  BY <1>2, LifeInvariant, PTL

-----------------------------------------------------------------------------
(* The file contents that wait, and the reader that waits for them.        *)

(* The reader reads a file only where its contents have room; what it saw  *)
(* of the contents when it starts decoders only becomes less; it ends, and *)
(* is gone, with nothing waiting and no decoder left.                      *)
Waiting ==
    /\ MaxWaiting > 0 => Len(streams) <= MaxWaiting
    /\ MaxWaiting > 0 /\ reader \in {"prepare", "reading", "append"} => Len(streams) < MaxWaiting
    /\ reader = "spawn" => Len(streams) <= size
    /\ reader = "join" /\ ~running => streams = <<>>
    /\ reader \in {"off", "exited"} => streams = <<>> /\ DecoderThreads = {}

LEMMA WaitingInit == Init => Waiting
PROOF
<1>1. Len(<<>>) = 0
  OBVIOUS
<1> QED
  BY <1>1, ParametersAssumption DEF Init, Waiting, DecoderThreads

LEMMA StreamsTyped ==
    ASSUME Life
    PROVE  /\ streams \in Seq(Textures) /\ Len(streams) \in Nat /\ Paired(queue, streams)
           /\ streams = <<>> <=> Len(streams) = 0
           /\ size \in Nat /\ MaxWaiting \in Int
PROOF
<1>1. streams \in Seq(Textures) /\ size \in Nat /\ Paired(queue, streams)
  BY DEF Life, Pairing, LoaderPart, QueueTypes, ThreadTypes
<1> QED
  BY <1>1, EmptySeq, LenProperties, ParametersAssumption

(* Moving a texture to the front of the queues loses none of the contents. *)
LEMMA PrioritizedLength ==
    ASSUME Paired(queue, streams), NEW index \in 1..Len(queue), Prioritized(index)
    PROVE  Len(streams') = Len(streams)
PROOF
<1>1. streams \in Seq(Textures) /\ Len(streams) \in Nat /\ index \in Nat
  BY DEF Paired
<1>2. CASE index > Len(streams)
  BY <1>2 DEF Prioritized
<1>3. CASE index <= Len(streams)
  <2>1. streams' = Cons(streams[index], RemoveAt(streams, index)) /\ index \in 1..Len(streams)
    BY <1>1, <1>3 DEF Prioritized
  <2>2. /\ RemoveAt(streams, index) \in Seq(Textures)
        /\ Len(RemoveAt(streams, index)) = Len(streams) - 1 /\ streams[index] \in Textures
    BY <1>1, <2>1, RemoveAtProperties
  <2> QED
    BY <1>1, <2>1, <2>2 DEF Cons
<1> QED
  BY <1>1, <1>2, <1>3

(* What the main thread does to the loader threads: it starts a reader, or *)
(* joins one that ended.                                                   *)
LeavesLoaders ==
    /\ UNCHANGED <<running, size, decoderVars>> /\ Len(streams') = Len(streams)
    /\ \/ reader' \in {reader, "check"}
       \/ reader \in {"off", "exited"} /\ reader' = "off"

LEMMA WaitingMain ==
    ASSUME Life, Life', Waiting, LeavesLoaders
    PROVE  Waiting'
PROOF
<1>1. (streams = <<>> <=> Len(streams) = 0) /\ Len(streams) \in Nat
  BY StreamsTyped
<1>2. streams' = <<>> <=> Len(streams') = 0
  <2>1. streams' \in Seq(Textures)
    BY DEF Life, Pairing, LoaderPart, QueueTypes
  <2> QED
    BY <2>1, EmptySeq
<1>3. DecoderThreads' = DecoderThreads
  BY DEF LeavesLoaders, DecoderThreads, decoderVars
<1> QED
  BY <1>1, <1>2, <1>3 DEF Waiting, LeavesLoaders

LEMMA MainLeavesLoaders ==
    ASSUME Life, \/ \E t \in Textures : AppCalls(t)
                 \/ WaitForAsyncTextures \/ Shutdown \/ Frame \/ MainContinues
                 \/ Terminated \/ UNCHANGED vars
    PROVE  LeavesLoaders
PROOF
<1>1. CASE UNCHANGED <<streams, threadVars>>
  BY <1>1 DEF LeavesLoaders, threadVars, readerVars
<1>2. ASSUME NEW t, LoadAsyncAccepted(t) PROVE LeavesLoaders
  BY <1>2 DEF LoadAsyncAccepted, QueueLoad, LeavesLoaders, queueVars, readerVars
<1>3. ASSUME NEW t \in Textures, AppCalls(t) PROVE LeavesLoaders
  <2>1. CASE LoadAsync(t)
    BY <1>2, <2>1 DEF LoadAsync
  <2>2. CASE ~LoadAsync(t)
    BY <1>1, <1>3, <2>2
       DEF AppCalls, CreateTexture, DestroyTexture, Load, Unload, LoadMetaData, WaitForAsyncLoad,
           LowMemoryUnload, StartLoad, DropTexture, Call, Await, OnlyMain, queueVars
  <2> QED
    BY <2>1, <2>2
<1>4. CASE WaitForAsyncTextures \/ Shutdown \/ Frame \/ Terminated \/ UNCHANGED vars
  BY <1>1, <1>4 DEF WaitForAsyncTextures, Shutdown, Frame, Terminated, Await, Goto, OnlyMain, vars, queueVars
<1>5. CASE MainContinues
  <2>1. CASE CreatedAsync
    BY <1>1, <1>2, <2>1 DEF CreatedAsync, queueVars
  <2>2. CASE PrioritizeLoad
    <3>1. Len(streams') = Len(streams)
      <4>1. CASE Contains(queue, waitFor)
        <5>1. PICK i \in 1..Len(queue) : queue[i] = waitFor
          BY <4>1 DEF Contains
        <5>2. IndexOf(waitFor) = i
          BY <5>1, IndexOfProperties DEF Life, Pairing, LoaderPart, Paired
        <5> QED
          BY <2>2, <4>1, <5>2, PrioritizedLength, StreamsTyped DEF PrioritizeLoad
      <4>2. CASE ~Contains(queue, waitFor)
        BY <2>2, <4>2 DEF PrioritizeLoad
      <4> QED
        BY <4>1, <4>2
    <3> QED
      BY <2>2, <3>1 DEF PrioritizeLoad, LeavesLoaders, threadVars, readerVars
  <2>3. CASE Update
    <3>1. \/ reader' \in {reader, "check"}
          \/ reader \in {"off", "exited"} /\ reader' = "off"
      BY <2>3 DEF Update, ReaderJoinable, Life, Ownership
    <3> QED
      BY <2>3, <3>1 DEF Update, LeavesLoaders
  <2>4. CASE ~CreatedAsync /\ ~PrioritizeLoad /\ ~Update
    BY <1>1, <1>5, <2>4
       DEF MainContinues, CreatedImmediate, CreatedOnDemand, DestroyUnload, FreeTexture,
           LoadFileMissing, LoadUploadFails, LoadUploads, LoadReturns, WaitAgain, WaitEnds, DrainAgain,
           DrainEnds, ShutdownDrain, UpdateEnds, ShutdownDelete, UpdateSkips, UpdateUploads,
           StartLoad, DropTexture, Goto, Call, Await, OnlyMain, queueVars
  <2> QED
    BY <2>1, <2>2, <2>3, <2>4
<1> QED
  BY <1>3, <1>4, <1>5

LEMMA WaitingReader ==
    ASSUME Life, Life', Waiting, ReaderSteps
    PROVE  Waiting'
PROOF
<1>1. /\ streams \in Seq(Textures) /\ Len(streams) \in Nat /\ Paired(queue, streams)
      /\ streams = <<>> <=> Len(streams) = 0
      /\ size \in Nat /\ MaxWaiting \in Int
  BY StreamsTyped
<1>2. CASE ReaderPick \/ ReaderFull \/ ReaderReads \/ ReaderCancels
  <2>1. streams' = streams /\ reader' \in {"prepare", "full", "reading", "append", "cancel"}
    BY <1>2 DEF ReaderPick, ReaderFull, ReaderReads, ReaderCancels, ReaderGoto
  <2>2. MaxWaiting > 0 /\ reader' \in {"prepare", "reading", "append"} => Len(streams) < MaxWaiting
    BY <1>1, <1>2 DEF ReaderPick, ReaderFull, ReaderReads, ReaderCancels, ReaderGoto, HasRoom, Waiting
  <2> QED
    BY <2>1, <2>2 DEF Waiting
<1>3. CASE ReaderIdles \/ ReaderRemoves
  <2>1. streams' = streams /\ reader' = "spawn" /\ size' = Len(streams)
    BY <1>3 DEF ReaderIdles, ReaderRemoves, ReaderGoto
  <2> QED
    BY <1>1, <2>1 DEF Waiting
<1>4. CASE ReaderAppends
  <2>1. reader = "append" /\ reader' = "spawn" /\ size' = Len(streams')
    BY <1>4 DEF ReaderAppends, ReaderGoto
  <2>2. Len(streams') = Len(streams) + 1
    <3>1. PICK i \in (Len(streams) + 1)..Len(queue) : queue[i] = readerTex
      BY <2>1 DEF Life, Pairing, LoaderPart, ReaderHasPlace, Unread
    <3>2. IndexOf(readerTex) = i
      BY <1>1, <3>1, IndexOfProperties DEF Paired
    <3>3. streams' = Append(streams, readerTex)
      BY <1>1, <1>4, <3>1, <3>2 DEF ReaderAppends, PlaceStream
    <3> QED
      BY <1>1, <3>3
  <2>3. MaxWaiting > 0 => Len(streams') <= MaxWaiting
    BY <1>1, <2>1, <2>2 DEF Waiting
  <2>4. Len(streams') <= size'
    BY <1>1, <2>1, <2>2
  <2> QED
    BY <2>1, <2>3, <2>4 DEF Waiting
<1>5. CASE ReaderSpawns
  <2>1. /\ reader = "spawn" /\ reader' = "join" /\ streams' = streams
        /\ running' = (running \/ size > 0)
    BY <1>5 DEF ReaderSpawns, ReaderGoto
  <2>2. ASSUME ~running' PROVE streams = <<>>
    <3>1. ~(size > 0)
      BY <2>1, <2>2, Zenon
    <3> QED
      BY <1>1, <2>1, <3>1 DEF Waiting
  <2> QED
    BY <2>1, <2>2 DEF Waiting
<1>6. CASE ReaderJoins
  <2>1. /\ reader = "join" /\ streams' = streams
        /\ \/ reader' = "check"
           \/ reader' = "exited" /\ ~running /\ DecoderThreads = {}
    BY <1>6 DEF ReaderJoins, ReaderGoto, ReaderGoesOn
  <2>2. DecoderThreads = {} => DecoderThreads' = {}
    BY <1>6 DEF ReaderJoins, DecoderThreads
  <2> QED
    BY <2>1, <2>2 DEF Waiting
<1> QED
  BY <1>2, <1>3, <1>4, <1>5, <1>6 DEF ReaderSteps

LEMMA WaitingDecoder ==
    ASSUME Life, Life', Waiting, NEW d \in Decoders, DecoderSteps(d)
    PROVE  Waiting'
PROOF
<1>1. /\ streams \in Seq(Textures) /\ Len(streams) \in Nat
      /\ streams = <<>> <=> Len(streams) = 0
      /\ size \in Nat /\ MaxWaiting \in Int
  BY StreamsTyped
<1>2. decoder[d] # "off" /\ UNCHANGED readerVars
  BY DEF DecoderSteps, DecoderTakes, DecoderDone, DecoderGivesUp, DecoderStarts, DecoderDecodes,
         DecoderPublishes, DecoderNext, DecoderGoto
<1>3. reader \notin {"off", "exited"}
  BY <1>2 DEF Waiting, DecoderThreads
<1>4. CASE DecoderTakes(d)
  <2>1. streams # <<>> /\ streams' = Tail(streams)
    BY <1>4 DEF DecoderTakes
  <2>2. Len(streams') = Len(streams) - 1
    BY <1>1, <2>1
  <2> QED
    BY <1>1, <1>2, <1>3, <2>1, <2>2 DEF Waiting, readerVars
<1>5. CASE ~DecoderTakes(d)
  <2>1. streams' = streams
    BY <1>5 DEF DecoderSteps, DecoderDone, DecoderGivesUp, DecoderStarts, DecoderDecodes,
                DecoderPublishes, DecoderNext
  <2> QED
    BY <1>2, <1>3, <2>1 DEF Waiting, readerVars
<1> QED
  BY <1>4, <1>5

LEMMA WaitingStep == Life /\ Life' /\ Waiting /\ [Next]_vars => Waiting'
PROOF
<1> SUFFICES ASSUME Life, Life', Waiting, [Next]_vars PROVE Waiting'
  OBVIOUS
<1> QED
  BY MainLeavesLoaders, WaitingMain, WaitingReader, WaitingDecoder DEF Next

(* The decoder threads, the waiting contents and the reader belong         *)
(* together as Waiting says, beside Life.                                  *)
THEOREM WaitingInvariant == Spec => [](Life /\ Waiting)
PROOF
<1> QED
  BY WaitingInit, WaitingStep, LifeInvariant, PTL DEF Spec

(* The limit that setMaxWaitingAsyncTextures() sets holds although it is   *)
(* checked before the file is read and others take from the queue          *)
(* meanwhile: for any limit and any number of decoders.                    *)
THEOREM WaitingStaysBounded == Spec => []WaitingStreamsBounded
PROOF
<1>1. Waiting => WaitingStreamsBounded
  BY DEF Waiting, WaitingStreamsBounded
<1> QED
  BY <1>1, WaitingInvariant, PTL

(* readerRunning is the truth, and the reader thread ends only when no     *)
(* contents wait and every decoder thread was joined.                      *)
THEOREM ReaderEndsLast == Spec => []ReaderOutlivesDecoders
PROOF
<1>1. Life /\ Waiting => ReaderOutlivesDecoders
  BY DEF Life, Ownership, Waiting, ReaderOutlivesDecoders
<1> QED
  BY <1>1, WaitingInvariant, PTL

-----------------------------------------------------------------------------
(* No request is forgotten.                                                *)

(* Whoever adds to the queue sees to a reader; one that ended is the reason *)
(* for update() to start another.                                          *)
QueueHasReader == queue # <<>> => readerRunning

(* A texture with asyncLoadQueued is with a decoder or in the queue, and   *)
(* the reader that reads it, starts its decoder and joins that is there,   *)
(* or has ended and update() will start it again.                          *)
RequestsServed ==
    \A t \in queued :
        /\ readerRunning
        /\ \/ Contains(queue, t)
           \/ reader # "exited" /\ \E d \in Decoders : HeldBy(d, t)

(* The queue is added to where a reader is seen to, and nowhere else.      *)
LEMMA QueueHasReaderStep ==
    ASSUME Life, QueueHasReader, [Next]_vars
    PROVE  QueueHasReader'
PROOF
<1>1. CASE UNCHANGED queue /\ UNCHANGED readerRunning
  BY <1>1 DEF QueueHasReader
<1>2. ASSUME NEW t, LoadAsyncAccepted(t) PROVE QueueHasReader'
  BY <1>1, <1>2 DEF LoadAsyncAccepted, QueueLoad, QueueHasReader, queueVars
<1>3. ASSUME NEW t \in Textures, AppCalls(t) PROVE QueueHasReader'
  <2>1. CASE LoadAsync(t)
    BY <1>2, <2>1 DEF LoadAsync
  <2>2. CASE ~LoadAsync(t)
    BY <1>1, <1>3, <2>2
       DEF AppCalls, CreateTexture, DestroyTexture, Load, Unload, LoadMetaData, WaitForAsyncLoad,
           LowMemoryUnload, StartLoad, DropTexture, Call, Await, OnlyMain, queueVars
  <2> QED
    BY <2>1, <2>2
<1>4. CASE WaitForAsyncTextures \/ Shutdown \/ Frame \/ Terminated \/ UNCHANGED vars
  BY <1>1, <1>4 DEF WaitForAsyncTextures, Shutdown, Frame, Terminated, Await, Goto, OnlyMain, vars, queueVars
<1>5. CASE MainContinues
  <2>1. CASE CreatedAsync
    BY <1>1, <1>2, <2>1 DEF CreatedAsync, queueVars
  <2>2. CASE PrioritizeLoad
    <3>1. CASE Contains(queue, waitFor)
      <4>1. queue # <<>>
        BY <3>1 DEF Contains
      <4> QED
        BY <2>2, <4>1 DEF PrioritizeLoad, QueueHasReader
    <3>2. CASE ~Contains(queue, waitFor)
      BY <1>1, <2>2, <3>2 DEF PrioritizeLoad
    <3> QED
      BY <3>1, <3>2
  <2>3. CASE Update
    BY <2>3 DEF Update, NeedsReader, QueueHasReader
  <2>4. CASE ~CreatedAsync /\ ~PrioritizeLoad /\ ~Update
    BY <1>1, <1>5, <2>4
       DEF MainContinues, CreatedImmediate, CreatedOnDemand, DestroyUnload, FreeTexture,
           LoadFileMissing, LoadUploadFails, LoadUploads, LoadReturns, WaitAgain, WaitEnds, DrainAgain,
           DrainEnds, ShutdownDrain, UpdateEnds, ShutdownDelete, UpdateSkips, UpdateUploads,
           StartLoad, DropTexture, Goto, Call, Await, OnlyMain, queueVars
  <2> QED
    BY <2>1, <2>2, <2>3, <2>4
<1>6. CASE ReaderSteps
  <2>1. reader # "off" /\ readerRunning' = readerRunning
    BY <1>6
       DEF ReaderSteps, ReaderPick, ReaderFull, ReaderIdles, ReaderCancels, ReaderReads, ReaderAppends,
           ReaderRemoves, ReaderSpawns, ReaderJoins, ReaderGoto
  <2> QED
    BY <2>1 DEF Life, Ownership, QueueHasReader
<1>7. ASSUME NEW d \in Decoders, DecoderSteps(d) PROVE QueueHasReader'
  <2>1. readerRunning' = readerRunning
    BY <1>7
       DEF DecoderSteps, DecoderTakes, DecoderDone, DecoderGivesUp, DecoderStarts, DecoderDecodes,
           DecoderPublishes, DecoderNext, DecoderGoto
  <2>2. CASE DecoderTakes(d)
    <3>1. streams # <<>>
      BY <2>2 DEF DecoderTakes
    <3>2. queue # <<>>
      BY <3>1 DEF Life, Pairing, LoaderPart, Paired
    <3> QED
      BY <2>1, <3>2 DEF QueueHasReader
  <2>3. CASE ~DecoderTakes(d)
    BY <1>1, <1>7, <2>1, <2>3
       DEF DecoderSteps, DecoderDone, DecoderGivesUp, DecoderStarts, DecoderDecodes,
           DecoderPublishes, DecoderNext
  <2> QED
    BY <2>2, <2>3
<1> QED
  BY <1>3, <1>4, <1>5, <1>6, <1>7 DEF Next

(* No request is forgotten: a texture with asyncLoadQueued never waits for *)
(* a reader that nobody started, although the one that runs may end while  *)
(* another texture is queued (queueLoad(), _read(), update()).             *)
THEOREM NoRequestForgotten == Spec => []RequestsServed
PROOF
<1>1. Init => QueueHasReader
  BY DEF Init, QueueHasReader
<1>2. ASSUME Life, Waiting, QueueHasReader, NEW t \in queued
      PROVE  /\ readerRunning
             /\ \/ Contains(queue, t)
                \/ reader # "exited" /\ \E d \in Decoders : HeldBy(d, t)
  <2>1. CASE Contains(queue, t)
    <3>1. queue # <<>>
      BY <2>1 DEF Contains
    <3> QED
      BY <1>2, <2>1, <3>1 DEF QueueHasReader
  <2>2. CASE ~Contains(queue, t)
    <3>1. PICK d \in Decoders : HeldBy(d, t)
      BY <1>2, <2>2 DEF Life, Ownership
    <3>2. DecoderThreads # {}
      BY <3>1 DEF HeldBy, Decoding, DecoderThreads
    <3>3. reader \notin {"off", "exited"}
      BY <1>2, <3>2 DEF Waiting
    <3> QED
      BY <1>2, <3>1, <3>3 DEF Life, Ownership
  <2> QED
    BY <2>1, <2>2
<1>3. Life /\ Waiting /\ QueueHasReader => RequestsServed
  BY <1>2 DEF RequestsServed
<1>4. Life /\ QueueHasReader /\ [Next]_vars => QueueHasReader'
  BY QueueHasReaderStep
<1> QED
  BY <1>1, <1>3, <1>4, WaitingInvariant, PTL DEF Spec

-----------------------------------------------------------------------------
(* The calls the main thread is in the middle of: a wait that goes on      *)
(* while update() uploads other textures, a texture that is being deleted, *)
(* april::destroy().                                                       *)

(* What is waited for, and why.                                            *)
WaitState ==
    /\ waitFor # None <=> waitWhy \in {"load", "user", "destroy"}
    /\ pc \in {"prioritize", "wait", "free"} => waitFor # None
    /\ pc = "free" => waitWhy = "destroy"
    /\ pc = "drain" => waitWhy = "all"
    /\ pc \in {"idle", "created", "destroy", "closing", "down"} => waitWhy = "none"
    /\ pc = "load" => loadFrom = "update" \/ waitWhy = "none"

(* A texture whose destructor waits has nothing left to give to the GPU,   *)
(* and will be given nothing.                                              *)
DestroyState ==
    waitWhy = "destroy" =>
        /\ waitFor \in alive /\ ~Loaded(waitFor) /\ dataAsync[waitFor] = None
        /\ waitFor \in queued => waitFor \in discarded
        /\ pc = "load" => loading # waitFor

(* april::destroy() deletes the textures one after the other and then      *)
(* waits for the reader; no other call is made.                            *)
ClosingState ==
    /\ closing =>
        /\ pc \notin {"idle", "created"} /\ waitWhy \in {"none", "destroy", "all"}
        /\ pc \in {"update", "visit"} => waitWhy # "none"
        /\ pc = "load" => loadFrom = "update" /\ waitWhy # "none"
        /\ waitWhy = "all" => alive = {}
    /\ pc \in {"closing", "down"} => closing
    /\ pc = "down" => alive = {} /\ ~readerRunning

Calls == WaitState /\ DestroyState /\ ClosingState

LEMMA CallsInit == Init => Calls
BY DEF Init, Calls, WaitState, DestroyState, ClosingState

(* A step that does not concern the calls.                                 *)
LEMMA CallsStutter ==
    ASSUME Calls, UNCHANGED <<mainVars, alive, gpu>>,
           readerRunning' = readerRunning \/ pc # "down",
           waitWhy = "destroy" => /\ dataAsync'[waitFor] = dataAsync[waitFor]
                                  /\ waitFor \in queued' => waitFor \in queued
                                  /\ waitFor \in queued' /\ waitFor \in discarded => waitFor \in discarded'
    PROVE  Calls'
PROOF
<1>1. WaitState'
  BY DEF Calls, WaitState, mainVars, callVars, waitVars
<1>2. DestroyState'
  BY DEF Calls, DestroyState, Loaded, mainVars, callVars, waitVars
<1>3. ClosingState'
  BY DEF Calls, ClosingState, mainVars, callVars, waitVars
<1> QED
  BY <1>1, <1>2, <1>3 DEF Calls

(* A load begins: one by the application or of a new texture while nothing *)
(* is waited for, or an upload by update(), of another texture than the    *)
(* one that is being deleted.                                              *)
LEMMA StartLoadCalls ==
    ASSUME Life, Calls, NEW t \in alive, NEW from \in {"create", "user", "update"},
           StartLoad(t, from),
           IF from = "update" THEN pc = "visit" /\ t \notin queued /\ dataAsync[t] # None
                              ELSE pc \in {"idle", "created"}
    PROVE  Calls'
PROOF
<1>1. t # None
  BY ParametersAssumption DEF Life, Pairing, TexturePart, TextureTypes
<1>2. UNCHANGED <<closing, alive, gpu, dataAsync, queued, readerRunning>> /\ discarded' = discarded \ {t}
  BY DEF StartLoad, waitVars, objectVars, queueVars
<1>3. CASE t \in queued
  <2>1. /\ pc' = "prioritize" /\ waitFor' = t /\ waitWhy' = "load"
        /\ pc \in {"idle", "created"} /\ ~closing
    BY <1>3 DEF StartLoad, Calls, ClosingState
  <2> QED
    BY <1>1, <1>2, <2>1 DEF Calls, WaitState, DestroyState, ClosingState
<1>4. CASE t \notin queued
  <2>1. /\ pc' = "load" /\ loading' = t /\ loadFrom' = from
        /\ UNCHANGED <<waitFor, waitWhy>>
    BY <1>4 DEF StartLoad, waitVars
  <2>2. WaitState'
    BY <2>1 DEF Calls, WaitState
  <2>3. DestroyState'
    <3>1. waitWhy = "destroy" => t # waitFor
      BY DEF Calls, DestroyState, WaitState
    <3> QED
      BY <1>2, <2>1, <3>1 DEF Calls, DestroyState, Loaded
  <2>4. ClosingState'
    BY <1>2, <2>1 DEF Calls, ClosingState
  <2> QED
    BY <2>2, <2>3, <2>4 DEF Calls
<1> QED
  BY <1>3, <1>4

(* A texture is unloaded while another call goes on.                       *)
LEMMA DropTextureCalls ==
    ASSUME Life, Calls, NEW t \in alive, DropTexture(t), UNCHANGED mainVars
    PROVE  Calls'
PROOF
<1>1. /\ UNCHANGED <<queued, alive, readerRunning>> /\ discarded \subseteq discarded'
      /\ \A u \in Textures : (~Loaded(u) => ~Loaded(u)') /\ (dataAsync[u] = None => dataAsync'[u] = None)
  BY DropTextureLife DEF DropTexture, queueVars, Life, Pairing, TexturePart, TextureTypes
<1>2. waitWhy = "destroy" => waitFor \in Textures
  BY DEF Calls, DestroyState, Life, Pairing, TexturePart, TextureTypes
<1>3. DestroyState'
  BY <1>1, <1>2 DEF Calls, DestroyState, mainVars, callVars, waitVars
<1>4. WaitState' /\ ClosingState'
  BY <1>1 DEF Calls, WaitState, ClosingState, mainVars, callVars, waitVars
<1> QED
  BY <1>3, <1>4 DEF Calls

LEMMA CallsAppCalls ==
    ASSUME Life, Calls, NEW t \in Textures, AppCalls(t)
    PROVE  Calls'
PROOF
<1>1. t # None
  BY ParametersAssumption
<1>2. CASE pc = "idle"
  <2>1. waitWhy = "none" /\ waitFor = None /\ ~closing
    BY <1>2 DEF Calls, WaitState, ClosingState
  <2>2. CASE CreateTexture(t)
    BY <2>1, <2>2 DEF CreateTexture, waitVars, Calls, WaitState, DestroyState, ClosingState
  <2>3. CASE DestroyTexture(t) \/ WaitForAsyncLoad(t)
    BY <1>1, <2>1, <2>3 DEF DestroyTexture, WaitForAsyncLoad, Call, Await, waitVars,
                            Calls, WaitState, DestroyState, ClosingState
  <2>4. CASE Load(t)
    BY <1>2, <2>4, StartLoadCalls DEF Load
  <2>5. CASE LoadAsync(t) \/ LoadMetaData(t) \/ Unload(t)
    <3>1. UNCHANGED mainVars
      BY <2>5 DEF LoadAsync, LoadMetaData, Unload
    <3> QED
      BY <1>2, <2>1, <3>1 DEF Calls, WaitState, DestroyState, ClosingState, mainVars, callVars, waitVars
  <2> QED
    BY <1>2, <2>2, <2>3, <2>4, <2>5 DEF AppCalls, LowMemoryUnload
<1>3. CASE pc # "idle"
  <2>1. LowMemoryUnload(t)
    BY <1>3 DEF AppCalls, CreateTexture, DestroyTexture, Load, LoadAsync, Unload, LoadMetaData,
                WaitForAsyncLoad
  <2> QED
    BY <2>1, DropTextureCalls DEF LowMemoryUnload
<1> QED
  BY <1>2, <1>3

(* load() returns to what called it.                                       *)
LEMMA LoadReturnsCalls ==
    ASSUME Life, Calls, pc = "load", NEW result \in BOOLEAN, LoadReturns(result),
           readerRunning' = readerRunning,
           waitWhy = "destroy" => UNCHANGED <<gpu[waitFor], dataAsync[waitFor]>>
    PROVE  Calls'
PROOF
<1>1. /\ UNCHANGED <<queued, discarded, alive, waitFor, waitWhy, closing>>
      /\ \/ pc' = "destroy" /\ loadFrom = "create" /\ loadFrom # "update"
         \/ pc' = "visit" /\ loadFrom = "update"
         \/ pc' = "idle" /\ loadFrom # "update"
  BY DEF LoadReturns, waitVars
<1>2. WaitState'
  BY <1>1 DEF Calls, WaitState
<1>3. DestroyState'
  BY <1>1 DEF Calls, DestroyState, Loaded
<1>4. ClosingState'
  BY <1>1 DEF Calls, ClosingState
<1> QED
  BY <1>2, <1>3, <1>4 DEF Calls

LEMMA CallsMainContinues ==
    ASSUME Life, Calls, MainContinues
    PROVE  Calls'
PROOF
<1> USE DEF Calls
<1>1. CASE CreatedImmediate
  BY <1>1, StartLoadCalls DEF CreatedImmediate, Life, CallState
<1>2. CASE CreatedOnDemand \/ WaitAgain \/ DrainAgain \/ \E t \in Textures : ShutdownDelete(t)
  <2>1. UNCHANGED <<queueVars, flagVars, objectVars, loadFrom, waitVars>>
    BY <1>2 DEF CreatedOnDemand, WaitAgain, DrainAgain, ShutdownDelete, Goto, Call, OnlyMain
  <2>2. \/ pc = "created" /\ pc' = "idle"
        \/ pc = "wait" /\ pc' = "update"
        \/ pc = "drain" /\ pc' = "update"
        \/ pc = "closing" /\ pc' = "destroy"
    BY <1>2 DEF CreatedOnDemand, WaitAgain, DrainAgain, ShutdownDelete, Goto, Call
  <2> QED
    BY <2>1, <2>2 DEF WaitState, DestroyState, ClosingState, Loaded, queueVars, flagVars, objectVars,
                      waitVars
<1>3. CASE WaitEnds
  <2>1. UNCHANGED <<queueVars, flagVars, objectVars, loadFrom, closing>>
    BY <1>3 DEF WaitEnds, Goto, Await, OnlyMain, waitVars
  <2>2. \/ waitWhy = "destroy" /\ pc' = "free" /\ UNCHANGED <<waitFor, waitWhy>>
        \/ waitWhy # "destroy" /\ pc' = "idle" /\ waitFor' = None /\ waitWhy' = "none"
    BY <1>3 DEF WaitEnds, Goto, Await, waitVars
  <2>3. pc = "wait" /\ (closing => waitWhy = "destroy")
    BY <1>3 DEF WaitEnds, WaitState, ClosingState
  <2> QED
    BY <2>1, <2>2, <2>3 DEF WaitState, DestroyState, ClosingState, Loaded, queueVars, flagVars, objectVars
<1>4. CASE DrainEnds
  <2>1. UNCHANGED <<queueVars, flagVars, objectVars, loadFrom, closing>>
    BY <1>4 DEF DrainEnds, Await, OnlyMain
  <2>2. /\ pc' = (IF closing THEN "down" ELSE "idle") /\ waitFor' = None /\ waitWhy' = "none"
        /\ closing => alive = {} /\ ~readerRunning
    BY <1>4 DEF DrainEnds, DrainOver, Await, WaitState, ClosingState
  <2> QED
    BY <2>1, <2>2 DEF WaitState, DestroyState, ClosingState, queueVars, objectVars
<1>5. CASE ShutdownDrain
  <2>1. /\ pc' = "drain" /\ waitFor' = None /\ waitWhy' = "all" /\ alive = {}
        /\ UNCHANGED <<alive, readerRunning, closing>>
    BY <1>5 DEF ShutdownDrain, Await, OnlyMain, objectVars, queueVars
  <2> QED
    BY <2>1 DEF WaitState, DestroyState, ClosingState
<1>6. CASE CreatedAsync
  <2>1. /\ pc = "created" /\ pc' \in {"idle", "destroy"} /\ waitWhy = "none" /\ ~closing
        /\ UNCHANGED <<waitFor, waitWhy, closing>>
    BY <1>6 DEF CreatedAsync, waitVars, WaitState, ClosingState
  <2> QED
    BY <2>1 DEF WaitState, DestroyState, ClosingState
<1>7. CASE DestroyUnload
  <2>1. /\ loading \in alive /\ loading # None /\ loading \in Textures
    BY <1>7, ParametersAssumption DEF DestroyUnload, Life, CallState, Pairing, CallPart, CallTarget
  <2>2. /\ pc = "destroy" /\ pc' = "prioritize" /\ waitFor' = loading /\ waitWhy' = "destroy"
        /\ UNCHANGED <<alive, queued, readerRunning, closing>>
        /\ gpu'[loading] = None /\ dataAsync'[loading] = None
        /\ loading \in queued => loading \in discarded'
    BY <1>7, <2>1 DEF DestroyUnload, DropTexture, queueVars, Life, Pairing, TexturePart, TextureTypes
  <2> QED
    BY <2>1, <2>2 DEF WaitState, DestroyState, ClosingState, Loaded
<1>8. CASE FreeTexture
  <2>1. /\ pc = "free" /\ pc' = (IF closing THEN "closing" ELSE "idle")
        /\ waitFor' = None /\ waitWhy' = "none" /\ UNCHANGED closing
    BY <1>8 DEF FreeTexture
  <2> QED
    BY <2>1 DEF WaitState, DestroyState, ClosingState
<1>9. CASE LoadFileMissing \/ LoadUploadFails \/ LoadUploads
  <2>1. PICK result \in BOOLEAN : LoadReturns(result)
    BY <1>9 DEF LoadFileMissing, LoadUploadFails, LoadUploads
  <2>2. pc = "load" /\ readerRunning' = readerRunning
    BY <1>9, <2>1 DEF LoadFileMissing, LoadUploadFails, LoadUploads, LoadReturns, queueVars
  <2>3. ASSUME waitWhy = "destroy" PROVE UNCHANGED <<gpu[waitFor], dataAsync[waitFor]>>
    <3>1. waitFor \in Textures /\ waitFor # loading
      BY <2>2, <2>3 DEF DestroyState, Life, Pairing, TexturePart, TextureTypes
    <3>2. /\ gpu' = gpu \/ \E image : gpu' = [gpu EXCEPT ![loading] = image]
          /\ dataAsync' = dataAsync \/ dataAsync' = [dataAsync EXCEPT ![loading] = None]
      BY <1>9 DEF LoadFileMissing, LoadUploadFails, LoadUploads
    <3>3. waitFor' = waitFor
      BY <2>1 DEF LoadReturns, waitVars
    <3>4. gpu'[waitFor] = gpu[waitFor]
      BY <3>1, <3>2 DEF Life, Pairing, TexturePart, TextureTypes
    <3>5. dataAsync'[waitFor] = dataAsync[waitFor]
      BY <3>1, <3>2 DEF Life, Pairing, TexturePart, TextureTypes
    <3> QED
      BY <3>3, <3>4, <3>5
  <2> QED
    BY <2>1, <2>2, <2>3, LoadReturnsCalls
<1>10. CASE PrioritizeLoad
  <2>1. /\ pc = "prioritize" /\ pc' = "wait"
        /\ UNCHANGED <<flagVars, objectVars, readerRunning, loadFrom, waitVars>>
    BY <1>10 DEF PrioritizeLoad
  <2> QED
    BY <2>1 DEF WaitState, DestroyState, ClosingState, Loaded, flagVars, objectVars, waitVars
<1>11. CASE Update
  <2>1. /\ pc = "update" /\ pc' = "visit"
        /\ UNCHANGED <<flagVars, objectVars, loadFrom, waitVars>>
    BY <1>11 DEF Update
  <2> QED
    BY <2>1 DEF WaitState, DestroyState, ClosingState, Loaded, flagVars, objectVars, waitVars
<1>12. CASE \E t \in Textures : UpdateSkips(t)
  BY <1>12 DEF UpdateSkips, WaitState, DestroyState, ClosingState, Loaded, queueVars, flagVars, objectVars,
               callVars, waitVars
<1>13. CASE UpdateEnds
  <2>1. /\ pc = "visit" /\ UNCHANGED <<queueVars, flagVars, objectVars, loadFrom, waitVars>>
        /\ \/ waitFor # None /\ pc' = "wait"
           \/ waitFor = None /\ waitWhy = "all" /\ pc' = "drain"
           \/ waitFor = None /\ waitWhy # "all" /\ pc' = "idle"
    <3>1. /\ waitFor # None => pc' = "wait"
          /\ waitFor = None /\ waitWhy = "all" => pc' = "drain"
          /\ waitFor = None /\ waitWhy # "all" => pc' = "idle"
      <4>1. pc' = CASE waitFor # None -> "wait"
                    [] waitWhy = "all" -> "drain"
                    [] OTHER -> "idle"
        BY <1>13 DEF UpdateEnds
      <4>2. waitFor # None => waitWhy # "all"
        BY DEF WaitState
      <4> QED
        BY <4>1, <4>2
    <3> QED
      BY <1>13, <3>1 DEF UpdateEnds
  <2>2. waitWhy \in {"none", "load", "user", "destroy", "all"}
    BY DEF Life, Pairing, CallPart, MainTypes
  <2> QED
    BY <2>1, <2>2 DEF WaitState, DestroyState, ClosingState, Loaded, queueVars, flagVars, objectVars, waitVars
<1>14. ASSUME NEW t \in Textures, UpdateUploads(t) PROVE Calls'
  <2>1. /\ t \in alive /\ pc = "visit" /\ t \notin queued /\ dataAsync[t] # None
        /\ StartLoad(t, "update")
    BY <1>14 DEF UpdateUploads, ReadyForUpload, Life, FlagsConsistent
  <2> HIDE DEF Calls
  <2> QED
    BY <2>1, StartLoadCalls
<1> QED
  BY <1>1, <1>2, <1>3, <1>4, <1>5, <1>6, <1>7, <1>8, <1>9, <1>10, <1>11, <1>12, <1>13, <1>14
     DEF MainContinues

(* The loader threads leave the calls alone: for a texture that is being   *)
(* deleted no image is handed over, its load was discarded.                *)
LEMMA CallsLoaders ==
    ASSUME Life, Calls, ReaderSteps \/ \E d \in Decoders : DecoderSteps(d)
    PROVE  Calls'
PROOF
<1>1. ASSUME NEW t, ClearFlags(t)
      PROVE  /\ queued' \subseteq queued
             /\ \A u : u \in queued' /\ u \in discarded => u \in discarded'
  BY <1>1 DEF ClearFlags
<1>2. CASE ReaderSteps
  <2>1. UNCHANGED <<readerRunning, dataAsync, objectVars, mainVars>>
    BY <1>2 DEF ReaderSteps, ReaderPick, ReaderFull, ReaderIdles, ReaderCancels,
         ReaderReads, ReaderAppends, ReaderRemoves, ReaderSpawns, ReaderJoins, ReaderGoto
  <2>2. \/ ClearFlags(readerTex)
        \/ UNCHANGED <<queued, discarded>>
    BY <1>2 DEF ReaderSteps, ReaderPick, ReaderFull, ReaderIdles, ReaderCancels,
         ReaderReads, ReaderAppends, ReaderRemoves, ReaderSpawns, ReaderJoins
  <2> QED
    BY <1>1, <2>1, <2>2, CallsStutter DEF objectVars
<1>3. ASSUME NEW d \in Decoders, DecoderSteps(d) PROVE Calls'
  <2>1. UNCHANGED <<readerRunning, alive, gpu, mainVars>>
    BY <1>3 DEF DecoderSteps, DecoderTakes, DecoderDone, DecoderGivesUp, DecoderStarts,
         DecoderDecodes, DecoderPublishes, DecoderNext, DecoderGoto
  <2>2. \/ ClearFlags(decoderTex[d])
        \/ UNCHANGED <<queued, discarded>>
    BY <1>3 DEF DecoderSteps, DecoderTakes, DecoderDone, DecoderGivesUp, DecoderStarts,
         DecoderDecodes, DecoderPublishes, DecoderNext, flagVars
  <2>3. ASSUME waitWhy = "destroy" PROVE dataAsync'[waitFor] = dataAsync[waitFor]
    <3>1. waitFor \in queued => waitFor \in discarded
      BY <2>3 DEF Calls, DestroyState
    <3>2. CASE DecoderPublishes(d)
      <4>1. decoderTex[d] \in queued /\ decoderTex[d] \in Textures
        BY <3>2 DEF DecoderPublishes, Decoding, Life, Ownership, Pairing, LoaderPart, DecoderPaired
      <4>2. decoderTex[d] = waitFor => ~Wanted(decoderTex[d])
        BY <3>1, <4>1 DEF Wanted, Cancelled
      <4> QED
        BY <3>2, <4>1, <4>2 DEF DecoderPublishes, Life, Pairing, TexturePart, TextureTypes
    <3>3. CASE ~DecoderPublishes(d)
      BY <1>3, <3>3 DEF DecoderSteps, DecoderTakes, DecoderDone, DecoderGivesUp, DecoderStarts,
         DecoderDecodes, flagVars
    <3> QED
      BY <3>2, <3>3
  <2> QED
    BY <1>1, <2>1, <2>2, <2>3, CallsStutter
<1> QED
  BY <1>2, <1>3

LEMMA CallsStep == Life /\ Calls /\ [Next]_vars => Calls'
PROOF
<1> SUFFICES ASSUME Life, Calls, [Next]_vars PROVE Calls'
  OBVIOUS
<1>1. CASE WaitForAsyncTextures \/ Shutdown \/ Frame
  <2>1. /\ pc = "idle" /\ UNCHANGED <<queueVars, flagVars, objectVars, loadFrom, waitFor>>
        /\ \/ pc' = "drain" /\ waitWhy' = "all" /\ closing' = closing /\ waitFor' = None
           \/ pc' = "closing" /\ closing' /\ waitWhy' = waitWhy
           \/ pc' = "update" /\ waitWhy' = waitWhy /\ closing' = closing
    BY <1>1 DEF WaitForAsyncTextures, Shutdown, Frame, Await, Goto, OnlyMain, waitVars, Calls, WaitState
  <2> QED
    BY <2>1 DEF Calls, WaitState, DestroyState, ClosingState, objectVars
<1>2. CASE Terminated \/ UNCHANGED vars
  BY <1>2, CallsStutter DEF Terminated, vars, objectVars, queueVars, flagVars
<1> QED
  BY <1>1, <1>2, CallsAppCalls, CallsMainContinues, CallsLoaders DEF Next

(* The call that waits or destroys holds what Calls says of the queue and  *)
(* of the loader threads, beside Life and Waiting.                         *)
THEOREM CallsInvariant == Spec => [](Life /\ Waiting /\ Calls)
PROOF
<1> QED
  BY CallsInit, CallsStep, LifeInvariant, WaitingInvariant, PTL DEF Spec

(* After april::destroy() no thread is left, nothing is queued and no      *)
(* texture exists, whatever was being loaded when it was called.           *)
THEOREM ShutdownLeavesNothing == Spec => []ShutdownQuiescent
PROOF
<1>1. ASSUME Life, Waiting, Calls PROVE ShutdownQuiescent
  <2>1. SUFFICES ASSUME pc = "down"
                 PROVE  /\ reader = "off" /\ DecoderThreads = {}
                        /\ queue = <<>> /\ streams = <<>> /\ alive = {}
    BY DEF ShutdownQuiescent
  <2>2. alive = {} /\ reader = "off"
    BY <1>1, <2>1 DEF Calls, ClosingState, Life, Ownership
  <2>3. streams = <<>> /\ DecoderThreads = {}
    BY <1>1, <2>2 DEF Waiting
  <2>4. \A t \in Textures : ~Contains(queue, t)
    BY <1>1, <2>2 DEF Life, Ownership, FlagsConsistent
  <2>5. queue = <<>>
    <3>1. queue \in Seq(Textures)
      BY <1>1 DEF Life, Pairing, LoaderPart, QueueTypes
    <3>2. Len(queue) # 0 => queue[1] \in Textures /\ 1 \in 1..Len(queue)
      BY <3>1
    <3> QED
      BY <2>4, <3>1, <3>2, EmptySeq DEF Contains
  <2> QED
    BY <2>2, <2>3, <2>5
<1> QED
  BY <1>1, CallsInvariant, PTL

-----------------------------------------------------------------------------
(* Nothing overtakes the texture that is waited for.                       *)

(* The texture is not behind another one whose file is still to be read.   *)
ComesNext(q, s, t) == \A i \in 1..Len(q) : q[i] = t => i <= Len(s) + 1

(* prioritizeLoad() was called for the texture that waitForAsyncLoad()     *)
(* waits for, and what other threads do to the queue since then leaves its *)
(* place alone, the uploads of update() included.                          *)
WaitedForIsNext ==
    waitFor # None /\ pc \notin {"prioritize", "free"} => ComesNext(queue, streams, waitFor)

LEMMA PrioritizedComesNext ==
    ASSUME Paired(queue, streams), NEW index \in 1..Len(queue), Prioritized(index)
    PROVE  ComesNext(queue', streams', queue[index])
PROOF
<1>1. /\ queue \in Seq(Textures) /\ Len(queue) \in Nat
      /\ Len(streams) \in Nat /\ Len(streams) <= Len(queue) /\ index \in Nat
  BY DEF Paired
<1>2. Len(streams') = Len(streams)
  BY PrioritizedLength
<1>3. PICK to \in 1..index : queue' = MoveUp(index, to) /\ to <= Len(streams) + 1
  BY <1>1, 1 \in 1..index, index > Len(streams) => Len(streams) + 1 \in 1..index DEF Prioritized
<1>4. Len(queue') = Len(queue) /\ queue'[to] = queue[index] /\ to \in 1..Len(queue)
  <2>1. to \in 1..Len(queue) /\ ~(to < to \/ to > index)
    BY <1>1
  <2>2. /\ Len(queue') = Len(queue)
        /\ \A k \in 1..Len(queue) :
              queue'[k] = IF k < to \/ k > index THEN queue[k]
                          ELSE IF k = to THEN queue[index] ELSE queue[k - 1]
    BY <1>1, <1>3, MoveUpProperties, ZenonT(60)
  <2> QED
    BY <2>1, <2>2, ZenonT(60)
<1>5. Injective(queue')
  BY PrioritizedPaired DEF Paired
<1>6. ASSUME NEW i \in 1..Len(queue'), queue'[i] = queue[index] PROVE i = to
  BY <1>4, <1>5, <1>6 DEF Injective
<1> QED
  BY <1>2, <1>3, <1>6 DEF ComesNext

(* A texture that the reader puts back in front of those not read yet      *)
(* pushes others back by one place, and there is one stream more.          *)
LEMMA PlaceStreamComesNext ==
    ASSUME Paired(queue, streams), NEW t, Unread(queue, streams, t), PlaceStream(t, IndexOf(t)),
           NEW u, ComesNext(queue, streams, u)
    PROVE  ComesNext(queue', streams', u)
PROOF
<1>1. /\ queue \in Seq(Textures) /\ Len(queue) \in Nat /\ Injective(queue)
      /\ streams \in Seq(Textures) /\ Len(streams) \in Nat /\ Len(streams) <= Len(queue)
  BY DEF Paired
<1> DEFINE to == Len(streams) + 1
<1>2. PICK i \in to..Len(queue) : queue[i] = t
  BY DEF Unread
<1>3. IndexOf(t) = i /\ i \in 1..Len(queue) /\ to \in 1..i
  BY <1>1, <1>2, IndexOfProperties
<1>4. queue' = MoveUp(i, to) /\ streams' = Append(streams, t)
  BY <1>1, <1>2, <1>3 DEF PlaceStream
<1>5. Len(streams') = to
  BY <1>1, <1>4
<1> HIDE DEF to
<1>6. /\ Len(queue') = Len(queue)
      /\ \A k \in 1..Len(queue) :
            queue'[k] = IF k < to \/ k > i THEN queue[k]
                        ELSE IF k = to THEN queue[i] ELSE queue[k - 1]
  BY <1>1, <1>3, <1>4, MoveUpProperties, ZenonT(60)
<1>7. ASSUME NEW k \in 1..Len(queue'), queue'[k] = u PROVE k <= to + 1
  <2>1. /\ k \in 1..Len(queue) /\ to \in Nat /\ to >= 1 /\ i \in Nat
        /\ \A j \in 1..Len(queue) : queue[j] = u => j <= to
    BY <1>1, <1>3, <1>6, <1>7 DEF ComesNext, to
  <2>2. CASE k > i
    BY <1>6, <1>7, <2>1, <2>2
  <2>3. CASE k > to /\ k <= i
    <3>1. ~(k < to \/ k > i) /\ k # to /\ k - 1 \in 1..Len(queue)
      BY <1>1, <2>1, <2>3
    <3>2. queue[k - 1] = u
      BY <1>6, <1>7, <2>1, <3>1, ZenonT(60)
    <3> QED
      BY <2>1, <3>1, <3>2
  <2> QED
    BY <2>1, <2>2, <2>3
<1> QED
  BY <1>5, <1>7 DEF ComesNext

LEMMA RemoveComesNext ==
    ASSUME Paired(queue, streams), NEW t, Unread(queue, streams, t),
           NEW u, ComesNext(queue, streams, u)
    PROVE  ComesNext(RemoveAt(queue, IndexOf(t)), streams, u)
PROOF
<1>1. /\ queue \in Seq(Textures) /\ Len(queue) \in Nat /\ Injective(queue) /\ Len(streams) \in Nat
  BY DEF Paired
<1>2. PICK i \in (Len(streams) + 1)..Len(queue) : queue[i] = t
  BY DEF Unread
<1>3. IndexOf(t) = i /\ i \in 1..Len(queue)
  BY <1>1, <1>2, IndexOfProperties
<1> DEFINE rest == RemoveAt(queue, i)
<1>4. /\ Len(rest) = Len(queue) - 1
      /\ \A k \in 1..(Len(queue) - 1) :
            rest[k] = IF k < i THEN queue[k] ELSE queue[k + 1]
  BY <1>1, <1>3, RemoveAtProperties
<1> HIDE DEF rest
<1>5. ASSUME NEW k \in 1..Len(rest), rest[k] = u PROVE k <= Len(streams) + 1
  BY <1>1, <1>3, <1>4, <1>5 DEF ComesNext
<1> QED
  BY <1>3, <1>5 DEF ComesNext, rest

LEMMA TailComesNext ==
    ASSUME NEW q, NEW s, Paired(q, s), s # <<>>, NEW u, ComesNext(q, s, u)
    PROVE  ComesNext(Tail(q), Tail(s), u)
PROOF
<1>1. /\ q \in Seq(Textures) /\ q # <<>> /\ Len(q) \in Nat
      /\ s \in Seq(Textures) /\ Len(s) \in Nat
  BY TailPaired DEF Paired
<1>2. /\ Len(Tail(q)) = Len(q) - 1 /\ Len(Tail(s)) = Len(s) - 1
      /\ \A k \in 1..(Len(q) - 1) : Tail(q)[k] = q[k + 1]
  BY <1>1, HeadTailProperties
<1>3. ASSUME NEW k \in 1..Len(Tail(q)), Tail(q)[k] = u PROVE k <= Len(Tail(s)) + 1
  <2>1. k + 1 \in 1..Len(q) /\ q[k + 1] = u
    BY <1>1, <1>2, <1>3
  <2>2. k + 1 <= Len(s) + 1
    BY <2>1 DEF ComesNext
  <2> QED
    BY <1>1, <1>2, <1>3, <2>2
<1> QED
  BY <1>3 DEF ComesNext

(* The main thread adds to the queue only while it waits for nothing, and  *)
(* rearranges it only for the texture it is about to wait for.             *)
LEMMA WaitedForMain ==
    ASSUME Life, Calls, WaitedForIsNext,
           \/ \E t \in Textures : AppCalls(t)
           \/ WaitForAsyncTextures \/ Shutdown \/ Frame \/ MainContinues
           \/ Terminated \/ UNCHANGED vars
    PROVE  WaitedForIsNext'
PROOF
<1>1. pc \in {"idle", "created"} => waitFor = None
  BY DEF Calls, WaitState
<1>2. CASE waitFor' = None \/ pc' \in {"prioritize", "free"}
  BY <1>2 DEF WaitedForIsNext
<1>3. CASE UNCHANGED <<queue, streams, waitFor>> /\ pc \notin {"prioritize", "free"}
  BY <1>3 DEF WaitedForIsNext
<1>4. CASE PrioritizeLoad
  <2>1. waitFor' = waitFor
    BY <1>4 DEF PrioritizeLoad, waitVars
  <2>2. CASE Contains(queue, waitFor)
    <3>1. Paired(queue, streams) /\ Injective(queue) /\ queue \in Seq(Textures)
      BY DEF Life, Pairing, LoaderPart, Paired
    <3>2. PICK i \in 1..Len(queue) : queue[i] = waitFor
      BY <2>2 DEF Contains
    <3>3. IndexOf(waitFor) = i
      BY <3>1, <3>2, IndexOfProperties
    <3>4. Prioritized(i)
      BY <1>4, <2>2, <3>3 DEF PrioritizeLoad
    <3> QED
      BY <2>1, <3>1, <3>2, <3>4, PrioritizedComesNext DEF WaitedForIsNext
  <2>3. CASE ~Contains(queue, waitFor)
    BY <1>4, <2>1, <2>3 DEF PrioritizeLoad, WaitedForIsNext, ComesNext, Contains
  <2> QED
    BY <2>2, <2>3
<1>5. ASSUME NEW t \in Textures, AppCalls(t) PROVE WaitedForIsNext'
  <2>1. CASE LoadAsync(t)
    BY <1>1, <1>2, <2>1 DEF LoadAsync, mainVars, waitVars
  <2>2. CASE ~LoadAsync(t)
    <3>1. pc \notin {"prioritize", "free"} /\ UNCHANGED <<queue, streams>>
      BY <1>5, <2>2
         DEF AppCalls, CreateTexture, DestroyTexture, Load, Unload, LoadMetaData, WaitForAsyncLoad,
             LowMemoryUnload, StartLoad, DropTexture, Call, Await, OnlyMain, queueVars
    <3>2. waitFor' = waitFor \/ pc' = "prioritize"
      BY <1>5, <2>2
         DEF AppCalls, CreateTexture, DestroyTexture, Load, Unload, LoadMetaData, WaitForAsyncLoad,
             LowMemoryUnload, StartLoad, DropTexture, Call, Await, OnlyMain, mainVars, waitVars
    <3> QED
      BY <1>2, <1>3, <3>1, <3>2
  <2> QED
    BY <2>1, <2>2
<1>6. CASE WaitForAsyncTextures \/ Shutdown \/ Frame
  BY <1>1, <1>2, <1>6 DEF WaitForAsyncTextures, Shutdown, Frame, Await, Goto, waitVars
<1>7. CASE Terminated \/ UNCHANGED vars
  BY <1>7 DEF Terminated, vars, queueVars, mainVars, callVars, waitVars, WaitedForIsNext
<1>8. CASE MainContinues /\ ~PrioritizeLoad
  <2>1. CASE CreatedImmediate \/ CreatedAsync \/ CreatedOnDemand
    BY <1>1, <1>2, <2>1 DEF CreatedImmediate, CreatedAsync, CreatedOnDemand, StartLoad, Call, waitVars
  <2>2. CASE FreeTexture \/ DestroyUnload \/ DrainEnds \/ ShutdownDrain
    BY <1>2, <2>2 DEF FreeTexture, DestroyUnload, DrainEnds, ShutdownDrain, Await
  <2>3. CASE WaitEnds
    BY <1>2, <2>3 DEF WaitEnds, Goto, Await
  <2>4. CASE \E t \in Textures : UpdateUploads(t)
    BY <1>2, <1>3, <2>4 DEF UpdateUploads, StartLoad, queueVars, waitVars
  <2>5. CASE LoadFileMissing \/ LoadUploadFails \/ LoadUploads
    BY <1>3, <2>5 DEF LoadFileMissing, LoadUploadFails, LoadUploads, LoadReturns, queueVars, waitVars
  <2>6. CASE \/ WaitAgain \/ DrainAgain \/ Update \/ UpdateEnds
             \/ \E t \in Textures : ShutdownDelete(t) \/ UpdateSkips(t)
    BY <1>3, <2>6
       DEF WaitAgain, DrainAgain, Update, UpdateEnds, ShutdownDelete, UpdateSkips, Goto, Call,
           OnlyMain, queueVars, callVars, waitVars
  <2> QED
    BY <1>8, <2>1, <2>2, <2>3, <2>4, <2>5, <2>6 DEF MainContinues
<1> QED
  BY <1>4, <1>5, <1>6, <1>7, <1>8

LEMMA WaitedForLoaders ==
    ASSUME Life, WaitedForIsNext, ReaderSteps \/ \E d \in Decoders : DecoderSteps(d)
    PROVE  WaitedForIsNext'
PROOF
<1>1. waitFor' = waitFor /\ pc' = pc
  BY DEF ReaderSteps, ReaderPick, ReaderFull, ReaderIdles, ReaderCancels, ReaderReads, ReaderAppends,
         ReaderRemoves, ReaderSpawns, ReaderJoins, ReaderGoto, DecoderSteps, DecoderTakes,
         DecoderDone, DecoderGivesUp, DecoderStarts, DecoderDecodes, DecoderPublishes,
         DecoderNext, DecoderGoto, mainVars, callVars, waitVars
<1>2. Paired(queue, streams)
  BY DEF Life, Pairing, LoaderPart
<1>3. SUFFICES ASSUME ComesNext(queue, streams, waitFor)
               PROVE  ComesNext(queue', streams', waitFor)
  BY <1>1 DEF WaitedForIsNext
<1>4. CASE UNCHANGED <<queue, streams>>
  BY <1>3, <1>4
<1>5. CASE ReaderSteps
  <2>1. CASE ReaderAppends
    <3>1. Unread(queue, streams, readerTex) /\ PlaceStream(readerTex, IndexOf(readerTex))
      BY <2>1 DEF ReaderAppends, Life, Pairing, LoaderPart, ReaderHasPlace
    <3> QED
      BY <1>2, <1>3, <3>1, PlaceStreamComesNext
  <2>2. CASE ReaderRemoves
    <3>1. /\ Unread(queue, streams, readerTex) /\ streams' = streams
          /\ queue' = RemoveAt(queue, IndexOf(readerTex))
      BY <2>2 DEF ReaderRemoves, Life, Pairing, LoaderPart, ReaderHasPlace
    <3> QED
      BY <1>2, <1>3, <3>1, RemoveComesNext
  <2> QED
    BY <1>4, <1>5, <2>1, <2>2
       DEF ReaderSteps, ReaderPick, ReaderFull, ReaderIdles, ReaderCancels, ReaderReads,
           ReaderSpawns, ReaderJoins
<1>6. ASSUME NEW d \in Decoders, DecoderSteps(d) PROVE ComesNext(queue', streams', waitFor)
  <2>1. CASE DecoderTakes(d)
    BY <1>2, <1>3, <2>1, TailComesNext DEF DecoderTakes
  <2> QED
    BY <1>4, <1>6, <2>1
       DEF DecoderSteps, DecoderDone, DecoderGivesUp, DecoderStarts, DecoderDecodes,
           DecoderPublishes, DecoderNext
<1> QED
  BY <1>5, <1>6

(* While load(), waitForAsyncLoad() or ~Texture() waits for a texture, its *)
(* file was read or is the next one the reader will read: whatever else    *)
(* is queued, read, cancelled, decoded or uploaded by the update() inside  *)
(* the wait, nothing overtakes it (prioritizeLoad(), _read(), _decode()).  *)
THEOREM WaitedForComesNext == Spec => []WaitedForIsNext
PROOF
<1>1. Init => WaitedForIsNext
  BY DEF Init, WaitedForIsNext
<1>2. Life /\ Calls /\ WaitedForIsNext /\ [Next]_vars => WaitedForIsNext'
  BY WaitedForMain, WaitedForLoaders DEF Next
<1> QED
  BY <1>1, <1>2, CallsInvariant, PTL DEF Spec

-----------------------------------------------------------------------------
(* The loader implements AsyncLoading.                                     *)

LoadedAlive == \A t \in Textures : Loaded(t) => t \in alive

(* A step leaves what the promise is about of a texture alone ...          *)
Untouched(u) ==
    /\ u \in alive' <=> u \in alive
    /\ gpu'[u] = gpu[u] /\ dataAsync'[u] = dataAsync[u]
    /\ u \in queued' \ discarded' <=> u \in queued \ discarded

(* ... or gives it up, deletes it, requests its image, hands that over or  *)
(* uploads it.                                                             *)
Bare(t) == t \in alive /\ ~Loaded(t) /\ dataAsync[t] = None
Asked(t) == t \in queued /\ t \notin discarded

Moved(t) ==
    \/ Bare(t)' /\ ~Asked(t)'
    \/ Bare(t) /\ ~Asked(t) /\ t \notin alive' /\ ~Loaded(t)'
    \/ Bare(t) /\ Bare(t)' /\ Asked(t)'
    \/ Bare(t) /\ Asked(t) /\ t \in alive' /\ ~Loaded(t)' /\ dataAsync'[t] # None
    \/ t \in alive /\ ~Loaded(t) /\ t \notin queued /\ t \in alive' /\ Loaded(t)'

OneMoves ==
    \/ \A u \in Textures : Untouched(u)
    \/ \E t \in Textures : (\A u \in Textures \ {t} : Untouched(u)) /\ Moved(t)

(* Once more typed, for the steps below.                                   *)
LEMMA TextureState ==
    ASSUME Life
    PROVE  /\ alive \subseteq Textures /\ queued \subseteq alive /\ discarded \subseteq queued
           /\ gpu \in [Textures -> Image \cup {Blank}] /\ dataAsync \in [Textures -> Image]
           /\ \A t \in queued : dataAsync[t] = None /\ ~Loaded(t)
           /\ \A t \in Textures : dataAsync[t] # None => t \in alive /\ ~Loaded(t)
BY DEF Life, Pairing, TexturePart, TextureTypes, FlagsConsistent

LEMMA LoadAsyncMoves ==
    ASSUME Life, NEW t \in alive, LoadAsyncAccepted(t)
    PROVE  OneMoves
PROOF
<1>1. t \in Textures /\ Bare(t)
  BY TextureState DEF LoadAsyncAccepted, MayLoadAsync, Bare
<1>2. UNCHANGED <<alive, gpu, dataAsync>>
  BY DEF LoadAsyncAccepted, objectVars
<1>3. discarded' = discarded \ {t} /\ queued' = queued \cup {t}
  BY DEF LoadAsyncAccepted
<1>4. Moved(t)
  BY <1>1, <1>2, <1>3 DEF Moved, Bare, Asked, Loaded
<1>5. \A u \in Textures \ {t} : Untouched(u)
  BY <1>2, <1>3 DEF Untouched
<1> QED
  BY <1>1, <1>4, <1>5 DEF OneMoves

LEMMA StartLoadMoves ==
    ASSUME Life, NEW t \in alive, NEW from, StartLoad(t, from)
    PROVE  OneMoves
PROOF
<1>1. t \in Textures /\ t \in alive /\ ~Loaded(t)
  BY TextureState DEF StartLoad
<1>2. UNCHANGED <<alive, gpu, dataAsync, queued>> /\ discarded' = discarded \ {t}
  BY DEF StartLoad, objectVars
<1>3. \A u \in Textures \ {t} : Untouched(u)
  BY <1>2 DEF Untouched
<1>4. CASE t \in queued
  <2>1. Moved(t)
    BY <1>1, <1>2, <1>4, TextureState DEF Moved, Bare, Asked, Loaded
  <2> QED
    BY <1>1, <1>3, <2>1 DEF OneMoves
<1>5. CASE t \notin queued
  <2>1. Untouched(t)
    BY <1>2, <1>5 DEF Untouched
  <2> QED
    BY <1>3, <2>1 DEF OneMoves
<1> QED
  BY <1>4, <1>5

LEMMA DropTextureMoves ==
    ASSUME Life, NEW t \in alive, DropTexture(t)
    PROVE  OneMoves
PROOF
<1>1. t \in Textures
  BY TextureState
<1>2. /\ UNCHANGED <<alive, queued>> /\ discarded' = discarded \cup ({t} \cap queued)
      /\ gpu'[t] = None /\ dataAsync'[t] = None
      /\ \A u \in Textures \ {t} : gpu'[u] = gpu[u] /\ dataAsync'[u] = dataAsync[u]
  BY <1>1, TextureState DEF DropTexture
<1>3. Moved(t)
  BY <1>1, <1>2 DEF Moved, Bare, Asked, Loaded
<1>4. \A u \in Textures \ {t} : Untouched(u)
  BY <1>2 DEF Untouched
<1> QED
  BY <1>1, <1>3, <1>4 DEF OneMoves

LEMMA AppCallsMove ==
    ASSUME Life, NEW t \in Textures, AppCalls(t)
    PROVE  OneMoves
PROOF
<1>1. CASE CreateTexture(t)
  <2>1. Bare(t)' /\ ~Asked(t)'
    BY <1>1, TextureState DEF CreateTexture, Bare, Asked, Loaded
  <2>2. \A u \in Textures \ {t} : Untouched(u)
    BY <1>1, TextureState DEF CreateTexture, Untouched
  <2> QED
    BY <2>1, <2>2 DEF OneMoves, Moved
<1>2. CASE DestroyTexture(t) \/ WaitForAsyncLoad(t) \/ LoadMetaData(t)
  <2>1. UNCHANGED <<alive, gpu, dataAsync, queued, discarded>>
    BY <1>2 DEF DestroyTexture, WaitForAsyncLoad, LoadMetaData, Call, Await, OnlyMain, flagVars, objectVars
  <2> QED
    BY <2>1 DEF OneMoves, Untouched
<1>3. CASE Load(t)
  BY <1>3, StartLoadMoves DEF Load
<1>4. CASE LoadAsync(t)
  BY <1>4, LoadAsyncMoves DEF LoadAsync
<1>5. CASE Unload(t) \/ LowMemoryUnload(t)
  BY <1>5, DropTextureMoves DEF Unload, LowMemoryUnload
<1> QED
  BY <1>1, <1>2, <1>3, <1>4, <1>5 DEF AppCalls

LEMMA MainContinuesMoves ==
    ASSUME Life, Calls, MainContinues
    PROVE  OneMoves
PROOF
<1>1. CASE UNCHANGED <<alive, gpu, dataAsync, queued, discarded>>
  BY <1>1 DEF OneMoves, Untouched
<1>2. CASE CreatedImmediate
  BY <1>2, StartLoadMoves DEF CreatedImmediate, Life, CallState
<1>3. CASE CreatedOnDemand \/ WaitAgain \/ WaitEnds \/ DrainAgain \/ DrainEnds \/ ShutdownDrain
           \/ PrioritizeLoad \/ Update \/ UpdateEnds
           \/ \E t \in Textures : ShutdownDelete(t) \/ UpdateSkips(t)
  BY <1>1, <1>3
     DEF CreatedOnDemand, WaitAgain, WaitEnds, DrainAgain, DrainEnds, ShutdownDrain, PrioritizeLoad,
         Update, UpdateEnds, ShutdownDelete, UpdateSkips, Goto, Call, Await, OnlyMain, flagVars, objectVars
<1>4. CASE CreatedAsync
  BY <1>1, <1>4, LoadAsyncMoves DEF CreatedAsync, Life, CallState, flagVars, objectVars
<1>5. CASE DestroyUnload
  BY <1>5, DropTextureMoves DEF DestroyUnload, Life, CallState
<1>6. CASE FreeTexture
  <2>1. PICK t \in Textures : t = waitFor /\ Bare(t) /\ t \notin queued
    BY <1>6, TextureState DEF FreeTexture, Calls, WaitState, DestroyState, Bare, Life, CallState
  <2>2. t \notin alive' /\ gpu' = gpu
    BY <1>6, <2>1 DEF FreeTexture
  <2>3. Moved(t)
    BY <2>1, <2>2 DEF Moved, Bare, Asked, Loaded
  <2>4. \A u \in Textures \ {t} : Untouched(u)
    BY <1>6, <2>1, TextureState DEF FreeTexture, Untouched
  <2> QED
    BY <2>1, <2>3, <2>4 DEF OneMoves
<1>7. CASE LoadFileMissing
  BY <1>1, <1>7 DEF LoadFileMissing, LoadReturns
<1>8. CASE LoadUploadFails \/ LoadUploads
  <2>1. PICK t \in Textures : t = loading /\ t \in alive /\ t \notin queued /\ ~Loaded(t)
    BY <1>8, TextureState DEF LoadUploadFails, LoadUploads, Life, CallState
  <2>2. /\ UNCHANGED <<alive, queued, discarded>>
        /\ dataAsync' = [dataAsync EXCEPT ![t] = None]
    BY <1>8, <2>1 DEF LoadUploadFails, LoadUploads, LoadReturns
  <2>3. CASE LoadUploadFails
    <3>1. gpu' = gpu
      BY <2>3 DEF LoadUploadFails
    <3>2. Moved(t)
      BY <2>1, <2>2, <3>1, TextureState DEF Moved, Bare, Asked, Loaded
    <3>3. \A u \in Textures \ {t} : Untouched(u)
      BY <2>1, <2>2, <3>1, TextureState DEF Untouched
    <3> QED
      BY <2>1, <3>2, <3>3 DEF OneMoves
  <2>4. CASE LoadUploads
    <3>1. loading # None /\ Blank # None
      BY <2>1, ParametersAssumption
    <3>2. PICK image : /\ gpu' = [gpu EXCEPT ![t] = image]
                       /\ image = CASE ReadsFile -> loading
                                    [] current # None -> current
                                    [] OTHER -> Blank
      BY <2>1, <2>4 DEF LoadUploads
    <3>3. image # None
      <4>1. ReadsFile => ~(current # None)
        BY DEF ReadsFile
      <4> QED
        BY <3>1, <3>2, <4>1
    <3>4. Moved(t)
      BY <2>1, <2>2, <3>2, <3>3, TextureState DEF Moved, Bare, Asked, Loaded
    <3>5. \A u \in Textures \ {t} : Untouched(u)
      BY <2>1, <2>2, <3>2, TextureState DEF Untouched
    <3> QED
      BY <2>1, <3>4, <3>5 DEF OneMoves
  <2> QED
    BY <1>8, <2>3, <2>4
<1>9. ASSUME NEW t \in Textures, UpdateUploads(t) PROVE OneMoves
  BY <1>9, StartLoadMoves, TextureState DEF UpdateUploads, ReadyForUpload
<1> QED
  BY <1>2, <1>3, <1>4, <1>5, <1>6, <1>7, <1>8, <1>9 DEF MainContinues

LEMMA LoadersMove ==
    ASSUME Life, ReaderSteps \/ \E d \in Decoders : DecoderSteps(d)
    PROVE  OneMoves
PROOF
<1>1. CASE UNCHANGED <<alive, gpu, dataAsync, queued, discarded>>
  BY <1>1 DEF OneMoves, Untouched
<1>2. CASE ReaderCancels
  <2>1. UNCHANGED <<alive, gpu, dataAsync>> /\ ClearFlags(readerTex) /\ Cancelled(readerTex)
    BY <1>2 DEF ReaderCancels, ReaderGoto, objectVars
  <2>2. \A u : u \in queued' \ discarded' <=> u \in queued \ discarded
    BY <2>1 DEF ClearFlags, Cancelled
  <2> QED
    BY <2>1, <2>2 DEF OneMoves, Untouched
<1>3. CASE ReaderSteps /\ ~ReaderCancels
  BY <1>1, <1>3 DEF ReaderSteps, ReaderPick, ReaderFull, ReaderIdles, ReaderReads, ReaderAppends,
         ReaderRemoves, ReaderSpawns, ReaderJoins, ReaderGoto, objectVars
<1>4. ASSUME NEW d \in Decoders, DecoderSteps(d) PROVE OneMoves
  <2>1. CASE DecoderTakes(d) \/ DecoderDone(d) \/ DecoderStarts(d) \/ DecoderDecodes(d)
    BY <1>1, <2>1 DEF DecoderTakes, DecoderDone, DecoderStarts, DecoderDecodes, DecoderGoto, flagVars
  <2>2. CASE DecoderGivesUp(d) \/ DecoderPublishes(d)
    <3>1. decoder[d] \in Decoding
      BY <2>2 DEF DecoderGivesUp, DecoderPublishes, Decoding
    <3>2. PICK t \in Textures : t = decoderTex[d] /\ t = decoderStream[d] /\ t \in queued
      BY <3>1 DEF Life, Pairing, LoaderPart, DecoderPaired, Ownership
    <3>3. Bare(t)
      BY <3>2, TextureState DEF Bare
    <3>4. UNCHANGED <<alive, gpu>> /\ queued' = queued \ {t} /\ discarded' = discarded \ {t}
      BY <2>2, <3>2 DEF DecoderGivesUp, DecoderPublishes, DecoderNext, DecoderGoto, ClearFlags
    <3>5. \/ dataAsync' = dataAsync
          \/ Asked(t) /\ dataAsync' = [dataAsync EXCEPT ![t] = t]
      BY <2>2, <3>2 DEF DecoderGivesUp, DecoderPublishes, Wanted, Cancelled, Asked
    <3>6. t # None
      BY ParametersAssumption
    <3>7. Moved(t)
      <4>1. CASE dataAsync' = dataAsync
        BY <3>3, <3>4, <4>1 DEF Moved, Bare, Asked, Loaded
      <4>2. CASE Asked(t) /\ dataAsync' = [dataAsync EXCEPT ![t] = t]
        BY <3>3, <3>4, <3>6, <4>2, TextureState DEF Moved, Bare, Loaded
      <4> QED
        BY <3>5, <4>1, <4>2
    <3>8. \A u \in Textures \ {t} : Untouched(u)
      BY <3>4, <3>5, TextureState DEF Untouched
    <3> QED
      BY <3>7, <3>8 DEF OneMoves
  <2> QED
    BY <1>4, <2>1, <2>2 DEF DecoderSteps
<1> QED
  BY <1>2, <1>3, <1>4

LEMMA EveryStepMoves == Life /\ Calls /\ [Next]_vars => OneMoves
PROOF
<1> SUFFICES ASSUME Life, Calls, [Next]_vars PROVE OneMoves
  OBVIOUS
<1>1. CASE WaitForAsyncTextures \/ Shutdown \/ Frame \/ Terminated \/ UNCHANGED vars
  <2>1. UNCHANGED <<alive, gpu, dataAsync, queued, discarded>>
    BY <1>1 DEF WaitForAsyncTextures, Shutdown, Frame, Terminated, Await, Goto, OnlyMain, vars, flagVars,
                objectVars
  <2> QED
    BY <2>1 DEF OneMoves, Untouched
<1> QED
  BY <1>1, AppCallsMove, MainContinuesMoves, LoadersMove DEF Next

(* Only a texture that exists is on the GPU.                               *)
LEMMA LoadedAliveStep == LoadedAlive /\ OneMoves => LoadedAlive'
BY DEF LoadedAlive, OneMoves, Untouched, Moved, Bare, Loaded

(* The invariant and the calls in progress together, with the fact that    *)
(* only a texture that exists is on the GPU.                               *)
THEOREM LifeAndCalls == Spec => [](Life /\ Calls /\ LoadedAlive)
PROOF
<1>1. Init => LoadedAlive
  BY DEF Init, LoadedAlive, Loaded
<1> QED
  BY <1>1, LoadedAliveStep, EveryStepMoves, CallsInvariant, PTL DEF Spec

(* The phase of a texture, by its flags.                                   *)
PhaseTold(t) ==
    /\ t \notin alive => Phase(t) = "absent"
    /\ t \in alive /\ Loaded(t) => Phase(t) = "loaded"
    /\ t \in alive /\ dataAsync[t] # None => Phase(t) = "ready"
    /\ Bare(t) /\ Asked(t) => Phase(t) = "pending"
    /\ Bare(t) /\ ~Asked(t) => Phase(t) = "idle"

PhasesTold == \A t \in Textures : PhaseTold(t)

LEMMA PhaseByFlags == Life /\ LoadedAlive => PhasesTold
PROOF
<1> SUFFICES ASSUME Life, LoadedAlive, NEW t \in Textures PROVE PhaseTold(t)
  BY DEF PhasesTold
<1>1. /\ Loaded(t) => t \in alive
      /\ dataAsync[t] # None => t \in alive /\ ~Loaded(t)
      /\ Asked(t) => Bare(t)
  BY TextureState DEF LoadedAlive, Asked, Bare
<1> QED
  BY <1>1 DEF PhaseTold, Phase, Bare, Asked

LEMMA PhaseByFlagsAfter == (Life /\ LoadedAlive)' => PhasesTold'
BY PhaseByFlags, PTL

(* What a step does to the phase of a texture.                             *)
MovesPhase(t) ==
    \/ Phase(t)' = "idle"
    \/ Phase(t) = "idle" /\ Phase(t)' \in {"absent", "pending", "loaded"}
    \/ Phase(t) = "pending" /\ Phase(t)' \in {"pending", "ready"}
    \/ Phase(t) = "ready" /\ Phase(t)' = "loaded"

LEMMA UntouchedKeepsPhase ==
    ASSUME Life, LoadedAlive, (Life /\ LoadedAlive)', NEW t \in Textures, Untouched(t)
    PROVE  Phase(t)' = Phase(t)
PROOF
<1>1. PhaseTold(t)
  BY PhaseByFlags DEF PhasesTold
<1>2. PhaseTold(t)'
  BY PhaseByFlagsAfter DEF PhasesTold
<1> QED
  BY <1>1, <1>2 DEF PhaseTold, Untouched, Bare, Asked, Loaded

LEMMA MovedMovesPhase ==
    ASSUME Life, LoadedAlive, (Life /\ LoadedAlive)', NEW t \in Textures, Moved(t)
    PROVE  MovesPhase(t)
PROOF
<1>1. /\ t \in alive /\ dataAsync[t] # None => Phase(t) = "ready"
      /\ Bare(t) /\ Asked(t) => Phase(t) = "pending"
      /\ Bare(t) /\ ~Asked(t) => Phase(t) = "idle"
  BY PhaseByFlags DEF PhasesTold, PhaseTold
<1>2. PhaseTold(t)'
  BY PhaseByFlagsAfter DEF PhasesTold
<1>3. /\ t \notin alive' => Phase(t)' = "absent"
      /\ t \in alive' /\ Loaded(t)' => Phase(t)' = "loaded"
      /\ t \in alive' /\ dataAsync'[t] # None => Phase(t)' = "ready"
      /\ Bare(t)' /\ Asked(t)' => Phase(t)' = "pending"
      /\ Bare(t)' /\ ~Asked(t)' => Phase(t)' = "idle"
  BY <1>2 DEF PhaseTold
<1>4. CASE Bare(t)' /\ ~Asked(t)'
  BY <1>3, <1>4 DEF MovesPhase
<1>5. CASE Bare(t) /\ ~Asked(t) /\ t \notin alive' /\ ~Loaded(t)'
  BY <1>1, <1>3, <1>5 DEF MovesPhase
<1>6. CASE Bare(t) /\ Bare(t)' /\ Asked(t)'
  BY <1>1, <1>3, <1>6 DEF MovesPhase
<1>7. CASE Bare(t) /\ Asked(t) /\ t \in alive' /\ ~Loaded(t)' /\ dataAsync'[t] # None
  BY <1>1, <1>3, <1>7 DEF MovesPhase
<1>8. CASE t \in alive /\ ~Loaded(t) /\ t \notin queued /\ t \in alive' /\ Loaded(t)'
  BY <1>1, <1>3, <1>8 DEF MovesPhase, Bare, Asked
<1> QED
  BY <1>4, <1>5, <1>6, <1>7, <1>8 DEF Moved

Phased == [t \in Textures |-> Phase(t)]

LEMMA PromiseInit == Init /\ Life /\ LoadedAlive => Promise!Init
PROOF
<1> SUFFICES ASSUME Init, Life, LoadedAlive PROVE Promise!Init
  OBVIOUS
<1>1. \A t \in Textures : Phase(t) = "absent"
  BY PhaseByFlags DEF PhasesTold, PhaseTold, Init
<1> QED
  BY <1>1 DEF Promise!Init

LEMMA PromiseStep ==
    Life /\ LoadedAlive /\ (Life /\ LoadedAlive)' /\ OneMoves => [Promise!Next]_Phased
PROOF
<1> SUFFICES ASSUME Life, LoadedAlive, (Life /\ LoadedAlive)', OneMoves PROVE [Promise!Next]_Phased
  OBVIOUS
<1>1. CASE \A u \in Textures : Untouched(u)
  BY <1>1, UntouchedKeepsPhase DEF Phased
<1>2. ASSUME NEW t \in Textures, \A u \in Textures \ {t} : Untouched(u), Moved(t)
      PROVE  [Promise!Next]_Phased
  <2>1. MovesPhase(t)
    BY <1>2, MovedMovesPhase
  <2>2. \A u \in Textures \ {t} : Phase(u)' = Phase(u)
    BY <1>2, UntouchedKeepsPhase
  <2>3. Phased' = [Phased EXCEPT ![t] = Phase(t)'] /\ Phased[t] = Phase(t)
    BY <2>2 DEF Phased
  <2>4. Phase(t) \in {"absent", "loaded", "ready", "pending", "idle"}
    BY PhaseByFlags, TextureState DEF PhasesTold, PhaseTold, Bare, Asked
  <2> QED
    BY <2>1, <2>3, <2>4
       DEF MovesPhase, Promise!Next, Promise!Move, Promise!Create, Promise!Delete, Promise!Request,
           Promise!Deliver, Promise!Fail, Promise!Upload, Promise!UploadFailed, Promise!Unload, Phased
<1> QED
  BY <1>1, <1>2 DEF OneMoves

(* The steps of all threads together are, for every texture, those that    *)
(* asynchronous loading promises: the image of a request arrives once, and *)
(* none turns up after unload() without a new request.                     *)
THEOREM LoadingAsPromised == Spec => ImplementsAsyncLoading
PROOF
<1> QED
  BY PromiseInit, PromiseStep, EveryStepMoves, LifeAndCalls, PTL
  DEF Spec, ImplementsAsyncLoading, Promise!Spec, Phased
=============================================================================
