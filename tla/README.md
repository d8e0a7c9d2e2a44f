# Verification of libapril

April is a C++ library for multimedia applications: a window with its input, a render system
with textures behind one interface for OpenGL and DirectX, and image loading. This directory
holds TLA+ models of the parts whose correctness is hard to test, TLC configurations that
check them on small instances, and proofs, checked by TLAPS, that hold for every value of the
constants. Paths below are relative to the repository; `src/src` is the C++ code.

    tlc -workers 2 -config async_safety.cfg MCTextureAsync     # one run
    tlapm TextureAsync_proofs.tla                              # one module of proofs

`PROJECT.json` lists the components, runs, hazards, findings and theorems, and maps every
definition to the lines it models.

## 1. Inventory

| Component | State it keeps | Operations | Interacts with | What is hard |
|---|---|---|---|---|
| Asynchronous loading (`TextureAsync.cpp`, flags of `Texture.cpp`) | queue of textures, parallel queue of streams, `readerRunning`, decoder threads; per texture `asyncLoadQueued`, `asyncLoadDiscarded`, `dataAsync`, `loaded` | `queueLoad`, `prioritizeLoad`, `update`, `_read`, `_decode`, `load`, `loadAsync`, `unload`, `waitForAsyncLoad`, destruction | the frame calls `update()`, textures call the queue, threads call back into textures | one reader, N decoders and the application interleave at two mutexes; overtaking in the queue; cancellation and deletion while a thread works for the texture; shutdown |
| Window input (`Window.cpp`) | touches, mouse emulated from the first finger, queues of mouse and touch events, multi-touch flag, cursor position, input mode | `queueTouchEvent`, `queueMouseEvent`, `setInputMode`, `checkEvents` | window systems fill the queues, the frame delivers them to delegates | order of batched events, events merged and dropped, emulated presses that must be answered |
| Touch input of each system (`GLSurfaceView.java` + `AndroidJNI`, `OpenKODE`, `WinRT`, `iOS`) | pointer ids, lists of touches, queues between threads, own mouse emulation | callbacks of the operating system | `Window::queueTouchEvent` | indices computed against a list that has changed when they are used; groups of fingers; focus changes |
| Texture contents (`Texture.cpp`, `*_Texture.cpp`) | copy in RAM, internal texture, `locked`, `dirty`, `firstUpload` | create, `lock`, `unlock`, `write` and its relatives, `load`, `unload` | render system's lock, unlock and upload | two copies of one image, changed at different times by different rules per render system |
| OpenGL state cache (`OpenGL_RenderSystem.cpp`, `RenderState.cpp`, `OpenGL_Texture.cpp`) | what is asked for (`currentState`, matrices), what the context is believed to hold (`deviceState`), the context | setters, `_applyStateChanges`, uploads, `reset` | texture uploads bind textures behind its back; the window loses the context | stale cached values, flags cleared too early |
| DirectX 9 device (`DirectX9_RenderSystem.cpp`, `DirectX9_Texture.cpp`) | back buffer, scene, render target, `parameters`, surfaces in video memory | `presentFrame`, `reset`, `_setResolution`, setters, texture load and unload | the loop that sits out a loss handles the window's events | application calls in the middle of a loss; what a reset forgets |
| Image algorithms (`images/Image.cpp`) | none; bytes of an image | rectangles, `fillRect`, `write`, `writeStretch`, `blit`, `blitStretch`, `invert`, `insertAlphaMap`, conversion | textures | boundary arithmetic, twelve formats, rows copied in runs |
| Life cycle (`april.cpp`) | `window`, `rendersys` | `init`, `createRenderSystem`, `createWindow`, `destroy` | everything | order, repetition |
| Android activity (`Activity.java`, `GLSurfaceView.java`, `Android_main.cpp`, `AndroidJNI_Window.cpp`) | activities, `AprilActivity`, GL threads with contexts and queued calls, `NativeInterface.Running`, the window's focus | create, resume, pause, destroy, focus changes; surface created, frames | window, render system | UI thread against GL threads, activities that overlap |
| Main loop and timers (`Window.cpp`, `timers/`) | frame time, FPS, `running` | `enterMainLoop`, `performUpdate`, `terminateMainLoop` | all of the above | time steps, termination |
| Mac window (`windowsystems/Mac`) | `renderThreadSyncMutex`, `gAppStarted`, `focused`, `queuedEvents`, `g_WindowFocusedBeforeSleep` | notifications of AppKit on the main thread; frames on the display link's thread and on the main thread; message boxes; termination | window, render system | two threads, one mutex, and a field used without it |
| SDL and Win32 windows; DirectX 11; EGL; image formats; colors; shaders; platforms; delegates | little or none besides handles of the operating system | one call each | window, render system | little a model could add (see section 10) |

What makes each correct: the loader must hand every texture its own image and only while it is
wanted, must not touch deleted textures, must finish what it has queued and must end; input
must never leave the application with a finger or a button that is not there; a texture must
show what was written to it; the state cache must equal the context's state when something is
drawn; a device or context that was lost must come back with what the application asked for,
and nothing of the old one may be used in the new one; two threads of events and frames must
take turns with the application and never wait for each other; the algorithms must paint what they were
asked to, and nothing outside of their rectangles.

## 2. Modules

| Module | Models | EXTENDS / INSTANCE |
|---|---|---|
| `TextureAsync` | loader threads, queues, flags, the application's calls, `update()`, shutdown | |
| `AsyncLoading` | what asynchronous loading promises: the phases of one texture | instantiated by `TextureAsync` |
| `TextureAsync_proofs` | types, pairing of the queues, own images | `TextureAsync` |
| `TextureAsyncLife_proofs` | ownership, flags, no use after deletion, limits, no forgotten request, shutdown, the refinement | `TextureAsync_proofs` |
| `WindowInput` | `queueTouchEvent` ... `checkEvents` under an arbitrary window system | |
| `WindowInput_proofs` | types, gestures, scrolling, presses, list of touches; the four window systems | `WindowSystems` |
| `AndroidTouch`, `OpenKODETouch`, `WinRTTouch`, `IOSTouch` | the four touch window systems | `WindowInput` |
| `WindowSystems` | any one of the four in the place of the arbitrary window system | the four |
| `TextureContent` | pixels in RAM and on the GPU on three render systems | |
| `TextureContent_proofs` | types, surviving contents, the dirty mark, what is shown | `TextureContent` |
| `ImageFormats` | pixel formats, their conversions, what a pixel shows | |
| `ImageRects` | `checkRect()` and the three forms of `correctRect()`, one axis at a time | |
| `Images` | the calls that paint into an image, beside the picture they were asked for | `ImageFormats`, `ImageRects` |
| `Images_proofs` | conversions and clipping for all bytes and integers; no call leaves the image, and its picture is the one asked for | `Images` |
| `GLState` | the OpenGL render system's three copies of the render state | |
| `GLState_proofs` | types, the agreement of the copies, every draw | `GLState` |
| `DX9Device` | DirectX 9: device, scene, settings, loss and reset | |
| `AndroidLife` | activities on the UI thread, contexts and calls on the GL threads | |
| `MacWindow` | a Mac's main thread and display link: focus, frames, message boxes, the end | |
| `MacWindow_proofs` | types, who has the mutex and goes on, where the focus is | `MacWindow` |
| `DeviceSystems` | any one of the four, the calls of OpenGL and DirectX 9 in groups | `GLState`, `DX9Device`, `AndroidLife`, `MacWindow` |
| `DeviceSystems_proofs` | DirectX 9, Android's life, and the composition of the four | `DeviceSystems`, `GLState_proofs`, `MacWindow_proofs` |
| `MC...` | small instances for TLC | the module they are named after |

## 3. Asynchronous texture loading

### Model and code

A texture is an *address*. Creating one may reuse the address of a deleted one, which is what
`new` does: a thread that still knows an old texture meets a new one. All calls of the API come
from one thread (`pc`, `loading`, `loadFrom`, `current`, `waitFor`, `waitWhy`, `closing`,
`todo`, `uploads`); the reader (`reader`, `readerTex`, `size`, `running`) and each decoder
(`decoder`, `decoderTex`, `decoderStream`) have a program counter of their own. `queue` and
`streams` are the two static lists of `TextureAsync.cpp`, `readerRunning` its flag, `queued`,
`discarded`, `dataAsync` the fields of `Texture` guarded by `asyncLoadMutex`. `gpu` and `data`
say whose image the internal texture and the copy in RAM hold; `OwnImage` needs no more.

One step is one critical section of `queueMutex` or `asyncLoadMutex`, or the code between two
of them as far as other threads can tell. So `_prepareAsyncStream()` is three steps
(`ReaderCancels`, `ReaderReads`, `ReaderAppends`), and the removal of a cancelled texture from
the queue (`ReaderRemoves`) is a step after the one that clears its flag, as in the code.
`_decodeFromAsyncStream()` writes width and height outside of its mutex (`DecoderDecodes`).
Failure is an outcome wherever the code handles it: a missing file, an image that cannot be
decoded, an upload the device refuses, a low-memory warning in the middle of an upload.

`AppCalls` are the calls the application may start, `MainContinues` is how they go on, `Frame`
is the update at the start of each frame, `ReaderSteps` and `DecoderSteps(d)` are the threads.

### What is checked

* `StreamsFollowQueue`: the streams are the contents of the first queued textures, in order.
  `_decode()` takes both heads without looking, so this is what keeps images apart.
* `OwnImage`: no texture holds the image of another one, in RAM, on the way or on the GPU.
* `QueuedOncePerRequest`: `asyncLoadQueued` is set exactly for the textures the threads still
  work for, once each; `~Texture()` waits on that flag alone.
* `NoUseAfterDelete`, `FlagsConsistent`, `WaitingStreamsBounded`, `ReaderOutlivesDecoders`,
  `ShutdownQuiescent`: as their comments say.
* `ImplementsAsyncLoading`: for each texture, the steps of all threads together are a behaviour
  of `AsyncLoading`. An image never turns up after `unload()` without a new request, and a
  texture is deleted only when nothing of it is on its way.
* `QueuedEnds`, `WaitReturns`, `ReadyUploaded`, `ShutdownEnds`: liveness, below. `ReadyUploaded`
  excuses an image that others, loaded again and again, keep from the uploads of every frame.
  The model visits the textures in any order; in the code it is that of their creation, so only
  earlier ones can do that to a later one.

### Runs

| Run | Instance | Why it is enough |
|---|---|---|
| `async_safety` | 2 textures, 2 decoders, no limits, one texture uploaded when ready and one on first use | Overtaking, pairing and cancellation need two textures; two decoders are needed for images that finish out of order |
| `async_limits` | 3 textures, 1 decoder, at most 1 waiting file, 1 upload per frame; one volatile texture loaded on demand, two immutable ones loaded when created; checks `WaitingStreamsBounded` | three are needed for a texture that is overtaken behind one already read; covers the synchronous modes and `Blank` |
| `async_liveness` | 2 textures, both uploaded when ready, 1 decoder, 1 waiting file, 1 upload per frame | a reader that may exit just before a texture is queued, a reader that waits for room, two images ready for the one upload of a frame |

`WaitingStreamsBounded` is about file contents, the only thing the code counts: decoded images
that wait for their upload are not limited, against what `april.h:217` says (section 9).

In `async_limits` the textures other than the first are alike, and symmetric; no run with a
temporal property uses symmetry. Nothing else is bounded: the queue holds each texture at most
once (`MayQueue`), so the state space is finite.

### Fairness

`WF(MainContinues)`: a call that has started returns, as the thread is not stopped inside the
library. `WF(ReaderSteps)`, `WF(DecoderSteps(d))`: the operating system schedules every thread.
`SF(Frame)`: the main loop of `Window.cpp` calls `update()` every frame; between two frames the
application may make any number of calls, during which `Frame` is disabled, so weak fairness
would not express that the loop comes round. The application's own calls are not fair. The
mutexes are not assumed to be fair beyond this. `QueuedEnds` is conditional: an application
that keeps waiting for other textures moves them to the front each time and starves the rest.
There is no fairness for shutdown; `ShutdownEnds` starts when it does.

## 4. Window input

### Model and code

`WindowInput` has the window's state (`touches`, `multiTouchActive`, `mouseEvents`,
`touchEvents`, cursor, `inputMode`), and the application's view as history: the touches it was
told of last and whether it owes an answer to a press. `QueueTouchEvent` is the whole of
`Window::queueTouchEvent()`: redundant calls that are ignored, the list, the multi-touch flag,
the cancellation of the emulated press when a second finger joins, the emulated mouse event and
the copy of the list. A *report* is a list of calls a window system makes at one go.
`Frame` starts `checkEvents()`; one mouse event is merged or delivered per step, so delegates
may call back between two of them, as in the code. `PointerCancels` says whether the window
system cancels single pointers, as WinRT does.

The modules of the four systems replace the arbitrary window system by what the code does:

* Android: pointers of the UI thread, runnables queued to the GL thread, which run later
  against whatever the list of touches has become (`AndroidTouch`).
* OpenKODE: fixed slots, and the conversion of a slot to an index (`OpenKODETouch`).
* WinRT: pointer ids and the list of known ids, focus and activation, mouse and fingers sharing
  one handler and one current button (`WinRTTouch`).
* iOS: groups of fingers in one callback, the view's own mouse emulation and its list of
  events, fingers forgotten when the application resigns (`IOSTouch`).

### What is checked

`input_any_system` (3 indices, 2 positions that are symmetric, at most `MaxEvents` = 3 queued
events, no pointer cancels): `PressesAnswered`, `TouchViewCurrent`, `ScrollComplete`.
`input_systems` (3 fingers; on WinRT 2 and the mouse; at most 3 events and 2 runnables queued):
`GestureHasFingers` on all four systems, and for each system the property that says its
translation is right: `AndroidKeepsFingers`, `OpenKODEKeepsSlots`, `WinRTIndicesAgree`,
`WinRTFocusLetsGo`, `IOSGroupsAnswered`, `IOSFingersKnown`. Three fingers are the least with
which removing one moves the index of another that stays and leaves a gesture of two. The
number of queued events bounds how much one frame delivers; merging looks at two neighbours,
so three suffice to have something before and after a merge. The properties of single systems
are conditioned on the system, and some on what the code does not handle (section 9); each
comment says so.

## 5. Texture contents

`TextureContent` is one texture of one row of pixels. `data` is the copy in RAM, `gpu` the
internal texture, `content` (history) what the application wrote last. Ranges may stick out
on either side. A write with a copy in RAM goes to the copy, and from there, at once or at
`unlock()`, to the GPU by `_uploadDataToGpu()`; without a copy it goes to the GPU directly or
through a buffer of the render system. `SendDirectly` and `SendBuffer` are what the three
render systems do with such a write. `native` says whether the format needs no conversion,
`converts` the same for the data written to a volatile texture.

The render systems treat some writes differently from one another, in ways the documentation
does not mention (section 9). The history variable `met` records when that happens and until
which later upload it lasts; `ShownIsContent` holds whenever `met` is empty. So the property
says: apart from exactly those cases nothing that a program can do with lock, write, unlock,
unload and load makes the GPU differ from what was written. `ContentSurvives` and
`DirtyWhileLocked` do not depend on `met`, except for the defect of `doc_manual_data`.

Run `texture_content`: width 3, so that a range can be inside, at either end, everything, or
stick out on either side; two colors tell a write from what was there before; all three render
systems and types.

Left out: render targets, non-power-of-two fallbacks, compressed and palette formats, failing
allocations, and Direct3D 9's managed pool for 8-bit surfaces.

## 6. Images

### Model and code

`ImageFormats` translates the formats' byte offsets, the conversions with their macros on words,
and `needsConversion()`. A pixel is a function from offsets to bytes. `Shown` is what a pixel
means, read where `_getFormatIndices()` finds the channels; `Reduced` is what is left of a color
in a format that cannot hold all of it. Words are little-endian, as the code assumes.

`ImageRects` has the three overloads of `correctRect()`. They treat both axes alike and
independently, so one axis is defined. The scaled one computes in floats, which the model takes
as exact; for images of at most 2^24 pixels in either direction this differs only where the
quotient of two integers is rounded up to the next integer.

`Images` is an image's memory, `data`, longer than the image so that writes past its end are
seen, and `canvas`, the color that the calls so far asked for at each position. Each call is one
step: the pixels it stores (`Filled`, `WrittenPixels`, `StretchedPixels`, `BlittedPixels`,
numbered as the code's pointer arithmetic numbers them) and the picture it was asked for
(`Region`, `Copied`, `ScaledTo`, defined by positions). The code copies rows in doubling runs;
the model has their union. `met` names the defects a call has run into (section 9).

### What is checked

Run `image_ops`: an image of 3 x 2 pixels in eight of the twelve formats (one of each layout:
alpha first, alpha last, either order, unused byte, three bytes in either order, both of one
byte), sources of the same size in five, every byte of a source different, opacities 0, 100 and
255, rectangles that lie inside, stick out on each side, on two sides, or miss the image.
`PaintsAsked`: `getPixel()` reads the picture that was asked for. `StaysInside`: nothing past
the end is written. One call from one content (`MaxCalls` = 1) is enough, because what a call
stores is a function of the bytes and the arguments: neighbouring pixels of the content differ,
and the theorems of section 8 cover any number of calls, all sizes, bytes and rectangles.
`doc_needs_conversion` is a violation (section 9).

## 7. Contexts, devices and focus that go away

### Model and code

`GLState` has the three copies of the render state: what the application asked for (`cur`,
`matrix`, `changed`, `activeTexture`), what the library believes (`dev`, the code's
`deviceState`), and the context (`gl`), which is external and modelled by what the calls do to
it: a binding creates an object, a deletion unbinds it and frees the name, parameters belong to
the texture that is bound, a matrix is loaded into the current mode. `Render` is a draw with
`_applyStateChanges()` before it; `Load` is an upload with `_setCurrentTexture()` and
`_resetCurrentTexture()` around it, with the retry after `GL_OUT_OF_MEMORY` and the textures that
an application unloads in its low-memory handler, other than the one being uploaded.
`ContextLost` is what Android does: the textures are unloaded, the context is new, `reset()`
sets it up. `stale` records what the defects of section 9 leave wrong, until it is mended.

`DX9Device` has the device (`device`, `scene`, `backBuffer`, `held`), what Windows says of it
(`cooperative`), what the application asked for (`asked`) and what the library keeps to set a
device up anew: viewport and modelview matrix, which are always those asked for, the rectangle of
the last `setOrthoProjection()` (`ortho`) and the render target (`renderTarget`). `Restored` sends
these as `presentFrame()` and `reset()` do: the projection is made of the rectangle, whatever
projection was set after it, and the rest are the defaults. `presentFrame()` sits
out a loss in a loop (`phase` = "lost") that handles the window's events, so all the calls of the
application may come in the middle of it, and a resizing message draws a frame (`NestedFrame`).
Calls on a lost device do nothing, as Direct3D 9 documents.

`AndroidLife` has any number of activities on the UI thread, each with a view, a GL thread, the
calls queued for it and its context, and one library in the process. `onDestroy()` is two steps
(`DestroyBegins`, `DestroyEnds`), since the GL thread goes on meanwhile. Android's own part
(external) is as documented: pausing a view takes the context away before it returns, and the GL
thread runs what is queued before it draws.

`MacWindow` has the thread of the events (`at["main"]`) and the one of the display link
(`at["link"]`); a frame holds `renderThreadSyncMutex` (`mutex`) from its begin to its end, on
either thread, as AppKit has the main thread redraw views. `OnFocusChanged` is `onFocusChanged()`
up to its comparison, `FocusIsSet` the assignment, `QueueFocusChanged` what it queues under the
mutex; `DispatchQueuedEvent` is a frame that tells the application and sets the same field. A
system's notification is one action each: activation, the Dock, sleep, waking. Handlers that only
need the mutex for a moment (mouse, keys, size, cursor areas) are `Input`. A message box of a frame
waits for the main thread (`ShowAlertView` ... `AlertDismissed`). `toldFocus` is what the
application was told last, `reported` what was last passed to `onFocusChanged()`.

`DeviceSystems` explores one of them at a time. DirectX 9's calls come in three groups, each with
frames, losses, resets and new window modes: matrices; viewport, depth test and modes; textures,
targets and viewport. The groups meet in the reset only, which treats each value by itself; a
viewport is also changed by a target, so these two are explored together. The theorems are about
all calls at once. OpenGL's calls come in three groups as well: textures,
matrices, settings. The groups share the mode of the matrices only, which textures change too, so
matrices are explored together with setting textures; all of `GLNext` at once has too many states.
Of the two textures one changes its filter, so that the filters are equal or not.

### What is checked

Run `device_loss` (2 textures, one of which fills its surface partly, 2 names; 2 matrices;
2 arrays and 2 parameters; on DirectX 9 2 targets, 2 rectangles and 2 further matrices; 2 activities, at most `MaxQueue` = 3 calls
queued, at most `MaxContexts` = 3 contexts; at most `MaxFocusEvents` = 3 changes of focus queued
between two frames). Two textures and two names are the least with which
a name is used again for another texture. Two values of each setting tell a sent one from one
that was not; of DirectX 9's projections two come from rectangles and two do not. Two activities overlap; three queued calls are a pause, a resume and a change of
focus waiting together; three contexts are one of each activity and one lost. Changes of focus
alternate, so three in one frame are a loss, a gain and a loss, one more than a dropped one needs.

* `CacheAgrees`: `deviceState` is what the context holds, name by name, and `DrawsAsRequested`:
  a draw has the textures, matrices, filters and settings the application asked for.
* `DeviceAsAsked`: after any loss and reset the device has what was asked for, value by value, or
  exactly what a defect of section 9 leaves (`DrawsWithAsked`: the projection of the kept
  rectangle, say, and no other), and draws fall into a scene. `ResetsHoldNothing`: no reset with a surface still held.
* `TexturesOfContext`: textures of a lost context are not used in the next. `FocusSettles`: the
  window's focus is the system's. `NoFrameWhileDestroyed`: the library is not drawn with while
  the UI thread destroys it.
* `OneThreadInApplication`: the application's code runs on one thread of a Mac at a time, from its
  initialisation to its end. `ToldOfFocus`: when nothing is under way it was told last of the focus
  it has, however activation, the Dock and sleep came mixed; `staleFocus` excuses the race of
  section 9, which `doc_mac_focus` (two changes queued suffice) shows without it.
  `MacWaitsOnlyForBox`: the two threads never wait for each other but for a message box.

Each comment names the defects that are excused.

## 8. Theorems

All theorems hold for every value of the constants that satisfies the named assumptions. The types
of input and texture contents are proved (`InputTypes`, `ContentTypes`), and so not checked by a
run. Every invariant named below was first checked by TLC on the instance of the run of its
module.

**TextureAsync**, from `ParametersAssumption` only, for any number of textures and decoders.
`Pairing` (`TextureAsync_proofs`) strengthens `StreamsFollowQueue` to an inductive invariant:
the queue is injective (so that the index of a texture is unique), the texture the reader is
working for is in the queue and behind the streams (`ReaderHasPlace`), a decoder that holds a
stream holds the one of its texture (`DecoderPaired`), and the image a `load()` carries is that
texture's (`CallTarget`). Lemmas say what `MoveUp`, `Prioritized`, `PlaceStream`, removal and
`Tail` do to paired sequences; they rest on `InsertAt`/`RemoveAt` of SequencesExt. It gives
`TypeCorrect`, `StreamsStayPaired` and `ImagesStayOwn`. `Life` (`TextureAsyncLife_proofs`) adds
ownership (a texture is with at most one of queue and decoders, and `asyncLoadQueued` tells),
the flags and the state of the call in progress; it gives `FlagsStayConsistent`,
`NoThreadUsesDeleted` and `EveryRequestInOnePlace`.

On top of `Life` stand two more. `Waiting` relates the reader's place to the streams: it goes to
read a file only while there is room, and it reaches its join point, and ends, with no stream and
no decoder thread left. Without the places the limit is not inductive, because it is tested two
steps before the stream is added. It gives `WaitingStaysBounded` and `ReaderEndsLast`, and with
`QueueHasReader`, that a queue which is not empty has a reader, `NoRequestForgotten`: a queued
texture is with a decoder or in the queue, and has a reader that runs, or ended and is started
again by `update()`. `Calls` says what a call that waits, destroys or shuts down may rely on at
each of its places, and gives `ShutdownLeavesNothing`. With `WaitedForIsNext` it gives
`WaitedForComesNext`: while a call waits for a texture, its file was read or is the next to be,
because nothing is queued during a wait, the uploads of `update()` included, and what the reader
and the decoders do to the queue moves no texture further behind the streams (`ComesNext`).
`NoRequestForgotten` and `WaitedForComesNext` are the safety that `QueuedEnds` and `WaitReturns`
rest on. The refinement `LoadingAsPromised` goes in two halves: `EveryStepMoves` shows that a step
of any thread changes the flags of at most one texture, and in which of five ways (`OneMoves`,
`Moved`); `PromiseStep` shows that each of the five is, through the mapping `Phased`, an action of
`AsyncLoading` or a stutter, for that texture and for every other one.

**WindowInput**. Under any window system `Gesture`, the types and `GestureHasFingers`, is
inductive: a cancellation takes the state of a gesture of several fingers along (`InputTypes`,
`GesturesHaveFingers`). `Rolling` says that the queued events lead from what `checkEvents()` has
accumulated to what the user turned, and that something is accumulated only in front of another
scroll event: so no rotation is lost (`ScrollsCounted`). Assuming `~PointerCancels`, `Input` adds
that no cancellation is pending, `PressesAnswered` and `TouchViewCurrent`: a press is answered
because the flag and the number of touches agree, which holds because every change of the list
goes through `queueTouchEvent()` (`InputInvariant`, `EveryPressAnswered`, `ToldOfCurrentTouches`).

**WindowSystems** puts Android, OpenKODE, WinRT or iOS in the place of the arbitrary window system;
`SystemsInvariant` holds the invariants of all four, and a step of one leaves the others' alone.
Android: numbers lead over the queued events from the touches the calls under way leave at most
(`Leaves`) to the fingers on the screen, each event changing them by one or not at all
(`CountsFingers`, `Changes`); it needs that the pointers of an event can be put in order (`InOrder`).
OpenKODE: the list is no longer than the slots in use, counting the call in progress
(`CountsSlots`). WinRT: applying the pending calls to the touches makes them as many as the ids
(`Converges`). iOS keeps the list of touches itself: while the application is active it holds each
finger on the screen once (`Once`, kept by adding a group at the end, `OnceAdded`, and by leaving
out another, `TouchesLeftOnce`), so that comparing its length with the size of the group tells
whether the gesture is over (`OnceCounts`); the last thing queued is the list as it is
(`ListQueued`), and the queued events lead from the button the application sees to the single touch
(`QueueAnswers`). They give `AndroidFingersKept`, `OpenKODESlotsKept`, `WinRTIndicesKept`,
`WinRTLetsGo`, `IOSGroupsKept`, `IOSFingersKept`, `SystemsGestures` for all four and, because
Android and OpenKODE cancel nothing, `CancelFreeSystems`. For WinRT, which does cancel pointers,
`PressesAnswered` is false (section 9).

**TextureContent**, from `ContentAssumption` only: any width, any colors, any of the render
systems and types. `Coherence` is the four checked invariants and `States`, which says what
they need of each other: what exists before a texture is created, which textures have a copy
in RAM, that an unread file's pixels are still what is to be shown, and that on OpenGL a loaded
texture has been uploaded before unless it waits for `unlock()` (else a partial upload would
start from a cleared one). The lemmas `...Shows` are the core: a range sent to the GPU makes it
equal to the image it comes from, provided the pixels outside of the range agree already
(`Rest`). The theorems are `ContentInvariant`, `ContentTypes`, `ShowsContent`,
`ContentIsKept` and `DirtyOnlyLocked`.

**Images**. The lemmas on pixels and rectangles hold without assumptions, for all bytes and all
integers. `ConversionKeepsColors`: for every two formats a converted pixel shows the same color,
as far as the format can hold it; the lemmas go by the number of bytes of the source.
`UnconvertedShowsTheSame`: what `needsConversion()` takes as it is shows the same, unless it is
RGB and BGR. `ClipIsExact` and `CopyIsExact`: a corrected rectangle is exactly the part that lies
in the image, and a copy's source moves with it. `StretchIsInside`: the truncation of a scaled cut
never leaves the source or the image. From them and `ImagesAssumption`, `NoCallLeavesTheImage`: in
`StaysInv` the length of the bytes stands beside `StaysInside`, and `CallStays` reduces every call
to the numbers of the pixels it stores, which the lemmas `...Inside` find between those of the
first and the last.

`PicturesAsAsked` says the same of the picture, from `ImagesAssumption`, which gives the sizes,
rectangles and bytes no bound but their types. The inductive invariant is `Painting`: as long as
no defect is met, every pixel shows the color of `canvas` at its position, and its bytes are bytes
(`PixelsAsked`; without the bytes a conversion says nothing). `PixelPainted` reduces a call to two
facts about each position: a pixel the call stores there shows the color asked for, and where it
stores none the color asked for is the old one (`Colored`). Both follow because pixels are numbered
uniquely, so that a stored pixel belongs to one position of the corrected rectangle. For copies
and blits the rectangle is exact (`CopyIsExact`) and the color is that of the conversion or of `Mix`
(`WrittenShows`, `BlittedShows`). For scaled calls a clip changes the sizes that the step from one
sample to the next is computed from; unless it cuts inside a source pixel (the defect `cut`), the
clipped sizes are in the ratio of the whole ones (`StretchAxisAt`), so every position samples the
same place of the source, and the four neighbours weigh the same (`ScaledShows`, `ScaledPlaces`).

**GLState**, from `GLAssumption`. `GLInv` is `GLTypeOK` with `Agreeing` (what the
cache says of the context, whatever was asked for), `AskedIsKnown`, `NamesKnown` (every texture has
a name of its own that the context knows) and `MatricesAgree` (the texture's matrix goes with the
bound texture). One lemma per call
of the driver and one per operator that compares before it sends keep `Agreeing`, whatever the two
were: the actions are sequences of these, with uploads and low memory in between. A draw sends
whatever differs, which gives the action property (`GLCacheAgrees`, `GLDrawsAsRequested`).

**DirectX 9**, from `DX9Assumption`, for all the calls at once. `DX9Inv` says what a loss releases,
and, for a device that can be asked, `DrawsWithAsked`: each value is the one asked for, or what a
recorded defect leaves. Every setter changes its own value and lifts its own excuse
(`SettersKeepDX9Inv`), and a reset establishes the whole whatever the device drew with before
(`RestoredIs`, `FramesKeepDX9Inv`) (`DX9DeviceAsAsked`, `DX9ResetsHoldNothing`).

**Android's life**, from `AndroidAssumption`, for any number of activities, contexts and waiting
calls. `AndroidInv` speaks of the calls that still wait, as long as no two activities were there at
once (`Single`, `OneActivity`): the last change of focus is to the window's, and pauses and resumes
follow each other so that the library ends up with it (`FocusOnItsWay`); and textures are those of
the context that draws, or a pause that unloads them waits (`TexturesUnloadedInTime`). Both are
facts about the order in the queue (`EachFollowedBy`, `LastFocusCallIs`), kept by appending at
its end and by taking the first (`AndroidTexturesOfContext`, `AndroidFocusSettles`,
`AndroidNoFrameWhileDestroyed`).

**MacWindow**, for any number of changes that may wait. `MacInv` is `MacTypeOK`, `Turns` (who has
the mutex, by the places of the two threads), `QueueHasRoom`, and `FocusPassedOn`: what the
window was told last is the focus it should have, but for one that a sleep took and waking gives
back, and the last change that waits, or what the application was told if none does, says the same,
or the main thread is about to queue it (`MacOneThread`, `MacToldOfFocus`). `MacHolderGoesOn` says
without ENABLED what `MacWaitsOnlyForBox` says with it: who has the mutex is at a place whose next
step does not wait, unless it shows a message box, and with the mutex free the main thread goes on.

**DeviceSystems** composes the four. `DeviceSystemsAreSystems` shows that a behavior of the whole
is one of each part, which either moves as its own `Next` allows or stands still; so every theorem
of a part holds in the whole (`DevicesTypeCorrect`, `DevicesSafe`).

Only model-checked:

* all liveness and the fairness it needs (`QueuedEnds`, `WaitReturns`, `ReadyUploaded`,
  `ShutdownEnds`): the provers have no rule for ENABLED, which fairness is defined by;
* that `MacWaitsOnlyForBox` holds as it is written, with ENABLED; `MacHolderGoesOn` is the part of it
  that names the guards instead.

Induction over data is not available as a rule, but a set of naturals that is not empty has a
smallest element (`Smallest`, from the library's well-founded `<`), which is how the proofs about
fingers and queues go from one element to the next.

## 9. Where code and documentation disagree

Each of these is a run that TLC finds violated:

* `doc_press_cancelled`: `Window.cpp:689` returns before the emulated press is cancelled.
* `doc_manual_data`: on DirectX 11 a texture created from data has an uninitialized copy in RAM.
* `doc_needs_conversion`: `Image.h:132` says `needsConversion()` tells whether a conversion is
  needed; `Image.cpp:1914` answers no for RGB and BGR. `createFromFile(filename, FORMAT_BGR)` keeps
  the bytes of an RGB file.
* `doc_mac_focus`: `SystemDelegate.h:42` says the application is told whether the window is focused
  right now. `Mac_Window.mm:283` compares `focused` without the mutex while a frame sets it to the
  value of an older event (`Window.cpp:613`): lost, gained, a frame that tells of the loss, and lost
  again drops the last change, and the gain is what the application hears last.

Met while modelling, in the models, without a run of their own:

* A volatile texture that is unloaded while its image is decoded has a width and a height all the
  same (`Texture.cpp:703` writes them before it looks at `asyncLoadDiscarded`), so the next `load()`
  creates it blank instead of reading its file (`Texture.cpp:435`). `OwnImage` permits `Blank` in a
  volatile texture, here and after `loadMetaData()`: it says that no other image gets in.
* With a limit of uploads per frame, textures that are unloaded and loaded again every frame keep
  those created after them from ever being uploaded (`TextureAsync.cpp:60`).
* `april.h:217` calls the limit of `setMaxWaitingAsyncTextures()` "the max number of async textures
  concurrently loaded in RAM and waiting for upload"; `TextureAsync.cpp:138` counts file contents
  waiting for a decoder only. Decoded images (`dataAsync`) are not limited.
* `Texture.cpp:645` clears `asyncLoadQueued` before the reader removes the texture from the
  queue. A texture deleted and another created at its address in between is refused as already
  queued (`TextureAsync.cpp:75`), and `createTextureFromFile()` returns NULL.
* `GLSurfaceView.java:76` reports all pointers of an `ACTION_POINTER_UP`, so the list of touches
  can be shorter than the fingers that are down, against `TouchDelegate.h:32`.
* `load()` on a texture loaded on demand that is queued waits and returns `true`, but
  `update()` does not upload such a texture (`TextureAsync.cpp:56`), so it is not loaded, which
  the comment at `Texture.cpp:413` says it will be.
* `Texture.h:74` says of a texture used before its asynchronous load ends that it is not
  rendered; `Texture.cpp:412` waits and uploads instead.
* Android drops `ACTION_CANCEL`: the fingers stay down (`GLSurfaceView.java:60`).
* `Window.cpp:660` handles a case its comment says "never happened so far"; OpenKODE reaches
  it when a lower slot goes down after a higher one.
* WinRT has one current button for mouse and fingers, and a reset does not queue a new list.
* iOS forgets its touches on resigning without reporting them (`iOS_Window.mm:536`).
* An immutable texture created from a color shows uninitialized memory on DirectX 11 until it
  is reloaded: `Map()` refuses it (`immutable` in `met`).
* A volatile texture created from data of another than the native format is not converted on
  DirectX 11: the format has been replaced before the data is uploaded (`raw`).
* A write that sticks out changes the part inside in RAM and nothing, or everything, on the GPU
  of OpenGL and DirectX 9 (`outside`); a partial write to a volatile texture on DirectX 11
  discards the other pixels (`discarded`), and one that fails leaves it mapped (`mapped`).
* `loadMetaData()` on a volatile texture makes the first `load()` create it blank
  (`Texture.cpp:435`), `LoadMetaData` and `LoadsBlank`.

Images (`met` in `Images`):

* `rows`: `fillRect()` of a rectangle as wide as the image counts `destHeight` rows instead of the
  rectangle's (`Image.cpp:716`): it paints all that is below, and past the end of the image when
  it does not start at the top.
* `empty`: a rectangle clipped to no width or height still paints a pixel, a row or a column.
* `row`: `writeStretch()` and `blitStretch()` between equal sizes call `write()` and `blit()` with
  the height in the place of `dy` (`Image.cpp:834`, `Image.cpp:1383`).
* `swap`: `writeStretch()` does not convert between RGB and BGR.
* `alpha bytes`: scaling a source of `FORMAT_ALPHA` into an image with alpha reads the source as
  if its pixels had the image's number of bytes (`Image.cpp:879`).
* `padding`: `blit()` takes the unused byte of RGBX and its kin for an opacity (`Image.cpp:1309`).
* `cut`: a scaled rectangle that is clipped is cut by whole source pixels, so what is left is
  scaled a little differently.

OpenGL (`stale`, and the color mode in `ShowsRequest`):

* `reset()` does not send a matrix that equals the one `deviceState` remembers of the old context
  (`OpenGL_RenderSystem.cpp:190`, `:517`), so the new context keeps an identity.
* An upload while no texture is bound, or with the name of a texture that was deleted while bound,
  leaves it bound without its texture matrix, and the next `setTexture()` sees no difference.
* `CM_ALPHA_MAP` sets the combiner's functions but not `GL_COMBINE`; only `CM_LERP` does.

DirectX 9 (`met` in `DX9Device`):

* The depth test starts as on while the library says off, and is not restored by a reset.
* A reset, after a loss or for a new window mode, makes the projection anew from the rectangle of
  the last `setOrthoProjection()` (`DirectX9_RenderSystem.cpp:174`, `:925`), which
  `setProjectionMatrix()` and `setPerspective()` leave as it was (the comment at
  `RenderSystem.cpp:228` knows it is stale) and which has no near and far planes: a projection of
  one of these is lost, and so is the identity that holds before any is set.
* A reset sets the default blend and color modes (`_configureDevice()`); nobody keeps those set.
* Direct3D sets the viewport to the whole of a new target; the viewport kept is sent again only by
  the next `setViewport()` or reset.
* A reset sets the back buffer as target; `renderTarget` still names the texture.
* `setRenderTarget(NULL)` ends the scene of the texture and begins none until the next frame.
* `_setResolution()` returns during a loss, so that the window's new mode is dropped.
* A texture loaded from an event during the loss makes `Reset()` fail, which ends the program.
* A resizing message during the loss draws a frame, which releases a back buffer that is NULL; a
  screenshot asks it too; an unloaded texture as target has no surface to take.

Android (`known` in `AndroidLife`):

* Two activities share one library: the old one's `onDestroy()` takes `AprilActivity` away from the
  new one, and its unloading may run after the new one draws.
* Calls that are still queued run while `onDestroy()` destroys the library on another thread.
* Focus is assumed when the library starts, whatever the system said.
* A context lost while drawing is replaced without unloading textures.

Mac (`WaitsOnlyForBox`):

* A frame keeps the mutex while its message box waits for the main thread
  (`Mac_CocoaWindow.mm:598`). A main thread that has come to the mutex for the mouse, a redraw or
  the focus never shows the box: the program hangs.
* `applicationWillTerminate` lets go of the mutex and destroys the window it belongs to, while the
  display link's thread may be waiting for it (`Mac_AppDelegate.mm:83`).
* Focus is told by the queue of `dispatchQueuedEvents()`, before the mouse and keys of the same
  frame: input that came before a loss is delivered after it.

Seen in code that is not modelled: `Texture::clear` ignores the pitch of a locked buffer; a
`blitStretch()` that takes rectangles and bytes drops the opacity it is given (`Image.cpp:289`).

## 10. Not modelled

* SDL and Win32 windows: messages are handled on the thread that draws, mostly one call of the
  window's queues each, and any order of such calls is what `WindowInput` itself checks. Win32's
  Alt key and mouse capture are state of their own; its changes of focus are handled at once while
  keys wait in their queue.
* Mac: translation of keys and buttons, the values of size events (queued like the focus), cursors,
  the loading overlay, `presentFrame()` with its `ignoreUpdate` flag. A frame that finds another
  scale factor calls the size handler, which takes the mutex the frame holds; what that does depends
  on the mutex of hltypes, which is not in the repository. So does a message box that the main
  thread shows while it holds the mutex (`onQuit()`, a redraw): only the boxes of the display link's
  frames are modelled, and a state with such a box open is excused (`WaitsOnlyForBox`).
* The queues of keys and controllers: lists of the same form without merging. The input mode's
  translations and the fullscreen toggle.
* Hazards that no property covers: key events are queued on Android's UI thread while the GL thread
  removes them, without a lock (`Activity.java:263`), so every outcome of the list is possible;
  `setInputMode()` tells the application of the mode at once, while events of the old mode wait in
  the queues (`Window.cpp:256`); WinRT remembers one pressed button for mouse and fingers
  (`WinRT_XamlApp.cpp:372`), so a release may be one of another button.
* Initialisation that fails, and destruction after it (`april.cpp:383`).
* OpenGL: destroying the texture that is set and resizing then, cached vertex pointers, viewport,
  clear color, shaders. DirectX 9: draws, with the bound texture, its filter
  and the shaders; the half pixel by which a projection follows the window's size, and sizes of
  zero. DirectX 11: its device is never
  lost; its textures are in `TextureContent`. EGL: one sequence of calls.
* Image formats: decoding by third-party code, present as an outcome that may fail.
  `rotateHue()`, `saturate()`, `getInterpolatedPixel()` and palettes.
* Colors, utilities, platforms, delegates, key tables, vendored libraries (libjpeg and libpng, the
  larger part of the lines in the repository) and demos.
* Data races on plain fields such as width and height are not given the semantics of the C++
  memory model; a step reads and writes consistent values.

## 11. Plan

Modelled first was what runs in several threads, then what every application depends on each
frame, then textures, images, and what takes devices and contexts away. Left, in this order:

1. Keys, controllers and the order of `setInputMode()` against events already queued;
   initialisation and destruction with failures.
2. A prover with a rule for ENABLED would bring the liveness of the loader within reach:
   `RequestsServed`, `WaitedForIsNext` and `ReaderOutlivesDecoders` are the safety it rests on.
