# bgda-vita: TLA+ models, checks and proofs

bgda-vita runs the Android build of Baldur's Gate: Dark Alliance on a PS Vita.
It loads the ARM shared object of the game, resolves its imports against
reimplementations of the Android, bionic and POSIX interfaces it expects, and
replaces some of its functions. The game itself is not in the repository, nor
are the Vita kernel and the C++ runtime; what is modelled is the code under
`src/` that stands between them.

Every module translates code of the repository. `PROJECT.json` names, for each
definition, the lines it stands for, for each property the defect in the code
that would break it, and for each hazard the property that would notice.

Contents: 1 the system, 2 the modules, 3 the runs, 4 disagreements between code
and documents, 5 the proofs, 6 what is not modelled, 7 what is left to do.

## 1. The system and its parts

| Part | State it keeps | Operations | Talks to |
|---|---|---|---|
| Looper, `AFakeNative/ALooper.cpp` | two maps of registrations, the epoll set, responses not yet returned, rebuild flag, wake eventfd | prepare, addFd, removeFd, pollOnce, pollAll | epoll; calls the application's callbacks |
| Emulated epoll, `AFakeNative/PseudoEpoll.cpp` | pool of instances, one interest list each | create1, ctl, wait, pseudo_read, pseudo_write | asks eventfds and pipes for their status |
| Emulated eventfd, `polling/pseudo_eventfd.cpp` | pool of counters | create, read, write, status | polled by epoll |
| Emulated pipe, `polling/pseudo_pipe.cpp` | pool of kernel message pipes with a "readable" and a "writeable" flag | create, read, write, status | polled by epoll |
| Input queue, `AFakeNative/AInput.cpp` | vector of events, vector of loopers, one eventfd, a mutex | enqueue, getEvent, finishEvent, attach, detach | looper; fed by the controls |
| Controls, `AFakeNative/utils/controls.cpp` | which devices are present, the last report of each | init, detect, poll (pads, motion), touch | input queue, Java side |
| Main and native activity, `source/main.c`, `ANativeActivity.cpp` | thread ids, global queue and looper | start the game's threads, send lifecycle commands | controls, pipe, looper, game |
| pthread layer, `reimpl/pthr.c` | registry of 1024 initialised objects, lazily created lock | mutexes, conditions, attributes, threads, semaphores | game threads, pthread-embedded, kernel |
| File layer, `reimpl/io.c`, `fios/fios.c`, `AAssetManager.cpp` | open files of an archive or the card, assets | open, close, read, seek, stat, directory | game |
| Loader, `so_util/so_util.c`, `utils/init.c` | module records, text and data segments, patch arena, hooks | load, relocate, resolve, flush, initialise, hook, SO_CONTINUE | kernel blocks |
| Import table, `source/dynlib.c` | constant table of 700 names | look-up | loader; newlib, sceLibc, vitaGL, ... |
| Error numbers, `reimpl/errno.c` | translation table that `__errno` points into | __errno, strerror | game threads |
| World loader, `patches/worldAllocateSegments.h` | chunks, textures, decoding tables, loading mutex | read, decode, halve, upload | game memory, texture hooks |
| Video, `patches/xmv_vita.c`, `texture_*.h` | planes of the last frame, width, shader scale | interceptors of the decoder, lock, draw | libxmv, vitaGL |
| Other game patches, `source/patch.c`, `source/patches/*` | saved instructions, flags | replaced game functions, shader on disk, dialogue text | game |
| File patcher, `utils/ptch.c` | patch files, backups, marks in a log | apply one, apply a directory | files, SHA-1 |
| JNI bridge, `falso_jni/*` | dynamically typed arrays and strings, method tables | JNIEnv functions, UTF-8/UTF-16 conversion | game, `falso_jni_impl.c` |
| Support: settings, trophies, dialogs, logger, GL set-up | configuration values, flags | read, write, show | Vita services |

How an input event travels: the polling thread samples the pads and calls
`AInputQueue_enqueueEvent`, which appends to a vector and, when the vector was
empty, writes the queue's eventfd. The application thread sits in
`ALooper_pollAll`, whose `pseudo_epoll_wait` walks over the interest list and
asks each descriptor for its status. When the eventfd is readable the poll
returns the identifier of the queue, and the application fetches the event
with `AInputQueue_getEvent`, which reads the eventfd empty when the vector is.

How the program comes up: `soloader_init_all` patches the game's files on the
card, loads five libraries one after the other at fixed addresses, resolves
their imports against each other and `default_dynlib`, hooks functions of the
game and runs the constructors; `main` then starts the game's threads and tells
them through a pipe, command by command, that they have a window and input.

### What is hard here

* Three mutexes and none of them covers the whole path of an event: the vector
  has `mLock`, the eventfd pool its own, the looper its own, and the epoll mutex
  is not taken by `pseudo_epoll_ctl` at all.
* Registrations travel through the wait as a bare sequence number, and may be
  removed or replaced before it comes out.
* Blocking is emulated: a call that would block sleeps and tries again, or
  sleeps in the kernel with a mutex held.
* Static initialisers of bionic have no counterpart on the Vita: objects, and
  the mutexes of the descriptor pools, are created on first use, by whichever
  threads come first.
* Game files are patched in place, and the program may be closed at any moment.
* Hooks put the original instructions back while they call the original, and
  run on several threads.
* Seven hundred imports are linked by hand to libraries that have streams,
  descriptors and allocators of their own.
* Buffers of a string, the translation of error numbers and the pointers of the
  last video frame are shared and overwritten by calls that seem to read only.

`PROJECT.json` lists each hazard at its line, with the property that covers it
or the reason why none does.

## 2. Modules

| Module | Stands for | Kind |
|---|---|---|
| `EventFdValue` | one eventfd: read, write, readiness | operators |
| `EventFd` | the pool and its blocking callers | state machine |
| `FdPools` | the three descriptor pools and their lazily created mutexes | state machine, part of `Runtime` |
| `NotifyQueue` | a queue whose contents and readiness change together | abstract specification |
| `InputQueue`, `InputQueueProofs` | AInput.cpp with threads; implements `NotifyQueue` | state machine, theorems |
| `PseudoEpoll` | answers of epoll_ctl, end of epoll_wait | operators |
| `Looper`, `LooperProofs` | ALooper.cpp and the wait loop | state machine, theorems |
| `InputDelivery`, `InputDeliveryProofs` | queue, eventfd, epoll and looper together | composition, theorems |
| `Ptch` | ptch.c with the files it reads and writes | state machine with crashes |
| `Pthr`, `PthrProofs` | mutexes and conditions of pthr.c | state machine, theorems |
| `Controls` | detection and sampling of the pads | state machine, part of `Startup` |
| `Startup` | one emulated pipe; main.c, the pipe, the pads and the waiting application | composition |
| `PollingProofs` | `EventFd` and `Startup` | theorems |
| `Utf` | UTF-8 and UTF-16 of the fake JNI | operators |
| `FalsoJNI` | the fake Java VM: classes, strings, arrays, references, methods | state machine |
| `ContentsProofs` | `Ptch` and `FalsoJNI` | theorems |
| `SoLoad` | so_util.c and the order of init.c, for five libraries | state machine |
| `SoHook` | hooked functions and SO_CONTINUE on several threads | state machine |
| `Huffman` | code tables and decoder of a texture block | operators |
| `World` | the loader of a world's textures | state machine |
| `Game`, `GameProofs` | `SoLoad`, `SoHook` and `World` together | composition, theorems |
| `Descriptors` | which layer a file number belongs to | operators |
| `Imports` | default_dynlib: what an entry makes, uses or ends | state machine |
| `Files` | files of the archive and the card, assets over them | state machine |
| `Threads` | semaphores, attributes, threads; render and loading thread | state machine |
| `ShaderPatch` | shader_patch.h over restarts | state machine with crashes |
| `Frames` | xmv_vita.c and the textures that are drawn | state machine |
| `Formatter` | usprintf.h | state machine |
| `Errno` | errno.c | state machine |
| `Runtime`, `RuntimeProofs` | the last eight, pools included, one at a time | disjoint composition, theorems |

### EventFdValue, EventFd

`pool` is the array of internals, a slot with its `value`, `nonblock` and
`semaphore` flags. `Create`, `Read` and `Write` are the calls up to the point
where they answer or start to wait; a call that waits sleeps with both mutexes
released and looks again (`ReadRetry`, `WriteRetry`). `written` and `taken`
are histories. `MaxValue` stands for 2^64-2, `Budget` bounds what is written.

* `CountsConserved`: what was put in is in the counter or was handed out,
  whoever raced with whom, and no reader that slept while another one emptied
  the counter is handed a zero.
* `WaiterReturns`: a caller that waits while its call stays possible comes
  back.

### FdPools

The compare-and-swap that elects who creates the mutex of a pool, the creation
the kernel may refuse, the clearing of the pool, the polling of the others, and
the creation and look-up of descriptors under the mutex. One module for the
three copies in the code, told apart by `kind`.

* `NumbersStay`: whoever takes the mutex finds it created and the pool cleared,
  no number is given twice or wiped out by a second clearing, and once a number
  was given nobody is told that the pool is missing.

### NotifyQueue, InputQueue

`pending` is mPendingEvents, `dispatch` the eventfd, `mLock` the mutex, and a
thread's `pc` says where in the critical section it is: the vector and
the eventfd change in separate steps (`EnqueueEvent`, then `Signal`; `GetEvent`,
then `Drain`). Events are blocks of memory that are freed by `finishEvent` and
handed out again by `malloc`. `NotifyQueue` promises a queue with a readiness
flag that changes with it in one step; the mapping takes, for the abstract
queue, the contents as the lock holder will leave them.

* `ReadableIffPending`: while nobody is inside, the eventfd is readable exactly
  when an event waits, and its counter never exceeds one, so that the
  non-blocking write whose result is ignored is never refused.
* `SingleOwner`: an event is in one hand or one place of the vector.
* `ImplementsNotifyQueue`: the refinement.

The queue is allocated with `malloc` and its two `std::vector`s are never
constructed (AInput.cpp:29). The model starts from the zeroed block, which the
library's vectors read as empty; nothing holds from another start.

### PseudoEpoll, Looper

A critical section under the looper's `mLock` is one step, because it is never
held across a wait or a callback. The wait loop is not: each visit of an entry
of the interest list is a step, registrations may change between two of them,
and since `pseudo_epoll_ctl` takes no lock this is a data race on a `std::map`:
the step that changes the list during a walk may end the process (`pc =
"dead"`), and otherwise the walk goes on. `cursor` is the entry visited last,
`reported` the buffer of events, `responses`/`index` mResponses and
mResponseIndex, `running` the registration whose callback runs.

* `RegistrationsInSync`: "Both maps must be kept in sync at all times"
  (ALooper.cpp:104), the epoll set is what a rebuild would make of them, and
  `mEpollRebuildRequired` is never set. The rebuild code is thus never reached,
  and neither is `wake()`, whose only caller is the one that schedules it.
* `NotMisattributed`: a sequence number that comes out of the wait and is still
  registered names the descriptor that was ready.
* `UnregistersItselfOnly`: a callback that returns 0 ends its own registration
  and never the one that took its place while it ran.
* `NotCalledAgain`: and it is not called again. This holds for polls that do
  not wait or wait for ever; see section 4 for the others.
* `ReadyIsServed`: a descriptor that stays registered and ready is handed to its
  callback or to the caller.

Left out: message envelopes (nothing in the repository creates one, so the
branch of pollInner that sends them is never entered), the error results of a
wait on an instance that is gone, and `ALooper_forThread`: two threads that call
it first at the same time both create the key, and the looper stored under the
first one is not found again.

### InputDelivery

Instances of `InputQueue` and `Looper`, joined by attach and detach and by the
status of the queue's eventfd, which is what the wait loop reads. The
application is native_app_glue's: it polls, and if told so it fetches.

* `EveryEventIsFetched`: an event that is queued while a looper is attached is
  fetched.
* `PollTellsTheTruth`: when a poll that does not time out reports input, the
  getEvent that follows finds an event.
* `AttachedIffRegistered`: the queue's list and the looper's maps agree.

### Ptch

`target`, `backup` and `applied` are what is on disk; everything else is lost
when the program is closed (`Crash`). A patch goes through `TakePatch` (is it in
the log?), `LoadTarget` (header against target), `NeedsBackup`/`OpenBackup`/
`WriteBackup`, the records (`RefuseRecords` if one is cut off or out of bounds,
else `OpenTarget` and `WriteTarget`) and `LogPatch`/`MarkApplied`. The files come
in any order, as readdir returns them. Contents are short sequences of numbers;
SHA-1, paths and the layout of the log are abstracted to the identity of a
patch. `TornWrites` lets a crash leave a part of what was written, `IOErrors`
lets opening fail and a write fall short without being noticed, which is what
`file_save` does with the result of fwrite.

* `BackupsKept`: a target that no longer is as installed has a complete backup,
  and a backup never holds anything but a beginning of the installed file.
* `EveryPatchLands`: each patch that fits its file is in the log in the end,
  however often the program was closed before.
* `MarkedIsInFile`: a patch in the log is in its target, if that has its full
  length; later patches may have overwritten bytes.
* `OnlyWholePatches`: each byte of a target of full length is as installed or as a
  patch that was accepted as a whole says.

### Pthr

The registry, the first word of each bionic object, the real objects and the
steps of the first use: `Check` (isObjectInitialized), `ReadKind`, `Publish`
(malloc and store), `InitReal`, `Remember`. At the start any slots of the registry
may be taken by other objects. Nothing in pthr.c keeps two threads
from doing this at once for the same object, and a full registry forgets it;
such an object is `spoiled`, and the properties speak of the others. The real
mutexes and conditions belong to pthread-embedded and are modelled by their
contract.

* `Exclusion`: a mutex that is not spoiled keeps threads apart, through
  recursion, waits, destruction and re-use.
* `SignalsReachWaiters`: a waiter waits on the real object that signals go to.
* `RegisteredIsUsable`: what the registry names is initialised, and a mutex
  behaves as its static initialiser or attribute says.

### Threads

A semaphore is the kernel's counter; a wait is put together from waits of the
kernel, with the limits the code gives them (`BeginWait`, `TakeToken`,
`GiveUp`). The render thread waits, reads commands and goes. Attributes pass
through the swapped constants of pthread-embedded, and the loading screen's
thread is started by the game and detached afterwards by the hook.

* `TokensConserved`: a token is in the semaphore or was the success of one wait.
* `StacksAreReclaimed`: no thread that is meant to be detached outlives its end.

### Controls, Startup

Three threads. `Main` executes `Program`, the lines of main() that touch shared
state: commands written to the pipe, and two detections of the pads. `PollPads`
is the thread that `AInputQueue_create` starts in between; `App` is the
application in `pseudo_epoll_wait`. A write or a read is two steps, because the
wait for the kernel's message pipe happens with the pool mutex held
(`poolMutex`); a status is one. In `Controls`, where nobody takes a lock, each
write of a shared variable is a step. The glue (who waits for which command) and
the answers of the controller service are external. The joystick's axes are
represented by its triggers, which go through the same comparison; touch
input is never polled.

* `ReadNeverWaits`: the application reads the pipe only when a command is there; a
  read of an empty pipe would hold the mutex that the writer needs, for ever.
* `EveryCommandIsExecuted`: asking for the status clears the flag, yet each
  command arrives, in order.
* `PadsAreKnown`: while main detects for the second time the polling thread reads
  wrong ports, or ports that do not answer, and tells the game of buttons nobody
  pressed. Once this is over and the player rests, what the game was told of each
  controller that answers is what the player holds.

### Utf, FalsoJNI

`Utf` has both conversions over bytes and units as numbers, invalid input
included; their loops are a `Turn` for each character and `Converting`, the
state after each turn. When a text is well formed UTF-8 (`WellFormed`) it says
with the table of the standard and not with the code; what `NewStringUTF` is
handed is assumed to be (`TextsAssumption`). In `FalsoJNI` a string is two buffers and the lengths they were
allocated with; nearly every call that only reads a string frees and rebuilds
the UTF-8 buffer, in steps (`CheckBuffer`, `AllocBuffer`, `EncodeBuffer`,
`TerminateBuffer`, `FinishReader`), and another thread's come between. Methods and fields are the tables of `falso_jni_impl.c`,
looked up by name, then by number and type.

* `CopyIsExact`: what `GetStringUTFChars` hands out is the text, terminated, and
  fits the block that was allocated for it, also when another thread reads the
  same string, as long as the text is ASCII, which the game's is.
* `EveryMethodAnswers`: a number from the table of names, called by its declared
  type, reaches an implementation.

### SoLoad, SoHook, Huffman, World, Game

`SoLoad` follows `soloader_init_all`: for each library the file, the segments
and arenas at their addresses, the relocations, the look-up of symbols in
dependencies and in `default_dynlib`, the flushing and the constructors; files
may be missing or malformed and the kernel out of memory. Addresses count pages
of 4 KB, and a segment is known by the page it ends at. Of the five files it is
assumed that the segments rise, that one at most is text, and that the last ends
within the size init.c notes beside the load address and two pages more, for
.bss and alignment (`SegmentsAssumption`). In `SoHook` the two words of a patch are written in separate steps. A
call that finds them half written goes `astray`. Which hooks are inside which is
the port's own list. `World` runs the hook that loads textures: header, chunks
in the file's order, code tables, blocks, halving, upload under the loading
mutex; each allocation may be denied. `Game` lets the loader of `SoLoad` finish,
installs the hooks and lets the world loader and the loading screen run through
them.

* `LoadsFit`: no library or arena is placed where another one is.
* `CallsReachReadyCode`: no call goes through an unrelocated place, into a library
  whose constructors have not run, or into code whose caches are stale; a symbol
  the port replaces is the port's for every library.
* `HooksHold`: each call of a hooked function passes its hook exactly once, and
  the patch is in place whenever nobody is in the hook. Assumed of the game: no
  two threads are in the same hooked function at once, since SO_CONTINUE has no
  lock.
* `ChunksAreReadWhole`: a chunk is read from its offset to the next in the file.
* `BlocksAreDecoded`: what is decoded is what was encoded, on every stream. What a
  canonical code and a stream in it are is stated bit by bit (`IsCode`, `IsBlock`);
  the run makes the streams of every choice of commands for its pictures.
* `LoadedUnlessDenied`: on return nothing is held, and unless memory was refused
  every texture was created, with room for its pixels.

### Descriptors, Imports, Files

`Descriptors` knows the ranges of numbers and the routing of `pseudo_read`,
`pseudo_write`, `lseek` and `close`. `Imports` has one row for each entry of
`default_dynlib` that makes, uses or ends a thing, with the library it is linked
to; the game holds things and passes them to entries of the right kind.
`Files` opens through the archive or the card and lets assets find their length
by seeking, in between reads of other threads.

* `LayersAgree`: a thing only gets to a library that understands it. Entries
  that do not keep to this are named in `StrayStreams` and left out (section 4).
* `AssetReadsInOrder`: who reads an asset gets the blocks of its file in order,
  whatever lengths are asked for and whoever opens and closes meanwhile.

### ShaderPatch, Frames

`ShaderPatch` has the shader and its backup on the card and the program that may
be killed after each step. `Frames` has the decoder's buffers, the pointers that
`sws_scale` leaves for `GetNextFrame`, the lock with its pitch and the draw with
its shader and texture.

* `ShaderKept`: the original exists somewhere at any time and the insertions are
  never made twice.
* `FramesInOrder`: frames reach the game once, in order and fit their texture;
  what is drawn is read at the length its rows have.

### Formatter, Errno, Runtime

`Formatter` copies a format item by item with the limit checked at each unit.
`Errno` is the table, whose entries `__errno` hands out as pointers. `Runtime`
chooses one of the parts `Imports` to `Errno` in its initial state, so that
their states add up instead of multiplying: they share nothing.

* `TextFits`: the text is the whole text, or cut at the limit, with its terminator
  inside.
* `ErrorsAreTranslated`: a thread reads bionic's number of its own error, except
  where the game stored to errno while some thread had that error: the entry is
  then lost for all of them.

## 3. Runs

| Run | Question | Bounds |
|---|---|---|
| `eventfd` | counts and waiting | 2 threads, 2 slots, counter up to 3, 4 units written |
| `input_queue` | readiness, ownership, refinement | 2 producers, 2 consumers, 4 blocks |
| `looper` | consistency of the registrations, starvation | 2 descriptors on both sides of the wake eventfd, every bad descriptor kind, 5 sequence numbers, a buffer of 3, calls from other threads |
| `looper_called_twice` | disagreement, section 4 | the same, local calls, a finite timeout |
| `input_delivery` | the whole path | 1 producer, 1 consumer, 3 blocks, sequence numbers up to 4 |
| `ptch` | backups and completeness under crashes | 2 files, 6 patches (overlapping, cut off, out of bounds, for another version), whole writes, 2 crashes |
| `ptch_errors` | what a target holds | 4 of the patches, torn writes and I/O errors, 1 crash |
| `pthr` | exclusion, signals and kinds | 2 threads, a recursive mutex, a condition, 3 blocks, a registry with room for both objects, one or none, depth 2; threads and blocks are symmetric |
| `startup` | commands and pads | main() as it is, a pipe of one byte, 2 pads, a button that is a key and a trigger and one on the rear panel, 2 things the player does |
| `jni` | texts and methods | 2 threads, 1 object, texts of one, two and four byte characters, units that are letters or half of a pair, the real tables of methods |
| `game` | loading, hooks, textures | the five libraries with well-formed and malformed files, the real list of hooks, 2 threads, six worlds; 2 fast bits of 5, blocks of 2 by 2 pixels in 2 colours |
| `runtime` | nine parts, one at a time | 2 things held, files of 2 blocks and 3 slots, 2 waiters and 2 threads with 3 posts, 3 starts, 3 frames in 2 buffers, 3 callers for pools of 2, all formats of up to 3 items with a limit of 4, 2 threads with 5 errors |

Why the bounds suffice: a counter of 3 can be empty, partly full, full and too
full for a write of 2. Three blocks let one wait, one be handled and one
arrive, and a fourth lets a freed one come back. Two descriptors with numbers
below and above the wake eventfd cover every position in the walk over the
list, and a third registration replaces one while its event is under way. The
buffer holds more events than there are descriptors, as in the program (16,
with one descriptor). A pool of two with three callers has one that creates,
one that waits and one that comes too late for a slot. With 2 fast bits of 5
there are codes below, at and above the border of the table, and with blocks of
2 by 2 references to each earlier place of a block and before its first pixel.
The worlds have chunks out of order, empty, repeated, last, too many and
missing, and widths that are halved, padded and kept. A limit of 4 is reached by
each kind of item at its first and its last unit.

Deadlock checking is off in `eventfd`, where everything stops once the budget
is used up; in `looper`, where the process may die or the application has
no descriptor left and nothing to poll for; in `pthr`, whose threads may well
wait for each other; in `game`, where loading may end the program; and in
`runtime`, whose parts come to their end.

Fairness. `EventFd`: a waiting thread wakes up every 10 ms and looks (WF of its
retry); whether it succeeds is up to the others. `Looper`: its thread is
scheduled, callbacks return, and the application polls again and again, as
native_app_glue's loop does (WF of `Polling` and `Polls`); no fairness is
assumed of the descriptors or of other threads. `InputDelivery`: threads are
scheduled (WF), and who keeps asking for `mLock` gets it (SF): its holders
leave after a few instructions and then sleep 16 ms or wait. `Ptch`: the program
runs on, and is started again after a crash (WF of `Run`). `Startup`: the three
threads are scheduled (WF) and get the pool mutex when they ask again and again
(SF); nothing is assumed of the player. The other runs check safety only.

## 4. Where the code and its documents disagree

`looper_called_twice`: with a timeout above zero the wait walks over the list
until the time is up and reports a ready descriptor on each walk. `pollInner`
then holds several responses for one registration, and its loop calls the
callback again after it returned 0, contrary to ALooper.h:208-210.

What follows was met while modelling and is in the models where it says so, but
has no run of its own.

* *Looper and epoll.* Adding a registered descriptor again reaches
  `EPOLL_CTL_MOD`, which looks up the wrong key and throws `std::out_of_range`
  (PseudoEpoll.cpp:193), contrary to ALooper.h:174 (`AddFdAgain`). A registration
  from another thread changes the interest list while the wait loop walks over
  it (`dies` of `AddFd` and `RemoveFd`), although ALooper.h:195 allows it. A wait
  with a negative timeout other than -1 does not end when an event appears
  (`WaitEnds`), contrary to ALooper.h:139.
* *File patcher.* A crash while the backup is written leaves a partial one; the
  next start finds it, takes it for the backup and patches the target, contrary
  to README.md:15 (reachable with `TornWrites`; the theorem `BackupComesFirst`
  needs their absence). A crash while a target is written leaves it short; no
  patch accepts it any more and nothing restores it. When the line of an earlier
  of two overlapping patches is lost, it is applied again over the later one.
* *Shader.* A start that is killed, or fails to save, after the backup was made
  leaves the shader unpatched for ever: the backup counts as the mark.
* *pthreads.* The lock of the registry can be created twice (pthr.c:46). Memory
  of an object that was never destroyed keeps its slot, so that another object
  there passes for initialised (pthr.c:64). A second caller of `pthread_once`
  returns before the routine is through (pthr.c:399). `sem_timedwait` with a
  deadline ahead gives up after a millisecond, and with one that is past waits
  more than an hour (`GiveUp`).
* *Controls.* A pad that the second detection does not find again is not sampled
  any more, and the game never hears that its buttons were released. A sample
  that fails is read from the stack as it is.
* *Pools.* Threads that wait while the creation of a mutex fails do not try
  again (`StopWaiting`, `Check`).
* *JNI.* The length that `GetStringUTFLength` returns counts UTF-16 units.
  `NewStringUTF` of a text that is not ASCII leaves units undefined behind it,
  and `NewString` of one cuts what `GetStringUTFChars` returns. `getLocale`
  allocates one byte too few. Monitors do nothing.
* *Loader.* "data before text" and "too many data segments" end the loading with
  a result that init.c logs as a success. A symbol found in `default_dynlib`
  replaces that of a dependency; this is what lets the port's `malloc` win. The
  hooks in libxmv are installed after its flush. `so_file_load` leaks its file
  when memory is refused.
* *World.* A segment is marked allocated before anything is read, and a texture
  that could not be created is used. A texture of a width of 32 has a pitch of
  64 in its header and rows of 32 in memory.
* *Imports.* `fileno`, `fseeko`, `ftello`, `rewind`, `tmpfile` and two more are
  newlib's but get streams of sceLibc (the TODO at dynlib.c:986), and
  `ov_open`/`ov_test` take vitasdk's: `StrayStreams`. `write`, `fstat`, `dup` and
  `ftruncate` of a file in the archive reach newlib.
* *Errors.* "errno = 0" in the game changes the entry of the shared table and
  never newlib's errno (`Errno`).
* *Formatting.* A format that ends in a single % is read past its end, and more
  than seven specifiers read past the arguments.

## 5. Proofs

The theorems are in the eight modules `...Proofs`; they hold for any
number of threads, events, descriptors, objects, files and so on, under the assumptions
the modules state on their constants (`ASSUME`; TLC evaluates them in the runs).

*Eventfd* (`PollingProofs`). That written = taken + value is not inductive by
itself: a retry trusts the slot and the count it recorded before it slept
(`WaitersInUse`), a new descriptor that nothing was ever handed out of its slot
(`FreeSlotsAreFresh`). Two lemmas on a single counter, one on each way to change
it, and `CountsAlwaysConserved`.

*Pools* (`RuntimeProofs`). At most one thread is between the compare-and-swap and
the end of the creation, it is there exactly while the flag is 1 (`OneCreator`),
it has cleared the pool before it sets the flag to 2 (`CreatedFirst`), and the
flag then stays 2 (`Open`); a number is given only after that (`Numbers`). From
it, `NumbersAlwaysStay`: the refused creations, after which the election starts
anew, cannot wipe out a number.

*Input queue* (`InputQueueProofs`). `ReadableIffPending` says nothing of the
states in which somebody is inside. `IInv` adds who is in the critical section
(`LockHeld`: exactly the lock holder), what each kind of thread can be doing
(`Roles`), what it holds in its hand (`Hands`), and, for each point inside, what
the counter owes the vector (`Tokens`: a producer about to signal found the
vector empty and the counter at zero; a consumer about to drain left it empty
with the counter at one). One lemma per action. From it follow `TypeCorrect`,
`NoLostWakeup`, `Ownership`, and `Refinement`: each step is a step or a stutter
of `NotifyQueue`, the linearisation points being the steps on the vector for
enqueue and getEvent. The fairness of `NotifyQueue` is none, so this is all of
it.

*Looper* (`LooperProofs`). `IInv` is `Registry` (the two maps are inverse to each
other, the interest list is the wake eventfd plus one entry per registration,
numbers in use are below `mNextRequestSeq`) and `Reports` (a reported number
belongs to the descriptor it was found under, or is no longer in use, and is
below `mNextRequestSeq`, so that it is never given out again). From it follow
`RegistrationsStayInSync`, `ReportsNameTheirFd` and `CallbackEndsItself`. That an
ended registration is not called again (`EndedIsNotCalledAgain`) has the hypothesis
that polls do not wait or wait for ever, as without it the property is false
(section 4). `CallInv` then has one report for a registration on each walk over
the interest list (`OneReportEach`), so one response in a poll
(`OneResponseEach`), and the callback loop has passed it when the registration
ends (`NoneRetiredAhead`).
The proof does not need `MaxSeq`: sequence numbers are taken as unbounded, while
the code's are 64 bits wide and cannot wrap in the life of a process.

*File patcher* (`ContentsProofs`). `Inv` is the type
invariant and what each place in the code knows: `Disk` (each byte of a target of
full length is installed or patched, and each logged patch is in its file),
`Applying`, `Saving` and `Marking` (what `data` holds relative to the target). From
it follow `TypeCorrect`, `LogIsTrue` and `NoPartialPatch` with torn writes and
errors. Two more invariants, `BackupInv` and `WholeBackupInv`, give `BackupSafe`
(no I/O errors) and `BackupComesFirst` (nor torn writes).

*pthread objects* (`PthrProofs`). Exclusion depends on each call having found the
right real object, several steps before it uses it. `IInv` follows an object that
is not spoiled through its life: a static initialiser; one thread that
initialises it, alone (`InitAlone`); one slot of the registry, with a real object
that is all its own (`OneBed`, `OwnBlocks`, `Fresh`); and back when it is
destroyed, which nobody who still uses it can see. Owner, depth and waiters of
the real object are then what the threads believe (`WaitsWithMutex`,
`SleeperBlocks`). About spoiled objects it says only that their blocks are no one
else's, which is enough: they cannot do harm to others. The calls on real
objects leave all of this alone, which is one lemma (`Calm`) for all of them.
From it `MutexesExclude`, `SignalsAlwaysReachWaiters`, `RegisteredIsAlwaysUsable`.

*Semaphores and threads* (`RuntimeProofs`). `TokensAreConserved` rests on one
fact, that the first token ends a wait whatever it is made of;
`StacksAreAlwaysReclaimed` on what the attributes hold being what was asked for,
through both swaps of the constants.

*Shader and frames* (`RuntimeProofs`). The two files go through five states, in
this order, and no start goes back (`OnCard`); what the program has in memory
fits the state (`InMemory`): `ShaderAlwaysKept`. For the frames, what was
delivered are the frames up to the pending one, and whoever draws has rows as
long as the decoder's: `FramesStayInOrder`.

*Pipe and start-up* (`PollingProofs`). `ReadsNeverWait` follows the belief that
there is a command from the pipe to the read: each report in the flag, in the
responses of the looper and in the hand of the application is about a command of
its own (`Enough`, `Reported`), although the flag itself does not follow the
contents, and a writer that holds the mutex has not changed the pipe yet
(`Writing`). It holds for a pipe of any size and any number of pads.

*Input delivery* (`InputDeliveryProofs`). `RegistryInv` says that the list of the
queue, the two maps of the looper and the interest list name the same
registrations: `AttachedMeansRegistered`, for any timeouts. `Believed` says of
everything that claims there is input (the eventfd, the buffer of the wait,
`mResponses`, the result of the poll) that it is true while the application thread
is in the poll, since no one else takes an event out: `PollsTellTheTruth`. Its
hypothesis is that no timeout is positive: with one, the wait reports a ready
descriptor on every walk (section 4), and a later poll answers with a response to
an event that was fetched long ago.
Two theorems are about the parts: the queue of the composition takes only steps
of `InputQueue` (`QueueBehavesAsSpecified`), the looper only steps of `Looper`
(`LooperBehavesAsSpecified`), so that what is proved of either holds in the whole.

*Imports, files, formatting, errors* (`RuntimeProofs`). `ImportsInv` ties the
number of each held file to the layer that gave it, because each layer numbers
from a place of its own and takes the first number that is free, as long as no
more than 64 things are held (`LayersAlwaysAgree`). `FilesInv` has for every
open asset which blocks were read ahead, which of them are still to be given out
and who owns the slot (`AssetsAreReadInOrder`). `FormatterInv` is an invariant of
the loop over the items of any format: what was written is a beginning of the
text, up to the item and unit it has come to, and shorter than the limit
(`TextAlwaysFits`). `ErrnoInv`
has the entry of the table that each thread reads, and who stored to it last
(`ErrorsStayTranslated`).

*Hooks* (`GameProofs`, `HookInv`). Each thread's stack is a hook, SO_CONTINUE and an
original, nested at most twice (`Nested`), of functions that its thread may call
while it has the loading mutex or not (`Owns`, `Mutex`). As no function belongs to
both threads at once, the words of a hooked function are exactly what the one frame that
works on it has made of them (`Words`). From it `HooksAlwaysHold`: no call meets
restored words, and the patch is back when nobody is inside.

*JNI bridge* (`ContentsProofs`). `TextIsBack`: the bytes of a text, converted to
UTF-16 and back, are the same. The loops are recursive functions. That such a
function exists (`TurnsExist`) and what holds after each turn go by the least turn for
which it fails, with the library's well-foundedness of the naturals; a turn of
the way back writes the character that the same turn of the way there
has read (`HasWritten`), and turns behind the last character, over units that were never written, write at most
the byte that the terminator then replaces. `JniInv` follows the buffer
through its readers: alone with the string, a reader finds the text in it after
its conversion, and an ASCII text is in it at every step of everyone
(`Held`, `Read`); who is not alone knows (`OverlapsKnown`). From it
`CopiesAreAlwaysExact`, for any number of threads and any well formed texts, and,
from the tables of the code, `MethodsAlwaysAnswer`.

*Linking* (`GameProofs`, `LoadInv`). A place is linked to another library of
the list, and every library of the list but the one that is being loaded is through
its constructors, so that only such libraries are ever linked to (`Order`,
`Linked`): `CallsAlwaysReachReadyCode`, for any contents of the five libraries.

*Addresses* (`GameProofs`, `RoomInv`). Everything allocated ends below a page that the
stage of the loader determines (`FreePage`), and blocks are only ever added
there: after each segment its end, before each library the arena below it. That
a library ends below the arena of the next one is arithmetic on the addresses
and sizes of init.c. `LibrariesAlwaysFit`, for any files within those sizes.

*World* (`GameProofs`, `WorldInv`). The header in memory changes while it is read
(offsets become addresses), what was saved does not (`Header`); chunks before the
current one are done and those after it not begun (`Chunks`); in the current one
there are as many textures as the loader has come to (`Current`). With it, that
the next offset of a chunk is the least larger one whatever their order
(`ChunkReachesNext`), that a buffer is granted only when there is a file
(`BufferMeansFile`) and that the pitch holds a row (`PitchHoldsRow`), follow
`ChunksAreAlwaysReadWhole` and `WorldsAreLoadedUnlessDenied`, wherever memory is
refused. Assumed (`WorldsAssumption`): a header's offsets lie in its file, sizes of
textures have 16 bits, their blocks are in a canonical code (`IsTexture`), and a
file that is not there, whose seek returns 2^32-1, asks for a buffer larger than
the memory.

*Decoding* (`GameProofs`, `DecodedInv`). `BlockIsDecoded`, for codes, words, tables
and blocks of any size: the word at the start of a command begins with the
command's code, though it may reach into a second word of the stream (`WordAtIs`,
from `BitsAcross`, and `SameBits`: numbers with equal bits are equal); with that
code before it no shorter length fits, since a code leaves all later and longer
ones above it (`LaterCode`, `NoneIsShorter`); so the table entry, or the search
bit by bit when there is none, is the command's (`DecodeIs`), and its pixel is the
one meant (`PixelIs`). The powers of two are a recursive function, because of
2^n with a variable n the provers know nothing; what they need is proved of it
from quotients. The loop over the pixels goes by the least pixel that is wrong.
`SampledIs` does the arithmetic of the 16.16 steps. From both,
`BlocksAreAlwaysDecoded`.

The invariants of `Game`, `InputDelivery`, `Looper` and `FalsoJNI` were checked by TLC
on the configurations of their runs before they were proved. Only the liveness
properties are model-checked alone: like ENABLED they are out of the prover's reach.

## 6. Not modelled

* Third-party and generated code: SHA-1, elf.h, jni.h, the list of files, the
  kernel, vitaGL, pthread-embedded (modelled by contract where it is called).
* Code that is compiled and not reached: `WriteCommand_Optimized` (so_patch
  never installs it), the hooks of memory.h and frustum_culling.h, the hooks on
  frame start, end and swap, `patch_shadow_resolution`, the trophies, the profiler,
  `pollTouch`, `so_mem_load`, `so_resolve_with_dummy`, `so_symbol_fix_ldmia`,
  `hook_thumb` (the game is ARM code), dll_psp2.c; `patch_ogg` is not compiled.
* Constants and forwarding: the set-up calls of egl.c and glutil.c, the values of
  sensors and configuration, the entries of the import table that deal in plain
  values, what a JNI method of the game answers.
* The thread in main.c that looks for the cheat buttons: a third sampler of the
  pads, which changes no state that the other two read.
* Floating point and pixels: deadzones, averaging of colours, palettes,
  swizzling, shaders. TLC does not reach them and the state they keep is not the
  program's own.
* Dialogs, settings, logger: input and output. The logger's lazily created lock
  is a fourth copy of the one in `FdPools`.

## 7. What is left

1. `PseudoEpoll` with several instances and the data race as more than the
   outcome "dead"; `ALooper_forThread`.
2. A model of `pthread_once` and of the creation of the registry's lock, which
   section 4 only describes, and theorems about what still holds of an object
   whose first use was raced.
3. The cheat buttons in `Startup`, with a smaller set of things the player does.
