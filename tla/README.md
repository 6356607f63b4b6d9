# HigeMaster in TLA+

HigeMaster is an iOS app that takes or picks a photo, finds the faces in it and
puts beards (*hige*) on them. Its repository also carries dlib, a C++ library.
This directory holds TLA+ modules translated from the app's Swift source and
from dlib's thread primitives, TLC configurations that check them on small
instances, and TLAPS proofs of their main properties for all values of the
parameters.

Run inside this directory: `tlc -config ScreenFlow.cfg MCScreenFlow` checks one
instance, `tlapm ScreenFlow_proofs.tla` checks the proofs of one module.
`PROJECT.json` lists the components, the runs, the mutants that show each
property can fail, the source lines behind each definition, the hazards and the
theorems.

## 1. The system

### The app

1,769 lines of Swift under `src/HigeMaster`: three view controllers in one
navigation stack, a camera helper, and a copy of the CoreMLHelpers library.

| Component | State it keeps | Operations | Works with |
| --- | --- | --- | --- |
| Camera (`Scenes/ViewController.swift`, `Helper/CameraHelper.swift`) | `AVCaptureSession` (running, inputs, outputs), `imageOutput`, `cameraFlag`, preview layers in `cameraView` | `viewDidAppear`, `viewDidDisappear`, `pushChangeCameraBtn`, `setupCamera`, `createView` | UIKit's lifecycle calls; the camera permission, which outlives the process |
| Navigation and images (`ViewController`, `PreviewViewController`, `EditViewController`, `Main.storyboard`) | the navigation stack, what is presented over it, `ViewController.image`, each scene's own `image`, captures in flight | shutter, picker and its delegate, `prepare(for:)`, OK, back, cancel, share | starts and stops the camera by covering and uncovering its scene; takes photos from the camera helper's callback |
| Preview (`PreviewViewController`) | `image` | OK, back; face detection is commented out | part of the navigation |
| Editor (`EditViewController`) | `mode`, `sizeSlider.value`, `sizeRatio`, `autoImageRect`, `selectedHige`, `imageView.image`, `manualStampViews`, `imageView.subviews` | `viewDidLoad`, the two mode buttons, `changeSize`, `didSelectItemAt`, `touchesMoved` | Vision finds the faces; cancel and share are navigation |
| Non-maximum suppression (`CoreMLHelpers/NonMaxSuppression.swift`) | none between calls; the loops' locals | `IOU`, two overloads of `nonMaxSuppression`, `nonMaxSuppressionMultiClass` | compiled, called by nothing in the app |
| Photo cropping (`UIImage.croppingCenterSquare`) | none | crops to the centre square | the shutter's callback |
| MultiArray, pixel buffers, predictions and arrays (the rest of `CoreMLHelpers`) | strided views of one storage; locked buffers and malloc'ed memory | transpose, reshape, subscripts; create, resize, rotate; top, argmax, gather | compiled, called by nothing in the app |
| Gesture image view (`Extensions/UIImageView+Gesture.swift`) | `beforePoint`, `currentScale`, `transform` | pan, pinch, tap | never instantiated |
| Camera type, application shell | none | one lookup; empty delegate methods; a cell with one outlet | |

### dlib

`src/lib/dlib` is vendored: the Xcode project has it on a header search path,
builds no file of it, and the app calls none of it. It is most of the
repository, though, and its thread primitives are where the repository's real
concurrency lies. The ones modelled:

| Component | State it keeps | Operations | Used by |
| --- | --- | --- | --- |
| `pipe` (`pipe/pipe_kernel_1.h`) | a ring of items (`pipe_size`, `first`, `last`, `data`), three enable flags, three counters of waiters, a mutex and three signalers | `enqueue`, `enqueue_or_timeout`, `dequeue`, `dequeue_or_timeout`, `wait_until_empty`, `wait_for_num_blocked_dequeues`, `empty`, the enabling and disabling calls, the destructor | `bridge`, the distributed SVM solver, the network trainer |
| `read_write_mutex` (`threads/read_write_mutex_extension.h`) | `available_locks`, `write_lock_in_progress`, `write_lock_active`, the gathering thread's `locks_obtained` | `lock`, `unlock`, `lock_readonly`, `unlock_readonly` | nothing in dlib but its `auto_` classes |
| `rmutex`, `rsignaler` (`threads/rmutex_extension.h`, `rsignaler_extension.h`) | owner and depth; the signaler's own mutex | `lock(times)`, `unlock(times)`; `wait`, `wait_or_timeout`, `signal`, `broadcast` | `multithreaded_object`, the logger, the GUI and server classes |
| `thread_pool` (`threads/thread_pool_extension.cpp`) | one slot per worker (`task_id`, `is_being_processed`, `thread_id`, `eptr`, `next_task_id`), two signalers | `add_task`, `wait_for_task`, `wait_for_all_tasks`, the workers' loop, the destructor | `parallel_for`, `async`, the trainers |
| `threaded_object` (`threads/threaded_object_extension.cpp`) | `is_running_`, `is_alive_`, `should_stop_`, `should_respawn_` | `start`, `restart`, `set_respawn`, `pause`, `stop`, `wait`, `should_stop`, `thread_helper` | `timer_global_clock`, `dnn_trainer` |

### What is hard here, and what must hold

**In the app** everything runs on the main thread, so a handler is never
interrupted. What is hard is what happens *between* handlers. `viewDidAppear`
and `viewDidDisappear` arrive when a transition ends; a photo arrives an
arbitrary time after the shutter was pressed; the completion of the picker's
dismissal arrives after the dismissal. Each of them acts on whatever screen the
user has reached by then.

* **Camera.** The session must stream from exactly one camera exactly while the
  scene is up. `canAddInput` silently refuses a second camera, so one release
  missed on any path would leave the wrong camera for good. `cameraFlag` can go
  stale; it must go stale in one harmless direction only. Access that is denied
  in the alert must open no second camera, and a process launched under the
  denial must do nothing at all.
* **Navigation.** However photos, dismissals and transitions are ordered, the
  lifecycle calls must balance, the shutter must find a connected session
  (`capturePhoto` raises otherwise), no camera may stay on under another scene,
  an editor must keep the image of the preview it was opened from, and a picked
  image must not silently vanish.
* **Editor.** Three handlers draw the picture from three variables, and a stale
  one would go unnoticed until the image is shared. The slider serves two modes
  and is reset by each change of mode. `touchesMoved` tests the finger's
  previous location against a frame it has just moved, and reorders the views
  while it walks over the stamps.
* **Suppression.** `sorted` need not be stable, overlap is compared strictly,
  empty boxes overlap nothing, and two caps follow each other: whatever is left
  out must be left out for a reason that the caller can see in the result.

**In dlib** every class is a monitor: one mutex, and loops that wait on
signalers. What is hard is what happens between a signal and the moment the
thread it woke has the mutex again, and the notifications that the code leaves
out because a counter says that nobody listens.

* **Pipe.** With `max_size` 0 an item lies on offer between two waits of its
  `enqueue`, while other threads enqueue, time out, disable or destroy the pipe.
  No item may be lost, doubled or changed; nobody may sleep on what is there;
  the destructor may free `data` only when the last call has left.
* **read_write_mutex.** A writer gathers the readers' locks over several waits.
  No lock may be lost or made on the way, and the writer must be alone.
* **rmutex, rsignaler.** An unlock wakes one thread, and another may take the
  lock first. `wait` unlocks before it sleeps, and must not miss a broadcast in
  between.
* **thread_pool.** Slots are reused while threads still wait for the task they
  held; tasks add tasks and wait for them on the pool's own threads; an
  exception stays in its slot until somebody is there to take it.
* **threaded_object.** A `restart` may come after `thread()` has returned and
  before the thread has ended, or before it has begun. No run asked for may be
  lost, and a paused thread must hear `stop`.

## 2. The modules

| Module | Models |
| --- | --- |
| `CameraLease` | what the camera scene promises: at most one camera leased at a time, each lease starting with the back one |
| `CaptureSession` | the camera of `ViewController` and `CameraHelper` |
| `ScreenFlow` | extends `CaptureSession`: the navigation, the picker, the share sheet, captures in flight, the images |
| `EditScene` | `EditViewController` once loaded |
| `NonMaxSuppression` | the loop of `nonMaxSuppression` |
| `MultiClassSuppression` | extends `NonMaxSuppression`: the loop over the classes around it |
| `PipeContract` | what `dlib::pipe` promises of the items: a bounded queue, or a hand-over |
| `Pipe` | `dlib::pipe`, shown to implement `PipeContract` |
| `ReadWriteMutex` | `dlib::read_write_mutex` |
| `RecursiveLock` | `dlib::rmutex` with `dlib::rsignaler` |
| `ThreadPool` | `dlib::thread_pool` |
| `ThreadedObject` | `dlib::threaded_object` |
| `X_proofs` | the theorems about module X; those about `CaptureSession` are in `ScreenFlow_proofs`, those about `NonMaxSuppression` in `MultiClassSuppression_proofs`, where the larger modules build on them |
| `MCX` | names the values that X's configurations give its constants |

A mutant (an operator whose comment says "Mutant") stands beside the definition
it replaces. It is no part of a specification.

### CaptureSession

`session` is a record of `isRunning`, the positions of the inputs, and the
outputs. `CreateView` is `CameraHelper.createView` with its two `canAdd` tests;
`SetupCamera` is `setupCamera`, with its `fatalError` when the device has no
such camera and the trap of `try!` when access was denied; `ReleaseSession` is
`stopRunning` and the two removal loops that `viewDidDisappear` and
`pushChangeCameraBtn` share. `ViewDidAppear`, `ViewDidDisappear` and
`PushChangeCameraBtn` are those handlers whole. A trap leaves the process dead
until `CameraRelaunch`, after which only the permission is what it was.
`AnswerPrompt` is the system's permission alert. `layers` counts the preview
layers, up to `LayerCap`.

Standing alone, the module lets UIKit alternate the two lifecycle calls freely.

### ScreenFlow

Every step of the app is an action here, and each that touches the camera
*is* the camera's action conjoined with what it does to the screens:
`DeliverAppear` contains `ViewDidAppear`, `ChangeCamera` contains
`PushChangeCameraBtn`. The model's own state:

* `stack`, the scenes pushed on `ViewController`, each with the image that
  `prepare(for:)` gave it;
* `modal`, the picker, its dismissal under way, or the share sheet;
* `pending`, the lifecycle calls UIKit owes `ViewController`;
* `image`, `ViewController.image`, told apart by the order of acquisition and
  by being nil (the picker's `as? UIImage` can fail);
* `inFlight`, the captures not yet answered.

A capture is answered by `PhotoDelivered`, by `PhotoDropped` (the callback only
prints) or by `PhotoTraps`: the callback unwraps `UIImage(data:)`, `cgImage` and
`cropping(to:)` by force (`CameraHelper.swift:63`, `71`, `82`), and ends the app
on data that is no image or cannot be cropped.

`acquired` and `picked` are history variables: `acquired` numbers the images and
`picked` remembers what the picker returned, for `PickNotLost` and
`PickEndsInPreview`, which speak of that very image.

Assumptions about UIKit and AVFoundation, none of which is in the source:

* Handlers, the photo callback included, run on the main thread.
* Touches do not reach the app during a transition, under a modal screen, or
  under the permission alert; callbacks do.
* The picker is full-screen (the iOS of this project's SDK), so it makes the
  scene under it disappear and reappear. The share sheet does not.
* The completion of `dismiss` comes after the `viewDidAppear` of what the
  dismissal uncovers.
* A capture in flight when the session is stopped answers with a photo or with
  an error, once.
* `Preview` hides its back button and `Edit` replaces its own, so the app's
  buttons are the only way back (`Main.storyboard`).

### EditScene

Everything after `viewDidLoad`. Vision's answer is an input: `FoundRects` is any
number of faces with lips, up to `MaxFaces`. The picture is a record of what was
drawn, with which template and at which size, for every rectangle. A stamp is a
centre and a scale.

Drags are modelled in one dimension: containment in a frame and translation are
the same in each coordinate, and the hazards (a finger that outruns a frame it
moved itself, a stamp dragged out of reach) arise in one. Sizes are counted in
`1/SliderMax` of the original, so `2 * slider` is the code's
`sender.value * 2.0`, and the middle of the slider is scale 1. A stamp is
centred at `imageView.center`, which the code takes in the superview's
coordinates and uses in `imageView`'s own: that offset is kept.

`held` is a history variable: the stamps the last move carried. It is emptied
when a touch begins or ends and when a slide resizes the stamps.

### NonMaxSuppression and MultiClassSuppression

One iteration of a loop is one step. `SortedByScore` is every result `sorted`
may return, since it need not be stable. Scores and coordinates are whole
numbers and an IOU is a fraction compared by cross-multiplication: rounding in
`Float` is not modelled. The overload with indices is `Call`, which
`nonMaxSuppression` uses with all of them and the multi-class function with the
boxes of one class over the score threshold.

Each of these stands alone: `SuppressionSpec` is one call of
`nonMaxSuppression`, `MultiSpec` one of `nonMaxSuppressionMultiClass`, which
contains a call of the former for each class.

### The dlib modules

They share one way of modelling. A call holds the object's mutex from its start
to its end except inside `wait()`, so it is a sequence of atomic *segments*: from
the start to the first wait or the return, and from each wake-up to the next
wait or the return. A segment is one action: `Enqueue` is the call's first
segment, `EnqueueResumes` each later one. A signaler is the set of the threads
asleep on it: `wait()` adds the caller, `signal()` removes any one member (or
none, if there is none), `broadcast()` removes them all. `WakesUnasked` removes
a thread at any time, as POSIX allows. A thread that has left the set runs its
loop's test again when its resuming action is taken, and any other thread may
come first. A wait with a timeout can end by `TimeRunsOut` at any time.

* **Pipe.** `call[t]` is the call that `t` is in and its locals: the item, how
  long it may wait ("forever", "some" time, "none" for a timeout of 0), whether
  the time ran out. The second loop of an `enqueue` on a pipe of size 0, which
  waits for its item to be taken, is a place of its own ("offer"):
  `OfferWaits`, `OfferTaken`, `OfferWithdrawn`. `Destroy` and `DestroyResumes`
  are the destructor; no call begins after it has. `taken` and `outcome` are
  history: what `dequeue` returned, and what each `enqueue` was told. They are
  the variables of `PipeContract`, whose `queue` is the ring read from `first`,
  or the item on offer (`Queue`).
* **ReadWriteMutex.** `at[t]` is where a thread is; `reading` the readonly
  locks held, so that a thread may hold several. `locks_obtained` is the local
  of the one thread that gathers. Only a holder calls `unlock` or
  `unlock_readonly` here, so the branches in which the code ignores a stray
  unlock (`read_write_mutex_extension.h:108`, `138`) are never taken, and nothing
  is claimed of them.
* **RecursiveLock.** `Claim` is `lock(times)` and `Release` is `unlock(times)`,
  by anyone. `wait` is the sequence it is in the code: take the signaler's own
  mutex, unlock the rmutex completely, sleep, give the signaler's mutex back,
  lock the rmutex as often as before. The signaler's mutex is the variable `m`,
  because it is held over several segments. `owned` is history: the locks a
  thread was given and kept. The threads use the pair as a condition variable:
  `news` is data under the rmutex.
* **ThreadPool.** `stack[t]` is what a thread runs: a worker's task, and on top
  of it the tasks it runs inside its own `add_task` when no slot is empty. A task
  does any sequence of calls to its pool and ends or throws. `Structured` is a
  restriction on the tasks, not on the pool: a task awaits what it has added
  before it ends. The destructor ends "closed" or, when an exception that nobody
  took is left in a slot, "aborted": `shutdown_pool` then throws out of the
  destructor (`thread_pool_extension.cpp:68-71`). `CallsReturn` counts either as
  an end.
* **ThreadedObject.** A runner is a thread in `thread_helper()`, a controller a
  thread that calls the object; both are identities that TLC may exchange.
  `create_new_thread` may fail. `thread()` is any function that asks
  `should_stop()` and returns some time. `owed`, `asked` and `runs` are history:
  a run asked for and not begun, the runs asked for, the runs begun.

## 3. What is checked

| Run | Distinct states | What it shows |
| --- | ---: | --- |
| `screen_flow` | 5,850 | The whole app around the editor, the camera included: the session matches the scene, the calls balance, the shutter is always ready, each pick ends in a preview of its own or is displaced by a photo that is itself on screen, a denied access locks the user out, the camera implements `CameraLease`, comes on when its scene stays in sight and goes off when it stays covered |
| `release_drops_layers` | violated | The preview layers outlive the scene, against the comment "camera stop メモリ解放" (stop the camera, release memory) |
| `edit_scene` | 1,025,824 | The picture is never stale, a slider off its middle tells the sizes, every stamp is in `imageView` once, stays in reach, is not lost by a fast finger, and is raised in the order of placement |
| `suppression` | 5,767,093 | What a class keeps is apart, what it drops has a kept cause that is no worse, the caps keep the best, and every box missing from the result is explained by the result alone |
| `pipe_handover` | 77,754 | A pipe of size 0 keeps `PipeContract`; counters and indices are right until the destructor is through; no wake-up is lost; every call ends once the pipe is disabled, and an `enqueue` and a `dequeue` that are both there meet |
| `pipe_bounded` | 126,490 | A pipe of two slots keeps `PipeContract` and loses no wake-up |
| `pipe_timed_offer` | violated | `enqueue_or_timeout` on a pipe of size 0 can wait on after its time has run out |
| `read_write_mutex` | 21,861 | A writer is alone, no lock is lost or made, nobody sleeps without cause, and the mutex does not stay free while threads that can get it wait |
| `recursive_lock` | 7,795 | One owner at a time, the one signal of an unlock is never lost, and a broadcast that follows a `wait`'s unlock wakes it |
| `thread_pool` | 1,027,307 | Each task runs once, slots and ids are not confused, exceptions are not overwritten, a wait means what it says, nothing is left after the destructor |
| `thread_pool_returns` | 18,399 | Every call returns, and the destructor ends |
| `threaded_object` | 2,946 | One thread runs the object, a run asked for is made once, who sleeps has cause, `stop` ends the thread and releases who waits |

Deadlock is checked wherever the system should go on for ever. It is not in
`suppression`, whose function returns; in the pipe runs, where the items are
used up and the pipe is destroyed; and in the pool runs, where the tasks are
used up and the pool is closed. There `CallsEnd`, `EnqueueMeetsDequeue` and
`CallsReturn` say what must not stop.

### Bounds

* `screen_flow`: both cameras, three captures in flight, five images since
  launch. Two captures are enough for one photo to land on the preview, the
  editor, the picker or the dismissal that followed another, and the third lets
  both happen in a row; five images let three photos and a pick meet and leave
  room for one more. When the bound on images is reached the shutter and the
  picker are off, but nothing that the liveness properties wait for is.
  `LayerCap` is 2, for `DenialLocksOut` tells no camera opened, one, and more
  apart. A phone with one camera or none is left to the proofs, which take any
  `Devices`.
* `release_drops_layers`: layers counted to 3.
* `edit_scene`: two templates, one face, three stamps and three slider ticks
  (empty, original, double). Three stamps let a drag carry two and pick the third
  up on its way, and let one be resized and two not; one face and none tell the
  faces of the last call from those of an earlier one. The screen is one unit
  larger than the image, so that the two coordinate systems differ.
* `suppression`: all arrays of up to four predictions in two classes over four
  boxes: two overlap by exactly the threshold of a half, the third overlaps both
  by three quarters, and the fourth is empty and overlaps nothing, itself
  included. Scores 0 to 2, with 0 at the score threshold, so that ties are the
  rule. The cap of three per class is reached with a box left over when empty
  boxes are among the four, and the cap of two in total by any two that are
  apart. Since three survivors of a class are also more than the total, a box
  cut by the first cap is explained by the second as well in `LeftOutForCause`;
  only the theorem `MissingForCause` covers a total above the cap per class.
* `pipe_handover`: three threads and two items, so that a second `enqueue` finds
  another's item on offer while a `dequeue` comes or times out, and an item taken
  can be told from one still offered. `pipe_bounded`: two slots and three items,
  so that the pipe is empty, full and wrapped around; the threads are
  interchangeable, and symmetry is used, as that run has no liveness property.
  Items are used once each.
* `pipe_timed_offer`: two threads and one item.
* `read_write_mutex`: three locks and four threads that can hold two each: a
  writer that gathers over several waits, another that waits for it, and readers
  that come, go and come again.
* `recursive_lock`: three threads, depth 2: an owner, a sleeper and one that gets
  in between them.
* `thread_pool`: two callers, two workers, four tasks of which two throw, tasks
  that add and await tasks: slots are reused while somebody waits for the task
  they held, and a task finds no slot empty and runs its own inline.
  `thread_pool_returns` has one caller and three tasks, because liveness is
  checked without symmetry.
* `threaded_object`: one object, two controllers and three runs asked for. One
  thread is alive at a time, so a second runner is the next thread, created
  while the last one ends.

### Fairness

**The app.** `FairSpec` assumes weak fairness of `DeliverAppear`,
`DeliverDisappear`, `PhotoCallback` and `PickerDismissed`. All four are delivered
by the system once a transition or a capture that has been started ends, and
nothing in the app can hold them back. `PhotoCallback` may answer with an error.
Nothing is assumed of the user: no button is ever pressed, no alert answered.
The liveness properties allow for the process to end.

**dlib.** Weak fairness only, of what the operating system does and of what the
callers of a lock must do for anybody else to get it:

* a thread that is awake gets the mutex in the end (`Resumes`, `InWait`,
  `WorkerSteps`, `HelperSteps`), since no segment is endless;
* a timeout runs out (`TimeRunsOut`);
* who holds a read_write_mutex gives it back (`Releases`), and who has news
  broadcasts them (`Broadcast`);
* a task on a pool's worker awaits what it added and ends, and `thread()` asks
  `should_stop()` again and again: `threaded_object` asks that of it.

No thread is assumed to make a call. A wait without a timeout is never assumed
to end: that it does is what the properties say.

### What the code does that the properties had to allow for

In the app:

* `cameraFlag` is not reset by `viewDidAppear`, which always opens the back
  camera. After *front camera, photo, back* the first press of the change button
  re-opens the back camera. `FrontOnlyWithFlag` and `ChangeRealigns` say that
  this is all that can happen.
* A photo is shown wherever the user is when it arrives. Two quick presses stack
  two previews, and a photo can cover an open editor; cancelling an editor
  opened from that photo pops to the root and discards the edits beneath it.
* A photo that arrives while the picker is being dismissed replaces the picked
  image, and is then shown twice. `PickNotLost` says that the picked image is
  displaced only by a photo that is itself already on screen, and
  `PickEndsInPreview` that the dismissal ends in a preview pushed by its own
  completion, not merely above one that was there before.
* A pick without an edited image is shown as an empty preview, whose OK button
  then ends the app.
* A photo whose data is no image, or that cannot be cropped, ends the app from
  its callback, whatever scene the user has reached. No property forbids it: the
  ones on liveness allow for the end of the process.
* Once access to the camera is denied, every launch ends in `try!`. Denied in
  the alert, it leaves the camera on that the alert was about, and the next one
  opened traps. `DenialLocksOut` says that no second camera is opened, and that a
  process launched under the denial never gets past its first `viewDidAppear`,
  so that not even the photo library can be reached.
* Each visit to the camera scene, and each switch, leaves one more preview layer
  in `cameraView`: the finding of `release_drops_layers`.

In dlib:

* `enqueue_or_timeout` on a pipe of size 0 offers its item to a waiting `dequeue`
  and then waits without its timeout (`pipe_kernel_1.h:544`), so that it outlives
  its time if that `dequeue` times out first. `pipe_kernel_abstract.h:234-240`
  promises otherwise: the finding of `pipe_timed_offer`.
* `disable_dequeue` (`pipe_kernel_1.h:734`) does not wake `wait_until_empty`,
  whose loop tests the same flag: a thread asleep there stays asleep, although
  `pipe_kernel_abstract.h:99` says that it returns. `NoWakeUpLost` excepts this
  case by name, and fails without the exception.
* `wait_for_num_blocked_dequeues` is notified by a `dequeue` that is about to
  wait (lines 239, 438, 476), not by the one that empties the pipe later, while
  `pipe_kernel_abstract.h:109` asks for both conditions together. It returns once
  the pipe is disabled (`CallsEnd`); before, nothing is claimed of it.
* A thread that holds a readonly lock and asks for a second one, while a writer
  gathers, waits for the writer, which waits for it
  (`read_write_mutex_extension.h:123`). `SomeoneGetsIn` makes no promise to a
  thread in that position; and a writer may starve if readers keep coming.
* The locks that a gathering writer has in hand are not free to readers: a writer
  that waits for one reader keeps all new ones out.
* `should_respawn_` is not initialised by the constructor
  (`threaded_object_extension.cpp:17`), although
  `threaded_object_extension_abstract.h:16-19` promises that `should_respawn()`
  starts false. The model starts with either value. Every way to a run sets the
  flag first, and `ObjectSafe` shows that no run depends on it.

## 4. What is proved

`tlapm` checks 9,955 proof obligations, with no step left open.

**The camera** (`ScreenFlow_proofs`). `CameraInv` is the type invariant,
`SessionMatchesScene` and `FrontOnlyWithFlag`. `SessionMatchesScene` is not
inductive without the types, and it is what makes `SetupCamera` work: since a
session that is not running is empty, the `canAdd` tests of `createView`
succeed, and the setup ends with exactly the camera asked for (`SetupOnEmpty`).
From it follow the action property `ChangeRealigns`, and
`SessionImplementsLease`: every step of `CaptureSession` is a step of
`CameraLease` or leaves the lease alone.

**The app** (`ScreenFlow_proofs`). `StepIsCameraStep` shows that every step of
the app is a step of the camera or leaves it alone. So
`Spec => CameraSpec`, the camera's theorems hold of the whole app, and
`CameraInv` is at hand in the rest of the proof. `FlowInv` adds to it the types,
`LifecycleOK`, `StackShape`, `PickNotLost`, that an open picker still has room
for an image, that the share sheet lies over a scene, and that the shutter never
trapped. `LifecycleOK` is the heart: it lists the four shapes that the calls
owed can have. It needs the share sheet's conjunct (a sheet that closed over the
root would bring the camera scene back into sight without a call), and the types
need the picker's (a pick must not exceed the bound). With nothing owed,
`LifecycleOK` and `SessionMatchesScene` together give both `CaptureReady` and
`CameraOffWhenCovered`.

`DenialLocksOut` is not inductive, as nothing in it says what may happen while
the alert is up. `LockOut` adds that: as long as the permission is undetermined
the process has done nothing but wait for its first `viewDidAppear`, or has
opened one camera and shows the alert (`FirstAppearance`). The answer then finds
one layer, and from there on every setup traps (`DenialIsFinal`).

**The editor** (`EditScene_proofs`). `PictureFresh` is inductive alone.
`ModesApart` needs only the types of the stamps (`SizeTypes`), to know that
a move changes no scale. `SizesFollowSlider` needs `SizeTypes` as well; the
proof carries the witness `k`, how many stamps have been resized, through each
handler: a slide sets it to all of them, a new stamp leaves it, and a change of
mode makes the claim about the slider vacuous.

What a drag does needs more. `StampsHeld` says that the stamps in `held` are
under the finger now (`touchesMoved` moves a frame and the finger by the same
amount, and a stamp's centre is then at most its radius from where the finger
is), and from it follow `DragKeepsHold` and `StampsInReach`. A new stamp is in
reach because `EditAssumption` puts its centre, `imageView.center` read in the
wrong coordinates, on the screen: in `Main.storyboard` it lies 88 + 88 + 187.5
points down a screen of 812. `StampsShown` says that the subviews are the stamps,
each in one place. The loop of `touchesMoved` is a function on the stamps done so
far (`upTo` in `Raise`); `LoopRuns` shows that it exists, by the least number of
stamps for which it would not, and `RaiseOrders`, by the least step that would
break it, that after each step the stamps raised so far are in front in the
order of their numbers, and the others behind them as they were
(`RaisedInOrder`).

**The suppression** (`MultiClassSuppression_proofs`). `SuppressionInv` adds to the
three properties that the sorted indices go down (`SortedDown`) and that
whatever is selected stood before the loop's position (`SelectedSeen`): together
they make the next box no better than any selected one. `IOU` is shown to be
symmetric, which `SelectedApart` needs since the code compares each pair in one
order only.

**The classes** (`MultiClassSuppression_proofs`). The inner loop's steps are
those of `NonMaxSuppression`, so `SuppressionInv` comes from there
(`EachClassSuppressed`). `MultiInv` adds what the outer loop has reached: the
survivors of the classes done are apart (`SurvivorsApart`), and every prediction
of those classes over the threshold is a survivor or has a cause among them
(`SurvivorsForCause`). `KeepBest` then sorts and cuts: the sorted array is the
whole set of survivors once each, by counting (`SortedIsWhole`), so a survivor
that is not returned was cut by a full result that is no worse.

**pipe** (`Pipe_proofs`). Three layers, each resting on the one before.
`CallInv` is about the calls: the counters are the numbers of threads in each
class of calls, a thread sleeps on the signaler that its call waits on, nobody
is inside once the destructor is through. `StoreInv` is about the items: the ring
holds accepted items in order, each once (`RingInOrder`), each item belongs to
one call or to the pipe (`ItemsOwned`), and what lies on offer in a pipe of size
0 belongs to the one `enqueue` that offers it (`HandOver`). These two are
inductive together (`CoreKept`), and give `PipeInv`, and that every step is a
step of `PipeContract` or none (`PipeKeepsContract`). `WakeInv` adds the sleepers:
who sleeps in an `enqueue` or in `wait_until_empty` has cause; while a `dequeue`
sleeps, at least as many are awake and still wanting as there are items; and no
`dequeue` sleeps while dequeuing is disabled. The last is what makes the first
two inductive: when dequeuing is enabled again nobody may be asleep who missed
what came in between.

**thread_pool** (`ThreadPool_proofs`). Each step is first sorted into one of a
few kinds by what it does to the table of slots: it adds a task, takes one,
vacates a slot, closes, or leaves the table alone. `PoolIInv` then has a part per
question. `StacksFit`: what a thread runs is a task and, on top, the tasks it
runs inline. `ServedOnce`: a slot is marked as being processed while exactly one
worker serves it. `IdsKnown`: an id in use was given out by the slot it is
congruent to, before that slot's next id, so that no id comes back;
`NoneForgotten`: a task added is in the table under its adder's name, or has
ended, which is what a wait looks for (`WaitsMean`). `ReadyAnswered` (as many
workers awake as tasks ready) is a counting argument: a signal wakes one worker
per task added, unless none sleeps, and then the slots that nobody serves are no
more than the workers that serve none. Last, an exception can be lost only if a
task is placed over it, and `find_empty_task_slot` throws it first
(`ExceptionsKept`).

**read_write_mutex** (`ReadWriteMutex_proofs`). Mutual exclusion is counting.
`LocksConserved` says that the locks free, in the gatherer's hands and held by
readers make `MaxLocks`, or nothing at all while a writer is active: so nothing
is left for anybody else. For that the flags must say who gathers and
who writes, and that it is one thread (`GathererKnown`, `WriterKnown`).
`RWSleepForCause` is kept beside it.

**rmutex** (`RecursiveLock_proofs`). `Holding` says what a thread owns at each
place in `lock`, `unlock` and `wait`; with it `OneOwner` (the depth is what the
owner was given) and `SignalNotLost` (a free lock has an awake contender
whenever it has a sleeping one) are inductive.

**threaded_object** (`ThreadedObject_proofs`). A run asked for and not begun has
a helper that is on its way to it: about to begin, or with `should_respawn_` set
(`Ahead`, `OwedAhead`, `NoRunLost`). Each way is paid for by a call
(`AheadAsked`), so no run is made that nobody asked for. `is_alive_` is one
thread in `thread_helper()` (`AliveRuns`, `RunnerAlone`).

The theorems assume the `ASSUME`s of their modules and nothing else:
`DevicesAssumption` and `LayerCapAssumption` (a set of camera positions, a bound
of at least 1), `BoundsAssumption` (bounds that are numbers), `EditAssumption`
(at least one template, an even number of ticks so that the slider has a middle,
the image on the screen in portrait, as the storyboard lays it out, and so the
centre of a new stamp), `SuppressionAssumption` (boxes with whole,
non-negative sizes; a threshold with a positive denominator),
`MultiClassAssumption` (scores, thresholds and caps that are numbers),
`RWAssumption` and `RLAssumption` (at least one lock; a depth of at least one, an
id that no thread has), `TOAssumption` (a bound that is a number, a mark that is
no object), `PipeAssumption` (finitely many threads, a size and a number of items,
a mark that is no item), `PoolAssumption` (finitely many workers, none of them a
caller, bounds that are numbers). The finiteness is for the counting.

**Only model-checked.**

* Every liveness property: `CameraFollowsScene`, `PickEndsInPreview`, `CallsEnd`,
  `EnqueueMeetsDequeue`, `SomeoneGetsIn`, `WaiterHears`, `CallsReturn`,
  `StopReleases`. The prover has no rules for fairness.
* Nothing else: every invariant and every action property of a passing run is
  stated by a theorem.

## 5. What is not modelled

Of the app:

* **Photo cropping**: its traps are in `PhotoTraps`; its arithmetic, which puts
  the square in the centre of the photo, is not modelled.
* **MultiArray, pixel buffers, predictions and arrays, gesture image view,
  camera type**: compiled with the app and used by nothing in it.
* **Preview**: its face detection is commented out; its buttons are in
  `ScreenFlow`.
* **Application shell**: the template's empty delegate methods, a cell with one
  outlet. The end of the process is `Relaunch`.
* Pixels, geometry in two dimensions, `Float` rounding, memory warnings and
  rotation.

Of dlib:

* In the modelled classes: `future<>` and the pool without threads, which runs
  each task in the call; `lock(0)` and `unlock(0)` of `rmutex`, which lock and
  unlock nothing; the constructors' failures.
* The other threaded classes: `multithreaded_object`, `timer`, `timeout`,
  `parallel_for`, `thread_specific_data`, the `bsp` message passing. They are
  built on the five classes modelled and come next.
* The rest, which is nearly all of its lines: matrices, optimisation, networks
  and image processing, whose correctness is a matter of floating-point numbers
  that neither tool handles; GUI widgets, sockets and language wrappers, which are
  calls to the operating system; its tests and examples. The app builds and calls
  none of it.

## 6. Plan

Done, in this order: `CameraLease` and `CaptureSession`; `ScreenFlow` composed
with it; `EditScene`; `NonMaxSuppression`; `MultiClassSuppression`;
`PipeContract` and `Pipe`; `ReadWriteMutex`; `RecursiveLock`; `ThreadPool`;
`ThreadedObject`; the proofs, those of `Pipe` and `ThreadPool` last.

Next, to model:

1. **Timer**: `timer_global_clock` over `ThreadedObject`, with timers that are
   started, stopped and destroyed while their thread is on its way to them.
2. **MultithreadedObject** over `RecursiveLock`: threads that register, pause
   and stop together.
3. **HigeApp**: `ScreenFlow` with an `EditScene` per editor on the stack, so that
   "a late photo discards nothing of the editor it covers until a cancel does"
   becomes a property. Bounds: two editors, one face, one stamp.
4. **Bsp**: `receive` decides that nobody will send any more by counting messages
   through one node; senders, receivers and terminations in any order.
5. **MultiArray**: views (shape, strides) of one storage; `transposed` and
   `reshaped` as steps over a shared array. An abstract specification in which
   a view is a function from indices to cells; the question is which sequences
   of calls keep it a bijection, and what `reshaped` promises of a view that has
   been transposed (`MultiArray.swift:154`).
6. **PixelBuffers**: lock count and malloc'ed memory along every exit of
   `resizePixelBuffer`, `rotate90PixelBuffer` and `UIImage.pixelBuffer`, with
   each system call failing or not.
7. **GestureImage** and **Cropping**: pan, pinch and tap interleaved, and the
   translation a pinch forgets to reset; the centre square over odd and even
   sides.

Next, to prove: the invariants of each of these as it is modelled. Of the modules
there are, every invariant, action property and refinement is proved, and what is
left is liveness (section 4).
