# Astrofin: a TLA+ verification project

Astrofin is a desktop client for Jellyfin: a Rust program that hosts a Chromium
browser (CEF) for the web client and libmpv for playback, and ties the two
together. What is hard in it is not computation but agreement: mpv, the CEF UI
thread, a playback worker, a manager thread, background writers and the main
thread each keep a view of what is going on, and tell one another through
queues, callbacks and flags. This project models those agreements in TLA+,
checks them with TLC on small instances, and proves some of them with TLAPS.

Paths below are those of the repository; Rust sources are under `src/src/`.

## 1. Inventory

For each part: the state it keeps, its operations, whom it talks to, what is
hard about it, and what makes it correct.

### Playback (`playback`)

* **State machine** (`state_machine.rs`). Keeps the phase (Starting, Playing,
  Paused, Stopped), the play intent, the two causes of buffering, media type,
  position, frame availability, the item remembered for variant switches, and
  pending actions. One `on_*` handler per input, returning events. Inputs come
  from mpv's event stream and from the page, in any relative order. Correct if
  nothing of a session survives it, the promotion to Playing happens exactly
  when all its gates are open, and the events alone let a consumer follow.
* **Coordinator** (`coordinator.rs`, `ffi.rs`). An unbounded channel in front of
  one worker that owns the state machine; the worker applies inputs in batches,
  publishes one snapshot per batch and calls the sinks. Hard: handles cloned
  before a stop, batching (every event of a batch carries the batch's last
  snapshot), sinks that call back. Correct if sinks never run ahead of the
  public snapshot, everything accepted is applied, and stop returns.
* **Sinks** (`idle_inhibit_sink.rs`, `browser_sink.rs`, `theme_color_sink.rs`,
  `sink_core.rs` and the MPRIS, macOS and Windows media sessions). Each derives
  a state of its own from the events. Correct if that state agrees with the
  player whenever the worker is quiet.
* **A-B loop** (`ab_loop.rs`, `web/ab-loop.js`). mpv owns the points; the page
  asks for steps, which are checked against the pair last observed. Hard: four
  queues between a press and the redraw. Correct if a loop does not outlive its
  file and the page ends up drawing what mpv does.
* **Window mode** (`ingest.rs`, `ingest_driver.rs`, `ffi.rs`). Fullscreen and
  maximized reach the state machine by two digests, the first of which reads
  what the second stored. Hard: a reconcile at start-up beside the platform's.
* **Statistics** (`stats.rs`). Observations switched on and off by the page while
  values, and a push, are on their way. Correct if no change is forgotten.
* **Media session** (`sink_core.rs`, the sinks of `mpris` and of macOS and
  Windows). A queue per session, bounded for two of them, and a consumer that
  decides by the kind of an event with a snapshot that may be later. Correct if
  the desktop ends up showing what plays.
* **Shutdown flag** (`shutdown.rs`), **lifecycle messages** (`lifecycle.rs`).

### mpv (`mpv`)

* **Video modes** (`video_mode.rs`). A selected and an effective mode, the
  baseline read from mpv.conf, a memo of what was written. Hard: reads and
  writes are asynchronous and libmpv may refuse any. Correct if mpv ends up
  running the mode last applied and the baseline is the user's own.
* **Load** (`api.rs`, `business_web.rs`). A load leaves a track selection that
  the coordinator's worker applies once mpv has the file. One slot holds it, for
  all loads. Correct if a file plays with the tracks chosen for it.
* **Handle, commands** (`api.rs`, `boot.rs`, `handle.rs`), and pure decoding
  (`node.rs`, `event.rs`, `property.rs`).

### Browsers (`jfn_cef`)

* **Layers** (`browsers.rs`, `client/lifecycle.rs`, `client/tasks.rs`). A
  registry, a focus stack, and per layer the browser slot and the progress of a
  reset. Browsers are created and closed asynchronously. Hard: shutdown during
  creation or reset. Correct if no freed layer is named, resets end, and every
  browser is closed before what it uses is torn down, with nobody waiting for
  ever.
* **Size** (`window_sync.rs`): any thread that is woken pulls the window's size,
  swaps it into a cell and applies it. Correct if the last size wins.
* **Resize and paint** (`client/resize.rs`, `paint_scheduler.rs`): a resize told
  at most once per frame, a loop that asks for paints at a boosted rate until
  frames of the new size come. Correct if loop, rate and size settle.
* **Message handlers** (`business_*.rs`), **menus** (`menu_ownership.rs`,
  `sink_routing.rs`), **application and injection** (`app.rs`, `injection.rs`,
  `bridge*.rs`).

### Application (`jfn_rust`) and services

* **Manager** (`manager.rs`): takes visibility and power messages and the
  shutdown flag, folds them into a lifecycle state, tells the browsers their
  posture, runs the shutdown. Hard: two inputs, one of them writable from a
  signal handler. Correct if no wake-up is lost and shutdown is always reached.
* **Boot and teardown** (`app.rs`): the order everything else relies on.
* **Settings store** (`config`): the record in memory, a synchronous save, a
  coalescing background writer. Correct if the file ends with what was in memory.
* **Profile import** (`paths/migrate.rs`): copies a legacy profile by staging and
  rename. Hard: crashes at any step, other launches, refused operations. Correct
  if it is retried until done and loses nothing silently.
* **Single instance** (`instance_ipc`): make, probe, rebind and serve a name that
  outlives a crash. Correct if one instance runs, and holds the name.
* **Colours** (`color`): the page's theme colour against mpv's background, changed
  by the UI thread and by the coordinator's worker.
* **Mailbox** (`mailbox`), **wake events** (`wake_event`), **logging**, **device
  profile** (`jellyfin`, `js_json`).

### Platforms and the web side

* **Wayland** (`wayland`, `gpu_paint`). The root window's thread serves requests,
  configures and a scale that may be withheld until it maps a window that needs
  one; a layer actor draws the newest frame, copying the changed regions only.
* **X11** (`x11`). The geometry thread alone places the overlay windows, against a
  window manager that maps, places and withdraws managed windows late.
* **Menus** (`linux_util`). Four threads share an engine and one flushes its
  surface operations; popups are armed before a menu is known to open.
* **macOS** (`macos`). CEF's message pump is driven from outside: a source of the
  run loop for work due now, a timer for work due later, and a way out when CEF
  drops its requests. Correct if it never wedges.
* **Video player of the page** (`web/mpv-video-player.js`, `mpv-player-base.js`,
  `native-shim.js`). One thread between awaits; calls to the host and signals back
  cross on the way. Correct if the player acts upon what its file does.
* `windows`, `compositor_core`, `input`, `platform_abi`, the mpv proxies: not
  modelled (section 6). The other `web/*.js`, the audio player and the program's own
  pages, are modelled only where they meet a Rust module.

### How the parts interact

    page --message--> CEF UI thread --command--> mpv --event--> ingest thread
      ^                  |     |                                    |
      |                  |     +--post--> coordinator <----post-----+
      |                  |                 | worker: batch, publish, sinks
      +---push-----------|-----------------+--> page, idle inhibit, OS session
                         |
     signal, window, power --> manager --> browsers' posture, close, drain
                                  |
                            main thread: boot, park, save, teardown

`PROJECT.json` lists every component with its status, and the hazards of the
code with the properties that watch them.

## 2. Modules

| module | models | composed with |
|---|---|---|
| `PlaybackStateMachine` | `state_machine.rs`, all handlers | |
| `PlaybackCoordinator` | `coordinator.rs`, `ffi.rs` | extends the state machine, whose variables are the worker's |
| `PlaybackSinks` | idle-inhibit and page sinks | extends the coordinator: gives its sink stages an effect |
| `MediaSession` | `sink_core.rs`, the MPRIS, SMTC and now-playing sinks | extends the state machine |
| `SinkLocks` | the locks and joins of `ffi.rs`, `coordinator.rs`, `sink_core.rs` | |
| `PlayerLoad` | a load in `business_web.rs`, `api.rs` and the coordinator | |
| `ThemeColor` | `color/src/theme.rs` and who calls it | |
| `Stats` | `stats.rs` | |
| `WindowMode` | `ingest.rs`, `ingest_driver.rs`, `ffi.rs`: fullscreen and maximized | |
| `AbLoop` | `ab_loop.rs`, `ab-loop.js`, the clearing in a load | |
| `VideoMode` | `video_mode.rs` | |
| `CefLayers` | layers, reset, shutdown of the browsers, boot and teardown | |
| `WindowSync` | `window_sync.rs`, the resize in `browsers.rs` | |
| `ViewPaint` | `client/resize.rs`, `paint_scheduler.rs` | |
| `LayerActor` | `wl_ops.rs`, `layer_actor.rs`, the upload of `gpu_paint` | |
| `RootWindow` | `wayland/src/root_window.rs`, the scale of `window_state.rs` | |
| `PopupMenu` | `linux_util/src/menu/engine.rs`, `wayland/src/popup.rs` | |
| `WebPlayer` | `web/mpv-video-player.js`, `mpv-player-base.js`, the signals of `native-shim.js` | |
| `CefPump` | `macos/src/cef_pump.rs` | |
| `X11Overlay` | `x11`: `surface.rs`, `registry.rs`, `geometry.rs`, `overlay_fsm.rs` | |
| `Manager` | `manager.rs`, `lifecycle.rs`, `shutdown.rs` | implements `Lifecycle` |
| `Lifecycle` | abstract: the phases the application is promised | |
| `SettingsStore` | persistence of `config/src/lib.rs` and its callers | |
| `InstanceIpc` | `instance_ipc`, the boot around it | |
| `Migrate` | `paths/src/migrate.rs` and the launch around it | |
| `*Proofs` | theorems about the modules they extend | |
| `MC*` | constants and inputs for TLC, several parts in one run | see section 3 |

An action is one handler, one critical section, or one step between two points
where another thread can act. Names are the source's: `OnEndFile` is
`on_end_file`, `ApplyBufferingChange` is `apply_buffering_change`, and so on;
`PROJECT.json` maps each definition to its lines. Modules that share a run prefix
their variables (`ws_` for `WindowSync`, `xo_` for `X11Overlay`). Operators
called `<Definition>_<Fault>` are plausible faults of the definition that follows:
put in its place, each makes the property it is listed with fail.

**PlaybackStateMachine.** A handler's returned events are the value of `emitted`
after its step. Positions, rates, durations and ranges are small sets: handlers
only store them and compare them with the last one. `end_eaten` is a history
variable: an end-of-file was swallowed because a load was in flight, and that
load's FILE_LOADED has not come; gates may be stale in between.

**PlaybackCoordinator.** `hand` is the input a producer holds between cloning the
handle and sending; `worker` is a program counter: `recv`, `drain`, `consume`,
`publish`, then the sink stages in order. The sender dropped by `stop`, the slot
taken by `jfn_playback_shutdown` and the join are three steps of the main thread.

**PlaybackSinks.** `idle_level` is the level last requested, `page` what the page
was last told. Each stage hears the batch's events one after the other with the
published snapshot.

**AbLoop.** A point is written as the file it was set in, so a loop of another
file can be told from one of this file. `told` and `reports` are mpv's property
observation: a property that changes several times may be reported once.

**VideoMode.** `vm_queue` holds asynchronous requests in libmpv's order, `running`
what mpv runs. libmpv may refuse any of the requests of an apply or of the boot,
and may have no string to answer a read with. `vm_refused` is the record of the last
apply it refused a write of, until it takes one whole, and `vm_blank` the properties
it had no string for; both are history, read by properties only. That a
refusal leaves a memo of what mpv no longer runs is a refuted property (section 3).

**CefLayers.** `cef` is what CEF knows of a layer's browser, the rest what the
program knows. `may` is chosen at the start and never changes: which of the
events that lead out of the orderly case this behaviour may have. They are a
reset of the main layer, a layer opened after shutdown began, and a collection
that times out. One run so covers every combination, and properties that need
an orderly behaviour say which.

**MediaSession.** The state machine gives the events; the coordinator is reduced
to a batch that is announced event by event with its last snapshot. The choice
`ms_api` is the session: its queue is unbounded for MPRIS and drops when full for
the two others. `ms_lost` remembers a dropped transport event.

**SinkLocks.** Only who holds which lock, and where each thread is. `Wants` names
the lock a thread is about to take; joining the worker is waiting too.

**PlayerLoad.** Loads are numbered, so that a selection, a command and a file can
be told apart. `pl_overlap` is a history variable: a load has begun before the one
ahead of it was acted upon. One load at a time is what the page's `play` awaits.

**ThemeColor, Stats, WindowMode.** Each keeps a history variable for the one
interleaving under which its agreement fails (`tc_raced`, `st_raced`,
`wm_overlap`), so that everything outside it is still checked; the race itself is
a refuted property (section 3). The theme has a second case in `tc_raced`: the page
tells of a video when nothing plays or loads any more, and nothing turns that off.
`tc_phase` is the life of the tracker: the main thread makes it and tells it mpv's
background before there is a page, and takes it away while the others still run.

**WindowSync.** A size is the number of the change that made it. The swap of the
cell, the caches and the layers are three steps of a woken thread, and the pull
that follows a fourth.

**ViewPaint.** The platform's thread and the UI thread share atomics only, so a
step is one access. The display's refresh rate changes at any time.

**LayerActor.** A page is a function from regions to the paint that changed them
last; a picture on the screen has to be such a function for one moment. The
mailbox holds one job; a frame that arrives is merged, replaces, or is dropped as
the code decides.

**RootWindow.** The compositor is the environment: it configures, and tells the
scale at once, behind the first configure, only once the window is mapped, or
never. `rw_at` is where the root thread is; `rw_published` is whether a wake can
reach it.

**PopupMenu.** Commands to the surface are flushed by whoever finds nobody
flushing. A menu is the number of its request, a picture the menu it was laid out
for and the row it shows. What can fail does: a picture that cannot be painted,
a popup, a positioner or a buffer that cannot be made. Two history variables keep
what failed of the present menu: `pm_failed`, that its popup could not be made, mapped
or placed, and `pm_refused`, the picture of it that was lost. A new generation
starts without either, so that what failed for one menu must not harm the next.

**X11Overlay.** `xo_server` is what the X server has: windows, the stack (as the
pairs of an upper and a lower window), the parent, what the window manager has
still to handle, and news on the socket. A resync takes all commands of the queue
(`xo_batch`), and a step handles one of them: nothing keeps the CEF thread and the
window manager from acting between two. Every round
trip moves news from there to `xo_parsed`, where `poll` does not see it. The
window manager may withdraw a window it saw unmapped, maps at a place of its own,
and applies requests late; it honours a place that is asked for.

**InstanceIpc.** On Unix a rebind replaces whatever file is there, and an exit
unlinks by path; a crash leaves the file. `ii_overlap` is a history variable: two
launches have been under way at once.

**Manager.** `Push` and `Signal` are two steps of a sender, `SetFlag` and
`RunHandler` two of whoever asks for shutdown, `Wait` and `Take` two of the
manager. Under the mapping `phase <- state, asked <- shutting_down` it
implements `Lifecycle`, including its liveness.

**SettingsStore.** The record is its version: each setter makes the next. A write
is atomic (`write_atomic` renames a complete file), so its lock needs no state.
`held` is the snapshot the worker took and has not written. The handlers of the
UI thread run only until the last browser is closed, which `CefLayers` shows for
the orderly case.

**Migrate.** Roots are sets of entries, copied one by one in any order;
`staging[r][p]` is the staging directory of process id p. `overlapped` is a
history variable: a launch has begun while another process ran.

**WebPlayer.** A step is a function up to its next await. A signal is the sequence
of its listeners: the player's own, and one for each load whose promise is
pending. `Fire` walks along it as `createSignal` does, also over listeners that
take themselves out on the way. jellyfin-web and the host are the environment;
`MayAbandon` says whether a play may be given up before its file has begun.

**CefPump.** CEF is the environment; of its deduplicator there is what the comments
of `cef_pump.rs` say of it. A thread that asks for work sets the shadow flag and
signals the source in two steps; the drain reads the flag behind CEF. The timer is
made with an interval of 0; CoreFoundation documents that such a timer is
invalidated once it has fired, so after a shot it may be gone.

## 3. Runs

Parts that share nothing are checked in one run: a variable `part` is chosen at the
start and says whose behaviour this is, while the variables of the others keep
still. The states of such a run are the sum of its parts', not their product, and
what is found is what separate runs would find.

| run | parts and questions | bounds, and why they are enough |
|---|---|---|
| `coordinator` | snapshot before sinks, drain, return of stop | two producers, two inputs in flight: one in the batch, one behind it; inputs that begin and end a session, change its indicators, or carry a trailing event |
| `playback_parts` | `sinks`: do the sinks agree with the player | one producer (what matters is how inputs fall into batches), the transport inputs and fullscreen changes |
| | `load`: is a file played with its tracks | three loads: one failed, one current, one late |
| | `locks`: can anyone wait in a circle | every thread once, three batches |
| | `theme`: does the colour follow playback | three loads, two colours beside the default: the page's and mpv's background may differ |
| | `stats`: does every change reach the page | four changes, four switches: a stale push and a stale observation fit twice |
| | `loop`: loop and file, page and mpv | two loads, a message, two commands and two reports in flight |
| | `mode`: does mpv run the mode; is the baseline the user's; is what was refused tried again | four modes, an apply of three requests behind up to three unserved ones, one batch of which libmpv refuses any part |
| | `web`: is the first frame reported | three plays, two stops, pauses or resumes, none of them before the file of a play has begun |
| `desktop_parts` | `mode`: does playback know the window's mode | four changes, two reconcilers |
| | `sync`: do the layers get the window's size | two threads, two wakeups each, three sizes |
| | `paint`: do size, loop and rate settle | two resizes, the pump's target at three and the limit at four ticks (the code has more of each, decided alike), two rates |
| | `layer`: is what is shown a page | two regions, three paints, two changes of size or visibility; shared memory only |
| | `root`: does the root thread sleep on nothing | two requests, one action of the user, every way of telling the scale |
| | `session`: does the session show what plays | four inputs, a queue of two, MPRIS |
| | `x11`: are the overlays where the parent is | an overlay, three operations on it, two changes of the parent |
| `process_parts` | `manager`: lost wake-ups, refinement of `Lifecycle` | three messages queued |
| | `settings`: coalescing and drain | four changes, one refused write |
| | `pump`: does CEF get its work done | two threads, three tasks, two that leave one for later |
| `standalone_parts` | `machine`: the invariants and action properties of the state machine | two items tell a variant switch from a new item; every input at any time; one scalar field for four treated alike |
| | `migrate`: retry, loss, leftovers, what is never overwritten | two process ids, three launches in any overlap, two refused operations: every step can be cut off and met again |
| | `instance`: is there one instance | four launches with exits and crashes, one connection, one retry |
| | `menu`: is the open menu on the screen | three inputs of presses, menus, rows and dismissals, and any failure of what is made for them |
| `cef_layers` | stack, resets, end of shutdown, drain, hand-over of input | two boot layers and two about boxes, every choice of disturbances |

`MCDesktopParts` and `MCStandaloneParts` bound what is chosen at the start to the
part in question. Deadlock is checked in `coordinator`, `cef_layers` and
`process_parts`; in the other runs a behaviour ends where its inputs do. Larger
instances of single parts also hold: the import with four launches and two refused
operations (3.0 million states up to a permutation of the process ids), the layer
actor with four paints and three changes (1.2 million), the menu with four inputs
(15.9 million), the X11 overlays with two overlays, three operations and two changes
of the parent (10.5 million), which is also where the inductive invariant of their
proof was tried first, as on one overlay with four operations (2.9 million).

Most modules state a type invariant. The runs do not list them; those of the state
machine, the settings store and the modules of section 5 are proved, the others
hold when put among the INVARIANTs of a configuration (`TypeOK`, `CTypeOK`,
`OverlayTypeOK`, ...).

Six runs show the code departing from what a comment or a test says of it
(`findings` in `PROJECT.json` quotes the lines):

| run | what happens |
|---|---|
| `manager_early` | a shutdown asked before its handler is installed is never acted on, and later requests are no-ops |
| `settings_exit` | the background writer overwrites the synchronous save of the shutdown with an older snapshot |
| `window_sync` | of two wakeups at once the slower resizes the layers to the older size, and finds the newer one in the cell |
| `layer_gpu` | a frame for the GPU replaces one not yet drawn, and the changed regions of that one are never uploaded |
| `web_player` | the listener of a play that was given up takes itself out of the signal while it is fired, and the player behind it is passed over: the first frame of the next file is not reported |
| `root_startup` | a request between the first settle and the publication of the root thread wakes nobody |

More disagreements came up while modelling. Their properties are defined in the
modules with the line they quote. To see one, put it in place of the properties of
the configuration named here (with the change given, if any); TLC then finds it
violated:

| configuration | property refuted | what happens |
|---|---|---|
| `MCStandaloneParts` | `VariantSpansUntilFrame` (PROPERTY) | a variant switch paused before its first frame and resumed loses its mark; `state_machine.rs:49-51` |
| `MCPlaybackParts`, `Inputs <- PositionInputs`, `MaxPosition = 1` | `PositionReachesPage` (PROPERTY) | a load at 0 after a file ended does not tell the page its position: it was rewound without an event and the post is deduplicated; `business_web.rs:298-299` |
| `MCPlaybackParts` | `StaleCannotShift` | two quick presses of "set A" set A and B; `ab_loop.rs:99-100` |
| `MCPlaybackParts` | `RefusedLoadHasNoEffect` (PROPERTY) | a load whose URL is refused has already dropped the loop of the item that plays on; `business_web.rs:283` |
| `MCPlaybackParts` | `SelectionOutlivesOverlap` | a load that overlaps the one before loses its track selection to it; `api.rs:551-556` |
| `MCPlaybackParts` | `VideoModeWhilePlaying` | the end of a file announced after the next load began turns the new video's colour off; `theme.rs:5` |
| `MCPlaybackParts` | `AnimationKeepsConfScalers` | booting with Animation writes empty scalers: no baseline has been read yet; `video_mode.rs:467-468` |
| `MCPlaybackParts` | `SkipsOnlyWhatRuns` (PROPERTY) | a write refused in part leaves a memo of a mode mpv does not run; `video_mode.rs:310-312` |
| `MCPlaybackParts` | `ResolvedByItsFile` (PROPERTY) | `playing` of the file before, or a resume, resolves the promise of a play whose file has not begun; `native-shim.test.js:235` |
| `MCPlaybackParts` | `EndIsOfThisFile` (PROPERTY) | the end of the file before, taken after the next play has loaded, is reported as that of the new one; `mpv-video-player.test.js:342` |
| `MCPlaybackParts`, `MayAbandon = TRUE` | `StoppedStaysStopped` (PROPERTY) | a play that resolves its video mode goes on to load after it was stopped for good; `mpv-video-player.js:115` |
| `MCProcessParts` | `DelayedWorkRuns` (PROPERTY) | a timer that is gone after its first shot is never armed again, and delayed work waits until something else drains CEF; `cef_pump.rs:5` |
| `MCDesktopParts` | `LatestModeWins` | the reconcile at start-up undoes a newer one of the platform's thread; `ffi.rs:57` |
| `MCDesktopParts` | `NewSizeIsPresented` | a stop meant for the resize before ends the loop before a frame of the new size was presented; `paint_scheduler.rs:77` |
| `MCStandaloneParts` | `AlwaysOneInstance` | two launches that find the same dead name both take it, and both run; `instance_ipc/src/lib.rs:182` |
| `MCStandaloneParts`, `MaxInputs = 4` | `AlwaysInPlace` | a menu laid out while the last one's configure is awaited is never sent its place; `engine.rs:473` |
| `MCDesktopParts` | `HiddenIsUnmapped` | an overlay hidden while the window manager has still to map it stays on the screen; `overlay_fsm.rs:84` |
| `MCDesktopParts`, `MaxSurfaceOps = 4` | `LatestVisibilityWins` | hide, show, hide: the echo of an older command overwrites the record, and the last request seems to change nothing; `geometry.rs:411` |
| `MCDesktopParts`, `MaxSurfaceOps = 4`, `Overlays = {a, b}` | `StackedInOrder` | an overlay that is hidden and shown again comes to the top; `geometry.rs:383` |
| `RootWindow` | `RemembersMaximized` | leaving fullscreen may ask for a maximized state the window did not have before; `root_window.rs:275` |
| `MCCefLayers` | `DrainedBeforeTeardown` | a layer created after the shutdown's snapshot is not waited for; `app.rs:1069-1070` (a reset main layer is not either) |
| `MCCefLayers` | `NoFocusWhileDying` (PROPERTY) | a dismissed overlay focuses a browser that shutdown is closing; `browsers.rs:191-192` |
| `MCCefLayers` | `MainTakesOver` | a main layer that was reset is no longer registered and cannot be given the input by a dismissed overlay; `client/lifecycle.rs:167` |
| `MCProcessParts` | `RendererFindsServer` (PROPERTY) | the writer puts an old server URL back between `navigateMain` and the renderer's read; `business_overlay.rs:233-238` |
| `MCStandaloneParts` | `LossIsAlwaysReported` | the import runs before the single-instance check: one launch empties the staging directory of another, which renames it into place; `app.rs:664-665` |

## 4. Fairness

Fairness is put on threads that the code keeps running, never on users or on
events of the outside world.

* Coordinator: weak fairness of the worker, which never waits inside an
  iteration, and of the two steps of the main thread once it has begun to stop.
  Producers owe nothing.
* CefLayers: CEF calls back for a browser it was asked to create or close
  (`OnAfterCreated`, `OnBeforeClose`), tasks posted to its UI thread run, the
  manager and the main thread take their next step, and the main page finishes
  loading or failing (CEF reports either). Opening, dismissing, resetting and
  asking for shutdown are free.
* Manager: a sender that has pushed signals; an initiator that has set the flag
  runs the handler; the boot goes on; the loop runs. Weak fairness suffices: no
  step of the loop is disabled by others once enabled.
* SettingsStore: a handler that has started returns, the worker runs, a shutdown
  that has begun goes on. Changing a setting and quitting are free.
* CefPump: the main thread goes on inside the pump, threads of CEF that ask for work
  get on with it, and the run loop serves the source and the timer in turn, also if
  the other is signalled again and again (strong fairness of each). Tasks are free.
* The parts of `process_parts` keep the fairness of their own module, each when it
  is the part in question.
* `layer_gpu`, `window_sync`, `root_startup`, `web_player` and `settings_exit` refute invariants;
  `manager_early` refutes a liveness property under the fairness above.
* Everything else is safety only, without fairness: its agreements are stated for
  the states where nothing is in flight.

## 5. Proofs

TLAPS checks these theorems for every value of the constants; the runs show the
same properties on small instances. Each theorem has an inductive invariant, a
lemma for the initial states and one for the steps with a case per action; what
follows says what the invariant adds to the property, and why it must.

**PlaybackStateMachineProofs** (assuming `NoItem` is not an item and the bounds
are naturals): type correctness; `StoppedIsClean`, `IntentMatchesPhase`,
`PromotionNotMissed`, `BufferingIsExact`, `VariantOfRememberedItem` as
invariants; `StartIsGated` and `EventsSuffice` as action properties. The inductive
invariant `IInv` is the conjunction of the type invariant and the five. None of the
five is inductive alone: most handlers are guarded by the phase only, so that a
stopped player has no pending load, no indicator and no intent is what lets the
others survive them, and buffering being exact is what makes the gates of the
promotion mean what they say. Each handler's case is split where it branches. That
the events suffice is argued on the kinds of the events of a step (`Kinds`), which
the lemmas about appending and concatenating let one compute.

**CoordinatorProofs**, of `PlaybackCoordinator`, `PlaybackSinks` and `MediaSession`:
* `MachineUnderWorker`: the machine keeps `IInv` inside the coordinator, whatever
  the producers enqueue; `CoordinatorTyped` is the type invariant.
* `SinksSeePublished` and `StopDrains`. `CInv` says which stages of the worker have
  published, that a worker between two batches holds nothing, and that it exits only
  behind the last input once the sender is gone.
* `SinksAgree`, between batches of any size. What the page will show of the events
  collected so far is the last of them it listens to, and `PageFollows` says that
  this fits the player; it needs of each handler what its events tell
  (`HandlersTell`), not only that they suffice. `LevelFollows` and
  `MaximizedFollows` do the same for the idle level and the exit path's flag. That
  a batch which has events the page listens to has a last one is by a least
  element (`LeastNat`, from `WFMin`).
* `SessionAgrees`, for any inputs, batches and bound on the queue. What the OS will
  show is told by the events on their way to the consumer: for MPRIS the last event
  that surely recomputes carries the present snapshot (`MprisFollows`), for the two
  others the last transport event names the phase (`HarnessFollows`). The events in
  queue and batch lead, one after the other, from the consumer's copy of the metadata
  to what the page announced last (`Leads`). Nothing is said behind a swallowed end,
  which has no event, or behind a dropped last transport event.
* `SinksRefineCoordinator`: every step of the coordinator with its sinks is one of
  the coordinator alone or a stutter, so that what is proved of the second holds of
  the first.

**PlaybackPartsProofs**
* `PlaysWithItsTracks` of `PlayerLoad`, for any number of loads. A load goes through
  eight stages (`Stage`), each with one thing in flight; the invariant says in which
  one it is, and the step lemma that every action leads to the next.
* `NoCircularWait` of `SinkLocks`. The invariant tells who has a lock from where
  the threads are. The argument is an order: the worker waits for nobody, whoever has
  the slot waits for the worker at most, the others for one of these two; so
  every set of threads has a member that waits for none of the set.
* `StatsReachPage` of `Stats`. A value mpv has reported is collected or in the
  reader's hands (`ValueOnItsWay`), and a record without the dirty mark is what the
  page shows or is about to (`CleanIsShown`).
* `ThemeFollowsPlayback` of `ThemeColor`. As long as there is a tracker (`Told`),
  and unless a load overtook the end before it or the page told of a video after its
  end, one load at most is under way and the invariant says how far its
  announcements have come (`ThemeUnderway`), or everything is over (`ThemeOver`);
  that the colour applied is the one resolved holds also in the excepted cases.
* `LoopIsOfThisFile` of `AbLoop`, for any number of files and bounds. The invariant
  follows a load through mpv's queue: right before it are the two commands that
  unset the points, until they have been executed and the points are unset.
* `UiAgreesWhenSettled` of `AbLoop`. The observations on their way end at the loop
  mpv runs, and the page either follows the pair pushed last or forgot it when the
  playback stopped (`PageForgot`); then it plays nothing, or a load that unsets
  both ends is still ahead of whatever the user can set.
* `BaselineIsConf`, `RunsTheMode` and `SkipsAreSound` of `VideoMode`, whatever libmpv
  refuses and for any bound on it. The reads of the baseline are queued ahead of
  every write of their property, so their replies are the configuration's
  (`ReadsFirst`, `RepliesAreConf`), or hold no string, and then the history says
  so (`BlanksAreMpvs`). The other two are about the memo (`MemoIsRun`): unless a
  write was refused since the last apply that was taken whole, it tells what mpv will
  run when its queue is empty; and it is never the record that was refused, which is
  why that one is written when asked for again. The memo of the mode before stays
  after a refusal, and is then wrong: the exception of both, and the refuted
  `SkipsOnlyWhatRuns`.
* `FirstFrameReported` of `WebPlayer`, for any number of plays, as long as the page
  asks for nothing while one has not begun (without `~MayAbandon` it is false, as
  the run `web_player` shows). The two arrays of listeners are alike: the player's own
  listener while it is connected, and behind it the one load under way
  (`Connections`). So every signal reaches the player, and the walk that
  passes over a listener never passes over it.

**ProcessProofs**
* `NewestIsQueued` and `DrainLosesNothing` of `SettingsStore`. The invariant
  accounts for every version between the last drained and the last queued: it is in
  the slot, in the worker's hands, or written; and a handler that has still to queue
  holds a snapshot newer than the queue.
* `NothingStranded` of `Manager`, and `StaysInPhase`, the safety half of the
  refinement of `Lifecycle`. The invariant says whom the manager may count on
  while it folds: a message is accompanied by a signal given or owed, a shutdown by a
  signal or by its place at the end of the batch. For the refinement it adds that
  only a shutdown that was asked for is in a batch, that the shutdown phase is the
  end of the loop, and that a hidden window's browsers were told so.
* `OneInstance` of `InstanceIpc`, for any set of launches. Outside overlap a
  launch is alone, and one about to rebind has seen that nobody answers; a
  running instance can then only end by itself. That is why the exception is
  needed, and the only one: exits and crashes are not excluded.
* `OwnDataSurvives`, `LossIsReported` and `ImportedBeforeRunning` of `Migrate`, for
  any set of launches and entries. The first is of every step, overlapped or killed:
  a root is renamed into place only where there is none. For the others,
  `MigrateInv` is graded: types always; one launch at a time and no silent loss
  unless two overlapped; and, if moreover no step was disturbed, how far the launch
  is determines which roots are imported, clean and referred to (`Progress`).

**CefLayersProofs**: `StackIsRegistered`, `OrderlyDrain`,
`MainTakesOverUnlessReset`, for any set of layers. The disturbances that `may`
allows are the cases of the invariant: in the orderly case the snapshot has every
browser there is and the manager waits for each that is not gone (`Draining`);
without a reset the main layer stays registered (`NoReset`) and gets the input back
when the overlay goes (`InputReturns`). That the stack names registered layers, each
once, holds in every case.

**WindowProofs**
* `SizeIsWindowSize` of `WindowSync` and `ModeAgrees` of `WindowMode`. For the size,
  the cell holds the window's size or some thread will still look at the window,
  in every behaviour; outside overlap what is applied is what the cell holds. For
  the mode, the one reconcile under way carries what the first digest will need of
  the second. Both exceptions are history variables that never become false again.
* `ViewCatchesUp` of `ViewPaint`, for any number of resizes, rates and paints. CEF
  has been asked for the latest size or the page's thread is about to
  (`SizeIsAskedFor`), one boosted loop runs at a time and has its rate to give back
  (`OneLoop`), and past the skipped paint a frame of that size is shown
  (`FramesCounted`); a loop that ended before it is the exception of the property.
* `LayerShowsAPage` of `LayerActor`, for any regions, pages and failures. The
  shadow is only part of the page: what is whole is the shadow under the frame
  of the job in hand, under the frame that waits (`Complete`), and that the page
  handed over last waits, is in hand or is shown (`LastIsDrawn`). The lemma
  about patching says that a merge of two frames patches as the two do in turn.
* `SettledIsDone` of `RootWindow`, for any number of requests. A request is ahead
  of the settle under way or somebody will wake the thread (`Served`), a window that
  is not mapped waits for a configure, for a settle or for the probe (`Unmapped`),
  the last configure on its way tells the state of the window (`LastTells`), and the
  maximized flag is the window's or the last queued command's (`FlagFollows`).

**PopupMenuProofs**: `MenuIsOnScreen` of `PopupMenu`, for any number of presses,
menus and redraws. The ops on their way from the engine to the popup (those in the
root thread's queue, the one in the hand of the thread that drains, those pending)
are one sequence, `Stream`: passing an op on does not change it, an update of the
engine adds at its end, the root thread takes from its front. The invariant says
of the stream that generations never fall in it and that nothing follows a destroy
of the same one (`Ordered`), which makes it tell the popup that will live
(`Lives`) or die (`Dies`), whichever thread drains; and for each thing not yet on
the screen it names what owes it: an op of the engine's generation, an event not
yet read, or a job of the render thread (`PlaceholderInv`, `ConfigureDue`,
`PaintDue`, `PlaceDue`, `LayoutDue`). Every menu that is not open has its one answer, or
exactly one thread holds it (`AnswersExact`). A failure owes nothing: from then on
what was owed is excepted, of this generation only (`pm_failed`) or of this picture
only (`pm_refused`), while stream and answers stay exact. The lemmas come in three layers: how a
sequence grows at one end and shrinks at the other, what each change of the stream does to
the parts of the invariant, and one lemma per action.

**X11OverlayProofs**, assuming that the overlays are finitely many and that none is
called `"parent"`: the types of `X11Overlay` and `OverlaysFollowParent`, for any
number of operations and of changes of the parent, at any time. The property is
about the state in which all is handled; the invariant says, at any other time, of
each part of the work who still owes it:
* what the thread believes of the parent is so, or there is news of it on the socket,
  parsed, or made a pending pass (`ParentKnown`, `MappedKnown`). A round trip moves
  the news, and the invariant survives it because `HasEvents` looks at both places;
* what it has observed of an overlay is so, or news of the overlay came since
  (`Fresh`), so that a pass which acts on an old observation is followed by another;
* an overlay it has settled is mapped in its place, or will be by a request that the
  window manager still has to apply (`Settled`), and then agrees with what was asked
  of the window (`Overridden`);
* an unmanaged overlay is above the parent, or left to a pass that raises it
  (`RaisedAbove`), a managed one always (`ManagedAbove`);
* of each surface, the commands on their way (in the hand of the CEF thread, in the
  queue, in the batch, one sequence `Underway`) tell what its window does not show
  yet: one `create`, then one `destroy` (`Lives`).

The lemmas are about sequences and their filters, about the requests (each spares
the other windows, `Spares`, and what it does to its own), and then one per action. The proof
is why a step handles one command and not the batch at once, which is also nearer to
the code: a fold over the batch would have needed induction over data. It showed that
two guards of a CASE in an earlier form of `Map` and `PlaceAndSize` overlapped, of which
TLC takes the first and the semantics either; they are nested conditions now, as in
the code.

Not provable here, and left to TLC: liveness under fairness (`StopReturns`,
`ShutdownTearsDown`, `ResetCompletes`, `PumpNeverWedges`, `QueuedIsWritten`, and the liveness of the refinement of `Lifecycle`), and anything
with ENABLED. Induction over data is limited: the induction theorems of the library
take an operator, but a least element of a non-empty set of naturals can be had
(`WFMin`), which is how the few inductions needed are done.

Every safety property of a passing run, invariant or of steps, is the statement of a
theorem above. The violations the other runs
show are counterexamples and have nothing to prove.

## 6. What is not modelled

* What values mean where handlers only pass them on: times, rates, texts, URLs,
  JSON, colours, shader lists.
* Inputs posted before the coordinator exists.
* Layers' scale and popups; compositing of popups, accelerated frames and the
  dmabuf pool, which live in the graphics stack for their larger part.
* What a settings file may contain; the size check, depth limit, links and deny
  list of the import.
* Wayland: sizes of the root window and their restoration, tiling, input, cursor,
  the mpv proxy. X11: the content actors, the resize-sync handshake, the video
  host, teardown, input, the mpv proxy.
* Menus: scrolling, pointer and keys, drawing; who owns a menu among the browsers.
* The Windows backend, and that of macOS but for the pump: calls into the system, of
  which the repository shows one side only. Their media sessions are modelled.
* The audio player of the page, whose fades are timers; the video player's tracks,
  volume, seeking and source badge.
* `compositor_core`, `input`, `platform_abi`: functions of one call.
* Pure I/O and formatting: logging, device profile, command line, injection;
  and the build tooling.

## 7. Plan

Done: the playback core (state machine, coordinator, sinks, media session, locks,
load, colours, statistics), A-B loop, video modes, window mode and size, browser
layers, resize and paint, the layer actor, the root window, menus, X11 overlays,
manager with its abstract specification, settings store, single instance, profile
import, the page's video player, CEF's pump on macOS; proofs in eight modules.

Next, in order of what they would add:

1. `MenuOwnership`: a menu request is answered exactly once.
2. The content actors and the resize-sync handshake beside `X11Overlay`; sizes and
   their restoration in `RootWindow`.
3. The audio player, and the host behind `WebPlayer` replaced by the state machine.
4. `compositor_core`'s transition.
5. `Mailbox` and `WakeEvent`: an abstract signal, and the pipe and eventfd
   implementations refining it.

No safety property of a passing run is without its theorem; what a new module
brings is to be proved beside it. The proofs that would still add something are of the type
invariants the runs do not list.
