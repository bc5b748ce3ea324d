# A TLA+ model of enigma2 (OpenPLI-VTI)

enigma2 is the program that runs a set-top box: it tunes, plays, records at the times its
timers say, and paints the user interface. This directory holds TLA+ modules of the parts
whose correctness depends on the order of events, the TLC runs that check them on small
instances, and proofs, checked by TLAPS, of what holds for instances of every size.

Nine parts are modelled:

* the **recording timers**: `timer.py`, `RecordTimer.py`, the dialogs that call them and the
  registry of recordings (`Navigation.py`, `lib/nav/core.cpp`);
* the **render queue** `gRC` (`lib/gdi/grc.cpp`): the ring buffer between the main thread and
  the rendering thread, the notifications that come back, and the "busy" spinner;
* the **resource manager** (`lib/dvb/dvb.cpp`) with its channels, their users
  (`eDVBServicePMTHandler`, raw channels) and the cached channel;
* the **recording pipeline**: `eDVBServiceRecord`, its PMT handler and recorder
  (`servicedvbrecord.cpp`, `pmt.cpp`, `demux.cpp`) and the thread that writes the file
  (`filepush.cpp`);
* the **EPG cache** (`lib/dvb/epgcache.cpp`): the store of events, and the thread that reads
  the channels' sections into it;
* **deep standby**: the box that switches itself off after a recording, is woken for the
  next one and goes back (`RecordTimer.py`, `Screens/Standby.py`, `Navigation.py`,
  `mytest.py`);
* the **common interface** (`lib/dvb_ci/dvbci.cpp`): which modules a service's stream passes
  and what each is told to descramble;
* **satellite equipment control** (`lib/dvb/sec.cpp`, `lib/dvb/frontend.cpp`): the commands
  that set voltage, tone, switches and rotors, and the loop that executes them;
* the **main loop** (`lib/base/ebase.cpp`) with its timers, socket notifiers and message
  pumps (`lib/base/message.h`), and Twisted's reactor on top of it (`e2reactor.py`).

## 1. Inventory

| Component | State it keeps | Operations | How it interacts |
|---|---|---|---|
| Timer queue (`timer.py`) | `timer_list`, `processed_timers`, `lastActivation`, one `eTimer` | add, change, activate, clean up, recalculate | called by the dialogs and by its `eTimer`; calls `activate()` of the entries; re-entrant |
| Recording timers (`RecordTimer.py`) | per entry: begin, end, state, backoff, flags, `record_service` | prepare, start, stop, back off, extend, remove; load and save `timers.xml` | asks Navigation for services, gets record events from them |
| Timer dialogs (`Screens/*`) | none of their own | enable, disable, edit, remove, move the end | write to live entries, then call `timeChanged`, `doActivate`, `removeEntry` |
| Navigation (`Navigation.py`, `lib/nav`) | playing service, registered recordings | play, record, stop | events to all listeners, synchronously |
| Standby, shutdown, wake-up (`Screens/Standby.py`, `mytest.py`) | standby flags, the dialog in use, queued notifications, the front processor's wake-up time, `prev_wakeup_time` | enter and leave standby, ask before quitting, quit, set the wake-up, boot | reads the timers, listens to record events, is called by `afterEvent` |
| Main loop (`lib/base/ebase.cpp`, `e2reactor.py`) | registered notifiers by descriptor, the sorted list of timers, the handler that runs, `m_is_idle`, `m_idle_count` | start and stop timers and notifiers, serve timers, poll, dispatch, interrupt | everything in the main thread runs under it, and its handlers call back into it |
| Message pumps (`lib/base/message.h`) | queue and eventfd | send from any thread, receive in the main loop | render thread, EPG thread, push threads |
| Render queue (`lib/gdi/grc.cpp`) | ring, mutex, condition, spinner | submit, execute, notify, show the spinner | main thread submits, render thread executes |
| Drawing (`lib/gdi`), widgets (`lib/gui`) | pixels, widget trees | draw, redraw | gPainter submits to gRC |
| Resource manager, channels (`lib/dvb/dvb.cpp`) | frontends in use, channels and their use counts, the cached channel | allocate, release, cache | recordings, playback, scan, EPG allocate; channels call back when their state changes |
| Frontend and SEC (`frontend.cpp`, `sec.cpp`) | per tuner its state, timers and command list; per cable voltage, tone and what switches and rotor are believed to be set to | open, close, tune, execute a command; lock, loss, timeout | channels tune and retune it; tuners on one cable share the first one's data |
| PMT, CA (`pmt.cpp`, `cahandler.cpp`) | programs, descramblers | follow a service, (un)descramble | services |
| Common interface (`lib/dvb_ci`) | slots in use, their chains and sources, each tuner's input, what modules run | assign modules to services, free them, tell them of a service | PMT handlers register, modules come and go |
| Recording pipeline (`servicedvbrecord.cpp`, `filepush.cpp`, `demux.cpp`) | service state, pids, target file; push thread, ring of asynchronous writes, message pump | prepare, record, follow the PMT, stop; read, write, flush | timers above, channel and demux below; the thread reports by messages, the main thread stops it by a flag, a signal and a join |
| Playback, timeshift (`servicedvb.cpp`, `servicemp3.cpp`) | decoder, timeshift files | play, pause, seek | |
| EPG cache (`epgcache.cpp`) | two maps of events per service; per channel its readers, timers and a mutex | read sections, resolve overlaps, clean, import, look up; start and abort a channel | own thread; channels report to the main thread, which sends messages to it |
| Scan (`scan.cpp` ...) | channels to scan | tune, parse, add | |
| Sanity check (`TimerSanityCheck.py`) | none | does a set of timers fit the tuners? | simulated recordings |
| Jobs (`Task.py`), configuration, storage, CEC, skins, plugins | various | | |

What makes each of them hard, and what would make it correct:

* *Timers.* Handlers are re-entrant: `doActivate` may call `addTimerEntry`, which calls
  `calcNextActivation`, which calls `doActivate`; `timeChanged` is called from inside
  `doActivate` (wrong running timers) and from inside `removeEntry`. Correct means: an entry
  is in exactly one place; a service belongs to one entry and every registered service has
  an entry that will stop it; the `eTimer` never sleeps past an activation; failures are
  retried later and not at once; what users or the clock do cannot break these.
* *Render queue.* Two threads, one mutex, one condition, and two counters read without the
  mutex. Correct means: a FIFO that loses no operation and no wake-up, a spinner that is
  never painted over or left behind, references released once each.
* *Resource manager.* Everything is driven by use counts: assigning a smart pointer changes
  a count, which changes the channel's state, which calls the manager back, which starts or
  stops the timer that drops the cached channel. Correct means: counts are exact, whichever
  way a channel goes; tuners are shared and never taken from anybody; an unused tuner is
  released in time; what `canAllocateChannel` promises is what `allocateChannel` does.
* *Recording pipeline.* Tuning may find the channel tuned, which announces a program, which
  starts the recording, all inside one call; the same events come again with every PMT, lost
  lock and cached pid. Meanwhile a second thread goes round a ring of buffers that the disk
  writes when it likes, and is to be stopped at any moment by a signal that may come just
  before the call it should interrupt. Correct means: the file has what was read, it is
  never started anew under its owner, it has all pids, and stop returns.
* *EPG cache.* Each event hangs in two maps that both believe to own it, and a new one may
  push out several others. Channels come and go in one thread and are read in another, with
  two mutexes and messages that name a channel by its address. Correct means: the maps
  agree; nothing disappears without cause; a channel's data is deleted only when nobody
  reads it; reading ends and releasing returns.
* *Deep standby.* Four ways lead from the end of a recording to switching off, each with its
  own idea of whether somebody watches and what is about to begin; the decision is taken at
  one time, the wake-up computed at another, and the program that comes up knows of the past
  only a file, a flag and the clock. Correct means: no recording is missed, no viewer is
  switched off, a box that was woken goes back.
* *Common interface.* One list of handlers and one of slots, linked into chains that several
  handlers share, and every event - a service, a PMT, a module - walks through both and
  changes them on the way. Correct means: counts and chains agree, the multiplexer leads each
  stream through its chain, a service that plays is left alone, nobody waits for a free module.
* *Satellite control.* Only what must change is sent, so everything rests on what the cable is
  believed to be set to; but switches hide each other, lose their state with the voltage, and a
  list of commands may be broken off at any of them. The lists are programs of their own, with
  relative jumps. Correct means: whoever listens to a tuner gets its satellite, nobody else's
  reception suffers, and every list ends.
* *Main loop.* What it iterates over is changed by the handlers it calls: the timer list while
  timers are served, the map of notifiers while poll's answer is dispatched, under descriptors
  that are used again at once. Correct means: nobody is called for another's file, no assertion
  fails, poll wakes in time, and slow handlers keep nobody waiting for ever.

`PROJECT.json` lists the components with what is modelled of each, and the hazards line by
line.

## 2. Modules

| Module | Models | Notes |
|---|---|---|
| `TimerLists` | `insort`, `list.remove`, `list.sort` as `timer.py` uses them | on an unsorted list `insort` may end at several places: a set of results |
| `RecordTimer` | the timers, their dialogs and the recordings they own | see section 3 |
| `MCRecordTimer` | symmetry for TLC | |
| `TimerListsProofs`, `RecordTimerProofs` | theorems about the two | section 13 |
| `RenderFifo` | what gRC promises: the abstract specification | four actions |
| `RenderQueue` | gRC as it is | section 4; `Fifo == INSTANCE RenderFifo WITH ...` is the refinement mapping |
| `RenderQueueProofs` | theorems about it | section 13 |
| `TunerPool` | what the resource manager promises: the abstract specification | who wants which transponder, what each tuner serves |
| `ChannelManager` | `eDVBResourceManager`, `eDVBChannel`, their users | section 5; `Pool == INSTANCE TunerPool WITH ...` |
| `MCChannelManager` | which tuner can receive what, for TLC | |
| `ChannelManagerProofs` | theorems about it, the refinement included | section 13 |
| `RecorderThread` | `eFilePushThreadRecorder` and `eDVBRecordFileThread`: the thread, the disk, the demux | section 6 |
| `RecordService` | `eDVBServiceRecord`, `eDVBServicePMTHandler`, `eDVBTSRecorder` composed with the thread | section 6; EXTENDS `RecorderThread` |
| `RecordServiceProofs` | theorems about the two | section 13 |
| `EpgStore` | the two maps of one service | section 7; its own specification `StoreSpec` |
| `EpgChannels` | the main and the EPG thread, reading into the store | section 7; EXTENDS `EpgStore` |
| `EpgProofs` | theorems about the two | section 13 |
| `DeepStandby` | timers, standby, shutdown, wake-up, boot | section 8; an abstract view of the timers of `RecordTimer` |
| `DeepStandbyProofs` | theorems about it | section 13 |
| `CommonInterface` | slots, their chains, the multiplexer, the modules' lists | section 9 |
| `MCCommonInterface` | a box with two slots, for TLC | |
| `SatelliteControl` | `eDVBSatelliteEquipmentControl` and the SEC half of `eDVBFrontend` | section 10 |
| `MCSatelliteControl` | boxes with switches, rotors, linked tuners, for TLC | |
| `MainLoop` | `eMainloop`, `eTimer`, `eSocketNotifier`, `eFixedMessagePump`, the reactor | section 11; its timer list uses `TimerLists` |
| `MCMainLoop` | what timers and handlers do, for TLC | |
| `MainLoopProofs` | theorems about it | section 13 |

## 3. The recording timers

The Python program is one main loop; an event calls a handler, which runs to its end. What
could go wrong is the *nesting* of handlers. So the variable `stack` is the Python call
stack: a frame for each function that still has something to do after a call, and the
actions of `Step` run the innermost frame. A function without a nested call before its end
is one action. The other actions (`TimerFires`, `Record`, `UserRemoves`, ... `Tick`) happen
only when the stack is empty.

| Frame | Function | What is left to do |
|---|---|---|
| `calc` | `calcNextActivation` | everything |
| `reset` | its timewarp loop | the entries of `rest`, taken from `processed_timers` |
| `process` | `processActivation` and the end of `calcNextActivation` | activate while the first entry is due; sort; set the eTimer |
| `finish` | `doActivate` of an ended entry | the wrong running timers of `rest`, the cleanups, `insort` |
| `remove` | `removeEntry` after `timeChanged` | the instant recordings behind index `i`, then forget the entry |
| `again`, `disable`, `next` | the dialogs' callbacks after `doActivate` or `timeChanged` | their second `timeChanged` |

`activate()` is `Prepare`, `Start` or `Stop` by the entry's state; `Settle` is what
`doActivate` does with the result. `raised` says that a `ValueError` (list.remove) or an
`AttributeError` (a service that is `None`) left a handler, and nothing follows it.

*Abstracted.* Times are whole units and handlers take no time; begin and end of a repeated
timer move by `Day`, without weekday sets, `repeatedbegindate` or daylight saving (so
"`nextonlystop`" looks for an occurrence after `end + 1` where the code says `end + 120`
seconds: the same one). The timers' sanity check is a choice of its result. Zapping, the
preferred tuner, always_zap, afterEvent, standby, logs and notifications are left out, as is
`timers.xml`. `first_try_prepare` only governs dialogs. Processed timers are a bag: their
order is not used. A short poll before 2004 (an unset clock) only shortens the wait.

*Inputs.* `Env` names what users, tuners and disks may do in a run: failures of `tryPrepare`
(`filename`, `lookup`, `record`, `rename`, `prepare`) and of `start`; `repeated` and
`justplay` timers; `stopped` (a user or gstreamer ends a recording), `stopcoming`,
`aborted`, `edit`, `conflict` (an edit before which an instant recording gives way), `moveend`,
`clockset`. Some inputs are known to break an invariant, which
is why they have names:

| Input | What it breaks | Where it is on |
|---|---|---|
| `rename` | `calculateFilename` fails for the renamed event (RecordTimer.py:273) after the service was registered: the service is left behind (`NoOrphan`) | nowhere |
| `holdprepared` | disabling a prepared timer files it as processed and leaves its service prepared (`NoOrphan`) | nowhere |
| `editactive` | an edit that moves an active recording more than `WrongAhead` ahead makes it a wrong running one, whose service is left behind (`NoOrphan`) | Faults |
| `switchactive` | an edit turns a prepared or running recording into a zap timer, after which `activate()` no longer touches its service (`NoOrphan`), or a zap timer into a recording, which then has no service to start or stop (`ListsAreConsistent`) | nowhere |
| `editrepeated` | an edit turns an instant recording into a repeated timer: disabling it while it runs then files it as processed with its service (`NoOrphan`) | nowhere |
| `editinplace` | an edit that is not followed by `timeChanged` leaves `start_prepare` as it was: a timer moved more than `WrongAhead` ahead is still prepared at its old time, is a wrong running one at once, and its service is left behind (`NoOrphan`) | Faults |
| `inplaceactive` | the same of a prepared or running timer also leaves the list unsorted and the eTimer as it was (`WakesInTime`), and a removal may raise (`ListsAreConsistent`) | nowhere |
| `clockset` | a clock that is set forward does not shorten the eTimer, which then is up to `MaxWaitTime` late (`WakesInTime`) | Faults |
| `movepast` | the end of a repeated running recording moved into the past makes `checkWrongRunningTimers` drop its service (`NoOrphan`) | nowhere |
| `autostopped` | gstreamer's end of an extended recording is not followed by a recalculation (`WakesInTime`) | nowhere |

An input only ever permits a step, so a run with an input also has the behaviours without it. The proofs
of section 13 hold for all of them, but for three theorems: `WakesInTime` is proved where the inputs said to
break it are off (`Prompt`); `ListsAreConsistent` and `NoOrphan` where nobody sets the clock, edits or
disables what is being recorded, turns a timer into a repeated one, edits one without `timeChanged` or
makes another recording give way to one (`Undisturbed` names the inputs), `NoOrphan` without `rename`
besides. `conflict` breaks nothing the runs have found; `Prompt` and `Undisturbed` exclude it because a timer
that is edited waits there for another one's `timeChanged`, of which the invariants do not speak.

*An edit that conflicts.* When the sanity check refuses an edit, `finishedEdit` (TimerEdit.py:303-312) lets an
instant recording that extends itself end before the edited timer begins (`setAutoincreaseEnd`), calls
`timeChanged` for it, checks again, and calls `timeChanged` for the edited timer only if that was enough:
`MakesRoom`. Until then the edited timer is in the list under its old place, while the other's handlers run.
One recording gives way at a time, and the same loop after adding a timer (TimerEdit.py:330-336), which
touches no timer in the list but that recording, is left out.

*An edit in place.* Every dialog of TimerEdit.py calls `timeChanged` after an edit; `modifyTimer` of
InfoBarGenerics.py opens the dialog without a callback, and TimerEdit.py:316 does not call it when the sanity
check finds a conflict. The list is sorted by `getNextActivation`: `start_prepare` for a timer that waits,
which such an edit does not touch, but `begin` or `end` for one that is prepared or running. Then
`processActivation`, which stops at the first entry that is not due, does not reach a removed recording
behind one that was moved away, the entry stays in `timer_list`, and `processed_timers.remove` at
RecordTimer.py:1263 raises, in spite of the comment before it. TLC shows it with three timers in 19 steps
(`edit`, `editactive`, `editinplace`, `inplaceactive`); with two timers, or without the last input, the lists
stay consistent.

One more failure is not modelled: an `open()` of the reserved file that raises (RecordTimer.py:348).

### Properties

* `OneHome`: an entry is in `timer_list`, in `processed_timers` or held by exactly one frame.
* `NoSharing`, `NoOrphan`: services and entries correspond, through every failure.
* `EndedIsProcessed`: between handlers the state tells the list; `timeChanged` and
  `removeEntry` rely on it. `NoException`: so no `remove` fails. `ListsAreConsistent` is both.
* `WakesInTime`: the eTimer never sleeps past an activation.
* `PunctualActivation`: nothing starts early or stops early through `processActivation`.
* `HandlersReturn`, `OverdueStops` (liveness): handlers end; recordings end.

*What does not hold.* `HandlersReturn` with the inputs `lookup` or `record`: `tryPrepare` returns
`False` when no service of a group is playable (RecordTimer.py:244-248) or `recordService` fails
(249-255) without `do_backoff` and without moving `start_prepare`. `processActivation` then
activates the same entry again and again, without returning to the main loop, while the failure
lasts, although the comment at 715-717 says that "the timer entry itself will fix up the delay".

## 4. The render queue

Main thread (`mpc`): it runs handlers (`busy`), is inside `submit` (`submit`, `retry`),
about to poll (`turn`), polls (`poll`), or is in `~gRC` (`join`, `gone`). Render thread
(`rpc`): at the top of its loop (`top`), executing (`exec`), waiting, awake again but not
yet decided (`woken`, `timedout`), between its two unlocked looks at the main loop (`count`),
or `gone`. A critical section nobody can see half done is one action; while `rpc = "count"`
the render thread holds the mutex, so `TrySubmit` is not enabled.

The picture is represented by the number of the last operation it shows (`screen`), and
`saved` is the background the spinner saved, likewise: `disableSpinner` copies `saved` to
`screen`, so `screen = done` says that nothing painted was undone. The ring is `queue`, `rp`,
`wp` as in the code; the refinement mapping reads it as the sequence `InFlight \o Contents`.

*Abstracted.* `SYNC_PAINT` is off. What an operation draws; `setCompositing` is a "paint"
without a gDC, of no consequence to the properties. Painters whose DC is locked submit
nothing. Only the main thread submits. `Spurious` stands for spurious wake-ups and for the
`EINVAL` that a `tv_nsec` of exactly 10^9 produces (grc.cpp:171).

*Properties.*

* `ImplementsFifo`: gRC implements `RenderFifo`: operations are executed once each and in
  the order of submission, and a notification follows what was submitted before it.
* `SpinnerHidden`: nothing is painted while the spinner shows.
* `PictureComplete`: hiding the spinner loses nothing that was painted.
* `FlushedIsPainted`, `CallsReturn` (`SubmitReturns`, `DestructorReturns`; liveness): no wake-up is lost, a
  full ring drains, the destructor ends, all without the help of a timeout.

*What does not hold.* `setSpinnerOnOff(0)` makes `enableSpinner` note a spinner for which no
background was saved (grc.cpp:242); `disableSpinner` then restores a stale one, against the
comments at 913 and 923. `onoff` has what was set, and `PictureComplete` speaks of a box on which
nothing was, for nothing in the repository calls it. The `notify` branch of the thread
(grc.cpp:138) does not release the reference the comment at 147 speaks of; `notify` is submitted
only in a composition mode `enigma.cpp` does not use, and references are not modelled.

## 5. The resource manager

All of it runs in the main thread, and an action is one call from outside: a service is
tuned or freed, a raw channel is taken or given back, the release timer fires, a frontend
reports an event. Inside a call the order matters, so the operators (`AddUse`, `ReleaseUse`,
`StateChanged`, `Destroy`, `DropCache`, `Allocations`) take the manager's state as a record
and return it changed, one after the other as the code does.

| Variable | Code |
|---|---|
| `chan` | the objects of class `eDVBChannel`: id, frontend, `m_state`, `m_use_count` |
| `active` | `m_active_channels` |
| `inuse` | `m_inuse` of every `eDVBRegisteredFrontend` |
| `cached`, `conn`, `timer` | `m_cached_channel`, whom its connection observes, whether `m_releaseCachedChannelTimer` runs |
| `holds` | the channel of each user: `eDVBServicePMTHandler` holds it twice (`m_channel`, and its scan or `m_pvr_channel`), a raw user once |
| `fstate` | `m_state` of every frontend |

*Properties.*

* `UsesAreCounted`: `m_use_count` is the number of smart pointers on the channel; an object
  without uses is gone, from `m_active_channels` and from its frontend's count too.
* `CanAllocateIsExact`: `canAllocateChannel(id, ignore)` answers "could id be tuned if the
  service on `ignore` were stopped?" from the use counts 3 and 2. Both directions: it is
  asked in every reachable state about every handler, and compared with what
  `allocateChannel` does in the state in which that handler has left.
* `ImplementsTunerPool`: the whole implements `TunerPool`, where tuners that serve somebody
  never change and unused ones may be switched off at any moment.

*What does not hold.* An idle cached channel is not always timed. When its last user leaves while it is
still tuning, the release timer starts; if the lock arrives after that, the state becomes ok and
`DVBChannelStateChanged` stops the timer. The channel then keeps its tuner, unused, until the next
allocation drops it. In the other direction, `AddUse` leaves `state_last_instance` only: a user who comes
back after a lost lock does not stop the timer, and the cache is dropped under him. That costs nothing but
the cache, as `UsesAreCounted` shows.

*Abstracted.* Which of several free, compatible tuners is taken (the code compares scores,
the model leaves it open). Simulated frontends, demuxes, FBC tuners. A failing tune is a
disjunct of `Tune`: no frontend, an id that is not in the list, or `tune()` itself failing,
after which the new channel dies at once. `tune()` for a retune may fail too; its result is
ignored by the code and the frontend's state is then left as it was. The ids of streams are
assumed to differ from those of transponders (`KindsAssumption`): `allocatePVRChannel`
registers a stream's channel like any other, so a live service with the same id would share
a channel without a tuner. That raw users are named differently from handlers and from ids is
no fact about the program: `Wanting` writes a raw user's own name for what he wants.

## 6. The recording pipeline

Two threads. The *push thread* (`RecorderThread`) loops: look at `m_stop` (`check`), call
`read` (`call`, `read`), hand the block to `aio_write` (`write`), look at the requests under
way (`poll`), wait for the next buffer of the ring (`wait`); when it stops or fails it waits
for all buffers (`flush`) and sends its last message. `Interrupted` is what SIGUSR1 does to
whatever the thread is in. The disk answers each request in its own time and any order
(`Complete`).

The *main thread* (`RecordService`) runs one handler at a time, but handlers call each other
deeply: `prepare` tunes, `tuneExt` reports a tuned channel, which announces the cached
program, which starts the recording. The operators `DoPrepare`, `Tune`, `ChannelFound`,
`NewInfo`, `DoRecord`, `SetPids` therefore take the main thread's state as a record and
return it changed, in the order of the code; the record `c` is what the surroundings do
meanwhile: the state in which the channel is found, whether pids are cached, and one thing
that fails (no tuner, no demux, `open`, the demux device). Only stopping takes several steps
(`StopService`, `Signal`, `Join`), for it waits for the other thread.

| Variable | Code |
|---|---|
| `sv` | `eDVBServiceRecord` (`m_state`, `m_want_record`, `m_tuned`, `m_target_fd`, `m_pids_active`), its PMT handler (channel, demux, `m_PMT`, cached program), the recorder (`m_running`, `m_pids`), its owner and what it was told |
| `mpc`, `why` | where the main thread is in `eFilePushThreadRecorder::stop`, and for whom |
| `rpc`, `mstop`, `source`, `dest` | the push thread: its place, `m_stop`, its two descriptors |
| `aio`, `holds`, `cur`, `flushed` | the ring `m_aio`, the blocks in it, `m_current_buffer`, the loop of `flush` |
| `offset`, `lost`, `file`, `fds`, `msgs` | blocks read, blocks the disk refused while the file was open, the file on disk, open targets, the pump |

*Abstracted.* A block is a number; a file is a number and the set of blocks in it. Pids are
three sets, for what matters is which difference is added and removed: the PAT alone, those
that are cached, all that the PMT names. Left out: meta, cut list and access point files,
offline and stream sources, the stream thread, a failing meta file in `prepare`.

*Properties.*

* `StoppedIsComplete`: when the thread has ended and the disk has answered, the file has the blocks that
  were read, but for those the disk refused and for one at most that an interrupted flush gave up before
  the target was closed; while the target is open it lacks none of them.
* `FileKept`: no tuning, PMT or lost demux starts a file with a recording in it anew, unless its owner was
  told of a write error.
* `RecordsAllPids`: a running recorder has the pids of the program found last.
* `StopReturns` (liveness): a stop ends, though its signal may come just before the call it should interrupt.

*What does not hold,* and is visible in the model: SIGUSR1 also interrupts `aio_suspend`, so stopping may
report a failed write (`evtWriteError`) for one that is going on. The target is then closed under that write
(demux.cpp:463): it may still succeed or fail, and when it fails its block is missing from the file though
the disk refused nothing while it was open. `StoppedIsComplete` therefore waits for the disk, and says that
this happens to one block at most, for one signal interrupts one wait. Nor is every loss told: the failure
that the first poll finds is not reported at all (demux.cpp:552), so a file may lack a block and its owner
believe it complete. `StoppedIsComplete` is about the file and does not speak of what the owner heard.
`evtReadError` ends the thread and nobody is told (917-925), and neither is anybody of a `m_record->start`
that fails (servicedvbrecord.cpp:470): the service counts as recording. `m_want_record` stays set after a
write error, so the next program information removes the failed file and starts again, which `FileKept`
excepts since the owner was told. `getProgramInfo` remembers an empty program as if it were one
(pmt.cpp:685-687). A target opened before a recording starts is not closed when it is stopped while prepared
(servicedvbrecord.cpp:190-209). No event tells of a demux that could not be had (pmt.cpp:61). No document
promises otherwise, so none of this is a finding.

## 7. The EPG cache

`EpgStore` is the data: `byEvent` and `byTime` are the two maps of one service, and `File`
is what `sectionRead` does with an event, `FixOverlapping` included. All of it runs under
`cache_lock`, so each operation is one step. Time is counted in units of the 300 seconds
that `FixOverlapping` tolerates; an event may be that short, which is where its loops stop
at once. The type of a source is kept in a byte, as in the code: `VIASAT` (256) becomes 0,
which is `PRIVATE`. Such an event then counts as better than every source, so that its own
updates are refused.

`EpgChannels` is the two threads. The main thread hears of channels (`ChannelAdded`,
`ChannelRunning`, `ReleaseBegins`, `LockChannel`, `EraseChannel`) and of the time
(`TimeUpdated`, which starts the EPG thread and the channels that waited for it). The EPG
thread handles its messages (`GotStart`, `StartChannel`, `GotLeave`), its timers (`StartEPG`,
`AbortNonAvail`) and sections (`ReadData`). A step runs from one wait for a mutex to the
next; `channel_map_lock` and `channel_active` are variables with their owners, for
`channel_active` is locked in one handler and unlocked in another.

*Abstracted.* One service; a section holds one event; whether a table is complete is a choice
at each new section. Timers fire late but in the order of their intervals: `StartEPG` waits
until the messages that were sent before are handled (`ZAP_DELAY` is 2 s) and until the abort
timer is done. A channel that is allocated does not get the address of one that a message
still names: the code relies on it without a check (epgcache.cpp:1133, listed as a hazard).
Left out: look-ups and searches, load and save, descriptors, `flushEPG`, the private, FreeSat,
Virgin, Netmed and MHW readers, the end of the program. The iterators `prevEventIt` and
`prevTimeIt` are hints to `insert`; they may dangle when `FixOverlapping` has erased the
first entry of a map and returns false (698-702). A hint does not change what is inserted,
and what a dangling one does is not modelled.

*Properties.* `MapsAgree`, `EntriesLeaveForCause` of the store; `ReadsUnderLock`,
`ReleaseReturns`, `ReadingEnds` of the threads.

*What does not hold.* `DVBChannelStateChanged` takes the channel's `channel_active` (648) and then
`channel_map_lock` (650); `gotMessage` in the EPG thread takes `channel_map_lock` (1126) and then,
in `startChannel`, `channel_active` (1815). When a channel is released while its start is being
handled, each thread owns the mutex the other needs and both wait for ever: the leaveChannel
that was sent (646) never reaches "gotMessage -> abortEPG" (655). `LocksCrossed` is that moment,
which the two liveness properties except, and `LeaveIsHandled` states what fails.

## 8. Deep standby

`DeepStandby` composes the program with itself across shutdown and boot. Its timers are
recordings that succeed; what an activation can do wrong is the subject of `RecordTimer`.
`up` says whether the box is on, quitting, off, booting, or cut from the mains. `screen` is
the dialog in use: the InfoBar (`tv`), standby, `TryQuitMainloop`, or one of the questions of
`afterEvent`; `notes` are the notifications that wait for the InfoBar. A timer is in
`timers.xml` exactly when it is in the list, since the handler that changes a timer writes
the file and replaces it by a rename; what a cut between the two loses is a timer that was
never confirmed.

Actions: `Prepare`, `Run`, `Ended` are the three activations, with what `evEnd` tells its
listeners and what `afterEvent` does then; the `User` actions are keys, answers and new
timers; `DialogTimesOut`, `StandbyTimeout`, `ShowNotification` are timers of the main loop;
`Shutdown`, `WakeUp`, `PowerOn`, `PowerCut`, `PowerBack`, `Boot` go down and come up, with
`loadTimer` (`Loaded`) and the decisions of `Navigation.__init__`.

Three variables are history: `excused` (until then, lateness is due to the user or to the
mains), `givenup` (recordings the user broke off by switching off) and `touched`. `Tick`
forgets what can make no difference any more: the begin of a recording that is over, a
wake-up time that is past.

*Abstracted.* Time is in units, and `Lead`, `Reboot`, `Window`, `PrepareTime` stand for 240,
30, 360 and 20 seconds; `TimesAssumption` keeps what the code needs of their order. Zap
timers, wake-ups of plugins and of the sleep timer, background jobs (`TryQuitMainloop` also
waits for them) and what standby does to the playing service are left out.

*Properties.* `RecordsInTime`: a recording is missed only when its user broke it off or the
mains failed. `ViewersAreAsked`: the end of a recording never switches off a box in use.
`WokenGoesBack`: a box that was woken for recordings that should switch it off, and that
nobody touched, does not stay on.

*What does not hold,* and how the instance avoids it:

* `getNextRecordingTime` and `getNextTimerTime` skip activations that are not in the future
  (RecordTimer.py:909-925). A timer that is to be prepared in the very second in which
  another one ends is not counted, and the box goes down. The input `meet` allows such
  timers; it is off.
* A recording that is to be prepared while the box goes down gets no wake-up: the list of
  mytest.py:489 has activations later than now only. `QuitTime` is 0, so nothing is due in between.
* When the user switches off during a recording, the wake-up is computed from its end (240 s
  before it), and the box that comes up resumes it late. `givenup` excuses these.
* `loadTimer` (Navigation.py:36) starts recordings that are due before
  `setWasInDeepStandby` is called (41). A box that was woken late takes its standby for one
  the user has chosen, and AUTO leaves it on; `Woken` is about boxes that are up and not yet
  recording.
* Without a next timer the front processor keeps the last wake-up time (mytest.py:511), as
  it does in the model. Once it is past it wakes nobody.

## 9. The common interface

One main loop, and an action is one call from outside: a handler comes (`AddPMTHandler`),
goes (`RemovePMTHandler`) or has a new PMT (`PMTready`); a module opens its session, announces
its CAIDs (`CaInfo`), is pulled out (`Pull`) or is initialised by the user. Most of them end in
`recheckPMTHandlers`, which is `Recheck`: a fold over the handlers, and inside it one over the
slots (`Assign`), each step of which may share (`Share`) or link (`Link`) a slot. The operators
take the whole state as a record, for a slot linked for one handler is seen by the next.

`slot` has the fields of `eDVBCISlot`; `told` is external, what the module has on its list of
services. `RouteOf` follows the multiplexer (`/proc/stb/tsmux`) from a tuner's input back to the
tuner, and is compared with the chains in `RoutesFollowChains`.

*Abstracted.* A slot's list of services the user assigned is `Mapped` (by provider or CAID is
left out), what a module announces `Handles`. Left out: the byte protocols of sessions, MMI, the
CI+ helper, subservices, boxes with one slot. Services are scrambled and in the database.

*Properties.*

* `UsesAreExact`: a slot's `use_count` is the number of handlers whose chain has it.
* `RoutesFollowChains`: the multiplexer, followed backwards, leads each stream through its handlers' chain.
* `NobodyWaits`: no service is without a module that is free and would take it.

*What does not hold:*

* A second handler on the tuner of a running service, whose service a second free module takes, has no
  `cislot`: the module is linked to the tuner (dvbci.cpp:592-619), past the first one's, which still counts
  as running. `RunningUndisturbed`, which states "we dont like to change tsmux for running services" (401),
  is violated in the run `ci_running`, a finding: two services of one transponder, each for a module of its
  own, and the first one plays past its module when the other announces itself.
* A handler that shares a slot takes over the other's whole chain and counts every slot of it (553-558),
  those too it had been counted in. No removal takes that back, and `NobodyWaits` fails once the other
  module is pulled. The run `ci` avoids it: there a chain only grows while one handler has it.
* An empty CAPMT is "only" when `running_services` has one entry, "the last running service" (1357). A
  handler that shares a slot is not in it before its next PMT; when it leaves, the module drops the other's
  service: `RunningIsTold` fails in the instance of the run `ci`. With no entry left the empty CAPMT is
  "only" as well (1325), and clears the module's whole list.

## 10. Satellite equipment control

`prepare` (sec.cpp) compares what a satellite needs with what the cable is believed to be set to
and writes a list of commands; `tuneLoop` (frontend.cpp) executes one each time its timer fires.
Both are modelled command by command, with the jumps. An action is one call: `Tune`, `Release`,
`CloseFrontend` by channels and timers, `TuneLoop` one command, `Lock`, `Loss`, `Timeout`, `TimedOut` the
tuner's events with the retune that `eDVBChannel::frontendStateChanged` answers them with.

| Variable | Code |
|---|---|
| `box` | what is installed, chosen at the start: a chain of linked frontends, LNBs with their DiSEqC and rotor parameters, satellites |
| `fe` | of each frontend: `m_state`, `m_inuse`, the `disable` timer, `m_sn`, `m_tuning`, `m_timeout`, `m_rotor_mode`, `setRotorMoving`, and what it is tuned to |
| `sec` | `m_sec_sequence` with its position, `m_tuneTimer`, `m_timeoutCount`, `m_retryCount`, `m_idleInputpower`, `m_runningInputpower`, the `okcount` of the loops |
| `m_data` | of the first frontend of the chain: `CSW`, `UCSW`, `TONEBURST`, `ROTOR_CMD`, `ROTOR_POS`, their `NEW_` twins, `CUR_VOLTAGE`, `CUR_TONE` |
| `hw` | external: how the switches stand, where the rotor is and where it goes |

The equipment is the simplest that the code's own rules make sense for: switches stand in a
cascade in the order of `m_command_order`, one that is turned leads to another of which nothing
is known (that is why `prepare` resends what stands behind it), all forget without voltage, and
a rotor draws more power while it moves. A command without voltage or under the tone is wasted.

*Abstracted.* Delays; the number of rounds of a loop (`StartTime`, `RunTime`) and of readings it
wants to see (`OkSteps`); the committed command is 240 + position + band as in the code; rotor
positions are numbers. Left out: Unicable, rotors that several cables share, the score that
chooses between LNBs, fixed and increased voltages, DiSEqC at 13 V, FBC tuners, simulation.

*Properties.*

* `EquipmentIsSet`: when a frontend in use starts to listen to its tuner, voltage, tone, switches
  and rotor are as its satellite needs them.
* `BusIsReady`: no command is wasted, whichever jumps over `SET_VOLTAGE` and `SET_TONE` are taken.
* `NoDisturb`: a frontend that is locked keeps its signal, whatever those linked to it do, but for the
  forced close described below.
* `SequenceEnds` (liveness): every list ends or is begun anew; its loops are left.

*What does not hold.* With three tuners in a chain a locked one may lose its signal to another. The first,
A, is released but stays open, for closeFrontend refuses while B behind it is locked (frontend.cpp:641-650).
C is tuned to what B receives, which `canTune` permits. The first turn of C's `tuneLoop` finds A unused and
not idle and closes it by force (1370-1377), past that guard: B is without voltage until C's list has set it
again. `NoDisturb` excepts exactly this step (`Reopened`: the first frontend goes to `idle`); without the
exception TLC violates it in the three-tuner box of the run. How B reacts to it is `fade`, below.

More that does not hold, and the input of `Env` that would allow it (all are off):

* `fade`: a lost lock or a timeout of the first frontend resets its `CSW` (frontend.cpp:760, 777).
  While a linked one is in use, `canTune` then refuses the retune, for what it compares with is
  gone. `m_sn` is stopped already, and no event will ever come: the channel stays lost, against
  "we try to retune in order to re-acquire lock" (dvb.cpp:1539). `LossIsRetried` states it.
* `letgo`: when the first frontend is let go or closed while a linked one's list is executed, its
  voltage goes and the list goes on. With `m_use_fast` the committed command is not sent again
  after the first one was forced to close (sec.cpp:354-360 against 484-489), either.
* `crossed`: between `tune` and `INVALIDATE` or `UPDATE_CURRENT_SWITCHPARMS`, `canTune` of a linked
  tuner compares with what the cable was set to before. The list of a tuner that was let go
  is executed for up to 3 s more. What two lists do to each other on one cable is therefore covered by no
  property.
* `slow`: a rotor that needs longer than its time is believed to have arrived.

Three more oddities the model has and no property speaks of: `feEvent` and `tune` look for the first
frontend along `LINKED_NEXT_PTR` (frontend.cpp:723, 2185) and end at the last one; `timeout` resets
the tuner's own data (777). With slow turning and an idle cable, `GOTO +9` (sec.cpp:764) skips
the 13 V before the measurement, so the idle power of one voltage is compared with that of the
other. After a rotor has been awaited by lock there is no tune timeout, `m_tuning` stays set, and
a lock lost later is never reported as such.

## 11. The main loop

`pc` is where the loop is: with the reactor (`out`), at the top of `iterate`, serving timers
(`timers`), in `poll`, dispatching what poll reported (`dispatch`). `running` is the timer or
notifier whose handler it has called; between `ActivateTimer`, `Dispatch` or `Receive` and `Return`
that handler may make up to `MaxCalls` calls of its own (`Calls`), and so may the reactor's handlers while
`pc = "out"`. Time goes on at any moment, in handlers too (`Tick`).

| Variable | Code |
|---|---|
| `sn` | `eSocketNotifier`: `fd`, `state` (0 stopped, 1 in poll, 2 started since), and whether the program still holds a reference |
| `notifiers` | `eMainloop::notifiers` |
| `timer`, `m_timer_list` | `eTimer`: `bActive`, `interval`, `bSingleShot`, `nextActivation` minus the present; the list |
| `m_interrupt_requested`, `call`, `twisted` | `interruptPoll`'s flag, the time to the next `callLater`, `m_twisted_timer` minus the present |
| `queued`, `written`, `pushed`, `count` | of the pump: its queue, its eventfd, threads between the two, the events `do_recv` has still to serve |
| `now`, `wake`, `limited`, `revents`, `leave` | locals of `processOneEvent` and `iterate` |
| `ready` | external: files that poll will report |

*Abstracted.* Each notifier waits for one kind of event. Times are units; `start(0)` is one unit, for the
clock has gone on since `now` was taken. A file is open as long as its notifier is held, and a descriptor is
given again as soon as it is closed. What a handler calls is one of three programs (files with messages,
files with timers, timers with delayed calls), so that a run does not multiply what has nothing to do with
each other. Timers live as long as the loop. Left out: `setRequested`, `quit`, the end of a loop, nested
loops, the reactor's own files (`others` is one of them ready, or a signal).

*Properties.*

* `OwnEvents`: whoever is called was polled, and for its own file.
* `NoAbort`: neither assertion of the map fails, and a pump's event has its message.
* `SleepsInTime`: poll does not sleep past a timer, though timers were started after others were
  served and the clock has gone on.
* `EventsAreServed` (liveness): timers, files, messages and the reactor's call are served.

*What does not hold.*

* With no timer, `poll_timeout` is -1 and the condition at ebase.cpp:213 leaves it so: the
  reactor's timeout is ignored and `poll` may sleep for ever, against ebase.h:225-229
  (`TimeoutReturns`). enigma2 always has a timer; `EventsAreServed` asks for one.
* `interruptPoll` sets a flag that is looked at before `poll` only (ebase.cpp:343). A `callLater`
  from an `eTimer`'s handler inside `processOneEvent` waits for the next event.
* A timeout below 1 ms is 0, which means none (e2reactor.py:144, ebase.cpp:334, 360): delays are
  at least one unit. `iterate` returns 0 on a timeout, where ebase.h:227 says 1; no caller looks.
* A repeating timer with interval 0 is due again at once, and the timers' loop (194) is never
  left. `MainLoopAssumption` excludes it.

## 12. The runs

| Run | Instance | Shows |
|---|---|---|
| `timer_core` | 2 timers (one instant), 2 services, clock 1..3, fair | no recording is left behind, the eTimer is in time, the lists agree, handlers return and recordings end, under failures with backoff, the dialogs, edits in place, and edits before which a recording gives way |
| `timer_faults` | 2 timers, 2 services, clock 1..3, set to any time | what survives failures without backoff, edits of active timers, zap timers and the timewarp loop: one place and one service for each entry, lists that agree, punctual activations |
| `timer_removal` | `stopcoming` | **violation**: a removed recording goes on |
| `channels` | 2 services, 1 raw user, 2 linked tuners, 3 transponders, streams and files | counts, states and timer agree; `canAllocateChannel` is right; implements `TunerPool` |
| `render` | ring of 3 slots, 3 operations and the shutdown, a turn of the main loop, spinner switch, notify, timeouts that may come or not, fair | gRC implements `RenderFifo`; the spinner is hidden under paint and costs nothing of the picture; no wake-up is lost, submit and the destructor return |
| `recording` | 2 buffers, 3 blocks, 2 files, every fault | the file is kept and lacks what the disk refused and one given-up block at most, has all pids; stop returns |
| `epg` | one channel added once, 2 sources (one is `VIASAT`), 2 event ids, 3 times, no duration or one of 3 units | the store, the lock protocol, and that reading and releasing end |
| `ci` | 2 slots, 2 tuners, 3 handlers, 3 services, 2 of them on one transponder | counts, chains and the multiplexer agree; nobody waits |
| `ci_running` | 2 slots, 2 handlers, a module for each of two services | **violation**: a running service's stream is led past its module |
| `sec` | 10 boxes: cascades in 5 orders, one with fast and repeated commands; 3 with a rotor; 2 and 3 linked tuners | whoever listens is served, commands reach the equipment, linked tuners keep theirs but for the forced close, lists end |
| `main_loop` | a pump and 2 notifiers on 2 descriptors, 2 timers, 2 senders, handlers of 2 calls, one unit late, fair | own events only, no assertion fails, poll wakes in time, everything is served |
| `shutdown` | 2 timers, `afterEvent` AUTO or deep standby, clock 0..10, power cuts | recordings are in time, viewers asked, woken boxes go back |

*Why these bounds.* Two timers are enough for every pair of entries that meet in one handler (an entry being
activated and a wrong running one; a removed one and an instant recording to extend or shorten), two
services so that each can have its own and one can be leaked, and three units of time so that a timer can
prepare, fail, back off, start, be extended and be overtaken by the next occurrence (`Day` = 2).
`WrongAhead`, `KeepTime` and `MaxWaitTime` are small enough to expire within a run and keep their order with
the others (the Faults run has `WrongAhead` 1 to make wrong running timers). The runs have 149,000 and 2.0
million states. The safety properties were also checked on larger instances that are not among the runs:
four units of time with everything `timer_core` has (1.0 million states), an instant recording under the
inputs of `timer_faults` and `conflict` (0.9 million), and the fair run with four units and `editrepeated`
but no instant recording. A ring of three slots holds two operations, so three operations and the shutdown
fill it, block `submit` and wrap both pointers. One counted turn of the main loop is enough for the render
thread to find the count it remembers equal and different, which is all it asks of it.

Two services on two tuners meet in every way: on one channel, on two, and one of them on the
cached channel the other has left. One transponder can be received by both tuners and two by
one only, so an allocation may fail, succeed after dropping the cache, or depend on which
tuner the other has. Four channel objects are as many as can live at once
(`ChannelsAssumption`).

Three blocks go round a ring of two buffers, so that one is used again while the other may
still be written; two files allow a recording to be started again. Two event ids, three start
times and an event that lasts over all of them or has no duration make one collide by id, by
start and by overlap at once; without a duration `FixOverlapping`'s second loop goes as far back as
it would for the longest (`Displaces`). The EPG's protocol is per channel, as its mutex is; the other
shared lock, `channel_map_lock`, is held against the main thread whatever channel it is for.
Two recordings are the one that ends and the next; ten units let the box go down after the
first, be woken `Lead` before the second, record it and go down again, with a power cut
anywhere. The run uses the two kinds of `afterEvent` that switch off; `"none"` asks nothing
and `"standby"` asks for what a user may do at any moment.

Two slots make a chain and a choice, and three handlers let one service use both, and two others
share one of them while the third frees it.

A box of satellite equipment is chosen at the start: each order of committed, uncommitted and toneburst
switches, commands sent fast or repeated, a rotor that is waited for by time, by input power or by lock, one
tuner, or two that share a cable and a switch, or three that share a cable. Three is what it takes for the
first one to be out of use while one is served and another is tuned. The box of three receives one channel,
so that its states are few; with two channels of different bands (0.5 million states) the properties hold as
well. A loop of two rounds is entered, repeated and given up; one retry is one and then none. A rotor on a
cable of two tuners has some millions of states and is not in the run.

Two descriptors for three notifiers make each be used again; two calls are what it takes to
close a file and open another in the same handler. Two timers are in either order, and a unit of
lateness lets a served timer be due again before the loop has come round.

*Deadlock* is checked except in the EPG run (time and the channels run out, and the locks
may cross). Elsewhere, an explicit stuttering action of a program that is over (`Over`,
`Ended`), or time that may always be spent, keeps a correct end apart from a deadlock.

*Fairness.* For the timers: the main loop runs a started handler to its end (`WF(Step)`) and
serves a due eTimer between other events (`SF(TimerFires)`: `eMainloop::processOneEvent`
looks at its timers on every turn), and time passes. For gRC: both threads are scheduled
(weak fairness of what each does by itself) and the mutex is granted to a thread that keeps
asking for it (`SF(TrySubmit)`); nothing is assumed of timeouts, since the waits follow
`CLOCK_REALTIME` and the clock may be set back. For the recording: both threads run and the
disk answers each request; the demux need not deliver anything. For the EPG: both threads
run, the abort timer fires, and of a source whose reading may end a section comes again, as
broadcasters repeat their tables. For deep standby: the box does not stand still, that is
one of what its main loop, its dialogs' timeouts, its going down and coming up, and the clock
can do is done in the end (a single weak fairness condition). For satellite control: the main loop
serves the timer of a list while it is set, and a rotor with voltage arrives. For the main loop:
it goes on, a handler returns after its calls, a sender that has pushed triggers, and time passes.
Users need do nothing.

*Findings.* The two violations are described in `PROJECT.json` with the comments they contradict: a removed
timer whose recording continues, and a running service whose stream is led past its module. What else does
not hold is described with its part: the endless retry of a recording whose service cannot be allocated and
the edit in place of a running one (section 3), the EPG cache's crossed locks (7), what chains of shared
modules do (9), the forced close that disturbs another tuner and the retry that is lost after a fade (10),
the reactor's timeout (11). `LeaveIsHandled`, `RunningIsTold`, `LossIsRetried` and `TimeoutReturns` are
definitions that no run checks; they say precisely what fails.

## 13. The proofs

What holds for all values of the constants (any number of timers, services, slots,
operations, any durations, any `Env`, but for the conditions the table names):

| Theorem | States |
|---|---|
| `RecordTimerTypes` | `TypeOK` |
| `OneHomeAlways` | `OneHome` |
| `NoSharingAlways` | `NoSharing` |
| `PunctualAlways` | `PunctualActivation` |
| `WakesInTimeAlways` | `WakesInTime`, where `Env` lacks `clockset`, `inplaceactive`, `autostopped` and `conflict` (`Prompt`) |
| `ListsAreConsistentAlways` | `ListsAreConsistent`, where users and the clock keep out of what is recorded (`Undisturbed`) |
| `NoOrphanAlways` | `NoOrphan`, there and without `rename` |
| `RenderQueueTypes` | `TypeOK` of gRC |
| `SpinnerHiddenAlways` | `SpinnerHidden` |
| `PictureCompleteAlways` | `PictureComplete` |
| `GrcImplementsFifo` | gRC implements `RenderFifo` |
| `MainLoopTypes` | `TypeOK` of the main loop |
| `OwnEventsAlways`, `NoAbortAlways`, `SleepsInTimeAlways` | `OwnEvents`, `NoAbort`, `SleepsInTime` |
| `ChannelTypes` | `TypeOK` of the resource manager |
| `UsesAreCountedAlways` | `UsesAreCounted` |
| `CanAllocateIsExactAlways` | `CanAllocateIsExact` |
| `ManagerImplementsTunerPool` | the resource manager implements `TunerPool` |
| `EpgStoreTypes`, `StoreMapsAgree`, `StoreEntriesLeaveForCause` | the type invariant, `MapsAgree` and `EntriesLeaveForCause` of the store by itself (`StoreSpec`) |
| `EpgImplementsStore` | the two threads implement `StoreSpec` |
| `EpgMapsAgree`, `EpgEntriesLeaveForCause` | and so keep both |
| `EpgTypes`, `ReadsUnderLockAlways` | `TypeOK` and `ReadsUnderLock` of the threads |
| `RecordServiceTypes` | `TypeOK` of the recording pipeline |
| `StoppedIsCompleteAlways` | `StoppedIsComplete`: what a stopped recorder's file may lack |
| `RecordsAllPidsAlways` | `RecordsAllPids` |
| `FileKeptAlways` | `FileKept` |
| `DeepStandbyTypes` | `TypeOK` of the box |
| `ViewersAreAskedAlways` | `ViewersAreAsked` |
| `RecordsInTimeAlways` | `RecordsInTime`, where `QuitTime = 0` and `Env` lacks `meet` (`Orderly`) |

*Timers.* `OneHome` is not inductive: that a nested call moves an entry only once depends on
which frames may hold which entries, and the arguments of frames have to be related to the
lists *before* a handler pushes another frame. The inductive invariant `IInv` states it for
`timer_list`, `processed` and `stack` as three arguments (`Homes`), so that it can be used
for the intermediate lists inside a handler; `Owned` relates entries and services likewise.
The lemmas follow the operators: what `Insorted`, `Without` and `SortsOf` keep (module
`TimerListsProofs`), then `AddTimerEntry`, `TimeChanged` and `Settle` preserve `Homes`, then
one step per action. Only the assumptions named in `RecordTimer` are used: lengths of time
are natural numbers, `None` is no timer or service. `OneHome` and `NoSharing` hold for every
`Env`, the harmful inputs included.

*The eTimer.* `WakesInTime` speaks of the idle main loop, `WInv` of every nested call: either a frame of
`calcNextActivation` is on the stack, which will set the eTimer in the end (`ScheduleNextAwake`), or the
eTimer is early enough (`Early`) for every entry of `timer_list` but those a frame still has to
redo (`Redoing`): `runningEventCallback`, which calls `timeChanged` after `doActivate`, and `removeEntry`,
which forgets its entry. So each operator either starts `calcNextActivation` or takes the entry it moved out
of the list (`Retires`), and lets the frames below go on (`GoesOn`); the timewarp loop, which adds entries
without a recalculation, has one below it (`ResetsReturn`). Sortedness is not needed: `calcNextActivation`
takes the minimum over the whole list. An edit in place of a timer that waits leaves its activation as it was
(`EditedAwake`). Without any of the first three conditions of `Prompt` exactly the step of that input is not
provable, and TLC finds the late eTimer; `conflict` is left to the runs, which find none.

*The lists.* `ListsAreConsistent` speaks of the idle main loop too, and says nothing of why `timeChanged`
and `removeEntry` find their entries in the middle of nested calls. `LInv` says it of every state. `Stored`
is about where an entry is: what `timer_list` holds can still be activated and, if it is active, has a
recording or is a zap timer (`Listed`); what is processed or held by a frame has ended; an entry that is
active is in `timer_list` whatever frame is on the stack. `Awaited` is about what frames rely on: the
dialogs' callbacks that their entry is still coming (`Coming`), `removeEntry` that its entry is processed or
about to be, because `processActivation` is still to come and ends it (`Closing`). For that the list has to
be sorted (`Ordered`), or the activation stops before it: this is what an edit in place of an active timer
destroys. `Calm` restricts the frames: there is no timewarp loop, no wrong running timer is left to a
`finish` frame, and the frames of users' events are at the bottom only. No entry is a wrong running one
(`begin <= now + WrongAhead` in `Listed`), which needs that a timer is prepared at most `WrongAhead` before
its begin: that is `PrepareTime <= WrongAhead` (20 s and 100 s in the code) and `MaxBackoff <= WrongAhead`
(100 s both). `KeepTime > 0` is a condition of the code as well: with `config.recording.keep_timers` at 0
days a nested cleanup may drop the very entry `removeEntry` is about to remove. As for `IInv`, the parts are
stated of arguments, so that one lemma on `AddTimerEntry`, `TimeChanged`, `Settle` and `DoActivate` serves
every handler, and one lemma `...Rests` per action gives `Rests` for each entry.

*Recordings left behind.* `NoSharing` goes from an entry to its service, `NoOrphan` from a service to an
entry. `Recorded` says that every service some recording has belongs to an entry; `Stored` gives the rest:
an entry that is not active has no service (`Unrecorded`), and one that is active is in `timer_list`. The
lemmas say what each operator adds to the services and that it writes the entry it took the service for
(`KeepsRecordings`, `AddedServices`, `WrittenServices`); an entry that is forgotten has ended, so it had
none (`DoneUnrecorded`).

*Render queue.* The invariant `Numbered` says that operations are numbered in the order of
submission (`sent` is `done`, plus the one being executed, plus the ring's length; the i-th
of the ring has the number `done + i`, and so on). The lemmas `TakeContents` and
`SubmitContents` are about the ring as a queue: taking advances `rp` and removes the head,
submitting writes the slot at `wp` and appends, and neither touches another pending
operation, across the wrap. `FifoStep` maps every step to a step of `RenderFifo` or a
stutter. `Background` is the invariant behind `PictureComplete`.

*Main loop.* The inductive invariant has five parts. *Registrations*: a notifier is in the map
under its own descriptor exactly when it is started, and no two that are held have one
descriptor. *Reports*: what poll has reported and is still to be dispatched names a notifier that
was polled (state 1) or nobody; a notifier that starts in a handler is in state 2, so that it is not
called for its predecessor's event. *Counted messages*: the eventfd's value, the threads between
their push and their write, and the events `do_recv` has still to serve add up to the queue's length.
*Timers*: the list has the active timers once each, in the order of their activations, though a
handler may start and stop any of them. *Places*: what the locals of `processOneEvent` say of the
list where `pc` is. `RegsStep`, `RestStep`, `CountedStep`, `PlaceStep` and `SleepsStep` preserve one part
each, and the operators (`StopKeeps`, `StartKeeps`, `DestroyKeeps`, `ListedAnew`) have lemmas of their own.

*Resource manager.* `UsesAreCounted` is false inside an action, between one `eUsePtr` and the
next. So the lemmas about operators speak of `Sound(s, w)`, a state whose counts are right if
`w[c]` further uses of each channel are owed: `AddUseCounts` and `ReleaseUseCounts` change both by one,
`DestroyCounts`, `DropCacheCounts` and `CreateCounts` take a channel away and make one. At the end of
an action what is owed is what `holds` and `cached` say, and that is `MInv`. `OneIsUnborn` counts the
holders: there is always an object left for a new channel (`ChannelsAssumption`). `Effect` says what
an action may come to, seen from outside - a shared channel, a new one, a stream, a user who left, a
refusal - and each action is shown to keep `MInv` and to have one of these effects (`StepKeeps`). The
other theorems follow from that alone. For `CanAllocateIsExact`, `GivenBack` and `GivenIsFree` say what
remains when the handler on `ignore` has left, and that its use count is 2, or 3 with the cache, exactly
when nobody else is on it. For the refinement, `StaysOrOff` shows that a tuner's channel keeps its
transponder while it lives, and one lemma `Pool...` takes each effect to its step of `TunerPool`; the named
operators `Serving` and `Wanting` are the mapping.

*EPG store.* `Deletion` and `Replacement` are about two maps that agree: they still do when the
events of a set of times are erased from both, and when an event is put under its id and its start
and those it displaces are erased first. `Filed` shows that what `FixOverlapping` erases are events the new
one `Displaces`. `StoreSteps` is one step per operation, and `ThreadsStep` maps each step of the two
threads to one of them or a stutter.

*EPG threads.* That data is erased and read under the channel's mutex rests on whom a message
still names. The invariant says: a channel's messages in the queue and its place in the EPG thread
are at most one start and one leave, in this order; a mutex that is held has the owner its channel's
place says; and a channel that is up and not being released has its lock held or on the way. `StartWaits`
is why no start overtakes a leave.

*Recording pipeline.* The operators of the main thread (`DoPrepare` down to `SetPids`) have one lemma each,
about any record a handler may have come to: `Good(w)` says what holds of it, `Since(w)` what the handler
has done to the file and the recorder so far, and `Leads(w, q)` what one operator leaves to the rest of the
handler. `Begins` and `Ends` connect that record with the state before and after the step. `RecordsAllPids`
follows from `KnowsAll`, which speaks of the pids the service *believes* to be active, and from their being
the recorder's (`ServiceOK`). `StoppedIsComplete` is not inductive: `BlocksOK` says of every state that,
while the target is open, each block that was handed to the disk is in a busy buffer, refused, or in the
file, and in one of them only; and that one at most is missing once the target is closed. `FillsFree` says
that the thread never fills a buffer that is being written, and `FlushOK` that `flush` has waited for every
buffer it has passed but for one, and for that one only if a stop was asked for: so when `EndStop` closes
the target, one buffer at most is busy. A block that is written then moves from its buffer to the file
(`CompleteKeeps`), in whatever order. `StopOK` ties the thread's life to the service's: it runs only between
start and the end of stop, with its target open. `FileKept` needs that a file exists before a new recorder
only where the owner was told (`FilesOK`).

*Deep standby.* `RecordsInTime` speaks of a moment at rest; the invariant says what keeps it in every
state the box may be in. While it is on, no timer is behind its time (`OnSchedule`), and a timer that was
made late is prepared before another recording ends (`PreparedFirst`). `Apart` is what the absence of
`meet` comes to. Together they show that nothing is due when the end of a recording quits the main loop
(`EndedInTime`): then all that is left waits and is more than `Window` away, or the user has insisted
(`QuitsInTime`). `WakeIsEarly` is the arithmetic of mytest.py: for each recording to come the wake-up plus the
time to boot is before its begin, or before what the user's own switching off excuses (`OffInTime`). Booting
(`UpInTime`) and `loadTimer` (`BootInTime`) hand that on, and `PowerCut` may come at any point. The proof
uses both conditions of `Orderly`, where section 8 says that the code needs them. For the types, each
notification is paid for by a timer that ends once, by the wake-up or by a question (`NotesArePaid`).
`ViewersAreAsked` holds without conditions: the listener of record events exists in standby only
(`ListensInStandby`).

The proof of `BootInTime` failed at first, and rightly: `Loaded` was a `CASE` with overlapping guards, of
which TLC takes the first and the semantics any. It is a chain of `IF` now, as the code is.

*Only model-checked.* Liveness everywhere (fairness is out of the prover's reach). `ListsAreConsistent` with
a clock that is set and edits of active timers: the Faults run has them. The common interface: `Recheck` is
a fold over handlers and slots, and what a fold computes can be proved by induction on the sequence only,
which the provers cannot instantiate. Satellite control: `BusIsReady` and its siblings are about lists of
commands with relative jumps that `Init` chooses; a proof has to execute each of them symbolically.

## 14. Plan

The modelling is done as far as section 15 says, and every invariant whose proof is within the provers'
reach is proved. Left, if it is worth the effort: `ListsAreConsistent` without `Undisturbed`'s conditions on
the clock and on edits that `timeChanged` follows, which needs an invariant of the timewarp loop, where
ended entries are taken from `processed_timers` and filed anew while frames below still name them. Out of
the provers' reach stay liveness, the folds of `CommonInterface` and the lists of `SatelliteControl`.

## 15. Not modelled

The larger part of the repository's lines are screens, plugins, converters, skins and their
helpers: presentation without state that outlives a screen. Of what is left:

* *Timer sanity check.* Its verdict follows from simulated recordings on simulated frontends,
  that is from a second copy of the resource manager and from what each tuner can receive;
  in `RecordTimer` it is a choice.
* *Other tuners and cables.* Unicable, rotors that several cables share, the score that chooses
  between LNBs, FBC tuners, terrestrial and cable tuning: what is right depends on equipment the
  repository says little about. `ChannelManager` has frontends as surroundings that lock, lose
  and fail.
* *Playback, streaming, HDMI-CEC.* Decoders, byte protocols and other
  devices: one main thread driven by an outside the repository says little about.
* *Scan, configuration, storage, jobs, drawing, layout.* Sequential computations on data, or
  device I/O, without concurrency of their own.
* *Sleep timer.* A sibling of the recording timers on the same base class, without services.
* *Format of `timers.xml`.* That a timer is on disk when the handler returns is modelled, what
  it forgets of a repeated timer that has moved on is not.
