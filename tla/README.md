# FroggyKVM in TLA+

A verification project for FroggyKVM, the port of PSPKVM (Sun's phoneME Feature: CLDC
virtual machine and MIDP library) to a small MIPS handheld as a libretro core. It models
the way a button press, a repaint or a system event takes from the front end to a Java
listener, the threads and monitors that carry it, the record stores and the sound players
that games keep beside it, model-checks them with TLC on small instances, and proves the
two queues on that way, the dispatch of events and keys, the timers, the repaint events, the rings
of active threads, and the silence and budget of the sound players with TLAPS for every size.

All paths below are relative to `src/pspkvm/`.

## 1. The system

### 1.1 One thread, three kinds of control flow

The core runs in one native thread. `retro_run` (platform_gb300/platform.c) starts
`JavaTask` once and stays inside it until the game ends. What looks like concurrency comes
from

* **green threads**: the CLDC scheduler switches Java threads between bytecodes; a native
  method or a `synchronized` block with no wait in it is one step to the others that use
  the same lock;
* **polling**: `gb300_poll_events` polls the buttons, fires timers and feeds audio, and all
  of these may send events into the ring. It is called from `gb300_jvm_yield`, where the VM
  would wait (a receive looks at the ring again afterwards), from the interpreter loop every
  2048 bytecodes (Interpreter_c.cpp), and from every flush of the screen (video.c), that of
  the boot screen included;
* **the longjmp**: the pause menu leaves a game from inside such a poll by `longjmp` into
  `retro_run`. No finalizer runs, and every static variable of C code keeps its value for the
  next game (`retro_load_game` clears `jvm_started`, so a second VM starts in the same
  process; midpInit.c's `initLevel` says that its initialisation was done).

### 1.2 Components

| component | state | operations | what makes it correct |
|---|---|---|---|
| Platform event ring, `javacall/.../psp_mips/common/events.c` over `platform_gb300/psp_compat.h` | NUM_MBX mailboxes, two indices, `_events_inited`, `busy_count` | send, receive (two looks and a yield), init, finalize | FIFO, refuses only when full, survives init/finalize/longjmp in any order, a polling VM still yields |
| Native event queue, `midp/src/events/eventqueue/.../midpEvents.c` | circular buffer of MAX_EVENTS, monitor thread id and `isMonitorBlocked` | store, wait, read, reset, start, initialize, finalize | FIFO; no wake-up is lost; never unblocks a thread that is not blocked |
| Java event queue and dispatcher, `EventQueue.jpp` (EventQueue, NativeEventMonitor, NativeEventPool) | linked list, `waitingEvent` per type, pool, `alive` | post, remove, dispatch loop, monitor loop, start, shutdown | nothing lost, reordered or shared; every event is handled; shutdown drains and ends |
| Buttons, combos, pause menu, `platform_gb300/input.c`, `platform.c` | last buttons, held/used flags of the two modifiers, `s_active_jkey` | poll, load_config | presses and releases balance per key; a modifier is a combo or a tap |
| Key delivery, `javanotify_functions.c`, `javaTask.c`, `midp_msgQueue_md.c` | (the ring) | send a key or START event, receive it in JavaTask or the VM | the game's view of the keys agrees with the buttons |
| Core lifecycle, `platform.c`, `javaTask.c` | `game_loaded`, `jvm_started`, `s_exit_requested`, `s_can_exit_jmp` | retro_load_game, retro_run, retro_unload_game, JavaTask | every loaded game gets its START event; a stale ring does no harm |
| Software timers and the tick timer, `psp_mips/midp/time.c`, `cldc/.../OS_javacall.cpp` | five slots, their count, `tick_timer_handle` | initialize, finalize, check; start_ticks, stop_ticks | the count is exact; the running VM keeps its tick timer and is ticked |
| Audio players and mixer, `platform_gb300/audio.c` under `BasicPlayer.jpp`, `DirectPlayer.jpp` | players, PCM buffers, `g_wav_raw_total`, `g_wav_pcm_total` | load, start, stop, seek, close; top up and mix | buffers stay within the budget; what is stopped is silent; sounds end and tracks go on |
| Record store, `RecordStoreImpl.java`, `RecordStoreIndex.java` over `platform_gb300/rms_posix.c` | the file's header and blocks, cache of offsets, 64 handles | add, set, get, delete records; open, close, delete the store | the file is a table of records; a lookup finds what the file holds |
| Repaint producer, `RepaintEventProducer.java` | three rotating events, `queuedEvent`, `eventInProcess` | scheduleRepaint, process, serviceRepaints | no request is lost or torn; serviceRepaints returns, and not too early |
| Scheduler and monitors, `cldc/.../Scheduler.cpp`, `Synchronizer.cpp` | thread lists linked through the threads, rings of active threads | enter, exit, wait, notify, sleep, interrupt, block, unblock, yield | no thread falls out of its list; Java monitors; timeouts end; active threads run |
| Video, boot screen, skins | frame buffers | draw, convert | pixel data, no protocol |
| JAR metadata, inflate, GIF | parsers | decode | data transformations |
| M3G and Mascot 3D | scene and geometry | render | numeric code |
| PlayStation emulator, `../src`, `../libretro` | - | - | another console's core, which the J2ME core neither builds nor calls |
| CLDC interpreter, heap, class loader; AMS and LCDUI in Java; FluidLite, Pisces, stb | vendored | - | outside the port |

### 1.3 How they interact

```
 buttons --gb300_input_poll--> javanotify_key_event --javacall_event_send--> [ring, 9 places]
                                                                                |
      gb300_poll_events <--gb300_jvm_yield-- javacall_event_receive <-----------+
            | pause menu: longjmp                 | JavaTask until START, then
            v                                     v checkForSystemSignal (VM thread)
        retro_run                      StoreMIDPEventInVmThread --> [native queue, 20 slots]
                                                                         | waitForNativeEvent
                                                                         v
      listener <--process-- EventQueue.run <-- [Java queue, a list] <--post-- NativeEventMonitor
```

### 1.4 What is hard here

Two bounded queues and one unbounded one in a row, each with its own notion of "full"; a
monitor whose blocking is recorded in three places (Java thread, C flag, VM special-thread
slot); a drain loop that holds the Java lock while the native queue behind it can be reset
without that lock; coalescing by a reference to an event that is still queued; objects
that are pooled while others still link to them; a shutdown that may come before the
thread it shuts down has run; releases that must carry the key of their press although
modifiers changed in between; an event object that is filled in again while it is being
read; thread lists that a pass walks while it wakes threads, and may walk again from within;
a cache of file offsets that outlives the blocks it points to; a budget shared by players
that are loaded, rendered and closed between two reads; and static state that a longjmp
leaves behind. The list with lines is under `hazards` in PROJECT.json.

## 2. The modules

| module | models | lines of code it stands for |
|---|---|---|
| `BoundedFifo` | the abstract promise of an event queue | specification only |
| `EventRing` | the platform event ring | events.c 37-187, psp_compat.h mailboxes |
| `NativeEventQueue` | one isolate's native queue and its monitor | midpEvents.c 74-571 |
| `EventDispatch` | monitor thread, dispatch thread, posting threads, shutdown; composes `NativeEventQueue` by INSTANCE | EventQueue.jpp 45-705 |
| `Keypad` | buttons to key events | input.c 15-496, platform.c 272-314 |
| `KeyDelivery` | the games of one process: `Keypad` composed with a bounded FIFO, JavaTask and the VM | platform.c 237-453, javaTask.c 62-184, javanotify_functions.c 76-108, midp_msgQueue_md.c 55-85 |
| `TickTimer` | the timer slots and the scheduler's tick timer over the VMs of one process | time.c 40-163, OS_javacall.cpp 81-117 |
| `RepaintEvents` | the repaint producer, the dispatch thread and waiting threads | RepaintEventProducer.java 42-281, EventQueue.jpp 480-516 |
| `JavaMonitor` | the abstract promise of a Java monitor | specification only |
| `Monitors` | thread lists, locks, timeouts, interrupts | Scheduler.cpp 82-93, 453-575, 691-725, 911-1237, 1307-1391, 1488-1565; Synchronizer.cpp 42-244; Interpreter_c.cpp 947-1053 |
| `RunQueue` | rings of active threads and the choice of the next | Scheduler.cpp 159-328, 1079-1130, 1268-1301, 2130-2326 |
| `Ticks` | threads of VMs under the timers of one process: `RunQueue` composed with `TickTimer` | JVM.cpp 496-506, Thread.cpp 618-623, Scheduler.cpp 1079-1143 |
| `RecordTable` | the abstract promise of a record store | specification only |
| `RecordStore` | the file of one record store, its index and its handle | RecordStoreImpl.java 90-1104, RecordStoreIndex.java 144-478 |
| `AudioPlayers` | players, budgets and the mixer | audio.c 189-202, 640-788, 968-1196, 1243-1468; BasicPlayer.jpp, DirectPlayer.jpp |
| `EventRingProofs`, `NativeEventQueueProofs`, `EventDispatchProofs`, `RepaintEventsProofs`, `AudioPlayersProofs`, `KeyDeliveryProofs`, `RecordStoreProofs`, and `SchedulerProofs` for `Ticks` | proofs | - |
| `MC*` | instances for TLC | - |

### 2.1 BoundedFifo

A sequence, the element last handed out and how the last call ended. `Put` appends, or
refuses because the queue is full or memory is out; `Take` hands out the oldest element or
says "empty"; `Clear` throws everything away. Both concrete queues implement it.

### 2.2 EventRing

`box`, `recv`, `send` and `inited` are `_psp_mailboxID`, `_mbxid_recv`, `_mbxid_send` and
`_events_inited`. `javacall_event_send` is the whole function: lazy initialisation, a failed
malloc, the test for full, the store. A receive is two steps because the yield is between
its two looks: `javacall_event_receive(t)` (first look, `busy_count`, the decision to yield)
and then `YieldReturns` (second look). `PauseMenuJumps` is the longjmp, out of a yield or of
any other poll. `javacall_events_init` and `javacall_events_finalize` are JavaTask's calls.
The mailboxes are queues (psp_compat.h makes them lists), and that each holds at most one
message is a result, not an assumption. Left out: the branch of a receive whose buffer is too
small for the event (events.c:107-109, the event is taken and lost). Both receivers bring
`BINARY_BUFFER_MAX_LEN` bytes, which is more than any event has.

### 2.3 NativeEventQueue

`events`, `numEvents`, `eventIn`, `eventOut` and `isMonitorBlocked` are the fields of
`struct EventQueue`; `special` is the VM's record of the special thread and `monitor` what
the Java thread really does, so that the C flag can disagree with it. `WaitForNativeEvent`
is the native method in full: it reads an event, or registers, flags and blocks the caller and
is run again from its start (`SNI` async_redo) when unblocked. `ResetEventQueue` is in `Next`
without a caller because `shutdown`, `finalize` and `start` call it. `FinalizeEvents` stands for
an orderly end together with the `InitializeEvents` of the next start; `AbandonVM` for the
longjmp, after which the next VM does not call `InitializeEvents` (`initLevel`) and works on
the queue as it was left.

Left out: string parameters and their freeing (data), field-id caching, logging, the
multi-isolate broadcast of `StoreMIDPEvent` (this is a single-VM build).

### 2.4 EventDispatch

The green threads are program counters: `mon` (NativeEventMonitor.run), `disp`
(EventQueue.run), `shut` (a caller of `shutdown`), and the VM thread and other posters as
actions that are enabled at any time. Objects are explicit (`Obj`), because the code's
hazards are about identity: `next`, `nextEvent`, `lastEvent`, `waiting` and `pool` hold
references as the Java fields do, and `content` is what `getEventData` would read.

| action | code |
|---|---|
| `Start` | `EventQueue.start` with `resetEventQueue` |
| `VMStores` | `StoreMIDPEventInVmThread` of `NativeEventQueue` |
| `MonitorGets`, `MonitorWaits`, `MonitorPosts`, `MonitorDrains` | NativeEventMonitor.run: `pool.get`, `waitForNativeEvent`, then the `synchronized` block, one step per `readNativeEvent` since the native queue is not under the lock |
| `JavaPosts` | `post` by any other Java thread |
| `Remove` | `remove`, called by a listener in the dispatch thread |
| `DispatcherStarts`, `DispatcherWaits`, `DispatcherTakes`, `DispatcherProcesses` | EventQueue.run |
| `ShutdownSends`, `ShutdownChecks`, `ShutdownResets` | `shutdown` |

`processed`, `gone`, `discarded`, `shutdownId` and the ids are history: they number the
events so that order and loss can be stated. Objects that nothing refers to count as blank,
which is garbage collection and keeps the state space small. `Obj` must be large enough for an
unused one to be left always (`DispatchAssumption`, which TLC evaluates; section 4 proves that
it suffices).

A listener that throws ends the whole VM (`handleFatalError` in a single-VM build), so
`DispatcherProcesses` has no failing alternative. `registerEventListener` is left out: the
listeners are registered before their events can exist. For the same reason `Link` has no
branch for an invalid type or one without listener, which `post` drops with a message
(EventQueue.jpp 313-346). Of the vetoes of `LCDUIEventListener` the one that lets one event
of a type wait is modelled (`Vetoed`); the one for screen changes to the same screen is the
same with a narrower condition, and is left out.

### 2.5 Keypad and KeyDelivery

`gb300_input_poll(b)` is one action: the difference to the last poll, the two modifiers in
the code's order, the table of buttons, combos before plain keys, and with combos off the
short loop. `Events(b)` is the sequence of key events it sends. `gb300_poll_events` adds
the pause menu, which resumes or leaves. The key map that a file may set is a choice among
`Keymaps`; the parser of that file is not modelled. `balance` and `combined` are history.

`KeyDelivery` puts these events into a bounded FIFO, which `EventRing` is proved to implement,
and drops what does not fit, as their senders do by ignoring the result. `phase` stands
for `game_loaded`, `jvm_started`, `s_can_exit_jmp` and the place in `retro_run`:

| action | code |
|---|---|
| `retro_load_game`, `retro_unload_game` | the functions; the ring is not touched |
| `Poll` | `gb300_poll_events`, in every phase with a game; a pause menu that leaves jumps when the game is `Running` and changes nothing before and after |
| `SendStart` | the end of the boot screen in `retro_run`: START is sent and `JavaTask` entered |
| `JavaTask` | its loop: every event but START is thrown away |
| `checkForSystemSignal` | the VM receives an event |
| `VMEnds` | JavaTaskImpl returns and the ring is finalized |

`down` is what a game believes that follows every `keyPressed` and `keyReleased`; `View` is
what it will believe after the events that are still to be received, of which the last one
of each key counts (`Believed`). `early` are the keys
held since the boot screen, which the game never hears of. `HeldKeysSeen` is for keymaps in which no
two buttons share a key (`KeysUnshared`). In the shipped one two do (B and START with X both give
3): the first of them to be let go releases the key in the game, which `Balanced` and `NoStuckKey` cover and
`HeldKeysSeen` does not. Left out: `s_exit_requested`, the
shutdown request to the front end, and the malloc of a send, which is taken to succeed; of
`JavaTask` the early return without memory for the VM (javaTask.c:79-82, the game does not
start) and `midpFinalizeMemory` after each event (182), which touch neither the ring nor the
buttons.

### 2.6 TickTimer

`taken` and `handle` are `timer_slots` and `tick_timer_handle`; `left` is the time until `target_time_ms`. `gb300_check_timers` fires
every slot that is due in one step, since the only callback of this build sets flags and
touches no timer. `StartVM` is `start_ticks` in `Universe::bootstrap`. `StartFails` is a
bootstrap that finds no heap or no slot: `JVM::start` goes to its clean-up all the same, so
`stop_ticks` finalizes whatever slot the handle names, that of the last VM that had one.
`LeaveVM` is the longjmp. One-shot timers are left out: their users are not in the Makefile.

### 2.7 RepaintEvents

Each event object is one of 1..3; `pool`, `queuedEvent`, `eventInProcess`, `display`,
`region` and `perUseID` are the fields of the producer and of `RepaintEvent`. A rectangle is
the set of the requests it covers, so that merging is union and "what was asked for is
painted" can be said. `ScheduleRepaint` is the synchronized block with its three cases: queue
the spare event and rotate the pool (`Queue`, `Rotate`), overwrite the queued event's fields
for another display (`Overwrite`), merge (`Merge`). It is called by threads and, in listeners
and paints, by the dispatch thread. `process` is four steps, because it reads the event's
fields after it has given up the lock: `Process` (clear `queuedEvent`), `ReadDisplay`,
`ReadRegion` (the four coordinates and the target, read one after the other in the code, are
one step), `Finish` (clear `eventInProcess`, count `perUseID`, notify). The dispatch thread
takes the event from the queue in a step before (`Take`) and serves other events in between.
`serviceRepaints` is `ServiceOnDispatch`, or `ServiceRepaints`, `Wait` and `Return` with the
wake-up of `NotifyAll`; an interrupted wait goes on waiting, as the code's loop does.
`painted`, `superseded`, `askedBy` and `owed` are history. A paint that throws ends the VM
(`handleFatalError`).

### 2.8 Monitors and JavaMonitor

`next`, `nextWaiting` and `tail` are the link fields of the threads and of the anchor, so that
removal from the head, the middle and the tail of either chain is the code's and not that of
a set. `lockOwner` and `waiters` stand for the stack lock installed on an object, `vm` for the
VM's own stack: a poll, the pass over the timed-out threads with its saved `next_thread` and
`next_waiting`, a `notifyAll` on its way. An operation that may yield in the middle pushes a
frame and goes on when it is popped (`Return`).

| action | code |
|---|---|
| `Enter`, `Exit` | `lock_object`, `unlock_object`; `Synchronizer::enter`, `signal_waiters` |
| `WaitFor`, `Notify`, `NotifyAll`, `StepNotify` | `Scheduler::wait`, `notify`, `notify_wakeup` |
| `Sleep`, `BlockInNative`, `unblock_thread` | `sleep_current_thread`, `block_current_thread`, `unblock_thread` |
| `InterruptWaiting`, `InterruptOther`, `handle_pending_interrupt` | `interrupt_thread` and what follows at the next wait or sleep |
| `Yield`, `BeginPass`, `WakeDue`, `NextList`, `SwitchThread`, `Idle` | `timer_tick`, `yield`, `wake_up_timed_out_sleepers`, `wait_for_event_or_timer` |
| `Tick` | time passes |

`JavaMonitor` says what this should amount to: one owner at a time, a queue for the monitor
served in order when it is given up, a wait set whose longest waiter is notified first, and a
thread that left it by notification, timeout or interrupt queues for the monitor before it
goes on. A thread woken by an interrupt has an exception to take (`thrown`, `Catch`) before it
does anything else, and may be interrupted again before it has taken it (`interrupted`). Left
out: locks on interned strings, suspension of isolates, threads that end while
others wait for them, slave mode and the debugger.

### 2.9 RunQueue and Ticks

The ring of a priority is a sequence from its head; `count` is `_thread_execute_counts`,
which gives lower priorities a turn. `Pick` is `get_next_runnable_thread` in full, `Block`
and `Wake` the ways out of and into the rings that `Monitors` details, `set_priority` moves
a thread between them. The quotas of isolates are left out, and so is the extra pick of a
yield from within a pass.

`Ticks` puts this on top of `TickTimer`. A VM that starts has rings of its own with one thread
(`Start`); one that ends, fails or is left takes them with it (`Gone`), while the timers are
the process's. The running thread yields by itself (`CallYield`) or because a tick of the
timers has been noticed (`TickYield`). That all threads get a turn therefore depends on a
timer that VMs before this one have used and left behind, and nothing about the yielding is
assumed but what the timers give.

### 2.10 RecordStore and RecordTable

The file is a header and a sequence of cells of eight bytes, the size of a block header:
that is how blocks are aligned, and how a data cell can look like a block header. `cells`
and `disk` are the file, `dbHeader`, `cache` and `lastSeen` the store in memory. Each
operation runs under `rsLock` and is one action, composed of operators for the code's
functions (`addBlock`, `getFreeBlock`, `splitBlock`, `freeBlock`, `compactRecords`, ...),
which take the store and return it changed. `writeBlock` gives the file the cells in the
code's order, and the header fields that the code writes one by one are written by
`WriteHeader`. `Leave` is the longjmp between two operations, which keeps the file and loses
a handle (`leaked`; `OpenFails` when none is left). `LeaveMidway`, in a specification of its
own (`MidwaySpec`), is the same after any number of an operation's writes.

A cell of data may hold any bytes, those of a block header included. What a cell was written
as (`data`) is history: the code has no such mark, and reads a cell of data as a header when
its index sends it there. `misled` is history too; it notes that an operation has freed or
overwritten data that it took for a block, after which the file can be anything. The
properties and theorems speak of the time before that, the lookup that misleads included.

`RecordTable` is a table of records, the next identifier and their count, with an action for
each operation. `ImplementsTable` ties them together: each operation of the code makes the
step of the table that has its name, and a lookup, an opening, a closing with its compaction and
a left VM make none. One of them is not what RecordStore.java promises: a `setRecord` that
needs a larger block and finds no room has freed the old one by then, so it throws
RecordStoreFullException with the record gone and still counted. It is an action of its own
in both modules (`setRecordFull`), so that no other operation may lose a record or miscount.
`getRecordIDs` is what an enumeration is built from. It returns as many identifiers as the
store counts records; `EnumeratesAll` says that none is missing, and section 5 what comes
with them after a record was lost. `freeSize` is not reduced when a free block is used again,
and so an upper bound only.

Left out: version, modification time and access mode (fields no other state depends on), the
count of openings, listeners, failing reads and writes, several stores. The file never gets
shorter, as on the device (rms_posix.c 395-400); builds for other systems cut it off with
ftruncate (392) after a compaction, so that no header of a block that was there remains behind
its end.

### 2.11 AudioPlayers

`g_wav` is the table of players with the fields that loading, mixing and looping use; `java`
is the state of the Java player above each. Lengths are in units of what one read of the
mixer plays, and a stereo unit costs two units of the budget, so `BudgetKept` sees a release
that counts the wrong number of channels. Of a MIDI track `midi` keeps how many events it
has and how many are rendered; its length is known in whole seconds (`TotalFrames`), so that a
track of less than one does not loop though most of it is still to be rendered. `soundfont` says
which synthesiser there is, FluidLite or the fallback (audio.c 118-140): with the first, one
track is synthesised per read. Both are checked. `gb300_audio_read` is a step for its beginning, one per
player for `wav_topup_midi`, which share `g_midi_budget` (in `read`), and one for
`wav_mix_frame`. The front end and the game share one thread, so no call of the game comes
between them (`Goes`). Sound data is a WAV of some length or a MIDI track; the budget may
refuse it in part or whole. Pause and resume are left out, as DirectPlayer calls them for rtsp
streams only. `GameEnds` is the longjmp: it closes nothing, and `g_wav` goes
into the next game as it is.

## 3. The runs

| run | shows | bounds |
|---|---|---|
| `native_queue` | flag and wake-up of the monitor, and that the circular buffer implements `BoundedFifo` | 3 slots, 2 events; no other bound |
| `event_ring` | the same for the ring, that what is sent is received, and that polling yields | 3 mailboxes, 2 events, poll limit 2 |
| `dispatch` | seven properties of the three threads, below | 2 native slots, pool of 1, 2 native events and the shutdown event, 1 Java post |
| `repaint` | rotating events are not shared or torn, requests are kept and painted, who waits is served | 2 threads and the dispatcher, 2 displays, 4 requests |
| `monitors` | the linked lists implement Java monitors, every thread is in one place, timed waits end, as long as timeouts are on one object | 3 threads, 2 objects, timeouts on one of them, of 1 unit; one thread is interrupted and blocks in native methods |
| `ticks` | rings stay disjoint and every active thread gets its turn, over VMs that start, end, fail and are left; the timer count is exact, the running VM keeps its timer and is ticked, a failed start makes room | 3 threads, 2 priorities, one thread changes its own, 2 timer slots, interval 1; no other bound |
| `record_store` | the file implements a table of records, lookups through the cache are right, enumerations complete | 2 records at a time and in all until the store is deleted, contents of 0, 1 and 2 cells, of which some look like a free block or like the block of the second record, 5 cells of data, 1 handle |
| `audio` | budgets, silence after stop and close, sounds end, the first track that waits is synthesised, with and without a soundfont | 2 players, sounds of 1 and 3 units, tracks of 2 and 4, a second of 3, 2 units synthesised per read, a budget of 6, 1 seek |
| `key_delivery` | presses and releases balance, a modifier is a combo or a tap; no stuck key and no unseen key over any number of games, as long as nothing was refused | 3 buttons, ring of 4, 3 keymaps |
| `start_event`, `audio_loop`, `monitors_reentrant` | disagreements, section 5 | as the run they belong to; `audio_loop` 1 player, a budget of 8; `monitors_reentrant` timeouts on both objects |

Further configs are there to be run by hand: `MCKeypad.cfg` checks `Keypad` alone with five buttons,
and the others show the disagreements of section 5 that have no run.

**Why the bounds are enough.** Three slots are the least with which a circular buffer can be
partly full at every alignment, wrap, and be full; the theorems of section 4 hold for every
size. Two native events and a shutdown against a queue of two slots fill it, drop an
event, and leave one behind the first in the drain loop; the Java post is coalesced with a
waiting one or overtakes the native ones. A pool of one is empty, full and over-full. (With one
more native event, 315 436 states, all the invariants and liveness properties hold as well.)

Four repaint requests fill all three events: one being painted, one queued, the spare, and a
fourth that merges or overwrites; two displays and two waiting threads are the least with
which an object comes back to the queue for somebody else.
With three threads one holds a monitor, one queues for it and one waits, in any order, and the
list of either object loses its head, middle and tail. Interrupts and native calls of one
thread meet all states of the others.
Two objects link two lists of waiters. Three threads in two rings give a ring of one, two and three.
Five cells hold a record of two cells and one of one cell with their headers, so that a record
that grows does not fit before a free block is split or the file compacted, or does not fit at
all; a handle that leaks leaves none.
Contents that look like the second record's block or like a free one are moved over the places
the index remembers. The step that takes data for a block is checked and what follows it is not
(the constraint `NotMisled`).
A track of four units outlasts the prefix that is rendered on opening and one top-up, and loops;
one of two is shorter than a second and does not; two
tracks exceed the budget of 6, and a read has synthesis for one chunk only, so that the second
player finds `g_midi_budget` empty or the synthesiser used.

In `key_delivery` the three buttons are both modifiers and one with combos; `MCKeypad.cfg`
has a button with a SELECT combo, and two with START combos of
which one shares its key with a plain button: every branch of the poll is taken, and all 32
sets of held buttons occur after each other. The ring of four takes a
poll with two taps, or START and several polls; a running game in which START or a later
event was refused is checked but not followed (`OnlyClean`), since the invariants promise
nothing after it. Before START and after the end of a game full rings are followed, so
that the next game is started on every ring a predecessor may leave.

Two timer slots let a left VM keep its own beside the running one, and run out; the theorems of
section 4 hold for every number of them.

**The properties of `dispatch`.** `WaitingIsQueued`: the event a listener is shown to veto a
new one is really still queued. `PoolUnshared`: a pooled object is in nobody's hands.
`PipelineOrdered`: native events keep their order from the C store to the listener.
`NothingLost`: every stored event is in flight, handled or discarded by a shutdown.
`EventuallyHandled`, `ShutdownCompletes`: liveness. `ShutdownDrains`: what was stored before
the shutdown event is handled before the reset.

**Fairness.** `EventRing`: weak fairness of receiving, because `Scheduler::yield` and
`Scheduler::wait` call `checkForSystemSignal` each time the VM schedules, and of the yield's
return, because `gb300_jvm_yield` is a function that returns unless it jumps. Nothing is
assumed of senders, nor of restarts: the liveness properties except a VM that is gone.
`EventDispatch`: weak fairness of each step of each started thread. This is an assumption about
the scheduler and not quite what the code gives: `TicksShare` shows that threads which stay
active all get turns, but threads that block and wake in step can keep another from its turn
for ever (`NoStarvation`, section 5). `EventuallyHandled`, `ShutdownCompletes`, `ServiceReturns`
and `EventuallyPainted` say that the queue, the locks and the notifications lose nobody among
threads that do get turns. Nothing is assumed
of posters, of the VM storing, or of anybody calling `shutdown`. `Ticks`: weak fairness
of the clock and of `gb300_check_timers`, which the interpreter loop calls every 2048
bytecodes, of picking the next thread, and of the yield after a tick, as a tick is remembered
until the running thread takes note of it; nothing is assumed of VMs starting, ending or being
left, nor of threads. `RepaintEvents`, under the same assumption about threads: weak
fairness of each step of the dispatch thread and of the threads that wait, strong fairness
of `Take`, since the dispatch thread leaves the listener of another event again and again
and the queue is served in order. Nobody is assumed to ask for repaints. `Monitors`: weak
fairness of the VM's own steps, weak fairness of `Yield` (ticks come while Java runs;
`TickTimer`), strong fairness of `Tick`, because time passes whatever is enabled in between.
Nothing is assumed of what threads do, so `TimeoutsEnd` says a timed wait or sleep leaves
its list even if no monitor is ever given up.
`TicksShare` has the premise that from some time on no thread blocks or changes priority; section 5
says why. `AudioPlayers`: weak fairness of `gb300_audio_read`, that is, now and then two polls are
20 to 100 ms apart. A poll reads what is owed when 20 ms have passed since the last read; when more
than 100 ms have, it drops what is owed and does not read (platform.c 322-328). A game
whose polls are always further apart plays no sound, and `SoundsEnd` says nothing of it.

The deadlock check is off where the program may stop: `dispatch` (the bounded supply of
events ends, a shutdown), `repaint` (the bounded supply of requests ends), `monitors` (all
threads wait without a timeout; the application deadlocked itself). `RecordStore`
and the other specifications without liveness need no fairness.

Every property has a mutant (`mutants` in PROJECT.json): a variant of a definition of the
code, defined beside it, that breaks the property.

## 4. The proofs

TLAPS proves, for every value of the constants allowed by `QueueAssumption`
(`MaxEvents` positive, `NoEvent` not an event) and `RingAssumption` (`NumMbx` at least
two, `NoEvent` not an event, `BusyLimit` a natural number), `TimerAssumption` (both constants
positive), `RepaintAssumption` (`Null` is no display and no event), `DispatchAssumption` and
`NoEventAssumption` (below), `RunQueueAssumption`
(at least one priority), `AudioAssumption` (lengths and budgets are natural numbers, some
of them positive), `KeypadAssumption` (`btn_configs` lists each button once, the two modifiers
among them; only other buttons have combos; keymaps are of their type and `NoKey` is no key)
`DeliveryAssumption` (the ring holds at least one event)
and `StoreAssumption` (the bounds are natural numbers, at least one of them positive: the
handles; contents are sequences of cells, of which nothing is assumed; `Null` is no index):

| theorem | statement |
|---|---|
| `NativeEventQueueProofs!TypeCorrect` | the fields stay in range |
| `NativeEventQueueProofs!WindowInvariant` | `[]WindowConsistent` |
| `NativeEventQueueProofs!NeverUnblocksRunning` | `[]FlagMeansBlocked` |
| `NativeEventQueueProofs!NoWakeupIsLost` | `[]NoLostWakeup` |
| `NativeEventQueueProofs!StrandedOnlyByReset` | the action property `OnlyResetStrands` |
| `NativeEventQueueProofs!QueueImplementsFifo` | `Spec => ImplementsFifo` |
| `EventRingProofs!TypeCorrect`, `WindowInvariant`, `RingImplementsFifo` | the same for the ring |
| `RepaintEventsProofs!SpareIsUnshared`, `OneIsInQueue`, `NoPaintIsTorn`, `RequestsAreKept` | `[]SpareUnshared`, `[]OneInQueue`, `[]NoTornPaint`, `[]NoRequestLost` |
| `RepaintEventsProofs!ServiceIsDone` | the action property `ServedWhenReturned` |
| `SchedulerProofs!CountIsExact`, `TickerIsHeld`, `FailuresHeal` | `[](TimerTypeOK /\ CountExact)`, `[]TickerHeld`, `[]FailureHeals` |
| `EventDispatchProofs!NativeQueueIsUsed` | `Spec => Native!Spec`: the threads use the native queue only as `NativeEventQueue` allows |
| `EventDispatchProofs!DispatchTypeCorrect`, `QueueEndsAtTail`, `PoolIsUnshared` | `[]TypeOK`, `[]ListWellFormed`, `[]PoolUnshared` |
| `EventDispatchProofs!WaitingStaysQueued`, `NotifyIsNotLost` | `[]WaitingIsQueued`, `[]NoLostNotify` |
| `EventDispatchProofs!EventsKeepOrder`, `NoEventIsLost` | `[]PipelineOrdered`, `[]NothingLost` |
| `EventDispatchProofs!ShutdownEmptiesQueues` | the action property `ShutdownDrains` |
| `SchedulerProofs!RingsStayDisjoint` | `[]RingsDisjoint`; it and the three theorems on timers are theorems of `TicksSpec` |
| `RecordStoreProofs!FileIsConsistent`, `RecordsAreFound` | `[]FileConsistent`, `[]LookupCorrect`, and `[]TypeOK` in `StoreTypeCorrect`; all from `InvariantHolds` |
| `RecordStoreProofs!StoreIsTable` | `Spec => ImplementsTable`: each operation changes the table of records as its name says, and nothing else changes it |
| `AudioPlayersProofs!StoppedStaysSilent`, `BudgetIsKept` | `[]StoppedIsSilent`, `[]BudgetKept` |
| `KeyDeliveryProofs!PressesMatchReleases`, `ModifiersServeOnce` | of `Keypad`: `[]TypeOK`, `[]Balanced`, and the action property `ModifierServesOnce` |
| `KeyDeliveryProofs!DeliveryIsKeypad`, `GamesKeepBalance` | `DeliverySpec => Spec`: the games use the buttons as `Keypad` says, so that these three hold over all of them |
| `KeyDeliveryProofs!NoKeySticks`, `HeldKeysAreSeen` | `[]NoStuckKey`, `[]HeldKeysSeen`, and `[]DeliveryTypeOK` in `DeliveryTypeCorrect` |

**Argument.** The state of a circular buffer is a window: starting at the read index, a
number of filled places, then empty ones. That is `WindowConsistent`, and together with the
type invariant it is inductive. Its steps rest on a few lemmas on the circular increment
(`SlotAfterArithmetic`, `DistanceArithmetic`): the n-th slot after the next one is the
n+1-st after this one, and different n give different slots. For the ring the window carries that
every mailbox holds at most one message, without which the indices would not
determine the contents.

The handshake with the monitor is not inductive as any one of its invariants states it:
`Handshake` adds that a blocked monitor is always the special thread, so that a raised flag
lets a store reach it. A reset breaks the link between flag and thread, and from there on
`Stranded` holds until the VM ends; `NoLostWakeup` says this is the only way.

The refinement follows from the window: a store appends the last value of the window
(`OneMoreAppends`), a take shifts it (`ShiftIsTail`), a reset empties it (`NoneIsEmpty`), and
every other step leaves the window alone and is a stutter. Both proofs begin with these facts
about functions over 1..n.

The invariants of `TickTimer` are inductive together. A slot is counted down only when it is
taken (`FinalizeKeepsCount`, with the library's facts on removing an element of a finite
set), so the count is the cardinality and its bound follows; the handle of a running VM
stays taken because only a VM that ends, or one that fails to start while none runs,
finalizes.

For `RepaintEvents` the inductive invariant `IInv` joins five parts. `Roles` says which
object may play which part at each place of the dispatch thread: the spare one is none of
the queued one, the one in process and the one being read, and the object in the queue is
the one `queuedEvent` names. `Contents` says what each of them holds: the requests of an
event in use were made for its display, and so was what the dispatch thread has read of it
so far; no other thread can write to it, which is where `Roles` comes in. `NoRequestLost` is
the third. `Service` is about a thread in `serviceRepaints`: what it is owed is painted or
superseded, or still in the events it waits for, in the use (`perUseID`) that it waits for.
With `Service` a `Return` that finds the event out of use, or in another use, has been
served. `TypeOK` completes it.

The Java queue of `EventDispatch` is a list linked through `next`. The inductive invariant
`IInv` says that there is a number k and a sequence q of k different objects, the `State`
of the list, which begins at `nextEvent`, ends at `lastEvent` and is linked in this order
(`Listed`). What `Chain` computes by following the links is then q: at the least place where
it differed it would follow the link of the place before (`ChainFollowsList`). `Link` appends
to q (`LinkAdds`), the dispatcher takes its head (`UnlinkTakesFirst`), and `remove` takes one
object out of its middle or from an end (`RemoveUnlinks`, the longest of the proofs, since
the object before the removed one may be none and the removed one may be the last). On this
rest `Marks` (the `waiting` marks point into q, at events of their type, and every event of a
type that waits alone is marked) and `Apart` (the pool, q and the hands of the two threads
share no object). A new object must be one nobody refers to, as the garbage collector
guarantees in the code; in the model this takes enough objects. `DispatchAssumption` asks for
as many as events may be stored and posted, plus `PoolSize` and two, and `Counts` bounds the
objects in use by the events there were, so that one is always left (`ObjectsSuffice`). That
an event leaves the native queue wherever the code expects one comes from the theorems on
`NativeEventQueue`, which hold here by `NativeQueueIsUsed`.

That events keep their order is a statement about five places: what was processed, what the
dispatcher has in its hands, the Java queue, the monitor's hands, and the native queue.
`FlowInv` says that the numbers of the native events rise within each place and that all
those of one place are less than all those of the places behind it (`Layered`), so that a step
has to be looked at in the two places between which it moves an event (`ReadShrinks`,
`PostFlows`, `UnlinkFlows`), not in the whole way; `WholeWay` puts the places together
again. The same invariant keeps account of every number up to `lastId`, which is
`NothingLost`. A shutdown that goes on to the reset finds a dispatcher that has ended.
`ShutdownInv` says that a dispatcher ends only with the number of the shutdown event
processed, since no other event has its type. What was stored before that event can then
be nowhere behind it, and as nothing is lost it was handled.

In `RunQueue` a ring is a sequence, so its lemmas are about sequences without repetition:
what appending (`AddToRing`), removing by index (`RemoveFromRing`) and rotating
(`AdvanceRing`) do to the members and to the absence of repetition. `set_priority` keeps the
rings disjoint because the thread leaves its old ring before it joins the new one, and
`Pick` takes the running thread from the ring it advances.

`StoppedIsSilent` alone is not inductive. `Sound` adds that the buffer of a track is no
longer than `Cap`: `midi_stream_render` cuts to `Cap` what it would render, so a longer one
would become shorter, perhaps than the position reached. `Agrees` adds that a player is
empty and has no track while it loads, so the end of its data cannot shorten
anything either.

`Budget` says of the totals what `BudgetKept` says of the sums over the players. A sum is a
recursive function along the slots, and an induction over it cannot be taken from the
library, so `LeastElement` stands in: the least place where a claim fails has a
predecessor where it holds (`UpTo`), a recursion has a solution (`Recursion`), and where one
value changes the sum changes by as much (`TotalUpdate`). Every action touches one player,
and `BudgetStep` compares what it holds more with what is charged more; a rewound track
holds less and is charged the same, which is why the samples are bounded by the total and
not equal to it. That a track is mono (`Sound`) makes its frames its samples.

A poll sends its events button by button, so the proofs about keys walk along
`btn_configs` (`PollIsWalk`: the sequence grows by one `Piece` per button, behind the taps of the
modifiers). `Mix` is who holds a key when the walk has passed some of the buttons: those
behind hold it as they did before the poll, those passed as they do after it. A piece
changes the holders of a key by the button that it is about, if at all (`MixStep`), and that is
all three results need: the presses minus the releases sent so far are the difference
in the number of holders (`PollBalances`), a key believed down has a holder
(`PollLeavesNoneStuck`), and with unshared keys it is the other way round as well
(`PollKeepsSight`; `ActiveIsOwn` says that a button holds no key but its own and those of its
combos). What a game believes after more events is `Believed`, a set given by the last event
of each key, so that no induction over the queue is needed: an event sent changes it at one
end (`BelievedSend`), an event received not at all (`BelievedHead`). `DeliveryInv` adds what
the ring must be like: as long as nothing was refused and no START was left behind, a game
that waits in JavaTask has exactly one START before it (`OneStart`) and has seen no key, so
that what it hears is what follows that START, through every poll (`PollIsHeard`) and
every event thrown away (`HeardFromTail`). `ModifierServesOnce` rests on `ModifiersTracked`,
which ties `combo_used` to the history while a modifier is held.

The theorems on `RecordStore` are for contents of any kind, cells that look like headers of
blocks included, and go as far as the code keeps data and headers apart. It fails to in one
case only: the index remembers a place for an identifier, the record is deleted or moves, the
place becomes data, and the data happens to have that identifier where a header has it. What
`LookupCorrect` says of this case is that it concerns deleted records only: a record that is in
the file is found where it is, whatever others hold (`Remembers`). If the game then deletes or sets
the record that is not there, data is freed as a block (`misled`), and nothing more can be said
(`MCRecordStoreStale` in section 5). Before that step, and for every step but that, the
theorems hold: `IInv` is `Outer`, what holds in any case, and `Inside`, what holds until then.

Its invariant is about sets of places. `Layout` says that the blocks begin at 1,
that behind each is another one or the end of the data, and that they do not overlap; what
`Blocks` computes by going from block to block is then this set (`BlocksAre`), so that nothing
after it needs the recursion. `FileSound` adds that live blocks have different identifiers, and that
the cells at which blocks begin are headers and all others up to the end of the data are data. The operations on the file are compared by
what they do to the layout: `BlockReplaced` is about one block that gives way to one or two
(`freeBlock`, `splitBlock`), `BlockAtEnd` about `AppendBlock`. `Held` is the set of pairs of
identifier and data in the live blocks, and each of them says how it changes: not at all, by
`With`, or by `Without`. `compactRecords` goes through all blocks; between two of them the
file has a sound front part, closed up and holding the records passed so far, and a rest that
is as it was, the gap before the next block included (`Moved`); `MoveUpMoves` takes it over one
block. As data is not induced over, `AllMoved` takes the least number at which `Moved` fails. Blocks
move down over old ones, and behind the end of the data the old headers remain: that they
mislead no lookup is `IndexSound` (the index does not have a record where such a header is),
kept because `updateBlock` is told of every block that moves, which is what the mutant
`MovesSilently` leaves out. A lookup of a record that is not there goes through all blocks, or
stops at data (`IsStray`). `Inside` says this of the file and adds that identifiers are below
`nextId`, and that an open store has in memory what is in the file. As every operation ends with a sound store that holds the right records
(`Outcome`), consistency, lookups and the refinement are consequences: `RecordTable` changes
as `Content` does (`IsTable`, `TableNext`).

**Only model-checked**: liveness (`EventuallyReceived`, `PollingYields`,
`EventuallyHandled`, `ShutdownCompletes`, `TicksKeepComing`, `ServiceReturns`, `EventuallyPainted`,
`TimeoutsEnd`, `TicksShare`, `SoundsEnd`, `TurnServed`), since fairness and ENABLED are out of the
prover's reach, `EnumeratesAll`, and the properties of `Monitors` (`OnePlace`,
`ImplementsMonitors`). These two rest on `WokenNotActive`, which does not hold for all constants
(`monitors_reentrant` in section 5): a theorem needs as hypothesis that threads wait with a timeout
on one object at most, and an invariant about the passes on the VM's stack. The walks along the lists must first be written as
functions of one argument, since the prover takes no recursive function of two arguments and
knows nothing of `SelectSeq`. It is the next step of the plan. `WindowConsistent`, `OnlyResetStrands`, `OneInQueue`, `DeliveryTypeOK`, the
`TypeOK` of `RecordStore`, and of
`EventDispatch` `TypeOK`, `ListWellFormed` and `NoLostNotify`, are proved and not part of a run.

## 5. What disagrees

Three runs show a disagreement, the first two with high cost to a player:

| run | the text says | the code does |
|---|---|---|
| `start_event` | javanotify_functions.c:518, "Event sent successfully." | key events of the boot screen or of the time after the last game fill the ring, START is refused, and JavaTask waits for it for ever |
| `audio_loop` | audio.c:1076-1077 "rewind if looping", 790 "Restart a finished stream so looping players can play again", 1116 "seamless loop" | the rewind sets `pcmFrames` to 0 (1084) and leaves the frames charged to `g_wav_pcm_total`, for the life of the process; after about 12 MB of rendered music (285 s) no track is in budget: the looping track is cut to what it has in its buffer and no other sound can be decoded |
| `monitors_reentrant` | Scheduler.cpp:1035, the GUARANTEE "Must not be active" (compiled out of product builds) | the pass over timed-out threads saves the next one (710), then wakes the current thread, whose monitor is taken: it yields, a second pass wakes the saved thread, and the first removes and wakes it again, out of a list it is no longer in. Needs timeouts on two objects at a time; `monitors` has them on one, where it does not happen |

The others are configs to run by hand; each ends with a counterexample:

| config, property | the text says | the code does |
|---|---|---|
| `MCEventRingForever`, `ForeverBlocks` | midp_msgQueue_md.c:53, a timeout of -1 blocks until a signal | one yield, one more look, then JAVACALL_FAIL; callers loop, so it is a busy wait |
| `MCEventDispatchShutdown`, `ShutdownMeansStopped` | EventQueue.jpp:439-440, shutdown processes posted events and blocks until the queue is shut down | a shutdown before the dispatch thread first ran sees `alive` false, returns at once and throws its own event away; the dispatcher then starts and never ends |
| `MCKeypadPause`, `PauseNotRetriggered` | platform.c:297-298, the combo is swallowed so that it does not trigger again | nothing is swallowed: both still held after a resume open the menu at the next poll |
| `MCKeyDeliveryReleases`, `ReleasesArrive` | input.c:63, the key of a press is kept to release it cleanly | a release refused by a full ring is never repeated; the key stays down in the game |
| `MCRunQueueStarvation`, `NoStarvation` | Scheduler.cpp:226 and 285, threads are added so as "to avoid thread starvation" | built with isolates, a yield takes the thread after the head of the ring (2238-2240), also when the head is not the thread that yields: others that block and wake in step can keep one from its turn |
| `MCRecordStoreStale`, `LookupStrict` | RecordStoreIndex.java:190, "Finds the record header for the given record" | the index remembers where a record was; the record is deleted, and the data of another one moves over the place. If a cell of it looks like a header with that identifier (a record that begins with `writeInt(2)`, say), the deleted record is found there, and deleting or setting it overwrites the other record |
| `MCRecordStoreLost`, `EnumeratesOnly` | RecordStoreIndex.java:140, "Returns all of the recordId's currently in the record store index"; RecordStore.java:599, "the number of records currently in the record store" | `setRecord` frees the old block before it finds that there is no room for the new one (RecordStoreImpl.java:624-627): RecordStoreFullException leaves the store without the record and with its count too high, and an enumeration hands out an identifier 0 that no lookup finds |
| `MCRecordStoreMidway`, `IdsUnique` | RecordStore.java:96, "Records are uniquely identified" by their recordId | a VM left, or a device switched off, between the write of a block and that of the header gives the identifier twice |
| `MCRecordStoreLimit`, `WithinLimit` | RecordStoreImpl.java 918-920, if what is available "is less than the block size to be added, RecordStoreFullException is thrown" | `RS7_FREE_SIZE` is not reduced when a free block is used again; the test before a compaction (930) counts on room that the compaction does not make, and the record added behind it goes beyond the limit |
| `MCAudioPlayersFluid`, `TracksServed` | audio.c:150-154, with the soundfont synthesiser one track per read is rendered and the others play what is buffered | the first track that needs it takes it in every read; while it loops, a later one is never synthesised to its end. `TurnServed` says of the first that it always is |

More of the sound code shows while reading it. No END_OF_MEDIA event is posted: the Java
player of a sound that has ended stays STARTED, and a second `start` does nothing. With
FluidLite a note event advances the event index twice (audio.c:725 and after), so the event
after it is not played. Nobody closes the players of a game that was left, so their slots and
memory stay taken.

Three further results show in passing runs. A reset strands a blocked monitor
(`OnlyResetStrands`, a theorem; harmless as long as only `shutdown`, `start` and `finalize`
reset). And a game left by longjmp after its START was sent and before JavaTask took it (a
screen flush in `JavaTask` polls in between) leaves START and its keys to the next game:
that game's VM starts on the old START and hears presses whose releases never come. `stale`
excludes this from `NoStuckKey` and `HeldKeysSeen`; every other ring a game leaves behind is
harmless to the keys of the next one, which is what these invariants show. Finally, the
timer of every left game keeps ticking the games that follow, and goes on after `stop_ticks`
("Permanently disable calls to real_time_tick()", OS_javacall.cpp:111); when all five slots
are gone a game fails to start, and its clean-up frees one of them (`FailureHeals`), so that
the next game starts.

## 6. Plan

Built: the way of an event from the buttons to the listener (`EventRing`, `NativeEventQueue`,
`EventDispatch`, `Keypad`, `KeyDelivery`), the repaint events, the scheduler in two modules
(`Monitors`, and `RunQueue` under the timers of `TickTimer` in `Ticks`), `RecordStore`, `AudioPlayers`; the abstract
`BoundedFifo`, `JavaMonitor` and `RecordTable`; and eight modules of proofs. What would add most
next:

1. A proof of `OnePlace` from `Monitors`, under the hypothesis of section 4 (with `WokenNotActive`: a
   woken thread must be in a list), and then of `ImplementsMonitors`.
2. `Monitors` with threads that end while others wait for them (`wake_up_terminated_sleepers`),
   and composed with `Ticks`, so that blocking and waking in step is the application's doing and
   the fairness that `EventDispatch` assumes can be stated as a condition on it.
3. `RecordStore` with two stores that share the handles, and with reads and writes that fail.
4. `s_exit_requested` and the way a game ends itself, in `KeyDelivery`.

## 7. Not modelled

Drawing, pixel conversion and skins; decoders (inflate, GIF, JAR metadata, stb); 3D
rendering and sound synthesis; the bytecode interpreter, garbage collector and romizer; the
Java class library above the event queue, for which a listener that processes, posts and
removes stands in; the parser of key map files; logging and string parameters everywhere.
These have no protocol between parts, or are vendored code the port does not change. By
lines this is most of the repository: fonts and skins as C arrays, two code generators,
the class library, an emulator of another console (`src/src`) and third-party
libraries. What has been modelled is the state that several parts share.

## 8. Running it

```
tlc -workers 2 -config MCEventDispatch.cfg MCEventDispatch
tlapm NativeEventQueueProofs.tla
```

Each MC module goes with the configs that start with its name; `MCRunQueueStarvation.cfg` goes
with `RunQueue`.
