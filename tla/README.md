# A formal model of the parking service

TLA+ modules, TLC configurations and TLAPS proofs about the drivers and
programs in this repository. `PROJECT.json` lists components, runs, mutants,
theorems and, for every definition, the source lines it stands for.

## 1. The system

Three Raspberry Pis run a car park with one gate and two slots.

| Part | Where | State | Operations |
|---|---|---|---|
| Gate driver | RPI2, `gate_main.c`, `gate_hw.c` (kernel module) | `current_state` (six states), arm position (only in the motor), `last_vehicle_detect`, `exit_request_time`, flags `switch_pressed` and `switch_reopen`, buzzer, three LEDs, `capacity_full` | state machine thread, switch interrupt, device `read`/`write`, load, unload |
| MQTT bridge | RPI2, `mqtt_bridge.c` | `last_state`, connection, queue of the MQTT library | polling thread (device -> `parking/rpi2/gate`, `/event`), `on_message` (`parking/rpi1/lot` -> device), restart |
| Slot driver | RPI1, `rpi1_parking.c` (kernel module) | per slot: echo state, `occupied`, `lock_st`, `lock_pending`, timers and counters; one workqueue; `status_changed` | measuring timer, echo interrupt, sensor work, lock work, button interrupt, `read`, `ioctl`, load, unload |
| MQTT daemon | RPI1, `rpi1_parking_mqtt.c` | connection and queue | blocking `read`, then three publications per report |
| Heartbeats | RPI1 and RPI2, C and Python | - | a message every two seconds |
| Broker | RPI3, external | retained messages | - |
| Handler, database | RPI3, `mqtt_handler.py`, `db.py` | four log tables, last heartbeats, handler status | one function per topic, periodic report |
| Status device | RPI3, `kernel/rpi3_status.c` | one text buffer | `write`, `/proc` read, load, unload |
| Dashboard | RPI3, `app.py`, `dashboard.js` | what the page shows | initial fetch, MQTT messages |
| Legacy gate | RPI2, `main.c` and five more files | as the gate driver, but shared by the main loop and a switch thread in user space | main loop, switch callback, publications; not built any more |

How they interact: the gate and slot drivers are reached through device files;
the bridge polls one, the daemon sleeps in `read()` of the other. Everything
else goes through topics of the broker: slot, distance and lot from the daemon
(retained), gate (retained) and event from the bridge, heartbeats. The bridge
also subscribes to lot and lights the full LED; handler and dashboard
subscribe to everything.

What is hard:

- *Gate driver.* The motor has no limit switch, so where the arm is follows
  only from the history of strokes, some given up half way. The switch is a
  flag fetched and cleared at several places. Timers are restarted in many
  places. Measuring can fail at any time. Correct means: the arm rests where
  the state says, comes down only after a car-free delay, every press is
  served, nothing left over from one trip disturbs the next, the thread stops
  when asked to.
- *Slot driver.* A timer, two kinds of interrupts, one worker for two slots
  and two works each, and a sleeping reader share state with few locks.
  Correct means: works are neither lost nor doubled, barrier and lock state
  agree, only a staying car is locked in, no change is lost to the reader.
- *Loading.* Some thirty steps may fail; each failure unwinds by hand.
- *Bridge.* It sees samples of a state that moves on its own, and publishes
  over a connection that breaks. Correct means: the last retained word is the
  one for the state, events are true.
- *Daemon, handler, dashboard.* A report whose flag is consumed before it is
  published, restarts of every process, messages lost with QoS 0, retained
  messages that have outlived their truth, a first answer that races with live
  messages. Correct means: once the slots are quiet, everyone agrees with them.
- *Node monitor.* Two threads write texts that may overtake each other, above
  a device that comes and goes. Correct means: silent nodes and live nodes are
  shown as what they are.
- *Legacy gate.* Two threads turn one motor, and the mutex is not held while
  the arm comes down. Correct means: never both at once, and the gate driver's
  promises.

## 2. The modules

| Module | Models |
|---|---|
| `Barrier` | what an arm promises: it rests only fully down or fully up, always finishes going up, gives up its way down only to go back up |
| `GateStates` | how the state reported by `/dev/gate_node` moves |
| `GateNode` | the gate driver at run time; implements `Barrier` and `GateStates` |
| `SlotFeed` | what a program that reads `/dev/parking` again and again may rely on |
| `SlotNode` | the slot driver at run time, and the reader of its device; implements `SlotFeed` |
| `DriverLifecycle` | load, failed load and unload of the three kernel modules |
| `NodeMonitor` | extends `DriverLifecycle`: heartbeat clients, handler and the buffer of the status module |
| `GateReport` | the bridge's polling thread, its MQTT library and the gate topic, over a gate that is any behaviour of `GateStates` |
| `LotStatus` | the lot word from the daemon to bridge, handler and dashboard, over a driver that is any behaviour of `SlotFeed` |
| `LegacyGate` | the user-space gate with its two threads; implements `Barrier` until its clean-up |
| `GateNodeProofs`, `SlotNodeProofs`, `GateReportProofs`, `LotStatusProofs`, `LegacyGateProofs`, `DriverLifecycleProofs`, `NodeMonitorProofs` | theorems about the modules they name |
| `MCGateNode`, `MCSlotNode`, `MCLotStatus`, `MCLegacyGate` | for TLC; `MCSlotNode` has the symmetry and the view |

How they compose: `GateNode` implements `GateStates`, which `GateReport` uses
in the place of the gate; `SlotNode` implements `SlotFeed`, which `LotStatus`
uses in the place of the slot driver; both gates implement `Barrier`.

### GateNode and the code

The thread's program counter `pc` has a value for every point at which
something else may intervene: the loop test with the switch (`poll`), each
motor stroke (`exit_open`, `entry_open`, `closing`, `check`, `reopening`), the
measurement with the `switch (state)` (`measure`), the buzzer and LED block
(`indicate`). One action runs from one such point to the next. A stroke of
1024 half steps is `Batches` (16 in the code) batches of 64, because the
sensor and the switch are looked at only between batches. Openings are cut
into the same batches. A distance is `near` (0 < d <= `VEHICLE_DETECT_CM`),
`far`, or `none` (-1). Times are ages in seconds that stop growing at the
larger of the two delays, above which no comparison tells them apart.
`nearAge` is a history variable. The blink phase `buzzer_phase` is abstracted
to a choice between on and off. The debouncing of the switch is the flag
`bouncing`, which time clears. `gate_close()` is not called by anything.

### SlotNode and the code

Per slot: `echo` is `sensor.state`, the other functions have the names of the
fields. The timer fires all idle sensors in one action, because the sensors
are independent of each other. `pulse` says that an echo is on its way; it may
be missed altogether, or be over before the interrupt reads the pin. The
single-threaded workqueue is the sequence `queue`, the worker runs one work at
a time with a point of intervention between the assignment of `occupied`, the
notification and the lock state machine, and one per piece of the motor
stroke. `read()` is cut at each access to shared state. `distance_cm` and the
LED follow `occupied` and are left out. `emptyRun` and `stayAge` are history
variables that say how long a car has been there, from the samples alone.

`SlotFeed` says what is left of all this for a reader: every change of a slot
makes at most three more `read()`s due, any of them may mix old and new values
or be merged with the next, and the last one that is due is up to date. `Due`
in `SlotNode` counts them: the read under way, one for a flag it will not
clear any more, one for the flag the worker is about to set.

### DriverLifecycle and the code

`HwSteps`, `GateSteps`, `SlotSteps` and `StatusSteps` are the init functions
read as lists of what they acquire, the `...Undo` operators their error paths,
the `...Exit` sequences their exit functions. A behaviour is about one of the
modules, loaded and unloaded again and again; any step whose result the code
tests may fail. `held` is what the module owns, `leaked` what earlier loads
left behind, of which pins are refused to the next load. Pins that are
requested and freed together are one resource. User processes open and close
the device from the moment the cdev is added, because a node made with `mknod`
(as the log of `parking_init()` recommends) needs nothing else. A file that is
still open when its module's memory goes is not followed any further.
`WriteDevice` is `gate_device_write()`, possible whenever the file is open;
`full_led` is the lamp it sets. `Uses` says what each resource uses while it is
active; for a cdev that is what the file operations behind it use, so the lamps
in the case of the gate.

### NodeMonitor and the code

One node is followed; a line of the status text depends on the variables of
its own node only. `looped` tells the Python clients, which run the library's
loop, from the C clients, which publish without it: nobody reads
acknowledgements there, so after `Window` (20 by default in the library)
messages no more leave. `text[t]` is what thread `t` of the handler has built
under `status_lock` and not yet written; `main` does so for messages, the
`reporter` once a second. `handle_heartbeat_message()` builds its text after it has
given up the lock; that its own heartbeat could age past the time-out in
between is left out. `seen` and `age` are `node_last_seen`, lost with the
process. `WriteStatus` is `rpi3_status_write()`; the buffer starts afresh with
every load. `shadow` is the regular file that `write_text()` creates when the
device is missing and the handler runs as root: from then on no status reaches
the module until an administrator removes it.

### GateReport and the code

`prev` and `cur` are the variables of `poll_gate_state()`; a poll that reads
an unchanged state or fails to read is a stuttering step. `outbox` is what the
MQTT library holds, `sent` how many of these messages the broker has processed
already: after a broken connection they are sent again. `Crash` stands for
the signal handler, which exits at once, and for any other death of the
process. That the gate moves as `GateStates` says is proved of `GateNode`
(theorem `GateReportsStates`).

### LotStatus and the code

`occupied`, `report` and `due` are the variables of `SlotFeed`; a reload of
`parking.ko`, possible only while no daemon has the device open, starts them
afresh. The daemon reads (`ReadDevice`) and publishes (`PublishLot`), and may
end at any moment (`DaemonEnds`), with its queue. `outbox` and `sent` are as
in `GateReport`. `flight[r]` are the words between broker and receiver `r`,
`view[r]` is what `r` makes of the lot: `capacity_full` with its LED, the latest
row of the database, what the page shows. Receivers subscribe with a clean
session, so a reconnection loses what was under way and begins with the
retained word; `Drop` also stands for a handler that dies of an exception of
the database. `fetch` is the request of the page that `Answer` answers from
the latest row and `ApplyState` puts into the page.

A behaviour has either the bridge or handler and dashboard at work. The bridge
has nothing in common with the others but the broker, which treats each
subscriber alone, so nothing is lost by not running all three together.
`gate_node.ko` is reloaded only between two runs of the bridge (`ReloadGate`).
The code does not enforce that, since its file operations name no owner; a
bridge that runs through a reload keeps a file that leads nowhere, and what
becomes of its writes is undefined.

Two history variables name what the code does not promise. `broken` is set
when a report dies with the daemon after the driver's flag was cleared for it,
when words are lost that the broker has not processed, and when the driver is
reloaded: nothing is published then until the next change, and the retained
word may be wrong for hours. `overwritten` is set when the answer to
`fetchState()` replaces a live word on the page: the answer may be older than
the word, and when the database is empty it is `UNKNOWN`, which `applyState()`
takes for a value.

### LegacyGate and the code

`mpc` and `spc` say where the main thread and the switch thread are; the names
are explained at `MainPc`. A stroke is cut into `Batches` batches as in
`GateNode`; `gate_mutex` is held by whoever opens, and by `gate_close()` at the
start, but not by `gate_close_interruptible()`, which takes it only to look at
and to set `current_state`. Main acts on the copy `s` of the state it read and
on the distance `dist` measured before that. A publication without a connection is
dropped (`missed`). A pulse so short that the distance is exactly 0 is left
out.

`Prompt` is an assumption about scheduling: a thread that is not asleep is not
overtaken by the other's sleeps. Between two sleeps the threads do microseconds
of work, and a batch of the motor or a measurement takes milliseconds. Without
it (`Prompt = FALSE`) `TypeOK`, `OneStroke` and `ArmIsBarrier` are proved all
the same; `StateTellsGate` does not hold: the switch thread may hold on to an
`IDLE` it read for the whole ten seconds of a car's passage, and then turn the
state of an open gate into `EXIT_REQUESTED`, or set the state while main goes
to `IDLE`.

`swept` marks the one other exception: the switch thread runs before main
calls `gate_close()` at the start, so a press in that moment opens a gate that
main then closes, mid-trip and without a look at the sensor. `ArmIsBarrier`
ends where main has unexported the pins (`mpc = "done"`): the switch thread is
joined only after that, and a stroke it is in no longer moves the arm.

## 3. What TLC checks

| Run | Bounds | Result |
|---|---|---|
| `gate` | 4 batches, delays of 2 and 3 s | passes; 45 280 states |
| `gate_approach` | 2 batches, delays of 1 s | violated, see below |
| `gate_stuck_open` | the same | violated |
| `slot_pair` | 2 slots, all other constants 1 | passes; 1.63 million states, 1 min |
| `slot_life` | 1 slot, stroke of 2, timeout 2, release count 3 | passes; 53 000 states |
| `slot_sensor_stuck` | 1 slot, all other constants 1 | violated |
| `driver_lifecycle` | heartbeat time-out 1, window of 2; none on loads, failures and unloads | passes; 35 850 states |
| `failed_load_leaks` | the gate module | violated |
| `gate_report` | 3 messages in the library's queue | passes; 49 983 states |
| `exit_unannounced` | 2 messages, a bridge that never dies | violated |
| `lot_status` | 1 slot, 2 messages in the daemon's queue, 1 under way to each receiver | passes; 274 260 states, 1.5 min |
| `legacy_gate` | 4 batches, delays of 2 and 3 s, prompt threads | passes; 114 424 states |

`gate` checks, against cars, presses and unloads at any moment:
`RestingArm`, `NoStaleReopen`, `LampTellsDirection`, `VehicleGrace` (no
closing unless the whole delay has passed since the last sighting),
`ImplementsBarrier`, `ReportsGateStates`, `PressServed`, `ClosesWhenClear` and
`StopEnds`. Four batches give three checks on the way down, so a closing can
be given up after one, two or three batches; the delays differ so that the two
timers cannot be confused.

`slot_pair` checks what the two slots share: `LockMatchesBarrier`,
`WorksOwed` (a lock in motion has exactly one work, in the right direction, and
a finished measurement has its own), `NoLostChange`, and `ReportsSlotFeed`, the
refinement. The slots are symmetric, and the view leaves out variables that are
dead in a state and the history variables, which none of these properties
reads. With all constants 1 every branch of the
lock state machine is still taken. `slot_life` has the counters and timers at
sizes at which they can be wrong, for one slot: `LocksOnlyStayingCar`,
`StayingCarLocked`, `UnlockEnds`, `ChangeReported`. Symmetry is not used there,
because it checks liveness.

`driver_lifecycle` checks that nothing active ever lacks what it uses, but for
two named uses of a cdev (`UsersHaveTheirMeans`), that everything is released once
(`ReleasesWhatIsHeld`), that nothing is left behind except by the two error
paths that forget something and by the memory of the cdev that `parking_exit()`
does not free (`LeaksConfined`), and that an open `/dev/parking` or
`/dev/rpi3_status` is never in a module that is gone or going, except when a
load fails with the cdev already there (`OpenPinsModule`). In the behaviours
that follow the monitor it checks `SilentNodeShown` (a node that has fallen silent does not
stay `online`, whatever old text was under way) and `LiveNodeShown` (one whose
heartbeats come in time ends up as `online`). A time-out of one tick has ages
below, at and above the limit.

The two exceptions of `UsersHaveTheirMeans` are things the code does.
`parking_init()` frees a cdev that is still in the kernel's map when
`class_create()` or `device_create()` fails (`CdevDangles`). And the device file
of the gate is there before `gate_hw_init()` has requested the pins and after
`gate_hw_cleanup()` has freed them (`FileOutlivesPins`): on every load and every
unload there is a moment at which a write would set a lamp that is not the
driver's. `LampPutOut` says what comes of it: an unload leaves the lamp out,
unless a file is open while it is under way. Outside these moments, and
for every other resource, nothing is excepted. `OpenPinsModule` says nothing of
the gate, whose file operations name no owner.

`gate_report` checks `LastWordTells` (the last gate word the broker gets is
the one for the state last published, whatever is sent twice),
`EventsBacked` (each event stands for an opening of its own) and
`GateSettles`. Three messages are one poll's gate word and event plus a
message of the next poll; a full queue only delays the polling thread.

`lot_status` checks `LotWordTells` (when no report is due, the last word on its
way is the right one, unless `broken`, and every subscriber with nothing under
way to it has it, except a page that was `overwritten`) and `ViewsSettle` (once the slots rest
and the connections hold, every receiver settles on the right word, except a
page that was `overwritten`). One slot is enough because the word is all that
is passed on; that two slots do not disturb each other is `slot_pair`'s
business. Two messages in the queue are one the broker has processed and one
it has not; a full queue or flight only delays.

`legacy_gate` checks `OneStroke` (the threads never turn the motor together),
`StateTellsGate`, `WordTells` (the last published word is true although both
threads publish without the mutex, unless the connection was down for it),
`ArmIsBarrier` and `ClosesWhenClear`. The bounds are those of `gate`.
`ClosesWhenClear` holds with and without a connection. src/rpi2/PLAN.md asks
for the opposite without one, a failsafe that opens the gate after ten seconds
and keeps it open; `main.c` has none, see below.

### Fairness

- `gate`: the thread is scheduled again after each of its sleeps, and time
  passes. Nothing is assumed of the sensor, the switch or the administrator.
- `slot_life`: worker, reader and timer run, an echo ends or is missed, time
  passes. Nothing is assumed of samples and buttons; `StayingCarLocked` names
  the samples it needs as its premise.
- `gate_report`: the polling thread runs, and a connection that stays up moves
  messages. `GateSettles` has the lasting connection as its premise.
- `lot_status`: a daemon that is up reads and publishes, a connection moves
  messages, receivers take them, a request is answered or fails. The broker's
  delivery is strongly fair only because of the bound on messages under way:
  one receiver that comes and goes would otherwise starve the others in the
  model, which a real broker's queues do not allow. Lasting connections are a
  premise of `ViewsSettle`.
- `driver_lifecycle`: the threads of a handler that runs do their rounds, and
  time passes. A device that stays, a handler that stays up and heartbeats in
  time are premises.
- `legacy_gate`: both threads run, with strong fairness because either waits
  for a mutex that the other takes and gives back again and again; time passes.

### Where documents and code disagree

Each of these runs checks one sentence of a document or comment, and TLC finds
a behaviour of the code that breaks it.

1. *A car that approaches renews the close timer* (README.md:23,
   docs/MQTT_TOPICS.md:71). Not when the measurement that first shows it is
   the one at which the timer expires: the timer is tested first
   (gate_main.c:135, 187). The arm moves down one batch and comes back.
2. *The gate closes some time after a car has left* (README.md:163). Not if
   measuring fails from then on: `EXIT_VEHICLE_DETECTED` ignores -1
   (gate_main.c:178), unlike `ENTRY_DETECTED`.
3. *After a failed measurement the next one is awaited* (rpi1_parking.c:237).
   A missed rising edge leaves the sensor in `ECHO_WAIT_HIGH` for ever.
4. *A failed initialisation is cleaned up by gate_hw_cleanup()*
   (gate_hw.c:335). Nobody calls it on that path.
5. *A press is announced as EXIT_OPEN* (docs/MQTT_TOPICS.md:69). Not if a car
   already stands at the sensor: the polling bridge never sees
   `EXIT_REQUESTED`.

Three more have no run, because the passing runs already contain the behaviour
or except it by name:

- *Outputs are put out before their pins are freed, because pins keep their
  state* (gate_hw.c:346-347). `/dev/gate_node` goes only after that
  (gate_main.c:387-390), and unloading does not wait for an open file, such as
  the bridge's (mqtt_bridge.c:173): a `FULL` written in between lights the full
  LED, which stays lit. `FileOutlivesPins` names this moment, and `LampPutOut`
  fails without its premise.
- *The page takes its first state from the database and live messages from then
  on* (src/rpi3/README.md:475). Both are started side by side
  (dashboard.js:329-330), and an answer that comes second replaces a newer live
  word, even with `UNKNOWN`. This is `overwritten` in `LotStatus`; nothing
  corrects the page until the lot changes again.
- *Ten seconds without MQTT force the legacy gate open, and it stays so*
  (src/rpi2/PLAN.md:116, 128, 173-176). Its main loop never looks at the
  connection (main.c:126-290). In `legacy_gate` the connection may be down for
  ever, and `ClosesWhenClear` says that the gate comes down in these behaviours,
  too.

The comment of number 3 stands in the branch of an echo out of the window; a
missed echo is the other way for a measurement to fail. src/rpi2/README.md and
TEST_GUIDE.md contain older statements (a servo, a 5 s timer, closing at once
after an exit) that the top-level README replaces; they are not counted here.

Besides, `rpi1_parking_mqtt.c:40` names a variable `m` that does not exist;
the file does not compile as it is.

## 4. What is proved

`GateNodeProofs` proves, for every number of batches (at least two) and all
delays (at least one second; assumption `GateConfig`):

- `TypeCorrect`: types, among them that the arm, which nothing clamps, stays
  between its ends;
- `ArmRestsWhereStateSays`, `RequestsEndWithTrip`, `LampsAgree`, `GraceKept`:
  the safety properties of the run `gate`;
- `GateIsBarrier`: every behaviour is one of `Barrier` (its safety part);
- `GateReportsStates`: every behaviour is one of `GateStates`.

The argument is one inductive invariant, `IInv`. `TypeOK` is not inductive,
because a batch could move the arm past an end; `RestingArm` is not, because
it says nothing about strokes. `StrokeInv` closes the gap: within a stroke the
position of the arm is the loop counter (going up from shut) or `Batches`
minus it (going down, and back), and the state is one in which that stroke can
run. `ReopenInv` adds to `NoStaleReopen` that a request is gone as soon as a
check has let the arm pass, `LampInv` that LEDs and buzzer are off from the
indication of `IDLE` on, `GraceInv` that outside a stroke the timer in charge
is no older than the last sighting. Each has a lemma that every step keeps it,
with one step per action; `BarrierStep` and `ReportStep` map steps to steps.

`SlotNodeProofs` proves, for any slots and any stroke, time-out and release
count of at least one (`SlotConfig`): `TypeCorrect`, `LockTellsBarrier`,
`WorksAreOwed`, `ReaderMissesNothing` (the invariants of the
two runs), `OnlyStayingCars` (the action property `LocksOnlyStayingCar`) and
`ImplementsSlotFeed` (the refinement). None of the invariants is inductive
alone; `IInv` adds:

- `QueueInv`: no work is queued twice, so taking one leaves none behind (two
  lemmas say what queueing and taking do to the set of queued works);
- `LockWorkInv`: a lock is in transition if and only if its work is queued or
  running, so the button, which is heard only in `LOCKED`, and the timer, only in
  `TIMING`, never meet a work of the same lock;
- `PositionInv`: the position of a lock follows from its state and the
  progress of the running stroke, which keeps the unclamped barrier in range;
- `ReaderInv`: what a reader has copied since it cleared a flag that is still
  clear is up to date, or the worker is about to set the flag. This is the
  argument for the order of the assignments in `sensor_work_func()` and
  `parking_read()`.

`StayInv`, on top of `IInv`, relates the counter and timer of the lock state
machine to the history of samples. `FeedStutters`, `UpdateImplements`,
`NotifyImplements` and `ReaderImplements` map steps to steps of `SlotFeed`.

`GateReportProofs` proves `TypeCorrect`, `LastWordIsTrue` and
`EventsHaveOpenings` for every bound on the queue: the invariant follows the
last gate word through publishing, sending again and acknowledging, and counts
openings against events.

`LotStatusProofs` proves `TypeCorrect` and `LotWordIsTrue` for any slots and
bounds: between read and publication the report is what is due, and afterwards
the last queued or retained word is the one for the report. `ViewInv` takes
this to the receivers: the newest word under way to one is the retained one,
and who has nothing under way has taken it. It also shows why `overwritten` may
be cleared by an answer that agrees with the page: once an answer has been
applied, no other is under way.

`LegacyGateProofs` proves `TypeCorrect`, `StrokesExclude` and
`ThreadsMoveABarrier` for every number of batches and every delay, with and
without `Prompt`, and `StateAgrees` and `WordIsTrue` under the assumption
`Prompt`, without which they are false. `LockInv` ties the mutex and `current_state` to the program
counters: during a closing, which holds no mutex, `current_state` is
`GATE_OPEN`, and then `gate_open()` does nothing. That is why the missing mutex
does no harm. `HeightInv` is the position of the arm from the counters of both
threads.

The last two theorems rest on `TripInv` and `WordInv`, inductive together with
the invariant of the first three. `AgreeInv` says that an open gate belongs to a
trip and a trip to a gate that is open or has an opening owed by one of the
threads. That alone is not kept: `PressInv` adds what the threads know of each
other, above all that a press that found `IDLE` has been dealt with before main
acts on a later state or moves the arm, which is where promptness is needed.
`SweptInv` follows the trip of a gate that main closed at the start.
`WordInv` says that nobody publishes what has become false since, because
whoever changes the gate still has its own word before it.

`DriverLifecycleProofs` proves, for any choice of the modules, `TypeCorrect`,
`MeansOutliveUsers`, `OnlyHeldIsReleased`, `OnlyLeftoversLeak`, `LampLeftOut` and
`OpenFileKeepsModule`. The tables of some eighty entries are turned into three
facts: what the first steps of a load acquire is closed under use
(`AcquiredIsClosed`); the releases of every error path (`UndoFits`) and of every
exit function (`ExitFits`) are a list that `Unwinds` (no resource twice, none
before its users), are all held, and leave only `Leftover`. The rest of the
argument does not look at the tables: `LoadInv` says that a load holds what its
steps have acquired, `ReleaseInv` that what is still to be released unwinds, is
held with all it needs, and is all that is held but the leftovers. `Needs` is
`Uses` without the lamps of the gate's cdev, which are acquired after it and
freed before it; `MeansOutliveUsers` adds that a loaded gate holds them
(`LampsAcquired`), so that the exception is confined to loads and unloads.
`LampLeftOut` proves `LampPutOut` by an invariant of its own, `LampInv`, which
holds as long as no file is open in an unload.
`OpenInv` ties an open file, in the two modules that have an owner, to a module
that is there or to a failure at a late step; `OpenFileKeepsModule` needs that a
step that fails with the cdev added is one of these (`LateFailure`).

`NodeMonitorProofs` proves that the monitor is a behaviour of `DriverLifecycle`
(`ModulesLiveAsBefore`), so that these results hold of the composition
(`MonitoredModules`); for every window and time-out the invariant `MonitorInv`
of the heartbeats, the handler's memory and its texts (`MonitorInvariance`); and
`QuietUntilStarted`: a silent node with no heartbeat in flight, no recent memory
and no text that calls it online stays so through restarts of the handler and
reloads of the module, until its client is started. That is the safety half of
`SilentNodeShown`; that such a state is reached is left to TLC.

Only model-checked: all liveness (`PressServed`, `ClosesWhenClear` of both
gates, `StopEnds`, `ImplementsBarrier` with its fairness, `UnlockEnds`,
`StayingCarLocked`, `ChangeReported`, `GateSettles`, `ViewsSettle`,
`SilentNodeShown`, `LiveNodeShown`), which the provers cannot do. Every other
property of a passing run is a theorem.

## 5. Plan

What is left, in this order:

1. The debouncing of the switch with the width of jiffies.
2. Liveness of the slot driver with two slots that share the worker, if a
   smaller abstraction of the worker makes the graph small enough.
3. The rows and topics that `LotStatus` leaves out, if they come to differ from
   the lot word in how they are made.

## 6. Not modelled

The broker, the MQTT libraries and the kernel are modelled only as the code
uses them. `ioctl()` of the slot driver reads and changes nothing. Wording of
payloads and logs, acoustics (both slot sensors are triggered together although
docs/MQTT_TOPICS.md:64 says one after the other), single motor steps and coil
patterns, presentation in the dashboard, vendored code and build files are left
out. The slot, distance, gate and event topics are not followed beyond the
broker: handler and dashboard treat them as they treat the lot word. A restart
of the broker, which would lose the retained words unless it is configured to
keep them, is not modelled. Of the legacy gate, buzzer, LEDs, debouncing and
the lot words it receives (a LED like the bridge's) are left out.
