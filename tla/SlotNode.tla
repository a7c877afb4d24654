------------------------------ MODULE SlotNode ------------------------------
(***************************************************************************)
(* The slot node of RPI1 (src/rpi1/rpi1_parking.c).  A timer fires the     *)
(* ultrasonic sensors, echo interrupts time the pulses, one worker thread  *)
(* evaluates them in the order of a workqueue and drives the lock of each  *)
(* slot, a button interrupt asks for a lock to be opened, and a daemon     *)
(* blocks in read() until the occupancy changes.                           *)
(*                                                                         *)
(* A measurement is "near" (OCCUPIED_THRESHOLD_CM or less), "far" or "bad" *)
(* (outside the window of line 236).  distance_cm and the slot LED follow  *)
(* occupied in the same step and are not kept.  btn_isr's debouncing only  *)
(* decides which edges count as presses: an edge it drops changes nothing. *)
(***************************************************************************)
EXTENDS Integers, Sequences, FiniteSets, SequencesExt

CONSTANTS
    Slots,          \* the parking spaces
    LockTurns,      \* pieces of a LOCK_STEPS motor stroke
    LockTimeout,    \* LOCK_TIMEOUT_MS, in ticks
    ReleaseCount    \* UNOCCUPIED_RELEASE_COUNT

ASSUME SlotConfig ==
    /\ LockTurns \in Nat /\ LockTurns >= 1
    /\ LockTimeout \in Nat /\ LockTimeout >= 1
    /\ ReleaseCount \in Nat /\ ReleaseCount >= 1

VARIABLES
    echo,            \* sensor.state of each slot
    pulse,           \* a pulse of the sensor is under way
    queue,           \* works queued on parking_wq_struct and not begun
    wpc,             \* where the worker thread is
    slot,            \* the slot of the work it runs
    sample,          \* the measurement it evaluates
    do_lock, turned, \* the direction and the progress of the stroke it drives
    occupied,        \* sensor.occupied
    status_changed,
    lock_st,         \* sensor.lock_st
    lock_pending,
    occupyAge,       \* ticks since occupy_start, at most LockTimeout
    consecutive_unoccupied,
    barrier,         \* position of the lock: 0 down, LockTurns up; never clamped
    rpc,             \* where the reader of /dev/parking is
    unread, got,     \* slots it has yet to copy, values it has copied
    report,          \* what the last read() returned
    emptyRun,        \* history: valid far samples since the last near one
    stayAge          \* history: ticks since the first near sample after a
                     \* run of ReleaseCount far ones, at most LockTimeout

worker  == <<wpc, slot, sample, do_lock, turned>>
locks   == <<lock_st, lock_pending, occupyAge, consecutive_unoccupied, barrier>>
reader  == <<rpc, unread, got, report>>
history == <<emptyRun, stayAge>>

vars == <<echo, pulse, queue, worker, occupied, status_changed, locks, reader, history>>

-----------------------------------------------------------------------------
EchoState == {"IDLE", "WAIT_HIGH", "WAIT_LOW", "DONE"}
LockState == {"FREE", "TIMING", "LOCKING", "LOCKED", "UNLOCKING", "WAIT_EMPTY"}
Samples   == {"near", "far", "bad"}
Work      == {"sensor", "lock"} \X Slots
Ages      == 0 .. LockTimeout

Older(age) == IF age < LockTimeout THEN age + 1 ELSE age

(* Mutant: a work is dropped while any other is pending.                   *)
QueueWorkIfIdle(work) == IF queue # <<>> THEN queue ELSE Append(queue, work)

(* queue_work() does nothing for a work that is still pending.             *)
QueueWork(work) == IF work \in ToSet(queue) THEN queue ELSE Append(queue, work)

Init ==
    /\ echo = [s \in Slots |-> "IDLE"] /\ pulse = [s \in Slots |-> FALSE]
    /\ queue = <<>>
    /\ wpc = "idle" /\ slot \in Slots /\ sample = "bad" /\ do_lock = FALSE /\ turned = 0
    /\ occupied = [s \in Slots |-> FALSE]
    /\ status_changed = FALSE
    /\ lock_st = [s \in Slots |-> "FREE"] /\ lock_pending = [s \in Slots |-> FALSE]
    /\ occupyAge = [s \in Slots |-> LockTimeout]
    /\ consecutive_unoccupied = [s \in Slots |-> 0]
    /\ barrier = [s \in Slots |-> 0]
    /\ rpc = "wait" /\ unread = {} /\ got = occupied /\ report = occupied
    /\ emptyRun = [s \in Slots |-> ReleaseCount] /\ stayAge = [s \in Slots |-> 0]

-----------------------------------------------------------------------------
(* Measuring: the timer and the echo interrupt.                            *)

(* Every idle sensor is fired in the same callback; a sensor that is not   *)
(* idle is left waiting.                                                   *)
MeasureTimer ==
    LET idle == {s \in Slots : echo[s] = "IDLE"}
    IN  /\ idle # {}
        /\ echo' = [s \in Slots |-> IF s \in idle THEN "WAIT_HIGH" ELSE echo[s]]
        /\ pulse' = [s \in Slots |-> s \in idle \/ pulse[s]]
        /\ UNCHANGED <<queue, worker, occupied, status_changed, locks, reader, history>>

(* The interrupt reads the level of the pin when it runs.                  *)
EchoIsr(s, pin) ==
    /\ echo' = [echo EXCEPT ![s] =
                  IF @ = "WAIT_HIGH" /\ pin = 1 THEN "WAIT_LOW"
                  ELSE IF @ = "WAIT_LOW" /\ pin = 0 THEN "DONE" ELSE @]
    /\ queue' = IF echo[s] = "WAIT_LOW" /\ pin = 0 THEN QueueWork(<<"sensor", s>>)
                                                   ELSE queue
    /\ UNCHANGED <<worker, occupied, status_changed, locks, reader, history>>

EchoRise(s) ==
    /\ pulse[s] /\ echo[s] = "WAIT_HIGH"
    /\ EchoIsr(s, 1)
    /\ UNCHANGED pulse

EchoFall(s) ==
    /\ pulse[s] /\ echo[s] = "WAIT_LOW"
    /\ EchoIsr(s, 0)
    /\ pulse' = [pulse EXCEPT ![s] = FALSE]

(* The echo stays out, or is over before the interrupt for its rising edge *)
(* reads the pin, which is low again.                                      *)
EchoMissed(s) ==
    /\ pulse[s] /\ echo[s] = "WAIT_HIGH"
    /\ EchoIsr(s, 0)
    /\ pulse' = [pulse EXCEPT ![s] = FALSE]

-----------------------------------------------------------------------------
(* The worker: sensor_work_func().                                         *)

EchoRearmed(s) == [echo EXCEPT ![s] = "IDLE"]

(* Copies the time stamps, allows the next measurement, and gives up on a  *)
(* bad one.                                                                *)
TakeSensorWork ==
    /\ wpc = "idle" /\ queue # <<>> /\ Head(queue)[1] = "sensor"
    /\ queue' = Tail(queue)
    /\ slot' = Head(queue)[2]
    /\ sample' \in Samples
    /\ echo' = EchoRearmed(slot')
    /\ wpc' = IF sample' = "bad" THEN "idle" ELSE "update"
    /\ UNCHANGED <<pulse, do_lock, turned, occupied, status_changed, locks, reader, history>>

(* Mutant: only an arrival is reported.                                    *)
Arrived(now) == now /\ ~occupied[slot]

Changed(now) == occupied[slot] # now

UpdateOccupied ==
    LET now == sample = "near"
    IN  /\ wpc = "update"
        /\ occupied' = [occupied EXCEPT ![slot] = now]
        /\ wpc' = IF Changed(now) THEN "notify" ELSE "lock_fsm"
        /\ emptyRun' = [emptyRun EXCEPT ![slot] =
                          IF now THEN 0 ELSE IF @ < ReleaseCount THEN @ + 1 ELSE @]
        /\ stayAge' = [stayAge EXCEPT ![slot] =
                          IF now /\ emptyRun[slot] = ReleaseCount THEN 0 ELSE @]
        /\ UNCHANGED <<echo, pulse, queue, slot, sample, do_lock, turned, status_changed,
                       locks, reader>>

Notify ==
    /\ wpc = "notify"
    /\ status_changed' = TRUE
    /\ wpc' = "lock_fsm"
    /\ UNCHANGED <<echo, pulse, queue, slot, sample, do_lock, turned, occupied, locks,
                   reader, history>>

(* Mutant: occupy_start is not set for a new car.                          *)
OccupyStartKept == occupyAge

OccupyStart == [occupyAge EXCEPT ![slot] = 0]

(* Mutant: a slot that was opened is free at once.                         *)
FreeAtOnce(now) == TRUE

FreeAgain(now) == ~now

(* The lock state machine of sensor_work_func(), one disjunct per case;    *)
(* LOCKING, LOCKED and UNLOCKING ignore the sample.                        *)
Free(now) ==
    /\ lock_st[slot] = "FREE"
    /\ IF now
         THEN /\ occupyAge' = OccupyStart
              /\ consecutive_unoccupied' = [consecutive_unoccupied EXCEPT ![slot] = 0]
              /\ lock_st' = [lock_st EXCEPT ![slot] = "TIMING"]
         ELSE UNCHANGED <<occupyAge, consecutive_unoccupied, lock_st>>
    /\ UNCHANGED <<lock_pending, queue>>

TimingFar(now) ==
    /\ lock_st[slot] = "TIMING" /\ ~now
    /\ consecutive_unoccupied' = [consecutive_unoccupied EXCEPT ![slot] = @ + 1]
    /\ lock_st' = [lock_st EXCEPT ![slot] =
                     IF consecutive_unoccupied'[slot] >= ReleaseCount THEN "FREE" ELSE @]
    /\ UNCHANGED <<occupyAge, lock_pending, queue>>

TimingNear(now) ==
    /\ lock_st[slot] = "TIMING" /\ now
    /\ consecutive_unoccupied' = [consecutive_unoccupied EXCEPT ![slot] = 0]
    /\ IF occupyAge[slot] >= LockTimeout
         THEN /\ lock_st' = [lock_st EXCEPT ![slot] = "LOCKING"]
              /\ lock_pending' = [lock_pending EXCEPT ![slot] = TRUE]
              /\ queue' = QueueWork(<<"lock", slot>>)
         ELSE UNCHANGED <<lock_st, lock_pending, queue>>
    /\ UNCHANGED occupyAge

WaitEmpty(now) ==
    /\ lock_st[slot] = "WAIT_EMPTY"
    /\ lock_st' = [lock_st EXCEPT ![slot] = IF FreeAgain(now) THEN "FREE" ELSE @]
    /\ UNCHANGED <<occupyAge, consecutive_unoccupied, lock_pending, queue>>

InMotionOrLocked ==
    /\ lock_st[slot] \in {"LOCKING", "LOCKED", "UNLOCKING"}
    /\ UNCHANGED <<lock_st, occupyAge, consecutive_unoccupied, lock_pending, queue>>

LockFsm ==
    LET now == sample = "near"
    IN  /\ wpc = "lock_fsm"
        /\ \/ Free(now) \/ TimingFar(now) \/ TimingNear(now) \/ WaitEmpty(now)
           \/ InMotionOrLocked
        /\ wpc' = "idle"
        /\ UNCHANGED <<echo, pulse, slot, sample, do_lock, turned, occupied,
                       status_changed, barrier, reader, history>>

-----------------------------------------------------------------------------
(* The worker: lock_work_func().                                           *)

(* Mutant: the loop over LOCK_STEPS ends one step early.                   *)
StrokeShort == turned = LockTurns - 1

StrokeDone == turned = LockTurns

TakeLockWork ==
    /\ wpc = "idle" /\ queue # <<>> /\ Head(queue)[1] = "lock"
    /\ queue' = Tail(queue)
    /\ slot' = Head(queue)[2]
    /\ do_lock' = lock_pending[slot']
    /\ turned' = 0
    /\ wpc' = "turn"
    /\ UNCHANGED <<echo, pulse, sample, occupied, status_changed, locks, reader, history>>

Turn ==
    /\ wpc = "turn" /\ turned < LockTurns
    /\ turned' = turned + 1
    /\ barrier' = [barrier EXCEPT ![slot] = IF do_lock THEN @ + 1 ELSE @ - 1]
    /\ UNCHANGED <<echo, pulse, queue, wpc, slot, sample, do_lock, occupied, status_changed,
                   lock_st, lock_pending, occupyAge, consecutive_unoccupied, reader, history>>

TurnDone ==
    /\ wpc = "turn" /\ StrokeDone
    /\ lock_st' = [lock_st EXCEPT ![slot] = IF do_lock THEN "LOCKED" ELSE "WAIT_EMPTY"]
    /\ wpc' = "idle"
    /\ UNCHANGED <<echo, pulse, queue, slot, sample, do_lock, turned, occupied,
                   status_changed, lock_pending, occupyAge, consecutive_unoccupied, barrier,
                   reader, history>>

Worker ==
    \/ TakeSensorWork \/ UpdateOccupied \/ Notify \/ LockFsm
    \/ TakeLockWork \/ Turn \/ TurnDone

-----------------------------------------------------------------------------
(* The button interrupt.                                                   *)

(* Mutant: a press while the lock is closing counts, too.                  *)
UnlockableEarly(s) == lock_st[s] \in {"LOCKING", "LOCKED"}

Unlockable(s) == lock_st[s] = "LOCKED"

(* Mutant: the direction of the next stroke is not turned round.           *)
PendingKept(s) == lock_pending

PendingCleared(s) == [lock_pending EXCEPT ![s] = FALSE]

BtnIsr(s) ==
    /\ Unlockable(s)
    /\ lock_st' = [lock_st EXCEPT ![s] = "UNLOCKING"]
    /\ lock_pending' = PendingCleared(s)
    /\ queue' = QueueWork(<<"lock", s>>)
    /\ UNCHANGED <<echo, pulse, worker, occupied, status_changed, occupyAge,
                   consecutive_unoccupied, barrier, reader, history>>

-----------------------------------------------------------------------------
(* The reader of /dev/parking: parking_read(), called again and again.     *)

ReadWakes ==
    /\ rpc = "wait" /\ status_changed
    /\ rpc' = "clear"
    /\ UNCHANGED <<echo, pulse, queue, worker, occupied, status_changed, locks, unread, got,
                   report, history>>

ReadClears ==
    /\ rpc = "clear"
    /\ status_changed' = FALSE
    /\ rpc' = "copy" /\ unread' = Slots
    /\ UNCHANGED <<echo, pulse, queue, worker, occupied, locks, got, report, history>>

(* C leaves the order in which snprintf's arguments are evaluated open.    *)
ReadCopies ==
    /\ rpc = "copy" /\ unread # {}
    /\ \E s \in unread : /\ got' = [got EXCEPT ![s] = occupied[s]]
                         /\ unread' = unread \ {s}
    /\ UNCHANGED <<echo, pulse, queue, worker, occupied, status_changed, locks, rpc, report,
                   history>>

(* Mutant: the flag is cleared again after the values were copied.         *)
ReadReturnsClearing ==
    /\ rpc = "copy" /\ unread = {}
    /\ report' = got /\ status_changed' = FALSE
    /\ rpc' = "wait"
    /\ UNCHANGED <<echo, pulse, queue, worker, occupied, locks, unread, got, history>>

ReadReturns ==
    /\ rpc = "copy" /\ unread = {}
    /\ report' = got
    /\ rpc' = "wait"
    /\ UNCHANGED <<echo, pulse, queue, worker, occupied, status_changed, locks, unread, got,
                   history>>

Reader == ReadWakes \/ ReadClears \/ ReadCopies \/ ReadReturns

-----------------------------------------------------------------------------
Tick ==
    /\ occupyAge' = [s \in Slots |-> Older(occupyAge[s])]
    /\ stayAge' = [s \in Slots |-> Older(stayAge[s])]
    /\ UNCHANGED <<echo, pulse, queue, worker, occupied, status_changed, lock_st,
                   lock_pending, consecutive_unoccupied, barrier, reader, emptyRun>>

Next ==
    \/ MeasureTimer
    \/ \E s \in Slots : EchoRise(s) \/ EchoFall(s) \/ EchoMissed(s) \/ BtnIsr(s)
    \/ Worker \/ Reader \/ Tick

Spec == Init /\ [][Next]_vars

(* The worker thread, the daemon and the timer run, pulses end, and time   *)
(* passes.  Cars and drivers owe nothing.                                  *)
Fairness ==
    /\ WF_vars(Worker) /\ WF_vars(Reader) /\ WF_vars(MeasureTimer) /\ WF_vars(Tick)
    /\ \A s \in Slots : WF_vars(EchoRise(s) \/ EchoFall(s) \/ EchoMissed(s))

FairSpec == Spec /\ Fairness

-----------------------------------------------------------------------------
(* Properties.                                                             *)

(* Types; the range of barrier says that a lock is never driven past an    *)
(* end, though the stroke is open loop.                                    *)
TypeOK ==
    /\ echo \in [Slots -> EchoState] /\ pulse \in [Slots -> BOOLEAN]
    /\ queue \in Seq(Work)
    /\ wpc \in {"idle", "update", "notify", "lock_fsm", "turn"}
    /\ slot \in Slots /\ sample \in Samples /\ do_lock \in BOOLEAN
    /\ turned \in 0 .. LockTurns
    /\ occupied \in [Slots -> BOOLEAN] /\ status_changed \in BOOLEAN
    /\ lock_st \in [Slots -> LockState] /\ lock_pending \in [Slots -> BOOLEAN]
    /\ occupyAge \in [Slots -> Ages]
    /\ consecutive_unoccupied \in [Slots -> 0 .. ReleaseCount]
    /\ barrier \in [Slots -> 0 .. LockTurns]
    /\ rpc \in {"wait", "clear", "copy"} /\ unread \in SUBSET Slots
    /\ got \in [Slots -> BOOLEAN] /\ report \in [Slots -> BOOLEAN]
    /\ emptyRun \in [Slots -> 0 .. ReleaseCount] /\ stayAge \in [Slots -> Ages]

(* A car that is locked in is behind a raised barrier, and a slot that a   *)
(* car may enter or leave has its barrier down.                            *)
LockMatchesBarrier ==
    \A s \in Slots :
        /\ lock_st[s] = "LOCKED" => barrier[s] = LockTurns
        /\ lock_st[s] \in {"FREE", "TIMING", "WAIT_EMPTY"} => barrier[s] = 0

(* A lock in transition has exactly the work that ends the transition, in  *)
(* the right direction: nothing else would ever take it out of the state.  *)
LockWorkOwed ==
    \A s \in Slots :
        LET queued  == <<"lock", s>> \in ToSet(queue)
            running == wpc = "turn" /\ slot = s
        IN  /\ (queued \/ running) <=> lock_st[s] \in {"LOCKING", "UNLOCKING"}
            /\ ~(queued /\ running)
            /\ queued => lock_pending[s] = (lock_st[s] = "LOCKING")
            /\ running => do_lock = (lock_st[s] = "LOCKING")

(* A finished measurement has its work queued exactly once: a sensor left  *)
(* in ECHO_DONE without one would never be fired again.                    *)
EchoWorkOwed ==
    /\ \A s \in Slots : echo[s] = "DONE" <=> <<"sensor", s>> \in ToSet(queue)
    /\ Len(queue) = Cardinality(ToSet(queue))

(* Interrupts, button and timer queue works without a lock while the only  *)
(* worker may be at any point of another one, and queue_work() does        *)
(* nothing for a work that is queued: still every measurement and every    *)
(* lock has the one work it waits for, and no work waits for nothing.      *)
WorksOwed == LockWorkOwed /\ EchoWorkOwed

(* No occupancy change is lost to the race of the worker with the reader   *)
(* that clears the flag: a reader that goes to sleep has reported all of   *)
(* it, or the worker is about to wake it.                                  *)
NoLostChange ==
    rpc = "wait" /\ ~status_changed =>
        \A s \in Slots : report[s] = occupied[s] \/ (wpc = "notify" /\ slot = s)

(* The reads that are due: the one under way, one for a flag that it will  *)
(* not clear any more, one for the flag that the worker is about to set.   *)
Due ==
    LET one(b) == IF b THEN 1 ELSE 0
    IN  one(rpc # "wait") + one(wpc = "notify") + one(status_changed /\ rpc # "clear")

Feed == INSTANCE SlotFeed WITH due <- Due

(* What LotStatus is built on: the reader, which copies the slots one by   *)
(* one and clears the flag before it does, never reports less than a       *)
(* SlotFeed promises, and does not report for ever what has not changed.   *)
ReportsSlotFeed == Feed!Spec

(* A slot is locked only on a near sample of a car that has been there for *)
(* LOCK_TIMEOUT_MS without UNOCCUPIED_RELEASE_COUNT far samples in a row.  *)
LocksOnlyStayingCar ==
    [][\A s \in Slots :
         (lock_st[s] # "LOCKING" /\ lock_st'[s] = "LOCKING") =>
             occupied[s] /\ stayAge[s] >= LockTimeout]_vars

(* An occupancy that lasts is what the daemon has been told in the end.    *)
ChangeReported ==
    \A s \in Slots, b \in BOOLEAN :
        <>[](occupied[s] = b) => <>[](report[s] = b)

(* A press on the button of a locked slot opens it.                        *)
UnlockEnds == \A s \in Slots : lock_st[s] = "UNLOCKING" ~> lock_st[s] = "WAIT_EMPTY"

(* A car that stays is locked in, as long as samples keep coming, and is   *)
(* not locked in again after its driver has opened the lock.               *)
StayingCarLocked ==
    \A s \in Slots :
        (<>[]occupied[s] /\ []<>(wpc = "lock_fsm" /\ slot = s)) =>
            <>[](lock_st[s] \in {"LOCKED", "UNLOCKING", "WAIT_EMPTY"})

-----------------------------------------------------------------------------
(* "측정 실패 -> 상태 유지, 재측정 대기" (rpi1_parking.c): a sensor whose      *)
(* measurement fails waits for the next one.                               *)
SensorMeasuresAgain == \A s \in Slots : []<>(echo[s] = "IDLE")

=============================================================================
