------------------------------ MODULE GateNode ------------------------------
(***************************************************************************)
(* The gate node of RPI2 (src/rpi2/gate_main.c, gate_hw.c): one kernel     *)
(* thread polls the exit switch and the ultrasonic sensor, drives the      *)
(* stepper motor of the arm and moves through six states.  The switch      *)
(* interrupt, the clock and the unloading of the module run concurrently   *)
(* with it, between any two of its steps.                                  *)
(*                                                                         *)
(* The motor turns in Batches batches (16 batches of 64 half steps in the  *)
(* code), because the thread looks at the sensor and the switch only       *)
(* between batches.  Times are ages in seconds that stop growing at MaxAge,*)
(* above which no comparison of the code tells two of them apart.          *)
(***************************************************************************)
EXTENDS Integers

CONSTANTS
    Batches,          \* STEPPER_GATE_STEPS / BATCH
    EntryCloseDelay,  \* ENTRY_CLOSE_DELAY_SEC
    ExitTimeout       \* EXIT_TIMEOUT_SEC

(* At least one look at the sensor while the arm comes down, and timers    *)
(* that do not expire at once: 16, 10 and 10 in config.h and gate_hw.c.    *)
ASSUME GateConfig ==
    /\ Batches \in Nat /\ Batches >= 2
    /\ EntryCloseDelay \in Nat /\ EntryCloseDelay >= 1
    /\ ExitTimeout \in Nat /\ ExitTimeout >= 1

VARIABLES
    current_state,    \* SystemState, guarded by state_mutex
    pc,               \* where the state machine thread is
    arm,              \* position of the arm: 0 down, Batches up; never clamped
    steps,            \* batches done (to undo, while reopening) in the running motor loop
    energised,        \* some coil of the stepper carries current
    distance_cm,      \* class of the last reading: "near", "far" or "none" (-1)
    vehicleAge,       \* seconds since last_vehicle_detect
    requestAge,       \* seconds since exit_request_time
    nearAge,          \* history: seconds since the last near reading
    switch_pressed,   \* set by the interrupt, fetched and cleared by the thread
    switch_reopen,    \* a press the thread met in a state other than IDLE
    bouncing,         \* the last accepted edge is younger than DEBOUNCE_MS
    buzzer,           \* the buzzer sounds
    lamp,             \* which of the entry and exit LEDs is lit, or "off"
    should_stop       \* kthread_stop() has been called

motor   == <<arm, steps, energised>>
clock   == <<vehicleAge, requestAge, nearAge>>
button  == <<switch_pressed, switch_reopen, bouncing>>
signals == <<buzzer, lamp>>

vars == <<current_state, pc, motor, distance_cm, clock, button, signals, should_stop>>

-----------------------------------------------------------------------------
EntryStates == {"ENTRY_DETECTED", "ENTRY_WAITING"}
ExitStates  == {"EXIT_REQUESTED", "EXIT_VEHICLE_DETECTED", "EXIT_VEHICLE_WAITING"}
SystemState == {"IDLE"} \cup EntryStates \cup ExitStates

Readings == {"near", "far", "none"}

(* poll: top of the loop; exit_open: gate_open() from on_switch_press();   *)
(* measure: switch handled, sensor next; entry_open: gate_open() from the  *)
(* IDLE case; closing, check, reopening: gate_close_interruptible();       *)
(* indicate: buzzer and LEDs next; stopped: the thread has returned.       *)
Pc == {"poll", "exit_open", "measure", "entry_open", "closing", "check",
       "reopening", "indicate", "stopped"}

MaxAge == IF EntryCloseDelay >= ExitTimeout THEN EntryCloseDelay ELSE ExitTimeout
Ages   == 0 .. MaxAge
Older(age) == IF age < MaxAge THEN age + 1 ELSE age

(* Both atomic flags start clear and the pins low (gate_hw_init).  An edge *)
(* right after boot may still be within DEBOUNCE_MS of last_switch_time=0. *)
Init ==
    /\ current_state = "IDLE"
    /\ pc = "poll"
    /\ arm = 0 /\ steps = 0 /\ energised = FALSE
    /\ distance_cm = "none"
    /\ vehicleAge = MaxAge /\ requestAge = MaxAge /\ nearAge = MaxAge
    /\ switch_pressed = FALSE /\ switch_reopen = FALSE /\ bouncing \in BOOLEAN
    /\ buzzer = FALSE /\ lamp = "off"
    /\ should_stop = FALSE

-----------------------------------------------------------------------------
(* The stepper motor.                                                      *)

(* gate_open() runs the whole stroke whatever the position of the arm is,  *)
(* and leaves the coils energised.                                         *)
RaiseBatch ==
    /\ arm' = arm + 1
    /\ steps' = steps + 1
    /\ energised' = TRUE

(* One batch down.                                                         *)
LowerBatch ==
    /\ arm' = arm - 1
    /\ steps' = steps + 1
    /\ energised' = TRUE

(* Mutant: the way back counts two batches for one.                        *)
RewindBatchShort ==
    /\ arm' = arm + 1
    /\ steps' = IF steps > 1 THEN steps - 2 ELSE 0
    /\ energised' = TRUE

(* One batch of the way back: as many batches up as steps_done.            *)
RewindBatch ==
    /\ arm' = arm + 1
    /\ steps' = steps - 1
    /\ energised' = TRUE

(* ultrasonic_measure_cm(): a distance within VEHICLE_DETECT_CM, a larger  *)
(* one, or -1 when an edge of the echo does not come in time.              *)
MeasureCm(reading) ==
    /\ distance_cm' = reading
    /\ nearAge' = IF reading = "near" THEN 0 ELSE nearAge

-----------------------------------------------------------------------------
(* The state machine thread.                                               *)

(* Mutant: the thread stops only when no car is being served.              *)
ShouldStopInIdle == should_stop /\ current_state = "IDLE"

ShouldStop == should_stop

(* The loop test: buzzer and LEDs off, and the thread returns.             *)
StopThread ==
    /\ pc = "poll" /\ ShouldStop
    /\ buzzer' = FALSE /\ lamp' = "off"
    /\ pc' = "stopped"
    /\ UNCHANGED <<current_state, motor, distance_cm, clock, button, should_stop>>

(* Mutant: on_switch_press() drives the motor in every state.              *)
OpensAlways == TRUE

OpensOnPress == current_state = "IDLE"

(* Mutant: switch_set_reopen() is called after the if, not in its else.    *)
RequestsAlways == TRUE

RequestsReopen == current_state # "IDLE"

(* switch_was_pressed() fetches and clears the flag; on_switch_press()     *)
(* opens the gate in IDLE, before the state leaves IDLE, and in any other  *)
(* state leaves a reopen request behind.                                   *)
PollSwitch ==
    /\ pc = "poll" /\ ~ShouldStop
    /\ switch_pressed' = FALSE
    /\ switch_reopen' = (switch_reopen \/ (switch_pressed /\ RequestsReopen))
    /\ pc' = IF switch_pressed /\ OpensOnPress THEN "exit_open" ELSE "measure"
    /\ UNCHANGED <<current_state, motor, distance_cm, clock, bouncing, signals, should_stop>>

ExitOpenBatch ==
    /\ pc = "exit_open" /\ steps < Batches
    /\ RaiseBatch
    /\ UNCHANGED <<current_state, pc, distance_cm, clock, button, signals, should_stop>>

(* The state changes only now that the arm is up.                          *)
ExitOpened ==
    /\ pc = "exit_open" /\ steps = Batches
    /\ steps' = 0
    /\ requestAge' = 0
    /\ current_state' = "EXIT_REQUESTED"
    /\ pc' = "measure"
    /\ UNCHANGED <<arm, energised, distance_cm, vehicleAge, nearAge, button, signals,
                   should_stop>>

(* The switch (state) after a measurement: what each state does with the   *)
(* reading.  vehicleAge' = 0 is last_vehicle_detect = now.                 *)
Idle(reading) ==
    /\ current_state = "IDLE"
    /\ IF reading = "near"
         THEN /\ current_state' = "ENTRY_DETECTED"  \* before gate_open()
              /\ vehicleAge' = 0                    \* now was read before gate_open()
              /\ pc' = "entry_open"
         ELSE /\ pc' = "indicate"
              /\ UNCHANGED <<current_state, vehicleAge>>

EntryDetected(reading) ==
    /\ current_state = "ENTRY_DETECTED"
    /\ vehicleAge' = 0
    /\ current_state' = IF reading = "near" THEN "ENTRY_DETECTED" ELSE "ENTRY_WAITING"
    /\ pc' = "indicate"

(* ENTRY_WAITING and EXIT_VEHICLE_WAITING test the timer before the        *)
(* reading; a near reading goes back to `detected` only before it expires. *)
Waiting(waiting, detected, reading) ==
    /\ current_state = waiting
    /\ IF vehicleAge >= EntryCloseDelay
         THEN pc' = "closing" /\ UNCHANGED <<current_state, vehicleAge>>
         ELSE /\ pc' = "indicate"
              /\ IF reading = "near"
                   THEN current_state' = detected /\ vehicleAge' = 0
                   ELSE UNCHANGED <<current_state, vehicleAge>>

ExitRequested(reading) ==
    /\ current_state = "EXIT_REQUESTED"
    /\ IF reading = "near"
         THEN /\ current_state' = "EXIT_VEHICLE_DETECTED"
              /\ vehicleAge' = 0
              /\ pc' = "indicate"
         ELSE /\ pc' = IF requestAge >= ExitTimeout THEN "closing" ELSE "indicate"
              /\ UNCHANGED <<current_state, vehicleAge>>

(* Unlike ENTRY_DETECTED, a failed measurement (-1) matches neither test.  *)
ExitVehicleDetected(reading) ==
    /\ current_state = "EXIT_VEHICLE_DETECTED"
    /\ vehicleAge' = IF reading = "none" THEN vehicleAge ELSE 0
    /\ current_state' = IF reading = "far" THEN "EXIT_VEHICLE_WAITING"
                                           ELSE "EXIT_VEHICLE_DETECTED"
    /\ pc' = "indicate"

Measure ==
    /\ pc = "measure"
    /\ \E reading \in Readings :
         /\ MeasureCm(reading)
         /\ \/ Idle(reading)
            \/ EntryDetected(reading)
            \/ Waiting("ENTRY_WAITING", "ENTRY_DETECTED", reading)
            \/ ExitRequested(reading)
            \/ ExitVehicleDetected(reading)
            \/ Waiting("EXIT_VEHICLE_WAITING", "EXIT_VEHICLE_DETECTED", reading)
    /\ UNCHANGED <<motor, requestAge, button, signals, should_stop>>

EntryOpenBatch ==
    /\ pc = "entry_open" /\ steps < Batches
    /\ RaiseBatch
    /\ UNCHANGED <<current_state, pc, distance_cm, clock, button, signals, should_stop>>

EntryOpened ==
    /\ pc = "entry_open" /\ steps = Batches
    /\ steps' = 0
    /\ pc' = "indicate"
    /\ UNCHANGED <<current_state, arm, energised, distance_cm, clock, button, signals,
                   should_stop>>

-----------------------------------------------------------------------------
(* gate_close_interruptible()                                              *)

(* Mutant: the last batch is followed by a check as well.                  *)
CheckAfterAll(done) == TRUE

(* A check follows every batch but the last.                               *)
CheckAfter(done) == done < Batches

CloseBatch ==
    /\ pc = "closing" /\ steps < Batches
    /\ LowerBatch
    /\ pc' = IF CheckAfter(steps') THEN "check" ELSE "closing"
    /\ UNCHANGED <<current_state, distance_cm, clock, button, signals, should_stop>>

(* Mutant: a press is fetched while closing, but does not abort it.        *)
AbortNotOnPress(near) == near \/ switch_reopen

(* near || switch_was_pressed() || switch_reopen_was_requested().          *)
Abort(near) == near \/ switch_pressed \/ switch_reopen

(* Mutant: the request is read, not fetched and cleared.                   *)
ReopenKept(near) == switch_reopen

(* The flags are fetched and cleared in the order of the condition, and    *)
(* only as far as it is evaluated.                                         *)
ReopenLeft(near) == switch_reopen /\ (near \/ switch_pressed)

(* The buzzer beeps in a rhythm of its own until the way back starts.      *)
CheckObstacle ==
    /\ pc = "check"
    /\ \E reading \in Readings, beep \in BOOLEAN :
         LET near == reading = "near"
         IN  /\ MeasureCm(reading)
             /\ switch_pressed' = (switch_pressed /\ near)
             /\ switch_reopen' = ReopenLeft(near)
             /\ buzzer' = (beep /\ ~Abort(near))
             /\ pc' = IF Abort(near) THEN "reopening" ELSE "closing"
    /\ UNCHANGED <<current_state, motor, vehicleAge, requestAge, bouncing, lamp,
                   should_stop>>

ReopenBatch ==
    /\ pc = "reopening" /\ steps > 0
    /\ RewindBatch
    /\ UNCHANGED <<current_state, pc, distance_cm, clock, button, signals, should_stop>>

(* Mutant: exit_request_time = now is missing after an aborted close.      *)
KeepRequestTime == UNCHANGED requestAge

RestartRequestTime == requestAge' = IF current_state = "EXIT_REQUESTED" THEN 0 ELSE requestAge

(* The way back is done: the caller restarts its timers and its state.     *)
Reopened ==
    /\ pc = "reopening" /\ steps = 0
    /\ energised' = FALSE
    /\ vehicleAge' = 0
    /\ RestartRequestTime
    /\ current_state' = CASE current_state = "ENTRY_WAITING" -> "ENTRY_DETECTED"
                          [] current_state = "EXIT_VEHICLE_WAITING" -> "EXIT_VEHICLE_DETECTED"
                          [] OTHER -> current_state
    /\ pc' = "indicate"
    /\ UNCHANGED <<arm, steps, distance_cm, nearAge, button, signals, should_stop>>

Closed ==
    /\ pc = "closing" /\ steps = Batches
    /\ energised' = FALSE
    /\ steps' = 0
    /\ current_state' = "IDLE"
    /\ pc' = "indicate"
    /\ UNCHANGED <<arm, distance_cm, clock, button, signals, should_stop>>

-----------------------------------------------------------------------------
(* Mutant: the LEDs are left alone in IDLE.                                *)
LampLeft(on) ==
    CASE on /\ current_state \in EntryStates -> "entry"
      [] on /\ current_state \in ExitStates  -> "exit"
      [] OTHER -> IF current_state = "IDLE" THEN lamp ELSE "off"

LampFor(on) ==
    CASE on /\ current_state \in EntryStates -> "entry"
      [] on /\ current_state \in ExitStates  -> "exit"
      [] OTHER -> "off"

(* Buzzer and LED blink together while a car passes, five rounds on and    *)
(* five off; the choice stands for buzzer_phase.                           *)
Indicate ==
    /\ pc = "indicate"
    /\ \E on \in BOOLEAN :
         /\ buzzer' = (on /\ current_state # "IDLE")
         /\ lamp' = LampFor(on)
    /\ pc' = "poll"
    /\ UNCHANGED <<current_state, motor, distance_cm, clock, button, should_stop>>

Thread ==
    \/ StopThread \/ PollSwitch \/ Measure \/ Indicate
    \/ ExitOpenBatch \/ ExitOpened \/ EntryOpenBatch \/ EntryOpened
    \/ CloseBatch \/ CheckObstacle \/ ReopenBatch \/ Reopened \/ Closed

-----------------------------------------------------------------------------
(* What runs beside the thread.                                            *)

(* An edge that passes the debouncing test of switch_irq_handler().        *)
SwitchIrq ==
    /\ ~bouncing
    /\ switch_pressed' = TRUE
    /\ bouncing' = TRUE
    /\ UNCHANGED <<current_state, pc, motor, distance_cm, clock, switch_reopen, signals,
                   should_stop>>

DebounceExpires ==
    /\ bouncing
    /\ bouncing' = FALSE
    /\ UNCHANGED <<current_state, pc, motor, distance_cm, clock, switch_pressed,
                   switch_reopen, signals, should_stop>>

(* gate_node_exit() asks the thread to stop.                               *)
KthreadStop ==
    /\ ~should_stop
    /\ should_stop' = TRUE
    /\ UNCHANGED <<current_state, pc, motor, distance_cm, clock, button, signals>>

Tick ==
    /\ vehicleAge' = Older(vehicleAge)
    /\ requestAge' = Older(requestAge)
    /\ nearAge' = Older(nearAge)
    /\ UNCHANGED <<current_state, pc, motor, distance_cm, button, signals, should_stop>>

Next == Thread \/ SwitchIrq \/ DebounceExpires \/ KthreadStop \/ Tick

Spec == Init /\ [][Next]_vars

(* The scheduler runs the thread again after each of its sleeps, and time  *)
(* passes.  Nothing is assumed of cars, drivers or the administrator.      *)
Fairness == WF_vars(Thread) /\ WF_vars(Tick)

FairSpec == Spec /\ Fairness

-----------------------------------------------------------------------------
(* Properties.                                                             *)

Moving == {"exit_open", "entry_open", "closing", "check", "reopening"}

(* Every variable has its type; the arm is not clamped by the code, so its *)
(* range is part of what has to be shown.                                  *)
TypeOK ==
    /\ current_state \in SystemState
    /\ pc \in Pc
    /\ arm \in 0 .. Batches /\ steps \in 0 .. Batches /\ energised \in BOOLEAN
    /\ distance_cm \in Readings
    /\ vehicleAge \in Ages /\ requestAge \in Ages /\ nearAge \in Ages
    /\ switch_pressed \in BOOLEAN /\ switch_reopen \in BOOLEAN /\ bouncing \in BOOLEAN
    /\ buzzer \in BOOLEAN /\ lamp \in {"off", "entry", "exit"}
    /\ should_stop \in BOOLEAN

(* The motor has no limit switch: the program knows where the arm is only  *)
(* from its state.  Whenever no stroke is running, IDLE means fully down   *)
(* with the coils off and every other state means fully up.                *)
RestingArm ==
    pc \notin Moving =>
        IF current_state = "IDLE" THEN arm = 0 /\ ~energised ELSE arm = Batches

(* A reopen request never survives the trip it was made in: in IDLE it     *)
(* would make the next car's barrier bounce for a press long past.         *)
NoStaleReopen == current_state = "IDLE" => ~switch_reopen

(* The LED tells drivers which way the gate is in use; it never shows the  *)
(* other way, and a closed gate at rest is dark and silent.                *)
LampTellsDirection ==
    /\ lamp = "entry" => current_state \notin ExitStates
    /\ lamp = "exit" => current_state \notin EntryStates
    /\ (pc \in {"poll", "stopped"} /\ current_state = "IDLE") => (lamp = "off" /\ ~buzzer)

(* The arm starts down only when, up to the reading just taken, no car has *)
(* been seen for the whole delay of the state, even though the timers are  *)
(* restarted in many places and a stroke down may have been aborted.       *)
VehicleGrace ==
    [][(pc = "measure" /\ pc' = "closing") =>
         nearAge >= IF current_state = "EXIT_REQUESTED" THEN ExitTimeout
                                                        ELSE EntryCloseDelay]_vars

(* The arm as a Barrier: which stroke is running follows from the pc.      *)
Course == IF pc \in {"exit_open", "entry_open", "reopening"} THEN "raising"
          ELSE IF pc \in {"closing", "check"} THEN "lowering"
          ELSE IF current_state = "IDLE" THEN "shut" ELSE "open"

Arm == INSTANCE Barrier WITH Top <- Batches, height <- arm, course <- Course

(* The state machine implements the Barrier, with its promise that every   *)
(* stroke is finished.                                                     *)
ImplementsBarrier == Arm!Spec

Report == INSTANCE GateStates WITH state <- current_state

(* What GateReport is built on: the reported state moves only as           *)
(* GateStates says, so no exit ever turns into an entry half way.          *)
ReportsGateStates == Report!Spec

(* An accepted press is never lost: whatever the thread is doing, the gate *)
(* is fully open some time after it, unless the module is being unloaded.  *)
PressServed == switch_pressed ~> (arm = Batches \/ should_stop)

(* Once the sensor only sees free space and nobody presses, the gate ends  *)
(* up closed for good, whatever state, timer and request were left behind. *)
ClosesWhenClear ==
    <>[](distance_cm = "far" /\ ~switch_pressed /\ ~should_stop) =>
        <>[](current_state = "IDLE" /\ arm = 0)

(* kthread_stop() returns: the thread ends from every state it may be in,  *)
(* with buzzer and LEDs off.                                               *)
StopEnds == should_stop ~> (pc = "stopped" /\ ~buzzer /\ lamp = "off")

-----------------------------------------------------------------------------
(* Claims of the documents that the code does not keep.                    *)

(* "물체가 새로 접근하면 close timer 갱신" (README.md): a car that the reading  *)
(* just taken shows keeps the gate open.                                   *)
ApproachRenewsTimer ==
    [][(pc = "measure" /\ pc' = "closing") => distance_cm' # "near"]_vars

(* "일정 시간이 지나면 RPI2는 바리게이트를 close한다" (README.md): with no car   *)
(* in sight and no press, the gate is down again some time later.          *)
GateClosesAgain ==
    <>[](distance_cm # "near" /\ ~switch_pressed /\ ~should_stop) => []<>(arm = 0)

=============================================================================
