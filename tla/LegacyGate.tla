----------------------------- MODULE LegacyGate -----------------------------
(***************************************************************************)
(* The user-space gate that gate_node.ko replaced (src/rpi2/main.c,        *)
(* gate_controller.c, switch_handler.c, mqtt_client.c, ultrasonic.c).      *)
(* Three threads share its state: main polls the sensor and moves through  *)
(* the six states, the switch thread opens the gate for a press by itself, *)
(* and the thread of the MQTT library follows the connection.              *)
(*                                                                         *)
(* Opening holds gate_mutex for the whole stroke; closing takes it only to *)
(* test and to set the state of the gate, and turns the motor without it.  *)
(* A step of a thread is what it does between two points where the other   *)
(* can get in.  Prompt says that a thread which is not sleeping is not     *)
(* overtaken by the other's sleeps: its sections between two sleeps take   *)
(* microseconds, a batch of the motor or a measurement milliseconds.       *)
(***************************************************************************)
EXTENDS Integers

CONSTANTS
    Batches,          \* STEPPER_GATE_STEPS / 64
    EntryCloseDelay,  \* ENTRY_CLOSE_DELAY_SEC
    ExitTimeout,      \* EXIT_TIMEOUT_SEC
    Prompt            \* see above

(* 16, 10 and 10 in config.h. *)
ASSUME LegacyConfig ==
    /\ Batches \in Nat /\ Batches >= 2
    /\ EntryCloseDelay \in Nat /\ EntryCloseDelay >= 1
    /\ ExitTimeout \in Nat /\ ExitTimeout >= 1
    /\ Prompt \in BOOLEAN

VARIABLES
    sys_state,          \* SystemState, guarded by state_mutex
    stateAge,           \* seconds since state_timer
    switch_close_flag,  \* a press met outside IDLE
    current_state,      \* GateState of gate_controller.c, guarded by gate_mutex
    gate_mutex,         \* its holder while a stroke runs: "main", "switch"; else "free"
    arm,                \* position of the arm: 0 down, Batches up; never clamped
    steps, sw_steps,    \* batches done by main and by the switch thread
    mpc,                \* where the main thread is
    s, dist,            \* its locals: the state it read, the class of the reading
    spc,                \* where the switch thread is
    looping,            \* mosquitto_connect() succeeded at the start
    connected,          \* is_mqtt_connected
    word, missed,       \* last gate word published; whether a later one was dropped
    running,            \* cleared by SIGINT and SIGTERM
    swept               \* history: gate_close() at the start met a gate opened by a press

motor == <<current_state, gate_mutex, arm>>
state == <<sys_state, stateAge>>
mqtt  == <<looping, connected>>
told  == <<word, missed>>

vars == <<state, switch_close_flag, motor, steps, sw_steps, mpc, s, dist, spc, mqtt, told,
          running, swept>>

-----------------------------------------------------------------------------
SystemState == {"IDLE", "ENTRY_DETECTED", "ENTRY_WAITING", "EXIT_REQUESTED",
                "EXIT_VEHICLE_DETECTED", "EXIT_VEHICLE_WAITING"}
GateState   == {"GATE_OPEN", "GATE_CLOSED"}
Readings    == {"near", "far", "none"}

(* init_connect, init_close, init_lower: from switch_handler_init() to the *)
(* loop; measure: top of the loop; entry_open, raise: gate_open(); close,  *)
(* lower, check, rewind: gate_close_interruptible(); aborted, closed: its  *)
(* two results; tell_open, tell_closed: publishing; done: past the loop,   *)
(* with the pins of the motor unexported.                                  *)
MainPc == {"init_connect", "init_close", "init_lower", "measure", "decide", "entry_open",
           "raise", "close", "lower", "check", "rewind", "aborted", "closed",
           "tell_open", "tell_closed", "done"}

(* wait: in poll(); flag, act, open, raise, publish: on_switch_press().    *)
SwitchPc == {"wait", "flag", "act", "open", "raise", "publish", "exited"}

MaxAge == IF EntryCloseDelay >= ExitTimeout THEN EntryCloseDelay ELSE ExitTimeout
Ages   == 0 .. MaxAge

(* gate_controller_init() has driven the arm down against its stop, and    *)
(* switch_handler_init() has just started the switch thread.               *)
Init ==
    /\ sys_state = "IDLE" /\ stateAge = MaxAge
    /\ switch_close_flag = FALSE
    /\ current_state = "GATE_CLOSED" /\ gate_mutex = "free" /\ arm = 0
    /\ steps = 0 /\ sw_steps = 0
    /\ mpc = "init_connect" /\ s = "IDLE" /\ dist = "none"
    /\ spc = "wait"
    /\ looping = FALSE /\ connected = FALSE
    /\ word = "none" /\ missed = FALSE
    /\ running = TRUE
    /\ swept = FALSE

-----------------------------------------------------------------------------
(* Awake between two sleeps; a thread that waits for the mutex sleeps.     *)
MainAwake ==
    \/ mpc \in {"decide", "aborted", "closed", "tell_open", "tell_closed"}
    \/ mpc \in {"init_close", "entry_open", "close"} /\ gate_mutex = "free"

SwitchAwake ==
    \/ spc \in {"flag", "act", "publish"}
    \/ spc = "open" /\ gate_mutex = "free"

MainMaySleep   == Prompt => ~SwitchAwake
SwitchMaySleep == Prompt => ~MainAwake

(* mqtt_publish_gate_state(): dropped when there is no connection.         *)
Publish(w) ==
    /\ word' = IF connected THEN w ELSE word
    /\ missed' = ~connected

-----------------------------------------------------------------------------
(* The switch thread.                                                      *)

(* An edge ends poll() and passes the debouncing; the callback reads the   *)
(* state.  Edges that come during the callback are read away after it.     *)
Press ==
    /\ spc = "wait"
    /\ spc' = IF sys_state = "IDLE" THEN "act" ELSE "flag"
    /\ UNCHANGED <<state, switch_close_flag, motor, steps, sw_steps, mpc, s, dist, mqtt,
                   told, running, swept>>

FlagPress ==
    /\ spc = "flag"
    /\ switch_close_flag' = TRUE
    /\ spc' = "wait"
    /\ UNCHANGED <<state, motor, steps, sw_steps, mpc, s, dist, mqtt, told, running, swept>>

(* The state and its timer change before the gate opens.                   *)
RequestExit ==
    /\ spc = "act"
    /\ sys_state' = "EXIT_REQUESTED" /\ stateAge' = 0
    /\ spc' = "open"
    /\ UNCHANGED <<switch_close_flag, motor, steps, sw_steps, mpc, s, dist, mqtt, told,
                   running, swept>>

(* Mutant: whoever wants the mutex gets it.                                *)
GrabMutex == TRUE

(* pthread_mutex_lock(&gate_mutex) returns.                                *)
LockMutex == gate_mutex = "free"

(* Mutant: gate_open() raises the arm without asking where it is.          *)
NeedsStrokeAlways == TRUE

(* gate_open() does nothing when the gate is open already.                 *)
NeedsStroke == current_state = "GATE_CLOSED"

SwitchGateOpen ==
    /\ spc = "open" /\ LockMutex
    /\ IF NeedsStroke
         THEN gate_mutex' = "switch" /\ spc' = "raise"
         ELSE spc' = "publish" /\ UNCHANGED gate_mutex
    /\ UNCHANGED <<state, switch_close_flag, current_state, arm, steps, sw_steps, mpc, s,
                   dist, mqtt, told, running, swept>>

(* Writes to pins that main has unexported move nothing.                   *)
SwitchRaiseBatch ==
    /\ SwitchMaySleep
    /\ spc = "raise" /\ sw_steps < Batches
    /\ sw_steps' = sw_steps + 1
    /\ arm' = IF mpc = "done" THEN arm ELSE arm + 1
    /\ UNCHANGED <<state, switch_close_flag, current_state, gate_mutex, steps, mpc, s, dist,
                   spc, mqtt, told, running, swept>>

SwitchRaised ==
    /\ spc = "raise" /\ sw_steps = Batches
    /\ sw_steps' = 0
    /\ current_state' = "GATE_OPEN" /\ gate_mutex' = "free"
    /\ spc' = "publish"
    /\ UNCHANGED <<state, switch_close_flag, arm, steps, mpc, s, dist, mqtt, told, running,
                   swept>>

SwitchPublish ==
    /\ spc = "publish"
    /\ Publish("OPEN")
    /\ spc' = "wait"
    /\ UNCHANGED <<state, switch_close_flag, motor, steps, sw_steps, mpc, s, dist, mqtt,
                   running, swept>>

(* switch_handler_cleanup(): after the clean-up of the gate, main waits    *)
(* for the callback to end.                                                *)
SwitchExit ==
    /\ spc = "wait" /\ mpc = "done"
    /\ spc' = "exited"
    /\ UNCHANGED <<state, switch_close_flag, motor, steps, sw_steps, mpc, s, dist, mqtt,
                   told, running, swept>>

SwitchThread ==
    \/ FlagPress \/ RequestExit \/ SwitchGateOpen \/ SwitchRaiseBatch \/ SwitchRaised
    \/ SwitchPublish \/ SwitchExit

-----------------------------------------------------------------------------
(* The main thread before its loop: the switch is live already.            *)

(* mqtt_connect(): when the broker does not answer, the thread of the      *)
(* library is never started, and nobody tries again.                       *)
Connect ==
    /\ MainMaySleep
    /\ mpc = "init_connect"
    /\ looping' \in BOOLEAN
    /\ mpc' = "init_close"
    /\ UNCHANGED <<state, switch_close_flag, motor, steps, sw_steps, s, dist, spc, connected,
                   told, running, swept>>

(* gate_close(): with no look at the sensor, and the mutex held throughout.*)
InitClose ==
    /\ mpc = "init_close" /\ LockMutex
    /\ IF current_state = "GATE_CLOSED"
         THEN mpc' = "tell_closed" /\ UNCHANGED <<gate_mutex, swept>>
         ELSE mpc' = "init_lower" /\ gate_mutex' = "main" /\ swept' = TRUE
    /\ UNCHANGED <<state, switch_close_flag, current_state, arm, steps, sw_steps, s, dist,
                   spc, mqtt, told, running>>

InitLowerBatch ==
    /\ MainMaySleep
    /\ mpc = "init_lower" /\ steps < Batches
    /\ steps' = steps + 1 /\ arm' = arm - 1
    /\ UNCHANGED <<state, switch_close_flag, current_state, gate_mutex, sw_steps, mpc, s,
                   dist, spc, mqtt, told, running, swept>>

InitLowered ==
    /\ mpc = "init_lower" /\ steps = Batches
    /\ steps' = 0
    /\ current_state' = "GATE_CLOSED" /\ gate_mutex' = "free"
    /\ mpc' = "tell_closed"
    /\ UNCHANGED <<state, switch_close_flag, arm, sw_steps, s, dist, spc, mqtt, told,
                   running, swept>>

-----------------------------------------------------------------------------
(* One round of the loop.                                                  *)

(* The distance is measured before the state is read.                      *)
Measure ==
    /\ MainMaySleep
    /\ mpc = "measure" /\ running
    /\ dist' \in Readings
    /\ s' = sys_state
    /\ mpc' = "decide"
    /\ UNCHANGED <<state, switch_close_flag, motor, steps, sw_steps, spc, mqtt, told,
                   running, swept>>

(* The state machine acts on the state it read, not on the one there is.   *)
MoveTo(next) == sys_state' = next /\ stateAge' = 0

Idle ==
    /\ s = "IDLE"
    /\ IF dist = "near"
         THEN MoveTo("ENTRY_DETECTED") /\ mpc' = "entry_open"
         ELSE mpc' = "measure" /\ UNCHANGED state
    /\ UNCHANGED switch_close_flag

(* A measurement that failed counts as a car that has left.                *)
Detected(detected, waiting) ==
    /\ s = detected
    /\ IF dist # "near" THEN MoveTo(waiting) ELSE UNCHANGED state
    /\ mpc' = "measure"
    /\ UNCHANGED switch_close_flag

(* The presses met since the gate opened are forgotten as it closes.       *)
CloseAfter(delay) ==
    IF stateAge >= delay
      THEN switch_close_flag' = FALSE /\ mpc' = "close"
      ELSE mpc' = "measure" /\ UNCHANGED switch_close_flag

Waiting(waiting, detected) ==
    /\ s = waiting
    /\ IF dist = "near"
         THEN MoveTo(detected) /\ mpc' = "measure" /\ UNCHANGED switch_close_flag
         ELSE CloseAfter(EntryCloseDelay) /\ UNCHANGED state

(* Mutant: only a car that was seen leaving closes the gate again.         *)
ExitRequestedHolds ==
    /\ s = "EXIT_REQUESTED"
    /\ IF dist = "near" THEN sys_state' = "EXIT_VEHICLE_DETECTED" ELSE UNCHANGED sys_state
    /\ mpc' = "measure"
    /\ UNCHANGED <<stateAge, switch_close_flag>>

ExitRequested ==
    /\ s = "EXIT_REQUESTED"
    /\ IF dist = "near"
         THEN /\ sys_state' = "EXIT_VEHICLE_DETECTED"
              /\ mpc' = "measure" /\ UNCHANGED switch_close_flag
         ELSE CloseAfter(ExitTimeout) /\ UNCHANGED sys_state
    /\ UNCHANGED stateAge

Decide ==
    /\ mpc = "decide"
    /\ \/ Idle
       \/ Detected("ENTRY_DETECTED", "ENTRY_WAITING")
       \/ Waiting("ENTRY_WAITING", "ENTRY_DETECTED")
       \/ ExitRequested
       \/ Detected("EXIT_VEHICLE_DETECTED", "EXIT_VEHICLE_WAITING")
       \/ Waiting("EXIT_VEHICLE_WAITING", "EXIT_VEHICLE_DETECTED")
    /\ UNCHANGED <<motor, steps, sw_steps, s, dist, spc, mqtt, told, running, swept>>

(* gate_open() of an entry.                                                *)
EntryOpen ==
    /\ mpc = "entry_open" /\ LockMutex
    /\ IF NeedsStroke
         THEN gate_mutex' = "main" /\ mpc' = "raise"
         ELSE mpc' = "tell_open" /\ UNCHANGED gate_mutex
    /\ UNCHANGED <<state, switch_close_flag, current_state, arm, steps, sw_steps, s, dist,
                   spc, mqtt, told, running, swept>>

RaiseBatch ==
    /\ MainMaySleep
    /\ mpc = "raise" /\ steps < Batches
    /\ steps' = steps + 1 /\ arm' = arm + 1
    /\ UNCHANGED <<state, switch_close_flag, current_state, gate_mutex, sw_steps, mpc, s,
                   dist, spc, mqtt, told, running, swept>>

Raised ==
    /\ mpc = "raise" /\ steps = Batches
    /\ steps' = 0
    /\ current_state' = "GATE_OPEN" /\ gate_mutex' = "free"
    /\ mpc' = "tell_open"
    /\ UNCHANGED <<state, switch_close_flag, arm, sw_steps, s, dist, spc, mqtt, told,
                   running, swept>>

(* gate_close_interruptible(): the mutex is free again before the motor    *)
(* turns; a gate that is closed already counts as closed now.              *)
Close ==
    /\ mpc = "close" /\ LockMutex
    /\ mpc' = IF current_state = "GATE_CLOSED" THEN "closed" ELSE "lower"
    /\ UNCHANGED <<state, switch_close_flag, motor, steps, sw_steps, s, dist, spc, mqtt,
                   told, running, swept>>

LowerBatch ==
    /\ MainMaySleep
    /\ mpc = "lower" /\ steps < Batches
    /\ steps' = steps + 1 /\ arm' = arm - 1
    /\ mpc' = IF steps' < Batches THEN "check" ELSE "lower"
    /\ UNCHANGED <<state, switch_close_flag, current_state, gate_mutex, sw_steps, s, dist,
                   spc, mqtt, told, running, swept>>

(* close_vehicle_check(): a car first; the flag is fetched only without one*)
Check ==
    /\ MainMaySleep
    /\ mpc = "check"
    /\ \E reading \in Readings :
         LET near == reading = "near"
         IN  /\ dist' = reading
             /\ switch_close_flag' = (switch_close_flag /\ near)
             /\ mpc' = IF near \/ switch_close_flag THEN "rewind" ELSE "lower"
    /\ UNCHANGED <<state, motor, steps, sw_steps, s, spc, mqtt, told, running, swept>>

(* Mutant: the way back goes up by two batches for each one down.          *)
RewindTooFar == arm' = arm + 2

RewindOne == arm' = arm + 1

RewindBatch ==
    /\ MainMaySleep
    /\ mpc = "rewind" /\ steps > 0
    /\ steps' = steps - 1 /\ RewindOne
    /\ UNCHANGED <<state, switch_close_flag, current_state, gate_mutex, sw_steps, mpc, s,
                   dist, spc, mqtt, told, running, swept>>

Rewound ==
    /\ mpc = "rewind" /\ steps = 0
    /\ mpc' = "aborted"
    /\ UNCHANGED <<state, switch_close_flag, motor, steps, sw_steps, s, dist, spc, mqtt,
                   told, running, swept>>

Lowered ==
    /\ mpc = "lower" /\ steps = Batches /\ LockMutex
    /\ steps' = 0
    /\ current_state' = "GATE_CLOSED"
    /\ mpc' = "closed"
    /\ UNCHANGED <<state, switch_close_flag, gate_mutex, arm, sw_steps, s, dist, spc, mqtt,
                   told, running, swept>>

(* Mutant: an aborted close ends the trip as a complete one does.          *)
BackToIdle == "IDLE"

BackTo ==
    CASE s = "ENTRY_WAITING" -> "ENTRY_DETECTED"
      [] s = "EXIT_VEHICLE_WAITING" -> "EXIT_VEHICLE_DETECTED"
      [] OTHER -> "EXIT_REQUESTED"

(* The result -1: back to a state in which the gate is open.               *)
Aborted ==
    /\ mpc = "aborted"
    /\ MoveTo(BackTo)
    /\ mpc' = "tell_open"
    /\ UNCHANGED <<switch_close_flag, motor, steps, sw_steps, s, dist, spc, mqtt, told,
                   running, swept>>

(* The result 0, a moment after current_state has become GATE_CLOSED.      *)
Closed ==
    /\ mpc = "closed"
    /\ sys_state' = "IDLE"
    /\ swept' = FALSE
    /\ mpc' = "tell_closed"
    /\ UNCHANGED <<stateAge, switch_close_flag, motor, steps, sw_steps, s, dist, spc, mqtt,
                   told, running>>

(* Mutant: the main thread says OPEN only.                                 *)
TellOpenOnly ==
    /\ mpc \in {"tell_open", "tell_closed"}
    /\ IF mpc = "tell_open" THEN Publish("OPEN") ELSE UNCHANGED told
    /\ mpc' = "measure"
    /\ UNCHANGED <<state, switch_close_flag, motor, steps, sw_steps, s, dist, spc, mqtt,
                   running, swept>>

Tell ==
    /\ mpc \in {"tell_open", "tell_closed"}
    /\ Publish(IF mpc = "tell_open" THEN "OPEN" ELSE "CLOSED")
    /\ mpc' = "measure"
    /\ UNCHANGED <<state, switch_close_flag, motor, steps, sw_steps, s, dist, spc, mqtt,
                   running, swept>>

(* gate_controller_cleanup() comes before the switch thread is stopped.    *)
CleanUp ==
    /\ mpc = "measure" /\ ~running
    /\ mpc' = "done"
    /\ UNCHANGED <<state, switch_close_flag, motor, steps, sw_steps, s, dist, spc, mqtt,
                   told, running, swept>>

MainThread ==
    \/ Connect \/ InitClose \/ InitLowerBatch \/ InitLowered
    \/ Measure \/ Decide \/ EntryOpen \/ RaiseBatch \/ Raised
    \/ Close \/ LowerBatch \/ Check \/ RewindBatch \/ Rewound \/ Lowered
    \/ Aborted \/ Closed \/ Tell \/ CleanUp

-----------------------------------------------------------------------------
(* What runs beside the two threads.                                       *)

(* on_connect() and on_disconnect(): the library connects again by itself  *)
(* once its thread runs.                                                   *)
ConnectionChanges ==
    /\ looping
    /\ connected' = ~connected
    /\ UNCHANGED <<state, switch_close_flag, motor, steps, sw_steps, mpc, s, dist, spc,
                   looping, told, running, swept>>

(* shutdown_handler(). *)
Signal ==
    /\ running
    /\ running' = FALSE
    /\ UNCHANGED <<state, switch_close_flag, motor, steps, sw_steps, mpc, s, dist, spc, mqtt,
                   told, swept>>

Tick ==
    /\ stateAge' = IF stateAge < MaxAge THEN stateAge + 1 ELSE stateAge
    /\ UNCHANGED <<sys_state, switch_close_flag, motor, steps, sw_steps, mpc, s, dist, spc,
                   mqtt, told, running, swept>>

Next == MainThread \/ SwitchThread \/ Press \/ ConnectionChanges \/ Signal \/ Tick

Spec == Init /\ [][Next]_vars

(* Each thread gets its turn again and again while it has something to do; *)
(* a mutex is not handed past a thread that waits for it for ever.         *)
Fairness == SF_vars(MainThread) /\ SF_vars(SwitchThread) /\ WF_vars(Tick)

FairSpec == Spec /\ Fairness

-----------------------------------------------------------------------------
(* Properties.                                                             *)

(* Every variable has its type; nothing in the code clamps the arm.        *)
TypeOK ==
    /\ sys_state \in SystemState /\ stateAge \in Ages
    /\ switch_close_flag \in BOOLEAN
    /\ current_state \in GateState /\ gate_mutex \in {"free", "main", "switch"}
    /\ arm \in 0 .. Batches /\ steps \in 0 .. Batches /\ sw_steps \in 0 .. Batches
    /\ mpc \in MainPc /\ s \in SystemState /\ dist \in Readings
    /\ spc \in SwitchPc
    /\ looping \in BOOLEAN /\ connected \in BOOLEAN
    /\ word \in {"none", "OPEN", "CLOSED"} /\ missed \in BOOLEAN
    /\ running \in BOOLEAN /\ swept \in BOOLEAN

(* The two threads never turn the motor at the same time, although the one *)
(* that closes the gate does not hold gate_mutex while it does so.         *)
MainStrokes == mpc \in {"init_lower", "raise", "lower", "check", "rewind"}

OneStroke == ~(MainStrokes /\ spc = "raise")

(* At rest the state tells where the arm is: down in IDLE, up otherwise.   *)
(* The exception is a press during the start, whose gate main has closed   *)
(* again before its loop; it ends with the trip that press began.          *)
AtRest == mpc = "measure" /\ spc = "wait"

StateTellsGate ==
    AtRest /\ ~swept =>
        IF sys_state = "IDLE" THEN arm = 0 /\ current_state = "GATE_CLOSED"
                              ELSE arm = Batches /\ current_state = "GATE_OPEN"

(* Both threads publish the state of the gate without the mutex; still the *)
(* last word is the true one, unless the connection was down for it.       *)
WordTells ==
    AtRest /\ ~missed => word = IF current_state = "GATE_OPEN" THEN "OPEN" ELSE "CLOSED"

(* The arm as a Barrier: which stroke is running follows from both pcs.    *)
Course ==
    IF mpc \in {"raise", "rewind"} \/ spc = "raise" THEN "raising"
    ELSE IF mpc \in {"init_lower", "lower", "check"} THEN "lowering"
    ELSE IF current_state = "GATE_OPEN" THEN "open" ELSE "shut"

Arm == INSTANCE Barrier WITH Top <- Batches, height <- arm, course <- Course

(* Until main has given up the pins, every step of either thread moves the *)
(* arm as a barrier may be moved.                                          *)
ArmIsBarrier == Arm!Init /\ [][mpc = "done" \/ Arm!Next]_(Arm!vars)

(* Once no car is in sight and nobody presses, the gate comes down for     *)
(* good, whichever thread opened it and whatever flag was left behind.     *)
(* That is so with and without a connection, to which the loop of main()   *)
(* pays no attention; PLAN.md:116 would have it open the gate after ten    *)
(* seconds without one.                                                    *)
ClosesWhenClear ==
    <>[](dist # "near" /\ spc = "wait" /\ running) => <>[](sys_state = "IDLE" /\ arm = 0)

=============================================================================
