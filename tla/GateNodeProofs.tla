--------------------------- MODULE GateNodeProofs ---------------------------
(***************************************************************************)
(* Proofs about GateNode, for every number of batches and every delay.     *)
(***************************************************************************)
EXTENDS GateNode, TLAPS

(* The waiting states that end with the arm going down.                    *)
ClosingStates == {"ENTRY_WAITING", "EXIT_REQUESTED", "EXIT_VEHICLE_WAITING"}

(* Where the arm is, from where the thread is: the loop counter of a       *)
(* stroke and the position move together.                                  *)
StrokeInv ==
    /\ pc \in {"poll", "measure", "indicate", "stopped"} => steps = 0
    /\ pc = "exit_open" => current_state = "IDLE" /\ arm = steps
    /\ pc = "entry_open" => current_state = "ENTRY_DETECTED" /\ arm = steps
    /\ pc \in {"closing", "check", "reopening"} =>
          current_state \in ClosingStates /\ arm = Batches - steps
    /\ pc = "check" => 0 < steps /\ steps < Batches
    /\ pc = "reopening" => steps < Batches

(* A request left by the switch is gone once a check has let the arm pass. *)
ReopenInv ==
    /\ NoStaleReopen
    /\ pc = "closing" /\ steps > 0 => ~switch_reopen

(* A dark, silent gate between the indication of IDLE and the next trip.   *)
LampInv ==
    /\ LampTellsDirection
    /\ current_state = "IDLE" /\ pc # "indicate" => lamp = "off" /\ ~buzzer

(* Outside a stroke the timer that will end the state is no older than the *)
(* last sight of a car.                                                    *)
GraceInv ==
    pc \in {"poll", "measure", "indicate"} =>
        /\ current_state \in {"ENTRY_WAITING", "EXIT_VEHICLE_WAITING"} => nearAge >= vehicleAge
        /\ current_state = "EXIT_REQUESTED" => nearAge >= requestAge

IInv == TypeOK /\ StrokeInv /\ RestingArm /\ ReopenInv /\ LampInv /\ GraceInv

-----------------------------------------------------------------------------
(* The largest age is one of the two delays; both are ages.                *)
LEMMA MaxAgeType ==
    /\ MaxAge \in Nat
    /\ EntryCloseDelay <= MaxAge /\ ExitTimeout <= MaxAge
    /\ 0 \in Ages /\ MaxAge \in Ages
  BY GateConfig DEF MaxAge, Ages

(* Growing older keeps an age an age and keeps the order of two ages.      *)
LEMMA OlderType ==
    ASSUME NEW a \in Ages, NEW b \in Ages
    PROVE  /\ Older(a) \in Ages
           /\ a >= b => Older(a) >= Older(b)
  BY MaxAgeType DEF Older, Ages

(* The initial state has the invariant.                                    *)
LEMMA InitInv == Init => IInv
  <1> SUFFICES ASSUME Init PROVE IInv
    OBVIOUS
  <1> USE GateConfig, MaxAgeType DEF Init
  <1>1. TypeOK
    <2>1. /\ current_state \in SystemState /\ pc \in Pc /\ distance_cm \in Readings
          /\ arm \in 0 .. Batches /\ steps \in 0 .. Batches
          /\ vehicleAge \in Ages /\ requestAge \in Ages /\ nearAge \in Ages
          /\ lamp \in {"off", "entry", "exit"}
      BY DEF SystemState, Pc, Readings
    <2>2. /\ energised \in BOOLEAN /\ switch_pressed \in BOOLEAN /\ switch_reopen \in BOOLEAN
          /\ bouncing \in BOOLEAN /\ buzzer \in BOOLEAN /\ should_stop \in BOOLEAN
      OBVIOUS
    <2> QED
      BY <2>1, <2>2 DEF TypeOK
  <1>2. StrokeInv /\ RestingArm
    BY DEF StrokeInv, RestingArm
  <1>3. ReopenInv /\ LampInv /\ GraceInv
    BY DEF ReopenInv, NoStaleReopen, LampInv, LampTellsDirection, GraceInv, ExitStates,
           EntryStates
  <1> QED
    BY <1>1, <1>2, <1>3 DEF IInv

(* Every step moves the arm with the loop counter, and every stroke ends   *)
(* where the state says.                                                   *)
LEMMA StrokeStep == TypeOK /\ StrokeInv /\ RestingArm /\ [Next]_vars => (StrokeInv /\ RestingArm)'
  <1> SUFFICES ASSUME TypeOK /\ StrokeInv /\ RestingArm, [Next]_vars PROVE (StrokeInv /\ RestingArm)'
    OBVIOUS
  <1> USE GateConfig DEF TypeOK, StrokeInv, RestingArm, ClosingStates, Moving,
          SystemState, EntryStates, ExitStates, Pc, motor, clock, button,
          signals
  <1>1. CASE PollSwitch
    BY <1>1 DEF PollSwitch, ShouldStop, OpensOnPress, RequestsReopen
  <1>2. CASE Measure
    BY <1>2 DEF Measure, MeasureCm, Idle, EntryDetected, Waiting,
       ExitRequested, ExitVehicleDetected
  <1>3. CASE ExitOpenBatch
    BY <1>3 DEF ExitOpenBatch, RaiseBatch
  <1>4. CASE ExitOpened
    BY <1>4 DEF ExitOpened
  <1>5. CASE EntryOpenBatch
    BY <1>5 DEF EntryOpenBatch, RaiseBatch
  <1>6. CASE EntryOpened
    BY <1>6 DEF EntryOpened
  <1>7. CASE CloseBatch
    BY <1>7 DEF CloseBatch, LowerBatch, CheckAfter
  <1>8. CASE CheckObstacle
    BY <1>8 DEF CheckObstacle, MeasureCm, Abort, ReopenLeft
  <1>9. CASE ReopenBatch
    BY <1>9 DEF ReopenBatch, RewindBatch
  <1>10. CASE Reopened
    BY <1>10 DEF Reopened, RestartRequestTime
  <1>11. CASE Closed
    BY <1>11 DEF Closed
  <1>12. CASE StopThread \/ Indicate \/ SwitchIrq \/ DebounceExpires \/
           KthreadStop \/ Tick
    BY <1>12 DEF StopThread, Indicate, SwitchIrq, DebounceExpires, KthreadStop,
       Tick, ShouldStop, LampFor
  <1>13. CASE UNCHANGED vars
    BY <1>13 DEF vars
  <1> QED
    BY <1>1, <1>2, <1>3, <1>4, <1>5, <1>6, <1>7, <1>8, <1>9, <1>10, <1>11,
       <1>12, <1>13 DEF Next, Thread

(* A request is made only outside IDLE, and the first check of a stroke    *)
(* down fetches it.                                                        *)
LEMMA ReopenStep == TypeOK /\ StrokeInv /\ ReopenInv /\ [Next]_vars => ReopenInv'
  <1> SUFFICES ASSUME TypeOK /\ StrokeInv /\ ReopenInv, [Next]_vars PROVE ReopenInv'
    OBVIOUS
  <1> USE GateConfig DEF TypeOK, StrokeInv, ReopenInv, NoStaleReopen,
          ClosingStates, motor, clock, button, signals
  <1>1. CASE PollSwitch
    BY <1>1 DEF PollSwitch, ShouldStop, OpensOnPress, RequestsReopen
  <1>2. CASE Measure
    BY <1>2 DEF Measure, MeasureCm, Idle, EntryDetected, Waiting,
       ExitRequested, ExitVehicleDetected
  <1>3. CASE ExitOpened
    BY <1>3 DEF ExitOpened
  <1>4. CASE CloseBatch
    BY <1>4 DEF CloseBatch, LowerBatch, CheckAfter
  <1>5. CASE CheckObstacle
    BY <1>5 DEF CheckObstacle, MeasureCm, Abort, ReopenLeft
  <1>6. CASE Reopened
    BY <1>6 DEF Reopened, RestartRequestTime
  <1>7. CASE Closed
    BY <1>7 DEF Closed
  <1>8. CASE StopThread \/ Indicate \/ ExitOpenBatch \/ EntryOpenBatch \/
           EntryOpened \/ ReopenBatch \/ SwitchIrq \/ DebounceExpires \/
           KthreadStop \/ Tick
    BY <1>8 DEF StopThread, Indicate, ExitOpenBatch, EntryOpenBatch,
       EntryOpened, ReopenBatch, SwitchIrq, DebounceExpires, KthreadStop, Tick,
       ShouldStop, LampFor, RaiseBatch, RewindBatch
  <1>9. CASE UNCHANGED vars
    BY <1>9 DEF vars
  <1> QED
    BY <1>1, <1>2, <1>3, <1>4, <1>5, <1>6, <1>7, <1>8, <1>9 DEF Next, Thread

(* The LEDs are set for the state they are shown in, and cleared in IDLE   *)
(* before the gate can be used the other way.                              *)
LEMMA LampStep == TypeOK /\ StrokeInv /\ LampInv /\ [Next]_vars => LampInv'
  <1> SUFFICES ASSUME TypeOK /\ StrokeInv /\ LampInv, [Next]_vars PROVE LampInv'
    OBVIOUS
  <1> USE DEF TypeOK, StrokeInv, LampInv, LampTellsDirection, ClosingStates,
          SystemState, EntryStates, ExitStates, motor, clock, button, signals
  <1>1. CASE StopThread
    BY <1>1 DEF StopThread, ShouldStop
  <1>2. CASE PollSwitch
    BY <1>2 DEF PollSwitch, ShouldStop, OpensOnPress, RequestsReopen
  <1>3. CASE Measure
    BY <1>3 DEF Measure, MeasureCm, Idle, EntryDetected, Waiting,
       ExitRequested, ExitVehicleDetected
  <1>4. CASE Indicate
    BY <1>4 DEF Indicate, LampFor
  <1>5. CASE ExitOpened
    BY <1>5 DEF ExitOpened
  <1>6. CASE CheckObstacle
    BY <1>6 DEF CheckObstacle, MeasureCm, Abort, ReopenLeft
  <1>7. CASE Reopened
    BY <1>7 DEF Reopened, RestartRequestTime
  <1>8. CASE Closed
    BY <1>8 DEF Closed
  <1>9. CASE ExitOpenBatch \/ EntryOpenBatch \/ EntryOpened \/ CloseBatch \/
           ReopenBatch \/ SwitchIrq \/ DebounceExpires \/ KthreadStop \/ Tick
    BY <1>9 DEF ExitOpenBatch, EntryOpenBatch, EntryOpened, CloseBatch,
       ReopenBatch, SwitchIrq, DebounceExpires, KthreadStop, Tick, RaiseBatch,
       LowerBatch, CheckAfter, RewindBatch
  <1>10. CASE UNCHANGED vars
    BY <1>10 DEF vars
  <1> QED
    BY <1>1, <1>2, <1>3, <1>4, <1>5, <1>6, <1>7, <1>8, <1>9, <1>10 DEF Next,
       Thread

(* A timer that ends a state is restarted with or after every sight of a   *)
(* car.                                                                    *)
LEMMA GraceStep == TypeOK /\ StrokeInv /\ GraceInv /\ [Next]_vars => GraceInv'
  <1> SUFFICES ASSUME TypeOK /\ StrokeInv /\ GraceInv, [Next]_vars PROVE GraceInv'
    OBVIOUS
  <1> USE MaxAgeType, OlderType DEF TypeOK, StrokeInv, GraceInv, ClosingStates,
          Ages, motor, clock, button, signals
  <1>1. CASE Measure
    BY <1>1 DEF Measure, MeasureCm, Idle, EntryDetected, Waiting,
       ExitRequested, ExitVehicleDetected
  <1>2. CASE ExitOpened
    BY <1>2 DEF ExitOpened
  <1>3. CASE CheckObstacle
    BY <1>3 DEF CheckObstacle, MeasureCm, Abort, ReopenLeft
  <1>4. CASE Reopened
    BY <1>4 DEF Reopened, RestartRequestTime
  <1>5. CASE Closed
    BY <1>5 DEF Closed
  <1>6. CASE Tick
    BY <1>6 DEF Tick
  <1>7. CASE StopThread \/ PollSwitch \/ Indicate \/ ExitOpenBatch \/
           EntryOpenBatch \/ EntryOpened \/ CloseBatch \/ ReopenBatch \/
           SwitchIrq \/ DebounceExpires \/ KthreadStop
    BY <1>7 DEF StopThread, PollSwitch, Indicate, ExitOpenBatch,
       EntryOpenBatch, EntryOpened, CloseBatch, ReopenBatch, SwitchIrq,
       DebounceExpires, KthreadStop, ShouldStop, OpensOnPress, RequestsReopen,
       LampFor, RaiseBatch, LowerBatch, CheckAfter, RewindBatch
  <1>8. CASE UNCHANGED vars
    BY <1>8 DEF vars
  <1> QED
    BY <1>1, <1>2, <1>3, <1>4, <1>5, <1>6, <1>7, <1>8 DEF Next, Thread

(* The two halves of TypeOK: flags, and everything else.                   *)
FlagsOK ==
    /\ energised \in BOOLEAN /\ switch_pressed \in BOOLEAN /\ switch_reopen \in BOOLEAN
    /\ bouncing \in BOOLEAN /\ buzzer \in BOOLEAN /\ should_stop \in BOOLEAN

ValuesOK ==
    /\ current_state \in SystemState /\ pc \in Pc /\ distance_cm \in Readings
    /\ arm \in 0 .. Batches /\ steps \in 0 .. Batches
    /\ vehicleAge \in Ages /\ requestAge \in Ages /\ nearAge \in Ages
    /\ lamp \in {"off", "entry", "exit"}

(* The states, positions and ages keep their ranges: the arm stays in its  *)
(* own because of StrokeInv.                                               *)
LEMMA ValuesStep == ValuesOK /\ StrokeInv /\ RestingArm /\ [Next]_vars => ValuesOK'
  <1> SUFFICES ASSUME ValuesOK /\ StrokeInv /\ RestingArm, [Next]_vars PROVE ValuesOK'
    OBVIOUS
  <1> USE GateConfig, MaxAgeType, OlderType DEF ValuesOK, StrokeInv,
          ClosingStates, Readings, Pc, SystemState, EntryStates, ExitStates,
          motor, clock, button, signals
  <1>1. CASE PollSwitch
    BY <1>1 DEF PollSwitch, ShouldStop, OpensOnPress, RequestsReopen
  <1>2. CASE Measure
    BY <1>2 DEF Measure, MeasureCm, Idle, EntryDetected, Waiting,
       ExitRequested, ExitVehicleDetected
  <1>3. CASE Indicate
    BY <1>3 DEF Indicate, LampFor
  <1>4. CASE ExitOpenBatch
    BY <1>4 DEF ExitOpenBatch, RaiseBatch
  <1>5. CASE ExitOpened
    BY <1>5 DEF ExitOpened
  <1>6. CASE EntryOpenBatch
    BY <1>6 DEF EntryOpenBatch, RaiseBatch
  <1>7. CASE CloseBatch
    BY <1>7 DEF CloseBatch, LowerBatch, CheckAfter
  <1>8. CASE CheckObstacle
    BY <1>8 DEF CheckObstacle, MeasureCm, Abort, ReopenLeft
  <1>9. CASE ReopenBatch
    BY <1>9 DEF ReopenBatch, RewindBatch
  <1>10. CASE Reopened
    BY <1>10 DEF Reopened, RestartRequestTime
  <1>11. CASE Closed
    BY <1>11 DEF Closed
  <1>12. CASE Tick
    BY <1>12 DEF Tick
  <1>13. CASE StopThread \/ EntryOpened \/ SwitchIrq \/ DebounceExpires \/
           KthreadStop
    BY <1>13 DEF StopThread, EntryOpened, SwitchIrq, DebounceExpires,
       KthreadStop, ShouldStop
  <1>14. CASE UNCHANGED vars
    BY <1>14 DEF vars
  <1> QED
    BY <1>1, <1>2, <1>3, <1>4, <1>5, <1>6, <1>7, <1>8, <1>9, <1>10, <1>11,
       <1>12, <1>13, <1>14 DEF Next, Thread

(* The flags stay Boolean.                                                 *)
LEMMA FlagsStep == FlagsOK /\ [Next]_vars => FlagsOK'
  <1> SUFFICES ASSUME FlagsOK, [Next]_vars PROVE FlagsOK'
    OBVIOUS
  <1> USE DEF FlagsOK, motor, clock, button, signals
  <1>1. CASE StopThread
    BY <1>1 DEF StopThread, ShouldStop
  <1>2. CASE PollSwitch
    BY <1>2 DEF PollSwitch, ShouldStop, OpensOnPress, RequestsReopen
  <1>3. CASE Measure
    BY <1>3 DEF Measure, MeasureCm, Idle, EntryDetected, Waiting,
       ExitRequested, ExitVehicleDetected
  <1>4. CASE Indicate
    BY <1>4 DEF Indicate, LampFor
  <1>5. CASE ExitOpenBatch
    BY <1>5 DEF ExitOpenBatch, RaiseBatch
  <1>6. CASE ExitOpened
    BY <1>6 DEF ExitOpened
  <1>7. CASE EntryOpenBatch
    BY <1>7 DEF EntryOpenBatch, RaiseBatch
  <1>8. CASE EntryOpened
    BY <1>8 DEF EntryOpened
  <1>9. CASE CloseBatch
    BY <1>9 DEF CloseBatch, LowerBatch, CheckAfter
  <1>10. CASE CheckObstacle
    BY <1>10 DEF CheckObstacle, MeasureCm, Abort, ReopenLeft
  <1>11. CASE ReopenBatch
    BY <1>11 DEF ReopenBatch, RewindBatch
  <1>12. CASE Reopened
    BY <1>12 DEF Reopened, RestartRequestTime
  <1>13. CASE Closed
    BY <1>13 DEF Closed
  <1>14. CASE SwitchIrq
    BY <1>14 DEF SwitchIrq
  <1>15. CASE DebounceExpires
    BY <1>15 DEF DebounceExpires
  <1>16. CASE KthreadStop
    BY <1>16 DEF KthreadStop
  <1>17. CASE Tick
    BY <1>17 DEF Tick
  <1>18. CASE UNCHANGED vars
    BY <1>18 DEF vars
  <1> QED
    BY <1>1, <1>2, <1>3, <1>4, <1>5, <1>6, <1>7, <1>8, <1>9, <1>10, <1>11,
       <1>12, <1>13, <1>14, <1>15, <1>16, <1>17, <1>18 DEF Next, Thread

(* Every step keeps the invariant.                                         *)
LEMMA StepInv == IInv /\ [Next]_vars => IInv'
  BY StrokeStep, ReopenStep, LampStep, GraceStep, ValuesStep, FlagsStep
  DEF IInv, TypeOK, ValuesOK, FlagsOK

-----------------------------------------------------------------------------
(* Whatever the cars, the driver and the scheduler do, the thread, the     *)
(* arm, the requests, the LEDs and the timers agree.                       *)
THEOREM Invariance == Spec => []IInv
  BY InitInv, StepInv, PTL DEF Spec

(* Every variable keeps its type; the arm is never driven past an end.     *)
THEOREM TypeCorrect == Spec => []TypeOK
  BY Invariance, PTL DEF IInv

(* Between strokes the state says where the arm is, in the code's open     *)
(* loop control of a motor without limit switches.                         *)
THEOREM ArmRestsWhereStateSays == Spec => []RestingArm
  BY Invariance, PTL DEF IInv

(* No reopen request is left over from an earlier trip.                    *)
THEOREM RequestsEndWithTrip == Spec => []NoStaleReopen
  <1>1. IInv => NoStaleReopen
    BY DEF IInv, ReopenInv
  <1> QED
    BY <1>1, Invariance, PTL

(* The LEDs never show the wrong way, and a closed gate is dark and silent.*)
THEOREM LampsAgree == Spec => []LampTellsDirection
  <1>1. IInv => LampTellsDirection
    BY DEF IInv, LampInv
  <1> QED
    BY <1>1, Invariance, PTL

(* The arm starts down only after a full delay without a car in sight.     *)
THEOREM GraceKept == Spec => VehicleGrace
  <1> DEFINE Grace ==
        (pc = "measure" /\ pc' = "closing") =>
           nearAge >= IF current_state = "EXIT_REQUESTED" THEN ExitTimeout
                                                          ELSE EntryCloseDelay
  <1>1. IInv /\ [Next]_vars => [Grace]_vars
    <2> SUFFICES ASSUME IInv, Next, pc = "measure", pc' = "closing"
                 PROVE  nearAge >= IF current_state = "EXIT_REQUESTED" THEN ExitTimeout
                                                                       ELSE EntryCloseDelay
      OBVIOUS
    <2> USE GateConfig, MaxAgeType
    <2>1. Measure
      BY DEF Next, Thread, StopThread, PollSwitch, Indicate, ExitOpenBatch, ExitOpened,
             EntryOpenBatch, EntryOpened, CloseBatch, CheckObstacle, ReopenBatch, Reopened,
             Closed, SwitchIrq, DebounceExpires, KthreadStop, Tick
    <2>2. PICK reading \in Readings :
            \/ Waiting("ENTRY_WAITING", "ENTRY_DETECTED", reading)
            \/ Waiting("EXIT_VEHICLE_WAITING", "EXIT_VEHICLE_DETECTED", reading)
            \/ ExitRequested(reading)
      BY <2>1 DEF Measure, Idle, EntryDetected, ExitVehicleDetected
    <2>3. CASE current_state = "EXIT_REQUESTED"
      BY <2>2, <2>3 DEF Waiting, ExitRequested, IInv, GraceInv, TypeOK, Ages
    <2>4. CASE current_state # "EXIT_REQUESTED"
      BY <2>2, <2>4 DEF Waiting, ExitRequested, IInv, GraceInv, TypeOK, Ages
    <2> QED
      BY <2>3, <2>4
  <1> QED
    BY <1>1, Invariance, PTL DEF Spec, VehicleGrace

-----------------------------------------------------------------------------
(* The gate is a Barrier.                                                  *)

(* A step of the gate is a step of the Barrier or leaves arm and course    *)
(* alone: one step per action, a stroke's first and last named apart.      *)
LEMMA BarrierStep == IInv /\ [Next]_vars => [Arm!Next]_(Arm!vars)
  <1> SUFFICES ASSUME IInv, [Next]_vars PROVE [Arm!Next]_(Arm!vars)
    OBVIOUS
  <1> USE GateConfig
  <1> USE DEF IInv, TypeOK, StrokeInv, RestingArm, ClosingStates, Moving, SystemState,
              EntryStates, ExitStates, Pc, Course, motor, clock, button, signals,
              Arm!vars, Arm!Next, Arm!Upwards, Arm!Downwards
  <1>1. CASE StopThread \/ Indicate \/ SwitchIrq \/ DebounceExpires \/ KthreadStop \/ Tick
    <2>1. UNCHANGED <<arm, Course>>
      BY <1>1 DEF StopThread, Indicate, SwitchIrq, DebounceExpires, KthreadStop, Tick
    <2> QED
      BY <2>1
  <1>2. CASE PollSwitch
    <2>1. CASE switch_pressed /\ OpensOnPress
      <3>1. current_state = "IDLE" /\ pc = "poll" /\ pc' = "exit_open" /\ UNCHANGED arm
        BY <1>2, <2>1, Zenon DEF PollSwitch, OpensOnPress
      <3>2. Arm!LeaveShut
        BY <3>1 DEF Arm!LeaveShut
      <3> QED
        BY <3>2
    <2>2. CASE ~(switch_pressed /\ OpensOnPress)
      <3>1. UNCHANGED <<arm, Course>>
        BY <1>2, <2>2 DEF PollSwitch
      <3> QED
        BY <3>1
    <2> QED
      BY <2>1, <2>2
  <1>3. CASE Measure
    <2>1. CASE pc' = "entry_open"
      <3>1. Arm!LeaveShut
        BY <1>3, <2>1 DEF Measure, Idle, EntryDetected, Waiting, ExitRequested,
           ExitVehicleDetected, Arm!LeaveShut
      <3> QED
        BY <3>1
    <2>2. CASE pc' = "closing"
      <3>1. Arm!LeaveOpen
        BY <1>3, <2>2 DEF Measure, Idle, EntryDetected, Waiting, ExitRequested,
           ExitVehicleDetected, Arm!LeaveOpen
      <3> QED
        BY <3>1
    <2>3. CASE pc' = "indicate"
      <3>1. UNCHANGED <<arm, Course>>
        BY <1>3, <2>3 DEF Measure, Idle, EntryDetected, Waiting, ExitRequested,
           ExitVehicleDetected
      <3> QED
        BY <3>1
    <2> QED
      BY <1>3, <2>1, <2>2, <2>3 DEF Measure, Idle, EntryDetected, Waiting, ExitRequested,
         ExitVehicleDetected
  <1>4. CASE ExitOpenBatch \/ EntryOpenBatch \/ ReopenBatch
    <2>1. Arm!Raise
      <3>1. CASE ExitOpenBatch
        BY <3>1 DEF ExitOpenBatch, RaiseBatch, Arm!Raise
      <3>2. CASE EntryOpenBatch
        BY <3>2 DEF EntryOpenBatch, RaiseBatch, Arm!Raise
      <3>3. CASE ReopenBatch
        BY <3>3 DEF ReopenBatch, RewindBatch, Arm!Raise
      <3> QED
        BY <1>4, <3>1, <3>2, <3>3
    <2> QED
      BY <2>1
  <1>5. CASE ExitOpened \/ EntryOpened \/ Reopened
    <2>1. Arm!ReachOpen
      <3>1. CASE ExitOpened
        BY <3>1 DEF ExitOpened, Arm!ReachOpen
      <3>2. CASE EntryOpened
        BY <3>2 DEF EntryOpened, Arm!ReachOpen
      <3>3. CASE Reopened
        BY <3>3 DEF Reopened, Arm!ReachOpen
      <3> QED
        BY <1>5, <3>1, <3>2, <3>3
    <2> QED
      BY <2>1
  <1>6. CASE CloseBatch
    <2>1. Arm!Lower
      BY <1>6 DEF CloseBatch, LowerBatch, CheckAfter, Arm!Lower
    <2> QED
      BY <2>1
  <1>7. CASE CheckObstacle
    <2>1. CASE pc' = "reopening"
      <3>1. Arm!TurnBack
        BY <1>7, <2>1 DEF CheckObstacle, Arm!TurnBack
      <3> QED
        BY <3>1
    <2>2. CASE pc' = "closing"
      <3>1. UNCHANGED <<arm, Course>>
        BY <1>7, <2>2 DEF CheckObstacle
      <3> QED
        BY <3>1
    <2> QED
      BY <1>7, <2>1, <2>2 DEF CheckObstacle
  <1>8. CASE Closed
    <2>1. Arm!ReachShut
      BY <1>8 DEF Closed, Arm!ReachShut
    <2> QED
      BY <2>1
  <1>9. CASE UNCHANGED vars
    BY <1>9 DEF vars
  <1> QED
    BY <1>1, <1>2, <1>3, <1>4, <1>5, <1>6, <1>7, <1>8, <1>9 DEF Next, Thread

(* Every behaviour of the gate is one of the Barrier: the arm rests only   *)
(* shut or open and a stroke down is only given up to go fully up again.   *)
THEOREM GateIsBarrier == Spec => Arm!SafeSpec
  <1>1. Init => Arm!Init
    BY DEF Init, Arm!Init, Course
  <1> QED
    BY <1>1, BarrierStep, Invariance, PTL DEF Spec, Arm!SafeSpec

-----------------------------------------------------------------------------
(* The reported state.                                                     *)

(* A step of the gate moves the reported state along an arrow of           *)
(* GateStates, or leaves it alone.                                         *)
LEMMA ReportStep == IInv /\ [Next]_vars => [Report!Next]_current_state
  <1> SUFFICES ASSUME IInv, [Next]_vars,
                      current_state' # current_state
               PROVE  Report!Next
    OBVIOUS
  <1> USE DEF Report!Next, Report!States, Report!Moves
  <1>1. CASE ExitOpened
    BY <1>1 DEF ExitOpened, IInv, StrokeInv
  <1>2. CASE Measure
    BY <1>2 DEF Measure, Idle, EntryDetected, Waiting, ExitRequested, ExitVehicleDetected
  <1>3. CASE Reopened
    BY <1>3 DEF Reopened, IInv, StrokeInv, ClosingStates
  <1>4. CASE Closed
    BY <1>4 DEF Closed, IInv, StrokeInv, ClosingStates
  <1>5. CASE \/ StopThread \/ PollSwitch \/ Indicate \/ ExitOpenBatch \/ EntryOpenBatch
             \/ EntryOpened \/ CloseBatch \/ CheckObstacle \/ ReopenBatch
    BY <1>5 DEF StopThread, PollSwitch, Indicate, ExitOpenBatch, EntryOpenBatch, EntryOpened,
       CloseBatch, CheckObstacle, ReopenBatch
  <1>6. CASE SwitchIrq \/ DebounceExpires \/ KthreadStop \/ Tick \/ UNCHANGED vars
    BY <1>6 DEF SwitchIrq, DebounceExpires, KthreadStop, Tick, vars
  <1> QED
    BY <1>1, <1>2, <1>3, <1>4, <1>5, <1>6 DEF Next, Thread

(* The device file reports a state that moves only as GateStates allows,   *)
(* which is all that GateReport assumes of the gate.                       *)
THEOREM GateReportsStates == Spec => ReportsGateStates
  <1>1. Init => Report!Init
    BY DEF Init, Report!Init
  <1> QED
    BY <1>1, ReportStep, Invariance, PTL DEF Spec, ReportsGateStates, Report!Spec

=============================================================================
