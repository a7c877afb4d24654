-------------------------- MODULE LegacyGateProofs --------------------------
(***************************************************************************)
(* Proofs about LegacyGate, for every number of batches and every delay.   *)
(* Types, strokes and the Barrier do not need the assumption that threads  *)
(* are prompt; that state and published word tell the truth about the gate *)
(* does, and the last two theorems make it.                                *)
(***************************************************************************)
EXTENDS LegacyGate, TLAPS

(* gate_close_interruptible() turns the motor without the mutex.           *)
Unlocked == mpc \in {"lower", "check", "rewind"}

(* Who holds the mutex, and what the recorded state is while a stroke      *)
(* runs: it changes at the end of the stroke only.                         *)
LockInv ==
    /\ gate_mutex = "switch" <=> spc = "raise"
    /\ gate_mutex = "main" <=> mpc \in {"init_lower", "raise"}
    /\ spc = "raise" \/ mpc = "raise" => current_state = "GATE_CLOSED"
    /\ mpc = "init_lower" \/ Unlocked => current_state = "GATE_OPEN"

(* Where the arm is: the counter of the stroke that runs says it, and the  *)
(* recorded state when none does.                                          *)
Height ==
    IF mpc = "raise" THEN steps
    ELSE IF mpc = "init_lower" \/ Unlocked THEN Batches - steps
    ELSE IF spc = "raise" THEN sw_steps
    ELSE IF current_state = "GATE_OPEN" THEN Batches ELSE 0

(* Until main gives up the pins.                                           *)
HeightInv ==
    /\ mpc # "done" => arm = Height
    /\ ~MainStrokes => steps = 0
    /\ spc # "raise" => sw_steps = 0
    /\ mpc = "check" => 0 < steps /\ steps < Batches

IInv == TypeOK /\ LockInv /\ HeightInv

-----------------------------------------------------------------------------
(* The initial state has the invariant.                                    *)
LEMMA InitInv == Init => IInv
  <1> SUFFICES ASSUME Init PROVE IInv
    OBVIOUS
  <1> USE LegacyConfig DEF Init
  <1>1. MaxAge \in Ages
    BY DEF MaxAge, Ages
  <1>2. /\ sys_state \in SystemState /\ stateAge \in Ages
        /\ current_state \in GateState /\ gate_mutex \in {"free", "main", "switch"}
        /\ arm \in 0 .. Batches /\ steps \in 0 .. Batches /\ sw_steps \in 0 .. Batches
        /\ mpc \in MainPc /\ s \in SystemState /\ dist \in Readings /\ spc \in SwitchPc
        /\ word \in {"none", "OPEN", "CLOSED"}
    BY <1>1 DEF SystemState, GateState, MainPc, SwitchPc, Readings
  <1>3. /\ switch_close_flag \in BOOLEAN /\ looping \in BOOLEAN /\ connected \in BOOLEAN
        /\ missed \in BOOLEAN /\ running \in BOOLEAN /\ swept \in BOOLEAN
    OBVIOUS
  <1>4. TypeOK
    BY <1>2, <1>3 DEF TypeOK
  <1>5. LockInv /\ HeightInv
    BY DEF LockInv, HeightInv, Height, Unlocked, MainStrokes
  <1> QED
    BY <1>4, <1>5 DEF IInv

(* Every variable that does not move the arm keeps its type.               *)
PlainTypes ==
    /\ sys_state \in SystemState /\ stateAge \in Ages /\ s \in SystemState
    /\ dist \in Readings /\ word \in {"none", "OPEN", "CLOSED"}
    /\ switch_close_flag \in BOOLEAN /\ looping \in BOOLEAN /\ connected \in BOOLEAN
    /\ missed \in BOOLEAN /\ running \in BOOLEAN /\ swept \in BOOLEAN

(* What the two strokes share has its type.                                *)
StrokeTypes ==
    /\ current_state \in GateState /\ gate_mutex \in {"free", "main", "switch"}
    /\ arm \in 0 .. Batches /\ steps \in 0 .. Batches /\ sw_steps \in 0 .. Batches
    /\ mpc \in MainPc /\ spc \in SwitchPc

LEMMA TypesSplit == TypeOK <=> PlainTypes /\ StrokeTypes
  BY DEF TypeOK, PlainTypes, StrokeTypes

(* A publication leaves a gate word, and knows whether it was dropped.     *)
LEMMA PublishTypes ==
    ASSUME PlainTypes, NEW w \in {"OPEN", "CLOSED"}, Publish(w)
    PROVE  word' \in {"none", "OPEN", "CLOSED"} /\ missed' \in BOOLEAN
  <1>1. word' \in {"none", "OPEN", "CLOSED"}
    BY DEF Publish, PlainTypes
  <1>2. missed' \in BOOLEAN
    BY Zenon DEF Publish, PlainTypes
  <1> QED
    BY <1>1, <1>2

LEMMA PlainStep == TypeOK /\ [Next]_vars => PlainTypes'
  <1> SUFFICES ASSUME PlainTypes, [Next]_vars PROVE PlainTypes'
    BY TypesSplit
  <1>0. /\ 0 \in Ages
        /\ \A a \in Ages : (IF a < MaxAge THEN a + 1 ELSE a) \in Ages
    BY LegacyConfig DEF Ages, MaxAge
  <1>1. CASE FlagPress
    BY <1>1 DEF FlagPress, PlainTypes, state, told, mqtt
  <1>2. CASE RequestExit
    BY <1>0, <1>2 DEF RequestExit, PlainTypes, SystemState, told, mqtt
  <1>3. CASE SwitchPublish
    BY <1>3, PublishTypes DEF SwitchPublish, PlainTypes, state, mqtt
  <1>4. CASE Connect
    BY <1>4 DEF Connect, PlainTypes, state, told
  <1>5. CASE InitClose
    BY <1>5 DEF InitClose, PlainTypes, state, told, mqtt
  <1>6. CASE Measure
    BY <1>6 DEF Measure, PlainTypes, state, told, mqtt
  <1>7. CASE Decide
    <2> USE <1>0, <1>7 DEF PlainTypes, SystemState, MoveTo, state, told, mqtt
    <2>1. CASE Idle
      BY <2>1 DEF Decide, Idle
    <2>2. CASE \/ Detected("ENTRY_DETECTED", "ENTRY_WAITING")
               \/ Detected("EXIT_VEHICLE_DETECTED", "EXIT_VEHICLE_WAITING")
      BY <2>2 DEF Decide, Detected
    <2>3. CASE \/ Waiting("ENTRY_WAITING", "ENTRY_DETECTED")
               \/ Waiting("EXIT_VEHICLE_WAITING", "EXIT_VEHICLE_DETECTED")
      BY <2>3 DEF Decide, Waiting, CloseAfter
    <2>4. CASE ExitRequested
      BY <2>4 DEF Decide, ExitRequested, CloseAfter
    <2> QED
      BY <2>1, <2>2, <2>3, <2>4 DEF Decide
  <1>8. CASE Check
    BY <1>8 DEF Check, PlainTypes, Readings, state, told, mqtt
  <1>9. CASE Aborted
    BY <1>0, <1>9 DEF Aborted, MoveTo, BackTo, PlainTypes, SystemState, told, mqtt
  <1>10. CASE Closed
    BY <1>10 DEF Closed, PlainTypes, SystemState, told, mqtt
  <1>11. CASE Tell
    BY <1>11, PublishTypes DEF Tell, PlainTypes, state, mqtt
  <1>12. CASE \/ Press \/ SwitchGateOpen \/ SwitchRaiseBatch \/ SwitchRaised \/ SwitchExit
              \/ InitLowerBatch \/ InitLowered \/ EntryOpen \/ RaiseBatch \/ Raised
              \/ Close \/ LowerBatch \/ RewindBatch \/ Rewound \/ Lowered \/ CleanUp
    BY <1>12 DEF Press, SwitchGateOpen, SwitchRaiseBatch, SwitchRaised, SwitchExit,
       InitLowerBatch, InitLowered, EntryOpen, RaiseBatch, Raised, Close, LowerBatch,
       RewindBatch, Rewound, Lowered, CleanUp, PlainTypes, state, told, mqtt
  <1>13. CASE ConnectionChanges
    BY <1>13 DEF ConnectionChanges, PlainTypes, state, told
  <1>14. CASE Signal
    BY <1>14 DEF Signal, PlainTypes, state, told, mqtt
  <1>15. CASE Tick
    BY <1>0, <1>15 DEF Tick, PlainTypes, told, mqtt
  <1>16. CASE UNCHANGED vars
    BY <1>16 DEF vars, PlainTypes, state, told, mqtt
  <1> QED
    BY <1>1, <1>2, <1>3, <1>4, <1>5, <1>6, <1>7, <1>8, <1>9, <1>10, <1>11, <1>12,
       <1>13, <1>14, <1>15, <1>16 DEF Next, MainThread, SwitchThread

(* Every step keeps mutex, recorded state, counters and arm in agreement.  *)
LEMMA StrokeStep == IInv /\ [Next]_vars => (StrokeTypes /\ LockInv /\ HeightInv)'
  <1> SUFFICES ASSUME StrokeTypes, LockInv, HeightInv, [Next]_vars
               PROVE  (StrokeTypes /\ LockInv /\ HeightInv)'
    BY TypesSplit DEF IInv
  <1> USE LegacyConfig DEF StrokeTypes, LockInv, HeightInv, Height, Unlocked, MainStrokes,
          GateState, MainPc, SwitchPc, motor
  <1>1. CASE Press \/ FlagPress \/ RequestExit \/ SwitchPublish \/ SwitchExit
    BY <1>1 DEF Press, FlagPress, RequestExit, SwitchPublish, SwitchExit
  <1>2. CASE SwitchGateOpen
    BY <1>2 DEF SwitchGateOpen, LockMutex, NeedsStroke
  <1>3. CASE SwitchRaiseBatch
    BY <1>3 DEF SwitchRaiseBatch
  <1>4. CASE SwitchRaised
    BY <1>4 DEF SwitchRaised
  <1>5. CASE Connect \/ Measure \/ Aborted \/ Closed \/ Tell \/ CleanUp
    BY <1>5 DEF Connect, Measure, Aborted, Closed, Tell, CleanUp
  <1>6. CASE InitClose
    BY <1>6 DEF InitClose, LockMutex
  <1>7. CASE InitLowerBatch
    BY <1>7 DEF InitLowerBatch
  <1>8. CASE InitLowered
    BY <1>8 DEF InitLowered
  <1>9. CASE Decide
    BY <1>9 DEF Decide, Idle, Detected, Waiting, ExitRequested, CloseAfter
  <1>10. CASE EntryOpen
    BY <1>10 DEF EntryOpen, LockMutex, NeedsStroke
  <1>11. CASE RaiseBatch
    BY <1>11 DEF RaiseBatch
  <1>12. CASE Raised
    BY <1>12 DEF Raised
  <1>13. CASE Close
    BY <1>13 DEF Close, LockMutex
  <1>14. CASE LowerBatch
    BY <1>14 DEF LowerBatch
  <1>15. CASE Check
    BY <1>15 DEF Check
  <1>16. CASE RewindBatch
    BY <1>16 DEF RewindBatch, RewindOne
  <1>17. CASE Rewound
    BY <1>17 DEF Rewound
  <1>18. CASE Lowered
    BY <1>18 DEF Lowered, LockMutex
  <1>19. CASE ConnectionChanges \/ Signal \/ Tick \/ UNCHANGED vars
    BY <1>19 DEF ConnectionChanges, Signal, Tick, vars
  <1> QED
    BY <1>1, <1>2, <1>3, <1>4, <1>5, <1>6, <1>7, <1>8, <1>9, <1>10, <1>11, <1>12,
       <1>13, <1>14, <1>15, <1>16, <1>17, <1>18, <1>19 DEF Next, MainThread, SwitchThread

(* The inductive invariant holds in every reachable state.                 *)
THEOREM Invariance == Spec => []IInv
  <1>1. IInv /\ [Next]_vars => IInv'
    <2> SUFFICES ASSUME IInv, [Next]_vars PROVE IInv'
      OBVIOUS
    <2>1. PlainTypes'
      BY PlainStep DEF IInv
    <2>2. (StrokeTypes /\ LockInv /\ HeightInv)'
      BY StrokeStep
    <2>3. TypeOK'
      BY <2>1, <2>2 DEF TypeOK, PlainTypes, StrokeTypes
    <2> QED
      BY <2>2, <2>3 DEF IInv
  <1> QED
    BY <1>1, InitInv, PTL DEF Spec

-----------------------------------------------------------------------------
(* Every variable keeps its type; the arm never leaves its range, whoever  *)
(* moves it and however the two threads interleave.                        *)
THEOREM TypeCorrect == Spec => []TypeOK
  BY Invariance, PTL DEF IInv

(* The two threads never drive the motor at once, although a closing runs  *)
(* without the mutex: it only ever starts when the recorded state is       *)
(* GATE_OPEN, which keeps gate_open() of the other thread from moving.     *)
THEOREM StrokesExclude == Spec => []OneStroke
  <1>1. IInv => OneStroke
    BY DEF IInv, LockInv, OneStroke, MainStrokes, Unlocked
  <1> QED
    BY <1>1, Invariance, PTL

-----------------------------------------------------------------------------
(* The arm is a Barrier.                                                   *)

(* As long as main has the pins, a step of either thread is a step of the  *)
(* Barrier or leaves arm and course alone.                                 *)
LEMMA BarrierStep ==
    IInv /\ [Next]_vars => [mpc = "done" \/ Arm!Next]_(Arm!vars)
  <1> SUFFICES ASSUME StrokeTypes, LockInv, HeightInv, [Next]_vars, mpc # "done"
               PROVE  Arm!Next \/ UNCHANGED Arm!vars
    BY TypesSplit DEF IInv
  <1> USE LegacyConfig
  <1> USE DEF StrokeTypes, LockInv, HeightInv, Height, Unlocked, MainStrokes, GateState,
          MainPc, SwitchPc, Course, motor, Arm!vars, Arm!Next, Arm!Upwards, Arm!Downwards
  <1>1. CASE Press \/ FlagPress \/ RequestExit \/ SwitchPublish \/ SwitchExit
    BY <1>1 DEF Press, FlagPress, RequestExit, SwitchPublish, SwitchExit
  <1>2. CASE SwitchGateOpen
    <2>1. CASE NeedsStroke
      BY <1>2, <2>1 DEF SwitchGateOpen, LockMutex, NeedsStroke, Arm!LeaveShut
    <2>2. CASE ~NeedsStroke
      BY <1>2, <2>2 DEF SwitchGateOpen, LockMutex
    <2> QED
      BY <2>1, <2>2
  <1>3. CASE SwitchRaiseBatch
    BY <1>3 DEF SwitchRaiseBatch, Arm!Raise
  <1>4. CASE SwitchRaised
    BY <1>4 DEF SwitchRaised, Arm!ReachOpen
  <1>5. CASE Connect \/ Measure \/ Aborted \/ Closed \/ Tell \/ CleanUp
    BY <1>5 DEF Connect, Measure, Aborted, Closed, Tell, CleanUp
  <1>6. CASE InitClose
    BY <1>6 DEF InitClose, LockMutex, Arm!LeaveOpen
  <1>7. CASE InitLowerBatch
    BY <1>7 DEF InitLowerBatch, Arm!Lower
  <1>8. CASE InitLowered
    BY <1>8 DEF InitLowered, Arm!ReachShut
  <1>9. CASE Decide
    BY <1>9 DEF Decide, Idle, Detected, Waiting, ExitRequested, CloseAfter
  <1>10. CASE EntryOpen
    BY <1>10 DEF EntryOpen, LockMutex, NeedsStroke, Arm!LeaveShut
  <1>11. CASE RaiseBatch
    BY <1>11 DEF RaiseBatch, Arm!Raise
  <1>12. CASE Raised
    BY <1>12 DEF Raised, Arm!ReachOpen
  <1>13. CASE Close
    BY <1>13 DEF Close, LockMutex, Arm!LeaveOpen
  <1>14. CASE LowerBatch
    BY <1>14 DEF LowerBatch, Arm!Lower
  <1>15. CASE Check
    BY <1>15 DEF Check, Arm!TurnBack
  <1>16. CASE RewindBatch
    BY <1>16 DEF RewindBatch, RewindOne, Arm!Raise
  <1>17. CASE Rewound
    BY <1>17 DEF Rewound, Arm!ReachOpen
  <1>18. CASE Lowered
    BY <1>18 DEF Lowered, LockMutex, Arm!ReachShut
  <1>19. CASE ConnectionChanges \/ Signal \/ Tick \/ UNCHANGED vars
    BY <1>19 DEF ConnectionChanges, Signal, Tick, vars
  <1> QED
    BY <1>1, <1>2, <1>3, <1>4, <1>5, <1>6, <1>7, <1>8, <1>9, <1>10, <1>11, <1>12,
       <1>13, <1>14, <1>15, <1>16, <1>17, <1>18, <1>19 DEF Next, MainThread, SwitchThread

(* Until main unexports the pins, the two threads together move the arm as *)
(* a Barrier may be moved.                                                 *)
THEOREM ThreadsMoveABarrier == Spec => ArmIsBarrier
  <1>1. Init => Arm!Init
    BY DEF Init, Arm!Init, Course
  <1> QED
    BY <1>1, BarrierStep, Invariance, PTL DEF Spec, ArmIsBarrier

-----------------------------------------------------------------------------
(* With prompt threads: the state of the trip and the word published.      *)

Closing == mpc \in {"close", "lower", "check", "rewind", "aborted", "closed"}

(* Somebody has a trip begun for which the gate is still to be opened.     *)
OpeningOwed == spc \in {"open", "raise"} \/ mpc \in {"entry_open", "raise"}

(* An open gate belongs to a trip, and a trip to a gate that is open, about*)
(* to be opened, or closed this moment.                                    *)
AgreeInv ==
    /\ current_state = "GATE_OPEN" \/ OpeningOwed => sys_state # "IDLE"
    /\ current_state = "GATE_CLOSED" /\ ~swept =>
           sys_state = "IDLE" \/ OpeningOwed \/ mpc = "closed"
    /\ mpc = "aborted" => current_state = "GATE_OPEN"
    /\ mpc = "closed" => current_state = "GATE_CLOSED" /\ spc # "raise"

(* What the two threads know of each other: a press that found IDLE has    *)
(* been dealt with before main acts on a reading of a later state, and     *)
(* before main has moved the arm.                                          *)
PressInv ==
    /\ Closing \/ (mpc = "decide" /\ s # "IDLE") =>
           sys_state # "IDLE" /\ spc \notin {"act", "open"}
    /\ spc = "act" =>
           /\ current_state = "GATE_CLOSED"
           /\ sys_state = "IDLE" \/ mpc \in {"entry_open", "raise"}
           /\ mpc = "raise" => steps = 0
    /\ spc = "open" /\ current_state = "GATE_OPEN" =>
           mpc \notin {"init_connect", "init_close"}

(* The trip of a gate that was opened before main closed it at the start   *)
(* runs on over a gate that is shut, until a Closed step.                  *)
SweptInv ==
    /\ mpc = "init_lower" => swept
    /\ swept =>
           /\ sys_state # "IDLE" /\ spc \notin {"act", "open", "raise"}
           /\ mpc \notin {"init_connect", "init_close", "entry_open", "raise"}
           /\ mpc # "init_lower" => current_state = "GATE_CLOSED"
           /\ mpc = "decide" => s # "IDLE"

TripInv == AgreeInv /\ PressInv /\ SweptInv

RightWord == IF current_state = "GATE_OPEN" THEN "OPEN" ELSE "CLOSED"

(* Nobody publishes what has become false since it was to be published, and*)
(* whoever changes the gate still has its word before it.                  *)
WordInv ==
    /\ mpc = "tell_open" => current_state = "GATE_OPEN"
    /\ mpc = "tell_closed" =>
           current_state = "GATE_CLOSED" /\ (spc = "raise" => sw_steps = 0)
    /\ spc = "publish" =>
           /\ current_state = "GATE_OPEN"
           /\ mpc \in {"init_lower", "lower"} => steps = 0
    /\ \/ missed \/ word = RightWord
       \/ spc = "publish"
       \/ mpc \in {"init_connect", "init_close", "init_lower", "tell_open", "tell_closed",
                   "closed"}

-----------------------------------------------------------------------------
(* At the start nothing is open, owed or wrong.                            *)
LEMMA InitTrip == Init => TripInv /\ WordInv
  BY DEF Init, TripInv, AgreeInv, PressInv, SweptInv, WordInv, OpeningOwed, Closing

(* Every step of prompt threads keeps state and gate in agreement.         *)
LEMMA TripStep ==
    ASSUME Prompt, IInv, TripInv, [Next]_vars
    PROVE  TripInv'
  <1> USE LegacyConfig DEF IInv, TypeOK, LockInv, HeightInv, Unlocked, MainStrokes,
          GateState, TripInv, AgreeInv, PressInv, SweptInv, OpeningOwed, Closing, state, motor
  <1>1. CASE Press
    BY <1>1 DEF Press
  <1>2. CASE FlagPress
    BY <1>2 DEF FlagPress
  <1>3. CASE RequestExit
    BY <1>3 DEF RequestExit
  <1>4. CASE SwitchGateOpen
    BY <1>4 DEF SwitchGateOpen, LockMutex, NeedsStroke
  <1>5. CASE SwitchRaiseBatch
    BY <1>5 DEF SwitchRaiseBatch, SwitchMaySleep, MainAwake
  <1>6. CASE SwitchRaised
    BY <1>6 DEF SwitchRaised
  <1>7. CASE SwitchPublish \/ SwitchExit
    BY <1>7 DEF SwitchPublish, SwitchExit
  <1>8. CASE Connect
    BY <1>8 DEF Connect, MainMaySleep, SwitchAwake
  <1>9. CASE InitClose
    BY <1>9 DEF InitClose, LockMutex
  <1>10. CASE InitLowerBatch
    BY <1>10 DEF InitLowerBatch, MainMaySleep, SwitchAwake
  <1>11. CASE InitLowered
    BY <1>11 DEF InitLowered
  <1>12. CASE Measure
    BY <1>12 DEF Measure, MainMaySleep, SwitchAwake
  <1>13. CASE Decide
    BY <1>13 DEF Decide, Idle, Detected, Waiting, ExitRequested, CloseAfter, MoveTo
  <1>14. CASE EntryOpen
    BY <1>14 DEF EntryOpen, LockMutex, NeedsStroke
  <1>15. CASE RaiseBatch
    BY <1>15 DEF RaiseBatch, MainMaySleep, SwitchAwake
  <1>16. CASE Raised
    BY <1>16 DEF Raised
  <1>17. CASE Close
    BY <1>17 DEF Close, LockMutex
  <1>18. CASE LowerBatch
    BY <1>18 DEF LowerBatch, MainMaySleep, SwitchAwake
  <1>19. CASE Check
    BY <1>19 DEF Check, MainMaySleep, SwitchAwake
  <1>20. CASE RewindBatch \/ Rewound
    BY <1>20 DEF RewindBatch, Rewound, MainMaySleep, SwitchAwake
  <1>21. CASE Lowered
    BY <1>21 DEF Lowered, LockMutex
  <1>22. CASE Aborted
    BY <1>22 DEF Aborted, MoveTo, BackTo
  <1>23. CASE Closed
    BY <1>23 DEF Closed
  <1>24. CASE Tell \/ CleanUp
    BY <1>24 DEF Tell, CleanUp
  <1>25. CASE ConnectionChanges \/ Signal \/ Tick \/ UNCHANGED vars
    BY <1>25 DEF ConnectionChanges, Signal, Tick, vars
  <1> QED
    BY <1>1, <1>2, <1>3, <1>4, <1>5, <1>6, <1>7, <1>8, <1>9, <1>10, <1>11, <1>12,
       <1>13, <1>14, <1>15, <1>16, <1>17, <1>18, <1>19, <1>20, <1>21, <1>22, <1>23,
       <1>24, <1>25 DEF Next, MainThread, SwitchThread

(* Every step of prompt threads keeps the published word on its way.       *)
LEMMA WordStep ==
    ASSUME Prompt, IInv, TripInv, WordInv, [Next]_vars
    PROVE  WordInv'
  <1> USE LegacyConfig DEF IInv, TypeOK, LockInv, HeightInv, Unlocked, MainStrokes,
          GateState, TripInv, AgreeInv, PressInv, SweptInv, OpeningOwed, Closing, WordInv,
          RightWord, motor, told
  <1>1. CASE Press
    BY <1>1 DEF Press
  <1>2. CASE FlagPress
    BY <1>2 DEF FlagPress
  <1>3. CASE RequestExit
    BY <1>3 DEF RequestExit
  <1>4. CASE SwitchGateOpen
    BY <1>4 DEF SwitchGateOpen, LockMutex, NeedsStroke
  <1>5. CASE SwitchRaiseBatch
    BY <1>5 DEF SwitchRaiseBatch, SwitchMaySleep, MainAwake
  <1>6. CASE SwitchRaised
    BY <1>6 DEF SwitchRaised
  <1>7. CASE SwitchPublish \/ SwitchExit
    BY <1>7 DEF SwitchPublish, SwitchExit, Publish
  <1>8. CASE Connect
    BY <1>8 DEF Connect, MainMaySleep, SwitchAwake
  <1>9. CASE InitClose
    BY <1>9 DEF InitClose, LockMutex
  <1>10. CASE InitLowerBatch
    BY <1>10 DEF InitLowerBatch, MainMaySleep, SwitchAwake
  <1>11. CASE InitLowered
    BY <1>11 DEF InitLowered
  <1>12. CASE Measure
    BY <1>12 DEF Measure, MainMaySleep, SwitchAwake
  <1>13. CASE Decide
    BY <1>13 DEF Decide, Idle, Detected, Waiting, ExitRequested, CloseAfter, MoveTo
  <1>14. CASE EntryOpen
    BY <1>14 DEF EntryOpen, LockMutex, NeedsStroke
  <1>15. CASE RaiseBatch
    BY <1>15 DEF RaiseBatch, MainMaySleep, SwitchAwake
  <1>16. CASE Raised
    BY <1>16 DEF Raised
  <1>17. CASE Close
    BY <1>17 DEF Close, LockMutex
  <1>18. CASE LowerBatch
    BY <1>18 DEF LowerBatch, MainMaySleep, SwitchAwake
  <1>19. CASE Check
    BY <1>19 DEF Check, MainMaySleep, SwitchAwake
  <1>20. CASE RewindBatch \/ Rewound
    BY <1>20 DEF RewindBatch, Rewound, MainMaySleep, SwitchAwake
  <1>21. CASE Lowered
    BY <1>21 DEF Lowered, LockMutex
  <1>22. CASE Aborted
    BY <1>22 DEF Aborted, MoveTo, BackTo
  <1>23. CASE Closed
    BY <1>23 DEF Closed
  <1>24. CASE Tell \/ CleanUp
    BY <1>24 DEF Tell, CleanUp, Publish
  <1>25. CASE ConnectionChanges \/ Signal \/ Tick \/ UNCHANGED vars
    BY <1>25 DEF ConnectionChanges, Signal, Tick, vars
  <1> QED
    BY <1>1, <1>2, <1>3, <1>4, <1>5, <1>6, <1>7, <1>8, <1>9, <1>10, <1>11, <1>12,
       <1>13, <1>14, <1>15, <1>16, <1>17, <1>18, <1>19, <1>20, <1>21, <1>22, <1>23,
       <1>24, <1>25 DEF Next, MainThread, SwitchThread

(* What prompt threads maintain together.                                  *)
LEMMA PromptInvariance ==
    ASSUME Prompt
    PROVE  Spec => [](IInv /\ TripInv /\ WordInv)
  <1>1. IInv /\ TripInv /\ WordInv /\ [Next]_vars => (TripInv /\ WordInv)'
    BY TripStep, WordStep
  <1> QED
    BY <1>1, InitTrip, Invariance, PTL DEF Spec

-----------------------------------------------------------------------------
(* With prompt threads, the gate stands where the state says whenever both *)
(* threads are at rest: an interplay of unlocked reads and writes of the   *)
(* state, of which neither thread sees the other's half.                   *)
THEOREM StateAgrees ==
    ASSUME Prompt
    PROVE  Spec => []StateTellsGate
  <1>1. IInv /\ TripInv => StateTellsGate
    <2> SUFFICES ASSUME IInv, TripInv, AtRest, ~swept
                 PROVE  IF sys_state = "IDLE" THEN arm = 0 /\ current_state = "GATE_CLOSED"
                                              ELSE arm = Batches /\ current_state = "GATE_OPEN"
      BY DEF StateTellsGate
    <2>1. sys_state = "IDLE" <=> current_state = "GATE_CLOSED"
      BY DEF IInv, TypeOK, GateState, TripInv, AgreeInv, OpeningOwed, AtRest
    <2>2. arm = IF current_state = "GATE_OPEN" THEN Batches ELSE 0
      BY DEF IInv, HeightInv, Height, Unlocked, AtRest
    <2> QED
      BY <2>1, <2>2 DEF IInv, TypeOK, GateState
  <1> QED
    BY <1>1, PromptInvariance, PTL

(* With prompt threads, the last gate word is the true one whenever both   *)
(* are at rest, unless the connection was down for it.                     *)
THEOREM WordIsTrue ==
    ASSUME Prompt
    PROVE  Spec => []WordTells
  <1>1. WordInv => WordTells
    BY DEF WordInv, RightWord, WordTells, AtRest
  <1> QED
    BY <1>1, PromptInvariance, PTL

=============================================================================
