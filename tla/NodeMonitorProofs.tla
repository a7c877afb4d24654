-------------------------- MODULE NodeMonitorProofs --------------------------
(***************************************************************************)
(* Proofs about NodeMonitor: whatever heartbeats, handler and device file  *)
(* do, the kernel modules load and unload as in DriverLifecycle, so that   *)
(* its theorems hold of the composition; and a node that has fallen silent *)
(* is not brought back by a text that was under way.                       *)
(***************************************************************************)
EXTENDS NodeMonitor, DriverLifecycleProofs

-----------------------------------------------------------------------------
(* The composition and its part.                                           *)

LEMMA StepsOfModules == [NextMonitor]_allVars => [Next]_vars
  <1> SUFFICES ASSUME NextMonitor, ~DriverStep PROVE UNCHANGED vars
    BY DEF DriverStep, allVars
  <1>1. CASE ClientChanges \/ Beat \/ BeatLost
    BY <1>1 DEF ClientChanges, Beat, BeatLost
  <1>2. CASE HandlerChanges \/ HandleHeartbeat \/ Tick
    BY <1>2 DEF HandlerChanges, HandleHeartbeat, Tick
  <1>3. CASE \E t \in Threads : Build(t) \/ Write(t)
    BY <1>3 DEF Build, Write
  <1> QED
    BY <1>1, <1>2, <1>3 DEF NextMonitor

(* What the monitor adds (clients, handler, device file) neither loads nor *)
(* unloads a module in a way of its own: rpi3_status_write() and the rest  *)
(* are stutters of the lifecycle.                                          *)
THEOREM ModulesLiveAsBefore == SpecMonitor => Spec
  <1>1. InitMonitor => Init
    BY DEF InitMonitor
  <1> QED
    BY <1>1, StepsOfModules, PTL DEF SpecMonitor, Spec

(* The properties of a load and an unload hold under the monitor.          *)
THEOREM MonitoredModules ==
    SpecMonitor => /\ [](TypeOK /\ UsersHaveTheirMeans /\ OpenPinsModule)
                   /\ ReleasesWhatIsHeld /\ LeaksConfined
  BY ModulesLiveAsBefore, TypeCorrect, MeansOutliveUsers, OpenFileKeepsModule,
     OnlyHeldIsReleased, OnlyLeftoversLeak, PTL

-----------------------------------------------------------------------------
(* The handler's memory and the texts made from it.                        *)

MonitorTypes ==
    /\ monitoring \in BOOLEAN /\ looped \in BOOLEAN /\ as_root \in BOOLEAN
    /\ alive \in BOOLEAN /\ unacked \in 0 .. Window /\ flight \in BOOLEAN
    /\ handler_up \in BOOLEAN /\ seen \in BOOLEAN /\ age \in 0 .. HeartbeatTimeout + 1
    /\ text \in [Threads -> Lines \cup {"none"}]
    /\ status_buf \in Lines /\ shadow \in BOOLEAN

(* Only a handler that runs remembers a node or has a text to write, only  *)
(* a node it has seen is in a text, only root puts a file in the way, and  *)
(* nothing of all this happens to a node that is not monitored.            *)
HandlerInv ==
    /\ ~handler_up => ~seen /\ \A t \in Threads : text[t] = "none"
    /\ ~seen => age = 0 /\ \A t \in Threads : text[t] \in {"none", "unknown"}
    /\ looped => unacked = 0
    /\ shadow => as_root
    /\ ~monitoring => ~alive /\ ~flight /\ ~handler_up /\ status_buf = "unknown"
    /\ monitoring => driver = "status" /\ open = FALSE

MonitorInv == MonitorTypes /\ HandlerInv

(* A silent node of which nothing is left on its way to the line: no       *)
(* heartbeat in flight, no memory of a recent one, no text that calls it   *)
(* online.                                                                 *)
Quiet ==
    /\ Silent /\ ~flight
    /\ seen => age > HeartbeatTimeout
    /\ \A t \in Threads : text[t] # "online"
    /\ status_buf # "online"

LEMMA Zeros == 0 \in 0 .. Window /\ 0 \in 0 .. HeartbeatTimeout + 1
  BY MonitorConfig

LEMMA InitMonitorInv == InitMonitor => MonitorInv
  <1> SUFFICES ASSUME InitMonitor PROVE MonitorInv
    OBVIOUS
  <1>1. MonitorTypes
    BY Zeros DEF InitMonitor, MonitorTypes, Lines
  <1>2. HandlerInv
    BY DEF InitMonitor, Init, HandlerInv
  <1> QED
    BY <1>1, <1>2 DEF MonitorInv

LEMMA NextMonitorInv == MonitorInv /\ [NextMonitor]_allVars => MonitorInv'
  <1> SUFFICES ASSUME MonitorTypes, HandlerInv, [NextMonitor]_allVars
               PROVE  MonitorInv'
    BY DEF MonitorInv
  <1> USE DEF setting, client, memory
  <1>1. CASE DriverStep /\ (monitoring => PlainStep)
    <2>1. MonitorTypes'
      BY <1>1 DEF DriverStep, MonitorTypes, Lines
    <2>2. driver' = driver
      BY <1>1 DEF DriverStep, Next, Insmod, StepSucceeds, StepFails, ReleaseNext, Ended,
         Rmmod, OpenDevice, CloseDevice, WriteDevice
    <2>3. HandlerInv'
      BY <1>1, <2>2 DEF DriverStep, PlainStep, HandlerInv
    <2> QED
      BY <2>1, <2>3 DEF MonitorInv
  <1>2. CASE ClientChanges
    <2>1. MonitorTypes'
      BY <1>2, MonitorConfig DEF ClientChanges, MonitorTypes
    <2>2. HandlerInv'
      BY <1>2 DEF ClientChanges, vars, HandlerInv
    <2> QED
      BY <2>1, <2>2 DEF MonitorInv
  <1>3. CASE Beat
    <2>1. unacked' \in 0 .. Window
      BY <1>3, MonitorConfig DEF Beat, MonitorTypes, HandlerInv
    <2>2. MonitorTypes'
      BY <1>3, <2>1 DEF Beat, MonitorTypes
    <2>3. HandlerInv'
      BY <1>3 DEF Beat, vars, HandlerInv
    <2> QED
      BY <2>2, <2>3 DEF MonitorInv
  <1>4. CASE BeatLost
    BY <1>4 DEF BeatLost, vars, MonitorTypes, HandlerInv, MonitorInv
  <1>5. CASE HandlerChanges
    <2>1. MonitorTypes'
      BY <1>5, Zeros DEF HandlerChanges, MonitorTypes
    <2>2. HandlerInv'
      BY <1>5 DEF HandlerChanges, vars, HandlerInv
    <2> QED
      BY <2>1, <2>2 DEF MonitorInv
  <1>6. CASE HandleHeartbeat
    <2>1. MonitorTypes'
      BY <1>6, Zeros DEF HandleHeartbeat, MonitorTypes, Lines
    <2>2. HandlerInv'
      BY <1>6 DEF HandleHeartbeat, vars, HandlerInv
    <2> QED
      BY <2>1, <2>2 DEF MonitorInv
  <1>7. CASE Tick
    <2>1. MonitorTypes'
      BY <1>7, MonitorConfig DEF Tick, MonitorTypes
    <2>2. HandlerInv'
      BY <1>7 DEF Tick, vars, HandlerInv
    <2> QED
      BY <2>1, <2>2 DEF MonitorInv
  <1>8. ASSUME NEW t \in Threads, Build(t) PROVE MonitorInv'
    <2>1. Line \in Lines /\ (~seen => Line = "unknown")
      BY DEF Line, Lines
    <2>2. MonitorTypes'
      BY <1>8, <2>1 DEF Build, MonitorTypes
    <2>3. HandlerInv'
      BY <1>8, <2>1 DEF Build, vars, MonitorTypes, HandlerInv
    <2> QED
      BY <2>2, <2>3 DEF MonitorInv
  <1>9. ASSUME NEW t \in Threads, Write(t) PROVE MonitorInv'
    <2>1. text[t] \in Lines /\ handler_up
      BY <1>9 DEF Write, MonitorTypes, HandlerInv
    <2>2. MonitorTypes'
      BY <1>9, <2>1 DEF Write, WriteStatus, MonitorTypes
    <2>3. HandlerInv'
      BY <1>9, <2>1 DEF Write, WriteStatus, vars, MonitorTypes, HandlerInv
    <2> QED
      BY <2>2, <2>3 DEF MonitorInv
  <1>10. CASE UNCHANGED allVars
    BY <1>10 DEF allVars, monitorVars, vars, MonitorTypes, HandlerInv, MonitorInv
  <1> QED
    BY <1>1, <1>2, <1>3, <1>4, <1>5, <1>6, <1>7, <1>8, <1>9, <1>10 DEF NextMonitor

(* Neither a full window nor a timeout is overrun, and what the threads of *)
(* the handler are about to write agrees with what it has seen.            *)
THEOREM MonitorInvariance == SpecMonitor => []MonitorInv
  BY InitMonitorInv, NextMonitorInv, PTL DEF SpecMonitor

(* Of a quiet node nothing, neither a thread of the handler nor a restart  *)
(* of the handler or the module, makes an online one; only the start of    *)
(* its client does.  So a C client that has filled its window, whose       *)
(* process lives on, stays offline.  The safety half of SilentNodeShown.   *)
THEOREM QuietUntilStarted ==
    SpecMonitor => [][Quiet => Quiet' \/ (~alive /\ alive')]_allVars
  <1>1. MonitorInv /\ [NextMonitor]_allVars
          => [Quiet => Quiet' \/ (~alive /\ alive')]_allVars
    <2> SUFFICES ASSUME MonitorTypes, NextMonitor, Quiet, ~(~alive /\ alive')
                 PROVE  Quiet'
      BY DEF MonitorInv
    <2> USE DEF setting, client, memory
    <2>1. CASE DriverStep
      BY <2>1 DEF DriverStep, Quiet, Silent
    <2>2. CASE ClientChanges
      BY <2>2 DEF ClientChanges, MonitorTypes, Quiet, Silent
    <2>3. CASE Beat \/ HandleHeartbeat
      BY <2>3, MonitorConfig DEF Beat, HandleHeartbeat, Quiet, Silent, MonitorTypes
    <2>4. CASE BeatLost \/ HandlerChanges
      BY <2>4 DEF BeatLost, HandlerChanges, Quiet, Silent
    <2>5. CASE Tick
      BY <2>5, MonitorConfig DEF Tick, Quiet, Silent, MonitorTypes
    <2>6. ASSUME NEW t \in Threads, Build(t) PROVE Quiet'
      <3>1. Line # "online"
        BY MonitorConfig DEF Line, Quiet, MonitorTypes
      <3> QED
        BY <2>6, <3>1 DEF Build, Quiet, Silent, MonitorTypes
    <2>7. ASSUME NEW t \in Threads, Write(t) PROVE Quiet'
      BY <2>7 DEF Write, WriteStatus, Quiet, Silent, MonitorTypes
    <2> QED
      BY <2>1, <2>2, <2>3, <2>4, <2>5, <2>6, <2>7 DEF NextMonitor
  <1> QED
    BY <1>1, MonitorInvariance, PTL DEF SpecMonitor

=============================================================================
