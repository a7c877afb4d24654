------------------------ MODULE DriverLifecycleProofs ------------------------
(***************************************************************************)
(* Proofs about DriverLifecycle.  The tables of the module are turned into *)
(* three facts (what a load acquires is closed under use, an unwinding and *)
(* an unload fit what is held and go backwards along the uses); the rest   *)
(* of the argument knows the tables through these facts only.              *)
(***************************************************************************)
EXTENDS DriverLifecycle, SequenceTheorems, TLAPS

(* What r uses at all times.  The lamps that a write to the gate's device  *)
(* file sets come after the cdev and go before it.                         *)
Needs(r) == IF r = "cdev" THEN Uses(r) \ {"lamps"} ELSE Uses(r)

(* No release comes twice, and none before that of all its users.          *)
Unwinds(l) ==
    \A i, j \in 1 .. Len(l) : i < j => l[i] # l[j] /\ l[i] \notin Needs(l[j])

(* What the first k steps of a load leave the module with.                 *)
Acquired(k) == {Steps[i] : i \in 1 .. k} \ Directions

(* What a failure of step may forget, and the releases it makes.           *)
Forgotten(step) ==
    IF step \in ToSet(HwSteps) THEN Pins
    ELSE IF driver = "slot" /\ step \in {"class", "device"} THEN {"cdev"} ELSE {}

Fits(k, l, rest) ==
    /\ l \in Seq(Resources) /\ Unwinds(l)
    /\ ToSet(l) \subseteq Acquired(k)
    /\ Acquired(k) \ ToSet(l) \subseteq rest

-----------------------------------------------------------------------------
(* Facts about lists of releases.                                          *)

(* Making the first release leaves a list that still unwinds, of the other *)
(* resources, none of which uses the one that is gone.                     *)
LEMMA TailUnwinds ==
    ASSUME NEW l \in Seq(Resources), l # <<>>, Unwinds(l)
    PROVE  /\ Tail(l) \in Seq(Resources) /\ Unwinds(Tail(l))
           /\ Head(l) \in ToSet(l)
           /\ ToSet(Tail(l)) = ToSet(l) \ {Head(l)}
           /\ \A r \in ToSet(Tail(l)) : Head(l) \notin Needs(r)
  <1>1. /\ Tail(l) \in Seq(Resources) /\ Len(Tail(l)) = Len(l) - 1
        /\ \A i \in 1 .. Len(Tail(l)) : Tail(l)[i] = l[i + 1]
    BY HeadTailProperties
  <1>2. Len(l) \in Nat /\ Len(l) > 0 /\ Head(l) = l[1]
    OBVIOUS
  <1>3. Unwinds(Tail(l))
    BY <1>1, <1>2 DEF Unwinds
  <1>4. DOMAIN l = 1 .. Len(l) /\ DOMAIN Tail(l) = 1 .. Len(Tail(l))
    BY <1>1
  <1>5. ASSUME NEW r
        PROVE  r \in ToSet(Tail(l)) <=> \E i \in 2 .. Len(l) : r = l[i]
    <2>1. ASSUME NEW i \in 1 .. Len(Tail(l)), r = Tail(l)[i]
          PROVE  \E j \in 2 .. Len(l) : r = l[j]
      <3>1. i + 1 \in 2 .. Len(l) /\ r = l[i + 1]
        BY <1>1, <1>2, <2>1
      <3> QED
        BY <3>1
    <2>2. ASSUME NEW i \in 2 .. Len(l), r = l[i]
          PROVE  \E j \in 1 .. Len(Tail(l)) : r = Tail(l)[j]
      <3>1. i - 1 \in 1 .. Len(Tail(l)) /\ r = Tail(l)[i - 1]
        BY <1>1, <1>2, <2>2
      <3> QED
        BY <3>1
    <2> QED
      BY <1>4, <2>1, <2>2 DEF ToSet
  <1>6. ASSUME NEW i \in 2 .. Len(l)
        PROVE  l[1] # l[i] /\ l[1] \notin Needs(l[i])
    BY <1>2 DEF Unwinds
  <1>7. ASSUME NEW r
        PROVE  r \in ToSet(l) <=> r = l[1] \/ \E i \in 2 .. Len(l) : r = l[i]
    BY <1>2, <1>4 DEF ToSet
  <1> QED
    BY <1>1, <1>2, <1>3, <1>5, <1>6, <1>7

-----------------------------------------------------------------------------
(* The load of gate_node.ko and of rpi3_status.ko, written out.            *)
LEMMA GateStepsAre ==
    GateSteps = <<"region", "cdev", "class", "device", "stepper", "lamps",
                    "ultrasonic", "switch", "outputs", "inputs", "irq", "thread">>
  <1> DEFINE l == <<"region", "cdev", "class", "device", "stepper", "lamps",
                    "ultrasonic", "switch", "outputs", "inputs", "irq", "thread">>
  <1> USE DEF GateSteps, CharSteps, HwSteps
  <1>1. GateSteps \in Seq(Resources) /\ l \in Seq(Resources)
    BY DEF Resources, ToSet
  <1>2. Len(GateSteps) = 12 /\ Len(l) = 12
    OBVIOUS
  <1>3. \A i \in 1 .. 12 : GateSteps[i] = l[i]
    OBVIOUS
  <1> QED
    BY <1>1, <1>2, <1>3, SeqEqual

LEMMA StatusStepsAre ==
    StatusSteps = <<"region", "cdev", "class", "device", "proc">>
  <1> DEFINE l == <<"region", "cdev", "class", "device", "proc">>
  <1> USE DEF StatusSteps, CharSteps
  <1>1. StatusSteps \in Seq(Resources) /\ l \in Seq(Resources)
    BY DEF Resources, ToSet
  <1>2. Len(StatusSteps) = 5 /\ Len(l) = 5
    OBVIOUS
  <1>3. \A i \in 1 .. 5 : StatusSteps[i] = l[i]
    OBVIOUS
  <1> QED
    BY <1>1, <1>2, <1>3, SeqEqual

-----------------------------------------------------------------------------
(* What a load has acquired after each of its steps.                       *)
(* What gate holds after each step. *)
LEMMA GateAcquires == driver = "gate" =>
    /\ Acquired(0) = {}
    /\ Acquired(1) = {"region"}
    /\ Acquired(2) = {"region", "cdev"}
    /\ Acquired(3) = {"region", "cdev", "class"}
    /\ Acquired(4) = {"region", "cdev", "class", "device"}
    /\ Acquired(5) = {"region", "cdev", "class", "device", "stepper"}
    /\ Acquired(6) = {"region", "cdev", "class", "device", "stepper", "lamps"}
    /\ Acquired(7) = {"region", "cdev", "class", "device", "stepper", "lamps",
                        "ultrasonic"}
    /\ Acquired(8) = {"region", "cdev", "class", "device", "stepper", "lamps",
                        "ultrasonic", "switch"}
    /\ Acquired(9) = {"region", "cdev", "class", "device", "stepper", "lamps",
                        "ultrasonic", "switch"}
    /\ Acquired(10) = {"region", "cdev", "class", "device", "stepper", "lamps",
                        "ultrasonic", "switch"}
    /\ Acquired(11) = {"region", "cdev", "class", "device", "stepper", "lamps",
                        "ultrasonic", "switch", "irq"}
    /\ Acquired(12) = {"region", "cdev", "class", "device", "stepper", "lamps",
                        "ultrasonic", "switch", "irq", "thread"}
  BY GateStepsAre DEF Acquired, Directions, Steps

(* What slot holds after each step. *)
LEMMA SlotAcquires == driver = "slot" =>
    /\ Acquired(0) = {}
    /\ Acquired(1) = {"gpio"}
    /\ Acquired(2) = {"gpio", "motor1"}
    /\ Acquired(3) = {"gpio", "motor1", "motor2"}
    /\ Acquired(4) = {"gpio", "motor1", "motor2", "btn"}
    /\ Acquired(5) = {"gpio", "motor1", "motor2", "btn", "wq"}
    /\ Acquired(6) = {"gpio", "motor1", "motor2", "btn", "wq", "echo_irq1"}
    /\ Acquired(7) = {"gpio", "motor1", "motor2", "btn", "wq", "echo_irq1",
                        "echo_irq2"}
    /\ Acquired(8) = {"gpio", "motor1", "motor2", "btn", "wq", "echo_irq1",
                        "echo_irq2", "btn_irq1"}
    /\ Acquired(9) = {"gpio", "motor1", "motor2", "btn", "wq", "echo_irq1",
                        "echo_irq2", "btn_irq1", "btn_irq2"}
    /\ Acquired(10) = {"gpio", "motor1", "motor2", "btn", "wq", "echo_irq1",
                        "echo_irq2", "btn_irq1", "btn_irq2", "region"}
    /\ Acquired(11) = {"gpio", "motor1", "motor2", "btn", "wq", "echo_irq1",
                        "echo_irq2", "btn_irq1", "btn_irq2", "region", "cdev_mem"}
    /\ Acquired(12) = {"gpio", "motor1", "motor2", "btn", "wq", "echo_irq1",
                        "echo_irq2", "btn_irq1", "btn_irq2", "region", "cdev_mem",
                        "cdev"}
    /\ Acquired(13) = {"gpio", "motor1", "motor2", "btn", "wq", "echo_irq1",
                        "echo_irq2", "btn_irq1", "btn_irq2", "region", "cdev_mem",
                        "cdev", "class"}
    /\ Acquired(14) = {"gpio", "motor1", "motor2", "btn", "wq", "echo_irq1",
                        "echo_irq2", "btn_irq1", "btn_irq2", "region", "cdev_mem",
                        "cdev", "class", "device"}
    /\ Acquired(15) = {"gpio", "motor1", "motor2", "btn", "wq", "echo_irq1",
                        "echo_irq2", "btn_irq1", "btn_irq2", "region", "cdev_mem",
                        "cdev", "class", "device", "timer"}
  BY DEF Acquired, Directions, Steps, SlotSteps

(* What status holds after each step. *)
LEMMA StatusAcquires == driver = "status" =>
    /\ Acquired(0) = {}
    /\ Acquired(1) = {"region"}
    /\ Acquired(2) = {"region", "cdev"}
    /\ Acquired(3) = {"region", "cdev", "class"}
    /\ Acquired(4) = {"region", "cdev", "class", "device"}
    /\ Acquired(5) = {"region", "cdev", "class", "device", "proc"}
  BY StatusStepsAre DEF Acquired, Directions, Steps

-----------------------------------------------------------------------------
(* First fact: whatever a load has acquired finds what it uses among it.   *)
LEMMA AcquiredIsClosed ==
    ASSUME driver \in {"gate", "slot", "status"},
           NEW k \in 0 .. Len(Steps), NEW r \in Acquired(k)
    PROVE  Needs(r) \subseteq Acquired(k)
  <1>1. CASE driver = "gate"
    BY <1>1, GateStepsAre DEF Needs, Uses, Acquired, Directions, Steps
  <1>2. CASE driver = "slot"
    BY <1>2 DEF Needs, Uses, Acquired, Directions, Steps, SlotSteps
  <1>3. CASE driver = "status"
    BY <1>3, StatusStepsAre DEF Needs, Uses, Acquired, Directions, Steps
  <1> QED
    BY <1>1, <1>2, <1>3

-----------------------------------------------------------------------------
(* Second fact: the error paths fit.  What the chain of labels of          *)
(* parking_init() releases after each failure, and that it goes backwards. *)
LEMMA SlotUndoSets ==
    /\ ToSet(SlotUndo("gpio")) = {}
    /\ SlotUndo("gpio") \in Seq(Resources)
    /\ ToSet(SlotUndo("motor1")) = {"gpio"}
    /\ SlotUndo("motor1") \in Seq(Resources)
    /\ ToSet(SlotUndo("motor2")) = {"gpio", "motor1"}
    /\ SlotUndo("motor2") \in Seq(Resources)
    /\ ToSet(SlotUndo("btn")) = {"gpio", "motor1", "motor2"}
    /\ SlotUndo("btn") \in Seq(Resources)
    /\ ToSet(SlotUndo("wq")) = {"gpio", "motor1", "motor2", "btn"}
    /\ SlotUndo("wq") \in Seq(Resources)
    /\ ToSet(SlotUndo("echo_irq1")) = {"gpio", "motor1", "motor2", "btn", "wq"}
    /\ SlotUndo("echo_irq1") \in Seq(Resources)
    /\ ToSet(SlotUndo("echo_irq2")) = {"gpio", "motor1", "motor2", "btn", "wq",
           "echo_irq1"}
    /\ SlotUndo("echo_irq2") \in Seq(Resources)
    /\ ToSet(SlotUndo("btn_irq1")) = {"gpio", "motor1", "motor2", "btn", "wq",
           "echo_irq1", "echo_irq2"}
    /\ SlotUndo("btn_irq1") \in Seq(Resources)
    /\ ToSet(SlotUndo("btn_irq2")) = {"gpio", "motor1", "motor2", "btn", "wq",
           "echo_irq1", "echo_irq2", "btn_irq1"}
    /\ SlotUndo("btn_irq2") \in Seq(Resources)
    /\ ToSet(SlotUndo("region")) = {"gpio", "motor1", "motor2", "btn", "wq",
           "echo_irq1", "echo_irq2", "btn_irq1", "btn_irq2"}
    /\ SlotUndo("region") \in Seq(Resources)
    /\ ToSet(SlotUndo("cdev_mem")) = {"gpio", "motor1", "motor2", "btn", "wq",
           "echo_irq1", "echo_irq2", "btn_irq1", "btn_irq2", "region"}
    /\ SlotUndo("cdev_mem") \in Seq(Resources)
    /\ ToSet(SlotUndo("cdev")) = {"gpio", "motor1", "motor2", "btn", "wq",
           "echo_irq1", "echo_irq2", "btn_irq1", "btn_irq2", "region", "cdev_mem"}
    /\ SlotUndo("cdev") \in Seq(Resources)
    /\ ToSet(SlotUndo("class")) = {"gpio", "motor1", "motor2", "btn", "wq",
           "echo_irq1", "echo_irq2", "btn_irq1", "btn_irq2", "region", "cdev_mem"}
    /\ SlotUndo("class") \in Seq(Resources)
    /\ ToSet(SlotUndo("device")) = {"gpio", "motor1", "motor2", "btn", "wq",
           "echo_irq1", "echo_irq2", "btn_irq1", "btn_irq2", "region", "cdev_mem",
           "class"}
    /\ SlotUndo("device") \in Seq(Resources)
  BY DEF SlotUndo, From, SlotLabels, Resources, SlotSteps, ToSet

LEMMA SlotUndoUnwinds ==
    ASSUME driver = "slot", NEW step \in ToSet(SlotSteps) \ {"timer"}
    PROVE  Unwinds(SlotUndo(step))
  <1> USE DEF Unwinds, Needs, Uses, SlotUndo, From, SlotLabels
  <1>1. Unwinds(SlotUndo("gpio"))
    OBVIOUS
  <1>2. Unwinds(SlotUndo("motor1"))
    OBVIOUS
  <1>3. Unwinds(SlotUndo("motor2"))
    OBVIOUS
  <1>4. Unwinds(SlotUndo("btn"))
    OBVIOUS
  <1>5. Unwinds(SlotUndo("wq"))
    OBVIOUS
  <1>6. Unwinds(SlotUndo("echo_irq1"))
    OBVIOUS
  <1>7. Unwinds(SlotUndo("echo_irq2"))
    OBVIOUS
  <1>8. Unwinds(SlotUndo("btn_irq1"))
    OBVIOUS
  <1>9. Unwinds(SlotUndo("btn_irq2"))
    OBVIOUS
  <1>10. Unwinds(SlotUndo("region"))
    OBVIOUS
  <1>11. Unwinds(SlotUndo("cdev_mem"))
    OBVIOUS
  <1>12. Unwinds(SlotUndo("cdev"))
    OBVIOUS
  <1>13. Unwinds(SlotUndo("class"))
    OBVIOUS
  <1>14. Unwinds(SlotUndo("device"))
    <2>1. /\ Needs("class") = {} /\ Needs("cdev_mem") = {} /\ Needs("region") = {}
          /\ Needs("btn_irq1") = {"wq", "btn"} /\ Needs("btn_irq2") = {"wq", "btn"}
          /\ Needs("echo_irq1") = {"wq", "gpio"} /\ Needs("echo_irq2") = {"wq", "gpio"}
          /\ Needs("wq") = {"gpio", "motor1", "motor2"} /\ Needs("btn") = {}
          /\ Needs("motor2") = {} /\ Needs("motor1") = {} /\ Needs("gpio") = {}
      OBVIOUS
    <2> HIDE DEF Needs
    <2> QED
      BY <2>1
  <1> HIDE DEF Unwinds, SlotUndo
  <1> QED
    BY <1>1, <1>2, <1>3, <1>4, <1>5, <1>6, <1>7, <1>8, <1>9, <1>10, <1>11, <1>12,
       <1>13, <1>14 DEF SlotSteps, ToSet

LEMMA SlotUndoFits ==
    ASSUME driver = "slot", NEW k \in 0 .. Len(Steps) - 1, MayFail(Steps[k + 1])
    PROVE  Fits(k, Undo(Steps[k + 1]), Forgotten(Steps[k + 1]))
  <1>1. k \in 0 .. 13
    BY DEF Steps, SlotSteps, MayFail
  <1>2. Undo(Steps[k + 1]) = SlotUndo(SlotSteps[k + 1]) /\ Steps[k + 1] = SlotSteps[k + 1]
    BY DEF Undo, Steps
  <1>3. SlotSteps[k + 1] \in ToSet(SlotSteps) \ {"timer"}
    BY <1>1 DEF SlotSteps, ToSet
  <1>4. Unwinds(SlotUndo(SlotSteps[k + 1]))
    BY <1>3, SlotUndoUnwinds
  <1>5. Forgotten(SlotSteps[k + 1]) = IF k \in {12, 13} THEN {"cdev"} ELSE {}
    BY <1>1 DEF Forgotten, HwSteps, SlotSteps, ToSet
  <1>6. ToSet(SlotUndo(SlotSteps[k + 1])) =
            Acquired(k) \ (IF k \in {12, 13} THEN {"cdev"} ELSE {})
    <2>1. /\ SlotSteps[1] = "gpio" /\ SlotSteps[2] = "motor1" /\ SlotSteps[3] = "motor2"
          /\ SlotSteps[4] = "btn" /\ SlotSteps[5] = "wq" /\ SlotSteps[6] = "echo_irq1"
          /\ SlotSteps[7] = "echo_irq2" /\ SlotSteps[8] = "btn_irq1"
          /\ SlotSteps[9] = "btn_irq2" /\ SlotSteps[10] = "region"
          /\ SlotSteps[11] = "cdev_mem" /\ SlotSteps[12] = "cdev"
          /\ SlotSteps[13] = "class" /\ SlotSteps[14] = "device"
      BY DEF SlotSteps
    <2> DEFINE U(i) == ToSet(SlotUndo(SlotSteps[i]))
    <2> USE <2>1, SlotUndoSets, SlotAcquires
    <2>2. U(1) = Acquired(0) /\ U(2) = Acquired(1) /\ U(3) = Acquired(2) /\ U(4) = Acquired(3)
      OBVIOUS
    <2>3. U(5) = Acquired(4) /\ U(6) = Acquired(5) /\ U(7) = Acquired(6) /\ U(8) = Acquired(7)
      OBVIOUS
    <2>4. /\ U(9) = Acquired(8) /\ U(10) = Acquired(9)
          /\ U(11) = Acquired(10) /\ U(12) = Acquired(11)
      OBVIOUS
    <2>5. U(13) = Acquired(12) \ {"cdev"} /\ U(14) = Acquired(13) \ {"cdev"}
      OBVIOUS
    <2> HIDE <2>1, SlotUndoSets, SlotAcquires DEF U
    <2>6. CASE k \in 0 .. 7
      BY <2>2, <2>3, <2>6 DEF U
    <2>7. CASE k \in 8 .. 11
      BY <2>4, <2>7 DEF U
    <2>8. CASE k \in 12 .. 13
      BY <2>5, <2>8 DEF U
    <2> QED
      BY <1>1, <2>6, <2>7, <2>8
  <1>7. SlotUndo(SlotSteps[k + 1]) \in Seq(Resources)
    <2>1. SlotSteps[k + 1] \in {"gpio", "motor1", "motor2", "btn", "wq", "echo_irq1",
                               "echo_irq2", "btn_irq1", "btn_irq2", "region", "cdev_mem",
                               "cdev", "class", "device"}
      BY <1>1 DEF SlotSteps
    <2> QED
      BY <2>1, SlotUndoSets
  <1> QED
    BY <1>2, <1>4, <1>5, <1>6, <1>7 DEF Fits

(* What a failure releases while the device file is being made.            *)
LEMMA CharUndoSets ==
    /\ CharUndo("region") \in Seq(Resources) /\ Unwinds(CharUndo("region"))
    /\ ToSet(CharUndo("region")) = {}
    /\ CharUndo("cdev") \in Seq(Resources) /\ Unwinds(CharUndo("cdev"))
    /\ ToSet(CharUndo("cdev")) = {"region"}
    /\ CharUndo("class") \in Seq(Resources) /\ Unwinds(CharUndo("class"))
    /\ ToSet(CharUndo("class")) = {"region", "cdev"}
    /\ CharUndo("device") \in Seq(Resources) /\ Unwinds(CharUndo("device"))
    /\ ToSet(CharUndo("device")) = {"region", "cdev", "class"}
  BY DEF CharUndo, CharSteps, Unwinds, Needs, Uses, Resources, GateSteps, HwSteps, ToSet

(* The clean-ups of gate_node_exit(), which its error paths share.         *)
LEMMA CleanupSets ==
    /\ CharCleanup \in Seq(Resources) /\ Unwinds(CharCleanup)
    /\ ToSet(CharCleanup) = {"region", "cdev", "class", "device"}
    /\ HwCleanup \o CharCleanup \in Seq(Resources) /\ Unwinds(HwCleanup \o CharCleanup)
    /\ ToSet(HwCleanup \o CharCleanup) =
           {"irq", "stepper", "lamps", "ultrasonic", "switch",
            "region", "cdev", "class", "device"}
  <1>1. /\ CharCleanup \in Seq(Resources)
        /\ ToSet(CharCleanup) = {"region", "cdev", "class", "device"}
    BY DEF CharCleanup, Resources, GateSteps, CharSteps, HwSteps, ToSet
  <1>2. HwCleanup \o CharCleanup \in Seq(Resources)
    BY GateStepsAre DEF HwCleanup, CharCleanup, Resources, ToSet
  <1>3. ToSet(HwCleanup \o CharCleanup) =
            {"irq", "stepper", "lamps", "ultrasonic", "switch",
             "region", "cdev", "class", "device"}
    BY DEF HwCleanup, CharCleanup, ToSet
  <1>4. Unwinds(CharCleanup) /\ Unwinds(HwCleanup \o CharCleanup)
    BY DEF Unwinds, HwCleanup, CharCleanup, Needs, Uses
  <1> QED
    BY <1>1, <1>2, <1>3, <1>4

(* The error branches of gate_node_init() forget nothing but the pins of a *)
(* failed gate_hw_init().                                                  *)
LEMMA GateUndoFits ==
    ASSUME driver = "gate", NEW k \in 0 .. Len(Steps) - 1
    PROVE  Fits(k, Undo(Steps[k + 1]), Forgotten(Steps[k + 1]))
  <1>1. k \in 0 .. 11 /\ Steps[k + 1] = GateSteps[k + 1]
    BY GateStepsAre DEF Steps
  <1>2. CASE k \in 0 .. 3
    <2>1. /\ k = 0 => GateSteps[k + 1] = "region"
          /\ k = 1 => GateSteps[k + 1] = "cdev"
          /\ k = 2 => GateSteps[k + 1] = "class"
          /\ k = 3 => GateSteps[k + 1] = "device"
          /\ GateSteps[k + 1] \in ToSet(CharSteps) /\ GateSteps[k + 1] \notin ToSet(HwSteps)
          /\ GateSteps[k + 1] # "thread"
      BY <1>2, GateStepsAre DEF CharSteps, HwSteps, ToSet
    <2>2. Undo(Steps[k + 1]) = CharUndo(GateSteps[k + 1])
      BY <1>1, <2>1 DEF Undo, GateUndo
    <2>3. Acquired(0) = {} /\ Acquired(1) = {"region"} /\ Acquired(2) = {"region", "cdev"}
          /\ Acquired(3) = {"region", "cdev", "class"}
      BY GateAcquires
    <2> QED
      BY <1>1, <1>2, <2>1, <2>2, <2>3, CharUndoSets DEF Fits
  <1>3. CASE k \in 4 .. 10
    <2>1. /\ GateSteps[k + 1] \in ToSet(HwSteps) /\ GateSteps[k + 1] \notin ToSet(CharSteps)
          /\ GateSteps[k + 1] # "thread"
      BY <1>3, GateStepsAre DEF CharSteps, HwSteps, ToSet
    <2>2. Undo(Steps[k + 1]) = CharCleanup
      BY <1>1, <2>1 DEF Undo, GateUndo
    <2>3. Acquired(4) \subseteq Acquired(k) /\ Acquired(k) \subseteq Acquired(4) \cup Pins
      <3> USE GateAcquires DEF Pins
      <3>1. CASE k \in 4 .. 6
        BY <3>1
      <3>2. CASE k \in 7 .. 10
        BY <3>2
      <3> QED
        BY <1>3, <3>1, <3>2
    <2>4. Acquired(4) = {"region", "cdev", "class", "device"}
      BY GateAcquires
    <2> QED
      BY <1>1, <2>1, <2>2, <2>3, <2>4, CleanupSets DEF Fits, Forgotten
  <1>4. CASE k = 11
    <2>1. GateSteps[12] = "thread" /\ "thread" \notin ToSet(HwSteps) \cup ToSet(CharSteps)
      BY GateStepsAre DEF CharSteps, HwSteps, ToSet
    <2>2. Undo(Steps[k + 1]) = HwCleanup \o CharCleanup
      BY <1>1, <1>4, <2>1 DEF Undo, GateUndo
    <2>3. Acquired(11) = {"region", "cdev", "class", "device", "stepper", "lamps",
                          "ultrasonic", "switch", "irq"}
      BY GateAcquires
    <2> QED
      BY <1>4, <2>2, <2>3, CleanupSets DEF Fits
  <1> QED
    BY <1>1, <1>2, <1>3, <1>4

(* The labels of rpi3_status_init() forget nothing.                        *)
LEMMA StatusUndoFits ==
    ASSUME driver = "status", NEW k \in 0 .. Len(Steps) - 1
    PROVE  Fits(k, Undo(Steps[k + 1]), Forgotten(Steps[k + 1]))
  <1>1. k \in 0 .. 4 /\ Steps[k + 1] = StatusSteps[k + 1]
    BY StatusStepsAre DEF Steps
  <1>2. CASE k \in 0 .. 3
    <2>1. /\ k = 0 => StatusSteps[k + 1] = "region"
          /\ k = 1 => StatusSteps[k + 1] = "cdev"
          /\ k = 2 => StatusSteps[k + 1] = "class"
          /\ k = 3 => StatusSteps[k + 1] = "device"
          /\ StatusSteps[k + 1] # "proc"
      BY <1>2, StatusStepsAre
    <2>2. Undo(Steps[k + 1]) = CharUndo(StatusSteps[k + 1])
      BY <1>1, <2>1 DEF Undo, StatusUndo
    <2>3. Acquired(0) = {} /\ Acquired(1) = {"region"} /\ Acquired(2) = {"region", "cdev"}
          /\ Acquired(3) = {"region", "cdev", "class"}
      BY StatusAcquires
    <2> QED
      BY <1>1, <1>2, <2>1, <2>2, <2>3, CharUndoSets DEF Fits
  <1>3. CASE k = 4
    <2>1. StatusSteps[5] = "proc"
      BY StatusStepsAre
    <2>2. Undo(Steps[k + 1]) = CharCleanup
      BY <1>1, <1>3, <2>1 DEF Undo, StatusUndo
    <2> QED
      BY <1>3, <2>2, CleanupSets, StatusAcquires DEF Fits
  <1> QED
    BY <1>1, <1>2, <1>3

-----------------------------------------------------------------------------
(* Third fact: the exit functions fit a complete load, except for the      *)
(* memory of the cdev of parking.ko.                                       *)
LEMMA ExitFits ==
    ASSUME driver \in {"gate", "slot", "status"}
    PROVE  Fits(Len(Steps), Exit, IF driver = "slot" THEN {"cdev_mem"} ELSE {})
  <1>1. CASE driver = "gate"
    <2>1. Exit \in Seq(Resources)
      BY <1>1, GateStepsAre DEF Exit, GateExit, HwCleanup, CharCleanup, Resources, ToSet
    <2>2. Unwinds(Exit)
      BY <1>1 DEF Exit, GateExit, HwCleanup, CharCleanup, Unwinds, Needs, Uses
    <2>3. ToSet(Exit) = Acquired(12)
      <3>1. ToSet(Exit) = {"thread", "irq", "stepper", "lamps", "ultrasonic", "switch",
                           "region", "cdev", "class", "device"}
        BY <1>1 DEF Exit, GateExit, HwCleanup, CharCleanup, ToSet
      <3> QED
        BY <1>1, <3>1, GateAcquires
    <2> QED
      BY <1>1, <2>1, <2>2, <2>3, GateStepsAre DEF Fits, Steps
  <1>2. CASE driver = "slot"
    <2>1. Exit \in Seq(Resources)
      BY <1>2 DEF Exit, SlotExit, SlotSteps, Resources, ToSet
    <2>2. Unwinds(Exit)
      BY <1>2 DEF Exit, SlotExit, Unwinds, Needs, Uses
    <2>3. ToSet(Exit) = Acquired(15) \ {"cdev_mem"}
      <3>1. ToSet(Exit) = {"timer", "echo_irq1", "echo_irq2", "btn_irq1", "btn_irq2", "wq",
                           "device", "class", "cdev", "region", "btn", "motor2", "motor1",
                           "gpio"}
        BY <1>2 DEF Exit, SlotExit, ToSet
      <3> QED
        BY <1>2, <3>1, SlotAcquires
    <2> QED
      BY <1>2, <2>1, <2>2, <2>3 DEF Fits, Steps, SlotSteps
  <1>3. CASE driver = "status"
    <2>1. Exit \in Seq(Resources)
      BY <1>3, StatusStepsAre DEF Exit, StatusExit, CharCleanup, Resources, ToSet
    <2>2. Unwinds(Exit)
      BY <1>3 DEF Exit, StatusExit, CharCleanup, Unwinds, Needs, Uses
    <2>3. ToSet(Exit) = Acquired(5)
      <3>1. ToSet(Exit) = {"proc", "device", "class", "cdev", "region"}
        BY <1>3 DEF Exit, StatusExit, CharCleanup, ToSet
      <3> QED
        BY <1>3, <3>1, StatusAcquires
    <2> QED
      BY <1>3, <2>1, <2>2, <2>3, StatusStepsAre DEF Fits, Steps
  <1> QED
    BY <1>1, <1>2, <1>3

(* The second fact for all three modules.                                  *)
LEMMA UndoFits ==
    ASSUME driver \in {"gate", "slot", "status"},
           NEW k \in 0 .. Len(Steps) - 1, MayFail(Steps[k + 1])
    PROVE  Fits(k, Undo(Steps[k + 1]), Forgotten(Steps[k + 1]))
  BY SlotUndoFits, GateUndoFits, StatusUndoFits

-----------------------------------------------------------------------------
(* The inductive invariant: what is held follows from how far the load has *)
(* got, and in an unwinding or an unload from the releases still to come.  *)
LoadInv ==
    /\ phase \in {"out", "loading", "loaded"} => todo = <<>>
    /\ phase = "out" => held = {}
    /\ phase = "loading" => done < Len(Steps) /\ held = Acquired(done)
    /\ phase = "loaded" => held = Acquired(Len(Steps))
    /\ phase \in {"loading", "loaded", "unloading"} => failed = "none"

ReleaseInv ==
    phase \in {"undoing", "unloading"} =>
        /\ Unwinds(todo)
        /\ ToSet(todo) \subseteq held
        /\ held \ ToSet(todo) \subseteq Leftover
        /\ \A r \in ToSet(todo) : Needs(r) \subseteq held

(* Where the module has an owner, only the late steps fail with a cdev.    *)
OpenInv ==
    driver # "gate" =>
        /\ open => \/ phase \in {"loading", "loaded"} /\ "cdev" \in held
                   \/ phase = "undoing" /\ failed \in LateSteps
        /\ phase = "undoing" /\ "cdev" \in held => failed \in LateSteps

IInv == TypeOK /\ LoadInv /\ ReleaseInv /\ OpenInv

-----------------------------------------------------------------------------
(* How the steps of a load add up.                                         *)
LEMMA StepsTypes ==
    ASSUME driver \in {"gate", "slot", "status"}
    PROVE  /\ Steps \in Seq(Resources) /\ Len(Steps) > 0
           /\ ToSet(Steps) \subseteq Resources /\ "none" \notin Resources
  <1>1. "none" \notin Resources
    BY GateStepsAre, StatusStepsAre DEF Resources, SlotSteps, ToSet
  <1>2. Steps \in Seq(Resources) /\ Len(Steps) > 0 /\ ToSet(Steps) \subseteq Resources
    <2>1. CASE driver = "gate"
      BY <2>1, GateStepsAre DEF Steps, Resources, ToSet
    <2>2. CASE driver = "slot"
      BY <2>2 DEF Steps, SlotSteps, Resources, ToSet
    <2>3. CASE driver = "status"
      BY <2>3, StatusStepsAre DEF Steps, Resources, ToSet
    <2> QED
      BY <2>1, <2>2, <2>3
  <1> QED
    BY <1>1, <1>2

LEMMA AcquireOne ==
    ASSUME driver \in {"gate", "slot", "status"}, NEW k \in 0 .. Len(Steps) - 1
    PROVE  /\ Acquired(k + 1) = Acquired(k) \cup ({Steps[k + 1]} \ Directions)
           /\ Steps[k + 1] \in ToSet(Steps)
  <1>1. Len(Steps) \in Nat /\ DOMAIN Steps = 1 .. Len(Steps)
    BY StepsTypes
  <1>2. 1 .. k + 1 = (1 .. k) \cup {k + 1}
    BY <1>1
  <1>3. k + 1 \in DOMAIN Steps
    BY <1>1
  <1> QED
    BY <1>2, <1>3 DEF Acquired, ToSet

LEMMA AcquiredTypes ==
    ASSUME driver \in {"gate", "slot", "status"}, NEW k \in 0 .. Len(Steps)
    PROVE  Acquired(k) \subseteq ToSet(Steps) \ Directions
  <1>1. Len(Steps) \in Nat /\ DOMAIN Steps = 1 .. Len(Steps)
    BY StepsTypes
  <1> QED
    BY <1>1 DEF Acquired, ToSet

(* A step that fails when the cdev is there is a late one.                 *)
LEMMA LateFailure ==
    ASSUME driver \in {"slot", "status"}, NEW k \in 0 .. Len(Steps) - 1,
           MayFail(Steps[k + 1]), "cdev" \in Acquired(k)
    PROVE  Steps[k + 1] \in LateSteps
  <1>1. CASE driver = "slot"
    <2>1. k \in 0 .. 13
      BY <1>1 DEF Steps, SlotSteps, MayFail
    <2>2. k \in 12 .. 13
      BY <1>1, <2>1 DEF Acquired, Steps, SlotSteps
    <2> QED
      BY <1>1, <2>2 DEF Steps, SlotSteps, LateSteps
  <1>2. CASE driver = "status"
    <2>1. k \in 0 .. 4 /\ Steps = <<"region", "cdev", "class", "device", "proc">>
      BY <1>2, StatusStepsAre DEF Steps
    <2>2. k \in 2 .. 4
      BY <1>2, <2>1 DEF Acquired
    <2> QED
      BY <2>1, <2>2 DEF LateSteps
  <1> QED
    BY <1>1, <1>2

(* The gate's load acquires the lamps, too.                                *)
LEMMA LampsAcquired ==
    ASSUME driver \in {"gate", "slot", "status"}, driver = "gate"
    PROVE  "lamps" \in Acquired(Len(Steps))
  BY GateAcquires, GateStepsAre DEF Steps

(* The tables change with the module only.                                 *)
LEMMA TablesStay ==
    ASSUME driver' = driver
    PROVE  /\ Steps' = Steps /\ Exit' = Exit
           /\ \A r : Needs(r)' = Needs(r)
  BY DEF Steps, Exit, Needs, Uses

-----------------------------------------------------------------------------
(* Nothing is loaded at the start.                                         *)
LEMMA InitInv == Init => IInv
  <1> SUFFICES ASSUME Init PROVE IInv
    OBVIOUS
  <1>1. driver \in {"gate", "slot", "status"}
    BY DriversConfig DEF Init
  <1>2. TypeOK
    <2>1. Len(Steps) \in Nat /\ <<>> \in Seq(Resources)
      BY <1>1, StepsTypes
    <2>2. done \in 0 .. Len(Steps)
      BY <2>1 DEF Init
    <2> QED
      BY <2>1, <2>2 DEF Init, TypeOK
  <1>3. LoadInv /\ ReleaseInv /\ OpenInv
    BY DEF Init, LoadInv, ReleaseInv, OpenInv
  <1> QED
    BY <1>2, <1>3 DEF IInv

(* Every step keeps the invariant.                                         *)
LEMMA NextInv == IInv /\ [Next]_vars => IInv'
  <1> SUFFICES ASSUME TypeOK, LoadInv, ReleaseInv, OpenInv, [Next]_vars
               PROVE  IInv'
    BY DEF IInv
  <1>0. driver \in {"gate", "slot", "status"}
    BY DriversConfig DEF TypeOK
  <1>t. driver' = driver
    BY DEF Next, Insmod, StepSucceeds, StepFails, ReleaseNext, Ended, Rmmod, OpenDevice,
       CloseDevice, WriteDevice, vars
  <1>s. /\ Steps' = Steps /\ Exit' = Exit
        /\ \A r : Needs(r)' = Needs(r)
    BY <1>t, TablesStay
  <1>l. Steps \in Seq(Resources) /\ Len(Steps) \in Nat /\ Len(Steps) > 0
    BY <1>0, StepsTypes
  <1>1. CASE Insmod
    <2>1. TypeOK'
      BY <1>1, <1>s, <1>l DEF Insmod, TypeOK
    <2>2. Acquired(0) = {}
      BY DEF Acquired
    <2>3. LoadInv'
      BY <1>1, <1>s, <1>l, <2>2 DEF Insmod, LoadInv, Acquired
    <2>4. ReleaseInv' /\ OpenInv'
      BY <1>1 DEF Insmod, ReleaseInv, OpenInv
    <2> QED
      BY <2>1, <2>3, <2>4 DEF IInv
  <1>2. CASE StepSucceeds
    <2>1. done \in 0 .. Len(Steps) - 1 /\ held = Acquired(done) /\ todo = <<>>
      BY <1>2, <1>l DEF StepSucceeds, LoadInv, TypeOK
    <2>2. held' = Acquired(done + 1) /\ done' = done + 1 /\ done' \in 0 .. Len(Steps)
      BY <1>2, <1>0, <2>1, AcquireOne DEF StepSucceeds
    <2>3. phase' \in {"loading", "loaded"} /\ (phase' = "loading" <=> done' # Len(Steps))
      BY <1>2 DEF StepSucceeds
    <2>4. TypeOK'
      BY <1>2, <1>0, <1>s, <2>2, <2>3, AcquiredTypes DEF StepSucceeds, TypeOK
    <2>5. LoadInv'
      <3>1. held' = {Steps'[i] : i \in 1 .. done'} \ Directions
        BY <1>s, <2>2 DEF Acquired
      <3> QED
        BY <1>2, <1>s, <2>1, <2>2, <2>3, <3>1 DEF StepSucceeds, LoadInv, Acquired
    <2>6. ReleaseInv'
      BY <2>3 DEF ReleaseInv
    <2>7. OpenInv'
      BY <1>2, <1>t, <2>3 DEF StepSucceeds, OpenInv
    <2> QED
      BY <2>4, <2>5, <2>6, <2>7 DEF IInv
  <1>3. CASE StepFails
    <2> DEFINE step == Steps[done + 1]
    <2>1. /\ done \in 0 .. Len(Steps) - 1 /\ held = Acquired(done)
          /\ MayFail(step) /\ step # "timer"
      BY <1>3, <1>l DEF StepFails, LoadInv, TypeOK, MayFail
    <2>2. Fits(done, todo', Forgotten(step))
      BY <1>3, <1>0, <2>1, UndoFits DEF StepFails
    <2>3. step \in Resources /\ step # "none"
      BY <1>0, <2>1, AcquireOne, StepsTypes
    <2>4. Leftover' = Forgotten(step)
      BY <1>3, <1>t, <2>3 DEF StepFails, Leftover, CdevDangles, Forgotten
    <2>5. TypeOK'
      BY <1>3, <1>s, <2>1, <2>2, <2>3 DEF StepFails, TypeOK, Fits
    <2>6. LoadInv'
      BY <1>3 DEF StepFails, LoadInv
    <2>7. ReleaseInv'
      <3>1. Unwinds(todo)' /\ ToSet(todo') \subseteq held /\ held' = held
        BY <1>3, <1>s, <2>1, <2>2 DEF StepFails, Fits, Unwinds
      <3>2. \A r \in ToSet(todo') : Needs(r)' \subseteq held
        BY <1>0, <1>s, <2>1, <3>1, AcquiredIsClosed
      <3> QED
        BY <2>1, <2>2, <2>4, <3>1, <3>2 DEF ReleaseInv, Fits
    <2>8. OpenInv'
      BY <1>3, <1>0, <1>t, <2>1, LateFailure DEF StepFails, OpenInv
    <2> QED
      BY <2>5, <2>6, <2>7, <2>8 DEF IInv
  <1>4. CASE ReleaseNext
    <2>1. /\ Tail(todo) \in Seq(Resources) /\ Unwinds(Tail(todo))
          /\ Head(todo) \in ToSet(todo)
          /\ ToSet(Tail(todo)) = ToSet(todo) \ {Head(todo)}
          /\ \A r \in ToSet(Tail(todo)) : Head(todo) \notin Needs(r)
      BY <1>4, TailUnwinds DEF ReleaseNext, ReleaseInv, TypeOK
    <2>2. todo' = Tail(todo) /\ held' = held \ {Head(todo)}
      BY <1>4 DEF ReleaseNext
    <2>3. TypeOK'
      BY <1>4, <1>s, <2>1, <2>2 DEF ReleaseNext, OutputsReleased, TypeOK
    <2>4. LoadInv'
      BY <1>4 DEF ReleaseNext, LoadInv
    <2>5. ReleaseInv'
      <3>1. Leftover' = Leftover
        BY <1>4 DEF ReleaseNext, Leftover, CdevDangles
      <3>2. Unwinds(todo)'
        BY <1>s, <2>1, <2>2 DEF Unwinds
      <3>3. ToSet(todo') \subseteq held' /\ held' \ ToSet(todo') \subseteq Leftover'
        BY <1>4, <2>1, <2>2, <3>1 DEF ReleaseNext, ReleaseInv
      <3>4. \A r \in ToSet(todo') : Needs(r)' \subseteq held'
        BY <1>4, <1>s, <2>1, <2>2 DEF ReleaseNext, ReleaseInv
      <3> QED
        BY <3>2, <3>3, <3>4 DEF ReleaseInv
    <2>6. OpenInv'
      BY <1>4, <2>2 DEF ReleaseNext, OpenInv
    <2> QED
      BY <2>3, <2>4, <2>5, <2>6 DEF IInv
  <1>5. CASE Ended
    <2>1. TypeOK'
      BY <1>5, <1>s DEF Ended, TypeOK
    <2>2. LoadInv' /\ ReleaseInv'
      BY <1>5 DEF Ended, LoadInv, ReleaseInv
    <2>3. OpenInv'
      BY <1>5 DEF Ended, OpenInv
    <2> QED
      BY <2>1, <2>2, <2>3 DEF IInv
  <1>6. CASE Rmmod
    <2>1. Fits(Len(Steps), todo', IF driver = "slot" THEN {"cdev_mem"} ELSE {})
      BY <1>6, <1>0, ExitFits DEF Rmmod
    <2>2. held = Acquired(Len(Steps)) /\ failed = "none"
      BY <1>6 DEF Rmmod, LoadInv
    <2>3. TypeOK'
      BY <1>6, <1>s, <2>1 DEF Rmmod, TypeOK, Fits
    <2>4. LoadInv'
      BY <1>6, <2>2 DEF Rmmod, LoadInv
    <2>5. ReleaseInv'
      <3>1. Leftover' = IF driver = "slot" THEN {"cdev_mem"} ELSE {}
        BY <1>6, <2>2 DEF Rmmod, Leftover
      <3>2. Unwinds(todo)' /\ ToSet(todo') \subseteq held /\ held' = held
        BY <1>6, <1>s, <2>1, <2>2 DEF Rmmod, Fits, Unwinds
      <3>3. \A r \in ToSet(todo') : Needs(r)' \subseteq held
        BY <1>0, <1>l, <1>s, <2>2, <3>2, AcquiredIsClosed
      <3> QED
        BY <2>1, <2>2, <3>1, <3>2, <3>3 DEF ReleaseInv, Fits
    <2>6. OpenInv'
      BY <1>6 DEF Rmmod, Owner, OpenInv
    <2> QED
      BY <2>3, <2>4, <2>5, <2>6 DEF IInv
  <1>7. CASE OpenDevice \/ CloseDevice \/ WriteDevice \/ UNCHANGED vars
    <2>1. UNCHANGED <<driver, phase, done, todo, held, failed, leaked>>
      BY <1>7 DEF OpenDevice, CloseDevice, WriteDevice, vars
    <2>2. TypeOK'
      BY <1>7, <1>s, <2>1 DEF OpenDevice, CloseDevice, WriteDevice, vars, TypeOK
    <2>3. LoadInv'
      BY <1>s, <2>1 DEF LoadInv, Acquired
    <2>4. ReleaseInv'
      BY <1>s, <2>1 DEF ReleaseInv, Unwinds, Leftover, CdevDangles
    <2>5. OpenInv'
      BY <1>7, <2>1 DEF OpenDevice, CloseDevice, WriteDevice, vars, Owner, OpenInv, LoadInv, TypeOK
    <2> QED
      BY <2>2, <2>3, <2>4, <2>5 DEF IInv
  <1> QED
    BY <1>1, <1>2, <1>3, <1>4, <1>5, <1>6, <1>7 DEF Next

(* The inductive invariant holds in every reachable state.                 *)
THEOREM Invariance == Spec => []IInv
  BY InitInv, NextInv, PTL DEF Spec

-----------------------------------------------------------------------------
(* Whichever modules are studied, every variable keeps its type.           *)
THEOREM TypeCorrect == Spec => []TypeOK
  BY Invariance, PTL DEF IInv

(* Whatever a module holds at a moment of a load, an unwinding or an       *)
(* unload has what it uses, save for two cdevs: that of two error paths of *)
(* parking_init(), and that of the gate, whose file sets a lamp of which   *)
(* the pin is the driver's for no longer than the module is loaded.        *)
THEOREM MeansOutliveUsers == Spec => []UsersHaveTheirMeans
  <1>1. IInv => UsersHaveTheirMeans
    <2> SUFFICES ASSUME TypeOK, LoadInv, ReleaseInv, NEW r \in held
                 PROVE  \/ Uses(r) \subseteq held
                        \/ r = "cdev" /\ CdevDangles
                        \/ r = "cdev" /\ FileOutlivesPins /\ Uses(r) \ held = {"lamps"}
      BY DEF IInv, UsersHaveTheirMeans
    <2>0. driver \in {"gate", "slot", "status"} /\ Len(Steps) \in Nat
      BY DriversConfig, StepsTypes DEF TypeOK
    <2>1. Needs(r) \subseteq held \/ (r = "cdev" /\ CdevDangles)
      <3>1. CASE phase = "out"
        BY <3>1 DEF LoadInv
      <3>2. CASE phase = "loading"
        BY <2>0, <3>2, AcquiredIsClosed DEF LoadInv, TypeOK
      <3>3. CASE phase = "loaded"
        BY <2>0, <3>3, AcquiredIsClosed DEF LoadInv
      <3>4. CASE phase \in {"undoing", "unloading"}
        <4>1. CASE r \in ToSet(todo)
          BY <3>4, <4>1 DEF ReleaseInv
        <4>2. CASE r \in Leftover
          BY <4>2 DEF Leftover, Pins, Needs, Uses
        <4> QED
          BY <3>4, <4>1, <4>2 DEF ReleaseInv
      <3> QED
        BY <3>1, <3>2, <3>3, <3>4 DEF TypeOK
    <2>2. CASE r = "cdev" /\ driver = "gate"
      <3>1. {"region"} \subseteq held \/ CdevDangles
        BY <2>1, <2>2 DEF Needs, Uses
      <3>2. Uses(r) = {"region", "lamps"}
        BY <2>2 DEF Uses
      <3>3. phase = "loaded" => "lamps" \in held
        BY <2>0, <2>2, LampsAcquired DEF LoadInv
      <3> QED
        BY <2>2, <3>1, <3>2, <3>3 DEF FileOutlivesPins
    <2>3. CASE ~(r = "cdev" /\ driver = "gate")
      <3>1. Uses(r) = Needs(r)
        BY <2>0, <2>3 DEF Needs, Uses
      <3> QED
        BY <2>1, <3>1
    <2> QED
      BY <2>2, <2>3
  <1> QED
    BY <1>1, Invariance, PTL

(* Nothing is released that is not held: nothing twice, nothing that was   *)
(* never acquired.                                                         *)
THEOREM OnlyHeldIsReleased == Spec => ReleasesWhatIsHeld
  <1>1. IInv /\ [Next]_vars => [(todo # <<>> /\ todo' # todo) => Head(todo) \in held]_vars
    <2> SUFFICES ASSUME TypeOK, LoadInv, ReleaseInv, Next, todo # <<>>, todo' # todo
                 PROVE  Head(todo) \in held
      BY DEF IInv, vars
    <2>1. phase \in {"undoing", "unloading"}
      BY DEF TypeOK, LoadInv
    <2>2. Head(todo) \in ToSet(todo)
      BY <2>1, TailUnwinds DEF ReleaseInv, TypeOK
    <2> QED
      BY <2>1, <2>2 DEF ReleaseInv
  <1> QED
    BY <1>1, Invariance, PTL DEF Spec, ReleasesWhatIsHeld

(* A load or an unload leaves nothing behind that Leftover does not name.  *)
THEOREM OnlyLeftoversLeak == Spec => LeaksConfined
  <1>1. IInv /\ [Next]_vars => [leaked' # leaked => leaked' \ leaked \subseteq Leftover]_vars
    <2> SUFFICES ASSUME ReleaseInv, Next, leaked' # leaked
                 PROVE  leaked' \ leaked \subseteq Leftover
      BY DEF IInv, vars
    <2>1. Ended
      BY DEF Next, Insmod, StepSucceeds, StepFails, ReleaseNext, Rmmod, OpenDevice,
         CloseDevice, WriteDevice
    <2>2. ToSet(todo) = {}
      BY <2>1 DEF Ended, ToSet
    <2> QED
      BY <2>1, <2>2 DEF Ended, ReleaseInv
  <1> QED
    BY <1>1, Invariance, PTL DEF Spec, LeaksConfined

(* Whoever has /dev/parking or /dev/rpi3_status open has it in a module    *)
(* that is there, unless its load has failed at a late step.               *)
THEOREM OpenFileKeepsModule == Spec => []OpenPinsModule
  <1>1. IInv => OpenPinsModule
    BY DEF IInv, OpenInv, OpenPinsModule
  <1> QED
    BY <1>1, Invariance, PTL

-----------------------------------------------------------------------------
(* In an unload the lamp may be lit as long as the interrupt is still to   *)
(* be freed, after which the clean-up puts it out; no file of a module     *)
(* that is gone is open.                                                   *)
LampInv ==
    /\ driver # "gate" => ~full_led
    /\ phase = "unloading" /\ full_led => "irq" \in ToSet(todo)
    /\ phase = "undoing" => failed # "none"
    /\ phase = "out" => ~open /\ (failed = "none" => ~full_led)

(* Every step keeps it, if no file is open in a module that is going.      *)
LEMMA LampStep ==
    IInv /\ LampInv /\ (open => phase # "unloading") /\ [Next]_vars => LampInv'
  <1> SUFFICES ASSUME TypeOK, LoadInv, ReleaseInv, LampInv, open => phase # "unloading",
                      [Next]_vars
               PROVE  LampInv'
    BY DEF IInv
  <1>0. driver \in {"gate", "slot", "status"}
    BY DriversConfig DEF TypeOK
  <1>1. CASE Insmod
    BY <1>1 DEF Insmod, LampInv
  <1>2. CASE StepSucceeds
    BY <1>2 DEF StepSucceeds, LampInv
  <1>3. CASE StepFails
    <2>1. done \in 0 .. Len(Steps) - 1
      BY <1>3, <1>0, StepsTypes DEF StepFails, LoadInv, TypeOK
    <2>2. Steps[done + 1] # "none"
      BY <1>0, <2>1, AcquireOne, StepsTypes
    <2> QED
      BY <1>3, <2>2 DEF StepFails, LampInv
  <1>4. CASE ReleaseNext
    <2>1. ToSet(Tail(todo)) = ToSet(todo) \ {Head(todo)}
      BY <1>4, TailUnwinds DEF ReleaseNext, ReleaseInv, TypeOK
    <2> QED
      BY <1>4, <2>1 DEF ReleaseNext, OutputsReleased, LampInv
  <1>5. CASE Ended
    <2>1. ToSet(todo) = {}
      BY <1>5 DEF Ended, ToSet
    <2> QED
      BY <1>5, <2>1 DEF Ended, LampInv
  <1>6. CASE Rmmod
    <2>1. driver = "gate" => "irq" \in ToSet(Exit)
      BY DEF Exit, GateExit, HwCleanup, CharCleanup, ToSet
    <2> QED
      BY <1>6, <2>1 DEF Rmmod, LampInv
  <1>7. CASE OpenDevice
    BY <1>7 DEF OpenDevice, LoadInv, LampInv
  <1>8. CASE CloseDevice \/ UNCHANGED vars
    BY <1>8 DEF CloseDevice, vars, LampInv
  <1>9. CASE WriteDevice
    BY <1>9 DEF WriteDevice, LampInv
  <1> QED
    BY <1>1, <1>2, <1>3, <1>4, <1>5, <1>6, <1>7, <1>8, <1>9 DEF Next

(* Unless a file is open during an unload, an unload leaves the lamp out,  *)
(* whatever was written before, also in loads that failed.                 *)
THEOREM LampLeftOut == Spec => LampPutOut
  <1>1. Init => LampInv
    BY DEF Init, LampInv
  <1>2. LampInv => (phase = "out" /\ failed = "none" => ~full_led)
    BY DEF LampInv
  <1> QED
    BY <1>1, <1>2, LampStep, Invariance, PTL DEF Spec, LampPutOut

=============================================================================
