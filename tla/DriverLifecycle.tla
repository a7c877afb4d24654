--------------------------- MODULE DriverLifecycle ---------------------------
(***************************************************************************)
(* Loading and unloading of the three kernel modules: gate_node.ko         *)
(* (gate_node_init, gate_hw_init, gate_node_exit, gate_hw_cleanup),        *)
(* parking.ko (parking_init, parking_exit) and rpi3_status.ko.  Any step   *)
(* of a load that the code tests for an error may fail, and the code then  *)
(* unwinds what it has acquired; the tables below are these functions read *)
(* as lists.                                                               *)
(*                                                                         *)
(* Pins that are requested and freed together are one resource.            *)
(***************************************************************************)
EXTENDS Naturals, Sequences, SequencesExt

CONSTANT Drivers     \* the modules under study, out of the three

ASSUME DriversConfig == Drivers \subseteq {"gate", "slot", "status"}

VARIABLES
    driver,   \* which of the modules this behaviour is about
    phase,    \* "out", "loading", "undoing", "loaded" or "unloading"
    done,     \* steps of the load that have succeeded
    todo,     \* releases that are still to be made, in order
    held,     \* resources the loaded module owns
    failed,   \* the step at which the last load failed, or "none"
    open,     \* a process has the device file of the present module open
    full_led, \* the lamp that tells a full lot is lit (gate)
    leaked    \* resources earlier loads left behind

vars == <<driver, phase, done, todo, held, failed, open, full_led, leaked>>

-----------------------------------------------------------------------------
(* What the functions acquire, in order.  "outputs" and "inputs" only set  *)
(* directions of pins but may fail, too.                                   *)
HwSteps == <<"stepper", "lamps", "ultrasonic", "switch", "outputs", "inputs", "irq">>

CharSteps == <<"region", "cdev", "class", "device">>

GateSteps == CharSteps \o HwSteps \o <<"thread">>

StatusSteps == CharSteps \o <<"proc">>

SlotSteps ==
    <<"gpio", "motor1", "motor2", "btn", "wq", "echo_irq1", "echo_irq2", "btn_irq1",
      "btn_irq2", "region", "cdev_mem", "cdev", "class", "device", "timer">>

Steps ==
    CASE driver = "gate" -> GateSteps
      [] driver = "slot" -> SlotSteps
      [] driver = "status" -> StatusSteps

Directions == {"outputs", "inputs"}

(* Mutant: starting the timer is tested for an error like the rest.        *)
MayFailAll(step) == TRUE

(* timer_setup() and mod_timer() have no result to test.                   *)
MayFail(step) == step # "timer"

Pins == {"stepper", "lamps", "ultrasonic", "switch", "gpio", "motor1", "motor2", "btn"}

(* Mutant: the pin of the switch is not in all_pins.                       *)
HwCleanupShort == <<"irq", "stepper", "lamps", "ultrasonic">>

(* gate_hw_cleanup(): the interrupt, then the pins that are allocated.     *)
HwCleanup == <<"irq", "stepper", "lamps", "ultrasonic", "switch">>

(* Mutant: the class is destroyed twice, as on the path of a failed device.*)
CharCleanupTwice == <<"device", "class", "class", "cdev", "region">>

CharCleanup == <<"device", "class", "cdev", "region">>

(* What a failure releases while the device file is being made, in both    *)
(* modules that make it first.                                             *)
CharUndo(step) ==
    CASE step = "region" -> <<>>
      [] step = "cdev"   -> <<"region">>
      [] step = "class"  -> <<"cdev", "region">>
      [] step = "device" -> <<"class", "cdev", "region">>

(* The error branches of gate_node_init().  A failed gate_hw_init() itself *)
(* returns at its label `cleanup' without releasing anything.              *)
GateUndo(step) ==
    CASE step \in ToSet(CharSteps) -> CharUndo(step)
      [] step \in ToSet(HwSteps)   -> CharCleanup
      [] step = "thread"           -> HwCleanup \o CharCleanup

(* The labels of rpi3_status_init().                                       *)
StatusUndo(step) == IF step = "proc" THEN CharCleanup ELSE CharUndo(step)

(* Mutant: the workqueue is destroyed before the interrupts are freed.     *)
SlotLabelsQueueFirst ==
    <<"cdev_mem", "region", "wq", "btn_irq1", "btn_irq2", "echo_irq1", "echo_irq2", "btn",
      "motor2", "motor1", "gpio">>

(* The chain of labels err_cdev ... err_gpio of parking_init().            *)
SlotLabels ==
    <<"cdev_mem", "region", "btn_irq1", "btn_irq2", "echo_irq1", "echo_irq2", "wq", "btn",
      "motor2", "motor1", "gpio">>

From(i) == SubSeq(SlotLabels, i, Len(SlotLabels))

(* Where each failure of parking_init() enters the chain.                  *)
SlotUndo(step) ==
    CASE step = "gpio"      -> <<>>
      [] step = "motor1"    -> From(11)
      [] step = "motor2"    -> From(10)
      [] step = "btn"       -> From(9)
      [] step = "wq"        -> From(8)
      [] step = "echo_irq1" -> From(7)
      [] step = "echo_irq2" -> <<"echo_irq1">> \o From(7)
      [] step = "btn_irq1"  -> From(5)
      [] step = "btn_irq2"  -> <<"btn_irq1">> \o From(5)
      [] step = "region"    -> From(3)
      [] step = "cdev_mem"  -> From(2)
      [] step = "device"    -> <<"class">> \o From(1)
      [] OTHER              -> From(1)

Undo(step) ==
    CASE driver = "gate" -> GateUndo(step)
      [] driver = "slot" -> SlotUndo(step)
      [] driver = "status" -> StatusUndo(step)

(* The exit functions.  In parking_exit(), cdev_init() has made the cdev   *)
(* of cdev_alloc() a static one, whose memory cdev_del() does not free.    *)
GateExit == <<"thread">> \o HwCleanup \o CharCleanup

SlotExit ==
    <<"timer", "echo_irq1", "echo_irq2", "btn_irq1", "btn_irq2", "wq", "device", "class",
      "cdev", "region", "btn", "motor2", "motor1", "gpio">>

StatusExit == <<"proc">> \o CharCleanup

Exit ==
    CASE driver = "gate" -> GateExit
      [] driver = "slot" -> SlotExit
      [] driver = "status" -> StatusExit

(* What a resource uses while it is active: the thread drives all pins and *)
(* reads the flag of the interrupt; interrupts of parking.ko queue works   *)
(* and read pins, the works turn motors and set LEDs, the timer fires the  *)
(* sensors and relies on the echoes to be seen.  A device file can be used *)
(* as long as its cdev is there, with or without a node in /dev; that of   *)
(* the gate sets the full LED.                                             *)
Uses(r) ==
    CASE r = "thread" -> {"stepper", "lamps", "ultrasonic", "switch", "irq"}
      [] r = "irq"    -> {"switch"}
      [] r \in {"echo_irq1", "echo_irq2"} -> {"wq", "gpio"}
      [] r \in {"btn_irq1", "btn_irq2"}   -> {"wq", "btn"}
      [] r = "wq"     -> {"gpio", "motor1", "motor2"}
      [] r = "timer"  -> {"gpio", "echo_irq1", "echo_irq2", "wq"}
      [] r = "device" -> {"class", "cdev", "region"}
      [] r = "cdev"   -> {"region"} \cup (CASE driver = "slot" -> {"cdev_mem"}
                                           [] driver = "gate" -> {"lamps"}
                                           [] OTHER -> {})
      [] OTHER        -> {}

-----------------------------------------------------------------------------
Init ==
    /\ driver \in Drivers
    /\ phase = "out" /\ done = 0 /\ todo = <<>> /\ held = {} /\ failed = "none"
    /\ open = FALSE /\ full_led = FALSE /\ leaked = {}

Insmod ==
    /\ phase = "out"
    /\ phase' = "loading" /\ done' = 0 /\ failed' = "none"
    /\ UNCHANGED <<driver, todo, held, open, full_led, leaked>>

(* A pin that is taken is refused to the next request.  Outputs start low. *)
StepSucceeds ==
    LET step == Steps[done + 1]
    IN  /\ phase = "loading"
        /\ step \notin Pins \cap leaked
        /\ held' = held \cup ({step} \ Directions)
        /\ done' = done + 1
        /\ phase' = IF done' = Len(Steps) THEN "loaded" ELSE "loading"
        /\ full_led' = (full_led /\ step # "outputs")
        /\ UNCHANGED <<driver, todo, failed, open, leaked>>

StepFails ==
    LET step == Steps[done + 1]
    IN  /\ phase = "loading" /\ MayFail(step)
        /\ failed' = step
        /\ todo' = Undo(step)
        /\ phase' = "undoing"
        /\ UNCHANGED <<driver, done, held, open, full_led, leaked>>

(* Mutant: gate_hw_cleanup() leaves the outputs as they are.               *)
OutputsKept == full_led

(* gate_hw_cleanup() puts its outputs out between interrupt and pins.      *)
OutputsReleased == full_led /\ Head(todo) # "irq"

ReleaseNext ==
    /\ phase \in {"undoing", "unloading"} /\ todo # <<>>
    /\ held' = held \ {Head(todo)}
    /\ todo' = Tail(todo)
    /\ full_led' = OutputsReleased
    /\ UNCHANGED <<driver, phase, done, failed, open, leaked>>

(* The module's memory goes; what it still holds is out of reach for good, *)
(* and a file still open leads nowhere: it is not followed any further.    *)
Ended ==
    /\ phase \in {"undoing", "unloading"} /\ todo = <<>>
    /\ phase' = "out"
    /\ leaked' = leaked \cup held /\ held' = {}
    /\ open' = FALSE
    /\ UNCHANGED <<driver, done, todo, failed, full_led>>

(* Mutant: file operations without .owner.                                 *)
NoOwner == FALSE

(* parking_fops and rpi3_status_fops name their owner, which an open file  *)
(* pins; gate_fops does not.                                               *)
Owner == driver # "gate"

Rmmod ==
    /\ phase = "loaded" /\ ~(Owner /\ open)
    /\ phase' = "unloading"
    /\ todo' = Exit
    /\ UNCHANGED <<driver, done, held, failed, open, full_led, leaked>>

(* A user process opens the device, for which a node made with mknod will  *)
(* do.  Once a module with an owner is being unloaded, open() is refused.  *)
OpenDevice ==
    /\ ~open /\ "cdev" \in held
    /\ Owner => phase # "unloading"
    /\ open' = TRUE
    /\ UNCHANGED <<driver, phase, done, todo, held, failed, full_led, leaked>>

CloseDevice ==
    /\ open
    /\ open' = FALSE
    /\ UNCHANGED <<driver, phase, done, todo, held, failed, full_led, leaked>>

(* gate_device_write(): FULL or AVAILABLE sets the lamp, whatever else the *)
(* module is about.                                                        *)
WriteDevice ==
    /\ driver = "gate" /\ open
    /\ full_led' \in BOOLEAN
    /\ UNCHANGED <<driver, phase, done, todo, held, failed, open, leaked>>

Next ==
    \/ Insmod \/ StepSucceeds \/ StepFails \/ ReleaseNext \/ Ended \/ Rmmod
    \/ OpenDevice \/ CloseDevice \/ WriteDevice

Spec == Init /\ [][Next]_vars

-----------------------------------------------------------------------------
(* Properties.                                                             *)

Resources == ToSet(GateSteps) \cup ToSet(SlotSteps) \cup ToSet(StatusSteps)

(* Every variable has its type.                                            *)
TypeOK ==
    /\ driver \in Drivers
    /\ phase \in {"out", "loading", "undoing", "loaded", "unloading"}
    /\ done \in 0 .. Len(Steps) /\ todo \in Seq(Resources)
    /\ held \subseteq ToSet(Steps) \ Directions
    /\ failed \in (Resources \ {"timer"}) \cup {"none"}
    /\ open \in BOOLEAN /\ full_led \in BOOLEAN
    /\ leaked \subseteq ToSet(Steps) \ Directions

(* What parking_init() does after a failure of class_create() or           *)
(* device_create(): it frees the memory of a cdev that is still in the     *)
(* kernel's map.                                                           *)
CdevDangles == driver = "slot" /\ failed \in {"class", "device"}

(* gate_node_init() adds the cdev before it requests the pins, and every   *)
(* way back removes it after them: for a while of each load and each       *)
(* unload the lamp of a write is not, or no longer, the driver's.          *)
FileOutlivesPins == driver = "gate" /\ phase # "loaded"

(* At no moment of a load, an unwinding or an unload is something active   *)
(* whose means are gone: no handler queues on a destroyed workqueue, no    *)
(* thread or work drives a freed pin.  There are two exceptions, both of a *)
(* cdev: CdevDangles, and the lamps in FileOutlivesPins.                   *)
UsersHaveTheirMeans ==
    \A r \in held :
        \/ Uses(r) \subseteq held
        \/ r = "cdev" /\ CdevDangles
        \/ r = "cdev" /\ FileOutlivesPins /\ Uses(r) \ held = {"lamps"}

(* Nothing is released twice or without having been acquired, on none of   *)
(* the error paths and on no unload.                                       *)
ReleasesWhatIsHeld ==
    [][(todo # <<>> /\ todo' # todo) => Head(todo) \in held]_vars

(* What the last load leaves behind: the struct cdev of parking.ko after an *)
(* unload; after a failed load the pins (never the interrupt) of a failed  *)
(* gate_hw_init(), and the cdev of CdevDangles.                            *)
Leftover ==
    IF failed = "none" THEN IF driver = "slot" THEN {"cdev_mem"} ELSE {}
    ELSE IF failed \in ToSet(HwSteps) THEN Pins
    ELSE IF CdevDangles THEN {"cdev"} ELSE {}

(* Nothing stays behind after an unload or a failed load but what is named *)
(* above.                                                                  *)
LeaksConfined == [][leaked' # leaked => leaked' \ leaked \subseteq Leftover]_vars

(* The steps of parking.ko and rpi3_status.ko that may fail when the cdev  *)
(* is already there.                                                       *)
LateSteps == {"class", "device", "proc"}

(* A process in the file operations of parking.ko or rpi3_status.ko never  *)
(* finds itself in a module that is gone or going, unless the load failed  *)
(* at one of the late steps: an open file keeps the module loaded, and     *)
(* every other step that can fail comes before the cdev.                   *)
OpenPinsModule ==
    driver # "gate" /\ open => phase \in {"loading", "loaded"} \/ failed \in LateSteps

(* The pins keep their last state when they are freed (gate_hw.c:346), so  *)
(* the clean-up has to leave the lamp out, whatever was written while the  *)
(* module was loaded or coming.  What is written beside the clean-up stays *)
(* as it is: hence the premise that no file is open then.                  *)
LampPutOut ==
    [](open => phase # "unloading") => [](phase = "out" /\ failed = "none" => ~full_led)

-----------------------------------------------------------------------------
(* "초기화 중 실패 시 cleanup도 gate_hw_cleanup에서 처리" (gate_hw.c): what a   *)
(* failed initialisation holds is released like on unload.                 *)
FailedLoadReleases == driver = "gate" => leaked = {}

=============================================================================
