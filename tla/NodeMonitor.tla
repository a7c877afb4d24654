---------------------------- MODULE NodeMonitor -----------------------------
(***************************************************************************)
(* How /proc/rpi3_status comes to say which nodes are alive.  A client on  *)
(* the node publishes a heartbeat every two seconds (rpi1_heartbeat.py and *)
(* .c, rpi2_heartbeat.py and .c); the handler of RPI3                      *)
(* (src/rpi3/mqtt_handler.py) remembers when it saw the last one; two of   *)
(* its threads write what follows from that into the device file of        *)
(* rpi3_status.ko, whose loading and unloading is DriverLifecycle.         *)
(*                                                                         *)
(* One node is followed; the lines of the other are made in the same way   *)
(* from variables of their own.  The clients report no status but online.  *)
(* A behaviour either follows the monitor, with loads that succeed, or is  *)
(* one of DriverLifecycle.                                                 *)
(***************************************************************************)
EXTENDS DriverLifecycle

CONSTANTS
    HeartbeatTimeout,   \* HEARTBEAT_TIMEOUT_SEC, in ticks
    Window              \* QoS 1 messages the MQTT library sends unacknowledged

ASSUME MonitorConfig == HeartbeatTimeout \in Nat \ {0} /\ Window \in Nat \ {0}

VARIABLES
    monitoring,   \* whether this behaviour follows the monitor
    looped,       \* the client runs the library's loop, as the Python ones do
    as_root,      \* the handler may create files in /dev
    alive,        \* the heartbeat client runs
    unacked,      \* heartbeats whose acknowledgement it has not read
    flight,       \* a heartbeat is on its way to the handler
    handler_up,   \* mqtt_handler.py runs
    seen, age,    \* node_last_seen is set, and ticks since then
    text,         \* what each thread of the handler is about to write
    status_buf,   \* the node's line in the module's buffer
    shadow        \* a regular file sits at the path of the device

setting == <<monitoring, looped, as_root>>
client  == <<alive, unacked, flight>>
memory  == <<handler_up, seen, age>>

monitorVars == <<setting, client, memory, text, status_buf, shadow>>
allVars     == <<vars, monitorVars>>

Threads == {"main", "reporter"}
Lines   == {"unknown", "online", "offline"}

(* The handler starts with no node seen, the buffer of a loaded module     *)
(* with unknown.                                                           *)
InitMonitor ==
    /\ Init
    /\ monitoring \in BOOLEAN /\ (monitoring => driver = "status")
    /\ looped \in (IF monitoring THEN BOOLEAN ELSE {TRUE})
    /\ as_root \in (IF monitoring THEN BOOLEAN ELSE {FALSE})
    /\ alive = FALSE /\ unacked = 0 /\ flight = FALSE
    /\ handler_up = FALSE /\ seen = FALSE /\ age = 0
    /\ text = [t \in Threads |-> "none"]
    /\ status_buf = "unknown" /\ shadow = FALSE

-----------------------------------------------------------------------------
(* The node.                                                               *)

(* The client starts or stops, or its host does; there is no last will.    *)
ClientChanges ==
    /\ monitoring
    /\ alive' = ~alive /\ unacked' = 0
    /\ UNCHANGED <<vars, setting, flight, memory, text, status_buf, shadow>>

(* Every two seconds.  Without the library's loop nobody reads the         *)
(* acknowledgements, and with a full window the library sends no more.     *)
Beat ==
    /\ monitoring /\ alive
    /\ looped \/ unacked < Window
    /\ flight' = TRUE
    /\ unacked' = IF looped THEN 0 ELSE unacked + 1
    /\ UNCHANGED <<vars, setting, alive, memory, text, status_buf, shadow>>

BeatLost ==
    /\ flight
    /\ flight' = FALSE
    /\ UNCHANGED <<vars, setting, alive, unacked, memory, text, status_buf, shadow>>

-----------------------------------------------------------------------------
(* The handler.                                                            *)

(* Its memory is gone with it, the line in the module's buffer is not.     *)
HandlerChanges ==
    /\ monitoring
    /\ handler_up' = ~handler_up
    /\ seen' = FALSE /\ age' = 0
    /\ text' = [t \in Threads |-> "none"]
    /\ UNCHANGED <<vars, setting, client, status_buf, shadow>>

(* Mutant: a node once seen stays online.                                  *)
LineForever == IF seen THEN "online" ELSE "unknown"

(* Mutant: the age must stay below the timeout.                            *)
LineStrict ==
    IF ~seen THEN "unknown" ELSE IF age < HeartbeatTimeout THEN "online" ELSE "offline"

(* build_kernel_status() *)
Line ==
    IF ~seen THEN "unknown" ELSE IF age <= HeartbeatTimeout THEN "online" ELSE "offline"

(* handle_heartbeat_message(): the time and the new text, in one go.       *)
HandleHeartbeat ==
    /\ handler_up /\ flight /\ text["main"] = "none"
    /\ flight' = FALSE
    /\ seen' = TRUE /\ age' = 0
    /\ text' = [text EXCEPT !["main"] = "online"]
    /\ UNCHANGED <<vars, setting, alive, unacked, handler_up, status_buf, shadow>>

(* Under status_lock; main does it for every other message, too, and the   *)
(* reporter once a second.                                                 *)
Build(t) ==
    /\ handler_up /\ text[t] = "none"
    /\ text' = [text EXCEPT ![t] = Line]
    /\ UNCHANGED <<vars, setting, client, memory, status_buf, shadow>>

(* An open() of the device file succeeds.                                  *)
DeviceThere == {"cdev", "device"} \subseteq held /\ phase # "unloading"

(* rpi3_status_write() replaces the buffer.                                *)
WriteStatus(t) ==
    status_buf' = IF DeviceThere /\ ~shadow THEN text[t] ELSE status_buf

(* write_kernel_status(), after the lock is given up: the text may be      *)
(* older than the one it replaces.  Errors are swallowed; but a path that  *)
(* does not exist is created as a regular file by a handler that may.      *)
Write(t) ==
    /\ text[t] # "none"
    /\ WriteStatus(t)
    /\ text' = [text EXCEPT ![t] = "none"]
    /\ shadow' = (shadow \/ (as_root /\ "device" \notin held))
    /\ UNCHANGED <<vars, setting, client, memory>>

-----------------------------------------------------------------------------
(* The module; its buffer starts afresh with every load.                   *)
DriverStep ==
    /\ Next
    /\ status_buf' = IF monitoring /\ phase = "out" THEN "unknown" ELSE status_buf
    /\ UNCHANGED <<setting, client, memory, text, shadow>>

(* Loads that fail and files held open are left to the other behaviours.   *)
PlainStep == phase' # "undoing" /\ open' = FALSE

Tick ==
    /\ monitoring
    /\ age' = IF seen /\ age <= HeartbeatTimeout THEN age + 1 ELSE age
    /\ UNCHANGED <<vars, setting, client, handler_up, seen, text, status_buf, shadow>>

NextMonitor ==
    \/ DriverStep /\ (monitoring => PlainStep)
    \/ ClientChanges \/ Beat \/ BeatLost
    \/ HandlerChanges \/ HandleHeartbeat \/ Tick
    \/ \E t \in Threads : Build(t) \/ Write(t)

SpecMonitor == InitMonitor /\ [][NextMonitor]_allVars

(* The threads of a handler that runs do their rounds, and time passes.    *)
(* Nodes, network and administrator owe nothing.                           *)
FairMonitor ==
    /\ SpecMonitor
    /\ WF_allVars(HandleHeartbeat) /\ WF_allVars(Build("reporter"))
    /\ \A t \in Threads : WF_allVars(Write(t))
    /\ WF_allVars(Tick)

-----------------------------------------------------------------------------
(* Properties.                                                             *)

Reporting == phase = "loaded" /\ handler_up /\ ~shadow

(* The node sends no more heartbeats: its client is dead, or it is one of  *)
(* the C clients and has filled its window.                                *)
Silent == ~alive \/ (~looped /\ unacked = Window)

(* A node that has fallen silent is not shown as online for ever, whatever *)
(* text was under way in which thread when it did.                         *)
SilentNodeShown ==
    <>[](monitoring /\ Silent /\ Reporting) => <>[](status_buf # "online")

(* A node whose heartbeats come in time ends up as online, though an older *)
(* text of the other thread may replace a newer one now and then.          *)
LiveNodeShown ==
    <>[](monitoring /\ Reporting /\ seen /\ age <= HeartbeatTimeout)
        => <>[](status_buf = "online")

=============================================================================
