----------------------------- MODULE GateReport -----------------------------
(***************************************************************************)
(* How the state of the gate reaches the broker: poll_gate_state() of      *)
(* src/rpi2/mqtt_bridge.c reads /dev/gate_node every 200 ms, publishes     *)
(* OPEN or CLOSED (retained) when the state has changed and an event when  *)
(* it sees the gate leave IDLE.  The client library sends with QoS 1: a    *)
(* message stays queued until it is acknowledged, and after a broken       *)
(* connection everything that is not is sent again.                        *)
(*                                                                         *)
(* Nothing ties the polls to the steps of the gate, which moves as         *)
(* GateStates allows.                                                      *)
(***************************************************************************)
EXTENDS Naturals, Sequences

CONSTANTS
    MaxQueue,    \* bound: messages the library holds at a time
    MayCrash     \* the bridge may die and be started again

ASSUME ReportConfig == MaxQueue \in Nat /\ MaxQueue >= 2 /\ MayCrash \in BOOLEAN

VARIABLES
    current_state,  \* what a read of /dev/gate_node returns
    bpc,            \* the polling thread: "down", "poll", "gate" or "event"
    prev, cur,      \* its variables: last state published, state just read
    outbox,         \* messages published and not acknowledged, oldest first
    sent,           \* how many of them the broker has already processed
    link,           \* the bridge is connected
    retained,       \* the retained message of parking/rpi2/gate
    backed          \* history: events for which the gate has been opened
                    \* since the last time they were published

bridge  == <<bpc, prev, cur>>
channel == <<outbox, sent, link, retained>>

vars == <<current_state, bridge, channel, backed>>

Gate == INSTANCE GateStates WITH state <- current_state

Events   == {"ENTRY_OPEN", "EXIT_OPEN"}
GateWord == {"OPEN", "CLOSED"}
Known    == Gate!States \cup {"UNKNOWN"}

StateToGate(s) == IF s = "IDLE" THEN "CLOSED" ELSE "OPEN"

(* transition_to_event()                                                   *)
EventOf(from, to) ==
    CASE from = "IDLE" /\ to = "ENTRY_DETECTED" -> "ENTRY_OPEN"
      [] from = "IDLE" /\ to = "EXIT_REQUESTED" -> "EXIT_OPEN"
      [] OTHER -> "none"

Init ==
    /\ Gate!Init
    /\ bpc = "down" /\ prev = "UNKNOWN" /\ cur = "UNKNOWN"
    /\ outbox = <<>> /\ sent = 0 /\ link = FALSE
    /\ retained = "none" /\ backed = {}

-----------------------------------------------------------------------------
(* The gate moves; leaving IDLE is an opening.                             *)
GateMoves ==
    /\ Gate!Next
    /\ backed' = backed \cup ({EventOf(current_state, current_state')} \ {"none"})
    /\ UNCHANGED <<bridge, channel>>

(* Mutant: QoS 0, which drops what is published while disconnected.        *)
PublishedIfLinked(message) == IF link THEN Append(outbox, message) ELSE outbox

Published(message) == Append(outbox, message)

(* nanosleep(), open(), read() and close(); unchanged is not news.         *)
Poll ==
    /\ bpc = "poll" /\ current_state # prev
    /\ cur' = current_state
    /\ bpc' = "gate"
    /\ UNCHANGED <<current_state, prev, channel, backed>>

PublishGate ==
    /\ bpc = "gate" /\ Len(outbox) < MaxQueue
    /\ outbox' = Published(StateToGate(cur))
    /\ bpc' = "event"
    /\ UNCHANGED <<current_state, prev, cur, sent, link, retained, backed>>

NothingToTell ==
    /\ bpc = "event" /\ EventOf(prev, cur) = "none"
    /\ prev' = cur
    /\ bpc' = "poll"
    /\ UNCHANGED <<current_state, cur, channel, backed>>

PublishEvent ==
    /\ bpc = "event" /\ EventOf(prev, cur) # "none" /\ Len(outbox) < MaxQueue
    /\ outbox' = Published(EventOf(prev, cur))
    /\ backed' = backed \ {EventOf(prev, cur)}
    /\ prev' = cur
    /\ bpc' = "poll"
    /\ UNCHANGED <<current_state, cur, sent, link, retained>>

PollThread == Poll \/ PublishGate \/ NothingToTell \/ PublishEvent

(* Mutant: last_state starts as the state of a closed gate.                *)
FirstStateIdle == "IDLE"

FirstState == "UNKNOWN"

(* main() gives up unless it can open the device and connect.              *)
Start ==
    /\ bpc = "down"
    /\ bpc' = "poll" /\ prev' = FirstState /\ cur' = FirstState
    /\ link' = TRUE
    /\ UNCHANGED <<current_state, outbox, sent, retained, backed>>

(* Mutant: what was in flight is taken for delivered.                      *)
InFlightKept == UNCHANGED sent

InFlightLost == sent' = 0

(* A signal or a crash: the queue of the library dies with the process.    *)
Crash ==
    /\ MayCrash /\ bpc # "down"
    /\ bpc' = "down" /\ outbox' = <<>> /\ link' = FALSE
    /\ InFlightLost
    /\ UNCHANGED <<current_state, prev, cur, retained, backed>>

-----------------------------------------------------------------------------
(* Mutant: a broken connection empties the queue.                          *)
RequeuedNone == <<>>

Requeued == outbox

LinkDown ==
    /\ link
    /\ link' = FALSE
    /\ outbox' = Requeued
    /\ InFlightLost
    /\ UNCHANGED <<current_state, bridge, retained, backed>>

LinkUp ==
    /\ ~link /\ bpc # "down"
    /\ link' = TRUE
    /\ UNCHANGED <<current_state, bridge, outbox, sent, retained, backed>>

(* The broker takes the next message; only the gate topic is retained.     *)
Deliver ==
    /\ link /\ sent < Len(outbox)
    /\ sent' = sent + 1
    /\ retained' = IF outbox[sent'] \in GateWord THEN outbox[sent'] ELSE retained
    /\ UNCHANGED <<current_state, bridge, outbox, link, backed>>

Acknowledge ==
    /\ link /\ sent > 0
    /\ outbox' = Tail(outbox) /\ sent' = sent - 1
    /\ UNCHANGED <<current_state, bridge, link, retained, backed>>

Next ==
    \/ GateMoves \/ PollThread \/ Start \/ Crash
    \/ LinkDown \/ LinkUp \/ Deliver \/ Acknowledge

Spec == Init /\ [][Next]_vars

(* The polling thread runs, and a connection that stays up moves messages. *)
(* The gate, the administrator and the network owe nothing.                *)
Fairness == WF_vars(PollThread) /\ WF_vars(Deliver) /\ WF_vars(Acknowledge)

FairSpec == Spec /\ Fairness

-----------------------------------------------------------------------------
(* Properties.                                                             *)

(* Types; what the broker has processed is part of what is queued.         *)
TypeOK ==
    /\ current_state \in Gate!States
    /\ bpc \in {"down", "poll", "gate", "event"} /\ prev \in Known /\ cur \in Known
    /\ outbox \in Seq(GateWord \cup Events) /\ Len(outbox) <= MaxQueue
    /\ sent \in 0 .. Len(outbox)
    /\ link \in BOOLEAN /\ retained \in GateWord \cup {"none"} /\ backed \subseteq Events

(* Where in the queue the gate words are; the events are not retained.     *)
GateWords == {i \in 1 .. Len(outbox) : outbox[i] \in GateWord}

(* w is the gate word the broker will retain once the queue has drained.   *)
LastWordIs(w) ==
    IF GateWords = {} THEN retained = w
    ELSE \E i \in GateWords : outbox[i] = w /\ \A j \in GateWords : j <= i

(* Whatever connections break and whatever is sent twice, the last word    *)
(* the broker gets is the one for the state the bridge has last published. *)
LastWordTells ==
    bpc = "poll" /\ prev # "UNKNOWN" => LastWordIs(StateToGate(prev))

(* An event is published only for an opening of its own: no restart and no *)
(* state that a poll has missed makes the bridge announce one that was not *)
(* there, or one opening twice.                                            *)
EventsBacked ==
    [][\A event \in Events :
         outbox' = Append(outbox, event) => event \in backed]_vars

(* If the gate comes to rest and the connection stays, the retained word   *)
(* settles on its state.                                                   *)
GateSettles ==
    \A s \in Gate!States :
        <>[](current_state = s /\ link /\ bpc # "down")
            => <>[](retained = StateToGate(s))

-----------------------------------------------------------------------------
(* "RPI2는 출차 스위치 입력을 감지하면 게이트를 OPEN하고 EXIT_OPEN 이벤트를      *)
(* 발행한다" (docs/MQTT_TOPICS.md): an opening by the switch of a gate that   *)
(* the running bridge knows to be closed is announced.                     *)
ExitAnnounced ==
    <>[](link /\ bpc # "down") =>
        ((bpc = "poll" /\ prev = "IDLE" /\ current_state = "EXIT_REQUESTED")
            ~> "EXIT_OPEN" \notin backed)

=============================================================================
