----------------------------- MODULE LotStatus ------------------------------
(***************************************************************************)
(* How "FULL" and "AVAILABLE" travel from the slots to those who act on    *)
(* them.  The daemon of RPI1 (src/rpi1/rpi1_parking_mqtt.c) reads          *)
(* /dev/parking, which behaves as SlotFeed promises, and publishes a       *)
(* retained word with QoS 1.  Three receivers subscribe to it: the bridge  *)
(* of RPI2, which writes it to /dev/gate_node for the full LED, the        *)
(* handler of RPI3, which logs it in the database, and a dashboard page,   *)
(* which shows it live and asks the database once for a first answer.      *)
(*                                                                         *)
(* The slot and distance publications of a report precede its lot word on  *)
(* the same connections and are not followed.  Either the bridge is at     *)
(* work or the other two: the bridge shares nothing with them but the      *)
(* broker.                                                                 *)
(***************************************************************************)
EXTENDS Naturals, Sequences

CONSTANTS
    Slots,       \* the parking spaces
    MaxQueue,    \* bound: messages that wait in the daemon's client library
    MaxFlight    \* bound: messages on their way to one receiver

ASSUME LotConfig == MaxQueue \in Nat \ {0} /\ MaxFlight \in Nat \ {0}

VARIABLES
    occupied, report, due,    \* /dev/parking, see SlotFeed
    dpc,          \* the daemon: "down", "read" or "publish"
    link,         \* the daemon is connected
    outbox,       \* words published and not acknowledged, oldest first
    sent,         \* how many of them the broker has already processed
    retained,     \* the retained message of parking/rpi1/lot
    at_work,      \* the receivers that exist
    up,           \* those that are subscribed
    flight,       \* words on their way to each receiver
    view,         \* what each makes of the lot: LED, latest row, page
    fetch,        \* the page's request: "none", "asked" or the answer under way
    broken,       \* history: no word was published since a report was lost
    overwritten   \* history: an answer has replaced a live word on the page

feed    == <<occupied, report, due>>
daemon  == <<dpc, broken>>
channel == <<link, outbox, sent, retained>>
ends    == <<at_work, up, flight, view, fetch, overwritten>>

vars == <<feed, daemon, channel, ends>>

Feed == INSTANCE SlotFeed

Receivers == {"bridge", "handler", "dashboard"}
LotWord   == {"FULL", "AVAILABLE"}

(* (s1 && s2) ? "FULL" : "AVAILABLE"                                       *)
WordFor(slots) == IF \A s \in Slots : slots[s] THEN "FULL" ELSE "AVAILABLE"

(* capacity_full is 0 and the LED dark until the first FULL: that is what  *)
(* a driver reads as AVAILABLE.  Database and page begin without a word.   *)
Init ==
    /\ Feed!Init
    /\ dpc = "down" /\ link = FALSE /\ outbox = <<>> /\ sent = 0
    /\ retained = "none"
    /\ at_work \in {{"bridge"}, {"handler", "dashboard"}}
    /\ up = [r \in Receivers |-> FALSE]
    /\ flight = [r \in Receivers |-> <<>>]
    /\ view = [r \in Receivers |-> IF r = "bridge" THEN "AVAILABLE" ELSE "none"]
    /\ fetch = "none"
    /\ broken = TRUE /\ overwritten = FALSE

-----------------------------------------------------------------------------
(* The driver and the daemon.                                              *)

SlotChanges ==
    /\ \E s \in Slots : Feed!Change(s)
    /\ UNCHANGED <<daemon, channel, ends>>

(* parking.ko is unloaded and loaded again, which the open device of a     *)
(* running daemon forbids; the slots start as empty, the broker is not     *)
(* told.                                                                   *)
ReloadDriver ==
    /\ dpc = "down"
    /\ occupied' = [s \in Slots |-> FALSE] /\ report' = occupied' /\ due' = 0
    /\ broken' = TRUE
    /\ UNCHANGED <<dpc, channel, ends>>

(* main() gives up unless it can connect and open the device.              *)
StartDaemon ==
    /\ dpc = "down"
    /\ dpc' = "read" /\ link' = TRUE
    /\ UNCHANGED <<feed, broken, outbox, sent, retained, ends>>

ReadDevice ==
    /\ dpc = "read"
    /\ Feed!Read
    /\ dpc' = "publish"
    /\ UNCHANGED <<broken, channel, ends>>

(* Mutant: QoS 0, which drops what is published while disconnected.        *)
PublishedIfLinked(w) == IF link THEN Append(outbox, w) ELSE outbox

Published(w) == Append(outbox, w)

PublishLot ==
    /\ dpc = "publish" /\ Len(outbox) < MaxQueue
    /\ outbox' = Published(WordFor(report))
    /\ broken' = FALSE
    /\ dpc' = "read"
    /\ UNCHANGED <<feed, link, sent, retained, ends>>

(* Mutant: the library of the next daemon starts in the middle of a queue. *)
SentKept == UNCHANGED sent

SentLost == sent' = 0

(* A signal or a crash: the report that was read and the queue of the      *)
(* library are lost with the process, the driver's flag stays cleared.     *)
DaemonEnds ==
    /\ dpc # "down"
    /\ dpc' = "down" /\ link' = FALSE /\ outbox' = <<>> /\ SentLost
    /\ broken' = (broken \/ dpc = "publish" \/ sent < Len(outbox))
    /\ UNCHANGED <<feed, retained, ends>>

Daemon == ReadDevice \/ PublishLot

-----------------------------------------------------------------------------
(* The daemon's connection to the broker.                                  *)

LinkDown ==
    /\ link
    /\ link' = FALSE /\ SentLost
    /\ UNCHANGED <<feed, daemon, outbox, retained, ends>>

LinkUp ==
    /\ ~link /\ dpc # "down"
    /\ link' = TRUE
    /\ UNCHANGED <<feed, daemon, outbox, sent, retained, ends>>

(* The broker retains the next word and passes it to every subscriber.     *)
Deliver ==
    /\ link /\ sent < Len(outbox)
    /\ \A r \in Receivers : Len(flight[r]) < MaxFlight
    /\ sent' = sent + 1
    /\ retained' = outbox[sent']
    /\ flight' = [r \in Receivers |->
                    IF up[r] THEN Append(flight[r], retained') ELSE flight[r]]
    /\ UNCHANGED <<feed, daemon, link, outbox, at_work, up, view, fetch, overwritten>>

Acknowledge ==
    /\ link /\ sent > 0
    /\ outbox' = Tail(outbox) /\ sent' = sent - 1
    /\ UNCHANGED <<feed, daemon, link, retained, ends>>

-----------------------------------------------------------------------------
(* The receivers.                                                          *)

(* Mutant: a new subscriber waits for the next change.                     *)
NothingYet == <<>>

(* What the broker sends to a new subscription.                            *)
FirstWord == IF retained = "none" THEN <<>> ELSE <<retained>>

(* on_connect() subscribes, after every start and every reconnection.      *)
Subscribe(r) ==
    /\ r \in at_work /\ ~up[r]
    /\ up' = [up EXCEPT ![r] = TRUE]
    /\ flight' = [flight EXCEPT ![r] = FirstWord]
    /\ UNCHANGED <<feed, daemon, channel, at_work, view, fetch, overwritten>>

(* The connection breaks or the process ends.  No session is kept: what    *)
(* was under way is lost.  An exception of the database ends the handler   *)
(* in this way, with the message it had in hand.                           *)
Drop(r) ==
    /\ up[r]
    /\ up' = [up EXCEPT ![r] = FALSE]
    /\ flight' = [flight EXCEPT ![r] = <<>>]
    /\ UNCHANGED <<feed, daemon, channel, at_work, view, fetch, overwritten>>

Take(r) ==
    /\ up[r] /\ flight[r] # <<>>
    /\ flight' = [flight EXCEPT ![r] = Tail(@)]
    /\ view' = [view EXCEPT ![r] = Head(flight[r])]
    /\ UNCHANGED <<feed, daemon, channel, at_work, up, fetch>>

(* on_message() writes the payload to the device; gate_device_write() sets *)
(* capacity_full and the LED.                                              *)
BridgeTakes == Take("bridge") /\ UNCHANGED overwritten

(* insert_lot_log() *)
HandlerTakes == Take("handler") /\ UNCHANGED overwritten

(* handleMqttMessage() *)
DashboardTakes == Take("dashboard") /\ overwritten' = FALSE

(* gate_node.ko is loaded anew, between two runs of the bridge.  Nothing   *)
(* enforces that (gate_fops has no .owner); the file that a running bridge *)
(* keeps open through an unload leads nowhere and is not followed.         *)
ReloadGate ==
    /\ ~up["bridge"]
    /\ view' = [view EXCEPT !["bridge"] = "AVAILABLE"]
    /\ UNCHANGED <<feed, daemon, channel, at_work, up, flight, fetch, overwritten>>

(* The page is loaded: fetchState() and connectMqtt() start side by side.  *)
OpenPage ==
    /\ "dashboard" \in at_work
    /\ view' = [view EXCEPT !["dashboard"] = "none"]
    /\ up' = [up EXCEPT !["dashboard"] = FALSE]
    /\ flight' = [flight EXCEPT !["dashboard"] = <<>>]
    /\ fetch' = "asked" /\ overwritten' = FALSE
    /\ UNCHANGED <<feed, daemon, channel, at_work>>

(* /api/state reads the latest row, or says UNKNOWN when there is none.    *)
Answer ==
    /\ fetch = "asked"
    /\ fetch' = IF view["handler"] = "none" THEN "UNKNOWN" ELSE view["handler"]
    /\ UNCHANGED <<feed, daemon, channel, at_work, up, flight, view, overwritten>>

(* An HTTP error: the page stays as it is.                                 *)
NoAnswer ==
    /\ fetch # "none"
    /\ fetch' = "none"
    /\ UNCHANGED <<feed, daemon, channel, at_work, up, flight, view, overwritten>>

(* applyState() replaces what the page shows, live words included.         *)
ApplyState ==
    /\ fetch \in LotWord \cup {"UNKNOWN"}
    /\ view' = [view EXCEPT !["dashboard"] = fetch]
    /\ overwritten' = (view["dashboard"] \notin {"none", fetch})
    /\ fetch' = "none"
    /\ UNCHANGED <<feed, daemon, channel, at_work, up, flight>>

Takes == BridgeTakes \/ HandlerTakes \/ DashboardTakes

Next ==
    \/ SlotChanges \/ ReloadDriver \/ StartDaemon \/ Daemon \/ DaemonEnds
    \/ LinkDown \/ LinkUp \/ Deliver \/ Acknowledge
    \/ \E r \in Receivers : Subscribe(r) \/ Drop(r)
    \/ Takes \/ ReloadGate
    \/ OpenPage \/ Answer \/ NoAnswer \/ ApplyState

Spec == Init /\ [][Next]_vars

(* The running programs run, and connections that stay up move messages.   *)
(* Cars, networks, administrators and the readers of the page owe nothing. *)
(* Deliver is strongly fair because of MaxFlight: a receiver that comes    *)
(* and goes does not keep the broker from serving the others.              *)
Fairness ==
    /\ WF_vars(Daemon) /\ SF_vars(Deliver) /\ WF_vars(Acknowledge)
    /\ WF_vars(BridgeTakes) /\ WF_vars(HandlerTakes) /\ WF_vars(DashboardTakes)
    /\ WF_vars(Answer \/ NoAnswer \/ ApplyState)

FairSpec == Spec /\ Fairness

-----------------------------------------------------------------------------
(* Properties.                                                             *)

(* Types; what the broker has processed is part of what is queued, and     *)
(* only a subscriber has messages under way.                               *)
TypeOK ==
    /\ occupied \in [Slots -> BOOLEAN] /\ report \in [Slots -> BOOLEAN] /\ due \in 0 .. Feed!MostDue
    /\ dpc \in {"down", "read", "publish"} /\ broken \in BOOLEAN
    /\ link \in BOOLEAN /\ (link => dpc # "down")
    /\ outbox \in Seq(LotWord) /\ Len(outbox) <= MaxQueue /\ sent \in 0 .. Len(outbox)
    /\ retained \in LotWord \cup {"none"}
    /\ at_work \subseteq Receivers /\ up \in [Receivers -> BOOLEAN]
    /\ flight \in [Receivers -> Seq(LotWord)]
    /\ \A r \in Receivers : /\ Len(flight[r]) <= MaxFlight
                            /\ flight[r] # <<>> => up[r] /\ r \in at_work
    /\ view \in [Receivers -> LotWord \cup {"none", "UNKNOWN"}]
    /\ fetch \in LotWord \cup {"none", "asked", "UNKNOWN"}
    /\ overwritten \in BOOLEAN

(* The word the broker will retain once the queue has drained.             *)
LastWord == IF outbox = <<>> THEN retained ELSE outbox[Len(outbox)]

(* With the broker done and nothing under way to it, a subscriber has what *)
(* is retained; except a page whose live word an answer has replaced.      *)
ViewTells(r) ==
    (/\ sent = Len(outbox) /\ up[r] /\ flight[r] = <<>>
     /\ ~(r = "dashboard" /\ overwritten)) => view[r] = retained

(* Whatever connections break, whatever is sent twice and however often    *)
(* daemon, receivers and page are restarted: when no report of the driver  *)
(* is due, the last word on its way is the right one, and LED, database    *)
(* and page have it once it has come through, unless a report died with    *)
(* the daemon or the driver was reloaded and nothing was published since.  *)
LotWordTells ==
    dpc # "publish" /\ due = 0 /\ ~broken =>
        LastWord = WordFor(occupied) /\ \A r \in Receivers : ViewTells(r)

(* Once the slots come to rest and the connections hold,                   *)
(* everyone ends up with the right word, though they began at different    *)
(* times and missed different messages; except a page whose late answer    *)
(* from the database has replaced a live word.                             *)
ViewsSettle ==
    \A r \in Receivers, w \in LotWord :
        (/\ <>[][~SlotChanges]_vars
         /\ <>[](WordFor(occupied) = w /\ dpc # "down" /\ link /\ ~broken /\ up[r]))
            => <>[](view[r] = w \/ (r = "dashboard" /\ overwritten))

=============================================================================
