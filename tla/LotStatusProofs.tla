-------------------------- MODULE LotStatusProofs ---------------------------
(***************************************************************************)
(* Proofs about LotStatus, for any set of slots and any bounds.            *)
(***************************************************************************)
EXTENDS LotStatus, TLAPS

(* What SlotFeed promises a reader: with nothing due, the report is true.  *)
FeedInv == due = 0 => report = occupied

(* What the broker has last processed of the queue is what it retains.     *)
RetainInv == sent > 0 => retained = outbox[sent]

(* Between two rounds of the daemon the last word is the one for the last  *)
(* report, unless a report was lost.                                       *)
WordInv == dpc # "publish" /\ ~broken => LastWord = WordFor(report)

(* Only those who exist subscribe.                                         *)
WorkInv == \A r \in Receivers : up[r] => r \in at_work

(* The newest word under way to a receiver is the retained one, and a      *)
(* subscriber with nothing under way has it, but for an overwritten page,  *)
(* which has had its answer and gets no other.                             *)
ViewInv ==
    /\ overwritten => fetch = "none"
    /\ \A r \in Receivers :
         /\ flight[r] # <<>> => flight[r][Len(flight[r])] = retained
         /\ (/\ up[r] /\ flight[r] = <<>> /\ retained # "none"
             /\ ~(r = "dashboard" /\ overwritten)) => view[r] = retained

IInv == TypeOK /\ FeedInv /\ RetainInv /\ WordInv /\ WorkInv /\ ViewInv

-----------------------------------------------------------------------------
(* TypeOK in the two halves that the steps of the two sides disturb: from  *)
(* the slots to the broker, and from the broker to the receivers.          *)
SourceTypes ==
    /\ occupied \in [Slots -> BOOLEAN] /\ report \in [Slots -> BOOLEAN] /\ due \in 0 .. 3
    /\ dpc \in {"down", "read", "publish"} /\ broken \in BOOLEAN
    /\ link \in BOOLEAN /\ (link => dpc # "down")
    /\ outbox \in Seq(LotWord) /\ Len(outbox) <= MaxQueue /\ sent \in 0 .. Len(outbox)
    /\ retained \in LotWord \cup {"none"}

EndTypes ==
    /\ at_work \subseteq Receivers /\ up \in [Receivers -> BOOLEAN]
    /\ flight \in [Receivers -> Seq(LotWord)]
    /\ \A r \in Receivers : /\ Len(flight[r]) <= MaxFlight
                            /\ flight[r] # <<>> => up[r] /\ r \in at_work
    /\ view \in [Receivers -> LotWord \cup {"none", "UNKNOWN"}]
    /\ fetch \in LotWord \cup {"none", "asked", "UNKNOWN"}
    /\ overwritten \in BOOLEAN

LEMMA TypesSplit == TypeOK <=> SourceTypes /\ EndTypes
  BY DEF TypeOK, SourceTypes, EndTypes, Feed!MostDue

(* A lot word is made of any report.                                       *)
LEMMA WordForType == \A slots : WordFor(slots) \in LotWord
  BY DEF WordFor, LotWord

(* The initial state has the invariant.                                    *)
LEMMA InitInv == Init => IInv
  <1> SUFFICES ASSUME Init PROVE IInv
    OBVIOUS
  <1> USE LotConfig DEF Init, Feed!Init
  <1>a. <<>> \in Seq(LotWord) /\ Len(<<>>) = 0
    OBVIOUS
  <1>1. SourceTypes
    <2>1. link \in BOOLEAN /\ broken \in BOOLEAN /\ link = FALSE
      OBVIOUS
    <2>2. /\ occupied \in [Slots -> BOOLEAN] /\ report \in [Slots -> BOOLEAN] /\ due \in 0 .. 3
          /\ dpc \in {"down", "read", "publish"}
      OBVIOUS
    <2>3. /\ outbox \in Seq(LotWord) /\ Len(outbox) <= MaxQueue /\ sent \in 0 .. Len(outbox)
          /\ retained \in LotWord \cup {"none"}
      BY <1>a
    <2> QED
      BY <2>1, <2>2, <2>3, Zenon DEF SourceTypes
  <1>2. EndTypes
    <2>1. overwritten \in BOOLEAN
      OBVIOUS
    <2>2. at_work \subseteq Receivers /\ up \in [Receivers -> BOOLEAN]
      BY DEF Receivers
    <2>3. /\ flight \in [Receivers -> Seq(LotWord)]
          /\ \A r \in Receivers : Len(flight[r]) <= MaxFlight /\ flight[r] = <<>>
      BY <1>a
    <2>4. /\ view \in [Receivers -> LotWord \cup {"none", "UNKNOWN"}]
          /\ fetch \in LotWord \cup {"none", "asked", "UNKNOWN"}
      BY DEF LotWord
    <2> QED
      BY <2>1, <2>2, <2>3, <2>4, Zenon DEF EndTypes
  <1>3. FeedInv /\ RetainInv /\ WordInv /\ WorkInv /\ ViewInv
    BY DEF FeedInv, RetainInv, WordInv, WorkInv, ViewInv
  <1> QED
    BY <1>1, <1>2, <1>3, TypesSplit DEF IInv

(* The steps of the receivers leave slots, daemon and broker alone.        *)
EndStep ==
    \/ \E r \in Receivers : Subscribe(r) \/ Drop(r)
    \/ Takes \/ ReloadGate \/ OpenPage \/ Answer \/ NoAnswer \/ ApplyState

LEMMA EndStepLeaves == EndStep => UNCHANGED <<feed, daemon, channel>>
  BY Zenon DEF EndStep, Subscribe, Drop, Takes, BridgeTakes, HandlerTakes, DashboardTakes, Take,
     ReloadGate, OpenPage, Answer, NoAnswer, ApplyState

(* Slots, daemon and broker: types, and the chain from the occupancy over  *)
(* the report to the last word.                                            *)
LEMMA SourceStep ==
    IInv /\ [Next]_vars => (SourceTypes /\ FeedInv /\ RetainInv /\ WordInv)'
  <1> SUFFICES ASSUME SourceTypes, FeedInv, RetainInv, WordInv, [Next]_vars
               PROVE  (SourceTypes /\ FeedInv /\ RetainInv /\ WordInv)'
    BY TypesSplit DEF IInv
  <1> USE LotConfig DEF SourceTypes, FeedInv, RetainInv, WordInv, LastWord, feed, daemon,
          channel, ends
  <1>1. CASE SlotChanges
    BY <1>1 DEF SlotChanges, Feed!Change, Feed!MostDue
  <1>2. CASE ReloadDriver
    BY <1>2 DEF ReloadDriver
  <1>3. CASE StartDaemon
    BY <1>3 DEF StartDaemon
  <1>4. CASE ReadDevice
    BY <1>4 DEF ReadDevice, Feed!Read
  <1>5. CASE PublishLot
    <2>1. outbox' = Append(outbox, WordFor(report)) /\ WordFor(report) \in LotWord
      BY <1>5, WordForType DEF PublishLot, Published
    <2>2. /\ outbox' \in Seq(LotWord) /\ Len(outbox') = Len(outbox) + 1
          /\ outbox'[Len(outbox')] = WordFor(report) /\ outbox' # <<>>
          /\ \A i \in 1 .. Len(outbox) : outbox'[i] = outbox[i]
      BY <2>1
    <2>3. WordFor(report)' = WordFor(report)
      BY <1>5 DEF PublishLot, WordFor
    <2>4. sent \in 0 .. Len(outbox') /\ RetainInv' /\ LastWord' = WordFor(report)
      BY <1>5, <2>2 DEF PublishLot
    <2>5. Len(outbox') <= MaxQueue
      BY <1>5, <2>2 DEF PublishLot
    <2>6. SourceTypes'
      BY <1>5, <2>2, <2>4, <2>5 DEF PublishLot
    <2> QED
      BY <1>5, <2>3, <2>4, <2>6 DEF PublishLot
  <1>6. CASE DaemonEnds
    <2>0. <<>> \in Seq(LotWord) /\ Len(<<>>) = 0
      OBVIOUS
    <2>1. outbox = <<>> \/ (sent = Len(outbox) /\ sent > 0) \/ sent < Len(outbox)
      <3>1. Len(outbox) \in Nat /\ (outbox = <<>> \/ Len(outbox) > 0)
        OBVIOUS
      <3>2. sent \in 0 .. Len(outbox)
        BY Zenon
      <3> QED
        BY <3>1, <3>2
    <2>2. ~broken' => LastWord = retained /\ dpc # "publish" /\ ~broken
      BY <1>6, <2>1 DEF DaemonEnds
    <2>3. WordFor(report)' = WordFor(report)
      BY <1>6 DEF DaemonEnds, WordFor
    <2>4. broken' \in BOOLEAN /\ link' \in BOOLEAN /\ ~link'
      BY <1>6, Zenon DEF DaemonEnds
    <2>5. /\ occupied' \in [Slots -> BOOLEAN] /\ report' \in [Slots -> BOOLEAN]
          /\ due' \in 0 .. 3 /\ dpc' \in {"down", "read", "publish"}
          /\ outbox' \in Seq(LotWord) /\ Len(outbox') <= MaxQueue /\ sent' \in 0 .. Len(outbox')
          /\ retained' \in LotWord \cup {"none"}
      BY <1>6, <2>0 DEF DaemonEnds, SentLost
    <2>6. SourceTypes'
      BY <2>4, <2>5, Zenon
    <2> QED
      BY <1>6, <2>2, <2>3, <2>6 DEF DaemonEnds, SentLost
  <1>7. CASE LinkDown
    <2>1. sent' = 0 /\ link' = FALSE /\ UNCHANGED <<feed, daemon, outbox, retained>>
      BY <1>7 DEF LinkDown, SentLost
    <2>2. link' \in BOOLEAN /\ ~link'
      BY <2>1, Zenon
    <2>3. sent' \in 0 .. Len(outbox')
      <3>1. Len(outbox) \in Nat /\ outbox' = outbox /\ sent' = 0
        BY <2>1
      <3> QED
        BY <3>1
    <2>4. SourceTypes'
      BY <2>1, <2>2, <2>3, Zenon
    <2> QED
      BY <2>1, <2>4 DEF WordFor
  <1>8. CASE LinkUp
    BY <1>8 DEF LinkUp, WordFor
  <1>9. CASE Deliver
    <2>1. outbox # <<>> /\ outbox[sent'] \in LotWord
      BY <1>9 DEF Deliver
    <2> QED
      BY <1>9, <2>1 DEF Deliver, WordFor
  <1>10. CASE Acknowledge
    <2>1. outbox # <<>>
      BY <1>10 DEF Acknowledge
    <2>2. /\ outbox' \in Seq(LotWord) /\ Len(outbox') = Len(outbox) - 1
          /\ \A i \in 1 .. Len(outbox') : outbox'[i] = outbox[i + 1]
      BY <1>10, <2>1 DEF Acknowledge
    <2>3. outbox' = <<>> => sent = 1 /\ Len(outbox) = 1
      BY <1>10, <2>2 DEF Acknowledge
    <2>4. outbox' # <<>> => outbox'[Len(outbox')] = outbox[Len(outbox)]
      BY <2>1, <2>2
    <2>5. LastWord' = LastWord
      BY <1>10, <2>1, <2>3, <2>4 DEF Acknowledge
    <2>6. WordFor(report)' = WordFor(report)
      BY <1>10 DEF Acknowledge, WordFor
    <2>7. RetainInv'
      BY <1>10, <2>2 DEF Acknowledge
    <2> QED
      BY <1>10, <2>2, <2>5, <2>6, <2>7 DEF Acknowledge
  <1>11. CASE EndStep \/ UNCHANGED vars
    <2>1. UNCHANGED <<feed, daemon, channel>>
      BY <1>11, EndStepLeaves DEF vars
    <2> QED
      BY <2>1 DEF WordFor
  <1> QED
    BY <1>1, <1>2, <1>3, <1>4, <1>5, <1>6, <1>7, <1>8, <1>9, <1>10, <1>11
       DEF Next, Daemon, EndStep

(* The receivers: nothing is under way to one that is not subscribed, and  *)
(* no more than the bound.                                                 *)
LEMMA ReceiverStep == IInv /\ [Next]_vars => (EndTypes /\ WorkInv)'
  <1> SUFFICES ASSUME SourceTypes, EndTypes, WorkInv, [Next]_vars
               PROVE  (EndTypes /\ WorkInv)'
    BY TypesSplit DEF IInv
  <1> USE LotConfig DEF EndTypes, WorkInv, feed, daemon, channel, ends
  <1>1. CASE \/ SlotChanges \/ ReloadDriver \/ StartDaemon \/ Daemon \/ DaemonEnds
             \/ LinkDown \/ LinkUp \/ Acknowledge
    BY <1>1 DEF SlotChanges, ReloadDriver, StartDaemon, Daemon, ReadDevice, PublishLot,
       DaemonEnds, LinkDown, LinkUp, Acknowledge
  <1>2. CASE Deliver
    <2>1. retained' \in LotWord
      BY <1>2 DEF Deliver, SourceTypes
    <2>2. \A r \in Receivers : /\ Append(flight[r], retained') \in Seq(LotWord)
                               /\ Len(Append(flight[r], retained')) = Len(flight[r]) + 1
      BY <2>1
    <2> QED
      BY <1>2, <2>2 DEF Deliver
  <1>3. ASSUME NEW r \in Receivers, Subscribe(r) PROVE (EndTypes /\ WorkInv)'
    <2>1. FirstWord \in Seq(LotWord) /\ Len(FirstWord) <= 1
      BY DEF FirstWord, SourceTypes
    <2> QED
      BY <1>3, <2>1 DEF Subscribe
  <1>4. ASSUME NEW r \in Receivers, Drop(r) PROVE (EndTypes /\ WorkInv)'
    BY <1>4 DEF Drop
  <1>5. ASSUME NEW r \in Receivers, Take(r), overwritten' \in BOOLEAN
        PROVE  (EndTypes /\ WorkInv)'
    <2>1. /\ Tail(flight[r]) \in Seq(LotWord) /\ Len(Tail(flight[r])) = Len(flight[r]) - 1
          /\ Head(flight[r]) \in LotWord
      BY <1>5 DEF Take
    <2> QED
      BY <1>5, <2>1 DEF Take
  <1>6. CASE Takes
    BY <1>5, <1>6 DEF Takes, BridgeTakes, HandlerTakes, DashboardTakes, Receivers
  <1>7. CASE ReloadGate
    BY <1>7 DEF ReloadGate, LotWord
  <1>8. CASE OpenPage
    <2>1. <<>> \in Seq(LotWord) /\ Len(<<>>) = 0
      OBVIOUS
    <2>2. /\ view' \in [Receivers -> LotWord \cup {"none", "UNKNOWN"}]
          /\ up' \in [Receivers -> BOOLEAN] /\ flight' \in [Receivers -> Seq(LotWord)]
      BY <1>8, <2>1 DEF OpenPage
    <2>3. \A r \in Receivers : /\ Len(flight'[r]) <= MaxFlight
                               /\ flight'[r] # <<>> => up'[r] /\ r \in at_work
                               /\ up'[r] => r \in at_work
      <3>1. CASE "dashboard" \in Receivers
        <4>1. ASSUME NEW r \in Receivers, r # "dashboard"
              PROVE  flight'[r] = flight[r] /\ up'[r] = up[r]
          BY <1>8, <4>1 DEF OpenPage
        <4>2. flight'["dashboard"] = <<>> /\ up'["dashboard"] = FALSE
          BY <1>8, <3>1 DEF OpenPage
        <4> QED
          BY <2>1, <4>1, <4>2
      <3> QED
        BY <3>1 DEF Receivers
    <2> QED
      BY <1>8, <2>2, <2>3 DEF OpenPage
  <1>9. CASE Answer \/ NoAnswer
    BY <1>9 DEF Answer, NoAnswer, Receivers
  <1>10. CASE ApplyState
    <2>1. overwritten' \in BOOLEAN
      BY <1>10, Zenon DEF ApplyState
    <2> QED
      BY <1>10, <2>1 DEF ApplyState
  <1>11. CASE UNCHANGED vars
    BY <1>11 DEF vars
  <1> QED
    BY <1>1, <1>2, <1>3, <1>4, <1>6, <1>7, <1>8, <1>9, <1>10, <1>11 DEF Next

(* Nothing comes between the retained word and a subscriber for good.      *)
LEMMA ViewStep == IInv /\ [Next]_vars => ViewInv'
  <1> SUFFICES ASSUME SourceTypes, EndTypes, ViewInv, [Next]_vars
               PROVE  ViewInv'
    BY TypesSplit DEF IInv
  <1> USE DEF ViewInv, feed, daemon, channel, ends
  <1>1. CASE \/ SlotChanges \/ ReloadDriver \/ StartDaemon \/ Daemon \/ DaemonEnds
             \/ LinkDown \/ LinkUp \/ Acknowledge
    <2>1. UNCHANGED <<retained, ends>>
      BY <1>1 DEF SlotChanges, ReloadDriver, StartDaemon, Daemon, ReadDevice, PublishLot,
         DaemonEnds, LinkDown, LinkUp, Acknowledge
    <2> QED
      BY <2>1
  <1>2. CASE Deliver
    <2>1. /\ overwritten' = overwritten /\ fetch' = fetch /\ view' = view /\ up' = up
          /\ retained' \in LotWord
      BY <1>2 DEF Deliver, SourceTypes
    <2>2. ASSUME NEW r \in Receivers
          PROVE  /\ flight'[r] # <<>> => flight'[r][Len(flight'[r])] = retained'
                 /\ up'[r] => flight'[r] # <<>>
      <3>1. CASE up[r]
        <4>1. flight'[r] = Append(flight[r], retained') /\ flight[r] \in Seq(LotWord)
          BY <1>2, <3>1 DEF Deliver, EndTypes
        <4> QED
          BY <2>1, <4>1
      <3>2. CASE ~up[r]
        BY <1>2, <2>1, <3>2 DEF Deliver, EndTypes
      <3> QED
        BY <3>1, <3>2
    <2> QED
      BY <2>1, <2>2
  <1>3. ASSUME NEW r \in Receivers, Subscribe(r) PROVE ViewInv'
    <2>1. /\ FirstWord = <<>> => retained = "none"
          /\ FirstWord # <<>> => FirstWord[Len(FirstWord)] = retained
      BY DEF FirstWord
    <2> QED
      BY <1>3, <2>1 DEF Subscribe, EndTypes
  <1>4. ASSUME NEW r \in Receivers, Drop(r) PROVE ViewInv'
    BY <1>4 DEF Drop, EndTypes
  <1>5. ASSUME NEW r \in Receivers, Take(r), overwritten' = (overwritten /\ r # "dashboard")
        PROVE  ViewInv'
    <2>1. /\ Tail(flight[r]) # <<>> =>
                Tail(flight[r])[Len(Tail(flight[r]))] = flight[r][Len(flight[r])]
          /\ Tail(flight[r]) = <<>> => Head(flight[r]) = flight[r][Len(flight[r])]
      <3>1. flight[r] \in Seq(LotWord) /\ flight[r] # <<>>
        BY <1>5 DEF Take, EndTypes
      <3>2. /\ Len(flight[r]) \in Nat /\ Len(flight[r]) > 0
            /\ Len(Tail(flight[r])) = Len(flight[r]) - 1
            /\ \A i \in 1 .. Len(Tail(flight[r])) : Tail(flight[r])[i] = flight[r][i + 1]
            /\ Tail(flight[r]) \in Seq(LotWord) /\ Head(flight[r]) = flight[r][1]
        BY <3>1
      <3>3. CASE Tail(flight[r]) = <<>>
        <4>1. Len(<<>>) = 0
          OBVIOUS
        <4>2. Len(Tail(flight[r])) = 0
          BY <3>3, <4>1, Zenon
        <4>3. Len(flight[r]) = 1
          BY <3>2, <4>2
        <4> QED
          BY <3>2, <3>3, <4>3
      <3>4. CASE Tail(flight[r]) # <<>>
        <4>1. Len(Tail(flight[r])) \in 1 .. Len(Tail(flight[r]))
          BY <3>2, <3>4
        <4>2. Len(Tail(flight[r])) + 1 = Len(flight[r])
          BY <3>2
        <4> QED
          BY <3>2, <3>4, <4>1, <4>2
      <3> QED
        BY <3>3, <3>4
    <2>2. /\ flight'[r] = Tail(flight[r]) /\ view'[r] = Head(flight[r])
          /\ \A q \in Receivers \ {r} : flight'[q] = flight[q] /\ view'[q] = view[q]
          /\ UNCHANGED <<up, retained, fetch>>
      BY <1>5 DEF Take, EndTypes
    <2>3. flight[r][Len(flight[r])] = retained
      BY <1>5 DEF Take
    <2> QED
      BY <1>5, <2>1, <2>2, <2>3
  <1>6. CASE Takes
    <2>1. ASSUME NEW r \in {"bridge", "handler"}, Take(r), overwritten' = overwritten
          PROVE  ViewInv'
      <3>1. r \in Receivers /\ r # "dashboard"
        BY DEF Receivers
      <3>2. overwritten' = (overwritten /\ r # "dashboard")
        BY <2>1, <3>1, Zenon DEF EndTypes
      <3> QED
        BY <1>5, <2>1, <3>1, <3>2, Zenon
    <2>2. ASSUME Take("dashboard"), overwritten' = FALSE PROVE ViewInv'
      BY <1>5, <2>2 DEF Receivers
    <2> QED
      BY <1>6, <2>1, <2>2 DEF Takes, BridgeTakes, HandlerTakes, DashboardTakes
  <1>7. CASE ReloadGate
    BY <1>7 DEF ReloadGate, EndTypes
  <1>8. CASE OpenPage
    BY <1>8 DEF OpenPage, EndTypes
  <1>9. CASE Answer \/ NoAnswer
    BY <1>9 DEF Answer, NoAnswer
  <1>10. CASE ApplyState
    <2>1. /\ fetch' = "none" /\ ~overwritten /\ UNCHANGED <<up, flight, retained>>
          /\ \A q \in Receivers \ {"dashboard"} : view'[q] = view[q]
          /\ overwritten' \/ view["dashboard"] \in {"none", view'["dashboard"]}
      BY <1>10 DEF ApplyState, EndTypes, LotWord, Receivers
    <2> QED
      BY <2>1
  <1>11. CASE UNCHANGED vars
    BY <1>11 DEF vars
  <1> QED
    BY <1>1, <1>2, <1>3, <1>4, <1>6, <1>7, <1>8, <1>9, <1>10, <1>11 DEF Next

(* The inductive invariant holds in every reachable state.                 *)
THEOREM Invariance == Spec => []IInv
  <1>1. IInv /\ [Next]_vars => IInv'
    <2> SUFFICES ASSUME IInv, [Next]_vars PROVE IInv'
      OBVIOUS
    <2>1. (SourceTypes /\ EndTypes)'
      BY SourceStep, ReceiverStep
    <2>2. TypeOK'
      BY <2>1 DEF TypeOK, SourceTypes, EndTypes, Feed!MostDue
    <2> QED
      BY <2>2, SourceStep, ReceiverStep, ViewStep DEF IInv
  <1> QED
    BY <1>1, InitInv, PTL DEF Spec

-----------------------------------------------------------------------------
(* Types; nothing is under way to a receiver that is not subscribed.       *)
THEOREM TypeCorrect == Spec => []TypeOK
  BY Invariance, PTL DEF IInv

(* With nothing due and nothing lost, the last word on its way to the      *)
(* broker is the one for the slots as they are, and with nothing under way *)
(* every subscriber has it: the full LED, the latest row, the page.        *)
THEOREM LotWordIsTrue == Spec => []LotWordTells
  <1>1. IInv => LotWordTells
    <2> SUFFICES ASSUME IInv, dpc # "publish", due = 0, ~broken
                 PROVE  LastWord = WordFor(occupied) /\ \A r \in Receivers : ViewTells(r)
      BY DEF LotWordTells
    <2>1. LastWord = WordFor(occupied)
      BY DEF IInv, FeedInv, WordInv
    <2>2. sent = Len(outbox) => retained = LastWord
      <3>1. Len(outbox) \in Nat /\ (outbox # <<>> => Len(outbox) > 0)
        BY DEF IInv, TypeOK
      <3> QED
        BY <3>1 DEF IInv, RetainInv, LastWord
    <2>3. sent = Len(outbox) => retained # "none"
      BY <2>1, <2>2, WordForType DEF LotWord
    <2> QED
      BY <2>1, <2>3 DEF IInv, ViewInv, ViewTells
  <1> QED
    BY <1>1, Invariance, PTL

=============================================================================
