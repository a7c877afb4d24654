-------------------------- MODULE GateReportProofs --------------------------
(***************************************************************************)
(* Proofs about GateReport, for every bound on the queue, with crashes and *)
(* without.                                                                *)
(***************************************************************************)
EXTENDS GateReport, TLAPS

(* Of the messages the broker has processed, the last gate word is the one *)
(* it retains.                                                             *)
RetainInv ==
    \A i \in GateWords :
        i <= sent /\ (\A j \in GateWords : j <= sent => j <= i) => retained = outbox[i]

(* The last gate word is the one for the state published last; between the *)
(* two publications of a round that is cur already.                        *)
WordInv ==
    /\ LastWordTells
    /\ bpc = "event" => LastWordIs(StateToGate(cur))

(* The states of a trip that an event announces.                           *)
TripOf(event) ==
    IF event = "ENTRY_OPEN" THEN {"ENTRY_DETECTED", "ENTRY_WAITING"}
    ELSE {"EXIT_REQUESTED", "EXIT_VEHICLE_DETECTED", "EXIT_VEHICLE_WAITING"}

(* The state the polling thread will compare the next one with.            *)
LastSeen == IF bpc \in {"gate", "event"} THEN cur ELSE prev

(* A trip that began after the bridge had seen the gate closed has its     *)
(* opening unannounced; so has the one the bridge is about to announce.    *)
BackedInv ==
    \A event \in Events :
        /\ bpc # "down" /\ LastSeen = "IDLE" /\ current_state \in TripOf(event)
              => event \in backed
        /\ bpc \in {"gate", "event"} /\ EventOf(prev, cur) = event => event \in backed

(* The polling thread has read a state of the gate before it publishes.    *)
CurInv == bpc \in {"gate", "event"} => cur \in Gate!States

IInv == TypeOK /\ RetainInv /\ WordInv /\ BackedInv /\ CurInv

-----------------------------------------------------------------------------
(* What the conversions return.                                            *)
LEMMA Conversions ==
    /\ \A state : StateToGate(state) \in GateWord
    /\ \A from, to : EventOf(from, to) \in Events \cup {"none"}
    /\ GateWord \cap Events = {} /\ "none" \notin GateWord \cup Events
  BY DEF StateToGate, EventOf, GateWord, Events

(* A message that is appended is the last one.                             *)
LEMMA Appended ==
    ASSUME TypeOK, NEW m \in GateWord \cup Events, outbox' = Append(outbox, m)
    PROVE  /\ outbox' \in Seq(GateWord \cup Events)
           /\ Len(outbox') = Len(outbox) + 1
           /\ outbox'[Len(outbox) + 1] = m
           /\ \A i \in 1 .. Len(outbox) : outbox'[i] = outbox[i]
  BY DEF TypeOK

(* After the first message is taken off, the others have moved up by one.  *)
LEMMA Shifted ==
    ASSUME TypeOK, outbox # <<>>, outbox' = Tail(outbox)
    PROVE  /\ outbox' \in Seq(GateWord \cup Events)
           /\ Len(outbox') = Len(outbox) - 1
           /\ \A i \in 1 .. Len(outbox') : outbox'[i] = outbox[i + 1]
  BY DEF TypeOK

(* The initial state has the invariant.                                    *)
LEMMA InitInv == Init => IInv
  <1> SUFFICES ASSUME Init PROVE IInv
    OBVIOUS
  <1> USE ReportConfig DEF Init, Gate!Init
  <1>1. <<>> \in Seq(GateWord \cup Events) /\ Len(<<>>) = 0
    OBVIOUS
  <1>2. link \in BOOLEAN
    OBVIOUS
  <1>3. TypeOK
    BY <1>1, <1>2 DEF TypeOK, Known, Gate!States
  <1>4. GateWords = {}
    BY <1>1 DEF GateWords
  <1>5. RetainInv /\ WordInv /\ BackedInv /\ CurInv
    BY <1>4 DEF RetainInv, WordInv, LastWordTells, BackedInv, CurInv
  <1> QED
    BY <1>3, <1>5 DEF IInv

(* Types.                                                                  *)
LEMMA TypeStep == TypeOK /\ CurInv /\ [Next]_vars => (TypeOK /\ CurInv)'
  <1> SUFFICES ASSUME TypeOK, CurInv, [Next]_vars PROVE (TypeOK /\ CurInv)'
    OBVIOUS
  <1> USE ReportConfig DEF CurInv, bridge, channel
  <1>1. CASE GateMoves
    <2>1. current_state' \in Gate!States
      BY <1>1 DEF GateMoves, Gate!Next, Gate!Moves, Gate!States, TypeOK
    <2>2. backed' \subseteq Events
      BY <1>1, Conversions DEF GateMoves, TypeOK
    <2> QED
      BY <1>1, <2>1, <2>2 DEF GateMoves, TypeOK
  <1>2. CASE Poll
    BY <1>2 DEF Poll, TypeOK, Known
  <1>3. CASE PublishGate
    <2>1. StateToGate(cur) \in GateWord \cup Events
      BY Conversions
    <2> QED
      BY <1>3, <2>1, Appended DEF PublishGate, Published, TypeOK
  <1>4. CASE NothingToTell
    BY <1>4 DEF NothingToTell, TypeOK
  <1>5. CASE PublishEvent
    <2>1. EventOf(prev, cur) \in GateWord \cup Events
      BY <1>5, Conversions DEF PublishEvent
    <2> QED
      BY <1>5, <2>1, Appended DEF PublishEvent, Published, TypeOK
  <1>6. CASE Start
    <2>1. link' \in BOOLEAN
      BY <1>6, Zenon DEF Start
    <2> QED
      BY <1>6, <2>1 DEF Start, FirstState, TypeOK, Known
  <1>7. CASE Crash
    <2>1. link' \in BOOLEAN
      BY <1>7, Zenon DEF Crash
    <2>2. <<>> \in Seq(GateWord \cup Events) /\ Len(<<>>) = 0
      OBVIOUS
    <2> QED
      BY <1>7, <2>1, <2>2 DEF Crash, InFlightLost, TypeOK
  <1>8. CASE LinkDown
    <2>1. link' \in BOOLEAN
      BY <1>8, Zenon DEF LinkDown
    <2>2. Len(outbox) \in Nat
      BY DEF TypeOK
    <2> QED
      BY <1>8, <2>1, <2>2 DEF LinkDown, Requeued, InFlightLost, TypeOK
  <1>9. CASE LinkUp
    <2>1. link' \in BOOLEAN
      BY <1>9, Zenon DEF LinkUp
    <2> QED
      BY <1>9, <2>1 DEF LinkUp, TypeOK
  <1>10. CASE Deliver
    BY <1>10 DEF Deliver, TypeOK
  <1>11. CASE Acknowledge
    <2>1. outbox # <<>>
      BY <1>11 DEF Acknowledge, TypeOK
    <2> QED
      BY <1>11, <2>1, Shifted DEF Acknowledge, TypeOK
  <1>12. CASE UNCHANGED vars
    BY <1>12 DEF vars, TypeOK
  <1> QED
    BY <1>1, <1>2, <1>3, <1>4, <1>5, <1>6, <1>7, <1>8, <1>9, <1>10, <1>11, <1>12
       DEF Next, PollThread

(* A step that touches neither queue nor broker keeps what is said of them.*)
LEMMA QueueLeft ==
    ASSUME UNCHANGED <<outbox, retained>>
    PROVE  /\ GateWords' = GateWords
           /\ \A w : LastWordIs(w)' <=> LastWordIs(w)
  BY DEF GateWords, LastWordIs

(* The queue, its delivery and its acknowledgement.                        *)
LEMMA QueueStep == IInv /\ [Next]_vars => (RetainInv /\ WordInv)'
  <1> SUFFICES ASSUME TypeOK, RetainInv, WordInv, [Next]_vars PROVE (RetainInv /\ WordInv)'
    BY DEF IInv
  <1> USE ReportConfig DEF RetainInv, WordInv, LastWordTells, bridge, channel
  <1>1. CASE GateMoves \/ Poll \/ NothingToTell \/ Start \/ LinkUp \/ UNCHANGED vars
    <2>1. UNCHANGED <<outbox, retained, sent>>
      BY <1>1 DEF GateMoves, Poll, NothingToTell, Start, LinkUp, vars
    <2>2. RetainInv'
      BY <2>1 DEF GateWords
    <2>3. WordInv'
      BY <1>1, <2>1, QueueLeft DEF GateMoves, Poll, NothingToTell, Start, FirstState, LinkUp, vars
    <2> QED
      BY <2>2, <2>3
  <1>2. CASE PublishGate
    <2> DEFINE w == StateToGate(cur)
    <2>1. w \in GateWord /\ outbox' = Append(outbox, w) /\ UNCHANGED <<sent, retained, cur>>
      BY <1>2, Conversions DEF PublishGate, Published
    <2>2. GateWords' = GateWords \cup {Len(outbox) + 1}
      BY <2>1, Appended DEF GateWords, TypeOK
    <2>3. RetainInv'
      BY <2>1, <2>2, Appended DEF GateWords, TypeOK
    <2>4. LastWordIs(w)'
      BY <2>1, <2>2, Appended DEF LastWordIs, GateWords, TypeOK
    <2> QED
      BY <1>2, <2>1, <2>3, <2>4 DEF PublishGate
  <1>3. CASE PublishEvent
    <2> DEFINE m == EventOf(prev, cur)
    <2>1. m \in Events /\ m \notin GateWord /\ outbox' = Append(outbox, m) /\ UNCHANGED <<sent, retained>>
      BY <1>3, Conversions DEF PublishEvent, Published
    <2>2. GateWords' = GateWords /\ \A i \in GateWords : outbox'[i] = outbox[i]
      BY <2>1, Appended DEF GateWords, TypeOK
    <2>3. RetainInv'
      BY <2>1, <2>2
    <2>4. \A w : LastWordIs(w)' <=> LastWordIs(w)
      BY <2>1, <2>2 DEF LastWordIs
    <2> QED
      BY <1>3, <2>3, <2>4 DEF PublishEvent
  <1>4. CASE Crash
    <2>1. GateWords' = {}
      BY <1>4 DEF Crash, GateWords
    <2> QED
      BY <1>4, <2>1 DEF Crash
  <1>5. CASE LinkDown
    <2>1. sent' = 0 /\ UNCHANGED <<outbox, retained, bpc, prev, cur>>
      BY <1>5 DEF LinkDown, Requeued, InFlightLost
    <2>2. RetainInv'
      BY <2>1 DEF GateWords, TypeOK
    <2> QED
      BY <2>1, <2>2, QueueLeft
  <1>6. CASE Deliver
    <2>1. UNCHANGED <<outbox, bpc, prev, cur>> /\ GateWords' = GateWords
      BY <1>6 DEF Deliver, GateWords
    <2>2. RetainInv'
      BY <1>6, <2>1 DEF Deliver, GateWords, TypeOK
    <2>3. GateWords = {} => retained' = retained
      BY <1>6 DEF Deliver, GateWords, TypeOK
    <2>4. \A w : LastWordIs(w)' <=> LastWordIs(w)
      BY <2>1, <2>3 DEF LastWordIs
    <2> QED
      BY <2>1, <2>2, <2>4
  <1>7. CASE Acknowledge
    <2>1. /\ outbox # <<>> /\ sent > 0 /\ sent' = sent - 1 /\ outbox' = Tail(outbox)
          /\ UNCHANGED <<retained, bpc, prev, cur>>
      BY <1>7 DEF Acknowledge, TypeOK
    <2>2. /\ \A i \in GateWords' : i + 1 \in GateWords /\ outbox'[i] = outbox[i + 1]
          /\ \A i \in GateWords : i > 1 => i - 1 \in GateWords' /\ outbox'[i - 1] = outbox[i]
      BY <2>1, Shifted DEF GateWords, TypeOK
    <2>3. GateWords \subseteq Nat \ {0} /\ GateWords' \subseteq Nat \ {0} /\ sent \in Nat
      BY <2>1, Shifted DEF GateWords, TypeOK
    <2>4. RetainInv'
      <3> SUFFICES ASSUME NEW i \in GateWords', i <= sent',
                          \A j \in GateWords' : j <= sent' => j <= i
                   PROVE  retained' = outbox'[i]
        OBVIOUS
      <3>1. \A j \in GateWords : j <= sent => j <= i + 1
        BY <2>1, <2>2, <2>3
      <3>2. i + 1 \in GateWords /\ i + 1 <= sent /\ outbox'[i] = outbox[i + 1]
        <4>1. i \in Nat \ {0} /\ i <= sent - 1
          BY <2>1, <2>3
        <4>2. i + 1 \in GateWords /\ outbox'[i] = outbox[i + 1]
          BY <2>2, Zenon
        <4> QED
          BY <2>3, <4>1, <4>2
      <3>3. retained = outbox[i + 1]
        BY <3>1, <3>2, Zenon
      <3> QED
        BY <2>1, <3>2, <3>3
    <2>5. ASSUME NEW w, LastWordIs(w) PROVE LastWordIs(w)'
      <3>1. CASE GateWords = {}
        BY <2>1, <2>2, <2>5, <3>1 DEF LastWordIs
      <3>2. CASE GateWords # {}
        <4>1. PICK i \in GateWords : outbox[i] = w /\ \A j \in GateWords : j <= i
          BY <2>5, <3>2 DEF LastWordIs
        <4>2. CASE i = 1
          <5>1. GateWords' = {}
            BY <2>2, <2>3, <4>1, <4>2
          <5>2. retained = w
            BY <2>1, <2>3, <4>1, <4>2
          <5> QED
            BY <2>1, <5>1, <5>2 DEF LastWordIs
        <4>3. CASE i # 1
          <5>1. i - 1 \in GateWords' /\ outbox'[i - 1] = w
            BY <2>2, <2>3, <4>1, <4>3
          <5>2. \A j \in GateWords' : j <= i - 1
            BY <2>2, <2>3, <4>1
          <5> QED
            BY <5>1, <5>2 DEF LastWordIs
        <4> QED
          BY <4>2, <4>3
      <3> QED
        BY <3>1, <3>2
    <2> QED
      BY <2>1, <2>4, <2>5
  <1> QED
    BY <1>1, <1>2, <1>3, <1>4, <1>5, <1>6, <1>7 DEF Next, PollThread

(* An opening is in backed from the moment the gate leaves IDLE until the  *)
(* bridge announces it.                                                    *)
LEMMA BackedStep == IInv /\ [Next]_vars => BackedInv'
  <1> SUFFICES ASSUME TypeOK, CurInv, BackedInv, [Next]_vars PROVE BackedInv'
    BY DEF IInv
  <1> USE DEF BackedInv, LastSeen, Events, TripOf, bridge, channel
  <1>1. CASE GateMoves
    BY <1>1 DEF GateMoves, Gate!Next, Gate!Moves, Gate!States, EventOf
  <1>2. CASE Poll
    BY <1>2 DEF Poll, EventOf
  <1>3. CASE PublishGate
    BY <1>3 DEF PublishGate
  <1>4. CASE NothingToTell
    BY <1>4 DEF NothingToTell
  <1>5. CASE PublishEvent
    BY <1>5 DEF PublishEvent, EventOf
  <1>6. CASE Start
    BY <1>6 DEF Start, FirstState, EventOf
  <1>7. CASE Crash
    BY <1>7 DEF Crash
  <1>8. CASE LinkDown \/ LinkUp \/ Deliver \/ Acknowledge \/ UNCHANGED vars
    BY <1>8 DEF LinkDown, LinkUp, Deliver, Acknowledge, vars
  <1> QED
    BY <1>1, <1>2, <1>3, <1>4, <1>5, <1>6, <1>7, <1>8 DEF Next, PollThread

(* The inductive invariant holds in every reachable state.                 *)
THEOREM Invariance == Spec => []IInv
  <1>1. IInv /\ [Next]_vars => IInv'
    BY TypeStep, QueueStep, BackedStep DEF IInv
  <1> QED
    BY <1>1, InitInv, PTL DEF Spec

-----------------------------------------------------------------------------
(* Types; what the broker has processed is part of what is queued.         *)
THEOREM TypeCorrect == Spec => []TypeOK
  BY Invariance, PTL DEF IInv

(* Whatever is sent twice, the broker ends up with the word for the state  *)
(* the bridge has published last.                                          *)
THEOREM LastWordIsTrue == Spec => []LastWordTells
  <1>1. IInv => LastWordTells
    BY DEF IInv, WordInv
  <1> QED
    BY <1>1, Invariance, PTL

(* No event is announced without an opening of its own.                    *)
THEOREM EventsHaveOpenings == Spec => EventsBacked
  <1> DEFINE Backed == \A event \in Events : outbox' = Append(outbox, event) => event \in backed
  <1>1. IInv /\ [Next]_vars => [Backed]_vars
    <2> SUFFICES ASSUME IInv, Next, NEW event \in Events, outbox' = Append(outbox, event)
                 PROVE  event \in backed
      OBVIOUS
    <2>1. /\ Len(outbox') = Len(outbox) + 1 /\ outbox'[Len(outbox) + 1] = event
          /\ Len(outbox) \in Nat /\ event \notin GateWord
      BY Appended, Conversions DEF IInv, TypeOK
    <2>2. CASE PublishEvent
      <3>1. EventOf(prev, cur) \in Events
        BY <2>2, Conversions DEF PublishEvent
      <3>2. outbox'[Len(outbox) + 1] = EventOf(prev, cur)
        BY <2>2, <3>1, Appended DEF PublishEvent, Published, IInv
      <3> QED
        BY <2>1, <2>2, <3>1, <3>2 DEF PublishEvent, IInv, BackedInv
    <2>3. CASE PublishGate
      <3>1. StateToGate(cur) \in GateWord
        BY Conversions
      <3>2. outbox'[Len(outbox) + 1] = StateToGate(cur)
        BY <2>3, <3>1, Appended DEF PublishGate, Published, IInv
      <3> QED
        BY <2>1, <3>1, <3>2
    <2>4. CASE Acknowledge
      <3>1. outbox # <<>>
        BY <2>4 DEF Acknowledge, IInv, TypeOK
      <3> QED
        BY <2>1, <2>4, <3>1, Shifted DEF Acknowledge, IInv
    <2>5. CASE Crash
      BY <2>1, <2>5 DEF Crash
    <2>6. CASE GateMoves \/ Poll \/ NothingToTell \/ Start \/ LinkDown \/ LinkUp \/ Deliver
      <3>1. outbox' = outbox
        BY <2>6 DEF GateMoves, Poll, NothingToTell, Start, LinkDown, Requeued, LinkUp, Deliver,
           channel
      <3> QED
        BY <2>1, <3>1
    <2> QED
      BY <2>2, <2>3, <2>4, <2>5, <2>6 DEF Next, PollThread
  <1> QED
    BY <1>1, Invariance, PTL DEF Spec, EventsBacked

=============================================================================
