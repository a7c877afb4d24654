--------------------------- MODULE SlotNodeProofs ---------------------------
(***************************************************************************)
(* Proofs about SlotNode, for any set of slots, any stroke, time-out and   *)
(* release count.                                                          *)
(***************************************************************************)
EXTENDS SlotNode, FiniteSetTheorems, TLAPS

Queued == ToSet(queue)

(* Each work is queued at most once.                                       *)
QueueInv ==
    /\ \A i, j \in 1 .. Len(queue) : queue[i] = queue[j] => i = j
    /\ IsFiniteSet(Queued) /\ Len(queue) = Cardinality(Queued)

(* The sensors in ECHO_DONE are those whose work is queued.                *)
EchoInv == \A s \in Slots : echo[s] = "DONE" <=> <<"sensor", s>> \in Queued

Running(s) == wpc = "turn" /\ slot = s

(* A lock in transition has one work, queued or running, that will end it. *)
LockWorkInv ==
    \A s \in Slots :
        /\ lock_st[s] \in {"LOCKING", "UNLOCKING"} <=> <<"lock", s>> \in Queued \/ Running(s)
        /\ ~(<<"lock", s>> \in Queued /\ Running(s))
        /\ <<"lock", s>> \in Queued => (lock_pending[s] <=> lock_st[s] = "LOCKING")
        /\ Running(s) => (do_lock <=> lock_st[s] = "LOCKING")

(* Where the lock of s is, from its state and the progress of its stroke.  *)
Position(s) ==
    CASE lock_st[s] \in {"FREE", "TIMING", "WAIT_EMPTY"} -> 0
      [] lock_st[s] = "LOCKED" -> LockTurns
      [] lock_st[s] = "LOCKING" -> IF Running(s) THEN turned ELSE 0
      [] lock_st[s] = "UNLOCKING" -> LockTurns - (IF Running(s) THEN turned ELSE 0)

PositionInv ==
    \A s \in Slots :
        /\ barrier[s] = Position(s)
        /\ lock_st[s] = "TIMING" => consecutive_unoccupied[s] < ReleaseCount

(* The worker is about to say that s has changed.                          *)
Announcing(s) == wpc = "notify" /\ slot = s

(* What a reader has copied since it cleared a flag that is still clear is *)
(* up to date; and so is what it returned, if it sleeps on such a flag.    *)
ReaderInv ==
    /\ rpc = "wait" /\ ~status_changed =>
          \A s \in Slots : report[s] = occupied[s] \/ Announcing(s)
    /\ rpc = "copy" /\ ~status_changed =>
          \A s \in Slots \ unread : got[s] = occupied[s] \/ Announcing(s)

IInv == TypeOK /\ QueueInv /\ EchoInv /\ LockWorkInv /\ PositionInv /\ ReaderInv

-----------------------------------------------------------------------------
(* TypeOK in five parts that different actors disturb.                     *)
SensorTypes == echo \in [Slots -> EchoState] /\ pulse \in [Slots -> BOOLEAN] /\ queue \in Seq(Work)

WorkerTypes ==
    /\ wpc \in {"idle", "update", "notify", "lock_fsm", "turn"}
    /\ slot \in Slots /\ sample \in Samples /\ do_lock \in BOOLEAN
    /\ turned \in 0 .. LockTurns

LockTypes ==
    /\ lock_st \in [Slots -> LockState] /\ lock_pending \in [Slots -> BOOLEAN]
    /\ consecutive_unoccupied \in [Slots -> 0 .. ReleaseCount]
    /\ barrier \in [Slots -> 0 .. LockTurns]

FeedTypes ==
    /\ occupied \in [Slots -> BOOLEAN] /\ status_changed \in BOOLEAN
    /\ rpc \in {"wait", "clear", "copy"} /\ unread \in SUBSET Slots
    /\ got \in [Slots -> BOOLEAN] /\ report \in [Slots -> BOOLEAN]

ClockTypes ==
    /\ occupyAge \in [Slots -> Ages]
    /\ emptyRun \in [Slots -> 0 .. ReleaseCount] /\ stayAge \in [Slots -> Ages]

LEMMA TypesSplit ==
    /\ TypeOK <=> SensorTypes /\ WorkerTypes /\ LockTypes /\ FeedTypes /\ ClockTypes
    /\ TypeOK' <=> SensorTypes' /\ WorkerTypes' /\ LockTypes' /\ FeedTypes' /\ ClockTypes'
  BY DEF TypeOK, SensorTypes, WorkerTypes, LockTypes, FeedTypes, ClockTypes

-----------------------------------------------------------------------------
(* The queue.                                                              *)

(* queue_work() adds its work to the set of those queued, once.            *)
LEMMA WorkQueued ==
    ASSUME queue \in Seq(Work), QueueInv, NEW w \in Work, queue' = QueueWork(w)
    PROVE  queue' \in Seq(Work) /\ Queued' = Queued \cup {w} /\ QueueInv'
  <1>1. CASE w \in Queued
    BY <1>1 DEF QueueWork, Queued, QueueInv
  <1>2. CASE w \notin Queued
    <2>1. /\ queue' = Append(queue, w) /\ queue' \in Seq(Work)
          /\ Len(queue') = Len(queue) + 1 /\ Len(queue) \in Nat
          /\ queue'[Len(queue) + 1] = w
          /\ \A i \in 1 .. Len(queue) : queue'[i] = queue[i]
      BY <1>2 DEF QueueWork, Queued
    <2>2. \A i \in 1 .. Len(queue) : queue[i] \in Queued
      BY DEF Queued, ToSet
    <2>3. Queued' = Queued \cup {w}
      BY <2>1 DEF Queued, ToSet
    <2>4. \A i, j \in 1 .. Len(queue') : queue'[i] = queue'[j] => i = j
      BY <1>2, <2>1, <2>2 DEF QueueInv
    <2>5. IsFiniteSet(Queued') /\ Cardinality(Queued') = Cardinality(Queued) + 1
      BY <1>2, <2>3, FS_AddElement DEF QueueInv
    <2> QED
      BY <2>1, <2>3, <2>4, <2>5 DEF QueueInv
  <1> QED
    BY <1>1, <1>2

(* The worker takes the first work, which is then queued no more.          *)
LEMMA WorkTaken ==
    ASSUME queue \in Seq(Work), QueueInv, queue # <<>>, queue' = Tail(queue)
    PROVE  /\ queue' \in Seq(Work) /\ QueueInv'
           /\ Head(queue) \in Work /\ Head(queue) \in Queued
           /\ Queued' = Queued \ {Head(queue)}
  <1>1. /\ queue' \in Seq(Work) /\ Len(queue') = Len(queue) - 1
        /\ Len(queue) \in Nat /\ Len(queue) > 0
        /\ Head(queue) = queue[1] /\ Head(queue) \in Work
        /\ \A i \in 1 .. Len(queue') : queue'[i] = queue[i + 1]
    OBVIOUS
  <1>2. Head(queue) \in Queued
    BY <1>1 DEF Queued, ToSet
  <1>3. \A i, j \in 1 .. Len(queue') : queue'[i] = queue'[j] => i = j
    BY <1>1 DEF QueueInv
  <1>4. Queued' = Queued \ {Head(queue)}
    <2>a. DOMAIN queue = 1 .. Len(queue) /\ DOMAIN queue' = 1 .. Len(queue')
      BY <1>1
    <2>1. Queued' = {queue'[i] : i \in 1 .. Len(queue')} /\ Queued = {queue[i] : i \in 1 .. Len(queue)}
      BY <2>a, Zenon DEF Queued, ToSet
    <2>2. ASSUME NEW x \in Queued' PROVE x \in Queued /\ x # Head(queue)
      <3>1. PICK i \in 1 .. Len(queue') : x = queue'[i]
        BY <2>1
      <3>2. i + 1 \in 1 .. Len(queue) /\ i + 1 # 1 /\ x = queue[i + 1]
        BY <1>1, <3>1
      <3>3. queue[i + 1] # queue[1]
        BY <1>1, <3>2 DEF QueueInv
      <3> QED
        BY <1>1, <2>1, <3>2, <3>3
    <2>3. ASSUME NEW x \in Queued, x # Head(queue) PROVE x \in Queued'
      <3>1. PICK i \in 1 .. Len(queue) : x = queue[i]
        BY <2>1
      <3>2. i - 1 \in 1 .. Len(queue') /\ queue'[i - 1] = x
        BY <1>1, <2>3, <3>1
      <3> QED
        BY <2>1, <3>2
    <2> QED
      BY <2>2, <2>3
  <1>5. IsFiniteSet(Queued') /\ Cardinality(Queued') = Cardinality(Queued) - 1
    BY <1>2, <1>4, FS_RemoveElement DEF QueueInv
  <1> QED
    BY <1>1, <1>2, <1>3, <1>4, <1>5 DEF QueueInv

(* The works of a slot.                                                    *)
LEMMA Works ==
    /\ \A s \in Slots : <<"sensor", s>> \in Work /\ <<"lock", s>> \in Work
    /\ \A w \in Work : w[2] \in Slots /\ (w = <<"sensor", w[2]>> \/ w = <<"lock", w[2]>>)
    /\ \A s, r : <<"sensor", s>> # <<"lock", r>>
    /\ \A s, r : <<"sensor", s>> = <<"sensor", r>> => s = r
    /\ \A s, r : <<"lock", s>> = <<"lock", r>> => s = r
  BY DEF Work

-----------------------------------------------------------------------------
(* The initial state has the invariant.                                    *)
LEMMA InitInv == Init => IInv
  <1> SUFFICES ASSUME Init PROVE IInv
    OBVIOUS
  <1> USE SlotConfig DEF Init
  <1>1. <<>> \in Seq(Work) /\ Len(<<>>) = 0
    OBVIOUS
  <1>2. Queued = {}
    BY <1>1 DEF Queued, ToSet
  <1>3. QueueInv
    BY <1>1, <1>2, FS_EmptySet DEF QueueInv
  <1>4. SensorTypes
    BY <1>1 DEF SensorTypes, EchoState
  <1>5. WorkerTypes
    <2>1. do_lock \in BOOLEAN
      OBVIOUS
    <2> QED
      BY <2>1 DEF WorkerTypes, Samples
  <1>6. LockTypes
    BY DEF LockTypes, LockState
  <1>7. FeedTypes
    <2>1. status_changed \in BOOLEAN
      OBVIOUS
    <2> QED
      BY <2>1 DEF FeedTypes
  <1>8. ClockTypes
    BY DEF ClockTypes, Ages
  <1>9. EchoInv
    BY <1>2 DEF EchoInv
  <1>10. LockWorkInv
    BY <1>2 DEF LockWorkInv, Running
  <1>11. PositionInv
    BY DEF PositionInv, Position
  <1>12. ReaderInv
    BY DEF ReaderInv
  <1> QED
    BY <1>3, <1>4, <1>5, <1>6, <1>7, <1>8, <1>9, <1>10, <1>11, <1>12, TypesSplit DEF IInv

(* What the interrupt does to queue and sensors.                           *)
LEMMA EchoIsrEffect ==
    ASSUME SensorTypes, QueueInv, EchoInv, NEW s \in Slots, NEW pin \in {0, 1}, EchoIsr(s, pin)
    PROVE  /\ echo' \in [Slots -> EchoState] /\ queue' \in Seq(Work)
           /\ QueueInv' /\ EchoInv'
           /\ \A r \in Slots : <<"lock", r>> \in Queued' <=> <<"lock", r>> \in Queued
  <1> USE DEF SensorTypes
  <1>1. echo' \in [Slots -> EchoState]
    BY DEF EchoIsr, EchoState
  <1>2. CASE echo[s] = "WAIT_LOW" /\ pin = 0
    <2>1. queue' = QueueWork(<<"sensor", s>>) /\ echo' = [echo EXCEPT ![s] = "DONE"]
      BY <1>2 DEF EchoIsr
    <2>2. queue' \in Seq(Work) /\ Queued' = Queued \cup {<<"sensor", s>>} /\ QueueInv'
      BY <2>1, Works, WorkQueued
    <2>3. EchoInv'
      BY <2>1, <2>2, Works DEF EchoInv
    <2> QED
      BY <1>1, <2>2, <2>3, Works
  <1>3. CASE ~(echo[s] = "WAIT_LOW" /\ pin = 0)
    <2>1. queue' = queue /\ (\A r \in Slots : echo'[r] = "DONE" <=> echo[r] = "DONE")
      BY <1>3 DEF EchoIsr
    <2>2. Queued' = Queued /\ QueueInv'
      BY <2>1 DEF Queued, QueueInv
    <2> QED
      BY <1>1, <2>1, <2>2 DEF EchoInv
  <1> QED
    BY <1>2, <1>3

(* One interrupt of the echo pin.                                          *)
EchoEdge(s) == EchoRise(s) \/ EchoFall(s) \/ EchoMissed(s)

LEMMA EchoEdgeEffect ==
    ASSUME SensorTypes, QueueInv, EchoInv, NEW s \in Slots, EchoEdge(s)
    PROVE  /\ SensorTypes' /\ QueueInv' /\ EchoInv'
           /\ \A r \in Slots : <<"lock", r>> \in Queued' <=> <<"lock", r>> \in Queued
           /\ UNCHANGED <<worker, occupied, status_changed, locks, reader, history>>
  <1>1. PICK pin \in {0, 1} : EchoIsr(s, pin)
    BY DEF EchoEdge, EchoRise, EchoFall, EchoMissed
  <1>2. pulse' \in [Slots -> BOOLEAN]
    BY DEF SensorTypes, EchoEdge, EchoRise, EchoFall, EchoMissed
  <1>3. UNCHANGED <<worker, occupied, status_changed, locks, reader, history>>
    BY <1>1 DEF EchoIsr
  <1> QED
    BY <1>1, <1>2, <1>3, EchoIsrEffect DEF SensorTypes

-----------------------------------------------------------------------------
(* What leaves a part of the invariant alone.                              *)

LEMMA QueueKept ==
    ASSUME SensorTypes, QueueInv, EchoInv, UNCHANGED queue,
           echo' \in [Slots -> EchoState], pulse' \in [Slots -> BOOLEAN],
           \A s \in Slots : echo'[s] = "DONE" <=> echo[s] = "DONE"
    PROVE  SensorTypes' /\ QueueInv' /\ EchoInv' /\ Queued' = Queued
  <1>1. Queued' = Queued
    BY DEF Queued
  <1> QED
    BY <1>1 DEF SensorTypes, QueueInv, EchoInv

LEMMA LocksKept ==
    ASSUME LockTypes, LockWorkInv, PositionInv,
           UNCHANGED <<do_lock, turned, lock_st, lock_pending, consecutive_unoccupied, barrier>>,
           \A s \in Slots : Running(s)' <=> Running(s),
           \A s \in Slots : <<"lock", s>> \in Queued' <=> <<"lock", s>> \in Queued
    PROVE  LockTypes' /\ LockWorkInv' /\ PositionInv'
  <1>1. LockTypes'
    BY DEF LockTypes
  <1>2. LockWorkInv'
    BY DEF LockWorkInv
  <1>3. PositionInv'
    BY DEF PositionInv, Position
  <1> QED
    BY <1>1, <1>2, <1>3

LEMMA FeedKept ==
    ASSUME FeedTypes, ReaderInv, UNCHANGED <<occupied, status_changed, reader>>,
           \A s \in Slots : Announcing(s) => Announcing(s)'
    PROVE  FeedTypes' /\ ReaderInv'
  BY DEF FeedTypes, ReaderInv, reader

LEMMA ClocksKept ==
    ASSUME ClockTypes, UNCHANGED <<occupyAge, history>>
    PROVE  ClockTypes'
  BY DEF ClockTypes, history

-----------------------------------------------------------------------------
(* Every step preserves the invariant: measuring.                          *)
LEMMA MeasureTimerStep == IInv /\ MeasureTimer => IInv'
  <1> SUFFICES ASSUME IInv, MeasureTimer PROVE IInv'
    OBVIOUS
  <1> USE DEF IInv
  <1>0. SensorTypes /\ WorkerTypes /\ LockTypes /\ FeedTypes /\ ClockTypes
    BY TypesSplit
  <1>1. UNCHANGED <<queue, worker, occupied, status_changed, locks, reader, history>>
    BY DEF MeasureTimer
  <1>2. /\ echo' \in [Slots -> EchoState] /\ pulse' \in [Slots -> BOOLEAN]
        /\ \A s \in Slots : echo'[s] = "DONE" <=> echo[s] = "DONE"
    BY <1>0 DEF MeasureTimer, SensorTypes, EchoState
  <1>3. SensorTypes' /\ QueueInv' /\ EchoInv' /\ Queued' = Queued
    BY <1>0, <1>1, <1>2, QueueKept
  <1>4. WorkerTypes'
    BY <1>0, <1>1 DEF WorkerTypes, worker
  <1>5. LockTypes' /\ LockWorkInv' /\ PositionInv'
    BY <1>0, <1>1, <1>3, LocksKept DEF worker, locks, Running
  <1>6. FeedTypes' /\ ReaderInv'
    BY <1>0, <1>1, FeedKept DEF worker, Announcing
  <1>7. ClockTypes'
    BY <1>0, <1>1, ClocksKept DEF locks
  <1> QED
    BY <1>3, <1>4, <1>5, <1>6, <1>7, TypesSplit

LEMMA EchoStep == \A s \in Slots : IInv /\ EchoEdge(s) => IInv'
  <1> SUFFICES ASSUME NEW s \in Slots, IInv, EchoEdge(s) PROVE IInv'
    OBVIOUS
  <1> USE DEF IInv
  <1>0. SensorTypes /\ WorkerTypes /\ LockTypes /\ FeedTypes /\ ClockTypes
    BY TypesSplit
  <1>1. /\ SensorTypes' /\ QueueInv' /\ EchoInv'
        /\ \A r \in Slots : <<"lock", r>> \in Queued' <=> <<"lock", r>> \in Queued
        /\ UNCHANGED <<worker, occupied, status_changed, locks, reader, history>>
    BY <1>0, EchoEdgeEffect
  <1>2. WorkerTypes'
    BY <1>0, <1>1 DEF WorkerTypes, worker
  <1>3. LockTypes' /\ LockWorkInv' /\ PositionInv'
    BY <1>0, <1>1, LocksKept DEF worker, locks, Running
  <1>4. FeedTypes' /\ ReaderInv'
    BY <1>0, <1>1, FeedKept DEF worker, Announcing
  <1>5. ClockTypes'
    BY <1>0, <1>1, ClocksKept DEF locks
  <1> QED
    BY <1>1, <1>2, <1>3, <1>4, <1>5, TypesSplit

(* The evaluation of a sample, up to the lock.                             *)
LEMMA TakeSensorWorkStep == IInv /\ TakeSensorWork => IInv'
  <1> SUFFICES ASSUME IInv, TakeSensorWork PROVE IInv'
    OBVIOUS
  <1> USE DEF IInv
  <1>0. SensorTypes /\ WorkerTypes /\ LockTypes /\ FeedTypes /\ ClockTypes
    BY TypesSplit
  <1>1. /\ wpc = "idle" /\ queue # <<>> /\ Head(queue)[1] = "sensor" /\ queue' = Tail(queue)
        /\ slot' = Head(queue)[2] /\ sample' \in Samples /\ echo' = [echo EXCEPT ![slot'] = "IDLE"]
        /\ wpc' \in {"idle", "update"}
        /\ UNCHANGED <<pulse, do_lock, turned, occupied, status_changed, locks, reader, history>>
    BY DEF TakeSensorWork, EchoRearmed
  <1>2. /\ queue' \in Seq(Work) /\ QueueInv' /\ Head(queue) \in Work /\ Head(queue) \in Queued
        /\ Queued' = Queued \ {Head(queue)}
    BY <1>0, <1>1, WorkTaken DEF SensorTypes
  <1>3. slot' \in Slots /\ Head(queue) = <<"sensor", slot'>>
    BY <1>1, <1>2, Works
  <1>4. SensorTypes' /\ EchoInv'
    BY <1>0, <1>1, <1>2, <1>3, Works DEF SensorTypes, EchoInv, EchoState
  <1>5. WorkerTypes'
    BY <1>0, <1>1, <1>3 DEF WorkerTypes
  <1>6. LockTypes' /\ LockWorkInv' /\ PositionInv'
    <2>1. \A s \in Slots : Running(s)' <=> Running(s)
      BY <1>1 DEF Running
    <2>2. \A s \in Slots : <<"lock", s>> \in Queued' <=> <<"lock", s>> \in Queued
      BY <1>2, <1>3, Works
    <2> QED
      BY <1>0, <1>1, <2>1, <2>2, LocksKept DEF locks
  <1>7. FeedTypes' /\ ReaderInv'
    BY <1>0, <1>1, FeedKept DEF Announcing
  <1>8. ClockTypes'
    BY <1>0, <1>1, ClocksKept DEF locks
  <1> QED
    BY <1>2, <1>4, <1>5, <1>6, <1>7, <1>8, TypesSplit

LEMMA UpdateOccupiedStep == IInv /\ UpdateOccupied => IInv'
  <1> SUFFICES ASSUME IInv, UpdateOccupied PROVE IInv'
    OBVIOUS
  <1> USE DEF IInv
  <1>0. SensorTypes /\ WorkerTypes /\ LockTypes /\ FeedTypes /\ ClockTypes
    BY TypesSplit
  <1> DEFINE now == sample = "near"
  <1>1. /\ wpc = "update" /\ occupied' = [occupied EXCEPT ![slot] = now]
        /\ wpc' = IF occupied[slot] # now THEN "notify" ELSE "lock_fsm"
        /\ UNCHANGED <<echo, pulse, queue, slot, sample, do_lock, turned, status_changed,
                       locks, reader>>
    BY DEF UpdateOccupied, Changed
  <1>2. SensorTypes' /\ QueueInv' /\ EchoInv' /\ Queued' = Queued
    BY <1>0, <1>1, QueueKept DEF SensorTypes
  <1>3. WorkerTypes'
    BY <1>0, <1>1 DEF WorkerTypes
  <1>4. LockTypes' /\ LockWorkInv' /\ PositionInv'
    BY <1>0, <1>1, <1>2, LocksKept DEF locks, Running
  <1>5. occupied' \in [Slots -> BOOLEAN]
    <2>1. now \in BOOLEAN
      OBVIOUS
    <2> QED
      BY <1>0, <1>1, <2>1 DEF FeedTypes
  <1>6. FeedTypes'
    BY <1>0, <1>1, <1>5 DEF FeedTypes, reader
  <1>7. ReaderInv'
    <2>1. \A s \in Slots : occupied'[s] = occupied[s] \/ Announcing(s)'
      BY <1>0, <1>1 DEF FeedTypes, Announcing
    <2>2. \A s \in Slots : ~Announcing(s)
      BY <1>1 DEF Announcing
    <2> QED
      BY <1>1, <2>1, <2>2 DEF ReaderInv, reader
  <1>8. ClockTypes'
    <2>1. /\ emptyRun' = [emptyRun EXCEPT ![slot] =
                            IF now THEN 0 ELSE IF @ < ReleaseCount THEN @ + 1 ELSE @]
          /\ stayAge' = [stayAge EXCEPT ![slot] =
                           IF now /\ emptyRun[slot] = ReleaseCount THEN 0 ELSE @]
          /\ UNCHANGED occupyAge
      BY <1>1 DEF UpdateOccupied, locks
    <2>2. emptyRun' \in [Slots -> 0 .. ReleaseCount]
      BY <1>0, <2>1, SlotConfig DEF ClockTypes, WorkerTypes
    <2>3. stayAge' \in [Slots -> Ages]
      BY <1>0, <2>1, SlotConfig DEF ClockTypes, WorkerTypes, Ages
    <2> QED
      BY <1>0, <2>1, <2>2, <2>3 DEF ClockTypes
  <1> QED
    BY <1>2, <1>3, <1>4, <1>6, <1>7, <1>8, TypesSplit

LEMMA NotifyStep == IInv /\ Notify => IInv'
  <1> SUFFICES ASSUME IInv, Notify PROVE IInv'
    OBVIOUS
  <1> USE DEF IInv
  <1>0. SensorTypes /\ WorkerTypes /\ LockTypes /\ FeedTypes /\ ClockTypes
    BY TypesSplit
  <1>1. /\ wpc = "notify" /\ wpc' = "lock_fsm" /\ status_changed' = TRUE
        /\ UNCHANGED <<echo, pulse, queue, slot, sample, do_lock, turned, occupied, locks,
                       reader, history>>
    BY DEF Notify
  <1>2. SensorTypes' /\ QueueInv' /\ EchoInv' /\ Queued' = Queued
    BY <1>0, <1>1, QueueKept DEF SensorTypes
  <1>3. WorkerTypes'
    BY <1>0, <1>1 DEF WorkerTypes
  <1>4. LockTypes' /\ LockWorkInv' /\ PositionInv'
    BY <1>0, <1>1, <1>2, LocksKept DEF locks, Running
  <1>5. FeedTypes' /\ ReaderInv'
    BY <1>0, <1>1 DEF FeedTypes, ReaderInv, reader
  <1>6. ClockTypes'
    BY <1>0, <1>1, ClocksKept DEF locks
  <1> QED
    BY <1>2, <1>3, <1>4, <1>5, <1>6, TypesSplit

-----------------------------------------------------------------------------
(* The state machine of the lock, case by case.                            *)

LEMMA FreeEffect ==
    ASSUME IInv, wpc = "lock_fsm", wpc' = "idle", NEW now \in BOOLEAN, Free(now),
           UNCHANGED <<echo, pulse, slot, do_lock, turned, barrier>>
    PROVE  /\ SensorTypes' /\ QueueInv' /\ EchoInv'
           /\ LockTypes' /\ LockWorkInv' /\ PositionInv'
           /\ occupyAge' \in [Slots -> Ages]
  <1> USE DEF IInv
  <1>0. SensorTypes /\ WorkerTypes /\ LockTypes /\ FeedTypes /\ ClockTypes
    BY TypesSplit
  <1>1. lock_st[slot] = "FREE" /\ UNCHANGED <<lock_pending, queue>>
    BY DEF Free
  <1>2. SensorTypes' /\ QueueInv' /\ EchoInv' /\ Queued' = Queued
    BY <1>0, <1>1, QueueKept DEF SensorTypes
  <1>3. slot \in Slots /\ \A s \in Slots : ~Running(s) /\ ~Running(s)'
    BY <1>0 DEF Running, WorkerTypes
  <1>4. CASE ~now
    <2>1. UNCHANGED <<occupyAge, consecutive_unoccupied, lock_st>>
      BY <1>4 DEF Free
    <2> QED
      BY <1>0, <1>1, <1>2, <1>3, <2>1, LocksKept DEF ClockTypes
  <1>5. CASE now
    <2>1. /\ occupyAge' = [occupyAge EXCEPT ![slot] = 0]
          /\ consecutive_unoccupied' = [consecutive_unoccupied EXCEPT ![slot] = 0]
          /\ lock_st' = [lock_st EXCEPT ![slot] = "TIMING"]
      BY <1>5 DEF Free, OccupyStart
    <2>2. occupyAge' \in [Slots -> Ages]
      BY <1>0, <1>3, <2>1, SlotConfig DEF ClockTypes, Ages
    <2>3. LockTypes'
      BY <1>0, <1>1, <1>3, <2>1, SlotConfig DEF LockTypes, LockState
    <2>4. LockWorkInv'
      BY <1>0, <1>1, <1>2, <1>3, <2>1 DEF LockWorkInv, LockTypes
    <2>5. PositionInv'
      <3>1. /\ \A s \in Slots : s # slot => lock_st'[s] = lock_st[s]
                                       /\ consecutive_unoccupied'[s] = consecutive_unoccupied[s]
            /\ lock_st'[slot] = "TIMING" /\ consecutive_unoccupied'[slot] < ReleaseCount
        BY <1>0, <1>3, <2>1, SlotConfig DEF LockTypes
      <3> QED
        BY <1>1, <1>3, <3>1 DEF PositionInv, Position
    <2> QED
      BY <1>2, <2>2, <2>3, <2>4, <2>5
  <1> QED
    BY <1>4, <1>5

LEMMA TimingFarEffect ==
    ASSUME IInv, wpc = "lock_fsm", wpc' = "idle", NEW now \in BOOLEAN, TimingFar(now),
           UNCHANGED <<echo, pulse, slot, do_lock, turned, barrier>>
    PROVE  /\ SensorTypes' /\ QueueInv' /\ EchoInv'
           /\ LockTypes' /\ LockWorkInv' /\ PositionInv'
           /\ occupyAge' \in [Slots -> Ages]
  <1> USE DEF IInv
  <1>0. SensorTypes /\ WorkerTypes /\ LockTypes /\ FeedTypes /\ ClockTypes
    BY TypesSplit
  <1>1. /\ lock_st[slot] = "TIMING" /\ UNCHANGED <<occupyAge, lock_pending, queue>>
        /\ consecutive_unoccupied' =
              [consecutive_unoccupied EXCEPT ![slot] = consecutive_unoccupied[slot] + 1]
        /\ lock_st' = [lock_st EXCEPT ![slot] =
                         IF consecutive_unoccupied'[slot] >= ReleaseCount THEN "FREE" ELSE @]
    BY DEF TimingFar
  <1>2. SensorTypes' /\ QueueInv' /\ EchoInv' /\ Queued' = Queued
    BY <1>0, <1>1, QueueKept DEF SensorTypes
  <1>3. \A s \in Slots : ~Running(s) /\ ~Running(s)'
    BY DEF Running
  <1>4. slot \in Slots /\ consecutive_unoccupied[slot] < ReleaseCount
    BY <1>0, <1>1 DEF PositionInv, WorkerTypes
  <1>5. /\ \A s \in Slots : s # slot => lock_st'[s] = lock_st[s]
                                  /\ consecutive_unoccupied'[s] = consecutive_unoccupied[s]
        /\ lock_st'[slot] \in {"TIMING", "FREE"}
        /\ lock_st'[slot] = "TIMING" => consecutive_unoccupied'[slot] < ReleaseCount
    BY <1>0, <1>1, <1>4, SlotConfig DEF LockTypes
  <1>6. LockTypes'
    BY <1>0, <1>1, <1>4, SlotConfig DEF LockTypes, LockState
  <1>7. LockWorkInv'
    BY <1>1, <1>2, <1>3, <1>4, <1>5 DEF LockWorkInv
  <1>8. PositionInv'
    BY <1>1, <1>3, <1>4, <1>5 DEF PositionInv, Position
  <1> QED
    BY <1>0, <1>1, <1>2, <1>6, <1>7, <1>8 DEF ClockTypes

(* A car that has stayed: the lock is to close, and its work is queued.    *)
LEMMA TimingNearEffect ==
    ASSUME IInv, wpc = "lock_fsm", wpc' = "idle", NEW now \in BOOLEAN, TimingNear(now),
           UNCHANGED <<echo, pulse, slot, do_lock, turned, barrier>>
    PROVE  /\ SensorTypes' /\ QueueInv' /\ EchoInv'
           /\ LockTypes' /\ LockWorkInv' /\ PositionInv'
           /\ occupyAge' \in [Slots -> Ages]
  <1> USE DEF IInv
  <1>0. SensorTypes /\ WorkerTypes /\ LockTypes /\ FeedTypes /\ ClockTypes
    BY TypesSplit
  <1>1. /\ lock_st[slot] = "TIMING" /\ UNCHANGED occupyAge
        /\ consecutive_unoccupied' = [consecutive_unoccupied EXCEPT ![slot] = 0]
    BY DEF TimingNear
  <1>2. slot \in Slots /\ \A s \in Slots : ~Running(s) /\ ~Running(s)'
    BY <1>0 DEF Running, WorkerTypes
  <1>3. consecutive_unoccupied' \in [Slots -> 0 .. ReleaseCount]
    BY <1>0, <1>1, <1>2, SlotConfig DEF LockTypes
  <1>4. CASE occupyAge[slot] >= LockTimeout
    <2>1. /\ lock_st' = [lock_st EXCEPT ![slot] = "LOCKING"]
          /\ lock_pending' = [lock_pending EXCEPT ![slot] = TRUE]
          /\ queue' = QueueWork(<<"lock", slot>>)
      BY <1>4 DEF TimingNear
    <2>2. queue' \in Seq(Work) /\ Queued' = Queued \cup {<<"lock", slot>>} /\ QueueInv'
      BY <1>0, <1>2, <2>1, Works, WorkQueued DEF SensorTypes
    <2>3. SensorTypes' /\ EchoInv'
      BY <1>0, <2>2, Works DEF SensorTypes, EchoInv
    <2>4. LockTypes'
      BY <1>0, <1>3, <2>1 DEF LockTypes, LockState
    <2>5. \A s \in Slots : <<"lock", s>> \in Queued' <=> s = slot \/ <<"lock", s>> \in Queued
      BY <2>2, Works
    <2>6. LockWorkInv'
      BY <1>0, <1>2, <2>1, <2>5 DEF LockWorkInv, LockTypes
    <2>7. PositionInv'
      <3>1. /\ \A s \in Slots : s # slot => lock_st'[s] = lock_st[s]
                                       /\ consecutive_unoccupied'[s] = consecutive_unoccupied[s]
            /\ lock_st'[slot] = "LOCKING"
        BY <1>0, <1>1, <1>2, <2>1 DEF LockTypes
      <3> QED
        BY <1>1, <1>2, <3>1 DEF PositionInv, Position
    <2> QED
      BY <1>0, <1>1, <2>2, <2>3, <2>4, <2>6, <2>7 DEF ClockTypes
  <1>5. CASE ~(occupyAge[slot] >= LockTimeout)
    <2>1. UNCHANGED <<lock_st, lock_pending, queue>>
      BY <1>5 DEF TimingNear
    <2>2. SensorTypes' /\ QueueInv' /\ EchoInv' /\ Queued' = Queued
      BY <1>0, <2>1, QueueKept DEF SensorTypes
    <2>3. LockTypes'
      BY <1>0, <1>3, <2>1 DEF LockTypes
    <2>4. LockWorkInv'
      BY <1>2, <2>1, <2>2 DEF LockWorkInv
    <2>5. PositionInv'
      <3>1. /\ \A s \in Slots : s # slot => consecutive_unoccupied'[s] = consecutive_unoccupied[s]
            /\ consecutive_unoccupied'[slot] < ReleaseCount
        BY <1>0, <1>1, <1>2, SlotConfig DEF LockTypes
      <3> QED
        BY <1>2, <2>1, <3>1 DEF PositionInv, Position
    <2> QED
      BY <1>0, <1>1, <2>2, <2>3, <2>4, <2>5 DEF ClockTypes
  <1> QED
    BY <1>4, <1>5

LEMMA OtherLockEffect ==
    ASSUME IInv, wpc = "lock_fsm", wpc' = "idle", NEW now \in BOOLEAN,
           WaitEmpty(now) \/ InMotionOrLocked,
           UNCHANGED <<echo, pulse, slot, do_lock, turned, barrier>>
    PROVE  /\ SensorTypes' /\ QueueInv' /\ EchoInv'
           /\ LockTypes' /\ LockWorkInv' /\ PositionInv'
           /\ occupyAge' \in [Slots -> Ages]
  <1> USE DEF IInv
  <1>0. SensorTypes /\ WorkerTypes /\ LockTypes /\ FeedTypes /\ ClockTypes
    BY TypesSplit
  <1>1. UNCHANGED <<occupyAge, consecutive_unoccupied, lock_pending, queue>>
    BY DEF WaitEmpty, InMotionOrLocked
  <1>2. SensorTypes' /\ QueueInv' /\ EchoInv' /\ Queued' = Queued
    BY <1>0, <1>1, QueueKept DEF SensorTypes
  <1>3. slot \in Slots /\ \A s \in Slots : ~Running(s) /\ ~Running(s)'
    BY <1>0 DEF Running, WorkerTypes
  <1>4. \/ UNCHANGED lock_st
        \/ lock_st[slot] = "WAIT_EMPTY" /\ lock_st' = [lock_st EXCEPT ![slot] = "FREE"]
    BY <1>0 DEF WaitEmpty, InMotionOrLocked, LockTypes
  <1>5. CASE UNCHANGED lock_st
    BY <1>0, <1>1, <1>2, <1>3, <1>5, LocksKept DEF ClockTypes
  <1>6. CASE lock_st[slot] = "WAIT_EMPTY" /\ lock_st' = [lock_st EXCEPT ![slot] = "FREE"]
    <2>1. LockTypes'
      BY <1>0, <1>1, <1>6 DEF LockTypes, LockState
    <2>2. LockWorkInv'
      BY <1>0, <1>1, <1>2, <1>3, <1>6 DEF LockWorkInv, LockTypes
    <2>3. PositionInv'
      BY <1>0, <1>1, <1>3, <1>6 DEF PositionInv, Position, LockTypes
    <2> QED
      BY <1>0, <1>1, <1>2, <2>1, <2>2, <2>3 DEF ClockTypes
  <1> QED
    BY <1>4, <1>5, <1>6

LEMMA LockFsmStep == IInv /\ LockFsm => IInv'
  <1> SUFFICES ASSUME IInv, LockFsm PROVE IInv'
    OBVIOUS
  <1> USE DEF IInv
  <1>0. SensorTypes /\ WorkerTypes /\ LockTypes /\ FeedTypes /\ ClockTypes
    BY TypesSplit
  <1> DEFINE now == sample = "near"
  <1>1. /\ wpc = "lock_fsm" /\ wpc' = "idle"
        /\ Free(now) \/ TimingFar(now) \/ TimingNear(now) \/ WaitEmpty(now) \/ InMotionOrLocked
        /\ UNCHANGED <<echo, pulse, slot, sample, do_lock, turned, occupied,
                       status_changed, barrier, reader, history>>
    BY DEF LockFsm
  <1>2. now \in BOOLEAN
    OBVIOUS
  <1> HIDE DEF now
  <1>3. /\ SensorTypes' /\ QueueInv' /\ EchoInv'
        /\ LockTypes' /\ LockWorkInv' /\ PositionInv'
        /\ occupyAge' \in [Slots -> Ages]
    <2>1. CASE Free(now)
      BY <1>1, <1>2, <2>1, FreeEffect
    <2>2. CASE TimingFar(now)
      BY <1>1, <1>2, <2>2, TimingFarEffect
    <2>3. CASE TimingNear(now)
      BY <1>1, <1>2, <2>3, TimingNearEffect
    <2>4. CASE WaitEmpty(now) \/ InMotionOrLocked
      BY <1>1, <1>2, <2>4, OtherLockEffect
    <2> QED
      BY <1>1, <2>1, <2>2, <2>3, <2>4
  <1>4. WorkerTypes'
    BY <1>0, <1>1 DEF WorkerTypes
  <1>5. FeedTypes' /\ ReaderInv'
    BY <1>0, <1>1, FeedKept DEF Announcing
  <1>6. ClockTypes'
    BY <1>0, <1>1, <1>3 DEF ClockTypes, history
  <1> QED
    BY <1>3, <1>4, <1>5, <1>6, TypesSplit

-----------------------------------------------------------------------------
(* The stroke of a lock.                                                   *)

LEMMA TakeLockWorkStep == IInv /\ TakeLockWork => IInv'
  <1> SUFFICES ASSUME IInv, TakeLockWork PROVE IInv'
    OBVIOUS
  <1> USE DEF IInv
  <1>0. SensorTypes /\ WorkerTypes /\ LockTypes /\ FeedTypes /\ ClockTypes
    BY TypesSplit
  <1>1. /\ wpc = "idle" /\ queue # <<>> /\ Head(queue)[1] = "lock" /\ queue' = Tail(queue)
        /\ slot' = Head(queue)[2] /\ do_lock' = lock_pending[slot'] /\ turned' = 0 /\ wpc' = "turn"
        /\ UNCHANGED <<echo, pulse, sample, occupied, status_changed, locks, reader, history>>
    BY DEF TakeLockWork
  <1>2. /\ queue' \in Seq(Work) /\ QueueInv' /\ Head(queue) \in Work /\ Head(queue) \in Queued
        /\ Queued' = Queued \ {Head(queue)}
    BY <1>0, <1>1, WorkTaken DEF SensorTypes
  <1>3. slot' \in Slots /\ Head(queue) = <<"lock", slot'>>
    BY <1>1, <1>2, Works
  <1>4. SensorTypes' /\ EchoInv'
    BY <1>0, <1>1, <1>2, <1>3, Works DEF SensorTypes, EchoInv
  <1>5. WorkerTypes'
    BY <1>0, <1>1, <1>3, SlotConfig DEF WorkerTypes, LockTypes
  <1>6. LockTypes'
    BY <1>0, <1>1 DEF LockTypes, locks
  <1>7. \A s \in Slots : /\ ~Running(s) /\ (Running(s)' <=> s = slot')
                         /\ <<"lock", s>> \in Queued' <=> <<"lock", s>> \in Queued /\ s # slot'
    BY <1>1, <1>2, <1>3, Works DEF Running
  <1>8. LockWorkInv'
    BY <1>1, <1>2, <1>3, <1>7 DEF LockWorkInv, locks
  <1>9. PositionInv'
    BY <1>1, <1>7, SlotConfig DEF PositionInv, Position, locks
  <1>10. FeedTypes' /\ ReaderInv'
    BY <1>0, <1>1, FeedKept DEF Announcing
  <1>11. ClockTypes'
    BY <1>0, <1>1, ClocksKept DEF locks
  <1> QED
    BY <1>2, <1>4, <1>5, <1>6, <1>8, <1>9, <1>10, <1>11, TypesSplit

LEMMA TurnStep == IInv /\ Turn => IInv'
  <1> SUFFICES ASSUME IInv, Turn PROVE IInv'
    OBVIOUS
  <1> USE DEF IInv
  <1>0. SensorTypes /\ WorkerTypes /\ LockTypes /\ FeedTypes /\ ClockTypes
    BY TypesSplit
  <1>1. /\ wpc = "turn" /\ turned < LockTurns /\ turned' = turned + 1
        /\ barrier' = [barrier EXCEPT ![slot] =
                         IF do_lock THEN barrier[slot] + 1 ELSE barrier[slot] - 1]
        /\ UNCHANGED <<echo, pulse, queue, wpc, slot, sample, do_lock, occupied, status_changed,
                       lock_st, lock_pending, occupyAge, consecutive_unoccupied, reader, history>>
    BY DEF Turn
  <1>2. SensorTypes' /\ QueueInv' /\ EchoInv' /\ Queued' = Queued
    BY <1>0, <1>1, QueueKept DEF SensorTypes
  <1>3. WorkerTypes'
    BY <1>0, <1>1, SlotConfig DEF WorkerTypes
  <1>4. \A s \in Slots : (Running(s) <=> s = slot) /\ (Running(s)' <=> s = slot)
    BY <1>1 DEF Running
  <1>5. LockWorkInv'
    BY <1>1, <1>2, <1>4 DEF LockWorkInv
  <1>6. /\ lock_st[slot] \in {"LOCKING", "UNLOCKING"} /\ (do_lock <=> lock_st[slot] = "LOCKING")
        /\ slot \in Slots /\ turned \in Nat
    <2>1. slot \in Slots /\ turned \in Nat
      BY <1>0 DEF WorkerTypes
    <2>2. Running(slot)
      BY <1>4, <2>1
    <2> QED
      BY <2>1, <2>2 DEF LockWorkInv
  <1>7. barrier[slot] = IF do_lock THEN turned ELSE LockTurns - turned
    BY <1>4, <1>6 DEF PositionInv, Position
  <1>8. /\ barrier'[slot] = IF do_lock THEN turned' ELSE LockTurns - turned'
        /\ barrier'[slot] \in 0 .. LockTurns
    BY <1>0, <1>1, <1>6, <1>7, SlotConfig DEF LockTypes
  <1>9. LockTypes'
    BY <1>0, <1>1, <1>6, <1>8 DEF LockTypes
  <1>10. PositionInv'
    <2>1. \A s \in Slots : s # slot => barrier'[s] = barrier[s]
      BY <1>0, <1>1 DEF LockTypes
    <2> QED
      BY <1>1, <1>4, <1>6, <1>8, <2>1 DEF PositionInv, Position
  <1>11. FeedTypes' /\ ReaderInv'
    BY <1>0, <1>1, FeedKept DEF Announcing
  <1>12. ClockTypes'
    BY <1>0, <1>1, ClocksKept
  <1> QED
    BY <1>2, <1>3, <1>5, <1>9, <1>10, <1>11, <1>12, TypesSplit

LEMMA TurnDoneStep == IInv /\ TurnDone => IInv'
  <1> SUFFICES ASSUME IInv, TurnDone PROVE IInv'
    OBVIOUS
  <1> USE DEF IInv
  <1>0. SensorTypes /\ WorkerTypes /\ LockTypes /\ FeedTypes /\ ClockTypes
    BY TypesSplit
  <1>1. /\ wpc = "turn" /\ turned = LockTurns /\ wpc' = "idle"
        /\ lock_st' = [lock_st EXCEPT ![slot] = IF do_lock THEN "LOCKED" ELSE "WAIT_EMPTY"]
        /\ UNCHANGED <<echo, pulse, queue, slot, sample, do_lock, turned, occupied,
                       status_changed, lock_pending, occupyAge, consecutive_unoccupied, barrier,
                       reader, history>>
    BY DEF TurnDone, StrokeDone
  <1>2. SensorTypes' /\ QueueInv' /\ EchoInv' /\ Queued' = Queued
    BY <1>0, <1>1, QueueKept DEF SensorTypes
  <1>3. WorkerTypes'
    BY <1>0, <1>1 DEF WorkerTypes
  <1>4. \A s \in Slots : (Running(s) <=> s = slot) /\ ~Running(s)'
    BY <1>1 DEF Running
  <1>5. LockTypes'
    BY <1>0, <1>1 DEF LockTypes, LockState
  <1>6. /\ lock_st[slot] \in {"LOCKING", "UNLOCKING"} /\ (do_lock <=> lock_st[slot] = "LOCKING")
        /\ slot \in Slots /\ <<"lock", slot>> \notin Queued
    BY <1>0, <1>4 DEF LockWorkInv, WorkerTypes
  <1>7. /\ \A s \in Slots : s # slot => lock_st'[s] = lock_st[s]
        /\ lock_st'[slot] = IF do_lock THEN "LOCKED" ELSE "WAIT_EMPTY"
    BY <1>0, <1>1, <1>6 DEF LockTypes
  <1>8. LockWorkInv'
    <2>1. lock_st'[slot] \notin {"LOCKING", "UNLOCKING"}
      BY <1>7
    <2>2. UNCHANGED lock_pending
      BY <1>1
    <2> QED
      BY <1>2, <1>4, <1>6, <1>7, <2>1, <2>2 DEF LockWorkInv
  <1>9. barrier[slot] = IF do_lock THEN LockTurns ELSE 0
    BY <1>1, <1>4, <1>6, SlotConfig DEF PositionInv, Position
  <1>10. PositionInv'
    <2>1. UNCHANGED <<barrier, turned, consecutive_unoccupied>>
      BY <1>1
    <2>2. ASSUME NEW s \in Slots, s = slot
          PROVE  barrier'[s] = Position(s)' /\ lock_st'[s] # "TIMING"
      BY <1>4, <1>7, <1>9, <2>1, <2>2 DEF Position
    <2>3. ASSUME NEW s \in Slots, s # slot
          PROVE  Position(s)' = Position(s) /\ lock_st'[s] = lock_st[s]
      BY <1>4, <1>7, <2>1, <2>3 DEF Position
    <2> QED
      BY <2>1, <2>2, <2>3 DEF PositionInv
  <1>11. FeedTypes' /\ ReaderInv'
    BY <1>0, <1>1, FeedKept DEF Announcing
  <1>12. ClockTypes'
    BY <1>0, <1>1, ClocksKept
  <1> QED
    BY <1>2, <1>3, <1>5, <1>8, <1>10, <1>11, <1>12, TypesSplit

(* The button is heard only by a lock that is closed and has no work.      *)
LEMMA BtnIsrStep == \A s \in Slots : IInv /\ BtnIsr(s) => IInv'
  <1> SUFFICES ASSUME NEW s \in Slots, IInv, BtnIsr(s) PROVE IInv'
    OBVIOUS
  <1> USE DEF IInv
  <1>0. SensorTypes /\ WorkerTypes /\ LockTypes /\ FeedTypes /\ ClockTypes
    BY TypesSplit
  <1>1. /\ lock_st[s] = "LOCKED" /\ lock_st' = [lock_st EXCEPT ![s] = "UNLOCKING"]
        /\ lock_pending' = [lock_pending EXCEPT ![s] = FALSE]
        /\ queue' = QueueWork(<<"lock", s>>)
        /\ UNCHANGED <<echo, pulse, worker, occupied, status_changed, occupyAge,
                       consecutive_unoccupied, barrier, reader, history>>
    BY DEF BtnIsr, Unlockable, PendingCleared
  <1>2. queue' \in Seq(Work) /\ Queued' = Queued \cup {<<"lock", s>>} /\ QueueInv'
    BY <1>0, <1>1, Works, WorkQueued DEF SensorTypes
  <1>3. SensorTypes' /\ EchoInv'
    BY <1>0, <1>1, <1>2, Works DEF SensorTypes, EchoInv
  <1>4. WorkerTypes'
    BY <1>0, <1>1 DEF WorkerTypes, worker
  <1>5. LockTypes'
    BY <1>0, <1>1 DEF LockTypes, LockState
  <1>6. /\ ~Running(s) /\ \A r \in Slots : Running(r)' <=> Running(r)
        /\ \A r \in Slots : <<"lock", r>> \in Queued' <=> r = s \/ <<"lock", r>> \in Queued
    BY <1>1, <1>2, Works DEF LockWorkInv, Running, worker
  <1>7. /\ \A r \in Slots : r # s => lock_st'[r] = lock_st[r] /\ lock_pending'[r] = lock_pending[r]
        /\ lock_st'[s] = "UNLOCKING" /\ ~lock_pending'[s]
    BY <1>0, <1>1 DEF LockTypes
  <1>8. LockWorkInv'
    BY <1>1, <1>6, <1>7 DEF LockWorkInv, worker
  <1>9. PositionInv'
    <2>1. barrier[s] = LockTurns /\ LockTurns - 0 = LockTurns
      BY <1>1, SlotConfig DEF PositionInv, Position
    <2> QED
      BY <1>1, <1>6, <1>7, <2>1 DEF PositionInv, Position, worker
  <1>10. FeedTypes' /\ ReaderInv'
    BY <1>0, <1>1, FeedKept DEF Announcing, worker
  <1>11. ClockTypes'
    BY <1>0, <1>1, ClocksKept
  <1> QED
    BY <1>2, <1>3, <1>4, <1>5, <1>8, <1>9, <1>10, <1>11, TypesSplit

-----------------------------------------------------------------------------
(* The reader, and time.                                                   *)

LEMMA ReaderStep == IInv /\ Reader => IInv'
  <1> SUFFICES ASSUME IInv, Reader PROVE IInv'
    OBVIOUS
  <1> USE DEF IInv
  <1>0. SensorTypes /\ WorkerTypes /\ LockTypes /\ FeedTypes /\ ClockTypes
    BY TypesSplit
  <1>1. UNCHANGED <<echo, pulse, queue, worker, occupied, locks, history>>
    BY DEF Reader, ReadWakes, ReadClears, ReadCopies, ReadReturns
  <1>2. SensorTypes' /\ QueueInv' /\ EchoInv' /\ Queued' = Queued
    BY <1>0, <1>1, QueueKept DEF SensorTypes
  <1>3. WorkerTypes'
    BY <1>0, <1>1 DEF WorkerTypes, worker
  <1>4. LockTypes' /\ LockWorkInv' /\ PositionInv'
    BY <1>0, <1>1, <1>2, LocksKept DEF locks, worker, Running
  <1>5. ClockTypes'
    BY <1>0, <1>1, ClocksKept DEF locks
  <1>6. FeedTypes' /\ ReaderInv'
    <2> USE DEF FeedTypes, ReaderInv
    <2>1. CASE ReadWakes
      BY <1>0, <2>1 DEF ReadWakes
    <2>2. CASE ReadClears
      BY <1>0, <2>2 DEF ReadClears
    <2>3. CASE ReadCopies
      <3>1. PICK s \in unread : got' = [got EXCEPT ![s] = occupied[s]] /\ unread' = unread \ {s}
        BY <2>3 DEF ReadCopies
      <3>2. rpc = "copy" /\ UNCHANGED <<status_changed, rpc, report, occupied, worker>>
        BY <2>3 DEF ReadCopies
      <3>3. FeedTypes'
        BY <1>0, <3>1, <3>2
      <3>4. \A r \in Slots : Announcing(r)' <=> Announcing(r)
        BY <3>2 DEF Announcing, worker
      <3> QED
        BY <1>0, <3>1, <3>2, <3>3, <3>4
    <2>4. CASE ReadReturns
      <3>1. rpc = "copy" /\ unread = {} /\ report' = got /\ rpc' = "wait"
            /\ UNCHANGED <<status_changed, unread, got, occupied, worker>>
        BY <2>4 DEF ReadReturns
      <3>2. \A r \in Slots : Announcing(r)' <=> Announcing(r)
        BY <3>1 DEF Announcing, worker
      <3> QED
        BY <1>0, <3>1, <3>2
    <2> QED
      BY <2>1, <2>2, <2>3, <2>4 DEF Reader
  <1> QED
    BY <1>2, <1>3, <1>4, <1>5, <1>6, TypesSplit

LEMMA TickStep == IInv /\ Tick => IInv'
  <1> SUFFICES ASSUME IInv, Tick PROVE IInv'
    OBVIOUS
  <1> USE DEF IInv
  <1>0. SensorTypes /\ WorkerTypes /\ LockTypes /\ FeedTypes /\ ClockTypes
    BY TypesSplit
  <1>1. /\ occupyAge' = [s \in Slots |-> Older(occupyAge[s])]
        /\ stayAge' = [s \in Slots |-> Older(stayAge[s])]
        /\ UNCHANGED <<echo, pulse, queue, worker, occupied, status_changed, lock_st,
                       lock_pending, consecutive_unoccupied, barrier, reader, emptyRun>>
    BY DEF Tick
  <1>2. SensorTypes' /\ QueueInv' /\ EchoInv' /\ Queued' = Queued
    BY <1>0, <1>1, QueueKept DEF SensorTypes
  <1>3. WorkerTypes'
    BY <1>0, <1>1 DEF WorkerTypes, worker
  <1>4. LockTypes' /\ LockWorkInv' /\ PositionInv'
    BY <1>0, <1>1, <1>2, LocksKept DEF worker, Running
  <1>5. FeedTypes' /\ ReaderInv'
    BY <1>0, <1>1, FeedKept DEF Announcing, worker
  <1>6. ClockTypes'
    <2>1. \A age \in Ages : Older(age) \in Ages
      BY SlotConfig DEF Ages, Older
    <2> QED
      BY <1>0, <1>1, <2>1 DEF ClockTypes
  <1> QED
    BY <1>2, <1>3, <1>4, <1>5, <1>6, TypesSplit

LEMMA StutterStep == IInv /\ UNCHANGED vars => IInv'
  <1> SUFFICES ASSUME IInv, UNCHANGED vars PROVE IInv'
    OBVIOUS
  <1> USE DEF IInv
  <1>0. SensorTypes /\ WorkerTypes /\ LockTypes /\ FeedTypes /\ ClockTypes
    BY TypesSplit
  <1>1. UNCHANGED <<echo, pulse, queue, worker, occupied, status_changed, locks, reader, history>>
    BY DEF vars
  <1>2. SensorTypes' /\ QueueInv' /\ EchoInv' /\ Queued' = Queued
    BY <1>0, <1>1, QueueKept DEF SensorTypes
  <1>3. WorkerTypes'
    BY <1>0, <1>1 DEF WorkerTypes, worker
  <1>4. LockTypes' /\ LockWorkInv' /\ PositionInv'
    BY <1>0, <1>1, <1>2, LocksKept DEF worker, locks, Running
  <1>5. FeedTypes' /\ ReaderInv'
    BY <1>0, <1>1, FeedKept DEF Announcing, worker
  <1>6. ClockTypes'
    BY <1>0, <1>1, ClocksKept DEF locks
  <1> QED
    BY <1>2, <1>3, <1>4, <1>5, <1>6, TypesSplit

LEMMA StepInv == IInv /\ [Next]_vars => IInv'
  <1> SUFFICES ASSUME IInv, [Next]_vars PROVE IInv'
    OBVIOUS
  <1>1. CASE MeasureTimer
    BY <1>1, MeasureTimerStep
  <1>2. ASSUME NEW s \in Slots, EchoRise(s) \/ EchoFall(s) \/ EchoMissed(s) \/ BtnIsr(s)
        PROVE  IInv'
    BY <1>2, EchoStep, BtnIsrStep DEF EchoEdge
  <1>3. CASE Worker
    BY <1>3, TakeSensorWorkStep, UpdateOccupiedStep, NotifyStep, LockFsmStep,
       TakeLockWorkStep, TurnStep, TurnDoneStep DEF Worker
  <1>4. CASE Reader
    BY <1>4, ReaderStep
  <1>5. CASE Tick
    BY <1>5, TickStep
  <1>6. CASE UNCHANGED vars
    BY <1>6, StutterStep
  <1> QED
    BY <1>1, <1>2, <1>3, <1>4, <1>5, <1>6 DEF Next

-----------------------------------------------------------------------------
(* The driver always satisfies the invariant.                              *)
THEOREM Invariance == Spec => []IInv
  BY InitInv, StepInv, PTL DEF Spec

(* The driver keeps its types; no lock is ever driven past an end.         *)
THEOREM TypeCorrect == Spec => []TypeOK
  <1>1. IInv => TypeOK
    BY DEF IInv
  <1> QED
    BY <1>1, Invariance, PTL

(* A car that is locked in is behind a raised barrier, and a slot that may *)
(* be entered or left has its barrier down.                                *)
THEOREM LockTellsBarrier == Spec => []LockMatchesBarrier
  <1>1. IInv => LockMatchesBarrier
    BY DEF IInv, PositionInv, Position, LockMatchesBarrier
  <1> QED
    BY <1>1, Invariance, PTL

(* A lock in transition has one work that ends the transition, in the      *)
(* right direction; a finished measurement has its work queued once.       *)
THEOREM WorksAreOwed == Spec => []WorksOwed
  <1>1. IInv => LockWorkOwed
    <2> SUFFICES ASSUME IInv, NEW s \in Slots
                 PROVE  LET queued  == <<"lock", s>> \in ToSet(queue)
                            running == wpc = "turn" /\ slot = s
                        IN  /\ (queued \/ running) <=> lock_st[s] \in {"LOCKING", "UNLOCKING"}
                            /\ ~(queued /\ running)
                            /\ queued => lock_pending[s] = (lock_st[s] = "LOCKING")
                            /\ running => do_lock = (lock_st[s] = "LOCKING")
      BY DEF LockWorkOwed
    <2>1. lock_pending[s] \in BOOLEAN /\ do_lock \in BOOLEAN
      BY DEF IInv, TypeOK
    <2>2. (lock_pending[s] <=> lock_st[s] = "LOCKING") => lock_pending[s] = (lock_st[s] = "LOCKING")
      BY <2>1
    <2>3. (do_lock <=> lock_st[s] = "LOCKING") => do_lock = (lock_st[s] = "LOCKING")
      BY <2>1
    <2> QED
      BY <2>2, <2>3, Zenon DEF IInv, LockWorkInv, Queued, Running
  <1>2. IInv => EchoWorkOwed
    BY DEF IInv, EchoInv, QueueInv, Queued, EchoWorkOwed
  <1> QED
    BY <1>1, <1>2, Invariance, PTL DEF WorksOwed

(* A reader that goes to sleep has reported every change, or will be woken *)
(* for it.                                                                 *)
THEOREM ReaderMissesNothing == Spec => []NoLostChange
  <1>1. IInv => NoLostChange
    BY DEF IInv, ReaderInv, Announcing, NoLostChange
  <1> QED
    BY <1>1, Invariance, PTL

-----------------------------------------------------------------------------
(* The refinement.                                                         *)

LEMMA DueIs ==
    /\ Due = (IF rpc # "wait" THEN 1 ELSE 0) + (IF wpc = "notify" THEN 1 ELSE 0)
             + (IF status_changed /\ rpc # "clear" THEN 1 ELSE 0)
    /\ Due' = (IF rpc' # "wait" THEN 1 ELSE 0) + (IF wpc' = "notify" THEN 1 ELSE 0)
              + (IF status_changed' /\ rpc' # "clear" THEN 1 ELSE 0)
  BY DEF Due

(* What the feed does not see.                                             *)
LEMMA FeedStutters ==
    ASSUME UNCHANGED <<occupied, report, rpc, status_changed>>,
           wpc' = "notify" <=> wpc = "notify"
    PROVE  UNCHANGED Feed!vars
  BY DueIs DEF Feed!vars

(* A change makes a read due.                                              *)
LEMMA UpdateImplements == IInv /\ UpdateOccupied => [Feed!Next]_(Feed!vars)
  <1> SUFFICES ASSUME IInv, UpdateOccupied PROVE Feed!Next \/ UNCHANGED Feed!vars
    OBVIOUS
  <1> DEFINE now == sample = "near"
  <1>1. /\ wpc = "update" /\ occupied' = [occupied EXCEPT ![slot] = now]
        /\ wpc' = IF occupied[slot] # now THEN "notify" ELSE "lock_fsm"
        /\ UNCHANGED <<status_changed, rpc, report>>
    BY DEF UpdateOccupied, Changed, reader
  <1>2. /\ slot \in Slots /\ occupied \in [Slots -> BOOLEAN] /\ now \in BOOLEAN
        /\ rpc \in {"wait", "clear", "copy"}
    BY DEF IInv, TypeOK
  <1> HIDE DEF now
  <1>3. CASE occupied[slot] = now
    <2>1. occupied' = occupied
      BY <1>1, <1>2, <1>3
    <2> QED
      BY <1>1, <1>3, <2>1, FeedStutters
  <1>4. CASE occupied[slot] # now
    <2>1. now = ~occupied[slot]
      BY <1>2, <1>4, Zenon
    <2>2. occupied' = [occupied EXCEPT ![slot] = ~occupied[slot]]
      BY <1>1, <2>1, Zenon
    <2>3. Due' \in 1 .. 3
      BY <1>1, <1>2, <1>4, DueIs
    <2>4. Feed!Change(slot)
      BY <1>1, <2>2, <2>3 DEF Feed!Change, Feed!MostDue
    <2> QED
      BY <1>2, <2>4 DEF Feed!Next
  <1> QED
    BY <1>3, <1>4

(* The flag is set: the read that was due is due still, unless another is  *)
(* due that will see the change as well.                                   *)
LEMMA NotifyImplements == IInv /\ Notify => [Feed!Next]_(Feed!vars)
  <1> SUFFICES ASSUME IInv, Notify PROVE Feed!Next \/ UNCHANGED Feed!vars
    OBVIOUS
  <1>1. /\ wpc = "notify" /\ wpc' = "lock_fsm" /\ status_changed' = TRUE
        /\ UNCHANGED <<occupied, rpc, report>>
    BY DEF Notify, reader
  <1>2. rpc \in {"wait", "clear", "copy"}
    BY DEF IInv, TypeOK
  <1>3. CASE status_changed \/ rpc = "clear"
    <2>1. Due > 1 /\ Due' \in 1 .. Due - 1
      BY <1>1, <1>2, <1>3, DueIs
    <2>2. Feed!Merge
      BY <1>1, <2>1 DEF Feed!Merge
    <2> QED
      BY <2>2 DEF Feed!Next
  <1>4. CASE ~(status_changed \/ rpc = "clear")
    <2>1. Due' = Due
      BY <1>1, <1>2, <1>4, DueIs
    <2> QED
      BY <1>1, <2>1 DEF Feed!vars
  <1> QED
    BY <1>3, <1>4

LEMMA ReaderImplements == IInv /\ Reader => [Feed!Next]_(Feed!vars)
  <1> SUFFICES ASSUME IInv, Reader PROVE Feed!Next \/ UNCHANGED Feed!vars
    OBVIOUS
  <1>0. UNCHANGED <<occupied, wpc>>
    BY DEF Reader, ReadWakes, ReadClears, ReadCopies, ReadReturns, worker
  <1>1. CASE ReadWakes
    <2>1. Due' = Due /\ UNCHANGED report
      BY <1>0, <1>1, DueIs DEF ReadWakes
    <2> QED
      BY <1>0, <2>1 DEF Feed!vars
  <1>2. CASE ReadClears
    <2>1. Due' = Due /\ UNCHANGED report
      BY <1>0, <1>2, DueIs DEF ReadClears
    <2> QED
      BY <1>0, <2>1 DEF Feed!vars
  <1>3. CASE ReadCopies
    BY <1>0, <1>3, FeedStutters DEF ReadCopies
  <1>4. CASE ReadReturns
    <2>1. rpc = "copy" /\ rpc' = "wait" /\ unread = {} /\ report' = got /\ UNCHANGED status_changed
      BY <1>4 DEF ReadReturns
    <2>2. Due > 0 /\ Due' \in 0 .. Due - 1
      BY <1>0, <2>1, DueIs
    <2>3. got \in [Slots -> BOOLEAN] /\ occupied \in [Slots -> BOOLEAN]
      BY DEF IInv, TypeOK
    <2>4. ASSUME Due' = 0 PROVE report' = occupied'
      <3>1. wpc # "notify" /\ ~status_changed
        BY <1>0, <2>1, <2>4, DueIs
      <3>2. \A s \in Slots : got[s] = occupied[s]
        BY <2>1, <3>1 DEF IInv, ReaderInv, Announcing
      <3>3. got = occupied
        BY <2>3, <3>2
      <3> QED
        BY <1>0, <2>1, <3>3
    <2>5. report' \in [Slots -> BOOLEAN]
      BY <2>1, <2>3
    <2>6. Feed!Read
      BY <1>0, <2>2, <2>4, <2>5 DEF Feed!Read
    <2> QED
      BY <2>6 DEF Feed!Next
  <1> QED
    BY <1>1, <1>2, <1>3, <1>4 DEF Reader

LEMMA StepImplements == IInv /\ [Next]_vars => [Feed!Next]_(Feed!vars)
  <1> SUFFICES ASSUME IInv, [Next]_vars PROVE Feed!Next \/ UNCHANGED Feed!vars
    OBVIOUS
  <1>1. CASE UpdateOccupied
    BY <1>1, UpdateImplements
  <1>2. CASE Notify
    BY <1>2, NotifyImplements
  <1>3. CASE Reader
    BY <1>3, ReaderImplements
  <1>4. CASE MeasureTimer \/ Tick \/ UNCHANGED vars
    BY <1>4, FeedStutters DEF MeasureTimer, Tick, vars, worker, reader
  <1>5. ASSUME NEW s \in Slots, EchoRise(s) \/ EchoFall(s) \/ EchoMissed(s) \/ BtnIsr(s)
        PROVE  UNCHANGED Feed!vars
    BY <1>5, FeedStutters
       DEF EchoRise, EchoFall, EchoMissed, EchoIsr, BtnIsr, worker, reader
  <1>6. CASE TakeSensorWork \/ LockFsm
    BY <1>6, FeedStutters DEF TakeSensorWork, LockFsm, reader
  <1>7. CASE TakeLockWork \/ Turn \/ TurnDone
    BY <1>7, FeedStutters DEF TakeLockWork, Turn, TurnDone, reader
  <1> QED
    BY <1>1, <1>2, <1>3, <1>4, <1>5, <1>6, <1>7 DEF Next, Worker

(* The driver and its reader implement the feed.                           *)
THEOREM ImplementsSlotFeed == Spec => ReportsSlotFeed
  <1>1. Init => Feed!Init
    BY DueIs DEF Init, Feed!Init
  <1> QED
    BY <1>1, StepImplements, Invariance, PTL DEF Spec, ReportsSlotFeed, Feed!Spec

-----------------------------------------------------------------------------
(* Only a staying car is locked in.                                        *)

Evaluating(s) == wpc \in {"notify", "lock_fsm"} /\ slot = s

(* Counter and timer of the lock against what the samples have said: while *)
(* a car is timed, the far samples counted are those since the last near   *)
(* one, too few to forget the car, and it has been there for as long as    *)
(* the timer runs.                                                         *)
StayInv ==
    \A s \in Slots :
        /\ Evaluating(s) => /\ occupied[s] <=> sample = "near"
                            /\ sample = "near" => emptyRun[s] = 0
        /\ lock_st[s] = "TIMING" =>
              /\ occupyAge[s] <= stayAge[s]
              /\ emptyRun[s] = IF ~Evaluating(s) THEN consecutive_unoccupied[s]
                               ELSE IF sample = "near" THEN 0
                               ELSE consecutive_unoccupied[s] + 1

LEMMA StayKept ==
    ASSUME StayInv, UNCHANGED <<occupyAge, history, consecutive_unoccupied, occupied>>,
           \A s \in Slots : lock_st'[s] = "TIMING" => lock_st[s] = "TIMING",
           \A s \in Slots : Evaluating(s)' <=> Evaluating(s),
           (\E s \in Slots : Evaluating(s)) => UNCHANGED sample
    PROVE  StayInv'
  BY DEF StayInv, history

LEMMA StayTick == IInv /\ StayInv /\ Tick => StayInv'
  <1> SUFFICES ASSUME IInv, StayInv, Tick PROVE StayInv'
    OBVIOUS
  <1>1. /\ occupyAge' = [s \in Slots |-> Older(occupyAge[s])]
        /\ stayAge' = [s \in Slots |-> Older(stayAge[s])]
        /\ UNCHANGED <<wpc, slot, sample, occupied, lock_st, consecutive_unoccupied, emptyRun>>
    BY DEF Tick, worker
  <1>2. \A a, b \in Ages : a <= b => Older(a) <= Older(b)
    BY SlotConfig DEF Ages, Older
  <1>3. \A s \in Slots : occupyAge[s] \in Ages /\ stayAge[s] \in Ages
    BY DEF IInv, TypeOK
  <1>4. \A s \in Slots : occupyAge[s] <= stayAge[s] => occupyAge'[s] <= stayAge'[s]
    BY <1>1, <1>2, <1>3
  <1>5. \A s \in Slots : Evaluating(s)' <=> Evaluating(s)
    BY <1>1 DEF Evaluating
  <1> QED
    BY <1>1, <1>4, <1>5 DEF StayInv

LEMMA StayUpdate == IInv /\ StayInv /\ UpdateOccupied => StayInv'
  <1> SUFFICES ASSUME IInv, StayInv, UpdateOccupied, NEW s \in Slots
               PROVE  /\ Evaluating(s)' => /\ occupied'[s] <=> sample' = "near"
                                           /\ sample' = "near" => emptyRun'[s] = 0
                      /\ lock_st'[s] = "TIMING" =>
                            /\ occupyAge'[s] <= stayAge'[s]
                            /\ emptyRun'[s] = IF ~Evaluating(s)' THEN consecutive_unoccupied'[s]
                                              ELSE IF sample' = "near" THEN 0
                                              ELSE consecutive_unoccupied'[s] + 1
    BY DEF StayInv
  <1> DEFINE now == sample = "near"
  <1>1. /\ wpc = "update" /\ wpc' \in {"notify", "lock_fsm"}
        /\ occupied' = [occupied EXCEPT ![slot] = now]
        /\ emptyRun' = [emptyRun EXCEPT ![slot] =
                          IF now THEN 0 ELSE IF @ < ReleaseCount THEN @ + 1 ELSE @]
        /\ stayAge' = [stayAge EXCEPT ![slot] =
                         IF now /\ emptyRun[slot] = ReleaseCount THEN 0 ELSE @]
        /\ UNCHANGED <<slot, sample, lock_st, occupyAge, consecutive_unoccupied>>
    BY DEF UpdateOccupied, locks
  <1>2. /\ occupied \in [Slots -> BOOLEAN] /\ emptyRun \in [Slots -> 0 .. ReleaseCount]
        /\ stayAge \in [Slots -> Ages] /\ consecutive_unoccupied[s] \in Nat
    BY SlotConfig DEF IInv, TypeOK
  <1>3. ~Evaluating(s) /\ (Evaluating(s)' <=> s = slot)
    BY <1>1 DEF Evaluating
  <1>4. lock_st[s] = "TIMING" => /\ emptyRun[s] = consecutive_unoccupied[s]
                                 /\ emptyRun[s] < ReleaseCount /\ occupyAge[s] <= stayAge[s]
    BY <1>3 DEF StayInv, IInv, PositionInv
  <1>5. CASE s = slot
    <2>1. /\ occupied'[s] <=> now
          /\ emptyRun'[s] = IF now THEN 0 ELSE IF emptyRun[s] < ReleaseCount THEN emptyRun[s] + 1
                                               ELSE emptyRun[s]
          /\ emptyRun[s] < ReleaseCount => stayAge'[s] = stayAge[s]
      <3>1. occupied'[s] = now
        BY <1>1, <1>2, <1>5
      <3>2. emptyRun'[s] = IF now THEN 0 ELSE IF emptyRun[s] < ReleaseCount THEN emptyRun[s] + 1
                                              ELSE emptyRun[s]
        BY <1>1, <1>2, <1>5
      <3>3. emptyRun[s] < ReleaseCount => stayAge'[s] = stayAge[s]
        <4>1. emptyRun[s] < ReleaseCount => emptyRun[s] # ReleaseCount
          BY <1>2, SlotConfig
        <4> QED
          BY <1>1, <1>2, <1>5, <4>1
      <3>4. occupied'[s] <=> now
        BY <3>1
      <3> QED
        BY <3>2, <3>3, <3>4
    <2> QED
      BY <1>1, <1>3, <1>4, <1>5, <2>1
  <1>6. CASE s # slot
    <2>1. emptyRun'[s] = emptyRun[s] /\ stayAge'[s] = stayAge[s]
      BY <1>1, <1>2, <1>6
    <2> QED
      BY <1>1, <1>3, <1>4, <1>6, <2>1
  <1> QED
    BY <1>5, <1>6

LEMMA StayLockFsm == IInv /\ StayInv /\ LockFsm => StayInv'
  <1> SUFFICES ASSUME IInv, StayInv, LockFsm PROVE StayInv'
    OBVIOUS
  <1> DEFINE now == sample = "near"
  <1>0. SensorTypes /\ WorkerTypes /\ LockTypes /\ FeedTypes /\ ClockTypes
    BY TypesSplit DEF IInv
  <1>1. /\ wpc = "lock_fsm" /\ wpc' = "idle"
        /\ Free(now) \/ TimingFar(now) \/ TimingNear(now) \/ WaitEmpty(now) \/ InMotionOrLocked
        /\ UNCHANGED <<slot, sample, occupied, history>>
    BY DEF LockFsm
  <1>2. /\ slot \in Slots /\ Evaluating(slot)
        /\ \A s \in Slots : ~Evaluating(s)' /\ (s # slot => ~Evaluating(s))
    BY <1>0, <1>1 DEF Evaluating, WorkerTypes
  <1>3. /\ now => emptyRun[slot] = 0
        /\ stayAge[slot] \in Nat
    BY <1>0, <1>2, SlotConfig DEF StayInv, ClockTypes, Ages
  <1>4. \A s \in Slots : s # slot => /\ lock_st'[s] = lock_st[s] /\ occupyAge'[s] = occupyAge[s]
                                     /\ consecutive_unoccupied'[s] = consecutive_unoccupied[s]
    BY <1>0, <1>1 DEF LockTypes, ClockTypes, Free, OccupyStart, TimingFar, TimingNear, WaitEmpty,
                      InMotionOrLocked
  <1>5. lock_st'[slot] = "TIMING" =>
           occupyAge'[slot] <= stayAge[slot] /\ emptyRun[slot] = consecutive_unoccupied'[slot]
    <2> HIDE DEF now
    <2>1. CASE Free(now)
      <3>1. lock_st'[slot] = "TIMING" => now
        BY <2>1 DEF Free
      <3>2. now => occupyAge'[slot] = 0 /\ consecutive_unoccupied'[slot] = 0
        BY <1>0, <1>2, <2>1 DEF Free, OccupyStart, ClockTypes, LockTypes
      <3> QED
        BY <1>3, <3>1, <3>2
    <2>2. CASE TimingFar(now)
      <3>1. /\ ~now /\ lock_st[slot] = "TIMING" /\ UNCHANGED occupyAge
            /\ consecutive_unoccupied'[slot] = consecutive_unoccupied[slot] + 1
        BY <1>0, <1>2, <2>2 DEF TimingFar, LockTypes
      <3>2. occupyAge[slot] <= stayAge[slot] /\ emptyRun[slot] = consecutive_unoccupied[slot] + 1
        BY <1>2, <3>1 DEF StayInv, now
      <3> QED
        BY <3>1, <3>2
    <2>3. CASE TimingNear(now)
      <3>1. /\ now /\ lock_st[slot] = "TIMING" /\ UNCHANGED occupyAge
            /\ consecutive_unoccupied'[slot] = 0
        BY <1>0, <1>2, <2>3 DEF TimingNear, LockTypes
      <3>2. occupyAge[slot] <= stayAge[slot]
        BY <1>2, <3>1 DEF StayInv
      <3> QED
        BY <1>3, <3>1, <3>2
    <2>4. CASE WaitEmpty(now) \/ InMotionOrLocked
      BY <1>0, <1>2, <2>4 DEF WaitEmpty, InMotionOrLocked, LockTypes
    <2> QED
      BY <1>1, <2>1, <2>2, <2>3, <2>4
  <1> QED
    BY <1>1, <1>2, <1>4, <1>5 DEF StayInv, history

LEMMA StayStep == IInv /\ StayInv /\ [Next]_vars => StayInv'
  <1> SUFFICES ASSUME IInv, StayInv, [Next]_vars PROVE StayInv'
    OBVIOUS
  <1>1. CASE UpdateOccupied
    BY <1>1, StayUpdate
  <1>2. CASE LockFsm
    BY <1>2, StayLockFsm
  <1>3. CASE Tick
    BY <1>3, StayTick
  <1>4. CASE MeasureTimer \/ Reader \/ UNCHANGED vars
    <2>1. UNCHANGED <<worker, locks, history, occupied>>
      BY <1>4 DEF MeasureTimer, Reader, ReadWakes, ReadClears, ReadCopies, ReadReturns, vars
    <2> QED
      BY <2>1, StayKept DEF worker, locks, Evaluating
  <1>5. ASSUME NEW s \in Slots, EchoRise(s) \/ EchoFall(s) \/ EchoMissed(s) PROVE StayInv'
    <2>1. UNCHANGED <<worker, locks, history, occupied>>
      BY <1>5 DEF EchoRise, EchoFall, EchoMissed, EchoIsr
    <2> QED
      BY <2>1, StayKept DEF worker, locks, Evaluating
  <1>6. ASSUME NEW s \in Slots, BtnIsr(s) PROVE StayInv'
    <2>1. /\ UNCHANGED <<worker, occupyAge, history, consecutive_unoccupied, occupied>>
          /\ lock_st' = [lock_st EXCEPT ![s] = "UNLOCKING"] /\ lock_st \in [Slots -> LockState]
      BY <1>6 DEF BtnIsr, IInv, TypeOK
    <2>2. \A r \in Slots : lock_st'[r] = "TIMING" => lock_st[r] = "TIMING"
      BY <2>1
    <2> QED
      BY <2>1, <2>2, StayKept DEF worker, Evaluating
  <1>7. CASE TakeSensorWork \/ Notify \/ TakeLockWork \/ Turn
    <2>1. /\ UNCHANGED <<occupyAge, history, consecutive_unoccupied, occupied, lock_st>>
          /\ \A s \in Slots : Evaluating(s)' <=> Evaluating(s)
          /\ (\E s \in Slots : Evaluating(s)) => UNCHANGED sample
      BY <1>7 DEF TakeSensorWork, Notify, TakeLockWork, Turn, locks, Evaluating
    <2> QED
      BY <2>1, StayKept
  <1>8. CASE TurnDone
    <2>1. /\ UNCHANGED <<sample, occupyAge, history, consecutive_unoccupied, occupied>>
          /\ lock_st' = [lock_st EXCEPT ![slot] = IF do_lock THEN "LOCKED" ELSE "WAIT_EMPTY"]
          /\ lock_st \in [Slots -> LockState] /\ slot \in Slots
          /\ \A s \in Slots : Evaluating(s)' <=> Evaluating(s)
      BY <1>8 DEF TurnDone, Evaluating, IInv, TypeOK
    <2>2. \A r \in Slots : lock_st'[r] = "TIMING" => lock_st[r] = "TIMING"
      BY <2>1
    <2> QED
      BY <2>1, <2>2, StayKept
  <1> QED
    BY <1>1, <1>2, <1>3, <1>4, <1>5, <1>6, <1>7, <1>8 DEF Next, Worker

(* A step that starts to lock is one with a near sample of a car that has  *)
(* been there for the whole time.                                          *)
LEMMA LockingStep ==
    ASSUME IInv, StayInv, [Next]_vars, NEW s \in Slots,
           lock_st[s] # "LOCKING", lock_st'[s] = "LOCKING"
    PROVE  occupied[s] /\ stayAge[s] >= LockTimeout
  <1>1. lock_st \in [Slots -> LockState] /\ slot \in Slots
    BY DEF IInv, TypeOK
  <1>2. LockFsm /\ TimingNear(sample = "near")
    <2>1. CASE LockFsm
      BY <1>1, <2>1 DEF LockFsm, Free, TimingFar, WaitEmpty, InMotionOrLocked
    <2>2. ASSUME NEW r \in Slots, BtnIsr(r) PROVE FALSE
      BY <1>1, <2>2 DEF BtnIsr
    <2>3. CASE TurnDone
      BY <1>1, <2>3 DEF TurnDone
    <2>4. ASSUME NEW r \in Slots, EchoRise(r) \/ EchoFall(r) \/ EchoMissed(r) PROVE FALSE
      BY <2>4 DEF EchoRise, EchoFall, EchoMissed, EchoIsr, locks
    <2>5. CASE MeasureTimer \/ Reader \/ Tick \/ UNCHANGED vars
      BY <2>5 DEF MeasureTimer, Reader, ReadWakes, ReadClears, ReadCopies, ReadReturns, Tick, vars,
                  locks
    <2>6. CASE TakeSensorWork \/ UpdateOccupied \/ Notify \/ TakeLockWork \/ Turn
      BY <2>6 DEF TakeSensorWork, UpdateOccupied, Notify, TakeLockWork, Turn, locks
    <2> QED
      BY <2>1, <2>2, <2>3, <2>4, <2>5, <2>6 DEF Next, Worker
  <1>3. s = slot /\ lock_st[s] = "TIMING" /\ sample = "near" /\ occupyAge[s] >= LockTimeout
    BY <1>1, <1>2 DEF TimingNear
  <1>4. Evaluating(s)
    BY <1>2, <1>3 DEF LockFsm, Evaluating
  <1>5. occupyAge[s] \in Nat /\ stayAge[s] \in Nat /\ LockTimeout \in Nat
    BY SlotConfig DEF IInv, TypeOK, Ages
  <1> QED
    BY <1>3, <1>4, <1>5 DEF StayInv

(* A slot is locked only on a car that has stayed for LOCK_TIMEOUT_MS.     *)
THEOREM OnlyStayingCars == Spec => LocksOnlyStayingCar
  <1>1. Init => StayInv
    BY DEF Init, StayInv, Evaluating
  <1>2. Spec => []StayInv
    BY <1>1, StayStep, Invariance, PTL DEF Spec
  <1>3. IInv /\ StayInv /\ [Next]_vars =>
           [\A s \in Slots :
              (lock_st[s] # "LOCKING" /\ lock_st'[s] = "LOCKING") =>
                  occupied[s] /\ stayAge[s] >= LockTimeout]_vars
    BY LockingStep
  <1> QED
    BY <1>2, <1>3, Invariance, PTL DEF Spec, LocksOnlyStayingCar

=============================================================================
