-------------------------- MODULE ControllerProofs --------------------------
(***************************************************************************)
(* Proofs about Controller, for every number of arms and every value of    *)
(* the bounds.  TypeInv splits the types by what an operation touches and  *)
(* ties the command to the lifecycle; PowerInv adds which arms have been   *)
(* measured, without which a hold could power one arm and not another.     *)
(* Story adds what the fields of a command keep to one another, and what   *)
(* its end was measured by; HistoryStep what an operation does to feedback *)
(* that is still under way.                                                *)
(***************************************************************************)
EXTENDS Controller, FiniteSetTheorems, TLAPS

Scalars ==
    /\ lifecycle \in Lifecycles
    /\ deadman \in BOOLEAN /\ asserted \in BOOLEAN /\ estopLatched \in BOOLEAN
    /\ nonce \in {"none", "withheld", "arm", "reset"}
    /\ nonceLeft \in -1..ChallengeLife
    /\ scene \in Scenes /\ cause \in Causes
    /\ ring \in 0..RingCap /\ news \in EventKinds
    /\ lost \in BOOLEAN /\ cycled \in BOOLEAN
    /\ dwelt \in [Sides -> 0..SettleIntervals]
ArmsOK ==
    /\ enabled \in [Sides -> BOOLEAN]
    /\ status \in [Sides -> Statuses] /\ whole \in [Sides -> BOOLEAN]
    /\ age \in [Sides -> 0..Timeout + 1] /\ seen \in [Sides -> BOOLEAN]
    /\ queue \in [Sides -> Seq(Generations)]
    /\ \A s \in Sides : Len(queue[s]) <= QueueCap
FaultsOK ==
    /\ broken \in [Sides -> BOOLEAN]
    /\ inj \in [Sides -> [drop : BOOLEAN, fail : BOOLEAN, delay : Nat]]
PlanOK == plan \in Plans \cup {None}
ExecOK == IF lifecycle = "EXECUTING" THEN exec \in Commands ELSE exec = None
TypeInv == Scalars /\ ArmsOK /\ FaultsOK /\ PlanOK /\ ExecOK

-----------------------------------------------------------------------------
(* The operators.                                                           *)

\* What the proofs use of the constants, most of the time.
LEMMA BoundsAreNumbers ==
    /\ RingCap \in Nat /\ 0 < RingCap /\ ChallengeLife \in Nat
    /\ -1 \in -1..ChallengeLife
    /\ Durations \subseteq Nat /\ Starts \subseteq Nat /\ Lives \subseteq Nat
    /\ Leases \subseteq Int
  <1>1. RingCap \in Nat /\ 0 < RingCap /\ ChallengeLife \in Nat
    BY ConstantsAssumption
  <1>2. /\ Durations \subseteq Nat /\ Starts \subseteq Nat /\ Lives \subseteq Nat
        /\ Leases \subseteq Int
    BY ConstantsAssumption
  <1> QED  BY <1>1, <1>2

\* The remaining time of a deadline is a time or -1.
LEMMA LeftType ==
    ASSUME NEW t \in Nat \cup {-1}, NEW d \in Nat
    PROVE  /\ Left(t, d) \in Nat \cup {-1}
           /\ \A m \in Nat : t <= m => Left(t, d) \in -1..m
  BY DEF Left

\* A saturated age stays in its range.
LEMMA OlderType ==
    ASSUME NEW a \in 0..Timeout + 1, NEW d \in Nat
    PROVE  Older(a, d) \in 0..Timeout + 1
  BY ConstantsAssumption DEF Older

\* A plan that ages stays a plan or is forgotten.
LEMMA PlanAfterType ==
    ASSUME PlanOK, NEW d \in Nat, NEW renewed
    PROVE  PlanAfter(d, renewed) \in Plans \cup {None}
  BY DEF PlanOK, PlanAfter, Plans

\* The queued generations keep their number and their type as time passes.
LEMMA AgedQueueType ==
    ASSUME ArmsOK, NEW s \in Sides, NEW d \in Nat
    PROVE  /\ AgedQueue(s, d) \in Seq(Generations)
           /\ Len(AgedQueue(s, d)) = Len(queue[s])
  <1> DEFINE n == Len(queue[s])
  <1>1. queue[s] \in Seq(Generations) /\ n \in Nat /\ DOMAIN queue[s] = 1..n
    BY DEF ArmsOK
  <1>2. ASSUME NEW i \in 1..n
        PROVE  [queue[s][i] EXCEPT !.age = Older(@, d),
                                   !.wait = IF @ >= d THEN @ - d ELSE 0]
                  \in Generations
    <2>1. queue[s][i] \in Generations  BY <1>1
    <2>2. Older(queue[s][i].age, d) \in 0..Timeout + 1
      BY <2>1, OlderType DEF Generations
    <2>3. ASSUME NEW g \in Generations, NEW a \in 0..Timeout + 1, NEW w \in Nat
          PROVE  [g EXCEPT !.age = a, !.wait = w] \in Generations
      BY DEF Generations
    <2>4. (IF queue[s][i].wait >= d THEN queue[s][i].wait - d ELSE 0) \in Nat
      BY <2>1 DEF Generations
    <2> QED  BY <2>1, <2>2, <2>3, <2>4
  <1>3. AgedQueue(s, d) \in [1..n -> Generations]
    BY <1>1, <1>2 DEF AgedQueue
  <1> QED  BY <1>1, <1>3

\* Capturing a generation appends it.
LEMMA EnqueuedType ==
    ASSUME ArmsOK, FaultsOK, NEW s \in Sides, NEW d \in Nat
    PROVE  /\ Enqueued(s, d) \in Seq(Generations)
           /\ Len(Enqueued(s, d)) = Len(queue[s]) + 1
           /\ Len(queue[s]) \in Nat
  <1> DEFINE g == [age |-> 0, wait |-> inj[s].delay, whole |-> ~inj[s].drop,
                   status |-> Emitted(s, enabled[s])]
  <1>1. Emitted(s, enabled[s]) \in Statuses  BY DEF Emitted, Statuses
  <1>2. g \in Generations
    BY <1>1, ConstantsAssumption DEF FaultsOK, Generations
  <1>3. queue[s] \in Seq(Generations)  BY DEF ArmsOK
  <1> HIDE DEF g
  <1>4. Enqueued(s, d) = Append(AgedQueue(s, d), g)  BY DEF Enqueued, g
  <1> QED  BY <1>2, <1>3, <1>4, AgedQueueType

\* publish_due() delivers no more generations than there are.
LEMMA DueLenType ==
    ASSUME NEW q \in Seq(Generations)
    PROVE  DueLen(q) \in 0..Len(q) /\ PublishedLen(q) \in 0..Len(q)
  <1> DEFINE due == {n \in 1..Len(q) :
                        \A i \in 1..n : q[i].wait = 0 /\ (i < n => q[i].whole)}
  <1>1. Len(q) \in Nat  OBVIOUS
  <1>2. IsFiniteSet(1..Len(q)) /\ Cardinality(1..Len(q)) = Len(q)
    BY <1>1, FS_Interval
  <1>3. due \subseteq 1..Len(q)  OBVIOUS
  <1>4. IsFiniteSet(due) /\ Cardinality(due) <= Len(q)
    BY <1>2, <1>3, FS_Subset
  <1>5. Cardinality(due) \in Nat  BY <1>4, FS_CardinalityType
  <1>6. DueLen(q) \in 0..Len(q)  BY <1>1, <1>4, <1>5 DEF DueLen
  <1> HIDE DEF due
  <1> QED  BY <1>1, <1>6 DEF PublishedLen

\* What the arms publish after a step has its type, and the queue its bound.
LEMMA NextTypes ==
    ASSUME ArmsOK, FaultsOK, NEW s \in Sides, NEW d \in Nat, ~StepFails(s)
    PROVE  /\ NextStatus(s, d) \in Statuses
           /\ NextAge(s, d) \in 0..Timeout + 1
           /\ NextWhole(s, d) \in BOOLEAN
           /\ NextQueue(s, d) \in Seq(Generations)
           /\ Len(NextQueue(s, d)) <= QueueCap
  <1> DEFINE q == Enqueued(s, d)
  <1>1. /\ q \in Seq(Generations) /\ Len(q) \in Nat
        /\ Len(q) = Len(queue[s]) + 1 /\ Len(queue[s]) \in Nat
    BY EnqueuedType
  <1>2. Len(queue[s]) < QueueCap
    BY EnqueuedType, ConstantsAssumption DEF StepFails, ArmsOK
  <1>3. DueLen(q) \in 0..Len(q) /\ PublishedLen(q) \in 0..Len(q)
    BY <1>1, DueLenType
  <1>4. \A n \in 1..Len(q) : q[n] \in Generations  BY <1>1
  <1>5. status[s] \in Statuses /\ age[s] \in 0..Timeout + 1 /\ whole[s] \in BOOLEAN
    BY DEF ArmsOK
  <1>6. Older(age[s], d) \in 0..Timeout + 1  BY <1>5, OlderType
  <1>7. NextQueue(s, d) = SubSeq(q, DueLen(q) + 1, Len(q))
    BY <1>1, EnqueuedType DEF NextQueue
  <1> HIDE DEF q
  <1>8. /\ SubSeq(q, DueLen(q) + 1, Len(q)) \in Seq(Generations)
        /\ Len(SubSeq(q, DueLen(q) + 1, Len(q))) = Len(q) - DueLen(q)
    BY <1>1, <1>3
  <1>9. NextStatus(s, d) \in Statuses /\ NextAge(s, d) \in 0..Timeout + 1
    BY <1>3, <1>4, <1>5, <1>6
    DEF NextStatus, NextAge, Delivers, Generations, q
  <1>10. NextWhole(s, d) \in BOOLEAN
    BY <1>3, <1>4, <1>5 DEF NextWhole, Generations, q
  <1>11. Len(q) - DueLen(q) <= QueueCap
    BY <1>1, <1>2, <1>3, ConstantsAssumption
  <1> QED  BY <1>7, <1>8, <1>9, <1>10, <1>11

-----------------------------------------------------------------------------
(* What the shared parts of the operations do to the arms.                  *)

\* Time alone disturbs no type.
LEMMA WaitTypes ==
    ASSUME TypeInv, NEW d \in Nat, Wait(d)
    PROVE  ArmsOK' /\ FaultsOK' /\ PlanOK'
  <1>1. PlanOK'  BY PlanAfterType DEF TypeInv, Wait, PlanOK
  <1>2. \A s \in Sides : Older(age[s], d) \in 0..Timeout + 1
    BY OlderType DEF TypeInv, ArmsOK
  <1>3. \A s \in Sides : /\ AgedQueue(s, d) \in Seq(Generations)
                         /\ Len(AgedQueue(s, d)) = Len(queue[s])
    BY AgedQueueType DEF TypeInv
  <1> QED  BY <1>1, <1>2, <1>3 DEF TypeInv, Wait, ArmsOK, FaultsOK, faults

\* materialize_stop() leaves every arm well typed, powered only on a hold.
LEMMA StopTypes ==
    ASSUME TypeInv, NEW hold \in BOOLEAN, NEW d \in Nat, MaterializeStop(hold, d)
    PROVE  /\ ArmsOK' /\ FaultsOK' /\ PlanOK'
           /\ seen' = seen
           /\ hold => \A s \in Sides : enabled'[s] = seen[s]
           /\ ~hold => \A s \in Sides : ~enabled'[s]
  <1>1. PlanOK'
    BY PlanAfterType DEF TypeInv, MaterializeStop, PlanOK
  <1>2. \A s \in Sides : Older(age[s], d) \in 0..Timeout + 1
    BY OlderType DEF TypeInv, ArmsOK
  <1>3. \A s \in Sides : Emitted(s, hold) \in Statuses  BY DEF Emitted, Statuses
  <1>4. <<>> \in Seq(Generations) /\ Len(<<>>) = 0  OBVIOUS
  <1>5. enabled' \in [Sides -> BOOLEAN] /\ seen' \in [Sides -> BOOLEAN]
        /\ whole' \in [Sides -> BOOLEAN]
    BY DEF TypeInv, ArmsOK, MaterializeStop
  <1>6. status' \in [Sides -> Statuses]
    BY <1>3 DEF TypeInv, ArmsOK, MaterializeStop
  <1>7. age' \in [Sides -> 0..Timeout + 1]
    BY <1>2, ConstantsAssumption DEF TypeInv, ArmsOK, MaterializeStop
  <1>8. /\ queue' \in [Sides -> Seq(Generations)]
        /\ \A s \in Sides : Len(queue'[s]) <= QueueCap
    BY <1>4, ConstantsAssumption DEF MaterializeStop
  <1>9. FaultsOK'  BY DEF TypeInv, FaultsOK, MaterializeStop, faults
  <1>10. /\ hold => \A s \in Sides : enabled'[s] = seen[s]
         /\ ~hold => \A s \in Sides : ~enabled'[s]
    BY DEF TypeInv, ArmsOK, MaterializeStop
  <1> QED
    BY <1>1, <1>5, <1>6, <1>7, <1>8, <1>9, <1>10 DEF ArmsOK, MaterializeStop

\* set_enabled() and force_state() on every arm.
LEMMA ForceTypes ==
    ASSUME TypeInv, NEW on \in BOOLEAN, ForceBoth(on)
    PROVE  /\ ArmsOK' /\ FaultsOK' /\ PlanOK'
           /\ \A s \in Sides : seen'[s] /\ enabled'[s] = on
  <1>1. \A s \in Sides : Emitted(s, on) \in Statuses  BY DEF Emitted, Statuses
  <1>2. <<>> \in Seq(Generations) /\ Len(<<>>) = 0  OBVIOUS
  <1>3. FaultsOK' /\ PlanOK'
    BY DEF TypeInv, FaultsOK, PlanOK, ForceBoth, faults
  <1>4. /\ queue' \in [Sides -> Seq(Generations)]
        /\ \A s \in Sides : Len(queue'[s]) <= QueueCap
    BY <1>2, ConstantsAssumption DEF ForceBoth
  <1> QED  BY <1>1, <1>3, <1>4, ConstantsAssumption DEF ArmsOK, ForceBoth

\* force_state() on one arm, the injections aside.
LEMMA OneForceTypes ==
    ASSUME TypeInv, NEW s \in Sides, NEW fault \in BOOLEAN, ForceState(s, fault)
    PROVE  /\ ArmsOK' /\ PlanOK' /\ dwelt' \in [Sides -> 0..SettleIntervals]
           /\ enabled' = enabled
           /\ \A t \in Sides : seen[t] => seen'[t]
  <1>1. Emitted(s, enabled[s]) \in Statuses  BY DEF Emitted, Statuses
  <1>2. <<>> \in Seq(Generations) /\ Len(<<>>) = 0  OBVIOUS
  <1>3. /\ queue' \in [Sides -> Seq(Generations)]
        /\ \A t \in Sides : Len(queue'[t]) <= QueueCap
    BY <1>2, ConstantsAssumption DEF TypeInv, ArmsOK, ForceState
  <1>4. dwelt' \in [Sides -> 0..SettleIntervals]
    BY ConstantsAssumption DEF TypeInv, Scalars, ForceState
  <1>5. status' \in [Sides -> Statuses] /\ age' \in [Sides -> 0..Timeout + 1]
    BY <1>1, ConstantsAssumption DEF TypeInv, ArmsOK, ForceState, Statuses
  <1> QED  BY <1>3, <1>4, <1>5 DEF TypeInv, ArmsOK, PlanOK, ForceState

\* A step of the arms.
LEMMA StepTypes ==
    ASSUME TypeInv, NEW d \in Nat, StepCoherent(d), StepArms(d)
    PROVE  /\ ArmsOK' /\ FaultsOK' /\ PlanOK'
           /\ enabled' = enabled /\ seen' = seen
  <1>1. \A s \in Sides : /\ NextStatus(s, d) \in Statuses
                         /\ NextAge(s, d) \in 0..Timeout + 1
                         /\ NextWhole(s, d) \in BOOLEAN
                         /\ NextQueue(s, d) \in Seq(Generations)
                         /\ Len(NextQueue(s, d)) <= QueueCap
    BY NextTypes DEF TypeInv, StepCoherent
  <1>2. PlanOK'  BY PlanAfterType DEF TypeInv, StepArms, PlanOK
  <1> QED  BY <1>1, <1>2 DEF TypeInv, ArmsOK, FaultsOK, StepArms, faults

\* latch_fault() faults, ends the command, and powers the arms only on a hold.
LEMMA LatchTypes ==
    ASSUME TypeInv, NEW watchdog \in BOOLEAN, NEW n \in Nat, NEW d \in Nat,
           LatchFault(watchdog, n, d)
    PROVE  /\ lifecycle' = "FAULT" /\ exec' = None
           /\ ring' \in 0..RingCap /\ news' = "FAULTED" /\ lost' \in BOOLEAN
           /\ nonce' = "withheld" /\ nonceLeft' = -1
           /\ ArmsOK' /\ FaultsOK' /\ PlanOK'
           /\ seen' = seen
           /\ \/ \A s \in Sides : ~enabled'[s]
              \/ /\ exec # None /\ lost' = lost
                 /\ \A s \in Sides : enabled'[s] = seen[s]
  <1> DEFINE hold == Holds(watchdog, d)
  <1>1. hold \in BOOLEAN /\ (hold => exec # None)  BY DEF Holds
  <1>2. /\ nonce' = "withheld" /\ nonceLeft' = -1
        /\ \/ /\ n < RingCap /\ ring' = n + 1 /\ news' = "FAULTED"
              /\ lifecycle' = "FAULT" /\ lost' = lost /\ exec' = None
              /\ MaterializeStop(hold, d)
           \/ /\ ring' = RingCap /\ news' = "FAULTED" /\ lifecycle' = "FAULT"
              /\ lost' = TRUE /\ exec' = None
              /\ MaterializeStop(FALSE, d)
    BY DEF LatchFault, Publish
  <1> HIDE DEF hold
  <1>3. CASE MaterializeStop(hold, d) /\ n < RingCap /\ ring' = n + 1 /\ lost' = lost
    <2>1. /\ ArmsOK' /\ FaultsOK' /\ PlanOK' /\ seen' = seen
          /\ hold => \A s \in Sides : enabled'[s] = seen[s]
          /\ ~hold => \A s \in Sides : ~enabled'[s]
      BY <1>1, <1>3, StopTypes
    <2>2. ring' \in 0..RingCap /\ lost' \in BOOLEAN
      BY <1>3, ConstantsAssumption DEF TypeInv, Scalars
    <2>3. CASE hold  BY <1>1, <1>2, <1>3, <2>1, <2>2, <2>3
    <2>4. CASE ~hold  BY <1>2, <2>1, <2>2, <2>4
    <2> QED  BY <2>3, <2>4
  <1>4. CASE MaterializeStop(FALSE, d) /\ ring' = RingCap /\ lost' = TRUE
    <2>1. /\ ArmsOK' /\ FaultsOK' /\ PlanOK' /\ seen' = seen
          /\ \A s \in Sides : ~enabled'[s]
      BY <1>4, StopTypes
    <2>2. ring' \in 0..RingCap  BY <1>4, ConstantsAssumption
    <2> QED  BY <1>2, <1>4, <2>1, <2>2
  <1> QED  BY <1>2, <1>3, <1>4

\* The clocks of a command run down, and it stays a command.
LEMMA LaterType ==
    ASSUME exec \in Commands, NEW d \in Nat
    PROVE  Later(d) \in Commands
  <1>1. Left(exec.expiry, d) \in Nat \cup {-1} /\ Left(exec.producer, d) \in Nat \cup {-1}
    BY LeftType DEF Commands
  <1>2. exec # None  BY NoneAssumption
  <1>3. ASSUME NEW c \in Commands, NEW a \in Nat, NEW b \in Nat,
               NEW e \in Nat \cup {-1}, NEW p \in Nat \cup {-1}
        PROVE  [c EXCEPT !.start = a, !.end = b, !.expiry = e, !.producer = p]
                  \in Commands
    BY DEF Commands
  <1>4. /\ (IF exec.start >= d THEN exec.start - d ELSE 0) \in Nat
        /\ (IF exec.end >= d THEN exec.end - d ELSE 0) \in Nat
    BY DEF Commands
  <1> QED  BY <1>1, <1>2, <1>3, <1>4 DEF Later

\* So it does while the arms move.
LEMMA MovingType ==
    ASSUME exec \in Commands, NEW d \in Nat, NEW streak \in Streaks(d),
           NEW moved \in SUBSET Sides
    PROVE  Moving(d, streak, moved) \in Commands
  <1>1. exec # None  BY NoneAssumption
  <1>2. streak \in 0..Persistence - 1
    BY ConstantsAssumption DEF Streaks, Commands
  <1>3. Later(d) \in Commands  BY LaterType
  <1>4. ASSUME NEW c \in Commands, NEW b \in BOOLEAN
        PROVE  [c EXCEPT !.started = b, !.streak = streak, !.moved = moved]
                  \in Commands
    BY <1>2 DEF Commands
  <1>5. (Later(d).started \/ Begins(d)) \in BOOLEAN  OBVIOUS
  <1> QED  BY <1>1, <1>3, <1>4, <1>5 DEF Moving

\* And while they settle.
LEMMA SettleTypes ==
    ASSUME exec \in Commands, NEW d \in Nat
    PROVE  /\ Dwell(d) \in -1..Cycle * SettleIntervals
           /\ Gens(d) \in 0..SettleIntervals
           /\ Fed(d) \in SUBSET Sides
           /\ \A next \in Commands, dwell \in -1..Cycle * SettleIntervals,
                 gens \in 0..SettleIntervals, fed \in SUBSET Sides :
                 [next EXCEPT !.settling = TRUE, !.dwell = dwell, !.gens = gens,
                              !.fed = fed] \in Commands
  <1>1. Cycle * SettleIntervals \in Nat  BY ConstantsAssumption
  <1> DEFINE m == Cycle * SettleIntervals
  <1>2. exec.dwell \in -1..m /\ exec.gens \in 0..SettleIntervals
        /\ exec.fed \in SUBSET Sides
    BY DEF Commands
  <1>3. m \in Nat  BY <1>1
  <1>4. Dwell(d) = IF exec.dwell + d < m THEN exec.dwell + d ELSE m  BY DEF Dwell
  <1> HIDE DEF m
  <1>5. Dwell(d) \in -1..m  BY <1>2, <1>3, <1>4
  <1>6. Gens(d) \in 0..SettleIntervals  BY <1>2, ConstantsAssumption DEF Gens
  <1>7. Fed(d) \in SUBSET Sides  BY <1>2 DEF Fed
  <1>8. \A next \in Commands, dwell \in -1..m,
           gens \in 0..SettleIntervals, fed \in SUBSET Sides :
           [next EXCEPT !.settling = TRUE, !.dwell = dwell, !.gens = gens,
                        !.fed = fed] \in Commands
    BY DEF Commands, m
  <1> QED  BY <1>5, <1>6, <1>7, <1>8 DEF m

-----------------------------------------------------------------------------
(* One lemma per family of operations: what each leaves well typed, and what *)
(* it may do to the power of the arms.                                       *)

PowerInv ==
    /\ lifecycle \in {"DISARMED", "ARMED_IDLE", "EXECUTING"} =>
          \A s \in Sides : seen[s]
    /\ lifecycle \in {"ARMED_IDLE", "EXECUTING"} => \A s \in Sides : enabled[s]
    /\ lifecycle \in {"CLOSED", "DISARMED", "ESTOP"} =>
          \A s \in Sides : ~enabled[s]
    /\ \A s, t \in Sides : enabled[s] = enabled[t]
    /\ DeadmanHeld
    /\ LostEventFailsClosed

CutsPower ==
    /\ \A s \in Sides : ~enabled'[s]
    /\ lifecycle' \notin {"ARMED_IDLE", "EXECUTING"}
    /\ lifecycle' = "DISARMED" => \A s \in Sides : seen'[s]
    /\ lost' => lifecycle' \in {"FAULT", "ESTOP"}
KeepsPower ==
    /\ enabled' = enabled /\ lifecycle' = lifecycle /\ lost' = lost
    /\ deadman => deadman'
    /\ \A s \in Sides : seen[s] => seen'[s]
GrantsPower ==
    /\ lifecycle = "DISARMED" /\ lifecycle' = "ARMED_IDLE"
    /\ deadman' /\ ~lost'
    /\ \A s \in Sides : seen'[s] /\ enabled'[s]
StartsMotion ==
    /\ lifecycle = "ARMED_IDLE" /\ lifecycle' = "EXECUTING"
    /\ enabled' = enabled /\ seen' = seen /\ deadman' = deadman /\ lost' = lost
EndsMotion ==
    /\ lifecycle \in {"ARMED_IDLE", "EXECUTING"}
    /\ lifecycle' = "ARMED_IDLE"
    /\ \A s \in Sides : enabled'[s]
    /\ seen' = seen /\ deadman' = deadman /\ lost' = lost
HoldsInFault ==
    /\ lifecycle = "EXECUTING" /\ lifecycle' = "FAULT"
    /\ \A s \in Sides : enabled'[s]
    /\ seen' = seen /\ deadman' = deadman /\ lost' = lost
PowerStep ==
    \/ CutsPower \/ KeepsPower \/ GrantsPower
    \/ StartsMotion \/ EndsMotion \/ HoldsInFault

Steps == TypeInv' /\ PowerStep

\* challenge() issues a nonce.
LEMMA ChallengeSteps ==
    ASSUME TypeInv, Challenge
    PROVE  Steps
  <1>1. Scalars'
    BY ConstantsAssumption DEF TypeInv, Scalars, Challenge, safety, token, events, arms, faults
  <1>2. ArmsOK' /\ FaultsOK'
    BY DEF TypeInv, ArmsOK, FaultsOK, Challenge, safety, token, events, arms, faults
  <1>3. PlanOK'
    BY DEF TypeInv, PlanOK, Challenge
  <1>4. ExecOK'
    BY DEF TypeInv, ExecOK, Challenge, safety, token, events, arms, faults
  <1>5. KeepsPower  BY DEF KeepsPower, Challenge, safety, token, events, arms, faults
  <1> QED  BY <1>1, <1>2, <1>3, <1>4, <1>5 DEF Steps, TypeInv, PowerStep

\* plan_joint() hands out a plan.
LEMMA PlanJointSteps ==
    ASSUME TypeInv, PlanJoint
    PROVE  Steps
  <1>1. Scalars'
    BY ConstantsAssumption DEF TypeInv, Scalars, PlanJoint, safety, token, events, arms, faults
  <1>2. ArmsOK' /\ FaultsOK'
    BY DEF TypeInv, ArmsOK, FaultsOK, PlanJoint, safety, token, events, arms, faults
  <1>3. PlanOK'
    BY ConstantsAssumption DEF TypeInv, Scalars, PlanOK, Plans, PlanJoint, NewPlan
  <1>4. ExecOK'
    BY DEF TypeInv, ExecOK, PlanJoint, safety, token, events, arms, faults
  <1>5. KeepsPower  BY DEF KeepsPower, PlanJoint, safety, token, events, arms, faults
  <1> QED  BY <1>1, <1>2, <1>3, <1>4, <1>5 DEF Steps, TypeInv, PowerStep

\* So do the other planners.
LEMMA PlanTcpSteps ==
    ASSUME TypeInv, NEW contact \in BOOLEAN, PlanTcp(contact)
    PROVE  Steps
  <1>1. Scalars'
    BY ConstantsAssumption DEF TypeInv, Scalars, PlanTcp, safety, token, events, arms, faults
  <1>2. ArmsOK' /\ FaultsOK'
    BY DEF TypeInv, ArmsOK, FaultsOK, PlanTcp, safety, token, events, arms, faults
  <1>3. PlanOK'
    BY ConstantsAssumption DEF TypeInv, Scalars, PlanOK, Plans, PlanTcp, NewPlan
  <1>4. ExecOK'
    BY DEF TypeInv, ExecOK, PlanTcp, safety, token, events, arms, faults
  <1>5. KeepsPower  BY DEF KeepsPower, PlanTcp, safety, token, events, arms, faults
  <1> QED  BY <1>1, <1>2, <1>3, <1>4, <1>5 DEF Steps, TypeInv, PowerStep

\* A refused plan marks the latch as seen.
LEMMA PlanTcpEstopSteps ==
    ASSUME TypeInv, PlanTcpEstop
    PROVE  Steps
  <1>1. Scalars'
    BY ConstantsAssumption DEF TypeInv, Scalars, PlanTcpEstop, safety, token, events, arms, faults
  <1>2. ArmsOK' /\ FaultsOK'
    BY DEF TypeInv, ArmsOK, FaultsOK, PlanTcpEstop, safety, token, events, arms, faults
  <1>3. PlanOK'
    BY DEF TypeInv, PlanOK, PlanTcpEstop
  <1>4. ExecOK'
    BY DEF TypeInv, ExecOK, PlanTcpEstop, safety, token, events, arms, faults
  <1>5. KeepsPower  BY DEF KeepsPower, PlanTcpEstop, safety, token, events, arms, faults
  <1> QED  BY <1>1, <1>2, <1>3, <1>4, <1>5 DEF Steps, TypeInv, PowerStep

\* heartbeat() renews the producer's lease.
LEMMA HeartbeatSteps ==
    ASSUME TypeInv, NEW lease \in Leases, Heartbeat(lease)
    PROVE  Steps
  <1>1. Scalars'
    BY ConstantsAssumption DEF TypeInv, Scalars, Heartbeat, safety, token, events, arms, faults
  <1>2. ArmsOK' /\ FaultsOK'
    BY DEF TypeInv, ArmsOK, FaultsOK, Heartbeat, safety, token, events, arms, faults
  <1>3. PlanOK'
    BY DEF TypeInv, PlanOK, Heartbeat
  <1>4. ExecOK'
    <2>1. exec \in Commands  BY DEF TypeInv, ExecOK, Heartbeat
    <2>2. lease \in Nat  BY ConstantsAssumption DEF Heartbeat
    <2>3. [exec EXCEPT !.producer = lease] \in Commands
      BY <2>1, <2>2 DEF Commands
    <2> QED  BY <2>3 DEF ExecOK, Heartbeat
  <1>5. KeepsPower  BY DEF KeepsPower, Heartbeat, safety, token, events, arms, faults
  <1> QED  BY <1>1, <1>2, <1>3, <1>4, <1>5 DEF Steps, TypeInv, PowerStep

\* poll_event() takes an event out of the ring.
LEMMA PollEventSteps ==
    ASSUME TypeInv, PollEvent
    PROVE  Steps
  <1>1. Scalars'
    BY ConstantsAssumption DEF TypeInv, Scalars, PollEvent, safety, token, events, arms, faults
  <1>2. ArmsOK' /\ FaultsOK'
    BY DEF TypeInv, ArmsOK, FaultsOK, PollEvent, safety, token, events, arms, faults
  <1>3. PlanOK'
    BY DEF TypeInv, PlanOK, PollEvent
  <1>4. ExecOK'
    BY DEF TypeInv, ExecOK, PollEvent, safety, token, events, arms, faults
  <1>5. KeepsPower  BY DEF KeepsPower, PollEvent, safety, token, events, arms, faults
  <1> QED  BY <1>1, <1>2, <1>3, <1>4, <1>5 DEF Steps, TypeInv, PowerStep

\* A harmless set_interlock().
LEMMA ReleaseSteps ==
    ASSUME TypeInv, ReleaseInterlock
    PROVE  Steps
  <1>1. Scalars'
    BY ConstantsAssumption DEF TypeInv, Scalars, ReleaseInterlock, safety, token, events, arms, faults
  <1>2. ArmsOK' /\ FaultsOK'
    BY DEF TypeInv, ArmsOK, FaultsOK, ReleaseInterlock, safety, token, events, arms, faults
  <1>3. PlanOK'
    BY DEF TypeInv, PlanOK, ReleaseInterlock
  <1>4. ExecOK'
    BY DEF TypeInv, ExecOK, ReleaseInterlock, safety, token, events, arms, faults
  <1>5. KeepsPower  BY DEF KeepsPower, ReleaseInterlock, safety, token, events, arms, faults
  <1> QED  BY <1>1, <1>2, <1>3, <1>4, <1>5 DEF Steps, TypeInv, PowerStep

\* The process latch is set without the controller.
LEMMA AssertSteps ==
    ASSUME TypeInv, EstopAssert
    PROVE  Steps
  <1>1. Scalars'
    BY ConstantsAssumption DEF TypeInv, Scalars, EstopAssert, safety, token, events, arms, faults
  <1>2. ArmsOK' /\ FaultsOK'
    BY DEF TypeInv, ArmsOK, FaultsOK, EstopAssert, safety, token, events, arms, faults
  <1>3. PlanOK'
    BY DEF TypeInv, PlanOK, EstopAssert
  <1>4. ExecOK'
    BY DEF TypeInv, ExecOK, EstopAssert, safety, token, events, arms, faults
  <1>5. KeepsPower  BY DEF KeepsPower, EstopAssert, safety, token, events, arms, faults
  <1> QED  BY <1>1, <1>2, <1>3, <1>4, <1>5 DEF Steps, TypeInv, PowerStep

\* And cleared.
LEMMA ClearSteps ==
    ASSUME TypeInv, EstopClear
    PROVE  Steps
  <1>1. Scalars'
    BY ConstantsAssumption DEF TypeInv, Scalars, EstopClear, safety, token, events, arms, faults
  <1>2. ArmsOK' /\ FaultsOK'
    BY DEF TypeInv, ArmsOK, FaultsOK, EstopClear, safety, token, events, arms, faults
  <1>3. PlanOK'
    BY DEF TypeInv, PlanOK, EstopClear
  <1>4. ExecOK'
    BY DEF TypeInv, ExecOK, EstopClear, safety, token, events, arms, faults
  <1>5. KeepsPower  BY DEF KeepsPower, EstopClear, safety, token, events, arms, faults
  <1> QED  BY <1>1, <1>2, <1>3, <1>4, <1>5 DEF Steps, TypeInv, PowerStep

\* set_collision_scene_revision() while no command runs.
LEMMA SceneSteps ==
    ASSUME TypeInv, NEW revision \in Scenes, SetCollisionScene(revision)
    PROVE  Steps
  <1>1. Scalars'
    BY ConstantsAssumption DEF TypeInv, Scalars, SetCollisionScene, safety, token, events, arms, faults
  <1>2. ArmsOK' /\ FaultsOK'
    BY DEF TypeInv, ArmsOK, FaultsOK, SetCollisionScene, safety, token, events, arms, faults
  <1>3. PlanOK'
    BY DEF TypeInv, PlanOK, SetCollisionScene
  <1>4. ExecOK'
    BY DEF TypeInv, ExecOK, SetCollisionScene, safety, token, events, arms, faults
  <1>5. KeepsPower  BY DEF KeepsPower, SetCollisionScene, safety, token, events, arms, faults
  <1> QED  BY <1>1, <1>2, <1>3, <1>4, <1>5 DEF Steps, TypeInv, PowerStep

\* Whatever latches a fault and leaves the rest alone.
LEMMA LatchSteps ==
    ASSUME TypeInv, PowerInv, NEW watchdog \in BOOLEAN, NEW n \in Nat,
           NEW d \in Nat, LatchFault(watchdog, n, d),
           UNCHANGED <<deadman, asserted, scene, cause, dwelt, cycled>>,
           estopLatched' \in BOOLEAN
    PROVE  Steps
  <1>1. /\ lifecycle' = "FAULT" /\ exec' = None
        /\ ring' \in 0..RingCap /\ news' = "FAULTED" /\ lost' \in BOOLEAN
        /\ nonce' = "withheld" /\ nonceLeft' = -1
        /\ ArmsOK' /\ FaultsOK' /\ PlanOK'
        /\ seen' = seen
        /\ \/ \A s \in Sides : ~enabled'[s]
           \/ /\ exec # None /\ lost' = lost
              /\ \A s \in Sides : enabled'[s] = seen[s]
    BY LatchTypes
  <1>2. Scalars'
    BY <1>1, ConstantsAssumption DEF TypeInv, Scalars, Lifecycles, EventKinds
  <1>3. ExecOK'  BY <1>1 DEF ExecOK
  <1>4. CASE \A s \in Sides : ~enabled'[s]
    BY <1>1, <1>2, <1>3, <1>4 DEF Steps, TypeInv, PowerStep, CutsPower
  <1>5. CASE /\ exec # None /\ lost' = lost
             /\ \A s \in Sides : enabled'[s] = seen[s]
    <2>1. lifecycle = "EXECUTING" /\ \A s \in Sides : seen[s]
      BY <1>5 DEF TypeInv, ExecOK, PowerInv
    <2>2. HoldsInFault  BY <1>1, <1>5, <2>1 DEF HoldsInFault
    <2> QED  BY <1>1, <1>2, <1>3, <2>2 DEF Steps, TypeInv, PowerStep
  <1> QED  BY <1>1, <1>4, <1>5

\* challenge() finds a motor fault.
LEMMA ChallengeFaultSteps ==
    ASSUME TypeInv, PowerInv, ChallengeFindsFault
    PROVE  Steps
  <1>1. LatchFault(FALSE, ring, 0) /\ UNCHANGED <<deadman, asserted, scene, cause, dwelt, cycled>>
        /\ estopLatched' \in BOOLEAN
    BY DEF ChallengeFindsFault, FoundFault, safety, TypeInv, Scalars
  <1>2. ring \in Nat  BY ConstantsAssumption DEF TypeInv, Scalars
  <1> QED  BY <1>1, <1>2, LatchSteps

\* arm() is refused.
LEMMA ArmRefusedSteps ==
    ASSUME TypeInv, PowerInv, ArmRefused
    PROVE  Steps
  <1>1. LatchFault(FALSE, ring, 0) /\ UNCHANGED <<deadman, asserted, scene, cause, dwelt, cycled>>
        /\ estopLatched' \in BOOLEAN
    BY DEF ArmRefused, safety, TypeInv, Scalars
  <1>2. ring \in Nat  BY ConstantsAssumption DEF TypeInv, Scalars
  <1> QED  BY <1>1, <1>2, LatchSteps

\* A planner or execute() finds a motor fault.
LEMMA RequestFaultSteps ==
    ASSUME TypeInv, PowerInv, RequestFindsFault
    PROVE  Steps
  <1>1. LatchFault(FALSE, ring, 0) /\ UNCHANGED <<deadman, asserted, scene, cause, dwelt, cycled>>
        /\ estopLatched' \in BOOLEAN
    BY DEF RequestFindsFault, FoundFault, safety, TypeInv, Scalars
  <1>2. ring \in Nat  BY ConstantsAssumption DEF TypeInv, Scalars
  <1> QED  BY <1>1, <1>2, LatchSteps

\* A heartbeat that comes too late.
LEMMA HeartbeatLateSteps ==
    ASSUME TypeInv, PowerInv, NEW lease \in Leases, HeartbeatTooLate(lease)
    PROVE  Steps
  <1>1. LatchFault(TRUE, ring, 0) /\ UNCHANGED <<deadman, asserted, scene, cause, dwelt, cycled>>
        /\ estopLatched' \in BOOLEAN
    BY DEF HeartbeatTooLate, safety, TypeInv, Scalars
  <1>2. ring \in Nat  BY ConstantsAssumption DEF TypeInv, Scalars
  <1> QED  BY <1>1, <1>2, LatchSteps

\* advance() on incoherent feedback.
LEMMA IncoherentSteps ==
    ASSUME TypeInv, PowerInv, NEW d \in Nat, AdvanceIncoherent(d)
    PROVE  Steps
  <1>1. LatchFault(FALSE, ring, d) /\ UNCHANGED <<deadman, asserted, scene, cause, dwelt, cycled>>
        /\ estopLatched' \in BOOLEAN
    BY DEF AdvanceIncoherent, Advanced, safety, TypeInv, Scalars
  <1>2. ring \in Nat  BY ConstantsAssumption DEF TypeInv, Scalars
  <1> QED  BY <1>1, <1>2, LatchSteps

\* advance() past a deadline.
LEMMA WatchdogSteps ==
    ASSUME TypeInv, PowerInv, NEW d \in Nat, AdvanceWatchdog(d)
    PROVE  Steps
  <1>1. LatchFault(TRUE, ring, d) /\ UNCHANGED <<deadman, asserted, scene, cause, dwelt, cycled>>
        /\ estopLatched' \in BOOLEAN
    BY DEF AdvanceWatchdog, Advanced, safety, TypeInv, Scalars
  <1>2. ring \in Nat  BY ConstantsAssumption DEF TypeInv, Scalars
  <1> QED  BY <1>1, <1>2, LatchSteps

\* advance() where the arms are not where the command starts.
LEMMA MovedSteps ==
    ASSUME TypeInv, PowerInv, NEW d \in Nat, AdvanceMoved(d)
    PROVE  Steps
  <1>1. LatchFault(FALSE, ring, d) /\ UNCHANGED <<deadman, asserted, scene, cause, dwelt, cycled>>
        /\ estopLatched' \in BOOLEAN
    BY DEF AdvanceMoved, Advanced, safety, TypeInv, Scalars
  <1>2. ring \in Nat  BY ConstantsAssumption DEF TypeInv, Scalars
  <1> QED  BY <1>1, <1>2, LatchSteps

\* advance() where the step fails.
LEMMA StepFaultSteps ==
    ASSUME TypeInv, PowerInv, NEW d \in Nat, AdvanceStepFault(d)
    PROVE  Steps
  <1>1. LatchFault(FALSE, Begun(d), d) /\ UNCHANGED <<deadman, asserted, scene, cause, dwelt, cycled>>
        /\ estopLatched' \in BOOLEAN
    BY DEF AdvanceStepFault, Advanced, safety, TypeInv, Scalars
  <1>2. Begun(d) \in Nat  BY DEF TypeInv, Scalars, Begun
  <1> QED  BY <1>1, <1>2, LatchSteps

\* Whatever ends by publishing and leaves the arms on a hold, cut, or forced.
\* First the fallback: a full ring cuts the power.
LEMMA FullRingSteps ==
    ASSUME TypeInv, NEW d \in Nat, MaterializeStop(FALSE, d),
           ring' = RingCap, news' = "FAULTED", lifecycle' = "FAULT",
           lost' = TRUE, exec' = None,
           nonce' \in {"none", "withheld", "arm", "reset"},
           nonceLeft' \in -1..ChallengeLife, estopLatched' \in BOOLEAN,
           deadman' \in BOOLEAN, cycled' \in BOOLEAN, cause' \in Causes,
           dwelt' \in [Sides -> 0..SettleIntervals],
           UNCHANGED <<asserted, scene>>
    PROVE  Steps
  <1>1. /\ ArmsOK' /\ FaultsOK' /\ PlanOK' /\ \A s \in Sides : ~enabled'[s]
    BY StopTypes
  <1>2. Scalars'
    BY ConstantsAssumption DEF TypeInv, Scalars, Lifecycles, EventKinds
  <1>3. ExecOK'  BY DEF ExecOK
  <1> QED  BY <1>1, <1>2, <1>3 DEF Steps, TypeInv, PowerStep, CutsPower

\* disarm().
LEMMA DisarmSteps ==
    ASSUME TypeInv, PowerInv, Disarm
    PROVE  Steps
  <1>1. /\ UNCHANGED <<deadman, asserted, estopLatched, nonce, nonceLeft, scene,
                       cause, dwelt, cycled>>
        /\ lifecycle \in {"ARMED_IDLE", "EXECUTING", "DISARMED"}
    BY DEF Disarm, safety, token
  <1>2. CASE /\ ring < RingCap /\ ring' = ring + 1 /\ news' = "DISARMED"
             /\ lifecycle' = "DISARMED" /\ lost' = lost /\ exec' = None
             /\ MaterializeStop(FALSE, 0)
    <2>1. /\ ArmsOK' /\ FaultsOK' /\ PlanOK' /\ seen' = seen
          /\ \A s \in Sides : ~enabled'[s]
      BY <1>2, StopTypes
    <2>2. Scalars'
      BY <1>1, <1>2, ConstantsAssumption
         DEF TypeInv, Scalars, Lifecycles, EventKinds
    <2>3. ExecOK'  BY <1>2 DEF ExecOK
    <2>4. CutsPower
      BY <1>1, <1>2, <2>1 DEF CutsPower, PowerInv, LostEventFailsClosed
    <2> QED  BY <2>1, <2>2, <2>3, <2>4 DEF Steps, TypeInv, PowerStep
  <1>3. CASE /\ ring' = RingCap /\ news' = "FAULTED" /\ lifecycle' = "FAULT"
             /\ lost' = TRUE /\ exec' = None /\ MaterializeStop(FALSE, 0)
    BY <1>1, <1>3, FullRingSteps DEF TypeInv, Scalars
  <1> QED  BY <1>2, <1>3 DEF Disarm, Publish

\* stop(), which disarms or holds.
LEMMA StopSteps ==
    ASSUME TypeInv, PowerInv, NEW stop \in StopKinds, Stop(stop)
    PROVE  Steps
  <1> DEFINE n == ring + (IF exec # None THEN 1 ELSE 0)
             hold == stop = "CONTROLLED"
  <1>1. /\ UNCHANGED <<deadman, asserted, estopLatched, nonce, nonceLeft, scene,
                       cause, dwelt, cycled>>
        /\ lifecycle \in {"ARMED_IDLE", "EXECUTING"}
    BY DEF Stop, Stoppable, safety, token
  <1>2. n \in Nat /\ hold \in BOOLEAN  BY DEF TypeInv, Scalars
  <1>3. CASE /\ n < RingCap /\ ring' = n + 1 /\ news' = "STOPPED"
             /\ lifecycle' = IF stop = "DISABLE" THEN "DISARMED" ELSE "ARMED_IDLE"
             /\ lost' = lost /\ exec' = None
             /\ MaterializeStop(hold, 0)
    <2> HIDE DEF n
    <2>1. /\ ArmsOK' /\ FaultsOK' /\ PlanOK' /\ seen' = seen
          /\ hold => \A s \in Sides : enabled'[s] = seen[s]
          /\ ~hold => \A s \in Sides : ~enabled'[s]
      BY <1>2, <1>3, StopTypes
    <2>2. Scalars'
      BY <1>1, <1>2, <1>3, ConstantsAssumption
         DEF TypeInv, Scalars, Lifecycles, EventKinds
    <2>3. ExecOK'  BY <1>3 DEF ExecOK
    <2>4. CASE hold
      BY <1>1, <1>3, <2>1, <2>2, <2>3, <2>4
         DEF Steps, TypeInv, PowerStep, EndsMotion, PowerInv
    <2>5. CASE ~hold
      BY <1>1, <1>3, <2>1, <2>2, <2>3, <2>5
         DEF Steps, TypeInv, PowerStep, CutsPower, PowerInv,
             LostEventFailsClosed, StopKinds
    <2> QED  BY <2>4, <2>5
  <1>4. CASE /\ ring' = RingCap /\ news' = "FAULTED" /\ lifecycle' = "FAULT"
             /\ lost' = TRUE /\ exec' = None /\ MaterializeStop(FALSE, 0)
    BY <1>1, <1>4, FullRingSteps DEF TypeInv, Scalars
  <1> QED  BY <1>3, <1>4 DEF Stop, Publish

\* open_and_verify().
LEMMA OpenSteps ==
    ASSUME TypeInv, PowerInv, OpenAndVerify
    PROVE  Steps
  <1>1. /\ UNCHANGED <<deadman, asserted, estopLatched, nonce, nonceLeft, scene,
                       cause, dwelt, cycled>>
        /\ lifecycle = "CLOSED" /\ ForceBoth(FALSE)
        /\ exec' = None
        /\ ring' \in {ring + 1, RingCap}
        /\ \/ ring < RingCap /\ lifecycle' = "DISARMED" /\ lost' = lost
              /\ ring' = ring + 1
           \/ lifecycle' = "FAULT" /\ lost' = TRUE /\ ring' = RingCap
        /\ news' \in EventKinds
    BY DEF OpenAndVerify, Publish, safety, token, EventKinds, TypeInv, ExecOK
  <1>2. /\ ArmsOK' /\ FaultsOK' /\ PlanOK'
        /\ \A s \in Sides : seen'[s] /\ enabled'[s] = FALSE
    BY <1>1, ForceTypes
  <1>3. Scalars'
    <2>1. ring' \in 0..RingCap
      BY <1>1, ConstantsAssumption DEF TypeInv, Scalars
    <2>2. lost' \in BOOLEAN /\ lifecycle' \in Lifecycles
      BY <1>1 DEF TypeInv, Scalars, Lifecycles
    <2> QED  BY <1>1, <2>1, <2>2, BoundsAreNumbers DEF TypeInv, Scalars
  <1>4. ExecOK'  BY <1>1 DEF ExecOK
  <1>5. CutsPower
    BY <1>1, <1>2 DEF CutsPower, PowerInv, LostEventFailsClosed
  <1> QED  BY <1>2, <1>3, <1>4, <1>5 DEF Steps, TypeInv, PowerStep

\* arm(): the only way to power.
LEMMA ArmSteps ==
    ASSUME TypeInv, PowerInv, Arm
    PROVE  Steps
  <1>1. /\ UNCHANGED <<deadman, asserted, estopLatched, scene, cause, dwelt,
                       cycled>>
        /\ nonce' = "none" /\ nonceLeft' = -1
        /\ lifecycle = "DISARMED" /\ deadman /\ exec' = None
        /\ news' \in EventKinds
        /\ \/ ring < RingCap /\ lifecycle' = "ARMED_IDLE" /\ lost' = lost
              /\ ring' = ring + 1 /\ ForceBoth(TRUE)
           \/ lifecycle' = "FAULT" /\ lost' = TRUE /\ ring' = RingCap
              /\ ForceBoth(FALSE)
    BY DEF Arm, ArmReady, Publish, safety, token, EventKinds, TypeInv, ExecOK
  <1>2. Scalars'
    <2>1. ring' \in 0..RingCap
      <3>1. ring \in 0..RingCap  BY DEF TypeInv, Scalars
      <3>2. (ring < RingCap /\ ring' = ring + 1) \/ ring' = RingCap  BY <1>1
      <3> QED  BY <3>1, <3>2, BoundsAreNumbers
    <2>2. lost' \in BOOLEAN /\ lifecycle' \in Lifecycles
      BY <1>1 DEF TypeInv, Scalars, Lifecycles
    <2> QED  BY <1>1, <2>1, <2>2, BoundsAreNumbers DEF TypeInv, Scalars
  <1>3. ExecOK'  BY <1>1 DEF ExecOK
  <1>4. CASE lifecycle' = "ARMED_IDLE" /\ lost' = lost /\ ForceBoth(TRUE)
    <2>1. /\ ArmsOK' /\ FaultsOK' /\ PlanOK'
          /\ \A s \in Sides : seen'[s] /\ enabled'[s] = TRUE
      BY <1>4, ForceTypes
    <2>2. GrantsPower
      BY <1>1, <1>4, <2>1 DEF GrantsPower, PowerInv, LostEventFailsClosed
    <2> QED  BY <1>2, <1>3, <2>1, <2>2 DEF Steps, TypeInv, PowerStep
  <1>5. CASE lifecycle' = "FAULT" /\ lost' = TRUE /\ ForceBoth(FALSE)
    <2>1. /\ ArmsOK' /\ FaultsOK' /\ PlanOK'
          /\ \A s \in Sides : seen'[s] /\ enabled'[s] = FALSE
      BY <1>5, ForceTypes
    <2>2. CutsPower  BY <1>5, <2>1 DEF CutsPower
    <2> QED  BY <1>2, <1>3, <2>1, <2>2 DEF Steps, TypeInv, PowerStep
  <1> QED  BY <1>1, <1>4, <1>5

\* reset().
LEMMA ResetSteps ==
    ASSUME TypeInv, Reset
    PROVE  Steps
  <1>1. Scalars'
    BY BoundsAreNumbers DEF TypeInv, Scalars, Reset, safety, Lifecycles
  <1>2. <<>> \in Seq(Generations) /\ Len(<<>>) = 0  OBVIOUS
  <1>3. ArmsOK'
    BY <1>2, ConstantsAssumption DEF TypeInv, ArmsOK, Reset
  <1>4. FaultsOK' /\ PlanOK' /\ ExecOK'
    BY DEF TypeInv, FaultsOK, PlanOK, ExecOK, Reset
  <1>5. CutsPower  BY DEF CutsPower, Reset
  <1> QED  BY <1>1, <1>3, <1>4, <1>5 DEF Steps, TypeInv, PowerStep

\* execute() starts or queues a command.
LEMMA ExecuteSteps ==
    ASSUME TypeInv, PowerInv, NEW start \in Starts, NEW life \in Lives,
           NEW lease \in Leases, NEW stop \in StopKinds,
           Execute(start, life, lease, stop)
    PROVE  Steps
  <1> DEFINE c == [started |-> start = 0, start |-> start,
                   end |-> start + plan.duration, expiry |-> life,
                   producer |-> lease, stop |-> stop,
                   contact |-> plan.contact, streak |-> 0,
                   settling |-> FALSE, dwell |-> -1, gens |-> 0,
                   fed |-> {}, scene |-> plan.scene, moved |-> {}]
  <1>1. /\ UNCHANGED <<deadman, asserted, estopLatched, nonce, nonceLeft, scene,
                       cycled>>
        /\ cause' = "NONE" /\ dwelt' = [s \in Sides |-> 0]
        /\ lifecycle = "ARMED_IDLE" /\ plan # None /\ lease > 0
    BY DEF Execute, PlanReady, PlanCurrent, safety, token
  <1>2. c \in Commands
    <2>1. plan \in Plans  BY <1>1 DEF TypeInv, PlanOK
    <2>2. /\ start \in Nat /\ life \in Nat /\ lease \in Nat
          /\ start + plan.duration \in Nat
      <3>1. plan.duration \in Durations  BY <2>1 DEF Plans
      <3>2. start \in Nat /\ life \in Nat /\ lease \in Int /\ plan.duration \in Nat
        BY <3>1, BoundsAreNumbers, Zenon
      <3> HIDE DEF c
      <3> QED  BY <1>1, <3>2
    <2>3. Cycle * SettleIntervals \in Nat  BY ConstantsAssumption
    <2>4. -1 \in -1..Cycle * SettleIntervals  BY <2>3
    <2>5. 0 \in 0..Persistence - 1 /\ 0 \in 0..SettleIntervals
      BY ConstantsAssumption
    <2> QED  BY <2>1, <2>2, <2>4, <2>5 DEF Commands, Plans
  <1>3. dwelt' \in [Sides -> 0..SettleIntervals]
    BY <1>1, ConstantsAssumption
  <1>4. CASE /\ ring < RingCap /\ ring' = ring + 1 /\ lifecycle' = "EXECUTING"
             /\ news' = (IF start = 0 THEN "STARTED" ELSE "QUEUED")
             /\ lost' = lost /\ exec' = c /\ UNCHANGED <<arms, faults, plan>>
    <2> HIDE DEF c
    <2>1. Scalars'
      BY <1>1, <1>3, <1>4, ConstantsAssumption
         DEF TypeInv, Scalars, Lifecycles, EventKinds, Causes
    <2>2. ArmsOK' /\ FaultsOK' /\ PlanOK'
      BY <1>4 DEF TypeInv, ArmsOK, FaultsOK, PlanOK, arms, faults
    <2>3. ExecOK'  BY <1>2, <1>4 DEF ExecOK
    <2>4. StartsMotion  BY <1>1, <1>4 DEF StartsMotion, arms
    <2> QED  BY <2>1, <2>2, <2>3, <2>4 DEF Steps, TypeInv, PowerStep
  <1>5. CASE /\ ring' = RingCap /\ news' = "FAULTED" /\ lifecycle' = "FAULT"
             /\ lost' = TRUE /\ exec' = None /\ MaterializeStop(FALSE, 0)
    BY <1>1, <1>3, <1>5, FullRingSteps DEF TypeInv, Scalars, Causes
  <1> QED  BY <1>4, <1>5 DEF Execute, Publish

\* A trip of the interlock, after time d.
LEMMA TripSteps ==
    ASSUME TypeInv, PowerInv, NEW d \in Nat, Trip(d),
           deadman' \in BOOLEAN, estopLatched' \in BOOLEAN, cycled' \in BOOLEAN,
           cause' \in Causes, UNCHANGED <<asserted, scene, dwelt>>
    PROVE  Steps
  <1>1. nonce' = "withheld" /\ nonceLeft' = -1  BY DEF Trip
  <1>2. -1 \in -1..ChallengeLife  BY ConstantsAssumption
  <1>3. CASE /\ ring' = RingCap /\ news' = "FAULTED" /\ lifecycle' = "FAULT"
             /\ lost' = TRUE /\ exec' = None /\ MaterializeStop(FALSE, d)
    BY <1>1, <1>2, <1>3, FullRingSteps DEF TypeInv, Scalars
  <1>4. CASE /\ ring < RingCap /\ ring' = ring + 1 /\ news' = "ESTOP"
             /\ lifecycle' = "ESTOP" /\ lost' = lost /\ exec' = None
    <2>1. Scalars'
      BY <1>1, <1>2, <1>4, ConstantsAssumption
         DEF TypeInv, Scalars, Lifecycles, EventKinds
    <2>2. ExecOK'  BY <1>4 DEF ExecOK
    <2>3. /\ ArmsOK' /\ FaultsOK' /\ PlanOK' /\ \A s \in Sides : ~enabled'[s]
      <3>1. CASE lifecycle = "CLOSED"
        <4>1. /\ enabled' = [s \in Sides |-> FALSE]
              /\ queue' = [s \in Sides |-> <<>>]
              /\ age' = [s \in Sides |-> Older(age[s], d)]
              /\ plan' = PlanAfter(d, FALSE)
              /\ UNCHANGED <<status, whole, seen, faults>>
          BY <1>4, <3>1 DEF Trip, Publish
        <4>2. <<>> \in Seq(Generations) /\ Len(<<>>) = 0  OBVIOUS
        <4>3. \A s \in Sides : Older(age[s], d) \in 0..Timeout + 1
          BY OlderType DEF TypeInv, ArmsOK
        <4>4. PlanOK'  BY <4>1, PlanAfterType DEF TypeInv, PlanOK
        <4> QED
          BY <4>1, <4>2, <4>3, <4>4, ConstantsAssumption
             DEF TypeInv, ArmsOK, FaultsOK, faults
      <3>2. CASE lifecycle # "CLOSED"
        <4>1. MaterializeStop(FALSE, d)  BY <1>4, <3>2 DEF Trip, Publish
        <4> QED  BY <4>1, StopTypes
      <3> QED  BY <3>1, <3>2
    <2>4. CutsPower  BY <1>4, <2>3 DEF CutsPower
    <2> QED  BY <2>1, <2>2, <2>3, <2>4 DEF Steps, TypeInv, PowerStep
  <1> QED  BY <1>3, <1>4 DEF Trip, Publish

\* set_interlock() that trips.
LEMMA InterlockSteps ==
    ASSUME TypeInv, PowerInv, NEW estop \in BOOLEAN, NEW held \in BOOLEAN,
           SetInterlock(estop, held)
    PROVE  Steps
  BY TripSteps DEF SetInterlock, TypeInv, Scalars

\* advance() that sees the latch anew.
LEMMA TripsSteps ==
    ASSUME TypeInv, PowerInv, NEW d \in Nat, AdvanceTrips(d)
    PROVE  Steps
  BY TripSteps DEF AdvanceTrips, TypeInv, Scalars, Causes

\* advance() under a latch it has seen.
LEMMA TrippedSteps ==
    ASSUME TypeInv, NEW d \in Nat, AdvanceTripped(d)
    PROVE  Steps
  <1>1. ArmsOK' /\ FaultsOK' /\ PlanOK'  BY WaitTypes DEF AdvanceTripped
  <1>2. nonceLeft' \in -1..ChallengeLife
    <2>1. nonceLeft \in Nat \cup {-1} /\ nonceLeft <= ChallengeLife
      BY BoundsAreNumbers DEF TypeInv, Scalars
    <2> QED  BY <2>1, LeftType, BoundsAreNumbers DEF AdvanceTripped
  <1>3. Scalars'  BY <1>2 DEF TypeInv, Scalars, AdvanceTripped, safety, events
  <1>4. ExecOK'
    <2>1. CASE exec = None
      BY <2>1, NoneAssumption DEF TypeInv, ExecOK, AdvanceTripped, Later
    <2>2. CASE exec \in Commands
      <3>1. Later(d) \in Commands  BY <2>2, LaterType
      <3> QED  BY <2>2, <3>1, NoneAssumption DEF TypeInv, ExecOK, AdvanceTripped
    <2> QED  BY <2>1, <2>2 DEF TypeInv, ExecOK
  <1>5. KeepsPower  BY DEF KeepsPower, AdvanceTripped, Wait, safety, events
  <1> QED  BY <1>1, <1>3, <1>4, <1>5 DEF Steps, TypeInv, PowerStep

\* advance() with nothing to do.
LEMMA RestsSteps ==
    ASSUME TypeInv, NEW d \in Nat, AdvanceRests(d)
    PROVE  Steps
  <1>1. ArmsOK' /\ FaultsOK' /\ PlanOK'  BY WaitTypes DEF AdvanceRests
  <1>2. nonceLeft' \in -1..ChallengeLife
    <2>1. nonceLeft \in Nat \cup {-1} /\ nonceLeft <= ChallengeLife
      BY BoundsAreNumbers DEF TypeInv, Scalars
    <2> QED  BY <2>1, LeftType, BoundsAreNumbers DEF AdvanceRests
  <1>3. Scalars'  BY <1>2 DEF TypeInv, Scalars, AdvanceRests, events
  <1>4. ExecOK'
    BY DEF TypeInv, ExecOK, AdvanceRests
  <1>5. KeepsPower  BY DEF KeepsPower, AdvanceRests, Wait, events
  <1> QED  BY <1>1, <1>3, <1>4, <1>5 DEF Steps, TypeInv, PowerStep

\* The time left of a challenge.
LEMMA NonceLeftType ==
    ASSUME TypeInv, NEW d \in Nat
    PROVE  Left(nonceLeft, d) \in -1..ChallengeLife
  <1>1. nonceLeft \in Nat \cup {-1} /\ nonceLeft <= ChallengeLife
    BY BoundsAreNumbers DEF TypeInv, Scalars
  <1> QED  BY <1>1, LeftType, BoundsAreNumbers

\* advance() that cannot publish STARTED.
LEMMA BusySteps ==
    ASSUME TypeInv, PowerInv, NEW d \in Nat, AdvanceBusy(d)
    PROVE  Steps
  <1>1. /\ ring' = RingCap /\ news' = "FAULTED" /\ lifecycle' = "FAULT"
        /\ lost' = TRUE /\ exec' = None /\ MaterializeStop(FALSE, d)
    BY DEF AdvanceBusy, Publish
  <1>2. nonceLeft' \in -1..ChallengeLife  BY NonceLeftType DEF AdvanceBusy
  <1> QED
    BY <1>1, <1>2, FullRingSteps
       DEF AdvanceBusy, Advanced, TypeInv, Scalars

\* A monitor ends the command on a hold.
LEMMA MonitorSteps ==
    ASSUME TypeInv, PowerInv, NEW d \in Nat, NEW why \in Causes,
           AdvanceStops(d, why), Monitored(d)
    PROVE  Steps
  <1>1. lifecycle = "EXECUTING" /\ \A s \in Sides : seen[s]
    BY DEF TypeInv, ExecOK, PowerInv, Monitored
  <1>2. nonceLeft' \in -1..ChallengeLife  BY NonceLeftType DEF AdvanceStops
  <1>3. /\ UNCHANGED <<deadman, asserted, scene, cycled, nonce, dwelt>>
        /\ estopLatched' = FALSE /\ cause' = why
    BY DEF AdvanceStops, Advanced
  <1>4. Begun(d) \in Nat  BY DEF TypeInv, Scalars, Begun
  <1>5. CASE /\ ring' = RingCap /\ news' = "FAULTED" /\ lifecycle' = "FAULT"
             /\ lost' = TRUE /\ exec' = None /\ MaterializeStop(FALSE, d)
    BY <1>2, <1>3, <1>5, FullRingSteps DEF TypeInv, Scalars
  <1>6. CASE /\ Begun(d) < RingCap /\ ring' = Begun(d) + 1 /\ news' = "STOPPED"
             /\ lifecycle' = "ARMED_IDLE" /\ lost' = lost /\ exec' = None
             /\ MaterializeStop(TRUE, d)
    <2>1. /\ ArmsOK' /\ FaultsOK' /\ PlanOK' /\ seen' = seen
          /\ \A s \in Sides : enabled'[s] = seen[s]
      BY <1>6, StopTypes
    <2>2. ring' \in 0..RingCap  BY <1>4, <1>6, BoundsAreNumbers
    <2>3. Scalars'
      BY <1>2, <1>3, <1>6, <2>2 DEF TypeInv, Scalars, Lifecycles, EventKinds
    <2>4. ExecOK'  BY <1>6 DEF ExecOK
    <2>5. EndsMotion  BY <1>1, <1>3, <1>6, <2>1 DEF EndsMotion
    <2> QED  BY <2>1, <2>3, <2>4, <2>5 DEF Steps, TypeInv, PowerStep
  <1> QED  BY <1>5, <1>6 DEF AdvanceStops, Publish

\* monitor_contact() and monitor_keepout().
LEMMA ContactSteps ==
    ASSUME TypeInv, PowerInv, NEW d \in Nat, AdvanceContact(d) \/ AdvanceKeepout(d)
    PROVE  Steps
  <1>1. /\ Monitored(d)
        /\ AdvanceStops(d, "CONTACT") \/ AdvanceStops(d, "KEEPOUT")
    BY DEF AdvanceContact, AdvanceKeepout
  <1>2. "CONTACT" \in Causes /\ "KEEPOUT" \in Causes  BY DEF Causes
  <1> QED  BY <1>1, <1>2, MonitorSteps

\* advance() on the way.
LEMMA MovesSteps ==
    ASSUME TypeInv, NEW d \in Nat, AdvanceMoves(d)
    PROVE  Steps
  <1>1. /\ ArmsOK' /\ FaultsOK' /\ PlanOK'
        /\ enabled' = enabled /\ seen' = seen
    BY StepTypes DEF AdvanceMoves, Stepped
  <1>2. nonceLeft' \in -1..ChallengeLife  BY NonceLeftType DEF AdvanceMoves
  <1>3. ring' \in 0..RingCap
    <2>1. ring \in Nat  BY DEF TypeInv, Scalars
    <2>2. Begun(d) \in Nat /\ Begun(d) <= RingCap
      BY <2>1 DEF Begun, AdvanceMoves, Stepped, Commanded
    <2> QED  BY <2>2, BoundsAreNumbers DEF AdvanceMoves
  <1>4. news' \in EventKinds
    BY DEF AdvanceMoves, TypeInv, Scalars, EventKinds
  <1>5. Scalars'
    BY <1>2, <1>3, <1>4 DEF TypeInv, Scalars, AdvanceMoves, Advanced
  <1>6. ExecOK'
    <2>1. PICK streak \in Streaks(d), moved \in Returns(d) :
             exec' = Moving(d, streak, moved)
      BY DEF AdvanceMoves
    <2>2. lifecycle' = lifecycle  BY DEF AdvanceMoves
    <2>3. CASE exec = None
      BY <2>1, <2>2, <2>3, NoneAssumption DEF TypeInv, ExecOK, Moving
    <2>4. CASE exec \in Commands
      <3>1. moved \in SUBSET Sides  BY <2>4 DEF Returns, Commands
      <3>2. exec' \in Commands  BY <2>1, <2>4, <3>1, MovingType
      <3> QED  BY <2>2, <2>4, <3>2, NoneAssumption DEF TypeInv, ExecOK
    <2> QED  BY <2>3, <2>4 DEF TypeInv, ExecOK
  <1>7. KeepsPower  BY <1>1 DEF KeepsPower, AdvanceMoves, Advanced
  <1> QED  BY <1>1, <1>5, <1>6, <1>7 DEF Steps, TypeInv, PowerStep

\* A step of a command that has arrived and goes on settling.
LEMMA SettlingSteps ==
    ASSUME TypeInv, PowerInv, NEW d \in Nat, NEW next \in Commands,
           Stepped(d), exec \in Commands, Settling(d, next),
           nonceLeft' = Left(nonceLeft, d),
           dwelt' \in [Sides -> 0..SettleIntervals],
           UNCHANGED <<nonce, cause>>, Advanced
    PROVE  Steps
  <1>1. lifecycle = "EXECUTING"  BY NoneAssumption DEF TypeInv, ExecOK
  <1>2. nonceLeft' \in -1..ChallengeLife  BY NonceLeftType
  <1>3. /\ UNCHANGED <<deadman, asserted, scene, cycled, nonce, cause>>
        /\ estopLatched' = FALSE
    BY DEF Advanced
  <1>4. Begun(d) \in Nat /\ Begun(d) <= RingCap
    BY DEF TypeInv, Scalars, Begun, Stepped, Commanded
  <1>5. CASE /\ ring' = RingCap /\ news' = "FAULTED" /\ lifecycle' = "FAULT"
             /\ lost' = TRUE /\ exec' = None /\ MaterializeStop(FALSE, d)
    BY <1>2, <1>3, <1>5, FullRingSteps DEF TypeInv, Scalars
  <1>6. CASE /\ ring' \in {Begun(d), Begun(d) + 1} /\ ring' <= RingCap
             /\ news' \in EventKinds /\ lifecycle' = "EXECUTING" /\ lost' = lost
             /\ exec' = next /\ StepArms(d)
    <2>1. /\ ArmsOK' /\ FaultsOK' /\ PlanOK'
          /\ enabled' = enabled /\ seen' = seen
      BY <1>6, StepTypes DEF Stepped
    <2>2. ring' \in 0..RingCap  BY <1>4, <1>6, BoundsAreNumbers
    <2>3. Scalars'
      BY <1>2, <1>3, <1>6, <2>2 DEF TypeInv, Scalars, Lifecycles
    <2>4. ExecOK'  BY <1>6 DEF ExecOK
    <2>5. KeepsPower  BY <1>1, <1>3, <1>6, <2>1 DEF KeepsPower
    <2> QED  BY <2>1, <2>3, <2>4, <2>5 DEF Steps, TypeInv, PowerStep
  <1>7. "SETTLING" \in EventKinds /\ "STARTED" \in EventKinds /\ news \in EventKinds
    BY DEF EventKinds, TypeInv, Scalars
  <1>8. CASE exec.settling
    <2>1. /\ exec' = next /\ StepArms(d) /\ ring' = Begun(d)
          /\ news' \in {"STARTED", news} /\ lifecycle' = lifecycle /\ lost' = lost
      BY <1>8 DEF Settling
    <2> QED  BY <1>1, <1>4, <1>6, <1>7, <2>1
  <1>9. CASE ~exec.settling
    <2>1. \/ /\ Begun(d) < RingCap /\ ring' = Begun(d) + 1 /\ news' = "SETTLING"
             /\ lifecycle' = "EXECUTING" /\ lost' = lost
             /\ exec' = next /\ StepArms(d)
          \/ /\ ring' = RingCap /\ news' = "FAULTED" /\ lifecycle' = "FAULT"
             /\ lost' = TRUE /\ exec' = None /\ MaterializeStop(FALSE, d)
      BY <1>9 DEF Settling, Publish
    <2>2. Begun(d) < RingCap => Begun(d) + 1 <= RingCap  BY <1>4, BoundsAreNumbers
    <2> QED  BY <1>5, <1>6, <1>7, <2>1, <2>2
  <1> QED  BY <1>8, <1>9

\* The count of generations at the goal.
LEMMA CountedType ==
    ASSUME TypeInv, NEW d
    PROVE  /\ Counted(d) \in [Sides -> 0..SettleIntervals]
           /\ [s \in Sides |-> 0] \in [Sides -> 0..SettleIntervals]
  BY ConstantsAssumption DEF TypeInv, Scalars, Counted

\* advance() at the goal, or off it, after the trajectory.
LEMMA DwellsSteps ==
    ASSUME TypeInv, PowerInv, NEW d \in Nat, AdvanceDwells(d) \/ AdvanceOffGoal(d)
    PROVE  Steps
  <1>1. Stepped(d) /\ exec # None
    BY DEF AdvanceDwells, AdvanceOffGoal, Arrived
  <1>2. exec \in Commands  BY <1>1 DEF TypeInv, ExecOK
  <1>3. /\ nonceLeft' = Left(nonceLeft, d) /\ UNCHANGED <<nonce, cause>> /\ Advanced
    BY DEF AdvanceDwells, AdvanceOffGoal
  <1>4. dwelt' \in [Sides -> 0..SettleIntervals]
    BY CountedType DEF AdvanceDwells, AdvanceOffGoal
  <1>5. PICK streak \in Streaks(d) :
           \/ Settling(d, [Moving(d, streak, {}) EXCEPT
                 !.settling = TRUE,
                 !.dwell = IF @ < 0 THEN 0 ELSE Dwell(d),
                 !.gens = IF exec.dwell < 0 THEN 0 ELSE Gens(d),
                 !.fed = IF exec.dwell < 0 \/ Interval(d) THEN {} ELSE Fed(d)])
           \/ Settling(d, [Moving(d, streak, {}) EXCEPT
                 !.settling = TRUE, !.dwell = -1, !.gens = 0, !.fed = {}])
    BY DEF AdvanceDwells, AdvanceOffGoal
  <1> DEFINE m == Moving(d, streak, {})
  <1>6. m \in Commands  BY <1>2, MovingType
  <1>7. /\ Dwell(d) \in -1..Cycle * SettleIntervals
        /\ Gens(d) \in 0..SettleIntervals
        /\ Fed(d) \in SUBSET Sides
        /\ \A next \in Commands, dwell \in -1..Cycle * SettleIntervals,
              gens \in 0..SettleIntervals, fed \in SUBSET Sides :
              [next EXCEPT !.settling = TRUE, !.dwell = dwell, !.gens = gens,
                           !.fed = fed] \in Commands
    BY <1>2, SettleTypes
  <1>8. Cycle * SettleIntervals \in Nat  BY ConstantsAssumption
  <1>9. /\ 0 \in -1..Cycle * SettleIntervals /\ -1 \in -1..Cycle * SettleIntervals
        /\ 0 \in 0..SettleIntervals
    BY <1>8, ConstantsAssumption
  <1> HIDE DEF m
  <1>10. /\ [m EXCEPT !.settling = TRUE,
                      !.dwell = IF m.dwell < 0 THEN 0 ELSE Dwell(d),
                      !.gens = IF exec.dwell < 0 THEN 0 ELSE Gens(d),
                      !.fed = IF exec.dwell < 0 \/ Interval(d) THEN {} ELSE Fed(d)]
               \in Commands
         /\ [m EXCEPT !.settling = TRUE, !.dwell = -1, !.gens = 0, !.fed = {}]
               \in Commands
    <2>1. /\ (IF m.dwell < 0 THEN 0 ELSE Dwell(d)) \in -1..Cycle * SettleIntervals
          /\ (IF exec.dwell < 0 THEN 0 ELSE Gens(d)) \in 0..SettleIntervals
          /\ (IF exec.dwell < 0 \/ Interval(d) THEN {} ELSE Fed(d)) \in SUBSET Sides
          /\ {} \in SUBSET Sides
      BY <1>7, <1>9, Zenon
    <2> QED  BY <1>6, <1>7, <1>9, <2>1, Zenon
  <1> QED  BY <1>1, <1>2, <1>3, <1>4, <1>5, <1>10, SettlingSteps DEF m

\* advance() that completes a command.
LEMMA CompletesSteps ==
    ASSUME TypeInv, PowerInv, NEW d \in Nat, AdvanceCompletes(d)
    PROVE  Steps
  <1>1. Stepped(d) /\ lifecycle = "EXECUTING"
    BY DEF AdvanceCompletes, Arrived, TypeInv, ExecOK
  <1>2. nonceLeft' \in -1..ChallengeLife  BY NonceLeftType DEF AdvanceCompletes
  <1>3. /\ UNCHANGED <<deadman, asserted, scene, cycled, nonce>>
        /\ estopLatched' = FALSE /\ cause' = "PLAN_COMPLETE"
        /\ dwelt' \in [Sides -> 0..SettleIntervals]
    BY CountedType DEF AdvanceCompletes, Advanced
  <1>4. Begun(d) \in Nat  BY DEF TypeInv, Scalars, Begun
  <1>5. CASE /\ ring' = RingCap /\ news' = "FAULTED" /\ lifecycle' = "FAULT"
             /\ lost' = TRUE /\ exec' = None /\ MaterializeStop(FALSE, d)
    BY <1>2, <1>3, <1>5, FullRingSteps DEF TypeInv, Scalars, Causes
  <1>6. CASE /\ Begun(d) < RingCap /\ ring' = Begun(d) + 1 /\ news' = "COMPLETED"
             /\ lifecycle' = "ARMED_IDLE" /\ lost' = lost /\ exec' = None
             /\ StepArms(d)
    <2>1. /\ ArmsOK' /\ FaultsOK' /\ PlanOK'
          /\ enabled' = enabled /\ seen' = seen
      BY <1>1, <1>6, StepTypes DEF Stepped
    <2>2. ring' \in 0..RingCap  BY <1>4, <1>6, BoundsAreNumbers
    <2>3. Scalars'
      BY <1>2, <1>3, <1>6, <2>2
         DEF TypeInv, Scalars, Lifecycles, EventKinds, Causes
    <2>4. ExecOK'  BY <1>6 DEF ExecOK
    <2>5. EndsMotion  BY <1>1, <1>3, <1>6, <2>1 DEF EndsMotion, PowerInv
    <2> QED  BY <2>1, <2>3, <2>4, <2>5 DEF Steps, TypeInv, PowerStep
  <1> QED  BY <1>5, <1>6 DEF AdvanceCompletes, Publish

\* What a command notices of a forced generation.
LEMMA NoticedType ==
    ASSUME exec \in Commands, NEW s \in Sides
    PROVE  /\ Noticed(s) \in Commands
           /\ \A moved \in SUBSET Sides :
                 [Noticed(s) EXCEPT !.moved = moved] \in Commands
  <1>1. exec.fed \cup {s} \in SUBSET Sides  BY DEF Commands
  <1>2. \A c \in Commands, fed \in SUBSET Sides :
           [c EXCEPT !.fed = fed] \in Commands
    BY DEF Commands
  <1>3. \A c \in Commands, moved \in SUBSET Sides :
           [c EXCEPT !.moved = moved] \in Commands
    BY DEF Commands
  <1>4. Noticed(s) \in Commands  BY <1>1, <1>2 DEF Noticed
  <1> QED  BY <1>3, <1>4

\* set_sim_state() forces one arm.
LEMMA SimStateSteps ==
    ASSUME TypeInv, NEW s \in Sides, SetSimState(s)
    PROVE  Steps
  <1>1. broken[s] \in BOOLEAN  BY DEF TypeInv, FaultsOK
  <1>2. /\ ArmsOK' /\ PlanOK' /\ dwelt' \in [Sides -> 0..SettleIntervals]
        /\ enabled' = enabled
        /\ \A t \in Sides : seen[t] => seen'[t]
    BY <1>1, OneForceTypes DEF SetSimState
  <1>3. FaultsOK'  BY DEF TypeInv, FaultsOK, SetSimState, faults
  <1>4. Scalars'
    BY <1>2 DEF TypeInv, Scalars, SetSimState, safety, token, events
  <1>5. ExecOK'
    <2>1. lifecycle' = lifecycle  BY DEF SetSimState
    <2>2. CASE exec = None
      BY <2>1, <2>2, NoneAssumption DEF TypeInv, ExecOK, SetSimState
    <2>3. CASE exec \in Commands
      <3>1. exec # None /\ exec.moved \in SUBSET Sides
        BY <2>3, NoneAssumption DEF Commands
      <3>2. exec.moved \cup {s} \in SUBSET Sides /\ exec.moved \ {s} \in SUBSET Sides
        BY <3>1
      <3>3. exec' \in Commands
        BY <2>3, <3>1, <3>2, NoticedType DEF SetSimState
      <3> QED  BY <2>1, <2>3, <3>1, <3>3 DEF TypeInv, ExecOK
    <2> QED  BY <2>2, <2>3 DEF TypeInv, ExecOK
  <1>6. KeepsPower  BY <1>2 DEF KeepsPower, SetSimState, safety, events
  <1> QED  BY <1>2, <1>3, <1>4, <1>5, <1>6 DEF Steps, TypeInv, PowerStep

\* set_sim_fault() injects, and forces the arm if it injects a motor fault.
LEMMA SimFaultSteps ==
    ASSUME TypeInv, NEW s \in Sides, NEW i \in Injections, SetSimFault(s, i)
    PROVE  Steps
  <1>1. i \in [drop : BOOLEAN, fail : BOOLEAN, fault : BOOLEAN, delay : Nat]
    BY ConstantsAssumption
  <1>2. /\ ArmsOK' /\ PlanOK' /\ dwelt' \in [Sides -> 0..SettleIntervals]
        /\ enabled' = enabled
        /\ \A t \in Sides : seen[t] => seen'[t]
    <2>1. CASE i.fault
      BY <2>1, OneForceTypes DEF SetSimFault
    <2>2. CASE ~i.fault
      BY <2>2 DEF SetSimFault, TypeInv, Scalars, ArmsOK, PlanOK, arms
    <2> QED  BY <2>1, <2>2
  <1>3. FaultsOK'
    BY <1>1 DEF TypeInv, FaultsOK, SetSimFault
  <1>4. Scalars'
    BY <1>2 DEF TypeInv, Scalars, SetSimFault, safety, token, events
  <1>5. ExecOK'
    <2>1. lifecycle' = lifecycle /\ exec' \in {exec, Noticed(s)}
      BY DEF SetSimFault
    <2>2. CASE exec = None
      BY <2>1, <2>2, NoneAssumption DEF TypeInv, ExecOK, Noticed
    <2>3. CASE exec \in Commands
      <3>1. exec' \in Commands  BY <2>1, <2>3, NoticedType
      <3> QED  BY <2>1, <2>3, <3>1, NoneAssumption DEF TypeInv, ExecOK
    <2> QED  BY <2>2, <2>3 DEF TypeInv, ExecOK
  <1>6. KeepsPower  BY <1>2 DEF KeepsPower, SetSimFault, safety, events
  <1> QED  BY <1>2, <1>3, <1>4, <1>5, <1>6 DEF Steps, TypeInv, PowerStep

-----------------------------------------------------------------------------
(* The theorems.                                                            *)

\* Every step of the controller is one of the above.
LEMMA EveryStep ==
    ASSUME TypeInv, PowerInv, Next
    PROVE  Steps
  <1>1. ASSUME NEW d \in 0..MaxGap, Advance(d) PROVE Steps
    <2>1. d \in Nat  BY ConstantsAssumption
    <2> QED
      BY <1>1, <2>1, TripsSteps, TrippedSteps, RestsSteps, IncoherentSteps,
         WatchdogSteps, MovedSteps, BusySteps, StepFaultSteps, ContactSteps,
         MovesSteps, DwellsSteps, CompletesSteps
         DEF Advance
  <1>2. ASSUME Arming PROVE Steps
    BY <1>2, OpenSteps, ChallengeSteps, ChallengeFaultSteps, ArmSteps,
       ArmRefusedSteps, ResetSteps
       DEF Arming
  <1>3. ASSUME Requests PROVE Steps
    BY <1>3, PlanJointSteps, RequestFaultSteps, PlanTcpSteps, ExecuteSteps,
       HeartbeatSteps, HeartbeatLateSteps, PollEventSteps
       DEF Requests
  <1>4. ASSUME Stops PROVE Steps
    BY <1>4, DisarmSteps, StopSteps DEF Stops
  <1>5. ASSUME Interlocks PROVE Steps
    BY <1>5, InterlockSteps, ReleaseSteps DEF Interlocks
  <1>6. ASSUME Latch PROVE Steps
    BY <1>6, AssertSteps, ClearSteps, PlanTcpEstopSteps DEF Latch
  <1>7. ASSUME Simulator PROVE Steps
    BY <1>7, SimStateSteps, SimFaultSteps DEF Simulator
  <1>8. ASSUME NEW revision \in Scenes, SetCollisionScene(revision) PROVE Steps
    BY <1>8, SceneSteps
  <1> QED
    BY <1>1, <1>2, <1>3, <1>4, <1>5, <1>6, <1>7, <1>8 DEF Next

\* The power of the arms follows from what a step may do to it.
LEMMA PowerIsKept ==
    ASSUME TypeInv, TypeInv', PowerInv, PowerStep
    PROVE  PowerInv'
  <1> USE DEF PowerInv, DeadmanHeld, LostEventFailsClosed
  <1>1. CASE CutsPower
    BY <1>1 DEF CutsPower, TypeInv, Scalars, Lifecycles, ArmsOK
  <1>2. CASE KeepsPower  BY <1>2 DEF KeepsPower
  <1>3. CASE GrantsPower  BY <1>3 DEF GrantsPower, TypeInv, ArmsOK
  <1>4. CASE StartsMotion  BY <1>4 DEF StartsMotion
  <1>5. CASE EndsMotion  BY <1>5 DEF EndsMotion, TypeInv, ArmsOK
  <1>6. CASE HoldsInFault  BY <1>6 DEF HoldsInFault, TypeInv, ArmsOK
  <1> QED  BY <1>1, <1>2, <1>3, <1>4, <1>5, <1>6 DEF PowerStep

\* The invariant is inductive.
THEOREM Invariance == Spec => [](TypeInv /\ PowerInv)
  <1>1. Init => TypeInv /\ PowerInv
    <2> SUFFICES ASSUME Init PROVE TypeInv /\ PowerInv
      OBVIOUS
    <2>1. <<>> \in Seq(Generations) /\ Len(<<>>) = 0  OBVIOUS
    <2>2. Scalars
      <3>1. 0 \in 0..RingCap  BY BoundsAreNumbers
      <3>2. [s \in Sides |-> 0] \in [Sides -> 0..SettleIntervals]
        BY ConstantsAssumption
      <3> QED
        BY <3>1, <3>2, BoundsAreNumbers
           DEF Init, Scalars, Lifecycles, Causes, EventKinds
    <2>3. ArmsOK  BY <2>1, ConstantsAssumption DEF Init, ArmsOK, Statuses
    <2>4. FaultsOK /\ PlanOK /\ ExecOK
      BY DEF Init, FaultsOK, PlanOK, ExecOK
    <2>5. PowerInv  BY DEF Init, PowerInv, DeadmanHeld, LostEventFailsClosed
    <2> QED  BY <2>2, <2>3, <2>4, <2>5 DEF TypeInv
  <1>2. TypeInv /\ PowerInv /\ [Next]_vars => (TypeInv /\ PowerInv)'
    <2> SUFFICES ASSUME TypeInv, PowerInv, [Next]_vars
                 PROVE  (TypeInv /\ PowerInv)'
      OBVIOUS
    <2>1. CASE Next
      BY <2>1, EveryStep, PowerIsKept DEF Steps
    <2>2. CASE UNCHANGED vars
      <3>1. TypeInv'
        BY <2>2 DEF TypeInv, Scalars, ArmsOK, FaultsOK, PlanOK, ExecOK, vars,
           safety, token, events, arms, faults
      <3>2. PowerInv'
        BY <2>2 DEF PowerInv, DeadmanHeld, LostEventFailsClosed, vars, safety,
           token, events, arms, faults
      <3> QED  BY <3>1, <3>2
    <2> QED  BY <2>1, <2>2
  <1> QED  BY <1>1, <1>2, PTL DEF Spec

\* Every variable has its type and no array is overrun, whatever its capacity.
THEOREM TypeCorrect == Spec => []TypeOK
  <1>1. TypeInv => TypeOK
    BY DEF TypeInv, TypeOK, Scalars, ArmsOK, FaultsOK, PlanOK, ExecOK
  <1> QED  BY <1>1, Invariance, PTL

\* Power follows the lifecycle, for any number of arms.
THEOREM PowerIsRight == Spec => []PowerFollowsLifecycle
  <1>1. TypeInv /\ PowerInv => PowerFollowsLifecycle
    BY NoneAssumption DEF TypeInv, PowerInv, ExecOK, PowerFollowsLifecycle
  <1> QED  BY <1>1, Invariance, PTL

\* No drive is on without the deadman.
THEOREM DeadmanIsHeld == Spec => []DeadmanHeld
  <1>1. PowerInv => DeadmanHeld  BY DEF PowerInv
  <1> QED  BY <1>1, Invariance, PTL

\* The drives are on when lifecycle and deadman allow it, for any number of arms
\* (publish, arm, stop, disarm, advance).
THEOREM PowerAuthorised == Spec => []PowerIsAuthorised
  <1>1. PowerFollowsLifecycle /\ DeadmanHeld => PowerIsAuthorised
    BY DEF PowerIsAuthorised
  <1> QED  BY <1>1, PowerIsRight, DeadmanIsHeld, PTL

\* A lost event leaves the arms off until a reset.
THEOREM OverflowFailsClosed == Spec => []LostEventFailsClosed
  <1>1. PowerInv => LostEventFailsClosed  BY DEF PowerInv
  <1> QED  BY <1>1, Invariance, PTL

\* The controller implements MotionPermit.
THEOREM PermitRefinement == Spec => ImplementsPermit
  <1> DEFINE p == IF \A s \in Sides : ~enabled[s] THEN "off"
                  ELSE IF exec # None THEN "moving"
                  ELSE IF lifecycle = "ARMED_IDLE" THEN "ready" ELSE "held"
  <1>1. Init => Permit!Init  BY DEF Init, Permit!Init
  <1>2. TypeInv /\ PowerInv /\ [Next]_vars /\ (TypeInv /\ PowerInv)'
           => [Permit!Next]_p
    <2> SUFFICES ASSUME TypeInv, PowerInv, [Next]_vars, TypeInv', PowerInv'
                 PROVE  Permit!Next \/ p' = p
      OBVIOUS
    <2> USE DEF Permit!Next, Permit!Grant, Permit!Start, Permit!Finish,
                Permit!Hold, Permit!Withdraw
    <2>1. /\ exec # None <=> lifecycle = "EXECUTING"
          /\ exec' # None <=> lifecycle' = "EXECUTING"
      BY NoneAssumption DEF TypeInv, ExecOK
    <2>2. PICK arm : arm \in Sides  BY ConstantsAssumption
    <2>3. CASE UNCHANGED vars
      BY <2>3 DEF vars, arms
    <2>4. CASE PowerStep
      <3>1. CASE CutsPower  BY <3>1 DEF CutsPower
      <3>2. CASE KeepsPower  BY <2>1, <3>2 DEF KeepsPower
      <3>3. CASE GrantsPower
        BY <2>1, <2>2, <3>3 DEF GrantsPower, PowerInv
      <3>4. CASE StartsMotion
        BY <2>1, <2>2, <3>4 DEF StartsMotion, PowerInv
      <3>5. CASE EndsMotion
        BY <2>1, <2>2, <3>5 DEF EndsMotion, PowerInv
      <3>6. CASE HoldsInFault
        BY <2>1, <2>2, <3>6 DEF HoldsInFault, PowerInv
      <3> QED  BY <2>4, <3>1, <3>2, <3>3, <3>4, <3>5, <3>6 DEF PowerStep
    <2> QED  BY <2>3, <2>4, EveryStep DEF Steps
  <1> QED  BY <1>1, <1>2, Invariance, PTL DEF Spec, ImplementsPermit, Permit!Spec


-----------------------------------------------------------------------------
(* What the controller tells: the newest event, the challenge and the      *)
(* command that runs agree with the lifecycle in every state.              *)

\* The command still fits its scene, and starts before it ends.
CommandFits == exec # None => exec.scene = scene /\ exec.start <= exec.end

\* NewsIsCurrent, phase by phase.
NewsByPhase ==
    /\ lifecycle = "EXECUTING" =>
         /\ news \in {"QUEUED", "STARTED", "SETTLING"} /\ cause = "NONE"
         /\ exec.started <=> news # "QUEUED"
    /\ lifecycle = "ARMED_IDLE" =>
         /\ news \in {"ARMED", "STOPPED", "COMPLETED"}
         /\ news = "COMPLETED" => cause = "PLAN_COMPLETE"
    /\ lifecycle = "DISARMED" => news \in {"VERIFIED", "STOPPED", "DISARMED"}
    /\ lifecycle = "FAULT" => news = "FAULTED"
    /\ lifecycle = "ESTOP" => news = "ESTOP"

\* At the goal every arm has fed back once per interval counted, and once more if it
\* has answered in the interval that runs; history keeps count of more than that.
DwellIsMeasured ==
    /\ exec # None /\ exec.dwell >= 0 =>
         \A s \in Sides :
            \/ dwelt[s] >= SettleIntervals
            \/ dwelt[s] >= exec.gens + (IF s \in exec.fed THEN 1 ELSE 0)
    /\ CompletionIsMeasured

Story == CommandFits /\ NewsByPhase /\ ChallengeMatchesPhase /\ DwellIsMeasured

\* What an operation leaves alone that the story is about.
QuietStep == UNCHANGED <<lifecycle, exec, scene, nonce, news, cause, lost, dwelt>>

LEMMA QuietKeepsStory ==
    ASSUME Story, QuietStep
    PROVE  Story'
  BY DEF Story, QuietStep, CommandFits, NewsByPhase, ChallengeMatchesPhase, DwellIsMeasured,
         CompletionIsMeasured

\* An operation that ends the command, or finds none, and does not complete one.
LEMMA EndKeepsStory ==
    ASSUME exec' = None, news' # "COMPLETED", lifecycle' # "EXECUTING",
           NewsByPhase', ChallengeMatchesPhase'
    PROVE  Story'
  BY DEF Story, CommandFits, DwellIsMeasured, CompletionIsMeasured

\* latch_fault() and the full ring end it in FAULT.
LEMMA FaultKeepsStory ==
    ASSUME exec' = None, news' = "FAULTED", lifecycle' = "FAULT",
           lost' \/ nonce' = "withheld"
    PROVE  Story'
  <1>1. NewsByPhase' /\ ChallengeMatchesPhase'
    BY DEF NewsByPhase, ChallengeMatchesPhase
  <1> QED  BY <1>1, EndKeepsStory

LEMMA LatchKeepsStory ==
    ASSUME NEW watchdog, NEW n, NEW d, LatchFault(watchdog, n, d)
    PROVE  Story'
  BY FaultKeepsStory DEF LatchFault, Publish

\* A trip ends in ESTOP.
LEMMA TripKeepsStory ==
    ASSUME NEW d, Trip(d)
    PROVE  Story'
  <1>1. exec' = None /\ nonce' = "withheld"
        /\ \/ lifecycle' = "FAULT" /\ news' = "FAULTED"
           \/ lifecycle' = "ESTOP" /\ news' = "ESTOP"
    BY DEF Trip, Publish
  <1>2. NewsByPhase' /\ ChallengeMatchesPhase'
    BY <1>1 DEF NewsByPhase, ChallengeMatchesPhase
  <1> QED  BY <1>1, <1>2, EndKeepsStory

\* The parts of a command that time and the trajectory leave alone.
LEMMA LaterFields ==
    ASSUME exec \in Commands, NEW d \in Nat
    PROVE  /\ Later(d).scene = exec.scene /\ Later(d).started = exec.started
           /\ Later(d).dwell = exec.dwell /\ Later(d).gens = exec.gens
           /\ Later(d).fed = exec.fed
           /\ exec.start <= exec.end => Later(d).start <= Later(d).end
  <1>1. exec # None  BY NoneAssumption
  <1>2. exec.start \in Nat /\ exec.end \in Nat  BY DEF Commands
  <1>3. /\ Later(d).start = (IF exec.start >= d THEN exec.start - d ELSE 0)
        /\ Later(d).end = (IF exec.end >= d THEN exec.end - d ELSE 0)
        /\ Later(d).scene = exec.scene /\ Later(d).started = exec.started
        /\ Later(d).dwell = exec.dwell /\ Later(d).gens = exec.gens
        /\ Later(d).fed = exec.fed
    BY <1>1 DEF Later, Commands
  <1> QED  BY <1>2, <1>3

LEMMA MovingFields ==
    ASSUME exec \in Commands, NEW d \in Nat, NEW streak, NEW moved
    PROVE  LET m == Moving(d, streak, moved) IN
           /\ m.scene = exec.scene /\ m.started = (exec.started \/ Begins(d))
           /\ m.dwell = exec.dwell /\ m.gens = exec.gens /\ m.fed = exec.fed
           /\ exec.start <= exec.end => m.start <= m.end
  <1>1. exec # None  BY NoneAssumption
  <1>2. Later(d) \in Commands  BY LaterType
  <1> DEFINE l == Later(d)
             b == l.started \/ Begins(d)
  <1>3. Moving(d, streak, moved) = [l EXCEPT !.started = b, !.streak = streak, !.moved = moved]
    BY <1>1 DEF Moving
  <1> HIDE DEF l, b
  <1>4. LET m == [l EXCEPT !.started = b, !.streak = streak, !.moved = moved] IN
        /\ m.scene = l.scene /\ m.started = b /\ m.dwell = l.dwell /\ m.gens = l.gens
        /\ m.fed = l.fed /\ m.start = l.start /\ m.end = l.end
    BY <1>2 DEF Commands, l
  <1> QED  BY <1>3, <1>4, LaterFields DEF l, b

\* The calls of the clients but for execute() and the simulator's.
LEMMA CallsKeepStory ==
    ASSUME TypeInv, PowerInv, Story,
           \/ Arming \/ Stops \/ Interlocks \/ Latch
           \/ PlanJoint \/ RequestFindsFault \/ PollEvent
           \/ \E contact \in BOOLEAN : PlanTcp(contact)
           \/ \E lease \in Leases : HeartbeatTooLate(lease)
    PROVE  Story'
  <1>1. CASE \/ Latch \/ PlanJoint \/ PollEvent \/ ReleaseInterlock
             \/ \E contact \in BOOLEAN : PlanTcp(contact)
    <2>1. QuietStep
      BY <1>1 DEF QuietStep, Latch, EstopAssert, EstopClear, PlanTcpEstop, PlanJoint, PollEvent,
         ReleaseInterlock, PlanTcp, events, token, safety
    <2> QED  BY <2>1, QuietKeepsStory
  <1>2. CASE \/ ChallengeFindsFault \/ ArmRefused \/ RequestFindsFault
             \/ \E lease \in Leases : HeartbeatTooLate(lease)
    BY <1>2, LatchKeepsStory
    DEF ChallengeFindsFault, FoundFault, ArmRefused, RequestFindsFault, HeartbeatTooLate
  <1>3. CASE \E estop, held \in BOOLEAN : SetInterlock(estop, held)
    BY <1>3, TripKeepsStory DEF SetInterlock
  <1>4. CASE Challenge
    <2>1. UNCHANGED <<lifecycle, exec, scene, news, cause, lost, dwelt>>
          /\ \/ lifecycle = "DISARMED" /\ nonce' = "arm"
             \/ lifecycle \in {"FAULT", "ESTOP"} /\ nonce' = "reset"
      BY <1>4 DEF Challenge, events
    <2> QED  BY <2>1 DEF Story, CommandFits, NewsByPhase, ChallengeMatchesPhase,
                         DwellIsMeasured, CompletionIsMeasured
  <1>5. CASE OpenAndVerify \/ Arm \/ Reset
    <2>1. exec' = None
      BY <1>5 DEF OpenAndVerify, Arm, Reset, Publish, TypeInv, ExecOK
    <2>2. \/ lifecycle' = "FAULT" /\ news' = "FAULTED" /\ lost'
          \/ /\ lifecycle = "CLOSED" /\ lifecycle' = "DISARMED" /\ news' = "VERIFIED"
             /\ nonce' = nonce
          \/ lifecycle' = "ARMED_IDLE" /\ news' = "ARMED" /\ nonce' = "none"
          \/ /\ lifecycle' = "CLOSED" /\ nonce' = "none" /\ news' = news /\ dwelt' = dwelt
      BY <1>5 DEF OpenAndVerify, Arm, Reset, Publish, token
    <2>3. CASE lifecycle' # "CLOSED"
      <3>1. NewsByPhase' /\ ChallengeMatchesPhase' /\ news' # "COMPLETED"
        BY <2>2, <2>3 DEF NewsByPhase, ChallengeMatchesPhase, Story
      <3> QED  BY <2>1, <2>2, <2>3, <3>1, EndKeepsStory
    <2>4. CASE lifecycle' = "CLOSED"
      BY <2>1, <2>2, <2>4 DEF Story, CommandFits, NewsByPhase, ChallengeMatchesPhase,
                              DwellIsMeasured, CompletionIsMeasured
    <2> QED  BY <2>3, <2>4
  <1>6. CASE Stops
    <2>1. exec' = None /\ nonce' = nonce
      BY <1>6 DEF Stops, Disarm, Stop, Publish, token
    <2>2. \/ lifecycle' = "FAULT" /\ news' = "FAULTED" /\ lost'
          \/ /\ lifecycle \in {"ARMED_IDLE", "EXECUTING", "DISARMED"}
             /\ \/ lifecycle' = "DISARMED" /\ news' \in {"DISARMED", "STOPPED"}
                \/ lifecycle' = "ARMED_IDLE" /\ news' = "STOPPED"
      BY <1>6 DEF Stops, Disarm, Stop, Stoppable, Publish, StopKinds
    <2>3. NewsByPhase' /\ ChallengeMatchesPhase' /\ news' # "COMPLETED" /\ lifecycle' # "EXECUTING"
      BY <2>1, <2>2 DEF NewsByPhase, ChallengeMatchesPhase, Story
    <2> QED  BY <2>1, <2>3, EndKeepsStory
  <1> QED  BY <1>1, <1>2, <1>3, <1>4, <1>5, <1>6 DEF Arming, Interlocks

\* execute(), the producer's heartbeat and a new collision scene.
LEMMA RequestsKeepStory ==
    ASSUME TypeInv, PowerInv, Story,
           \/ \E start \in Starts, life \in Lives, lease \in Leases, stop \in StopKinds :
                Execute(start, life, lease, stop)
           \/ \E lease \in Leases : Heartbeat(lease)
           \/ \E revision \in Scenes : SetCollisionScene(revision)
    PROVE  Story'
  <1>1. ASSUME NEW start \in Starts, NEW life \in Lives, NEW lease \in Leases,
               NEW stop \in StopKinds, Execute(start, life, lease, stop)
        PROVE  Story'
    <2>1. /\ lifecycle = "ARMED_IDLE" /\ nonce' = nonce /\ scene' = scene /\ cause' = "NONE"
          /\ plan # None /\ plan.scene = scene
      BY <1>1 DEF Execute, PlanReady, PlanCurrent, token
    <2>2. \/ lifecycle' = "FAULT" /\ news' = "FAULTED" /\ lost' /\ exec' = None
          \/ /\ lifecycle' = "EXECUTING" /\ lost' = lost
             /\ news' = IF start = 0 THEN "STARTED" ELSE "QUEUED"
             /\ exec'.started = (start = 0) /\ exec'.start = start
             /\ exec'.end = start + plan.duration
             /\ exec'.dwell = -1 /\ exec'.scene = plan.scene
      <3>1. \/ lifecycle' = "FAULT" /\ news' = "FAULTED" /\ lost' /\ exec' = None
            \/ /\ lifecycle' = "EXECUTING" /\ lost' = lost
               /\ news' = IF start = 0 THEN "STARTED" ELSE "QUEUED"
               /\ exec' = [started |-> start = 0, start |-> start,
                           end |-> start + plan.duration, expiry |-> life,
                           producer |-> lease, stop |-> stop,
                           contact |-> plan.contact, streak |-> 0,
                           settling |-> FALSE, dwell |-> -1, gens |-> 0,
                           fed |-> {}, scene |-> plan.scene, moved |-> {}]
        BY <1>1, Zenon DEF Execute, Publish
      <3> QED  BY <3>1
    <2>3. CASE exec' = None
      <3>1. lifecycle' = "FAULT" /\ news' = "FAULTED" /\ lost'
        BY <1>1, <2>2, <2>3, ExecuteSteps, NoneAssumption DEF Steps, TypeInv, ExecOK
      <3> QED  BY <2>3, <3>1, FaultKeepsStory
    <2>4. CASE exec' # None
      <3>1. start \in Nat /\ plan.duration \in Nat
        BY <2>1, BoundsAreNumbers DEF TypeInv, PlanOK, Plans
      <3>2. CommandFits'
        BY <2>1, <2>2, <2>4, <3>1 DEF CommandFits
      <3>3. NewsByPhase' /\ ChallengeMatchesPhase'
        BY <2>1, <2>2, <2>4 DEF NewsByPhase, ChallengeMatchesPhase, Story
      <3>4. DwellIsMeasured'
        BY <2>2, <2>4 DEF DwellIsMeasured, CompletionIsMeasured
      <3> QED  BY <3>2, <3>3, <3>4 DEF Story
    <2> QED  BY <2>3, <2>4
  <1>2. ASSUME NEW lease \in Leases, Heartbeat(lease)
        PROVE  Story'
    <2>1. exec \in Commands /\ exec' = [exec EXCEPT !.producer = lease]
      BY <1>2 DEF Heartbeat, TypeInv, ExecOK
    <2>2. /\ exec'.scene = exec.scene /\ exec'.start = exec.start /\ exec'.end = exec.end
          /\ exec'.started = exec.started /\ exec'.dwell = exec.dwell
          /\ exec'.gens = exec.gens /\ exec'.fed = exec.fed
      BY <2>1 DEF Commands
    <2>3. UNCHANGED <<lifecycle, scene, nonce, news, cause, lost, dwelt>> /\ exec # None
      BY <1>2, <2>1, NoneAssumption DEF Heartbeat, events, token
    <2> QED  BY <2>2, <2>3 DEF Story, CommandFits, NewsByPhase, ChallengeMatchesPhase,
                              DwellIsMeasured, CompletionIsMeasured
  <1>3. ASSUME NEW revision \in Scenes, SetCollisionScene(revision)
        PROVE  Story'
    <2>1. exec = None /\ UNCHANGED <<lifecycle, exec, nonce, news, cause, lost, dwelt>>
      BY <1>3 DEF SetCollisionScene, TypeInv, ExecOK, events, token
    <2> QED  BY <2>1 DEF Story, CommandFits, NewsByPhase, ChallengeMatchesPhase,
                        DwellIsMeasured, CompletionIsMeasured
  <1> QED  BY <1>1, <1>2, <1>3

\* set_sim_state() and set_sim_fault(): a generation the running command notices is
\* one that history counts.
LEMMA SimulatorKeepsStory ==
    ASSUME TypeInv, Story, Simulator
    PROVE  Story'
  <1>1. UNCHANGED <<lifecycle, scene, nonce, news, cause, lost>>
    BY DEF Simulator, SetSimState, SetSimFault, events, token
  <1>2. CASE UNCHANGED <<exec, dwelt>>
    BY <1>1, <1>2, QuietKeepsStory DEF QuietStep
  <1>3. ASSUME NEW s \in Sides, NEW fault \in BOOLEAN, ForceState(s, fault),
               \/ exec' = Noticed(s)
               \/ exec = None /\ exec' = None
               \/ exec # None /\ \E moved : exec' = [Noticed(s) EXCEPT !.moved = moved]
        PROVE  Story'
    <2>1. dwelt' \in [Sides -> 0 .. SettleIntervals] /\ dwelt \in [Sides -> 0 .. SettleIntervals]
      BY <1>3, OneForceTypes DEF TypeInv, Scalars
    <2>2. SettleIntervals \in Nat
      BY ConstantsAssumption
    <2>3. /\ dwelt'[s] = IF dwelt[s] < SettleIntervals THEN dwelt[s] + 1 ELSE dwelt[s]
          /\ \A t \in Sides \ {s} : dwelt'[t] = dwelt[t]
      BY <1>3, <2>1 DEF ForceState
    <2>4. \A t \in Sides : dwelt'[t] >= dwelt[t]
      BY <2>1, <2>2, <2>3
    <2>5. CASE exec = None
      <3>1. exec' = None
        BY <1>3, <2>5 DEF Noticed
      <3> QED  BY <1>1, <2>1, <2>2, <2>4, <2>5, <3>1
               DEF Story, CommandFits, NewsByPhase, ChallengeMatchesPhase, DwellIsMeasured,
                   CompletionIsMeasured
    <2>6. CASE exec # None
      <3>1. exec \in Commands
        BY <2>6 DEF TypeInv, ExecOK
      <3>2. /\ Noticed(s) \in Commands
            /\ Noticed(s).scene = exec.scene /\ Noticed(s).start = exec.start
            /\ Noticed(s).end = exec.end /\ Noticed(s).started = exec.started
            /\ Noticed(s).dwell = exec.dwell /\ Noticed(s).gens = exec.gens
            /\ exec.dwell >= 0 => Noticed(s).fed = exec.fed \cup {s}
        BY <2>6, <3>1, NoticedType DEF Noticed, Commands
      <3> DEFINE n == Noticed(s)
      <3> HIDE DEF n
      <3>3. /\ exec'.scene = n.scene /\ exec'.start = n.start /\ exec'.end = n.end
            /\ exec'.started = n.started /\ exec'.dwell = n.dwell /\ exec'.gens = n.gens
            /\ exec'.fed = n.fed
        <4>1. exec' = n \/ \E moved : exec' = [n EXCEPT !.moved = moved]
          BY <1>3, <2>6 DEF n
        <4>2. n \in Commands
          BY <3>2 DEF n
        <4> QED  BY <4>1, <4>2 DEF Commands
      <3>4. CommandFits' /\ NewsByPhase' /\ ChallengeMatchesPhase'
        BY <1>1, <2>6, <3>2, <3>3
        DEF n, Story, CommandFits, NewsByPhase, ChallengeMatchesPhase
      <3>5. ASSUME exec'.dwell >= 0, NEW t \in Sides
            PROVE  \/ dwelt'[t] >= SettleIntervals
                   \/ dwelt'[t] >= exec'.gens + (IF t \in exec'.fed THEN 1 ELSE 0)
        <4>1. /\ exec.gens \in Nat /\ exec'.gens = exec.gens
              /\ exec.dwell >= 0 /\ exec'.fed = exec.fed \cup {s}
          BY <3>1, <3>2, <3>3, <3>5, <2>2 DEF n, Commands
        <4>2. \/ dwelt[t] >= SettleIntervals
              \/ dwelt[t] >= exec.gens + (IF t \in exec.fed THEN 1 ELSE 0)
          BY <2>6, <4>1 DEF Story, DwellIsMeasured
        <4>3. dwelt[t] \in Nat /\ dwelt'[t] \in Nat /\ dwelt'[t] >= dwelt[t]
          BY <2>1, <2>2, <2>4
        <4>4. CASE t = s
          BY <2>2, <2>3, <4>1, <4>2, <4>3, <4>4
        <4>5. CASE t # s
          BY <2>2, <4>1, <4>2, <4>3, <4>5
        <4> QED  BY <4>4, <4>5
      <3>6. CompletionIsMeasured'
        <4>1. \A t \in Sides : dwelt'[t] \in Int /\ dwelt[t] \in Int
          BY <2>1, <2>2
        <4> QED  BY <1>1, <2>2, <2>4, <4>1 DEF Story, DwellIsMeasured, CompletionIsMeasured
      <3> QED  BY <3>4, <3>5, <3>6 DEF Story, DwellIsMeasured
    <2> QED  BY <2>5, <2>6
  <1>4. PICK s \in Sides : SetSimState(s) \/ \E i \in Injections : SetSimFault(s, i)
    BY DEF Simulator
  <1>5. broken[s] \in BOOLEAN
    BY DEF TypeInv, FaultsOK
  <1>6. CASE SetSimState(s)
    BY <1>3, <1>5, <1>6, NoneAssumption DEF SetSimState
  <1>7. ASSUME NEW i \in Injections, SetSimFault(s, i)
        PROVE  Story'
    BY <1>2, <1>3, <1>7 DEF SetSimFault
  <1> QED  BY <1>4, <1>6, <1>7

\* advance() that rests, trips, faults, or is ended by a monitor.
LEMMA AdvanceEndsKeepStory ==
    ASSUME TypeInv, Story, NEW d \in Nat,
           \/ AdvanceTrips(d) \/ AdvanceTripped(d) \/ AdvanceRests(d) \/ AdvanceIncoherent(d)
           \/ AdvanceWatchdog(d) \/ AdvanceMoved(d) \/ AdvanceBusy(d) \/ AdvanceStepFault(d)
           \/ AdvanceContact(d) \/ AdvanceKeepout(d)
    PROVE  Story'
  <1>1. CASE AdvanceTrips(d)
    BY <1>1, TripKeepsStory DEF AdvanceTrips
  <1>2. CASE AdvanceRests(d)
    <2>1. QuietStep
      BY <1>2 DEF QuietStep, AdvanceRests, events
    <2> QED  BY <2>1, QuietKeepsStory
  <1>3. CASE AdvanceTripped(d)
    <2>1. exec' = Later(d) /\ UNCHANGED <<lifecycle, scene, nonce, news, cause, lost, dwelt>>
      BY <1>3 DEF AdvanceTripped, events
    <2>2. CASE exec = None
      <3>1. QuietStep
        BY <2>1, <2>2 DEF QuietStep, Later
      <3> QED  BY <3>1, QuietKeepsStory
    <2>3. CASE exec # None
      <3>1. exec \in Commands
        BY <2>3 DEF TypeInv, ExecOK
      <3> QED
        BY <2>1, <2>3, <3>1, LaterFields
        DEF Story, CommandFits, NewsByPhase, ChallengeMatchesPhase, DwellIsMeasured,
            CompletionIsMeasured
    <2> QED  BY <2>2, <2>3
  <1>4. CASE \/ AdvanceIncoherent(d) \/ AdvanceWatchdog(d) \/ AdvanceMoved(d)
             \/ AdvanceStepFault(d)
    BY <1>4, LatchKeepsStory
    DEF AdvanceIncoherent, AdvanceWatchdog, AdvanceMoved, AdvanceStepFault
  <1>5. CASE AdvanceBusy(d)
    BY <1>5, FaultKeepsStory DEF AdvanceBusy, Publish
  <1>6. CASE AdvanceContact(d) \/ AdvanceKeepout(d)
    <2>1. lifecycle = "EXECUTING" /\ \E why : AdvanceStops(d, why)
      BY <1>6 DEF AdvanceContact, AdvanceKeepout, Monitored, TypeInv, ExecOK
    <2>2. /\ exec' = None /\ nonce' = nonce
          /\ \/ lifecycle' = "FAULT" /\ news' = "FAULTED" /\ lost'
             \/ lifecycle' = "ARMED_IDLE" /\ news' = "STOPPED"
      BY <2>1 DEF AdvanceStops, Publish
    <2>3. NewsByPhase' /\ ChallengeMatchesPhase'
      BY <2>1, <2>2 DEF NewsByPhase, ChallengeMatchesPhase, Story
    <2> QED  BY <2>2, <2>3, EndKeepsStory
  <1> QED  BY <1>1, <1>2, <1>3, <1>4, <1>5, <1>6

\* advance() on the way.
LEMMA MovesKeepStory ==
    ASSUME TypeInv, Story, NEW d \in Nat, AdvanceMoves(d)
    PROVE  Story'
  <1>1. UNCHANGED <<lifecycle, scene, nonce, cause, lost, dwelt>>
        /\ news' = IF Begins(d) THEN "STARTED" ELSE news
    BY DEF AdvanceMoves, Advanced
  <1>2. PICK streak, moved : exec' = Moving(d, streak, moved)
    BY DEF AdvanceMoves
  <1>3. CASE exec = None
    <2>1. QuietStep
      BY <1>1, <1>2, <1>3 DEF QuietStep, Moving, Begins
    <2> QED  BY <2>1, QuietKeepsStory
  <1>4. CASE exec # None
    <2>1. exec \in Commands /\ lifecycle = "EXECUTING"
      BY <1>4 DEF TypeInv, ExecOK
    <2>2. /\ exec'.scene = exec.scene /\ exec'.started = (exec.started \/ Begins(d))
          /\ exec'.dwell = exec.dwell /\ exec'.gens = exec.gens /\ exec'.fed = exec.fed
          /\ exec.start <= exec.end => exec'.start <= exec'.end
      BY <1>2, <2>1, MovingFields
    <2>3. CommandFits' /\ ChallengeMatchesPhase'
      BY <1>1, <1>4, <2>2 DEF Story, CommandFits, ChallengeMatchesPhase
    <2>4. NewsByPhase'
      BY <1>1, <1>4, <2>1, <2>2 DEF Story, NewsByPhase, Begins
    <2>5. DwellIsMeasured'
      BY <1>1, <1>4, <2>1, <2>2 DEF Story, NewsByPhase, DwellIsMeasured, CompletionIsMeasured
    <2> QED  BY <2>3, <2>4, <2>5 DEF Story
  <1> QED  BY <1>3, <1>4

\* What counts an interval at the goal is what every arm has fed back.
LEMMA IntervalIsMeasured ==
    ASSUME TypeInv, Story, exec \in Commands, exec.dwell >= 0, NEW d \in Nat, NEW s \in Sides
    PROVE  /\ Counted(d)[s] \in Nat
           /\ \/ Counted(d)[s] >= SettleIntervals
              \/ Counted(d)[s] >= Gens(d) + (IF ~Interval(d) /\ s \in Fed(d) THEN 1 ELSE 0)
  <1>1. SettleIntervals \in Nat /\ exec.gens \in Nat /\ dwelt[s] \in Nat /\ exec # None
    BY ConstantsAssumption, NoneAssumption DEF Commands, TypeInv, Scalars
  <1>2. \/ dwelt[s] >= SettleIntervals
        \/ dwelt[s] >= exec.gens + (IF s \in exec.fed THEN 1 ELSE 0)
    BY <1>1 DEF Story, DwellIsMeasured
  <1>3. Counted(d)[s] = IF Delivers(s, d) /\ dwelt[s] < SettleIntervals
                        THEN dwelt[s] + 1 ELSE dwelt[s]
    BY DEF Counted
  <1>4. s \in Fed(d) <=> s \in exec.fed \/ Delivers(s, d)
    BY DEF Fed
  <1>5. Interval(d) => s \in Fed(d)
    BY DEF Interval
  <1>6. Gens(d) = IF Interval(d) /\ exec.gens < SettleIntervals THEN exec.gens + 1 ELSE exec.gens
    BY DEF Gens
  <1> QED  BY <1>1, <1>2, <1>3, <1>4, <1>5, <1>6

\* advance() at the goal, or off it.
LEMMA DwellsKeepStory ==
    ASSUME TypeInv, Story, NEW d \in Nat, AdvanceDwells(d) \/ AdvanceOffGoal(d)
    PROVE  Story'
  <1>1. exec \in Commands /\ exec # None /\ lifecycle = "EXECUTING" /\ exec.end <= d
    <2>1. exec # None /\ exec.end <= d
      BY Zenon DEF AdvanceDwells, AdvanceOffGoal, Arrived
    <2> QED  BY <2>1 DEF TypeInv, ExecOK
  <1>2. UNCHANGED <<nonce, cause, scene>>
    <2>1. UNCHANGED <<nonce, cause>> /\ Advanced
      BY Zenon DEF AdvanceDwells, AdvanceOffGoal
    <2> QED  BY <2>1 DEF Advanced
  <1> DEFINE gens == IF exec.dwell < 0 THEN 0 ELSE Gens(d)
             fed == IF exec.dwell < 0 \/ Interval(d) THEN {} ELSE Fed(d)
             Next0(streak) == [Moving(d, streak, {}) EXCEPT
                !.settling = TRUE, !.dwell = IF @ < 0 THEN 0 ELSE Dwell(d),
                !.gens = gens, !.fed = fed]
             Next1(streak) == [Moving(d, streak, {}) EXCEPT
                !.settling = TRUE, !.dwell = -1, !.gens = 0, !.fed = {}]
  <1>3. PICK streak \in Streaks(d) :
          \/ /\ Settling(d, Next0(streak))
             /\ dwelt' = IF exec.dwell < 0 THEN [s \in Sides |-> 0] ELSE Counted(d)
          \/ Settling(d, Next1(streak))
    BY Zenon DEF AdvanceDwells, AdvanceOffGoal
  <1> DEFINE m == Moving(d, streak, {})
  <1>4. /\ m \in Commands
        /\ m.scene = exec.scene /\ m.started = (exec.started \/ Begins(d))
        /\ exec.start <= exec.end => m.start <= m.end
    BY <1>1, MovingType, MovingFields
  <1>5. PICK next :
          /\ Settling(d, next)
          /\ next.scene = m.scene /\ next.started = m.started
          /\ next.start = m.start /\ next.end = m.end
          /\ \/ next.dwell = -1
             \/ /\ next.gens = gens /\ next.fed = fed
                /\ dwelt' = IF exec.dwell < 0 THEN [s \in Sides |-> 0] ELSE Counted(d)
    <2> HIDE DEF m, gens, fed
    <2>1. CASE Settling(d, Next0(streak))
               /\ dwelt' = IF exec.dwell < 0 THEN [s \in Sides |-> 0] ELSE Counted(d)
      <3> DEFINE n == [m EXCEPT !.settling = TRUE, !.dwell = IF @ < 0 THEN 0 ELSE Dwell(d),
                                !.gens = gens, !.fed = fed]
      <3>1. n.scene = m.scene /\ n.started = m.started /\ n.start = m.start /\ n.end = m.end
            /\ n.gens = gens /\ n.fed = fed
        BY <1>4 DEF Commands
      <3>2. n = Next0(streak)
        BY DEF m
      <3> HIDE DEF n
      <3> QED  BY <2>1, <3>1, <3>2
    <2>2. CASE Settling(d, Next1(streak))
      <3> DEFINE n == [m EXCEPT !.settling = TRUE, !.dwell = -1, !.gens = 0, !.fed = {}]
      <3>1. n.scene = m.scene /\ n.started = m.started /\ n.start = m.start /\ n.end = m.end
            /\ n.dwell = -1
        BY <1>4 DEF Commands
      <3>2. n = Next1(streak)
        BY DEF m
      <3> HIDE DEF n
      <3> QED  BY <2>2, <3>1, <3>2
    <2> QED  BY <1>3, <2>1, <2>2
  <1> HIDE DEF m, gens, fed
  <1>6. CASE exec' = None /\ lifecycle' = "FAULT" /\ news' = "FAULTED" /\ lost'
    BY <1>6, FaultKeepsStory
  <1>7. CASE /\ exec' = next /\ lifecycle' = "EXECUTING" /\ lost' = lost
             /\ \/ news' = "SETTLING"
                \/ exec.settling /\ news' = IF Begins(d) THEN "STARTED" ELSE news
    <2>1. CommandFits'
      BY <1>1, <1>2, <1>4, <1>5, <1>7 DEF Story, CommandFits
    <2>2. NewsByPhase' /\ ChallengeMatchesPhase'
      <3>1. exec.start <= exec.end /\ exec.start \in Nat /\ exec.end \in Nat
            /\ exec.started \in BOOLEAN
        BY <1>1 DEF Story, CommandFits, Commands
      <3>2. exec.started \/ Begins(d)
        BY <1>1, <3>1 DEF Begins
      <3>3. exec'.started /\ cause' = "NONE"
        BY <1>1, <1>2, <1>4, <1>5, <1>7, <3>2 DEF Story, NewsByPhase
      <3>4. news' \in {"STARTED", "SETTLING"}
        BY <1>1, <1>7, <3>2 DEF Story, NewsByPhase
      <3> QED  BY <1>1, <1>2, <1>7, <3>3, <3>4 DEF Story, NewsByPhase, ChallengeMatchesPhase
    <2>3. DwellIsMeasured'
      <3>1. news' # "COMPLETED"
        BY <1>1, <1>7 DEF Story, NewsByPhase
      <3>2. ASSUME exec'.dwell >= 0, NEW s \in Sides
            PROVE  \/ dwelt'[s] >= SettleIntervals
                   \/ dwelt'[s] >= exec'.gens + (IF s \in exec'.fed THEN 1 ELSE 0)
        <4>1. /\ exec'.gens = gens /\ exec'.fed = fed
              /\ dwelt' = IF exec.dwell < 0 THEN [t \in Sides |-> 0] ELSE Counted(d)
          BY <1>5, <1>7, <3>2
        <4>2. CASE exec.dwell < 0
          BY <4>1, <4>2 DEF gens, fed
        <4>3. CASE ~(exec.dwell < 0)
          <5>1. exec.dwell \in Int
            BY <1>1, ConstantsAssumption DEF Commands
          <5>2. exec.dwell >= 0
            BY <4>3, <5>1
          <5> QED  BY <1>1, <4>1, <4>3, <5>2, IntervalIsMeasured DEF gens, fed
        <4> QED  BY <4>2, <4>3
      <3> QED  BY <3>1, <3>2 DEF DwellIsMeasured, CompletionIsMeasured
    <2> QED  BY <2>1, <2>2, <2>3 DEF Story
  <1> QED  BY <1>1, <1>5, <1>6, <1>7 DEF Settling, Publish

\* advance() that completes a command.
LEMMA CompletesKeepStory ==
    ASSUME TypeInv, Story, NEW d \in Nat, AdvanceCompletes(d)
    PROVE  Story'
  <1>1. /\ exec \in Commands /\ lifecycle = "EXECUTING" /\ exec' = None /\ nonce' = nonce
        /\ cause' = "PLAN_COMPLETE" /\ dwelt' = Counted(d) /\ Settles(d)
        /\ \/ lifecycle' = "FAULT" /\ news' = "FAULTED" /\ lost'
           \/ lifecycle' = "ARMED_IDLE" /\ news' = "COMPLETED"
    BY DEF AdvanceCompletes, Arrived, Publish, TypeInv, ExecOK
  <1>2. \A s \in Sides : dwelt'[s] >= SettleIntervals
    <2>1. exec.dwell >= 0 /\ Gens(d) >= SettleIntervals
      BY <1>1 DEF Settles
    <2>2. SettleIntervals \in Nat /\ Gens(d) \in Nat
      <3>1. Gens(d) \in 0 .. SettleIntervals
        BY <1>1, SettleTypes, Zenon
      <3> QED  BY <3>1, ConstantsAssumption
    <2>3. ASSUME NEW s \in Sides PROVE Counted(d)[s] >= SettleIntervals
      <3>1. /\ Counted(d)[s] \in Nat
            /\ \/ Counted(d)[s] >= SettleIntervals
               \/ Counted(d)[s] >= Gens(d) + (IF ~Interval(d) /\ s \in Fed(d) THEN 1 ELSE 0)
        BY <1>1, <2>1, IntervalIsMeasured
      <3> QED  BY <2>1, <2>2, <3>1
    <2> QED  BY <1>1, <2>3
  <1>3. NewsByPhase' /\ ChallengeMatchesPhase'
    BY <1>1 DEF NewsByPhase, ChallengeMatchesPhase, Story
  <1> QED  BY <1>1, <1>2, <1>3 DEF Story, CommandFits, DwellIsMeasured, CompletionIsMeasured

\* The story holds in every state.
LEMMA StoryStep ==
    ASSUME TypeInv, PowerInv, Story, [Next]_vars
    PROVE  Story'
  <1>1. ASSUME NEW d \in 0..MaxGap, Advance(d) PROVE Story'
    <2>1. d \in Nat  BY ConstantsAssumption
    <2> QED
      BY <1>1, <2>1, AdvanceEndsKeepStory, MovesKeepStory, DwellsKeepStory, CompletesKeepStory
      DEF Advance
  <1>2. CASE Arming \/ Stops \/ Interlocks \/ Latch
    BY <1>2, CallsKeepStory
  <1>3. CASE Requests
    BY <1>3, CallsKeepStory, RequestsKeepStory DEF Requests
  <1>4. CASE Simulator
    BY <1>4, SimulatorKeepsStory
  <1>5. ASSUME NEW revision \in Scenes, SetCollisionScene(revision) PROVE Story'
    BY <1>5, RequestsKeepStory
  <1>6. CASE UNCHANGED vars
    <2>1. QuietStep
      BY <1>6 DEF vars, QuietStep, token, events
    <2> QED  BY <2>1, QuietKeepsStory
  <1> QED  BY <1>1, <1>2, <1>3, <1>4, <1>5, <1>6 DEF Next

\* A command's own fields agree with one another, with the news and with the
\* challenge, whatever execute(), advance() and the calls do in between.
THEOREM StoryInvariance == Spec => []Story
  <1>1. Init => Story
    BY DEF Init, Story, CommandFits, NewsByPhase, ChallengeMatchesPhase, DwellIsMeasured,
           CompletionIsMeasured
  <1>2. TypeInv /\ PowerInv /\ Story /\ [Next]_vars => Story'
    BY StoryStep
  <1> QED  BY <1>1, <1>2, Invariance, PTL DEF Spec

\* A command never runs in another collision scene than the one it was planned
\* for, however long it is queued (execute(), set_collision_scene_revision()).
THEOREM PlansStayBound == Spec => []PlanStaysBound
  <1>1. Story => PlanStaysBound  BY DEF Story, CommandFits, PlanStaysBound
  <1> QED  BY <1>1, StoryInvariance, PTL

\* A challenge matches the phase it was taken in, whatever happens between
\* challenge() and its use (challenge(), latch_fault(), set_interlock()).
THEOREM ChallengesMatch == Spec => []ChallengeMatchesPhase
  <1>1. Story => ChallengeMatchesPhase  BY DEF Story
  <1> QED  BY <1>1, StoryInvariance, PTL

\* The newest event tells the lifecycle on every path (publish()).
THEOREM NewsTellsLifecycle == Spec => []NewsIsCurrent
  <1>1. Story => NewsIsCurrent  BY DEF Story, NewsByPhase, NewsIsCurrent
  <1> QED  BY <1>1, StoryInvariance, PTL

\* COMPLETED is published on measured feedback of every arm, for every number of
\* settle intervals and every injection of faults (advance(), settle dwell).
THEOREM CompletionsAreMeasured == Spec => []CompletionIsMeasured
  <1>1. Story => CompletionIsMeasured  BY DEF Story, DwellIsMeasured
  <1> QED  BY <1>1, StoryInvariance, PTL

-----------------------------------------------------------------------------
(* The feedback history: what each operation does to the queues and to the *)
(* published status, and why no delayed frame speaks of a drive that was   *)
(* switched off since.                                                     *)

HistoryStep(d) ==
    \/ Wait(d) /\ lifecycle' = lifecycle
    \/ \E hold \in BOOLEAN :
         /\ MaterializeStop(hold, d)
         /\ lifecycle' = "DISARMED" =>
              ~hold /\ lifecycle \in {"ARMED_IDLE", "EXECUTING", "DISARMED"}
    \/ \E on \in BOOLEAN : ForceBoth(on) /\ (lifecycle' = "DISARMED" => ~on)
    \/ /\ StepArms(d) /\ StepCoherent(d)
       /\ lifecycle' = "DISARMED" => lifecycle = "DISARMED"
    \/ \E s \in Sides, fault \in BOOLEAN :
         /\ ForceState(s, fault) /\ lifecycle' = lifecycle
         /\ fault \/ ~broken[s]
    \/ /\ UNCHANGED <<enabled, queue, status>>
       /\ lifecycle' = "DISARMED" => lifecycle = "DISARMED"
    \/ /\ queue' = [s \in Sides |-> <<>>] /\ lifecycle' # "DISARMED"

\* latch_fault() and set_interlock().
LEMMA LatchHistory ==
    ASSUME NEW watchdog, NEW n, NEW d, LatchFault(watchdog, n, d)
    PROVE  HistoryStep(d)
  <1>1. /\ lifecycle' = "FAULT"
        /\ MaterializeStop(Holds(watchdog, d), d) \/ MaterializeStop(FALSE, d)
    BY DEF LatchFault, Publish
  <1>2. Holds(watchdog, d) \in BOOLEAN
    BY DEF Holds
  <1> HIDE DEF Holds
  <1> QED  BY <1>1, <1>2 DEF HistoryStep

LEMMA TripHistory ==
    ASSUME NEW d, Trip(d)
    PROVE  HistoryStep(d)
  <1>1. lifecycle' # "DISARMED"
        /\ (queue' = [s \in Sides |-> <<>>] \/ MaterializeStop(FALSE, d))
    BY DEF Trip, Publish
  <1> QED  BY <1>1 DEF HistoryStep

\* Every operation has one of these effects.
LEMMA EveryHistoryStep ==
    ASSUME TypeInv, Next
    PROVE  \E d \in Nat : HistoryStep(d)
  <1>1. ASSUME NEW d \in 0..MaxGap, Advance(d) PROVE HistoryStep(d)
    <2>1. CASE AdvanceTrips(d)
      BY <2>1, TripHistory DEF AdvanceTrips
    <2>2. CASE AdvanceTripped(d) \/ AdvanceRests(d)
      BY <2>2 DEF AdvanceTripped, AdvanceRests, HistoryStep
    <2>3. CASE \/ AdvanceIncoherent(d) \/ AdvanceWatchdog(d) \/ AdvanceMoved(d)
               \/ AdvanceStepFault(d)
      BY <2>3, LatchHistory
      DEF AdvanceIncoherent, AdvanceWatchdog, AdvanceMoved, AdvanceStepFault
    <2>4. CASE AdvanceBusy(d) \/ AdvanceContact(d) \/ AdvanceKeepout(d)
      <3>1. lifecycle' # "DISARMED" /\ \E hold \in BOOLEAN : MaterializeStop(hold, d)
        BY <2>4 DEF AdvanceBusy, AdvanceContact, AdvanceKeepout, AdvanceStops, Publish
      <3> QED  BY <3>1 DEF HistoryStep
    <2>5. CASE AdvanceMoves(d) \/ AdvanceCompletes(d)
      <3>1. \/ MaterializeStop(FALSE, d) /\ lifecycle' # "DISARMED"
            \/ /\ StepArms(d) /\ StepCoherent(d)
               /\ lifecycle' = "DISARMED" => lifecycle = "DISARMED"
        BY <2>5 DEF AdvanceMoves, AdvanceCompletes, Stepped, Publish
      <3> QED  BY <3>1 DEF HistoryStep
    <2>6. CASE AdvanceDwells(d) \/ AdvanceOffGoal(d)
      <3>1. StepCoherent(d) /\ \E next : Settling(d, next)
        BY <2>6, Zenon DEF AdvanceDwells, AdvanceOffGoal, Stepped
      <3>2. \/ MaterializeStop(FALSE, d) /\ lifecycle' # "DISARMED"
            \/ StepArms(d) /\ (lifecycle' = "DISARMED" => lifecycle = "DISARMED")
        BY <3>1 DEF Settling, Publish
      <3> QED  BY <3>1, <3>2 DEF HistoryStep
    <2> QED  BY <1>1, <2>1, <2>2, <2>3, <2>4, <2>5, <2>6 DEF Advance
  <1>2. CASE Arming
    <2>1. CASE ChallengeFindsFault \/ ArmRefused
      <3>1. HistoryStep(0)
        BY <2>1, LatchHistory DEF ChallengeFindsFault, FoundFault, ArmRefused
      <3> QED  BY <3>1
    <2>2. CASE OpenAndVerify \/ Arm
      <3>1. \E on \in BOOLEAN : ForceBoth(on) /\ (lifecycle' = "DISARMED" => ~on)
        BY <2>2 DEF OpenAndVerify, Arm, Publish
      <3>2. HistoryStep(0)
        BY <3>1 DEF HistoryStep
      <3> QED  BY <3>2
    <2>3. CASE Challenge \/ Reset
      <3>1. HistoryStep(0)
        BY <2>3 DEF Challenge, Reset, HistoryStep, arms
      <3> QED  BY <3>1
    <2> QED  BY <1>2, <2>1, <2>2, <2>3 DEF Arming
  <1>3. CASE Requests
    <2>1. CASE RequestFindsFault \/ \E lease \in Leases : HeartbeatTooLate(lease)
      <3>1. HistoryStep(0)
        BY <2>1, LatchHistory DEF RequestFindsFault, FoundFault, HeartbeatTooLate
      <3> QED  BY <3>1
    <2>2. CASE \E start \in Starts, life \in Lives, lease \in Leases, stop \in StopKinds :
                  Execute(start, life, lease, stop)
      <3>1. /\ lifecycle' # "DISARMED"
            /\ MaterializeStop(FALSE, 0) \/ UNCHANGED <<enabled, queue, status>>
        BY <2>2, Zenon DEF Execute, Publish, arms
      <3>2. HistoryStep(0)
        BY <3>1 DEF HistoryStep
      <3> QED  BY <3>2
    <2>3. CASE \/ PlanJoint \/ PollEvent \/ \E contact \in BOOLEAN : PlanTcp(contact)
               \/ \E lease \in Leases : Heartbeat(lease)
      <3>1. UNCHANGED <<enabled, queue, status, lifecycle>>
        BY <2>3 DEF PlanJoint, PollEvent, PlanTcp, Heartbeat, arms
      <3>2. HistoryStep(0)
        BY <3>1 DEF HistoryStep
      <3> QED  BY <3>2
    <2> QED  BY <1>3, <2>1, <2>2, <2>3 DEF Requests
  <1>4. CASE Stops
    <2>1. \E hold \in BOOLEAN :
            /\ MaterializeStop(hold, 0)
            /\ lifecycle' = "DISARMED" =>
                 ~hold /\ lifecycle \in {"ARMED_IDLE", "EXECUTING", "DISARMED"}
      BY <1>4 DEF Stops, Disarm, Stop, Stoppable, Publish, StopKinds
    <2>2. HistoryStep(0)
      BY <2>1 DEF HistoryStep
    <2> QED  BY <2>2
  <1>5. CASE Interlocks
    <2>1. HistoryStep(0)
      BY <1>5, TripHistory DEF Interlocks, SetInterlock, ReleaseInterlock, HistoryStep, arms
    <2> QED  BY <2>1
  <1>6. CASE Latch \/ \E revision \in Scenes : SetCollisionScene(revision)
    <2>1. UNCHANGED <<enabled, queue, status, lifecycle>>
      BY <1>6 DEF Latch, EstopAssert, EstopClear, PlanTcpEstop, SetCollisionScene, arms
    <2>2. HistoryStep(0)
      BY <2>1 DEF HistoryStep
    <2> QED  BY <2>2
  <1>7. CASE Simulator
    <2>1. PICK s \in Sides : SetSimState(s) \/ \E i \in Injections : SetSimFault(s, i)
      BY <1>7 DEF Simulator
    <2>2. broken[s] \in BOOLEAN
      BY DEF TypeInv, FaultsOK
    <2>3. HistoryStep(0)
      BY <2>1, <2>2 DEF SetSimState, SetSimFault, HistoryStep, arms
    <2> QED  BY <2>3
  <1>8. ASSUME NEW d \in 0..MaxGap, Advance(d) PROVE d \in Nat
    BY ConstantsAssumption
  <1> QED  BY <1>1, <1>2, <1>3, <1>4, <1>5, <1>6, <1>7, <1>8 DEF Next

\* A generation that ages tells of the drives what it told.
LEMMA AgedStatus ==
    ASSUME TypeInv, NEW s \in Sides, NEW d
    PROVE  /\ DOMAIN AgedQueue(s, d) = DOMAIN queue[s]
           /\ \A i \in DOMAIN queue[s] :
                AgedQueue(s, d)[i].status = queue[s][i].status
  <1> DEFINE aged(j) == [queue[s][j] EXCEPT !.age = Older(@, d),
                                            !.wait = IF @ >= d THEN @ - d ELSE 0]
  <1>1. AgedQueue(s, d) = [j \in DOMAIN queue[s] |-> aged(j)]
    BY DEF AgedQueue
  <1>2. \A i \in DOMAIN queue[s] : queue[s][i] \in Generations
    BY DEF TypeInv, ArmsOK
  <1>3. ASSUME NEW r \in Generations, NEW a, NEW w
        PROVE  [r EXCEPT !.age = a, !.wait = w].status = r.status
    BY DEF Generations
  <1>4. ASSUME NEW i \in DOMAIN queue[s] PROVE aged(i).status = queue[s][i].status
    BY <1>2, <1>3
  <1> HIDE DEF aged
  <1> QED  BY <1>1, <1>4

\* The generation captured of drives that are off does not say they are on.
LEMMA EnqueuedStatus ==
    ASSUME TypeInv, RetiredHistory, NEW s \in Sides, ~enabled[s], NEW d \in Nat
    PROVE  \A i \in 1 .. Len(queue[s]) + 1 : Enqueued(s, d)[i].status # "enabled"
  <1> DEFINE n == Len(queue[s])
             g == [age |-> 0, wait |-> inj[s].delay, whole |-> ~inj[s].drop,
                   status |-> Emitted(s, enabled[s])]
  <1>1. queue[s] \in Seq(Generations) /\ n \in Nat /\ DOMAIN queue[s] = 1 .. n
    BY DEF TypeInv, ArmsOK
  <1>2. g.status # "enabled"
    BY DEF Emitted
  <1>3. AgedQueue(s, d) \in Seq(Generations) /\ Len(AgedQueue(s, d)) = n
    BY AgedQueueType DEF TypeInv
  <1>4. \A i \in 1 .. n : AgedQueue(s, d)[i].status # "enabled"
    BY <1>1, AgedStatus DEF RetiredHistory
  <1> HIDE DEF g
  <1>5. Enqueued(s, d) = Append(AgedQueue(s, d), g)
    BY DEF Enqueued, g
  <1> QED  BY <1>1, <1>2, <1>3, <1>4, <1>5

\* A delivery publishes, and keeps, generations of the queue it was made from.
LEMMA DeliveryStatus ==
    ASSUME TypeInv, RetiredHistory, NEW s \in Sides, ~enabled[s], NEW d \in Nat
    PROVE  /\ \A i \in DOMAIN NextQueue(s, d) :
                NextQueue(s, d)[i].status # "enabled"
           /\ status[s] # "enabled" => NextStatus(s, d) # "enabled"
  <1> DEFINE q == Enqueued(s, d)
  <1>1. /\ q \in Seq(Generations) /\ Len(q) \in Nat
        /\ Len(q) = Len(queue[s]) + 1
    BY EnqueuedType DEF TypeInv
  <1>2. DueLen(q) \in 0 .. Len(q) /\ PublishedLen(q) \in 0 .. Len(q)
    BY <1>1, DueLenType
  <1>3. \A i \in 1 .. Len(q) : q[i].status # "enabled"
    BY <1>1, EnqueuedStatus
  <1>4. NextQueue(s, d) = SubSeq(q, DueLen(q) + 1, Len(q))
    BY <1>1 DEF NextQueue
  <1>5. status[s] # "enabled" => NextStatus(s, d) # "enabled"
    BY <1>2, <1>3 DEF NextStatus, Delivers
  <1> HIDE DEF q
  <1>6. ASSUME NEW m \in 0 .. Len(q)
        PROVE  \A i \in DOMAIN SubSeq(q, m + 1, Len(q)) :
                 SubSeq(q, m + 1, Len(q))[i].status # "enabled"
    <2> DEFINE rest == SubSeq(q, m + 1, Len(q))
    <2>1. rest \in Seq(Generations) /\ Len(rest) = Len(q) - m
      BY <1>1
    <2>2. ASSUME NEW i \in 1 .. Len(q) - m
          PROVE  rest[i] = q[m + i] /\ m + i \in 1 .. Len(q)
      BY <1>1
    <2> HIDE DEF rest
    <2>3. DOMAIN rest = 1 .. Len(q) - m
      BY <2>1
    <2>4. \A i \in DOMAIN rest : rest[i].status # "enabled"
      BY <1>3, <2>2, <2>3
    <2> QED  BY <2>4 DEF rest
  <1> QED  BY <1>2, <1>4, <1>5, <1>6

\* Each effect keeps the history retired.
LEMMA HistoryStaysRetired ==
    ASSUME TypeInv, PowerInv, RetiredHistory, NEW d \in Nat, HistoryStep(d)
    PROVE  RetiredHistory'
  <1> SUFFICES
        /\ \A s \in Sides : ~enabled'[s] =>
              \A i \in DOMAIN queue'[s] : queue'[s][i].status # "enabled"
        /\ lifecycle' = "DISARMED" => \A s \in Sides : status'[s] # "enabled"
    BY DEF RetiredHistory
  <1>1. lifecycle = "DISARMED" =>
          \A s \in Sides : ~enabled[s] /\ status[s] # "enabled"
    BY DEF RetiredHistory, PowerInv
  <1>2. CASE Wait(d) /\ lifecycle' = lifecycle
    BY <1>1, <1>2, AgedStatus DEF Wait, RetiredHistory
  <1>3. ASSUME NEW hold \in BOOLEAN, MaterializeStop(hold, d),
               lifecycle' = "DISARMED" =>
                 ~hold /\ lifecycle \in {"ARMED_IDLE", "EXECUTING", "DISARMED"}
        PROVE  /\ \A s \in Sides : ~enabled'[s] =>
                    \A i \in DOMAIN queue'[s] : queue'[s][i].status # "enabled"
               /\ lifecycle' = "DISARMED" => \A s \in Sides : status'[s] # "enabled"
    <2>1. \A s \in Sides : queue'[s] = <<>>
      BY <1>3 DEF MaterializeStop
    <2>2. ASSUME lifecycle' = "DISARMED", NEW s \in Sides
          PROVE  status'[s] # "enabled"
      BY <1>3, <2>2 DEF MaterializeStop, Emitted, PowerInv
    <2> QED  BY <2>1, <2>2
  <1>4. ASSUME NEW on \in BOOLEAN, ForceBoth(on), lifecycle' = "DISARMED" => ~on
        PROVE  /\ \A s \in Sides : ~enabled'[s] =>
                    \A i \in DOMAIN queue'[s] : queue'[s][i].status # "enabled"
               /\ lifecycle' = "DISARMED" => \A s \in Sides : status'[s] # "enabled"
    BY <1>4 DEF ForceBoth, Emitted
  <1>5. CASE StepArms(d) /\ (lifecycle' = "DISARMED" => lifecycle = "DISARMED")
    BY <1>1, <1>5, DeliveryStatus DEF StepArms
  <1>6. ASSUME NEW s \in Sides, NEW fault \in BOOLEAN, ForceState(s, fault),
               lifecycle' = lifecycle
        PROVE  /\ \A t \in Sides : ~enabled'[t] =>
                    \A i \in DOMAIN queue'[t] : queue'[t][i].status # "enabled"
               /\ lifecycle' = "DISARMED" => \A t \in Sides : status'[t] # "enabled"
    <2>1. /\ enabled' = enabled
          /\ \A t \in Sides : queue'[t] = IF t = s THEN <<>> ELSE queue[t]
          /\ \A t \in Sides : status'[t] =
               IF t # s THEN status[t]
               ELSE IF fault THEN "fault" ELSE Emitted(s, enabled[s])
      BY <1>6 DEF ForceState, TypeInv, ArmsOK
    <2> QED  BY <1>1, <1>6, <2>1 DEF RetiredHistory, Emitted
  <1>7. CASE /\ UNCHANGED <<enabled, queue, status>>
             /\ lifecycle' = "DISARMED" => lifecycle = "DISARMED"
    BY <1>1, <1>7 DEF RetiredHistory
  <1>8. CASE queue' = [s \in Sides |-> <<>>] /\ lifecycle' # "DISARMED"
    BY <1>8
  <1> QED  BY <1>2, <1>3, <1>4, <1>5, <1>6, <1>7, <1>8 DEF HistoryStep

\* Once drives are off, nothing captured while they were on is delivered any
\* more: every operation that switches drives off, materialize_stop() first of
\* all, clears the queue of each arm in the same step.
THEOREM HistoryRetired == Spec => []RetiredHistory
  <1>1. Init => RetiredHistory
    BY DEF Init, RetiredHistory
  <1>2. TypeInv /\ PowerInv /\ RetiredHistory /\ [Next]_vars => RetiredHistory'
    <2>1. ASSUME TypeInv, PowerInv, RetiredHistory, Next PROVE RetiredHistory'
      BY <2>1, EveryHistoryStep, HistoryStaysRetired
    <2>2. ASSUME RetiredHistory, UNCHANGED vars PROVE RetiredHistory'
      BY <2>2 DEF RetiredHistory, vars, arms
    <2> QED  BY <2>1, <2>2
  <1> QED  BY <1>1, <1>2, Invariance, PTL DEF Spec

-----------------------------------------------------------------------------
(* The time of a command runs down: the measure by which it ends.          *)

\* What an operation may do to the times of the command that goes on.
TimesFall ==
    /\ exec'.expiry <= exec.expiry /\ exec'.end <= exec.end
    /\ exec.started => exec'.started

LEMMA LaterTimes ==
    ASSUME exec \in Commands, NEW d \in Nat
    PROVE  /\ Later(d).expiry = Left(exec.expiry, d)
           /\ Later(d).end <= exec.end /\ Later(d).started = exec.started
  <1>1. exec # None  BY NoneAssumption
  <1>2. /\ Later(d).end = (IF exec.end >= d THEN exec.end - d ELSE 0)
        /\ Later(d).expiry = Left(exec.expiry, d) /\ Later(d).started = exec.started
    BY <1>1 DEF Later, Commands
  <1>3. exec.end \in Nat  BY DEF Commands
  <1> QED  BY <1>2, <1>3

LEMMA MovingTimes ==
    ASSUME exec \in Commands, NEW d \in Nat, NEW streak, NEW moved
    PROVE  LET m == Moving(d, streak, moved) IN
           /\ m.expiry = Left(exec.expiry, d)
           /\ m.end <= exec.end
           /\ exec.started => m.started
  <1>1. exec # None  BY NoneAssumption
  <1>2. Later(d) \in Commands  BY LaterType
  <1> DEFINE l == Later(d)
             b == l.started \/ Begins(d)
  <1>3. Moving(d, streak, moved) = [l EXCEPT !.started = b, !.streak = streak, !.moved = moved]
    BY <1>1 DEF Moving
  <1> HIDE DEF l, b
  <1>4. LET m == [l EXCEPT !.started = b, !.streak = streak, !.moved = moved] IN
        m.expiry = l.expiry /\ m.end = l.end /\ m.started = b
    BY <1>2 DEF Commands, l
  <1> QED  BY <1>3, <1>4, LaterTimes DEF l, b

\* heartbeat() and the simulator change other fields; the other calls end the
\* command or leave it alone.
LEMMA CallsRunDown ==
    ASSUME TypeInv, exec # None, exec' # None,
           \/ Arming \/ Requests \/ Stops \/ Interlocks \/ Latch \/ Simulator
           \/ \E revision \in Scenes : SetCollisionScene(revision)
           \/ UNCHANGED vars
    PROVE  TimesFall
  <1>1. exec \in Commands /\ lifecycle = "EXECUTING"
    BY DEF TypeInv, ExecOK
  <1>2. exec.expiry \in Int /\ exec.end \in Int
    BY <1>1 DEF Commands
  <1>3. CASE exec' = exec
    BY <1>2, <1>3 DEF TimesFall
  <1>4. CASE Arming
    BY <1>1, <1>4, Zenon
    DEF Arming, OpenAndVerify, Challenge, ChallengeFindsFault, FoundFault, LatchFault,
        Arm, ArmRefused, Reset, Publish
  <1>5. CASE Stops
    BY <1>5, Zenon DEF Stops, Stop, Disarm, Publish
  <1>6. CASE Interlocks
    <2>1. CASE ReleaseInterlock
      BY <1>3, <2>1 DEF ReleaseInterlock
    <2>2. ASSUME NEW d, Trip(d) PROVE FALSE
      BY <2>2, Zenon DEF Trip, Publish
    <2> QED  BY <1>6, <2>1, <2>2 DEF Interlocks, SetInterlock
  <1>7. CASE Latch
    BY <1>3, <1>7 DEF Latch, EstopAssert, EstopClear, PlanTcpEstop
  <1>8. CASE Simulator
    <2>1. PICK s \in Sides : SetSimState(s) \/ \E i \in Injections : SetSimFault(s, i)
      BY <1>8 DEF Simulator
    <2> DEFINE n == Noticed(s)
    <2>2. n \in Commands /\ n.expiry = exec.expiry /\ n.end = exec.end
          /\ n.started = exec.started
      BY <1>1, NoticedType DEF Noticed, Commands
    <2> HIDE DEF n
    <2>3. exec' \in {exec, n} \/ \E moved : exec' = [n EXCEPT !.moved = moved]
      BY <2>1, Zenon DEF n, SetSimState, SetSimFault
    <2> QED  BY <1>2, <1>3, <2>2, <2>3 DEF TimesFall, Commands
  <1>9. CASE Requests
    <2>1. CASE \/ PlanJoint \/ PollEvent \/ \E contact \in BOOLEAN : PlanTcp(contact)
      BY <1>3, <2>1, Zenon DEF PlanJoint, PollEvent, PlanTcp
    <2>2. ASSUME NEW watchdog, LatchFault(watchdog, ring, 0) PROVE FALSE
      BY <2>2, Zenon DEF LatchFault, Publish
    <2>3. ASSUME NEW start, NEW life, NEW lease, NEW stop, Execute(start, life, lease, stop)
          PROVE  FALSE
      BY <1>1, <2>3 DEF Execute, PlanReady
    <2>4. ASSUME NEW lease \in Leases, Heartbeat(lease) PROVE TimesFall
      <3>1. exec' = [exec EXCEPT !.producer = lease]
        BY <2>4 DEF Heartbeat
      <3> QED  BY <1>1, <1>2, <3>1 DEF TimesFall, Commands
    <2> QED
      BY <1>9, <2>1, <2>2, <2>3, <2>4, Zenon
      DEF Requests, RequestFindsFault, FoundFault, HeartbeatTooLate
  <1>10. CASE \E revision \in Scenes : SetCollisionScene(revision)
    BY <1>3, <1>10 DEF SetCollisionScene
  <1>11. CASE UNCHANGED vars
    BY <1>3, <1>11 DEF vars
  <1> QED  BY <1>4, <1>5, <1>6, <1>7, <1>8, <1>9, <1>10, <1>11

\* The command goes on past advance(d) with less time, and with the latch clear
\* with exactly d less: the watchdog has seen to it that d is left.
LEMMA AdvanceRunsDown ==
    ASSUME TypeInv, NEW d \in Nat, Advance(d), exec # None, exec' # None
    PROVE  /\ TimesFall
           /\ ~asserted /\ d > 0 => exec'.expiry = exec.expiry - d /\ exec'.expiry >= 0
  <1>1. exec \in Commands /\ lifecycle = "EXECUTING"
    BY DEF TypeInv, ExecOK
  <1>2. exec.expiry \in Nat \cup {-1} /\ exec.end \in Nat
    BY <1>1 DEF Commands
  <1>3. Left(exec.expiry, d) <= exec.expiry
        /\ (d <= exec.expiry => Left(exec.expiry, d) = exec.expiry - d)
    BY <1>2 DEF Left
  <1>4. CASE \/ AdvanceTrips(d) \/ AdvanceIncoherent(d) \/ AdvanceWatchdog(d)
             \/ AdvanceMoved(d) \/ AdvanceBusy(d) \/ AdvanceStepFault(d)
             \/ AdvanceContact(d) \/ AdvanceKeepout(d) \/ AdvanceCompletes(d)
    BY <1>4, Zenon
    DEF AdvanceTrips, Trip, AdvanceIncoherent, AdvanceWatchdog, AdvanceMoved, AdvanceBusy,
        AdvanceStepFault, AdvanceContact, AdvanceKeepout, AdvanceStops, AdvanceCompletes,
        LatchFault, Publish
  <1>5. CASE AdvanceTripped(d)
    <2>1. asserted /\ exec' = Later(d)
      BY <1>5 DEF AdvanceTripped
    <2> QED  BY <1>1, <1>3, <2>1, LaterTimes DEF TimesFall
  <1>6. CASE AdvanceRests(d)
    <2>1. d = 0 /\ exec' = exec
      BY <1>1, <1>6 DEF AdvanceRests
    <2> QED  BY <1>2, <2>1 DEF TimesFall
  <1>7. CASE AdvanceMoves(d) \/ AdvanceDwells(d) \/ AdvanceOffGoal(d)
    <2>1. d <= exec.expiry
      <3>1. ~Incoherent(d) /\ ~Watchdog(d)
        BY <1>7, Zenon
        DEF AdvanceMoves, AdvanceDwells, AdvanceOffGoal, Stepped, Commanded, Checked
      <3>2. ~(d > exec.expiry)
        BY <1>1, <3>1 DEF Watchdog, Active
      <3> QED  BY <1>2, <3>2
    <2>2. PICK streak, moved, m :
            /\ m = Moving(d, streak, moved)
            /\ \/ exec' = m
               \/ \E dwell, gens, fed :
                    exec' = [m EXCEPT !.settling = TRUE, !.dwell = dwell,
                                      !.gens = gens, !.fed = fed]
            /\ m \in Commands
      <3>1. CASE AdvanceMoves(d)
        <4>1. PICK streak \in Streaks(d), moved \in Returns(d) : exec' = Moving(d, streak, moved)
          BY <3>1 DEF AdvanceMoves
        <4>2. moved \in SUBSET Sides
          BY <1>1 DEF Returns, Commands
        <4> QED  BY <1>1, <4>1, <4>2, MovingType
      <3>2. ASSUME NEW next, Settling(d, next) PROVE exec' = next
        BY <3>2, Zenon DEF Settling, Publish
      <3>3. CASE AdvanceDwells(d)
        <4>1. PICK streak \in Streaks(d) :
                exec' = [Moving(d, streak, {}) EXCEPT
                  !.settling = TRUE, !.dwell = IF @ < 0 THEN 0 ELSE Dwell(d),
                  !.gens = IF exec.dwell < 0 THEN 0 ELSE Gens(d),
                  !.fed = IF exec.dwell < 0 \/ Interval(d) THEN {} ELSE Fed(d)]
          BY <3>2, <3>3, Zenon DEF AdvanceDwells
        <4> QED  BY <1>1, <4>1, MovingType
      <3>4. CASE AdvanceOffGoal(d)
        <4>1. PICK streak \in Streaks(d) :
                exec' = [Moving(d, streak, {}) EXCEPT
                  !.settling = TRUE, !.dwell = -1, !.gens = 0, !.fed = {}]
          BY <3>2, <3>4, Zenon DEF AdvanceOffGoal
        <4> QED  BY <1>1, <4>1, MovingType
      <3> QED  BY <1>7, <3>1, <3>3, <3>4
    <2>3. /\ m.expiry = Left(exec.expiry, d) /\ m.end <= exec.end
          /\ exec.started => m.started
      BY <1>1, <2>2, MovingTimes
    <2>4. exec'.expiry = m.expiry /\ exec'.end = m.end /\ exec'.started = m.started
      BY <2>2 DEF Commands
    <2>5. exec'.expiry = exec.expiry - d
      BY <1>3, <2>1, <2>3, <2>4
    <2>6. exec'.expiry <= exec.expiry /\ exec'.expiry >= 0
      BY <1>2, <2>1, <2>5
    <2> QED  BY <2>3, <2>4, <2>5, <2>6 DEF TimesFall
  <1> QED  BY <1>4, <1>5, <1>6, <1>7 DEF Advance

\* A command never gets more time than it was given, and every advance() with
\* the latch clear takes its time from it: however often heartbeat() renews the
\* lease, a command outlives no more cycles than its expiry allows.
THEOREM CommandsRunDown == Spec => CommandRunsDown
  <1>1. TypeInv /\ [Next]_vars => [RunsDown]_vars
    <2> SUFFICES ASSUME TypeInv, Next, exec # None, exec' # None  PROVE RunsDown
      BY DEF RunsDown
    <2>1. \A d \in 0..MaxGap : d \in Nat
      BY ConstantsAssumption
    <2>2. TimesFall
      <3>1. CASE \E d \in 0..MaxGap : Advance(d)
        BY <2>1, <3>1, AdvanceRunsDown
      <3> QED  BY <3>1, CallsRunDown DEF Next
    <2>3. ASSUME NEW d \in 1..MaxGap, ~asserted, Advance(d)
          PROVE  exec'.expiry = exec.expiry - d /\ exec'.expiry >= 0
      <3>1. d \in Nat /\ d > 0
        BY ConstantsAssumption
      <3> QED  BY <2>3, <3>1, AdvanceRunsDown
    <2> QED  BY <2>2, <2>3 DEF RunsDown, TimesFall
  <1> QED  BY <1>1, Invariance, PTL DEF Spec, CommandRunsDown
=============================================================================
