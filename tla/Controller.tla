----------------------------- MODULE Controller -----------------------------
(***************************************************************************)
(* The two-arm controller core: Controller and ArmRuntime of               *)
(* control/src/control_core.cpp over the encoder simulator, and the        *)
(* process-wide E-stop latch of control/src/c_api.cpp.  c_api.cpp runs     *)
(* every operation under the controller's lock, so an operation is one     *)
(* action; the latch alone is set and cleared without it.                  *)
(*                                                                         *)
(* Only differences of times are kept: of a deadline the time left, -1     *)
(* once it has passed, and of a feedback generation its age.  A sequence   *)
(* number, an epoch or a nonce is only ever compared for equality with the *)
(* newest one, so what is kept of it is whether it still is the newest.    *)
(***************************************************************************)
EXTENDS Integers, Sequences, FiniteSets

CONSTANTS
    Sides,           \* the arms
    Calls,           \* the operations clients may call
    Cycle,           \* options_.cycle_ns
    MaxGap,          \* longest time between two calls of advance()
    Timeout,         \* options_.feedback_timeout_ns
    MaxSkew,         \* options_.max_cross_bus_skew_ns
    Injections,      \* what set_sim_fault() may inject into an arm
    QueueCap,        \* kFeedbackQueueCapacity (64 in the code)
    RingCap,         \* capacity of events_ (64 in the code)
    ChallengeLife,   \* how long a challenge is good (1 s)
    SettleIntervals, \* feedback intervals at the goal (3 in the code)
    Persistence,     \* cycles above the contact torque that count
    Durations,       \* durations of plans
    Starts,          \* delays until a command starts
    Lives,           \* lifetimes of plans and of commands
    Leases,          \* producer deadlines a client may ask for
    Scenes,          \* collision scene revisions
    None

ASSUME ConstantsAssumption ==
    /\ Sides # {} /\ IsFiniteSet(Sides)
    /\ Cycle \in Nat \ {0} /\ MaxGap \in Nat \ {0}
    /\ Timeout \in Nat /\ Timeout >= Cycle
    /\ MaxSkew \in Nat
    /\ Injections \subseteq [drop : BOOLEAN, fail : BOOLEAN, fault : BOOLEAN,
                             delay : Nat]
    /\ QueueCap \in Nat \ {0} /\ RingCap \in Nat \ {0}
    /\ ChallengeLife \in Nat
    /\ SettleIntervals \in Nat \ {0} /\ Persistence \in Nat \ {0}
    /\ Durations \subseteq Nat \ {0} /\ Starts \subseteq Nat
    /\ Lives \subseteq Nat \ {0} /\ Leases \subseteq Int
    /\ Scenes # {}

VARIABLES
    lifecycle,    \* lifecycle_
    deadman,      \* deadman_active_
    asserted,     \* g_estop_latched, the latch of the process
    estopLatched, \* estop_latched_, the controller's own memory of it
    nonce,        \* outstanding_nonce_: none, withheld, or issued to arm or reset
    nonceLeft,    \* time left of the challenge issued, -1 without one
    plan,         \* the plan the client holds
    exec,         \* executing_ and the state of its command
    scene,        \* options_.collision_scene_revision
    cause,        \* contact_report_.cause
    ring,         \* event_count_
    news,         \* kind of the newest event published
    enabled,      \* per arm: the drives are enabled
    broken,       \* per arm: the simulator reports a motor fault
    status,       \* per arm: drive status in the published generation
    whole,        \* per arm: generation_mask_ covers all joints
    age,          \* per arm: now_ns_ - generation_timestamp_
    seen,         \* per arm: feedback_seq_ # 0
    queue,        \* per arm: feedback_queue_
    inj,          \* per arm: drop, command failure and delay in force
    lost,         \* history: an event was dropped since the last reset
    dwelt,        \* history: generations measured at the goal, per arm
    cycled        \* history: advance() has run since the latch was set

safety == <<deadman, asserted, estopLatched>>
token == <<nonce, nonceLeft>>
events == <<ring, news, lost>>
arms == <<enabled, status, whole, age, seen, queue>>
faults == <<broken, inj>>
vars == <<lifecycle, safety, token, plan, exec, scene, cause, events, arms,
          faults, dwelt, cycled>>

Lifecycles ==
    {"CLOSED", "DISARMED", "ARMED_IDLE", "EXECUTING", "FAULT", "ESTOP"}
EventKinds ==
    {"NONE", "VERIFIED", "ARMED", "STARTED", "QUEUED", "SETTLING",
     "COMPLETED", "STOPPED", "FAULTED", "DISARMED", "ESTOP"}
StopKinds == {"DISABLE", "CONTROLLED"}
Statuses == {"disabled", "enabled", "fault"}
Causes == {"NONE", "CONTACT", "KEEPOUT", "PLAN_COMPLETE", "ESTOP"}

Commands ==
    [started : BOOLEAN, start : Nat, end : Nat, expiry : Nat \cup {-1},
     producer : Nat \cup {-1}, stop : StopKinds, contact : BOOLEAN,
     streak : 0..Persistence - 1, settling : BOOLEAN,
     dwell : -1..Cycle * SettleIntervals, gens : 0..SettleIntervals,
     fed : SUBSET Sides, scene : Scenes, moved : SUBSET Sides]
Plans ==
    [contact : BOOLEAN, duration : Durations, life : Nat, scene : Scenes]
Generations ==
    [age : 0..Timeout + 1, wait : Nat, whole : BOOLEAN, status : Statuses]

ASSUME NoneAssumption == None \notin Commands /\ None \notin Plans

Init ==
    /\ lifecycle = "CLOSED"
    /\ deadman = TRUE /\ asserted = FALSE /\ estopLatched = FALSE
    /\ nonce = "none" /\ nonceLeft = -1
    /\ plan = None /\ exec = None
    /\ scene \in Scenes
    /\ cause = "NONE" /\ ring = 0 /\ news = "NONE"
    /\ enabled = [s \in Sides |-> FALSE]
    /\ broken = [s \in Sides |-> FALSE]
    /\ status = [s \in Sides |-> "disabled"]
    /\ whole = [s \in Sides |-> FALSE]
    /\ age = [s \in Sides |-> 0]
    /\ seen = [s \in Sides |-> FALSE]
    /\ queue = [s \in Sides |-> <<>>]
    /\ inj = [s \in Sides |-> [drop |-> FALSE, fail |-> FALSE, delay |-> 0]]
    /\ lost = FALSE /\ cycled = FALSE
    /\ dwelt = [s \in Sides |-> 0]

-----------------------------------------------------------------------------
(* ArmRuntime: feedback generations, captured each cycle, delivered after a *)
(* delay, published only when every joint is in them.                       *)

Left(t, d) == IF t >= d THEN t - d ELSE -1
Older(a, d) == IF a + d <= Timeout THEN a + d ELSE Timeout + 1

\* DamiaoMotorSimulator::capture(): the status the drives report.
Emitted(s, on) ==
    IF broken[s] THEN "fault" ELSE IF on THEN "enabled" ELSE "disabled"

AgedQueue(s, d) ==
    [i \in DOMAIN queue[s] |->
       [queue[s][i] EXCEPT !.age = Older(@, d),
                           !.wait = IF @ >= d THEN @ - d ELSE 0]]

\* command_and_step() captures a generation and enqueues it.
Enqueued(s, d) ==
    Append(AgedQueue(s, d),
           [age |-> 0, wait |-> inj[s].delay, whole |-> ~inj[s].drop,
            status |-> Emitted(s, enabled[s])])
StepFailsWhenTold(s) == inj[s].fail
StepFails(s) == inj[s].fail \/ Len(queue[s]) = QueueCap

\* publish_due(): the generations that are ready, in order, up to the first
\* that waits or the first that lacks a joint, that one included.
DueLen(q) ==
    Cardinality({n \in 1..Len(q) :
        \A i \in 1..n : q[i].wait = 0 /\ (i < n => q[i].whole)})
PublishedLen(q) ==
    IF DueLen(q) > 0 /\ ~q[DueLen(q)].whole THEN DueLen(q) - 1 ELSE DueLen(q)

Delivers(s, d) == PublishedLen(Enqueued(s, d)) > 0
NextStatus(s, d) ==
    IF Delivers(s, d)
    THEN Enqueued(s, d)[PublishedLen(Enqueued(s, d))].status ELSE status[s]
NextAge(s, d) ==
    IF Delivers(s, d)
    THEN Enqueued(s, d)[PublishedLen(Enqueued(s, d))].age
    ELSE Older(age[s], d)
NextWhole(s, d) ==
    IF DueLen(Enqueued(s, d)) > 0
    THEN Enqueued(s, d)[DueLen(Enqueued(s, d))].whole ELSE whole[s]
NextQueue(s, d) ==
    SubSeq(Enqueued(s, d), DueLen(Enqueued(s, d)) + 1, Len(queue[s]) + 1)

\* feedback_integrity() of arms with generations g and ages a.
Coherent(g, a) ==
    /\ \A s \in Sides : g[s] /\ a[s] <= Timeout
    /\ \A s, t \in Sides : a[s] - a[t] <= MaxSkew

Fresh == Coherent(whole, age)
Healthy == \A s \in Sides : status[s] # "fault"
Disabled == \A s \in Sides : status[s] = "disabled"

\* A plan the client holds.  execute() refuses it once a generation has been
\* published (seed_seq), the arms are verified anew (verify_epoch) or it has
\* expired; it is forgotten then.
PlanAfter(d, renewed) ==
    IF plan = None \/ renewed \/ plan.life < d THEN None
    ELSE [plan EXCEPT !.life = @ - d]

\* Time passes and nothing else.
Wait(d) ==
    /\ age' = [s \in Sides |-> Older(age[s], d)]
    /\ queue' = [s \in Sides |-> AgedQueue(s, d)]
    /\ plan' = PlanAfter(d, FALSE)
    /\ UNCHANGED <<enabled, status, whole, seen, faults>>

\* materialize_stop(): delayed generations are retired and the measured pose is
\* published, with the drives on a hold or disabled.
MaterializeStopKeepsQueue(hold, d) ==
    /\ enabled' = [s \in Sides |-> hold /\ seen[s]]
    /\ status' = [s \in Sides |->
                    IF seen[s] THEN Emitted(s, hold) ELSE status[s]]
    /\ whole' = seen
    /\ age' = [s \in Sides |-> IF seen[s] THEN 0 ELSE Older(age[s], d)]
    /\ queue' = [s \in Sides |-> AgedQueue(s, d)]
    /\ plan' = PlanAfter(d, \E s \in Sides : seen[s])
    /\ UNCHANGED <<seen, faults>>

MaterializeStop(hold, d) ==
    /\ enabled' = [s \in Sides |-> hold /\ seen[s]]
    /\ status' = [s \in Sides |->
                    IF seen[s] THEN Emitted(s, hold) ELSE status[s]]
    /\ whole' = seen
    /\ age' = [s \in Sides |-> IF seen[s] THEN 0 ELSE Older(age[s], d)]
    /\ queue' = [s \in Sides |-> <<>>]
    /\ plan' = PlanAfter(d, \E s \in Sides : seen[s])
    /\ UNCHANGED <<seen, faults>>

\* set_enabled() and force_state() on both arms, as verification and arming do.
ForceBoth(on) ==
    /\ enabled' = [s \in Sides |-> on]
    /\ status' = [s \in Sides |-> Emitted(s, on)]
    /\ whole' = [s \in Sides |-> TRUE]
    /\ age' = [s \in Sides |-> 0]
    /\ seen' = [s \in Sides |-> TRUE]
    /\ queue' = [s \in Sides |-> <<>>]
    /\ plan' = None
    /\ UNCHANGED faults

-----------------------------------------------------------------------------
(* Events and faults.                                                       *)

\* publish() with n events in the ring, as the last step of an operation that
\* otherwise has the effect Effect and ends in next.  A full ring drops its
\* oldest event, ends the command, leaves the arms Stopped and faults instead.
PublishLosesQuietly(n, kind, next, Effect, Stopped) ==
    /\ ring' = IF n < RingCap THEN n + 1 ELSE RingCap
    /\ news' = kind
    /\ lost' = (lost \/ n >= RingCap)
    /\ lifecycle' = next
    /\ Effect

PublishFaultsOnly(n, kind, next, Effect, Stopped) ==
    /\ ring' = IF n < RingCap THEN n + 1 ELSE RingCap
    /\ news' = IF n < RingCap THEN kind ELSE "FAULTED"
    /\ lifecycle' = IF n < RingCap THEN next ELSE "FAULT"
    /\ lost' = (lost \/ n >= RingCap)
    /\ Effect

Publish(n, kind, next, Effect, Stopped) ==
    \/ /\ n < RingCap
       /\ ring' = n + 1 /\ news' = kind
       /\ lifecycle' = next
       /\ UNCHANGED lost
       /\ Effect
    \/ /\ n >= RingCap
       /\ ring' = RingCap /\ news' = "FAULTED"
       /\ lifecycle' = "FAULT"
       /\ lost' = TRUE
       /\ exec' = None
       /\ Stopped

\* latch_fault(), after time d and with n events in the ring.  Only a watchdog
\* may keep the drives on a hold, and only if the command asked for it.
Holds(watchdog, d) ==
    /\ watchdog
    /\ exec # None
    /\ Coherent(whole, [s \in Sides |-> age[s] + d]) /\ Healthy
    /\ exec.stop = "CONTROLLED"

LatchFaultKeepsNonce(watchdog, n, d) ==
    /\ Publish(n, "FAULTED", "FAULT",
               exec' = None /\ MaterializeStop(Holds(watchdog, d), d),
               MaterializeStop(FALSE, d))
    /\ nonce' = nonce
    /\ nonceLeft' = Left(nonceLeft, d)

LatchFault(watchdog, n, d) ==
    /\ Publish(n, "FAULTED", "FAULT",
               exec' = None /\ MaterializeStop(Holds(watchdog, d), d),
               MaterializeStop(FALSE, d))
    /\ nonce' = "withheld" /\ nonceLeft' = -1

\* A call that finds a motor fault latches it.
FoundFault ==
    /\ ~Healthy
    /\ LatchFault(FALSE, ring, 0)
    /\ UNCHANGED <<safety, scene, cause, dwelt, cycled>>

-----------------------------------------------------------------------------
(* Verification, arming and reset.                                          *)

OpenAndVerify ==
    /\ lifecycle = "CLOSED"
    /\ Publish(ring, "VERIFIED", "DISARMED",
               UNCHANGED exec /\ ForceBoth(FALSE),
               ForceBoth(FALSE))
    /\ UNCHANGED <<safety, token, scene, cause, dwelt, cycled>>

Challenge ==
    /\ \/ /\ lifecycle = "DISARMED"
          /\ Fresh /\ Healthy /\ Disabled
          /\ nonce' = "arm"
       \/ /\ lifecycle \in {"FAULT", "ESTOP"}
          /\ nonce' = "reset"
    /\ nonceLeft' = ChallengeLife
    /\ UNCHANGED <<lifecycle, safety, plan, exec, scene, cause, events, arms,
                   faults, dwelt, cycled>>

ChallengeFindsFault == lifecycle = "DISARMED" /\ FoundFault

\* The nonce that the client brings is the newest one and is not expired.
TokenValid == nonce \in {"arm", "reset"} /\ nonceLeft >= 0

ArmReady == Healthy /\ Disabled /\ deadman

Arm ==
    /\ lifecycle = "DISARMED"
    /\ TokenValid /\ Fresh /\ ArmReady
    /\ Publish(ring, "ARMED", "ARMED_IDLE",
               UNCHANGED exec /\ ForceBoth(TRUE),
               ForceBoth(FALSE))
    /\ nonce' = "none" /\ nonceLeft' = -1
    /\ UNCHANGED <<safety, scene, cause, dwelt, cycled>>

ArmRefused ==
    /\ lifecycle = "DISARMED"
    /\ TokenValid /\ Fresh /\ ~ArmReady
    /\ LatchFault(FALSE, ring, 0)
    /\ UNCHANGED <<safety, scene, cause, dwelt, cycled>>

Reset ==
    /\ lifecycle \in {"FAULT", "ESTOP"}
    /\ TokenValid
    /\ inj' = [s \in Sides |-> [drop |-> FALSE, fail |-> FALSE, delay |-> 0]]
    /\ broken' = [s \in Sides |-> FALSE]
    /\ enabled' = [s \in Sides |-> FALSE]
    /\ queue' = [s \in Sides |-> <<>>]
    /\ plan' = None
    /\ nonce' = "none" /\ nonceLeft' = -1
    /\ lifecycle' = "CLOSED"
    /\ lost' = FALSE
    /\ UNCHANGED <<safety, exec, scene, cause, ring, news, status,
                   whole, age, seen, dwelt, cycled>>

-----------------------------------------------------------------------------
(* Planning.  Kinematics and trajectories are left out: a plan is what       *)
(* execute() checks of it, and any request may also be refused.              *)

NewPlan(contact) ==
    \E duration \in Durations, life \in Lives :
        plan' = [contact |-> contact, duration |-> duration, life |-> life,
                 scene |-> scene]

PlanReady == lifecycle = "ARMED_IDLE" /\ Fresh

PlanJoint ==
    /\ PlanReady /\ Healthy
    /\ NewPlan(FALSE)
    /\ UNCHANGED <<lifecycle, safety, token, exec, scene, cause, events, arms,
                   faults, dwelt, cycled>>

\* plan_paired(), plan_centroid(), plan_mirrored() and plan_converge(), of
\* which the last asks for contact monitoring.
PlanTcp(contact) ==
    /\ ~asserted
    /\ PlanReady /\ Healthy
    /\ NewPlan(contact)
    /\ UNCHANGED <<lifecycle, safety, token, exec, scene, cause, events, arms,
                   faults, dwelt, cycled>>

\* plan_preconditions() refuses a plan while the latch is set, and remembers
\* the latch as seen.
PlanTcpEstop ==
    /\ asserted
    /\ estopLatched' = TRUE
    /\ UNCHANGED <<lifecycle, deadman, asserted, token, plan, exec, scene,
                   cause, events, arms, faults, dwelt, cycled>>

-----------------------------------------------------------------------------
(* Commands.                                                                *)

\* The plan still belongs to this verification, this feedback and this scene.
PlanCurrent == plan # None /\ plan.scene = scene

Execute(start, life, lease, stop) ==
    /\ PlanReady /\ Healthy /\ PlanCurrent
    /\ life > start /\ life <= plan.life /\ lease > 0
    /\ plan.duration <= life - start
    /\ Publish(ring, IF start = 0 THEN "STARTED" ELSE "QUEUED", "EXECUTING",
               /\ exec' = [started |-> start = 0, start |-> start,
                           end |-> start + plan.duration, expiry |-> life,
                           producer |-> lease, stop |-> stop,
                           contact |-> plan.contact, streak |-> 0,
                           settling |-> FALSE, dwell |-> -1, gens |-> 0,
                           fed |-> {}, scene |-> plan.scene,
                           moved |-> {}]
               /\ UNCHANGED <<arms, faults, plan>>,
               MaterializeStop(FALSE, 0))
    /\ cause' = "NONE"
    /\ dwelt' = [s \in Sides |-> 0]
    /\ UNCHANGED <<safety, token, scene, cycled>>

\* Planning and executing alike find a fault first.
RequestFindsFault == PlanReady /\ FoundFault

HeartbeatRenewsExpiry(lease) ==
    /\ lifecycle = "EXECUTING"
    /\ lease > 0
    /\ exec' = [exec EXCEPT !.producer = lease, !.expiry = lease]
    /\ UNCHANGED <<lifecycle, safety, token, plan, scene, cause, events, arms,
                   faults, dwelt, cycled>>

Heartbeat(lease) ==
    /\ lifecycle = "EXECUTING"
    /\ lease > 0
    /\ exec' = [exec EXCEPT !.producer = lease]
    /\ UNCHANGED <<lifecycle, safety, token, plan, scene, cause, events, arms,
                   faults, dwelt, cycled>>

HeartbeatTooLate(lease) ==
    /\ lifecycle = "EXECUTING"
    /\ lease <= 0
    /\ LatchFault(TRUE, ring, 0)
    /\ UNCHANGED <<safety, scene, cause, dwelt, cycled>>

StoppableInFault == lifecycle \in {"EXECUTING", "ARMED_IDLE", "FAULT"}
Stoppable == lifecycle \in {"EXECUTING", "ARMED_IDLE"}

\* stop() publishes ABORTED for a command before STOPPED.
Stop(stop) ==
    /\ Stoppable
    /\ Publish(ring + (IF exec # None THEN 1 ELSE 0), "STOPPED",
               IF stop = "DISABLE" THEN "DISARMED" ELSE "ARMED_IDLE",
               exec' = None /\ MaterializeStop(stop = "CONTROLLED", 0),
               MaterializeStop(FALSE, 0))
    /\ UNCHANGED <<safety, token, scene, cause, dwelt, cycled>>

DisarmQuietly ==
    /\ lifecycle \in {"ARMED_IDLE", "EXECUTING", "DISARMED"}
    /\ lifecycle' = "DISARMED" /\ exec' = None
    /\ MaterializeStop(FALSE, 0)
    /\ UNCHANGED <<safety, token, scene, cause, events, dwelt, cycled>>

Disarm ==
    /\ lifecycle \in {"ARMED_IDLE", "EXECUTING", "DISARMED"}
    /\ Publish(ring, "DISARMED", "DISARMED",
               exec' = None /\ MaterializeStop(FALSE, 0),
               MaterializeStop(FALSE, 0))
    /\ UNCHANGED <<safety, token, scene, cause, dwelt, cycled>>

PollEvent ==
    /\ ring > 0
    /\ ring' = ring - 1
    /\ UNCHANGED <<lifecycle, safety, token, plan, exec, scene, cause, news,
                   lost, arms, faults, dwelt, cycled>>

SetCollisionSceneAnytime(revision) ==
    /\ scene' = revision
    /\ UNCHANGED <<lifecycle, safety, token, plan, exec, cause, events, arms,
                   faults, dwelt, cycled>>

SetCollisionScene(revision) ==
    /\ lifecycle # "EXECUTING"
    /\ scene' = revision
    /\ UNCHANGED <<lifecycle, safety, token, plan, exec, cause, events, arms,
                   faults, dwelt, cycled>>

-----------------------------------------------------------------------------
(* Emergency stop.                                                          *)

\* set_interlock() once it trips, after time d.  A controller that was never
\* opened, or is closed, has nothing to measure.
Trip(d) ==
    /\ Publish(ring, "ESTOP", "ESTOP",
               /\ exec' = None
               /\ IF lifecycle = "CLOSED"
                  THEN /\ enabled' = [s \in Sides |-> FALSE]
                       /\ queue' = [s \in Sides |-> <<>>]
                       /\ age' = [s \in Sides |-> Older(age[s], d)]
                       /\ plan' = PlanAfter(d, FALSE)
                       /\ UNCHANGED <<status, whole, seen, faults>>
                  ELSE MaterializeStop(FALSE, d),
               MaterializeStop(FALSE, d))
    /\ nonce' = "withheld" /\ nonceLeft' = -1

SetInterlock(estop, held) ==
    /\ estop \/ ~held
    /\ deadman' = held
    /\ Trip(0)
    /\ UNCHANGED <<asserted, estopLatched, scene, cause, dwelt, cycled>>

ReleaseInterlock ==
    /\ deadman' = TRUE
    /\ UNCHANGED <<lifecycle, asserted, estopLatched, token, plan, exec, scene,
                   cause, events, arms, faults, dwelt, cycled>>

\* oa_estop_assert() and oa_estop_clear(), from any thread.
EstopAssert ==
    /\ ~asserted
    /\ asserted' = TRUE /\ cycled' = FALSE
    /\ UNCHANGED <<lifecycle, deadman, estopLatched, token, plan, exec, scene,
                   cause, events, arms, faults, dwelt>>

EstopClear ==
    /\ asserted
    /\ asserted' = FALSE /\ cycled' = FALSE
    /\ UNCHANGED <<lifecycle, deadman, estopLatched, token, plan, exec, scene,
                   cause, events, arms, faults, dwelt>>

-----------------------------------------------------------------------------
(* The simulator's injections.                                              *)

\* force_state() on one arm publishes a generation of its own.
ForceState(s, fault) ==
    /\ status' = [status EXCEPT ![s] = IF fault THEN "fault"
                                       ELSE Emitted(s, enabled[s])]
    /\ whole' = [whole EXCEPT ![s] = TRUE]
    /\ age' = [age EXCEPT ![s] = 0]
    /\ seen' = [seen EXCEPT ![s] = TRUE]
    /\ queue' = [queue EXCEPT ![s] = <<>>]
    /\ plan' = None
    /\ dwelt' = [dwelt EXCEPT ![s] = IF @ < SettleIntervals THEN @ + 1 ELSE @]
    /\ UNCHANGED enabled

\* What a running command notices of a generation of arm s.
Noticed(s) ==
    IF exec # None /\ exec.dwell >= 0 THEN [exec EXCEPT !.fed = @ \cup {s}]
    ELSE exec

SetSimFault(s, i) ==
    /\ inj' = [inj EXCEPT ![s] = [drop |-> i.drop, fail |-> i.fail,
                                  delay |-> i.delay]]
    /\ broken' = [broken EXCEPT ![s] = i.fault]
    /\ IF i.fault THEN ForceState(s, TRUE) /\ exec' = Noticed(s)
                  ELSE UNCHANGED <<arms, plan, exec, dwelt>>
    /\ UNCHANGED <<lifecycle, safety, token, scene, cause, events, cycled>>

\* set_sim_state() may also put the arm elsewhere than the plan starts, or back.
SetSimState(s) ==
    /\ ForceState(s, broken[s])
    /\ IF exec = None THEN UNCHANGED exec
       ELSE \E moved \in {exec.moved \cup {s}, exec.moved \ {s}} :
               exec' = [Noticed(s) EXCEPT !.moved = moved]
    /\ UNCHANGED <<lifecycle, safety, token, scene, cause, events, faults,
                   cycled>>

-----------------------------------------------------------------------------
(* advance(), one action for each way it ends.  d is the time since the last *)
(* call.                                                                     *)

\* The latch is sampled first.  The controller trips when it sees it anew.
AdvanceTrips(d) ==
    /\ asserted /\ ~estopLatched
    /\ estopLatched' = TRUE /\ cycled' = TRUE
    /\ cause' = "ESTOP"
    /\ Trip(d)
    /\ UNCHANGED <<deadman, asserted, scene, dwelt>>

\* The times of a running command, after time d.
Later(d) ==
    IF exec = None THEN None
    ELSE [exec EXCEPT !.start = IF @ >= d THEN @ - d ELSE 0,
                      !.end = IF @ >= d THEN @ - d ELSE 0,
                      !.expiry = Left(@, d),
                      !.producer = Left(@, d)]

AdvanceTripped(d) ==
    /\ asserted /\ estopLatched
    /\ cycled' = TRUE
    /\ Wait(d)
    /\ exec' = Later(d)
    /\ nonceLeft' = Left(nonceLeft, d)
    /\ UNCHANGED <<lifecycle, safety, nonce, scene, cause, events, dwelt>>

\* No time has passed, or the lifecycle has nothing to do.
AdvanceRests(d) ==
    /\ ~asserted
    /\ d = 0 \/ lifecycle \in {"CLOSED", "FAULT", "ESTOP"}
    /\ estopLatched' = FALSE
    /\ Wait(d)
    /\ nonceLeft' = Left(nonceLeft, d)
    /\ UNCHANGED <<lifecycle, deadman, asserted, nonce, exec, scene, cause,
                   events, dwelt, cycled>>

Active == lifecycle \in {"ARMED_IDLE", "EXECUTING"}
Runs(d) ==
    /\ ~asserted /\ d > 0
    /\ lifecycle \in {"DISARMED", "ARMED_IDLE", "EXECUTING"}

\* What is checked before the arms are commanded, in this order.
Incoherent(d) ==
    /\ Active
    /\ ~Healthy \/ ~Coherent(whole, [s \in Sides |-> age[s] + d])
WatchdogIgnoresExpiry(d) ==
    /\ Active /\ ~Incoherent(d)
    /\ d > Cycle \/ (exec # None /\ d > exec.producer)
Watchdog(d) ==
    /\ Active /\ ~Incoherent(d)
    /\ d > Cycle \/ (exec # None /\ (d > exec.producer \/ d > exec.expiry))
Begins(d) == exec # None /\ ~exec.started /\ exec.start <= d
Checked(d) == Runs(d) /\ ~Incoherent(d) /\ ~Watchdog(d)
Advanced == estopLatched' = FALSE /\ UNCHANGED <<deadman, asserted, scene, cycled>>

AdvanceIncoherent(d) ==
    /\ Runs(d) /\ Incoherent(d)
    /\ LatchFault(FALSE, ring, d)
    /\ UNCHANGED <<cause, dwelt>>
    /\ Advanced

AdvanceWatchdog(d) ==
    /\ Runs(d) /\ Watchdog(d)
    /\ LatchFault(TRUE, ring, d)
    /\ UNCHANGED <<cause, dwelt>>
    /\ Advanced

\* The arms are not where a queued command was planned to start.
AdvanceMoved(d) ==
    /\ Checked(d) /\ Begins(d) /\ exec.moved # {}
    /\ LatchFault(FALSE, ring, d)
    /\ UNCHANGED <<cause, dwelt>>
    /\ Advanced

\* Events in the ring once STARTED has been published; it may not fit.
Begun(d) == ring + (IF Begins(d) THEN 1 ELSE 0)

AdvanceBusy(d) ==
    /\ Checked(d) /\ Begins(d) /\ exec.moved = {} /\ Begun(d) > RingCap
    /\ Publish(ring, "STARTED", "EXECUTING", FALSE, MaterializeStop(FALSE, d))
    /\ nonceLeft' = Left(nonceLeft, d)
    /\ UNCHANGED <<nonce, cause, dwelt>>
    /\ Advanced

Commanded(d) ==
    /\ Checked(d) /\ Begun(d) <= RingCap
    /\ Begins(d) => exec.moved = {}

\* The arms are commanded, the simulator steps, and feedback is delivered.
StepCoherent(d) ==
    /\ \A s \in Sides : ~StepFails(s)
    /\ Coherent([s \in Sides |-> NextWhole(s, d)],
                [s \in Sides |-> NextAge(s, d)])
    /\ \A s \in Sides : NextStatus(s, d) # "fault"

StepArms(d) ==
    /\ status' = [s \in Sides |-> NextStatus(s, d)]
    /\ age' = [s \in Sides |-> NextAge(s, d)]
    /\ whole' = [s \in Sides |-> NextWhole(s, d)]
    /\ queue' = [s \in Sides |-> NextQueue(s, d)]
    /\ plan' = PlanAfter(d, \E s \in Sides : Delivers(s, d))
    /\ UNCHANGED <<enabled, seen, faults>>

AdvanceStepFault(d) ==
    /\ Commanded(d) /\ ~StepCoherent(d)
    /\ LatchFault(FALSE, Begun(d), d)
    /\ UNCHANGED <<cause, dwelt>>
    /\ Advanced

Stepped(d) == Commanded(d) /\ StepCoherent(d)
Monitored(d) == exec # None /\ (exec.started \/ Begins(d))

\* complete_on_contact(): a monitor ends the command on a hold.
AdvanceStops(d, why) ==
    /\ Publish(Begun(d), "STOPPED", "ARMED_IDLE",
               exec' = None /\ MaterializeStop(TRUE, d),
               MaterializeStop(FALSE, d))
    /\ cause' = why
    /\ nonceLeft' = Left(nonceLeft, d)
    /\ UNCHANGED <<nonce, dwelt>>
    /\ Advanced

\* monitor_contact(): torque for Persistence cycles on end.
AdvanceContact(d) ==
    /\ Stepped(d) /\ Monitored(d)
    /\ exec.contact /\ exec.streak + 1 >= Persistence
    /\ AdvanceStops(d, "CONTACT")

\* monitor_keepout(): the clearance worsens, or the claws meet as asked.
AdvanceKeepout(d) ==
    /\ Stepped(d) /\ Monitored(d)
    /\ \/ AdvanceStops(d, "KEEPOUT")
       \/ exec.contact /\ AdvanceStops(d, "CONTACT")

\* The command after the step: it may feel a contact, and until it starts it
\* drives an arm that was moved back to where it starts.
Streaks(d) ==
    IF Monitored(d) /\ exec.contact
    THEN {0} \cup {n \in {exec.streak + 1} : n < Persistence} ELSE {0}
Returns(d) ==
    IF exec = None \/ Monitored(d) THEN {{}} ELSE SUBSET exec.moved
Moving(d, streak, moved) ==
    IF exec = None THEN None
    ELSE [Later(d) EXCEPT !.started = @ \/ Begins(d), !.streak = streak,
                          !.moved = moved]
Arrived(d) == exec # None /\ exec.end <= d

AdvanceMoves(d) ==
    /\ Stepped(d) /\ ~Arrived(d)
    /\ StepArms(d)
    /\ \E streak \in Streaks(d), moved \in Returns(d) :
          exec' = Moving(d, streak, moved)
    /\ ring' = Begun(d)
    /\ news' = IF Begins(d) THEN "STARTED" ELSE news
    /\ nonceLeft' = Left(nonceLeft, d)
    /\ UNCHANGED <<lifecycle, nonce, lost, cause, dwelt>>
    /\ Advanced

\* The settle dwell: an interval counts when both arms have fed back anew.
Fed(d) == exec.fed \cup {s \in Sides : Delivers(s, d)}
IntervalWithAnyArm(d) == Fed(d) # {}
Interval(d) == Fed(d) = Sides
Gens(d) == IF Interval(d) /\ exec.gens < SettleIntervals
           THEN exec.gens + 1 ELSE exec.gens
Dwell(d) == IF exec.dwell + d < Cycle * SettleIntervals
            THEN exec.dwell + d ELSE Cycle * SettleIntervals
Settles(d) ==
    /\ exec.dwell >= 0
    /\ Gens(d) >= SettleIntervals /\ Dwell(d) >= Cycle * SettleIntervals
Counted(d) ==
    [s \in Sides |-> IF Delivers(s, d) /\ dwelt[s] < SettleIntervals
                     THEN dwelt[s] + 1 ELSE dwelt[s]]

\* SETTLING is published on the first arrival, at the goal or not.
Settling(d, next) ==
    \/ /\ exec.settling
       /\ exec' = next
       /\ StepArms(d)
       /\ ring' = Begun(d)
       /\ news' = IF Begins(d) THEN "STARTED" ELSE news
       /\ UNCHANGED <<lifecycle, lost>>
    \/ /\ ~exec.settling
       /\ Publish(Begun(d), "SETTLING", "EXECUTING",
                  exec' = next /\ StepArms(d), MaterializeStop(FALSE, d))

\* The arms are at the goal, not yet for long enough.
AdvanceDwells(d) ==
    /\ Stepped(d) /\ Arrived(d) /\ ~Settles(d)
    /\ \E streak \in Streaks(d) :
         Settling(d, [Moving(d, streak, {}) EXCEPT
            !.settling = TRUE,
            !.dwell = IF @ < 0 THEN 0 ELSE Dwell(d),
            !.gens = IF exec.dwell < 0 THEN 0 ELSE Gens(d),
            !.fed = IF exec.dwell < 0 \/ Interval(d) THEN {} ELSE Fed(d)])
    /\ dwelt' = IF exec.dwell < 0 THEN [s \in Sides |-> 0] ELSE Counted(d)
    /\ nonceLeft' = Left(nonceLeft, d)
    /\ UNCHANGED <<nonce, cause>>
    /\ Advanced

\* The trajectory is over and the arms are not at the goal, or no longer.
AdvanceOffGoal(d) ==
    /\ Stepped(d) /\ Arrived(d)
    /\ \E streak \in Streaks(d) :
         Settling(d, [Moving(d, streak, {}) EXCEPT
            !.settling = TRUE, !.dwell = -1, !.gens = 0, !.fed = {}])
    /\ dwelt' = [s \in Sides |-> 0]
    /\ nonceLeft' = Left(nonceLeft, d)
    /\ UNCHANGED <<nonce, cause>>
    /\ Advanced

AdvanceCompletes(d) ==
    /\ Stepped(d) /\ Arrived(d) /\ Settles(d)
    /\ Publish(Begun(d), "COMPLETED", "ARMED_IDLE",
               exec' = None /\ StepArms(d), MaterializeStop(FALSE, d))
    /\ cause' = "PLAN_COMPLETE"
    /\ dwelt' = Counted(d)
    /\ nonceLeft' = Left(nonceLeft, d)
    /\ UNCHANGED nonce
    /\ Advanced

Advance(d) ==
    \/ AdvanceTrips(d) \/ AdvanceTripped(d) \/ AdvanceRests(d)
    \/ AdvanceIncoherent(d) \/ AdvanceWatchdog(d) \/ AdvanceMoved(d)
    \/ AdvanceBusy(d) \/ AdvanceStepFault(d)
    \/ AdvanceContact(d) \/ AdvanceKeepout(d) \/ AdvanceMoves(d)
    \/ AdvanceDwells(d) \/ AdvanceOffGoal(d) \/ AdvanceCompletes(d)

-----------------------------------------------------------------------------
(* The system: the calls of clients, in any order, and the control cycle.    *)

Arming ==
    \/ OpenAndVerify \/ Challenge \/ ChallengeFindsFault
    \/ Arm \/ ArmRefused \/ Reset
Requests ==
    \/ PlanJoint \/ RequestFindsFault
    \/ PlanTcp(FALSE) \/ ("converge" \in Calls /\ PlanTcp(TRUE))
    \/ \E start \in Starts, life \in Lives, lease \in Leases, stop \in StopKinds :
          Execute(start, life, lease, stop)
    \/ \E lease \in Leases : Heartbeat(lease) \/ HeartbeatTooLate(lease)
    \/ PollEvent
Stops == Disarm \/ \E stop \in StopKinds : Stop(stop)
Interlocks ==
    \/ \E estop, held \in BOOLEAN : SetInterlock(estop, held)
    \/ ReleaseInterlock
Latch == EstopAssert \/ EstopClear \/ PlanTcpEstop
Simulator ==
    \E s \in Sides : SetSimState(s) \/ \E i \in Injections : SetSimFault(s, i)

Next ==
    \/ \E d \in 0..MaxGap : Advance(d)
    \/ Arming
    \/ Requests
    \/ "stop" \in Calls /\ Stops
    \/ "interlock" \in Calls /\ Interlocks
    \/ "estop" \in Calls /\ Latch
    \/ "sim" \in Calls /\ Simulator
    \/ "scene" \in Calls /\ \E revision \in Scenes : SetCollisionScene(revision)

Spec == Init /\ [][Next]_vars

\* control/README.md requires of the producer that it keeps calling advance().
FairSpec == Spec /\ WF_vars(\E d \in 1..MaxGap : Advance(d))

-----------------------------------------------------------------------------
(* Properties.                                                              *)

\* Every variable has its type; the event ring and the feedback queues stay
\* within the arrays that hold them.
TypeOK ==
    /\ lifecycle \in Lifecycles
    /\ deadman \in BOOLEAN /\ asserted \in BOOLEAN /\ estopLatched \in BOOLEAN
    /\ nonce \in {"none", "withheld", "arm", "reset"}
    /\ nonceLeft \in -1..ChallengeLife
    /\ plan \in Plans \cup {None} /\ exec \in Commands \cup {None}
    /\ scene \in Scenes /\ cause \in Causes
    /\ ring \in 0..RingCap /\ news \in EventKinds
    /\ enabled \in [Sides -> BOOLEAN] /\ broken \in [Sides -> BOOLEAN]
    /\ status \in [Sides -> Statuses] /\ whole \in [Sides -> BOOLEAN]
    /\ age \in [Sides -> 0..Timeout + 1] /\ seen \in [Sides -> BOOLEAN]
    /\ \A s \in Sides : queue[s] \in Seq(Generations) /\ Len(queue[s]) <= QueueCap
    /\ inj \in [Sides -> [drop : BOOLEAN, fail : BOOLEAN, delay : Nat]]
    /\ lost \in BOOLEAN /\ cycled \in BOOLEAN
    /\ dwelt \in [Sides -> 0..SettleIntervals]

\* A command exists exactly while the lifecycle says EXECUTING; the drives of
\* both arms are on while armed, and off otherwise unless a watchdog left them
\* on a hold in FAULT.  No early return of advance(), stop() or publish() may
\* leave one arm powered, or a command behind.
PowerFollowsLifecycle ==
    /\ exec # None <=> lifecycle = "EXECUTING"
    /\ \A s, t \in Sides : enabled[s] = enabled[t]
    /\ lifecycle \in {"ARMED_IDLE", "EXECUTING"} => \A s \in Sides : enabled[s]
    /\ lifecycle \in {"CLOSED", "DISARMED", "ESTOP"} =>
          \A s \in Sides : ~enabled[s]

\* No drive is on without the deadman: releasing it cuts every powered state,
\* the hold after a watchdog included, and arming asks for it.
DeadmanHeld == (\E s \in Sides : enabled[s]) => deadman

\* The drives are on when, and only when, lifecycle and deadman allow it.
PowerIsAuthorised == PowerFollowsLifecycle /\ DeadmanHeld

\* Once drives are off, no feedback generation captured while they were on is
\* left to be delivered: a delayed frame never reports a disarmed arm enabled.
RetiredHistory ==
    /\ \A s \in Sides : ~enabled[s] =>
          \A i \in DOMAIN queue[s] : queue[s][i].status # "enabled"
    /\ lifecycle = "DISARMED" => \A s \in Sides : status[s] # "enabled"

\* A command runs in the collision scene it was planned for.
PlanStaysBound == exec # None => exec.scene = scene

\* An event the client never got leaves the controller faulted or stopped, and
\* the drives off, until a reset.
LostEventFailsClosed ==
    lost => /\ lifecycle \in {"FAULT", "ESTOP"}
            /\ \A s \in Sides : ~enabled[s]

\* A challenge taken to arm does not outlive its verification: it is not good
\* to arm later nor to reset a latched fault, but for the fault of a full event
\* ring, which leaves it outstanding.
ChallengeMatchesPhase ==
    /\ lifecycle = "DISARMED" => nonce # "reset"
    /\ lifecycle \in {"CLOSED", "ARMED_IDLE", "EXECUTING"} => nonce # "reset"
    /\ lifecycle \in {"FAULT", "ESTOP"} /\ nonce = "arm" => lost

\* The newest event tells the lifecycle, whichever path led to it, so a client
\* that drains the ring knows where the controller is; the contact report is
\* blank while a command runs and says PLAN_COMPLETE once it has completed.
NewsIsCurrent ==
    CASE lifecycle = "EXECUTING" ->
             /\ news \in {"QUEUED", "STARTED", "SETTLING"} /\ cause = "NONE"
             /\ exec.started <=> news # "QUEUED"
      [] lifecycle = "ARMED_IDLE" ->
             /\ news \in {"ARMED", "STOPPED", "COMPLETED"}
             /\ news = "COMPLETED" => cause = "PLAN_COMPLETE"
      [] lifecycle = "DISARMED" -> news \in {"VERIFIED", "STOPPED", "DISARMED"}
      [] lifecycle = "FAULT" -> news = "FAULTED"
      [] lifecycle = "ESTOP" -> news = "ESTOP"
      [] OTHER -> TRUE

\* COMPLETED is published only after each arm has fed back SettleIntervals
\* generations since the settle dwell began.
CompletionIsMeasured ==
    news = "COMPLETED" => \A s \in Sides : dwelt[s] >= SettleIntervals

\* The drives are powered, moved and cut as MotionPermit says.
Permit ==
    INSTANCE MotionPermit WITH permit <-
        IF \A s \in Sides : ~enabled[s] THEN "off"
        ELSE IF exec # None THEN "moving"
        ELSE IF lifecycle = "ARMED_IDLE" THEN "ready" ELSE "held"
ImplementsPermit == Permit!Spec

\* A command ends, by itself or by its deadline, however often the producer
\* renews its lease and however the arms behave, unless the E-stop is latched.
CommandEnds == exec # None ~> (exec = None \/ asserted)

\* A command only runs down, which is what makes it end.  No call gives it more
\* time or starts it again: heartbeat() renews the producer's lease and not
\* expiry_deadline_ns, and nothing replaces a running command.  Each advance()
\* with the latch clear spends its time of what is left, and none spends more.
RunsDown ==
    exec # None /\ exec' # None =>
      /\ exec'.expiry <= exec.expiry /\ exec'.end <= exec.end
      /\ exec.started => exec'.started
      /\ \A d \in 1..MaxGap :
           ~asserted /\ Advance(d) =>
             exec'.expiry = exec.expiry - d /\ exec'.expiry >= 0
CommandRunsDown == [][RunsDown]_vars

\* control/include/openarm_control.h:564-567, "Once latched, motion is refused
\* and the arms are stopped": after an advance() no drive is on.
EstopStopsArms == asserted /\ cycled => \A s \in Sides : ~enabled[s]
=============================================================================
