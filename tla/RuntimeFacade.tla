---------------------------- MODULE RuntimeFacade ----------------------------
(***************************************************************************)
(* The native runtime (runtime/src/runtime.cpp, calibration.cpp): a facade *)
(* over one simulated controller, called from several threads, with a      *)
(* worker thread that advances the controller every cycle.                 *)
(*                                                                         *)
(* A published plan pauses the worker so that the plan's exact feedback    *)
(* sequence stays current; the plan holds the pause until it is executed,  *)
(* destroyed or expired.  Motion and calibration share one lease.     *)
(* The runtime mutex protects the lease and the pause; calls release it    *)
(* between their check and the controller call, so a call is several steps *)
(* here.  The controller is reduced to its lifecycle and to whether the    *)
(* feedback a plan was made from is still current.                         *)
(***************************************************************************)
EXTENDS Naturals, FiniteSets

CONSTANTS
    Thread,     \* threads that call the runtime
    Plan,       \* plan objects
    Session,    \* calibration session objects
    NoPlan      \* no plan

ASSUME RuntimeConstants == NoPlan \notin Plan

VARIABLES
    lease,       \* 0 free, 1 motion, 2 calibration
    pause,       \* the plan whose authority pauses the worker (plan_pending)
    authority,   \* plan_authority_id: the last plan that took the authority
    plan,        \* plan objects
    session,     \* calibration session objects
    safe,        \* the facade's interlocks: no estop, and the deadman held
    ctl,         \* the controller: lifecycle and its own interlocks
    gone,     \* the runtime was destroyed
    worker,      \* where the worker thread is
    call,        \* what each thread is doing
    executed     \* history: how often the controller took each plan

runtimeVars == <<lease, pause, authority, plan, session, safe, ctl, gone,
                 worker, call, executed>>

RuntimeLives == {"DISARMED", "ARMED_IDLE", "EXECUTING", "FAULT"}
CallSteps == {"idle", "plan_build", "exec_lower", "exec_done", "disarm_lease",
              "interlock_lower", "begin_create"}

NoObject == [state |-> "none", holds |-> FALSE, fresh |-> FALSE, expired |-> FALSE]
NoCall == [at |-> "idle", plan |-> NoPlan, safe |-> FALSE]

RuntimeTypeOK ==
    /\ lease \in {0, 1, 2}
    /\ pause \in BOOLEAN
    /\ authority \in Plan \cup {NoPlan}
    /\ plan \in [Plan -> [state: {"none", "building", "handle", "orphan"},
                          holds: BOOLEAN, fresh: BOOLEAN, expired: BOOLEAN]]
    /\ session \in [Session -> {"none", "open", "finished"}]
    /\ safe \in BOOLEAN
    /\ ctl \in [life: RuntimeLives, safe: BOOLEAN]
    /\ gone \in BOOLEAN
    /\ worker \in {"wait", "advance", "joined"}
    /\ call \in [Thread -> [at: CallSteps, plan: Plan \cup {NoPlan} \cup Session,
                            safe: BOOLEAN]]
    /\ executed \in [Plan -> 0 .. 2]

RuntimeInit ==
    /\ lease = 0
    /\ pause = FALSE
    /\ authority = NoPlan
    /\ plan = [p \in Plan |-> NoObject]
    /\ session = [s \in Session |-> "none"]
    /\ safe = FALSE
    /\ ctl = [life |-> "DISARMED", safe |-> FALSE]
    /\ gone = FALSE
    /\ worker = "wait"
    /\ call = [t \in Thread |-> NoCall]
    /\ executed = [p \in Plan |-> 0]

-----------------------------------------------------------------------------
(* Parts of calls.                                                         *)

\* require_runtime: the thread has no call running and the runtime is open.
require_runtime(t) == call[t].at = "idle" /\ ~gone

Enter(t, at, p) == call' = [call EXCEPT ![t].at = at, ![t].plan = p]
Leave(t) == call' = [call EXCEPT ![t] = NoCall]

\* Another thread is inside a call that holds a reference to plan p.
PinnedByOther(t, p) == \E u \in Thread \ {t} : call[u].plan = p

\* A destructor that leaves the pause.
PlanDestructorKeepsPause(p) ==
    /\ plan' = [plan EXCEPT ![p] = NoObject]
    /\ executed' = [executed EXCEPT ![p] = 0]
    /\ UNCHANGED pause

\* ~PlanData: a plan that dies with the authority ends the pause.
PlanDestructor(p) ==
    /\ plan' = [plan EXCEPT ![p] = NoObject]
    /\ executed' = [executed EXCEPT ![p] = 0]
    /\ pause' = IF plan[p].holds /\ authority = p THEN FALSE ELSE pause

PlanKept == UNCHANGED <<plan, executed, pause>>

\* The thread drops its reference; the last one runs the destructor.
Unpin(t, p) ==
    IF plan[p].state = "orphan" /\ ~PinnedByOther(t, p)
    THEN PlanDestructor(p) ELSE PlanKept

\* Feedback moved on: plans made before no longer match the controller.
Stale == [p \in Plan |-> [plan[p] EXCEPT !.fresh = FALSE]]

-----------------------------------------------------------------------------
(* Arming, disarming and the interlocks.                                   *)

\* Under the runtime mutex: the lease must be free and the interlocks clear in
\* the facade and in the controller.
arm_virtual(t) ==
    /\ require_runtime(t)
    /\ lease = 0
    /\ safe /\ ctl.safe /\ ctl.life = "DISARMED"
    /\ ctl' = [ctl EXCEPT !.life = "ARMED_IDLE"]
    /\ lease' = 1
    /\ UNCHANGED <<pause, authority, plan, session, safe, gone, worker, call, executed>>

\* The controller disarms first; the lease follows in a second step.
disarm(t) ==
    /\ require_runtime(t)
    /\ ctl.life # "FAULT"
    /\ ctl' = [ctl EXCEPT !.life = "DISARMED"]
    /\ Enter(t, "disarm_lease", NoPlan)
    /\ UNCHANGED <<lease, pause, authority, plan, session, safe, gone, worker, executed>>

disarm_lease(t) ==
    /\ call[t].at = "disarm_lease"
    /\ lease' = IF lease = 1 THEN 0 ELSE lease
    /\ Leave(t)
    /\ UNCHANGED <<pause, authority, plan, session, safe, ctl, gone, worker, executed>>

\* A stop either keeps the arms enabled or disarms them; the lease stays.
stop(t) ==
    /\ require_runtime(t)
    /\ ctl.life \in {"ARMED_IDLE", "EXECUTING"}
    /\ \E l \in {"ARMED_IDLE", "DISARMED"} : ctl' = [ctl EXCEPT !.life = l]
    /\ UNCHANGED <<lease, pause, authority, plan, session, safe, gone, worker,
                   call, executed>>

\* The facade's copy of the interlocks is set first, the controller's next.
set_interlock(t) ==
    /\ require_runtime(t)
    /\ \E ok \in BOOLEAN :
         /\ safe' = ok
         /\ call' = [call EXCEPT ![t].at = "interlock_lower", ![t].safe = ok]
    /\ UNCHANGED <<lease, pause, authority, plan, session, ctl, gone, worker, executed>>

\* An armed controller that loses the deadman or sees the stop faults.
set_interlock_lower(t) ==
    /\ call[t].at = "interlock_lower"
    /\ ctl' = [life |-> IF ctl.life \in {"ARMED_IDLE", "EXECUTING"} /\ ~call[t].safe
                        THEN "FAULT" ELSE ctl.life,
               safe |-> call[t].safe]
    /\ Leave(t)
    /\ UNCHANGED <<lease, pause, authority, plan, session, safe, gone, worker, executed>>

-----------------------------------------------------------------------------
(* Planning: joint, paired and converging plans take the same path.        *)

\* Under the runtime mutex a new plan takes the authority and the pause.
TakeAuthority(t) ==
    /\ require_runtime(t)
    /\ lease = 1 /\ ~pause
    /\ \E p \in Plan :
         /\ plan[p].state = "none"
         /\ plan' = [plan EXCEPT ![p] = [state |-> "building", holds |-> TRUE,
                                         fresh |-> FALSE, expired |-> FALSE]]
         /\ authority' = p
         /\ Enter(t, "plan_build", p)
    /\ pause' = TRUE
    /\ UNCHANGED <<lease, session, safe, ctl, gone, worker, executed>>

plan_joint(t) == TakeAuthority(t)
plan_paired_tcp_body(t) == TakeAuthority(t)
plan_converge_tcp_body(t) == TakeAuthority(t)

\* Under the controller mutex: expired, stale feedback or refused by the
\* planner, and the plan object dies; else its handle is published.
plan_build(t) ==
    LET p == call[t].plan IN
    /\ call[t].at = "plan_build"
    /\ Leave(t)
    /\ \/ /\ ctl.life = "ARMED_IDLE" /\ ~plan[p].expired
          /\ plan' = [plan EXCEPT ![p].state = "handle", ![p].fresh = TRUE]
          /\ UNCHANGED <<pause, executed>>
       \/ PlanDestructor(p)
    /\ UNCHANGED <<lease, authority, session, safe, ctl, gone, worker>>

\* oa_runtime_plan_destroy: the handle goes; the object may be pinned.
plan_destroy(t) ==
    /\ call[t].at = "idle"
    /\ \E p \in Plan :
         /\ plan[p].state = "handle"
         /\ \/ /\ PinnedByOther(t, p)
               /\ plan' = [plan EXCEPT ![p].state = "orphan"]
               /\ UNCHANGED <<pause, executed>>
            \/ /\ ~PinnedByOther(t, p)
               /\ PlanDestructor(p)
    /\ UNCHANGED <<lease, authority, session, safe, ctl, gone, worker, call>>

-----------------------------------------------------------------------------
(* Executing.                                                              *)

\* The plan's own mutex lets one execution of it run at a time; the runtime
\* mutex is held for the check of the authority only.
execute_check(t) ==
    /\ require_runtime(t)
    /\ \E p \in Plan :
         /\ plan[p].state = "handle"
         /\ \A u \in Thread : call[u].plan # p
         /\ plan[p].holds /\ pause /\ authority = p
         /\ \/ /\ plan[p].expired
               /\ plan' = [plan EXCEPT ![p].holds = FALSE]
               /\ pause' = FALSE
               /\ UNCHANGED call
            \/ /\ ~plan[p].expired
               /\ Enter(t, "exec_lower", p)
               /\ UNCHANGED <<plan, pause>>
    /\ UNCHANGED <<lease, authority, session, safe, ctl, gone, worker, executed>>

\* The controller takes the plan if it is idle and the feedback is the plan's.
execute_lower(t) ==
    LET p == call[t].plan IN
    /\ call[t].at = "exec_lower"
    /\ \/ /\ ctl.life = "ARMED_IDLE" /\ plan[p].fresh
          /\ ctl' = [ctl EXCEPT !.life = "EXECUTING"]
          /\ executed' = [executed EXCEPT ![p] = @ + 1]
          /\ Enter(t, "exec_done", p)
          /\ UNCHANGED <<pause, plan>>
       \/ /\ Leave(t)
          /\ Unpin(t, p)
          /\ UNCHANGED ctl
    /\ UNCHANGED <<lease, authority, session, safe, gone, worker>>

\* Success gives up the authority, and the pause if it is still this plan's.
execute_done(t) ==
    LET p == call[t].plan IN
    /\ call[t].at = "exec_done"
    /\ Leave(t)
    /\ pause' = IF authority = p THEN FALSE ELSE pause
    /\ IF plan[p].state = "orphan" /\ ~PinnedByOther(t, p)
       THEN /\ plan' = [plan EXCEPT ![p] = NoObject]
            /\ executed' = [executed EXCEPT ![p] = 0]
       ELSE /\ plan' = [plan EXCEPT ![p].holds = FALSE]
            /\ UNCHANGED executed
    /\ UNCHANGED <<lease, authority, session, safe, ctl, gone, worker>>

-----------------------------------------------------------------------------
(* The worker.                                                             *)

\* Not paused: the worker leaves the mutex to advance the controller.
worker_cycle ==
    /\ worker = "wait" /\ ~gone /\ ~pause
    /\ worker' = "advance"
    /\ UNCHANGED <<lease, pause, authority, plan, session, safe, ctl, gone, call, executed>>

\* One cycle of the controller: feedback moves on, a command may complete,
\* a fault may latch.
worker_advance ==
    /\ worker = "advance"
    /\ plan' = Stale
    /\ \E l \in RuntimeLives :
         /\ l \in {ctl.life}
              \cup (IF ctl.life = "EXECUTING" THEN {"ARMED_IDLE", "FAULT"} ELSE {})
              \cup (IF ctl.life = "ARMED_IDLE" THEN {"FAULT"} ELSE {})
         /\ ctl' = [ctl EXCEPT !.life = l]
    /\ worker' = "wait"
    /\ UNCHANGED <<lease, pause, authority, session, safe, gone, call, executed>>

\* An expiry that applies to plans with current feedback only.
worker_expire_fresh ==
    /\ worker = "wait" /\ ~gone /\ pause
    /\ plan[authority].expired /\ plan[authority].fresh
    /\ pause' = FALSE
    /\ UNCHANGED <<lease, authority, plan, session, safe, ctl, gone, worker,
                   call, executed>>

\* A paused worker ends the pause once the plan's expiry has passed.
worker_expire ==
    /\ worker = "wait" /\ ~gone /\ pause
    /\ plan[authority].expired
    /\ pause' = FALSE
    /\ UNCHANGED <<lease, authority, plan, session, safe, ctl, gone, worker,
                   call, executed>>

worker_exit ==
    /\ worker = "wait" /\ gone
    /\ worker' = "joined"
    /\ UNCHANGED <<lease, pause, authority, plan, session, safe, ctl, gone, call,
                   executed>>

\* The clock passes a plan's expiry.
PlanExpires ==
    /\ \E p \in Plan :
         /\ plan[p].state # "none" /\ ~plan[p].expired
         /\ plan' = [plan EXCEPT ![p].expired = TRUE]
    /\ UNCHANGED <<lease, pause, authority, session, safe, ctl, gone, worker, call,
                   executed>>

runtime_destroy(t) ==
    /\ require_runtime(t)
    /\ gone' = TRUE
    /\ UNCHANGED <<lease, pause, authority, plan, session, safe, ctl, worker, call,
                   executed>>

-----------------------------------------------------------------------------
(* Calibration sessions.                                                   *)

\* ~CalibrationData: whatever session dies, a calibration lease is released.
LeaseAfterDestructor == IF lease = 2 THEN 0 ELSE lease

\* The session object exists before the lease is looked at: when the lease is
\* taken the call answers EBUSY and the object's destructor runs.
BeginCalibration(t) ==
    /\ call[t].at = "idle"
    /\ \/ /\ gone \/ lease # 0
          /\ lease' = LeaseAfterDestructor
          /\ UNCHANGED call
       \/ /\ ~gone /\ lease = 0
          /\ lease' = 2
          /\ \E s \in Session :
               /\ session[s] = "none"
               /\ \A u \in Thread : call[u].plan # s
               /\ Enter(t, "begin_create", s)
    /\ UNCHANGED <<pause, authority, plan, session, safe, ctl, gone, worker, executed>>

calibration_manual_begin(t) == BeginCalibration(t)
calibration_recipe_begin(t) == BeginCalibration(t)

\* The commissioning session is created and published, or the lease is given
\* back.
calibration_create(t) ==
    LET s == call[t].plan IN
    /\ call[t].at = "begin_create"
    /\ Leave(t)
    /\ \/ /\ session' = [session EXCEPT ![s] = "open"]
          /\ UNCHANGED lease
       \/ /\ lease' = 0
          /\ UNCHANGED session
    /\ UNCHANGED <<pause, authority, plan, safe, ctl, gone, worker, executed>>

\* The session is finished and a calibration lease returned.
FinishCalibration(t) ==
    /\ call[t].at = "idle"
    /\ \E s \in Session :
         /\ session[s] = "open"
         /\ session' = [session EXCEPT ![s] = "finished"]
    /\ lease' = IF lease = 2 THEN 0 ELSE lease
    /\ UNCHANGED <<pause, authority, plan, safe, ctl, gone, worker, call, executed>>

\* A commit publishes the patched manifest; an abort only ends the session.
calibration_manual_commit(t) == FinishCalibration(t)
calibration_recipe_commit(t) == FinishCalibration(t)
calibration_abort(t) == FinishCalibration(t)

calibration_destroy(t) ==
    /\ call[t].at = "idle"
    /\ \E s \in Session :
         /\ session[s] # "none"
         /\ session' = [session EXCEPT ![s] = "none"]
    /\ lease' = LeaseAfterDestructor
    /\ UNCHANGED <<pause, authority, plan, safe, ctl, gone, worker, call, executed>>

-----------------------------------------------------------------------------

RuntimeWorker == worker_cycle \/ worker_advance \/ worker_expire \/ worker_exit

CallGoesOn(t) ==
    \/ disarm_lease(t) \/ set_interlock_lower(t)
    \/ plan_build(t) \/ execute_lower(t) \/ execute_done(t)
    \/ calibration_create(t)

ArmCalls(t) ==
    arm_virtual(t) \/ disarm(t) \/ stop(t) \/ set_interlock(t) \/ runtime_destroy(t)

PlanCalls(t) ==
    \/ plan_joint(t) \/ plan_paired_tcp_body(t) \/ plan_converge_tcp_body(t)
    \/ plan_destroy(t) \/ execute_check(t)

CalibrationCalls(t) ==
    \/ calibration_manual_begin(t) \/ calibration_recipe_begin(t)
    \/ calibration_manual_commit(t) \/ calibration_recipe_commit(t)
    \/ calibration_abort(t) \/ calibration_destroy(t)

RuntimeNext ==
    \/ RuntimeWorker
    \/ PlanExpires
    \/ \E t \in Thread :
         CallGoesOn(t) \/ ArmCalls(t) \/ PlanCalls(t) \/ CalibrationCalls(t)

RuntimeSpec == RuntimeInit /\ [][RuntimeNext]_runtimeVars

-----------------------------------------------------------------------------
(* Properties.                                                             *)

\* The controller is paused only for a plan that still exists and holds the
\* authority: no order of expiry, execution, destruction and replacement
\* leaves a pause nobody can end by executing or destroying a plan.
PauseHasHolder ==
    pause => /\ authority \in Plan
             /\ plan[authority].state # "none"
             /\ plan[authority].holds

\* The controller takes a plan at most once, whichever threads execute it.
PlanTakenOnce == \A p \in Plan : executed[p] <= 1

\* A pause ends: the plan is executed or destroyed, or the worker expires it.
PauseEnds == pause ~> (~pause \/ gone)

\* The lease is exclusive: while a calibration session is open it has the
\* lease, so that motion cannot be armed and no second session can begin.
LeaseIsExclusive ==
    (\E s \in Session : session[s] = "open") => lease = 2

\* A plan's authority is used once and never outlives the plan (~PlanData,
\* oa_runtime_execute, oa_runtime_plan_destroy, the worker's expiry).
PlanAuthorityIsSound == PauseHasHolder /\ PlanTakenOnce
=============================================================================
