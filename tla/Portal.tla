------------------------------- MODULE Portal -------------------------------
(***************************************************************************)
(* The operator portal's command path (openarm_portal.cpp).                *)
(*                                                                         *)
(* HTTP threads evaluate move requests, one urgent thread serves the       *)
(* software stop and the emergency stop, the main thread shuts down, and   *)
(* one executor thread runs every ROS callback: goal responses, results,   *)
(* the route-resume timer, joint states and diagnostics.  mutex_ is held   *)
(* per section and not while a route is planned or a message is sent.      *)
(*                                                                         *)
(* A move holds a reservation while its path is evaluated; move() turns it *)
(* into the one active command, which is a contact goal or a route of legs *)
(* sent one at a time.  The controller is a goal slot: it accepts, ends    *)
(* and cancels goals.  Evidence is whether state and diagnostics are       *)
(* trusted and whether the arms moved since the runner captured its pose.  *)
(***************************************************************************)
EXTENDS Naturals, FiniteSets

CONSTANTS
    Req,         \* move requests
    NoReq,       \* no request
    MaxLegs      \* kMaximumDynamicRouteLegs: the legs a route may have

ASSUME PortalConstants == NoReq \notin Req /\ MaxLegs \in Nat \ {0}

VARIABLES
    gate,        \* command_gate_: the request that holds the reservation
    goalActive,  \* goal_active_
    cancelPending, \* cancel_pending_
    quit,        \* "no", "signalled" (stop_requested) or "stopping" (stopping_)
    legs,        \* route_waypoints_.size(); 0 is an empty route
    index,       \* route_index_
    goalHandle,      \* active_goal_ or active_contact_goal_
    timer,       \* route_resume_timer_ is armed
    trusted,     \* state and diagnostics are valid and fresh
    displaced,   \* the arms moved since the pose was captured
    latch,       \* the portal's emergency-stop latch
    move,         \* each request's place in serve_api
    runner,      \* the executor's place when it submits a leg
    stopper,     \* the urgent and main threads: place, goal handle taken
    goal,        \* the goal at the controller
    cmd,         \* history: the request of the active command
    stopped      \* history: the requests a stop has covered

portalVars == <<gate, goalActive, cancelPending, quit, legs, index, goalHandle, timer,
                trusted, displaced, latch, move, runner, stopper, goal, cmd, stopped>>

MaybeReq == Req \cup {NoReq}
LegSteps == {"begin", "replan", "handoff", "send"}
ReqSteps == {"new", "checked", "guarding", "route", "contact", "ended"} \cup LegSteps
Stoppers == {"urgent", "main"}
NoPortalGoal == [of |-> NoReq, st |-> "none", leg |-> FALSE, cancel |-> FALSE, ok |-> FALSE]

PortalTypeOK ==
    /\ gate \in MaybeReq
    /\ {goalActive, cancelPending, goalHandle, timer, trusted, displaced, latch}
         \subseteq BOOLEAN
    /\ quit \in {"no", "signalled", "stopping"}
    /\ legs \in 0 .. 2 * MaxLegs /\ index \in 0 .. 2 * MaxLegs
    /\ move \in [Req -> ReqSteps]
    /\ runner \in LegSteps \cup {"idle", "schedule", "store"}
    /\ stopper \in [Stoppers -> [at: {"idle", "begun", "cancel", "join", "last", "done"}, took: MaybeReq]]
    /\ goal \in [of: MaybeReq, st: {"none", "sent", "rejected", "accepted", "told", "over"},
                 leg: BOOLEAN, cancel: BOOLEAN, ok: BOOLEAN]
    /\ cmd \in MaybeReq /\ stopped \subseteq Req

PortalInit ==
    /\ gate = NoReq /\ goalActive = FALSE /\ cancelPending = FALSE /\ quit = "no"
    /\ legs = 0 /\ index = 0 /\ goalHandle = FALSE /\ timer = FALSE
    /\ trusted = FALSE /\ displaced = FALSE /\ latch = FALSE
    /\ move = [r \in Req |-> "new"]
    /\ runner = "idle"
    /\ stopper = [s \in Stoppers |-> [at |-> "idle", took |-> NoReq]]
    /\ goal = NoPortalGoal
    /\ cmd = NoReq /\ stopped = {}

route == <<legs, index, timer>>
evidence == <<trusted, displaced>>
control == <<goalActive, cancelPending, quit>>
history == <<cmd, stopped>>

-----------------------------------------------------------------------------
(* The reservation and the evaluation of a move request on an HTTP thread. *)

\* serve_api refuses a move while the emergency stop is latched or on the way out.
serve_api_check(r) ==
    /\ move[r] = "new"
    /\ move' = [move EXCEPT ![r] = IF latch \/ quit # "no" THEN "ended" ELSE "checked"]
    /\ UNCHANGED <<gate, control, route, goalHandle, evidence, latch, runner, stopper, goal,
                   history>>

\* CommandReservationGate::begin through begin_guard: one command or evaluation
\* at a time.
begin_guard(r) ==
    /\ move[r] = "checked"
    /\ IF quit # "no" \/ goalActive \/ gate # NoReq
       THEN /\ move' = [move EXCEPT ![r] = "ended"]
            /\ UNCHANGED gate
       ELSE /\ move' = [move EXCEPT ![r] = "guarding"]
            /\ gate' = r
    /\ UNCHANGED <<control, route, goalHandle, evidence, latch, runner, stopper, goal, history>>

\* GuardReservation's destructor: release_guard gives back only its own token.
Release(r) == gate' = IF gate = r THEN NoReq ELSE gate

\* state() captures the pose; the path is evaluated without the lock, and is
\* refused or becomes a route or a contact approach.
evaluate_guard(r) ==
    /\ move[r] = "guarding"
    /\ \/ /\ trusted
          /\ displaced' = FALSE
          /\ \E k \in {"route", "contact"} : move' = [move EXCEPT ![r] = k]
          /\ UNCHANGED gate
       \/ /\ move' = [move EXCEPT ![r] = "ended"]
          /\ Release(r)
          /\ UNCHANGED displaced
    /\ UNCHANGED <<control, route, goalHandle, trusted, latch, runner, stopper, goal, history>>

\* guard_handoff_valid: trusted evidence and an unchanged pose.
guard_handoff_valid == trusted /\ ~displaced

\* A goal leaves for the controller.
Send(r, leg) == goal' = [of |-> r, st |-> "sent", leg |-> leg, cancel |-> FALSE, ok |-> FALSE]

\* move() with a contact goal: checked, consumed and sent in one section.
move_contact(r) ==
    /\ move[r] = "contact"
    /\ move' = [move EXCEPT ![r] = "ended"]
    /\ \/ /\ gate = r /\ quit = "no" /\ guard_handoff_valid /\ ~goalActive
          /\ goalActive' = TRUE /\ cancelPending' = FALSE
          /\ cmd' = r
          /\ gate' = NoReq
          /\ Send(r, FALSE)
       \/ \* a failed check, no action server, or the send throws
          /\ Release(r)
          /\ UNCHANGED <<goalActive, cancelPending, cmd, goal>>
    /\ UNCHANGED <<quit, route, goalHandle, evidence, latch, runner, stopper, stopped>>

\* move() with a route: the token is consumed and the route stored; its first
\* leg is submitted by this thread without the lock.
move_route(r) ==
    /\ move[r] = "route"
    /\ \/ /\ gate = r /\ quit = "no" /\ guard_handoff_valid /\ ~goalActive
          /\ goalActive' = TRUE /\ cancelPending' = FALSE
          /\ cmd' = r
          /\ gate' = NoReq
          /\ legs' \in 1 .. MaxLegs
          /\ index' = 0
          /\ move' = [move EXCEPT ![r] = "begin"]
       \/ /\ Release(r)
          /\ move' = [move EXCEPT ![r] = "ended"]
          /\ UNCHANGED <<goalActive, cancelPending, cmd, legs, index>>
    /\ UNCHANGED <<quit, goalHandle, timer, evidence, latch, runner, stopper, goal, stopped>>

-----------------------------------------------------------------------------
(* submit_route_leg, run by the thread of a request (leg 0) or by the      *)
(* executor (later legs).                                                  *)

\* The place of a runner, and its next one.
At(r) == IF r = NoReq THEN runner ELSE move[r]
Move(r, to) ==
    IF r = NoReq
    THEN runner' = (IF to = "ended" THEN "idle" ELSE to) /\ UNCHANGED move
    ELSE move' = [move EXCEPT ![r] = to] /\ UNCHANGED runner
LegIsOn == goalActive /\ ~cancelPending /\ quit = "no"

\* Every failure ends the command.
FailLeg(r) ==
    /\ goalActive' = FALSE /\ goalHandle' = FALSE /\ legs' = 0
    /\ Move(r, "ended")

\* The first section: the leg's endpoint and the measured pose are captured.
leg_begin(r) ==
    /\ At(r) = "begin"
    /\ \/ /\ LegIsOn /\ index < legs /\ index < MaxLegs
          /\ displaced' = FALSE
          /\ Move(r, "replan")
          /\ UNCHANGED <<goalActive, goalHandle, legs>>
       \/ /\ ~(LegIsOn /\ index < legs /\ index < MaxLegs)
          /\ FailLeg(r)
          /\ UNCHANGED displaced
    /\ UNCHANGED <<gate, cancelPending, quit, index, timer, trusted, latch, stopper,
                   goal, history>>

\* A stale pose, no path or a changed route ends it; else the rest of the route
\* is the new plan (a retreat keeps the one it has).
leg_replan(r) ==
    /\ At(r) = "replan"
    /\ \/ /\ LegIsOn /\ index < legs
          /\ \E n \in 1 .. MaxLegs : legs' = index + n
          /\ Move(r, "handoff")
          /\ UNCHANGED <<goalActive, goalHandle>>
       \/ FailLeg(r)
    /\ UNCHANGED <<gate, cancelPending, quit, index, timer, evidence, latch, stopper,
                   goal, history>>

\* The edge is proved from the captured pose, which must still be the measured
\* one when the goal is handed over.
leg_handoff(r) ==
    /\ At(r) = "handoff"
    /\ \/ /\ LegIsOn /\ guard_handoff_valid
          /\ Move(r, "send")
          /\ UNCHANGED <<goalActive, goalHandle, legs>>
       \/ FailLeg(r)
    /\ UNCHANGED <<gate, cancelPending, quit, index, timer, evidence, latch, stopper,
                   goal, history>>

\* async_send_goal, outside the lock.
leg_send(r) ==
    /\ At(r) = "send"
    /\ \/ /\ Send(IF r = NoReq THEN cmd ELSE r, TRUE)
          /\ Move(r, "ended")
          /\ UNCHANGED <<goalActive, cancelPending, goalHandle, legs>>
       \/ /\ FailLeg(r)
          /\ cancelPending' = FALSE
          /\ UNCHANGED goal
    /\ UNCHANGED <<gate, quit, index, timer, evidence, latch, stopper, history>>

-----------------------------------------------------------------------------
(* Callbacks of the executor.                                              *)

ExecutorFree == runner = "idle"

\* A goal response that does not see the stop which overtook it.
goal_response_forgets ==
    /\ ExecutorFree
    /\ \/ /\ goal.st = "rejected"
          /\ goal' = NoPortalGoal
          /\ goalActive' = FALSE /\ cancelPending' = FALSE /\ legs' = 0
          /\ goalHandle' = FALSE
       \/ /\ goal.st = "accepted"
          /\ goalHandle' = TRUE
          /\ goal' = [goal EXCEPT !.st = "told",
                        !.cancel = @ \/ (goal.leg /\ legs = 0)]
          /\ UNCHANGED <<goalActive, cancelPending, legs>>
    /\ UNCHANGED <<gate, quit, index, timer, evidence, latch, move, runner, stopper,
                   history>>

\* goal_response_callback: a rejected goal ends the command; an accepted one
\* that a stop has overtaken is cancelled at once.
goal_response ==
    /\ ExecutorFree
    /\ \/ /\ goal.st = "rejected"
          /\ goal' = NoPortalGoal
          /\ goalActive' = FALSE /\ cancelPending' = FALSE /\ legs' = 0
          /\ goalHandle' = FALSE
       \/ /\ goal.st = "accepted"
          /\ goalHandle' = TRUE
          /\ goal' = [goal EXCEPT !.st = "told",
                        !.cancel = @ \/ cancelPending \/ (goal.leg /\ legs = 0)]
          /\ UNCHANGED <<goalActive, cancelPending, legs>>
    /\ UNCHANGED <<gate, quit, index, timer, evidence, latch, move, runner, stopper,
                   history>>

\* result_callback: the next leg follows a completed one, else the command ends.
goal_result ==
    /\ ExecutorFree
    /\ goal.st = "over"
    /\ goal' = NoPortalGoal
    /\ goalHandle' = FALSE
    /\ IF goal.leg /\ goal.ok /\ ~cancelPending /\ quit # "stopping" /\ index + 1 < legs
       THEN /\ index' = index + 1
            /\ runner' = "schedule"
            /\ UNCHANGED <<goalActive, cancelPending, legs>>
       ELSE /\ goalActive' = FALSE /\ cancelPending' = FALSE
            /\ legs' = IF goal.leg THEN 0 ELSE legs
            /\ UNCHANGED <<index, runner>>
    /\ UNCHANGED <<gate, quit, timer, evidence, latch, move, stopper, history>>

\* schedule_route_leg: its first section ends a command that has been stopped;
\* its second, after the timer is made, only drops the timer.
schedule_route_leg ==
    /\ runner = "schedule"
    /\ IF LegIsOn /\ index < legs
       THEN runner' = "store" /\ timer' = FALSE /\ UNCHANGED <<goalActive, legs>>
       ELSE runner' = "idle" /\ goalActive' = FALSE /\ legs' = 0 /\ UNCHANGED timer
    /\ UNCHANGED <<gate, cancelPending, quit, index, goalHandle, evidence, latch, move,
                   stopper, goal, history>>

store_resume_timer ==
    /\ runner = "store"
    /\ runner' = "idle"
    /\ timer' = (LegIsOn /\ index < legs)
    /\ UNCHANGED <<gate, control, legs, index, goalHandle, evidence, latch, move, stopper,
                   goal, history>>

\* The resume timer: submit the leg once idle diagnostics are fresh, give the
\* route up at the deadline, or stop polling a route that has changed.
resume_timer ==
    /\ ExecutorFree
    /\ timer
    /\ timer' = FALSE
    /\ \/ /\ LegIsOn /\ index < legs /\ trusted
          /\ runner' = "begin"
          /\ UNCHANGED <<goalActive, goalHandle, legs>>
       \/ /\ LegIsOn /\ index < legs /\ ~trusted
          /\ goalActive' = FALSE /\ goalHandle' = FALSE /\ legs' = 0
          /\ UNCHANGED runner
       \/ /\ ~(LegIsOn /\ index < legs)
          /\ UNCHANGED <<goalActive, goalHandle, legs, runner>>
    /\ UNCHANGED <<gate, cancelPending, quit, index, evidence, latch, move, stopper,
                   goal, history>>

\* update_state and update_diagnostics.
update_evidence ==
    /\ ExecutorFree
    /\ trusted' \in BOOLEAN
    /\ displaced' \in BOOLEAN
    /\ <<trusted', displaced'>> # <<trusted, displaced>>
    /\ UNCHANGED <<gate, control, route, goalHandle, latch, move, runner, stopper, goal, history>>

\* fresh_at_use: evidence ages whatever the threads do.
evidence_ages ==
    /\ trusted
    /\ trusted' = FALSE
    /\ UNCHANGED <<gate, control, route, goalHandle, displaced, latch, move, runner, stopper,
                   goal, history>>

-----------------------------------------------------------------------------
(* Stops: cancel() on the urgent and the main thread.                      *)

\* A cancel() that is remembered only where there is a goal to cancel.
CancelNeedsHandle(s, then) ==
    /\ gate' = NoReq
    /\ cancelPending' = goalHandle
    /\ timer' = FALSE
    /\ legs' = 0
    /\ stopper' = [stopper EXCEPT ![s] = [at |-> then,
                                          took |-> IF goalHandle THEN goal.of ELSE NoReq]]
    /\ stopped' = (stopped \cup {gate} \cup (IF goalActive THEN {cmd} ELSE {})) \ {NoReq}
    /\ UNCHANGED <<goalActive, quit, index, goalHandle, evidence, latch, move, runner, goal, cmd>>

\* cancel()'s section: everything a later step could continue is withdrawn.
Cancel(s, then) ==
    /\ gate' = NoReq
    /\ cancelPending' = goalActive
    /\ timer' = FALSE
    /\ legs' = 0
    /\ stopper' = [stopper EXCEPT ![s] = [at |-> then,
                                          took |-> IF goalHandle THEN goal.of ELSE NoReq]]
    /\ stopped' = (stopped \cup {gate} \cup (IF goalActive THEN {cmd} ELSE {})) \ {NoReq}
    /\ UNCHANGED <<goalActive, quit, index, goalHandle, evidence, latch, move, runner, goal, cmd>>

\* POST /api/stop.
api_stop == quit = "no" /\ stopper["urgent"].at = "idle" /\ Cancel("urgent", "cancel")

\* POST /api/estop: engage_estop latches first and then calls cancel().
engage_estop ==
    /\ stopper["urgent"].at = "idle"
    /\ quit = "no"
    /\ latch' = TRUE
    /\ stopper' = [stopper EXCEPT !["urgent"].at = "begun"]
    /\ UNCHANGED <<gate, control, route, goalHandle, evidence, move, runner, goal, history>>

release_estop ==
    /\ stopper["urgent"].at = "idle"
    /\ quit = "no"
    /\ latch
    /\ latch' = FALSE
    /\ UNCHANGED <<gate, control, route, goalHandle, evidence, move, runner, stopper, goal,
                   history>>

\* SIGINT or SIGTERM; the main thread leaves its accept loop and begins to stop.
signal_handler ==
    /\ quit = "no"
    /\ quit' = "signalled"
    /\ UNCHANGED <<gate, goalActive, cancelPending, route, goalHandle, evidence, latch, move,
                   runner, stopper, goal, history>>

begin_shutdown ==
    /\ quit = "signalled"
    /\ quit' = "stopping"
    /\ stopper' = [stopper EXCEPT !["main"].at = "begun"]
    /\ UNCHANGED <<gate, goalActive, cancelPending, route, goalHandle, evidence, latch, move,
                   runner, goal, history>>

\* The emergency stop and the shutdown go on to cancel(); the main thread calls
\* it again once the HTTP threads have ended.
cancel_begun(s) == stopper[s].at = "begun" /\ Cancel(s, "cancel")
cancel_again ==
    /\ stopper["main"].at = "join"
    /\ stopper["urgent"].at = "idle"
    /\ \A r \in Req : move[r] \in {"new", "ended"}
    /\ Cancel("main", "last")

\* async_cancel_goal of the goal whose handle was taken.
async_cancel_goal(s) ==
    /\ stopper[s].at \in {"cancel", "last"}
    /\ stopper' = [stopper EXCEPT ![s] = [
                     at |-> CASE s = "urgent" -> "idle"
                              [] stopper[s].at = "last" -> "done"
                              [] OTHER -> "join",
                     took |-> NoReq]]
    /\ goal' = IF goal.st = "told" /\ goal.of = stopper[s].took
               THEN [goal EXCEPT !.cancel = TRUE] ELSE goal
    /\ UNCHANGED <<gate, control, route, goalHandle, evidence, latch, move, runner, history>>

-----------------------------------------------------------------------------
(* The controller's action server.                                         *)

controller_answers ==
    /\ goal.st = "sent"
    /\ \E verdict \in {"accepted", "rejected"} : goal' = [goal EXCEPT !.st = verdict]
    /\ UNCHANGED <<gate, control, route, goalHandle, evidence, latch, move, runner, stopper,
                   history>>

\* A motion completes, fails or honours a cancel.
controller_ends ==
    /\ goal.st = "told"
    /\ \E ok \in BOOLEAN : goal' = [goal EXCEPT !.st = "over", !.ok = ok]
    /\ UNCHANGED <<gate, control, route, goalHandle, evidence, latch, move, runner, stopper,
                   history>>

-----------------------------------------------------------------------------

HttpThread(r) ==
    \/ serve_api_check(r) \/ begin_guard(r) \/ evaluate_guard(r)
    \/ move_contact(r) \/ move_route(r)
    \/ leg_begin(r) \/ leg_replan(r) \/ leg_handoff(r) \/ leg_send(r)

Executor ==
    \/ goal_response \/ goal_result
    \/ schedule_route_leg \/ store_resume_timer \/ resume_timer
    \/ leg_begin(NoReq) \/ leg_replan(NoReq) \/ leg_handoff(NoReq) \/ leg_send(NoReq)

StopThreads ==
    \/ api_stop \/ engage_estop \/ release_estop
    \/ signal_handler \/ begin_shutdown \/ cancel_again
    \/ \E s \in Stoppers : cancel_begun(s) \/ async_cancel_goal(s)

PortalNext ==
    \/ \E r \in Req : HttpThread(r)
    \/ Executor \/ update_evidence \/ evidence_ages \/ StopThreads
    \/ controller_answers \/ controller_ends

PortalSpec == PortalInit /\ [][PortalNext]_portalVars

-----------------------------------------------------------------------------
(* Properties.                                                             *)

\* While the controller holds a goal of the portal, goal_active_ is set for the
\* request that goal belongs to, so begin_guard and move() keep a second command
\* out whatever stops, rejections and late results came between.
GoalIsCovered == goal.st # "none" => goalActive /\ goal.of = cmd

\* A command that is over leaves no leg, timer or submission behind that could
\* go on for it: what runs on an executor or HTTP thread belongs to a live command.
NothingRunsOn ==
    ~goalActive => /\ ~timer /\ runner \notin LegSteps
                   /\ \A r \in Req : move[r] \notin LegSteps

\* A stop reaches every request it finds, evaluating, between legs, handed over
\* but not yet answered or moving: the controller is rid of it for good.
StopSticks == \A r \in Req : r \in stopped ~> [](goal.of # r)

\* The safety of StopSticks: what a stop has found never has the reservation again;
\* its command takes no further leg (LegIsOn), whatever finishes, fails or is stopped
\* again meanwhile; and once the controller's acceptance is known its goal is being
\* canceled, by goal_response or by the thread that took its handle (cancel).
StopIsUnderWay ==
    \A r \in stopped :
        /\ gate # r
        /\ goalActive /\ cmd = r => cancelPending
        /\ goal.of = r /\ goal.st = "told" =>
             goal.cancel \/ \E s \in Stoppers : stopper[s].took = r

\* One command at a time, from the handover to its last callback (move,
\* submit_route_leg, the goal and result callbacks, cancel).
OneCommand == GoalIsCovered /\ NothingRunsOn

\* One command, and none that a stop has found.
PortalIsSound == OneCommand /\ StopIsUnderWay
=============================================================================
