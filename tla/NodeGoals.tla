------------------------------ MODULE NodeGoals ------------------------------
(***************************************************************************)
(* The action servers of the ROS node (openarm_ik_ros_node.cpp) between    *)
(* rclcpp and a control session.                                           *)
(*                                                                         *)
(* One executor thread runs the goal, accept and cancel callbacks and the  *)
(* services, one at a time; the session's worker answers a command through *)
(* the closures the node gave it, on its own thread.  A goal is known to   *)
(* its client by the state of its rclcpp handle.  The session is reduced   *)
(* to what its callers see; VirtualSession has the whole of it.            *)
(*                                                                         *)
(* rclcpp (external): a cancel callback that accepts is followed by the    *)
(* handle's move to CANCELING; canceled() throws unless the handle is      *)
(* there, succeed() and abort() throw unless it is active; a handle        *)
(* dropped by its last owner while active becomes CANCELED.                *)
(***************************************************************************)
EXTENDS Naturals, FiniteSets

CONSTANTS
    NodeGoal,   \* requests, each made once
    NoRequest   \* no request

ASSUME NodeConstants == NoRequest \notin NodeGoal

VARIABLES
    server,     \* the server each request went to
    handle,     \* the rclcpp state of each request's handle
    exec,       \* the executor: [at, goal]
    sess,       \* owner, pending, active, cancel, ending and state of the session
    told,       \* the outcome each request's terminal closure was called with
    context     \* the rclcpp context is valid

nodeVars == <<server, handle, exec, sess, told, context>>

Ended == {"SUCCEEDED", "CANCELED", "ABORTED"}
Live == {"EXECUTING", "CANCELING"}
Servers == {"joint", "gripper", "paired", "scaled", "bimanual"}
HasHandle(g) == server[g] \in Servers
NoExec == [at |-> "idle", goal |-> NoRequest]
MaybeRequest == NodeGoal \cup {NoRequest}

NodeTypeOK ==
    /\ server \in [NodeGoal -> Servers \cup {"none", "legacy", "neutral"}]
    /\ handle \in [NodeGoal -> {"new", "rejected", "submitted"} \cup Live \cup Ended]
    /\ exec \in [at: {"idle", "accept", "cancel", "done"}, goal: MaybeRequest]
    /\ sess \in [owner: MaybeRequest, pending: MaybeRequest, active: MaybeRequest, cancel: MaybeRequest,
                 ending: MaybeRequest, out: {"none", "completed", "canceled", "aborted"},
                 state: {"up", "stopped", "fault", "closing"}]
    /\ told \in [NodeGoal -> {"none", "completed", "canceled", "aborted", "rejected"}]
    /\ context \in BOOLEAN

NodeInit ==
    /\ server = [g \in NodeGoal |-> "none"]
    /\ handle = [g \in NodeGoal |-> "new"] /\ exec = NoExec
    /\ sess = [owner |-> NoRequest, pending |-> NoRequest, active |-> NoRequest,
               cancel |-> NoRequest, ending |-> NoRequest, out |-> "none", state |-> "up"]
    /\ told = [g \in NodeGoal |-> "none"] /\ context = TRUE

-----------------------------------------------------------------------------
(* Goal callbacks: check, reserve, accept.                                 *)

\* The session's reserve().
MayReserve == sess.state = "up" /\ sess.owner = NoRequest

\* A request is refused because it is malformed, stale, from the future or unstamped
\* (valid_stamp), or because the session is taken; otherwise it holds the reservation
\* and the executor goes on to its accept callback.
OnGoal(g, s) ==
    /\ server' = [server EXCEPT ![g] = s]
    /\ context /\ exec = NoExec /\ handle[g] = "new"
    /\ \/ /\ handle' = [handle EXCEPT ![g] = "rejected"]
          /\ UNCHANGED <<exec, sess>>
       \/ /\ MayReserve
          /\ handle' = [handle EXCEPT ![g] = IF s \in Servers THEN "EXECUTING" ELSE "submitted"]
          /\ sess' = [sess EXCEPT !.owner = g]
          /\ exec' = [at |-> "accept", goal |-> g]
    /\ UNCHANGED <<told, context>>

on_joint_goal(g) == OnGoal(g, "joint")
on_gripper_goal(g) == OnGoal(g, "gripper")
on_paired_goal(g) == OnGoal(g, "paired")
on_scaled_paired_goal(g) == OnGoal(g, "scaled")
on_bimanual_goal(g) == OnGoal(g, "bimanual")
\* on_legacy and the neutral service reserve, and go on in the same callback.
on_legacy(g) == OnGoal(g, "legacy")
neutral_service(g) == OnGoal(g, "neutral")

\* finish_goal: what it makes of the handle, or "failed".
goal_publishable(g) == context /\ handle[g] \in Live
finish_goal(g, out) ==
    IF ~HasHandle(g) THEN handle[g]
    ELSE IF ~goal_publishable(g) THEN "failed"
    ELSE IF out = "completed" THEN "SUCCEEDED"
    ELSE IF out = "canceled" THEN IF handle[g] = "CANCELING" THEN "CANCELED" ELSE "failed"
    ELSE "ABORTED"
Finished(g, out) == IF finish_goal(g, out) = "failed" THEN handle
                    ELSE [handle EXCEPT ![g] = finish_goal(g, out)]

\* A goal given up before its submit whose handle is left to rclcpp.
AbortWithoutEnd(g) ==
    /\ sess' = [sess EXCEPT !.owner = IF @ = g THEN NoRequest ELSE @]
    /\ UNCHANGED <<handle, told>>

\* abort_joint_before_submit, abort_paired_before_submit: release, then end the goal.
AbortBeforeSubmit(g) ==
    /\ sess' = IF sess.owner = g /\ sess.pending = NoRequest /\ sess.active = NoRequest
                  /\ sess.ending = NoRequest
               THEN [sess EXCEPT !.owner = NoRequest] ELSE sess
    /\ handle' = Finished(g, "rejected")
    /\ told' = [told EXCEPT ![g] = "rejected"]

\* The session's submit().
MaySubmit(g) ==
    /\ sess.state # "closing" /\ sess.owner = g
    /\ sess.pending = NoRequest /\ sess.active = NoRequest

\* The accept callback of a request: a transform that fails, or a refused submit,
\* ends it; else its closures are with the session.
Accept(g, transforms) ==
    /\ exec = [at |-> "accept", goal |-> g]
    /\ exec' = NoExec
    /\ \/ /\ transforms
          /\ AbortBeforeSubmit(g)
       \/ /\ ~MaySubmit(g)
          /\ AbortBeforeSubmit(g)
       \/ /\ MaySubmit(g)
          /\ sess' = [sess EXCEPT !.pending = g]
          /\ UNCHANGED <<handle, told>>
    /\ UNCHANGED <<server, context>>

\* accept_joint checks the joint's name again; nothing can have changed it.
accept_joint(g) == server[g] = "joint" /\ Accept(g, FALSE)
accept_gripper(g) == server[g] = "gripper" /\ Accept(g, FALSE)
\* accept_paired_goal and transform_pair, for the three servers that share them.
accept_paired_goal(g) == server[g] \in {"paired", "scaled"} /\ Accept(g, TRUE)
accept_bimanual(g) == server[g] = "bimanual" /\ Accept(g, TRUE)
legacy_submit(g) == server[g] = "legacy" /\ Accept(g, TRUE)
neutral_submit(g) == server[g] = "neutral" /\ Accept(g, FALSE)

-----------------------------------------------------------------------------
(* Cancel callbacks, and the two halves of rclcpp's cancel service.        *)

\* The session's cancel().
MayCancel(g) == sess.state # "closing" /\ sess.owner = g /\ sess.ending = NoRequest

on_joint_cancel(g) ==
    /\ context /\ exec = NoExec /\ handle[g] = "EXECUTING"
    /\ MayCancel(g)
    /\ sess' = [sess EXCEPT !.cancel = g]
    /\ exec' = [at |-> "cancel", goal |-> g]
    /\ UNCHANGED <<server, handle, told, context>>

\* rclcpp marks the handle after the callback has accepted.
cancel_accepted(g) ==
    /\ exec = [at |-> "cancel", goal |-> g]
    /\ handle' = [handle EXCEPT ![g] = IF @ = "EXECUTING" THEN "CANCELING" ELSE @]
    /\ exec' = NoExec
    /\ UNCHANGED <<server, sess, told, context>>

-----------------------------------------------------------------------------
(* The session's worker, as its callers see it.                            *)

worker_takes ==
    /\ sess.state = "up" /\ sess.pending # NoRequest /\ sess.cancel = NoRequest
    /\ sess.ending = NoRequest
    /\ sess' = [sess EXCEPT !.active = sess.pending, !.pending = NoRequest]
    /\ UNCHANGED <<server, handle, exec, told, context>>

Held == {sess.pending, sess.active} \ {NoRequest}

\* process_cancel takes the cancel and stops the arms; without a command there is
\* nothing to answer and the session only stops.
worker_cancels ==
    /\ sess.state = "up" /\ sess.cancel # NoRequest /\ sess.ending = NoRequest
    /\ sess' = IF sess.cancel \in Held
               THEN [sess EXCEPT !.cancel = NoRequest, !.ending = sess.cancel, !.out = "canceled"]
               ELSE [sess EXCEPT !.cancel = NoRequest,
                                 !.state = IF sess.owner = sess.cancel THEN "stopped" ELSE "up"]
    /\ UNCHANGED <<server, handle, exec, told, context>>

\* complete_active, reject_on_owner and the faults: the worker decides on an outcome.
worker_decides ==
    /\ sess.ending = NoRequest /\ Held # {}
    /\ \E g \in Held, out \in {"completed", "aborted"} :
         /\ out = "completed" => g = sess.active
         /\ sess.state = "up"
         /\ sess' = [sess EXCEPT !.ending = g, !.out = out]
    /\ UNCHANGED <<server, handle, exec, told, context>>

Dropped(g, state) ==
    [sess EXCEPT !.ending = NoRequest, !.out = "none", !.state = state,
                 !.owner = NoRequest,
                 !.pending = IF @ = g THEN NoRequest ELSE @,
                 !.active = IF @ = g THEN NoRequest ELSE @]

\* invoke_terminal_callback and the section after it: a closure that fails is a fault
\* of the session (terminal_callback_failed).
worker_answers ==
    LET g == sess.ending  out == sess.out IN
    /\ g # NoRequest
    /\ told' = [told EXCEPT ![g] = out]
    /\ handle' = Finished(g, out)
    /\ sess' = Dropped(g, IF sess.state # "up" THEN sess.state
                          ELSE IF finish_goal(g, out) = "failed" THEN "fault"
                          ELSE IF out = "canceled" THEN "stopped" ELSE "up")
    /\ UNCHANGED <<server, exec, context>>

\* fault_with_detail outside a command.
worker_faults ==
    /\ sess.state = "up" /\ sess.ending = NoRequest
    /\ \/ Held = {} /\ sess' = [sess EXCEPT !.state = "fault", !.owner = NoRequest]
       \/ \E g \in Held :
             sess' = [sess EXCEPT !.state = "fault", !.out = "aborted", !.ending = g]
    /\ UNCHANGED <<server, handle, exec, told, context>>

\* ~OpenArmIkRosNode: rclcpp has shut down, spin has returned, close() joins the
\* worker, which answers what it holds (shutdown_on_owner_thread).
node_shutdown ==
    /\ context /\ exec = NoExec
    /\ context' = FALSE
    /\ exec' = [at |-> "done", goal |-> NoRequest]
    /\ UNCHANGED <<server, handle, sess, told>>

\* A close that leaves what it holds unanswered.
worker_closes_silently ==
    /\ ~context /\ sess.state # "closing" /\ sess.ending = NoRequest
    /\ sess' = [sess EXCEPT !.state = "closing"]
    /\ UNCHANGED <<server, handle, exec, told, context>>

worker_closes ==
    /\ ~context /\ sess.state # "closing" /\ sess.ending = NoRequest
    /\ \/ Held = {} /\ sess' = [sess EXCEPT !.state = "closing", !.owner = NoRequest]
       \/ \E g \in Held :
             sess' = [sess EXCEPT !.state = "closing", !.out = "aborted", !.ending = g]
    /\ UNCHANGED <<server, handle, exec, told, context>>

\* rclcpp: the last owner of an active handle has dropped it.
handle_dropped(g) ==
    /\ HasHandle(g) /\ handle[g] \in Live
    /\ g \notin Held \cup {sess.ending} /\ exec.goal # g
    /\ handle' = [handle EXCEPT ![g] = "CANCELED"]
    /\ UNCHANGED <<server, exec, sess, told, context>>

-----------------------------------------------------------------------------
GoalCallbacks(g) ==
    \/ on_joint_goal(g) \/ on_gripper_goal(g) \/ on_paired_goal(g) \/ on_scaled_paired_goal(g)
    \/ on_bimanual_goal(g) \/ on_legacy(g) \/ neutral_service(g)
AcceptCallbacks(g) ==
    \/ accept_joint(g) \/ accept_gripper(g) \/ accept_paired_goal(g) \/ accept_bimanual(g)
    \/ legacy_submit(g) \/ neutral_submit(g)
SessionWorker == worker_takes \/ worker_cancels \/ worker_decides \/ worker_answers

NodeNext ==
    \/ \E g \in NodeGoal : \/ GoalCallbacks(g) \/ AcceptCallbacks(g)
                           \/ on_joint_cancel(g) \/ cancel_accepted(g) \/ handle_dropped(g)
    \/ SessionWorker \/ worker_faults \/ node_shutdown \/ worker_closes
NodeSpec == NodeInit /\ [][NodeNext]_nodeVars

-----------------------------------------------------------------------------
(* Properties.                                                             *)

\* A client is told SUCCEEDED only for a command the session completed, ABORTED only
\* for one it aborted, rejected or never got, and no goal has ended while the session
\* can still move the arms for it (finish_goal, the terminal closures).
EndedIsOver ==
    \A g \in NodeGoal :
        /\ handle[g] = "SUCCEEDED" => told[g] = "completed"
        /\ handle[g] = "ABORTED" => told[g] \in {"aborted", "rejected"}
        /\ handle[g] \in Ended => g \notin Held \cup {sess.ending}

\* The reservation of a request is given back: between callbacks the session is owned
\* only by a command it holds, or is stopped, in fault or closing (the release on
\* every path of the accept callbacks that does not submit).
ReservationIsUsed ==
    exec.at # "accept" /\ sess.state = "up" /\ sess.owner # NoRequest =>
        sess.owner \in Held \cup {sess.ending}

\* Every accepted goal ends for its client: answered by the session, or canceled by
\* rclcpp when a failed closure, a fault or a shutdown dropped its handle.
EveryGoalEnds == \A g \in NodeGoal : handle[g] \in Live ~> handle[g] \in Ended

\* A client is told CANCELED only for a command the session canceled, or when the
\* context has shut down: no path of the accept callbacks or the terminal closures
\* drops a handle that is still active, which rclcpp would then cancel by itself,
\* nor does a fault or a refusal pass for a cancel.
CanceledForAReason ==
    \A g \in NodeGoal : handle[g] = "CANCELED" => told[g] = "canceled" \/ ~context

\* What clients and the session are told agrees (finish_goal, the accept
\* callbacks and the session's terminal closures).
GoalsAreAccounted == EndedIsOver /\ ReservationIsUsed /\ CanceledForAReason
=============================================================================
