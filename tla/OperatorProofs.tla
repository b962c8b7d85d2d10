---------------------------- MODULE OperatorProofs ----------------------------
(***************************************************************************)
(* Proofs about what lies between an operator and a control session: the   *)
(* action servers of the node (NodeGoals), the operator portal's command   *)
(* path (Portal) and its HTTP server (PortalServer), for every number of   *)
(* requests and connections and every bound of the lanes.                  *)
(***************************************************************************)
EXTENDS NodeGoals, Portal, PortalServer, FiniteSetTheorems, TLAPS

-----------------------------------------------------------------------------
(* NodeGoals.  The session holds at most the command of its owner, and the *)
(* executor is never in an accept callback while the session holds one.    *)

\* The session holds the command of its owner, one of them.
HeldIsOwned ==
    /\ sess.pending = NoRequest \/ sess.active = NoRequest
    /\ sess.pending \in {sess.owner, NoRequest} /\ sess.active \in {sess.owner, NoRequest}
    /\ sess.ending # NoRequest => sess.ending \in Held /\ sess.out # "none"

\* An accept callback is about a request that has the reservation, or lost it
\* to a fault, and whose handle has not ended.
AcceptHasItsTurn ==
    exec.at = "accept" =>
        /\ exec.goal \in NodeGoal /\ handle[exec.goal] \in {"EXECUTING", "submitted"}
        /\ sess.owner \in {exec.goal, NoRequest} /\ Held = {} /\ sess.ending = NoRequest

NodeInv == NodeTypeOK /\ HeldIsOwned /\ AcceptHasItsTurn /\ EndedIsOver /\ ReservationIsUsed

\* What ends a handle, and what it leaves alone.
LEMMA FinishedHandle ==
    ASSUME NodeTypeOK, NEW g \in NodeGoal, NEW out \in {"completed", "canceled", "aborted", "rejected"}
    PROVE  /\ Finished(g, out) \in [NodeGoal -> {"new", "rejected", "submitted"} \cup Live \cup Ended]
           /\ \A h \in NodeGoal \ {g} : Finished(g, out)[h] = handle[h]
           /\ Finished(g, out)[g] # handle[g] =>
                \/ Finished(g, out)[g] = "SUCCEEDED" /\ out = "completed"
                \/ Finished(g, out)[g] = "ABORTED" /\ out \in {"aborted", "rejected"}
                \/ Finished(g, out)[g] = "CANCELED"
  <1>1. finish_goal(g, out) \in {"failed", handle[g], "CANCELED"}
        \/ (finish_goal(g, out) = "SUCCEEDED" /\ out = "completed")
        \/ (finish_goal(g, out) = "ABORTED" /\ out \in {"aborted", "rejected"})
    BY DEF finish_goal
  <1> DEFINE end == finish_goal(g, out)
  <1>2. Finished(g, out) = IF end = "failed" THEN handle ELSE [handle EXCEPT ![g] = end]
    BY DEF Finished
  <1>3. end \in {"failed", handle[g], "CANCELED"} \/ (end = "SUCCEEDED" /\ out = "completed")
        \/ (end = "ABORTED" /\ out \in {"aborted", "rejected"})
    BY <1>1
  <1> HIDE DEF end
  <1> QED  BY <1>2, <1>3 DEF NodeTypeOK, Ended

SessionState == [owner: MaybeRequest, pending: MaybeRequest, active: MaybeRequest, cancel: MaybeRequest,
                 ending: MaybeRequest, out: {"none", "completed", "canceled", "aborted"},
                 state: {"up", "stopped", "fault", "closing"}]

\* A request is refused, or holds the reservation and goes on.
LEMMA OnGoalStep ==
    ASSUME NodeInv, NEW g \in NodeGoal,
           NEW s \in Servers \cup {"legacy", "neutral"}, OnGoal(g, s)
    PROVE  NodeInv'
  <1>1. /\ server' = [server EXCEPT ![g] = s] /\ exec = NoExec /\ handle[g] = "new"
        /\ UNCHANGED <<told, context>>
    BY DEF OnGoal
  <1>2. server' \in [NodeGoal -> Servers \cup {"none", "legacy", "neutral"}]
    BY <1>1 DEF NodeInv, NodeTypeOK
  <1>3. CASE handle' = [handle EXCEPT ![g] = "rejected"] /\ UNCHANGED <<exec, sess>>
    <2>1. NodeTypeOK'
      BY <1>1, <1>2, <1>3 DEF NodeInv, NodeTypeOK
    <2>2. HeldIsOwned' /\ AcceptHasItsTurn' /\ ReservationIsUsed'
      BY <1>1, <1>3 DEF NodeInv, HeldIsOwned, AcceptHasItsTurn, ReservationIsUsed, Held, NoExec
    <2>3. EndedIsOver'
      BY <1>1, <1>3 DEF NodeInv, NodeTypeOK, EndedIsOver, Held, Ended
    <2> QED  BY <2>1, <2>2, <2>3 DEF NodeInv
  <1>4. ASSUME MayReserve, NEW st \in {"EXECUTING", "submitted"}, handle' = [handle EXCEPT ![g] = st],
               sess' = [sess EXCEPT !.owner = g], exec' = [at |-> "accept", goal |-> g]
        PROVE  NodeInv'
    <2>1. /\ sess \in SessionState /\ sess.owner = NoRequest
          /\ sess.pending = NoRequest /\ sess.active = NoRequest /\ sess.ending = NoRequest
      BY <1>4 DEF NodeInv, NodeTypeOK, SessionState, MayReserve, HeldIsOwned, Held
    <2>2. /\ sess' \in SessionState /\ sess'.owner = g
          /\ sess'.pending = NoRequest /\ sess'.active = NoRequest /\ sess'.ending = NoRequest
      BY <1>4, <2>1 DEF SessionState, MaybeRequest
    <2>3. NodeTypeOK'
      BY <1>1, <1>2, <1>4, <2>2 DEF NodeInv, NodeTypeOK, Live, SessionState, MaybeRequest
    <2>4. HeldIsOwned' /\ AcceptHasItsTurn' /\ ReservationIsUsed'
      BY <1>4, <2>2 DEF NodeInv, NodeTypeOK, HeldIsOwned, AcceptHasItsTurn, ReservationIsUsed, Held
    <2>5. EndedIsOver'
      BY <1>1, <1>4, <2>2, NodeConstants DEF NodeInv, NodeTypeOK, EndedIsOver, Held, Ended
    <2> QED  BY <2>3, <2>4, <2>5 DEF NodeInv
  <1>5. (IF s \in Servers THEN "EXECUTING" ELSE "submitted") \in {"EXECUTING", "submitted"}
    OBVIOUS
  <1> QED  BY <1>3, <1>4, <1>5 DEF OnGoal

\* The accept callback leaves the request with the session, or ends it.
LEMMA AcceptStep ==
    ASSUME NodeInv, NEW g \in NodeGoal, NEW transforms \in BOOLEAN, Accept(g, transforms)
    PROVE  NodeInv'
  <1>1. /\ exec = [at |-> "accept", goal |-> g] /\ exec' = NoExec /\ UNCHANGED <<server, context>>
        /\ sess \in SessionState /\ handle[g] \in {"EXECUTING", "submitted"}
        /\ sess.owner \in {g, NoRequest}
        /\ sess.pending = NoRequest /\ sess.active = NoRequest /\ sess.ending = NoRequest
    BY DEF Accept, NodeInv, NodeTypeOK, AcceptHasItsTurn, SessionState, Held, HeldIsOwned
  <1>2. exec'.at = "idle" /\ exec' \in [at: {"idle", "accept", "cancel", "done"}, goal: MaybeRequest]
    BY <1>1 DEF NoExec, MaybeRequest
  <1>3. CASE AbortBeforeSubmit(g)
    <2>1. /\ handle' = Finished(g, "rejected") /\ told' = [told EXCEPT ![g] = "rejected"]
          /\ sess' = IF sess.owner = g THEN [sess EXCEPT !.owner = NoRequest] ELSE sess
      BY <1>1, <1>3 DEF AbortBeforeSubmit
    <2>2. /\ sess' \in SessionState /\ sess'.owner = NoRequest
          /\ sess'.pending = NoRequest /\ sess'.active = NoRequest /\ sess'.ending = NoRequest
      BY <1>1, <2>1 DEF SessionState, MaybeRequest
    <2>3. /\ handle' \in [NodeGoal -> {"new", "rejected", "submitted"} \cup Live \cup Ended]
          /\ \A h \in NodeGoal \ {g} : handle'[h] = handle[h]
          /\ handle'[g] # handle[g] => handle'[g] \in {"ABORTED", "CANCELED"}
      BY <2>1, FinishedHandle DEF NodeInv
    <2>4. NodeTypeOK'
      BY <1>1, <1>2, <2>1, <2>2, <2>3 DEF NodeInv, NodeTypeOK, SessionState
    <2>5. HeldIsOwned' /\ AcceptHasItsTurn' /\ ReservationIsUsed'
      BY <1>2, <2>2 DEF HeldIsOwned, AcceptHasItsTurn, ReservationIsUsed, Held
    <2>6. EndedIsOver'
      BY <1>1, <2>1, <2>2, <2>3, NodeConstants DEF NodeInv, NodeTypeOK, EndedIsOver, Held, Ended
    <2> QED  BY <2>4, <2>5, <2>6 DEF NodeInv
  <1>4. CASE MaySubmit(g) /\ sess' = [sess EXCEPT !.pending = g] /\ UNCHANGED <<handle, told>>
    <2>1. /\ sess' \in SessionState /\ sess'.owner = g /\ sess'.pending = g
          /\ sess'.active = NoRequest /\ sess'.ending = NoRequest
      BY <1>1, <1>4 DEF SessionState, MaybeRequest, MaySubmit
    <2>2. NodeTypeOK'
      BY <1>1, <1>2, <1>4, <2>1 DEF NodeInv, NodeTypeOK, SessionState
    <2>3. HeldIsOwned' /\ AcceptHasItsTurn' /\ ReservationIsUsed'
      BY <1>2, <2>1, NodeConstants DEF HeldIsOwned, AcceptHasItsTurn, ReservationIsUsed, Held
    <2>4. EndedIsOver'
      BY <1>1, <1>4, <2>1, NodeConstants DEF NodeInv, NodeTypeOK, EndedIsOver, Held, Ended
    <2> QED  BY <2>2, <2>3, <2>4 DEF NodeInv
  <1> QED  BY <1>3, <1>4 DEF Accept

\* The executor and the clients: the session's commands stay where they are.
LEMMA CallbackStep ==
    ASSUME NodeInv, NEW g \in NodeGoal,
           on_joint_cancel(g) \/ cancel_accepted(g) \/ handle_dropped(g)
    PROVE  NodeInv'
  <1>1. CASE on_joint_cancel(g)
    <2>1. /\ sess' = [sess EXCEPT !.cancel = g] /\ exec' = [at |-> "cancel", goal |-> g]
          /\ UNCHANGED <<server, handle, told, context>> /\ exec = NoExec
      BY <1>1 DEF on_joint_cancel
    <2>2. sess' \in SessionState /\ exec'.at = "cancel" /\ exec.at = "idle"
          /\ sess'.owner = sess.owner /\ sess'.pending = sess.pending /\ sess'.active = sess.active
          /\ sess'.ending = sess.ending /\ sess'.state = sess.state
      BY <2>1 DEF NodeInv, NodeTypeOK, SessionState, MaybeRequest, NoExec
    <2>3. NodeTypeOK'
      BY <2>1, <2>2 DEF NodeInv, NodeTypeOK, SessionState, MaybeRequest
    <2>4. HeldIsOwned' /\ AcceptHasItsTurn' /\ ReservationIsUsed' /\ EndedIsOver'
      BY <2>1, <2>2
      DEF NodeInv, HeldIsOwned, AcceptHasItsTurn, ReservationIsUsed, EndedIsOver, Held
    <2> QED  BY <2>3, <2>4 DEF NodeInv
  <1>2. CASE cancel_accepted(g)
    <2>1. /\ handle' = [handle EXCEPT ![g] = IF @ = "EXECUTING" THEN "CANCELING" ELSE @]
          /\ exec' = NoExec /\ exec.at = "cancel" /\ UNCHANGED <<server, sess, told, context>>
      BY <1>2 DEF cancel_accepted
    <2>2. exec'.at = "idle" /\ exec' \in [at: {"idle", "accept", "cancel", "done"}, goal: MaybeRequest]
      BY <2>1 DEF NoExec, MaybeRequest
    <2>3. NodeTypeOK'
      BY <2>1, <2>2 DEF NodeInv, NodeTypeOK, Live
    <2>4. HeldIsOwned' /\ AcceptHasItsTurn' /\ ReservationIsUsed'
      BY <2>1, <2>2 DEF NodeInv, HeldIsOwned, AcceptHasItsTurn, ReservationIsUsed, Held
    <2>5. EndedIsOver'
      BY <2>1 DEF NodeInv, NodeTypeOK, EndedIsOver, Held, Ended
    <2> QED  BY <2>3, <2>4, <2>5 DEF NodeInv
  <1>3. CASE handle_dropped(g)
    <2>1. /\ handle' = [handle EXCEPT ![g] = "CANCELED"] /\ g \notin Held \cup {sess.ending}
          /\ exec.goal # g /\ UNCHANGED <<server, exec, sess, told, context>>
      BY <1>3 DEF handle_dropped
    <2>2. NodeTypeOK'
      BY <2>1 DEF NodeInv, NodeTypeOK, Ended
    <2>3. HeldIsOwned' /\ AcceptHasItsTurn' /\ ReservationIsUsed'
      BY <2>1 DEF NodeInv, NodeTypeOK, HeldIsOwned, AcceptHasItsTurn, ReservationIsUsed, Held
    <2>4. EndedIsOver'
      BY <2>1 DEF NodeInv, NodeTypeOK, EndedIsOver, Held, Ended
    <2> QED  BY <2>2, <2>3, <2>4 DEF NodeInv
  <1> QED  BY <1>1, <1>2, <1>3

LEMMA NodeShutdownStep ==
    ASSUME NodeInv, node_shutdown
    PROVE  NodeInv'
  <1>1. /\ context' = FALSE /\ exec' = [at |-> "done", goal |-> NoRequest] /\ exec = NoExec
        /\ UNCHANGED <<server, handle, sess, told>>
    BY DEF node_shutdown
  <1>2. exec'.at = "done" /\ exec.at = "idle"
        /\ exec' \in [at: {"idle", "accept", "cancel", "done"}, goal: MaybeRequest]
    BY <1>1 DEF NoExec, MaybeRequest
  <1>3. NodeTypeOK'
    BY <1>1, <1>2 DEF NodeInv, NodeTypeOK
  <1>4. HeldIsOwned' /\ AcceptHasItsTurn' /\ ReservationIsUsed' /\ EndedIsOver'
    BY <1>1, <1>2
    DEF NodeInv, HeldIsOwned, AcceptHasItsTurn, ReservationIsUsed, EndedIsOver, Held
  <1> QED  BY <1>3, <1>4 DEF NodeInv

\* The worker takes, marks or gives up a command; no handle changes.
LEMMA WorkerStep ==
    ASSUME NodeInv, worker_takes \/ worker_cancels \/ worker_decides \/ worker_faults \/ worker_closes
    PROVE  NodeInv'
  <1>1. /\ UNCHANGED <<server, handle, exec, told, context>> /\ sess \in SessionState
        /\ sess.ending = NoRequest
    BY DEF worker_takes, worker_cancels, worker_decides, worker_faults, worker_closes, NodeInv,
           NodeTypeOK, SessionState
  <1>2. ASSUME sess' \in SessionState, Held' = Held, HeldIsOwned', sess'.owner \in {sess.owner, NoRequest},
               sess'.ending = NoRequest \/ sess'.ending \in Held,
               sess'.state = "up" => sess.state = "up" /\ sess'.owner = sess.owner
        PROVE  NodeInv'
    <2>1. NodeTypeOK'
      BY <1>1, <1>2 DEF NodeInv, NodeTypeOK, SessionState
    <2>2. AcceptHasItsTurn' /\ ReservationIsUsed'
      BY <1>1, <1>2 DEF NodeInv, AcceptHasItsTurn, ReservationIsUsed
    <2>3. EndedIsOver'
      BY <1>1, <1>2, NodeConstants DEF NodeInv, EndedIsOver
    <2> QED  BY <1>2, <2>1, <2>2, <2>3 DEF NodeInv
  <1>3. CASE worker_takes
    <2>1. /\ sess.state = "up" /\ sess.pending # NoRequest
          /\ sess' = [sess EXCEPT !.active = sess.pending, !.pending = NoRequest]
      BY <1>3 DEF worker_takes
    <2>2. /\ sess' \in SessionState /\ sess'.active = sess.pending /\ sess'.pending = NoRequest
          /\ sess'.owner = sess.owner /\ sess'.ending = NoRequest /\ sess'.state = "up"
      BY <1>1, <2>1 DEF SessionState, MaybeRequest
    <2>3. Held' = Held /\ HeldIsOwned'
      BY <2>1, <2>2 DEF NodeInv, HeldIsOwned, Held
    <2> QED  BY <1>2, <2>1, <2>2, <2>3
  <1>4. ASSUME NEW e \in Held \cup {NoRequest}, NEW st \in {"up", "stopped", "fault", "closing"},
               NEW o \in {sess.owner, NoRequest}, Held # {} => o = sess.owner,
               sess' \in SessionState, sess'.owner = o, sess'.pending = sess.pending,
               sess'.active = sess.active, sess'.ending = e, sess'.state = st,
               e # NoRequest => sess'.out # "none",
               st = "up" => sess.state = "up" /\ o = sess.owner
        PROVE  NodeInv'
    <2>1. Held' = Held
      BY <1>4 DEF Held
    <2>2. HeldIsOwned'
      BY <1>4, <2>1 DEF NodeInv, HeldIsOwned, Held
    <2> QED  BY <1>2, <1>4, <2>1, <2>2
  <1>5. Held \subseteq MaybeRequest
    BY <1>1 DEF Held, SessionState
  <1>6. CASE worker_cancels
    <2>1. sess.state = "up"
      BY <1>6 DEF worker_cancels
    <2>2. CASE sess.cancel \in Held
      <3>1. sess' = [sess EXCEPT !.cancel = NoRequest, !.ending = sess.cancel, !.out = "canceled"]
        BY <1>6, <2>2 DEF worker_cancels
      <3>2. /\ sess' \in SessionState /\ sess'.owner = sess.owner /\ sess'.pending = sess.pending
            /\ sess'.active = sess.active /\ sess'.ending = sess.cancel /\ sess'.state = "up"
            /\ sess'.out = "canceled"
        BY <1>1, <2>1, <3>1 DEF SessionState, MaybeRequest
      <3> QED  BY <1>4, <2>1, <2>2, <3>2
    <2>3. CASE sess.cancel \notin Held
      <3>1. PICK st \in {"up", "stopped"} : sess' = [sess EXCEPT !.cancel = NoRequest, !.state = st]
        BY <1>6, <2>3 DEF worker_cancels
      <3>2. /\ sess' \in SessionState /\ sess'.owner = sess.owner /\ sess'.pending = sess.pending
            /\ sess'.active = sess.active /\ sess'.ending = NoRequest /\ sess'.state = st
        BY <1>1, <3>1 DEF SessionState, MaybeRequest
      <3> QED  BY <1>4, <2>1, <3>2
    <2> QED  BY <2>2, <2>3
  <1>7. CASE worker_decides
    <2>1. PICK g \in Held, out \in {"completed", "aborted"} :
            sess.state = "up" /\ sess' = [sess EXCEPT !.ending = g, !.out = out]
      BY <1>7 DEF worker_decides
    <2>2. /\ sess' \in SessionState /\ sess'.owner = sess.owner /\ sess'.pending = sess.pending
          /\ sess'.active = sess.active /\ sess'.ending = g /\ sess'.state = "up"
          /\ sess'.out = out
      BY <1>1, <1>5, <2>1 DEF SessionState
    <2> QED  BY <1>4, <2>1, <2>2
  <1>8. CASE worker_faults \/ worker_closes
    <2>1. PICK st \in {"fault", "closing"} :
            \/ Held = {} /\ sess' = [sess EXCEPT !.state = st, !.owner = NoRequest]
            \/ \E g \in Held : sess' = [sess EXCEPT !.state = st, !.out = "aborted", !.ending = g]
      BY <1>8 DEF worker_faults, worker_closes
    <2>2. CASE Held = {} /\ sess' = [sess EXCEPT !.state = st, !.owner = NoRequest]
      <3>1. /\ sess' \in SessionState /\ sess'.owner = NoRequest /\ sess'.pending = sess.pending
            /\ sess'.active = sess.active /\ sess'.ending = NoRequest /\ sess'.state = st
        BY <1>1, <2>1, <2>2 DEF SessionState, MaybeRequest
      <3> QED  BY <1>4, <2>2, <3>1
    <2>3. ASSUME NEW g \in Held, sess' = [sess EXCEPT !.state = st, !.out = "aborted", !.ending = g]
          PROVE  NodeInv'
      <3>1. /\ sess' \in SessionState /\ sess'.owner = sess.owner /\ sess'.pending = sess.pending
            /\ sess'.active = sess.active /\ sess'.ending = g /\ sess'.state = st
            /\ sess'.out = "aborted"
        BY <1>1, <1>5, <2>1, <2>3 DEF SessionState
      <3> QED  BY <1>4, <3>1
    <2> QED  BY <2>1, <2>2, <2>3
  <1> QED  BY <1>3, <1>6, <1>7, <1>8

\* The answer: the command leaves the session and its handle ends, or the
\* session faults.
LEMMA WorkerAnswersStep ==
    ASSUME NodeInv, worker_answers
    PROVE  NodeInv'
  <1> DEFINE g == sess.ending
             out == sess.out
  <1>1. PICK st \in {"up", "stopped", "fault", "closing"} :
          /\ g # NoRequest /\ told' = [told EXCEPT ![g] = out] /\ handle' = Finished(g, out)
          /\ sess' = Dropped(g, st) /\ UNCHANGED <<server, exec, context>>
    BY DEF worker_answers, NodeInv, NodeTypeOK
  <1>2. sess \in SessionState /\ g \in NodeGoal /\ g \in Held /\ exec.at # "accept"
        /\ out \in {"completed", "canceled", "aborted"}
    BY <1>1 DEF NodeInv, NodeTypeOK, SessionState, MaybeRequest, HeldIsOwned, AcceptHasItsTurn
  <1>3. /\ sess' \in SessionState /\ sess'.owner = NoRequest /\ sess'.ending = NoRequest
        /\ sess'.pending = NoRequest /\ sess'.active = NoRequest
    <2>1. /\ sess.pending \in {g, NoRequest} /\ sess.active \in {g, NoRequest}
      BY <1>2 DEF NodeInv, HeldIsOwned, Held
    <2>2. sess' = [sess EXCEPT !.ending = NoRequest, !.out = "none", !.state = st,
                               !.owner = NoRequest, !.pending = NoRequest, !.active = NoRequest]
      BY <1>1, <2>1 DEF Dropped
    <2> QED  BY <1>2, <2>2 DEF SessionState, MaybeRequest
  <1>4. /\ handle' \in [NodeGoal -> {"new", "rejected", "submitted"} \cup Live \cup Ended]
        /\ \A h \in NodeGoal \ {g} : handle'[h] = handle[h]
        /\ handle'[g] # handle[g] =>
             \/ handle'[g] = "SUCCEEDED" /\ out = "completed"
             \/ handle'[g] = "ABORTED" /\ out = "aborted"
             \/ handle'[g] = "CANCELED"
    BY <1>1, <1>2, FinishedHandle DEF NodeInv
  <1>5. handle[g] \notin Ended
    BY <1>2 DEF NodeInv, EndedIsOver
  <1> HIDE DEF g, out
  <1>6. NodeTypeOK'
    BY <1>1, <1>2, <1>3, <1>4 DEF NodeInv, NodeTypeOK, SessionState
  <1>7. HeldIsOwned' /\ AcceptHasItsTurn' /\ ReservationIsUsed'
    BY <1>1, <1>2, <1>3 DEF HeldIsOwned, AcceptHasItsTurn, ReservationIsUsed, Held
  <1>8. EndedIsOver'
    BY <1>1, <1>2, <1>3, <1>4, <1>5, NodeConstants DEF NodeInv, NodeTypeOK, EndedIsOver, Held, Ended
  <1> QED  BY <1>6, <1>7, <1>8 DEF NodeInv

\* The invariant is inductive.
LEMMA NodeInvariant == NodeSpec => []NodeInv
  <1>1. NodeInit => NodeInv
    <2> SUFFICES ASSUME NodeInit PROVE NodeInv
      OBVIOUS
    <2>1. NodeTypeOK
      BY DEF NodeInit, NodeTypeOK, NoExec, MaybeRequest
    <2>2. HeldIsOwned /\ AcceptHasItsTurn /\ EndedIsOver /\ ReservationIsUsed
      BY DEF NodeInit, NoExec, HeldIsOwned, AcceptHasItsTurn, EndedIsOver, ReservationIsUsed, Held, Ended
    <2> QED  BY <2>1, <2>2 DEF NodeInv
  <1>2. NodeInv /\ [NodeNext]_nodeVars => NodeInv'
    <2> SUFFICES ASSUME NodeInv, [NodeNext]_nodeVars
                 PROVE  NodeInv'
      OBVIOUS
    <2>1. ASSUME NEW g \in NodeGoal, GoalCallbacks(g)
          PROVE  NodeInv'
      <3>1. \E s \in Servers \cup {"legacy", "neutral"} : OnGoal(g, s)
        BY <2>1 DEF GoalCallbacks, on_joint_goal, on_gripper_goal, on_paired_goal, on_scaled_paired_goal,
                    on_bimanual_goal, on_legacy, neutral_service, Servers
      <3> QED  BY <3>1, OnGoalStep
    <2>2. ASSUME NEW g \in NodeGoal, AcceptCallbacks(g)
          PROVE  NodeInv'
      BY <2>2, AcceptStep DEF AcceptCallbacks, accept_joint, accept_gripper, accept_paired_goal,
                              accept_bimanual, legacy_submit, neutral_submit
    <2>3. CASE \E g \in NodeGoal : on_joint_cancel(g) \/ cancel_accepted(g) \/ handle_dropped(g)
      BY <2>3, CallbackStep
    <2>4. CASE SessionWorker \/ worker_faults \/ worker_closes
      BY <2>4, WorkerStep, WorkerAnswersStep DEF SessionWorker
    <2>5. CASE node_shutdown
      BY <2>5, NodeShutdownStep
    <2>6. CASE UNCHANGED nodeVars
      BY <2>6 DEF nodeVars, NodeInv, NodeTypeOK, HeldIsOwned, AcceptHasItsTurn, EndedIsOver,
                  ReservationIsUsed, Held
    <2> QED  BY <2>1, <2>2, <2>3, <2>4, <2>5, <2>6 DEF NodeNext
  <1> QED  BY <1>1, <1>2, PTL DEF NodeSpec

\* The node, its executor and the session it calls stay well typed, for every number
\* of requests (openarm_ik_ros_node.cpp: the goal, cancel and accept callbacks).
THEOREM NodeTypes == NodeSpec => []NodeTypeOK
  <1>1. NodeInv => NodeTypeOK
    BY DEF NodeInv
  <1> QED  BY <1>1, NodeInvariant, PTL

\* A live handle that only its client and rclcpp still know: the session has no
\* command of the goal and no accept callback is about to give it one.
Orphan(g) ==
    /\ HasHandle(g) /\ handle[g] \in Live
    /\ g \notin Held \cup {sess.ending} /\ exec # [at |-> "accept", goal |-> g]

\* The inductive invariant behind CanceledForAReason: a handle is orphaned only by a
\* cancel answered before rclcpp has marked it, or by a shutdown.
OrphansAreExplained ==
    \A g \in NodeGoal : Orphan(g) \/ handle[g] = "CANCELED" => told[g] = "canceled" \/ ~context

\* A step that leaves the handle of h and what the session holds of it explains it still.
LEMMA StillExplained ==
    ASSUME OrphansAreExplained, NEW h \in NodeGoal,
           handle'[h] = handle[h], told'[h] = told[h], context' = context \/ ~context',
           Orphan(h)' => Orphan(h)
    PROVE  Orphan(h)' \/ handle'[h] = "CANCELED" => told'[h] = "canceled" \/ ~context'
  BY DEF OrphansAreExplained

\* The goal callbacks: a new request has no handle yet, or is in its accept callback.
LEMMA RequestsAreExplained ==
    ASSUME NodeInv, OrphansAreExplained, NEW g \in NodeGoal,
           NEW s \in Servers \cup {"legacy", "neutral"}, OnGoal(g, s)
    PROVE  OrphansAreExplained'
  <1>1. /\ server' = [server EXCEPT ![g] = s] /\ exec = NoExec /\ UNCHANGED <<told, context>>
        /\ \E c \in {"rejected", "submitted", "EXECUTING"} : handle' = [handle EXCEPT ![g] = c]
        /\ Held' = Held /\ sess'.ending = sess.ending
        /\ \/ handle'[g] = "rejected" /\ exec' = exec
           \/ exec' = [at |-> "accept", goal |-> g]
    BY DEF OnGoal, Held, NodeInv, NodeTypeOK, SessionState
  <1>2. ASSUME NEW h \in NodeGoal, h # g
        PROVE  Orphan(h)' \/ handle'[h] = "CANCELED" => told'[h] = "canceled" \/ ~context'
    <2>1. handle'[h] = handle[h] /\ server'[h] = server[h]
      BY <1>1, <1>2 DEF NodeInv, NodeTypeOK
    <2>2. Orphan(h)' => Orphan(h)
      BY <1>1, <2>1 DEF Orphan, HasHandle, NoExec
    <2> QED  BY <1>1, <2>1, <2>2, StillExplained
  <1>3. ~Orphan(g)' /\ handle'[g] # "CANCELED"
    BY <1>1 DEF Orphan, Live, NodeInv, NodeTypeOK
  <1> QED  BY <1>2, <1>3 DEF OrphansAreExplained

\* The accept callbacks: the request is with the session, or its handle is ended.
LEMMA AcceptsAreExplained ==
    ASSUME NodeInv, OrphansAreExplained, NEW g \in NodeGoal,
           NEW transforms \in BOOLEAN, Accept(g, transforms)
    PROVE  OrphansAreExplained'
  <1>1. /\ exec = [at |-> "accept", goal |-> g] /\ exec' = NoExec
        /\ UNCHANGED <<server, context>>
        /\ handle[g] \in {"EXECUTING", "submitted"} /\ Held = {} /\ sess.ending = NoRequest
    BY DEF Accept, NodeInv, AcceptHasItsTurn
  <1>2. CASE AbortBeforeSubmit(g)
    <2>1. /\ handle' = Finished(g, "rejected") /\ told' = [told EXCEPT ![g] = "rejected"]
          /\ Held' = Held /\ sess'.ending = sess.ending
      BY <1>2 DEF AbortBeforeSubmit, Held, NodeInv, NodeTypeOK, SessionState
    <2>2. ASSUME NEW h \in NodeGoal, h # g
          PROVE  Orphan(h)' \/ handle'[h] = "CANCELED" => told'[h] = "canceled" \/ ~context'
      <3>1. handle'[h] = handle[h] /\ told'[h] = told[h]
        BY <2>1, <2>2, FinishedHandle DEF NodeInv, NodeTypeOK
      <3>2. Orphan(h)' => Orphan(h)
        BY <1>1, <2>1, <2>2, <3>1 DEF Orphan, HasHandle
      <3> QED  BY <1>1, <3>1, <3>2, StillExplained
    <2>3. CASE context /\ HasHandle(g) /\ handle[g] \in Live
      <3>1. finish_goal(g, "rejected") = "ABORTED"
        BY <2>3 DEF finish_goal, goal_publishable
      <3>2. handle'[g] = "ABORTED"
        BY <2>1, <3>1 DEF Finished, NodeInv, NodeTypeOK
      <3> QED  BY <2>2, <3>2 DEF OrphansAreExplained, Orphan, Live
    <2>4. CASE ~context
      BY <1>1, <2>4 DEF OrphansAreExplained
    <2>5. CASE ~(HasHandle(g) /\ handle[g] \in Live)
      <3>1. finish_goal(g, "rejected") \in {handle[g], "failed"}
        BY <2>5 DEF finish_goal, goal_publishable
      <3>2. handle'[g] = handle[g]
        BY <2>1, <3>1 DEF Finished, NodeInv, NodeTypeOK
      <3> QED  BY <1>1, <2>2, <2>5, <3>2 DEF OrphansAreExplained, Orphan, HasHandle
    <2> QED  BY <2>3, <2>4, <2>5
  <1>3. CASE sess' = [sess EXCEPT !.pending = g] /\ UNCHANGED <<handle, told>>
    <2>1. sess'.pending = g /\ sess'.active = sess.active /\ sess'.ending = sess.ending
      BY <1>3 DEF NodeInv, NodeTypeOK
    <2>2. g \in Held'
      BY <2>1, NodeConstants DEF Held
    <2>3. ASSUME NEW h \in NodeGoal, h # g
          PROVE  Orphan(h)' \/ handle'[h] = "CANCELED" => told'[h] = "canceled" \/ ~context'
      <3>1. Orphan(h)' => Orphan(h)
        BY <1>1, <1>3, <2>1, <2>3 DEF Orphan, HasHandle
      <3> QED  BY <1>1, <1>3, <3>1, StillExplained
    <2>4. ~Orphan(g)' /\ handle'[g] # "CANCELED"
      BY <1>1, <1>3, <2>2 DEF Orphan
    <2> QED  BY <2>3, <2>4 DEF OrphansAreExplained
  <1> QED  BY <1>2, <1>3 DEF Accept

\* The cancel callbacks mark the handle or nothing; rclcpp drops what is orphaned.
LEMMA CancelsAreExplained ==
    ASSUME NodeInv, OrphansAreExplained,
           \E g \in NodeGoal : on_joint_cancel(g) \/ cancel_accepted(g) \/ handle_dropped(g)
    PROVE  OrphansAreExplained'
  <1>1. PICK g \in NodeGoal : on_joint_cancel(g) \/ cancel_accepted(g) \/ handle_dropped(g)
    OBVIOUS
  <1>2. CASE on_joint_cancel(g)
    <2>1. UNCHANGED <<server, handle, told, context>> /\ exec = NoExec
          /\ Held' = Held /\ sess'.ending = sess.ending
      BY <1>2 DEF on_joint_cancel, Held, NodeInv, NodeTypeOK, SessionState
    <2>2. \A h \in NodeGoal : Orphan(h)' => Orphan(h)
      BY <2>1 DEF Orphan, HasHandle, NoExec
    <2> QED  BY <2>1, <2>2, StillExplained DEF OrphansAreExplained
  <1>3. CASE cancel_accepted(g)
    <2>1. /\ UNCHANGED <<server, sess, told, context>> /\ exec = [at |-> "cancel", goal |-> g]
          /\ \/ handle' = handle
             \/ handle[g] = "EXECUTING" /\ handle' = [handle EXCEPT ![g] = "CANCELING"]
      BY <1>3 DEF cancel_accepted, NodeInv, NodeTypeOK
    <2>2. \A h \in NodeGoal : Orphan(h)' => Orphan(h)
      BY <2>1 DEF Orphan, HasHandle, Live, Held, NodeInv, NodeTypeOK
    <2>3. \A h \in NodeGoal : handle'[h] = "CANCELED" => handle[h] = "CANCELED"
      BY <2>1 DEF NodeInv, NodeTypeOK
    <2> QED  BY <2>1, <2>2, <2>3 DEF OrphansAreExplained
  <1>4. CASE handle_dropped(g)
    <2>1. /\ UNCHANGED <<server, exec, sess, told, context>> /\ Orphan(g)
          /\ handle' = [handle EXCEPT ![g] = "CANCELED"]
      BY <1>4 DEF handle_dropped, Orphan
    <2>2. \A h \in NodeGoal : Orphan(h)' \/ handle'[h] = "CANCELED" => Orphan(h) \/ handle[h] = "CANCELED"
      BY <2>1 DEF Orphan, HasHandle, Held, NodeInv, NodeTypeOK
    <2> QED  BY <2>1, <2>2 DEF OrphansAreExplained
  <1> QED  BY <1>1, <1>2, <1>3, <1>4

\* The worker moves what it holds from slot to slot.
LEMMA WorkerExplains ==
    ASSUME NodeInv, OrphansAreExplained,
           worker_takes \/ worker_cancels \/ worker_decides \/ worker_faults
    PROVE  OrphansAreExplained'
  <1>1. UNCHANGED <<server, handle, exec, told, context>>
    BY DEF worker_takes, worker_cancels, worker_decides, worker_faults
  <1>2. Held \cup {sess.ending} \subseteq Held' \cup {sess'.ending, NoRequest}
    <2>1. CASE worker_takes
      BY <2>1 DEF worker_takes, Held, NodeInv, NodeTypeOK, HeldIsOwned
    <2>2. CASE worker_cancels
      BY <2>2 DEF worker_cancels, Held, NodeInv, NodeTypeOK, SessionState
    <2>3. CASE worker_decides
      BY <2>3 DEF worker_decides, Held, NodeInv, NodeTypeOK, SessionState
    <2>4. CASE worker_faults
      BY <2>4 DEF worker_faults, Held, NodeInv, NodeTypeOK, SessionState
    <2> QED  BY <2>1, <2>2, <2>3, <2>4
  <1>3. \A h \in NodeGoal : Orphan(h)' => Orphan(h)
    BY <1>1, <1>2, NodeConstants DEF Orphan, HasHandle
  <1> QED  BY <1>1, <1>3, StillExplained DEF OrphansAreExplained

\* The terminal closure ends the handle; where it cannot, the session has canceled the
\* goal before rclcpp has marked it, or the context is gone.
LEMMA ClosureExplains ==
    ASSUME NodeInv, OrphansAreExplained, worker_answers
    PROVE  OrphansAreExplained'
  <1> DEFINE g == sess.ending
             out == sess.out
  <1>1. g \in NodeGoal /\ g \in Held /\ out \in {"completed", "canceled", "aborted"}
    BY DEF worker_answers, NodeInv, NodeTypeOK, HeldIsOwned, MaybeRequest
  <1>2. /\ told' = [told EXCEPT ![g] = out] /\ handle' = Finished(g, out)
        /\ UNCHANGED <<server, exec, context>>
        /\ \E st : sess' = Dropped(g, st)
    BY DEF worker_answers
  <1>3. ASSUME NEW h \in NodeGoal, h # g
        PROVE  Orphan(h)' \/ handle'[h] = "CANCELED" => told'[h] = "canceled" \/ ~context'
    <2>1. handle'[h] = handle[h]
      BY <1>1, <1>2, <1>3, FinishedHandle DEF NodeInv
    <2>2. h \in Held => h \in Held'
      BY <1>2, <1>3, NodeConstants DEF Dropped, Held, NodeInv, NodeTypeOK
    <2>3. told'[h] = told[h]
      BY <1>1, <1>2, <1>3 DEF NodeInv, NodeTypeOK
    <2>4. Orphan(h)' => Orphan(h)
      BY <1>2, <1>3, <2>1, <2>2 DEF Orphan, HasHandle
    <2> QED  BY <1>2, <2>1, <2>3, <2>4, StillExplained
  <1>4. told'[g] = out
    BY <1>1, <1>2 DEF NodeInv, NodeTypeOK
  <1>5. CASE out # "canceled" /\ context /\ HasHandle(g) /\ handle[g] \in Live
    <2>1. finish_goal(g, out) \in {"SUCCEEDED", "ABORTED"}
      BY <1>5 DEF finish_goal, goal_publishable
    <2>2. handle'[g] \in {"SUCCEEDED", "ABORTED"}
      BY <1>1, <1>2, <2>1 DEF Finished, NodeInv, NodeTypeOK
    <2> QED  BY <1>3, <2>2 DEF OrphansAreExplained, Orphan, Live
  <1>6. CASE out = "canceled" \/ ~context
    BY <1>2, <1>3, <1>4, <1>6 DEF OrphansAreExplained
  <1>7. CASE ~(HasHandle(g) /\ handle[g] \in Live)
    <2>1. finish_goal(g, out) \in {handle[g], "failed"}
      BY <1>7 DEF finish_goal, goal_publishable
    <2>2. handle'[g] = handle[g]
      BY <1>1, <1>2, <2>1 DEF Finished, NodeInv, NodeTypeOK
    <2>3. handle[g] # "CANCELED"
      BY <1>1 DEF NodeInv, EndedIsOver, Ended
    <2> QED  BY <1>2, <1>3, <1>7, <2>2, <2>3 DEF OrphansAreExplained, Orphan, HasHandle
  <1> QED  BY <1>5, <1>6, <1>7

\* A goal's client is told that it was canceled only when the session canceled it or
\* the context has shut down, for every number of requests: no path of the accept
\* callbacks and the terminal closures drops an active handle (abort_joint_before_submit,
\* abort_paired_before_submit, finish_goal).
THEOREM CancelsHaveAReason == NodeSpec => []CanceledForAReason
  <1>1. NodeInit => OrphansAreExplained
    BY DEF NodeInit, OrphansAreExplained, Orphan, Live
  <1>2. ASSUME NodeInv, OrphansAreExplained, [NodeNext]_nodeVars
        PROVE  OrphansAreExplained'
    <2>1. ASSUME NEW g \in NodeGoal, GoalCallbacks(g)
          PROVE  OrphansAreExplained'
      <3>1. \E s \in Servers \cup {"legacy", "neutral"} : OnGoal(g, s)
        BY <2>1 DEF GoalCallbacks, on_joint_goal, on_gripper_goal, on_paired_goal, on_scaled_paired_goal,
                    on_bimanual_goal, on_legacy, neutral_service, Servers
      <3> QED  BY <1>2, <3>1, RequestsAreExplained
    <2>2. ASSUME NEW g \in NodeGoal, AcceptCallbacks(g)
          PROVE  OrphansAreExplained'
      BY <1>2, <2>2, AcceptsAreExplained DEF AcceptCallbacks, accept_joint, accept_gripper,
             accept_paired_goal, accept_bimanual, legacy_submit, neutral_submit
    <2>3. CASE \E g \in NodeGoal : on_joint_cancel(g) \/ cancel_accepted(g) \/ handle_dropped(g)
      BY <1>2, <2>3, CancelsAreExplained
    <2>4. CASE SessionWorker \/ worker_faults
      BY <1>2, <2>4, WorkerExplains, ClosureExplains DEF SessionWorker
    <2>5. CASE node_shutdown
      BY <2>5 DEF node_shutdown, OrphansAreExplained
    <2>6. CASE worker_closes
      BY <2>6 DEF worker_closes, OrphansAreExplained
    <2>7. CASE UNCHANGED nodeVars
      BY <1>2, <2>7 DEF nodeVars, OrphansAreExplained, Orphan, HasHandle, Held
    <2> QED  BY <1>2, <2>1, <2>2, <2>3, <2>4, <2>5, <2>6, <2>7 DEF NodeNext
  <1>3. OrphansAreExplained => CanceledForAReason
    BY DEF OrphansAreExplained, CanceledForAReason
  <1> QED  BY <1>1, <1>2, <1>3, NodeInvariant, PTL DEF NodeSpec

\* What the clients of the action servers and the session are told agrees,
\* for every number of requests: a client is told that its goal succeeded
\* only if the session completed it and that it was canceled only for a reason, a
\* goal that has ended is not held any more, and no reservation is lost (finish_goal,
\* the accept callbacks and the session's terminal closures).
THEOREM GoalsAccounted == NodeSpec => []GoalsAreAccounted
  <1>1. NodeInv /\ CanceledForAReason => GoalsAreAccounted
    BY DEF NodeInv, GoalsAreAccounted
  <1> QED  BY <1>1, NodeInvariant, CancelsHaveAReason, PTL

-----------------------------------------------------------------------------
(* Portal.  A command has one actor at a time: the goal at the controller, *)
(* the executor, the resume timer or the thread of its request.            *)

\* The thread of a request submits a leg.
Submits(r) == move[r] \in LegSteps

OneActor ==
    /\ goal.st # "none" => goalActive /\ goal.of = cmd /\ runner = "idle" /\ ~timer
    /\ runner # "idle" => goalActive /\ ~timer
    /\ timer => goalActive
    /\ \A r \in Req : Submits(r) =>
         goalActive /\ r = cmd /\ runner = "idle" /\ ~timer /\ goal.st = "none"

\* The leg being planned is one the route may have.
LegInRange ==
    runner = "replan" \/ (\E r \in Req : move[r] = "replan") => index < MaxLegs

PortalInv == PortalTypeOK /\ OneActor /\ LegInRange

PortalGoal == [of: MaybeReq, st: {"none", "sent", "rejected", "accepted", "told", "over"},
               leg: BOOLEAN, cancel: BOOLEAN, ok: BOOLEAN]

\* The stops, the signals, the evidence and the requests that are not yet a
\* command: the actor of the command goes on.
LEMMA BystanderStep ==
    ASSUME PortalInv, PortalTypeOK', UNCHANGED <<goalActive, index, runner, cmd>>,
           timer' => timer, goal'.st # "none" <=> goal.st # "none", goal'.of = goal.of,
           \A r \in Req : move'[r] = move[r] \/ move'[r] \notin LegSteps
    PROVE  PortalInv'
  <1>1. OneActor'
    BY DEF PortalInv, OneActor, Submits
  <1>2. LegInRange'
    BY DEF PortalInv, LegInRange, LegSteps
  <1> QED  BY <1>1, <1>2 DEF PortalInv

\* The command's actor moves, within its command or to its end.
LEMMA LegMoves ==
    ASSUME PortalInv, NEW r \in MaybeReq, At(r) \in LegSteps,
           NEW to \in {"replan", "handoff", "send", "ended"}, Move(r, to)
    PROVE  /\ goalActive /\ ~timer /\ goal.st = "none" /\ (r \in Req => r = cmd)
           /\ runner' \in LegSteps \cup {"idle", "schedule", "store"} /\ move' \in [Req -> ReqSteps]
           /\ to = "ended" => runner' = "idle" /\ \A h \in Req : ~Submits(h)'
           /\ runner' # "idle" => runner # "idle"
           /\ \A h \in Req : Submits(h)' => Submits(h) /\ h = cmd
           /\ runner' = "replan" \/ (\E h \in Req : move'[h] = "replan") => to = "replan"
  <1>1. CASE r = NoReq
    <2>1. /\ runner \in LegSteps /\ runner' = (IF to = "ended" THEN "idle" ELSE to) /\ move' = move
      BY <1>1 DEF At, Move
    <2>2. goalActive /\ ~timer /\ goal.st = "none" /\ \A h \in Req : ~Submits(h)
      BY <2>1 DEF PortalInv, OneActor, LegSteps
    <2>3. \A h \in Req : ~Submits(h)' /\ move'[h] # "replan"
      BY <2>1, <2>2 DEF Submits, LegSteps
    <2>4. r \notin Req
      BY <1>1, PortalConstants
    <2> QED  BY <2>1, <2>2, <2>3, <2>4 DEF PortalInv, PortalTypeOK, LegSteps
  <1>2. CASE r \in Req
    <2>1. /\ Submits(r) /\ move' = [move EXCEPT ![r] = to] /\ UNCHANGED runner
      BY <1>2, PortalConstants DEF At, Move, Submits
    <2>2. goalActive /\ r = cmd /\ runner = "idle" /\ ~timer /\ goal.st = "none"
      BY <1>2, <2>1 DEF PortalInv, OneActor
    <2>3. \A h \in Req : Submits(h) => h = r
      BY <2>2 DEF PortalInv, OneActor
    <2>4. move' \in [Req -> ReqSteps] /\ move'[r] = to /\ \A h \in Req \ {r} : move'[h] = move[h]
      BY <1>2, <2>1 DEF PortalInv, PortalTypeOK, ReqSteps, LegSteps
    <2>5. \A h \in Req : h # r => move'[h] \notin LegSteps /\ ~Submits(h)'
      BY <2>3, <2>4 DEF Submits
    <2>6. to = "ended" => \A h \in Req : ~Submits(h)'
      BY <2>4, <2>5 DEF Submits, LegSteps
    <2>7. \A h \in Req : Submits(h)' => Submits(h) /\ h = cmd
      BY <2>1, <2>2, <2>5
    <2>8. runner' = "replan" \/ (\E h \in Req : move'[h] = "replan") => to = "replan"
      BY <2>1, <2>2, <2>4, <2>5 DEF LegSteps
    <2> QED  BY <2>1, <2>2, <2>4, <2>6, <2>7, <2>8 DEF PortalInv, PortalTypeOK
  <1> QED  BY <1>1, <1>2 DEF MaybeReq

\* The actor goes to its next step, and the command goes on.
LEMMA LegGoesOn ==
    ASSUME PortalInv, NEW r \in MaybeReq, At(r) \in LegSteps,
           NEW to \in {"replan", "handoff", "send"}, Move(r, to), to = "replan" => index < MaxLegs,
           legs' \in 0 .. 2 * MaxLegs, displaced' \in BOOLEAN,
           UNCHANGED <<goalActive, goalHandle, gate, cancelPending, quit, index, timer, trusted, latch,
                       stopper, goal, history>>
    PROVE  PortalInv'
  <1>1. /\ goalActive /\ ~timer /\ goal.st = "none"
        /\ runner' \in LegSteps \cup {"idle", "schedule", "store"} /\ move' \in [Req -> ReqSteps]
        /\ runner' # "idle" => runner # "idle"
        /\ \A h \in Req : Submits(h)' => Submits(h) /\ h = cmd
        /\ runner' = "replan" \/ (\E h \in Req : move'[h] = "replan") => to = "replan"
    BY LegMoves
  <1>2. PortalTypeOK'
    BY <1>1 DEF PortalInv, PortalTypeOK, history
  <1>3. OneActor'
    BY <1>1 DEF PortalInv, OneActor, history
  <1>4. LegInRange'
    BY <1>1 DEF LegInRange
  <1> QED  BY <1>2, <1>3, <1>4 DEF PortalInv

\* The leg fails and the command with it.
LEMMA LegFails ==
    ASSUME PortalInv, NEW r \in MaybeReq, At(r) \in LegSteps, FailLeg(r),
           cancelPending' \in BOOLEAN,
           UNCHANGED <<gate, quit, index, timer, trusted, displaced, latch, stopper, goal, history>>
    PROVE  PortalInv'
  <1>1. goalActive' = FALSE /\ goalHandle' = FALSE /\ legs' = 0 /\ Move(r, "ended")
    BY DEF FailLeg
  <1>2. /\ ~timer /\ goal.st = "none" /\ runner' = "idle" /\ \A h \in Req : ~Submits(h)'
        /\ move' \in [Req -> ReqSteps]
        /\ ~(runner' = "replan" \/ (\E h \in Req : move'[h] = "replan"))
    BY <1>1, LegMoves
  <1>3. legs' \in 0 .. 2 * MaxLegs
    BY <1>1, PortalConstants
  <1>4. PortalTypeOK'
    BY <1>1, <1>2, <1>3 DEF PortalInv, PortalTypeOK, history
  <1>5. OneActor' /\ LegInRange'
    BY <1>1, <1>2 DEF OneActor, LegInRange
  <1> QED  BY <1>4, <1>5 DEF PortalInv

LEMMA LegStep ==
    ASSUME PortalInv, NEW r \in MaybeReq,
           leg_begin(r) \/ leg_replan(r) \/ leg_handoff(r) \/ leg_send(r)
    PROVE  PortalInv'
  <1>1. displaced \in BOOLEAN /\ legs \in 0 .. 2 * MaxLegs /\ cancelPending \in BOOLEAN
    BY DEF PortalInv, PortalTypeOK
  <1>2. CASE leg_begin(r)
    <2>1. At(r) \in LegSteps /\ UNCHANGED <<gate, cancelPending, quit, index, timer, trusted, latch, stopper,
                                           goal, history>>
      BY <1>2 DEF leg_begin, LegSteps
    <2>2. CASE /\ LegIsOn /\ index < legs /\ index < MaxLegs /\ displaced' = FALSE /\ Move(r, "replan")
               /\ UNCHANGED <<goalActive, goalHandle, legs>>
      BY <1>1, <2>1, <2>2, LegGoesOn
    <2>3. CASE FailLeg(r) /\ UNCHANGED displaced
      BY <1>1, <2>1, <2>3, LegFails
    <2> QED  BY <1>2, <2>2, <2>3 DEF leg_begin
  <1>3. CASE leg_replan(r)
    <2>1. At(r) = "replan" /\ At(r) \in LegSteps
          /\ UNCHANGED <<gate, cancelPending, quit, index, timer, trusted, displaced, latch, stopper,
                         goal, history>>
      BY <1>3 DEF leg_replan, LegSteps, evidence
    <2>2. ASSUME NEW n \in 1 .. MaxLegs, legs' = index + n, Move(r, "handoff"),
                 UNCHANGED <<goalActive, goalHandle>>
          PROVE  PortalInv'
      <3>1. index < MaxLegs
        BY <2>1, PortalConstants DEF PortalInv, LegInRange, At, MaybeReq
      <3>2. legs' \in 0 .. 2 * MaxLegs
        BY <2>2, <3>1, PortalConstants DEF PortalInv, PortalTypeOK
      <3> QED  BY <1>1, <2>1, <2>2, <3>2, LegGoesOn
    <2>3. CASE FailLeg(r)
      BY <1>1, <2>1, <2>3, LegFails
    <2> QED  BY <1>3, <2>2, <2>3 DEF leg_replan
  <1>4. CASE leg_handoff(r)
    <2>1. At(r) \in LegSteps
          /\ UNCHANGED <<gate, cancelPending, quit, index, timer, trusted, displaced, latch, stopper,
                         goal, history>>
      BY <1>4 DEF leg_handoff, LegSteps, evidence
    <2>2. CASE Move(r, "send") /\ UNCHANGED <<goalActive, goalHandle, legs>>
      BY <1>1, <2>1, <2>2, LegGoesOn
    <2>3. CASE FailLeg(r)
      BY <1>1, <2>1, <2>3, LegFails
    <2> QED  BY <1>4, <2>2, <2>3 DEF leg_handoff
  <1>5. CASE leg_send(r)
    <2>1. At(r) \in LegSteps
          /\ UNCHANGED <<gate, quit, index, timer, trusted, displaced, latch, stopper, history>>
      BY <1>5 DEF leg_send, LegSteps, evidence
    <2>2. CASE /\ Send(IF r = NoReq THEN cmd ELSE r, TRUE) /\ Move(r, "ended")
               /\ UNCHANGED <<goalActive, cancelPending, goalHandle, legs>>
      <3>1. /\ goalActive /\ ~timer /\ (r \in Req => r = cmd) /\ move' \in [Req -> ReqSteps]
            /\ runner' = "idle" /\ \A h \in Req : ~Submits(h)'
            /\ ~(runner' = "replan" \/ (\E h \in Req : move'[h] = "replan"))
        BY <2>1, <2>2, LegMoves
      <3>2. goal' = [of |-> cmd, st |-> "sent", leg |-> TRUE, cancel |-> FALSE, ok |-> FALSE]
        BY <2>2, <3>1 DEF Send, MaybeReq
      <3>3. goal' \in PortalGoal /\ goal'.st = "sent" /\ goal'.of = cmd
        BY <3>2 DEF PortalGoal, PortalInv, PortalTypeOK
      <3>4. PortalTypeOK'
        BY <2>1, <2>2, <3>1, <3>3 DEF PortalInv, PortalTypeOK, PortalGoal, history
      <3>5. OneActor' /\ LegInRange'
        BY <2>1, <2>2, <3>1, <3>3 DEF OneActor, LegInRange, history
      <3> QED  BY <3>4, <3>5 DEF PortalInv
    <2>3. CASE FailLeg(r) /\ cancelPending' = FALSE /\ UNCHANGED goal
      BY <1>1, <2>1, <2>3, LegFails
    <2> QED  BY <1>5, <2>2, <2>3 DEF leg_send
  <1> QED  BY <1>2, <1>3, <1>4, <1>5

\* A request that is refused or whose path is evaluated is not yet a command.
LEMMA RequestStep ==
    ASSUME PortalInv, NEW r \in Req, serve_api_check(r) \/ begin_guard(r) \/ evaluate_guard(r)
    PROVE  PortalInv'
  <1>1. PICK to \in {"ended", "checked", "guarding", "route", "contact"} :
          /\ move' = [move EXCEPT ![r] = to]
          /\ UNCHANGED <<control, route, goalHandle, trusted, latch, runner, stopper, goal, history>>
    BY DEF serve_api_check, begin_guard, evaluate_guard, evidence
  <1>2. displaced' \in BOOLEAN
    BY DEF serve_api_check, begin_guard, evaluate_guard, evidence, PortalInv, PortalTypeOK
  <1>3. gate' \in MaybeReq
    BY DEF serve_api_check, begin_guard, evaluate_guard, Release, PortalInv, PortalTypeOK, MaybeReq
  <1>4. /\ move' \in [Req -> ReqSteps]
        /\ \A h \in Req : move'[h] = move[h] \/ move'[h] \notin LegSteps
    BY <1>1 DEF PortalInv, PortalTypeOK, ReqSteps, LegSteps
  <1>5. PortalTypeOK'
    BY <1>1, <1>2, <1>3, <1>4 DEF PortalInv, PortalTypeOK, control, route, history
  <1> QED  BY <1>1, <1>4, <1>5, BystanderStep DEF control, route, history

\* A command begins when no other is active: none has an actor.
LEMMA MoveStep ==
    ASSUME PortalInv, NEW r \in Req, move_contact(r) \/ move_route(r)
    PROVE  PortalInv'
  <1>1. /\ UNCHANGED <<quit, goalHandle, timer, trusted, displaced, latch, runner, stopper, stopped>>
        /\ gate' \in MaybeReq /\ gate \in MaybeReq
    BY DEF move_contact, move_route, route, evidence, Release, PortalInv, PortalTypeOK, MaybeReq
  <1>2. CASE ~goalActive /\ goalActive' = TRUE /\ cancelPending' = FALSE /\ cmd' = r
    <2>1. goal.st = "none" /\ runner = "idle" /\ ~timer /\ \A h \in Req : ~Submits(h)
      BY <1>2 DEF PortalInv, OneActor
    <2>2. CASE move' = [move EXCEPT ![r] = "ended"] /\ Send(r, FALSE) /\ UNCHANGED <<legs, index>>
      <3>1. goal' = [of |-> r, st |-> "sent", leg |-> FALSE, cancel |-> FALSE, ok |-> FALSE]
        BY <2>2 DEF Send
      <3>2. goal' \in PortalGoal /\ goal'.st = "sent" /\ goal'.of = r
        BY <3>1 DEF PortalGoal, MaybeReq
      <3>3. move' \in [Req -> ReqSteps] /\ \A h \in Req : ~Submits(h)' /\ move'[h] # "replan"
        BY <2>1, <2>2 DEF PortalInv, PortalTypeOK, ReqSteps, LegSteps, Submits
      <3>4. PortalTypeOK'
        BY <1>1, <1>2, <2>2, <3>2, <3>3 DEF PortalInv, PortalTypeOK, PortalGoal, MaybeReq
      <3>5. OneActor' /\ LegInRange'
        BY <1>1, <1>2, <2>1, <3>2, <3>3 DEF OneActor, LegInRange
      <3> QED  BY <3>4, <3>5 DEF PortalInv
    <2>3. CASE /\ legs' \in 1 .. MaxLegs /\ index' = 0 /\ move' = [move EXCEPT ![r] = "begin"]
               /\ UNCHANGED goal
      <3>1. legs' \in 0 .. 2 * MaxLegs /\ index' \in 0 .. 2 * MaxLegs
        BY <2>3, PortalConstants
      <3>2. move' \in [Req -> ReqSteps] /\ \A h \in Req : (Submits(h)' => h = r) /\ move'[h] # "replan"
        BY <2>1, <2>3 DEF PortalInv, PortalTypeOK, ReqSteps, LegSteps, Submits
      <3>3. PortalTypeOK'
        BY <1>1, <1>2, <2>3, <3>1, <3>2 DEF PortalInv, PortalTypeOK, MaybeReq
      <3>4. OneActor' /\ LegInRange'
        BY <1>1, <1>2, <2>1, <2>3, <3>2 DEF OneActor, LegInRange
      <3> QED  BY <3>3, <3>4 DEF PortalInv
    <2> QED  BY <1>2, <2>2, <2>3 DEF move_contact, move_route, route
  <1>3. CASE /\ move' = [move EXCEPT ![r] = "ended"]
             /\ UNCHANGED <<goalActive, cancelPending, cmd, legs, index, goal>>
    <2>1. /\ move' \in [Req -> ReqSteps]
          /\ \A h \in Req : move'[h] = move[h] \/ move'[h] \notin LegSteps
      BY <1>3 DEF PortalInv, PortalTypeOK, ReqSteps, LegSteps
    <2>2. PortalTypeOK'
      BY <1>1, <1>3, <2>1 DEF PortalInv, PortalTypeOK
    <2> QED  BY <1>1, <1>3, <2>1, <2>2, BystanderStep
  <1> QED  BY <1>2, <1>3 DEF move_contact, move_route, route

\* Evidence comes and ages, stops and signals arrive, the controller works.
LEMMA EnvironmentStep ==
    ASSUME PortalInv, update_evidence \/ evidence_ages \/ engage_estop \/ release_estop \/ signal_handler
                      \/ begin_shutdown \/ controller_answers \/ controller_ends
    PROVE  PortalInv'
  <1>1. UNCHANGED <<gate, goalActive, cancelPending, route, goalHandle, move, runner, history>>
    BY DEF update_evidence, evidence_ages, engage_estop, release_estop, signal_handler, begin_shutdown,
           controller_answers, controller_ends, control
  <1>2. /\ trusted' \in BOOLEAN /\ displaced' \in BOOLEAN /\ latch' \in BOOLEAN
        /\ quit' \in {"no", "signalled", "stopping"}
    BY DEF update_evidence, evidence_ages, engage_estop, release_estop, signal_handler, begin_shutdown,
           controller_answers, controller_ends, control, evidence, PortalInv, PortalTypeOK
  <1>3. /\ goal' \in PortalGoal /\ goal'.of = goal.of /\ (goal'.st # "none" <=> goal.st # "none")
    <2>1. goal \in PortalGoal
      BY DEF PortalInv, PortalTypeOK, PortalGoal
    <2>2. CASE controller_answers
      BY <2>1, <2>2 DEF controller_answers, PortalGoal
    <2>3. CASE controller_ends
      BY <2>1, <2>3 DEF controller_ends, PortalGoal
    <2>4. CASE UNCHANGED goal
      BY <2>1, <2>4
    <2> QED  BY <2>2, <2>3, <2>4
        DEF update_evidence, evidence_ages, engage_estop, release_estop, signal_handler, begin_shutdown
  <1>4. stopper' \in [Stoppers -> [at: {"idle", "begun", "cancel", "join", "last", "done"}, took: MaybeReq]]
    <2>1. stopper \in [Stoppers -> [at: {"idle", "begun", "cancel", "join", "last", "done"}, took: MaybeReq]]
      BY DEF PortalInv, PortalTypeOK
    <2>2. UNCHANGED stopper \/ \E s \in Stoppers : stopper' = [stopper EXCEPT ![s].at = "begun"]
      BY DEF update_evidence, evidence_ages, engage_estop, release_estop, signal_handler, begin_shutdown,
             controller_answers, controller_ends, Stoppers
    <2> QED  BY <2>1, <2>2
  <1>5. PortalTypeOK'
    BY <1>1, <1>2, <1>3, <1>4 DEF PortalInv, PortalTypeOK, PortalGoal, route, history
  <1> QED  BY <1>1, <1>3, <1>5, BystanderStep DEF route, history

\* A stop withdraws what a later step could continue; the actor goes on.
LEMMA StopsStep ==
    ASSUME PortalInv,
           api_stop \/ cancel_again \/ \E s \in Stoppers : cancel_begun(s) \/ async_cancel_goal(s)
    PROVE  PortalInv'
  <1> DEFINE Places == {"idle", "begun", "cancel", "join", "last", "done"}
  <1>1. stopper \in [Stoppers -> [at: Places, took: MaybeReq]] /\ goal \in PortalGoal
    BY DEF PortalInv, PortalTypeOK, PortalGoal
  <1>2. ASSUME NEW s \in Stoppers, NEW then \in {"cancel", "last"}, Cancel(s, then)
        PROVE  PortalInv'
    <2> DEFINE took == IF goalHandle THEN goal.of ELSE NoReq
    <2>1. took \in MaybeReq
      BY <1>1 DEF PortalGoal, MaybeReq
    <2>2. stopper' = [stopper EXCEPT ![s] = [at |-> then, took |-> took]]
      BY <1>2 DEF Cancel
    <2> HIDE DEF took
    <2>3. stopper' \in [Stoppers -> [at: Places, took: MaybeReq]]
      BY <1>1, <2>1, <2>2
    <2>4. /\ gate' = NoReq /\ cancelPending' = goalActive /\ timer' = FALSE /\ legs' = 0
          /\ UNCHANGED <<goalActive, quit, index, goalHandle, trusted, displaced, latch, move, runner,
                         goal, cmd>>
      BY <1>2 DEF Cancel, evidence
    <2>5. stopped' \subseteq Req
      BY <1>2 DEF Cancel, PortalInv, PortalTypeOK, MaybeReq
    <2>6. gate' \in MaybeReq /\ legs' \in 0 .. 2 * MaxLegs /\ cancelPending' \in BOOLEAN
      BY <2>4, PortalConstants DEF PortalInv, PortalTypeOK, MaybeReq
    <2>7. PortalTypeOK'
      BY <2>3, <2>4, <2>5, <2>6 DEF PortalInv, PortalTypeOK
    <2> QED  BY <2>4, <2>7, BystanderStep
  <1>3. ASSUME NEW s \in Stoppers, async_cancel_goal(s)
        PROVE  PortalInv'
    <2>1. PICK at \in {"idle", "done", "join"} :
            stopper' = [stopper EXCEPT ![s] = [at |-> at, took |-> NoReq]]
      <3> DEFINE at == CASE s = "urgent" -> "idle" [] stopper[s].at = "last" -> "done" [] OTHER -> "join"
      <3>1. at \in {"idle", "done", "join"}
        <4>1. CASE s = "urgent" \/ stopper[s].at = "last"
          BY <4>1
        <4>2. CASE ~(s = "urgent" \/ stopper[s].at = "last")
          BY <4>2
        <4> QED  BY <4>1, <4>2
      <3>2. stopper' = [stopper EXCEPT ![s] = [at |-> at, took |-> NoReq]]
        BY <1>3 DEF async_cancel_goal
      <3> HIDE DEF at
      <3> QED  BY <3>1, <3>2
    <2>2. stopper' \in [Stoppers -> [at: Places, took: MaybeReq]]
      BY <1>1, <2>1 DEF MaybeReq
    <2>3. goal' = goal \/ goal' = [goal EXCEPT !.cancel = TRUE]
      BY <1>3 DEF async_cancel_goal
    <2>4. goal' \in PortalGoal /\ goal'.of = goal.of /\ goal'.st = goal.st
      BY <1>1, <2>3 DEF PortalGoal
    <2>5. UNCHANGED <<gate, control, route, goalHandle, evidence, latch, move, runner, history>>
      BY <1>3 DEF async_cancel_goal
    <2>6. PortalTypeOK'
      BY <2>2, <2>4, <2>5
      DEF PortalInv, PortalTypeOK, PortalGoal, control, route, evidence, history
    <2> QED  BY <2>4, <2>5, <2>6, BystanderStep DEF control, route, history
  <1>4. CASE api_stop \/ cancel_again \/ \E s \in Stoppers : cancel_begun(s)
    BY <1>2, <1>4 DEF api_stop, cancel_again, cancel_begun, Stoppers
  <1> QED  BY <1>3, <1>4

\* The controller's answers: the command goes on, has a next leg or ends.
LEMMA CallbacksStep ==
    ASSUME PortalInv, goal_response \/ goal_result
    PROVE  PortalInv'
  <1>1. /\ goal.st # "none" /\ goalActive /\ goal.of = cmd /\ runner = "idle" /\ ~timer
        /\ goal \in PortalGoal /\ \A r \in Req : ~Submits(r)
        /\ UNCHANGED <<gate, quit, timer, trusted, displaced, latch, move, stopper, cmd, stopped>>
    BY DEF goal_response, goal_result, PortalInv, PortalTypeOK, PortalGoal, OneActor, evidence, history
  <1>2. NoPortalGoal \in PortalGoal /\ NoPortalGoal.st = "none"
    BY DEF NoPortalGoal, PortalGoal, MaybeReq
  <1>3. 0 \in 0 .. 2 * MaxLegs
    BY PortalConstants
  <1>4. \A r \in Req : ~Submits(r)' /\ move'[r] # "replan"
    BY <1>1 DEF Submits, LegSteps
  <1>5. CASE /\ goal' = NoPortalGoal /\ goalActive' = FALSE /\ cancelPending' = FALSE
             /\ legs' \in {0, legs} /\ goalHandle' = FALSE /\ UNCHANGED <<index, runner>>
    <2>1. PortalTypeOK'
      BY <1>1, <1>2, <1>3, <1>5 DEF PortalInv, PortalTypeOK, PortalGoal
    <2>2. OneActor' /\ LegInRange'
      BY <1>1, <1>2, <1>4, <1>5 DEF OneActor, LegInRange
    <2> QED  BY <2>1, <2>2 DEF PortalInv
  <1>6. CASE /\ goal' = NoPortalGoal /\ goalHandle' = FALSE /\ index + 1 < legs /\ index' = index + 1
             /\ runner' = "schedule" /\ UNCHANGED <<goalActive, cancelPending, legs>>
    <2>1. index' \in 0 .. 2 * MaxLegs
      BY <1>6, PortalConstants DEF PortalInv, PortalTypeOK
    <2>2. PortalTypeOK'
      BY <1>1, <1>2, <1>6, <2>1 DEF PortalInv, PortalTypeOK, PortalGoal
    <2>3. OneActor' /\ LegInRange'
      BY <1>1, <1>2, <1>4, <1>6 DEF OneActor, LegInRange
    <2> QED  BY <2>2, <2>3 DEF PortalInv
  <1>7. CASE /\ goal.st = "accepted" /\ goalHandle' = TRUE /\ UNCHANGED <<goalActive, cancelPending, legs>>
             /\ goal' = [goal EXCEPT !.st = "told",
                           !.cancel = @ \/ cancelPending \/ (goal.leg /\ legs = 0)]
             /\ UNCHANGED <<index, runner>>
    <2> DEFINE late == goal.cancel \/ cancelPending \/ (goal.leg /\ legs = 0)
    <2>1. goal' = [goal EXCEPT !.st = "told", !.cancel = late] /\ late \in BOOLEAN
      BY <1>1, <1>7 DEF PortalGoal
    <2> HIDE DEF late
    <2>2. goal' \in PortalGoal /\ goal'.st = "told" /\ goal'.of = goal.of
      BY <1>1, <2>1 DEF PortalGoal
    <2>3. PortalTypeOK'
      BY <1>1, <1>7, <2>2 DEF PortalInv, PortalTypeOK, PortalGoal
    <2>4. OneActor' /\ LegInRange'
      BY <1>1, <1>4, <1>7, <2>2 DEF OneActor, LegInRange
    <2> QED  BY <2>3, <2>4 DEF PortalInv
  <1>8. CASE goal_response
    BY <1>5, <1>7, <1>8 DEF goal_response
  <1>9. CASE goal_result
    BY <1>1, <1>5, <1>6, <1>9 DEF goal_result
  <1> QED  BY <1>8, <1>9

\* The executor waits for the next leg behind the timer.
LEMMA TimerStep ==
    ASSUME PortalInv, schedule_route_leg \/ store_resume_timer \/ resume_timer
    PROVE  PortalInv'
  <1>1. /\ goalActive /\ goal.st = "none" /\ \A r \in Req : ~Submits(r)
        /\ (runner = "idle" \/ ~timer)
        /\ UNCHANGED <<gate, cancelPending, quit, index, trusted, displaced, latch, move, stopper, goal,
                       cmd, stopped>>
    BY DEF schedule_route_leg, store_resume_timer, resume_timer, PortalInv, OneActor, evidence,
           history, control
  <1>2. /\ runner' \in {"idle", "store", "begin"} /\ timer' \in BOOLEAN /\ goalHandle' \in BOOLEAN
        /\ goalActive' \in BOOLEAN /\ legs' \in {legs, 0}
        /\ runner' # "idle" \/ timer' => goalActive'
        /\ runner' # "idle" => ~timer'
    BY <1>1 DEF schedule_route_leg, store_resume_timer, resume_timer, ExecutorFree, PortalInv, PortalTypeOK,
                LegIsOn, control
  <1>3. legs' \in 0 .. 2 * MaxLegs
    BY <1>2, PortalConstants DEF PortalInv, PortalTypeOK
  <1>4. PortalTypeOK'
    BY <1>1, <1>2, <1>3 DEF PortalInv, PortalTypeOK, LegSteps
  <1>5. \A r \in Req : ~Submits(r)' /\ move'[r] # "replan"
    BY <1>1 DEF Submits, LegSteps
  <1>6. OneActor' /\ LegInRange'
    BY <1>1, <1>2, <1>5 DEF OneActor, LegInRange
  <1> QED  BY <1>4, <1>6 DEF PortalInv

\* The invariant is inductive.
LEMMA PortalInvariant == PortalSpec => []PortalInv
  <1>1. PortalInit => PortalInv
    <2> SUFFICES ASSUME PortalInit PROVE PortalInv
      OBVIOUS
    <2>1. stopper \in [Stoppers -> [at: {"idle", "begun", "cancel", "join", "last", "done"}, took: MaybeReq]]
      BY DEF PortalInit, MaybeReq
    <2>2. goal \in PortalGoal /\ goal.st = "none"
      BY DEF PortalInit, NoPortalGoal, PortalGoal, MaybeReq
    <2>3. legs \in 0 .. 2 * MaxLegs /\ index \in 0 .. 2 * MaxLegs
      BY PortalConstants DEF PortalInit
    <2>4. PortalTypeOK
      BY <2>1, <2>2, <2>3 DEF PortalInit, PortalTypeOK, PortalGoal, MaybeReq, ReqSteps
    <2>5. OneActor /\ LegInRange
      BY <2>2 DEF PortalInit, OneActor, LegInRange, Submits, LegSteps
    <2> QED  BY <2>4, <2>5 DEF PortalInv
  <1>2. PortalInv /\ [PortalNext]_portalVars => PortalInv'
    <2> SUFFICES ASSUME PortalInv, [PortalNext]_portalVars
                 PROVE  PortalInv'
      OBVIOUS
    <2>1. ASSUME NEW r \in Req, HttpThread(r)
          PROVE  PortalInv'
      BY <2>1, RequestStep, MoveStep, LegStep DEF HttpThread, MaybeReq
    <2>2. CASE Executor
      BY <2>2, CallbacksStep, TimerStep, LegStep DEF Executor, MaybeReq
    <2>3. CASE update_evidence \/ evidence_ages \/ StopThreads \/ controller_answers \/ controller_ends
      BY <2>3, EnvironmentStep, StopsStep DEF StopThreads
    <2>4. CASE UNCHANGED portalVars
      BY <2>4 DEF portalVars, PortalInv, PortalTypeOK, OneActor, LegInRange, Submits
    <2> QED  BY <2>1, <2>2, <2>3, <2>4 DEF PortalNext
  <1> QED  BY <1>1, <1>2, PTL DEF PortalSpec

\* The portal has one command at a time, from its handover to its last
\* callback, for every number of requests and every length of a route: a goal
\* at the controller is the active command's, and a command that is over
\* leaves no leg, timer or submission behind (move, submit_route_leg, the
\* goal and result callbacks, cancel).
THEOREM PortalHasOneCommand == PortalSpec => []OneCommand
  <1>1. PortalInv => OneCommand
    BY DEF PortalInv, OneActor, OneCommand, GoalIsCovered, NothingRunsOn, Submits, LegSteps
  <1> QED  BY <1>1, PortalInvariant, PTL

\* The portal stays well typed, its route index within its route's bound, for every
\* number of requests and every length of a route (move, submit_route_leg, cancel).
THEOREM PortalTypes == PortalSpec => []PortalTypeOK
  <1>1. PortalInv => PortalTypeOK
    BY DEF PortalInv
  <1> QED  BY <1>1, PortalInvariant, PTL

\* A request holds the reservation while it is evaluated; one that a stop has found,
\* or whose command is active, has left the start for good.
Early == {"new", "checked"}
Evaluated == {"guarding", "route", "contact"}
RequestsInPlace ==
    /\ gate \in Req => move[gate] \in Evaluated
    /\ \A r \in stopped : move[r] \notin Early
    /\ goalActive => cmd \in Req /\ move[cmd] \notin Early

\* The handle of a goal whose acceptance is known is there for a stop to take.
HandleIsKept == goal.st = "told" => goalHandle

\* The inductive invariant behind StopIsUnderWay.
StopInv == RequestsInPlace /\ HandleIsKept /\ StopIsUnderWay

\* A step that goes on with the command or ends it, and starts nothing, keeps it.
LEMMA StopKept ==
    ASSUME PortalInv, StopInv, UNCHANGED <<gate, cmd, stopped>>,
           goalActive' => goalActive /\ cancelPending' = cancelPending,
           goal'.of = goal.of, goal'.st = "told" => goal = goal' /\ goalHandle' = goalHandle,
           \A s \in Stoppers : stopper'[s].took = stopper[s].took,
           \A r \in Req : move'[r] = move[r]
                          \/ (move[r] \notin Early \cup Evaluated /\ move'[r] \notin Early)
    PROVE  StopInv'
  <1>1. RequestsInPlace'
    BY DEF StopInv, RequestsInPlace, PortalInv, PortalTypeOK
  <1>2. HandleIsKept'
    BY DEF StopInv, HandleIsKept
  <1>3. StopIsUnderWay'
    BY DEF StopInv, StopIsUnderWay
  <1> QED  BY <1>1, <1>2, <1>3 DEF StopInv

\* Only the executor's and the threads' own steps of a leg, and no goal meanwhile.
LEMMA LegsKeepStops ==
    ASSUME PortalInv, StopInv, NEW r \in MaybeReq,
           leg_begin(r) \/ leg_replan(r) \/ leg_handoff(r) \/ leg_send(r)
    PROVE  StopInv'
  <1>1. At(r) \in LegSteps /\ UNCHANGED <<gate, stopper, cmd, stopped>>
    BY DEF leg_begin, leg_replan, leg_handoff, leg_send, LegSteps, history
  <1>2. PICK to \in {"replan", "handoff", "send", "ended"} : Move(r, to)
    BY DEF leg_begin, leg_replan, leg_handoff, leg_send, FailLeg
  <1>3. goalActive /\ goal.st = "none" /\ (r \in Req => r = cmd)
    BY <1>1, <1>2, LegMoves
  <1>4. \A h \in Req : move'[h] = move[h]
                       \/ (move[h] \notin Early \cup Evaluated /\ move'[h] \notin Early)
    <2>1. CASE r = NoReq
      BY <1>2, <2>1 DEF Move
    <2>2. CASE r \in Req
      <3>1. move[r] \in LegSteps /\ move' = [move EXCEPT ![r] = to]
        BY <1>1, <1>2, <2>2, PortalConstants DEF At, Move
      <3> QED  BY <3>1 DEF PortalInv, PortalTypeOK, LegSteps, Early, Evaluated
    <2> QED  BY <2>1, <2>2 DEF MaybeReq
  <1>5. CASE Send(IF r = NoReq THEN cmd ELSE r, TRUE)
             /\ UNCHANGED <<goalActive, cancelPending, goalHandle>>
    <2>1. goal'.of = cmd /\ goal'.st = "sent"
      BY <1>3, <1>5 DEF Send, MaybeReq
    <2>2. RequestsInPlace'
      BY <1>1, <1>4, <1>5 DEF StopInv, RequestsInPlace, PortalInv, PortalTypeOK
    <2>3. HandleIsKept' /\ StopIsUnderWay'
      BY <1>1, <1>5, <2>1 DEF StopInv, HandleIsKept, StopIsUnderWay
    <2> QED  BY <2>2, <2>3 DEF StopInv
  <1>6. CASE UNCHANGED goal /\ (goalActive' => cancelPending' = cancelPending)
    BY <1>1, <1>3, <1>4, <1>6, StopKept
  <1>7. CASE leg_send(r)
    BY <1>5, <1>6, <1>7 DEF leg_send, FailLeg
  <1>8. CASE leg_begin(r) \/ leg_replan(r) \/ leg_handoff(r)
    BY <1>6, <1>8 DEF leg_begin, leg_replan, leg_handoff
  <1> QED  BY <1>7, <1>8

\* A request that begins is none that a stop has found, and not the command's.
LEMMA RequestsKeepStops ==
    ASSUME PortalInv, StopInv, NEW r \in Req,
           serve_api_check(r) \/ begin_guard(r) \/ evaluate_guard(r)
    PROVE  StopInv'
  <1>1. /\ UNCHANGED <<goalActive, cancelPending, goalHandle, stopper, goal, cmd, stopped>>
        /\ \E to \in {"ended", "checked", "guarding", "route", "contact"} :
             move' = [move EXCEPT ![r] = to]
    BY DEF serve_api_check, begin_guard, evaluate_guard, control, history
  <1>2. \A h \in Req \ {r} : move'[h] = move[h]
    BY <1>1 DEF PortalInv, PortalTypeOK
  <1>3. stopped \subseteq Req
    BY DEF PortalInv, PortalTypeOK
  <1>4. CASE serve_api_check(r)
    <2>1. gate' = gate /\ move[r] = "new"
      BY <1>4 DEF serve_api_check
    <2>2. gate # r /\ r \notin stopped /\ (goalActive => cmd # r)
      BY <2>1 DEF StopInv, RequestsInPlace, Early, Evaluated
    <2> QED  BY <1>1, <1>2, <1>3, <2>1, <2>2
             DEF StopInv, RequestsInPlace, HandleIsKept, StopIsUnderWay
  <1>5. CASE begin_guard(r)
    <2>1. move[r] = "checked"
      BY <1>5 DEF begin_guard
    <2>2. gate # r /\ r \notin stopped /\ (goalActive => cmd # r)
      BY <2>1 DEF StopInv, RequestsInPlace, Early, Evaluated
    <2>3. gate' = gate \/ (gate' = r /\ move'[r] = "guarding")
      BY <1>5 DEF begin_guard, PortalInv, PortalTypeOK
    <2> QED  BY <1>1, <1>2, <1>3, <2>2, <2>3
             DEF StopInv, RequestsInPlace, HandleIsKept, StopIsUnderWay, Evaluated
  <1>6. CASE evaluate_guard(r)
    <2>1. \/ gate' = gate /\ move'[r] \in {"route", "contact"}
          \/ gate' \in {gate, NoReq} \ {r} /\ move'[r] = "ended"
      BY <1>6, PortalConstants DEF evaluate_guard, Release, PortalInv, PortalTypeOK
    <2>2. move'[r] \notin Early
      BY <2>1 DEF Early
    <2>3. RequestsInPlace'
      BY <1>1, <1>2, <1>3, <2>1, <2>2, PortalConstants DEF StopInv, RequestsInPlace, Evaluated
    <2>4. HandleIsKept' /\ StopIsUnderWay'
      BY <1>1, <1>3, <2>1, PortalConstants DEF StopInv, HandleIsKept, StopIsUnderWay
    <2> QED  BY <2>3, <2>4 DEF StopInv
  <1> QED  BY <1>4, <1>5, <1>6

\* A command begins for the request that holds the reservation, which no stop has found.
LEMMA CommandsKeepStops ==
    ASSUME PortalInv, StopInv, NEW r \in Req, move_contact(r) \/ move_route(r)
    PROVE  StopInv'
  <1>1. /\ UNCHANGED <<goalHandle, stopper, stopped>> /\ stopped \subseteq Req
        /\ move[r] \in {"route", "contact"}
        /\ \E to \in {"ended", "begin"} : move' = [move EXCEPT ![r] = to]
    BY DEF move_contact, move_route, PortalInv, PortalTypeOK
  <1>2. /\ \A h \in Req \ {r} : move'[h] = move[h]
        /\ move'[r] \notin Early
    BY <1>1 DEF PortalInv, PortalTypeOK, Early
  <1>3. CASE /\ gate = r /\ ~goalActive /\ goalActive' = TRUE /\ cmd' = r /\ gate' = NoReq
             /\ goal'.st = "sent" \/ goal' = goal
    <2>1. r \notin stopped /\ goal.st = "none"
      BY <1>3 DEF StopInv, StopIsUnderWay, PortalInv, OneActor
    <2>2. RequestsInPlace'
      BY <1>1, <1>2, <1>3, PortalConstants DEF StopInv, RequestsInPlace
    <2>3. HandleIsKept'
      BY <1>3, <2>1 DEF HandleIsKept
    <2>4. StopIsUnderWay'
      BY <1>1, <1>3, <2>1, PortalConstants DEF StopIsUnderWay
    <2> QED  BY <2>2, <2>3, <2>4 DEF StopInv
  <1>4. CASE Release(r) /\ UNCHANGED <<goalActive, cancelPending, cmd, goal>>
    <2>1. gate' \in {gate, NoReq} \ {r}
      BY <1>4, PortalConstants DEF Release
    <2>2. RequestsInPlace'
      BY <1>1, <1>2, <1>4, <2>1, PortalConstants DEF StopInv, RequestsInPlace
    <2>3. HandleIsKept' /\ StopIsUnderWay'
      BY <1>1, <1>4, <2>1, PortalConstants DEF StopInv, HandleIsKept, StopIsUnderWay
    <2> QED  BY <2>2, <2>3 DEF StopInv
  <1>5. CASE move_contact(r)
    <2>1. Send(r, FALSE) => goal'.st = "sent"
      BY DEF Send
    <2> QED  BY <1>3, <1>4, <1>5, <2>1 DEF move_contact
  <1>6. CASE move_route(r)
    <2>1. UNCHANGED goal
      BY <1>6 DEF move_route
    <2> QED  BY <1>3, <1>4, <1>6, <2>1 DEF move_route
  <1> QED  BY <1>5, <1>6

\* A stop marks what it finds, and whoever took a handle cancels its goal.
LEMMA StopsMark ==
    ASSUME PortalInv, StopInv,
           api_stop \/ cancel_again \/ \E s \in Stoppers : cancel_begun(s) \/ async_cancel_goal(s)
    PROVE  StopInv'
  <1>1. stopper \in [Stoppers -> [at: {"idle", "begun", "cancel", "join", "last", "done"}, took: MaybeReq]]
        /\ goal \in PortalGoal
    BY DEF PortalInv, PortalTypeOK, PortalGoal
  <1>2. ASSUME NEW s \in Stoppers, NEW then \in {"cancel", "last"}, Cancel(s, then)
        PROVE  StopInv'
    <2>1. /\ gate' = NoReq /\ cancelPending' = goalActive
          /\ stopped' = (stopped \cup {gate} \cup (IF goalActive THEN {cmd} ELSE {})) \ {NoReq}
          /\ stopped' \subseteq Req
          /\ UNCHANGED <<goalActive, goalHandle, move, goal, cmd>>
      BY <1>2 DEF Cancel, PortalInv, PortalTypeOK, MaybeReq
    <2>2. goal.st = "told" => stopper'[s].took = goal.of
      BY <1>1, <1>2 DEF Cancel, StopInv, HandleIsKept
    <2>3. RequestsInPlace'
      BY <2>1, PortalConstants DEF StopInv, RequestsInPlace, Early, Evaluated, PortalInv, PortalTypeOK,
                                   MaybeReq
    <2>4. HandleIsKept' /\ StopIsUnderWay'
      BY <2>1, <2>2, PortalConstants DEF StopInv, HandleIsKept, StopIsUnderWay
    <2> QED  BY <2>3, <2>4 DEF StopInv
  <1>3. ASSUME NEW s \in Stoppers, async_cancel_goal(s)
        PROVE  StopInv'
    <2>1. /\ UNCHANGED <<gate, goalActive, cancelPending, goalHandle, move, cmd, stopped>>
          /\ \A h \in Stoppers \ {s} : stopper'[h] = stopper[h]
          /\ goal' = IF goal.st = "told" /\ goal.of = stopper[s].took
                     THEN [goal EXCEPT !.cancel = TRUE] ELSE goal
      BY <1>1, <1>3 DEF async_cancel_goal, control, history
    <2>2. /\ goal'.of = goal.of /\ goal'.st = goal.st /\ (goal.cancel => goal'.cancel)
          /\ goal.st = "told" /\ goal.of = stopper[s].took => goal'.cancel
      BY <1>1, <2>1 DEF PortalGoal
    <2>3. RequestsInPlace' /\ HandleIsKept'
      BY <2>1, <2>2 DEF StopInv, RequestsInPlace, HandleIsKept
    <2>4. StopIsUnderWay'
      BY <2>1, <2>2 DEF StopInv, StopIsUnderWay
    <2> QED  BY <2>3, <2>4 DEF StopInv
  <1>4. CASE api_stop \/ cancel_again \/ \E s \in Stoppers : cancel_begun(s)
    BY <1>2, <1>4 DEF api_stop, cancel_again, cancel_begun, Stoppers
  <1> QED  BY <1>3, <1>4

\* The goal response sees the stop that overtook it; the result ends what was stopped.
LEMMA CallbacksKeepStops ==
    ASSUME PortalInv, StopInv, goal_response \/ goal_result
    PROVE  StopInv'
  <1>1. /\ goalActive /\ goal.of = cmd /\ goal \in PortalGoal /\ stopped \subseteq Req
        /\ UNCHANGED <<gate, move, stopper, cmd, stopped>>
    BY DEF goal_response, goal_result, PortalInv, PortalTypeOK, PortalGoal, OneActor, history
  <1>2. RequestsInPlace'
    BY <1>1 DEF StopInv, RequestsInPlace
  <1>3. CASE goal' = NoPortalGoal /\ (goalActive' => cancelPending' = cancelPending)
    BY <1>1, <1>2, <1>3, PortalConstants DEF StopInv, HandleIsKept, StopIsUnderWay, NoPortalGoal
  <1>4. CASE /\ goalHandle' = TRUE /\ UNCHANGED <<goalActive, cancelPending>>
             /\ goal' = [goal EXCEPT !.st = "told",
                           !.cancel = @ \/ cancelPending \/ (goal.leg /\ legs = 0)]
    <2>1. goal'.of = goal.of /\ goal'.cancel = (goal.cancel \/ cancelPending \/ (goal.leg /\ legs = 0))
      BY <1>1, <1>4 DEF PortalGoal
    <2>2. HandleIsKept'
      BY <1>4 DEF HandleIsKept
    <2>3. StopIsUnderWay'
      BY <1>1, <1>4, <2>1 DEF StopInv, StopIsUnderWay
    <2> QED  BY <1>2, <2>2, <2>3 DEF StopInv
  <1> QED  BY <1>3, <1>4 DEF goal_response, goal_result

\* The timer, the evidence, the signals and the controller.
LEMMA OthersKeepStops ==
    ASSUME PortalInv, StopInv,
           \/ schedule_route_leg \/ store_resume_timer \/ resume_timer
           \/ update_evidence \/ evidence_ages \/ engage_estop \/ release_estop
           \/ signal_handler \/ begin_shutdown \/ controller_answers \/ controller_ends
    PROVE  StopInv'
  <1>1. UNCHANGED <<gate, cancelPending, move, cmd, stopped>> /\ (goalActive' => goalActive)
    <2>1. CASE schedule_route_leg \/ store_resume_timer \/ resume_timer
      <3>1. UNCHANGED <<gate, cancelPending, move, cmd, stopped>>
        BY <2>1 DEF schedule_route_leg, store_resume_timer, resume_timer, control, history
      <3>2. goalActive' = FALSE \/ goalActive' = goalActive
        BY <2>1 DEF schedule_route_leg, store_resume_timer, resume_timer, control
      <3> QED  BY <3>1, <3>2
    <2>2. CASE update_evidence \/ evidence_ages \/ engage_estop \/ release_estop
               \/ signal_handler \/ begin_shutdown \/ controller_answers \/ controller_ends
      <3>1. UNCHANGED <<gate, goalActive, cancelPending, move, cmd, stopped>>
        BY <2>2 DEF update_evidence, evidence_ages, engage_estop, release_estop, signal_handler,
                    begin_shutdown, controller_answers, controller_ends, control, history
      <3> QED  BY <3>1
    <2> QED  BY <2>1, <2>2
  <1>2. goal'.of = goal.of /\ (goal'.st = "told" => goal' = goal /\ goalHandle' = goalHandle)
    <2>1. CASE controller_answers
      BY <2>1 DEF controller_answers, PortalInv, PortalTypeOK
    <2>2. CASE controller_ends
      BY <2>2 DEF controller_ends, PortalInv, PortalTypeOK
    <2>3. CASE schedule_route_leg \/ store_resume_timer \/ resume_timer
      BY <2>3 DEF schedule_route_leg, store_resume_timer, resume_timer, PortalInv, OneActor
    <2> QED  BY <2>1, <2>2, <2>3 DEF update_evidence, evidence_ages, engage_estop, release_estop,
                                     signal_handler, begin_shutdown
  <1>3. \A s \in Stoppers : stopper'[s].took = stopper[s].took
    <2>1. UNCHANGED stopper \/ \E s \in Stoppers : stopper' = [stopper EXCEPT ![s].at = "begun"]
      BY DEF schedule_route_leg, store_resume_timer, resume_timer, update_evidence, evidence_ages,
             engage_estop, release_estop, signal_handler, begin_shutdown, controller_answers,
             controller_ends, Stoppers
    <2> QED  BY <2>1 DEF PortalInv, PortalTypeOK
  <1> QED  BY <1>1, <1>2, <1>3, StopKept

\* A stop is not undone, for every number of requests and every length of a route: what
\* it found gets no reservation, no leg and, once accepted, no motion that nobody
\* cancels (cancel, goal_response_callback, result_callback, schedule_route_leg).
THEOREM StopsAreUnderWay == PortalSpec => []StopIsUnderWay
  <1>1. PortalInit => StopInv
    BY PortalConstants DEF PortalInit, StopInv, RequestsInPlace, HandleIsKept, StopIsUnderWay, NoPortalGoal
  <1>2. ASSUME PortalInv, StopInv, [PortalNext]_portalVars
        PROVE  StopInv'
    <2>1. ASSUME NEW r \in Req, HttpThread(r)
          PROVE  StopInv'
      BY <1>2, <2>1, RequestsKeepStops, CommandsKeepStops, LegsKeepStops DEF HttpThread, MaybeReq
    <2>2. CASE Executor
      BY <1>2, <2>2, CallbacksKeepStops, OthersKeepStops, LegsKeepStops DEF Executor, MaybeReq
    <2>3. CASE update_evidence \/ evidence_ages \/ StopThreads \/ controller_answers \/ controller_ends
      BY <1>2, <2>3, OthersKeepStops, StopsMark DEF StopThreads
    <2>4. CASE UNCHANGED portalVars
      BY <1>2, <2>4 DEF portalVars, StopInv, RequestsInPlace, HandleIsKept, StopIsUnderWay
    <2> QED  BY <1>2, <2>1, <2>2, <2>3, <2>4 DEF PortalNext
  <1>3. StopInv => StopIsUnderWay
    BY DEF StopInv
  <1> QED  BY <1>1, <1>2, <1>3, PortalInvariant, PTL DEF PortalSpec

\* The portal has one command at a time and undoes no stop, for every number of
\* requests and every length of a route (move, submit_route_leg, cancel, the goal and
\* result callbacks).
THEOREM PortalSound == PortalSpec => []PortalIsSound
  <1>1. OneCommand /\ StopIsUnderWay => PortalIsSound
    BY DEF PortalIsSound
  <1> QED  BY <1>1, PortalHasOneCommand, StopsAreUnderWay, PTL

-----------------------------------------------------------------------------
(* PortalServer.  A connection is in one place, and a lane's counter counts *)
(* the connections the lane holds.                                          *)

\* active_intakes_ holds connections that are being read, each once.
IntakesUnread ==
    /\ intakes \in Seq(Conn)
    /\ \A i \in DOMAIN intakes : stage[intakes[i]] = "intake"
    /\ \A i, j \in DOMAIN intakes : intakes[i] = intakes[j] => i = j

LaneCounts ==
    \A l \in Lanes : /\ IsFiniteSet(On(l, Admitted))
                     /\ admitted[l] = Cardinality(On(l, Admitted)) /\ admitted[l] <= Admits[l]

\* The acceptor closes first, then the pools run dry.
ShutdownOrder ==
    /\ main \in {"accepting", "closed", "stopping", "joined"}
    /\ main # "accepting" => \A c \in Conn : stage[c] # "intake"
    /\ main = "joined" => \A c \in Conn : stage[c] \notin Admitted

StageTyped == asks \in [Conn -> ConnKinds] /\ stage \in [Conn -> Stages] /\ admitted \in [Lanes -> Nat]

ServerInv == StageTyped /\ IntakesUnread /\ LaneCounts /\ ShutdownOrder

LEMMA LaneOfKind ==
    /\ \A k \in ConnKinds : Lane[k] \in Lanes /\ (Lane[k] = "urgent" => k \in {"stop", "pointer"})
    /\ Lane["stop"] = "urgent"
  BY DEF Lane, ConnKinds, Lanes

\* The members of a lane stay.
LEMMA CountsStay ==
    ASSUME ServerInv, UNCHANGED <<asks, admitted>>,
           \A c \in Conn : stage'[c] \in Admitted <=> stage[c] \in Admitted
    PROVE  LaneCounts'
  <1>1. \A l \in Lanes : On(l, Admitted)' = On(l, Admitted)
    BY DEF On
  <1> QED  BY <1>1 DEF ServerInv, LaneCounts

\* A lane admits one more.
LEMMA CountsUp ==
    ASSUME ServerInv, NEW c \in Conn, UNCHANGED asks, stage[c] \notin Admitted, stage'[c] \in Admitted,
           \A d \in Conn \ {c} : stage'[d] = stage[d],
           admitted' = [admitted EXCEPT ![Lane[asks[c]]] = @ + 1],
           ~(admitted[Lane[asks[c]]] >= Admits[Lane[asks[c]]])
    PROVE  LaneCounts' /\ admitted' \in [Lanes -> Nat]
  <1> DEFINE k == Lane[asks[c]]
  <1>1. k \in Lanes /\ admitted \in [Lanes -> Nat] /\ Admits \in [Lanes -> Nat]
    BY LaneOfKind, ServerAssumption DEF ServerInv, StageTyped
  <1>2. admitted' = [admitted EXCEPT ![k] = admitted[k] + 1] /\ admitted[k] + 1 <= Admits[k]
    BY <1>1
  <1>3. \A l \in Lanes : l = k =>
          On(l, Admitted)' = On(l, Admitted) \cup {c} /\ c \notin On(l, Admitted)
    BY DEF On
  <1>4. \A l \in Lanes \ {k} : On(l, Admitted)' = On(l, Admitted)
    BY DEF On
  <1> HIDE DEF k
  <1>5. ASSUME NEW l \in Lanes, l = k
        PROVE  IsFiniteSet(On(l, Admitted)') /\ Cardinality(On(l, Admitted)') = admitted[l] + 1
    BY <1>3, <1>5, FS_AddElement DEF ServerInv, LaneCounts
  <1>6. admitted' \in [Lanes -> Nat]
    BY <1>1, <1>2
  <1>7. ASSUME NEW l \in Lanes
        PROVE  /\ IsFiniteSet(On(l, Admitted)')
               /\ admitted'[l] = Cardinality(On(l, Admitted)') /\ admitted'[l] <= Admits[l]
    <2>1. CASE l = k
      BY <1>1, <1>2, <1>5, <2>1
    <2>2. CASE l # k
      BY <1>1, <1>2, <1>4, <2>2 DEF ServerInv, LaneCounts
    <2> QED  BY <2>1, <2>2
  <1> QED  BY <1>6, <1>7 DEF LaneCounts

\* A request leaves its lane.
LEMMA CountsDown ==
    ASSUME ServerInv, NEW c \in Conn, UNCHANGED asks, stage[c] \in Admitted, Leaves(c)
    PROVE  LaneCounts' /\ admitted' \in [Lanes -> Nat]
  <1> DEFINE k == Lane[asks[c]]
  <1>1. k \in Lanes /\ admitted \in [Lanes -> Nat] /\ Admits \in [Lanes -> Nat]
    BY LaneOfKind, ServerAssumption DEF ServerInv, StageTyped
  <1>2. /\ admitted' = [admitted EXCEPT ![k] = admitted[k] - 1]
        /\ stage' \in [Conn -> Stages] /\ stage'[c] = "answered"
        /\ \A d \in Conn \ {c} : stage'[d] = stage[d]
    BY <1>1 DEF Leaves, ServerInv, StageTyped, Stages
  <1>3. \A l \in Lanes : l = k =>
          On(l, Admitted)' = On(l, Admitted) \ {c} /\ c \in On(l, Admitted)
    BY <1>2 DEF On, Admitted
  <1>4. \A l \in Lanes \ {k} : On(l, Admitted)' = On(l, Admitted)
    BY <1>2 DEF On, Admitted
  <1> HIDE DEF k
  <1>5. ASSUME NEW l \in Lanes, l = k
        PROVE  IsFiniteSet(On(l, Admitted)') /\ Cardinality(On(l, Admitted)') = admitted[l] - 1
    BY <1>3, <1>5, FS_RemoveElement DEF ServerInv, LaneCounts
  <1>6. admitted[k] # 0
    <2>1. On(k, Admitted) # {} /\ IsFiniteSet(On(k, Admitted)) /\ admitted[k] = Cardinality(On(k, Admitted))
      BY <1>1, <1>3 DEF ServerInv, LaneCounts
    <2> QED  BY <2>1, FS_EmptySet
  <1>7. admitted' \in [Lanes -> Nat]
    BY <1>1, <1>2, <1>6
  <1>8. ASSUME NEW l \in Lanes
        PROVE  /\ IsFiniteSet(On(l, Admitted)')
               /\ admitted'[l] = Cardinality(On(l, Admitted)') /\ admitted'[l] <= Admits[l]
    <2>1. CASE l = k
      BY <1>1, <1>2, <1>5, <2>1 DEF ServerInv, LaneCounts
    <2>2. CASE l # k
      BY <1>1, <1>2, <1>4, <2>2 DEF ServerInv, LaneCounts
    <2> QED  BY <2>1, <2>2
  <1> QED  BY <1>7, <1>8 DEF LaneCounts

\* An element of a sequence is taken out.
LEMMA Erased ==
    ASSUME NEW s \in Seq(Conn), NEW i \in DOMAIN s
    PROVE  /\ RemoveAt(s, i) \in Seq(Conn)
           /\ DOMAIN RemoveAt(s, i) = 1 .. (Len(s) - 1)
           /\ \A j \in DOMAIN RemoveAt(s, i) :
                RemoveAt(s, i)[j] = s[IF j < i THEN j ELSE j + 1]
  <1> DEFINE front == SubSeq(s, 1, i - 1)
             back == SubSeq(s, i + 1, Len(s))
  <1>1. i \in 1 .. Len(s) /\ Len(s) \in Nat /\ \A j \in 1 .. Len(s) : s[j] \in Conn
    OBVIOUS
  <1>2. front \in Seq(Conn) /\ Len(front) = i - 1 /\ \A j \in 1 .. (i - 1) : front[j] = s[j]
    BY <1>1
  <1>3. back \in Seq(Conn) /\ Len(back) = Len(s) - i /\ \A j \in 1 .. (Len(s) - i) : back[j] = s[j + i]
    BY <1>1
  <1>4. RemoveAt(s, i) = front \o back
    BY DEF RemoveAt
  <1> HIDE DEF front, back
  <1>5. front \o back \in Seq(Conn) /\ DOMAIN (front \o back) = 1 .. (Len(s) - 1)
    <2>1. front \o back \in Seq(Conn) /\ Len(front \o back) = Len(s) - 1
      BY <1>1, <1>2, <1>3
    <2> QED  BY <2>1
  <1>6. ASSUME NEW j \in 1 .. (Len(s) - 1)
        PROVE  (front \o back)[j] = s[IF j < i THEN j ELSE j + 1]
    <2>1. CASE j < i
      BY <1>1, <1>2, <1>3, <2>1
    <2>2. CASE ~(j < i)
      <3> DEFINE k == j - (i - 1)
      <3>1. k \in 1 .. (Len(s) - i) /\ k + i = j + 1 /\ j > Len(front) /\ k = j - Len(front)
            /\ j \in 1 .. (Len(front) + Len(back))
        <4>1. Len(front) = i - 1 /\ Len(back) = Len(s) - i
          BY <1>2, <1>3
        <4>2. i \in Int /\ j \in Int /\ Len(s) \in Int /\ 1 <= i /\ i <= Len(s) /\ 1 <= j /\ j <= Len(s) - 1
          BY <1>1
        <4>3. k \in 1 .. (Len(s) - i) /\ k + i = j + 1
          BY <2>2, <4>2
        <4>4. j > Len(front) /\ k = j - Len(front)
          BY <2>2, <4>1, <4>2
        <4>5. j \in 1 .. (Len(front) + Len(back))
          BY <2>2, <4>1, <4>2
        <4> QED  BY <4>3, <4>4, <4>5
      <3>2. (front \o back)[j] = back[j - Len(front)]
        BY <1>2, <1>3, <3>1
      <3>3. back[k] = s[k + i]
        BY <1>3, <3>1
      <3> HIDE DEF k
      <3>4. (front \o back)[j] = s[j + 1]
        BY <3>1, <3>2, <3>3
      <3> QED  BY <2>2, <3>4
    <2> QED  BY <2>1, <2>2
  <1> QED  BY <1>4, <1>5, <1>6

\* A connection leaves the intakes, and no other changes its place.
LEMMA EraseKeeps ==
    ASSUME ServerInv, NEW c \in Conn, Erase(c), \A d \in Conn \ {c} : stage'[d] = stage[d]
    PROVE  IntakesUnread'
  <1>1. PICK i \in DOMAIN intakes : intakes[i] = c /\ intakes' = RemoveAt(intakes, i)
    BY DEF Erase
  <1>2. /\ intakes \in Seq(Conn) /\ DOMAIN intakes = 1 .. Len(intakes) /\ Len(intakes) \in Nat
        /\ i \in 1 .. Len(intakes)
    BY DEF ServerInv, IntakesUnread
  <1>3. /\ intakes' \in Seq(Conn) /\ DOMAIN intakes' = 1 .. (Len(intakes) - 1)
        /\ \A j \in DOMAIN intakes' : intakes'[j] = intakes[IF j < i THEN j ELSE j + 1]
    BY <1>1, <1>2, Erased
  <1> DEFINE from(j) == IF j < i THEN j ELSE j + 1
  <1>4. /\ \A j \in DOMAIN intakes' : from(j) \in DOMAIN intakes /\ from(j) # i
        /\ \A j, k \in DOMAIN intakes' : from(j) = from(k) => j = k
    BY <1>2, <1>3
  <1>5. \A j \in DOMAIN intakes' : intakes'[j] = intakes[from(j)]
    BY <1>3
  <1> HIDE DEF from
  <1>6. ASSUME NEW j \in DOMAIN intakes'
        PROVE  stage'[intakes'[j]] = "intake"
    <2>1. intakes'[j] # c /\ intakes'[j] \in Conn /\ stage[intakes'[j]] = "intake"
      BY <1>1, <1>2, <1>4, <1>5 DEF ServerInv, IntakesUnread
    <2> QED  BY <2>1
  <1>7. \A j, k \in DOMAIN intakes' : intakes'[j] = intakes'[k] => j = k
    BY <1>4, <1>5 DEF ServerInv, IntakesUnread
  <1> QED  BY <1>3, <1>6, <1>7 DEF IntakesUnread

\* A connection is accepted; one too many drops the oldest.
LEMMA StartStep ==
    ASSUME ServerInv, NEW c \in Conn, start_intake(c)
    PROVE  ServerInv'
  <1>1. /\ main = "accepting" /\ stage[c] = "new" /\ UNCHANGED <<asks, admitted, main>>
        /\ intakes \in Seq(Conn) /\ Len(intakes) \in Nat /\ DOMAIN intakes = 1 .. Len(intakes)
        /\ stage \in [Conn -> Stages]
    BY DEF start_intake, ServerInv, IntakesUnread, StageTyped
  <1>2. CASE Len(intakes) >= IntakeLimit
    <2> DEFINE old == Head(intakes)
               rest == Tail(intakes)
    <2>1. /\ intakes' = Append(rest, c)
          /\ stage' = [stage EXCEPT ![c] = "intake", ![old] = "dropped"]
      BY <1>2 DEF start_intake
    <2>2. intakes # <<>> /\ Len(intakes) >= 1 /\ old = intakes[1] /\ 1 \in DOMAIN intakes
      BY <1>1, <1>2, ServerAssumption
    <2>3. /\ rest \in Seq(Conn) /\ Len(rest) = Len(intakes) - 1 /\ Len(rest) \in Nat
          /\ \A i \in 1 .. Len(rest) : rest[i] = intakes[i + 1] /\ i + 1 \in DOMAIN intakes
      BY <1>1, <2>2
    <2> HIDE DEF old, rest
    <2>4. /\ \A i \in 1 .. Len(rest) : stage[rest[i]] = "intake" /\ rest[i] # old
          /\ \A i, j \in 1 .. Len(rest) : rest[i] = rest[j] => i = j
          /\ old \in Conn /\ stage[old] = "intake"
      <3>1. \A i \in DOMAIN intakes : intakes[i] \in Conn /\ stage[intakes[i]] = "intake"
        BY <1>1 DEF ServerInv, IntakesUnread
      <3>2. \A i, j \in DOMAIN intakes : intakes[i] = intakes[j] => i = j
        BY DEF ServerInv, IntakesUnread
      <3>3. ASSUME NEW i \in 1 .. Len(rest)
            PROVE  stage[rest[i]] = "intake" /\ rest[i] # old
        <4>1. rest[i] = intakes[i + 1] /\ i + 1 \in DOMAIN intakes /\ i + 1 # 1
          BY <2>3
        <4> QED  BY Zenon, <2>2, <3>1, <3>2, <4>1
      <3>4. ASSUME NEW i \in 1 .. Len(rest), NEW j \in 1 .. Len(rest), rest[i] = rest[j]
            PROVE  i = j
        <4>1. /\ rest[i] = intakes[i + 1] /\ i + 1 \in DOMAIN intakes
              /\ rest[j] = intakes[j + 1] /\ j + 1 \in DOMAIN intakes
          BY Zenon, <2>3
        <4>2. i + 1 = j + 1
          BY Zenon, <3>2, <3>4, <4>1
        <4> QED  BY <4>2
      <3> QED  BY <2>2, <3>1, <3>3, <3>4
    <2>5. /\ stage' \in [Conn -> Stages] /\ stage'[c] = "intake" /\ stage'[old] = "dropped"
          /\ \A d \in Conn \ {c, old} : stage'[d] = stage[d]
      BY <1>1, <2>1, <2>4 DEF Stages
    <2>6. /\ intakes' \in Seq(Conn) /\ DOMAIN intakes' = 1 .. (Len(rest) + 1)
          /\ intakes'[Len(rest) + 1] = c /\ \A i \in 1 .. Len(rest) : intakes'[i] = rest[i]
      BY <2>1, <2>3
    <2>7. \A i \in 1 .. Len(rest) : rest[i] \in Conn /\ rest[i] # c /\ stage'[rest[i]] = "intake"
      BY <1>1, <2>3, <2>4, <2>5
    <2>8. IntakesUnread'
      <3>1. \A i \in DOMAIN intakes' : i = Len(rest) + 1 \/ i \in 1 .. Len(rest)
        BY <2>3, <2>6
      <3>2. \A i \in DOMAIN intakes' : stage'[intakes'[i]] = "intake"
        BY <2>5, <2>6, <2>7, <3>1
      <3>3. \A i, j \in DOMAIN intakes' : intakes'[i] = intakes'[j] => i = j
        BY <2>4, <2>6, <2>7, <3>1
      <3> QED  BY <2>6, <3>2, <3>3 DEF IntakesUnread
    <2>9. LaneCounts'
      BY <1>1, <2>4, <2>5, CountsStay DEF Admitted
    <2> QED  BY <1>1, <2>5, <2>8, <2>9 DEF ServerInv, StageTyped, ShutdownOrder
  <1>3. CASE ~(Len(intakes) >= IntakeLimit)
    <2>1. intakes' = Append(intakes, c) /\ stage' = [stage EXCEPT ![c] = "intake"]
      BY <1>3 DEF start_intake
    <2>2. /\ stage' \in [Conn -> Stages] /\ stage'[c] = "intake"
          /\ \A d \in Conn \ {c} : stage'[d] = stage[d]
      BY <1>1, <2>1 DEF Stages
    <2>3. /\ intakes' \in Seq(Conn) /\ DOMAIN intakes' = 1 .. (Len(intakes) + 1)
          /\ intakes'[Len(intakes) + 1] = c /\ \A i \in 1 .. Len(intakes) : intakes'[i] = intakes[i]
      BY <1>1, <2>1
    <2>4. \A i \in 1 .. Len(intakes) : intakes[i] \in Conn /\ intakes[i] # c /\ stage'[intakes[i]] = "intake"
      BY <1>1, <2>2 DEF ServerInv, IntakesUnread
    <2>5. IntakesUnread'
      <3>1. \A i \in DOMAIN intakes' : i = Len(intakes) + 1 \/ i \in 1 .. Len(intakes)
        BY <1>1, <2>3
      <3>2. \A i \in DOMAIN intakes' : stage'[intakes'[i]] = "intake"
        BY <2>2, <2>3, <2>4, <3>1
      <3>3. \A i, j \in DOMAIN intakes' : intakes'[i] = intakes'[j] => i = j
        BY <1>1, <2>3, <2>4, <3>1 DEF ServerInv, IntakesUnread
      <3> QED  BY <2>3, <3>2, <3>3 DEF IntakesUnread
    <2>6. LaneCounts'
      BY <1>1, <2>2, CountsStay DEF Admitted
    <2> QED  BY <1>1, <2>2, <2>5, <2>6 DEF ServerInv, StageTyped, ShutdownOrder
  <1> QED  BY <1>2, <1>3

\* A connection has been read, or given up: its lane admits it or nobody does.
LEMMA IntakeEndsStep ==
    ASSUME ServerInv, NEW c \in Conn, finish_intake(c) \/ complete_intake(c)
    PROVE  ServerInv'
  <1>1. /\ main = "accepting" /\ stage[c] = "intake" /\ Erase(c) /\ UNCHANGED <<asks, main>>
        /\ stage \in [Conn -> Stages]
    BY DEF finish_intake, complete_intake, ServerInv, StageTyped
  <1>2. PICK to \in {"dropped", "answered", "refused", "queued"} : stage' = [stage EXCEPT ![c] = to]
    BY DEF finish_intake, complete_intake, Dispatch
  <1>3. /\ stage' \in [Conn -> Stages] /\ stage'[c] = to /\ \A d \in Conn \ {c} : stage'[d] = stage[d]
    BY <1>1, <1>2 DEF Stages
  <1>4. IntakesUnread'
    BY <1>1, <1>3, EraseKeeps
  <1>5. LaneCounts' /\ admitted' \in [Lanes -> Nat]
    <2>1. CASE to = "queued"
      <3>1. Dispatch(c, Lane[asks[c]]) /\ ~(admitted[Lane[asks[c]]] >= Admits[Lane[asks[c]]])
        BY <1>3, <2>1 DEF finish_intake, complete_intake, Dispatch, ServerInv, StageTyped
      <3> QED  BY <1>1, <1>3, <2>1, <3>1, CountsUp DEF Dispatch, Admitted
    <2>2. CASE to # "queued"
      <3>1. UNCHANGED admitted
        BY <1>3, <2>2 DEF finish_intake, complete_intake, Dispatch
      <3> QED  BY <1>1, <1>2, <1>3, <2>2, <3>1, CountsStay DEF Admitted, ServerInv, StageTyped
    <2> QED  BY <2>1, <2>2
  <1> QED  BY <1>1, <1>3, <1>4, <1>5 DEF ServerInv, StageTyped, ShutdownOrder

\* The thread of run() closes, tells the viewers and joins the pools.
LEMMA MainStep ==
    ASSUME ServerInv, cancel_intakes \/ stop_streams \/ join_pools
    PROVE  ServerInv'
  <1>1. CASE cancel_intakes
    <2>1. /\ main' = "closed" /\ intakes' = <<>> /\ UNCHANGED <<asks, admitted>>
          /\ stage' = [c \in Conn |-> IF stage[c] = "intake" THEN "dropped" ELSE stage[c]]
      BY <1>1 DEF cancel_intakes
    <2>2. /\ stage' \in [Conn -> Stages]
          /\ \A c \in Conn : stage'[c] # "intake" /\ (stage'[c] \in Admitted <=> stage[c] \in Admitted)
      BY <2>1 DEF ServerInv, StageTyped, Stages, Admitted
    <2>3. LaneCounts'
      BY <2>1, <2>2, CountsStay
    <2>4. IntakesUnread'
      BY <2>1 DEF IntakesUnread
    <2> QED  BY <2>1, <2>2, <2>3, <2>4 DEF ServerInv, StageTyped, ShutdownOrder
  <1>2. CASE stop_streams \/ join_pools
    <2>1. /\ UNCHANGED <<asks, stage, intakes, admitted>> /\ main \in {"closed", "stopping"}
          /\ main' \in {"stopping", "joined"}
          /\ main' = "joined" => \A c \in Conn : stage[c] \notin Admitted
      BY <1>2 DEF stop_streams, join_pools
    <2>2. LaneCounts'
      BY <2>1, CountsStay
    <2> QED  BY <2>1, <2>2 DEF ServerInv, StageTyped, IntakesUnread, ShutdownOrder
  <1> QED  BY <1>1, <1>2

\* A thread of a pool serves a connection, or lets it go.
LEMMA PoolStep ==
    ASSUME ServerInv, NEW c \in Conn,
           lane_takes(c) \/ capture_lock(c) \/ pointer_injected(c) \/ frame_sent(c) \/ request_served(c)
    PROVE  ServerInv'
  <1>1. UNCHANGED <<asks, intakes, main>> /\ stage[c] \in Admitted /\ stage[c] # "intake"
        /\ stage \in [Conn -> Stages]
    BY DEF lane_takes, capture_lock, pointer_injected, frame_sent, request_served, Admitted, ServerInv,
           StageTyped
  <1>2. ASSUME NEW to \in {"serving", "capturing", "answered"}, stage' = [stage EXCEPT ![c] = to],
               LaneCounts', admitted' \in [Lanes -> Nat]
        PROVE  ServerInv'
    <2>1. /\ stage' \in [Conn -> Stages] /\ stage'[c] = to /\ \A d \in Conn \ {c} : stage'[d] = stage[d]
      BY <1>1, <1>2 DEF Stages
    <2>2. IntakesUnread'
      BY <1>1, <2>1 DEF ServerInv, IntakesUnread
    <2>3. ShutdownOrder'
      BY <1>1, <1>2, <2>1 DEF ServerInv, ShutdownOrder
    <2> QED  BY <1>1, <1>2, <2>1, <2>2, <2>3 DEF ServerInv, StageTyped
  <1>3. CASE Leaves(c)
    BY <1>1, <1>2, <1>3, CountsDown DEF Leaves
  <1>4. ASSUME NEW to \in {"serving", "capturing"}, stage' = [stage EXCEPT ![c] = to], UNCHANGED admitted
        PROVE  ServerInv'
    <2>1. \A d \in Conn : stage'[d] \in Admitted <=> stage[d] \in Admitted
      BY <1>1, <1>4 DEF Admitted
    <2>2. LaneCounts' /\ admitted' \in [Lanes -> Nat]
      BY <1>1, <1>4, <2>1, CountsStay DEF ServerInv, StageTyped
    <2> QED  BY <1>2, <1>4, <2>2
  <1> QED  BY <1>3, <1>4 DEF lane_takes, capture_lock, pointer_injected, frame_sent, request_served

LEMMA ServerStarts == ServerInit => ServerInv
  <1> SUFFICES ASSUME ServerInit PROVE ServerInv
    OBVIOUS
  <1>1. StageTyped /\ IntakesUnread /\ ShutdownOrder
    BY DEF ServerInit, StageTyped, IntakesUnread, ShutdownOrder, Stages, Admitted
  <1>2. \A l \in Lanes : On(l, Admitted) = {}
    BY DEF ServerInit, On, Admitted
  <1>3. LaneCounts
    <2>1. IsFiniteSet({}) /\ Cardinality({}) = 0
      BY FS_EmptySet
    <2> SUFFICES ASSUME NEW l \in Lanes
                 PROVE  /\ IsFiniteSet(On(l, Admitted))
                        /\ admitted[l] = Cardinality(On(l, Admitted)) /\ admitted[l] <= Admits[l]
      BY DEF LaneCounts
    <2>2. admitted[l] = 0
      BY DEF ServerInit
    <2>3. Admits[l] \in Nat
      BY ServerAssumption
    <2>4. On(l, Admitted) = {}
      BY <1>2
    <2> QED  BY <2>1, <2>2, <2>3, <2>4
  <1> QED  BY <1>1, <1>3 DEF ServerInv

LEMMA ServerInductive == ServerInv /\ [ServerNext]_serverVars => ServerInv'
  <1> SUFFICES ASSUME ServerInv, [ServerNext]_serverVars
               PROVE  ServerInv'
    OBVIOUS
  <1>1. ASSUME NEW c \in Conn,
               \/ start_intake(c) \/ finish_intake(c) \/ complete_intake(c)
               \/ lane_takes(c) \/ capture_lock(c) \/ pointer_injected(c) \/ frame_sent(c)
               \/ request_served(c)
        PROVE  ServerInv'
    BY <1>1, StartStep, IntakeEndsStep, PoolStep
  <1>2. CASE cancel_intakes \/ stop_streams \/ join_pools
    BY <1>2, MainStep
  <1>3. CASE UNCHANGED serverVars
    <2>1. LaneCounts'
      BY <1>3, CountsStay DEF serverVars
    <2> QED  BY <1>3, <2>1 DEF serverVars, ServerInv, StageTyped, IntakesUnread, ShutdownOrder
  <1> QED  BY <1>1, <1>2, <1>3 DEF ServerNext

LEMMA ServerInvariant == ServerSpec => []ServerInv
  BY ServerStarts, ServerInductive, PTL DEF ServerSpec

LEMMA ServerKeepsBounds == ServerInv => ServerIsBounded
  <1> SUFFICES ASSUME ServerInv PROVE ServerIsBounded
    OBVIOUS
  <1>1. AdmissionIsExact
    BY DEF ServerInv, LaneCounts, AdmissionIsExact
  <1>2. StopIsIndependent
    BY LaneOfKind DEF ServerInv, StageTyped, StopIsIndependent, On
  <1>3. NothingOutlivesRun
    BY DEF ServerInv, StageTyped, ShutdownOrder, NothingOutlivesRun, Stages, Over, Admitted
  <1> QED  BY <1>1, <1>2, <1>3 DEF ServerIsBounded

\* The portal's server keeps its bounds for every number of connections and
\* every size of its lanes: a lane's counter is what the lane holds and never
\* exceeds what it admits, a software stop waits behind stops and pointer
\* input only, and nothing is served once run() has returned (the dispatch
\* functions, complete_intake, cancel_intakes and run).
THEOREM ServerBounded == ServerSpec => []ServerIsBounded
  BY ServerInvariant, ServerKeepsBounds, PTL

\* Whoever is being read is listed, and whoever captures owns the lock.
IntakesListed ==
    \A c \in Conn : stage[c] = "intake" => \E i \in DOMAIN intakes : intakes[i] = c

CaptorTyped == captor \in Conn \cup {NoConn}

\* The list of intakes loses nobody who is still being read.
LEMMA ListedKept ==
    ASSUME ServerInv, IntakesListed, [ServerNext]_serverVars
    PROVE  IntakesListed'
  <1>1. /\ intakes \in Seq(Conn) /\ Len(intakes) \in Nat /\ DOMAIN intakes = 1 .. Len(intakes)
        /\ stage \in [Conn -> Stages]
    BY DEF ServerInv, IntakesUnread, StageTyped
  <1>2. ASSUME NEW c \in Conn, start_intake(c)
        PROVE  IntakesListed'
    <2>1. CASE Len(intakes) >= IntakeLimit
      <3> DEFINE old == Head(intakes)
                 rest == Tail(intakes)
      <3>1. /\ intakes' = Append(rest, c)
            /\ stage' = [stage EXCEPT ![c] = "intake", ![old] = "dropped"]
            /\ stage[c] = "new"
        BY <1>2, <2>1 DEF start_intake
      <3>2. Len(intakes) >= 1 /\ old = intakes[1] /\ 1 \in DOMAIN intakes
        BY <1>1, <2>1, ServerAssumption
      <3>3. /\ rest \in Seq(Conn) /\ Len(rest) = Len(intakes) - 1 /\ Len(rest) \in Nat
            /\ \A i \in 1 .. Len(rest) : rest[i] = intakes[i + 1]
        BY <1>1, <3>2
      <3>4. old \in Conn /\ old # c
        BY <1>1, <3>1, <3>2 DEF ServerInv, IntakesUnread
      <3> HIDE DEF old, rest
      <3>5. /\ DOMAIN intakes' = 1 .. (Len(rest) + 1) /\ intakes'[Len(rest) + 1] = c
            /\ \A i \in 1 .. Len(rest) : intakes'[i] = rest[i]
        BY <3>1, <3>3
      <3>6. stage'[old] = "dropped" /\ \A d \in Conn \ {c, old} : stage'[d] = stage[d]
        BY <1>1, <3>1, <3>4
      <3>7. ASSUME NEW d \in Conn, d \notin {c, old}, stage[d] = "intake"
            PROVE  \E i \in DOMAIN intakes' : intakes'[i] = d
        <4>1. PICK i \in 1 .. Len(intakes) : intakes[i] = d
          BY <1>1, <3>7 DEF IntakesListed
        <4>2. i - 1 \in 1 .. Len(rest) /\ (i - 1) + 1 = i
          BY <1>1, <3>2, <3>3, <3>7, <4>1
        <4>3. intakes'[i - 1] = d /\ i - 1 \in DOMAIN intakes'
          BY <3>3, <3>5, <4>1, <4>2
        <4> QED  BY <4>3
      <3>8. Len(rest) + 1 \in DOMAIN intakes'
        BY <3>3, <3>5
      <3> QED  BY <3>5, <3>6, <3>7, <3>8 DEF IntakesListed
    <2>2. CASE ~(Len(intakes) >= IntakeLimit)
      <3>1. /\ intakes' = Append(intakes, c) /\ stage' = [stage EXCEPT ![c] = "intake"]
        BY <1>2, <2>2 DEF start_intake
      <3>2. /\ DOMAIN intakes' = 1 .. (Len(intakes) + 1) /\ intakes'[Len(intakes) + 1] = c
            /\ \A i \in 1 .. Len(intakes) : intakes'[i] = intakes[i]
        BY <1>1, <3>1
      <3>3. \A d \in Conn \ {c} : stage'[d] = stage[d]
        BY <1>1, <3>1
      <3>4. \A i \in DOMAIN intakes : i \in DOMAIN intakes'
        BY <1>1, <3>2
      <3>5. Len(intakes) + 1 \in DOMAIN intakes'
        BY <1>1, <3>2
      <3> QED  BY <1>1, <3>2, <3>3, <3>4, <3>5 DEF IntakesListed
    <2> QED  BY <2>1, <2>2
  <1>3. ASSUME NEW c \in Conn, finish_intake(c) \/ complete_intake(c)
        PROVE  IntakesListed'
    <2>1. PICK to \in {"dropped", "answered", "refused", "queued"} : stage' = [stage EXCEPT ![c] = to]
      BY <1>3 DEF finish_intake, complete_intake, Dispatch
    <2>2. stage'[c] # "intake" /\ \A d \in Conn \ {c} : stage'[d] = stage[d]
      BY <1>1, <2>1
    <2>3. PICK i \in DOMAIN intakes : intakes[i] = c /\ intakes' = RemoveAt(intakes, i)
      BY <1>3 DEF finish_intake, complete_intake, Erase
    <2>4. /\ DOMAIN intakes' = 1 .. (Len(intakes) - 1)
          /\ \A j \in DOMAIN intakes' : intakes'[j] = intakes[IF j < i THEN j ELSE j + 1]
      BY <1>1, <2>3, Erased
    <2>5. ASSUME NEW d \in Conn, d # c, stage[d] = "intake"
          PROVE  \E j \in DOMAIN intakes' : intakes'[j] = d
      <3>1. PICK k \in 1 .. Len(intakes) : intakes[k] = d
        BY <1>1, <2>5 DEF IntakesListed
      <3>2. k # i /\ i \in 1 .. Len(intakes)
        BY <1>1, <2>3, <2>5, <3>1
      <3> DEFINE j == IF k < i THEN k ELSE k - 1
      <3>3. j \in 1 .. (Len(intakes) - 1) /\ (IF j < i THEN j ELSE j + 1) = k
        BY <1>1, <3>1, <3>2
      <3> HIDE DEF j
      <3>4. j \in DOMAIN intakes' /\ intakes'[j] = d
        BY <2>4, <3>1, <3>3
      <3> QED  BY <3>4
    <2> QED  BY <2>2, <2>5 DEF IntakesListed
  <1>4. ASSUME NEW c \in Conn,
               \/ lane_takes(c) \/ capture_lock(c) \/ pointer_injected(c) \/ frame_sent(c)
               \/ request_served(c)
        PROVE  IntakesListed'
    <2>1. /\ intakes' = intakes
          /\ \E to \in {"serving", "capturing", "answered"} : stage' = [stage EXCEPT ![c] = to]
      BY <1>4 DEF lane_takes, capture_lock, pointer_injected, frame_sent, request_served, Leaves
    <2>2. \A d \in Conn : stage'[d] = "intake" => stage[d] = "intake"
      BY <1>1, <2>1
    <2> QED  BY <2>1, <2>2 DEF IntakesListed
  <1>5. CASE cancel_intakes
    <2>1. stage' = [c \in Conn |-> IF stage[c] = "intake" THEN "dropped" ELSE stage[c]]
      BY <1>5 DEF cancel_intakes
    <2> QED  BY <2>1 DEF IntakesListed
  <1>6. CASE stop_streams \/ join_pools \/ UNCHANGED serverVars
    BY <1>6 DEF stop_streams, join_pools, serverVars, IntakesListed
  <1> QED  BY <1>2, <1>3, <1>4, <1>5, <1>6 DEF ServerNext

LEMMA CaptorKept ==
    ASSUME CaptorTyped, [ServerNext]_serverVars
    PROVE  CaptorTyped'
  BY DEF CaptorTyped, ServerNext, start_intake, finish_intake, complete_intake, lane_takes,
         capture_lock, pointer_injected, frame_sent, request_served, cancel_intakes,
         stop_streams, join_pools, serverVars

LEMMA ServerTypesStart == ServerInit => IntakesListed /\ CaptorTyped
  BY DEF ServerInit, IntakesListed, CaptorTyped

LEMMA ServerTyping == ServerInv /\ IntakesListed /\ CaptorTyped => ServerTypeOK
  <1> SUFFICES ASSUME ServerInv, IntakesListed, CaptorTyped PROVE ServerTypeOK
    OBVIOUS
  <1>1. IsInjective(intakes)
    BY DEF ServerInv, IntakesUnread, IsInjective
  <1>2. ToSet(intakes) = {c \in Conn : stage[c] = "intake"}
    <2>1. \A i \in DOMAIN intakes : intakes[i] \in Conn /\ stage[intakes[i]] = "intake"
      BY DEF ServerInv, IntakesUnread
    <2> QED  BY <2>1 DEF ToSet, IntakesListed
  <1> QED  BY <1>1, <1>2 DEF ServerInv, StageTyped, ShutdownOrder, CaptorTyped, ServerTypeOK

\* Every variable of the server stays in its range, and active_intakes_ lists exactly
\* the connections that are being read, each once (start_intake, finish_intake,
\* complete_intake, cancel_intakes).
THEOREM ServerTypes == ServerSpec => []ServerTypeOK
  <1>1. ServerInv /\ IntakesListed /\ CaptorTyped /\ [ServerNext]_serverVars
          => IntakesListed' /\ CaptorTyped'
    BY ListedKept, CaptorKept
  <1> QED  BY <1>1, ServerInvariant, ServerTypesStart, ServerTyping, PTL DEF ServerSpec
=============================================================================
