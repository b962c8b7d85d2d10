--------------------------- MODULE VirtualSession ---------------------------
(***************************************************************************)
(* The virtual control session (virtual_control_session.cpp) and the way   *)
(* the ROS node drives it (openarm_ik_ros_node.cpp).                       *)
(*                                                                         *)
(* Goal callbacks reserve the session for their goal, submit its command   *)
(* or release the reservation, and cancel it; one worker thread polls,     *)
(* plans, executes, watches and answers.  mutex_ is held per section, not  *)
(* while the runtime is called or a terminal callback runs, so the worker  *)
(* takes several steps and callers act between them.                       *)
(*                                                                         *)
(* The runtime is its lifecycle, the command it executes, the events its   *)
(* controller has published and the events its own thread has moved to the *)
(* ring this session polls.  A goal is its own command id.  ABORTED events *)
(* and stops without a command change nothing here and are left out.       *)
(***************************************************************************)
EXTENDS Naturals, Sequences, FiniteSets

CONSTANTS
    Goal,        \* goals, each submitted at most once
    NoGoal       \* no goal

ASSUME SessionConstants == NoGoal \notin Goal

VARIABLES
    owner,      \* health_.owner: the goal the session is reserved for
    adapter,    \* health_.adapter_state
    pending,    \* pending_: the submitted command
    active,     \* active_: the executing command
    cancelling, \* cancel_owner_: the goal a cancel names
    cancelled,  \* cancelled_reservation_owner_
    ending,     \* terminalizing_owner_: the goal being answered
    closing,    \* closing_
    news,       \* health_notification_pending_
    snap,       \* snapshot_.lifecycle: the runtime as the worker last saw it
    w,          \* the worker: its place and its local variables
    rt,         \* the runtime and its controller
    caller,     \* what each goal's callbacks have done
    kind,       \* SessionCommand::kind of each submitted command
    accepted,   \* the goals submit() took
    done,       \* how often each goal has been answered
    outcome     \* the answer

sessionVars == <<owner, adapter, pending, active, cancelling, cancelled, ending,
                 closing, news, snap, w, rt, caller, kind, accepted, done, outcome>>

MaybeGoal == Goal \cup {NoGoal}
AdapterStates == {"idle", "reserved", "executing", "stopped_requires_restart",
                  "fault", "closing"}
Lives == {"ARMED_IDLE", "EXECUTING", "DISARMED", "FAULT"}
Kinds == {"joint", "converge", "gripper"}
Outcomes == {"none", "completed", "canceled", "rejected", "aborted"}
Events == [kind: {"COMPLETED", "STOPPED", "FAULTED"}, goal: MaybeGoal]
WorkerSteps ==
    {"poll", "cancel", "cancel_stop", "cancel_check", "cancel_answer",
     "pending", "gripper", "plan", "answer", "complete", "drain",
     "heartbeat", "heartbeat_check", "publish", "refresh", "fault", "fault_answer",
     "shutdown", "shutdown_answer", "exit", "exited"}

SessionTypeOK ==
    /\ owner \in MaybeGoal /\ adapter \in AdapterStates
    /\ pending \in MaybeGoal /\ active \in MaybeGoal
    /\ cancelling \in MaybeGoal /\ cancelled \in MaybeGoal /\ ending \in MaybeGoal
    /\ closing \in BOOLEAN /\ news \in BOOLEAN /\ snap \in Lives
    /\ w \in [at: WorkerSteps, ret: WorkerSteps, goal: MaybeGoal,
              held: BOOLEAN, ok: BOOLEAN, out: Outcomes]
    /\ rt.life \in Lives /\ rt.goal \in MaybeGoal
    /\ rt.published \in Seq(Events) /\ rt.ring \in Seq(Events)
    /\ caller \in [Goal -> {"new", "reserved", "refused", "submitted", "ended"}]
    /\ kind \in [Goal -> Kinds]
    /\ accepted \subseteq Goal
    /\ done \in [Goal -> 0 .. 2]
    /\ outcome \in [Goal -> Outcomes]

Worker(at) == [at |-> at, ret |-> "poll", goal |-> NoGoal, held |-> FALSE,
               ok |-> TRUE, out |-> "none"]

\* The runtime without a command.
Runtime(life) == [life |-> life, goal |-> NoGoal, published |-> <<>>, ring |-> <<>>]

\* startup(): the runtime is created, verified and armed before the first goal.
SessionInit ==
    /\ owner = NoGoal /\ adapter = "idle"
    /\ pending = NoGoal /\ active = NoGoal
    /\ cancelling = NoGoal /\ cancelled = NoGoal /\ ending = NoGoal
    /\ closing = FALSE /\ news = FALSE
    /\ snap = "ARMED_IDLE"
    /\ w = Worker("poll")
    /\ rt = Runtime("ARMED_IDLE")
    /\ caller = [g \in Goal |-> "new"]
    /\ kind = [g \in Goal |-> "joint"]
    /\ accepted = {}
    /\ done = [g \in Goal |-> 0]
    /\ outcome = [g \in Goal |-> "none"]

-----------------------------------------------------------------------------
(* The callers: the node's goal, accept and cancel callbacks.              *)

workerVars == <<snap, w, rt>>
answerVars == <<kind, accepted, done, outcome>>

\* on_*_goal: the goal is accepted once the session is reserved for it.
reserve(g) ==
    /\ caller[g] = "new"
    /\ ~closing /\ adapter \notin {"fault", "stopped_requires_restart"}
    /\ owner = NoGoal /\ pending = NoGoal /\ active = NoGoal
    /\ owner' = g
    /\ adapter' = "reserved"
    /\ news' = TRUE
    /\ caller' = [caller EXCEPT ![g] = "reserved"]
    /\ UNCHANGED <<pending, active, cancelling, cancelled, ending, closing,
                   workerVars, answerVars>>

\* accept_*: the command is handed over, or the goal will be given up: the
\* session refuses it or its target cannot be transformed.
submit(g) ==
    /\ caller[g] = "reserved"
    /\ \/ /\ ~closing /\ owner = g /\ pending = NoGoal /\ active = NoGoal
          /\ pending' = g
          /\ accepted' = accepted \cup {g}
          /\ \E k \in Kinds : kind' = [kind EXCEPT ![g] = k]
          /\ caller' = [caller EXCEPT ![g] = "submitted"]
       \/ /\ caller' = [caller EXCEPT ![g] = "refused"]
          /\ UNCHANGED <<pending, accepted, kind>>
    /\ UNCHANGED <<owner, adapter, active, cancelling, cancelled, ending, closing, news,
                   workerVars, done, outcome>>

\* abort_*_before_submit: release the reservation and answer the goal.
release(g) ==
    /\ caller[g] = "refused"
    /\ caller' = [caller EXCEPT ![g] = "ended"]
    /\ IF owner = g /\ pending = NoGoal /\ active = NoGoal /\ ending = NoGoal
       THEN /\ owner' = NoGoal
            /\ cancelled' = IF cancelled = g THEN NoGoal ELSE cancelled
            /\ adapter' = IF adapter \in {"stopped_requires_restart", "fault", "closing"}
                          THEN adapter ELSE "idle"
            /\ news' = TRUE
       ELSE UNCHANGED <<owner, cancelled, adapter, news>>
    /\ UNCHANGED <<pending, active, cancelling, ending, closing, workerVars, answerVars>>

\* on_*_cancel: refused while the goal is being answered.
cancel(g) ==
    /\ caller[g] \in {"reserved", "refused", "submitted"}
    /\ ~closing /\ owner = g /\ ending = NoGoal
    /\ cancelling' = g
    /\ UNCHANGED <<owner, adapter, pending, active, cancelled, ending, closing, news,
                   workerVars, caller, answerVars>>

\* ~OpenArmIkRosNode: close() asks the worker to shut down and joins it.
close ==
    /\ ~closing
    /\ closing' = TRUE
    /\ adapter' = IF adapter = "fault" THEN adapter ELSE "closing"
    /\ UNCHANGED <<owner, pending, active, cancelling, cancelled, ending, news,
                   workerVars, caller, answerVars>>

-----------------------------------------------------------------------------
(* The runtime.  Its thread advances the controller and moves the events   *)
(* the controller published to the ring; the two are separate steps.       *)

callerVars == <<owner, adapter, pending, active, cancelling, cancelled, ending,
                closing, news, caller, kind, accepted, done, outcome>>

Published(k) == Append(rt.published, [kind |-> k, goal |-> rt.goal])

\* The command completes on measured feedback, or a monitor stops it.
runtime_advance ==
    /\ rt.life = "EXECUTING"
    /\ \E k \in {"COMPLETED", "STOPPED"} :
         rt' = [rt EXCEPT !.life = "ARMED_IDLE", !.goal = NoGoal,
                          !.published = Published(k)]
    /\ UNCHANGED <<callerVars, snap, w>>

runtime_fault ==
    /\ rt.life \in {"ARMED_IDLE", "EXECUTING"}
    /\ rt' = [rt EXCEPT !.life = "FAULT", !.goal = NoGoal,
                        !.published = Published("FAULTED")]
    /\ UNCHANGED <<callerVars, snap, w>>

drain_controller_events ==
    /\ rt.published # <<>>
    /\ rt' = [rt EXCEPT !.ring = @ \o rt.published, !.published = <<>>]
    /\ UNCHANGED <<callerVars, snap, w>>

\* oa_runtime_stop(DISABLE), what the worker's calls of it do.
Stopped(r) ==
    [r EXCEPT !.life = IF @ \in {"ARMED_IDLE", "EXECUTING"} THEN "DISARMED" ELSE @,
              !.goal = NoGoal,
              !.published = IF r.life = "EXECUTING"
                            THEN Append(@, [kind |-> "STOPPED", goal |-> r.goal]) ELSE @]

-----------------------------------------------------------------------------
(* The worker.                                                             *)

SessionGoto(at) == w' = [w EXCEPT !.at = at]

\* A terminal callback ran for goal g.
Answer(g, out) ==
    IF g = NoGoal THEN UNCHANGED <<done, outcome, caller, kind>>
    ELSE /\ done' = [done EXCEPT ![g] = @ + 1]
         /\ outcome' = [outcome EXCEPT ![g] = out]
         /\ caller' = [caller EXCEPT ![g] = "ended"]
         /\ kind' = [kind EXCEPT ![g] = "joint"]

\* fault_local and its kin: after the fault the worker goes on at next.
Fail(next) == [Worker("fault") EXCEPT !.ret = next]
AfterFault == IF w.ret = "cancel_check" THEN "pending" ELSE "exit"

\* The goal owns the session no longer.
Disown(g) == owner' = IF owner = g THEN NoGoal ELSE owner

\* A stopped session that does not wake for a submitted command.
wait_until_deaf ==
    /\ w.at = "poll"
    /\ adapter = "stopped_requires_restart" =>
         closing \/ cancelling # NoGoal \/ news
    /\ w' = Worker(IF closing THEN "shutdown" ELSE "cancel")
    /\ news' = (news /\ closing)
    /\ UNCHANGED <<owner, adapter, pending, active, cancelling, cancelled, ending, closing,
                   snap, rt, caller, answerVars>>

\* The loop's wait: a stopped session waits for work, without a deadline.
wait_until ==
    /\ w.at = "poll"
    /\ adapter = "stopped_requires_restart" =>
         closing \/ pending # NoGoal \/ cancelling # NoGoal \/ news
    /\ w' = Worker(IF closing THEN "shutdown" ELSE "cancel")
    /\ news' = (news /\ closing)
    /\ UNCHANGED <<owner, adapter, pending, active, cancelling, cancelled, ending, closing,
                   snap, rt, caller, answerVars>>

\* The section at the head of process_cancel: the command is captured.
process_cancel ==
    /\ w.at = "cancel"
    /\ cancelling' = NoGoal
    /\ IF cancelling = NoGoal \/ owner # cancelling
       THEN /\ w' = Worker("pending")
            /\ UNCHANGED ending
       ELSE LET command == IF active = owner THEN active ELSE pending IN
            /\ w' = [Worker("cancel_stop") EXCEPT !.goal = command, !.held = (active = owner)]
            /\ ending' = IF command # NoGoal THEN command ELSE ending
    /\ UNCHANGED <<owner, adapter, pending, active, cancelled, closing, news, snap, rt,
                   caller, answerVars>>

\* The stop, by what the last snapshot says; then the events are drained.
cancel_stop ==
    /\ w.at = "cancel_stop"
    /\ IF snap \in {"ARMED_IDLE", "EXECUTING"}
       THEN /\ rt' = Stopped(rt)
            /\ w' = [w EXCEPT !.at = "drain", !.ret = "cancel_check",
                              !.ok = rt.life \in {"ARMED_IDLE", "EXECUTING"}]
       ELSE /\ SessionGoto("cancel_check")
            /\ UNCHANGED rt
    /\ UNCHANGED <<callerVars, snap>>

\* refresh_stopped_snapshot: bounded polling for a disarmed snapshot.
StoppedSnapshot(ok) ==
    /\ ok => rt.life = "DISARMED"
    /\ snap' \in {snap, rt.life}
    /\ ok => snap' = "DISARMED"

\* A cancel that does not look whether the completion was drained meanwhile.
cancel_check_blind ==
    /\ w.at = "cancel_check"
    /\ \/ /\ FALSE
          /\ \E ok \in BOOLEAN :
               /\ StoppedSnapshot(ok)
               /\ IF w.ok /\ ok
                  THEN adapter' = "stopped_requires_restart" /\ news' = TRUE
                  ELSE UNCHANGED <<adapter, news>>
          /\ w' = Worker("pending")
       \/ /\ TRUE
          /\ \E ok \in BOOLEAN :
               /\ StoppedSnapshot(ok)
               /\ w' = [w EXCEPT !.at = "cancel_answer", !.ok = w.ok /\ ok]
          /\ UNCHANGED <<adapter, news>>
    /\ UNCHANGED <<owner, pending, active, cancelling, cancelled, ending, closing, rt,
                   caller, answerVars>>

\* A completion drained meanwhile wins; the session still needs a restart.
cancel_check ==
    /\ w.at = "cancel_check"
    /\ \/ /\ w.held /\ active # w.goal
          /\ \E ok \in BOOLEAN :
               /\ StoppedSnapshot(ok)
               /\ IF w.ok /\ ok
                  THEN adapter' = "stopped_requires_restart" /\ news' = TRUE
                  ELSE UNCHANGED <<adapter, news>>
          /\ w' = Worker("pending")
       \/ /\ ~w.held \/ active = w.goal
          /\ \E ok \in BOOLEAN :
               /\ StoppedSnapshot(ok)
               /\ w' = [w EXCEPT !.at = "cancel_answer", !.ok = w.ok /\ ok]
          /\ UNCHANGED <<adapter, news>>
    /\ UNCHANGED <<owner, pending, active, cancelling, cancelled, ending, closing, rt,
                   caller, answerVars>>

\* A cancel of a reservation that also clears what was submitted since.
cancel_answer_clears_pending ==
    /\ w.at = "cancel_answer"
    /\ \E ok \in BOOLEAN :
         IF w.goal = NoGoal
         THEN /\ adapter' = "stopped_requires_restart"
              /\ cancelled' = owner
              /\ pending' = NoGoal
              /\ w' = Worker("pending")
              /\ UNCHANGED <<owner, active, ending, done, outcome, caller, kind>>
         ELSE /\ Answer(w.goal, "canceled")
              /\ active' = IF active = w.goal THEN NoGoal ELSE active
              /\ pending' = IF pending = w.goal THEN NoGoal ELSE pending
              /\ ending' = NoGoal
              /\ Disown(w.goal)
              /\ adapter' = IF ok THEN "stopped_requires_restart" ELSE adapter
              /\ w' = IF ok THEN Worker("pending") ELSE Fail("pending")
              /\ UNCHANGED cancelled
    /\ news' = TRUE
    /\ UNCHANGED <<cancelling, closing, snap, rt, accepted>>

\* The canceled command is answered; a reservation without a command stays,
\* marked, until its owner submits or releases.
cancel_answer ==
    /\ w.at = "cancel_answer"
    /\ \E ok \in BOOLEAN :
         IF w.goal = NoGoal
         THEN /\ adapter' = "stopped_requires_restart"
              /\ cancelled' = owner
              /\ w' = Worker("pending")
              /\ UNCHANGED <<owner, pending, active, ending, done, outcome, caller, kind>>
         ELSE /\ Answer(w.goal, "canceled")
              /\ active' = IF active = w.goal THEN NoGoal ELSE active
              /\ pending' = IF pending = w.goal THEN NoGoal ELSE pending
              /\ ending' = NoGoal
              /\ Disown(w.goal)
              /\ adapter' = IF ok THEN "stopped_requires_restart" ELSE adapter
              /\ w' = IF ok THEN Worker("pending") ELSE Fail("pending")
              /\ UNCHANGED cancelled
    /\ news' = TRUE
    /\ UNCHANGED <<cancelling, closing, snap, rt, accepted>>

-----------------------------------------------------------------------------

\* The section at the head of process_pending: the command leaves pending_.
process_pending ==
    /\ w.at = "pending"
    /\ pending' = NoGoal
    /\ IF pending = NoGoal
       THEN /\ w' = Worker("refresh")
            /\ UNCHANGED ending
       ELSE /\ w' = [Worker(IF cancelled = pending THEN "answer"
                            ELSE IF kind[pending] = "gripper" THEN "gripper" ELSE "plan")
                       EXCEPT !.goal = pending,
                              !.out = IF cancelled = pending THEN "canceled" ELSE "none"]
            /\ ending' = IF cancelled = pending THEN pending ELSE ending
    /\ UNCHANGED <<owner, adapter, active, cancelling, cancelled, closing, news, snap, rt,
                   caller, answerVars>>

\* A gripper command is simulated at once: the measured state is published
\* and the goal answered.
gripper_command ==
    /\ w.at = "gripper"
    /\ \/ /\ w' = [w EXCEPT !.at = "answer", !.out = "rejected"]
          /\ ending' = w.goal
          /\ UNCHANGED <<owner, adapter, news, done, outcome, caller, kind>>
       \/ /\ w' = Fail("exit")               \* publish_measured failed
          /\ UNCHANGED <<owner, adapter, news, ending, done, outcome, caller, kind>>
       \/ \E ok \in BOOLEAN :
          /\ Answer(w.goal, "completed")
          /\ Disown(w.goal)
          /\ adapter' = IF ok THEN "idle" ELSE "fault"
          /\ news' = TRUE
          /\ w' = Worker("refresh")
          /\ UNCHANGED ending
    /\ UNCHANGED <<pending, active, cancelling, cancelled, closing, snap, rt, accepted>>

\* oa_runtime_execute has taken the plan; its events are drained at once.
Execute(g) ==
    /\ rt' = [rt EXCEPT !.life = "EXECUTING", !.goal = g]
    /\ active' = g
    /\ adapter' = "executing"
    /\ news' = TRUE
    /\ w' = [Worker("drain") EXCEPT !.ret = "refresh"]

\* Snapshot, plan, report and execute: each can refuse the command.
plan_and_execute ==
    /\ w.at = "plan"
    /\ \/ /\ rt.life = "ARMED_IDLE"
          /\ snap' = "ARMED_IDLE"
          /\ Execute(w.goal)
          /\ UNCHANGED ending
       \/ /\ ending' = w.goal
          /\ snap' \in {snap, rt.life}
          /\ w' = [w EXCEPT !.at = "answer", !.out = "rejected"]
          /\ UNCHANGED <<rt, active, adapter, news>>
    /\ UNCHANGED <<owner, pending, cancelling, cancelled, closing, caller, answerVars>>

\* reject_on_owner, and the answer of a command whose reservation had been
\* canceled: the latter leaves the adapter stopped.
answer_pending ==
    /\ w.at = "answer"
    /\ Answer(w.goal, w.out)
    /\ Disown(w.goal)
    /\ ending' = NoGoal
    /\ cancelled' = IF w.out = "canceled" THEN NoGoal ELSE cancelled
    /\ \/ /\ adapter' = IF w.out = "canceled" THEN adapter ELSE "idle"
          /\ news' = TRUE
          /\ w' = Worker("refresh")
       \/ /\ w' = Fail("exit")
          /\ UNCHANGED <<adapter, news>>
    /\ UNCHANGED <<pending, active, cancelling, closing, snap, rt, accepted>>

-----------------------------------------------------------------------------

\* oa_runtime_poll_event: the oldest event of the runtime's ring.
poll_event == rt.ring # <<>> /\ rt' = [rt EXCEPT !.ring = Tail(@)]

\* drain_events, one event at a time.
drain_event ==
    /\ w.at = "drain"
    /\ \/ /\ rt.ring = <<>>
          /\ SessionGoto(w.ret)
          /\ UNCHANGED <<rt, news, ending>>
       \/ /\ poll_event
          /\ news' = TRUE
          /\ LET e == Head(rt.ring) IN
             \/ /\ e.kind = "FAULTED"
                /\ w' = Fail(AfterFault)
                /\ UNCHANGED ending
             \/ /\ e.kind # "FAULTED" /\ e.goal # active
                /\ UNCHANGED <<w, ending>>
             \/ /\ e.kind # "FAULTED" /\ e.goal = active /\ active # NoGoal
                /\ ending' = active
                /\ \E contact \in BOOLEAN :
                     w' = [w EXCEPT !.at = "complete",
                             !.out = IF kind[active] = "converge"
                                     THEN IF e.kind = "STOPPED" /\ contact
                                          THEN "completed" ELSE "aborted"
                                     ELSE IF e.kind = "COMPLETED"
                                          THEN "completed" ELSE "aborted"]
    /\ UNCHANGED <<owner, adapter, pending, active, cancelling, cancelled, closing, snap,
                   caller, answerVars>>

\* complete_active: the answer and the section after it.
complete_active ==
    /\ w.at = "complete"
    /\ Answer(active, w.out)
    /\ active' = NoGoal
    /\ ending' = NoGoal
    /\ Disown(active)
    /\ \/ /\ adapter' = "idle"
          /\ news' = TRUE
          /\ w' = [w EXCEPT !.at = "drain", !.out = "none"]
       \/ /\ w' = Fail(AfterFault)
          /\ UNCHANGED <<adapter, news>>
    /\ UNCHANGED <<pending, cancelling, cancelled, closing, snap, rt, accepted>>

\* A faulted worker leaves the loop; a stopped one, or one woken before its
\* next poll is due, waits again.
poll_skipped ==
    /\ w.at = "refresh"
    /\ w' = Worker(IF adapter = "fault" THEN "exit" ELSE "poll")
    /\ UNCHANGED <<callerVars, snap, rt>>

\* The poll is due: first the events.
poll_due ==
    /\ w.at = "refresh"
    /\ adapter \notin {"fault", "stopped_requires_restart"}
    /\ w' = [Worker("drain") EXCEPT !.ret = "heartbeat"]
    /\ UNCHANGED <<callerVars, snap, rt>>

\* The heartbeat of the active command.
heartbeat ==
    /\ w.at = "heartbeat"
    /\ \/ /\ active # NoGoal /\ rt.goal # active
          /\ w' = [Worker("drain") EXCEPT !.ret = "heartbeat_check"]
       \/ /\ active = NoGoal \/ rt.goal = active
          /\ w' = Worker("publish")
       \/ w' = Fail("exit")
    /\ UNCHANGED <<callerVars, snap, rt>>

\* The command had ended before the heartbeat: its event was drained, or it
\* is a fault.
heartbeat_check ==
    /\ w.at = "heartbeat_check"
    /\ w' = IF active = NoGoal THEN Worker("publish") ELSE Fail("exit")
    /\ UNCHANGED <<callerVars, snap, rt>>

\* The snapshot, /joint_states and the feedback of the active command: a
\* stale snapshot or a callback that fails is a fault.
publish_feedback ==
    /\ w.at = "publish"
    /\ \/ /\ snap' = rt.life
          /\ w' = [Worker("drain") EXCEPT !.ret = "poll"]
       \/ /\ w' = Fail("exit")
          /\ UNCHANGED snap
    /\ UNCHANGED <<callerVars, rt>>

-----------------------------------------------------------------------------

\* refresh_terminal_snapshot gives up after twice the feedback timeout.
TerminalSnapshot == {snap, Stopped(rt).life}

\* fault_with_detail: stop, latch the fault and take the commands.  A second
\* fault does nothing.
fault_with_detail ==
    /\ w.at = "fault"
    /\ \/ /\ adapter = "fault"
          /\ w' = Worker(w.ret)
          /\ UNCHANGED <<rt, snap, ending, active, pending, adapter, news>>
       \/ /\ adapter # "fault"
          /\ rt' = Stopped(rt)
          /\ snap' \in TerminalSnapshot
          /\ w' = [w EXCEPT !.at = "fault_answer",
                            !.goal = IF active # NoGoal THEN active ELSE pending]
          /\ ending' = IF active # NoGoal THEN active
                       ELSE IF pending # NoGoal THEN pending ELSE ending
          /\ active' = NoGoal /\ pending' = NoGoal
          /\ adapter' = "fault"
          /\ news' = TRUE
    /\ UNCHANGED <<owner, cancelling, cancelled, closing, caller, answerVars>>

fault_answer ==
    /\ w.at = "fault_answer"
    /\ Answer(w.goal, "aborted")
    /\ owner' = NoGoal /\ ending' = NoGoal
    /\ news' = TRUE
    /\ w' = Worker(w.ret)
    /\ UNCHANGED <<adapter, pending, active, cancelling, cancelled, closing, snap, rt, accepted>>

\* shutdown_on_owner_thread: the commands are taken, the runtime stopped.
shutdown_on_owner_thread ==
    /\ w.at = "shutdown"
    /\ active' = NoGoal /\ pending' = NoGoal
    /\ LET command == IF active # NoGoal THEN active ELSE pending IN
       /\ w' = [Worker("shutdown_answer") EXCEPT !.goal = command]
       /\ ending' = IF command # NoGoal THEN command ELSE ending
    /\ IF snap \in {"EXECUTING", "ARMED_IDLE"}
       THEN /\ rt' = [Stopped(rt) EXCEPT !.ring = <<>>]
            /\ snap' \in {snap, rt'.life}
            /\ adapter' = IF \E i \in DOMAIN rt.ring : rt.ring[i].kind = "FAULTED"
                          THEN "fault" ELSE adapter
       ELSE UNCHANGED <<rt, snap, adapter>>
    /\ UNCHANGED <<owner, cancelling, cancelled, closing, news, caller, answerVars>>

shutdown_answer ==
    /\ w.at = "shutdown_answer"
    /\ Answer(w.goal, "aborted")
    /\ owner' = NoGoal /\ ending' = NoGoal
    /\ adapter' \in (IF w.goal # NoGoal THEN {adapter, "fault"} ELSE {adapter})
    /\ news' = TRUE
    /\ w' = Worker("exit")
    /\ UNCHANGED <<pending, active, cancelling, cancelled, closing, snap, rt, accepted>>

\* The loop is left: the last health change is dispatched and the runtime
\* destroyed.
run_exit ==
    /\ w.at = "exit"
    /\ news' = FALSE
    /\ w' = Worker("exited")
    /\ rt' = Runtime("DISARMED")
    /\ UNCHANGED <<owner, adapter, pending, active, cancelling, cancelled, ending, closing,
                   snap, caller, answerVars>>

-----------------------------------------------------------------------------

WorkerNext ==
    \/ wait_until
    \/ process_cancel \/ cancel_stop \/ cancel_check \/ cancel_answer
    \/ process_pending \/ gripper_command \/ plan_and_execute \/ answer_pending
    \/ drain_event \/ complete_active
    \/ poll_skipped \/ poll_due \/ heartbeat \/ heartbeat_check \/ publish_feedback
    \/ fault_with_detail \/ fault_answer
    \/ shutdown_on_owner_thread \/ shutdown_answer \/ run_exit

RuntimeThread == runtime_advance \/ runtime_fault \/ drain_controller_events

SessionNext ==
    \/ WorkerNext
    \/ RuntimeThread
    \/ close
    \/ \E g \in Goal : reserve(g) \/ submit(g) \/ release(g) \/ cancel(g)

SessionSpec == SessionInit /\ [][SessionNext]_sessionVars

-----------------------------------------------------------------------------
(* Properties.                                                             *)

\* The session keeps the contract of GoalContract.
Contract == INSTANCE GoalContract WITH Cmds <- Goal

\* One command at a time, each answered at most once, although cancels,
\* completions, faults, close() and the callbacks meet in any order: a cancel
\* captured before the completion is drained does not answer again, and a
\* fault answers only what has not been answered.
HonoursContract == Contract!Spec

\* A goal is answered only when the runtime no longer executes its command,
\* whether it completed, was canceled, faulted or the session was closed: the
\* worker decides on a snapshot that is older than the command.
AnsweredIsStopped == \A g \in Goal : done[g] > 0 => rt.goal # g

\* A goal that was answered or given up does not keep the session reserved:
\* else every later goal would be refused as busy.
NoLeakedReservation ==
    owner # NoGoal => caller[owner] \in {"reserved", "refused", "submitted"}

\* Every command submit() took is answered, unless the adapter faults: the
\* wait, the heartbeat's race with the completion and a stopped session lose
\* none.
AnsweredUnlessFaulted ==
    \A g \in Goal : g \in accepted ~> (done[g] = 1 \/ adapter = "fault")

\* An answer is the end of a goal: its command is stopped and its reservation
\* given back (the terminal sections of complete_active, process_cancel,
\* reject_on_owner, fault_with_detail and shutdown_on_owner_thread).
AnswerEndsGoal == AnsweredIsStopped /\ NoLeakedReservation

\* A submitted command is never out of sight until it is answered: it is
\* pending_, active_ or the one the worker is about to answer, whatever a cancel,
\* a completion or close() did to the slots meanwhile.  A fault loses one only
\* where the code gives it up unanswered: a gripper command whose measured state
\* cannot be published.
Answering == {"gripper", "plan", "answer", "fault_answer", "shutdown_answer"}
Kept(g) ==
    \/ g \in {pending, active}
    \/ w.at \in Answering /\ w.goal = g
    \/ kind[g] = "gripper" /\ (w.at = "fault" \/ adapter = "fault")
NothingIsForgotten == \A g \in accepted : done[g] = 0 => Kept(g)

\* A command is kept until it is answered, and ended once it is.
SessionIsSound == AnswerEndsGoal /\ NothingIsForgotten

=============================================================================
