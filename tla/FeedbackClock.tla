--------------------------- MODULE FeedbackClock ---------------------------
(***************************************************************************)
(* The four clocks a measurement passes on its way to /joint_states: the    *)
(* host's steady clock, the virtual controller's own cadence counter, the   *)
(* feedback evidence that ties a sequence number to host time               *)
(* (runtime.cpp), and the ROS clock of the node's stamp                     *)
(* (openarm_ik_ros_node.cpp), which an administrator or NTP may step.       *)
(*                                                                          *)
(* One advance samples both arms, so they share one sequence number here.   *)
(* The controller stamps a sample with the time it was advanced to, hence   *)
(* the lag that capture_feedback_clock subtracts is zero.                   *)
(***************************************************************************)
EXTENDS Integers

CONSTANTS
    Period,      \* options.cycle_ns
    StaleAfter,  \* options.feedback_timeout_ns
    Tolerance,   \* the 250 ms of publish_measured
    Ahead,       \* kHeartbeatAheadNs
    ClockSteps,       \* by how much the ROS clock may be stepped
    Horizon      \* bound of host time

ASSUME ClockAssumption ==
    /\ {Period, StaleAfter, Tolerance, Ahead, Horizon} \subseteq Nat \ {0}
    /\ StaleAfter >= Period
    /\ Tolerance >= Period
    /\ ClockSteps \subseteq Int

VARIABLES
    now,       \* the host's steady clock
    ros,       \* offset of the ROS clock, and whether it was ever stepped
    timeline,       \* controller_timeline_ns, from the common epoch
    cadence,   \* the worker of the runtime: [at, host, since]
    sample,    \* the controller's newest sample: [seq, made]
    rtClock,     \* feedback_clock: [seq, at]
    poll,      \* the session's worker: [at, seq, made, meas, taken, rt]
    beat,      \* the deadline a heartbeat asked for: [host, ctl], 0 when none
    node,      \* last_ros_now_ns_, last_runtime_now_ns_, last_measurement_stamp_ns_
    held       \* history: longest time between reading the two clocks of a stamp

hostVars == <<now, ros>>
cadenceVars == <<timeline, cadence, sample, rtClock>>
pollVars == <<poll, beat, node, held>>
clockVars == <<hostVars, cadenceVars, pollVars>>

Polls == {"poll", "beat", "snapshot", "refresh", "publish", "stale", "refused"}
NoPoll == [at |-> "poll", seq |-> 0, made |-> 0, meas |-> 0, taken |-> 0, rt |-> 0]

ClockTypeOK ==
    /\ now \in 1 .. Horizon
    /\ ros.off \in Int /\ ros.stepped \in BOOLEAN
    /\ timeline \in 1 .. Horizon
    /\ cadence.at \in {"wait", "run"} /\ {cadence.host, cadence.since} \subseteq 0 .. Horizon
    /\ sample.seq \in Nat /\ sample.made \in 1 .. Horizon
    /\ rtClock.seq \in Nat /\ rtClock.at \in Nat
    /\ poll.at \in Polls
    /\ {poll.seq, poll.made, poll.meas, poll.taken, poll.rt} \subseteq Nat
    /\ {beat.host, beat.timeline} \subseteq Nat
    /\ held \in 0 .. Horizon

\* oa_runtime_create has verified the controller and captured its first sample.
ClockInit ==
    /\ now = 1 /\ ros = [off |-> 0, stepped |-> FALSE]
    /\ timeline = 1
    /\ cadence = [at |-> "wait", host |-> 0, since |-> 1]
    /\ sample = [seq |-> 1, made |-> 1]
    /\ rtClock = [seq |-> 1, at |-> 1]
    /\ poll = NoPoll
    /\ beat = [host |-> 0, timeline |-> 0]
    /\ node = [ros |-> 0, rt |-> 0, stamp |-> 0]
    /\ held = 0

-----------------------------------------------------------------------------
(* The environment.                                                         *)

time_passes ==
    /\ now < Horizon
    /\ now' = now + 1
    /\ UNCHANGED <<ros, cadenceVars, pollVars>>

\* The ROS clock is stepped, once.
ros_clock_steps ==
    /\ ~ros.stepped
    /\ \E d \in ClockSteps : ros' = [off |-> d, stepped |-> TRUE]
    /\ UNCHANGED <<now, cadenceVars, pollVars>>

-----------------------------------------------------------------------------
(* The worker of the runtime.                                               *)

\* A full cycle has passed. A pending plan makes the worker wait again, for as
\* long as it is pending; else the cycle's host time is read, before
\* controller_mutex is taken.
cadence_wakes ==
    /\ cadence.at = "wait"
    /\ now >= cadence.since + Period
    /\ cadence' \in {[cadence EXCEPT !.since = now],
                     [cadence EXCEPT !.at = "run", !.host = now]}
    /\ UNCHANGED <<hostVars, timeline, sample, rtClock, pollVars>>

\* A clock that is stamped anew when no sample arrived.
capture_every_cycle(seq, host) ==
    [seq |-> seq, at |-> IF host <= rtClock.at THEN rtClock.at + 1 ELSE host]

\* Translated time never repeats: it is pushed past the one before.
capture_feedback_clock(seq, host) ==
    IF seq = rtClock.seq THEN rtClock
    ELSE [seq |-> seq, at |-> IF host <= rtClock.at THEN rtClock.at + 1 ELSE host]

\* The controller advances by exactly one cycle and samples both arms (or
\* refuses), with the evidence in the same section.
cadence_advance ==
    /\ cadence.at = "run"
    /\ timeline + Period <= Horizon
    /\ timeline' = timeline + Period
    /\ \E sampled \in BOOLEAN :
          sample' = IF sampled THEN [seq |-> sample.seq + 1, made |-> now] ELSE sample
    /\ rtClock' = capture_feedback_clock(sample'.seq, cadence.host)
    /\ cadence' = [at |-> "wait", host |-> 0, since |-> now]
    /\ UNCHANGED <<hostVars, pollVars>>

-----------------------------------------------------------------------------
(* The worker of the session: one poll after another.                       *)

Polling(to) == poll' = [poll EXCEPT !.at = to]

\* heartbeat of the running command: the facade's clock first.
heartbeat_now ==
    /\ poll.at = "poll"
    /\ poll' = [poll EXCEPT !.at = "beat", !.taken = now]
    /\ UNCHANGED <<hostVars, cadenceVars, beat, node, held>>

\* The remaining time of a facade deadline, on the controller's timeline.
translate_future_deadline(deadline, facade) ==
    IF deadline > facade THEN timeline + (deadline - facade) ELSE 0

\* oa_runtime_heartbeat then loads the controller's.
command_heartbeat ==
    /\ poll.at = "beat"
    /\ beat' = [host |-> poll.taken + Ahead,
                timeline |-> translate_future_deadline(poll.taken + Ahead, poll.taken)]
    /\ Polling("snapshot")
    /\ UNCHANGED <<hostVars, cadenceVars, node, held>>

\* capture_runtime_snapshot, under controller_mutex: evidence of another
\* sequence, from the future or too old takes the fresh bits away.
snapshot_get ==
    LET vouched == rtClock.seq = sample.seq /\ rtClock.at # 0 /\ rtClock.at <= now
        fresh == vouched /\ now - rtClock.at <= StaleAfter
    IN  /\ poll.at = "snapshot"
        /\ poll' = [at |-> IF fresh THEN "refresh" ELSE "stale", seq |-> poll.seq,
                    made |-> sample.made, meas |-> rtClock.at, taken |-> now,
                    rt |-> sample.seq]
        /\ UNCHANGED <<hostVars, cadenceVars, beat, node, held>>

\* refresh_snapshot(true, true): nothing new, or a sequence to publish with
\* the runtime's clock as it is now.
refresh_snapshot ==
    /\ poll.at = "refresh"
    /\ poll' = IF poll.rt = poll.seq THEN [NoPoll EXCEPT !.seq = poll.seq]
               ELSE [poll EXCEPT !.at = "publish", !.seq = poll.rt, !.rt = now]
    /\ UNCHANGED <<hostVars, cadenceVars, beat, node, held>>

\* publish_measured of the node. Its ROS clock is read later than poll.rt.
Age == poll.rt - poll.meas
Stamp == now + ros.off - Age
Accepted ==
    /\ now + ros.off > 0 /\ Age <= now + ros.off
    /\ node.ros # 0 => now + ros.off >= node.ros
    /\ node.rt # 0 =>
         LET drift == (now + ros.off - node.ros) - (poll.rt - node.rt)
         IN  -Tolerance <= drift /\ drift <= Tolerance /\ Stamp > node.stamp

publish_measured ==
    /\ poll.at = "publish"
    /\ held' = IF now - poll.rt > held THEN now - poll.rt ELSE held
    /\ \/ /\ Accepted
          /\ node' = [ros |-> now + ros.off, rt |-> poll.rt, stamp |-> Stamp]
          /\ poll' = [NoPoll EXCEPT !.seq = poll.seq]
       \/ /\ ~Accepted
          /\ Polling("refused")
          /\ UNCHANGED node
    /\ UNCHANGED <<hostVars, cadenceVars, beat>>

-----------------------------------------------------------------------------

ClockNext ==
    \/ time_passes \/ ros_clock_steps
    \/ cadence_wakes \/ cadence_advance
    \/ heartbeat_now \/ command_heartbeat
    \/ snapshot_get \/ refresh_snapshot \/ publish_measured

ClockSpec == ClockInit /\ [][ClockNext]_clockVars

-----------------------------------------------------------------------------
(* Properties.                                                              *)

\* A sample that the session takes as fresh was made at most feedback_timeout_ns
\* of host time before it was captured, a planning pause included, although
\* the controller's own clock stands still meanwhile (capture_feedback_clock).
FreshIsRecent ==
    poll.at \in {"refresh", "publish"} => poll.taken - poll.made <= StaleAfter

\* The node refuses a sample, and the session faults, only after the ROS clock
\* was stepped or the session's worker was held up between its two clocks for
\* a whole cycle (publish_measured).
RefusalHasACause == poll.at = "refused" => ros.stepped \/ held >= Period

\* A producer deadline does not expire on the controller's timeline more than
\* one cycle before it expires for the caller (translate_future_deadline).
DeadlineNotEarly == beat.timeline # 0 /\ timeline >= beat.timeline => now >= beat.host - Period

\* The clocks agree.
ClocksAgree == FreshIsRecent /\ RefusalHasACause /\ DeadlineNotEarly
=============================================================================
