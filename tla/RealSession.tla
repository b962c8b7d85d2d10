---------------------------- MODULE RealSession ----------------------------
(***************************************************************************)
(* The physical controller session: RealControlSession::Impl of            *)
(* openarm_ik_ros/src/real_control_session.cpp, as openarm_ik_ros_node     *)
(* uses it.                                                                *)
(*                                                                         *)
(* Two threads share the session.  "exec" is the node's single-threaded    *)
(* ROS executor: every service and action callback runs on it, one at a    *)
(* time, and so does the destructor's close().  "worker" is the session's  *)
(* own control loop.  A section under mutex_ is one atomic step, because   *)
(* no such section waits for anything; io_mutex_ is held across many steps *)
(* and is the variable io.  A store to an atomic is a step of its own      *)
(* wherever the other thread can see the difference.                       *)
(***************************************************************************)
EXTENDS Naturals, FiniteSets

CONSTANTS
    Motors,             \* the drives of the active arms
    Cmds,               \* commands a client may send, each at most once
    GripperCmds,        \* those of kind gripper
    Calls,              \* the services the operators may call
    CalibrationLoaded,  \* calibration_loaded_, fixed by the constructor
    GripperLoaded,      \* gripper_calibration_loaded_ after the constructor
    RampSteps,          \* cycles of Connect's gain ramp (50 in the code)
    Legs,               \* most waypoints of a plan
    SegmentCycles,      \* control cycles until a segment's settle timeout
    None                \* no command

ASSUME ConstantsAssumption ==
    /\ GripperCmds \subseteq Cmds
    /\ CalibrationLoaded \in BOOLEAN /\ GripperLoaded \in BOOLEAN
    /\ RampSteps \in Nat \ {0}
    /\ Legs \in Nat \ {0}
    /\ SegmentCycles \in Nat \ {0}
    /\ None \notin Cmds

Threads == {"exec", "worker"}

VARIABLES
    pc,         \* where each thread is
    io,         \* holder of io_mutex_, or "free"
    closing,    \* closing_
    open,       \* sockets_: the active sides' CAN sockets are open
    connected,  \* connected_
    armed,      \* armed_
    estop,      \* estop_
    latched,    \* g_estop_latched, the latch of the process
    cancel,     \* cancel_requested_
    pending,    \* pending_
    active,     \* active_->command
    leg, age,   \* active_->waypoint, and cycles spent in its segment
    owner,      \* owner_
    health,     \* health_.adapter_state
    ref,        \* what target_raw_ holds: where the drives are sent
    gcal,       \* gripper_calibration_loaded_
    drive,      \* the state of every drive (external)
    sample,     \* last_sample_[..].status: the last reply of every drive
    had,        \* local had_sockets of a running shutdown
    ok,         \* local confirmed of a running shutdown
    cmd,        \* local command a thread has moved out of the session
    shut,       \* which shutdown a thread runs: disconnect or estop
    fret, tret, \* where disable_and_close_for_fault, terminal_command return
    wasArmed,   \* worker local: the cycle that calls process_pending is armed
    step,       \* exec local: step of the gain ramp
    claim,      \* what the last Disconnect or E-stop told its caller
    unconf,     \* history: sockets closed without a confirmed disable
    done,       \* history: how often each command's terminal callback ran
    accepted,   \* history: commands submit() accepted
    halted      \* history: commands a Stop, Disconnect or E-stop must end

locks == <<io>>
flags == <<closing, open, connected, armed, estop, latched, cancel>>
motion == <<pending, active, leg, age, owner, ref>>
drives == <<drive, sample>>
locals == <<had, ok, cmd, shut, fret, tret, wasArmed, step>>
history == <<claim, unconf, done, accepted, halted>>
vars == <<pc, locks, flags, motion, health, gcal, drives, locals, history>>

AdapterStates ==
    {"starting", "reserved", "executing", "idle", "fault",
     "stopped_requires_restart"}
DriveStates == {"disabled", "enabled", "lost"}
Reports == {"none", "enabled", "other"}
References == {"unset", "seed", "plan", "endpoint", "hold"}
Claims == {"none", "confirmed", "passive", "unconfirmed"}

ConnectLabels ==
    {"c_lock", "c_open", "c_sample", "c_config", "c_seed", "c_enable",
     "c_arm", "c_check", "c_ramp", "c_done", "c_fail", "c_close"}
ShutLabels ==
    {"s_had", "s_latch", "s_assert", "s_cancel", "s_disarm", "s_disable",
     "s_close", "s_unconn", "s_finish", "s_health"}
FaultLabels ==
    {"x_disarm", "x_disable", "x_close", "x_unconn", "x_finish",
     "x_health"}
TerminalLabels == {"t_call", "t_done", "t_fault"}
ExecLabels ==
    ConnectLabels \cup ShutLabels \cup FaultLabels \cup TerminalLabels \cup
    {"idle", "k_latch", "k_estop", "k_cancel", "k_health", "g_connected",
     "g_sample", "g_publish", "submit", "release", "z_disarm", "z_disable",
     "z_join", "z_close", "dead"}
WorkerLabels ==
    ShutLabels \cup FaultLabels \cup TerminalLabels \cup
    {"w_top", "w_armed", "w_estop", "w_take", "w_plan", "w_install", "w_ref",
     "w_lock", "w_exchange", "w_check", "w_feedback", "w_monitor", "w_exit",
     "w_disable", "gone"}

Init ==
    /\ pc = [t \in Threads |-> IF t = "exec" THEN "idle" ELSE "w_top"]
    /\ io = "free"
    /\ closing = FALSE /\ open = FALSE /\ connected = FALSE
    /\ armed = FALSE /\ estop = FALSE /\ latched = FALSE
    /\ cancel = FALSE
    /\ pending = None /\ active = None /\ leg = 1 /\ age = 0
    /\ owner = None /\ health = "starting" /\ ref = "unset"
    /\ gcal = GripperLoaded
    /\ drive = [m \in Motors |-> "disabled"]
    /\ sample = [m \in Motors |-> "none"]
    /\ had = [t \in Threads |-> FALSE]
    /\ ok = [t \in Threads |-> FALSE]
    /\ cmd = [t \in Threads |-> None]
    /\ shut = [t \in Threads |-> "estop"]
    /\ fret = [t \in Threads |-> "x_finish"]
    /\ tret = [t \in Threads |-> "s_health"]
    /\ wasArmed = FALSE /\ step = 1
    /\ claim = "none" /\ unconf = FALSE
    /\ done = [c \in Cmds |-> 0]
    /\ accepted = {} /\ halted = {}

-----------------------------------------------------------------------------
(* Frames on the CAN bus.  A frame that is written may still not reach its  *)
(* drive, and a reply may not come back in time.                            *)

Goto(t, label) == pc' = [pc EXCEPT ![t] = label]

\* disable_all_immediate(): the drives in reached get their disable frame.
DisableFrames ==
    IF open
    THEN \E reached \in SUBSET Motors :
            drive' = [m \in Motors |->
                        IF m \in reached THEN "disabled" ELSE drive[m]]
    ELSE drive' = drive

\* disable_until_confirmed() and then close_sockets(), which every caller runs
\* together under io_mutex_.  The former returns TRUE when every drive has
\* answered "disabled" within its window, and also when no socket is open.
ConfirmAndCloseOnAnyReply(confirmed) ==
    /\ IF open THEN DisableFrames ELSE confirmed /\ drive' = drive
    /\ open' = FALSE
    /\ unconf' = IF confirmed THEN unconf ELSE TRUE

ConfirmAndClose(confirmed) ==
    /\ IF open
       THEN IF confirmed THEN drive' = [m \in Motors |-> "disabled"]
                         ELSE DisableFrames
       ELSE confirmed /\ drive' = drive
    /\ open' = FALSE
    /\ unconf' = IF confirmed THEN unconf ELSE TRUE

\* close_sockets() alone.
CloseUnconfirmed ==
    /\ drive' = drive
    /\ open' = FALSE
    /\ unconf' = IF open THEN TRUE ELSE unconf

\* send_hold_commands() and send_refresh_all() need every active side's socket.
FramesSent == open

\* exchange_frames() after the drives in replied have answered: a drive that
\* did not answer counts with its previous reply while that is younger than
\* the feedback watchdog, whose passing is left open.
Reported(m) == IF drive[m] = "enabled" THEN "enabled" ELSE "other"
Replies(replied) ==
    [m \in Motors |-> IF m \in replied THEN Reported(m) ELSE sample[m]]
ExchangeComplete(command, replied) ==
    /\ FramesSent
    /\ \A m \in Motors \ replied : sample[m] # "none"
    /\ command => \A m \in Motors : Replies(replied)[m] = "enabled"

-----------------------------------------------------------------------------
(* connect_and_enable(), on the executor.                                   *)

\* Connect and the worker look at both latches.
EstopSeen == estop \/ latched

ConnectCheck ==
    /\ "connect" \in Calls
    /\ pc["exec"] = "idle"
    /\ ~EstopSeen /\ CalibrationLoaded
    /\ Goto("exec", "c_lock")
    /\ UNCHANGED <<locks, flags, motion, health, gcal, drives, locals, history>>

ConnectLock ==
    /\ pc["exec"] = "c_lock"
    /\ io = "free"
    /\ IF connected
       THEN /\ Goto("exec", "idle")
            /\ UNCHANGED <<io, claim>>
       ELSE /\ Goto("exec", "c_open")
            /\ io' = "exec"
            /\ claim' = "none"
    /\ UNCHANGED <<flags, motion, health, gcal, drives, locals,
                   unconf, done, accepted, halted>>

ConnectOpen ==
    /\ pc["exec"] = "c_open"
    /\ open' = TRUE
    /\ connected' = TRUE
    /\ Goto("exec", "c_sample")
    /\ UNCHANGED <<locks, closing, armed, estop, latched, cancel, motion,
                   health, gcal, drives, locals, history>>

\* open_sockets() fails and closes what it has opened.
ConnectOpenFails ==
    /\ pc["exec"] = "c_open"
    /\ CloseUnconfirmed
    /\ io' = "free"
    /\ Goto("exec", "idle")
    /\ UNCHANGED <<closing, connected, armed, estop, latched, cancel, motion,
                   health, gcal, sample, locals, claim, done, accepted,
                   halted>>

\* Up to five refresh exchanges, then the joint limits and the collision model.
ConnectSample ==
    /\ pc["exec"] = "c_sample"
    /\ \E replied \in SUBSET Motors :
         /\ sample' = Replies(replied)
         /\ \/ ExchangeComplete(FALSE, replied) /\ Goto("exec", "c_config")
            \/ Goto("exec", "c_fail")
    /\ UNCHANGED <<locks, flags, motion, health, gcal, drive, locals, history>>

\* The drive timeout and the gripper mode, each written and read back.
ConnectConfigure ==
    /\ pc["exec"] = "c_config"
    /\ \E next \in {"c_seed", "c_fail"} : Goto("exec", next)
    /\ UNCHANGED <<locks, flags, motion, health, gcal, drives, locals, history>>

\* target_raw_ := measured pose, sent at zero gain.
ConnectSeed ==
    /\ pc["exec"] = "c_seed"
    /\ ref' = "seed"
    /\ \E next \in {"c_enable", "c_fail"} :
         /\ next = "c_enable" => FramesSent
         /\ Goto("exec", next)
    /\ UNCHANGED <<locks, flags, pending, active, leg, age, owner, health,
                   gcal, drives, locals, history>>

\* send_enable_all() may fail half way.
ConnectEnable ==
    /\ pc["exec"] = "c_enable"
    /\ \E reached \in IF open THEN SUBSET Motors ELSE {{}} :
         drive' = [m \in Motors |->
                     IF m \in reached THEN "enabled" ELSE drive[m]]
    /\ unconf' = FALSE
    /\ \E next \in {"c_arm", "c_fail"} :
         /\ next = "c_arm" => open
         /\ Goto("exec", next)
    /\ UNCHANGED <<locks, flags, motion, health, gcal, sample, locals,
                   claim, done, accepted, halted>>

ConnectArm ==
    /\ pc["exec"] = "c_arm"
    /\ armed' = TRUE
    /\ Goto("exec", "c_check")
    /\ UNCHANGED <<locks, closing, open, connected, estop, latched, cancel,
                   motion, health, gcal, drives, locals, history>>

ConnectRampCheckUnlatched ==
    /\ pc["exec"] = "c_check"
    /\ Goto("exec", "c_ramp")
    /\ UNCHANGED <<locks, flags, motion, health, gcal, drives, locals, history>>

ConnectRampCheck ==
    /\ pc["exec"] = "c_check"
    /\ IF EstopSeen
       THEN armed' = FALSE /\ step' = 1 /\ Goto("exec", "c_fail")
       ELSE UNCHANGED <<armed, step>> /\ Goto("exec", "c_ramp")
    /\ UNCHANGED <<locks, closing, open, connected, estop, latched, cancel,
                   motion, health, gcal, drives, had, ok, cmd, shut, fret,
                   tret, wasArmed, history>>

RampGoesOnTooLong == step <= RampSteps
RampGoesOn == step < RampSteps

ConnectRamp ==
    /\ pc["exec"] = "c_ramp"
    /\ \E replied \in SUBSET Motors :
         /\ sample' = Replies(replied)
         /\ \/ /\ ExchangeComplete(TRUE, replied)
               /\ IF RampGoesOn
                  THEN step' = step + 1 /\ Goto("exec", "c_check")
                  ELSE step' = 1 /\ Goto("exec", "c_done")
               /\ UNCHANGED armed
            \/ /\ armed' = FALSE
               /\ step' = 1
               /\ Goto("exec", "c_fail")
    /\ UNCHANGED <<locks, closing, open, connected, estop, latched, cancel,
                   motion, health, gcal, drive, had, ok, cmd, shut, fret, tret,
                   wasArmed, history>>

ConnectDone ==
    /\ pc["exec"] = "c_done"
    /\ health' = "idle"
    /\ io' = "free"
    /\ Goto("exec", "idle")
    /\ UNCHANGED <<flags, motion, gcal, drives, locals, history>>

\* fail_connect_closed: disable frames, then confirm, close, report a fault.
ConnectFail ==
    /\ pc["exec"] = "c_fail"
    /\ DisableFrames
    /\ Goto("exec", "c_close")
    /\ UNCHANGED <<locks, flags, motion, health, gcal, sample, locals, history>>

ConnectFailClose ==
    /\ pc["exec"] = "c_close"
    /\ \E confirmed \in BOOLEAN : ConfirmAndClose(confirmed)
    /\ connected' = FALSE
    /\ health' = "fault"
    /\ io' = "free"
    /\ Goto("exec", "idle")
    /\ UNCHANGED <<closing, armed, estop, latched, cancel, motion, gcal,
                   sample, locals, claim, done, accepted, halted>>

-----------------------------------------------------------------------------
(* disconnect_and_disable() and emergency_stop() differ in the latch, in    *)
(* what they report and in nothing else.  The worker calls the latter too.  *)

ShutdownCall(call) ==
    /\ call \in Calls
    /\ pc["exec"] = "idle"
    /\ shut' = [shut EXCEPT !["exec"] = call]
    /\ Goto("exec", "s_had")
    /\ UNCHANGED <<locks, flags, motion, health, gcal, drives, had, ok, cmd,
                   fret, tret, wasArmed, step, history>>

ShutdownHadSockets(t) ==
    /\ pc[t] = "s_had"
    /\ had' = [had EXCEPT ![t] = open]
    /\ Goto(t, IF shut[t] = "estop" THEN "s_latch" ELSE "s_cancel")
    /\ UNCHANGED <<locks, flags, motion, health, gcal, drives, ok, cmd, shut,
                   fret, tret, wasArmed, step, history>>

ShutdownLatch(t) ==
    /\ pc[t] = "s_latch"
    /\ estop' = TRUE
    /\ Goto(t, "s_assert")
    /\ UNCHANGED <<locks, closing, open, connected, armed, latched, cancel,
                   motion, health, gcal, drives, locals, history>>

\* oa_runtime_estop_assert()
ShutdownAssert(t) ==
    /\ pc[t] = "s_assert"
    /\ latched' = TRUE
    /\ Goto(t, "s_cancel")
    /\ UNCHANGED <<locks, closing, open, connected, armed, estop, cancel,
                   motion, health, gcal, drives, locals, history>>

ShutdownCancel(t) ==
    /\ pc[t] = "s_cancel"
    /\ cancel' = TRUE
    /\ Goto(t, "s_disarm")
    /\ UNCHANGED <<locks, closing, open, connected, armed, estop, latched,
                   motion, health, gcal, drives, locals, history>>

ShutdownDisarm(t) ==
    /\ pc[t] = "s_disarm"
    /\ armed' = FALSE
    /\ Goto(t, "s_disable")
    /\ UNCHANGED <<locks, closing, open, connected, estop, latched, cancel,
                   motion, health, gcal, drives, locals, history>>

ShutdownDisable(t) ==
    /\ pc[t] = "s_disable"
    /\ DisableFrames
    /\ Goto(t, "s_close")
    /\ UNCHANGED <<locks, flags, motion, health, gcal, sample, locals, history>>

\* confirmed = had_sockets && disable_until_confirmed(), then close_sockets(),
\* both under io_mutex_.
ShutdownClose(t) ==
    /\ pc[t] = "s_close"
    /\ io = "free"
    /\ \E confirmed \in BOOLEAN :
         /\ IF had[t] THEN ConfirmAndClose(confirmed)
                      ELSE ~confirmed /\ CloseUnconfirmed
         /\ ok' = [ok EXCEPT ![t] = confirmed]
    /\ Goto(t, "s_unconn")
    /\ UNCHANGED <<locks, closing, connected, armed, estop, latched, cancel,
                   motion, health, gcal, sample, had, cmd, shut, fret, tret,
                   wasArmed, step, claim, done, accepted, halted>>

ShutdownUnconnect(t) ==
    /\ pc[t] = "s_unconn"
    /\ connected' = FALSE
    /\ Goto(t, "s_finish")
    /\ UNCHANGED <<locks, closing, open, armed, estop, latched, cancel, motion,
                   health, gcal, drives, locals, history>>

FinishActiveKeepsPending(t, here, next) ==
    /\ pc[t] = here
    /\ cmd' = [cmd EXCEPT ![t] = IF active # None THEN active ELSE pending]
    /\ active' = None
    /\ IF active # None \/ pending # None
       THEN Goto(t, "t_call") /\ tret' = [tret EXCEPT ![t] = next]
       ELSE Goto(t, next) /\ UNCHANGED tret
    /\ UNCHANGED <<locks, flags, pending, leg, age, owner, ref, health, gcal,
                   drives, had, ok, shut, fret, wasArmed, step, history>>

\* finish_active(): moves out the active or else the pending command and
\* terminates it; nothing to do when there is neither.
FinishActive(t, here, next) ==
    /\ pc[t] = here
    /\ IF active # None
       THEN /\ cmd' = [cmd EXCEPT ![t] = active]
            /\ active' = None /\ leg' = 1 /\ age' = 0
            /\ UNCHANGED pending
       ELSE /\ cmd' = [cmd EXCEPT ![t] = pending]
            /\ pending' = None
            /\ UNCHANGED <<active, leg, age>>
    /\ IF active # None \/ pending # None
       THEN Goto(t, "t_call") /\ tret' = [tret EXCEPT ![t] = next]
       ELSE Goto(t, next) /\ UNCHANGED tret
    /\ UNCHANGED <<locks, flags, owner, ref, health, gcal, drives, had, ok,
                   shut, fret, wasArmed, step, history>>

ShutdownFinish(t) == FinishActive(t, "s_finish", "s_health")

\* set_health() and the answer: E-stop always reports the latched state.
ShutdownHealth(t) ==
    /\ pc[t] = "s_health"
    /\ health' = IF shut[t] = "estop" THEN "stopped_requires_restart"
                 ELSE IF ~had[t] \/ ok[t] THEN "starting" ELSE "fault"
    /\ IF t = "exec"
       THEN /\ claim' = IF ~had[t] THEN "passive"
                        ELSE IF ok[t] THEN "confirmed" ELSE "unconfirmed"
            /\ halted' = {c \in accepted : done[c] = 0}
            /\ Goto(t, "idle")
       ELSE Goto(t, "w_top") /\ UNCHANGED <<claim, halted>>
    /\ had' = [had EXCEPT ![t] = FALSE]
    /\ ok' = [ok EXCEPT ![t] = FALSE]
    /\ shut' = [shut EXCEPT ![t] = "estop"]
    /\ UNCHANGED <<locks, flags, motion, gcal, drives, cmd, fret, tret,
                   wasArmed, step, unconf, done, accepted>>

-----------------------------------------------------------------------------
(* disable_and_close_for_fault(), and fault_and_disable() around it.        *)

FaultDisarm(t) ==
    /\ pc[t] = "x_disarm"
    /\ armed' = FALSE
    /\ Goto(t, "x_disable")
    /\ UNCHANGED <<locks, closing, open, connected, estop, latched, cancel,
                   motion, health, gcal, drives, locals, history>>

FaultDisable(t) ==
    /\ pc[t] = "x_disable"
    /\ DisableFrames
    /\ Goto(t, "x_close")
    /\ UNCHANGED <<locks, flags, motion, health, gcal, sample, locals, history>>

\* This confirmed is a local of its own: a shutdown around it keeps ok[t].
FaultClose(t) ==
    /\ pc[t] = "x_close"
    /\ io = "free"
    /\ \E confirmed \in BOOLEAN : ConfirmAndClose(confirmed)
    /\ Goto(t, "x_unconn")
    /\ UNCHANGED <<locks, closing, connected, armed, estop, latched, cancel,
                   motion, health, gcal, sample, locals, claim, done, accepted,
                   halted>>

FaultUnconnect(t) ==
    /\ pc[t] = "x_unconn"
    /\ connected' = FALSE
    /\ Goto(t, fret[t])
    /\ fret' = [fret EXCEPT ![t] = "x_finish"]
    /\ UNCHANGED <<locks, closing, open, armed, estop, latched, cancel, motion,
                   health, gcal, drives, had, ok, cmd, shut, tret, wasArmed,
                   step, history>>

FaultFinish == FinishActive("worker", "x_finish", "x_health")

FaultHealth ==
    /\ pc["worker"] = "x_health"
    /\ health' = "fault"
    /\ Goto("worker", "w_top")
    /\ UNCHANGED <<locks, flags, motion, gcal, drives, locals, history>>

-----------------------------------------------------------------------------
(* terminal_command(): the client's terminal callback, then the owner and   *)
(* the health under mutex_; a failing callback closes the session.          *)

TerminalCallback(t) ==
    /\ pc[t] = "t_call"
    /\ done' = [done EXCEPT ![cmd[t]] = @ + 1]
    /\ halted' = halted \ {cmd[t]}
    /\ Goto(t, "t_done")
    /\ UNCHANGED <<locks, flags, motion, health, gcal, drives, locals, claim,
                   unconf, accepted>>

HealthAssumesArmed == "idle"
HealthAfterTerminal ==
    IF armed THEN "idle"
    ELSE IF estop THEN "stopped_requires_restart" ELSE "starting"

TerminalDone(t) ==
    /\ pc[t] = "t_done"
    /\ owner' = IF owner = cmd[t] THEN None ELSE owner
    /\ health' = HealthAfterTerminal
    /\ cmd' = [cmd EXCEPT ![t] = None]
    /\ \/ /\ Goto(t, tret[t])
          /\ tret' = [tret EXCEPT ![t] = "s_health"]
          /\ UNCHANGED fret
       \/ /\ Goto(t, "x_disarm")
          /\ fret' = [fret EXCEPT ![t] = "t_fault"]
          /\ UNCHANGED tret
    /\ UNCHANGED <<locks, flags, pending, active, leg, age, ref, gcal, drives,
                   had, ok, shut, wasArmed, step, history>>

TerminalFault(t) ==
    /\ pc[t] = "t_fault"
    /\ health' = "fault"
    /\ Goto(t, tret[t])
    /\ tret' = [tret EXCEPT ![t] = "s_health"]
    /\ UNCHANGED <<locks, flags, motion, gcal, drives, had, ok, cmd, shut,
                   fret, wasArmed, step, history>>

-----------------------------------------------------------------------------
(* worker_main().                                                           *)

\* cv_.wait_until(): the cycle's time or a new command.
WorkerTop ==
    /\ pc["worker"] = "w_top"
    /\ Goto("worker", IF closing THEN "w_exit" ELSE "w_armed")
    /\ UNCHANGED <<locks, flags, motion, health, gcal, drives, locals, history>>

WorkerArmed ==
    /\ pc["worker"] = "w_armed"
    /\ wasArmed' = armed
    /\ Goto("worker", IF armed THEN "w_estop" ELSE "w_take")
    /\ UNCHANGED <<locks, flags, motion, health, gcal, drives, had, ok, cmd,
                   shut, fret, tret, step, history>>

WorkerEstop ==
    /\ pc["worker"] = "w_estop"
    /\ IF EstopSeen
       THEN /\ shut' = [shut EXCEPT !["worker"] = "estop"]
            /\ Goto("worker", "s_had")
       ELSE Goto("worker", "w_take") /\ UNCHANGED shut
    /\ UNCHANGED <<locks, flags, motion, health, gcal, drives, had, ok, cmd,
                   fret, tret, wasArmed, step, history>>

\* process_pending(): takes pending_ under mutex_, plans without a lock and
\* installs the plan under mutex_ again.
AfterPending == IF wasArmed THEN "w_ref" ELSE "w_top"

ProcessPendingTake ==
    /\ pc["worker"] = "w_take"
    /\ cmd' = [cmd EXCEPT !["worker"] = pending]
    /\ pending' = None
    /\ Goto("worker", IF pending = None THEN AfterPending ELSE "w_plan")
    /\ UNCHANGED <<locks, flags, active, leg, age, owner, ref, health, gcal,
                   drives, had, ok, shut, fret, tret, wasArmed, step, history>>

\* plan_command(): a gripper needs its calibration; whether the routes, the joint
\* limits and the collision model allow a plan is left open.
PlanFound(c) == c \in GripperCmds => gcal

\* A cancel seen now, or a plan that fails, ends the command before motion.
ProcessPendingPlan ==
    /\ pc["worker"] = "w_plan"
    /\ \/ /\ Goto("worker", "t_call")
          /\ tret' = [tret EXCEPT !["worker"] = AfterPending]
       \/ /\ ~cancel
          /\ PlanFound(cmd["worker"])
          /\ Goto("worker", "w_install")
          /\ UNCHANGED tret
    /\ UNCHANGED <<locks, flags, motion, health, gcal, drives, had, ok, cmd,
                   shut, fret, wasArmed, step, history>>

ProcessPendingInstall ==
    /\ pc["worker"] = "w_install"
    /\ active' = cmd["worker"]
    /\ cmd' = [cmd EXCEPT !["worker"] = None]
    /\ health' = "executing"
    /\ Goto("worker", AfterPending)
    /\ UNCHANGED <<locks, flags, pending, leg, age, owner, ref, gcal, drives,
                   had, ok, shut, fret, tret, wasArmed, step, history>>

\* A gripper motion moves the gripper targets and leaves target_raw_ alone.
UpdateReference ==
    /\ pc["worker"] = "w_ref"
    /\ ref' = IF active \in Cmds \ GripperCmds THEN "plan" ELSE ref
    /\ wasArmed' = FALSE
    /\ Goto("worker", "w_lock")
    /\ UNCHANGED <<locks, flags, pending, active, leg, age, owner, health,
                   gcal, drives, had, ok, cmd, shut, fret, tret, step, history>>

WorkerLock ==
    /\ pc["worker"] = "w_lock"
    /\ io = "free"
    /\ IF armed THEN io' = "worker" /\ Goto("worker", "w_exchange")
                ELSE UNCHANGED io /\ Goto("worker", "w_check")
    /\ UNCHANGED <<flags, motion, health, gcal, drives, locals, history>>

WorkerExchange ==
    /\ pc["worker"] = "w_exchange"
    /\ \E replied \in SUBSET Motors :
         /\ sample' = Replies(replied)
         /\ \/ ExchangeComplete(TRUE, replied) /\ Goto("worker", "w_feedback")
            \/ Goto("worker", "w_check")
    /\ io' = "free"
    /\ UNCHANGED <<flags, motion, health, gcal, drive, locals, history>>

\* An incomplete exchange is a watchdog fault while armed and connected.
WorkerCheck ==
    /\ pc["worker"] = "w_check"
    /\ IF armed /\ connected
       THEN /\ fret' = [fret EXCEPT !["worker"] = "x_finish"]
            /\ Goto("worker", "x_disarm")
       ELSE Goto("worker", "w_top") /\ UNCHANGED fret
    /\ UNCHANGED <<locks, flags, motion, health, gcal, drives, had, ok, cmd,
                   shut, tret, wasArmed, step, history>>

\* publish_measured() and publish_command_feedback(): a feedback callback that
\* the client no longer accepts cancels the motion.
WorkerFeedback ==
    /\ pc["worker"] = "w_feedback"
    /\ \/ UNCHANGED cancel
       \/ active # None /\ cancel' = TRUE
    /\ Goto("worker", "w_monitor")
    /\ UNCHANGED <<locks, closing, open, connected, armed, estop, latched,
                   motion, health, gcal, drives, locals, history>>

TerminateKeepsReference(reference, next, return) ==
    /\ cmd' = [cmd EXCEPT !["worker"] = active]
    /\ active' = None
    /\ UNCHANGED ref
    /\ Goto("worker", next)
    /\ tret' = [tret EXCEPT !["worker"] = return]
    /\ leg' = 1 /\ age' = 0

\* monitor_and_complete().  Terminate moves the command out of active_ and
\* leaves a new reference in target_raw_.
Terminate(reference, next, return) ==
    /\ cmd' = [cmd EXCEPT !["worker"] = active]
    /\ active' = None
    /\ ref' = reference
    /\ Goto("worker", next)
    /\ tret' = [tret EXCEPT !["worker"] = return]
    /\ leg' = 1 /\ age' = 0

MonitorIdle ==
    /\ pc["worker"] = "w_monitor"
    /\ active = None
    /\ Goto("worker", "w_top")
    /\ UNCHANGED <<locks, flags, motion, health, gcal, drives, locals, history>>

MonitorCancel ==
    /\ pc["worker"] = "w_monitor"
    /\ active # None /\ cancel
    /\ Terminate("hold", "t_call", "w_top")
    /\ UNCHANGED <<locks, flags, pending, owner, health, gcal, drives,
                   had, ok, shut, fret, wasArmed, step, history>>

\* live_collision_evaluation_failed: the only outcome that disables.
MonitorFault ==
    /\ pc["worker"] = "w_monitor"
    /\ active \in Cmds \ GripperCmds /\ ~cancel
    /\ Terminate("hold", "x_disarm", "x_health")
    /\ fret' = [fret EXCEPT !["worker"] = "t_call"]
    /\ UNCHANGED <<locks, flags, pending, owner, health, gcal, drives,
                   had, ok, shut, wasArmed, step, history>>

\* Proved or felt contact, or a worsening clearance: hold where it is.
MonitorIntervene ==
    /\ pc["worker"] = "w_monitor"
    /\ active \in Cmds \ GripperCmds /\ ~cancel
    /\ Terminate("hold", "t_call", "w_top")
    /\ UNCHANGED <<locks, flags, pending, owner, health, gcal, drives,
                   had, ok, shut, fret, wasArmed, step, history>>

\* The gripper is at its opening or has grasped something.
MonitorGrasp ==
    /\ pc["worker"] = "w_monitor"
    /\ active \in GripperCmds /\ ~cancel
    /\ Terminate("hold", "t_call", "w_top")
    /\ UNCHANGED <<locks, flags, pending, owner, health, gcal, drives,
                   had, ok, shut, fret, wasArmed, step, history>>

\* The segment, or the gripper, does not settle in time: hold where it is.
MonitorTimeout ==
    /\ pc["worker"] = "w_monitor"
    /\ active # None /\ ~cancel /\ age = SegmentCycles
    /\ Terminate("hold", "t_call", "w_top")
    /\ UNCHANGED <<locks, flags, pending, owner, health, gcal, drives,
                   had, ok, shut, fret, wasArmed, step, history>>

\* The last waypoint is reached: hold the endpoint.
MonitorComplete ==
    /\ pc["worker"] = "w_monitor"
    /\ active \in Cmds \ GripperCmds /\ ~cancel
    /\ Terminate("endpoint", "t_call", "w_top")
    /\ UNCHANGED <<locks, flags, pending, owner, health, gcal, drives,
                   had, ok, shut, fret, wasArmed, step, history>>

\* The segment has settled and the next one starts from the measured pose.
MonitorNextLeg ==
    /\ pc["worker"] = "w_monitor"
    /\ active \in Cmds \ GripperCmds /\ ~cancel
    /\ leg < Legs
    /\ leg' = leg + 1 /\ age' = 0
    /\ Goto("worker", "w_top")
    /\ UNCHANGED <<locks, flags, pending, active, owner, ref, health, gcal,
                   drives, locals, history>>

\* Still under way, until the segment's settle timeout.
MonitorContinueForever ==
    /\ pc["worker"] = "w_monitor"
    /\ active # None /\ ~cancel
    /\ Goto("worker", "w_top")
    /\ UNCHANGED <<locks, flags, motion, health, gcal, drives, locals, history>>

MonitorContinue ==
    /\ pc["worker"] = "w_monitor"
    /\ active # None /\ ~cancel
    /\ age < SegmentCycles
    /\ age' = age + 1
    /\ Goto("worker", "w_top")
    /\ UNCHANGED <<locks, flags, pending, active, leg, owner, ref, health,
                   gcal, drives, locals, history>>

WorkerExit ==
    /\ pc["worker"] = "w_exit"
    /\ armed' = FALSE
    /\ Goto("worker", "w_disable")
    /\ UNCHANGED <<locks, closing, open, connected, estop, latched, cancel,
                   motion, health, gcal, drives, locals, history>>

WorkerDisable ==
    /\ pc["worker"] = "w_disable"
    /\ DisableFrames
    /\ Goto("worker", "gone")
    /\ UNCHANGED <<locks, flags, motion, health, gcal, sample, locals, history>>

-----------------------------------------------------------------------------
(* The other services and the goals of the node, on the executor.           *)

\* stop_motion()
StopMotion ==
    /\ "stop" \in Calls
    /\ pc["exec"] = "idle"
    /\ cancel' = IF pending # None \/ active # None THEN TRUE ELSE cancel
    /\ halted' = {c \in accepted : done[c] = 0}
    /\ UNCHANGED <<pc, locks, closing, open, connected, armed, estop, latched,
                   motion, health, gcal, drives, locals, claim, unconf, done,
                   accepted>>

ClearCheckUnguarded ==
    /\ "estop_clear" \in Calls
    /\ pc["exec"] = "idle"
    /\ Goto("exec", "k_latch")
    /\ UNCHANGED <<locks, flags, motion, health, gcal, drives, locals, history>>

\* clear_emergency_stop(): refused while connected or armed, then one store
\* after the other.
ClearCheck ==
    /\ "estop_clear" \in Calls
    /\ pc["exec"] = "idle"
    /\ ~connected /\ ~armed
    /\ Goto("exec", "k_latch")
    /\ UNCHANGED <<locks, flags, motion, health, gcal, drives, locals, history>>

ClearLatch ==
    /\ pc["exec"] = "k_latch"
    /\ latched' = FALSE
    /\ Goto("exec", "k_estop")
    /\ UNCHANGED <<locks, closing, open, connected, armed, estop, cancel,
                   motion, health, gcal, drives, locals, history>>

ClearEstop ==
    /\ pc["exec"] = "k_estop"
    /\ estop' = FALSE
    /\ Goto("exec", "k_cancel")
    /\ UNCHANGED <<locks, closing, open, connected, armed, latched, cancel,
                   motion, health, gcal, drives, locals, history>>

ClearCancel ==
    /\ pc["exec"] = "k_cancel"
    /\ cancel' = FALSE
    /\ Goto("exec", "k_health")
    /\ UNCHANGED <<locks, closing, open, connected, armed, estop, latched,
                   motion, health, gcal, drives, locals, history>>

ClearHealth ==
    /\ pc["exec"] = "k_health"
    /\ health' = "starting"
    /\ Goto("exec", "idle")
    /\ UNCHANGED <<locks, flags, motion, gcal, drives, locals, history>>

\* capture_grippers_closed(): idle, connected and armed, both J8 encoders
\* fresh under io_mutex_, the file saved; published under both mutexes.
CaptureIdle ==
    /\ "capture" \in Calls
    /\ pc["exec"] = "idle"
    /\ ~closing /\ pending = None /\ active = None /\ owner = None
    /\ Goto("exec", "g_connected")
    /\ UNCHANGED <<locks, flags, motion, health, gcal, drives, locals, history>>

CaptureConnected ==
    /\ pc["exec"] = "g_connected"
    /\ Goto("exec", IF connected /\ armed THEN "g_sample" ELSE "idle")
    /\ UNCHANGED <<locks, flags, motion, health, gcal, drives, locals, history>>

CaptureSample ==
    /\ pc["exec"] = "g_sample"
    /\ io = "free"
    /\ \E next \in {"g_publish", "idle"} : Goto("exec", next)
    /\ UNCHANGED <<locks, flags, motion, health, gcal, drives, locals, history>>

CapturePublish ==
    /\ pc["exec"] = "g_publish"
    /\ io = "free"
    /\ gcal' = TRUE
    /\ Goto("exec", "idle")
    /\ UNCHANGED <<locks, flags, motion, health, drives, locals, history>>

\* A goal: reserve() in the goal callback, submit() in the accepted callback,
\* release() when the goal cannot be submitted.
Reserve(c) ==
    /\ "goal" \in Calls
    /\ pc["exec"] = "idle"
    /\ c \notin accepted
    /\ ~closing /\ ~estop /\ connected /\ armed
    /\ owner = None /\ pending = None /\ active = None
    /\ owner' = c
    /\ health' = "reserved"
    /\ cmd' = [cmd EXCEPT !["exec"] = c]
    /\ Goto("exec", "submit")
    /\ UNCHANGED <<locks, flags, pending, active, leg, age, ref, gcal, drives,
                   had, ok, shut, fret, tret, wasArmed, step, history>>

Submit ==
    /\ pc["exec"] = "submit"
    /\ \/ /\ ~closing /\ owner = cmd["exec"] /\ pending = None /\ active = None
          /\ cancel' = FALSE
          /\ pending' = cmd["exec"]
          /\ accepted' = accepted \cup {cmd["exec"]}
          /\ cmd' = [cmd EXCEPT !["exec"] = None]
          /\ Goto("exec", "idle")
       \/ \* a refused submission, or a goal that cannot be transformed
          /\ Goto("exec", "release")
          /\ UNCHANGED <<cancel, pending, accepted, cmd>>
    /\ UNCHANGED <<locks, closing, open, connected, armed, estop, latched,
                   active, leg, age, owner, ref, health, gcal, drives, had, ok,
                   shut, fret, tret, wasArmed, step, claim, unconf, done,
                   halted>>

Release ==
    /\ pc["exec"] = "release"
    /\ IF owner = cmd["exec"] /\ pending = None /\ active = None
       THEN /\ owner' = None
            /\ health' = IF armed THEN "idle" ELSE "starting"
       ELSE UNCHANGED <<owner, health>>
    /\ cmd' = [cmd EXCEPT !["exec"] = None]
    /\ Goto("exec", "idle")
    /\ UNCHANGED <<locks, flags, pending, active, leg, age, ref, gcal, drives,
                   had, ok, shut, fret, tret, wasArmed, step, history>>

\* cancel(owner), a goal's cancel request.
Cancel(c) ==
    /\ "cancel" \in Calls
    /\ pc["exec"] = "idle"
    /\ owner = c
    /\ pending # None \/ active # None
    /\ cancel' = TRUE
    /\ UNCHANGED <<pc, locks, closing, open, connected, armed, estop, latched,
                   motion, health, gcal, drives, locals, history>>

\* close(): joins the worker before it takes io_mutex_.
CloseSession ==
    /\ "close" \in Calls
    /\ pc["exec"] = "idle"
    /\ closing' = TRUE
    /\ cancel' = TRUE
    /\ Goto("exec", "z_disarm")
    /\ UNCHANGED <<locks, open, connected, armed, estop, latched, motion,
                   health, gcal, drives, locals, history>>

CloseDisarm ==
    /\ pc["exec"] = "z_disarm"
    /\ armed' = FALSE
    /\ Goto("exec", "z_disable")
    /\ UNCHANGED <<locks, closing, open, connected, estop, latched, cancel,
                   motion, health, gcal, drives, locals, history>>

CloseDisableUnderLock ==
    /\ pc["exec"] = "z_disable"
    /\ io = "free"
    /\ io' = "exec"
    /\ DisableFrames
    /\ Goto("exec", "z_join")
    /\ UNCHANGED <<flags, motion, health, gcal, sample, locals, history>>

CloseDisable ==
    /\ pc["exec"] = "z_disable"
    /\ DisableFrames
    /\ Goto("exec", "z_join")
    /\ UNCHANGED <<locks, flags, motion, health, gcal, sample, locals, history>>

CloseJoin ==
    /\ pc["exec"] = "z_join"
    /\ pc["worker"] = "gone"
    /\ Goto("exec", "z_close")
    /\ UNCHANGED <<locks, flags, motion, health, gcal, drives, locals, history>>

CloseClose ==
    /\ pc["exec"] = "z_close"
    /\ io = "free"
    /\ \E confirmed \in BOOLEAN : ConfirmAndClose(confirmed)
    /\ connected' = FALSE
    /\ Goto("exec", "dead")
    /\ UNCHANGED <<locks, closing, armed, estop, latched, cancel, motion,
                   health, gcal, sample, locals, claim, done, accepted,
                   halted>>

-----------------------------------------------------------------------------
\* A drive that hears no frame for 200 ms stops by itself (external).
DriveTimeout(m) ==
    /\ drive[m] = "enabled"
    /\ drive' = [drive EXCEPT ![m] = "lost"]
    /\ UNCHANGED <<pc, locks, flags, motion, health, gcal, sample, locals,
                   history>>

Terminated == pc["exec"] = "dead" /\ UNCHANGED vars

CallStarts ==
    \/ ConnectCheck \/ StopMotion \/ ClearCheck \/ CaptureIdle \/ CloseSession
    \/ \E call \in {"disconnect", "estop"} : ShutdownCall(call)
    \/ \E c \in Cmds : Reserve(c) \/ Cancel(c)

Shared(t) ==
    \/ ShutdownHadSockets(t) \/ ShutdownLatch(t) \/ ShutdownAssert(t)
    \/ ShutdownCancel(t) \/ ShutdownDisarm(t) \/ ShutdownDisable(t)
    \/ ShutdownClose(t)
    \/ ShutdownUnconnect(t) \/ ShutdownFinish(t) \/ ShutdownHealth(t)
    \/ FaultDisarm(t) \/ FaultDisable(t) \/ FaultClose(t) \/ FaultUnconnect(t)
    \/ TerminalCallback(t) \/ TerminalDone(t) \/ TerminalFault(t)

ExecStep ==
    \/ Shared("exec")
    \/ ConnectLock \/ ConnectOpen \/ ConnectOpenFails \/ ConnectSample
    \/ ConnectConfigure \/ ConnectSeed \/ ConnectEnable \/ ConnectArm
    \/ ConnectRampCheck \/ ConnectRamp \/ ConnectDone
    \/ ConnectFail \/ ConnectFailClose
    \/ ClearLatch \/ ClearEstop \/ ClearCancel \/ ClearHealth
    \/ CaptureConnected \/ CaptureSample \/ CapturePublish
    \/ Submit \/ Release
    \/ CloseDisarm \/ CloseDisable \/ CloseJoin \/ CloseClose

WorkerStep ==
    \/ Shared("worker") \/ FaultFinish \/ FaultHealth
    \/ WorkerTop \/ WorkerArmed \/ WorkerEstop
    \/ ProcessPendingTake \/ ProcessPendingPlan \/ ProcessPendingInstall
    \/ UpdateReference \/ WorkerLock \/ WorkerExchange \/ WorkerCheck
    \/ WorkerFeedback \/ MonitorIdle \/ MonitorCancel \/ MonitorFault
    \/ MonitorIntervene \/ MonitorGrasp \/ MonitorTimeout \/ MonitorComplete
    \/ MonitorNextLeg \/ MonitorContinue
    \/ WorkerExit \/ WorkerDisable

Next ==
    \/ CallStarts \/ ExecStep \/ WorkerStep
    \/ \E m \in Motors : DriveTimeout(m)
    \/ Terminated

Spec == Init /\ [][Next]_vars

\* Both threads run; a mutex that is free again and again is obtained.  The
\* operators owe the system nothing.
FairSpec == Spec /\ SF_vars(ExecStep) /\ SF_vars(WorkerStep)

-----------------------------------------------------------------------------
(* Properties.                                                              *)

FlagsOK ==
    /\ closing \in BOOLEAN /\ open \in BOOLEAN /\ connected \in BOOLEAN
    /\ armed \in BOOLEAN /\ estop \in BOOLEAN /\ latched \in BOOLEAN
    /\ cancel \in BOOLEAN
    /\ gcal \in BOOLEAN /\ wasArmed \in BOOLEAN /\ unconf \in BOOLEAN

ThreadsOK ==
    /\ pc \in [Threads -> ExecLabels \cup WorkerLabels]
    /\ pc["exec"] \in ExecLabels /\ pc["worker"] \in WorkerLabels
    /\ io \in {"free"} \cup Threads
    /\ had \in [Threads -> BOOLEAN] /\ ok \in [Threads -> BOOLEAN]
    /\ cmd \in [Threads -> Cmds \cup {None}]
    /\ pc["exec"] \in {"submit", "release"} => cmd["exec"] \in Cmds
    /\ pc["worker"] \in {"w_plan", "w_install"} => cmd["worker"] \in Cmds
    /\ shut \in [Threads -> {"disconnect", "estop"}]
    /\ fret \in [Threads -> {"x_finish", "t_call", "t_fault"}]
    /\ tret \in [Threads -> {"s_health", "x_health", "w_top", "w_ref"}]
    /\ tret["exec"] = "s_health"
    /\ step \in 1..RampSteps

DataOK ==
    /\ pending \in Cmds \cup {None} /\ active \in Cmds \cup {None}
    /\ leg \in 1..Legs /\ age \in 0..SegmentCycles
    /\ owner \in Cmds \cup {None}
    /\ health \in AdapterStates /\ ref \in References
    /\ drive \in [Motors -> DriveStates]
    /\ sample \in [Motors -> Reports]
    /\ claim \in Claims
    /\ done \in [Cmds -> Nat]
    /\ accepted \subseteq Cmds /\ halted \subseteq Cmds

\* Every variable stays in its range, the ramp's step included.
TypeOK == FlagsOK /\ ThreadsOK /\ DataOK

\* No drive is left able to move behind closed sockets: once close_sockets()
\* has run, every drive has answered "disabled", unless the close that let it
\* go was reported as unconfirmed.  Connect, Disconnect, E-stop, a fault of the
\* worker and close() each close the sockets, in any interleaving.
ClosedMeansDisabled ==
    ~open => unconf \/ \A m \in Motors : drive[m] = "disabled"

\* After Disconnect or E-stop has answered, and until the next Connect opens
\* the sockets, nothing the worker still has under way arms the session or
\* finds a socket to write to.
ShutdownIsFinal ==
    claim # "none" => ~open /\ ~armed

\* A latched E-stop wins over a Connect it overlaps: with the latch set, no
\* call running and no shutdown left in the worker, the session is disarmed and
\* its sockets are closed, however late the worker acted on the latch.
Settling == ShutLabels \cup FaultLabels \cup TerminalLabels
LatchWins ==
    EstopSeen /\ pc["exec"] = "idle" /\ pc["worker"] \notin Settling
      => ~open /\ ~armed

\* A shutdown has the last word, against the worker's cycle and against a Connect.
ShutdownWins == ShutdownIsFinal /\ LatchWins

\* The health that terminal_command(), release(), set_health() and Connect
\* write from two threads never settles on "idle" while the session is
\* disarmed: an operator told "idle" has an enabled hold.
IdleIsArmed ==
    pc["exec"] = "idle" /\ pc["worker"] = "w_top" /\ health = "idle" => armed

\* A session that is armed without a motion holds a fixed pose, one that was
\* measured or reached (the comment in update_reference()), and never what is
\* left of a plan: whoever ended the motion, in whatever order Connect, the
\* worker and a shutdown wrote target_raw_.
HoldIsFixed == armed /\ active = None => ref \in {"seed", "endpoint", "hold"}

\* A cancel is never withdrawn from an armed session, though submit() and
\* clear_emergency_stop() reset cancel_requested_ on the executor while the
\* worker runs: once Stop, a cancelled goal or a refused feedback has set it, the
\* motion under way begins no further waypoint and no other command takes its
\* place.  It ends, and leaves a held pose in target_raw_ and not its plan.
CancelKept ==
    armed /\ active # None /\ cancel
      => \/ active' = active /\ cancel' /\ leg' = leg
         \/ active' = None /\ ref' = "hold"
         \/ active' = None /\ ref' = ref /\ ref # "plan"
CancelHolds == [][CancelKept]_vars

\* The owner of a goal sees one command at a time and one answer per command,
\* though the executor and the worker both take commands out of the session.
Contract == INSTANCE GoalContract
ImplementsContract == Contract!Spec

\* Every call returns: the executor is never left waiting, for the worker at
\* io_mutex_ or for the worker's exit in close().
CallReturns == pc["exec"] # "idle" ~> pc["exec"] \in {"idle", "dead"}

\* An accepted command is answered, as long as the session stays connected and
\* armed: a plan that makes no progress ends at its settle timeout.
CommandTerminates ==
    \A c \in Cmds : c \in accepted ~> done[c] > 0 \/ ~armed \/ ~connected

\* README.md: "Stop cancels motion and holds the newest measured pose".  A
\* command accepted before a Stop, Disconnect or E-stop answered does not move
\* the arm afterwards: if it is still active, its cancel is on its way before
\* the drives follow its plan.
HaltedStaysHalted == active \in halted /\ ref = "plan" => cancel

\* README.md: software reports "confirmed disabled" only when every motor
\* reports disabled.
ConfirmedMeansDisabled ==
    claim = "confirmed" => \A m \in Motors : drive[m] = "disabled"
=============================================================================
