------------------------------ MODULE CanProbe ------------------------------
(***************************************************************************)
(* oa_can_probe_expected over the in-memory diagnostics transport          *)
(* (can/src/openarm_can.c).                                                *)
(*                                                                         *)
(* A caller fills the receive queue with the frames the motors of a        *)
(* commissioned manifest send, sends frames of its own, and runs the       *)
(* probe.  A frame of the queue carries the time it arrives at; the clock  *)
(* moves with every send and receive.  The motors are external: each is    *)
(* disabled, enabled or faulty all along, and its frames say so.           *)
(***************************************************************************)
EXTENDS CanFrames, FiniteSets

CONSTANTS
    Expected,   \* the expected motors, in order: [send, receive, motor]
    Stranger,   \* a motor that is not in the manifest
    Capacity,   \* queue_capacity
    Budget,     \* options->max_receive_frames
    Timeout,    \* options->timeout_ns
    MaxTime     \* bound on the clock

\* There is a motor, and the identifiers are legal and distinct.
oa_can_validate_manifest(motors) ==
    /\ motors # <<>>
    /\ \A i \in DOMAIN motors : /\ {motors[i].send, motors[i].receive} \subseteq Identifier
                                /\ motors[i].motor \in 0 .. 15
    /\ \A i, j \in DOMAIN motors :
         \/ i = j
         \/ /\ motors[i].send # motors[j].send /\ motors[i].receive # motors[j].receive
            /\ motors[i].motor # motors[j].motor

ASSUME ProbeConstants ==
    /\ Expected \in Seq([send : Nat, receive : Nat, motor : Nat])
    /\ oa_can_validate_manifest(Expected)
    /\ \A i \in DOMAIN Expected : Stranger.receive # Expected[i].receive
    /\ {Capacity, Budget, Timeout, MaxTime} \subseteq Nat \ {0}

VARIABLES
    power,      \* what each motor really is: the status nibble it reports
    queue,      \* fake->queue: [frame, at]
    busNow,        \* fake->now_ns
    lifecycle,  \* fake->lifecycle
    rejected,   \* history: the fake has refused a control frame
    at,         \* where the probe is
    epochs,     \* request_epochs
    deadline,   \* out_report->deadline_monotonic_ns
    masks,      \* the fresh, enabled, fault and duplicate masks
    counts,     \* the received, stale and unexpected or invalid frames
    seen,       \* history: the frames the probe has received
    verdict     \* what the probe returned

probeVars == <<power, queue, busNow, lifecycle, rejected, at, epochs, deadline, masks, counts,
               seen, verdict>>
fakeVars == <<queue, busNow, lifecycle, rejected>>

Motors == DOMAIN Expected
ProbeTimes == 1 .. MaxTime
Lifecycles == {"DISABLED", "PROBING", "PROBED", "FAULT"}
NoMasks == [fresh |-> {}, enabled |-> {}, fault |-> {}, duplicate |-> {}]
NoCounts == [received |-> 0, stale |-> 0]

ProbeTypeOK ==
    /\ power \in [Motors -> {0, 1, 14}]
    /\ Len(queue) <= Capacity /\ busNow \in 0 .. MaxTime + Timeout /\ lifecycle \in Lifecycles
    /\ at \in {"idle", "send", "now", "receive", "verdict"}
    /\ DOMAIN epochs \subseteq Motors /\ deadline \in 0 .. MaxTime + Timeout
    /\ masks \in [fresh : SUBSET Motors, enabled : SUBSET Motors, fault : SUBSET Motors,
                  duplicate : SUBSET Motors]
    /\ counts.received \in 0 .. Budget /\ counts.stale \in 0 .. Budget
    /\ verdict \in {"none", "OK", "ESTATE", "EFAULT", "ETIMEOUT"}

\* oa_can_fake_create.
ProbeInit ==
    /\ power \in [Motors -> {0, 1, 14}]
    /\ queue = <<>> /\ busNow = 0 /\ lifecycle = "DISABLED" /\ rejected = FALSE
    /\ at = "idle" /\ epochs = <<>> /\ deadline = 0
    /\ masks = NoMasks /\ counts = NoCounts /\ seen = {} /\ verdict = "none"

-----------------------------------------------------------------------------
(* The motors' frames (external).                                          *)

\* A motor's feedback.
StatusFrame(m, status) ==
    [id |-> m.receive, clean |-> TRUE, data |-> <<status * 16 + m.motor, 128, 0, 128, 8, 0, 30, 30>>]

\* What may arrive from motor i.
Arrivals(i) == {StatusFrame(Expected[i], power[i]), StatusFrame(Stranger, 0),
                [StatusFrame(Expected[i], power[i]) EXCEPT !.clean = FALSE]}

\* oa_can_fake_enqueue_feedback, before the probe runs and in order of arrival.
enqueue_feedback(f, t) ==
    /\ at = "idle" /\ verdict = "none" /\ Len(queue) < Capacity
    /\ \A i \in DOMAIN queue : queue[i].at <= t
    /\ queue' = Append(queue, [frame |-> f, at |-> t])
    /\ UNCHANGED <<power, busNow, lifecycle, rejected, at, epochs, deadline, masks, counts, seen,
                   verdict>>

-----------------------------------------------------------------------------
(* The in-memory transport.                                                *)

\* oa_frame_is_diagnostic and oa_frame_is_special.
oa_frame_is_diagnostic(f) ==
    /\ f.id = DiagnosticId
    /\ f.data[1] + 256 * f.data[2] \in Identifier
    /\ \/ f.data[3] = REFRESH /\ \A i \in 4 .. 8 : f.data[i] = 0
       \/ f.data[3] = QUERY /\ \A i \in 5 .. 8 : f.data[i] = 0
oa_frame_is_special(f, last) == f.data = [i \in 1 .. 8 |-> IF i = 8 THEN last ELSE 255]

\* oa_fake_send of a frame.
oa_fake_send(f) ==
    /\ busNow < MaxTime
    /\ busNow' = busNow + 1
    /\ lifecycle' = IF lifecycle = "FAULT" THEN "FAULT"
                    ELSE IF oa_frame_is_diagnostic(f)
                         THEN IF f.data[3] = REFRESH THEN "PROBING" ELSE lifecycle
                    ELSE IF oa_frame_is_special(f, DISABLE) THEN "DISABLED" ELSE "FAULT"
    /\ rejected' = (rejected \/ ~(oa_frame_is_diagnostic(f) \/ oa_frame_is_special(f, DISABLE)))
    /\ UNCHANGED queue

\* oa_fake_receive: the head of the queue, or the deadline.
Late == IF queue = <<>> THEN TRUE ELSE Head(queue).at > deadline
MaxOf(a, b) == IF a < b THEN b ELSE a
oa_fake_timeout ==
    /\ Late
    /\ lifecycle' = IF queue = <<>> /\ lifecycle = "PROBING" THEN "PROBED" ELSE lifecycle
    /\ busNow' = MaxOf(busNow, deadline)
    /\ UNCHANGED <<queue, rejected>>
oa_fake_receive ==
    /\ ~Late
    /\ queue' = Tail(queue)
    /\ lifecycle' = IF Tail(queue) = <<>> /\ lifecycle = "PROBING" THEN "PROBED" ELSE lifecycle
    /\ busNow' = MaxOf(busNow, Head(queue).at)
    /\ UNCHANGED rejected

\* With nothing queued, the caller sends a frame of its own: a special frame, a motion frame, a register
\* query or write, a flash save (oa_can_make_save_parameters).
CallerFrames(m) ==
    {Special(m, last) : last \in {ENABLE, DISABLE, SETZERO, CLEAR}}
    \cup {RegisterFrame(DiagnosticId, m.send, CTRL_MODE, op, U32Bytes(n)) :
            op \in {QUERY, WRITE, SAVE}, n \in {0, 1}}
    \cup {[id |-> m.send, clean |-> TRUE, data |-> <<127, 255, 127, 240, 0, 0, 7, 255>>]}
caller_sends(i) ==
    /\ at = "idle" /\ queue = <<>>
    /\ \E f \in CallerFrames(Expected[i]) : oa_fake_send(f)
    /\ UNCHANGED <<power, at, epochs, deadline, masks, counts, seen, verdict>>

\* oa_can_fake_set_time.
set_time ==
    /\ at = "idle" /\ queue = <<>> /\ busNow < MaxTime
    /\ busNow' = busNow + 1
    /\ UNCHANGED <<power, queue, lifecycle, rejected, at, epochs, deadline, masks, counts, seen,
                   verdict>>

-----------------------------------------------------------------------------
(* oa_can_probe_expected.                                                  *)

probe_begin ==
    /\ at = "idle"
    /\ at' = "send"
    /\ epochs' = <<>> /\ masks' = NoMasks /\ counts' = NoCounts /\ seen' = {}
    /\ verdict' = "none"
    /\ UNCHANGED <<power, fakeVars, deadline>>

\* A refresh frame to each motor, with the time it left.
probe_send ==
    /\ at = "send"
    /\ LET i == Len(epochs) + 1 IN
       /\ oa_fake_send(RefreshFrame(Expected[i].send))
       /\ epochs' = Append(epochs, busNow')
       /\ at' = IF i = Len(Expected) THEN "now" ELSE "send"
    /\ UNCHANGED <<power, deadline, masks, counts, seen, verdict>>

probe_now ==
    /\ at = "now"
    /\ deadline' = busNow + Timeout
    /\ at' = "receive"
    /\ UNCHANGED <<power, fakeVars, epochs, masks, counts, seen, verdict>>

\* What the probe makes of a frame received at time t.
From(f) == {i \in Motors : Expected[i].receive = f.id}
Decoded(f, i) == oa_decode_feedback(f, Expected[i].receive, Expected[i].motor)
\* A probe that takes frames older than its request.
ClassUnaged(f, t) ==
    IF From(f) = {} THEN "unexpected"
    ELSE LET i == CHOOSE i \in From(f) : TRUE IN
         IF Decoded(f, i) \notin {"OK", "EFAULT"} THEN "invalid"
         ELSE IF Shr(f.data[1], 4) = 1 THEN "enabled"
         ELSE IF Decoded(f, i) = "EFAULT" THEN "fault"
         ELSE "disabled"

Class(f, t) ==
    IF From(f) = {} THEN "unexpected"
    ELSE LET i == CHOOSE i \in From(f) : TRUE IN
         IF t <= epochs[i] THEN "stale"
         ELSE IF Decoded(f, i) \notin {"OK", "EFAULT"} THEN "invalid"
         ELSE IF Shr(f.data[1], 4) = 1 THEN "enabled"
         ELSE IF Decoded(f, i) = "EFAULT" THEN "fault"
         ELSE "disabled"

probe_receive ==
    /\ at = "receive" /\ counts.received < Budget
    /\ oa_fake_receive
    /\ LET f == Head(queue).frame
           c == Class(f, Head(queue).at)
       IN /\ masks' =
               [fresh |-> masks.fresh \cup (IF c = "disabled" THEN From(f) ELSE {}),
                enabled |-> masks.enabled \cup (IF c = "enabled" THEN From(f) ELSE {}),
                fault |-> masks.fault \cup (IF c = "fault" THEN From(f) ELSE {}),
                duplicate |-> masks.duplicate \cup
                    (IF c = "disabled" THEN From(f) \cap masks.fresh ELSE {})]
          /\ counts' = [received |-> counts.received + 1,
                        stale |-> counts.stale + (IF c = "stale" THEN 1 ELSE 0)]
          /\ seen' = seen \cup {[n |-> counts.received + 1, frame |-> f, at |-> Head(queue).at]}
    /\ UNCHANGED <<power, at, epochs, deadline, verdict>>

\* The receive loop ends at the deadline or at the budget.
probe_timeout ==
    /\ at = "receive" /\ counts.received < Budget
    /\ oa_fake_timeout
    /\ at' = "verdict"
    /\ UNCHANGED <<power, epochs, deadline, masks, counts, seen, verdict>>
probe_budget ==
    /\ at = "receive" /\ counts.received = Budget
    /\ at' = "verdict"
    /\ UNCHANGED <<power, fakeVars, epochs, deadline, masks, counts, seen, verdict>>

probe_verdict ==
    /\ at = "verdict"
    /\ verdict' = IF masks.enabled # {} THEN "ESTATE"
                  ELSE IF masks.fault # {} \/ masks.duplicate # {} THEN "EFAULT"
                  ELSE IF \/ counts.received = Budget
                          \/ masks.fresh # Motors
                          \/ counts.stale # 0 THEN "ETIMEOUT"
                  ELSE "OK"
    /\ at' = "idle"
    /\ UNCHANGED <<power, fakeVars, epochs, deadline, masks, counts, seen>>

Probe == \/ probe_begin \/ probe_send \/ probe_now \/ probe_receive \/ probe_timeout
         \/ probe_budget \/ probe_verdict

ProbeNext ==
    \/ Probe
    \/ \E i \in Motors : caller_sends(i)
    \/ \E i \in Motors, t \in ProbeTimes : \E f \in Arrivals(i) : enqueue_feedback(f, t)
    \/ set_time

ProbeSpec == ProbeInit /\ [][ProbeNext]_probeVars

-----------------------------------------------------------------------------
(* Properties.                                                             *)

\* A probe that returns OK has heard every motor of the manifest once, after its own
\* request and before the deadline, and every motor is disabled: no order of stale,
\* damaged, foreign or repeated frames, and no receive budget, lets another one pass
\* (the masks, counters and verdict of oa_can_probe_expected).
ProbeOkIsDisabled ==
    verdict = "OK" =>
        \A i \in Motors :
            /\ power[i] = 0
            /\ \E s \in seen :
                 /\ s.frame = StatusFrame(Expected[i], 0)
                 /\ s.at > epochs[i] /\ s.at <= deadline
                 /\ \A r \in seen \ {s} :
                      r.frame.id = Expected[i].receive => ~r.frame.clean

\* Once the transport has refused a control frame its lifecycle is FAULT for good, and
\* no probe, disable or late answer makes it look usable again (oa_fake_send,
\* oa_fake_receive).
RejectionSticks == rejected <=> lifecycle = "FAULT"

\* The probe and its transport are honest about the motors (oa_can_probe_expected,
\* oa_fake_send).
ProbeIsHonest == ProbeOkIsDisabled /\ RejectionSticks
=============================================================================
