------------------------------ MODULE CanCodec ------------------------------
(***************************************************************************)
(* The CAN frame codec (can/src/openarm_can.c) between a host and the      *)
(* motors of one bus.                                                      *)
(*                                                                         *)
(* The host reads the three span registers of a motor, builds the verified *)
(* profile from the answers, and from then on scales its set-points and    *)
(* the motor's feedback with that profile.  Answers stay on the bus until  *)
(* they are overwritten, so one may be late, or taken twice.  A set-point  *)
(* goes out on a drained bus.  The motors' side is external.               *)
(***************************************************************************)
EXTENDS CanFrames, FiniteSets

CONSTANTS
    Device,     \* the motors: [send, receive, pmax, vmax, tmax]
    Setpoint,   \* the set-points asked for: [p, v, kp, kd, t]
    Grip,       \* gripper requests: [opening, speed, torque]
    Hand,       \* gripper calibrations: [closed, open, maximum]
    BusRoom     \* bound on the answers waiting on the bus

ASSUME CodecConstants ==
    /\ \A d \in Device :
         /\ {d.send, d.receive} \subseteq Identifier
         /\ {d.pmax, d.vmax, d.tmax} \subseteq 1 .. 2 ^ 24 - 1     \* exact in a binary32
    /\ \A d, e \in Device : d = e \/ (d.send # e.send /\ d.receive # e.receive)
    /\ Setpoint \subseteq [p: Int, v: Int, kp: Int, kd: Int, t: Int]
    /\ Grip \subseteq [opening: Int, speed: Int, torque: Int]
    /\ Hand \subseteq [closed: Int, open: Int, maximum: Nat \ {0}]
    /\ \A h \in Hand : h.closed # h.open
    /\ BusRoom \in Nat \ {0}

VARIABLES
    bus,      \* frames the host can still receive
    asked,    \* the register request the host waits on: {} or {request}
    reads,    \* the register values the host has decoded
    profiles, \* the verified profiles the host has built
    order,    \* the set-point on its way: {} or {[device, point]}
    got,      \* what the host decoded for it: {} or {feedback}
    squeeze   \* a gripper request with its frame: {} or {record}

codecVars == <<bus, asked, reads, profiles, order, got, squeeze>>

-----------------------------------------------------------------------------
(* The motors (external): a motor answers a register frame with its value  *)
(* and a motion frame with the state the frame asks for.                   *)

Register(d, rid) ==
    IF rid = PMAX THEN F32Bytes(d.pmax)
    ELSE IF rid = VMAX THEN F32Bytes(d.vmax)
    ELSE IF rid = TMAX THEN F32Bytes(d.tmax)
    ELSE U32Bytes(1)

MotorAnswer(d, f) ==
    RegisterFrame(d.receive, d.send, f.data[4], f.data[3],
                  IF f.data[3] = WRITE THEN SubSeq(f.data, 5, 8) ELSE Register(d, f.data[4]))

\* The raw fields of a motion frame, sent back as the motor's state.
Echo(d, f, status) ==
    [id |-> d.receive, clean |-> TRUE,
     data |-> <<status * 16 + Low(d.send, 4), f.data[1], f.data[2], f.data[3],
                Shr(f.data[4], 4) * 16 + Low(f.data[7], 4), f.data[8], 30, 30>>]

Damaged(f) == [f EXCEPT !.clean = FALSE]

-----------------------------------------------------------------------------
CodecTypeOK ==
    /\ bus \subseteq [id: Identifier, clean: BOOLEAN, data: [1 .. 8 -> Byte]]
    /\ Cardinality(bus) <= BusRoom /\ Cardinality(asked) <= 1
    /\ \A q \in asked : ValidRequest(q) /\ q.op \in {QUERY, WRITE}
    /\ Cardinality(order) <= 1 /\ Cardinality(got) <= 1

CodecInit ==
    /\ bus = {} /\ asked = {} /\ reads = {} /\ profiles = {}
    /\ order = {} /\ got = {} /\ squeeze = {}

\* The bus takes a new frame; the oldest may be forgotten to make room.
Deliver(f) ==
    \/ Cardinality(bus \cup {f}) <= BusRoom /\ bus' = bus \cup {f}
    \/ \E old \in bus : bus' = (bus \ {old}) \cup {f}

\* The host asks a motor for a register; what it waited on before is given up.
query_register(d, rid) ==
    LET q == Request(d, rid, QUERY)
        f == RegisterFrame(DiagnosticId, d.send, rid, QUERY, <<0, 0, 0, 0>>)
    IN /\ ValidRequest(q) /\ order = {}
       /\ asked' = {q}
       /\ \/ Deliver(MotorAnswer(d, f))
          \/ Deliver(Damaged(MotorAnswer(d, f)))
          \/ UNCHANGED bus
       /\ squeeze' = {}
       /\ UNCHANGED <<reads, profiles, order, got>>

\* The host writes a register; the motor echoes the write.
write_register(d, rid, bytes) ==
    LET q == Request(d, rid, WRITE)
        f == RegisterFrame(DiagnosticId, d.send, rid, WRITE, bytes)
    IN /\ ValidRequest(q) /\ ValidWrite(rid, bytes) /\ order = {}
       /\ asked' = {q}
       /\ Deliver(MotorAnswer(d, f))
       /\ squeeze' = {}
       /\ UNCHANGED <<reads, profiles, order, got>>

\* The host decodes a frame of the bus against its request; a frame it refuses is
\* dropped and the wait goes on.
read_register(f) ==
    /\ \E q \in asked :
         LET status == oa_can_decode_register_response(f, q) IN
         \/ /\ status = "OK"
            /\ reads' = IF q.op = QUERY /\ ~IsU32(q.rid) THEN reads \cup {Value(f, q)}
                                                         ELSE reads
            /\ asked' = {}
            /\ bus' \in {bus, bus \ {f}}
         \/ /\ status # "OK"
            /\ bus' = bus \ {f}
            /\ UNCHANGED <<reads, asked>>
    /\ squeeze' = {}
    /\ UNCHANGED <<profiles, order, got>>

\* A profile from registers of whichever motors answered.
profile_from_any_registers(p, v, t) ==
    /\ p.rid = PMAX /\ v.rid = VMAX /\ t.rid = TMAX
    /\ profiles' = profiles \cup {[send |-> p.send, receive |-> p.receive, pmax |-> p.units,
                                   vmax |-> v.units, tmax |-> t.units]}
    /\ squeeze' = {}
    /\ UNCHANGED <<bus, asked, reads, order, got>>

\* oa_can_mit_profile_from_registers: three query results of one motor.
oa_can_mit_profile_from_registers(p, v, t) ==
    /\ p.rid = PMAX /\ v.rid = VMAX /\ t.rid = TMAX
    /\ p.receive = v.receive /\ p.receive = t.receive
    /\ p.send = v.send /\ p.send = t.send
    /\ profiles' = profiles \cup {[send |-> p.send, receive |-> p.receive, pmax |-> p.units,
                                   vmax |-> v.units, tmax |-> t.units]}
    /\ squeeze' = {}
    /\ UNCHANGED <<bus, asked, reads, order, got>>

\* oa_can_encode_mit_profile to a motor, which answers with its new state, a fault
\* or a status the codec does not know.
encode_mit_profile(d, p, s) ==
    /\ bus = {} /\ asked = {}
    /\ p.send = d.send /\ InSpan(s, p)
    /\ order' = {[device |-> d.send, point |-> s, profile |-> p]} /\ got' = {}
    /\ \E status \in {1, 14, 15} : Deliver(Echo(d, oa_encode_mit_values(s, p), status))
    /\ squeeze' = {}
    /\ UNCHANGED <<asked, reads, profiles>>

\* The host decodes a frame as a motor's feedback.
decode_feedback(f, p) ==
    /\ oa_can_decode_feedback_profile(f, p) \in {"OK", "EFAULT"}
    /\ got' = {Feedback(f, p)}
    /\ bus' = bus \ {f}
    /\ squeeze' = {}
    /\ UNCHANGED <<asked, reads, profiles, order>>

\* A frame is lost, or drained unread.
bus_drops(f) ==
    /\ bus' = bus \ {f}
    /\ squeeze' = {}
    /\ UNCHANGED <<asked, reads, profiles, order, got>>

\* oa_can_encode_gripper_move, _open and _close, between exchanges.
encode_gripper(g, h, p) ==
    /\ bus = {} /\ asked = {} /\ order = {} /\ squeeze = {}
    /\ GripperFits(g, h, p)
    /\ squeeze' = {[grip |-> g, hand |-> h, tmax |-> p.tmax,
                    frame |-> oa_can_encode_pos_force(g, h, p)]}
    /\ UNCHANGED <<bus, asked, reads, profiles, order, got>>

CodecNext ==
    \/ \E d \in Device, rid \in {PMAX, VMAX, TMAX} : query_register(d, rid)
    \/ \E d \in Device : write_register(d, CTRL_MODE, U32Bytes(1))
    \/ \E f \in bus : read_register(f) \/ bus_drops(f)
    \/ \E p, v, t \in reads : oa_can_mit_profile_from_registers(p, v, t)
    \/ \E d \in Device, p \in profiles, s \in Setpoint : encode_mit_profile(d, p, s)
    \/ \E f \in bus, p \in profiles : order # {} /\ decode_feedback(f, p)
    \/ \E p \in profiles, g \in Grip, h \in Hand : encode_gripper(g, h, p)

CodecSpec == CodecInit /\ [][CodecNext]_codecVars

-----------------------------------------------------------------------------
(* Properties.                                                             *)

\* A verified profile holds the spans of the motor it names, however the answers of
\* the motors were delayed, repeated or damaged on the bus
\* (oa_can_decode_register_response, oa_can_mit_profile_from_registers).
ProfileIsTheMotors ==
    \A p \in profiles : \E d \in Device :
        d.send = p.send /\ d.receive = p.receive
        /\ d.pmax = p.pmax /\ d.vmax = p.vmax /\ d.tmax = p.tmax

\* A set-point that goes through oa_encode_mit_values, the motor and
\* oa_decode_feedback_ranges comes back as itself, short of one quantum at most in
\* each field: no field leaks into the bits of its neighbour.
Within(value, numerator, span, bits) ==
    LET short == value * (2 ^ bits - 1) - numerator IN 0 <= short /\ short < 2 * span
SetPointSurvives ==
    \A o \in order, g \in got : g.device = o.device =>
        /\ Within(o.point.p, g.p, o.profile.pmax, 16)
        /\ Within(o.point.v, g.v, o.profile.vmax, 12)
        /\ Within(o.point.t, g.t, o.profile.tmax, 12)

\* A gripper frame never asks for more than the request: the motor position lies
\* between the calibrated ends whatever the sign of the travel and is that of the
\* opening, and speed and current are rounded down into their 16 bits
\* (oa_can_encode_gripper_move, oa_can_encode_pos_force).
GripperNeverExceeds ==
    \A q \in squeeze :
        LET g == q.grip  h == q.hand  f == q.frame IN
        /\ oa_can_gripper_opening(h, f.position) = g.opening
        /\ f.speed * 8 * h.maximum <= g.speed * Span(h) * 100
        /\ f.current * q.tmax <= g.torque * 10000
        /\ f.speed \in 0 .. 2 ^ 16 - 1 /\ f.current \in 0 .. 2 ^ 16 - 1
        /\ f.id \in Identifier

\* What the codec encodes and decodes is what was meant: spans, set-points and
\* gripper requests.
CodecIsExact == ProfileIsTheMotors /\ SetPointSurvives /\ GripperNeverExceeds
=============================================================================
