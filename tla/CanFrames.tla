----------------------------- MODULE CanFrames -----------------------------
(***************************************************************************)
(* The frames of the CAN codec (can/src/openarm_can.c) as operators.       *)
(*                                                                         *)
(* A physical quantity is an integer count of the unit 2^-3 and a decoded  *)
(* one an exact numerator, so the arithmetic has no rounding but the       *)
(* codec's own truncation.  Bytes, nibbles and identifiers are the real    *)
(* ones; a binary32 is its four bytes.  A frame is clean when it is a      *)
(* standard data frame of eight bytes.  The record headers (struct_size,   *)
(* abi_version) are always right here.                                     *)
(***************************************************************************)
EXTENDS Integers, Sequences

Identifier == 1 .. 2 ^ 11 - 1             \* oa_valid_standard_id
DiagnosticId == 2047
Byte == 0 .. 255
Shr(x, n) == x \div (2 ^ n)
Low(x, n) == x % (2 ^ n)
AbsOf(x) == IF x < 0 THEN -x ELSE x

-----------------------------------------------------------------------------
(* Conversions.                                                            *)

\* oa_to_uint and the product of oa_from_uint with its maximum.
oa_to_uint(value, lower, upper, bits) ==
    ((value - lower) * (2 ^ bits - 1)) \div (upper - lower)
oa_from_uint(raw, lower, upper, bits) ==
    raw * (upper - lower) + lower * (2 ^ bits - 1)

\* The binary32 of a count of units, as the bytes oa_write_u32_le stores.
F32Bytes(v) ==
    IF v = 0 THEN <<0, 0, 0, 0>>
    ELSE LET a == AbsOf(v)
             e == CHOOSE k \in 0 .. 23 : 2 ^ k <= a /\ a < 2 ^ (k + 1)
             x == 124 + e
             m == (a - 2 ^ e) * (2 ^ (23 - e))
         IN <<Low(m, 8), Low(Shr(m, 8), 8), Low(x, 1) * 128 + Shr(m, 16),
              (IF v < 0 THEN 128 ELSE 0) + Shr(x, 1)>>

\* The bytes' exponent is all ones: an infinity or a NaN.
NotFinite(b) == Low(b[4], 7) = 127 /\ b[3] >= 128

\* The count of units a binary32 is, for the finite values the motors hold.
F32Units(b) ==
    LET x == Low(b[4], 7) * 2 + Shr(b[3], 7)
        m == Low(b[3], 7) * 65536 + b[2] * 256 + b[1]
        a == IF x = 0 THEN 0 ELSE (2 ^ 23 + m) \div (2 ^ (23 - (x - 124)))
    IN IF b[4] >= 128 THEN -a ELSE a

\* The low half of a small unsigned register; the high half is zero.
U32Bytes(n) == <<Low(n, 8), Low(Shr(n, 8), 8), 0, 0>>
U32Value(b) == b[1] + 256 * b[2] + 65536 * b[3]

-----------------------------------------------------------------------------
(* Registers.                                                              *)

MST_ID == 7
ESC_ID == 8
CTRL_MODE == 10
PMAX == 21
VMAX == 22
TMAX == 23
CAN_BR == 35
SUB_VER == 36

\* oa_register_metadata.
Known(rid) == rid \in 0 .. SUB_VER \cup 50 .. 55 \cup 80 .. 81
IsU32(rid) == rid \in MST_ID .. CTRL_MODE \cup 13 .. 16 \cup {CAN_BR, SUB_VER}
Writable(rid) == rid \in 0 .. CTRL_MODE \cup PMAX .. CAN_BR

\* oa_validate_register_u32.
oa_validate_register_u32(rid, n) ==
    IF \/ rid \in {MST_ID, ESC_ID} /\ n > 2047
       \/ rid = CTRL_MODE /\ n \notin 1 .. 4
       \/ rid = CAN_BR /\ n > 9
    THEN "ERANGE" ELSE "OK"

\* oa_validate_register_f32; a unit is 2^-3.
oa_validate_register_f32(rid, b) ==
    LET v == F32Units(b) IN
    IF NotFinite(b) THEN "EINVAL"
    ELSE IF \/ rid = 0 /\ v <= 80
            \/ rid \in {1} \cup 25 .. 28 /\ v < 0
            \/ rid = 2 /\ v \notin 640 .. 1599
            \/ rid = 3 /\ v \notin 1 .. 7
            \/ rid \in {4, 6, PMAX, VMAX, TMAX} /\ v <= 0
            \/ rid = 5 /\ v >= 0
            \/ rid \in {24, 33} /\ v \notin 800 .. 80000
            \/ rid = 30 /\ v \notin 1 .. 8
            \/ rid = 31 /\ v \notin 8 .. 240
            \/ rid = 32 /\ v \notin 1 .. 3999
            \/ rid = 34 /\ v \notin 1 .. 80000
         THEN "ERANGE" ELSE "OK"

QUERY == 51      \* 0x33
WRITE == 85      \* 0x55

\* A register request and the frame that makes it (oa_can_make_register_query_typed,
\* oa_can_make_register_write).
Request(d, rid, op) == [send |-> d.send, receive |-> d.receive, rid |-> rid, op |-> op]
RegisterFrame(id, send, rid, op, bytes) ==
    [id |-> id, clean |-> TRUE, data |-> <<Low(send, 8), Shr(send, 8), op, rid>> \o bytes]
ValidRequest(q) == {q.send, q.receive} \subseteq Identifier /\ Known(q.rid)
ValidWrite(rid, bytes) ==
    /\ Known(rid) /\ Writable(rid)
    /\ IF IsU32(rid) THEN oa_validate_register_u32(rid, U32Value(bytes)) = "OK"
                     ELSE oa_validate_register_f32(rid, bytes) = "OK"

\* oa_can_decode_register_response: the status, and the value when it is OK.
oa_can_decode_register_response(f, q) ==
    LET bytes == SubSeq(f.data, 5, 8)
        valid == IF IsU32(q.rid) THEN oa_validate_register_u32(q.rid, U32Value(bytes))
                                 ELSE oa_validate_register_f32(q.rid, bytes)
    IN IF ~f.clean THEN "EFRAME"
       ELSE IF f.id # q.receive \/ f.data[1] + 256 * f.data[2] # q.send THEN "EID"
       ELSE IF f.data[3] # q.op \/ f.data[4] # q.rid THEN "EFRAME"
       ELSE valid

Value(f, q) == [send |-> q.send, receive |-> q.receive, rid |-> q.rid, op |-> q.op,
                units |-> F32Units(SubSeq(f.data, 5, 8))]

-----------------------------------------------------------------------------
(* Motion frames.                                                          *)

\* oa_limit_value under OA_CAN_RANGE_REJECT, for every field of oa_encode_mit_values.
InSpan(s, p) ==
    /\ AbsOf(s.p) <= p.pmax /\ AbsOf(s.v) <= p.vmax /\ AbsOf(s.t) <= p.tmax
    /\ s.kp \in 0 .. 4000 /\ s.kd \in 0 .. 40

\* oa_encode_mit_values: 16 bits of position, 12 of each of the others.
oa_encode_mit_values(s, p) ==
    LET pos == oa_to_uint(s.p, -p.pmax, p.pmax, 16)
        vel == oa_to_uint(s.v, -p.vmax, p.vmax, 12)
        kp == oa_to_uint(s.kp, 0, 4000, 12)
        kd == oa_to_uint(s.kd, 0, 40, 12)
        tor == oa_to_uint(s.t, -p.tmax, p.tmax, 12)
    IN [id |-> p.send, clean |-> TRUE,
        data |-> <<Shr(pos, 8), Low(pos, 8), Shr(vel, 4), Low(vel, 4) * 16 + Shr(kp, 8),
                   Low(kp, 8), Shr(kd, 4), Low(kd, 4) * 16 + Shr(tor, 8), Low(tor, 8)>>]

\* oa_known_feedback_status: disabled, enabled, and the faults.
Healthy == {0, 1}
KnownStatus == Healthy \cup 8 .. 14

\* oa_decode_feedback_ranges: the status, and the values when it is OK or EFAULT.
oa_decode_feedback(f, receive, motor) ==
    IF ~f.clean THEN "EFRAME"
    ELSE IF f.id # receive \/ Low(f.data[1], 4) # motor THEN "EID"
    ELSE IF Shr(f.data[1], 4) \notin KnownStatus THEN "EFRAME"
    ELSE IF Shr(f.data[1], 4) \in Healthy THEN "OK" ELSE "EFAULT"

\* oa_can_decode_feedback_profile.
oa_can_decode_feedback_profile(f, p) == oa_decode_feedback(f, p.receive, Low(p.send, 4))

Feedback(f, p) ==
    [device |-> p.send,
     p |-> oa_from_uint(f.data[2] * 256 + f.data[3], -p.pmax, p.pmax, 16),
     v |-> oa_from_uint(f.data[4] * 16 + Shr(f.data[5], 4), -p.vmax, p.vmax, 12),
     t |-> oa_from_uint(Low(f.data[5], 4) * 256 + f.data[6], -p.tmax, p.tmax, 12)]

\* oa_make_special: enable, disable, set zero, clear error.
ENABLE == 252
DISABLE == 253
SETZERO == 254
CLEAR == 251
Special(m, last) ==
    [id |-> m.send, clean |-> TRUE, data |-> [i \in 1 .. 8 |-> IF i = 8 THEN last ELSE 255]]

\* oa_can_make_refresh_status and oa_can_make_save_parameters.
REFRESH == 204
SAVE == 170
RefreshFrame(send) ==
    [id |-> DiagnosticId, clean |-> TRUE,
     data |-> <<Low(send, 8), Shr(send, 8), REFRESH, 0, 0, 0, 0, 0>>]

\* oa_can_gripper_motor_position, as a numerator over the calibration's maximum.
oa_can_gripper_motor_position(h, opening) ==
    h.closed * h.maximum + opening * (h.open - h.closed)

\* oa_can_encode_gripper_move and oa_can_encode_pos_force: refused, or the position,
\* the speed in hundredths and the current in ten-thousandths, both truncated.
Span(h) == AbsOf(h.open - h.closed)
GripperFits(g, h, p) ==
    /\ p.send <= 1279                                   \* 0x4ff
    /\ g.speed >= 0 /\ g.torque > 0 /\ g.torque <= p.tmax
    /\ g.opening >= 0 /\ g.opening <= h.maximum
    /\ g.speed * Span(h) <= p.vmax * h.maximum
    /\ g.speed * Span(h) <= 800 * h.maximum
    /\ AbsOf(oa_can_gripper_motor_position(h, g.opening)) <= p.pmax * h.maximum

oa_can_encode_pos_force(g, h, p) ==
    [id |-> p.send + 768,                               \* 0x300
     position |-> oa_can_gripper_motor_position(h, g.opening),
     speed |-> (g.speed * Span(h) * 100) \div (8 * h.maximum),
     current |-> (g.torque * 10000) \div p.tmax]

\* oa_can_gripper_opening of a motor position, over the calibration's maximum.
oa_can_gripper_opening(h, numerator) ==
    LET along == IF h.open > h.closed THEN 1 ELSE -1 IN
    (along * (numerator - h.closed * h.maximum)) \div (along * (h.open - h.closed))

=============================================================================
