---------------------------- MODULE MotionPermit ----------------------------
(***************************************************************************)
(* Who may move the arms.  The drives get power only by an explicit arming, *)
(* a command moves them only out of the armed state, and a command that a   *)
(* watchdog ends may leave them powered on a hold, from which there is no   *)
(* way back to motion except through power off and a new arming.            *)
(***************************************************************************)
VARIABLE permit

Permits == {"off", "ready", "moving", "held"}

Init == permit = "off"

Grant == permit = "off" /\ permit' = "ready"
Start == permit = "ready" /\ permit' = "moving"
Finish == permit = "moving" /\ permit' = "ready"
Hold == permit = "moving" /\ permit' = "held"
Withdraw == permit # "off" /\ permit' = "off"

Next == Grant \/ Start \/ Finish \/ Hold \/ Withdraw
Spec == Init /\ [][Next]_permit
=============================================================================
