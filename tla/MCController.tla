---------------------------- MODULE MCController ----------------------------
(* The instances of Controller that TLC checks.                             *)
EXTENDS Controller, TLC

Clear == [drop |-> FALSE, fail |-> FALSE, fault |-> FALSE, delay |-> 0]
Drop == [Clear EXCEPT !.drop = TRUE]
Fail == [Clear EXCEPT !.fail = TRUE]
Fault == [Clear EXCEPT !.fault = TRUE]
Late == [Clear EXCEPT !.delay = 1]
TooLate == [Clear EXCEPT !.delay = 2]

NoInjections == {}
LateInjections == {TooLate}
DeliveryInjections == {Clear, Drop, Fail, Fault, Late}
Symmetry == Permutations(Sides)
=============================================================================
