---------------------------- MODULE GoalContract ----------------------------
(***************************************************************************)
(* What a control session promises the owner of a goal, whatever its       *)
(* threads, its drives and the operators do: it serves one command at a    *)
(* time, and it calls a command's terminal callback at most once.          *)
(***************************************************************************)
EXTENDS Naturals

CONSTANT Cmds

VARIABLES
    accepted,   \* commands the session has accepted
    done        \* how often each command's terminal callback has run

Init == accepted = {} /\ done = [c \in Cmds |-> 0]

\* A command is accepted only when every earlier one has been answered.
Accept(c) ==
    /\ c \notin accepted
    /\ \A d \in accepted : done[d] = 1
    /\ accepted' = accepted \cup {c}
    /\ UNCHANGED done

\* The answer is given once, and only to a command that was accepted.
Answer(c) ==
    /\ c \in accepted
    /\ done[c] = 0
    /\ done' = [done EXCEPT ![c] = 1]
    /\ UNCHANGED accepted

Next == \E c \in Cmds : Accept(c) \/ Answer(c)
Spec == Init /\ [][Next]_<<accepted, done>>
=============================================================================
