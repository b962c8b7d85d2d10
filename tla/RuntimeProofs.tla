--------------------------- MODULE RuntimeProofs ---------------------------
(***************************************************************************)
(* Proofs about the native runtime: its plans (RuntimeFacade), for every   *)
(* number of threads, plans and calibration sessions, and its clocks       *)
(* (FeedbackClock), for every cycle time and tolerance.                    *)
(***************************************************************************)
EXTENDS RuntimeFacade, FeedbackClock, TLAPS

(* A plan in a call is pinned by one thread, which is what makes the two   *)
(* unlocked halves of an execution safe.                                   *)

PlanSteps == {"plan_build", "exec_lower", "exec_done"}

\* Thread t is inside a call that works on plan p.
Pins(t, p) == call[t].at \in PlanSteps /\ call[t].plan = p

\* A plan is worked on by one thread at a time, and exists meanwhile.
PinsAreUnique ==
    /\ \A t \in Thread : call[t].at \in PlanSteps => call[t].plan \in Plan
    /\ \A t, u \in Thread, p \in Plan : Pins(t, p) /\ Pins(u, p) => t = u
    /\ \A t \in Thread, p \in Plan : Pins(t, p) => plan[p].state # "none"

\* A plan the controller has taken is spent, or its execution is about to say so.
TakenIsSpent ==
    /\ \A p \in Plan : executed[p] \in {0, 1}
    /\ \A p \in Plan : plan[p].state = "none" => executed[p] = 0
    /\ \A p \in Plan : executed[p] = 1 =>
         ~plan[p].holds \/ \E t \in Thread : call[t].at = "exec_done" /\ call[t].plan = p
    /\ \A t \in Thread, p \in Plan :
         call[t].at \in {"plan_build", "exec_lower"} /\ call[t].plan = p => executed[p] = 0

-----------------------------------------------------------------------------
(* Types.                                                                  *)

PlanObjects == [state: {"none", "building", "handle", "orphan"},
                holds: BOOLEAN, fresh: BOOLEAN, expired: BOOLEAN]
RuntimeCalls == [at: CallSteps, plan: Plan \cup {NoPlan} \cup Session, safe: BOOLEAN]

\* What the plans and the calls are, apart from the rest.
PlansTyped ==
    /\ pause \in BOOLEAN /\ authority \in Plan \cup {NoPlan}
    /\ plan \in [Plan -> PlanObjects] /\ executed \in [Plan -> 0 .. 2]
    /\ call \in [Thread -> RuntimeCalls]
RestTyped ==
    /\ lease \in {0, 1, 2} /\ session \in [Session -> {"none", "open", "finished"}]
    /\ safe \in BOOLEAN /\ ctl \in [life: RuntimeLives, safe: BOOLEAN] /\ gone \in BOOLEAN
    /\ worker \in {"wait", "advance", "joined"}

LEMMA RuntimeTypeParts == RuntimeTypeOK <=> PlansTyped /\ RestTyped
  BY DEF RuntimeTypeOK, PlansTyped, RestTyped, PlanObjects, RuntimeCalls

LEMMA NoObjectTyped == NoObject \in PlanObjects /\ NoCall \in RuntimeCalls
  BY DEF NoObject, PlanObjects, NoCall, RuntimeCalls, CallSteps

\* A thread enters a step of a call, with the plan or session it is about, or
\* returns.
LEMMA CallMoves ==
    ASSUME PlansTyped, NEW t \in Thread
    PROVE  /\ \A at \in CallSteps, p \in Plan \cup {NoPlan} \cup Session : Enter(t, at, p) =>
                /\ call' \in [Thread -> RuntimeCalls]
                /\ call'[t].at = at /\ call'[t].plan = p
                /\ \A u \in Thread : u # t => call'[u] = call[u]
           /\ Leave(t) =>
                /\ call' \in [Thread -> RuntimeCalls]
                /\ call'[t].at = "idle"
                /\ \A u \in Thread : u # t => call'[u] = call[u]
  <1>1. ASSUME NEW at \in CallSteps, NEW p \in Plan \cup {NoPlan} \cup Session, Enter(t, at, p)
        PROVE  /\ call' \in [Thread -> RuntimeCalls]
               /\ call'[t].at = at /\ call'[t].plan = p
               /\ \A u \in Thread : u # t => call'[u] = call[u]
    <2>1. call' = [call EXCEPT ![t] = [@ EXCEPT !.at = at, !.plan = p]]
      BY <1>1 DEF Enter, PlansTyped, RuntimeCalls
    <2>2. [call[t] EXCEPT !.at = at, !.plan = p] \in RuntimeCalls
      BY DEF PlansTyped, RuntimeCalls
    <2> QED  BY <2>1, <2>2 DEF PlansTyped, RuntimeCalls
  <1>2. ASSUME Leave(t)
        PROVE  /\ call' \in [Thread -> RuntimeCalls]
               /\ call'[t].at = "idle"
               /\ \A u \in Thread : u # t => call'[u] = call[u]
    <2>1. call'[t] = NoCall /\ call' \in [Thread -> RuntimeCalls]
      BY <1>2, NoObjectTyped DEF Leave, PlansTyped
    <2> QED  BY <1>2, <2>1 DEF Leave, PlansTyped, NoCall
  <1> QED  BY <1>1, <1>2

\* The object of a plan dies.
LEMMA DestructorTyped ==
    ASSUME PlansTyped, NEW p \in Plan, PlanDestructor(p)
    PROVE  /\ pause' \in BOOLEAN /\ plan' \in [Plan -> PlanObjects]
           /\ executed' \in [Plan -> 0 .. 2]
           /\ plan'[p] = NoObject /\ executed'[p] = 0
           /\ \A q \in Plan : q # p => plan'[q] = plan[q] /\ executed'[q] = executed[q]
           /\ pause' => pause /\ ~(plan[p].holds /\ authority = p)
  <1>1. plan' \in [Plan -> PlanObjects] /\ executed' \in [Plan -> 0 .. 2]
    BY NoObjectTyped DEF PlansTyped, PlanDestructor
  <1>2. /\ plan'[p] = NoObject /\ executed'[p] = 0
        /\ \A q \in Plan : q # p => plan'[q] = plan[q] /\ executed'[q] = executed[q]
    BY DEF PlansTyped, PlanDestructor
  <1>3. pause' \in BOOLEAN /\ (pause' => pause /\ ~(plan[p].holds /\ authority = p))
    BY DEF PlansTyped, PlanDestructor
  <1> QED  BY <1>1, <1>2, <1>3

-----------------------------------------------------------------------------
(* The plans.                                                              *)

PlanInv == PinsAreUnique /\ TakenIsSpent /\ PauseHasHolder
RuntimeInv == PlansTyped /\ RestTyped /\ PlanInv

\* A step that touches no plan and starts or ends no work on one.
LEMMA PlansUntouched ==
    ASSUME PlansTyped, PlanInv,
           UNCHANGED <<authority, plan, executed>>, pause' \in BOOLEAN, pause' => pause,
           call' \in [Thread -> RuntimeCalls],
           \A u \in Thread : \/ call'[u] = call[u]
                             \/ call[u].at \notin PlanSteps /\ call'[u].at \notin PlanSteps
    PROVE  PlansTyped' /\ PlanInv'
  <1>1. PlansTyped'
    BY DEF PlansTyped
  <1>2. PinsAreUnique'
    BY DEF PlanInv, PinsAreUnique, Pins
  <1>3. TakenIsSpent'
    BY DEF PlanInv, TakenIsSpent, PlanSteps
  <1>4. PauseHasHolder'
    BY DEF PlanInv, PauseHasHolder
  <1> QED  BY <1>1, <1>2, <1>3, <1>4 DEF PlanInv

\* A step that only ages the plans.
LEMMA PlansAge ==
    ASSUME PlansTyped, PlanInv, UNCHANGED <<authority, pause, executed, call>>,
           plan' \in [Plan -> PlanObjects],
           \A p \in Plan : plan'[p].state = plan[p].state /\ plan'[p].holds = plan[p].holds
    PROVE  PlansTyped' /\ PlanInv'
  <1>1. PlansTyped'
    BY DEF PlansTyped
  <1>2. PinsAreUnique'
    BY DEF PlanInv, PinsAreUnique, Pins
  <1>3. TakenIsSpent'
    BY DEF PlanInv, TakenIsSpent
  <1>4. PauseHasHolder'
    BY DEF PlanInv, PauseHasHolder
  <1> QED  BY <1>1, <1>2, <1>3, <1>4 DEF PlanInv

\* A plan dies when nobody works on it any more.
LEMMA PlanDies ==
    ASSUME PlansTyped, PlanInv, NEW p \in Plan, PlanDestructor(p), UNCHANGED authority,
           call' \in [Thread -> RuntimeCalls], \A u \in Thread : ~Pins(u, p)',
           \A u \in Thread : \/ call'[u] = call[u]
                             \/ call'[u].at = "idle" /\ (call[u].at \notin PlanSteps \/ call[u].plan = p)
    PROVE  PlansTyped' /\ PlanInv'
  <1>1. /\ pause' \in BOOLEAN /\ plan' \in [Plan -> PlanObjects]
        /\ executed' \in [Plan -> 0 .. 2]
        /\ plan'[p] = NoObject /\ executed'[p] = 0
        /\ \A q \in Plan : q # p => plan'[q] = plan[q] /\ executed'[q] = executed[q]
        /\ pause' => pause /\ ~(plan[p].holds /\ authority = p)
    BY DestructorTyped
  <1>2. PlansTyped'
    BY <1>1 DEF PlansTyped
  <1>3. PinsAreUnique'
    <2>1. \A t \in Thread : (call[t].at \in PlanSteps)' => call'[t] = call[t]
      BY DEF PlanSteps
    <2>2. \A t \in Thread, q \in Plan : Pins(t, q)' => Pins(t, q) /\ q # p
      BY <2>1 DEF Pins
    <2> QED  BY <1>1, <2>1, <2>2 DEF PlanInv, PinsAreUnique
  <1>4. TakenIsSpent'
    <2>1. \A q \in Plan : executed'[q] \in {0, 1}
      BY <1>1 DEF PlanInv, TakenIsSpent
    <2>2. \A q \in Plan : plan'[q].state = "none" => executed'[q] = 0
      BY <1>1 DEF PlanInv, TakenIsSpent
    <2>3. ASSUME NEW q \in Plan, executed'[q] = 1
          PROVE  ~plan'[q].holds \/ \E t \in Thread : call'[t].at = "exec_done" /\ call'[t].plan = q
      BY <1>1, <2>3 DEF PlanInv, TakenIsSpent, PlanSteps
    <2>4. ASSUME NEW t \in Thread, NEW q \in Plan,
                 call'[t].at \in {"plan_build", "exec_lower"}, call'[t].plan = q
          PROVE  executed'[q] = 0
      BY <1>1, <2>4 DEF PlanInv, TakenIsSpent
    <2> QED  BY <2>1, <2>2, <2>3, <2>4 DEF TakenIsSpent
  <1>5. PauseHasHolder'
    BY <1>1 DEF PlanInv, PauseHasHolder
  <1> QED  BY <1>2, <1>3, <1>4, <1>5 DEF PlanInv

\* A new plan takes the authority, when nothing is paused.
LEMMA PlanBorn ==
    ASSUME PlansTyped, PlanInv, NEW t \in Thread, TakeAuthority(t)
    PROVE  PlansTyped' /\ PlanInv'
  <1> DEFINE new == [state |-> "building", holds |-> TRUE, fresh |-> FALSE, expired |-> FALSE]
  <1>1. PICK p \in Plan : /\ plan[p].state = "none" /\ plan' = [plan EXCEPT ![p] = new]
                         /\ authority' = p /\ Enter(t, "plan_build", p)
    BY DEF TakeAuthority
  <1>2. /\ call' \in [Thread -> RuntimeCalls] /\ call'[t].at = "plan_build" /\ call'[t].plan = p
        /\ \A u \in Thread : u # t => call'[u] = call[u]
    <2>1. "plan_build" \in CallSteps
      BY DEF CallSteps
    <2> QED  BY <1>1, <2>1, CallMoves
  <1>3. /\ plan' \in [Plan -> PlanObjects] /\ plan'[p] = new
        /\ \A q \in Plan : q # p => plan'[q] = plan[q]
    BY <1>1 DEF PlansTyped, PlanObjects
  <1>4. executed' = executed /\ pause' = TRUE /\ call[t].at = "idle" /\ executed[p] = 0
    BY <1>1 DEF TakeAuthority, require_runtime, PlanInv, TakenIsSpent
  <1>5. \A u \in Thread : ~Pins(u, p)
    BY <1>1 DEF PlanInv, PinsAreUnique
  <1>6. PlansTyped'
    BY <1>1, <1>2, <1>3, <1>4 DEF PlansTyped
  <1>7. PinsAreUnique'
    BY <1>2, <1>3, <1>5 DEF PlanInv, PinsAreUnique, Pins
  <1>8. TakenIsSpent'
    BY <1>2, <1>3, <1>4, <1>5 DEF PlanInv, TakenIsSpent, Pins, PlanSteps
  <1>9. PauseHasHolder'
    BY <1>1, <1>3 DEF PauseHasHolder
  <1> QED  BY <1>6, <1>7, <1>8, <1>9 DEF PlanInv

\* The handle is published, or the plan dies in the call that made it.
LEMMA PlanBuilt ==
    ASSUME PlansTyped, PlanInv, NEW t \in Thread, plan_build(t)
    PROVE  PlansTyped' /\ PlanInv'
  <1>1. call[t].at = "plan_build" /\ authority' = authority /\ Leave(t)
    BY DEF plan_build
  <1>2. PICK p \in Plan : p = call[t].plan /\ executed[p] = 0 /\ plan[p].state # "none"
    BY <1>1 DEF PlanInv, PinsAreUnique, TakenIsSpent, PlanSteps, Pins
  <1>3. /\ call' \in [Thread -> RuntimeCalls] /\ call'[t].at = "idle"
        /\ \A u \in Thread : u # t => call'[u] = call[u]
    BY <1>1, CallMoves
  <1>4. \A u \in Thread : ~Pins(u, p)'
    BY <1>1, <1>2, <1>3 DEF PlanInv, PinsAreUnique, Pins, PlanSteps
  <1>5. CASE PlanDestructor(p)
    BY <1>1, <1>2, <1>3, <1>4, <1>5, PlanDies
  <1>6. CASE /\ plan' = [plan EXCEPT ![p].state = "handle", ![p].fresh = TRUE]
             /\ UNCHANGED <<pause, executed>>
    <2>1. /\ plan' \in [Plan -> PlanObjects] /\ plan'[p].state = "handle"
          /\ plan'[p].holds = plan[p].holds /\ \A q \in Plan : q # p => plan'[q] = plan[q]
      BY <1>2, <1>6 DEF PlansTyped, PlanObjects
    <2>2. PlansTyped'
      BY <1>1, <1>3, <1>6, <2>1 DEF PlansTyped
    <2>3. PinsAreUnique'
      BY <1>1, <1>3, <2>1 DEF PlanInv, PinsAreUnique, Pins, PlanSteps
    <2>4. TakenIsSpent'
      BY <1>1, <1>2, <1>3, <1>6, <2>1 DEF PlanInv, TakenIsSpent
    <2>5. PauseHasHolder'
      BY <1>1, <1>6, <2>1 DEF PlanInv, PauseHasHolder
    <2> QED  BY <2>2, <2>3, <2>4, <2>5 DEF PlanInv
  <1> QED  BY <1>2, <1>5, <1>6 DEF plan_build

\* The handle is destroyed: the plan dies, or the call that works on it keeps it.
LEMMA PlanDestroyed ==
    ASSUME PlansTyped, PlanInv, NEW t \in Thread, plan_destroy(t)
    PROVE  PlansTyped' /\ PlanInv'
  <1>1. authority' = authority /\ call' = call /\ call[t].at = "idle"
    BY DEF plan_destroy
  <1>2. PICK p \in Plan :
          /\ plan[p].state = "handle"
          /\ \/ plan' = [plan EXCEPT ![p].state = "orphan"] /\ UNCHANGED <<pause, executed>>
             \/ ~PinnedByOther(t, p) /\ PlanDestructor(p)
    BY DEF plan_destroy
  <1>3. CASE ~PinnedByOther(t, p) /\ PlanDestructor(p)
    <2>1. \A u \in Thread : ~Pins(u, p)'
      BY <1>1, <1>3 DEF PinnedByOther, Pins, PlanSteps
    <2> QED  BY <1>1, <1>3, <2>1, PlanDies DEF PlansTyped
  <1>4. CASE plan' = [plan EXCEPT ![p].state = "orphan"] /\ UNCHANGED <<pause, executed>>
    <2>1. /\ plan' \in [Plan -> PlanObjects] /\ plan'[p].state = "orphan"
          /\ plan'[p].holds = plan[p].holds /\ \A q \in Plan : q # p => plan'[q] = plan[q]
      BY <1>4 DEF PlansTyped, PlanObjects
    <2>2. PlansTyped'
      BY <1>1, <1>4, <2>1 DEF PlansTyped
    <2>3. PinsAreUnique'
      BY <1>1, <2>1 DEF PlanInv, PinsAreUnique, Pins, PlanSteps
    <2>4. TakenIsSpent'
      BY <1>1, <1>2, <1>4, <2>1 DEF PlanInv, TakenIsSpent
    <2>5. PauseHasHolder'
      BY <1>1, <1>4, <2>1 DEF PlanInv, PauseHasHolder
    <2> QED  BY <2>2, <2>3, <2>4, <2>5 DEF PlanInv
  <1> QED  BY <1>2, <1>3, <1>4

\* An execution begins on a plan that holds the pause, or finds it expired.
LEMMA ExecutionChecked ==
    ASSUME PlansTyped, PlanInv, NEW t \in Thread, execute_check(t)
    PROVE  PlansTyped' /\ PlanInv'
  <1>1. UNCHANGED <<authority, executed>> /\ call[t].at = "idle"
    BY DEF execute_check, require_runtime
  <1>2. PICK p \in Plan :
          /\ plan[p].state = "handle" /\ plan[p].holds /\ authority = p
          /\ \A u \in Thread : call[u].plan # p
          /\ \/ plan' = [plan EXCEPT ![p].holds = FALSE] /\ pause' = FALSE /\ UNCHANGED call
             \/ Enter(t, "exec_lower", p) /\ UNCHANGED <<plan, pause>>
    BY DEF execute_check
  <1>3. \A u \in Thread : ~Pins(u, p)
    BY <1>2 DEF Pins
  <1>4. executed[p] = 0
    BY <1>2 DEF PlanInv, TakenIsSpent
  <1>5. CASE plan' = [plan EXCEPT ![p].holds = FALSE] /\ pause' = FALSE /\ UNCHANGED call
    <2>1. /\ plan' \in [Plan -> PlanObjects] /\ ~plan'[p].holds
          /\ plan'[p].state = plan[p].state /\ \A q \in Plan : q # p => plan'[q] = plan[q]
      BY <1>5 DEF PlansTyped, PlanObjects
    <2>2. PlansTyped'
      BY <1>1, <1>5, <2>1 DEF PlansTyped
    <2>3. PinsAreUnique'
      BY <1>5, <2>1 DEF PlanInv, PinsAreUnique, Pins
    <2>4. TakenIsSpent'
      BY <1>1, <1>5, <2>1 DEF PlanInv, TakenIsSpent
    <2> QED  BY <1>5, <2>2, <2>3, <2>4 DEF PlanInv, PauseHasHolder
  <1>6. CASE Enter(t, "exec_lower", p) /\ UNCHANGED <<plan, pause>>
    <2>1. /\ call' \in [Thread -> RuntimeCalls] /\ call'[t].at = "exec_lower" /\ call'[t].plan = p
          /\ \A u \in Thread : u # t => call'[u] = call[u]
      <3>1. "exec_lower" \in CallSteps
        BY DEF CallSteps
      <3> QED  BY <1>6, <3>1, CallMoves
    <2>2. PlansTyped'
      BY <1>1, <1>6, <2>1 DEF PlansTyped
    <2>3. PinsAreUnique'
      BY <1>2, <1>3, <1>6, <2>1 DEF PlanInv, PinsAreUnique, Pins
    <2>4. TakenIsSpent'
      BY <1>1, <1>4, <1>6, <2>1 DEF PlanInv, TakenIsSpent
    <2> QED  BY <1>1, <1>6, <2>2, <2>3, <2>4 DEF PlanInv, PauseHasHolder
  <1> QED  BY <1>2, <1>5, <1>6

\* The controller takes the plan, or refuses it and the thread lets go of it.
LEMMA ExecutionLowered ==
    ASSUME PlansTyped, PlanInv, NEW t \in Thread, execute_lower(t)
    PROVE  PlansTyped' /\ PlanInv'
  <1>1. authority' = authority /\ call[t].at = "exec_lower"
    BY DEF execute_lower
  <1>2. PICK p \in Plan : p = call[t].plan /\ executed[p] = 0 /\ plan[p].state # "none"
    BY <1>1 DEF PlanInv, PinsAreUnique, TakenIsSpent, PlanSteps, Pins
  <1>3. \A u \in Thread : u # t => ~Pins(u, p)
    BY <1>1, <1>2 DEF PlanInv, PinsAreUnique, Pins, PlanSteps
  <1>4. CASE /\ executed' = [executed EXCEPT ![p] = @ + 1] /\ Enter(t, "exec_done", p)
             /\ UNCHANGED <<pause, plan>>
    <2>1. /\ call' \in [Thread -> RuntimeCalls] /\ call'[t].at = "exec_done" /\ call'[t].plan = p
          /\ \A u \in Thread : u # t => call'[u] = call[u]
      <3>1. "exec_done" \in CallSteps
        BY DEF CallSteps
      <3> QED  BY <1>4, <3>1, CallMoves
    <2>2. /\ executed' \in [Plan -> 0 .. 2] /\ executed'[p] = 1
          /\ \A q \in Plan : q # p => executed'[q] = executed[q]
      BY <1>2, <1>4 DEF PlansTyped
    <2>3. PlansTyped'
      BY <1>1, <1>4, <2>1, <2>2 DEF PlansTyped
    <2>4. PinsAreUnique'
      BY <1>1, <1>2, <1>4, <2>1 DEF PlanInv, PinsAreUnique, Pins, PlanSteps
    <2>5. TakenIsSpent'
      <3>1. ASSUME NEW u \in Thread, NEW q \in Plan,
                   call'[u].at \in {"plan_build", "exec_lower"}, call'[u].plan = q
            PROVE  executed'[q] = 0
        BY <1>3, <2>1, <2>2, <3>1 DEF PlanInv, TakenIsSpent, Pins, PlanSteps
      <3>2. ASSUME NEW q \in Plan, executed'[q] = 1, plan'[q].holds
            PROVE  \E u \in Thread : call'[u].at = "exec_done" /\ call'[u].plan = q
        BY <1>1, <1>2, <1>4, <2>1, <2>2, <3>2 DEF PlanInv, TakenIsSpent
      <3> QED  BY <1>2, <1>4, <2>2, <3>1, <3>2 DEF PlanInv, TakenIsSpent
    <2> QED  BY <1>1, <1>4, <2>3, <2>4, <2>5 DEF PlanInv, PauseHasHolder
  <1>5. CASE Leave(t) /\ Unpin(t, p)
    <2>1. /\ call' \in [Thread -> RuntimeCalls] /\ call'[t].at = "idle"
          /\ \A u \in Thread : u # t => call'[u] = call[u]
      BY <1>5, CallMoves
    <2>2. \A u \in Thread : ~Pins(u, p)'
      BY <1>3, <2>1 DEF Pins, PlanSteps
    <2>3. CASE PlanDestructor(p)
      BY <1>1, <1>2, <2>1, <2>2, <2>3, PlanDies
    <2>4. CASE UNCHANGED <<plan, executed, pause>>
      <3>1. PlansTyped'
        BY <1>1, <2>1, <2>4 DEF PlansTyped
      <3>2. PinsAreUnique'
        BY <2>1, <2>4 DEF PlanInv, PinsAreUnique, Pins, PlanSteps
      <3>3. TakenIsSpent'
        BY <1>1, <2>1, <2>4 DEF PlanInv, TakenIsSpent
      <3> QED  BY <1>1, <2>4, <3>1, <3>2, <3>3 DEF PlanInv, PauseHasHolder
    <2> QED  BY <1>5, <2>3, <2>4 DEF Unpin, PlanKept
  <1> QED  BY <1>2, <1>4, <1>5 DEF execute_lower

\* Success: the plan is spent and its pause is over.
LEMMA ExecutionDone ==
    ASSUME PlansTyped, PlanInv, NEW t \in Thread, execute_done(t)
    PROVE  PlansTyped' /\ PlanInv'
  <1>1. authority' = authority /\ call[t].at = "exec_done" /\ Leave(t)
    BY DEF execute_done
  <1>2. PICK p \in Plan : p = call[t].plan
    BY <1>1 DEF PlanInv, PinsAreUnique, PlanSteps
  <1>3. /\ call' \in [Thread -> RuntimeCalls] /\ call'[t].at = "idle"
        /\ \A u \in Thread : u # t => call'[u] = call[u]
    BY <1>1, CallMoves
  <1>4. \A u \in Thread : ~Pins(u, p)'
    BY <1>1, <1>2, <1>3 DEF PlanInv, PinsAreUnique, Pins, PlanSteps
  <1>5. pause' \in BOOLEAN /\ (pause' => pause /\ authority # p)
    BY <1>2 DEF execute_done, PlansTyped
  <1>6. /\ plan' \in [Plan -> PlanObjects] /\ ~plan'[p].holds
        /\ \A q \in Plan : q # p => plan'[q] = plan[q] /\ executed'[q] = executed[q]
        /\ executed' \in [Plan -> 0 .. 2]
        /\ executed'[p] = 0 \/ (executed'[p] = executed[p] /\ plan'[p].state = plan[p].state)
    <2>1. CASE plan' = [plan EXCEPT ![p] = NoObject] /\ executed' = [executed EXCEPT ![p] = 0]
      <3>1. plan' \in [Plan -> PlanObjects] /\ executed' \in [Plan -> 0 .. 2]
        BY <2>1, NoObjectTyped DEF PlansTyped
      <3>2. ~plan'[p].holds
        <4>1. plan'[p] = NoObject
          BY <2>1 DEF PlansTyped
        <4> QED  BY <4>1 DEF NoObject
      <3>3. /\ executed'[p] = 0
            /\ \A q \in Plan : q # p => plan'[q] = plan[q] /\ executed'[q] = executed[q]
        BY <2>1 DEF PlansTyped
      <3> QED  BY <3>1, <3>2, <3>3
    <2>2. CASE plan' = [plan EXCEPT ![p].holds = FALSE] /\ executed' = executed
      BY <2>2 DEF PlansTyped, PlanObjects
    <2> QED  BY <1>2, <2>1, <2>2 DEF execute_done
  <1>7. PlansTyped'
    BY <1>1, <1>3, <1>5, <1>6 DEF PlansTyped
  <1>8. PinsAreUnique'
    BY <1>3, <1>4, <1>6 DEF PlanInv, PinsAreUnique, Pins, PlanSteps
  <1>9. TakenIsSpent'
    <2>1. ASSUME NEW q \in Plan
          PROVE  executed'[q] \in {0, 1} /\ (plan'[q].state = "none" => executed'[q] = 0)
      <3>1. CASE q = p
        BY <1>6, <3>1 DEF PlanInv, TakenIsSpent
      <3>2. CASE q # p
        BY <1>6, <3>2 DEF PlanInv, TakenIsSpent
      <3> QED  BY <3>1, <3>2
    <2>2. ASSUME NEW q \in Plan, executed'[q] = 1, plan'[q].holds
          PROVE  \E u \in Thread : call'[u].at = "exec_done" /\ call'[u].plan = q
      BY <1>2, <1>3, <1>6, <2>2 DEF PlanInv, TakenIsSpent
    <2>3. ASSUME NEW u \in Thread, NEW q \in Plan,
                 call'[u].at \in {"plan_build", "exec_lower"}, call'[u].plan = q
          PROVE  executed'[q] = 0
      BY <1>3, <1>4, <1>6, <2>3 DEF PlanInv, TakenIsSpent, Pins, PlanSteps
    <2> QED  BY <2>1, <2>2, <2>3 DEF TakenIsSpent
  <1>10. PauseHasHolder'
    BY <1>1, <1>5, <1>6 DEF PlanInv, PauseHasHolder
  <1> QED  BY <1>7, <1>8, <1>9, <1>10 DEF PlanInv

-----------------------------------------------------------------------------

\* Calls that are not about plans, and the worker: the plans stay as they are.
LEMMA OtherCallsKeepPlans ==
    ASSUME PlansTyped, PlanInv, NEW t \in Thread,
           ArmCalls(t) \/ CalibrationCalls(t) \/ disarm_lease(t) \/ set_interlock_lower(t)
             \/ calibration_create(t)
    PROVE  PlansTyped' /\ PlanInv'
  <1>0. {"disarm_lease", "interlock_lower", "begin_create"} \subseteq CallSteps
    BY DEF CallSteps
  <1>1. CASE arm_virtual(t) \/ stop(t) \/ runtime_destroy(t)
    BY <1>1, PlansUntouched DEF arm_virtual, stop, runtime_destroy, PlansTyped
  <1>2. CASE disarm(t)
    BY <1>0, <1>2, CallMoves, PlansUntouched DEF disarm, require_runtime, PlansTyped, PlanSteps
  <1>3. CASE set_interlock(t)
    <2>1. /\ call' \in [Thread -> RuntimeCalls] /\ call'[t].at = "interlock_lower"
          /\ \A u \in Thread : u # t => call'[u] = call[u]
      BY <1>0, <1>3 DEF set_interlock, PlansTyped, RuntimeCalls
    <2> QED
      BY <1>3, <2>1, PlansUntouched DEF set_interlock, require_runtime, PlansTyped, PlanSteps
  <1>4. CASE disarm_lease(t) \/ set_interlock_lower(t) \/ calibration_create(t)
    <2>1. /\ Leave(t) /\ call[t].at \notin PlanSteps
          /\ UNCHANGED <<authority, pause, plan, executed>>
      BY <1>4 DEF disarm_lease, set_interlock_lower, calibration_create, PlanSteps
    <2> QED  BY <2>1, CallMoves, PlansUntouched DEF PlansTyped, PlanSteps
  <1>5. CASE BeginCalibration(t)
    <2>1. UNCHANGED <<authority, pause, plan, executed>> /\ call[t].at = "idle"
      BY <1>5 DEF BeginCalibration
    <2>2. CASE UNCHANGED call
      BY <2>1, <2>2, PlansUntouched DEF PlansTyped
    <2>3. ASSUME NEW s \in Session, Enter(t, "begin_create", s) PROVE PlansTyped' /\ PlanInv'
      BY <1>0, <2>1, <2>3, CallMoves, PlansUntouched DEF PlansTyped, PlanSteps
    <2> QED  BY <1>5, <2>2, <2>3 DEF BeginCalibration
  <1>6. CASE FinishCalibration(t) \/ calibration_destroy(t)
    BY <1>6, PlansUntouched DEF FinishCalibration, calibration_destroy, PlansTyped
  <1> QED
    BY <1>1, <1>2, <1>3, <1>4, <1>5, <1>6
    DEF ArmCalls, CalibrationCalls, calibration_manual_begin, calibration_recipe_begin,
        calibration_manual_commit, calibration_recipe_commit, calibration_abort

\* The plans, one step per action.
LEMMA PlansStep ==
    PlansTyped /\ PlanInv /\ [RuntimeNext]_runtimeVars => PlansTyped' /\ PlanInv'
  <1> SUFFICES ASSUME PlansTyped, PlanInv, [RuntimeNext]_runtimeVars
               PROVE  PlansTyped' /\ PlanInv'
    OBVIOUS
  <1>1. CASE worker_cycle \/ worker_exit \/ worker_expire \/ UNCHANGED runtimeVars
    <2>1. UNCHANGED <<authority, plan, executed, call>> /\ (pause' = pause \/ pause' = FALSE)
      BY <1>1 DEF worker_cycle, worker_exit, worker_expire, runtimeVars
    <2>2. pause' \in BOOLEAN /\ (pause' => pause)
      <3>1. CASE pause' = pause
        BY <3>1 DEF PlansTyped
      <3>2. CASE pause' = FALSE
        BY <3>2
      <3> QED  BY <2>1, <3>1, <3>2
    <2>3. call' \in [Thread -> RuntimeCalls] /\ \A u \in Thread : call'[u] = call[u]
      BY <2>1 DEF PlansTyped
    <2> QED  BY <2>1, <2>2, <2>3, PlansUntouched
  <1>2. CASE worker_advance
    <2>1. /\ plan' \in [Plan -> PlanObjects]
          /\ \A p \in Plan : plan'[p].state = plan[p].state /\ plan'[p].holds = plan[p].holds
      BY <1>2 DEF worker_advance, Stale, PlansTyped, PlanObjects
    <2> QED  BY <1>2, <2>1, PlansAge DEF worker_advance
  <1>3. CASE PlanExpires
    <2>1. /\ plan' \in [Plan -> PlanObjects]
          /\ \A p \in Plan : plan'[p].state = plan[p].state /\ plan'[p].holds = plan[p].holds
      <3>1. PICK p \in Plan : plan' = [plan EXCEPT ![p].expired = TRUE]
        BY <1>3 DEF PlanExpires
      <3> QED  BY <3>1 DEF PlansTyped, PlanObjects
    <2> QED  BY <1>3, <2>1, PlansAge DEF PlanExpires
  <1>4. ASSUME NEW t \in Thread, CallGoesOn(t) \/ ArmCalls(t) \/ PlanCalls(t) \/ CalibrationCalls(t)
        PROVE  PlansTyped' /\ PlanInv'
    BY <1>4, PlanBorn, PlanBuilt, PlanDestroyed, ExecutionChecked, ExecutionLowered,
       ExecutionDone, OtherCallsKeepPlans
    DEF CallGoesOn, PlanCalls, plan_joint, plan_paired_tcp_body, plan_converge_tcp_body
  <1> QED  BY <1>1, <1>2, <1>3, <1>4 DEF RuntimeNext, RuntimeWorker

\* The lease, the sessions, the interlocks, the controller and the worker.
LEMMA RestStep ==
    PlansTyped /\ RestTyped /\ [RuntimeNext]_runtimeVars => RestTyped'
  <1> SUFFICES ASSUME PlansTyped, RestTyped, [RuntimeNext]_runtimeVars PROVE RestTyped'
    OBVIOUS
  <1> USE DEF RestTyped
  <1>1. CASE RuntimeWorker \/ PlanExpires \/ UNCHANGED runtimeVars
    BY <1>1
    DEF RuntimeWorker, worker_cycle, worker_advance, worker_expire, worker_exit, PlanExpires,
        runtimeVars
  <1>2. ASSUME NEW t \in Thread, CallGoesOn(t) PROVE RestTyped'
    <2>1. call[t].safe \in BOOLEAN
      BY DEF PlansTyped, RuntimeCalls
    <2>2. CASE disarm_lease(t) \/ plan_build(t) \/ execute_done(t)
      BY <2>2 DEF disarm_lease, plan_build, execute_done
    <2>3. CASE set_interlock_lower(t)
      BY <2>1, <2>3 DEF set_interlock_lower, RuntimeLives
    <2>4. CASE execute_lower(t)
      BY <2>4 DEF execute_lower, RuntimeLives
    <2>5. CASE calibration_create(t)
      BY <2>5 DEF calibration_create
    <2> QED  BY <1>2, <2>2, <2>3, <2>4, <2>5 DEF CallGoesOn
  <1>3. ASSUME NEW t \in Thread, ArmCalls(t) PROVE RestTyped'
    BY <1>3
    DEF ArmCalls, arm_virtual, disarm, stop, set_interlock, runtime_destroy, RuntimeLives
  <1>4. ASSUME NEW t \in Thread, PlanCalls(t) PROVE RestTyped'
    BY <1>4
    DEF PlanCalls, plan_joint, plan_paired_tcp_body, plan_converge_tcp_body, TakeAuthority,
        plan_destroy, execute_check
  <1>5. ASSUME NEW t \in Thread, CalibrationCalls(t) PROVE RestTyped'
    BY <1>5
    DEF CalibrationCalls, calibration_manual_begin, calibration_recipe_begin, BeginCalibration,
        calibration_manual_commit, calibration_recipe_commit, calibration_abort,
        FinishCalibration, calibration_destroy, LeaseAfterDestructor
  <1> QED  BY <1>1, <1>2, <1>3, <1>4, <1>5 DEF RuntimeNext

\* The invariant is inductive.
LEMMA RuntimeInvariant == RuntimeSpec => []RuntimeInv
  <1>1. RuntimeInit => RuntimeInv
    <2> SUFFICES ASSUME RuntimeInit PROVE RuntimeInv
      OBVIOUS
    <2>1. RestTyped
      BY DEF RuntimeInit, RestTyped, RuntimeLives
    <2>2. PlansTyped
      <3>1. plan \in [Plan -> PlanObjects] /\ call \in [Thread -> RuntimeCalls]
        BY NoObjectTyped DEF RuntimeInit
      <3>2. executed \in [Plan -> 0 .. 2]
        BY DEF RuntimeInit
      <3>3. pause \in BOOLEAN /\ authority \in Plan \cup {NoPlan}
        BY DEF RuntimeInit
      <3> QED  BY <3>1, <3>2, <3>3 DEF PlansTyped
    <2>3. PlanInv
      BY DEF RuntimeInit, PlanInv, PinsAreUnique, TakenIsSpent, PauseHasHolder, Pins,
             PlanSteps, NoCall, NoObject
    <2> QED  BY <2>1, <2>2, <2>3 DEF RuntimeInv
  <1>2. RuntimeInv /\ [RuntimeNext]_runtimeVars => RuntimeInv'
    BY PlansStep, RestStep DEF RuntimeInv
  <1> QED  BY <1>1, <1>2, PTL DEF RuntimeSpec

\* The controller is paused only for a plan that exists and holds the authority,
\* and takes a plan at most once, in every order of planning, executing,
\* destroying and expiring by any threads (runtime.cpp: oa_runtime_execute,
\* oa_runtime_plan_destroy, ~PlanData, worker_main).
THEOREM PlanAuthoritySound == RuntimeSpec => []PlanAuthorityIsSound
  <1>1. RuntimeInv => PlanAuthorityIsSound
    BY DEF RuntimeInv, PlanInv, PlanAuthorityIsSound, PlanTakenOnce, TakenIsSpent
  <1> QED  BY <1>1, RuntimeInvariant, PTL

\* The runtime stays well typed, for every number of threads, plans and calibration
\* sessions (runtime.cpp, calibration.cpp: every call and worker_main).
THEOREM RuntimeTypes == RuntimeSpec => []RuntimeTypeOK
  <1>1. RuntimeInv => RuntimeTypeOK
    BY DEF RuntimeInv, PlansTyped, RestTyped, PlanObjects, RuntimeCalls, RuntimeTypeOK
  <1> QED  BY <1>1, RuntimeInvariant, PTL

-----------------------------------------------------------------------------
(* The clocks: what each reader may rely on about the time it did not      *)
(* read itself.                                                            *)

ClockRecordsTyped ==
    /\ now \in Nat \ {0} /\ timeline \in Nat /\ held \in Nat
    /\ ros \in [off : {0} \cup ClockSteps, stepped : BOOLEAN]
    /\ cadence \in [at : {"wait", "run"}, host : Nat, since : Nat]
    /\ sample \in [seq : Nat, made : Nat]
    /\ rtClock \in [seq : Nat, at : Nat]
    /\ poll \in [at : Polls, seq : Nat, made : Nat, meas : Nat, taken : Nat, rt : Nat]
    /\ beat \in [host : Nat, timeline : Nat]

\* The evidence belongs to the newest sample, is no later than the sample, and the
\* next cycle's is at least a cycle later.
CadenceKeepsPace ==
    /\ cadence.since <= now
    /\ cadence.at = "run" => cadence.since + Period <= cadence.host /\ cadence.host <= now
    /\ rtClock.seq = sample.seq
    /\ rtClock.at <= sample.made /\ rtClock.at <= cadence.since

\* A reader who saw sequence number seq made at time t finds it there, or a newer
\* one at least a cycle later.
Followed(seq, t) ==
    \/ rtClock.seq = seq /\ rtClock.at = t
    \/ rtClock.seq > seq /\ rtClock.at >= t + Period

\* When the sample of the last stamp was made, by the node's own record.
StampedAt == node.stamp - (node.ros - node.rt)

\* The node's clocks hang together for as long as nobody steps the ROS clock.
StampsHangTogether ==
    ~ros.stepped =>
        /\ ros.off = 0
        /\ node \in [ros : Nat, rt : Nat, stamp : Int]
        /\ node.rt <= node.ros /\ node.ros <= now /\ node.ros - node.rt <= held

\* What the session's worker holds of an earlier reading is still true of it.
PollHolds ==
    /\ poll.taken <= now
    /\ poll.at \in {"refresh", "publish"} => poll.taken - poll.made <= StaleAfter
    /\ poll.at = "refresh" => Followed(poll.rt, poll.meas)
    /\ poll.at = "publish" => Followed(poll.seq, poll.meas) /\ poll.rt <= now
    /\ ~ros.stepped /\ node.rt # 0 =>
         /\ poll.at \in {"poll", "beat", "snapshot", "refresh"} => Followed(poll.seq, StampedAt)
         /\ poll.at = "refresh" /\ poll.rt # poll.seq => poll.meas >= StampedAt + Period
         /\ poll.at = "publish" => poll.meas >= StampedAt + Period

\* Once the controller has advanced past a heartbeat, it is at most one cycle ahead
\* of the host on the way to the deadline.
BeatHolds ==
    beat.timeline # 0 =>
        /\ beat.timeline >= Ahead
        /\ beat.host <= now + Ahead
        /\ \/ timeline = beat.timeline - Ahead
           \/ cadence.since + beat.timeline + Period >= beat.host + timeline

ClockInv ==
    ClockRecordsTyped /\ CadenceKeepsPace /\ StampsHangTogether /\ PollHolds /\ BeatHolds
    /\ (poll.at = "refused" => ros.stepped \/ held >= Period)

LEMMA ClockStart == ClockInit => ClockInv
  BY ClockAssumption
  DEF ClockInit, ClockInv, ClockRecordsTyped, CadenceKeepsPace, StampsHangTogether, PollHolds,
      BeatHolds, NoPoll, Polls

\* Time passes and the ROS clock is stepped under the readers' feet.
LEMMA ClockEnvironmentStep ==
  ASSUME ClockInv, time_passes \/ ros_clock_steps
  PROVE  ClockInv'
  <1>1. CASE time_passes
    <2> USE <1>1 DEF time_passes, cadenceVars, pollVars, ClockInv, ClockRecordsTyped
    <2>1. ClockRecordsTyped' /\ CadenceKeepsPace'
      BY DEF CadenceKeepsPace
    <2>2. StampsHangTogether'
      BY DEF StampsHangTogether
    <2>3. PollHolds'
      BY DEF PollHolds, Followed, StampedAt
    <2>4. BeatHolds'
      BY ClockAssumption DEF BeatHolds
    <2> QED  BY <2>1, <2>2, <2>3, <2>4
  <1>2. CASE ros_clock_steps
    BY <1>2
    DEF ros_clock_steps, cadenceVars, pollVars, ClockInv, ClockRecordsTyped, CadenceKeepsPace,
        StampsHangTogether, PollHolds, BeatHolds, Followed, StampedAt
  <1> QED  BY <1>1, <1>2

\* The runtime's worker: an advance makes evidence that follows what every reader holds.
LEMMA CadenceStep ==
  ASSUME ClockInv, cadence_wakes \/ cadence_advance
  PROVE  ClockInv'
  <1> USE DEF ClockInv
  <1>1. CASE cadence_wakes
    <2>0. \/ cadence' = [cadence EXCEPT !.since = now]
          \/ cadence' = [cadence EXCEPT !.at = "run", !.host = now]
      BY <1>1 DEF cadence_wakes
    <2>1. UNCHANGED <<now, ros, timeline, sample, rtClock, poll, beat, node, held>>
      BY <1>1 DEF cadence_wakes, hostVars, pollVars
    <2>2. /\ now \in Nat \ {0} /\ now >= cadence.since + Period /\ Period \in Nat \ {0}
          /\ cadence \in [at : {"wait", "run"}, host : Nat, since : Nat] /\ cadence.at = "wait"
      BY <1>1, ClockAssumption DEF cadence_wakes, ClockRecordsTyped
    <2>3. /\ cadence' \in [at : {"wait", "run"}, host : Nat, since : Nat]
          /\ cadence'.since >= cadence.since /\ cadence'.since <= now
          /\ cadence'.at = "run" => cadence'.since + Period <= cadence'.host /\ cadence'.host <= now
      <3>1. cadence.host \in Nat /\ cadence.since \in Nat /\ now \in Nat
            /\ cadence.since <= now
        BY <2>2
      <3>2. CASE cadence' = [cadence EXCEPT !.since = now]
        <4>1. cadence' = [at |-> "wait", host |-> cadence.host, since |-> now]
          BY <2>2, <3>2
        <4> QED  BY <3>1, <4>1
      <3>3. CASE cadence' = [cadence EXCEPT !.at = "run", !.host = now]
        <4>1. cadence' = [at |-> "run", host |-> now, since |-> cadence.since]
          BY <2>2, <3>3
        <4> QED  BY <2>2, <3>1, <4>1
      <3> QED  BY <2>0, <3>2, <3>3
    <2>4. ClockRecordsTyped' /\ CadenceKeepsPace'
      BY <2>1, <2>2, <2>3 DEF ClockRecordsTyped, CadenceKeepsPace
    <2>5. StampsHangTogether' /\ PollHolds'
      BY <2>1 DEF StampsHangTogether, PollHolds, Followed, StampedAt
    <2>6. BeatHolds'
      BY <2>1, <2>2, <2>3, ClockAssumption DEF BeatHolds, ClockRecordsTyped
    <2> QED  BY <2>1, <2>4, <2>5, <2>6
  <1>2. CASE cadence_advance
    <2> USE <1>2 DEF cadence_advance, hostVars, pollVars
    <2>1. PICK sampled \in BOOLEAN :
            sample' = IF sampled THEN [seq |-> sample.seq + 1, made |-> now] ELSE sample
      OBVIOUS
    <2>2. cadence' = [at |-> "wait", host |-> 0, since |-> now] /\ cadence.since + Period <= now
      BY ClockAssumption DEF CadenceKeepsPace, ClockRecordsTyped
    <2>3. \/ UNCHANGED <<sample, rtClock>>
          \/ /\ sample' = [seq |-> sample.seq + 1, made |-> now]
             /\ rtClock' = [seq |-> sample.seq + 1, at |-> cadence.host]
             /\ cadence.host >= rtClock.at + Period /\ cadence.host <= now
      BY <2>1, ClockAssumption DEF capture_feedback_clock, CadenceKeepsPace, ClockRecordsTyped
    <2>4. ClockRecordsTyped'
      BY <2>2, <2>3, ClockAssumption DEF ClockRecordsTyped
    <2>5. CadenceKeepsPace'
      BY <2>2, <2>3, <2>4, ClockAssumption DEF ClockRecordsTyped, CadenceKeepsPace
    <2>6. StampsHangTogether'
      BY DEF StampsHangTogether
    <2>7. ASSUME NEW seq \in Int, NEW t \in Int, Followed(seq, t)
          PROVE  Followed(seq, t)'
      BY <2>3, <2>7, ClockAssumption DEF Followed, ClockRecordsTyped, CadenceKeepsPace
    <2>8. PollHolds'
      <3>1. ~ros.stepped => StampedAt \in Int
        BY DEF StampsHangTogether, StampedAt
      <3>2. UNCHANGED <<now, ros, poll, node, StampedAt>>
        BY DEF StampedAt
      <3> QED  BY <2>7, <3>1, <3>2 DEF PollHolds, ClockRecordsTyped
    <2>9. BeatHolds'
      BY <2>2, <2>4, ClockAssumption DEF BeatHolds, ClockRecordsTyped, CadenceKeepsPace
    <2> QED  BY <2>4, <2>5, <2>6, <2>8, <2>9
  <1> QED  BY <1>1, <1>2

\* The session's worker, up to the sample it publishes.
LEMMA ClockPollStep ==
  ASSUME ClockInv, heartbeat_now \/ command_heartbeat \/ snapshot_get \/ refresh_snapshot
  PROVE  ClockInv'
  <1> USE DEF ClockInv, hostVars, cadenceVars
  <1>1. CASE heartbeat_now
    <2>1. poll' = [poll EXCEPT !.at = "beat", !.taken = now]
      BY <1>1 DEF heartbeat_now
    <2>2. ClockRecordsTyped' /\ CadenceKeepsPace' /\ StampsHangTogether' /\ BeatHolds'
      BY <1>1, <2>1
      DEF heartbeat_now, ClockRecordsTyped, CadenceKeepsPace, StampsHangTogether, BeatHolds, Polls
    <2>3. PollHolds'
      BY <1>1, <2>1 DEF heartbeat_now, ClockRecordsTyped, PollHolds, Followed, StampedAt
    <2> QED  BY <1>1, <2>1, <2>2, <2>3 DEF heartbeat_now, ClockRecordsTyped
  <1>2. CASE command_heartbeat
    <2>1. beat' = [host |-> poll.taken + Ahead, timeline |-> timeline + Ahead]
      BY <1>2, ClockAssumption DEF command_heartbeat, translate_future_deadline, ClockRecordsTyped
    <2>2. poll' = [poll EXCEPT !.at = "snapshot"]
      BY <1>2 DEF command_heartbeat, Polling
    <2>3. ClockRecordsTyped' /\ CadenceKeepsPace' /\ StampsHangTogether' /\ PollHolds'
      BY <1>2, <2>1, <2>2, ClockAssumption
      DEF command_heartbeat, ClockRecordsTyped, CadenceKeepsPace, StampsHangTogether, PollHolds,
          Followed, StampedAt, Polls
    <2>4. BeatHolds'
      BY <1>2, <2>1, ClockAssumption DEF command_heartbeat, BeatHolds, ClockRecordsTyped, PollHolds
    <2> QED  BY <1>2, <2>2, <2>3, <2>4 DEF command_heartbeat, ClockRecordsTyped
  <1>3. CASE snapshot_get
    <2>1. PICK to \in {"refresh", "stale"} :
            /\ poll' = [at |-> to, seq |-> poll.seq, made |-> sample.made,
                        meas |-> rtClock.at, taken |-> now, rt |-> sample.seq]
            /\ to = "refresh" => now - rtClock.at <= StaleAfter
      BY <1>3 DEF snapshot_get
    <2>2. ClockRecordsTyped' /\ CadenceKeepsPace' /\ StampsHangTogether'
      BY <1>3, <2>1
      DEF snapshot_get, ClockRecordsTyped, CadenceKeepsPace, StampsHangTogether, Polls
    <2>3. BeatHolds'
      BY <1>3 DEF snapshot_get, BeatHolds
    <2>4. PollHolds'
      <3>1. poll'.taken <= now /\ poll'.at \notin {"poll", "beat", "snapshot", "publish"}
        BY <2>1 DEF ClockRecordsTyped
      <3>2. poll'.at = "refresh" => /\ poll'.taken - poll'.made <= StaleAfter
                                    /\ Followed(poll'.rt, poll'.meas)
        BY <2>1, ClockAssumption DEF ClockRecordsTyped, CadenceKeepsPace, Followed
      <3>3. ~ros.stepped /\ node.rt # 0 =>
              /\ Followed(poll.seq, StampedAt)
              /\ poll'.rt # poll'.seq => poll'.meas >= StampedAt + Period
        BY <1>3, <2>1 DEF snapshot_get, PollHolds, Followed, ClockRecordsTyped, CadenceKeepsPace
      <3>4. UNCHANGED <<now, ros, node, rtClock, StampedAt>> /\ poll'.seq = poll.seq
        BY <1>3, <2>1 DEF snapshot_get, StampedAt
      <3> QED  BY <3>1, <3>2, <3>3, <3>4 DEF PollHolds, Followed
    <2> QED  BY <1>3, <2>1, <2>2, <2>3, <2>4 DEF snapshot_get
  <1>4. CASE refresh_snapshot
    <2>1. \/ poll.rt = poll.seq /\ poll' = [NoPoll EXCEPT !.seq = poll.seq]
          \/ poll.rt # poll.seq /\ poll' = [poll EXCEPT !.at = "publish", !.seq = poll.rt, !.rt = now]
      BY <1>4 DEF refresh_snapshot
    <2>2. ClockRecordsTyped' /\ CadenceKeepsPace' /\ StampsHangTogether' /\ BeatHolds'
      BY <1>4, <2>1
      DEF refresh_snapshot, ClockRecordsTyped, CadenceKeepsPace, StampsHangTogether, Polls,
          NoPoll, BeatHolds
    <2>3. PollHolds'
      BY <1>4, <2>1 DEF refresh_snapshot, ClockRecordsTyped, PollHolds, Followed, StampedAt, NoPoll
    <2> QED  BY <1>4, <2>1, <2>2, <2>3 DEF refresh_snapshot, NoPoll, ClockRecordsTyped
  <1> QED  BY <1>1, <1>2, <1>3, <1>4

\* The node: a sample that nobody held up and whose clock nobody stepped is stamped.
LEMMA PublishStep ==
  ASSUME ClockInv, publish_measured
  PROVE  ClockInv'
  <1> USE DEF ClockInv, hostVars, cadenceVars
  <1> DEFINE hold == now - poll.rt
  <1>1. held' \in Nat /\ held' >= held /\ held' >= hold /\ hold \in Nat /\ poll.at = "publish"
    BY DEF publish_measured, ClockRecordsTyped, PollHolds
  <1>2. UNCHANGED <<now, ros, timeline, cadence, sample, rtClock, beat>>
    BY DEF publish_measured
  <1>3. CadenceKeepsPace' /\ BeatHolds'
    BY <1>2 DEF CadenceKeepsPace, BeatHolds
  <1>4. CASE /\ node' = [ros |-> now + ros.off, rt |-> poll.rt, stamp |-> Stamp]
             /\ poll' = [NoPoll EXCEPT !.seq = poll.seq]
    <2>1. ClockRecordsTyped'
      BY <1>1, <1>2, <1>4 DEF ClockRecordsTyped, NoPoll, Polls
    <2>2. StampsHangTogether'
      BY <1>1, <1>2, <1>4 DEF StampsHangTogether, ClockRecordsTyped, Stamp, Age
    <2>3. ~ros.stepped => StampedAt' = poll.meas
      BY <1>1, <1>2, <1>4 DEF StampedAt, Stamp, Age, ClockRecordsTyped, StampsHangTogether
    <2>4. PollHolds'
      BY <1>1, <1>2, <1>4, <2>3 DEF PollHolds, Followed, NoPoll, ClockRecordsTyped
    <2> QED  BY <1>3, <1>4, <2>1, <2>2, <2>4 DEF NoPoll
  <1>5. CASE ~Accepted /\ poll' = [poll EXCEPT !.at = "refused"] /\ node' = node
    <2>1. ClockRecordsTyped' /\ StampsHangTogether' /\ PollHolds'
      BY <1>1, <1>2, <1>5
      DEF ClockRecordsTyped, StampsHangTogether, PollHolds, Followed, StampedAt, Polls
    <2>2. ASSUME ~ros.stepped, held' < Period PROVE Accepted
      <3>1. ros.off = 0 /\ node.ros \in Nat /\ node.rt \in Nat /\ node.stamp \in Int
        BY <2>2 DEF StampsHangTogether
      <3>2. now > 0
        BY <1>2, <1>1 DEF CadenceKeepsPace, ClockRecordsTyped
      <3> QED  BY <1>1, <2>2, <3>1, <3>2, ClockAssumption
               DEF Accepted, Age, Stamp, StampsHangTogether, PollHolds, ClockRecordsTyped, StampedAt
    <2> QED  BY <1>1, <1>2, <1>3, <1>5, <2>1, <2>2, ClockAssumption DEF ClockRecordsTyped
  <1> QED  BY <1>4, <1>5 DEF publish_measured, Polling

LEMMA ClockInductive == ClockInv /\ [ClockNext]_clockVars => ClockInv'
  <1> SUFFICES ASSUME ClockInv, [ClockNext]_clockVars
               PROVE  ClockInv'
    OBVIOUS
  <1>1. CASE ClockNext
    BY <1>1, ClockEnvironmentStep, CadenceStep, ClockPollStep, PublishStep DEF ClockNext
  <1>2. CASE UNCHANGED clockVars
    BY <1>2
    DEF clockVars, hostVars, cadenceVars, pollVars, ClockInv, ClockRecordsTyped,
        CadenceKeepsPace, StampsHangTogether, PollHolds, BeatHolds, Followed, StampedAt
  <1> QED  BY <1>1, <1>2

LEMMA ClockInvariant == ClockSpec => []ClockInv
  BY ClockStart, ClockInductive, PTL DEF ClockSpec

LEMMA ClocksTell == ClockInv => ClocksAgree
  <1> SUFFICES ASSUME ClockInv PROVE ClocksAgree
    OBVIOUS
  <1>1. FreshIsRecent /\ RefusalHasACause
    BY DEF ClockInv, PollHolds, FreshIsRecent, RefusalHasACause
  <1>2. DeadlineNotEarly
    BY ClockAssumption
    DEF ClockInv, BeatHolds, DeadlineNotEarly, ClockRecordsTyped, CadenceKeepsPace
  <1> QED  BY <1>1, <1>2 DEF ClocksAgree

\* The clocks agree for every period, tolerance and step of the ROS clock: a sample
\* taken as fresh is recent in host time, the node refuses one only for a stepped
\* clock or a worker held up for a cycle, and a heartbeat's deadline does not expire
\* early (capture_feedback_clock, publish_measured, translate_future_deadline).
THEOREM ClocksSound == ClockSpec => []ClocksAgree
  BY ClockInvariant, ClocksTell, PTL

\* No clock passes the horizon, and nothing is dated later than the host's clock.
ClockBounded ==
    /\ now <= Horizon /\ timeline \in 1 .. Horizon
    /\ cadence.host <= now
    /\ sample.made \in 1 .. now
    /\ held <= now

LEMMA ClockBoundedKept ==
    ASSUME ClockInv, ClockBounded, [ClockNext]_clockVars
    PROVE  ClockBounded'
  <1> USE ClockAssumption DEF ClockInv, ClockRecordsTyped, ClockBounded, hostVars, cadenceVars,
                              pollVars
  <1>1. CASE time_passes \/ ros_clock_steps
    BY <1>1 DEF time_passes, ros_clock_steps
  <1>2. CASE cadence_wakes
    <2>1. cadence'.host \in {cadence.host, now}
      BY <1>2 DEF cadence_wakes
    <2>2. UNCHANGED <<now, timeline, sample, held>>
      BY <1>2 DEF cadence_wakes
    <2> QED  BY <2>1, <2>2
  <1>3. CASE cadence_advance
    <2>1. sample'.made \in {sample.made, now}
      BY <1>3 DEF cadence_advance
    <2>2. timeline' = timeline + Period /\ timeline' <= Horizon /\ cadence'.host = 0
      BY <1>3 DEF cadence_advance
    <2> QED  BY <1>3, <2>1, <2>2 DEF cadence_advance
  <1>4. CASE heartbeat_now \/ command_heartbeat \/ snapshot_get \/ refresh_snapshot
    BY <1>4 DEF heartbeat_now, command_heartbeat, snapshot_get, refresh_snapshot
  <1>5. CASE publish_measured
    <2>1. held' \in {held, now - poll.rt} /\ UNCHANGED <<now, timeline, cadence, sample>>
      BY <1>5 DEF publish_measured
    <2> QED  BY <2>1
  <1>6. CASE UNCHANGED clockVars
    BY <1>6 DEF clockVars
  <1> QED  BY <1>1, <1>2, <1>3, <1>4, <1>5, <1>6 DEF ClockNext

LEMMA ClockBoundedStarts == ClockInit => ClockBounded
  BY ClockAssumption DEF ClockInit, ClockBounded

LEMMA ClockTyping ==
    ASSUME ClockInv, ClockBounded
    PROVE  ClockTypeOK
  <1>1. ClockRecordsTyped /\ ClockBounded /\ cadence.since <= now /\ Horizon \in Nat \ {0}
    BY ClockAssumption DEF ClockInv, CadenceKeepsPace
  <1>2. /\ now \in Nat \ {0} /\ timeline \in Nat /\ held \in Nat
        /\ cadence.at \in {"wait", "run"} /\ cadence.host \in Nat /\ cadence.since \in Nat
        /\ sample.seq \in Nat /\ sample.made \in Nat
        /\ rtClock.seq \in Nat /\ rtClock.at \in Nat
    BY <1>1 DEF ClockRecordsTyped
  <1>3. now \in 1 .. Horizon /\ held \in 0 .. Horizon /\ sample.made \in 1 .. Horizon
    BY <1>1, <1>2 DEF ClockBounded
  <1>4. {cadence.host, cadence.since} \subseteq 0 .. Horizon
    <2>1. cadence.host <= Horizon /\ cadence.since <= Horizon
      BY <1>1, <1>2 DEF ClockBounded
    <2> QED  BY <1>1, <1>2, <2>1
  <1>5. ros.off \in Int /\ ros.stepped \in BOOLEAN
    <2>1. ros \in [off : {0} \cup ClockSteps, stepped : BOOLEAN]
      BY <1>1 DEF ClockRecordsTyped
    <2>2. ros.off \in {0} \cup ClockSteps /\ ros.stepped \in BOOLEAN
      BY <2>1
    <2>3. ClockSteps \subseteq Int
      BY ClockAssumption
    <2>4. ros.off = 0 => ros.off \in Int
      OBVIOUS
    <2>5. ros.off \in ClockSteps => ros.off \in Int
      BY <2>3, Zenon
    <2>6. ros.off = 0 \/ ros.off \in ClockSteps
      BY <2>2, Zenon
    <2> QED  BY <2>2, <2>4, <2>5, <2>6, Zenon
  <1>6. /\ poll.at \in Polls
        /\ poll.seq \in Nat /\ poll.made \in Nat /\ poll.meas \in Nat
        /\ poll.taken \in Nat /\ poll.rt \in Nat
        /\ beat.host \in Nat /\ beat.timeline \in Nat
    BY <1>1 DEF ClockRecordsTyped
  <1>7. /\ {poll.seq, poll.made, poll.meas, poll.taken, poll.rt} \subseteq Nat
        /\ {beat.host, beat.timeline} \subseteq Nat
    BY <1>6
  <1> QED  BY <1>1, <1>2, <1>3, <1>4, <1>5, <1>6, <1>7 DEF ClockTypeOK, ClockBounded

\* Every clock and every time read from one stays in its range (cadence_advance,
\* publish_measured).
THEOREM ClockTypes == ClockSpec => []ClockTypeOK
  <1>1. ClockInv /\ ClockBounded /\ [ClockNext]_clockVars => ClockBounded'
    BY ClockBoundedKept
  <1>2. ClockInv /\ ClockBounded => ClockTypeOK
    BY ClockTyping
  <1> QED  BY <1>1, <1>2, ClockInvariant, ClockBoundedStarts, PTL DEF ClockSpec
=============================================================================
