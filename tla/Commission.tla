----------------------------- MODULE Commission -----------------------------
(***************************************************************************)
(* The commissioning sessions (calibration_session.cpp, c_api.cpp): the    *)
(* manual session that averages samples at one or two fixtures and the     *)
(* supervised recipe that finds a hard stop twice.                         *)
(*                                                                         *)
(* Positions are output-shaft angles in integer units and the recipe's     *)
(* direction is positive; a sample carries its position, a speed and a     *)
(* torque class and the time since the last one.  What a sample says of    *)
(* E-stop, deadman, temperature, binding and freshness is whether it       *)
(* passes.  A mean is kept as its sum and its count.                       *)
(***************************************************************************)
EXTENDS Integers, FiniteSets

CONSTANTS
    Recipe,      \* recipes a caller may ask for, valid or not
    ManualOption,\* options a caller may ask for
    Angle,       \* positions of a sample
    Gap          \* times between two samples

ASSUME CommissionConstants ==
    /\ Angle \subseteq Int /\ Gap \subseteq Nat \ {0}
    /\ \A r \in Recipe :
         {r.minimum_contact_samples, r.contact_dwell, r.minimum_contact_travel,
          r.maximum_approach_time, r.maximum_retreat_time, r.maximum_approach_travel,
          r.maximum_contact_energy, r.retreat_distance, r.repeatability_tolerance}
           \subseteq Int
    /\ \A o \in ManualOption :
         {o.model[1], o.model[2], o.known_sign, o.minimum_separation,
          o.scale_error_percent} \subseteq Int

VARIABLES
    recipe,   \* recipe_
    phase,    \* state_ of the recipe session
    pos,      \* envelope_start_q_, phase_start_q_ and the last accepted sample
    elapsed,  \* time in the phase and in the contact dwell
    contact,  \* contact_sum_q_, contact_samples_ and the active contact
    stops,    \* first_stop_q_ and second_stop_q_
    energy,   \* contact_energy_j_
    ask,      \* the last next_action
    lowest,   \* history: where the first stop ended and the least position since
    manual    \* the manual session

recipeVars == <<recipe, phase, pos, elapsed, contact, stops, energy, ask, lowest>>
commissionVars == <<recipe, phase, pos, elapsed, contact, stops, energy, ask, lowest, manual>>

Moving == {"APPROACH", "CONTACT_DWELL", "RETREAT", "REAPPROACH"}
Phases == Moving \cup {"none", "PRECHECK", "WAIT", "REPEATABILITY", "CANDIDATE",
                       "REVIEW", "COMMIT", "ABORT", "refused", "destroyed"}
EndedPhases == {"none", "refused", "destroyed", "COMMIT", "ABORT"}
Asks == Moving \cup {"NONE", "HOLD_DISABLED", "REVIEW", "COMMIT_READY", "ABORT_DISABLE"}
NoMean == [sum |-> 0, n |-> 0]
Mean(m, q) == [sum |-> m.sum + q, n |-> m.n + 1]
Abs(x) == IF x < 0 THEN -x ELSE x
\* |a - b| <= d for two means, without division.
Agree(a, b, d) == Abs(a.sum * b.n - b.sum * a.n) <= d * a.n * b.n

CommissionTypeOK ==
    /\ recipe \in Recipe /\ phase \in Phases /\ ask \in Asks
    /\ {pos.start, pos.phase, pos.last, lowest.at, lowest.from} \subseteq Int
    /\ {elapsed.phase, elapsed.dwell, contact.n, stops.first.n, stops.second.n, energy}
         \subseteq Nat
    /\ contact.second \in BOOLEAN
    /\ manual.at \in {"none", "REFERENCE_1", "REFERENCE_2", "CANDIDATE", "REVIEW",
                      "COMMITTED", "ABORTED", "refused", "destroyed"}
    /\ manual.opt \in ManualOption

NoPos == [start |-> 0, phase |-> 0, last |-> 0]
NoTime == [phase |-> 0, dwell |-> 0]
NoContact == [sum |-> 0, n |-> 0, second |-> FALSE]
Mean0 == [first |-> NoMean, second |-> NoMean]
NoManual(o) == [at |-> "none", opt |-> o, acc |-> NoMean, lo |-> 0, hi |-> 0, dwell |-> 0,
                means |-> Mean0, a |-> 0, b |-> 0]

CommissionInit ==
    /\ recipe \in Recipe /\ phase = "none"
    /\ pos = NoPos /\ elapsed = NoTime /\ contact = NoContact
    /\ stops = Mean0 /\ energy = 0
    /\ ask = "NONE" /\ lowest = [from |-> 0, at |-> 0]
    /\ \E o \in ManualOption : manual = NoManual(o)

-----------------------------------------------------------------------------
(* The recipe session.                                                     *)

\* valid_recipe, for the fields the session computes with.
valid_recipe(r) ==
    /\ r.minimum_contact_samples >= 2
    /\ r.contact_dwell > 0 /\ r.maximum_approach_time > 0 /\ r.maximum_retreat_time > 0
    /\ r.start_min < r.start_max
    /\ r.minimum_contact_travel > 0
    /\ r.maximum_approach_travel > r.minimum_contact_travel
    /\ r.retreat_distance \in 1 .. r.maximum_approach_travel
    /\ r.repeatability_tolerance > 0 /\ r.maximum_contact_energy > 0
    /\ r.qualified

recipe_create ==
    /\ phase = "none"
    /\ phase' = IF valid_recipe(recipe) THEN "PRECHECK" ELSE "refused"
    /\ UNCHANGED <<recipe, pos, elapsed, contact, stops, energy, ask, lowest, manual>>

\* A step stays in its phase or moves to one, and asks for the next action.
Step(to, next) == phase' = to /\ ask' = next

\* fail(): every fault latches ABORT.
FailSession ==
    /\ phase' = "ABORT" /\ ask' = "ABORT_DISABLE"
    /\ UNCHANGED <<recipe, pos, elapsed, contact, stops, energy, lowest, manual>>

\* validate_input and validate_binding fail in any phase: malformed, stale,
\* replayed, faulted, hot, or not the qualified fixture and posture.
step_invalid ==
    /\ phase \in Phases \ EndedPhases
    /\ FailSession

\* PRECHECK and WAIT: the drive is disabled until the operator is ready.
step_precheck(q) ==
    /\ phase = "PRECHECK"
    /\ q \in recipe.start_min .. recipe.start_max
    /\ Step("WAIT", "HOLD_DISABLED")
    /\ UNCHANGED <<recipe, pos, elapsed, contact, stops, energy, lowest, manual>>

step_wait(q) ==
    /\ phase = "WAIT"
    /\ \/ /\ Step("APPROACH", "APPROACH")
          /\ pos' = [start |-> q, phase |-> q, last |-> q]
          /\ elapsed' = NoTime
       \/ /\ Step("WAIT", "HOLD_DISABLED")
          /\ UNCHANGED <<pos, elapsed>>
    /\ UNCHANGED <<recipe, contact, stops, energy, lowest, manual>>

\* directional_travel from the start of the envelope and of the phase.
GlobalTravel(q) == q - pos.start
Travel(q) == q - pos.phase

\* contact_evidence: far enough, still, and pushing.
contact_evidence(travel, speed, torque) ==
    travel >= recipe.minimum_contact_travel /\ speed = 0 /\ torque >= 1

\* enforce_motion_limits and update_energy: interlocks, speed and torque pass and
\* the work done against the stop stays under its ceiling.
Work(speed, torque, dt) == speed * torque * dt
\* An energy ceiling tested before the new work is added.
LimitsHoldBefore(speed, torque, dt) == energy <= recipe.maximum_contact_energy

LimitsHold(speed, torque, dt) == energy + Work(speed, torque, dt) <= recipe.maximum_contact_energy

\* A sample of a moving phase: within limits, the envelope and the deadline.
Moved(q, speed, torque, dt) ==
    /\ LimitsHold(speed, torque, dt)
    /\ GlobalTravel(q) \in 0 .. recipe.maximum_approach_travel
    /\ elapsed.phase + dt <= recipe.maximum_approach_time
    /\ energy' = energy + Work(speed, torque, dt)
    /\ pos' = [pos EXCEPT !.last = q]
    /\ lowest' = [lowest EXCEPT !.at = IF q < @ THEN q ELSE @]
    /\ UNCHANGED <<recipe, manual>>

step_approach(q, speed, torque, dt) ==
    /\ phase = "APPROACH"
    /\ \/ /\ Moved(q, speed, torque, dt)
          /\ IF contact_evidence(GlobalTravel(q), speed, torque)
             THEN /\ Step("CONTACT_DWELL", "CONTACT_DWELL")
                  /\ contact' = [sum |-> q, n |-> 1, second |-> FALSE]
                  /\ elapsed' = [phase |-> elapsed.phase + dt, dwell |-> 0]
             ELSE /\ Step("APPROACH", "APPROACH")
                  /\ elapsed' = [elapsed EXCEPT !.phase = @ + dt]
                  /\ UNCHANGED contact
          /\ UNCHANGED stops
       \/ FailSession

\* A dwell is over once it is long enough and has enough samples.
Dwelt(c, dwell) == c.n >= recipe.minimum_contact_samples /\ dwell >= recipe.contact_dwell

step_contact_dwell(q, speed, torque, dt) ==
    LET c == [contact EXCEPT !.sum = @ + q, !.n = @ + 1] IN
    /\ phase = "CONTACT_DWELL"
    /\ \/ /\ LimitsHold(speed, torque, dt)
          /\ GlobalTravel(q) <= recipe.maximum_approach_travel
          /\ elapsed.phase + dt <= recipe.maximum_approach_time
          /\ contact_evidence(GlobalTravel(q), speed, torque)
          /\ energy' = energy + Work(speed, torque, dt)
          /\ contact' = c
          /\ IF Dwelt(c, elapsed.dwell + dt)
             THEN /\ Step("RETREAT", "RETREAT")
                  /\ stops' = [stops EXCEPT !.first = [sum |-> c.sum, n |-> c.n]]
                  /\ pos' = [pos EXCEPT !.last = q, !.phase = q]
                  /\ elapsed' = NoTime
                  /\ lowest' = [from |-> q, at |-> q]
             ELSE /\ Step("CONTACT_DWELL", "CONTACT_DWELL")
                  /\ pos' = [pos EXCEPT !.last = q]
                  /\ elapsed' = [phase |-> elapsed.phase + dt, dwell |-> elapsed.dwell + dt]
                  /\ UNCHANGED <<stops, lowest>>
          /\ UNCHANGED <<recipe, manual>>
       \/ FailSession

step_retreat(q, speed, torque, dt) ==
    /\ phase = "RETREAT"
    /\ \/ /\ -Travel(q) \in 0 .. recipe.retreat_distance + recipe.repeatability_tolerance
          /\ LimitsHold(speed, torque, dt)
          /\ GlobalTravel(q) \in 0 .. recipe.maximum_approach_travel
          /\ elapsed.phase + dt <= recipe.maximum_retreat_time
          /\ energy' = energy + Work(speed, torque, dt)
          /\ lowest' = [lowest EXCEPT !.at = IF q < @ THEN q ELSE @]
          /\ IF -Travel(q) >= recipe.retreat_distance /\ speed = 0
             THEN /\ Step("REAPPROACH", "REAPPROACH")
                  /\ pos' = [pos EXCEPT !.last = q, !.phase = q]
                  /\ elapsed' = NoTime
                  /\ contact' = NoContact
             ELSE /\ Step("RETREAT", "RETREAT")
                  /\ pos' = [pos EXCEPT !.last = q]
                  /\ elapsed' = [elapsed EXCEPT !.phase = @ + dt]
                  /\ UNCHANGED contact
          /\ UNCHANGED <<recipe, stops, manual>>
       \/ FailSession

step_reapproach(q, speed, torque, dt) ==
    LET evidence_ == contact_evidence(Travel(q), speed, torque)
        c == [contact EXCEPT !.sum = @ + q, !.n = @ + 1]
    IN
    /\ phase = "REAPPROACH"
    /\ \/ /\ Travel(q) >= 0
          /\ Moved(q, speed, torque, dt)
          /\ contact.second => evidence_
          /\ IF ~contact.second /\ ~evidence_
             THEN /\ Step("REAPPROACH", "REAPPROACH")
                  /\ elapsed' = [elapsed EXCEPT !.phase = @ + dt]
                  /\ UNCHANGED <<contact, stops>>
             ELSE IF ~contact.second
             THEN /\ Step("REAPPROACH", "CONTACT_DWELL")
                  /\ contact' = [sum |-> q, n |-> 1, second |-> TRUE]
                  /\ elapsed' = [phase |-> elapsed.phase + dt, dwell |-> 0]
                  /\ UNCHANGED stops
             ELSE /\ contact' = c
                  /\ elapsed' = [phase |-> elapsed.phase + dt, dwell |-> elapsed.dwell + dt]
                  /\ IF Dwelt(c, elapsed.dwell + dt)
                     THEN /\ Step("REPEATABILITY", "HOLD_DISABLED")
                          /\ stops' = [stops EXCEPT !.second = [sum |-> c.sum, n |-> c.n]]
                     ELSE Step("REAPPROACH", "CONTACT_DWELL") /\ UNCHANGED stops
       \/ FailSession

\* The two stops agree, with the drive disabled.
step_repeatability ==
    /\ phase = "REPEATABILITY"
    /\ \/ /\ Agree(stops.first, stops.second, recipe.repeatability_tolerance)
          /\ Step("CANDIDATE", "REVIEW")
          /\ UNCHANGED <<recipe, pos, elapsed, contact, stops, energy, lowest, manual>>
       \/ FailSession

\* CANDIDATE waits for the reviewer, REVIEW for the commit.
step_review ==
    /\ \/ phase = "CANDIDATE" /\ Step("CANDIDATE", "REVIEW")
       \/ phase = "CANDIDATE" /\ Step("REVIEW", "COMMIT_READY")
       \/ phase = "REVIEW" /\ Step("REVIEW", "COMMIT_READY")
    /\ UNCHANGED <<recipe, pos, elapsed, contact, stops, energy, lowest, manual>>

recipe_commit ==
    /\ phase = "REVIEW"
    /\ phase' = "COMMIT"
    /\ UNCHANGED <<recipe, pos, elapsed, contact, stops, energy, ask, lowest, manual>>

recipe_abort ==
    /\ phase \notin EndedPhases
    /\ phase' = "ABORT"
    /\ UNCHANGED <<recipe, pos, elapsed, contact, stops, energy, ask, lowest, manual>>

recipe_destroy ==
    /\ phase \notin {"none", "refused", "destroyed"}
    /\ phase' = "destroyed"
    /\ UNCHANGED <<recipe, pos, elapsed, contact, stops, energy, ask, lowest, manual>>

-----------------------------------------------------------------------------
(* The manual session.                                                     *)

\* valid_manual_options, for the fields the session computes with.
valid_manual_options(o) ==
    /\ o.reference_count \in {1, 2}
    /\ o.minimum_samples >= 2 /\ o.stability_dwell > 0
    /\ o.maximum_spread > 0 /\ o.minimum_separation > 0
    /\ o.scale_error_percent \in 0 .. 99
    /\ o.known_sign \in IF o.reference_count = 1 THEN {-1, 1} ELSE {-1, 0, 1}

manual_create ==
    /\ manual.at = "none"
    /\ manual' = [manual EXCEPT !.at =
                    IF valid_manual_options(manual.opt) THEN "REFERENCE_1" ELSE "refused"]
    /\ UNCHANGED recipeVars

Collecting == manual.at \in {"REFERENCE_1", "REFERENCE_2"}

\* A stale, replayed, malformed or enabled-drive sample: latch_abort().
manual_sample_invalid ==
    /\ Collecting
    /\ manual' = [NoManual(manual.opt) EXCEPT !.at = "ABORTED"]
    /\ UNCHANGED recipeVars

\* A fast sample discards what was collected.
manual_sample_fast ==
    /\ Collecting
    /\ manual' = [manual EXCEPT !.acc = NoMean]
    /\ UNCHANGED recipeVars

\* SampleAccumulator::reset and add: the first sample starts the dwell, and one
\* that spreads too far starts it again.
Collected(q, dt) ==
    LET lo == IF q < manual.lo THEN q ELSE manual.lo
        hi == IF q > manual.hi THEN q ELSE manual.hi
    IN  IF manual.acc.n = 0 \/ hi - lo > manual.opt.maximum_spread
        THEN [manual EXCEPT !.acc = Mean(NoMean, q), !.lo = q, !.hi = q, !.dwell = 0]
        ELSE [manual EXCEPT !.acc = Mean(@, q), !.lo = lo, !.hi = hi, !.dwell = @ + dt]

\* The difference of the two means, over the product of their counts.
OutputDelta(m) == m.second.sum * m.first.n - m.first.sum * m.second.n

\* calculate_candidate's sign: 0 when the references are too close, too unlike the
\* model's distance, or contradict the known sign (ELIMIT, the session collects on).
CandidateSign(m, o) ==
    LET n     == m.first.n * m.second.n
        delta == OutputDelta(m)
        model == (o.model[2] - o.model[1]) * n
        sign  == IF (delta >= 0) = (model >= 0) THEN 1 ELSE -1
    IN  IF o.reference_count = 1 THEN o.known_sign
        ELSE IF /\ Abs(delta) >= o.minimum_separation * n
                /\ Abs(model) >= o.minimum_separation * n
                /\ 100 * Abs(Abs(model) - Abs(delta)) <= o.scale_error_percent * Abs(delta)
                /\ o.known_sign \in {0, sign}
        THEN sign ELSE 0

\* candidate_b_ over n, twice the product of the counts: the mean of the offsets
\* at the two references, or the offset at the one.
CandidateOffset(m, o, a) ==
    IF o.reference_count = 1 THEN o.model[1] * m.first.n - a * m.first.sum
    ELSE (o.model[1] + o.model[2]) * m.first.n * m.second.n
           - a * (m.first.sum * m.second.n + m.second.sum * m.first.n)

\* sample(), with finish_reference and calculate_candidate once the dwell is over.
\* Each reference has its own accumulator; the bound on samples is the model's.
manual_sample(q, dt) ==
    LET m     == Collected(q, dt)
        full  == m.acc.n >= m.opt.minimum_samples /\ m.dwell >= m.opt.stability_dwell
        second == manual.at = "REFERENCE_2"
        means == IF second THEN [m.means EXCEPT !.second = m.acc]
                           ELSE [m.means EXCEPT !.first = m.acc]
        a     == CandidateSign(means, m.opt)
    IN
    /\ Collecting
    /\ m.acc.n <= m.opt.minimum_samples + 1
    /\ manual' = IF ~full THEN m
                 ELSE IF ~second /\ m.opt.reference_count = 2
                 THEN [m EXCEPT !.at = "REFERENCE_2", !.means = means, !.acc = NoMean]
                 ELSE IF a = 0 THEN [m EXCEPT !.means = means]
                 ELSE [m EXCEPT !.at = "CANDIDATE", !.means = means, !.a = a,
                                !.b = CandidateOffset(means, m.opt, a)]
    /\ UNCHANGED recipeVars

manual_begin_review ==
    /\ manual.at = "CANDIDATE"
    /\ manual' = [manual EXCEPT !.at = "REVIEW"]
    /\ UNCHANGED recipeVars

\* commit(): one newer revision, and the patch is filled once.
manual_commit ==
    /\ manual.at = "REVIEW"
    /\ manual' = [manual EXCEPT !.at = "COMMITTED"]
    /\ UNCHANGED recipeVars

\* abort() zeroes the candidate, not the means.
manual_abort ==
    /\ manual.at \notin {"none", "refused", "destroyed", "COMMITTED", "ABORTED"}
    /\ manual' = [manual EXCEPT !.at = "ABORTED", !.a = 0, !.b = 0]
    /\ UNCHANGED recipeVars

\* The registry forgets the handle: later calls with it return EINVAL.
manual_destroy ==
    /\ manual.at \notin {"none", "refused", "destroyed"}
    /\ manual' = [NoManual(manual.opt) EXCEPT !.at = "destroyed"]
    /\ UNCHANGED recipeVars

-----------------------------------------------------------------------------

\* oa_commission_recipe_step: one sample, in whichever phase the session is.
oa_commission_recipe_step ==
    \/ step_invalid \/ step_repeatability \/ step_review
    \/ \E q \in Angle : step_precheck(q) \/ step_wait(q)
    \/ \E q \in Angle, speed \in {0, 1}, torque \in {0, 1}, dt \in Gap :
         \/ step_approach(q, speed, torque, dt) \/ step_contact_dwell(q, speed, torque, dt)
         \/ step_retreat(q, speed, torque, dt) \/ step_reapproach(q, speed, torque, dt)

\* oa_commission_manual_sample: one sample for the active reference.
oa_commission_manual_sample ==
    \/ manual_sample_invalid \/ manual_sample_fast
    \/ \E q \in Angle, dt \in Gap : manual_sample(q, dt)

RecipeStep ==
    recipe_create \/ oa_commission_recipe_step \/ recipe_commit \/ recipe_abort \/ recipe_destroy

ManualStep ==
    \/ manual_create \/ oa_commission_manual_sample
    \/ manual_begin_review \/ manual_commit \/ manual_abort \/ manual_destroy

CommissionNext == RecipeStep \/ ManualStep
CommissionSpec == CommissionInit /\ [][CommissionNext]_commissionVars

-----------------------------------------------------------------------------
(* What is checked.                                                        *)

\* While the session lets the drive move, the last accepted sample lies in the
\* travel envelope opened when the operator was ready and the work done against
\* the stop is under its ceiling, over approach, dwell, retreat and reapproach.
InsideEnvelope ==
    phase \in Moving =>
        /\ pos.last - pos.start \in 0 .. recipe.maximum_approach_travel
        /\ energy <= recipe.maximum_contact_energy

\* A candidate rests on two separate findings of the stop: each has its samples,
\* they agree, and between them the arm came back by the retreat distance from
\* where the first ended and travelled the least contact travel to the second.
TwoIndependentStops ==
    phase \in {"CANDIDATE", "REVIEW", "COMMIT"} =>
        /\ \A s \in {stops.first, stops.second} : s.n >= recipe.minimum_contact_samples
        /\ Agree(stops.first, stops.second, recipe.repeatability_tolerance)
        /\ lowest.at <= lowest.from - recipe.retreat_distance
        /\ stops.second.sum >= (lowest.at + recipe.minimum_contact_travel) * stops.second.n

\* A manual candidate maps each fixture's mean to the fixture's model angle, up to
\* half the scale error allowed between the two of them.
CandidateFits ==
    LET o == manual.opt
        m == manual.means
        n == m.first.n * m.second.n
        Off(mean, other, model) == 2 * manual.a * mean.sum * other.n + manual.b - 2 * model * n
    IN
    manual.at \in {"CANDIDATE", "REVIEW", "COMMITTED"} =>
        IF o.reference_count = 1
        THEN manual.a * m.first.sum + manual.b = o.model[1] * m.first.n
        ELSE /\ 100 * Abs(Off(m.first, m.second, o.model[1]))
                  <= o.scale_error_percent * Abs(OutputDelta(m))
             /\ 100 * Abs(Off(m.second, m.first, o.model[2]))
                  <= o.scale_error_percent * Abs(OutputDelta(m))

\* Motion is bounded and a candidate rests on evidence (oa_commission_recipe_step,
\* oa_commission_manual_sample).
CommissionSafe == InsideEnvelope /\ TwoIndependentStops /\ CandidateFits
=============================================================================
