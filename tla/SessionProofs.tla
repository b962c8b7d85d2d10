---------------------------- MODULE SessionProofs ----------------------------
(***************************************************************************)
(* Proofs about VirtualSession, for every number of goals: one command at  *)
(* a time, answered at most once and only when the runtime has stopped it. *)
(*                                                                         *)
(* The argument: a submitted command that is not answered (Submitted) owns *)
(* the session, so there is one, and it is in one place: pending_, active_ *)
(* or the worker's hand.  The runtime executes only the active command,    *)
(* and an event of a command is evidence that the runtime has left it.     *)
(***************************************************************************)
EXTENDS VirtualSession, TLAPS

\* The commands that wait for their answer.
Submitted == {g \in Goal : caller[g] = "submitted"}

\* The runtime will execute nothing more.
Dead == rt.life \in {"DISARMED", "FAULT"}

RuntimeRecord == [life: Lives, goal: MaybeGoal, published: Seq(Events), ring: Seq(Events)]

SessionTyped == SessionTypeOK /\ rt \in RuntimeRecord

\* What the callers know agrees with the answers.
Bookkept ==
    \A g \in Goal :
        /\ done[g] \in {0, 1}
        /\ done[g] = 1 => caller[g] = "ended"
        /\ g \in accepted <=> caller[g] = "submitted" \/ done[g] = 1

\* The one submitted command owns the session, or the session takes no other.
SubmittedOwns ==
    /\ \A g, h \in Submitted : g = h
    /\ \A g \in Submitted : owner = g \/ (owner = NoGoal /\ (adapter = "fault" \/ closing))

\* The slots hold the submitted command, one of them.
SlotsHold ==
    /\ pending \in Submitted \cup {NoGoal} /\ active \in Submitted \cup {NoGoal}
    /\ pending = NoGoal \/ active = NoGoal
    /\ w.at \in {"shutdown", "shutdown_answer"} => closing

\* Where the worker goes on when the ring is empty.
Returns == {"cancel_check", "refresh", "heartbeat", "heartbeat_check", "poll"}

\* The worker's hand: what it has captured or taken.
HandHolds ==
    /\ w.at \in {"gripper", "plan", "answer"} =>
         w.goal \in Submitted /\ pending = NoGoal /\ active = NoGoal
    /\ w.at \in {"fault_answer", "shutdown_answer"} =>
         active = NoGoal /\ (w.goal # NoGoal => w.goal \in Submitted /\ pending = NoGoal)
    /\ w.at \in {"cancel_stop", "cancel_answer"} /\ w.goal # NoGoal =>
         IF w.held THEN active = w.goal ELSE pending = w.goal
    /\ w.at \in {"drain", "cancel_check"} /\ w.goal # NoGoal =>
         IF w.held THEN active \in {w.goal, NoGoal} ELSE pending = w.goal
    /\ w.at = "complete" =>
         /\ active # NoGoal /\ ending = active /\ rt.goal = NoGoal
         /\ w.goal # NoGoal => w.held /\ active = w.goal
    /\ w.at \in {"fault", "fault_answer"} => w.ret \in {"pending", "exit"}
    /\ w.at \in {"drain", "complete"} => w.ret \in Returns

\* A faulted session: where its worker can be.
FaultedEnds ==
    /\ w.at = "fault_answer" => adapter = "fault"
    /\ adapter = "fault" =>
        /\ active = NoGoal
        /\ w.at \in {"pending", "gripper", "plan", "answer", "fault", "fault_answer", "refresh",
                     "shutdown_answer", "exit", "exited"}
        /\ w.at = "fault" => w.ret = "exit" /\ ending = NoGoal
        /\ w.at \in {"pending", "gripper", "plan", "answer"} => Dead

\* terminalizing_owner_ is the command being answered, while it is.
EndingHeld ==
    ending # NoGoal =>
        /\ ending \in Submitted
        /\ w.at \in {"cancel_stop", "cancel_check", "cancel_answer", "drain", "complete", "fault",
                     "answer", "fault_answer", "shutdown_answer"}
        /\ w.at \in {"cancel_stop", "cancel_check", "cancel_answer", "drain"} =>
             ending = w.goal /\ (w.held => active = w.goal)

\* The runtime executes the active command only.
ExecutesActive ==
    /\ rt.goal # NoGoal <=> rt.life = "EXECUTING"
    /\ rt.goal \in {active, NoGoal}
    /\ snap \in {"DISARMED", "FAULT"} => Dead
    /\ w.at \in {"cancel_check", "cancel_answer", "fault_answer", "shutdown_answer"} => Dead
    /\ w.at \in {"drain", "complete"} /\ w.ret = "cancel_check" => Dead
    /\ w.at \in {"drain", "complete"} /\ w.goal # NoGoal => w.ret = "cancel_check"

\* The events the runtime has published and the session has not polled.
Unpolled == {rt.published[i] : i \in DOMAIN rt.published} \cup {rt.ring[i] : i \in DOMAIN rt.ring}

\* An event of a command says that the runtime has left it.
EventsAreOver ==
    \A e \in Unpolled : e.goal # NoGoal =>
        /\ e.goal # rt.goal
        /\ e.goal = active \/ Dead \/ done[e.goal] = 1

SessionInv ==
    /\ SessionTyped /\ Bookkept /\ SubmittedOwns /\ SlotsHold /\ HandHolds /\ FaultedEnds
    /\ EndingHeld /\ ExecutesActive /\ EventsAreOver /\ NoLeakedReservation

-----------------------------------------------------------------------------
(* Types.                                                                  *)

WorkerRecord == [at: WorkerSteps, ret: WorkerSteps, goal: MaybeGoal, held: BOOLEAN, ok: BOOLEAN,
                 out: Outcomes]

LEMMA SessionWorkerTyped ==
    /\ \A at \in WorkerSteps : /\ Worker(at) \in WorkerRecord /\ Worker(at).at = at
                               /\ Worker(at).goal = NoGoal /\ Worker(at).held = FALSE
                               /\ Worker(at).ret = "poll" /\ Worker(at).out = "none"
    /\ \A next \in WorkerSteps : /\ Fail(next) \in WorkerRecord /\ Fail(next).at = "fault"
                                 /\ Fail(next).goal = NoGoal /\ Fail(next).ret = next
  <1>1. \A at \in WorkerSteps : /\ Worker(at) \in WorkerRecord /\ Worker(at).at = at
                               /\ Worker(at).goal = NoGoal /\ Worker(at).held = FALSE
                               /\ Worker(at).ret = "poll" /\ Worker(at).out = "none"
    BY DEF Worker, WorkerRecord, WorkerSteps, MaybeGoal, Outcomes
  <1>2. "fault" \in WorkerSteps
    BY DEF WorkerSteps
  <1>3. ASSUME NEW next \in WorkerSteps
        PROVE  /\ Fail(next) \in WorkerRecord /\ Fail(next).at = "fault"
               /\ Fail(next).goal = NoGoal /\ Fail(next).ret = next
    <2>1. Fail(next) = [Worker("fault") EXCEPT !.ret = next]
      BY DEF Fail
    <2> QED  BY <1>1, <1>2, <2>1 DEF WorkerRecord
  <1> QED  BY <1>1, <1>3

\* A stopped runtime executes nothing.
LEMMA StoppedTyped ==
    ASSUME NEW r \in RuntimeRecord
    PROVE  /\ Stopped(r) \in RuntimeRecord /\ Stopped(r).goal = NoGoal
           /\ Stopped(r).life \in {"DISARMED", "FAULT"} /\ Stopped(r).ring = r.ring
           /\ Stopped(r).published \in Seq(Events)
           /\ \/ Stopped(r).published = r.published
              \/ /\ r.life = "EXECUTING"
                 /\ Stopped(r).published = Append(r.published, [kind |-> "STOPPED", goal |-> r.goal])
  <1> DEFINE life == IF r.life \in {"ARMED_IDLE", "EXECUTING"} THEN "DISARMED" ELSE r.life
             pub == IF r.life = "EXECUTING"
                    THEN Append(r.published, [kind |-> "STOPPED", goal |-> r.goal])
                    ELSE r.published
  <1>1. Stopped(r) = [r EXCEPT !.life = life, !.goal = NoGoal, !.published = pub]
    BY DEF Stopped, RuntimeRecord
  <1>2. life \in {"DISARMED", "FAULT"} /\ life \in Lives
    BY DEF RuntimeRecord, Lives
  <1>3. pub \in Seq(Events)
    <2> DEFINE e == [kind |-> "STOPPED", goal |-> r.goal]
    <2>1. e \in Events /\ r.published \in Seq(Events)
      BY DEF RuntimeRecord, Events
    <2> HIDE DEF e
    <2>2. Append(r.published, e) \in Seq(Events)
      BY <2>1
    <2> QED  BY <2>1, <2>2 DEF e
  <1> HIDE DEF life, pub
  <1>4. /\ Stopped(r) \in RuntimeRecord /\ Stopped(r).goal = NoGoal
        /\ Stopped(r).life = life /\ Stopped(r).ring = r.ring /\ Stopped(r).published = pub
    BY <1>1, <1>2, <1>3 DEF RuntimeRecord, MaybeGoal
  <1>5. pub = r.published \/ (r.life = "EXECUTING"
                              /\ pub = Append(r.published, [kind |-> "STOPPED", goal |-> r.goal]))
    BY DEF pub
  <1> QED  BY <1>2, <1>3, <1>4, <1>5

-----------------------------------------------------------------------------
(* Answers.                                                                *)

\* The callers and the answers stay.
LEMMA CallersStay ==
    ASSUME SessionInv, UNCHANGED <<caller, accepted, done, outcome, kind>>, owner' \in {owner, NoGoal}
    PROVE  /\ Bookkept' /\ NoLeakedReservation' /\ Submitted' = Submitted
           /\ caller' \in [Goal -> {"new", "reserved", "refused", "submitted", "ended"}]
           /\ done' \in [Goal -> 0 .. 2] /\ outcome' \in [Goal -> Outcomes]
           /\ kind' \in [Goal -> Kinds] /\ accepted' \subseteq Goal
  BY DEF SessionInv, SessionTyped, SessionTypeOK, Bookkept, NoLeakedReservation, Submitted

\* The submitted command is answered: nobody waits any longer.
LEMMA AnswerMoves ==
    ASSUME SessionInv, NEW g \in Submitted, NEW out \in Outcomes, Answer(g, out), UNCHANGED accepted,
           owner' \in {owner, NoGoal}, owner' # g
    PROVE  /\ Bookkept' /\ NoLeakedReservation' /\ Submitted' = {}
           /\ caller' \in [Goal -> {"new", "reserved", "refused", "submitted", "ended"}]
           /\ done' \in [Goal -> 0 .. 2] /\ outcome' \in [Goal -> Outcomes]
           /\ kind' \in [Goal -> Kinds] /\ accepted' \subseteq Goal
           /\ done'[g] = 1 /\ \A h \in Goal : done[h] = 1 => done'[h] = 1
           /\ g \in accepted /\ done[g] = 0 /\ done' = [done EXCEPT ![g] = 1]
  <1>1. /\ g \in Goal /\ g # NoGoal /\ caller[g] = "submitted" /\ done[g] = 0 /\ g \in accepted
        /\ \A h \in Goal : caller[h] = "submitted" => h = g
    BY SessionConstants DEF SessionInv, Bookkept, Submitted, SubmittedOwns
  <1>2. /\ done' = [done EXCEPT ![g] = done[g] + 1] /\ outcome' = [outcome EXCEPT ![g] = out]
        /\ caller' = [caller EXCEPT ![g] = "ended"] /\ kind' = [kind EXCEPT ![g] = "joint"]
    BY <1>1 DEF Answer
  <1>3. /\ caller' \in [Goal -> {"new", "reserved", "refused", "submitted", "ended"}]
        /\ done' \in [Goal -> 0 .. 2] /\ outcome' \in [Goal -> Outcomes]
        /\ kind' \in [Goal -> Kinds] /\ accepted' \subseteq Goal
        /\ done'[g] = 1 /\ \A h \in Goal : done[h] = 1 => done'[h] = 1
        /\ done' = [done EXCEPT ![g] = 1]
    BY <1>1, <1>2 DEF SessionInv, SessionTyped, SessionTypeOK, Kinds
  <1>4. Bookkept' /\ Submitted' = {}
    BY <1>1, <1>2 DEF SessionInv, SessionTyped, SessionTypeOK, Bookkept, Submitted
  <1>5. NoLeakedReservation'
    BY <1>1, <1>2 DEF SessionInv, SessionTyped, SessionTypeOK, NoLeakedReservation, MaybeGoal
  <1> QED  BY <1>1, <1>3, <1>4, <1>5

\* Giving the session back takes it from its command.
LEMMA DisownMoves ==
    ASSUME SessionInv, NEW g \in Submitted, Disown(g)
    PROVE  owner' \in {owner, NoGoal} /\ owner' # g
  BY SessionConstants DEF Disown, Submitted

\* What the rings hold are events.
LEMMA UnpolledTyped == ASSUME SessionTyped PROVE Unpolled \subseteq Events
  <1>1. rt.published \in Seq(Events) /\ rt.ring \in Seq(Events)
    BY DEF SessionTyped, RuntimeRecord
  <1>2. /\ \A i \in DOMAIN rt.published : rt.published[i] \in Events
        /\ \A i \in DOMAIN rt.ring : rt.ring[i] \in Events
    BY <1>1
  <1> QED  BY <1>2 DEF Unpolled

\* The runtime and its command stay.
LEMMA EventsStay ==
    ASSUME SessionInv, UNCHANGED rt, active' \in {active, NoGoal},
           \A h \in Goal : done[h] = 1 => done'[h] = 1,
           active' # active => Dead \/ (active \in Goal /\ done'[active] = 1)
    PROVE  EventsAreOver'
  <1> SUFFICES ASSUME NEW e \in Unpolled, e.goal # NoGoal
               PROVE  e.goal # rt.goal /\ (e.goal = active' \/ Dead \/ done'[e.goal] = 1)
    BY DEF EventsAreOver, Unpolled, Dead
  <1>1. e.goal # rt.goal /\ (e.goal = active \/ Dead \/ done[e.goal] = 1) /\ e.goal \in MaybeGoal
    BY UnpolledTyped DEF SessionInv, EventsAreOver, Events
  <1> QED  BY <1>1 DEF MaybeGoal

\* The events a stop adds are of the command it stopped.
LEMMA EventsStop ==
    ASSUME SessionInv, rt' = Stopped(rt) \/ rt' = [Stopped(rt) EXCEPT !.ring = <<>>]
    PROVE  /\ EventsAreOver' /\ rt' \in RuntimeRecord /\ rt'.goal = NoGoal /\ Dead'
           /\ rt'.life \in Lives /\ rt'.published \in Seq(Events) /\ rt'.ring \in Seq(Events)
  <1>1. rt' \in RuntimeRecord /\ rt'.goal = NoGoal /\ Dead'
    <2> DEFINE s == Stopped(rt)
    <2>1. s \in RuntimeRecord /\ s.goal = NoGoal /\ s.life \in {"DISARMED", "FAULT"}
      BY StoppedTyped DEF SessionInv, SessionTyped
    <2> HIDE DEF s
    <2>2. rt' = s \/ rt' = [s EXCEPT !.ring = <<>>]
      BY DEF s
    <2>3. <<>> \in Seq(Events)
      OBVIOUS
    <2>4. rt' \in RuntimeRecord /\ rt'.goal = s.goal /\ rt'.life = s.life
      BY <2>1, <2>2, <2>3 DEF RuntimeRecord
    <2> QED  BY <2>1, <2>4 DEF Dead
  <1>2. EventsAreOver'
    BY <1>1 DEF EventsAreOver
  <1> QED  BY <1>1, <1>2 DEF RuntimeRecord

-----------------------------------------------------------------------------
(* The steps of the callers and of the runtime.                            *)

LEMMA ReserveStep ==
    ASSUME SessionInv, NEW g \in Goal, reserve(g)
    PROVE  SessionInv'
  <1>1. /\ caller[g] = "new" /\ owner = NoGoal /\ owner' = g /\ adapter' = "reserved" /\ news' = TRUE
        /\ ~closing /\ adapter # "fault" /\ caller' = [caller EXCEPT ![g] = "reserved"]
        /\ UNCHANGED <<pending, active, cancelling, cancelled, ending, closing, workerVars,
                       kind, accepted, done, outcome>>
    BY DEF reserve, answerVars
  <1>2. Submitted = {} /\ Submitted' = {}
    BY <1>1, SessionConstants DEF SessionInv, SessionTyped, SessionTypeOK, SubmittedOwns, Submitted
  <1>3. SessionTyped'
    BY <1>1 DEF SessionInv, SessionTyped, SessionTypeOK, workerVars, MaybeGoal, AdapterStates
  <1>4. Bookkept' /\ NoLeakedReservation'
    BY <1>1 DEF SessionInv, SessionTyped, SessionTypeOK, Bookkept, NoLeakedReservation
  <1>5. SubmittedOwns' /\ SlotsHold' /\ HandHolds' /\ FaultedEnds' /\ EndingHeld'
    BY <1>1, <1>2 DEF SessionInv, SubmittedOwns, SlotsHold, HandHolds, FaultedEnds, EndingHeld, workerVars
  <1>6. ExecutesActive' /\ EventsAreOver'
    BY <1>1 DEF SessionInv, ExecutesActive, EventsAreOver, Unpolled, Dead, workerVars
  <1> QED  BY <1>3, <1>4, <1>5, <1>6 DEF SessionInv

LEMMA SubmitStep ==
    ASSUME SessionInv, NEW g \in Goal, submit(g)
    PROVE  SessionInv'
  <1>1. /\ caller[g] = "reserved" /\ done[g] = 0
        /\ UNCHANGED <<owner, adapter, active, cancelling, cancelled, ending, closing, news,
                       snap, w, rt, done, outcome>>
    BY DEF submit, workerVars, SessionInv, Bookkept
  <1>2. CASE /\ ~closing /\ owner = g /\ pending = NoGoal /\ active = NoGoal
             /\ pending' = g /\ accepted' = accepted \cup {g}
             /\ \E k \in Kinds : kind' = [kind EXCEPT ![g] = k]
             /\ caller' = [caller EXCEPT ![g] = "submitted"]
    <2>1. Submitted = {} /\ Submitted' = {g} /\ g # NoGoal
      BY <1>1, <1>2, SessionConstants
      DEF SessionInv, SessionTyped, SessionTypeOK, SubmittedOwns, Submitted
    <2>2. SessionTyped'
      BY <1>1, <1>2 DEF SessionInv, SessionTyped, SessionTypeOK, MaybeGoal
    <2>3. Bookkept' /\ NoLeakedReservation'
      BY <1>1, <1>2 DEF SessionInv, SessionTyped, SessionTypeOK, Bookkept, NoLeakedReservation
    <2>4. SubmittedOwns' /\ SlotsHold' /\ FaultedEnds' /\ EndingHeld'
      BY <1>1, <1>2, <2>1 DEF SessionInv, SubmittedOwns, SlotsHold, FaultedEnds, EndingHeld, Dead
    <2>5. HandHolds'
      BY <1>1, <1>2, <2>1 DEF SessionInv, SlotsHold, HandHolds
    <2>6. ExecutesActive' /\ EventsAreOver'
      BY <1>1 DEF SessionInv, ExecutesActive, EventsAreOver, Unpolled, Dead
    <2> QED  BY <2>2, <2>3, <2>4, <2>5, <2>6 DEF SessionInv
  <1>3. CASE caller' = [caller EXCEPT ![g] = "refused"] /\ UNCHANGED <<pending, accepted, kind>>
    <2>1. Submitted' = Submitted
      BY <1>1, <1>3 DEF SessionInv, SessionTyped, SessionTypeOK, Submitted
    <2>2. SessionTyped'
      BY <1>1, <1>3 DEF SessionInv, SessionTyped, SessionTypeOK, MaybeGoal
    <2>3. Bookkept' /\ NoLeakedReservation'
      BY <1>1, <1>3 DEF SessionInv, SessionTyped, SessionTypeOK, Bookkept, NoLeakedReservation
    <2>4. SubmittedOwns' /\ SlotsHold' /\ FaultedEnds' /\ EndingHeld' /\ HandHolds'
      BY <1>1, <1>3, <2>1 DEF SessionInv, SubmittedOwns, SlotsHold, HandHolds, FaultedEnds, EndingHeld, Dead
    <2>5. ExecutesActive' /\ EventsAreOver'
      BY <1>1 DEF SessionInv, ExecutesActive, EventsAreOver, Unpolled, Dead
    <2> QED  BY <2>2, <2>3, <2>4, <2>5 DEF SessionInv
  <1> QED  BY <1>2, <1>3 DEF submit

LEMMA ReleaseStep ==
    ASSUME SessionInv, NEW g \in Goal, release(g)
    PROVE  SessionInv'
  <1>1. /\ caller[g] = "refused" /\ caller' = [caller EXCEPT ![g] = "ended"]
        /\ UNCHANGED <<pending, active, cancelling, ending, closing, snap, w, rt, kind, accepted,
                       done, outcome>>
    BY DEF release, workerVars, answerVars
  <1>2. \/ /\ owner = g /\ owner' = NoGoal /\ cancelled' \in {NoGoal, cancelled} /\ news' = TRUE
           /\ adapter' \in {adapter, "idle"} /\ (adapter = "fault" => adapter' = "fault")
        \/ owner # g /\ UNCHANGED <<owner, cancelled, adapter, news>>
    <2>1. owner = g => pending = NoGoal /\ active = NoGoal /\ ending = NoGoal
      BY <1>1, SessionConstants DEF SessionInv, SubmittedOwns, SlotsHold, EndingHeld, Submitted
    <2> QED  BY <2>1 DEF release
  <1>3. Submitted' = Submitted /\ (owner = g => Submitted = {})
    BY <1>1, SessionConstants
    DEF SessionInv, SessionTyped, SessionTypeOK, SubmittedOwns, Submitted
  <1>4. SessionTyped'
    <2>1. /\ owner' \in MaybeGoal /\ adapter' \in AdapterStates /\ cancelled' \in MaybeGoal
          /\ news' \in BOOLEAN
      BY <1>2 DEF SessionInv, SessionTyped, SessionTypeOK, MaybeGoal, AdapterStates
    <2>2. caller' \in [Goal -> {"new", "reserved", "refused", "submitted", "ended"}]
      BY <1>1 DEF SessionInv, SessionTyped, SessionTypeOK
    <2> QED  BY <1>1, <2>1, <2>2 DEF SessionInv, SessionTyped, SessionTypeOK
  <1>5. Bookkept' /\ NoLeakedReservation'
    BY <1>1, <1>2 DEF SessionInv, SessionTyped, SessionTypeOK, Bookkept, NoLeakedReservation
  <1>6. SubmittedOwns' /\ SlotsHold' /\ HandHolds' /\ FaultedEnds' /\ EndingHeld'
    BY <1>1, <1>2, <1>3
    DEF SessionInv, SubmittedOwns, SlotsHold, HandHolds, FaultedEnds, EndingHeld, Dead
  <1>7. ExecutesActive' /\ EventsAreOver'
    BY <1>1 DEF SessionInv, ExecutesActive, EventsAreOver, Unpolled, Dead
  <1> QED  BY <1>4, <1>5, <1>6, <1>7 DEF SessionInv

LEMMA CancelStep ==
    ASSUME SessionInv, (\E g \in Goal : cancel(g)) \/ close
    PROVE  SessionInv'
  <1>1. /\ UNCHANGED <<owner, pending, active, cancelled, ending, news, snap, w, rt, caller, kind,
                       accepted, done, outcome>>
        /\ cancelling' \in MaybeGoal /\ closing' \in BOOLEAN /\ (closing => closing')
        /\ adapter' \in {adapter, "closing"} /\ (adapter = "fault" => adapter' = "fault")
    BY DEF cancel, close, workerVars, answerVars, MaybeGoal, SessionInv, SessionTyped, SessionTypeOK
  <1>2. Bookkept' /\ NoLeakedReservation' /\ Submitted' = Submitted
    BY <1>1, CallersStay
  <1>3. SessionTyped'
    BY <1>1 DEF SessionInv, SessionTyped, SessionTypeOK, AdapterStates
  <1>4. SubmittedOwns' /\ SlotsHold' /\ HandHolds' /\ FaultedEnds' /\ EndingHeld'
    BY <1>1, <1>2
    DEF SessionInv, SubmittedOwns, SlotsHold, HandHolds, FaultedEnds, EndingHeld, Dead
  <1>5. ExecutesActive' /\ EventsAreOver'
    BY <1>1 DEF SessionInv, ExecutesActive, EventsAreOver, Unpolled, Dead
  <1> QED  BY <1>2, <1>3, <1>4, <1>5 DEF SessionInv

\* The runtime leaves its command and publishes that it has.
LEMMA RuntimeStep ==
    ASSUME SessionInv, runtime_advance \/ runtime_fault
    PROVE  SessionInv'
  <1>1. UNCHANGED <<callerVars, snap, w>> /\ ~Dead
    BY DEF runtime_advance, runtime_fault, Dead
  <1>2. PICK k \in {"COMPLETED", "STOPPED", "FAULTED"}, life \in {"ARMED_IDLE", "FAULT"} :
          rt' = [rt EXCEPT !.life = life, !.goal = NoGoal, !.published = Published(k)]
    BY DEF runtime_advance, runtime_fault
  <1> DEFINE e == [kind |-> k, goal |-> rt.goal]
  <1>3. e \in Events /\ rt \in RuntimeRecord /\ rt.published \in Seq(Events)
    BY DEF SessionInv, SessionTyped, RuntimeRecord, Events
  <1>4. /\ rt' \in RuntimeRecord /\ rt'.life = life /\ rt'.goal = NoGoal
        /\ rt'.published = Append(rt.published, e) /\ rt'.ring = rt.ring
        /\ rt'.published \in Seq(Events) /\ rt'.ring \in Seq(Events)
    <2> HIDE DEF e
    <2>1. Append(rt.published, e) \in Seq(Events)
      BY <1>3
    <2>2. Published(k) = Append(rt.published, e)
      BY DEF Published, e
    <2>3. life \in Lives /\ NoGoal \in MaybeGoal
      BY DEF Lives, MaybeGoal
    <2> QED  BY <1>2, <1>3, <2>1, <2>2, <2>3 DEF RuntimeRecord
  <1>5. Bookkept' /\ NoLeakedReservation' /\ Submitted' = Submitted
    BY <1>1, CallersStay DEF callerVars
  <1>6. SessionTyped'
    BY <1>1, <1>4 DEF SessionInv, SessionTyped, SessionTypeOK, callerVars, RuntimeRecord
  <1>7. SubmittedOwns' /\ SlotsHold' /\ HandHolds' /\ FaultedEnds' /\ EndingHeld'
    BY <1>1, <1>4, <1>5
    DEF SessionInv, SubmittedOwns, SlotsHold, HandHolds, FaultedEnds, EndingHeld, Dead, callerVars
  <1>8. ExecutesActive'
    BY <1>1, <1>4 DEF SessionInv, ExecutesActive, Dead, callerVars
  <1>9. EventsAreOver'
    <2> SUFFICES ASSUME NEW d \in Unpolled', d.goal # NoGoal
                 PROVE  d.goal = active \/ done[d.goal] = 1
      BY <1>1, <1>4 DEF EventsAreOver, callerVars
    <2>1. d \in Unpolled \cup {e}
      <3> HIDE DEF e
      <3> QED  BY <1>3, <1>4 DEF Unpolled
    <2> QED  BY <1>1, <2>1 DEF SessionInv, EventsAreOver, ExecutesActive
  <1> QED  BY <1>5, <1>6, <1>7, <1>8, <1>9 DEF SessionInv

\* The elements of two sequences joined.
LEMMA JoinedEvents ==
    ASSUME NEW s \in Seq(Events), NEW t \in Seq(Events), NEW i \in DOMAIN (s \o t)
    PROVE  (s \o t)[i] \in {s[j] : j \in DOMAIN s} \cup {t[j] : j \in DOMAIN t}
  <1>1. i \in 1 .. Len(s) + Len(t) /\ Len(s) \in Nat /\ Len(t) \in Nat
        /\ DOMAIN s = 1 .. Len(s) /\ DOMAIN t = 1 .. Len(t)
    OBVIOUS
  <1>2. CASE i <= Len(s)
    <2>1. (s \o t)[i] = s[i] /\ i \in DOMAIN s
      BY <1>1, <1>2
    <2> QED  BY <2>1
  <1>3. CASE i > Len(s)
    <2>1. (s \o t)[i] = t[i - Len(s)] /\ i - Len(s) \in DOMAIN t
      BY <1>1, <1>3
    <2> QED  BY <2>1
  <1> QED  BY <1>1, <1>2, <1>3

\* The events move to the ring.
LEMMA RingStep ==
    ASSUME SessionInv, drain_controller_events
    PROVE  SessionInv'
  <1>1. UNCHANGED <<callerVars, snap, w>> /\ rt' = [rt EXCEPT !.ring = @ \o rt.published, !.published = <<>>]
    BY DEF drain_controller_events
  <1>2. rt \in RuntimeRecord /\ rt.published \in Seq(Events) /\ rt.ring \in Seq(Events)
    BY DEF SessionInv, SessionTyped, RuntimeRecord
  <1>3. /\ rt' \in RuntimeRecord /\ rt'.life = rt.life /\ rt'.goal = rt.goal
        /\ rt'.published = <<>> /\ rt'.ring = rt.ring \o rt.published
        /\ rt'.published \in Seq(Events) /\ rt'.ring \in Seq(Events)
    <2>1. rt.ring \o rt.published \in Seq(Events) /\ <<>> \in Seq(Events)
      BY <1>2
    <2> QED  BY <1>1, <1>2, <2>1 DEF RuntimeRecord
  <1>4. Bookkept' /\ NoLeakedReservation' /\ Submitted' = Submitted
    BY <1>1, CallersStay DEF callerVars
  <1>5. SessionTyped'
    BY <1>1, <1>3 DEF SessionInv, SessionTyped, SessionTypeOK, callerVars, RuntimeRecord
  <1>6. SubmittedOwns' /\ SlotsHold' /\ HandHolds' /\ FaultedEnds' /\ EndingHeld'
    BY <1>1, <1>3, <1>4
    DEF SessionInv, SubmittedOwns, SlotsHold, HandHolds, FaultedEnds, EndingHeld, Dead, callerVars
  <1>7. ExecutesActive'
    BY <1>1, <1>3 DEF SessionInv, ExecutesActive, Dead, callerVars
  <1>8. EventsAreOver'
    <2>1. Unpolled' \subseteq Unpolled
      <3>1. \A i \in DOMAIN rt'.ring : rt'.ring[i] \in Unpolled
        <4>1. \A i \in DOMAIN (rt.ring \o rt.published) :
                (rt.ring \o rt.published)[i] \in {rt.ring[j] : j \in DOMAIN rt.ring}
                                                  \cup {rt.published[j] : j \in DOMAIN rt.published}
          BY <1>2, JoinedEvents, ZenonT(30)
        <4> QED  BY <1>3, <4>1 DEF Unpolled
      <3>2. DOMAIN rt'.published = {}
        BY <1>3
      <3> QED  BY <3>1, <3>2 DEF Unpolled
    <2> QED  BY <1>1, <1>3, <2>1 DEF SessionInv, EventsAreOver, Dead, callerVars
  <1> QED  BY <1>4, <1>5, <1>6, <1>7, <1>8 DEF SessionInv

-----------------------------------------------------------------------------
(* The worker: its waits and polls.                                        *)

Rest == SubmittedOwns /\ SlotsHold /\ HandHolds /\ FaultedEnds /\ EndingHeld

\* The worker goes on, and only the notification and its own place change.
LEMMA WaitStep ==
    ASSUME SessionInv, wait_until
    PROVE  SessionInv'
  <1>1. /\ w.at = "poll" /\ w' = Worker(IF closing THEN "shutdown" ELSE "cancel")
        /\ news' = (news /\ closing)
        /\ UNCHANGED <<owner, adapter, pending, active, cancelling, cancelled, ending, closing,
                       snap, rt, caller, kind, accepted, done, outcome>>
    BY DEF wait_until, answerVars
  <1>2. PICK at \in {"shutdown", "cancel"} : w' = Worker(at) /\ (at = "shutdown" => closing)
    BY <1>1
  <1>3. w' \in WorkerRecord /\ w'.at = at /\ w'.goal = NoGoal
    BY <1>2, SessionWorkerTyped DEF WorkerSteps
  <1>4. Bookkept' /\ NoLeakedReservation' /\ Submitted' = Submitted
    BY <1>1, CallersStay
  <1>5. SessionTyped'
    <2>1. news' \in BOOLEAN
      BY <1>1
    <2> QED  BY <1>1, <1>3, <2>1 DEF SessionInv, SessionTyped, SessionTypeOK, WorkerRecord
  <1>6. Rest'
    BY <1>1, <1>2, <1>3, <1>4
    DEF Rest, SessionInv, SubmittedOwns, SlotsHold, HandHolds, FaultedEnds, EndingHeld, Dead
  <1>7. ExecutesActive' /\ EventsAreOver'
    BY <1>1, <1>3 DEF SessionInv, ExecutesActive, EventsAreOver, Unpolled, Dead
  <1> QED  BY <1>4, <1>5, <1>6, <1>7 DEF SessionInv, Rest

\* The worker moves on without a goal in its hand.
LEMMA MoveOnStep ==
    ASSUME SessionInv, UNCHANGED <<callerVars, rt>>, snap' \in {snap, rt.life},
           w' \in WorkerRecord, w'.goal = NoGoal, ending = NoGoal,
           w'.at \in {"exit", "poll", "drain", "publish", "fault"},
           w'.at = "fault" => w'.ret = "exit", w'.at = "drain" => w'.ret \in Returns \ {"cancel_check"},
           adapter = "fault" => w'.at \in {"fault", "exit"}
    PROVE  SessionInv'
  <1>1. Bookkept' /\ NoLeakedReservation' /\ Submitted' = Submitted
    BY CallersStay DEF callerVars
  <1>2. SessionTyped'
    BY DEF SessionInv, SessionTyped, SessionTypeOK, WorkerRecord, callerVars
  <1>3. Rest'
    BY <1>1
    DEF Rest, SessionInv, SubmittedOwns, SlotsHold, HandHolds, FaultedEnds, EndingHeld, Dead, callerVars
  <1>4. ExecutesActive' /\ EventsAreOver'
    BY DEF SessionInv, ExecutesActive, EventsAreOver, Unpolled, Dead, callerVars
  <1> QED  BY <1>1, <1>2, <1>3, <1>4 DEF SessionInv, Rest

LEMMA PollStep ==
    ASSUME SessionInv, poll_skipped \/ poll_due \/ heartbeat_check \/ publish_feedback
    PROVE  SessionInv'
  <1>1. CASE poll_skipped
    <2>1. UNCHANGED <<callerVars, rt, snap>> /\ ending = NoGoal
      BY <1>1 DEF poll_skipped, SessionInv, EndingHeld
    <2>2. PICK at \in {"exit", "poll"} : w' = Worker(at) /\ (adapter = "fault" => at = "exit")
      BY <1>1 DEF poll_skipped
    <2>3. w' \in WorkerRecord /\ w'.goal = NoGoal /\ w'.at = at
      BY <2>2, SessionWorkerTyped DEF WorkerSteps
    <2> QED  BY <2>1, <2>2, <2>3, MoveOnStep
  <1>2. CASE poll_due
    <2>1. UNCHANGED <<callerVars, rt, snap>> /\ ending = NoGoal /\ adapter # "fault"
      BY <1>2 DEF poll_due, SessionInv, EndingHeld
    <2>2. w' = [Worker("drain") EXCEPT !.ret = "heartbeat"]
      BY <1>2 DEF poll_due
    <2>3. w' \in WorkerRecord /\ w'.goal = NoGoal /\ w'.at = "drain" /\ w'.ret = "heartbeat"
      BY <2>2 DEF Worker, WorkerRecord, WorkerSteps, MaybeGoal, Outcomes
    <2> QED  BY <2>1, <2>3, MoveOnStep DEF Returns
  <1>3. CASE heartbeat_check
    <2>1. UNCHANGED <<callerVars, rt, snap>> /\ ending = NoGoal /\ adapter # "fault"
      BY <1>3 DEF heartbeat_check, SessionInv, EndingHeld, FaultedEnds
    <2>2. w' \in {Worker("publish"), Fail("exit")}
      BY <1>3 DEF heartbeat_check
    <2>3. w' \in WorkerRecord /\ w'.goal = NoGoal
          /\ (w'.at = "publish" \/ (w'.at = "fault" /\ w'.ret = "exit"))
      BY <2>2, SessionWorkerTyped DEF WorkerSteps
    <2> QED  BY <2>1, <2>3, MoveOnStep DEF Returns
  <1>4. CASE publish_feedback
    <2>1. UNCHANGED <<callerVars, rt>> /\ ending = NoGoal /\ adapter # "fault" /\ snap' \in {snap, rt.life}
      BY <1>4 DEF publish_feedback, SessionInv, EndingHeld, FaultedEnds
    <2>2. w' = [Worker("drain") EXCEPT !.ret = "poll"] \/ w' = Fail("exit")
      BY <1>4 DEF publish_feedback
    <2>3. w' \in WorkerRecord /\ w'.goal = NoGoal
          /\ ((w'.at = "drain" /\ w'.ret = "poll") \/ (w'.at = "fault" /\ w'.ret = "exit"))
      <3>1. CASE w' = [Worker("drain") EXCEPT !.ret = "poll"]
        BY <3>1 DEF Worker, WorkerRecord, WorkerSteps, MaybeGoal, Outcomes
      <3>2. CASE w' = Fail("exit")
        BY <3>2, SessionWorkerTyped DEF WorkerSteps
      <3> QED  BY <2>2, <3>1, <3>2
    <2> QED  BY <2>1, <2>3, MoveOnStep DEF Returns
  <1> QED  BY <1>1, <1>2, <1>3, <1>4

LEMMA HeartbeatStep ==
    ASSUME SessionInv, heartbeat
    PROVE  SessionInv'
  <1>1. UNCHANGED <<callerVars, rt, snap>> /\ ending = NoGoal /\ adapter # "fault"
    BY DEF heartbeat, SessionInv, EndingHeld, FaultedEnds
  <1>2. w' = [Worker("drain") EXCEPT !.ret = "heartbeat_check"] \/ w' = Worker("publish")
        \/ w' = Fail("exit")
    BY DEF heartbeat
  <1>3. w' \in WorkerRecord /\ w'.goal = NoGoal
        /\ \/ w'.at = "drain" /\ w'.ret = "heartbeat_check"
           \/ w'.at = "publish"
           \/ w'.at = "fault" /\ w'.ret = "exit"
    <2>1. CASE w' = [Worker("drain") EXCEPT !.ret = "heartbeat_check"]
      BY <2>1 DEF Worker, WorkerRecord, WorkerSteps, MaybeGoal, Outcomes
    <2>2. CASE w' = Worker("publish")
      BY <2>2, SessionWorkerTyped DEF WorkerSteps
    <2>3. CASE w' = Fail("exit")
      BY <2>3, SessionWorkerTyped DEF WorkerSteps
    <2> QED  BY <1>2, <2>1, <2>2, <2>3
  <1> QED  BY <1>1, <1>3, MoveOnStep DEF Returns

LEMMA ExitStep ==
    ASSUME SessionInv, run_exit
    PROVE  SessionInv'
  <1>1. /\ news' = FALSE /\ w' = Worker("exited") /\ rt' = Runtime("DISARMED")
        /\ UNCHANGED <<owner, adapter, pending, active, cancelling, cancelled, ending, closing,
                       snap, caller, kind, accepted, done, outcome>>
        /\ ending = NoGoal
    BY DEF run_exit, answerVars, SessionInv, EndingHeld
  <1>2. w' \in WorkerRecord /\ w'.at = "exited" /\ w'.goal = NoGoal
    BY <1>1, SessionWorkerTyped DEF WorkerSteps
  <1>3. /\ rt' \in RuntimeRecord /\ rt'.life = "DISARMED" /\ rt'.goal = NoGoal
        /\ rt'.published = <<>> /\ rt'.ring = <<>>
        /\ rt'.published \in Seq(Events) /\ rt'.ring \in Seq(Events)
    BY <1>1 DEF Runtime, RuntimeRecord, Lives, MaybeGoal
  <1>4. Bookkept' /\ NoLeakedReservation' /\ Submitted' = Submitted
    BY <1>1, CallersStay
  <1>5. SessionTyped'
    BY <1>1, <1>2, <1>3 DEF SessionInv, SessionTyped, SessionTypeOK, WorkerRecord, Lives
  <1>6. Rest'
    BY <1>1, <1>2, <1>3, <1>4
    DEF Rest, SessionInv, SubmittedOwns, SlotsHold, HandHolds, FaultedEnds, EndingHeld, Dead
  <1>7. ExecutesActive' /\ EventsAreOver'
    BY <1>1, <1>2, <1>3 DEF SessionInv, ExecutesActive, EventsAreOver, Dead
  <1> QED  BY <1>4, <1>5, <1>6, <1>7 DEF SessionInv, Rest

-----------------------------------------------------------------------------
(* The worker: cancels.                                                    *)

LEMMA CaptureStep ==
    ASSUME SessionInv, process_cancel
    PROVE  SessionInv'
  <1>1. /\ w.at = "cancel" /\ cancelling' = NoGoal /\ ending = NoGoal /\ adapter # "fault"
        /\ UNCHANGED <<owner, adapter, pending, active, cancelled, closing, news, snap, rt,
                       caller, kind, accepted, done, outcome>>
    BY DEF process_cancel, answerVars, SessionInv, EndingHeld, FaultedEnds
  <1>2. Bookkept' /\ NoLeakedReservation' /\ Submitted' = Submitted
    BY <1>1, CallersStay
  <1>3. CASE w' = Worker("pending") /\ UNCHANGED ending
    <2>1. w' \in WorkerRecord /\ w'.at = "pending" /\ w'.goal = NoGoal
      BY <1>3, SessionWorkerTyped DEF WorkerSteps
    <2>2. SessionTyped'
      BY <1>1, <1>3, <2>1 DEF SessionInv, SessionTyped, SessionTypeOK, WorkerRecord, MaybeGoal
    <2>3. Rest'
      BY <1>1, <1>2, <1>3, <2>1
      DEF Rest, SessionInv, SubmittedOwns, SlotsHold, HandHolds, FaultedEnds, EndingHeld, Dead
    <2>4. ExecutesActive' /\ EventsAreOver'
      BY <1>1, <2>1 DEF SessionInv, ExecutesActive, EventsAreOver, Unpolled, Dead
    <2> QED  BY <1>2, <2>2, <2>3, <2>4 DEF SessionInv, Rest
  <1>4. CASE cancelling # NoGoal /\ owner = cancelling
    <2> DEFINE command == IF active = owner THEN active ELSE pending
    <2>1. /\ w' = [Worker("cancel_stop") EXCEPT !.goal = command, !.held = (active = owner)]
          /\ ending' = IF command # NoGoal THEN command ELSE ending
      BY <1>4 DEF process_cancel
    <2>2. command \in Submitted \cup {NoGoal} /\ command \in MaybeGoal
      BY DEF SessionInv, SlotsHold, Submitted, MaybeGoal
    <2>3. /\ active = owner => active = command
          /\ active # owner /\ command # NoGoal => pending = command
      OBVIOUS
    <2>4. (active = owner) \in BOOLEAN
      OBVIOUS
    <2> HIDE DEF command
    <2>5. /\ w' \in WorkerRecord /\ w'.at = "cancel_stop" /\ w'.goal = command
          /\ w'.held = (active = owner)
      BY <2>1, <2>2, <2>4 DEF Worker, WorkerRecord, WorkerSteps, Outcomes
    <2>6. SessionTyped'
      BY <1>1, <2>1, <2>2, <2>5 DEF SessionInv, SessionTyped, SessionTypeOK, WorkerRecord, MaybeGoal
    <2>7. Rest'
      BY <1>1, <1>2, <2>1, <2>2, <2>3, <2>5
      DEF Rest, SessionInv, SubmittedOwns, SlotsHold, HandHolds, FaultedEnds, EndingHeld, Dead
    <2>8. ExecutesActive' /\ EventsAreOver'
      BY <1>1, <2>5 DEF SessionInv, ExecutesActive, EventsAreOver, Unpolled, Dead
    <2> QED  BY <1>2, <2>6, <2>7, <2>8 DEF SessionInv, Rest
  <1> QED  BY <1>3, <1>4 DEF process_cancel

LEMMA StopStep ==
    ASSUME SessionInv, cancel_stop
    PROVE  SessionInv'
  <1>1. w.at = "cancel_stop" /\ UNCHANGED <<callerVars, snap>> /\ adapter # "fault" /\ w \in WorkerRecord
    BY DEF cancel_stop, SessionInv, FaultedEnds, SessionTyped, SessionTypeOK, WorkerRecord
  <1>2. Bookkept' /\ NoLeakedReservation' /\ Submitted' = Submitted
    BY <1>1, CallersStay DEF callerVars
  <1>3. CASE snap \in {"ARMED_IDLE", "EXECUTING"}
    <2>1. rt' = Stopped(rt)
      BY <1>3 DEF cancel_stop
    <2>2. /\ EventsAreOver' /\ rt' \in RuntimeRecord /\ rt'.goal = NoGoal /\ Dead'
          /\ rt'.life \in Lives /\ rt'.published \in Seq(Events) /\ rt'.ring \in Seq(Events)
      BY <2>1, EventsStop
    <2>3. w' \in WorkerRecord /\ w'.at = "drain" /\ w'.goal = w.goal /\ w'.held = w.held
          /\ w'.ret = "cancel_check" /\ w'.ret \in Returns
      <3> DEFINE ok == rt.life \in {"ARMED_IDLE", "EXECUTING"}
      <3>1. w' = [w EXCEPT !.at = "drain", !.ret = "cancel_check", !.ok = ok]
        BY <1>3 DEF cancel_stop
      <3>2. ok \in BOOLEAN
        OBVIOUS
      <3> HIDE DEF ok
      <3> QED  BY <1>1, <3>1, <3>2 DEF WorkerRecord, WorkerSteps, Returns
    <2>4. SessionTyped'
      BY <1>1, <2>2, <2>3
      DEF SessionInv, SessionTyped, SessionTypeOK, WorkerRecord, RuntimeRecord, callerVars
    <2>5. Rest'
      BY <1>1, <1>2, <2>2, <2>3
      DEF Rest, SessionInv, SubmittedOwns, SlotsHold, HandHolds, FaultedEnds, EndingHeld, callerVars
    <2>6. ExecutesActive'
      BY <1>1, <2>2, <2>3 DEF ExecutesActive, Dead
    <2> QED  BY <1>2, <2>2, <2>4, <2>5, <2>6 DEF SessionInv, Rest
  <1>4. CASE snap \notin {"ARMED_IDLE", "EXECUTING"}
    <2>1. UNCHANGED rt /\ SessionGoto("cancel_check") /\ Dead
      BY <1>4 DEF cancel_stop, SessionInv, ExecutesActive, SessionTyped, SessionTypeOK, Lives
    <2>2. w' \in WorkerRecord /\ w'.at = "cancel_check" /\ w'.goal = w.goal /\ w'.held = w.held
      BY <1>1, <2>1 DEF SessionGoto, WorkerRecord, WorkerSteps
    <2>3. SessionTyped'
      BY <1>1, <2>1, <2>2 DEF SessionInv, SessionTyped, SessionTypeOK, WorkerRecord, callerVars
    <2>4. Rest'
      BY <1>1, <1>2, <2>1, <2>2
      DEF Rest, SessionInv, SubmittedOwns, SlotsHold, HandHolds, FaultedEnds, EndingHeld, callerVars
    <2>5. ExecutesActive' /\ EventsAreOver'
      BY <1>1, <2>1, <2>2 DEF SessionInv, ExecutesActive, EventsAreOver, Unpolled, Dead, callerVars
    <2> QED  BY <1>2, <2>3, <2>4, <2>5 DEF SessionInv, Rest
  <1> QED  BY <1>3, <1>4

LEMMA CheckStep ==
    ASSUME SessionInv, cancel_check
    PROVE  SessionInv'
  <1>1. /\ w.at = "cancel_check" /\ adapter # "fault" /\ w \in WorkerRecord /\ Dead
        /\ UNCHANGED <<owner, pending, active, cancelling, cancelled, ending, closing, rt,
                       caller, kind, accepted, done, outcome>>
        /\ snap' \in {snap, rt.life}
    BY DEF cancel_check, StoppedSnapshot, answerVars, SessionInv, FaultedEnds, SessionTyped,
           SessionTypeOK, WorkerRecord, ExecutesActive
  <1>2. Bookkept' /\ NoLeakedReservation' /\ Submitted' = Submitted
    BY <1>1, CallersStay
  <1>3. CASE /\ w.held /\ active # w.goal /\ w' = Worker("pending")
             /\ adapter' \in {adapter, "stopped_requires_restart"} /\ news' \in {news, TRUE}
    <2>1. w' \in WorkerRecord /\ w'.at = "pending" /\ w'.goal = NoGoal
      BY <1>3, SessionWorkerTyped DEF WorkerSteps
    <2>2. SessionTyped'
      <3>1. news' \in BOOLEAN /\ adapter' \in AdapterStates /\ snap' \in Lives
        BY <1>1, <1>3 DEF SessionInv, SessionTyped, SessionTypeOK, AdapterStates
      <3> QED  BY <1>1, <2>1, <3>1 DEF SessionInv, SessionTyped, SessionTypeOK, WorkerRecord
    <2>3. Rest'
      BY <1>1, <1>2, <1>3, <2>1
      DEF Rest, SessionInv, SubmittedOwns, SlotsHold, HandHolds, FaultedEnds, EndingHeld
    <2>4. ExecutesActive' /\ EventsAreOver'
      BY <1>1, <2>1 DEF SessionInv, ExecutesActive, EventsAreOver, Unpolled, Dead
    <2> QED  BY <1>2, <2>2, <2>3, <2>4 DEF SessionInv, Rest
  <1>4. ASSUME ~w.held \/ active = w.goal, UNCHANGED <<adapter, news>>, NEW ok \in BOOLEAN,
               w' = [w EXCEPT !.at = "cancel_answer", !.ok = w.ok /\ ok]
        PROVE  SessionInv'
    <2>1. w' \in WorkerRecord /\ w'.at = "cancel_answer" /\ w'.goal = w.goal /\ w'.held = w.held
      <3> DEFINE sure == w.ok /\ ok
      <3>1. w' = [w EXCEPT !.at = "cancel_answer", !.ok = sure] /\ sure \in BOOLEAN
        BY <1>4
      <3> HIDE DEF sure
      <3> QED  BY <1>1, <3>1 DEF WorkerRecord, WorkerSteps
    <2>2. SessionTyped'
      BY <1>1, <1>4, <2>1 DEF SessionInv, SessionTyped, SessionTypeOK, WorkerRecord
    <2>3. Rest'
      BY <1>1, <1>2, <1>4, <2>1
      DEF Rest, SessionInv, SubmittedOwns, SlotsHold, HandHolds, FaultedEnds, EndingHeld
    <2>4. ExecutesActive' /\ EventsAreOver'
      BY <1>1, <2>1 DEF SessionInv, ExecutesActive, EventsAreOver, Unpolled, Dead
    <2> QED  BY <1>2, <2>2, <2>3, <2>4 DEF SessionInv, Rest
  <1>5. CASE w.held /\ active # w.goal
    BY <1>3, <1>5 DEF cancel_check
  <1>6. CASE ~(w.held /\ active # w.goal)
    BY <1>4, <1>6 DEF cancel_check
  <1> QED  BY <1>5, <1>6

\* The worker has answered the submitted command; nobody waits any longer.
LEMMA AnsweredStep ==
    ASSUME SessionInv, NEW g \in Submitted, NEW out \in Outcomes, Answer(g, out), UNCHANGED accepted,
           owner' \in {owner, NoGoal}, owner' # g, UNCHANGED <<rt, snap, closing>>,
           pending' = NoGoal, active' = NoGoal, ending' = NoGoal, cancelled' \in MaybeGoal,
           cancelling' = cancelling, adapter' \in AdapterStates, news' \in BOOLEAN,
           rt.goal = NoGoal, active \in {g, NoGoal}, w' \in WorkerRecord,
           w'.at \in {"pending", "fault", "refresh", "drain", "exit"},
           w'.at = "fault" => w'.ret \in {"pending", "exit"},
           w'.at = "drain" =>
             w'.ret \in Returns /\ (w'.goal = NoGoal \/ (w'.held /\ w'.ret = "cancel_check")),
           w'.at = "drain" /\ w'.ret = "cancel_check" => Dead,
           adapter' = "fault" => /\ w'.at \in {"fault", "refresh", "exit"} \/ (w'.at = "pending" /\ Dead)
                                 /\ w'.at = "fault" => w'.ret = "exit"
    PROVE  SessionInv'
  <1>1. /\ Bookkept' /\ NoLeakedReservation' /\ Submitted' = {}
        /\ caller' \in [Goal -> {"new", "reserved", "refused", "submitted", "ended"}]
        /\ done' \in [Goal -> 0 .. 2] /\ outcome' \in [Goal -> Outcomes]
        /\ kind' \in [Goal -> Kinds] /\ accepted' \subseteq Goal
        /\ done'[g] = 1 /\ \A h \in Goal : done[h] = 1 => done'[h] = 1
    BY AnswerMoves
  <1>2. SessionTyped'
    BY <1>1 DEF SessionInv, SessionTyped, SessionTypeOK, WorkerRecord, MaybeGoal
  <1>3. Rest'
    BY <1>1 DEF Rest, SessionInv, SubmittedOwns, SlotsHold, HandHolds, FaultedEnds, EndingHeld, Dead
  <1>4. ExecutesActive'
    BY DEF SessionInv, ExecutesActive, Dead
  <1>5. EventsAreOver'
    BY <1>1, EventsStay DEF Submitted
  <1> QED  BY <1>1, <1>2, <1>3, <1>4, <1>5 DEF SessionInv, Rest

LEMMA CancelAnswerStep ==
    ASSUME SessionInv, cancel_answer
    PROVE  SessionInv'
  <1>1. /\ w.at = "cancel_answer" /\ adapter # "fault" /\ w \in WorkerRecord /\ Dead /\ rt.goal = NoGoal
        /\ UNCHANGED <<cancelling, closing, snap, rt, accepted>> /\ news' = TRUE
    BY DEF cancel_answer, SessionInv, FaultedEnds, SessionTyped, SessionTypeOK, WorkerRecord,
           ExecutesActive, Dead
  <1>2. CASE w.goal = NoGoal
    <2>1. /\ adapter' = "stopped_requires_restart" /\ cancelled' = owner /\ w' = Worker("pending")
          /\ UNCHANGED <<owner, pending, active, ending, done, outcome, caller, kind>>
      BY <1>2 DEF cancel_answer
    <2>2. Bookkept' /\ NoLeakedReservation' /\ Submitted' = Submitted
      BY <1>1, <2>1, CallersStay
    <2>3. w' \in WorkerRecord /\ w'.at = "pending" /\ w'.goal = NoGoal
      BY <2>1, SessionWorkerTyped DEF WorkerSteps
    <2>4. SessionTyped'
      BY <1>1, <2>1, <2>3 DEF SessionInv, SessionTyped, SessionTypeOK, WorkerRecord, AdapterStates
    <2>5. Rest'
      BY <1>1, <1>2, <2>1, <2>2, <2>3
      DEF Rest, SessionInv, SubmittedOwns, SlotsHold, HandHolds, FaultedEnds, EndingHeld
    <2>6. ExecutesActive' /\ EventsAreOver'
      BY <1>1, <2>1, <2>3 DEF SessionInv, ExecutesActive, EventsAreOver, Unpolled, Dead
    <2> QED  BY <2>2, <2>4, <2>5, <2>6 DEF SessionInv, Rest
  <1>3. CASE w.goal # NoGoal
    <2>1. PICK ok \in BOOLEAN :
            /\ Answer(w.goal, "canceled")
            /\ active' = IF active = w.goal THEN NoGoal ELSE active
            /\ pending' = IF pending = w.goal THEN NoGoal ELSE pending
            /\ ending' = NoGoal
            /\ Disown(w.goal)
            /\ adapter' = IF ok THEN "stopped_requires_restart" ELSE adapter
            /\ w' = IF ok THEN Worker("pending") ELSE Fail("pending")
            /\ UNCHANGED cancelled
      BY <1>3 DEF cancel_answer
    <2>2. w.goal \in Submitted /\ active \in {w.goal, NoGoal} /\ pending \in {w.goal, NoGoal}
      BY <1>1, <1>3 DEF SessionInv, HandHolds, SlotsHold
    <2>3. w' \in WorkerRecord /\ (w'.at = "pending" \/ (w'.at = "fault" /\ w'.ret = "pending"))
      BY <2>1, SessionWorkerTyped DEF WorkerSteps
    <2>4. /\ owner' \in {owner, NoGoal} /\ owner' # w.goal /\ cancelled' \in MaybeGoal
          /\ adapter' \in AdapterStates /\ adapter' # "fault" /\ news' \in BOOLEAN
          /\ active' = NoGoal /\ pending' = NoGoal /\ "canceled" \in Outcomes
      BY <1>1, <2>1, <2>2, DisownMoves
      DEF SessionInv, SessionTyped, SessionTypeOK, AdapterStates, Outcomes
    <2> QED  BY <1>1, <2>1, <2>2, <2>3, <2>4, AnsweredStep
  <1> QED  BY <1>2, <1>3

-----------------------------------------------------------------------------
(* The worker: commands.                                                   *)

LEMMA TakeStep ==
    ASSUME SessionInv, process_pending
    PROVE  SessionInv'
  <1>1. /\ w.at = "pending" /\ pending' = NoGoal /\ ending = NoGoal
        /\ UNCHANGED <<owner, adapter, active, cancelling, cancelled, closing, news, snap, rt,
                       caller, kind, accepted, done, outcome>>
    BY DEF process_pending, answerVars, SessionInv, EndingHeld
  <1>2. Bookkept' /\ NoLeakedReservation' /\ Submitted' = Submitted
    BY <1>1, CallersStay
  <1>3. CASE pending = NoGoal
    <2>1. w' \in WorkerRecord /\ w'.at = "refresh" /\ w'.goal = NoGoal /\ ending' = ending
      BY <1>3, SessionWorkerTyped DEF WorkerSteps, process_pending
    <2>2. SessionTyped'
      BY <1>1, <2>1 DEF SessionInv, SessionTyped, SessionTypeOK, WorkerRecord, MaybeGoal
    <2>3. Rest'
      BY <1>1, <1>2, <1>3, <2>1
      DEF Rest, SessionInv, SubmittedOwns, SlotsHold, HandHolds, FaultedEnds, EndingHeld, Dead
    <2>4. ExecutesActive' /\ EventsAreOver'
      BY <1>1, <2>1 DEF SessionInv, ExecutesActive, EventsAreOver, Unpolled, Dead
    <2> QED  BY <1>2, <2>2, <2>3, <2>4 DEF SessionInv, Rest
  <1>4. CASE pending # NoGoal
    <2>1. pending \in Submitted /\ active = NoGoal /\ pending \in MaybeGoal
      BY <1>4 DEF SessionInv, SlotsHold, Submitted, MaybeGoal
    <2>2. PICK at \in {"answer", "gripper", "plan"}, out \in {"canceled", "none"} :
            /\ w' = [Worker(at) EXCEPT !.goal = pending, !.out = out]
            /\ ending' \in {pending, ending} /\ (ending' = pending => at = "answer")
      BY <1>1, <1>4 DEF process_pending
    <2>3. w' \in WorkerRecord /\ w'.at = at /\ w'.goal = pending
      BY <2>1, <2>2 DEF Worker, WorkerRecord, WorkerSteps, Outcomes
    <2>4. SessionTyped'
      BY <1>1, <2>1, <2>2, <2>3 DEF SessionInv, SessionTyped, SessionTypeOK, WorkerRecord, MaybeGoal
    <2>5. Rest'
      BY <1>1, <1>2, <2>1, <2>2, <2>3
      DEF Rest, SessionInv, SubmittedOwns, SlotsHold, HandHolds, FaultedEnds, EndingHeld, Dead
    <2>6. ExecutesActive' /\ EventsAreOver'
      BY <1>1, <2>3 DEF SessionInv, ExecutesActive, EventsAreOver, Unpolled, Dead
    <2> QED  BY <1>2, <2>4, <2>5, <2>6 DEF SessionInv, Rest
  <1> QED  BY <1>3, <1>4

LEMMA GripperStep ==
    ASSUME SessionInv, gripper_command
    PROVE  SessionInv'
  <1>1. /\ w.at = "gripper" /\ w \in WorkerRecord /\ ending = NoGoal
        /\ w.goal \in Submitted /\ pending = NoGoal /\ active = NoGoal /\ rt.goal = NoGoal
        /\ UNCHANGED <<pending, active, cancelling, cancelled, closing, snap, rt, accepted>>
    BY DEF gripper_command, SessionInv, HandHolds, EndingHeld, ExecutesActive, SessionTyped,
           SessionTypeOK, WorkerRecord
  <1>2. CASE /\ w' = [w EXCEPT !.at = "answer", !.out = "rejected"] /\ ending' = w.goal
             /\ UNCHANGED <<owner, adapter, news, done, outcome, caller, kind>>
    <2>1. w' \in WorkerRecord /\ w'.at = "answer" /\ w'.goal = w.goal
      BY <1>1, <1>2 DEF WorkerRecord, WorkerSteps, Outcomes
    <2>2. Bookkept' /\ NoLeakedReservation' /\ Submitted' = Submitted
      BY <1>1, <1>2, CallersStay
    <2>3. SessionTyped'
      BY <1>1, <1>2, <2>1 DEF SessionInv, SessionTyped, SessionTypeOK, WorkerRecord
    <2>4. Rest'
      BY <1>1, <1>2, <2>1, <2>2
      DEF Rest, SessionInv, SubmittedOwns, SlotsHold, HandHolds, FaultedEnds, EndingHeld, Dead
    <2>5. ExecutesActive' /\ EventsAreOver'
      BY <1>1, <1>2, <2>1 DEF SessionInv, ExecutesActive, EventsAreOver, Unpolled, Dead
    <2> QED  BY <2>2, <2>3, <2>4, <2>5 DEF SessionInv, Rest
  <1>3. CASE w' = Fail("exit") /\ UNCHANGED <<owner, adapter, news, ending, done, outcome, caller, kind>>
    <2>1. w' \in WorkerRecord /\ w'.at = "fault" /\ w'.goal = NoGoal /\ w'.ret = "exit"
      BY <1>3, SessionWorkerTyped DEF WorkerSteps
    <2> QED  BY <1>1, <1>3, <2>1, MoveOnStep DEF callerVars
  <1>4. ASSUME NEW ok \in BOOLEAN, Answer(w.goal, "completed"), Disown(w.goal), news' = TRUE,
               adapter' = (IF ok THEN "idle" ELSE "fault"), w' = Worker("refresh"), UNCHANGED ending
        PROVE  SessionInv'
    <2>1. w' \in WorkerRecord /\ w'.at = "refresh"
      BY <1>4, SessionWorkerTyped DEF WorkerSteps
    <2>2. /\ owner' \in {owner, NoGoal} /\ owner' # w.goal /\ cancelled' \in MaybeGoal
          /\ adapter' \in AdapterStates /\ news' \in BOOLEAN /\ "completed" \in Outcomes
      BY <1>1, <1>4, DisownMoves
      DEF SessionInv, SessionTyped, SessionTypeOK, AdapterStates, Outcomes
    <2> QED  BY <1>1, <1>4, <2>1, <2>2, AnsweredStep
  <1> QED  BY <1>2, <1>3, <1>4 DEF gripper_command

\* The command is executed, or the session will reject it.
LEMMA PlanStep ==
    ASSUME SessionInv, plan_and_execute
    PROVE  SessionInv'
  <1>1. /\ w.at = "plan" /\ w \in WorkerRecord /\ rt \in RuntimeRecord /\ ending = NoGoal
        /\ w.goal \in Submitted /\ w.goal \in Goal /\ pending = NoGoal /\ active = NoGoal
        /\ rt.goal = NoGoal
        /\ UNCHANGED <<owner, pending, cancelling, cancelled, closing, caller,
                       kind, accepted, done, outcome>>
    BY DEF plan_and_execute, answerVars, SessionInv, HandHolds, EndingHeld, ExecutesActive,
           SessionTyped, SessionTypeOK, WorkerRecord, Submitted
  <1>2. Bookkept' /\ NoLeakedReservation' /\ Submitted' = Submitted
    BY <1>1, CallersStay
  <1>3. CASE rt.life = "ARMED_IDLE" /\ snap' = "ARMED_IDLE" /\ Execute(w.goal) /\ UNCHANGED ending
    <2>1. /\ rt' = [rt EXCEPT !.life = "EXECUTING", !.goal = w.goal]
          /\ active' = w.goal /\ adapter' = "executing" /\ news' = TRUE
          /\ w' = [Worker("drain") EXCEPT !.ret = "refresh"]
      BY <1>3 DEF Execute
    <2>2. /\ w' \in WorkerRecord /\ w'.at = "drain" /\ w'.ret = "refresh" /\ w'.goal = NoGoal
      BY <2>1 DEF Worker, WorkerRecord, WorkerSteps, MaybeGoal, Outcomes
    <2>3. /\ rt' \in RuntimeRecord /\ rt'.life = "EXECUTING" /\ rt'.goal = w.goal
          /\ rt'.published = rt.published /\ rt'.ring = rt.ring
          /\ rt'.published \in Seq(Events) /\ rt'.ring \in Seq(Events)
      <3>1. "EXECUTING" \in Lives /\ w.goal \in MaybeGoal
        BY <1>1 DEF Lives, MaybeGoal
      <3> QED  BY <1>1, <2>1, <3>1 DEF RuntimeRecord
    <2>4. adapter # "fault"
      BY <1>1, <1>3 DEF SessionInv, FaultedEnds, Dead
    <2>5. SessionTyped'
      BY <1>1, <1>3, <2>1, <2>2, <2>3
      DEF SessionInv, SessionTyped, SessionTypeOK, WorkerRecord, MaybeGoal, AdapterStates, Lives
    <2>6. Rest'
      BY <1>1, <1>2, <1>3, <2>1, <2>2, <2>3, <2>4
      DEF Rest, SessionInv, SubmittedOwns, SlotsHold, HandHolds, FaultedEnds, EndingHeld, Dead, Returns
    <2>7. ExecutesActive'
      BY <1>1, <1>3, <2>1, <2>2, <2>3, SessionConstants DEF ExecutesActive, Dead
    <2>8. EventsAreOver'
      <3> SUFFICES ASSUME NEW e \in Unpolled, e.goal # NoGoal
                   PROVE  e.goal # w.goal /\ done[e.goal] = 1
        BY <1>1, <2>3 DEF EventsAreOver, Unpolled
      <3>1. done[e.goal] = 1
        BY <1>1, <1>3 DEF SessionInv, EventsAreOver, Dead
      <3>2. done[w.goal] # 1
        BY <1>1 DEF SessionInv, Bookkept, Submitted
      <3> QED  BY <3>1, <3>2
    <2> QED  BY <1>2, <2>5, <2>6, <2>7, <2>8 DEF SessionInv, Rest
  <1>4. CASE /\ ending' = w.goal /\ snap' \in {snap, rt.life}
             /\ w' = [w EXCEPT !.at = "answer", !.out = "rejected"]
             /\ UNCHANGED <<rt, active, adapter, news>>
    <2>1. w' \in WorkerRecord /\ w'.at = "answer" /\ w'.goal = w.goal
      BY <1>1, <1>4 DEF WorkerRecord, WorkerSteps, Outcomes
    <2>2. SessionTyped'
      BY <1>1, <1>4, <2>1 DEF SessionInv, SessionTyped, SessionTypeOK, WorkerRecord
    <2>3. Rest'
      BY <1>1, <1>2, <1>4, <2>1
      DEF Rest, SessionInv, SubmittedOwns, SlotsHold, HandHolds, FaultedEnds, EndingHeld, Dead
    <2>4. ExecutesActive' /\ EventsAreOver'
      BY <1>1, <1>4, <2>1 DEF SessionInv, ExecutesActive, EventsAreOver, Unpolled, Dead
    <2> QED  BY <1>2, <2>2, <2>3, <2>4 DEF SessionInv, Rest
  <1> QED  BY <1>3, <1>4 DEF plan_and_execute

LEMMA AnswerPendingStep ==
    ASSUME SessionInv, answer_pending
    PROVE  SessionInv'
  <1>1. /\ w.at = "answer" /\ w.goal \in Submitted /\ w.out \in Outcomes
        /\ pending = NoGoal /\ active = NoGoal /\ rt.goal = NoGoal
        /\ Answer(w.goal, w.out) /\ Disown(w.goal) /\ ending' = NoGoal
        /\ UNCHANGED <<pending, active, cancelling, closing, snap, rt, accepted>>
    BY DEF answer_pending, SessionInv, HandHolds, ExecutesActive, SessionTyped, SessionTypeOK
  <1>2. owner' \in {owner, NoGoal} /\ owner' # w.goal
    BY <1>1, DisownMoves
  <1>3. cancelled' \in MaybeGoal /\ adapter' \in AdapterStates /\ news' \in BOOLEAN
        /\ adapter' \in {"idle", adapter}
    BY DEF answer_pending, SessionInv, SessionTyped, SessionTypeOK, MaybeGoal, AdapterStates
  <1>4. w' \in WorkerRecord /\ (w'.at = "refresh" \/ (w'.at = "fault" /\ w'.ret = "exit"))
    <2>1. w' = Worker("refresh") \/ w' = Fail("exit")
      BY DEF answer_pending
    <2> QED  BY <2>1, SessionWorkerTyped DEF WorkerSteps
  <1> QED  BY <1>1, <1>2, <1>3, <1>4, AnsweredStep

-----------------------------------------------------------------------------
(* The worker: events.                                                     *)

\* The oldest event leaves the ring.
LEMMA PolledTyped ==
    ASSUME SessionInv, poll_event
    PROVE  /\ rt' \in RuntimeRecord /\ rt'.life = rt.life /\ rt'.goal = rt.goal
           /\ rt'.published \in Seq(Events) /\ rt'.ring \in Seq(Events)
           /\ Head(rt.ring) \in Unpolled /\ Unpolled' \subseteq Unpolled
  <1>1. rt \in RuntimeRecord /\ rt.ring \in Seq(Events) /\ rt.ring # <<>>
        /\ rt' = [rt EXCEPT !.ring = Tail(@)]
    BY DEF poll_event, SessionInv, SessionTyped, RuntimeRecord
  <1>2. Tail(rt.ring) \in Seq(Events)
    BY <1>1
  <1>3. /\ rt' \in RuntimeRecord /\ rt'.life = rt.life /\ rt'.goal = rt.goal
        /\ rt'.published = rt.published /\ rt'.ring = Tail(rt.ring)
    BY <1>1, <1>2 DEF RuntimeRecord
  <1>4. Head(rt.ring) = rt.ring[1] /\ 1 \in DOMAIN rt.ring
    BY <1>1
  <1>5. \A i \in DOMAIN Tail(rt.ring) : i + 1 \in DOMAIN rt.ring /\ Tail(rt.ring)[i] = rt.ring[i + 1]
    BY <1>1
  <1>6. Unpolled' \subseteq Unpolled
    BY <1>3, <1>5 DEF Unpolled
  <1> QED  BY <1>1, <1>2, <1>3, <1>4, <1>6 DEF Unpolled, RuntimeRecord

LEMMA DrainStep ==
    ASSUME SessionInv, drain_event
    PROVE  SessionInv'
  <1>1. /\ w.at = "drain" /\ adapter # "fault" /\ w \in WorkerRecord
        /\ UNCHANGED <<owner, adapter, pending, active, cancelling, cancelled, closing, snap,
                       caller, kind, accepted, done, outcome>>
    BY DEF drain_event, answerVars, SessionInv, FaultedEnds, SessionTyped, SessionTypeOK, WorkerRecord
  <1>2. Bookkept' /\ NoLeakedReservation' /\ Submitted' = Submitted
    BY <1>1, CallersStay
  <1>3. CASE SessionGoto(w.ret) /\ UNCHANGED <<rt, news, ending>>
    <2>1. w.ret \in WorkerSteps /\ w.ret \in Returns
      BY <1>1 DEF WorkerRecord, SessionInv, HandHolds
    <2>2. w' \in WorkerRecord /\ w'.at = w.ret /\ w'.goal = w.goal /\ w'.held = w.held
      BY <1>1, <1>3, <2>1 DEF SessionGoto, WorkerRecord
    <2>3. SessionTyped'
      BY <1>1, <1>3, <2>2 DEF SessionInv, SessionTyped, SessionTypeOK, WorkerRecord
    <2>4. w.goal # NoGoal => w.ret = "cancel_check"
      BY <1>1 DEF SessionInv, ExecutesActive
    <2>5. Rest'
      BY <1>1, <1>2, <1>3, <2>1, <2>2, <2>4
      DEF Rest, SessionInv, SubmittedOwns, SlotsHold, HandHolds, FaultedEnds, EndingHeld, Dead, Returns
    <2>6. ExecutesActive' /\ EventsAreOver'
      BY <1>1, <1>3, <2>1, <2>2
      DEF SessionInv, ExecutesActive, EventsAreOver, Unpolled, Dead, Returns
    <2> QED  BY <1>2, <2>3, <2>5, <2>6 DEF SessionInv, Rest
  <1>4. ASSUME poll_event, news' = TRUE
        PROVE  EventsAreOver' /\ Head(rt.ring) \in Unpolled
               /\ rt'.life = rt.life /\ rt'.goal = rt.goal /\ rt' \in RuntimeRecord
               /\ rt'.published \in Seq(Events) /\ rt'.ring \in Seq(Events)
    <2>1. /\ rt' \in RuntimeRecord /\ rt'.life = rt.life /\ rt'.goal = rt.goal
          /\ rt'.published \in Seq(Events) /\ rt'.ring \in Seq(Events)
          /\ Head(rt.ring) \in Unpolled /\ Unpolled' \subseteq Unpolled
      BY <1>4, PolledTyped
    <2>2. EventsAreOver'
      BY <1>1, <2>1 DEF SessionInv, EventsAreOver, Dead
    <2> QED  BY <2>1, <2>2
  <1>5. CASE poll_event /\ news' = TRUE /\ w' = Fail(AfterFault) /\ UNCHANGED ending
    <2>1. AfterFault \in {"pending", "exit"}
      BY DEF AfterFault
    <2>2. w' \in WorkerRecord /\ w'.at = "fault" /\ w'.goal = NoGoal /\ w'.ret \in {"pending", "exit"}
      BY <1>5, <2>1, SessionWorkerTyped DEF WorkerSteps
    <2>3. SessionTyped'
      BY <1>1, <1>4, <1>5, <2>2 DEF SessionInv, SessionTyped, SessionTypeOK, WorkerRecord, RuntimeRecord
    <2>4. Rest'
      BY <1>1, <1>2, <1>5, <2>2
      DEF Rest, SessionInv, SubmittedOwns, SlotsHold, HandHolds, FaultedEnds, EndingHeld
    <2>5. ExecutesActive'
      BY <1>1, <1>4, <1>5, <2>2 DEF SessionInv, ExecutesActive, Dead
    <2> QED  BY <1>2, <1>4, <1>5, <2>3, <2>4, <2>5 DEF SessionInv, Rest
  <1>6. CASE poll_event /\ news' = TRUE /\ UNCHANGED <<w, ending>>
    <2>1. SessionTyped'
      BY <1>1, <1>4, <1>6 DEF SessionInv, SessionTyped, SessionTypeOK, RuntimeRecord
    <2>2. Rest'
      BY <1>1, <1>2, <1>6
      DEF Rest, SessionInv, SubmittedOwns, SlotsHold, HandHolds, FaultedEnds, EndingHeld
    <2>3. ExecutesActive'
      BY <1>1, <1>4, <1>6 DEF SessionInv, ExecutesActive, Dead
    <2> QED  BY <1>2, <1>4, <1>6, <2>1, <2>2, <2>3 DEF SessionInv, Rest
  <1>7. ASSUME poll_event, news' = TRUE, Head(rt.ring).goal = active, active # NoGoal, ending' = active,
               NEW out \in Outcomes, w' = [w EXCEPT !.at = "complete", !.out = out]
        PROVE  SessionInv'
    <2>1. /\ w' \in WorkerRecord /\ w'.at = "complete" /\ w'.ret = w.ret /\ w'.goal = w.goal
          /\ w'.held = w.held
      BY <1>1, <1>7 DEF WorkerRecord, WorkerSteps
    <2>2. rt.goal = NoGoal /\ active \in Submitted /\ pending = NoGoal /\ w.ret \in Returns
      BY <1>1, <1>4, <1>7 DEF SessionInv, EventsAreOver, ExecutesActive, SlotsHold, HandHolds
    <2>3. SessionTyped'
      BY <1>1, <1>4, <1>7, <2>1 DEF SessionInv, SessionTyped, SessionTypeOK, WorkerRecord, RuntimeRecord
    <2>4. Rest'
      BY <1>1, <1>2, <1>4, <1>7, <2>1, <2>2
      DEF Rest, SessionInv, SubmittedOwns, SlotsHold, HandHolds, FaultedEnds, EndingHeld
    <2>5. ExecutesActive'
      BY <1>1, <1>4, <1>7, <2>1 DEF SessionInv, ExecutesActive, Dead
    <2> QED  BY <1>2, <1>4, <1>7, <2>3, <2>4, <2>5 DEF SessionInv, Rest
  <1>8. CASE rt.ring = <<>> /\ SessionGoto(w.ret) /\ UNCHANGED <<rt, news, ending>>
    BY <1>3, <1>8
  <1>9. CASE poll_event /\ news' = TRUE /\ Head(rt.ring).goal = active /\ active # NoGoal
             /\ ending' = active
             /\ \E out \in Outcomes : w' = [w EXCEPT !.at = "complete", !.out = out]
    BY <1>7, <1>9
  <1>10. \/ SessionGoto(w.ret) /\ UNCHANGED <<rt, news, ending>>
         \/ poll_event /\ news' = TRUE /\ w' = Fail(AfterFault) /\ UNCHANGED ending
         \/ poll_event /\ news' = TRUE /\ UNCHANGED <<w, ending>>
         \/ /\ poll_event /\ news' = TRUE /\ Head(rt.ring).goal = active /\ active # NoGoal
            /\ ending' = active
            /\ \E out \in Outcomes : w' = [w EXCEPT !.at = "complete", !.out = out]
    BY DEF drain_event, Outcomes
  <1> QED  BY <1>3, <1>5, <1>6, <1>9, <1>10

LEMMA CompleteStep ==
    ASSUME SessionInv, complete_active
    PROVE  SessionInv'
  <1>1. /\ w.at = "complete" /\ adapter # "fault" /\ active \in Submitted /\ active # NoGoal
        /\ pending = NoGoal /\ rt.goal = NoGoal /\ w.out \in Outcomes /\ w \in WorkerRecord
        /\ w.ret \in Returns /\ (w.goal = NoGoal \/ (w.held /\ w.ret = "cancel_check"))
        /\ w.ret = "cancel_check" => Dead
    BY DEF complete_active, SessionInv, HandHolds, SlotsHold, FaultedEnds, ExecutesActive, SessionTyped,
           SessionTypeOK, WorkerRecord
  <1>2. /\ Answer(active, w.out) /\ Disown(active) /\ active' = NoGoal /\ ending' = NoGoal
        /\ UNCHANGED <<pending, cancelling, cancelled, closing, snap, rt, accepted>>
    BY DEF complete_active
  <1>3. owner' \in {owner, NoGoal} /\ owner' # active
    BY <1>1, <1>2, DisownMoves
  <1>4. cancelled' \in MaybeGoal /\ adapter' \in AdapterStates /\ news' \in BOOLEAN /\ adapter' # "fault"
    BY <1>1 DEF complete_active, SessionInv, SessionTyped, SessionTypeOK, AdapterStates
  <1>5. CASE w' = [w EXCEPT !.at = "drain", !.out = "none"]
    <2>1. w' \in WorkerRecord /\ w'.at = "drain" /\ w'.ret = w.ret /\ w'.goal = w.goal /\ w'.held = w.held
      BY <1>1, <1>5 DEF WorkerRecord, WorkerSteps, Outcomes
    <2> QED  BY <1>1, <1>2, <1>3, <1>4, <2>1, AnsweredStep
  <1>6. CASE w' = Fail(AfterFault)
    <2>1. AfterFault \in {"pending", "exit"}
      BY DEF AfterFault
    <2>2. w' \in WorkerRecord /\ w'.at = "fault" /\ w'.ret \in {"pending", "exit"}
      BY <1>6, <2>1, SessionWorkerTyped DEF WorkerSteps
    <2> QED  BY <1>1, <1>2, <1>3, <1>4, <2>2, AnsweredStep
  <1> QED  BY <1>5, <1>6 DEF complete_active

-----------------------------------------------------------------------------
(* The worker: faults and the end.                                         *)

\* The worker has stopped the runtime and taken the commands, to answer them.
LEMMA TakenStep ==
    ASSUME SessionInv, w.at \in {"fault", "shutdown"}, adapter # "fault",
           rt' \in RuntimeRecord, rt'.goal = NoGoal, Dead', EventsAreOver',
           snap' \in Lives, adapter' \in AdapterStates, news' \in BOOLEAN,
           active' = NoGoal, pending' = NoGoal,
           ending' = IF active # NoGoal THEN active
                     ELSE IF pending # NoGoal THEN pending ELSE ending,
           w' \in WorkerRecord, w'.at \in {"fault_answer", "shutdown_answer"},
           w'.goal = IF active # NoGoal THEN active ELSE pending,
           w'.at = "fault_answer" => adapter' = "fault" /\ w'.ret \in {"pending", "exit"},
           w'.at = "shutdown_answer" => closing,
           UNCHANGED <<owner, cancelling, cancelled, closing, caller, answerVars>>
    PROVE  SessionInv'
  <1>1. Bookkept' /\ NoLeakedReservation' /\ Submitted' = Submitted
    BY CallersStay DEF answerVars
  <1>2. SessionTyped'
    BY DEF SessionInv, SessionTyped, SessionTypeOK, WorkerRecord, RuntimeRecord, MaybeGoal, answerVars
  <1>3. Rest'
    BY <1>1 DEF Rest, SessionInv, SubmittedOwns, SlotsHold, HandHolds, FaultedEnds, EndingHeld, Dead
  <1>4. ExecutesActive'
    BY DEF ExecutesActive, Dead
  <1> QED  BY <1>1, <1>2, <1>3, <1>4 DEF SessionInv, Rest

LEMMA FaultStep ==
    ASSUME SessionInv, fault_with_detail
    PROVE  SessionInv'
  <1>1. w.at = "fault" /\ w \in WorkerRecord /\ w.ret \in {"pending", "exit"} /\ rt \in RuntimeRecord
    BY DEF fault_with_detail, SessionInv, HandHolds, SessionTyped, SessionTypeOK, WorkerRecord
  <1>2. CASE adapter = "fault"
    <2>1. w' = Worker("exit") /\ UNCHANGED <<callerVars, rt, snap>> /\ ending = NoGoal
      BY <1>1, <1>2 DEF fault_with_detail, SessionInv, FaultedEnds, callerVars, answerVars
    <2>2. w' \in WorkerRecord /\ w'.at = "exit" /\ w'.goal = NoGoal
      BY <2>1, SessionWorkerTyped DEF WorkerSteps
    <2> QED  BY <2>1, <2>2, MoveOnStep
  <1>3. CASE adapter # "fault"
    <2> DEFINE command == IF active # NoGoal THEN active ELSE pending
    <2>1. /\ rt' = Stopped(rt) /\ snap' \in {snap, Stopped(rt).life}
          /\ w' = [w EXCEPT !.at = "fault_answer", !.goal = command]
          /\ ending' = (IF active # NoGoal THEN active
                        ELSE IF pending # NoGoal THEN pending ELSE ending)
          /\ active' = NoGoal /\ pending' = NoGoal /\ adapter' = "fault" /\ news' = TRUE
          /\ UNCHANGED <<owner, cancelling, cancelled, closing, caller, answerVars>>
      BY <1>3 DEF fault_with_detail, TerminalSnapshot
    <2>2. EventsAreOver' /\ rt' \in RuntimeRecord /\ rt'.goal = NoGoal /\ Dead' /\ rt'.life \in Lives
      BY <2>1, EventsStop
    <2>3. snap' \in Lives
      BY <2>1, <2>2 DEF SessionInv, SessionTyped, SessionTypeOK
    <2>4. command \in MaybeGoal
      BY DEF SessionInv, SessionTyped, SessionTypeOK
    <2> HIDE DEF command
    <2>5. w' \in WorkerRecord /\ w'.at = "fault_answer" /\ w'.goal = command /\ w'.ret = w.ret
      BY <1>1, <2>1, <2>4 DEF WorkerRecord, WorkerSteps
    <2>6. adapter' \in AdapterStates /\ news' \in BOOLEAN
      BY <2>1 DEF AdapterStates
    <2> QED  BY <1>1, <1>3, <2>1, <2>2, <2>3, <2>5, <2>6, TakenStep DEF command
  <1> QED  BY <1>2, <1>3

\* The answers after a fault and at the end.
LEMMA LastAnswerStep ==
    ASSUME SessionInv, fault_answer \/ shutdown_answer
    PROVE  SessionInv'
  <1>1. /\ w.at \in {"fault_answer", "shutdown_answer"} /\ active = NoGoal /\ rt.goal = NoGoal /\ Dead
        /\ w.at = "fault_answer" => adapter = "fault" /\ w.ret \in {"pending", "exit"}
        /\ w.at = "shutdown_answer" => closing
        /\ w.goal # NoGoal => w.goal \in Submitted /\ pending = NoGoal
        /\ Answer(w.goal, "aborted") /\ owner' = NoGoal /\ ending' = NoGoal /\ news' = TRUE
        /\ UNCHANGED <<pending, active, cancelling, cancelled, closing, snap, rt, accepted>>
    BY DEF fault_answer, shutdown_answer, SessionInv, HandHolds, FaultedEnds, SlotsHold, ExecutesActive
  <1>2. PICK at \in {"pending", "exit"} : w' = Worker(at) /\ (at = "pending" => w.at = "fault_answer")
    BY <1>1 DEF fault_answer, shutdown_answer
  <1>3. w' \in WorkerRecord /\ w'.at = at /\ w'.goal = NoGoal
    BY <1>2, SessionWorkerTyped DEF WorkerSteps
  <1>4. adapter' \in {adapter, "fault"} /\ adapter' \in AdapterStates
    BY DEF fault_answer, shutdown_answer, SessionInv, SessionTyped, SessionTypeOK, AdapterStates
  <1>5. CASE w.goal # NoGoal
    <2>1. "aborted" \in Outcomes /\ cancelled' \in MaybeGoal /\ w.goal # NoGoal
      BY <1>1, <1>5 DEF Outcomes, SessionInv, SessionTyped, SessionTypeOK
    <2> QED  BY <1>1, <1>2, <1>3, <1>4, <1>5, <2>1, AnsweredStep
  <1>6. CASE w.goal = NoGoal
    <2>1. UNCHANGED <<done, outcome, caller, kind>>
      BY <1>1, <1>6 DEF Answer
    <2>2. Bookkept' /\ NoLeakedReservation' /\ Submitted' = Submitted
      BY <1>1, <2>1, CallersStay
    <2>3. SessionTyped'
      BY <1>1, <1>3, <1>4, <2>1 DEF SessionInv, SessionTyped, SessionTypeOK, WorkerRecord, MaybeGoal
    <2>4. Rest'
      BY <1>1, <1>2, <1>3, <1>4, <2>2
      DEF Rest, SessionInv, SubmittedOwns, SlotsHold, HandHolds, FaultedEnds, EndingHeld, Dead
    <2>5. ExecutesActive' /\ EventsAreOver'
      BY <1>1, <1>3, <2>1 DEF SessionInv, ExecutesActive, EventsAreOver, Unpolled, Dead
    <2> QED  BY <2>2, <2>3, <2>4, <2>5 DEF SessionInv, Rest
  <1> QED  BY <1>5, <1>6

LEMMA ShutdownStep ==
    ASSUME SessionInv, shutdown_on_owner_thread
    PROVE  SessionInv'
  <1> DEFINE command == IF active # NoGoal THEN active ELSE pending
  <1>1. /\ w.at = "shutdown" /\ adapter # "fault" /\ closing /\ rt \in RuntimeRecord /\ ending = NoGoal
        /\ active' = NoGoal /\ pending' = NoGoal
        /\ w' = [Worker("shutdown_answer") EXCEPT !.goal = command]
        /\ ending' = (IF active # NoGoal THEN active
                      ELSE IF pending # NoGoal THEN pending ELSE ending)
        /\ UNCHANGED <<owner, cancelling, cancelled, closing, news, caller, answerVars>>
    BY DEF shutdown_on_owner_thread, SessionInv, SlotsHold, FaultedEnds, EndingHeld, SessionTyped
  <1>2. command \in MaybeGoal
    BY DEF SessionInv, SessionTyped, SessionTypeOK
  <1> HIDE DEF command
  <1>3. w' \in WorkerRecord /\ w'.at = "shutdown_answer" /\ w'.goal = command
    BY <1>1, <1>2 DEF Worker, WorkerRecord, WorkerSteps, Outcomes
  <1>4. CASE snap \in {"EXECUTING", "ARMED_IDLE"}
    <2>1. rt' = [Stopped(rt) EXCEPT !.ring = <<>>] /\ snap' \in {snap, rt'.life}
          /\ adapter' \in {"fault", adapter}
      BY <1>4 DEF shutdown_on_owner_thread
    <2>2. EventsAreOver' /\ rt' \in RuntimeRecord /\ rt'.goal = NoGoal /\ Dead' /\ rt'.life \in Lives
      BY <2>1, EventsStop
    <2>3. snap' \in Lives /\ adapter' \in AdapterStates /\ news' \in BOOLEAN
      BY <1>1, <2>1, <2>2 DEF SessionInv, SessionTyped, SessionTypeOK, AdapterStates
    <2> QED  BY <1>1, <1>3, <2>2, <2>3, TakenStep DEF command
  <1>5. CASE snap \notin {"EXECUTING", "ARMED_IDLE"}
    <2>1. UNCHANGED <<rt, snap, adapter>> /\ Dead /\ rt.goal = NoGoal
      BY <1>5 DEF shutdown_on_owner_thread, SessionInv, ExecutesActive, SessionTyped, SessionTypeOK, Lives, Dead
    <2>2. EventsAreOver'
      BY <1>1, <2>1, EventsStay DEF answerVars
    <2>3. snap' \in Lives /\ adapter' \in AdapterStates /\ news' \in BOOLEAN /\ Dead' /\ rt' \in RuntimeRecord
      BY <1>1, <2>1 DEF SessionInv, SessionTyped, SessionTypeOK, AdapterStates, Dead
    <2> QED  BY <1>1, <1>3, <2>1, <2>2, <2>3, TakenStep DEF command
  <1> QED  BY <1>4, <1>5

-----------------------------------------------------------------------------
(* The theorems.                                                           *)

LEMMA SessionStarts == SessionInit => SessionInv
  <1> SUFFICES ASSUME SessionInit PROVE SessionInv
    OBVIOUS
  <1>1. w \in WorkerRecord /\ w.at = "poll" /\ w.goal = NoGoal
    BY SessionWorkerTyped DEF SessionInit, WorkerSteps
  <1>2. /\ rt \in RuntimeRecord /\ rt.life = "ARMED_IDLE" /\ rt.goal = NoGoal
        /\ rt.published = <<>> /\ rt.ring = <<>>
        /\ rt.published \in Seq(Events) /\ rt.ring \in Seq(Events)
    BY DEF SessionInit, Runtime, RuntimeRecord, Lives, MaybeGoal
  <1>3. SessionTyped
    <2>1. /\ owner \in MaybeGoal /\ adapter \in AdapterStates /\ pending \in MaybeGoal
          /\ active \in MaybeGoal /\ cancelling \in MaybeGoal /\ cancelled \in MaybeGoal
          /\ ending \in MaybeGoal /\ closing \in BOOLEAN /\ news \in BOOLEAN /\ snap \in Lives
      BY DEF SessionInit, MaybeGoal, AdapterStates, Lives
    <2>2. /\ caller \in [Goal -> {"new", "reserved", "refused", "submitted", "ended"}]
          /\ kind \in [Goal -> Kinds] /\ accepted \subseteq Goal
          /\ done \in [Goal -> 0 .. 2] /\ outcome \in [Goal -> Outcomes]
      BY DEF SessionInit, Kinds, Outcomes
    <2> QED  BY <1>1, <1>2, <2>1, <2>2 DEF SessionTyped, SessionTypeOK, WorkerRecord, RuntimeRecord
  <1>4. Submitted = {} /\ Bookkept /\ NoLeakedReservation
    BY DEF SessionInit, Submitted, Bookkept, NoLeakedReservation
  <1>5. SubmittedOwns /\ SlotsHold /\ HandHolds /\ FaultedEnds /\ EndingHeld
    BY <1>1, <1>2, <1>4 DEF SessionInit, SubmittedOwns, SlotsHold, HandHolds, FaultedEnds, EndingHeld
  <1>6. ExecutesActive /\ EventsAreOver
    BY <1>1, <1>2 DEF SessionInit, ExecutesActive, EventsAreOver, Unpolled
  <1> QED  BY <1>3, <1>4, <1>5, <1>6 DEF SessionInv

LEMMA SessionStays ==
    ASSUME SessionInv, UNCHANGED sessionVars
    PROVE  SessionInv'
  BY DEF SessionInv, sessionVars, SessionTyped, SessionTypeOK, Bookkept, SubmittedOwns, SlotsHold, HandHolds,
         FaultedEnds, EndingHeld, ExecutesActive, EventsAreOver, Unpolled, Dead, Submitted,
         NoLeakedReservation

LEMMA SessionInductive == SessionInv /\ [SessionNext]_sessionVars => SessionInv'
  <1> SUFFICES ASSUME SessionInv, [SessionNext]_sessionVars
               PROVE  SessionInv'
    OBVIOUS
  <1>1. CASE WorkerNext
    BY <1>1, WaitStep, CaptureStep, StopStep, CheckStep, CancelAnswerStep, TakeStep, GripperStep,
       PlanStep, AnswerPendingStep, DrainStep, CompleteStep, PollStep, HeartbeatStep, FaultStep,
       LastAnswerStep, ShutdownStep, ExitStep
    DEF WorkerNext
  <1>2. CASE RuntimeThread
    BY <1>2, RuntimeStep, RingStep DEF RuntimeThread
  <1>3. ASSUME NEW g \in Goal, reserve(g) \/ submit(g) \/ release(g) \/ cancel(g)
        PROVE  SessionInv'
    BY <1>3, ReserveStep, SubmitStep, ReleaseStep, CancelStep
  <1>4. CASE close
    BY <1>4, CancelStep
  <1>5. CASE UNCHANGED sessionVars
    BY <1>5, SessionStays
  <1> QED  BY <1>1, <1>2, <1>3, <1>4, <1>5 DEF SessionNext

LEMMA SessionInvariant == SessionSpec => []SessionInv
  BY SessionStarts, SessionInductive, PTL DEF SessionSpec

\* An answer of the virtual session is the end of a goal: its command is
\* stopped and its reservation given back (the terminal sections of
\* complete_active, process_cancel, reject_on_owner, fault_with_detail and
\* shutdown_on_owner_thread).
THEOREM SessionAnswersEnd == SessionSpec => []AnswerEndsGoal
  <1>1. SessionInv => AnswerEndsGoal
    <2> SUFFICES ASSUME SessionInv
                 PROVE  AnswerEndsGoal
      OBVIOUS
    <2>1. AnsweredIsStopped
      <3> SUFFICES ASSUME NEW g \in Goal, done[g] > 0, rt.goal = g
                   PROVE  FALSE
        BY DEF AnsweredIsStopped
      <3>1. g = active /\ g # NoGoal
        BY SessionConstants DEF SessionInv, ExecutesActive
      <3>2. caller[g] = "submitted"
        BY <3>1 DEF SessionInv, SlotsHold, Submitted
      <3>3. done[g] = 0
        BY <3>2 DEF SessionInv, Bookkept
      <3> QED  BY <3>3
    <2> QED  BY <2>1 DEF SessionInv, AnswerEndsGoal
  <1> QED  BY <1>1, SessionInvariant, PTL

\* The session stays well typed, for every number of goals (virtual_control_session.cpp:
\* the calls and the worker).
THEOREM SessionTypes == SessionSpec => []SessionTypeOK
  <1>1. SessionInv => SessionTypeOK
    BY DEF SessionInv, SessionTyped
  <1> QED  BY <1>1, SessionInvariant, PTL

-----------------------------------------------------------------------------
(* The refinement of GoalContract.                                         *)

\* A worker's step answers the submitted command or leaves the answers.
LEMMA WorkerAnswers ==
    ASSUME SessionInv, WorkerNext
    PROVE  UNCHANGED <<accepted, done>> \/ \E g \in Goal : Contract!Answer(g)
  <1>1. ASSUME NEW g \in MaybeGoal, NEW out \in Outcomes, Answer(g, out), UNCHANGED accepted,
               g = NoGoal \/ g \in Submitted
        PROVE  UNCHANGED <<accepted, done>> \/ \E h \in Goal : Contract!Answer(h)
    <2>1. CASE g = NoGoal
      BY <1>1, <2>1 DEF Answer
    <2>2. CASE g # NoGoal
      <3>1. g \in Goal /\ g \in accepted /\ done[g] = 0
        BY <1>1, <2>2 DEF Submitted, SessionInv, Bookkept
      <3>2. done' = [done EXCEPT ![g] = 1]
        <4>1. done' = [done EXCEPT ![g] = done[g] + 1]
          BY <1>1, <2>2 DEF Answer
        <4> QED  BY <3>1, <4>1
      <3> QED  BY <1>1, <3>1, <3>2 DEF Contract!Answer
    <2> QED  BY <2>1, <2>2
  <1> DEFINE goal == w.goal
             out == w.out
  <1>2. goal \in MaybeGoal /\ out \in Outcomes /\ active \in MaybeGoal
        /\ {"completed", "canceled", "aborted"} \subseteq Outcomes
    BY DEF SessionInv, SessionTyped, SessionTypeOK, Outcomes
  <1>3. CASE cancel_answer
    <2>1. goal = NoGoal \/ goal \in Submitted
      BY <1>3 DEF cancel_answer, SessionInv, HandHolds, SlotsHold
    <2>2. UNCHANGED <<accepted, done>> \/ (Answer(goal, "canceled") /\ UNCHANGED accepted)
      BY <1>3 DEF cancel_answer
    <2> HIDE DEF goal
    <2> QED  BY <1>1, <1>2, <2>1, <2>2
  <1>4. CASE gripper_command
    <2>1. goal \in Submitted
      BY <1>4 DEF gripper_command, SessionInv, HandHolds
    <2>2. UNCHANGED <<accepted, done>> \/ (Answer(goal, "completed") /\ UNCHANGED accepted)
      BY <1>4 DEF gripper_command
    <2> HIDE DEF goal
    <2> QED  BY <1>1, <1>2, <2>1, <2>2
  <1>5. CASE answer_pending
    <2>1. goal \in Submitted /\ Answer(goal, out) /\ UNCHANGED accepted
      BY <1>5 DEF answer_pending, SessionInv, HandHolds
    <2> HIDE DEF goal, out
    <2> QED  BY <1>1, <1>2, <2>1
  <1>6. CASE complete_active
    <2>1. active \in Submitted /\ Answer(active, out) /\ UNCHANGED accepted
      BY <1>6 DEF complete_active, SessionInv, HandHolds, SlotsHold
    <2> HIDE DEF out
    <2> QED  BY <1>1, <1>2, <2>1
  <1>7. CASE fault_answer \/ shutdown_answer
    <2>1. (goal = NoGoal \/ goal \in Submitted) /\ Answer(goal, "aborted") /\ UNCHANGED accepted
      BY <1>7 DEF fault_answer, shutdown_answer, SessionInv, HandHolds
    <2> HIDE DEF goal
    <2> QED  BY <1>1, <1>2, <2>1
  <1>8. CASE wait_until \/ process_cancel \/ cancel_check \/ process_pending \/ plan_and_execute
             \/ drain_event \/ fault_with_detail \/ shutdown_on_owner_thread \/ run_exit
    BY <1>8 DEF wait_until, process_cancel, cancel_check, process_pending, plan_and_execute, drain_event,
                fault_with_detail, shutdown_on_owner_thread, run_exit, answerVars
  <1>9. CASE cancel_stop \/ poll_skipped \/ poll_due \/ heartbeat \/ heartbeat_check \/ publish_feedback
    BY <1>9 DEF cancel_stop, poll_skipped, poll_due, heartbeat, heartbeat_check, publish_feedback,
                callerVars
  <1> QED  BY <1>3, <1>4, <1>5, <1>6, <1>7, <1>8, <1>9 DEF WorkerNext

\* A command is accepted when no other waits.
LEMMA SubmitAccepts ==
    ASSUME SessionInv, NEW g \in Goal, submit(g)
    PROVE  UNCHANGED <<accepted, done>> \/ Contract!Accept(g)
  <1>1. CASE /\ ~closing /\ owner = g /\ pending = NoGoal /\ active = NoGoal
             /\ accepted' = accepted \cup {g} /\ UNCHANGED done
    <2>1. caller[g] = "reserved"
      BY DEF submit
    <2>2. g \notin accepted
      BY <2>1 DEF SessionInv, Bookkept
    <2>3. Submitted = {}
      <3>1. \A h \in Submitted : h = g
        BY <1>1, SessionConstants DEF SessionInv, SubmittedOwns
      <3> QED  BY <2>1, <3>1 DEF Submitted
    <2>4. \A h \in accepted : done[h] = 1
      BY <2>3 DEF SessionInv, Bookkept, Submitted, SessionTyped, SessionTypeOK
    <2> QED  BY <1>1, <2>2, <2>4 DEF Contract!Accept
  <1>2. CASE UNCHANGED <<accepted, done>>
    BY <1>2
  <1> QED  BY <1>1, <1>2 DEF submit

\* The virtual session keeps the contract of its goals, however cancels,
\* completions, faults, close() and the callbacks meet: it takes a command
\* only when every earlier one is answered, and answers each at most once.
THEOREM SessionHonoursContract == SessionSpec => HonoursContract
  <1>1. SessionInit => Contract!Init
    BY DEF SessionInit, Contract!Init
  <1>2. SessionInv /\ [SessionNext]_sessionVars => [Contract!Next]_<<accepted, done>>
    <2> SUFFICES ASSUME SessionInv, [SessionNext]_sessionVars
                 PROVE  UNCHANGED <<accepted, done>> \/ Contract!Next
      OBVIOUS
    <2>1. CASE WorkerNext
      BY <2>1, WorkerAnswers DEF Contract!Next
    <2>2. CASE RuntimeThread
      BY <2>2 DEF RuntimeThread, runtime_advance, runtime_fault, drain_controller_events, callerVars
    <2>3. ASSUME NEW g \in Goal, reserve(g) \/ submit(g) \/ release(g) \/ cancel(g)
          PROVE  UNCHANGED <<accepted, done>> \/ Contract!Next
      <3>1. CASE submit(g)
        BY <3>1, SubmitAccepts DEF Contract!Next
      <3>2. CASE reserve(g) \/ release(g) \/ cancel(g)
        BY <3>2 DEF reserve, release, cancel, answerVars
      <3> QED  BY <2>3, <3>1, <3>2
    <2>4. CASE close \/ UNCHANGED sessionVars
      BY <2>4 DEF close, answerVars, sessionVars
    <2> QED  BY <2>1, <2>2, <2>3, <2>4 DEF SessionNext
  <1> QED  BY <1>1, <1>2, SessionInvariant, PTL DEF SessionSpec, HonoursContract, Contract!Spec

-----------------------------------------------------------------------------
(* No submitted command is out of sight.                                   *)

\* The worker takes a gripper command by its kind, and it keeps its kind.
GripperInHand == w.at = "gripper" => kind[w.goal] = "gripper"

\* The inductive invariant behind NothingIsForgotten.
KeptInv == GripperInHand /\ \A g \in Submitted : Kept(g)

\* Where the answers go on: no terminal callback takes another gripper command.
LEMMA AnswerEmpties ==
    ASSUME SessionInv, NEW g \in Submitted, NEW out, Answer(g, out), w'.at # "gripper"
    PROVE  KeptInv'
  <1>1. g # NoGoal /\ \A h \in Submitted : h = g
    BY SessionConstants DEF Submitted, SessionInv, SubmittedOwns
  <1>2. caller' = [caller EXCEPT ![g] = "ended"]
    BY <1>1 DEF Answer
  <1>3. Submitted' = {}
    BY <1>1, <1>2 DEF Submitted, SessionInv, SessionTyped, SessionTypeOK
  <1> QED  BY <1>3 DEF KeptInv, GripperInHand

\* The steps of the callers and of the runtime.
LEMMA CallersForgetNothing ==
    ASSUME SessionInv, KeptInv,
           RuntimeThread \/ close
           \/ \E g \in Goal : reserve(g) \/ submit(g) \/ release(g) \/ cancel(g)
    PROVE  KeptInv'
  <1>1. w' = w /\ active' = active /\ (adapter = "fault" => adapter' = "fault")
    BY DEF RuntimeThread, runtime_advance, runtime_fault, drain_controller_events, close,
           reserve, submit, release, cancel, callerVars, workerVars, answerVars
  <1>2. w.at = "gripper" => w.goal \in Submitted
    BY DEF SessionInv, HandHolds
  <1>3. CASE pending' = pending /\ kind' = kind /\ Submitted' \subseteq Submitted
    BY <1>1, <1>2, <1>3 DEF KeptInv, GripperInHand, Kept
  <1>4. CASE RuntimeThread \/ close \/ \E g \in Goal : cancel(g)
    <2>1. pending' = pending /\ kind' = kind /\ caller' = caller
      BY <1>4 DEF RuntimeThread, runtime_advance, runtime_fault, drain_controller_events,
                  close, cancel, callerVars, answerVars
    <2> QED  BY <1>3, <2>1 DEF Submitted
  <1>5. ASSUME NEW g \in Goal, reserve(g) \/ release(g) PROVE KeptInv'
    <2>1. /\ pending' = pending /\ kind' = kind
          /\ \E c \in {"reserved", "ended"} : caller' = [caller EXCEPT ![g] = c]
      BY <1>5 DEF reserve, release, answerVars
    <2>2. Submitted' \subseteq Submitted
      BY <2>1 DEF Submitted, SessionInv, SessionTyped, SessionTypeOK
    <2> QED  BY <1>3, <2>1, <2>2
  <1>6. ASSUME NEW g \in Goal, submit(g) PROVE KeptInv'
    <2>1. caller[g] = "reserved" /\ g \notin Submitted
      BY <1>6 DEF submit, Submitted
    <2>2. CASE pending' = pending /\ kind' = kind /\ caller' = [caller EXCEPT ![g] = "refused"]
      <3>1. Submitted' \subseteq Submitted
        BY <2>2 DEF Submitted, SessionInv, SessionTyped, SessionTypeOK
      <3> QED  BY <1>3, <2>2, <3>1
    <2>3. ASSUME NEW k \in Kinds, pending = NoGoal, pending' = g,
                 kind' = [kind EXCEPT ![g] = k],
                 caller' = [caller EXCEPT ![g] = "submitted"]
          PROVE  KeptInv'
      <3>1. Submitted' \subseteq Submitted \cup {g} /\ NoGoal \notin Submitted
        BY <2>3, SessionConstants DEF Submitted, SessionInv, SessionTyped, SessionTypeOK
      <3>2. \A h \in Submitted : kind'[h] = kind[h]
        BY <2>1, <2>3 DEF Submitted, SessionInv, SessionTyped, SessionTypeOK
      <3>3. GripperInHand'
        BY <1>1, <1>2, <3>2 DEF KeptInv, GripperInHand
      <3>4. ASSUME NEW h \in Submitted PROVE Kept(h)'
        BY <1>1, <2>3, <3>1, <3>2 DEF KeptInv, Kept
      <3>5. Kept(g)'
        BY <2>3 DEF Kept
      <3> QED  BY <3>1, <3>3, <3>4, <3>5 DEF KeptInv
    <2> QED  BY <1>6, <2>2, <2>3 DEF submit
  <1> QED  BY <1>4, <1>5, <1>6

\* The worker's steps that neither take nor answer a command.
LEMMA WorkerForgetsNothing ==
    ASSUME SessionInv, KeptInv,
           \/ wait_until \/ process_cancel \/ cancel_stop \/ cancel_check \/ drain_event
           \/ poll_skipped \/ poll_due \/ heartbeat \/ heartbeat_check \/ publish_feedback
           \/ run_exit
    PROVE  KeptInv'
  <1>1. UNCHANGED <<pending, active, kind, caller>>
    BY DEF wait_until, process_cancel, cancel_stop, cancel_check, drain_event, poll_skipped,
           poll_due, heartbeat, heartbeat_check, publish_feedback, run_exit, callerVars,
           answerVars
  <1>2. w.at \notin Answering \cup {"fault"}
    BY DEF wait_until, process_cancel, cancel_stop, cancel_check, drain_event, poll_skipped,
           poll_due, heartbeat, heartbeat_check, publish_feedback, run_exit, Answering
  <1>3. adapter = "fault" => adapter' = "fault"
    <2>1. CASE cancel_check
      BY <2>1 DEF cancel_check, SessionInv, FaultedEnds
    <2> QED
      BY <2>1 DEF wait_until, process_cancel, cancel_stop, drain_event, poll_skipped,
           poll_due, heartbeat, heartbeat_check, publish_feedback, run_exit, callerVars
  <1>4. w'.at # "gripper"
    <2>1. w \in WorkerRecord /\ (w.at = "drain" => w.ret \in Returns)
      BY DEF SessionInv, SessionTyped, SessionTypeOK, WorkerRecord, HandHolds
    <2>2. CASE wait_until \/ poll_skipped \/ heartbeat_check \/ run_exit
      BY <2>2, SessionWorkerTyped
      DEF wait_until, poll_skipped, heartbeat_check, run_exit, WorkerSteps
    <2>3. CASE poll_due \/ heartbeat \/ publish_feedback
      <3>1. \/ \E ret : w' = [Worker("drain") EXCEPT !.ret = ret]
            \/ w' = Worker("publish") \/ w' = Fail("exit")
        BY <2>3 DEF poll_due, heartbeat, publish_feedback
      <3>2. Worker("drain") \in WorkerRecord /\ Worker("drain").at = "drain"
        BY SessionWorkerTyped DEF WorkerSteps
      <3> QED  BY <3>1, <3>2, SessionWorkerTyped DEF WorkerRecord, WorkerSteps
    <2>4. CASE process_cancel
      <3>1. \/ w' = Worker("pending")
            \/ \E goal, held : w' = [Worker("cancel_stop") EXCEPT !.goal = goal, !.held = held]
        BY <2>4 DEF process_cancel
      <3>2. /\ Worker("cancel_stop") \in WorkerRecord /\ Worker("cancel_stop").at = "cancel_stop"
            /\ Worker("pending").at = "pending"
        BY SessionWorkerTyped DEF WorkerSteps
      <3>3. ASSUME NEW goal, NEW held,
                   w' = [Worker("cancel_stop") EXCEPT !.goal = goal, !.held = held]
            PROVE  w'.at = "cancel_stop"
        BY <3>2, <3>3 DEF WorkerRecord
      <3> QED  BY <3>1, <3>2, <3>3
    <2>5. CASE cancel_stop
      <3>1. \/ w' = [w EXCEPT !.at = "cancel_check"]
            \/ \E ret, ok : w' = [w EXCEPT !.at = "drain", !.ret = ret, !.ok = ok]
        BY <2>5, Zenon DEF cancel_stop, SessionGoto
      <3> QED  BY <2>1, <3>1 DEF WorkerRecord
    <2>6. CASE cancel_check
      <3>1. w' = Worker("pending") \/ \E ok : w' = [w EXCEPT !.at = "cancel_answer", !.ok = ok]
        BY <2>6, Zenon DEF cancel_check
      <3>2. Worker("pending").at = "pending"
        BY SessionWorkerTyped DEF WorkerSteps
      <3>3. ASSUME NEW ok, w' = [w EXCEPT !.at = "cancel_answer", !.ok = ok]
            PROVE  w'.at = "cancel_answer"
        BY <2>1, <3>3 DEF WorkerRecord
      <3> QED  BY <3>1, <3>2, <3>3
    <2>7. CASE drain_event
      <3>1. w.at = "drain"
        BY <2>7 DEF drain_event
      <3>2. \/ w' = [w EXCEPT !.at = w.ret] \/ w' = w \/ w' = Fail(AfterFault)
            \/ \E out : w' = [w EXCEPT !.at = "complete", !.out = out]
        BY <2>7, Zenon DEF drain_event, SessionGoto
      <3>3. AfterFault \in WorkerSteps
        BY DEF AfterFault, WorkerSteps
      <3> QED  BY <2>1, <3>1, <3>2, <3>3, SessionWorkerTyped DEF WorkerRecord, Returns
    <2> QED  BY <2>2, <2>3, <2>4, <2>5, <2>6, <2>7
  <1> QED  BY <1>1, <1>2, <1>3, <1>4 DEF KeptInv, GripperInHand, Kept, Submitted

\* The steps that take a command: out of pending_, out of the slots at a fault
\* or at the shutdown, and into active_.
LEMMA TakingForgetsNothing ==
    ASSUME SessionInv, KeptInv,
           process_pending \/ plan_and_execute \/ fault_with_detail \/ shutdown_on_owner_thread
    PROVE  KeptInv'
  <1>1. kind' = kind /\ caller' = caller /\ Submitted' = Submitted
    BY DEF process_pending, plan_and_execute, fault_with_detail, shutdown_on_owner_thread,
           answerVars, Submitted
  <1>2. /\ w \in WorkerRecord /\ NoGoal \notin Submitted
        /\ pending = NoGoal \/ active = NoGoal
        /\ \A g, h \in Submitted : g = h
        /\ pending \in Submitted \cup {NoGoal}
    BY SessionConstants DEF SessionInv, SessionTyped, SessionTypeOK, WorkerRecord, SlotsHold,
       SubmittedOwns, Submitted
  <1>3. CASE process_pending
    <2>1. /\ w.at = "pending" /\ pending' = NoGoal
          /\ UNCHANGED <<active, adapter>>
      BY <1>3 DEF process_pending
    <2>2. CASE pending = NoGoal
      <3>1. w' = Worker("refresh") /\ Worker("refresh").at = "refresh"
        BY <1>3, <2>2, SessionWorkerTyped DEF process_pending, WorkerSteps
      <3> QED  BY <1>1, <1>2, <2>1, <2>2, <3>1
               DEF KeptInv, GripperInHand, Kept, Answering
    <2>3. CASE pending # NoGoal
      <3>1. PICK at \in {"answer", "gripper", "plan"}, out \in {"canceled", "none"} :
              /\ w' = [Worker(at) EXCEPT !.goal = pending, !.out = out]
              /\ at = "gripper" => kind[pending] = "gripper"
        BY <1>3, <2>3, Zenon DEF process_pending
      <3>2. Worker(at) \in WorkerRecord /\ Worker(at).at = at
        BY SessionWorkerTyped DEF WorkerSteps
      <3>3. w'.at = at /\ w'.goal = pending
        BY <3>1, <3>2 DEF WorkerRecord
      <3>4. \A g \in Submitted : g = pending
        BY <1>2, <2>3
      <3> QED  BY <1>1, <3>1, <3>3, <3>4 DEF KeptInv, GripperInHand, Kept, Answering
    <2> QED  BY <2>2, <2>3
  <1>4. CASE plan_and_execute
    <2>1. w.at = "plan" /\ w.goal \in Submitted
      BY <1>4 DEF plan_and_execute, SessionInv, HandHolds
    <2>2. \A g \in Submitted : g = w.goal
      BY <1>2, <2>1
    <2>3. CASE Execute(w.goal)
      <3>1. active' = w.goal /\ w' = [Worker("drain") EXCEPT !.ret = "refresh"]
        BY <2>3 DEF Execute
      <3>2. Worker("drain") \in WorkerRecord /\ Worker("drain").at = "drain"
        BY SessionWorkerTyped DEF WorkerSteps
      <3>3. w'.at = "drain"
        BY <3>1, <3>2 DEF WorkerRecord
      <3> QED  BY <1>1, <2>2, <3>1, <3>3 DEF KeptInv, GripperInHand, Kept
    <2>4. CASE w' = [w EXCEPT !.at = "answer", !.out = "rejected"]
      <3>1. w'.at = "answer" /\ w'.goal = w.goal
        BY <1>2, <2>4 DEF WorkerRecord
      <3> QED  BY <1>1, <2>2, <3>1 DEF KeptInv, GripperInHand, Kept, Answering
    <2> QED  BY <1>4, <2>3, <2>4 DEF plan_and_execute
  <1>5. CASE fault_with_detail
    <2>1. w.at = "fault" /\ w.ret \in {"pending", "exit"}
      BY <1>5 DEF fault_with_detail, SessionInv, HandHolds
    <2>2. CASE adapter = "fault" /\ w' = Worker(w.ret) /\ UNCHANGED <<active, pending, adapter>>
      <3>1. Worker(w.ret).at = w.ret
        BY <2>1, SessionWorkerTyped DEF WorkerSteps
      <3> QED  BY <1>1, <2>1, <2>2, <3>1 DEF KeptInv, GripperInHand, Kept, Answering
    <2>3. CASE /\ w' = [w EXCEPT !.at = "fault_answer",
                                 !.goal = IF active # NoGoal THEN active ELSE pending]
               /\ adapter' = "fault"
      <3>1. w'.at = "fault_answer" /\ w'.goal = (IF active # NoGoal THEN active ELSE pending)
        BY <1>2, <2>3 DEF WorkerRecord
      <3> QED  BY <1>1, <1>2, <2>1, <2>3, <3>1
               DEF KeptInv, GripperInHand, Kept, Answering
    <2> QED  BY <1>5, <2>2, <2>3 DEF fault_with_detail
  <1>6. CASE shutdown_on_owner_thread
    <2>1. w.at = "shutdown" /\ adapter # "fault"
      BY <1>6 DEF shutdown_on_owner_thread, SessionInv, FaultedEnds
    <2> DEFINE command == IF active # NoGoal THEN active ELSE pending
    <2>2. w' = [Worker("shutdown_answer") EXCEPT !.goal = command]
      BY <1>6 DEF shutdown_on_owner_thread
    <2>3. Worker("shutdown_answer") \in WorkerRecord
          /\ Worker("shutdown_answer").at = "shutdown_answer"
      BY SessionWorkerTyped DEF WorkerSteps
    <2>4. w'.at = "shutdown_answer" /\ w'.goal = command
      BY <2>2, <2>3 DEF WorkerRecord
    <2> QED  BY <1>1, <1>2, <2>1, <2>4 DEF KeptInv, GripperInHand, Kept, Answering
  <1> QED  BY <1>3, <1>4, <1>5, <1>6

\* The steps that answer one.
LEMMA AnsweringForgetsNothing ==
    ASSUME SessionInv, KeptInv,
           cancel_answer \/ gripper_command \/ answer_pending \/ complete_active
           \/ fault_answer \/ shutdown_answer
    PROVE  KeptInv'
  <1>1. w \in WorkerRecord /\ NoGoal \notin Submitted
    BY SessionConstants DEF SessionInv, SessionTyped, SessionTypeOK, WorkerRecord, Submitted
  <1>2. \A at \in {"pending", "refresh", "exit"} : Worker(at).at = at /\ Fail(at).at = "fault"
    BY SessionWorkerTyped DEF WorkerSteps
  <1>3. CASE cancel_answer
    <2>1. w.at = "cancel_answer" /\ adapter # "fault"
      BY <1>3 DEF cancel_answer, SessionInv, FaultedEnds
    <2>2. w'.at # "gripper"
      BY <1>2, <1>3 DEF cancel_answer
    <2>3. CASE w.goal = NoGoal
      <3>1. UNCHANGED <<pending, active, kind, caller>>
        BY <1>3, <2>3 DEF cancel_answer
      <3> QED  BY <2>1, <2>2, <3>1 DEF KeptInv, GripperInHand, Kept, Answering, Submitted
    <2>4. CASE w.goal # NoGoal
      <3>1. w.goal \in Submitted
        BY <2>1, <2>4 DEF SessionInv, HandHolds, SlotsHold
      <3>2. Answer(w.goal, "canceled")
        BY <1>3, <2>4 DEF cancel_answer
      <3> QED  BY <2>2, <3>1, <3>2, AnswerEmpties
    <2> QED  BY <2>3, <2>4
  <1>4. CASE gripper_command
    <2>1. /\ w.at = "gripper" /\ w.goal \in Submitted
          /\ UNCHANGED <<pending, active>>
      BY <1>4 DEF gripper_command, SessionInv, HandHolds
    <2>2. \A g \in Submitted : g = w.goal
      BY <2>1 DEF SessionInv, SubmittedOwns
    <2>3. CASE w' = [w EXCEPT !.at = "answer", !.out = "rejected"] /\ UNCHANGED <<caller, kind>>
      <3>1. w'.at = "answer" /\ w'.goal = w.goal
        BY <1>1, <2>3 DEF WorkerRecord
      <3> QED  BY <2>2, <2>3, <3>1 DEF KeptInv, GripperInHand, Kept, Answering, Submitted
    <2>4. CASE w' = Fail("exit") /\ UNCHANGED <<caller, kind>>
      <3>1. w'.at = "fault"
        BY <1>2, <2>4
      <3> QED  BY <2>1, <2>2, <2>4, <3>1 DEF KeptInv, GripperInHand, Kept, Submitted
    <2>5. CASE Answer(w.goal, "completed") /\ w' = Worker("refresh")
      <3>1. w'.at # "gripper"
        BY <1>2, <2>5
      <3> QED  BY <2>1, <2>5, <3>1, AnswerEmpties
    <2> QED  BY <1>4, <2>3, <2>4, <2>5 DEF gripper_command
  <1>5. CASE answer_pending
    <2>1. w.goal \in Submitted /\ Answer(w.goal, w.out)
      BY <1>5 DEF answer_pending, SessionInv, HandHolds
    <2>2. w'.at # "gripper"
      BY <1>2, <1>5 DEF answer_pending
    <2> QED  BY <2>1, <2>2, AnswerEmpties
  <1>6. CASE complete_active
    <2>1. active \in Submitted /\ Answer(active, w.out)
      BY <1>6 DEF complete_active, SessionInv, HandHolds, SlotsHold
    <2>2. AfterFault \in {"pending", "exit"}
      BY DEF AfterFault
    <2>3. w' = [w EXCEPT !.at = "drain", !.out = "none"] \/ w' = Fail(AfterFault)
      BY <1>6 DEF complete_active
    <2>4. w'.at # "gripper"
      BY <1>1, <1>2, <2>2, <2>3 DEF WorkerRecord
    <2> QED  BY <2>1, <2>4, AnswerEmpties
  <1>7. CASE fault_answer \/ shutdown_answer
    <2>1. /\ w.at \in {"fault_answer", "shutdown_answer"} /\ Answer(w.goal, "aborted")
          /\ w' = Worker(w.ret) \/ w' = Worker("exit")
          /\ UNCHANGED <<pending, active>> /\ (adapter = "fault" => adapter' = "fault")
          /\ w.at = "fault_answer" \/ w' = Worker("exit")
      BY <1>7 DEF fault_answer, shutdown_answer
    <2>2. w.at = "fault_answer" => w.ret \in {"pending", "exit"}
      BY DEF SessionInv, HandHolds
    <2>3. w'.at # "gripper"
      BY <1>2, <2>1, <2>2
    <2>4. CASE w.goal = NoGoal
      <3>1. UNCHANGED <<caller, kind>>
        BY <2>1, <2>4 DEF Answer
      <3> QED  BY <1>1, <2>1, <2>3, <2>4, <3>1 DEF KeptInv, GripperInHand, Kept, Submitted
    <2>5. CASE w.goal # NoGoal
      <3>1. w.goal \in Submitted
        BY <2>1, <2>5 DEF SessionInv, HandHolds
      <3> QED  BY <2>1, <2>3, <3>1, AnswerEmpties
    <2> QED  BY <2>4, <2>5
  <1> QED  BY <1>3, <1>4, <1>5, <1>6, <1>7

\* Every step keeps every submitted command in sight.
LEMMA KeptStep == SessionInv /\ KeptInv /\ [SessionNext]_sessionVars => KeptInv'
  <1>1. ASSUME SessionInv, KeptInv, SessionNext PROVE KeptInv'
    BY <1>1, CallersForgetNothing, WorkerForgetsNothing, TakingForgetsNothing,
       AnsweringForgetsNothing DEF SessionNext, WorkerNext
  <1>2. ASSUME KeptInv, UNCHANGED sessionVars PROVE KeptInv'
    BY <1>2 DEF sessionVars, KeptInv, GripperInHand, Kept, Submitted
  <1> QED  BY <1>1, <1>2

\* A command submit() took waits in pending_, runs in active_ or is being
\* answered until it has its answer, in every interleaving of the callbacks,
\* the worker and the runtime; only a gripper command whose measured state
\* cannot be published is given up, and that is a fault.
THEOREM SessionForgetsNothing == SessionSpec => []NothingIsForgotten
  <1>1. SessionInit => KeptInv
    <2> SUFFICES ASSUME SessionInit PROVE KeptInv
      OBVIOUS
    <2>1. Submitted = {} /\ w.at = "poll"
      BY SessionWorkerTyped DEF SessionInit, Submitted, WorkerSteps
    <2> QED  BY <2>1 DEF KeptInv, GripperInHand
  <1>2. SessionInv /\ KeptInv => NothingIsForgotten
    BY DEF SessionInv, Bookkept, KeptInv, NothingIsForgotten, Submitted, SessionTyped,
           SessionTypeOK
  <1> QED  BY <1>1, <1>2, KeptStep, SessionInvariant, PTL DEF SessionSpec

\* A command is kept until it is answered and ended once it is, for every number of
\* goals (the worker's sections that take, answer and put back a command).
THEOREM SessionSound == SessionSpec => []SessionIsSound
  <1>1. AnswerEndsGoal /\ NothingIsForgotten => SessionIsSound
    BY DEF SessionIsSound
  <1> QED  BY <1>1, SessionAnswersEnd, SessionForgetsNothing, PTL
=============================================================================
