# TLA+ models of OpenArmIK

OpenArmIK drives a two-armed OpenArm robot.  This directory holds TLA+ models of
the parts of it that decide whether the arms have power and whether they move,
the TLC runs that check them on small instances, and TLAPS proofs of their most
important properties for instances of any size.

Paths below are relative to the repository.  `real_control_session.cpp` and the
other ROS files are under `ros2_ws/src/openarm_ik_ros/src/`.

## 1. The system

| Component | Source | State | Operations | Hard because |
| --- | --- | --- | --- | --- |
| Physical control session | `real_control_session.cpp` | CAN sockets, `armed_`, `connected_`, `estop_`, pending and active command, owner, health, reference pose | connect, disconnect, E-stop, clear, stop, reserve, submit, cancel, release, capture, close; a worker loop of 50 Hz | two threads, two mutexes and bare atomics; lost CAN replies; shutdown from four places |
| Controller core | `control/src/control_core.cpp` | lifecycle, challenge nonce, executing command, event ring, per-arm feedback queue | verify, challenge, arm, five planners, execute, heartbeat, stop, disarm, reset, interlock, `advance()` | every call may fault half-way; delayed and partial feedback; three watchdogs; a ring that fills |
| Control C ABI | `control/src/c_api.cpp` | handle registries, the process-wide E-stop latch | wraps the core under one lock per controller | the latch is set without a lock, from any thread |
| ROS control node | `openarm_ik_ros_node.cpp` | action goals, services | goal, cancel, services | callbacks against the session's worker |
| Virtual control session | `virtual_control_session.cpp` | owner, pending, active, cancel owner, terminalizing owner, snapshot | reserve, submit, cancel, release, close, worker | callers act while the worker talks to the runtime or runs a callback; its snapshot is older than the command it decides on |
| Native runtime | `runtime/src/runtime.cpp`, `calibration.cpp` | one controller, the planning pause and its authority, the motion and calibration lease, the clock evidence | arm, plan, execute, stop, disarm, interlock, calibrate, destroy; a worker that advances the controller | calls release the mutex between their check and the controller call; plans die on any thread |
| Runtime persistence | `runtime/src/persistence.cpp` | signed manifest slot, `.previous` slot, revision floor, poisoned flag | load, save, recover | crashes between write, sync and rename; failing rollback |
| Manifest and inventory records | `runtime/src/manifest.cpp`, `inventory.cpp` | immutable records | parse, validate | boundaries of ranges |
| Commissioning | `commission/src/calibration_session.cpp` | manual and recipe calibration state machines | sample, advance, review, commit, abort | long legal call sequences, time limits |
| Transport | `transport/src/transport.cpp`, `socketcan_backend.cpp` | one-shot grants for dangerous frames, closed flag, link state, drop counter | issue authority, send, receive, close | close against blocked calls under separate mutexes; the link is told on two channels |
| CAN codec | `can/src/openarm_can.c` | register values, verified profiles; the fake bus | encode, decode, build a profile, probe | fixed-width fields; late, repeated and foreign answers |
| Model | `model/src/*.c` | none | kinematics, collision, route | floating point |
| Operator portal | `openarm_portal.cpp`, `portal_core.cpp` | guard reservation, active goal, pending cancel, route; intakes and lanes of the HTTP server | move, stop, E-stop, action callbacks, timer; accept, dispatch, serve, shut down | judged on a snapshot, submitted later; callbacks in any order; bounded lanes that close |
| Passive observer | `openarm_real_observer.cpp`, `real_observer_core.cpp` | last frames per motor | poll, publish | staleness |
| Real control C ABI | `openarm_real_c_api.cpp` | handles | wraps the physical session | thread ownership |
| Scripts | `scripts/build_lock.sh` and others | lock files | acquire, release | concurrent builds |
| Third-party tools | `dread/` | - | - | not part of the program |

How they interact.  A goal comes from the portal or the command line over a ROS
action to the control node, whose single executor thread calls the session in
use.  The physical session runs its own worker thread against the CAN sockets.
The virtual session runs its worker against the runtime, which owns a controller
of the control library; the controller simulates the drives.  The E-stop latch
of the control library is shared by all of them.

What makes each correct, in one line:

- physical session: the drives are off whenever nobody controls them, a shutdown
  has the last word, and each goal is answered once;
- controller core: power and motion follow the lifecycle on every path, an
  incomplete or late picture of the arms stops them, and a command ends;
- virtual session: the goal contract of the physical session;
- persistence: after any crash a slot remains that recovery accepts, and never
  one below the caller's checkpoint;
- transport: a dangerous frame is sent at most once per grant, never after close;
- runtime: a plan pauses the worker no longer than it lives, is taken once, and
  motion and calibration exclude each other;
- commissioning: a candidate comes from two independent stops found inside the
  envelope, and fits every reference;
- CAN codec: what is encoded is what was meant, and a probe that passes has heard
  every motor disabled;
- control node: what clients are told of a goal is what the session did with it;
- portal: one command at a time, and a Stop pressed at any time reaches the goal.

`PROJECT.json` lists for every component what is modelled, and the hazards of
the code with the properties that guard them.

## 2. Modules

| Module | What it is |
| --- | --- |
| `RealSession` | the physical session: two threads, `io_mutex_`, drives that lose frames |
| `GoalContract` | abstract: one command at a time, each answered at most once |
| `MCRealSession` | instances of `RealSession` for TLC |
| `RealSessionProofs` | type, safety and health invariants of `RealSession`; it implements `GoalContract` |
| `Controller` | the controller core over its simulator, and the E-stop latch |
| `MotionPermit` | abstract: who may power and move the arms |
| `MCController` | instances of `Controller` for TLC |
| `ControllerProofs` | type, power, event and completion invariants; `Controller` implements `MotionPermit` |
| `VirtualSession` | the virtual session: callers, worker, terminal callbacks, runtime events |
| `RuntimeFacade` | the native runtime: plans and their pause, arming, leases, worker |
| `FeedbackClock` | the clocks a measurement passes from the controller to `/joint_states` |
| `ManifestStore` | protocol 2 of the manifest persistence, with crashes and power loss |
| `Commission` | the manual and the recipe calibration machines |
| `Transport` | authorities, send, receive and close on four mutexes |
| `CanLink` | link state and drop counter of the SocketCAN backend |
| `CanFrames` | the CAN frames as operators on bytes and bit fields |
| `CanCodec` | registers, profiles, set-points and gripper frames between host and motors |
| `CanProbe` | the probe of a commissioned bus over the library's fake transport |
| `NodeGoals` | the node's action servers between rclcpp and a session |
| `Portal` | the portal's command path: requests, legs, callbacks, stops |
| `PortalServer` | the portal's HTTP server: intake, lanes, viewers, shutdown |
| `SessionProofs` | answers of `VirtualSession`; it implements `GoalContract` |
| `RuntimeProofs` | plans of `RuntimeFacade`, clocks of `FeedbackClock` |
| `StoreProofs` | recovery and order of `ManifestStore`, safety of `Commission` |
| `TransportProofs` | `Transport`, `CanLink`, `CanCodec` and `CanProbe` |
| `OperatorProofs` | `NodeGoals`, `Portal` and `PortalServer` |
| `MCServices` | the five concurrent services side by side, with fairness |
| `MCComponents` | all of the above side by side, with the inputs of the native libraries |
| `ComponentsProofs` | what is proved of each component holds of `MCComponents` |

Definitions whose name adds a fault to another one's (`TerminateKeepsReference`,
`WatchdogIgnoresExpiry`, ...) are faulty variants of the code, one for each
property; replacing the definition by its variant makes TLC report that property
violated.  They are not used by the specifications.

### RealSession

State.  One variable per member that two threads share (`armed`, `connected`,
`estop`, `cancel`, `pending`, `active`, `owner`, `health`, ...), a program
counter per thread, the locals a thread keeps across a step (`had`, `ok`, `cmd`),
the drives and the samples of them the session has.  `ref` tells what the
reference pose comes from rather than its value.  `unconf`, `done`, `accepted`,
`halted` and `claim` are history.

Actions.  A section under `mutex_` is one step, since no such section waits.
`io_mutex_` is a variable, held across the steps of Connect and of an exchange;
the confirmation loop and the close that follows it under the same lock are one
step.  A store to an atomic is a step of its own where the other thread can see
it.  `disable_and_close_for_fault()` and `terminal_command()` are subroutines
with a return label, because several callers share them.

Abstraction.  Both sides' sockets are one flag.  Every frame may be lost, in
either direction, and a drive may disable itself by its communications timeout.
Plans, routes and samples are reduced to whether a plan is found, how many legs
it has, how long a segment may take and whether the exchange was complete.
Replies that are still queued from an earlier cycle are not modelled.  The
snapshots that observers read are left out.

### Controller

State.  Members of `Controller` and `ArmRuntime` that control depends on.  Only
differences of times are kept: the time left of a deadline, the age of a feedback
generation.  A sequence number, an epoch or a nonce is only compared with the
newest one, so the model keeps whether it still is the newest; a plan the client
holds is forgotten once `execute()` would refuse it for good.  The client is
assumed not to guess a nonce it was not given.  Of the event ring the number of
events and the kind of the newest one are kept.

Actions.  `c_api.cpp` runs every operation under the controller's lock, so an
operation is one action, with the events it publishes and the faults it latches.
A refused call that changes nothing is not an action.  `advance()` is one action
for every way it ends, with `d` the time since the last call.  A full event ring
changes how an operation ends: `Publish` takes what the operation would do and
what it leaves of the arms when the ring is full.  `oa_estop_assert()` and
`oa_estop_clear()` happen between any two operations.

Abstraction.  Poses, torques, clearances and trajectories are nondeterministic:
any cycle may find contact, lose clearance, or be at the goal or not.  Only the
virtual backend with the unchecked collision policy is modelled; with the others
every plan is refused.  The freeze injection and `set_sim_contact()` only change
measured values and so have no action.  Counters that would take centuries to
wrap (sequence numbers, nonces, command numbers) do not wrap.  `DISARMED` as an
event kind of `disarm()` carries no command, as in the code.

### The services

`VirtualSession` has a program counter for the worker and one value per goal for
its caller.  A section under `mutex_` is one step; the calls of the runtime and
the terminal callbacks, made without it, are steps of their own, between which
callers cancel, submit and close.  The worker keeps its snapshot in a variable,
because it decides on one that may be older than the command.  The runtime is
its lifecycle, the command it executes, the events it has published and the ones
its thread has moved to the ring the session polls.  The refinement to
`GoalContract` is by `accepted` and `done`, the history of submits and answers.

`RuntimeFacade` has the runtime's lease, pause and interlocks, plan and session
objects, the worker's position and the call of each thread.  A call that releases
the mutex between its check and the controller call is two or three steps.
Reference counting is explicit where it decides when a destructor runs: an object
goes when its handle is destroyed and no other thread is inside a call with it.
Of time it keeps whether a plan has expired.

`FeedbackClock` has the host's clock, the controller's cadence, the evidence that
ties a sequence number to host time, the session's poll and the node's stamp.  It
is the one module with clocks as numbers; `Horizon` bounds them.

`NodeGoals` has the state of the rclcpp handle per request and the executor's
position: a cancel callback and the move to CANCELING after it are two steps.
The session is reduced to owner, pending, active, cancel and the answer under
way.  rclcpp itself is external, modelled from how the node uses it: `canceled()`
throws unless the handle is CANCELING, and a handle dropped while active becomes
CANCELED.

`Portal` has one position per HTTP request, one for the executor (`runner`) and
one per stopping thread.  What a path evaluation finds is nondeterministic; what
it is judged on is whether state and diagnostics are trusted and whether the arms
have moved since.  The controller is one goal slot.

`PortalServer` has the stage of each connection and a counter per lane.  The pool
of a lane serves as many connections as it has threads; pointer input and frames
for viewers take the capture lock.

### The native libraries

`ManifestStore`.  A directory entry is a manifest or nothing; `disk` holds the
values each entry may have after a power loss, which a directory sync reduces to
the one that processes see.  Every step that touches the disk may fail, each
process may be killed between any two steps, and power may be lost at any time.
The caller is external and does what `runtime/README.md` asks of it: it keeps its
checkpoint elsewhere, moves it by compare-and-swap after an OK, and makes a
recovery an explicit act with the unchanged checkpoint, with no other call under
way (see the observations below for why this matters).

`Commission`.  Positions are integers in the recipe's direction; a sample is a
position, a speed and a torque class and the time since the last one.  Means are
kept as sum and count, so that comparing them needs no division.

`Transport`.  Each of the four mutexes is a variable.  A backend call blocks
until it is ready, late or woken; close() marks, wakes and waits for both
directions.  `CanLink` has the two channels on which the kernel tells of a link
that went down, the backend's ring of transitions and the drop counter modulo
`Wrap`.

`CanFrames` keeps bytes, nibbles and identifiers as they are on the wire.  A
physical quantity is an integer count of 1/8 and a decoded one an exact
numerator, so the only rounding is the codec's own.  `CanCodec` puts motors
behind it that answer late or twice or are not understood; `CanProbe` is one run
of `oa_can_probe_expected()` over a queue of frames with arrival times.

## 3. Runs

| Run | Instance | Shows |
| --- | --- | --- |
| `real_session` | two drives, all calls but goals, ramp of two steps | `ClosedMeansDisabled`, `ShutdownWins`, types |
| `real_session_goals` | one drive, two goals, two legs, stop, cancel, E-stop | `IdleIsArmed`, `HoldIsFixed`, `ImplementsContract`, `CancelHolds` |
| `real_session_live` | one drive, one goal, Disconnect and close | `CallReturns`, `CommandTerminates` |
| `stop_during_planning` | one drive, one goal, Stop | violation of `HaltedStaysHalted` |
| `confirmed_disable` | two drives, Connect and Disconnect | violation of `ConfirmedMeansDisabled` |
| `controller_calls` | two arms, every call but injections, ring of two | power, deadman, scene, events, challenge, `ImplementsPermit`, `CommandRunsDown` |
| `controller_feedback` | two arms, dropped, late, faulty or unsent feedback | `RetiredHistory`, `CompletionIsMeasured` |
| `controller_live` | one arm, moved at any time, feedback two cycles late, lease renewed forever | `CommandEnds`, types and array bounds |
| `estop_after_refused_plan` | one arm, E-stop | violation of `EstopStopsArms` |
| `services_live` | the five services one at a time: one goal, one plan, one request of two legs, two action goals, two transport threads | `AnsweredUnlessFaulted`, `PauseEnds`, `StopSticks`, `EveryGoalEnds`, `CloseReturns` |
| `components` | twelve components (fourteen parts) one at a time, two of everything that can race | the components' safety, `HonoursContract` and `ManifestNeverRegresses` (table below) |
| `calibration_lease` | one runtime, two threads, two calibration sessions | violation of `LeaseIsExclusive` |

`MCServices` and `MCComponents` put independent components side by side: the
variable `part` says which one a behaviour is about, and the others stay as they
were initialised.  The state space is the sum of the components', not their
product, and nothing is checked across components that do not share state; where
two of them do interact in the code (session and runtime, node and session,
portal and controller), each module has the other side as its environment.  The
interchangeable things of different components share the model values `x1` and
`x2`, so that one symmetry set serves all of them; no module orders them or picks
one with CHOOSE in a way that a swap could change.

| Property of `components` | Says | Of |
| --- | --- | --- |
| `HonoursContract` | one command at a time, each answered at most once | `VirtualSession` refines `GoalContract` |
| `SessionIsSound` | an answered goal is stopped and its reservation given back; a submitted command is pending, active or about to be answered until it is answered | `VirtualSession` |
| `PlanAuthorityIsSound` | a pause has a plan that holds it; a plan is taken once | `RuntimeFacade` |
| `PortalIsSound` | a goal at the controller is covered by an active command, and a command that is over leaves nothing behind; what a stop found gets no reservation and no leg, and its accepted goal is being canceled | `Portal` |
| `GoalsAreAccounted` | clients are told what the session did, CANCELED only for a canceled command or at shutdown; no reservation leaks | `NodeGoals` |
| `TransportIsSound` | an authority lets out its frame once, in time; nothing after close() | `Transport` |
| `PublishedIsRecoverable` | whatever power loss leaves, recovery finds a manifest at or above the published checkpoint | `ManifestStore` |
| `ManifestNeverRegresses` | EIO means the old manifest; no call hands out one below what is published | `ManifestStore` |
| `CommissionSafe` | contact is sought inside the envelope, a candidate needs two independent stops and fits its references | `Commission` |
| `LinkIsTold` | nobody is left believing in a dead link; drops are counted across the wrap | `CanLink` |
| `CodecIsExact` | profiles are of one motor, set-points survive the bit fields, gripper limits are never exceeded | `CanCodec` |
| `ProbeIsHonest` | OK means every motor was heard, disabled, in this probe | `CanProbe` |
| `ClocksAgree` | fresh means recent; a refusal and an expiry have a cause | `FeedbackClock` |
| `ServerIsBounded` | lane counters are exact, a stop waits for no move, nothing outlives run() | `PortalServer` |

Why the bounds are enough.  Two drives are needed for one that answers and one
that does not; the drives do not interact otherwise, and `m1` and `m2` are
symmetric.  Two goals are needed for the second to meet what the first left
behind; a goal is submitted once.  Two legs give one change of leg and one last
leg.  For the controller two arms are needed for skew and for a settle interval
with one arm missing.  A cycle of 2 with gaps up to 3 has calls that are early,
on time and late; the feedback timeout of 3 is beyond one gap and within two.  A
ring of two events is full after any operation that publishes twice, and fits
both when empty.  Two settle intervals, instead of three, tell "each interval"
from "the first"; a persistence of two tells a streak from a sample.  The
queue of two in `controller_feedback` holds the one generation that is late and
the one that follows it; the queue of one in `controller_live` is full when
feedback is two cycles late, before the feedback timeout.  `controller_live` has
one arm because the deadline of a command does not look at the arms.

For `components`: two goals, plans, requests, action goals, threads and processes
are needed for one to meet what another left behind; a third does not meet more
than one other at a time, except in the HTTP server, which gets three connections
so that a lane is full while another waits.  `Manifests` has two contents of one
revision and a newer one; `Readable` lets a recovery find either slot unreadable.
A recipe's limits are a few units, each reached by some sample and passed by
another.  `LinkRing` holds two of the at most three transitions under way.  `Wrap`
of 4 makes the drop counter wrap.  The probe's queue and budget of three hold an
answer of each motor and one frame too many.  In `FeedbackClock` a sample is stale
after 3, one and a half cycles, the ROS clock steps back by 3, and `Horizon` 6 is
three cycles.  `services_live` has one goal, plan and request where the progress
of one does not depend on another, two threads where they wait for each other.

### What the violations show

- `stop_during_planning`.  The worker takes a command out of `pending_`, plans it
  without the lock, and installs it without looking at `cancel_requested_` again
  (`real_control_session.cpp:1573-1622`).  A Stop in between finds no motion to
  stop, answers so, and the command moves the arm afterwards.
- `confirmed_disable`.  `had_sockets` is read before `io_mutex_` is taken
  (`real_control_session.cpp:409`).  The worker's own shutdown may close the
  sockets unconfirmed in between; Disconnect then has nothing to confirm and
  reports every motor confirmed disabled.
- `estop_after_refused_plan`.  `plan_preconditions()` sets `estop_latched_`
  (`control_core.cpp:751-753`).  The next `advance()` takes the latch for one it
  has tripped on already and leaves the drives on.  Arming while the latch is
  set, after a trip and a reset, has the same effect.
- `calibration_lease`.  `oa_runtime_calibration_manual_begin()` and the recipe's
  form build the session object, with its runtime, before they look at the lease
  (`runtime/src/calibration.cpp:138-152`).  When another calibration holds it the
  call answers EBUSY, the object dies, and its destructor
  (`runtime/src/runtime.cpp:209-216`) releases the lease of the other: motion can
  then be armed beside an open calibration.

### Observed while modelling

Behaviour the models have that no documented promise contradicts outright, or
that no run isolates:

- a recovery that cannot read the current manifest promotes `.previous` if it
  satisfies the caller's checkpoint.  If another process's save has returned but
  its checkpoint is not published yet, the newer manifest is replaced and the
  checkpoint then published is above everything in the directory: later loads are
  refused.  Hence the assumption that a recovery runs alone;
- a first save that is killed, or whose roll-back fails, after the rename leaves a
  current manifest that no call accepts with the checkpoint of revision 0: load and
  recovery answer EPERMISSION (`persistence.cpp:1091`, `1235`), a save ESTALE
  (`1176`);
- `disarm()` of the controller ends a running command without an event that names
  it (`control_core.cpp:1808`);
- an action goal whose cancel is answered before rclcpp has marked it CANCELING
  faults the session, because `canceled()` throws and the terminal closure reports
  failure (`openarm_ik_ros_node.cpp:855`); the goal still ends, as CANCELED, when
  its handle is dropped;
- the portal's software stop shares the urgent lane with pointer input, which
  waits for the capture lock (`openarm_portal.cpp:1786`, `1925`);
- an ENETDOWN left on the CAN socket is reported as a link that is down even when
  the link has come up again since; the caller believes the worse of the two.

### Fairness

`real_session_live` assumes strong fairness of each of the two threads' steps.
The operating system runs both threads; strong rather than weak, because
`io_mutex_` is released and taken again by the worker every cycle and a caller
that waits for it is expected to get it eventually.  Nothing is assumed of
operators, of goals or of the network.  `CommandTerminates` speaks of a session
that stays connected and armed, since a command submitted to a disarmed session
waits for the next Connect.

`controller_live` assumes weak fairness of `advance()` with a positive time step:
`control/README.md:78` requires it to be called at the configured cycle.  The
calls of clients, heartbeats included, are not fair.

`services_live` (the fairness is in `MCServices`, per component) assumes that
threads which are neither waiting nor blocked go on: the session's worker and the
runtime's thread, calls in progress, HTTP threads and the executors.  Strong
fairness is asked of `poll_due`, since a worker that is woken early again and
again still reaches its deadline, and of taking one of the transport's mutexes,
which is released again and again.  Of the controller the portal assumes that it
answers a goal request and ends a goal it was asked to cancel; a goal nobody
cancels may run for ever.  A receive returns for sure only at its deadline or when
woken.  Clients, operators, faults and the network are not fair.

Deadlock is checked in the runs of `RealSession` and `Controller`.  `RealSession`
has a step that does nothing once the session is destroyed; the controller can
always advance.  In `services_live`, `components` and `calibration_lease` it is
not: a destroyed runtime, a closed transport, a committed calibration and a
finished probe have nothing left to do.

## 4. Proofs

Every safety property the passing runs check is a theorem, proved for every value
of the constants: any set of
drives, goals, plans, processes, threads, requests or connections, any
(finite, non-empty) set of arms, any capacity and any timing bound.  The inductive
invariants were checked with TLC on the instances of section 3 before they were
proved.

### Assumptions

Each is named in the module that declares the constants, and TLC evaluates it on
the instances.

| Module | Assumption | Why the code justifies it |
| --- | --- | --- |
| `RealSession`, `Controller` | `ConstantsAssumption`, `NoneAssumption` | numbers of legs, steps and cycles; the placeholder is no goal |
| `VirtualSession`, `RuntimeFacade`, `NodeGoals`, `Portal`, `PortalServer`, `Transport` | placeholders are no goal, plan, request, connection, thread or authority; limits are numbers | an empty string, a null pointer or an id of 0 |
| `FeedbackClock` | `ClockAssumption`: a sample may be stale after a cycle or more, and the tolerance is at least a cycle; steps of the ROS clock are integers | the limits are several times the configured cycle |
| `ManifestStore` | `StoreConstants`: revisions are positive | `checkpoint_status()` takes revision 0 for "no manifest" |
| `Commission` | `CommissionConstants`: fields are integers, times pass | the arithmetic is on counts |
| `CanLink` | `LinkConstants`: ring, backlog and counter width are positive | array sizes |
| `CanCodec` | `CodecConstants`: motors differ in both identifiers, spans are exact in a binary32, a hand has two different ends | `oa_can_validate_manifest()`; spans are register values; `oa_valid_gripper_calibration()` |
| `CanProbe` | `ProbeConstants`: `oa_can_validate_manifest()` accepts the manifest, and the foreign frame is foreign | the probe checks it first |

### Physical session

`TypeCorrect` is inductive as it stands.  The other invariants are not, because
they speak of states in which a thread is between two steps:

- `SafetyInv` adds where `io_mutex_` is held (`ExclusiveIO`), that Connect's
  sockets stay open while it holds it (`ConnectHoldsIO`), and that a shutdown
  which has disarmed or closed finds the session so (`ShutdownDisarms`).  It
  gives `ClosedDrivesAreDisabled` and `ShutdownHasTheLastWord`.
- `LatchInv` says who has still to disarm and to close when the latch is set
  (`LatchDisarms`, `LatchCloses`).  It gives `EstopWins`, and the two together
  `ShutdownsWin`.
- `HealthInv` says who is about to overwrite a stale "idle" and that a worker
  which disarms during the ramp waits for Connect.  It gives `IdleHealthIsArmed`.
- `HoldInv` says that a late end of a motion and Connect's seed do not leave a
  plan as the reference, and that `clear_emergency_stop()` finds nobody arming.
  It gives `IdleHoldIsFixed` and, with `OnePlace` below, `CancelIsNotLost`:
  neither of the two calls that reset `cancel_requested_` can meet a motion of an
  armed session.
- `ContractInv` says where an unanswered command is: pending, active, or in one
  thread's hands, and only one of these (`Placed`, `OnePlace`).  With it every
  step is a step of `GoalContract` or leaves its variables alone (`Refinement`).

### Controller

`TypeInv` is `TypeOK` with the command tied to the lifecycle, since what
`advance()` does is well typed only with a command in EXECUTING.  `PowerInv`
adds that both arms have been measured once they are verified; without it a
hold, which powers measured arms only, could power one arm and not the other.
Every action is shown to keep the types and to be one of six kinds of step
(`PowerStep`: cuts, keeps or grants power, starts or ends motion, holds in
FAULT), from which both the invariance of `PowerInv` and the refinement of
`MotionPermit` follow.  Theorems: `TypeCorrect`, `PowerIsRight`, `DeadmanIsHeld`,
`PowerAuthorised`, `OverflowFailsClosed`, `PermitRefinement`.

`Story` adds what the fields of a command keep to one another: its scene and that
it starts before it ends (`CommandFits`), and that the settle history counts every
arm that has answered in the interval that runs (`DwellIsMeasured`), without which
the last interval could complete on the answers of the one before.  It gives
`PlansStayBound`, `ChallengesMatch`, `NewsTellsLifecycle` and
`CompletionsAreMeasured`.  `CommandsRunDown` is the measure behind `CommandEnds`:
no call gives a running command time, `heartbeat()` included, and every
`advance()` with the latch clear takes its own.  `HistoryRetired` rests on `HistoryStep`: an operation
that cuts an arm's power retires its queue in the same step, and `advance()` only
adds what the drives are at that moment.

### Virtual session, runtime and clocks

- `SessionInv`.  The one submitted command owns the session, or the session takes
  no other any more (`SubmittedOwns`); it is in `pending_`, in `active_` or in the
  worker's hand (`SlotsHold`, `HandHolds`); the runtime executes only the active
  command (`ExecutesActive`), and an event that names a command says that the
  runtime has left it (`EventsAreOver`), which is what allows the worker to answer
  from a snapshot that is older than the command.  It gives `SessionAnswersEnd`
  and, step by step, `SessionHonoursContract`.  `KeptInv` adds that a command out of
  both slots is in a section of the worker that answers it or puts it back
  (`GripperInHand` is the exception the code makes), which gives
  `SessionForgetsNothing`, the safety half of `AnsweredUnlessFaulted`.  `SessionSound`
  is both.
- `RuntimeInv`.  A plan is worked on by one thread at a time (`PinsAreUnique`), and
  one the controller has taken is spent or about to be marked so (`TakenIsSpent`),
  although `oa_runtime_execute()` releases the mutex in between.  It gives
  `PlanAuthoritySound`.
- `ClockInv`.  Each reader holds a pair of a sequence number and a time that was
  true together, and stays so or is followed by one a cycle later (`Followed`);
  the controller is never more than one cycle ahead of the host on the way to a
  translated deadline (`BeatHolds`).  It gives `ClocksSound`.

### Node and portal

- `NodeInv`.  What the session holds is its owner's (`HeldIsOwned`), and an accept
  callback under way finds the session empty or faulted (`AcceptHasItsTurn`).  It
  gives `GoalsAccounted`.  `OrphansAreExplained` adds that a live handle nobody acts for
  any more was answered as canceled before rclcpp marked it, or outlived the
  context; it gives `CancelsHaveAReason`.
- `PortalInv`.  One thread or callback acts for the reservation (`OneActor`).  It
  gives `PortalHasOneCommand`.  `StopInv` adds that a request which has begun never holds
  the reservation again (`RequestsInPlace`) and that the handle of an accepted goal
  is there for a stop to take (`HandleIsKept`); it gives `StopsAreUnderWay`, the
  safety half of `StopSticks`; `PortalSound` is both.
- `ServerInv`.  A lane's counter is the number of connections the lane holds
  (`LaneCounts`); an intake is listed once (`IntakesUnread`); the acceptor closes
  before the pools run dry (`ShutdownOrder`).  It gives `ServerBounded`.

### Store and commissioning

- `StoreInv`.  Every value the current entry may have after a power loss is at or
  above each checkpoint that is published or may still be (`NothingBelow`), and two
  values of one revision never lie in the directory (`Coherent`).  Both need what a
  process knows of the directory at each of its steps (`SaveKnows`, `ReadKnows`),
  and that a stream which has not begun has no checkpoint (`BeforeFirst`).  It
  gives `RecoverySound` and `NeverRegresses`.
- `RecipeInv`.  A phase is entered with what the ones before it found, and this
  does not change any more (`StopsHandOver`); the recipe has passed the code's
  limits (`RecipeAccepted`).  `ManualInv`: a candidate is what its two means give
  (`CandidateIsComputed`); the arithmetic that it fits its fixtures is `SpansDiffer`
  and the lemmas beside it.  They give `CommissioningIsSafe`.

### Transport, link, codec and probe

- `TransportInv`.  Who is past a lock holds it (`LocksHeld`); a live grant is what
  was issued, with nothing sent on it (`LiveGrantIsFresh`), and a send that has
  taken it fits it (`ConsumedFits`).  It gives `TransportSound`.
- `LinkInv`.  The kernel's messages alternate and end in the interface's state
  (`NetlinkEndsInLink`); the belief follows the last event of the ring
  (`BeliefFollows`).  It gives `LinkIsToldAsItIs`.
- `ProbeInv`.  Every frame received has left its mark in the masks or in the count
  of stale frames (`FramesAreNoted`).  It gives `ProbeTellsTheTruth`.
- `CodecInv`.  Until a set-point goes out, an undamaged frame on the bus is a motor's
  answer, with that motor's span if it was a query (`BusIsAnswers`); after it, the
  echo of the set-point (`BusIsEchoes`).  Values read are spans of a motor
  (`ReadsAreSpans`), and identifiers tell motors apart, so three registers with the
  same identifiers are of one motor.  The lemmas say what the conversions do for
  every value: a binary32 gives back the span it was made of (`BinaryRoundTrip`),
  bit fields fall apart into what they were put together from and lose less than a
  quantum (`FieldSurvives`, `FieldsComeBack`), and a gripper frame rounds down
  (`GripperRoundsDown`).  It gives `CodecMeansWhatItSays`.

### Types and the composition

Of `FeedbackClock`, `Commission`, `CanLink`, `CanProbe`, `CanCodec` and
`PortalServer` the type invariant is not inductive as it stands; each has a
theorem of its own, from the component's inductive invariant and, where that does
not have them, the bounds of its rings, queues and clocks (`ClockTypes`,
`CommissionTypes`, `LinkTypes`, `ProbeTypes`, `CodecTypes`, `ServerTypes`).

`ComponentsProofs` shows that `MCComponents` runs each component as it is
specified: a step of the composition is, for every component, one of its own steps
or a stutter (`SessionRuns` to `ServerRuns`), so a behaviour of the composition is a
behaviour of every component (`ServicesRunAlone`, `LibrariesRunAlone`).  What is
proved of the components therefore holds of the composition for every value of the
constants: all of their types at once (`ComponentsTypes`), their invariants and the
two action properties of the run (`ServicesAreSafe`, `LibrariesAreSafe`,
`StepsAreSafe`).

### Model-checked only

- The liveness properties (`CallReturns`, `CommandTerminates`, `CommandEnds` and
  those of `services_live`) need fairness and ENABLED, which the prover does not
  handle.  What can be proved of some of them is their safety half: nothing a
  liveness property waits for is lost, given more time or undone meanwhile
  (`CancelIsNotLost` for `CommandTerminates`, `CommandsRunDown` for `CommandEnds`,
  `SessionForgetsNothing` for `AnsweredUnlessFaulted`, `StopsAreUnderWay` for
  `StopSticks`).
- The properties of the runs that expect a violation are false.

## 5. Not modelled, and the plan

Left out, and why:

- floating-point kinematics, inverse kinematics, collision distances, routes and
  the portal's nominal path guard (`model/`, most of `portal_core.cpp`): TLC cannot
  evaluate them; the models take their verdicts as nondeterministic;
- parsing, formatting and validation of records (`manifest.cpp`, `inventory.cpp`,
  the JSON of the portal): sequential text processing that no property tells apart;
- version 1 of the persistence, a preview whose files cannot create an armable
  runtime;
- the handle tables of the C interfaces and the copying of records;
- the passive observer, which only reads and publishes, and the C interface of the
  physical session, which adds no state;
- socket set-up, sysfs enumeration, the web page, RViz windows and video capture,
  build and launch scripts, the Python tools under `dread/`.

Next:

1. version 1 of the persistence, with its revision floor;
2. the handle registries: destroy against pinned work.
