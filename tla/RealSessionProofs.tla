-------------------------- MODULE RealSessionProofs --------------------------
(***************************************************************************)
(* Proofs about RealSession, for every set of drives and commands and every *)
(* length of ramp, plan and segment: its type invariant, the safety         *)
(* invariants behind which stand four inductive ones, SafetyInv, LatchInv,  *)
(* HealthInv and HoldInv, and that it implements GoalContract, behind which *)
(* stands ContractInv.  A Step lemma has one case per action, in the order  *)
(* of Next.                                                                 *)
(***************************************************************************)
EXTENDS RealSession, TLAPS

\* Disable frames that reach any of the drives leave a drive state behind.
LEMMA DisableFramesType ==
    ASSUME drive \in [Motors -> DriveStates], DisableFrames
    PROVE  drive' \in [Motors -> DriveStates]
<1>1. CASE open
  <2>1. PICK reached \in SUBSET Motors :
          drive' = [m \in Motors |->
                      IF m \in reached THEN "disabled" ELSE drive[m]]
    BY <1>1 DEF DisableFrames
  <2> QED BY <2>1 DEF DriveStates
<1>2. CASE ~open
  BY <1>2 DEF DisableFrames
<1> QED BY <1>1, <1>2

\* What disable_until_confirmed() and close_sockets() leave behind together.
LEMMA ConfirmAndCloseType ==
    ASSUME drive \in [Motors -> DriveStates], unconf \in BOOLEAN,
           NEW confirmed \in BOOLEAN, ConfirmAndClose(confirmed)
    PROVE  /\ drive' \in [Motors -> DriveStates]
           /\ open' = FALSE
           /\ unconf' \in BOOLEAN
<1>1. drive' \in [Motors -> DriveStates]
  BY DisableFramesType DEF ConfirmAndClose, DriveStates
<1> QED BY <1>1 DEF ConfirmAndClose

\* What close_sockets() leaves behind alone.
LEMMA CloseUnconfirmedType ==
    ASSUME drive \in [Motors -> DriveStates], open \in BOOLEAN,
           unconf \in BOOLEAN, CloseUnconfirmed
    PROVE  /\ drive' \in [Motors -> DriveStates]
           /\ open' = FALSE
           /\ unconf' \in BOOLEAN
BY DEF CloseUnconfirmed

\* Every step of either thread, of an operator's call and of a drive keeps the
\* variables of the session in their ranges.
LEMMA TypeStep ==
    ASSUME ConstantsAssumption, TypeOK, [Next]_vars
    PROVE  TypeOK'
<1> USE ConstantsAssumption DEF TypeOK, FlagsOK, ThreadsOK, DataOK, Threads,
   ExecLabels, WorkerLabels, ConnectLabels, ShutLabels, FaultLabels,
  TerminalLabels, Goto, EstopSeen, locks, flags, motion, drives, locals,
  history, DriveStates, AdapterStates, References, Reports, Claims, Reported
<1>1. ASSUME NEW t \in Threads, Shared(t)
      PROVE  TypeOK'
  <2>1. CASE ShutdownHadSockets(t)
    BY <2>1 DEF ShutdownHadSockets
  <2>2. CASE ShutdownLatch(t)
    BY <2>2 DEF ShutdownLatch
  <2>3. CASE ShutdownAssert(t)
    BY <2>3 DEF ShutdownAssert
  <2>4. CASE ShutdownCancel(t)
    BY <2>4 DEF ShutdownCancel
  <2>5. CASE ShutdownDisarm(t)
    <3>1. FlagsOK'
      BY <2>5 DEF ShutdownDisarm
    <3>2. ThreadsOK'
      BY <2>5 DEF ShutdownDisarm
    <3>3. DataOK'
      BY <2>5 DEF ShutdownDisarm
    <3> QED BY <3>1, <3>2, <3>3
  <2>6. CASE ShutdownDisable(t)
    BY <2>6 DEF ShutdownDisable, DisableFrames
  <2>7. CASE ShutdownClose(t)
    <3>1. FlagsOK'
      <4>1. PICK confirmed \in BOOLEAN :
              IF had[t] THEN ConfirmAndClose(confirmed)
                        ELSE ~confirmed /\ CloseUnconfirmed
        BY <2>7 DEF ShutdownClose
      <4>2. open' = FALSE /\ unconf' \in BOOLEAN
        BY <4>1, ConfirmAndCloseType, CloseUnconfirmedType
      <4> QED BY <2>7, <4>2 DEF ShutdownClose
    <3>2. ThreadsOK'
      BY <2>7 DEF ShutdownClose, ConfirmAndClose, CloseUnconfirmed,
        DisableFrames
    <3>3. DataOK'
      <4>1. PICK confirmed \in BOOLEAN :
              IF had[t] THEN ConfirmAndClose(confirmed)
                        ELSE ~confirmed /\ CloseUnconfirmed
        BY <2>7 DEF ShutdownClose
      <4>2. drive' \in [Motors -> DriveStates]
        BY <4>1, ConfirmAndCloseType, CloseUnconfirmedType
      <4> QED BY <2>7, <4>2 DEF ShutdownClose
    <3> QED BY <3>1, <3>2, <3>3
  <2>8. CASE ShutdownUnconnect(t)
    <3>1. FlagsOK'
      BY <2>8 DEF ShutdownUnconnect
    <3>2. ThreadsOK'
      BY <2>8 DEF ShutdownUnconnect
    <3>3. DataOK'
      BY <2>8 DEF ShutdownUnconnect
    <3> QED BY <3>1, <3>2, <3>3
  <2>9. CASE ShutdownFinish(t)
    BY <2>9 DEF ShutdownFinish, FinishActive
  <2>10. CASE ShutdownHealth(t)
    BY <2>10 DEF ShutdownHealth
  <2>11. CASE FaultDisarm(t)
    <3>1. FlagsOK'
      BY <2>11 DEF FaultDisarm
    <3>2. ThreadsOK'
      BY <2>11 DEF FaultDisarm
    <3>3. DataOK'
      BY <2>11 DEF FaultDisarm
    <3> QED BY <3>1, <3>2, <3>3
  <2>12. CASE FaultDisable(t)
    BY <2>12 DEF FaultDisable, DisableFrames
  <2>13. CASE FaultClose(t)
    <3>1. FlagsOK'
      BY <2>13 DEF FaultClose, ConfirmAndClose, DisableFrames
    <3>2. ThreadsOK'
      BY <2>13 DEF FaultClose, ConfirmAndClose, DisableFrames
    <3>3. DataOK'
      BY <2>13 DEF FaultClose, ConfirmAndClose, DisableFrames
    <3> QED BY <3>1, <3>2, <3>3
  <2>14. CASE FaultUnconnect(t)
    <3>1. FlagsOK'
      BY <2>14 DEF FaultUnconnect
    <3>2. ThreadsOK'
      BY <2>14 DEF FaultUnconnect
    <3>3. DataOK'
      BY <2>14 DEF FaultUnconnect
    <3> QED BY <3>1, <3>2, <3>3
  <2>15. CASE TerminalCallback(t)
    <3>1. FlagsOK'
      BY <2>15 DEF TerminalCallback
    <3>2. ThreadsOK'
      BY <2>15 DEF TerminalCallback
    <3>3. DataOK'
      <4>1. done' \in [Cmds -> Nat]
        <5>1. CASE cmd[t] \in Cmds
          BY <2>15, <5>1 DEF TerminalCallback
        <5>2. CASE cmd[t] \notin Cmds
          BY <2>15, <5>2 DEF TerminalCallback
        <5> QED BY <5>1, <5>2
      <4> QED BY <2>15, <4>1 DEF TerminalCallback
    <3> QED BY <3>1, <3>2, <3>3
  <2>16. CASE TerminalDone(t)
    BY <2>16 DEF TerminalDone, HealthAfterTerminal
  <2>17. CASE TerminalFault(t)
    BY <2>17 DEF TerminalFault
  <2> QED BY <1>1, <2>1, <2>2, <2>3, <2>4, <2>5, <2>6, <2>7, <2>8, <2>9,
    <2>10, <2>11, <2>12, <2>13, <2>14, <2>15, <2>16, <2>17 DEF Shared
<1>2. CASE CallStarts
  <2>1. CASE ConnectCheck
    BY <2>1 DEF ConnectCheck
  <2>2. CASE StopMotion
    <3>1. FlagsOK'
      BY <2>2 DEF StopMotion
    <3>2. ThreadsOK'
      BY <2>2 DEF StopMotion
    <3>3. DataOK'
      BY <2>2 DEF StopMotion
    <3> QED BY <3>1, <3>2, <3>3
  <2>3. CASE ClearCheck
    BY <2>3 DEF ClearCheck
  <2>4. CASE CaptureIdle
    BY <2>4 DEF CaptureIdle
  <2>5. CASE CloseSession
    BY <2>5 DEF CloseSession
  <2>6. ASSUME NEW call \in {"disconnect", "estop"}, ShutdownCall(call)
        PROVE  TypeOK'
    BY <2>6 DEF ShutdownCall
  <2>7. ASSUME NEW c \in Cmds, Reserve(c)
        PROVE  TypeOK'
    BY <2>7 DEF Reserve
  <2>8. ASSUME NEW c \in Cmds, Cancel(c)
        PROVE  TypeOK'
    BY <2>8 DEF Cancel
  <2> QED BY <1>2, <2>1, <2>2, <2>3, <2>4, <2>5, <2>6, <2>7, <2>8 DEF
    CallStarts
<1>3. CASE ExecStep
  <2>1. CASE ConnectLock
    BY <2>1 DEF ConnectLock
  <2>2. CASE ConnectOpen
    BY <2>2 DEF ConnectOpen
  <2>3. CASE ConnectOpenFails
    <3>1. FlagsOK'
      <4>1. open' = FALSE /\ unconf' \in BOOLEAN
        BY <2>3, CloseUnconfirmedType DEF ConnectOpenFails
      <4> QED BY <2>3, <4>1 DEF ConnectOpenFails
    <3>2. ThreadsOK'
      BY <2>3 DEF ConnectOpenFails, CloseUnconfirmed
    <3>3. DataOK'
      BY <2>3 DEF ConnectOpenFails, CloseUnconfirmed
    <3> QED BY <3>1, <3>2, <3>3
  <2>4. CASE ConnectSample
    <3>1. FlagsOK'
      BY <2>4 DEF ConnectSample, Replies, ExchangeComplete, FramesSent
    <3>2. ThreadsOK'
      BY <2>4 DEF ConnectSample, Replies, ExchangeComplete, FramesSent
    <3>3. DataOK'
      BY <2>4 DEF ConnectSample, Replies, ExchangeComplete, FramesSent
    <3> QED BY <3>1, <3>2, <3>3
  <2>5. CASE ConnectConfigure
    BY <2>5 DEF ConnectConfigure
  <2>6. CASE ConnectSeed
    BY <2>6 DEF ConnectSeed, FramesSent
  <2>7. CASE ConnectEnable
    <3>1. FlagsOK'
      BY <2>7 DEF ConnectEnable
    <3>2. ThreadsOK'
      BY <2>7 DEF ConnectEnable
    <3>3. DataOK'
      BY <2>7 DEF ConnectEnable
    <3> QED BY <3>1, <3>2, <3>3
  <2>8. CASE ConnectArm
    BY <2>8 DEF ConnectArm
  <2>9. CASE ConnectRampCheck
    <3>1. FlagsOK'
      <4>1. armed' \in BOOLEAN
        BY <2>9 DEF ConnectRampCheck
      <4> QED BY <2>9, <4>1 DEF ConnectRampCheck
    <3>2. ThreadsOK'
      BY <2>9 DEF ConnectRampCheck
    <3>3. DataOK'
      BY <2>9 DEF ConnectRampCheck
    <3> QED BY <3>1, <3>2, <3>3
  <2>10. CASE ConnectRamp
    <3>1. FlagsOK'
      <4>1. armed' \in BOOLEAN
        BY <2>10 DEF ConnectRamp
      <4> QED BY <2>10, <4>1 DEF ConnectRamp
    <3>2. ThreadsOK'
      BY <2>10 DEF ConnectRamp, Replies, ExchangeComplete, RampGoesOn,
        FramesSent
    <3>3. DataOK'
      BY <2>10 DEF ConnectRamp, Replies, ExchangeComplete, RampGoesOn,
        FramesSent
    <3> QED BY <3>1, <3>2, <3>3
  <2>11. CASE ConnectDone
    BY <2>11 DEF ConnectDone
  <2>12. CASE ConnectFail
    BY <2>12 DEF ConnectFail, DisableFrames
  <2>13. CASE ConnectFailClose
    <3>1. FlagsOK'
      BY <2>13 DEF ConnectFailClose, ConfirmAndClose, DisableFrames
    <3>2. ThreadsOK'
      BY <2>13 DEF ConnectFailClose, ConfirmAndClose, DisableFrames
    <3>3. DataOK'
      BY <2>13 DEF ConnectFailClose, ConfirmAndClose, DisableFrames
    <3> QED BY <3>1, <3>2, <3>3
  <2>14. CASE ClearLatch
    <3>1. FlagsOK'
      BY <2>14 DEF ClearLatch
    <3>2. ThreadsOK'
      BY <2>14 DEF ClearLatch
    <3>3. DataOK'
      BY <2>14 DEF ClearLatch
    <3> QED BY <3>1, <3>2, <3>3
  <2>15. CASE ClearEstop
    <3>1. FlagsOK'
      BY <2>15 DEF ClearEstop
    <3>2. ThreadsOK'
      BY <2>15 DEF ClearEstop
    <3>3. DataOK'
      BY <2>15 DEF ClearEstop
    <3> QED BY <3>1, <3>2, <3>3
  <2>16. CASE ClearCancel
    <3>1. FlagsOK'
      BY <2>16 DEF ClearCancel
    <3>2. ThreadsOK'
      BY <2>16 DEF ClearCancel
    <3>3. DataOK'
      BY <2>16 DEF ClearCancel
    <3> QED BY <3>1, <3>2, <3>3
  <2>17. CASE ClearHealth
    BY <2>17 DEF ClearHealth
  <2>18. CASE CaptureConnected
    BY <2>18 DEF CaptureConnected
  <2>19. CASE CaptureSample
    BY <2>19 DEF CaptureSample
  <2>20. CASE CapturePublish
    BY <2>20 DEF CapturePublish
  <2>21. CASE Submit
    <3>1. FlagsOK'
      BY <2>21 DEF Submit
    <3>2. ThreadsOK'
      BY <2>21 DEF Submit
    <3>3. DataOK'
      <4>1. pending' \in Cmds \cup {None} /\ accepted' \subseteq Cmds
        <5>1. CASE pending' = cmd["exec"]
          BY <2>21, <5>1 DEF Submit
        <5>2. CASE pending' # cmd["exec"]
          BY <2>21, <5>2 DEF Submit
        <5> QED BY <5>1, <5>2
      <4> QED BY <2>21, <4>1 DEF Submit
    <3> QED BY <3>1, <3>2, <3>3
  <2>22. CASE Release
    BY <2>22 DEF Release
  <2>23. CASE CloseDisarm
    <3>1. FlagsOK'
      BY <2>23 DEF CloseDisarm
    <3>2. ThreadsOK'
      BY <2>23 DEF CloseDisarm
    <3>3. DataOK'
      BY <2>23 DEF CloseDisarm
    <3> QED BY <3>1, <3>2, <3>3
  <2>24. CASE CloseDisable
    BY <2>24 DEF CloseDisable, DisableFrames
  <2>25. CASE CloseJoin
    BY <2>25 DEF CloseJoin
  <2>26. CASE CloseClose
    <3>1. FlagsOK'
      BY <2>26 DEF CloseClose, ConfirmAndClose, DisableFrames
    <3>2. ThreadsOK'
      BY <2>26 DEF CloseClose, ConfirmAndClose, DisableFrames
    <3>3. DataOK'
      BY <2>26 DEF CloseClose, ConfirmAndClose, DisableFrames
    <3> QED BY <3>1, <3>2, <3>3
  <2> QED BY <1>3, <2>1, <2>2, <2>3, <2>4, <2>5, <2>6, <2>7, <2>8, <2>9,
    <2>10, <2>11, <2>12, <2>13, <2>14, <2>15, <2>16, <2>17, <2>18, <2>19,
    <2>20, <2>21, <2>22, <2>23, <2>24, <2>25, <2>26, <1>1 DEF ExecStep,
    Threads
<1>4. CASE WorkerStep
  <2>1. CASE FaultFinish
    BY <2>1 DEF FaultFinish, FinishActive
  <2>2. CASE FaultHealth
    BY <2>2 DEF FaultHealth
  <2>3. CASE WorkerTop
    BY <2>3 DEF WorkerTop
  <2>4. CASE WorkerArmed
    BY <2>4 DEF WorkerArmed
  <2>5. CASE WorkerEstop
    BY <2>5 DEF WorkerEstop
  <2>6. CASE ProcessPendingTake
    BY <2>6 DEF ProcessPendingTake, AfterPending
  <2>7. CASE ProcessPendingPlan
    BY <2>7 DEF ProcessPendingPlan, PlanFound, AfterPending
  <2>8. CASE ProcessPendingInstall
    BY <2>8 DEF ProcessPendingInstall, AfterPending
  <2>9. CASE UpdateReference
    <3>1. FlagsOK'
      BY <2>9 DEF UpdateReference
    <3>2. ThreadsOK'
      BY <2>9 DEF UpdateReference
    <3>3. DataOK'
      BY <2>9 DEF UpdateReference
    <3> QED BY <3>1, <3>2, <3>3
  <2>10. CASE WorkerLock
    BY <2>10 DEF WorkerLock
  <2>11. CASE WorkerExchange
    <3>1. FlagsOK'
      BY <2>11 DEF WorkerExchange, Replies, ExchangeComplete, FramesSent
    <3>2. ThreadsOK'
      BY <2>11 DEF WorkerExchange, Replies, ExchangeComplete, FramesSent
    <3>3. DataOK'
      BY <2>11 DEF WorkerExchange, Replies, ExchangeComplete, FramesSent
    <3> QED BY <3>1, <3>2, <3>3
  <2>12. CASE WorkerCheck
    BY <2>12 DEF WorkerCheck
  <2>13. CASE WorkerFeedback
    <3>1. FlagsOK'
      BY <2>13 DEF WorkerFeedback
    <3>2. ThreadsOK'
      BY <2>13 DEF WorkerFeedback
    <3>3. DataOK'
      BY <2>13 DEF WorkerFeedback
    <3> QED BY <3>1, <3>2, <3>3
  <2>14. CASE MonitorIdle
    BY <2>14 DEF MonitorIdle
  <2>15. CASE MonitorCancel
    BY <2>15 DEF MonitorCancel, Terminate
  <2>16. CASE MonitorFault
    BY <2>16 DEF MonitorFault, Terminate
  <2>17. CASE MonitorIntervene
    BY <2>17 DEF MonitorIntervene, Terminate
  <2>18. CASE MonitorGrasp
    BY <2>18 DEF MonitorGrasp, Terminate
  <2>19. CASE MonitorTimeout
    BY <2>19 DEF MonitorTimeout, Terminate
  <2>20. CASE MonitorComplete
    BY <2>20 DEF MonitorComplete, Terminate
  <2>21. CASE MonitorNextLeg
    BY <2>21 DEF MonitorNextLeg
  <2>22. CASE MonitorContinue
    BY <2>22 DEF MonitorContinue
  <2>23. CASE WorkerExit
    <3>1. FlagsOK'
      BY <2>23 DEF WorkerExit
    <3>2. ThreadsOK'
      BY <2>23 DEF WorkerExit
    <3>3. DataOK'
      BY <2>23 DEF WorkerExit
    <3> QED BY <3>1, <3>2, <3>3
  <2>24. CASE WorkerDisable
    BY <2>24 DEF WorkerDisable, DisableFrames
  <2> QED BY <1>4, <2>1, <2>2, <2>3, <2>4, <2>5, <2>6, <2>7, <2>8, <2>9,
    <2>10, <2>11, <2>12, <2>13, <2>14, <2>15, <2>16, <2>17, <2>18, <2>19,
    <2>20, <2>21, <2>22, <2>23, <2>24, <1>1 DEF WorkerStep, Threads
<1>5. ASSUME NEW m \in Motors, DriveTimeout(m)
      PROVE  TypeOK'
  BY <1>5 DEF DriveTimeout
<1>6. CASE UNCHANGED vars
  BY <1>6 DEF vars
<1> QED BY <1>1, <1>2, <1>3, <1>4, <1>5, <1>6 DEF Next, Terminated

\* TypeOK holds in every reachable state, for any number of drives, commands,
\* waypoints, control cycles and ramp steps.
THEOREM TypeCorrect == Spec => []TypeOK
<1>1. Init => TypeOK
  <2> SUFFICES ASSUME Init PROVE TypeOK
    OBVIOUS
  <2>1. FlagsOK
    BY ConstantsAssumption DEF Init, FlagsOK
  <2>2. ThreadsOK
    BY ConstantsAssumption DEF Init, ThreadsOK, Threads, ExecLabels,
      WorkerLabels
  <2>3. DataOK
    BY ConstantsAssumption DEF Init, DataOK, DriveStates, AdapterStates,
      References, Reports, Claims
  <2> QED BY <2>1, <2>2, <2>3 DEF TypeOK
<1>2. TypeOK /\ [Next]_vars => TypeOK'
  BY TypeStep, ConstantsAssumption
<1> QED BY <1>1, <1>2, PTL DEF Spec

-----------------------------------------------------------------------------
\* Where the executor holds io_mutex_.
Connecting ==
    {"c_open", "c_sample", "c_config", "c_seed", "c_enable", "c_arm",
     "c_check", "c_ramp", "c_done", "c_fail", "c_close"}

\* io_mutex_ is held by one thread and exactly where the code holds it.
ExclusiveIO ==
    /\ io = "exec" <=> pc["exec"] \in Connecting
    /\ io = "worker" <=> pc["worker"] = "w_exchange"

\* While Connect holds io_mutex_ its sockets stay open, and no earlier
\* Disconnect or E-stop has the last word.
ConnectHoldsIO ==
    pc["exec"] \in Connecting =>
      claim = "none" /\ (open \/ pc["exec"] = "c_open")

\* Past its own disarm and its own close, a shutdown on the executor finds the
\* session still disarmed and closed: only Connect arms and opens.
ShutdownDisarms ==
    /\ pc["exec"] \in {"s_disable", "s_close"} => ~armed
    /\ pc["exec"] \in {"s_unconn", "s_finish", "s_health"} \cup FaultLabels
                     \cup TerminalLabels => ~open /\ ~armed

\* The inductive invariant behind ClosedMeansDisabled and ShutdownIsFinal.
SafetyInv ==
    /\ ExclusiveIO /\ ConnectHoldsIO /\ ShutdownDisarms
    /\ ClosedMeansDisabled /\ ShutdownIsFinal

\* Every step keeps the parts of SafetyInv: what the other thread does between
\* two steps of a shutdown or of Connect cannot break them.
LEMMA SafetyStep ==
    ASSUME ConstantsAssumption, TypeOK, SafetyInv, [Next]_vars
    PROVE  SafetyInv'
<1> USE ConstantsAssumption DEF TypeOK, FlagsOK, ThreadsOK, DataOK, Threads,
  SafetyInv, Connecting, ExclusiveIO, ConnectHoldsIO, ShutdownDisarms,
  ClosedMeansDisabled, ShutdownIsFinal, ShutLabels, FaultLabels,
  TerminalLabels, Goto, EstopSeen, locks, flags, motion, drives, locals,
  history
<1>1. ASSUME NEW t \in Threads, Shared(t)
      PROVE  SafetyInv'
  <2>1. CASE ShutdownHadSockets(t)
    BY <2>1 DEF ShutdownHadSockets
  <2>2. CASE ShutdownLatch(t)
    BY <2>2 DEF ShutdownLatch
  <2>3. CASE ShutdownAssert(t)
    BY <2>3 DEF ShutdownAssert
  <2>4. CASE ShutdownCancel(t)
    BY <2>4 DEF ShutdownCancel
  <2>5. CASE ShutdownDisarm(t)
    BY <2>5 DEF ShutdownDisarm
  <2>6. CASE ShutdownDisable(t)
    BY <2>6 DEF ShutdownDisable, DisableFrames
  <2>7. CASE ShutdownClose(t)
    BY <2>7 DEF ShutdownClose, ConfirmAndClose, CloseUnconfirmed,
      DisableFrames
  <2>8. CASE ShutdownUnconnect(t)
    BY <2>8 DEF ShutdownUnconnect
  <2>9. CASE ShutdownFinish(t)
    BY <2>9 DEF ShutdownFinish, FinishActive
  <2>10. CASE ShutdownHealth(t)
    BY <2>10 DEF ShutdownHealth
  <2>11. CASE FaultDisarm(t)
    BY <2>11 DEF FaultDisarm
  <2>12. CASE FaultDisable(t)
    BY <2>12 DEF FaultDisable, DisableFrames
  <2>13. CASE FaultClose(t)
    BY <2>13 DEF FaultClose, ConfirmAndClose, DisableFrames
  <2>14. CASE FaultUnconnect(t)
    BY <2>14 DEF FaultUnconnect
  <2>15. CASE TerminalCallback(t)
    BY <2>15 DEF TerminalCallback
  <2>16. CASE TerminalDone(t)
    BY <2>16 DEF TerminalDone, HealthAfterTerminal
  <2>17. CASE TerminalFault(t)
    BY <2>17 DEF TerminalFault
  <2> QED BY <1>1, <2>1, <2>2, <2>3, <2>4, <2>5, <2>6, <2>7, <2>8, <2>9,
    <2>10, <2>11, <2>12, <2>13, <2>14, <2>15, <2>16, <2>17 DEF Shared
<1>2. CASE CallStarts
  <2>1. CASE ConnectCheck
    BY <2>1 DEF ConnectCheck
  <2>2. CASE StopMotion
    BY <2>2 DEF StopMotion
  <2>3. CASE ClearCheck
    BY <2>3 DEF ClearCheck
  <2>4. CASE CaptureIdle
    BY <2>4 DEF CaptureIdle
  <2>5. CASE CloseSession
    BY <2>5 DEF CloseSession
  <2>6. ASSUME NEW call \in {"disconnect", "estop"}, ShutdownCall(call)
        PROVE  SafetyInv'
    BY <2>6 DEF ShutdownCall
  <2>7. ASSUME NEW c \in Cmds, Reserve(c)
        PROVE  SafetyInv'
    BY <2>7 DEF Reserve
  <2>8. ASSUME NEW c \in Cmds, Cancel(c)
        PROVE  SafetyInv'
    BY <2>8 DEF Cancel
  <2> QED BY <1>2, <2>1, <2>2, <2>3, <2>4, <2>5, <2>6, <2>7, <2>8 DEF
    CallStarts
<1>3. CASE ExecStep
  <2>1. CASE ConnectLock
    BY <2>1 DEF ConnectLock
  <2>2. CASE ConnectOpen
    BY <2>2 DEF ConnectOpen
  <2>3. CASE ConnectOpenFails
    BY <2>3 DEF ConnectOpenFails, CloseUnconfirmed
  <2>4. CASE ConnectSample
    BY <2>4 DEF ConnectSample, Replies, ExchangeComplete, FramesSent
  <2>5. CASE ConnectConfigure
    BY <2>5 DEF ConnectConfigure
  <2>6. CASE ConnectSeed
    BY <2>6 DEF ConnectSeed, FramesSent
  <2>7. CASE ConnectEnable
    BY <2>7 DEF ConnectEnable
  <2>8. CASE ConnectArm
    BY <2>8 DEF ConnectArm
  <2>9. CASE ConnectRampCheck
    BY <2>9 DEF ConnectRampCheck
  <2>10. CASE ConnectRamp
    BY <2>10 DEF ConnectRamp, Replies, ExchangeComplete, RampGoesOn,
      FramesSent
  <2>11. CASE ConnectDone
    BY <2>11 DEF ConnectDone
  <2>12. CASE ConnectFail
    BY <2>12 DEF ConnectFail, DisableFrames
  <2>13. CASE ConnectFailClose
    BY <2>13 DEF ConnectFailClose, ConfirmAndClose, DisableFrames
  <2>14. CASE ClearLatch
    BY <2>14 DEF ClearLatch
  <2>15. CASE ClearEstop
    BY <2>15 DEF ClearEstop
  <2>16. CASE ClearCancel
    BY <2>16 DEF ClearCancel
  <2>17. CASE ClearHealth
    BY <2>17 DEF ClearHealth
  <2>18. CASE CaptureConnected
    BY <2>18 DEF CaptureConnected
  <2>19. CASE CaptureSample
    BY <2>19 DEF CaptureSample
  <2>20. CASE CapturePublish
    BY <2>20 DEF CapturePublish
  <2>21. CASE Submit
    BY <2>21 DEF Submit
  <2>22. CASE Release
    BY <2>22 DEF Release
  <2>23. CASE CloseDisarm
    BY <2>23 DEF CloseDisarm
  <2>24. CASE CloseDisable
    BY <2>24 DEF CloseDisable, DisableFrames
  <2>25. CASE CloseJoin
    BY <2>25 DEF CloseJoin
  <2>26. CASE CloseClose
    BY <2>26 DEF CloseClose, ConfirmAndClose, DisableFrames
  <2> QED BY <1>3, <2>1, <2>2, <2>3, <2>4, <2>5, <2>6, <2>7, <2>8, <2>9,
    <2>10, <2>11, <2>12, <2>13, <2>14, <2>15, <2>16, <2>17, <2>18, <2>19,
    <2>20, <2>21, <2>22, <2>23, <2>24, <2>25, <2>26, <1>1 DEF ExecStep,
    Threads
<1>4. CASE WorkerStep
  <2>1. CASE FaultFinish
    BY <2>1 DEF FaultFinish, FinishActive
  <2>2. CASE FaultHealth
    BY <2>2 DEF FaultHealth
  <2>3. CASE WorkerTop
    BY <2>3 DEF WorkerTop
  <2>4. CASE WorkerArmed
    BY <2>4 DEF WorkerArmed
  <2>5. CASE WorkerEstop
    BY <2>5 DEF WorkerEstop
  <2>6. CASE ProcessPendingTake
    BY <2>6 DEF ProcessPendingTake, AfterPending
  <2>7. CASE ProcessPendingPlan
    BY <2>7 DEF ProcessPendingPlan, PlanFound, AfterPending
  <2>8. CASE ProcessPendingInstall
    BY <2>8 DEF ProcessPendingInstall, AfterPending
  <2>9. CASE UpdateReference
    BY <2>9 DEF UpdateReference
  <2>10. CASE WorkerLock
    BY <2>10 DEF WorkerLock
  <2>11. CASE WorkerExchange
    BY <2>11 DEF WorkerExchange, Replies, ExchangeComplete, FramesSent
  <2>12. CASE WorkerCheck
    BY <2>12 DEF WorkerCheck
  <2>13. CASE WorkerFeedback
    BY <2>13 DEF WorkerFeedback
  <2>14. CASE MonitorIdle
    BY <2>14 DEF MonitorIdle
  <2>15. CASE MonitorCancel
    BY <2>15 DEF MonitorCancel, Terminate
  <2>16. CASE MonitorFault
    BY <2>16 DEF MonitorFault, Terminate
  <2>17. CASE MonitorIntervene
    BY <2>17 DEF MonitorIntervene, Terminate
  <2>18. CASE MonitorGrasp
    BY <2>18 DEF MonitorGrasp, Terminate
  <2>19. CASE MonitorTimeout
    BY <2>19 DEF MonitorTimeout, Terminate
  <2>20. CASE MonitorComplete
    BY <2>20 DEF MonitorComplete, Terminate
  <2>21. CASE MonitorNextLeg
    BY <2>21 DEF MonitorNextLeg
  <2>22. CASE MonitorContinue
    BY <2>22 DEF MonitorContinue
  <2>23. CASE WorkerExit
    BY <2>23 DEF WorkerExit
  <2>24. CASE WorkerDisable
    BY <2>24 DEF WorkerDisable, DisableFrames
  <2> QED BY <1>4, <2>1, <2>2, <2>3, <2>4, <2>5, <2>6, <2>7, <2>8, <2>9,
    <2>10, <2>11, <2>12, <2>13, <2>14, <2>15, <2>16, <2>17, <2>18, <2>19,
    <2>20, <2>21, <2>22, <2>23, <2>24, <1>1 DEF WorkerStep, Threads
<1>5. ASSUME NEW m \in Motors, DriveTimeout(m)
      PROVE  SafetyInv'
  BY <1>5 DEF DriveTimeout
<1>6. CASE UNCHANGED vars
  BY <1>6 DEF vars
<1> QED BY <1>1, <1>2, <1>3, <1>4, <1>5, <1>6 DEF Next, Terminated

\* SafetyInv holds in every reachable state.
LEMMA SafetyHolds == Spec => []SafetyInv
<1>1. Init => SafetyInv
  BY DEF Init, SafetyInv, ExclusiveIO, ConnectHoldsIO, ShutdownDisarms,
    ClosedMeansDisabled, ShutdownIsFinal, Connecting, Threads, FaultLabels,
    TerminalLabels
<1>2. TypeOK /\ SafetyInv /\ [Next]_vars => SafetyInv'
  BY SafetyStep, ConstantsAssumption
<1> QED BY <1>1, <1>2, TypeCorrect, PTL DEF Spec

\* No drive is left able to move behind closed sockets, unless the close that
\* let it go was reported as unconfirmed: Connect, Disconnect, E-stop, a fault
\* of the worker and close() all end in disable_until_confirmed() or say so.
THEOREM ClosedDrivesAreDisabled == Spec => []ClosedMeansDisabled
<1>1. SafetyInv => ClosedMeansDisabled
  BY DEF SafetyInv
<1> QED BY <1>1, SafetyHolds, PTL

\* After disconnect_and_disable() or emergency_stop() has answered, and until
\* the next connect_and_enable() opens the sockets, the session is closed and
\* disarmed.
THEOREM ShutdownHasTheLastWord == Spec => []ShutdownIsFinal
<1>1. SafetyInv => ShutdownIsFinal
  BY DEF SafetyInv
<1> QED BY <1>1, SafetyHolds, PTL

-----------------------------------------------------------------------------
\* With the latch set, whoever set it last has still to disarm, or Connect has
\* still to look at the latch.
LatchDisarms ==
    EstopSeen /\ armed =>
      \/ pc["exec"] \in {"s_assert", "s_cancel", "s_disarm", "c_check"}
      \/ pc["worker"] \in {"s_assert", "s_cancel", "s_disarm"}

\* Where a shutdown has latched the E-stop and has still to close the sockets.
Closing == {"s_assert", "s_cancel", "s_disarm", "s_disable", "s_close"}

\* With the latch set and sockets open, a shutdown has still to close them, or
\* Connect has still to look at the latch or is on its way to fail closed.
LatchCloses ==
    EstopSeen /\ open =>
      \/ pc["exec"] \in (Connecting \ {"c_ramp", "c_done"}) \cup Closing
      \/ pc["worker"] \in Closing

\* The inductive invariant behind LatchWins.
LatchInv == LatchDisarms /\ LatchCloses

\* Every step keeps LatchInv, in every overlap of Connect with an E-stop that
\* the worker or the executor acts on.
LEMMA LatchStep ==
    ASSUME ConstantsAssumption, TypeOK, LatchInv, [Next]_vars
    PROVE  LatchInv'
<1> USE ConstantsAssumption DEF TypeOK, FlagsOK, ThreadsOK, Threads,
  LatchInv, LatchDisarms, LatchCloses, Closing, Connecting, ShutLabels,
  FaultLabels, TerminalLabels, Goto, EstopSeen, locks, flags, motion, drives,
  locals, history
<1>1. ASSUME NEW t \in Threads, Shared(t)
      PROVE  LatchInv'
  <2>1. CASE ShutdownHadSockets(t)
    BY <2>1 DEF ShutdownHadSockets
  <2>2. CASE ShutdownLatch(t)
    BY <2>2 DEF ShutdownLatch
  <2>3. CASE ShutdownAssert(t)
    BY <2>3 DEF ShutdownAssert
  <2>4. CASE ShutdownCancel(t)
    BY <2>4 DEF ShutdownCancel
  <2>5. CASE ShutdownDisarm(t)
    BY <2>5 DEF ShutdownDisarm
  <2>6. CASE ShutdownDisable(t)
    BY <2>6 DEF ShutdownDisable, DisableFrames
  <2>7. CASE ShutdownClose(t)
    BY <2>7 DEF ShutdownClose, ConfirmAndClose, CloseUnconfirmed,
      DisableFrames
  <2>8. CASE ShutdownUnconnect(t)
    BY <2>8 DEF ShutdownUnconnect
  <2>9. CASE ShutdownFinish(t)
    BY <2>9 DEF ShutdownFinish, FinishActive
  <2>10. CASE ShutdownHealth(t)
    BY <2>10 DEF ShutdownHealth
  <2>11. CASE FaultDisarm(t)
    BY <2>11 DEF FaultDisarm
  <2>12. CASE FaultDisable(t)
    BY <2>12 DEF FaultDisable, DisableFrames
  <2>13. CASE FaultClose(t)
    BY <2>13 DEF FaultClose, ConfirmAndClose, DisableFrames
  <2>14. CASE FaultUnconnect(t)
    BY <2>14 DEF FaultUnconnect
  <2>15. CASE TerminalCallback(t)
    BY <2>15 DEF TerminalCallback
  <2>16. CASE TerminalDone(t)
    BY <2>16 DEF TerminalDone, HealthAfterTerminal
  <2>17. CASE TerminalFault(t)
    BY <2>17 DEF TerminalFault
  <2> QED BY <1>1, <2>1, <2>2, <2>3, <2>4, <2>5, <2>6, <2>7, <2>8, <2>9,
    <2>10, <2>11, <2>12, <2>13, <2>14, <2>15, <2>16, <2>17 DEF Shared
<1>2. CASE CallStarts
  <2>1. CASE ConnectCheck
    BY <2>1 DEF ConnectCheck
  <2>2. CASE StopMotion
    BY <2>2 DEF StopMotion
  <2>3. CASE ClearCheck
    BY <2>3 DEF ClearCheck
  <2>4. CASE CaptureIdle
    BY <2>4 DEF CaptureIdle
  <2>5. CASE CloseSession
    BY <2>5 DEF CloseSession
  <2>6. ASSUME NEW call \in {"disconnect", "estop"}, ShutdownCall(call)
        PROVE  LatchInv'
    BY <2>6 DEF ShutdownCall
  <2>7. ASSUME NEW c \in Cmds, Reserve(c)
        PROVE  LatchInv'
    BY <2>7 DEF Reserve
  <2>8. ASSUME NEW c \in Cmds, Cancel(c)
        PROVE  LatchInv'
    BY <2>8 DEF Cancel
  <2> QED BY <1>2, <2>1, <2>2, <2>3, <2>4, <2>5, <2>6, <2>7, <2>8 DEF
    CallStarts
<1>3. CASE ExecStep
  <2>1. CASE ConnectLock
    BY <2>1 DEF ConnectLock
  <2>2. CASE ConnectOpen
    BY <2>2 DEF ConnectOpen
  <2>3. CASE ConnectOpenFails
    BY <2>3 DEF ConnectOpenFails, CloseUnconfirmed
  <2>4. CASE ConnectSample
    BY <2>4 DEF ConnectSample, Replies, ExchangeComplete, FramesSent
  <2>5. CASE ConnectConfigure
    BY <2>5 DEF ConnectConfigure
  <2>6. CASE ConnectSeed
    BY <2>6 DEF ConnectSeed, FramesSent
  <2>7. CASE ConnectEnable
    BY <2>7 DEF ConnectEnable
  <2>8. CASE ConnectArm
    BY <2>8 DEF ConnectArm
  <2>9. CASE ConnectRampCheck
    BY <2>9 DEF ConnectRampCheck
  <2>10. CASE ConnectRamp
    BY <2>10 DEF ConnectRamp, Replies, ExchangeComplete, RampGoesOn,
      FramesSent
  <2>11. CASE ConnectDone
    BY <2>11 DEF ConnectDone
  <2>12. CASE ConnectFail
    BY <2>12 DEF ConnectFail, DisableFrames
  <2>13. CASE ConnectFailClose
    BY <2>13 DEF ConnectFailClose, ConfirmAndClose, DisableFrames
  <2>14. CASE ClearLatch
    BY <2>14 DEF ClearLatch
  <2>15. CASE ClearEstop
    BY <2>15 DEF ClearEstop
  <2>16. CASE ClearCancel
    BY <2>16 DEF ClearCancel
  <2>17. CASE ClearHealth
    BY <2>17 DEF ClearHealth
  <2>18. CASE CaptureConnected
    BY <2>18 DEF CaptureConnected
  <2>19. CASE CaptureSample
    BY <2>19 DEF CaptureSample
  <2>20. CASE CapturePublish
    BY <2>20 DEF CapturePublish
  <2>21. CASE Submit
    BY <2>21 DEF Submit
  <2>22. CASE Release
    BY <2>22 DEF Release
  <2>23. CASE CloseDisarm
    BY <2>23 DEF CloseDisarm
  <2>24. CASE CloseDisable
    BY <2>24 DEF CloseDisable, DisableFrames
  <2>25. CASE CloseJoin
    BY <2>25 DEF CloseJoin
  <2>26. CASE CloseClose
    BY <2>26 DEF CloseClose, ConfirmAndClose, DisableFrames
  <2> QED BY <1>3, <2>1, <2>2, <2>3, <2>4, <2>5, <2>6, <2>7, <2>8, <2>9,
    <2>10, <2>11, <2>12, <2>13, <2>14, <2>15, <2>16, <2>17, <2>18, <2>19,
    <2>20, <2>21, <2>22, <2>23, <2>24, <2>25, <2>26, <1>1 DEF ExecStep,
    Threads
<1>4. CASE WorkerStep
  <2>1. CASE FaultFinish
    BY <2>1 DEF FaultFinish, FinishActive
  <2>2. CASE FaultHealth
    BY <2>2 DEF FaultHealth
  <2>3. CASE WorkerTop
    BY <2>3 DEF WorkerTop
  <2>4. CASE WorkerArmed
    BY <2>4 DEF WorkerArmed
  <2>5. CASE WorkerEstop
    BY <2>5 DEF WorkerEstop
  <2>6. CASE ProcessPendingTake
    BY <2>6 DEF ProcessPendingTake, AfterPending
  <2>7. CASE ProcessPendingPlan
    BY <2>7 DEF ProcessPendingPlan, PlanFound, AfterPending
  <2>8. CASE ProcessPendingInstall
    BY <2>8 DEF ProcessPendingInstall, AfterPending
  <2>9. CASE UpdateReference
    BY <2>9 DEF UpdateReference
  <2>10. CASE WorkerLock
    BY <2>10 DEF WorkerLock
  <2>11. CASE WorkerExchange
    BY <2>11 DEF WorkerExchange, Replies, ExchangeComplete, FramesSent
  <2>12. CASE WorkerCheck
    BY <2>12 DEF WorkerCheck
  <2>13. CASE WorkerFeedback
    BY <2>13 DEF WorkerFeedback
  <2>14. CASE MonitorIdle
    BY <2>14 DEF MonitorIdle
  <2>15. CASE MonitorCancel
    BY <2>15 DEF MonitorCancel, Terminate
  <2>16. CASE MonitorFault
    BY <2>16 DEF MonitorFault, Terminate
  <2>17. CASE MonitorIntervene
    BY <2>17 DEF MonitorIntervene, Terminate
  <2>18. CASE MonitorGrasp
    BY <2>18 DEF MonitorGrasp, Terminate
  <2>19. CASE MonitorTimeout
    BY <2>19 DEF MonitorTimeout, Terminate
  <2>20. CASE MonitorComplete
    BY <2>20 DEF MonitorComplete, Terminate
  <2>21. CASE MonitorNextLeg
    BY <2>21 DEF MonitorNextLeg
  <2>22. CASE MonitorContinue
    BY <2>22 DEF MonitorContinue
  <2>23. CASE WorkerExit
    BY <2>23 DEF WorkerExit
  <2>24. CASE WorkerDisable
    BY <2>24 DEF WorkerDisable, DisableFrames
  <2> QED BY <1>4, <2>1, <2>2, <2>3, <2>4, <2>5, <2>6, <2>7, <2>8, <2>9,
    <2>10, <2>11, <2>12, <2>13, <2>14, <2>15, <2>16, <2>17, <2>18, <2>19,
    <2>20, <2>21, <2>22, <2>23, <2>24, <1>1 DEF WorkerStep, Threads
<1>5. ASSUME NEW m \in Motors, DriveTimeout(m)
      PROVE  LatchInv'
  BY <1>5 DEF DriveTimeout
<1>6. CASE UNCHANGED vars
  BY <1>6 DEF vars
<1> QED BY <1>1, <1>2, <1>3, <1>4, <1>5, <1>6 DEF Next, Terminated

\* A latched E-stop wins over a Connect it overlaps, whether the executor or the
\* worker acts on the latch and however late.
THEOREM EstopWins == Spec => []LatchWins
<1>1. Init => LatchInv
  BY DEF Init, LatchInv, LatchDisarms, LatchCloses, EstopSeen
<1>2. TypeOK /\ LatchInv /\ [Next]_vars => LatchInv'
  BY LatchStep, ConstantsAssumption
<1>3. LatchInv => LatchWins
  BY DEF LatchInv, LatchDisarms, LatchCloses, LatchWins, Settling, Closing,
    Connecting, ShutLabels
<1> QED BY <1>1, <1>2, <1>3, TypeCorrect, PTL DEF Spec

\* A shutdown has the last word: neither the worker's cycle nor a Connect it overlaps
\* leaves the session armed or open (disconnect_and_disable, emergency_stop,
\* connect_and_enable).
THEOREM ShutdownsWin == Spec => []ShutdownWins
<1>1. ShutdownIsFinal /\ LatchWins => ShutdownWins
  BY DEF ShutdownWins
<1> QED BY <1>1, ShutdownHasTheLastWord, EstopWins, PTL

-----------------------------------------------------------------------------
\* Where a thread that has disarmed the session has still to write the health.
Reporting ==
    {"s_disable", "s_close", "s_unconn", "s_finish", "s_health"} \cup
    (FaultLabels \ {"x_disarm"}) \cup TerminalLabels

\* A stale "idle" is on its way to be overwritten.
IdleReported ==
    health = "idle" /\ ~armed =>
      \/ pc["exec"] \in Reporting \cup {"c_fail", "c_close", "z_disable",
                                       "z_join", "z_close", "dead"}
      \/ pc["worker"] \in Reporting \cup {"w_disable", "gone"}

\* A worker that disarms a session whose Connect has armed it waits for
\* io_mutex_ until Connect has reported.
RampDisarmed ==
    pc["exec"] \in {"c_check", "c_ramp", "c_done"} /\ ~armed =>
      pc["worker"] \in {"s_disable", "s_close", "x_disable", "x_close",
                       "w_disable", "gone"}

\* The inductive invariant behind IdleIsArmed.
HealthInv == IdleReported /\ RampDisarmed

\* Every step keeps HealthInv, whichever thread writes the health last.
LEMMA HealthStep ==
    ASSUME ConstantsAssumption, TypeOK, ExclusiveIO, HealthInv, [Next]_vars
    PROVE  HealthInv'
<1> USE ConstantsAssumption DEF TypeOK, FlagsOK, ThreadsOK, Threads,
  HealthInv, IdleReported, RampDisarmed, Reporting, Connecting, ExclusiveIO,
  ShutLabels, FaultLabels, TerminalLabels, Goto, EstopSeen, locks, flags,
  motion, drives, locals, history
<1>1. ASSUME NEW t \in Threads, Shared(t)
      PROVE  HealthInv'
  <2>1. CASE ShutdownHadSockets(t)
    BY <2>1 DEF ShutdownHadSockets
  <2>2. CASE ShutdownLatch(t)
    BY <2>2 DEF ShutdownLatch
  <2>3. CASE ShutdownAssert(t)
    BY <2>3 DEF ShutdownAssert
  <2>4. CASE ShutdownCancel(t)
    BY <2>4 DEF ShutdownCancel
  <2>5. CASE ShutdownDisarm(t)
    BY <2>5 DEF ShutdownDisarm
  <2>6. CASE ShutdownDisable(t)
    BY <2>6 DEF ShutdownDisable, DisableFrames
  <2>7. CASE ShutdownClose(t)
    BY <2>7 DEF ShutdownClose, ConfirmAndClose, CloseUnconfirmed,
      DisableFrames
  <2>8. CASE ShutdownUnconnect(t)
    BY <2>8 DEF ShutdownUnconnect
  <2>9. CASE ShutdownFinish(t)
    BY <2>9 DEF ShutdownFinish, FinishActive
  <2>10. CASE ShutdownHealth(t)
    BY <2>10 DEF ShutdownHealth
  <2>11. CASE FaultDisarm(t)
    BY <2>11 DEF FaultDisarm
  <2>12. CASE FaultDisable(t)
    BY <2>12 DEF FaultDisable, DisableFrames
  <2>13. CASE FaultClose(t)
    BY <2>13 DEF FaultClose, ConfirmAndClose, DisableFrames
  <2>14. CASE FaultUnconnect(t)
    BY <2>14 DEF FaultUnconnect
  <2>15. CASE TerminalCallback(t)
    BY <2>15 DEF TerminalCallback
  <2>16. CASE TerminalDone(t)
    BY <2>16 DEF TerminalDone, HealthAfterTerminal
  <2>17. CASE TerminalFault(t)
    BY <2>17 DEF TerminalFault
  <2> QED BY <1>1, <2>1, <2>2, <2>3, <2>4, <2>5, <2>6, <2>7, <2>8, <2>9,
    <2>10, <2>11, <2>12, <2>13, <2>14, <2>15, <2>16, <2>17 DEF Shared
<1>2. CASE CallStarts
  <2>1. CASE ConnectCheck
    BY <2>1 DEF ConnectCheck
  <2>2. CASE StopMotion
    BY <2>2 DEF StopMotion
  <2>3. CASE ClearCheck
    BY <2>3 DEF ClearCheck
  <2>4. CASE CaptureIdle
    BY <2>4 DEF CaptureIdle
  <2>5. CASE CloseSession
    BY <2>5 DEF CloseSession
  <2>6. ASSUME NEW call \in {"disconnect", "estop"}, ShutdownCall(call)
        PROVE  HealthInv'
    BY <2>6 DEF ShutdownCall
  <2>7. ASSUME NEW c \in Cmds, Reserve(c)
        PROVE  HealthInv'
    BY <2>7 DEF Reserve
  <2>8. ASSUME NEW c \in Cmds, Cancel(c)
        PROVE  HealthInv'
    BY <2>8 DEF Cancel
  <2> QED BY <1>2, <2>1, <2>2, <2>3, <2>4, <2>5, <2>6, <2>7, <2>8 DEF
    CallStarts
<1>3. CASE ExecStep
  <2>1. CASE ConnectLock
    BY <2>1 DEF ConnectLock
  <2>2. CASE ConnectOpen
    BY <2>2 DEF ConnectOpen
  <2>3. CASE ConnectOpenFails
    BY <2>3 DEF ConnectOpenFails, CloseUnconfirmed
  <2>4. CASE ConnectSample
    BY <2>4 DEF ConnectSample, Replies, ExchangeComplete, FramesSent
  <2>5. CASE ConnectConfigure
    BY <2>5 DEF ConnectConfigure
  <2>6. CASE ConnectSeed
    BY <2>6 DEF ConnectSeed, FramesSent
  <2>7. CASE ConnectEnable
    BY <2>7 DEF ConnectEnable
  <2>8. CASE ConnectArm
    BY <2>8 DEF ConnectArm
  <2>9. CASE ConnectRampCheck
    BY <2>9 DEF ConnectRampCheck
  <2>10. CASE ConnectRamp
    BY <2>10 DEF ConnectRamp, Replies, ExchangeComplete, RampGoesOn,
      FramesSent
  <2>11. CASE ConnectDone
    BY <2>11 DEF ConnectDone
  <2>12. CASE ConnectFail
    BY <2>12 DEF ConnectFail, DisableFrames
  <2>13. CASE ConnectFailClose
    BY <2>13 DEF ConnectFailClose, ConfirmAndClose, DisableFrames
  <2>14. CASE ClearLatch
    BY <2>14 DEF ClearLatch
  <2>15. CASE ClearEstop
    BY <2>15 DEF ClearEstop
  <2>16. CASE ClearCancel
    BY <2>16 DEF ClearCancel
  <2>17. CASE ClearHealth
    BY <2>17 DEF ClearHealth
  <2>18. CASE CaptureConnected
    BY <2>18 DEF CaptureConnected
  <2>19. CASE CaptureSample
    BY <2>19 DEF CaptureSample
  <2>20. CASE CapturePublish
    BY <2>20 DEF CapturePublish
  <2>21. CASE Submit
    BY <2>21 DEF Submit
  <2>22. CASE Release
    BY <2>22 DEF Release
  <2>23. CASE CloseDisarm
    BY <2>23 DEF CloseDisarm
  <2>24. CASE CloseDisable
    BY <2>24 DEF CloseDisable, DisableFrames
  <2>25. CASE CloseJoin
    BY <2>25 DEF CloseJoin
  <2>26. CASE CloseClose
    BY <2>26 DEF CloseClose, ConfirmAndClose, DisableFrames
  <2> QED BY <1>3, <2>1, <2>2, <2>3, <2>4, <2>5, <2>6, <2>7, <2>8, <2>9,
    <2>10, <2>11, <2>12, <2>13, <2>14, <2>15, <2>16, <2>17, <2>18, <2>19,
    <2>20, <2>21, <2>22, <2>23, <2>24, <2>25, <2>26, <1>1 DEF ExecStep,
    Threads
<1>4. CASE WorkerStep
  <2>1. CASE FaultFinish
    BY <2>1 DEF FaultFinish, FinishActive
  <2>2. CASE FaultHealth
    BY <2>2 DEF FaultHealth
  <2>3. CASE WorkerTop
    BY <2>3 DEF WorkerTop
  <2>4. CASE WorkerArmed
    BY <2>4 DEF WorkerArmed
  <2>5. CASE WorkerEstop
    BY <2>5 DEF WorkerEstop
  <2>6. CASE ProcessPendingTake
    BY <2>6 DEF ProcessPendingTake, AfterPending
  <2>7. CASE ProcessPendingPlan
    BY <2>7 DEF ProcessPendingPlan, PlanFound, AfterPending
  <2>8. CASE ProcessPendingInstall
    BY <2>8 DEF ProcessPendingInstall, AfterPending
  <2>9. CASE UpdateReference
    BY <2>9 DEF UpdateReference
  <2>10. CASE WorkerLock
    BY <2>10 DEF WorkerLock
  <2>11. CASE WorkerExchange
    BY <2>11 DEF WorkerExchange, Replies, ExchangeComplete, FramesSent
  <2>12. CASE WorkerCheck
    BY <2>12 DEF WorkerCheck
  <2>13. CASE WorkerFeedback
    BY <2>13 DEF WorkerFeedback
  <2>14. CASE MonitorIdle
    BY <2>14 DEF MonitorIdle
  <2>15. CASE MonitorCancel
    BY <2>15 DEF MonitorCancel, Terminate
  <2>16. CASE MonitorFault
    BY <2>16 DEF MonitorFault, Terminate
  <2>17. CASE MonitorIntervene
    BY <2>17 DEF MonitorIntervene, Terminate
  <2>18. CASE MonitorGrasp
    BY <2>18 DEF MonitorGrasp, Terminate
  <2>19. CASE MonitorTimeout
    BY <2>19 DEF MonitorTimeout, Terminate
  <2>20. CASE MonitorComplete
    BY <2>20 DEF MonitorComplete, Terminate
  <2>21. CASE MonitorNextLeg
    BY <2>21 DEF MonitorNextLeg
  <2>22. CASE MonitorContinue
    BY <2>22 DEF MonitorContinue
  <2>23. CASE WorkerExit
    BY <2>23 DEF WorkerExit
  <2>24. CASE WorkerDisable
    BY <2>24 DEF WorkerDisable, DisableFrames
  <2> QED BY <1>4, <2>1, <2>2, <2>3, <2>4, <2>5, <2>6, <2>7, <2>8, <2>9,
    <2>10, <2>11, <2>12, <2>13, <2>14, <2>15, <2>16, <2>17, <2>18, <2>19,
    <2>20, <2>21, <2>22, <2>23, <2>24, <1>1 DEF WorkerStep, Threads
<1>5. ASSUME NEW m \in Motors, DriveTimeout(m)
      PROVE  HealthInv'
  BY <1>5 DEF DriveTimeout
<1>6. CASE UNCHANGED vars
  BY <1>6 DEF vars
<1> QED BY <1>1, <1>2, <1>3, <1>4, <1>5, <1>6 DEF Next, Terminated

\* With both threads at rest the health says "idle" only of an armed session,
\* though Connect, release(), terminal_command() and set_health() write it from
\* two threads.
THEOREM IdleHealthIsArmed == Spec => []IdleIsArmed
<1>1. Init => HealthInv
  BY DEF Init, HealthInv, IdleReported, RampDisarmed, Threads
<1>2. TypeOK /\ SafetyInv /\ HealthInv /\ [Next]_vars => HealthInv'
  BY HealthStep, ConstantsAssumption DEF SafetyInv
<1>3. HealthInv => IdleIsArmed
  BY DEF HealthInv, IdleReported, IdleIsArmed, Reporting, FaultLabels,
    TerminalLabels
<1> QED BY <1>1, <1>2, <1>3, TypeCorrect, SafetyHolds, PTL DEF Spec

-----------------------------------------------------------------------------
\* Where the worker has disarmed the session and has still to end its motion.
Ending ==
    {"s_disable", "s_close", "s_unconn", "s_finish",
     "x_disable", "x_close", "x_unconn", "x_finish"}

\* A pose to hold: measured at Connect, or where a motion ended.
HoldReference == ref \in {"seed", "endpoint", "hold"}

\* A worker that ends its motion late meets the reference of a new Connect.
LateEndHolds == armed /\ pc["worker"] \in Ending => HoldReference

\* Connect's seed is overwritten only by the cycle of a motion under way, and
\* that cycle then waits for the io_mutex_ that Connect holds.
SeedOverwritten ==
    pc["exec"] \in {"c_enable", "c_arm", "c_check", "c_ramp", "c_done"} =>
      HoldReference \/ (active # None /\ pc["worker"] = "w_lock")

\* clear_emergency_stop() tests armed_ once, and nobody arms before it is through
\* with its stores: Connect waits for the executor.
ClearDisarmed ==
    pc["exec"] \in {"k_latch", "k_estop", "k_cancel"} => ~armed

\* The inductive invariant behind HoldIsFixed and CancelHolds.
HoldInv ==
    HoldIsFixed /\ LateEndHolds /\ SeedOverwritten /\ ClearDisarmed

\* Every step keeps HoldInv: only a motion under way moves the reference.
LEMMA HoldStep ==
    ASSUME ConstantsAssumption, TypeOK, SafetyInv, HoldInv, [Next]_vars
    PROVE  HoldInv'
<1> USE ConstantsAssumption DEF TypeOK, FlagsOK, ThreadsOK, DataOK, Threads,
  HoldInv, HoldIsFixed, LateEndHolds, SeedOverwritten, ClearDisarmed,
  HoldReference, Ending, SafetyInv, ExclusiveIO, Connecting, ShutdownDisarms, ShutLabels,
  FaultLabels, TerminalLabels, Goto, EstopSeen, locks, flags, motion, drives,
  locals, history
<1>1. ASSUME NEW t \in Threads, Shared(t)
      PROVE  HoldInv'
  <2>1. CASE ShutdownHadSockets(t)
    BY <2>1 DEF ShutdownHadSockets
  <2>2. CASE ShutdownLatch(t)
    BY <2>2 DEF ShutdownLatch
  <2>3. CASE ShutdownAssert(t)
    BY <2>3 DEF ShutdownAssert
  <2>4. CASE ShutdownCancel(t)
    BY <2>4 DEF ShutdownCancel
  <2>5. CASE ShutdownDisarm(t)
    BY <2>5 DEF ShutdownDisarm
  <2>6. CASE ShutdownDisable(t)
    BY <2>6 DEF ShutdownDisable, DisableFrames
  <2>7. CASE ShutdownClose(t)
    BY <2>7 DEF ShutdownClose, ConfirmAndClose, CloseUnconfirmed,
      DisableFrames
  <2>8. CASE ShutdownUnconnect(t)
    BY <2>8 DEF ShutdownUnconnect
  <2>9. CASE ShutdownFinish(t)
    BY <2>9 DEF ShutdownFinish, FinishActive
  <2>10. CASE ShutdownHealth(t)
    BY <2>10 DEF ShutdownHealth
  <2>11. CASE FaultDisarm(t)
    BY <2>11 DEF FaultDisarm
  <2>12. CASE FaultDisable(t)
    BY <2>12 DEF FaultDisable, DisableFrames
  <2>13. CASE FaultClose(t)
    BY <2>13 DEF FaultClose, ConfirmAndClose, DisableFrames
  <2>14. CASE FaultUnconnect(t)
    BY <2>14 DEF FaultUnconnect
  <2>15. CASE TerminalCallback(t)
    BY <2>15 DEF TerminalCallback
  <2>16. CASE TerminalDone(t)
    BY <2>16 DEF TerminalDone, HealthAfterTerminal
  <2>17. CASE TerminalFault(t)
    BY <2>17 DEF TerminalFault
  <2> QED BY <1>1, <2>1, <2>2, <2>3, <2>4, <2>5, <2>6, <2>7, <2>8, <2>9,
    <2>10, <2>11, <2>12, <2>13, <2>14, <2>15, <2>16, <2>17 DEF Shared
<1>2. CASE CallStarts
  <2>1. CASE ConnectCheck
    BY <2>1 DEF ConnectCheck
  <2>2. CASE StopMotion
    BY <2>2 DEF StopMotion
  <2>3. CASE ClearCheck
    BY <2>3 DEF ClearCheck
  <2>4. CASE CaptureIdle
    BY <2>4 DEF CaptureIdle
  <2>5. CASE CloseSession
    BY <2>5 DEF CloseSession
  <2>6. ASSUME NEW call \in {"disconnect", "estop"}, ShutdownCall(call)
        PROVE  HoldInv'
    BY <2>6 DEF ShutdownCall
  <2>7. ASSUME NEW c \in Cmds, Reserve(c)
        PROVE  HoldInv'
    BY <2>7 DEF Reserve
  <2>8. ASSUME NEW c \in Cmds, Cancel(c)
        PROVE  HoldInv'
    BY <2>8 DEF Cancel
  <2> QED BY <1>2, <2>1, <2>2, <2>3, <2>4, <2>5, <2>6, <2>7, <2>8 DEF
    CallStarts
<1>3. CASE ExecStep
  <2>1. CASE ConnectLock
    BY <2>1 DEF ConnectLock
  <2>2. CASE ConnectOpen
    BY <2>2 DEF ConnectOpen
  <2>3. CASE ConnectOpenFails
    BY <2>3 DEF ConnectOpenFails, CloseUnconfirmed
  <2>4. CASE ConnectSample
    BY <2>4 DEF ConnectSample, Replies, ExchangeComplete, FramesSent
  <2>5. CASE ConnectConfigure
    BY <2>5 DEF ConnectConfigure
  <2>6. CASE ConnectSeed
    BY <2>6 DEF ConnectSeed, FramesSent
  <2>7. CASE ConnectEnable
    BY <2>7 DEF ConnectEnable
  <2>8. CASE ConnectArm
    BY <2>8 DEF ConnectArm
  <2>9. CASE ConnectRampCheck
    BY <2>9 DEF ConnectRampCheck
  <2>10. CASE ConnectRamp
    BY <2>10 DEF ConnectRamp, Replies, ExchangeComplete, RampGoesOn,
      FramesSent
  <2>11. CASE ConnectDone
    BY <2>11 DEF ConnectDone
  <2>12. CASE ConnectFail
    BY <2>12 DEF ConnectFail, DisableFrames
  <2>13. CASE ConnectFailClose
    BY <2>13 DEF ConnectFailClose, ConfirmAndClose, DisableFrames
  <2>14. CASE ClearLatch
    BY <2>14 DEF ClearLatch
  <2>15. CASE ClearEstop
    BY <2>15 DEF ClearEstop
  <2>16. CASE ClearCancel
    BY <2>16 DEF ClearCancel
  <2>17. CASE ClearHealth
    BY <2>17 DEF ClearHealth
  <2>18. CASE CaptureConnected
    BY <2>18 DEF CaptureConnected
  <2>19. CASE CaptureSample
    BY <2>19 DEF CaptureSample
  <2>20. CASE CapturePublish
    BY <2>20 DEF CapturePublish
  <2>21. CASE Submit
    BY <2>21 DEF Submit
  <2>22. CASE Release
    BY <2>22 DEF Release
  <2>23. CASE CloseDisarm
    BY <2>23 DEF CloseDisarm
  <2>24. CASE CloseDisable
    BY <2>24 DEF CloseDisable, DisableFrames
  <2>25. CASE CloseJoin
    BY <2>25 DEF CloseJoin
  <2>26. CASE CloseClose
    BY <2>26 DEF CloseClose, ConfirmAndClose, DisableFrames
  <2> QED BY <1>3, <2>1, <2>2, <2>3, <2>4, <2>5, <2>6, <2>7, <2>8, <2>9,
    <2>10, <2>11, <2>12, <2>13, <2>14, <2>15, <2>16, <2>17, <2>18, <2>19,
    <2>20, <2>21, <2>22, <2>23, <2>24, <2>25, <2>26, <1>1 DEF ExecStep,
    Threads
<1>4. CASE WorkerStep
  <2>1. CASE FaultFinish
    BY <2>1 DEF FaultFinish, FinishActive
  <2>2. CASE FaultHealth
    BY <2>2 DEF FaultHealth
  <2>3. CASE WorkerTop
    BY <2>3 DEF WorkerTop
  <2>4. CASE WorkerArmed
    BY <2>4 DEF WorkerArmed
  <2>5. CASE WorkerEstop
    BY <2>5 DEF WorkerEstop
  <2>6. CASE ProcessPendingTake
    BY <2>6 DEF ProcessPendingTake, AfterPending
  <2>7. CASE ProcessPendingPlan
    BY <2>7 DEF ProcessPendingPlan, PlanFound, AfterPending
  <2>8. CASE ProcessPendingInstall
    BY <2>8 DEF ProcessPendingInstall, AfterPending
  <2>9. CASE UpdateReference
    BY <2>9 DEF UpdateReference
  <2>10. CASE WorkerLock
    BY <2>10 DEF WorkerLock
  <2>11. CASE WorkerExchange
    BY <2>11 DEF WorkerExchange, Replies, ExchangeComplete, FramesSent
  <2>12. CASE WorkerCheck
    BY <2>12 DEF WorkerCheck
  <2>13. CASE WorkerFeedback
    BY <2>13 DEF WorkerFeedback
  <2>14. CASE MonitorIdle
    BY <2>14 DEF MonitorIdle
  <2>15. CASE MonitorCancel
    BY <2>15 DEF MonitorCancel, Terminate
  <2>16. CASE MonitorFault
    BY <2>16 DEF MonitorFault, Terminate
  <2>17. CASE MonitorIntervene
    BY <2>17 DEF MonitorIntervene, Terminate
  <2>18. CASE MonitorGrasp
    BY <2>18 DEF MonitorGrasp, Terminate
  <2>19. CASE MonitorTimeout
    BY <2>19 DEF MonitorTimeout, Terminate
  <2>20. CASE MonitorComplete
    BY <2>20 DEF MonitorComplete, Terminate
  <2>21. CASE MonitorNextLeg
    BY <2>21 DEF MonitorNextLeg
  <2>22. CASE MonitorContinue
    BY <2>22 DEF MonitorContinue
  <2>23. CASE WorkerExit
    BY <2>23 DEF WorkerExit
  <2>24. CASE WorkerDisable
    BY <2>24 DEF WorkerDisable, DisableFrames
  <2> QED BY <1>4, <2>1, <2>2, <2>3, <2>4, <2>5, <2>6, <2>7, <2>8, <2>9,
    <2>10, <2>11, <2>12, <2>13, <2>14, <2>15, <2>16, <2>17, <2>18, <2>19,
    <2>20, <2>21, <2>22, <2>23, <2>24, <1>1 DEF WorkerStep, Threads
<1>5. ASSUME NEW m \in Motors, DriveTimeout(m)
      PROVE  HoldInv'
  BY <1>5 DEF DriveTimeout
<1>6. CASE UNCHANGED vars
  BY <1>6 DEF vars
<1> QED BY <1>1, <1>2, <1>3, <1>4, <1>5, <1>6 DEF Next, Terminated

\* The reference invariant holds in every behaviour.
LEMMA HoldHolds == Spec => []HoldInv
<1>1. Init => HoldInv
  BY DEF Init, HoldInv, HoldIsFixed, LateEndHolds, SeedOverwritten,
    ClearDisarmed, Threads
<1>2. TypeOK /\ SafetyInv /\ HoldInv /\ [Next]_vars => HoldInv'
  BY HoldStep, ConstantsAssumption
<1> QED BY <1>1, <1>2, TypeCorrect, SafetyHolds, PTL DEF Spec

\* An armed session without a motion holds a fixed pose, never what is left of a
\* plan: finish_active() leaves target_raw_ alone, and only a session that is
\* disarmed, or that Connect has seeded again, can be in its hands.
THEOREM IdleHoldIsFixed == Spec => []HoldIsFixed
<1>1. HoldInv => HoldIsFixed
  BY DEF HoldInv
<1> QED BY <1>1, HoldHolds, PTL

-----------------------------------------------------------------------------
(* RealSession implements GoalContract: the executor and the worker, which *)
(* both take commands out of the session and answer them, serve one command *)
(* at a time and answer it at most once.                                    *)

\* A thread carries a command it has moved out of the session but not answered.
Carrying(t) ==
    \/ pc[t] \in {"t_call", "w_plan", "w_install"}
    \/ /\ pc[t] \in {"x_disarm", "x_disable", "x_close", "x_unconn"}
       /\ fret[t] = "t_call"

\* Where an accepted command can be: in the session or with one of the threads.
Placed(c) ==
    \/ pending = c \/ active = c
    \/ \E t \in Threads : Carrying(t) /\ cmd[t] = c

\* The session never loses an unanswered command and never keeps another one.
PlacedIsUnanswered ==
    \A c \in Cmds : Placed(c) <=> c \in accepted /\ done[c] = 0

\* A command is in one place at a time.
OnePlace ==
    /\ pending # None => active = None
    /\ pending # None \/ active # None => \A t \in Threads : ~Carrying(t)
    /\ ~(Carrying("exec") /\ Carrying("worker"))

\* The command that is under way belongs to the goal that owns the session.
PlacedIsOwner == \A c \in Cmds : Placed(c) => owner = c

\* No answer comes twice, or to a command that was not accepted.
AnsweredOnce ==
    \A c \in Cmds : done[c] \in {0, 1} /\ (done[c] = 1 => c \in accepted)

\* The threads' local commands are what their program counters say.
LocalCommand ==
    /\ \A t \in Threads : Carrying(t) => cmd[t] \in Cmds
    /\ \A t \in Threads :
         pc[t] = "t_done" => cmd[t] \in Cmds /\ done[cmd[t]] = 1
    /\ pc["exec"] \in {"submit", "release"} => cmd["exec"] \notin accepted

\* The inductive invariant behind the refinement of GoalContract.
ContractInv ==
    /\ PlacedIsUnanswered /\ OnePlace /\ PlacedIsOwner
    /\ AnsweredOnce /\ LocalCommand

\* Every step keeps the parts of ContractInv: the two threads hand a command on
\* without losing or doubling it.
LEMMA ContractStep ==
    ASSUME ConstantsAssumption, TypeOK, ContractInv, [Next]_vars
    PROVE  ContractInv'
<1> USE ConstantsAssumption DEF TypeOK, ThreadsOK, DataOK, Threads,
  ExecLabels, WorkerLabels, ConnectLabels, ShutLabels, FaultLabels,
  TerminalLabels, ContractInv, Carrying, Placed, PlacedIsUnanswered,
  OnePlace, PlacedIsOwner, AnsweredOnce, LocalCommand, Goto, EstopSeen,
  locks, flags, motion, drives, locals, history
<1>1. ASSUME NEW t \in Threads, Shared(t)
      PROVE  ContractInv'
  <2>1. CASE ShutdownHadSockets(t)
    BY <2>1 DEF ShutdownHadSockets
  <2>2. CASE ShutdownLatch(t)
    BY <2>2 DEF ShutdownLatch
  <2>3. CASE ShutdownAssert(t)
    BY <2>3 DEF ShutdownAssert
  <2>4. CASE ShutdownCancel(t)
    BY <2>4 DEF ShutdownCancel
  <2>5. CASE ShutdownDisarm(t)
    BY <2>5 DEF ShutdownDisarm
  <2>6. CASE ShutdownDisable(t)
    BY <2>6 DEF ShutdownDisable, DisableFrames
  <2>7. CASE ShutdownClose(t)
    BY <2>7 DEF ShutdownClose, ConfirmAndClose, CloseUnconfirmed,
      DisableFrames
  <2>8. CASE ShutdownUnconnect(t)
    BY <2>8 DEF ShutdownUnconnect
  <2>9. CASE ShutdownFinish(t)
    BY <2>9 DEF ShutdownFinish, FinishActive
  <2>10. CASE ShutdownHealth(t)
    BY <2>10 DEF ShutdownHealth
  <2>11. CASE FaultDisarm(t)
    BY <2>11 DEF FaultDisarm
  <2>12. CASE FaultDisable(t)
    BY <2>12 DEF FaultDisable, DisableFrames
  <2>13. CASE FaultClose(t)
    BY <2>13 DEF FaultClose, ConfirmAndClose, DisableFrames
  <2>14. CASE FaultUnconnect(t)
    BY <2>14 DEF FaultUnconnect
  <2>15. CASE TerminalCallback(t)
    BY <2>15 DEF TerminalCallback
  <2>16. CASE TerminalDone(t)
    BY <2>16 DEF TerminalDone, HealthAfterTerminal
  <2>17. CASE TerminalFault(t)
    BY <2>17 DEF TerminalFault
  <2> QED BY <1>1, <2>1, <2>2, <2>3, <2>4, <2>5, <2>6, <2>7, <2>8, <2>9,
    <2>10, <2>11, <2>12, <2>13, <2>14, <2>15, <2>16, <2>17 DEF Shared
<1>2. CASE CallStarts
  <2>1. CASE ConnectCheck
    BY <2>1 DEF ConnectCheck
  <2>2. CASE StopMotion
    BY <2>2 DEF StopMotion
  <2>3. CASE ClearCheck
    BY <2>3 DEF ClearCheck
  <2>4. CASE CaptureIdle
    BY <2>4 DEF CaptureIdle
  <2>5. CASE CloseSession
    BY <2>5 DEF CloseSession
  <2>6. ASSUME NEW call \in {"disconnect", "estop"}, ShutdownCall(call)
        PROVE  ContractInv'
    BY <2>6 DEF ShutdownCall
  <2>7. ASSUME NEW c \in Cmds, Reserve(c)
        PROVE  ContractInv'
    BY <2>7 DEF Reserve
  <2>8. ASSUME NEW c \in Cmds, Cancel(c)
        PROVE  ContractInv'
    BY <2>8 DEF Cancel
  <2> QED BY <1>2, <2>1, <2>2, <2>3, <2>4, <2>5, <2>6, <2>7, <2>8 DEF
    CallStarts
<1>3. CASE ExecStep
  <2>1. CASE ConnectLock
    BY <2>1 DEF ConnectLock
  <2>2. CASE ConnectOpen
    BY <2>2 DEF ConnectOpen
  <2>3. CASE ConnectOpenFails
    BY <2>3 DEF ConnectOpenFails, CloseUnconfirmed
  <2>4. CASE ConnectSample
    BY <2>4 DEF ConnectSample, Replies, ExchangeComplete, FramesSent
  <2>5. CASE ConnectConfigure
    BY <2>5 DEF ConnectConfigure
  <2>6. CASE ConnectSeed
    BY <2>6 DEF ConnectSeed, FramesSent
  <2>7. CASE ConnectEnable
    BY <2>7 DEF ConnectEnable
  <2>8. CASE ConnectArm
    BY <2>8 DEF ConnectArm
  <2>9. CASE ConnectRampCheck
    BY <2>9 DEF ConnectRampCheck
  <2>10. CASE ConnectRamp
    BY <2>10 DEF ConnectRamp, Replies, ExchangeComplete, RampGoesOn,
      FramesSent
  <2>11. CASE ConnectDone
    BY <2>11 DEF ConnectDone
  <2>12. CASE ConnectFail
    BY <2>12 DEF ConnectFail, DisableFrames
  <2>13. CASE ConnectFailClose
    BY <2>13 DEF ConnectFailClose, ConfirmAndClose, DisableFrames
  <2>14. CASE ClearLatch
    BY <2>14 DEF ClearLatch
  <2>15. CASE ClearEstop
    BY <2>15 DEF ClearEstop
  <2>16. CASE ClearCancel
    BY <2>16 DEF ClearCancel
  <2>17. CASE ClearHealth
    BY <2>17 DEF ClearHealth
  <2>18. CASE CaptureConnected
    BY <2>18 DEF CaptureConnected
  <2>19. CASE CaptureSample
    BY <2>19 DEF CaptureSample
  <2>20. CASE CapturePublish
    BY <2>20 DEF CapturePublish
  <2>21. CASE Submit
    BY <2>21 DEF Submit
  <2>22. CASE Release
    BY <2>22 DEF Release
  <2>23. CASE CloseDisarm
    BY <2>23 DEF CloseDisarm
  <2>24. CASE CloseDisable
    BY <2>24 DEF CloseDisable, DisableFrames
  <2>25. CASE CloseJoin
    BY <2>25 DEF CloseJoin
  <2>26. CASE CloseClose
    BY <2>26 DEF CloseClose, ConfirmAndClose, DisableFrames
  <2> QED BY <1>3, <2>1, <2>2, <2>3, <2>4, <2>5, <2>6, <2>7, <2>8, <2>9,
    <2>10, <2>11, <2>12, <2>13, <2>14, <2>15, <2>16, <2>17, <2>18, <2>19,
    <2>20, <2>21, <2>22, <2>23, <2>24, <2>25, <2>26, <1>1 DEF ExecStep,
    Threads
<1>4. CASE WorkerStep
  <2>1. CASE FaultFinish
    BY <2>1 DEF FaultFinish, FinishActive
  <2>2. CASE FaultHealth
    BY <2>2 DEF FaultHealth
  <2>3. CASE WorkerTop
    BY <2>3 DEF WorkerTop
  <2>4. CASE WorkerArmed
    BY <2>4 DEF WorkerArmed
  <2>5. CASE WorkerEstop
    BY <2>5 DEF WorkerEstop
  <2>6. CASE ProcessPendingTake
    BY <2>6 DEF ProcessPendingTake, AfterPending
  <2>7. CASE ProcessPendingPlan
    BY <2>7 DEF ProcessPendingPlan, PlanFound, AfterPending
  <2>8. CASE ProcessPendingInstall
    BY <2>8 DEF ProcessPendingInstall, AfterPending
  <2>9. CASE UpdateReference
    BY <2>9 DEF UpdateReference
  <2>10. CASE WorkerLock
    BY <2>10 DEF WorkerLock
  <2>11. CASE WorkerExchange
    BY <2>11 DEF WorkerExchange, Replies, ExchangeComplete, FramesSent
  <2>12. CASE WorkerCheck
    BY <2>12 DEF WorkerCheck
  <2>13. CASE WorkerFeedback
    BY <2>13 DEF WorkerFeedback
  <2>14. CASE MonitorIdle
    BY <2>14 DEF MonitorIdle
  <2>15. CASE MonitorCancel
    BY <2>15 DEF MonitorCancel, Terminate
  <2>16. CASE MonitorFault
    BY <2>16 DEF MonitorFault, Terminate
  <2>17. CASE MonitorIntervene
    BY <2>17 DEF MonitorIntervene, Terminate
  <2>18. CASE MonitorGrasp
    BY <2>18 DEF MonitorGrasp, Terminate
  <2>19. CASE MonitorTimeout
    BY <2>19 DEF MonitorTimeout, Terminate
  <2>20. CASE MonitorComplete
    BY <2>20 DEF MonitorComplete, Terminate
  <2>21. CASE MonitorNextLeg
    BY <2>21 DEF MonitorNextLeg
  <2>22. CASE MonitorContinue
    BY <2>22 DEF MonitorContinue
  <2>23. CASE WorkerExit
    BY <2>23 DEF WorkerExit
  <2>24. CASE WorkerDisable
    BY <2>24 DEF WorkerDisable, DisableFrames
  <2> QED BY <1>4, <2>1, <2>2, <2>3, <2>4, <2>5, <2>6, <2>7, <2>8, <2>9,
    <2>10, <2>11, <2>12, <2>13, <2>14, <2>15, <2>16, <2>17, <2>18, <2>19,
    <2>20, <2>21, <2>22, <2>23, <2>24, <1>1 DEF WorkerStep, Threads
<1>5. ASSUME NEW m \in Motors, DriveTimeout(m)
      PROVE  ContractInv'
  BY <1>5 DEF DriveTimeout
<1>6. CASE UNCHANGED vars
  BY <1>6 DEF vars
<1> QED BY <1>1, <1>2, <1>3, <1>4, <1>5, <1>6 DEF Next, Terminated

\* ContractInv holds in every reachable state.
LEMMA ContractInvHolds == Spec => []ContractInv
<1>1. Init => ContractInv
  BY ConstantsAssumption DEF Init, ContractInv, PlacedIsUnanswered, OnePlace,
    PlacedIsOwner, AnsweredOnce, LocalCommand, Placed, Carrying, Threads
<1>2. TypeOK /\ ContractInv /\ [Next]_vars => ContractInv'
  BY ContractStep, ConstantsAssumption
<1> QED BY <1>1, <1>2, TypeCorrect, PTL DEF Spec

-----------------------------------------------------------------------------
\* Every step of the session is a step of the contract or leaves what it speaks
\* about alone: submit() accepts, the terminal callback answers.
LEMMA RefinementStep ==
    ASSUME ConstantsAssumption, TypeOK, ContractInv, [Next]_vars
    PROVE  Contract!Next \/ UNCHANGED <<accepted, done>>
<1> USE ConstantsAssumption DEF TypeOK, ThreadsOK, DataOK, Threads,
  ContractInv, Carrying, Placed, PlacedIsUnanswered, OnePlace, PlacedIsOwner,
  AnsweredOnce, LocalCommand, Goto, EstopSeen, locks, flags, motion, drives,
  locals, history
<1>1. ASSUME NEW t \in Threads, Shared(t)
      PROVE  Contract!Next \/ UNCHANGED <<accepted, done>>
  <2>1. CASE ShutdownHadSockets(t)
    BY <2>1 DEF ShutdownHadSockets
  <2>2. CASE ShutdownLatch(t)
    BY <2>2 DEF ShutdownLatch
  <2>3. CASE ShutdownAssert(t)
    BY <2>3 DEF ShutdownAssert
  <2>4. CASE ShutdownCancel(t)
    BY <2>4 DEF ShutdownCancel
  <2>5. CASE ShutdownDisarm(t)
    BY <2>5 DEF ShutdownDisarm
  <2>6. CASE ShutdownDisable(t)
    BY <2>6 DEF ShutdownDisable, DisableFrames
  <2>7. CASE ShutdownClose(t)
    BY <2>7 DEF ShutdownClose, ConfirmAndClose, CloseUnconfirmed,
      DisableFrames
  <2>8. CASE ShutdownUnconnect(t)
    BY <2>8 DEF ShutdownUnconnect
  <2>9. CASE ShutdownFinish(t)
    BY <2>9 DEF ShutdownFinish, FinishActive
  <2>10. CASE ShutdownHealth(t)
    BY <2>10 DEF ShutdownHealth
  <2>11. CASE FaultDisarm(t)
    BY <2>11 DEF FaultDisarm
  <2>12. CASE FaultDisable(t)
    BY <2>12 DEF FaultDisable, DisableFrames
  <2>13. CASE FaultClose(t)
    BY <2>13 DEF FaultClose, ConfirmAndClose, DisableFrames
  <2>14. CASE FaultUnconnect(t)
    BY <2>14 DEF FaultUnconnect
  <2>15. CASE TerminalCallback(t)
    <3>1. cmd[t] \in Cmds /\ Placed(cmd[t])
      BY <2>15 DEF TerminalCallback
    <3>2. cmd[t] \in accepted /\ done[cmd[t]] = 0
      BY <3>1
    <3>3. Contract!Answer(cmd[t])
      BY <2>15, <3>1, <3>2 DEF TerminalCallback, Contract!Answer
    <3> QED BY <3>1, <3>3 DEF Contract!Next
  <2>16. CASE TerminalDone(t)
    BY <2>16 DEF TerminalDone, HealthAfterTerminal
  <2>17. CASE TerminalFault(t)
    BY <2>17 DEF TerminalFault
  <2> QED BY <1>1, <2>1, <2>2, <2>3, <2>4, <2>5, <2>6, <2>7, <2>8, <2>9,
    <2>10, <2>11, <2>12, <2>13, <2>14, <2>15, <2>16, <2>17 DEF Shared
<1>2. CASE CallStarts
  <2>1. CASE ConnectCheck
    BY <2>1 DEF ConnectCheck
  <2>2. CASE StopMotion
    BY <2>2 DEF StopMotion
  <2>3. CASE ClearCheck
    BY <2>3 DEF ClearCheck
  <2>4. CASE CaptureIdle
    BY <2>4 DEF CaptureIdle
  <2>5. CASE CloseSession
    BY <2>5 DEF CloseSession
  <2>6. ASSUME NEW call \in {"disconnect", "estop"}, ShutdownCall(call)
        PROVE  Contract!Next \/ UNCHANGED <<accepted, done>>
    BY <2>6 DEF ShutdownCall
  <2>7. ASSUME NEW c \in Cmds, Reserve(c)
        PROVE  Contract!Next \/ UNCHANGED <<accepted, done>>
    BY <2>7 DEF Reserve
  <2>8. ASSUME NEW c \in Cmds, Cancel(c)
        PROVE  Contract!Next \/ UNCHANGED <<accepted, done>>
    BY <2>8 DEF Cancel
  <2> QED BY <1>2, <2>1, <2>2, <2>3, <2>4, <2>5, <2>6, <2>7, <2>8 DEF
    CallStarts
<1>3. CASE ExecStep
  <2>1. CASE ConnectLock
    BY <2>1 DEF ConnectLock
  <2>2. CASE ConnectOpen
    BY <2>2 DEF ConnectOpen
  <2>3. CASE ConnectOpenFails
    BY <2>3 DEF ConnectOpenFails, CloseUnconfirmed
  <2>4. CASE ConnectSample
    BY <2>4 DEF ConnectSample, Replies, ExchangeComplete, FramesSent
  <2>5. CASE ConnectConfigure
    BY <2>5 DEF ConnectConfigure
  <2>6. CASE ConnectSeed
    BY <2>6 DEF ConnectSeed, FramesSent
  <2>7. CASE ConnectEnable
    BY <2>7 DEF ConnectEnable
  <2>8. CASE ConnectArm
    BY <2>8 DEF ConnectArm
  <2>9. CASE ConnectRampCheck
    BY <2>9 DEF ConnectRampCheck
  <2>10. CASE ConnectRamp
    BY <2>10 DEF ConnectRamp, Replies, ExchangeComplete, RampGoesOn,
      FramesSent
  <2>11. CASE ConnectDone
    BY <2>11 DEF ConnectDone
  <2>12. CASE ConnectFail
    BY <2>12 DEF ConnectFail, DisableFrames
  <2>13. CASE ConnectFailClose
    BY <2>13 DEF ConnectFailClose, ConfirmAndClose, DisableFrames
  <2>14. CASE ClearLatch
    BY <2>14 DEF ClearLatch
  <2>15. CASE ClearEstop
    BY <2>15 DEF ClearEstop
  <2>16. CASE ClearCancel
    BY <2>16 DEF ClearCancel
  <2>17. CASE ClearHealth
    BY <2>17 DEF ClearHealth
  <2>18. CASE CaptureConnected
    BY <2>18 DEF CaptureConnected
  <2>19. CASE CaptureSample
    BY <2>19 DEF CaptureSample
  <2>20. CASE CapturePublish
    BY <2>20 DEF CapturePublish
  <2>21. CASE Submit
    <3>1. CASE accepted' = accepted
      BY <2>21, <3>1 DEF Submit
    <3>2. CASE accepted' # accepted
      <4>1. /\ owner = cmd["exec"] /\ cmd["exec"] \in Cmds \ accepted
            /\ accepted' = accepted \cup {cmd["exec"]}
            /\ UNCHANGED done
        BY <2>21, <3>2 DEF Submit
      <4>2. \A d \in accepted : done[d] = 1
        BY <4>1
      <4>3. Contract!Accept(cmd["exec"])
        BY <4>1, <4>2 DEF Contract!Accept
      <4> QED BY <4>1, <4>3 DEF Contract!Next
    <3> QED BY <3>1, <3>2
  <2>22. CASE Release
    BY <2>22 DEF Release
  <2>23. CASE CloseDisarm
    BY <2>23 DEF CloseDisarm
  <2>24. CASE CloseDisable
    BY <2>24 DEF CloseDisable, DisableFrames
  <2>25. CASE CloseJoin
    BY <2>25 DEF CloseJoin
  <2>26. CASE CloseClose
    BY <2>26 DEF CloseClose, ConfirmAndClose, DisableFrames
  <2> QED BY <1>3, <2>1, <2>2, <2>3, <2>4, <2>5, <2>6, <2>7, <2>8, <2>9,
    <2>10, <2>11, <2>12, <2>13, <2>14, <2>15, <2>16, <2>17, <2>18, <2>19,
    <2>20, <2>21, <2>22, <2>23, <2>24, <2>25, <2>26, <1>1 DEF ExecStep,
    Threads
<1>4. CASE WorkerStep
  <2>1. CASE FaultFinish
    BY <2>1 DEF FaultFinish, FinishActive
  <2>2. CASE FaultHealth
    BY <2>2 DEF FaultHealth
  <2>3. CASE WorkerTop
    BY <2>3 DEF WorkerTop
  <2>4. CASE WorkerArmed
    BY <2>4 DEF WorkerArmed
  <2>5. CASE WorkerEstop
    BY <2>5 DEF WorkerEstop
  <2>6. CASE ProcessPendingTake
    BY <2>6 DEF ProcessPendingTake, AfterPending
  <2>7. CASE ProcessPendingPlan
    BY <2>7 DEF ProcessPendingPlan, PlanFound, AfterPending
  <2>8. CASE ProcessPendingInstall
    BY <2>8 DEF ProcessPendingInstall, AfterPending
  <2>9. CASE UpdateReference
    BY <2>9 DEF UpdateReference
  <2>10. CASE WorkerLock
    BY <2>10 DEF WorkerLock
  <2>11. CASE WorkerExchange
    BY <2>11 DEF WorkerExchange, Replies, ExchangeComplete, FramesSent
  <2>12. CASE WorkerCheck
    BY <2>12 DEF WorkerCheck
  <2>13. CASE WorkerFeedback
    BY <2>13 DEF WorkerFeedback
  <2>14. CASE MonitorIdle
    BY <2>14 DEF MonitorIdle
  <2>15. CASE MonitorCancel
    BY <2>15 DEF MonitorCancel, Terminate
  <2>16. CASE MonitorFault
    BY <2>16 DEF MonitorFault, Terminate
  <2>17. CASE MonitorIntervene
    BY <2>17 DEF MonitorIntervene, Terminate
  <2>18. CASE MonitorGrasp
    BY <2>18 DEF MonitorGrasp, Terminate
  <2>19. CASE MonitorTimeout
    BY <2>19 DEF MonitorTimeout, Terminate
  <2>20. CASE MonitorComplete
    BY <2>20 DEF MonitorComplete, Terminate
  <2>21. CASE MonitorNextLeg
    BY <2>21 DEF MonitorNextLeg
  <2>22. CASE MonitorContinue
    BY <2>22 DEF MonitorContinue
  <2>23. CASE WorkerExit
    BY <2>23 DEF WorkerExit
  <2>24. CASE WorkerDisable
    BY <2>24 DEF WorkerDisable, DisableFrames
  <2> QED BY <1>4, <2>1, <2>2, <2>3, <2>4, <2>5, <2>6, <2>7, <2>8, <2>9,
    <2>10, <2>11, <2>12, <2>13, <2>14, <2>15, <2>16, <2>17, <2>18, <2>19,
    <2>20, <2>21, <2>22, <2>23, <2>24, <1>1 DEF WorkerStep, Threads
<1>5. ASSUME NEW m \in Motors, DriveTimeout(m)
      PROVE  Contract!Next \/ UNCHANGED <<accepted, done>>
  BY <1>5 DEF DriveTimeout
<1>6. CASE UNCHANGED vars
  BY <1>6 DEF vars
<1> QED BY <1>1, <1>2, <1>3, <1>4, <1>5, <1>6 DEF Next, Terminated

\* The session implements the contract its goals rely on.
THEOREM Refinement == Spec => ImplementsContract
<1>1. Init => Contract!Init
  BY DEF Init, Contract!Init
<1>2. TypeOK /\ ContractInv /\ [Next]_vars => [Contract!Next]_<<accepted, done>>
  BY RefinementStep, ConstantsAssumption
<1> QED BY <1>1, <1>2, TypeCorrect, ContractInvHolds, PTL
    DEF Spec, ImplementsContract, Contract!Spec

-----------------------------------------------------------------------------
(* A cancel under way: neither submit() nor clear_emergency_stop() can take *)
(* it back from an armed session, since both find no command there.         *)

\* No step of either thread lets a cancelled motion go on.
LEMMA CancelStep ==
    ASSUME ConstantsAssumption, TypeOK, SafetyInv, HoldInv, ContractInv, Next
    PROVE  CancelKept
<1> USE ConstantsAssumption DEF TypeOK, FlagsOK, ThreadsOK, DataOK, Threads,
  HoldInv, LateEndHolds, ClearDisarmed, HoldReference, Ending, SafetyInv,
  ShutdownDisarms, FaultLabels, TerminalLabels, ContractInv, OnePlace,
  Carrying, CancelKept, Goto, locks, flags, motion, drives, locals, history
<1>1. ASSUME NEW t \in Threads, Shared(t)
      PROVE  CancelKept
  <2>1. CASE ShutdownHadSockets(t)
    BY <2>1 DEF ShutdownHadSockets
  <2>2. CASE ShutdownLatch(t)
    BY <2>2 DEF ShutdownLatch
  <2>3. CASE ShutdownAssert(t)
    BY <2>3 DEF ShutdownAssert
  <2>4. CASE ShutdownCancel(t)
    BY <2>4 DEF ShutdownCancel
  <2>5. CASE ShutdownDisarm(t)
    BY <2>5 DEF ShutdownDisarm
  <2>6. CASE ShutdownDisable(t)
    BY <2>6 DEF ShutdownDisable, DisableFrames
  <2>7. CASE ShutdownClose(t)
    BY <2>7 DEF ShutdownClose, ConfirmAndClose, CloseUnconfirmed,
      DisableFrames
  <2>8. CASE ShutdownUnconnect(t)
    BY <2>8 DEF ShutdownUnconnect
  <2>9. CASE ShutdownFinish(t)
    BY <2>9 DEF ShutdownFinish, FinishActive
  <2>10. CASE ShutdownHealth(t)
    BY <2>10 DEF ShutdownHealth
  <2>11. CASE FaultDisarm(t)
    BY <2>11 DEF FaultDisarm
  <2>12. CASE FaultDisable(t)
    BY <2>12 DEF FaultDisable, DisableFrames
  <2>13. CASE FaultClose(t)
    BY <2>13 DEF FaultClose, ConfirmAndClose, DisableFrames
  <2>14. CASE FaultUnconnect(t)
    BY <2>14 DEF FaultUnconnect
  <2>15. CASE TerminalCallback(t)
    BY <2>15 DEF TerminalCallback
  <2>16. CASE TerminalDone(t)
    BY <2>16 DEF TerminalDone, HealthAfterTerminal
  <2>17. CASE TerminalFault(t)
    BY <2>17 DEF TerminalFault
  <2> QED BY <1>1, <2>1, <2>2, <2>3, <2>4, <2>5, <2>6, <2>7, <2>8, <2>9,
    <2>10, <2>11, <2>12, <2>13, <2>14, <2>15, <2>16, <2>17 DEF Shared
<1>2. CASE CallStarts
  <2>1. CASE ConnectCheck
    BY <2>1 DEF ConnectCheck
  <2>2. CASE StopMotion
    BY <2>2 DEF StopMotion
  <2>3. CASE ClearCheck
    BY <2>3 DEF ClearCheck
  <2>4. CASE CaptureIdle
    BY <2>4 DEF CaptureIdle
  <2>5. CASE CloseSession
    BY <2>5 DEF CloseSession
  <2>6. ASSUME NEW call \in {"disconnect", "estop"}, ShutdownCall(call)
        PROVE  CancelKept
    BY <2>6 DEF ShutdownCall
  <2>7. ASSUME NEW c \in Cmds, Reserve(c)
        PROVE  CancelKept
    BY <2>7 DEF Reserve
  <2>8. ASSUME NEW c \in Cmds, Cancel(c)
        PROVE  CancelKept
    BY <2>8 DEF Cancel
  <2> QED BY <1>2, <2>1, <2>2, <2>3, <2>4, <2>5, <2>6, <2>7, <2>8 DEF
    CallStarts
<1>3. CASE ExecStep
  <2>1. CASE ConnectLock
    BY <2>1 DEF ConnectLock
  <2>2. CASE ConnectOpen
    BY <2>2 DEF ConnectOpen
  <2>3. CASE ConnectOpenFails
    BY <2>3 DEF ConnectOpenFails, CloseUnconfirmed
  <2>4. CASE ConnectSample
    BY <2>4 DEF ConnectSample, Replies, ExchangeComplete, FramesSent
  <2>5. CASE ConnectConfigure
    BY <2>5 DEF ConnectConfigure
  <2>6. CASE ConnectSeed
    BY <2>6 DEF ConnectSeed, FramesSent
  <2>7. CASE ConnectEnable
    BY <2>7 DEF ConnectEnable
  <2>8. CASE ConnectArm
    BY <2>8 DEF ConnectArm
  <2>9. CASE ConnectRampCheck
    BY <2>9 DEF ConnectRampCheck
  <2>10. CASE ConnectRamp
    BY <2>10 DEF ConnectRamp, Replies, ExchangeComplete, RampGoesOn,
      FramesSent
  <2>11. CASE ConnectDone
    BY <2>11 DEF ConnectDone
  <2>12. CASE ConnectFail
    BY <2>12 DEF ConnectFail, DisableFrames
  <2>13. CASE ConnectFailClose
    BY <2>13 DEF ConnectFailClose, ConfirmAndClose, DisableFrames
  <2>14. CASE ClearLatch
    BY <2>14 DEF ClearLatch
  <2>15. CASE ClearEstop
    BY <2>15 DEF ClearEstop
  <2>16. CASE ClearCancel
    BY <2>16 DEF ClearCancel
  <2>17. CASE ClearHealth
    BY <2>17 DEF ClearHealth
  <2>18. CASE CaptureConnected
    BY <2>18 DEF CaptureConnected
  <2>19. CASE CaptureSample
    BY <2>19 DEF CaptureSample
  <2>20. CASE CapturePublish
    BY <2>20 DEF CapturePublish
  <2>21. CASE Submit
    BY <2>21 DEF Submit
  <2>22. CASE Release
    BY <2>22 DEF Release
  <2>23. CASE CloseDisarm
    BY <2>23 DEF CloseDisarm
  <2>24. CASE CloseDisable
    BY <2>24 DEF CloseDisable, DisableFrames
  <2>25. CASE CloseJoin
    BY <2>25 DEF CloseJoin
  <2>26. CASE CloseClose
    BY <2>26 DEF CloseClose, ConfirmAndClose, DisableFrames
  <2> QED BY <1>3, <2>1, <2>2, <2>3, <2>4, <2>5, <2>6, <2>7, <2>8, <2>9,
    <2>10, <2>11, <2>12, <2>13, <2>14, <2>15, <2>16, <2>17, <2>18, <2>19,
    <2>20, <2>21, <2>22, <2>23, <2>24, <2>25, <2>26, <1>1 DEF ExecStep,
    Threads
<1>4. CASE WorkerStep
  <2>1. CASE FaultFinish
    BY <2>1 DEF FaultFinish, FinishActive
  <2>2. CASE FaultHealth
    BY <2>2 DEF FaultHealth
  <2>3. CASE WorkerTop
    BY <2>3 DEF WorkerTop
  <2>4. CASE WorkerArmed
    BY <2>4 DEF WorkerArmed
  <2>5. CASE WorkerEstop
    BY <2>5 DEF WorkerEstop
  <2>6. CASE ProcessPendingTake
    BY <2>6 DEF ProcessPendingTake, AfterPending
  <2>7. CASE ProcessPendingPlan
    BY <2>7 DEF ProcessPendingPlan, PlanFound, AfterPending
  <2>8. CASE ProcessPendingInstall
    BY <2>8 DEF ProcessPendingInstall, AfterPending
  <2>9. CASE UpdateReference
    BY <2>9 DEF UpdateReference
  <2>10. CASE WorkerLock
    BY <2>10 DEF WorkerLock
  <2>11. CASE WorkerExchange
    BY <2>11 DEF WorkerExchange, Replies, ExchangeComplete, FramesSent
  <2>12. CASE WorkerCheck
    BY <2>12 DEF WorkerCheck
  <2>13. CASE WorkerFeedback
    BY <2>13 DEF WorkerFeedback
  <2>14. CASE MonitorIdle
    BY <2>14 DEF MonitorIdle
  <2>15. CASE MonitorCancel
    BY <2>15 DEF MonitorCancel, Terminate
  <2>16. CASE MonitorFault
    BY <2>16 DEF MonitorFault, Terminate
  <2>17. CASE MonitorIntervene
    BY <2>17 DEF MonitorIntervene, Terminate
  <2>18. CASE MonitorGrasp
    BY <2>18 DEF MonitorGrasp, Terminate
  <2>19. CASE MonitorTimeout
    BY <2>19 DEF MonitorTimeout, Terminate
  <2>20. CASE MonitorComplete
    BY <2>20 DEF MonitorComplete, Terminate
  <2>21. CASE MonitorNextLeg
    BY <2>21 DEF MonitorNextLeg
  <2>22. CASE MonitorContinue
    BY <2>22 DEF MonitorContinue
  <2>23. CASE WorkerExit
    BY <2>23 DEF WorkerExit
  <2>24. CASE WorkerDisable
    BY <2>24 DEF WorkerDisable, DisableFrames
  <2> QED BY <1>4, <2>1, <2>2, <2>3, <2>4, <2>5, <2>6, <2>7, <2>8, <2>9,
    <2>10, <2>11, <2>12, <2>13, <2>14, <2>15, <2>16, <2>17, <2>18, <2>19,
    <2>20, <2>21, <2>22, <2>23, <2>24, <1>1 DEF WorkerStep, Threads
<1>5. ASSUME NEW m \in Motors, DriveTimeout(m)
      PROVE  CancelKept
  BY <1>5 DEF DriveTimeout
<1>6. CASE Terminated
  BY <1>6 DEF Terminated, vars
<1> QED BY <1>1, <1>2, <1>3, <1>4, <1>5, <1>6 DEF Next

\* Once Stop, a cancelled goal or a refused feedback has set
\* cancel_requested_, the motion under way of an armed session ends without a
\* further waypoint and leaves a held pose: neither submit() nor
\* clear_emergency_stop() resets the flag before the worker has read it.
THEOREM CancelIsNotLost == Spec => CancelHolds
<1>1. TypeOK /\ SafetyInv /\ HoldInv /\ ContractInv /\ [Next]_vars
      => [CancelKept]_vars
  BY CancelStep, ConstantsAssumption
<1> QED BY <1>1, TypeCorrect, SafetyHolds, HoldHolds, ContractInvHolds, PTL
      DEF Spec, CancelHolds

=============================================================================
