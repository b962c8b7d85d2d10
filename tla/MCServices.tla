----------------------------- MODULE MCServices -----------------------------
(***************************************************************************)
(* The concurrent services around the controller, each checked on its own: *)
(* a behaviour belongs to one of them and the others stay as they were     *)
(* initialised.  Fairness is asked of the service the behaviour is about.  *)
(***************************************************************************)
EXTENDS VirtualSession, RuntimeFacade, Portal, NodeGoals, Transport

CONSTANT Parts  \* the services that are checked
VARIABLE part   \* the service this behaviour is about

servicesVars == <<sessionVars, runtimeVars, portalVars, nodeVars, transportVars>>

ServicesInit ==
    /\ SessionInit /\ RuntimeInit /\ PortalInit /\ NodeInit /\ TransportInit
    /\ part \in Parts

SessionPart ==
    /\ part = "session" /\ SessionNext
    /\ UNCHANGED <<part, runtimeVars, portalVars, nodeVars, transportVars>>

\* The runtime, with plans and with calibration sessions: the two meet in the lease.
RuntimePart ==
    /\ \/ /\ part \in {"plans", "leases"}
          /\ \/ RuntimeWorker
             \/ \E t \in Thread : CallGoesOn(t) \/ ArmCalls(t)
       \/ /\ part = "plans"
          /\ PlanExpires \/ \E t \in Thread : PlanCalls(t)
       \/ /\ part = "leases"
          /\ \E t \in Thread : CalibrationCalls(t)
    /\ UNCHANGED <<part, sessionVars, portalVars, nodeVars, transportVars>>

PortalPart ==
    /\ part = "portal" /\ PortalNext
    /\ UNCHANGED <<part, sessionVars, runtimeVars, nodeVars, transportVars>>

NodePart ==
    /\ part = "node" /\ NodeNext
    /\ UNCHANGED <<part, sessionVars, runtimeVars, portalVars, transportVars>>

TransportPart ==
    /\ part = "transport" /\ TransportNext
    /\ UNCHANGED <<part, sessionVars, runtimeVars, portalVars, nodeVars>>

ServicesNext == SessionPart \/ RuntimePart \/ PortalPart \/ NodePart \/ TransportPart

\* The session's worker and the runtime's thread keep running, and time passes: a
\* worker that is woken early again and again still reaches its next poll.
SessionFairness ==
    /\ WF_sessionVars(part = "session" /\ WorkerNext)
    /\ SF_sessionVars(part = "session" /\ poll_due)
    /\ WF_sessionVars(part = "session" /\ runtime_advance)
    /\ WF_sessionVars(part = "session" /\ drain_controller_events)

\* The runtime's worker and the calls in progress run on; time passes.
RuntimeFairness ==
    /\ WF_runtimeVars(part = "plans" /\ RuntimeWorker)
    /\ WF_runtimeVars(part = "plans" /\ PlanExpires)
    /\ \A t \in Thread : WF_runtimeVars(part = "plans" /\ CallGoesOn(t))

\* Every thread of the portal goes on, and the controller honours a cancel; a
\* motion nobody cancels may go on for as long as it likes.
PortalFairness ==
    /\ \A r \in Req : WF_portalVars(part = "portal" /\ HttpThread(r))
    /\ WF_portalVars(part = "portal" /\ Executor)
    /\ \A s \in Stoppers :
         WF_portalVars(part = "portal" /\ (cancel_begun(s) \/ async_cancel_goal(s)))
    /\ WF_portalVars(part = "portal" /\ controller_answers)
    /\ WF_portalVars(part = "portal" /\ controller_ends /\ goal.cancel)

\* The executor runs what is ready, the session's worker runs on its own thread and
\* a dropped handle is destroyed.  Clients need not call, and nothing forces a fault.
NodeFairness ==
    /\ \A g \in NodeGoal : /\ WF_nodeVars(part = "node" /\ AcceptCallbacks(g))
                           /\ WF_nodeVars(part = "node" /\ cancel_accepted(g))
                           /\ WF_nodeVars(part = "node" /\ handle_dropped(g))
    /\ WF_nodeVars(part = "node" /\ SessionWorker)
    /\ WF_nodeVars(part = "node" /\ worker_closes)

\* Threads run, and a mutex of the transport that is free again and again is got at
\* last; a receive returns for sure only at its deadline or when it is woken, a send
\* when it is woken or late.
TransportFairness ==
    \A t \in IoThread : /\ SF_transportVars(part = "transport" /\ LockStep(t))
                        /\ WF_transportVars(part = "transport" /\ OwnStep(t))
                        /\ WF_transportVars(part = "transport" /\ WokenStep(t))

ServicesSpec ==
    /\ ServicesInit
    /\ [][ServicesNext]_<<part, servicesVars>>
    /\ SessionFairness /\ RuntimeFairness /\ PortalFairness /\ NodeFairness /\ TransportFairness

=============================================================================
