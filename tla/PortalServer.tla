---------------------------- MODULE PortalServer ----------------------------
(***************************************************************************)
(* The HTTP side of the operator portal (PortalServer of                    *)
(* openarm_portal.cpp): one thread accepts and reads requests, at most      *)
(* kMaximumIntake at a time, and hands each to one of four lanes, a pool of  *)
(* threads with a bound on what it admits. Pointer input, the software stop  *)
(* and the emergency stop share the urgent lane; pointer input and the       *)
(* viewers' frames share the capture lock.                                   *)
(***************************************************************************)
EXTENDS Naturals, Sequences, FiniteSets, SequencesExt

CONSTANTS
    Conn,        \* connections
    IntakeLimit, \* kMaximumIntake
    Admits,      \* lane -> what it admits, the ones being served included
    Threads,     \* lane -> threads of its pool
    NoConn

VARIABLES
    asks,        \* what each connection asks for
    stage,       \* how far each is
    intakes,     \* active_intakes_, oldest first
    admitted,    \* the four counters
    captor,      \* owner of capture_mutex_
    main         \* the thread of run()

serverVars == <<asks, stage, intakes, admitted, captor, main>>

Lane == [page |-> "static", move |-> "api", stop |-> "urgent", pointer |-> "urgent",
         viewer |-> "stream"]
ConnKinds == DOMAIN Lane
Lanes == {"static", "api", "urgent", "stream"}

ASSUME ServerAssumption ==
    NoConn \notin Conn /\ IntakeLimit \in Nat \ {0} /\ Admits \in [Lanes -> Nat]

Stages == {"new", "intake", "queued", "serving", "capturing", "answered", "refused", "dropped"}
Over == {"answered", "refused", "dropped"}
On(l, S) == {c \in Conn : stage[c] \in S /\ Lane[asks[c]] = l}
Admitted == {"queued", "serving", "capturing"}
Served == {"serving", "capturing"}

ServerTypeOK ==
    /\ asks \in [Conn -> ConnKinds]
    /\ stage \in [Conn -> Stages]
    /\ IsInjective(intakes) /\ ToSet(intakes) = {c \in Conn : stage[c] = "intake"}
    /\ admitted \in [Lanes -> Nat]
    /\ captor \in Conn \cup {NoConn}
    /\ main \in {"accepting", "closed", "stopping", "joined"}

ServerInit ==
    /\ asks \in [Conn -> ConnKinds]
    /\ stage = [c \in Conn |-> "new"]
    /\ intakes = <<>>
    /\ admitted = [l \in Lanes |-> 0]
    /\ captor = NoConn
    /\ main = "accepting"

-----------------------------------------------------------------------------
(* The thread of run(): accept, the handlers of its context, shutdown.      *)

\* A connection more than the limit drops the oldest unread one.
start_intake(c) ==
    /\ main = "accepting"
    /\ stage[c] = "new"
    /\ IF Len(intakes) >= IntakeLimit
       THEN /\ intakes' = Append(Tail(intakes), c)
            /\ stage' = [stage EXCEPT ![c] = "intake", ![Head(intakes)] = "dropped"]
       ELSE /\ intakes' = Append(intakes, c)
            /\ stage' = [stage EXCEPT ![c] = "intake"]
    /\ UNCHANGED <<asks, admitted, captor, main>>

\* std::find and erase: the connection leaves the deque.
Erase(c) == \E i \in DOMAIN intakes : intakes[i] = c /\ intakes' = RemoveAt(intakes, i)

\* A read error, or the intake's deadline.
finish_intake(c) ==
    /\ main = "accepting"
    /\ stage[c] = "intake"
    /\ Erase(c)
    /\ stage' = [stage EXCEPT ![c] = "dropped"]
    /\ UNCHANGED <<asks, admitted, captor, main>>

\* A lane that counts a request it refuses.
DispatchCountsRefused(c, l) ==
    IF admitted[l] >= Admits[l]
    THEN stage' = [stage EXCEPT ![c] = "refused"] /\ admitted' = [admitted EXCEPT ![l] = @ + 1]
    ELSE /\ stage' = [stage EXCEPT ![c] = "queued"]
         /\ admitted' = [admitted EXCEPT ![l] = @ + 1]

\* The request is read: its lane admits it or its connection is reset. The
\* headers may be refused before that.
Dispatch(c, l) ==
    IF admitted[l] >= Admits[l]
    THEN stage' = [stage EXCEPT ![c] = "refused"] /\ UNCHANGED admitted
    ELSE /\ stage' = [stage EXCEPT ![c] = "queued"]
         /\ admitted' = [admitted EXCEPT ![l] = @ + 1]

complete_intake(c) ==
    /\ main = "accepting"
    /\ stage[c] = "intake"
    /\ Erase(c)
    /\ \/ Dispatch(c, Lane[asks[c]])
       \/ stage' = [stage EXCEPT ![c] = "answered"] /\ UNCHANGED admitted
    /\ UNCHANGED <<asks, captor, main>>

\* The signal: the acceptor closes and every unread request is dropped.
cancel_intakes ==
    /\ main = "accepting"
    /\ main' = "closed"
    /\ intakes' = <<>>
    /\ stage' = [c \in Conn |-> IF stage[c] = "intake" THEN "dropped" ELSE stage[c]]
    /\ UNCHANGED <<asks, admitted, captor>>

\* begin_shutdown, then the viewers are told to stop.
stop_streams ==
    /\ main = "closed"
    /\ main' = "stopping"
    /\ UNCHANGED <<asks, stage, intakes, admitted, captor>>

\* The four joins: a pool ends when everything it was given has run.
join_pools ==
    /\ main = "stopping"
    /\ \A c \in Conn : stage[c] \notin Admitted
    /\ main' = "joined"
    /\ UNCHANGED <<asks, stage, intakes, admitted, captor>>

-----------------------------------------------------------------------------
(* The threads of the pools.                                                *)

lane_takes(c) ==
    /\ stage[c] = "queued"
    /\ Cardinality(On(Lane[asks[c]], Served)) < Threads[Lane[asks[c]]]
    /\ stage' = [stage EXCEPT ![c] = "serving"]
    /\ UNCHANGED <<asks, intakes, admitted, captor, main>>

\* Pointer input and a viewer's next frame take the capture lock.
capture_lock(c) ==
    /\ stage[c] = "serving"
    /\ \/ asks[c] = "pointer"
       \/ asks[c] = "viewer" /\ main # "stopping"
    /\ captor = NoConn
    /\ captor' = c
    /\ stage' = [stage EXCEPT ![c] = "capturing"]
    /\ UNCHANGED <<asks, intakes, admitted, main>>

\* A request that leaves its lane twice.
LeavesTwice(c) ==
    /\ stage' = [stage EXCEPT ![c] = "answered"]
    /\ admitted' = [admitted EXCEPT ![Lane[asks[c]]] = @ - 2]

Leaves(c) ==
    /\ stage' = [stage EXCEPT ![c] = "answered"]
    /\ admitted' = [admitted EXCEPT ![Lane[asks[c]]] = @ - 1]

\* inject_pointer, then the answer.
pointer_injected(c) ==
    /\ stage[c] = "capturing" /\ asks[c] = "pointer"
    /\ captor' = NoConn
    /\ Leaves(c)
    /\ UNCHANGED <<asks, intakes, main>>

\* The frame is sent outside the lock; the viewer may be gone.
frame_sent(c) ==
    /\ stage[c] = "capturing" /\ asks[c] = "viewer"
    /\ captor' = NoConn
    /\ \/ Leaves(c)
       \/ stage' = [stage EXCEPT ![c] = "serving"] /\ UNCHANGED admitted
    /\ UNCHANGED <<asks, intakes, main>>

\* serve_static and serve_api; a malformed pointer event and a request during
\* the shutdown are answered without the lock; a viewer sees that it must stop.
request_served(c) ==
    /\ stage[c] = "serving"
    /\ asks[c] = "viewer" => main = "stopping"
    /\ Leaves(c)
    /\ UNCHANGED <<asks, intakes, captor, main>>

-----------------------------------------------------------------------------

ServerNext ==
    \/ \E c \in Conn :
          \/ start_intake(c) \/ finish_intake(c) \/ complete_intake(c)
          \/ lane_takes(c) \/ capture_lock(c) \/ pointer_injected(c) \/ frame_sent(c)
          \/ request_served(c)
    \/ cancel_intakes \/ stop_streams \/ join_pools

ServerSpec == ServerInit /\ [][ServerNext]_serverVars

-----------------------------------------------------------------------------
(* Properties.                                                              *)

\* A lane's counter is what the lane holds, whatever was refused, dropped or
\* answered in between: no lane closes itself for good, none exceeds its bound
\* (dispatch_static, dispatch_api, dispatch_urgent, dispatch_stream).
AdmissionIsExact ==
    \A l \in Lanes : /\ admitted[l] = Cardinality(On(l, Admitted))
                     /\ admitted[l] <= Admits[l]

\* A software stop that waits in its lane waits for stops and pointer input
\* only, never for a move or a viewer (complete_intake).
StopIsIndependent ==
    \A c \in Conn : asks[c] = "stop" /\ stage[c] = "queued" =>
        \A d \in On(Lane["stop"], Admitted) : asks[d] \in {"stop", "pointer"}

\* When run() returns, no request is being read or served, so none can touch
\* the node that main() then cancels and destroys (run, cancel_intakes).
NothingOutlivesRun ==
    main = "joined" => \A c \in Conn : stage[c] \in Over \cup {"new"}

\* The server keeps its bounds.
ServerIsBounded == AdmissionIsExact /\ StopIsIndependent /\ NothingOutlivesRun
=============================================================================
