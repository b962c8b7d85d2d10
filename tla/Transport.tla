----------------------------- MODULE Transport -----------------------------
(***************************************************************************)
(* The CAN transport (transport.cpp, c_api.cpp) over a backend that        *)
(* permits authorities, and the backend's blocking calls                   *)
(* (socketcan_backend.cpp).                                                *)
(*                                                                         *)
(* Threads send, receive, issue authorities and close.  A dangerous frame  *)
(* needs a one-shot authority for exactly that frame.  Each direction has  *)
(* a mutex held for the whole call; close() marks the transport, wakes the *)
(* blocked calls and waits for both directions.  A frame is its class and  *)
(* its contents; time is one bounded monotonic clock.                      *)
(***************************************************************************)
EXTENDS Naturals, Sequences

CONSTANTS
    IoThread,    \* threads that use one transport
    NoThread,    \* a free mutex
    Token,       \* authorities that can be issued
    NoToken,     \* authority == nullptr
    MaxNow       \* bound on the clock

ASSUME TransportConstants ==
    NoThread \notin IoThread /\ NoToken \notin Token /\ MaxNow \in Nat

VARIABLES
    clock,      \* Backend::now
    closed,     \* closed_ of the transport
    shut,       \* closed_ of the backend; its wake descriptor is readable
    grants,     \* grants_: the frame and the expiry of each live authority
    issued,     \* history: the grant each authority was issued for
    mutex,      \* send_mutex_, receive_mutex_, close_mutex_
    io,         \* each thread's call and its arguments
    wire,       \* history: the authorised frames the backend has sent
    over        \* history: close() has returned

transportVars == <<clock, closed, shut, grants, issued, mutex, io, wire, over>>

Times == 0 .. MaxNow
Dangerous == {"enable", "zero"}
Frames == Dangerous \cup {"query", "unknown"}
NoGrant == [frame |-> "unknown", expiry |-> 0]
Grants == [frame: Frames, expiry: Times]
Sent == [token: Token, frame: Frames, at: Times]
IoSteps == {"idle", "send", "send_check", "send_consume", "send_backend",
            "receive", "receive_check", "receive_backend",
            "close", "close_wake", "close_join", "close_clear"}
Idle == [at |-> "idle", frame |-> "unknown", token |-> NoToken, deadline |-> 0]

TransportTypeOK ==
    /\ clock \in Times /\ {closed, shut, over} \subseteq BOOLEAN
    /\ grants \in [Token -> Grants] /\ issued \in [Token -> Grants]
    /\ mutex \in [{"send", "receive", "close"} -> IoThread \cup {NoThread}]
    /\ io \in [IoThread -> [at: IoSteps, frame: Frames, token: Token \cup {NoToken},
                            deadline: Times]]
    /\ wire \in Seq(Sent)

\* oa_transport_open: a new transport, nothing issued.
TransportInit ==
    /\ clock = 0 /\ closed = FALSE /\ shut = FALSE /\ over = FALSE
    /\ grants = [k \in Token |-> NoGrant] /\ issued = [k \in Token |-> NoGrant]
    /\ mutex = [m \in {"send", "receive", "close"} |-> NoThread]
    /\ io = [t \in IoThread |-> Idle]
    /\ wire = <<>>

Free(m) == mutex[m] = NoThread
Lock(m, t) == mutex' = [mutex EXCEPT ![m] = t]
Go(t, at) == io' = [io EXCEPT ![t].at = at]
LeaveIo(t, m) == mutex' = [mutex EXCEPT ![m] = NoThread] /\ io' = [io EXCEPT ![t] = Idle]

\* validateDeadline: in the future and within the horizon.
validateDeadline(deadline) == deadline > clock

-----------------------------------------------------------------------------
(* send                                                                    *)

\* A caller picks a frame, perhaps an authority it was given, and a deadline.
send(t) ==
    /\ io[t].at = "idle"
    /\ \E f \in Frames, d \in Times, k \in Token \cup {NoToken} :
         /\ k # NoToken => issued[k] # NoGrant
         /\ io' = [io EXCEPT ![t] = [at |-> "send", frame |-> f, token |-> k,
                                     deadline |-> d]]
    /\ UNCHANGED <<clock, closed, shut, grants, issued, mutex, wire, over>>

send_lock(t) ==
    /\ io[t].at = "send" /\ Free("send")
    /\ Lock("send", t)
    /\ Go(t, "send_check")
    /\ UNCHANGED <<clock, closed, shut, grants, issued, wire, over>>

\* classify and the deadline come before the authority; a query must not carry
\* one and an unknown or motion frame is never sent.
send_check(t) ==
    /\ io[t].at = "send_check"
    /\ IF \/ closed \/ io[t].frame = "unknown"
          \/ ~validateDeadline(io[t].deadline)
          \/ io[t].frame = "query" /\ io[t].token # NoToken
       THEN LeaveIo(t, "send")
       ELSE /\ Go(t, IF io[t].frame = "query" THEN "send_backend" ELSE "send_consume")
            /\ UNCHANGED mutex
    /\ UNCHANGED <<clock, closed, shut, grants, issued, wire, over>>

\* An authority fits a send of this frame with this deadline.
Fits(k, frame, deadline) == grants[k].frame = frame /\ deadline <= grants[k].expiry

\* consumeAuthority: an expired grant is dropped, another frame or a deadline
\* after its expiry leaves it, the exact frame spends it.
consumeAuthority(t) ==
    LET k == io[t].token IN
    /\ io[t].at = "send_consume"
    /\ IF k = NoToken \/ grants[k] = NoGrant
       THEN LeaveIo(t, "send") /\ UNCHANGED grants
       ELSE IF grants[k].expiry <= clock
       THEN LeaveIo(t, "send") /\ grants' = [grants EXCEPT ![k] = NoGrant]
       ELSE IF ~Fits(k, io[t].frame, io[t].deadline)
       THEN LeaveIo(t, "send") /\ UNCHANGED grants
       ELSE /\ grants' = [grants EXCEPT ![k] = NoGrant]
            /\ Go(t, "send_backend")
            /\ UNCHANGED mutex
    /\ UNCHANGED <<clock, closed, shut, issued, wire, over>>

\* The backend's send loop: closed, late, sent, failed, or blocked until the
\* socket is writable again (no step).
backend_send(t) ==
    /\ io[t].at = "send_backend"
    /\ LeaveIo(t, "send")
    /\ \/ ~shut /\ clock < io[t].deadline
          /\ wire' = IF io[t].token = NoToken THEN wire
                     ELSE Append(wire, [token |-> io[t].token, frame |-> io[t].frame,
                                        at |-> clock])
       \/ UNCHANGED wire
    /\ UNCHANGED <<clock, closed, shut, grants, issued, over>>

-----------------------------------------------------------------------------
(* receive                                                                 *)

receive(t) ==
    /\ io[t].at = "idle"
    /\ \E d \in Times : io' = [io EXCEPT ![t] = [Idle EXCEPT !.at = "receive", !.deadline = d]]
    /\ UNCHANGED <<clock, closed, shut, grants, issued, mutex, wire, over>>

receive_lock(t) ==
    /\ io[t].at = "receive" /\ Free("receive")
    /\ Lock("receive", t)
    /\ Go(t, "receive_check")
    /\ UNCHANGED <<clock, closed, shut, grants, issued, wire, over>>

receive_check(t) ==
    /\ io[t].at = "receive_check"
    /\ IF closed \/ ~validateDeadline(io[t].deadline)
       THEN LeaveIo(t, "receive")
       ELSE Go(t, "receive_backend") /\ UNCHANGED mutex
    /\ UNCHANGED <<clock, closed, shut, grants, issued, wire, over>>

\* The backend waits for an event, its deadline or the wake descriptor.
BackendWakes(t) == shut \/ clock >= io[t].deadline
backend_receive(t) ==
    /\ io[t].at = "receive_backend"
    /\ LeaveIo(t, "receive")
    /\ UNCHANGED <<clock, closed, shut, grants, issued, wire, over>>

-----------------------------------------------------------------------------
(* issueAuthority and close                                                *)

\* issueAuthority, under close_mutex_ and only for a dangerous frame.
issueAuthority(t) ==
    /\ io[t].at = "idle" /\ Free("close") /\ ~closed
    /\ \E k \in Token, f \in Dangerous, expiry \in Times :
         /\ issued[k] = NoGrant
         /\ expiry > clock
         /\ grants' = [grants EXCEPT ![k] = [frame |-> f, expiry |-> expiry]]
         /\ issued' = [issued EXCEPT ![k] = [frame |-> f, expiry |-> expiry]]
    /\ UNCHANGED <<clock, closed, shut, mutex, io, wire, over>>

close_begin(t) ==
    /\ io[t].at = "idle"
    /\ Go(t, "close")
    /\ UNCHANGED <<clock, closed, shut, grants, issued, mutex, wire, over>>

close_lock(t) ==
    /\ io[t].at = "close" /\ Free("close")
    /\ Lock("close", t)
    /\ closed' = TRUE
    /\ Go(t, "close_wake")
    /\ UNCHANGED <<clock, shut, grants, issued, wire, over>>

\* A backend close that does not wake its waiters.
close_wake_silent(t) ==
    /\ io[t].at = "close_wake"
    /\ shut' = shut
    /\ Go(t, "close_join")
    /\ UNCHANGED <<clock, closed, grants, issued, mutex, wire, over>>

\* The backend's close: mark it and write the wake descriptor.
close_wake(t) ==
    /\ io[t].at = "close_wake"
    /\ shut' = TRUE
    /\ Go(t, "close_join")
    /\ UNCHANGED <<clock, closed, grants, issued, mutex, wire, over>>

\* A close that waits for the receive direction only.
close_join_receive(t) ==
    /\ io[t].at = "close_join" /\ Free("receive")
    /\ Go(t, "close_clear")
    /\ UNCHANGED <<clock, closed, shut, grants, issued, mutex, wire, over>>

\* scoped_lock of both directions: taken together, given back at once.
close_join(t) ==
    /\ io[t].at = "close_join" /\ Free("send") /\ Free("receive")
    /\ Go(t, "close_clear")
    /\ UNCHANGED <<clock, closed, shut, grants, issued, mutex, wire, over>>

close_clear(t) ==
    /\ io[t].at = "close_clear"
    /\ grants' = [k \in Token |-> NoGrant]
    /\ over' = TRUE
    /\ LeaveIo(t, "close")
    /\ UNCHANGED <<clock, closed, shut, issued, wire>>

-----------------------------------------------------------------------------

monotonicNow ==
    /\ clock < MaxNow
    /\ clock' = clock + 1
    /\ UNCHANGED <<closed, shut, grants, issued, mutex, io, wire, over>>

CallStarts(t) == send(t) \/ receive(t) \/ close_begin(t) \/ issueAuthority(t)
TransportGoesOn(t) ==
    \/ send_lock(t) \/ send_check(t) \/ consumeAuthority(t) \/ backend_send(t)
    \/ receive_lock(t) \/ receive_check(t) \/ backend_receive(t)
    \/ close_lock(t) \/ close_wake(t) \/ close_join(t) \/ close_clear(t)

TransportNext == monotonicNow \/ \E t \in IoThread : CallStarts(t) \/ TransportGoesOn(t)
TransportSpec == TransportInit /\ [][TransportNext]_transportVars

\* Threads run, and a mutex that is free again and again is got at last; a
\* receive returns for sure only at its deadline or when it is woken, a send when
\* it is woken or late.
LockStep(t) == send_lock(t) \/ receive_lock(t) \/ close_lock(t) \/ close_join(t)
OwnStep(t) ==
    send_check(t) \/ consumeAuthority(t) \/ receive_check(t) \/ close_wake(t) \/ close_clear(t)
WokenStep(t) == (backend_send(t) \/ backend_receive(t)) /\ BackendWakes(t)


-----------------------------------------------------------------------------
(* Properties.                                                             *)

\* What an authority lets out is the one frame it was issued for, once, and
\* before it expired, whatever other threads sent, issued or closed meanwhile
\* (consumeAuthority spends the grant before the backend blocks on the socket).
AuthorityIsExact ==
    \A i \in DOMAIN wire :
      /\ wire[i].frame = issued[wire[i].token].frame
      /\ wire[i].at < issued[wire[i].token].expiry
      /\ \A j \in DOMAIN wire : wire[j].token = wire[i].token => j = i

\* Once close() has returned no send is past its check of closed_, so none can
\* still reach the backend, and no authority is left: the send that passed the
\* check before close() has been waited for (close_join).
NothingAfterClose ==
    over => /\ \A t \in IoThread : io[t].at \notin {"send_consume", "send_backend"}
            /\ \A k \in Token : grants[k] = NoGrant

\* The transport's promise to its callers: exact authorities until close() has
\* returned, and nothing after it.
TransportIsSound == AuthorityIsExact /\ NothingAfterClose

\* close() returns however many calls are blocked on the bus or wait for a mutex.
CloseReturns == \A t \in IoThread : io[t].at = "close" ~> io[t].at = "idle"
=============================================================================
