-------------------------- MODULE TransportProofs --------------------------
(***************************************************************************)
(* Proofs about the way to the motors: the transport and its authorities   *)
(* (Transport), the link state of its backend (CanLink), the codec between *)
(* host and motors (CanCodec) and the probe of a bus (CanProbe), for every *)
(* number of threads, authorities, frames and motors and any sizes of      *)
(* rings, queues and budgets.                                              *)
(***************************************************************************)
EXTENDS Transport, CanLink, CanCodec, CanProbe,
        FiniteSetTheorems, SequenceTheorems, TLAPS

(* Transport: the inductive invariant.  The mutexes make the threads that  *)
(* are past a lock unique; with that, an authority is live, in the hands   *)
(* of one send, or used up.                                                *)

SendSteps == {"send_check", "send_consume", "send_backend"}
PastCheck == {"send_consume", "send_backend"}
CloseSteps == {"close_wake", "close_join", "close_clear"}

\* Whoever is past a lock holds the mutex.
LocksHeld ==
    /\ \A t \in IoThread : io[t].at \in SendSteps => mutex["send"] = t
    /\ \A t \in IoThread : io[t].at \in CloseSteps => mutex["close"] = t

\* The authority has let a frame out.
Spent(k) == \E i \in DOMAIN wire : wire[i].token = k

\* A live grant is the one that was issued, and nothing has gone out on it.
LiveGrantIsFresh ==
    \A k \in Token : grants[k] # NoGrant => grants[k] = issued[k] /\ ~Spent(k)

\* A send that has reached the backend with an authority has spent the grant,
\* and the frame and the deadline fit what was issued.
ConsumedFits ==
    \A t \in IoThread :
      (io[t].at = "send_backend" /\ io[t].token # NoToken) =>
        /\ grants[io[t].token] = NoGrant /\ issued[io[t].token] # NoGrant
        /\ ~Spent(io[t].token)
        /\ io[t].frame = issued[io[t].token].frame
        /\ io[t].deadline <= issued[io[t].token].expiry

\* Only an issued authority has let anything out.
SentWasIssued == \A i \in DOMAIN wire : issued[wire[i].token] # NoGrant

\* What close() has done once it is past a step.
CloseProgress ==
    /\ over => closed
    /\ \A t \in IoThread : io[t].at \in CloseSteps => closed
    /\ (\E c \in IoThread : io[c].at = "close_clear") =>
         \A t \in IoThread : io[t].at \notin PastCheck

TransportInv ==
    /\ TransportTypeOK /\ LocksHeld /\ LiveGrantIsFresh /\ ConsumedFits /\ SentWasIssued
    /\ CloseProgress /\ AuthorityIsExact /\ NothingAfterClose

-----------------------------------------------------------------------------

\* A thread's call.
Calls == [at: IoSteps, frame: Frames, token: Token \cup {NoToken}, deadline: Times]

LEMMA TransportInitially == TransportInit => TransportInv
  <1> SUFFICES ASSUME TransportInit PROVE TransportInv
    OBVIOUS
  <1> USE DEF TransportInit, Idle, NoGrant
  <1>1. TransportTypeOK
    <2>1. Idle \in Calls /\ NoGrant \in Grants /\ 0 \in Times
      BY TransportConstants DEF Times, Grants, Frames, Dangerous, IoSteps, Calls
    <2>2. {closed, shut, over} \subseteq BOOLEAN
      OBVIOUS
    <2>3. wire \in Seq(Sent)
      OBVIOUS
    <2> QED  BY <2>1, <2>2, <2>3 DEF TransportTypeOK, Calls
  <1>2. LocksHeld /\ ConsumedFits /\ CloseProgress /\ NothingAfterClose
    BY DEF LocksHeld, ConsumedFits, CloseProgress, NothingAfterClose, SendSteps, CloseSteps,
           PastCheck
  <1>3. LiveGrantIsFresh /\ SentWasIssued /\ AuthorityIsExact
    BY DEF LiveGrantIsFresh, SentWasIssued, AuthorityIsExact, Spent
  <1> QED  BY <1>1, <1>2, <1>3 DEF TransportInv

\* The types, one step per action.
LEMMA TransportTypes == TransportTypeOK /\ [TransportNext]_transportVars => TransportTypeOK'
  <1> SUFFICES ASSUME TransportTypeOK, [TransportNext]_transportVars PROVE TransportTypeOK'
    OBVIOUS
  <1> USE TransportConstants
  <1>a. /\ NoGrant \in Grants /\ Dangerous \subseteq Frames /\ Idle \in Calls
    BY DEF NoGrant, Grants, Frames, Times, Idle, IoSteps, Dangerous, Calls
  <1>b. /\ io \in [IoThread -> Calls] /\ mutex \in [{"send", "receive", "close"} -> IoThread \cup {NoThread}]
        /\ clock \in Times /\ closed \in BOOLEAN /\ shut \in BOOLEAN /\ over \in BOOLEAN
        /\ grants \in [Token -> Grants] /\ issued \in [Token -> Grants] /\ wire \in Seq(Sent)
    BY DEF TransportTypeOK, Calls
  <1>c. SUFFICES
          /\ io' \in [IoThread -> Calls] /\ mutex' \in [{"send", "receive", "close"} -> IoThread \cup {NoThread}]
          /\ clock' \in Times /\ closed' \in BOOLEAN /\ shut' \in BOOLEAN /\ over' \in BOOLEAN
          /\ grants' \in [Token -> Grants] /\ issued' \in [Token -> Grants] /\ wire' \in Seq(Sent)
    BY DEF TransportTypeOK, Calls
  <1>d. ASSUME NEW t \in IoThread, NEW a \in IoSteps
        PROVE  [io EXCEPT ![t].at = a] \in [IoThread -> Calls]
    BY <1>b DEF Calls
  <1>e. ASSUME NEW t \in IoThread, NEW m \in {"send", "receive", "close"}, LeaveIo(t, m)
        PROVE  /\ io' \in [IoThread -> Calls]
               /\ mutex' \in [{"send", "receive", "close"} -> IoThread \cup {NoThread}]
    BY <1>a, <1>b, <1>e DEF LeaveIo
  <1>1. ASSUME NEW t \in IoThread, CallStarts(t) PROVE TransportTypeOK'
    <2>1. CASE send(t)
      <3>1. PICK c \in Calls : io' = [io EXCEPT ![t] = c]
        BY <2>1 DEF send, Calls, IoSteps
      <3> QED  BY <1>b, <2>1, <3>1 DEF send, TransportTypeOK, Calls
    <2>2. CASE receive(t)
      <3>1. PICK d \in Times : io' = [io EXCEPT ![t] = [Idle EXCEPT !.at = "receive", !.deadline = d]]
        BY <2>2 DEF receive
      <3>2. [Idle EXCEPT !.at = "receive", !.deadline = d] \in Calls
        BY <1>a DEF Calls, IoSteps
      <3> QED  BY <1>b, <2>2, <3>1, <3>2 DEF receive, TransportTypeOK, Calls
    <2>3. CASE close_begin(t)
      BY <1>b, <1>d, <2>3 DEF close_begin, Go, IoSteps, TransportTypeOK, Calls
    <2>4. CASE issueAuthority(t)
      BY <1>a, <1>b, <2>4 DEF issueAuthority, Grants, TransportTypeOK, Calls
    <2> QED  BY <1>1, <2>1, <2>2, <2>3, <2>4 DEF CallStarts
  <1>2. ASSUME NEW t \in IoThread, TransportGoesOn(t) PROVE TransportTypeOK'
    <2> USE <1>b, <1>d DEF TransportTypeOK, Calls
    <2>1. CASE send_lock(t)
      BY <2>1 DEF send_lock, Lock, Go, IoSteps
    <2>2. CASE receive_lock(t)
      BY <2>2 DEF receive_lock, Lock, Go, IoSteps
    <2>3. CASE close_lock(t)
      BY <2>3 DEF close_lock, Lock, Go, IoSteps
    <2>4. CASE send_check(t)
      <3>1. CASE LeaveIo(t, "send")
        BY <2>4, <1>e, <3>1 DEF send_check
      <3>2. CASE Go(t, "send_backend") /\ UNCHANGED mutex
        BY <2>4, <3>2 DEF send_check, Go, IoSteps
      <3>3. CASE Go(t, "send_consume") /\ UNCHANGED mutex
        BY <2>4, <3>3 DEF send_check, Go, IoSteps
      <3> QED  BY <2>4, <3>1, <3>2, <3>3 DEF send_check
    <2>5. CASE receive_check(t)
      <3>1. CASE LeaveIo(t, "receive")
        BY <2>5, <1>e, <3>1 DEF receive_check
      <3>2. CASE Go(t, "receive_backend") /\ UNCHANGED mutex
        BY <2>5, <3>2 DEF receive_check, Go, IoSteps
      <3> QED  BY <2>5, <3>1, <3>2 DEF receive_check
    <2>6. CASE consumeAuthority(t)
      <3>1. grants' \in [Token -> Grants]
        BY <2>6, <1>a DEF consumeAuthority
      <3>2. /\ io' \in [IoThread -> Calls]
            /\ mutex' \in [{"send", "receive", "close"} -> IoThread \cup {NoThread}]
        <4>1. CASE LeaveIo(t, "send")
          BY <1>e, <4>1
        <4>2. CASE Go(t, "send_backend") /\ UNCHANGED mutex
          BY <4>2 DEF Go, IoSteps
        <4> QED  BY <2>6, <4>1, <4>2 DEF consumeAuthority
      <3> QED  BY <2>6, <3>1, <3>2 DEF consumeAuthority
    <2>7. CASE backend_send(t)
      <3>1. wire' \in Seq(Sent)
        <4>1. CASE wire' = wire
          BY <4>1
        <4>2. CASE wire' = Append(wire, [token |-> io[t].token, frame |-> io[t].frame, at |-> clock])
                   /\ io[t].token # NoToken
          <5>1. [token |-> io[t].token, frame |-> io[t].frame, at |-> clock] \in Sent
            BY <4>2 DEF Sent
          <5> QED  BY <4>2, <5>1
        <4> QED  BY <2>7, <4>1, <4>2 DEF backend_send
      <3> QED  BY <2>7, <3>1, <1>e DEF backend_send
    <2>8. CASE backend_receive(t)
      BY <2>8, <1>e DEF backend_receive
    <2>9. CASE close_wake(t)
      BY <2>9 DEF close_wake, Go, IoSteps
    <2>10. CASE close_join(t)
      BY <2>10 DEF close_join, Go, IoSteps
    <2>11. CASE close_clear(t)
      BY <2>11, <1>a, <1>e DEF close_clear
    <2> QED
      BY <1>2, <2>1, <2>2, <2>3, <2>4, <2>5, <2>6, <2>7, <2>8, <2>9, <2>10, <2>11
      DEF TransportGoesOn
  <1>3. CASE monotonicNow
    BY <1>b, <1>3 DEF monotonicNow, Times
  <1>4. CASE UNCHANGED transportVars
    BY <1>b, <1>4 DEF transportVars
  <1> QED  BY <1>1, <1>2, <1>3, <1>4 DEF TransportNext, TransportTypeOK, Calls

-----------------------------------------------------------------------------
(* What a step does to the threads.                                        *)

\* A thread moves to another step of its call.
LEMMA GoMoves ==
    ASSUME TransportTypeOK, NEW t \in IoThread, NEW a, Go(t, a)
    PROVE  /\ io'[t].at = a /\ io'[t].frame = io[t].frame /\ io'[t].token = io[t].token
           /\ io'[t].deadline = io[t].deadline
           /\ \A u \in IoThread : u # t => io'[u] = io[u]
  BY DEF TransportTypeOK, Go

\* A thread returns from its call and gives the mutex back.
LEMMA LeaveLeaves ==
    ASSUME TransportTypeOK, NEW t \in IoThread, NEW m \in {"send", "receive", "close"},
           LeaveIo(t, m)
    PROVE  /\ io'[t].at = "idle" /\ \A u \in IoThread : u # t => io'[u] = io[u]
           /\ mutex'[m] = NoThread
           /\ \A n \in {"send", "receive", "close"} : n # m => mutex'[n] = mutex[n]
  BY DEF TransportTypeOK, LeaveIo, Idle

\* A thread takes a mutex.
LEMMA LockLocks ==
    ASSUME TransportTypeOK, NEW t \in IoThread, NEW m \in {"send", "receive", "close"},
           Lock(m, t)
    PROVE  /\ mutex'[m] = t
           /\ \A n \in {"send", "receive", "close"} : n # m => mutex'[n] = mutex[n]
  BY DEF TransportTypeOK, Lock

\* Only t moves: a thread that is past a lock after the step holds its mutex, when
\* t does and the step takes no mutex from another thread.
LEMMA LocksKept ==
    ASSUME TransportTypeOK, LocksHeld, NEW t \in IoThread,
           \A u \in IoThread : u # t => io'[u] = io[u],
           io'[t].at \in SendSteps => mutex'["send"] = t,
           io'[t].at \in CloseSteps => mutex'["close"] = t,
           \/ mutex'["send"] = mutex["send"] \/ mutex["send"] \in {t, NoThread},
           \/ mutex'["close"] = mutex["close"] \/ mutex["close"] \in {t, NoThread}
    PROVE  LocksHeld'
  BY TransportConstants DEF LocksHeld

\* The mutexes, one step per action.
LEMMA LocksStep == TransportTypeOK /\ LocksHeld /\ [TransportNext]_transportVars => LocksHeld'
  <1> SUFFICES ASSUME TransportTypeOK, LocksHeld, [TransportNext]_transportVars PROVE LocksHeld'
    OBVIOUS
  <1> USE DEF SendSteps, CloseSteps
  <1>1. ASSUME NEW t \in IoThread, CallStarts(t) PROVE LocksHeld'
    <2>1. CASE send(t)
      BY <2>1 DEF send, LocksHeld, TransportTypeOK
    <2>2. CASE receive(t)
      BY <2>2 DEF receive, LocksHeld, TransportTypeOK, Idle
    <2>3. CASE close_begin(t)
      BY <2>3, GoMoves, LocksKept DEF close_begin
    <2>4. CASE issueAuthority(t)
      BY <2>4 DEF issueAuthority, LocksHeld
    <2> QED  BY <1>1, <2>1, <2>2, <2>3, <2>4 DEF CallStarts
  <1>2. ASSUME NEW t \in IoThread, TransportGoesOn(t) PROVE LocksHeld'
    <2>1. CASE send_lock(t)
      BY <2>1, GoMoves, LockLocks, LocksKept DEF send_lock, Free
    <2>2. CASE receive_lock(t)
      BY <2>2, GoMoves, LockLocks, LocksKept DEF receive_lock
    <2>3. CASE close_lock(t)
      BY <2>3, GoMoves, LockLocks, LocksKept DEF close_lock, Free
    <2>4. CASE send_check(t)
      <3>1. mutex["send"] = t
        BY <2>4 DEF send_check, LocksHeld
      <3>2. CASE LeaveIo(t, "send")
        BY <3>1, <3>2, LeaveLeaves, LocksKept
      <3>3. ASSUME NEW a \in PastCheck, Go(t, a), UNCHANGED mutex PROVE LocksHeld'
        BY <3>1, <3>3, GoMoves, LocksKept DEF PastCheck
      <3> QED  BY <2>4, <3>2, <3>3 DEF send_check, PastCheck
    <2>5. CASE receive_check(t)
      <3>1. CASE LeaveIo(t, "receive")
        BY <3>1, LeaveLeaves, LocksKept
      <3>2. CASE Go(t, "receive_backend") /\ UNCHANGED mutex
        BY <3>2, GoMoves, LocksKept
      <3> QED  BY <2>5, <3>1, <3>2 DEF receive_check
    <2>6. CASE consumeAuthority(t)
      <3>1. mutex["send"] = t
        BY <2>6 DEF consumeAuthority, LocksHeld
      <3>2. CASE LeaveIo(t, "send")
        BY <3>1, <3>2, LeaveLeaves, LocksKept
      <3>3. CASE Go(t, "send_backend") /\ UNCHANGED mutex
        BY <3>1, <3>3, GoMoves, LocksKept
      <3> QED  BY <2>6, <3>2, <3>3 DEF consumeAuthority
    <2>7. CASE backend_send(t)
      <3>1. mutex["send"] = t /\ LeaveIo(t, "send")
        BY <2>7 DEF backend_send, LocksHeld
      <3> QED  BY <3>1, LeaveLeaves, LocksKept
    <2>8. CASE backend_receive(t)
      BY <2>8, LeaveLeaves, LocksKept DEF backend_receive
    <2>9. CASE close_wake(t) \/ close_join(t)
      <3>1. mutex["close"] = t /\ UNCHANGED mutex /\ (Go(t, "close_join") \/ Go(t, "close_clear"))
        BY <2>9 DEF close_wake, close_join, LocksHeld
      <3> QED  BY <3>1, GoMoves, LocksKept
    <2>10. CASE close_clear(t)
      <3>1. mutex["close"] = t /\ LeaveIo(t, "close")
        BY <2>10 DEF close_clear, LocksHeld
      <3> QED  BY <3>1, LeaveLeaves, LocksKept
    <2> QED
      BY <1>2, <2>1, <2>2, <2>3, <2>4, <2>5, <2>6, <2>7, <2>8, <2>9, <2>10 DEF TransportGoesOn
  <1>3. CASE monotonicNow \/ UNCHANGED transportVars
    BY <1>3 DEF monotonicNow, transportVars, LocksHeld
  <1> QED  BY <1>1, <1>2, <1>3 DEF TransportNext

-----------------------------------------------------------------------------
(* Authorities.                                                            *)

GrantInv == LiveGrantIsFresh /\ ConsumedFits /\ SentWasIssued /\ AuthorityIsExact

\* A step that touches no authority and brings no send with one to the backend.
LEMMA GrantsUntouched ==
    ASSUME TransportTypeOK, GrantInv, UNCHANGED <<grants, issued, wire>>,
           \A u \in IoThread : \/ io'[u] = io[u] \/ io'[u].at # "send_backend"
                               \/ io'[u].token = NoToken
    PROVE  GrantInv'
  <1>1. LiveGrantIsFresh' /\ SentWasIssued' /\ AuthorityIsExact'
    BY DEF GrantInv, LiveGrantIsFresh, SentWasIssued, AuthorityIsExact, Spent
  <1>2. ConsumedFits'
    BY DEF GrantInv, ConsumedFits, Spent
  <1> QED  BY <1>1, <1>2 DEF GrantInv

\* consumeAuthority spends a grant, whose frame fits, or drops one.
LEMMA ConsumeKeeps ==
    ASSUME TransportTypeOK, LocksHeld, GrantInv, NEW t \in IoThread, consumeAuthority(t)
    PROVE  GrantInv'
  <1> DEFINE k == io[t].token
  <1>1. CASE UNCHANGED grants /\ LeaveIo(t, "send")
    BY <1>1, LeaveLeaves, GrantsUntouched DEF consumeAuthority
  <1>2. CASE /\ k \in Token /\ grants' = [grants EXCEPT ![k] = NoGrant]
             /\ LeaveIo(t, "send")
    <2>1. io'[t].at = "idle" /\ \A u \in IoThread : u # t => io'[u] = io[u]
      BY <1>2, LeaveLeaves
    <2>2. issued' = issued /\ wire' = wire
      BY DEF consumeAuthority
    <2>3. LiveGrantIsFresh'
      BY <1>2, <2>2 DEF GrantInv, LiveGrantIsFresh, Spent, TransportTypeOK
    <2>4. ConsumedFits'
      BY <1>2, <2>1, <2>2 DEF GrantInv, ConsumedFits, Spent, TransportTypeOK
    <2> QED  BY <2>2, <2>3, <2>4 DEF GrantInv, SentWasIssued, AuthorityIsExact
  <1>3. CASE /\ k \in Token /\ grants[k] # NoGrant /\ grants' = [grants EXCEPT ![k] = NoGrant]
             /\ Fits(k, io[t].frame, io[t].deadline) /\ Go(t, "send_backend")
    <2>1. /\ io'[t].token = k /\ io'[t].frame = io[t].frame /\ io'[t].deadline = io[t].deadline
          /\ \A u \in IoThread : u # t => io'[u] = io[u]
      BY <1>3, GoMoves
    <2>2. issued' = issued /\ wire' = wire
      BY DEF consumeAuthority
    <2>3. grants[k] = issued[k] /\ ~Spent(k) /\ grants'[k] = NoGrant
      BY <1>3 DEF GrantInv, LiveGrantIsFresh, TransportTypeOK
    <2>4. LiveGrantIsFresh'
      BY <1>3, <2>2 DEF GrantInv, LiveGrantIsFresh, Spent, TransportTypeOK
    <2>5. ASSUME NEW u \in IoThread, u # t PROVE io'[u].at # "send_backend"
      BY <2>1, <2>5 DEF consumeAuthority, LocksHeld, SendSteps
    <2>6. ConsumedFits'
      BY <1>3, <2>1, <2>2, <2>3, <2>5 DEF ConsumedFits, Spent, Fits
    <2> QED  BY <2>2, <2>4, <2>6 DEF GrantInv, SentWasIssued, AuthorityIsExact
  <1> QED
    BY <1>1, <1>2, <1>3 DEF consumeAuthority, TransportTypeOK

\* The backend sends the frame of a spent grant before it has expired.
LEMMA BackendSendKeeps ==
    ASSUME TransportTypeOK, LocksHeld, GrantInv, NEW t \in IoThread, backend_send(t)
    PROVE  GrantInv'
  <1> DEFINE k == io[t].token
             out == [token |-> k, frame |-> io[t].frame, at |-> clock]
  <1>1. io'[t].at = "idle" /\ \A u \in IoThread : u # t => io'[u] = io[u]
    BY LeaveLeaves DEF backend_send
  <1>2. CASE UNCHANGED wire
    BY <1>1, <1>2, GrantsUntouched DEF backend_send
  <1>3. CASE k # NoToken /\ clock < io[t].deadline /\ wire' = Append(wire, out)
    <2>1. /\ k \in Token /\ grants[k] = NoGrant /\ issued[k] # NoGrant /\ ~Spent(k)
          /\ io[t].frame = issued[k].frame /\ io[t].deadline <= issued[k].expiry
      BY <1>3 DEF backend_send, GrantInv, ConsumedFits, TransportTypeOK
    <2>2. /\ wire \in Seq(Sent) /\ clock \in Nat /\ io[t].deadline \in Nat /\ issued[k].expiry \in Nat
      BY <2>1, TransportConstants DEF TransportTypeOK, Times, Grants
    <2>3. clock < issued[k].expiry
      BY <1>3, <2>1, <2>2
    <2>4. /\ DOMAIN wire' = 1 .. Len(wire) + 1 /\ DOMAIN wire = 1 .. Len(wire) /\ Len(wire) \in Nat
          /\ wire'[Len(wire) + 1] = out /\ \A i \in DOMAIN wire : wire'[i] = wire[i]
      BY <1>3, <2>2
    <2>5. issued' = issued /\ grants' = grants
      BY DEF backend_send
    <2>6. \A i \in DOMAIN wire' : \/ i \in DOMAIN wire /\ wire'[i] = wire[i]
                                  \/ i = Len(wire) + 1 /\ wire'[i] = out
      BY <2>4
    <2>7. \A q \in Token : Spent(q)' => q = k \/ Spent(q)
      BY <2>6 DEF Spent
    <2>8. LiveGrantIsFresh'
      BY <2>1, <2>5, <2>7 DEF GrantInv, LiveGrantIsFresh
    <2>9. SentWasIssued'
      BY <2>1, <2>5, <2>6 DEF GrantInv, SentWasIssued
    <2>10. AuthorityIsExact'
      <3>1. ASSUME NEW i \in DOMAIN wire'
            PROVE  /\ wire'[i].frame = issued'[wire'[i].token].frame
                   /\ wire'[i].at < issued'[wire'[i].token].expiry
        BY <2>1, <2>3, <2>5, <2>6 DEF GrantInv, AuthorityIsExact
      <3>2. ASSUME NEW i \in DOMAIN wire', NEW j \in DOMAIN wire', wire'[j].token = wire'[i].token
            PROVE  j = i
        <4>1. ASSUME NEW n \in DOMAIN wire PROVE wire[n].token # k
          BY <2>1 DEF Spent
        <4> QED  BY <2>6, <3>2, <4>1 DEF GrantInv, AuthorityIsExact
      <3> QED  BY <3>1, <3>2 DEF AuthorityIsExact
    <2>11. ConsumedFits'
      <3>1. ASSUME NEW u \in IoThread PROVE io'[u].at # "send_backend"
        BY <1>1 DEF backend_send, LocksHeld, SendSteps
      <3> QED  BY <3>1 DEF ConsumedFits
    <2> QED  BY <2>8, <2>9, <2>10, <2>11 DEF GrantInv
  <1> QED  BY <1>2, <1>3 DEF backend_send

\* A grant is issued once, for an authority nothing has been sent on.
LEMMA IssueKeeps ==
    ASSUME TransportTypeOK, GrantInv, NEW t \in IoThread, issueAuthority(t)
    PROVE  GrantInv'
  <1>1. PICK k \in Token, f \in Dangerous, expiry \in Times :
          /\ issued[k] = NoGrant /\ expiry > clock
          /\ grants' = [grants EXCEPT ![k] = [frame |-> f, expiry |-> expiry]]
          /\ issued' = [issued EXCEPT ![k] = [frame |-> f, expiry |-> expiry]]
    BY DEF issueAuthority
  <1>2. io' = io /\ wire' = wire
    BY DEF issueAuthority
  <1>3. [frame |-> f, expiry |-> expiry] # NoGrant
    BY DEF NoGrant, Dangerous
  <1>4. ~Spent(k) /\ \A i \in DOMAIN wire : wire[i].token # k
    BY <1>1 DEF GrantInv, SentWasIssued, Spent
  <1>5. \A q \in Token : q # k => grants'[q] = grants[q] /\ issued'[q] = issued[q]
    BY <1>1 DEF TransportTypeOK
  <1>6. grants'[k] = issued'[k] /\ issued'[k] # NoGrant
    BY <1>1, <1>3 DEF TransportTypeOK
  <1>7. LiveGrantIsFresh'
    BY <1>2, <1>4, <1>5, <1>6 DEF GrantInv, LiveGrantIsFresh, Spent
  <1>8. \A i \in DOMAIN wire : wire[i] \in Sent /\ wire[i].token \in Token
    <2>1. \A i \in DOMAIN wire : wire[i] \in Sent
      BY DEF TransportTypeOK
    <2> QED  BY <2>1 DEF Sent
  <1>9. SentWasIssued' /\ AuthorityIsExact'
    <2>1. \A i \in DOMAIN wire : issued'[wire[i].token] = issued[wire[i].token]
      BY <1>4, <1>5, <1>8
    <2> QED  BY <1>2, <2>1 DEF GrantInv, SentWasIssued, AuthorityIsExact
  <1>10. ConsumedFits'
    <2>1. ASSUME NEW u \in IoThread, io[u].at = "send_backend", io[u].token # NoToken
          PROVE  io[u].token \in Token /\ io[u].token # k
      BY <1>1, <2>1 DEF GrantInv, ConsumedFits, TransportTypeOK
    <2> QED  BY <1>2, <1>5, <2>1 DEF GrantInv, ConsumedFits, Spent
  <1> QED  BY <1>7, <1>9, <1>10 DEF GrantInv

\* The authorities, one step per action.
LEMMA GrantsStep ==
    TransportTypeOK /\ LocksHeld /\ GrantInv /\ [TransportNext]_transportVars => GrantInv'
  <1> SUFFICES ASSUME TransportTypeOK, LocksHeld, GrantInv, [TransportNext]_transportVars
               PROVE  GrantInv'
    OBVIOUS
  <1>1. ASSUME NEW t \in IoThread, CallStarts(t) PROVE GrantInv'
    <2>1. CASE send(t) \/ receive(t) \/ close_begin(t)
      <3>1. \A u \in IoThread : io'[u] = io[u] \/ io'[u].at # "send_backend"
        <4>1. CASE send(t)
          BY <4>1 DEF send, TransportTypeOK
        <4>2. CASE receive(t)
          BY <4>2 DEF receive, TransportTypeOK, Idle
        <4>3. CASE close_begin(t)
          BY <4>3, GoMoves DEF close_begin
        <4> QED  BY <2>1, <4>1, <4>2, <4>3
      <3> QED  BY <2>1, <3>1, GrantsUntouched DEF send, receive, close_begin
    <2> QED  BY <1>1, <2>1, IssueKeeps DEF CallStarts
  <1>2. ASSUME NEW t \in IoThread, TransportGoesOn(t) PROVE GrantInv'
    <2>1. CASE send_lock(t) \/ receive_lock(t) \/ close_lock(t) \/ close_wake(t) \/ close_join(t)
      <3>1. \A u \in IoThread : io'[u] = io[u] \/ io'[u].at # "send_backend"
        BY <2>1, GoMoves DEF send_lock, receive_lock, close_lock, close_wake, close_join
      <3> QED
        BY <2>1, <3>1, GrantsUntouched
        DEF send_lock, receive_lock, close_lock, close_wake, close_join
    <2>2. CASE send_check(t)
      <3>1. \A u \in IoThread : \/ io'[u] = io[u] \/ io'[u].at # "send_backend"
                                \/ io'[u].token = NoToken
        BY <2>2, GoMoves, LeaveLeaves DEF send_check
      <3> QED  BY <2>2, <3>1, GrantsUntouched DEF send_check
    <2>3. CASE receive_check(t) \/ backend_receive(t)
      <3>1. \A u \in IoThread : io'[u] = io[u] \/ io'[u].at # "send_backend"
        BY <2>3, GoMoves, LeaveLeaves DEF receive_check, backend_receive
      <3> QED  BY <2>3, <3>1, GrantsUntouched DEF receive_check, backend_receive
    <2>4. CASE close_clear(t)
      <3>1. \A u \in IoThread : io'[u] = io[u] \/ io'[u].at = "idle"
        BY <2>4, LeaveLeaves DEF close_clear
      <3>2. issued' = issued /\ wire' = wire /\ \A k \in Token : grants'[k] = NoGrant
        BY <2>4 DEF close_clear
      <3>3. ConsumedFits'
        BY <3>1, <3>2 DEF GrantInv, ConsumedFits, Spent, TransportTypeOK
      <3> QED
        BY <3>2, <3>3 DEF GrantInv, LiveGrantIsFresh, SentWasIssued, AuthorityIsExact
    <2> QED
      BY <1>2, <2>1, <2>2, <2>3, <2>4, ConsumeKeeps, BackendSendKeeps DEF TransportGoesOn
  <1>3. CASE monotonicNow \/ UNCHANGED transportVars
    BY <1>3, GrantsUntouched DEF monotonicNow, transportVars
  <1> QED  BY <1>1, <1>2, <1>3 DEF TransportNext

-----------------------------------------------------------------------------
(* Closing.                                                                *)

CloseInv == CloseProgress /\ NothingAfterClose

\* A step of t that neither starts to clear, nor lets a send past its check when
\* the transport is closed, nor makes a grant.
LEMMA CloseUntouched ==
    ASSUME TransportTypeOK, LocksHeld, CloseInv, NEW t \in IoThread,
           \A u \in IoThread : u # t => io'[u] = io[u],
           io'[t].at \in PastCheck => ~closed \/ io[t].at \in PastCheck,
           io'[t].at # "close_clear",
           io'[t].at \in CloseSteps => closed',
           closed => closed', over' = over,
           \A k \in Token : grants'[k] = grants[k] \/ grants'[k] = NoGrant
    PROVE  CloseInv'
  <1>1. CloseProgress'
    BY DEF CloseInv, CloseProgress, PastCheck, CloseSteps
  <1>2. NothingAfterClose'
    BY DEF CloseInv, CloseProgress, NothingAfterClose, PastCheck
  <1> QED  BY <1>1, <1>2 DEF CloseInv

\* The close protocol, one step per action.
LEMMA ClosesStep ==
    TransportTypeOK /\ LocksHeld /\ CloseInv /\ [TransportNext]_transportVars => CloseInv'
  <1> SUFFICES ASSUME TransportTypeOK, LocksHeld, CloseInv, [TransportNext]_transportVars
               PROVE  CloseInv'
    OBVIOUS
  <1> USE DEF PastCheck, CloseSteps
  <1>1. ASSUME NEW t \in IoThread, CallStarts(t) PROVE CloseInv'
    <2>1. CASE send(t) \/ receive(t) \/ close_begin(t)
      <3>1. io'[t].at \in {"send", "receive", "close"} /\ \A u \in IoThread : u # t => io'[u] = io[u]
        <4>1. CASE send(t)
          BY <4>1 DEF send, TransportTypeOK
        <4>2. CASE receive(t)
          BY <4>2 DEF receive, TransportTypeOK, Idle
        <4>3. CASE close_begin(t)
          BY <4>3, GoMoves DEF close_begin
        <4> QED  BY <2>1, <4>1, <4>2, <4>3
      <3>2. UNCHANGED <<closed, over, grants>>
        BY <2>1 DEF send, receive, close_begin
      <3> QED  BY <3>1, <3>2, CloseUntouched
    <2>2. CASE issueAuthority(t)
      BY <2>2 DEF issueAuthority, CloseInv, CloseProgress, NothingAfterClose
    <2> QED  BY <1>1, <2>1, <2>2 DEF CallStarts
  <1>2. ASSUME NEW t \in IoThread, TransportGoesOn(t) PROVE CloseInv'
    <2>1. CASE send_lock(t) \/ receive_lock(t)
      BY <2>1, GoMoves, CloseUntouched DEF send_lock, receive_lock
    <2>2. CASE close_lock(t)
      BY <2>2, GoMoves, CloseUntouched DEF close_lock
    <2>3. CASE send_check(t)
      <3>1. UNCHANGED <<closed, over, grants>>
        BY <2>3 DEF send_check
      <3>2. CASE LeaveIo(t, "send")
        BY <3>1, <3>2, LeaveLeaves, CloseUntouched
      <3>3. ASSUME NEW a \in PastCheck, Go(t, a), ~closed PROVE CloseInv'
        BY <3>1, <3>3, GoMoves, CloseUntouched
      <3> QED  BY <2>3, <3>2, <3>3 DEF send_check
    <2>4. CASE receive_check(t)
      <3>1. UNCHANGED <<closed, over, grants>>
        BY <2>4 DEF receive_check
      <3>2. CASE LeaveIo(t, "receive")
        BY <3>1, <3>2, LeaveLeaves, CloseUntouched
      <3>3. CASE Go(t, "receive_backend")
        BY <3>1, <3>3, GoMoves, CloseUntouched
      <3> QED  BY <2>4, <3>2, <3>3 DEF receive_check
    <2>5. CASE consumeAuthority(t)
      <3>1. /\ UNCHANGED <<closed, over>>
            /\ \A k \in Token : grants'[k] = grants[k] \/ grants'[k] = NoGrant
        BY <2>5 DEF consumeAuthority, TransportTypeOK
      <3>2. CASE LeaveIo(t, "send")
        BY <3>1, <3>2, LeaveLeaves, CloseUntouched
      <3>3. CASE Go(t, "send_backend")
        BY <2>5, <3>1, <3>3, GoMoves, CloseUntouched DEF consumeAuthority
      <3> QED  BY <2>5, <3>2, <3>3 DEF consumeAuthority
    <2>6. CASE backend_send(t)
      BY <2>6, LeaveLeaves, CloseUntouched DEF backend_send
    <2>7. CASE backend_receive(t)
      BY <2>7, LeaveLeaves, CloseUntouched DEF backend_receive
    <2>8. CASE close_wake(t)
      <3>1. closed
        BY <2>8 DEF close_wake, CloseInv, CloseProgress
      <3> QED  BY <2>8, <3>1, GoMoves, CloseUntouched DEF close_wake
    <2>9. CASE close_join(t)
      <3>1. \A u \in IoThread : io[u].at \notin PastCheck
        BY <2>9, TransportConstants DEF close_join, Free, LocksHeld, SendSteps
      <3>2. io'[t].at = "close_clear" /\ \A u \in IoThread : u # t => io'[u] = io[u]
        BY <2>9, GoMoves DEF close_join
      <3> QED
        BY <2>9, <3>1, <3>2 DEF close_join, CloseInv, CloseProgress, NothingAfterClose
    <2>10. CASE close_clear(t)
      <3>1. io'[t].at = "idle" /\ \A u \in IoThread : u # t => io'[u] = io[u]
        BY <2>10, LeaveLeaves DEF close_clear
      <3>2. \A u \in IoThread : io[u].at \notin PastCheck
        BY <2>10 DEF close_clear, CloseInv, CloseProgress
      <3>3. closed /\ \A k \in Token : grants'[k] = NoGrant
        BY <2>10 DEF close_clear, CloseInv, CloseProgress
      <3> QED
        BY <2>10, <3>1, <3>2, <3>3 DEF close_clear, CloseInv, CloseProgress, NothingAfterClose
    <2> QED
      BY <1>2, <2>1, <2>2, <2>3, <2>4, <2>5, <2>6, <2>7, <2>8, <2>9, <2>10 DEF TransportGoesOn
  <1>3. CASE monotonicNow \/ UNCHANGED transportVars
    BY <1>3 DEF monotonicNow, transportVars, CloseInv, CloseProgress, NothingAfterClose
  <1> QED  BY <1>1, <1>2, <1>3 DEF TransportNext

\* The invariant is inductive.
LEMMA TransportInvariant == TransportSpec => []TransportInv
  <1>1. TransportInit => TransportInv
    BY TransportInitially
  <1>2. TransportInv /\ [TransportNext]_transportVars => TransportInv'
    BY TransportTypes, LocksStep, GrantsStep, ClosesStep DEF TransportInv, GrantInv, CloseInv
  <1> QED  BY <1>1, <1>2, PTL DEF TransportSpec

\* An authority lets out its own frame, once and before it expires, however many
\* threads send, issue and close, and nothing is past the check of closed_ once
\* close() has returned (transport.cpp: send, consumeAuthority, close).
THEOREM TransportSound == TransportSpec => []TransportIsSound
  <1>1. TransportInv => TransportIsSound
    BY DEF TransportInv, TransportIsSound
  <1> QED  BY <1>1, TransportInvariant, PTL

\* The transport stays well typed, for every number of threads and authorities
\* (transport.cpp: every call).
THEOREM TransportTypeCorrect == TransportSpec => []TransportTypeOK
  <1>1. TransportInv => TransportTypeOK
    BY DEF TransportInv
  <1> QED  BY <1>1, TransportInvariant, PTL

-----------------------------------------------------------------------------
(* CanLink: the kernel's messages alternate and end in the state the         *)
(* interface has, so whatever has been read leaves the belief right, and the *)
(* last event told is the belief; ENETDOWN can only turn the belief to down. *)

LinkTyped ==
    /\ link \in BOOLEAN /\ linkUp \in BOOLEAN /\ broken \in BOOLEAN
    /\ sockError \in BOOLEAN /\ frames \in BOOLEAN
    /\ netlink \in Seq(BOOLEAN)
    /\ ~broken => ring \in Seq(BOOLEAN)
    /\ dropped \in 0 .. Wrap - 1 /\ lastCount \in 0 .. Wrap - 1 /\ lost \in 0 .. Wrap - 1
    /\ lastTold \in {"none", "up", "down"}

NetlinkEndsInLink ==
    /\ \A i \in 2 .. Len(netlink) : netlink[i] # netlink[i - 1]
    /\ netlink # <<>> => netlink[Len(netlink)] = link

BeliefFollows ==
    ~broken =>
        /\ netlink = <<>> /\ linkUp => link
        /\ ring # <<>> => ring[Len(ring)] = linkUp
        /\ ring = <<>> /\ lastTold = "up" => linkUp

LinkInv == LinkTyped /\ NetlinkEndsInLink /\ BeliefFollows /\ DropsAreCounted

\* The n-th of an interval.
LEMMA NthOfInterval ==
    ASSUME NEW f \in Nat, NEW l \in Nat, NEW n \in 1 .. l - f + 1
    PROVE  Nth(f .. l, n) = f + n - 1
  <1>1. ASSUME NEW i \in f .. l
        PROVE  Cardinality({j \in f .. l : j <= i}) = i - f + 1
    <2>1. {j \in f .. l : j <= i} = f .. i
      OBVIOUS
    <2>2. Cardinality(f .. i) = i - f + 1
      BY FS_Interval
    <2> QED  BY <2>1, <2>2
  <1> DEFINE upTo(i) == Cardinality({j \in f .. l : j <= i})
  <1>2. \A i \in f .. l : upTo(i) = i - f + 1
    BY <1>1
  <1>3. Nth(f .. l, n) = CHOOSE i \in f .. l : upTo(i) = n
    BY DEF Nth
  <1> HIDE DEF upTo
  <1>4. f + n - 1 \in f .. l /\ upTo(f + n - 1) = n
    BY <1>2
  <1>5. \A i \in f .. l : upTo(i) = n => i = f + n - 1
    BY <1>2
  <1> QED  BY <1>3, <1>4, <1>5

\* Of messages that alternate, all but perhaps the first change the state, so the
\* last one reported is the last one sent.
LEMMA AlternatingChanges ==
    ASSUME NEW up \in BOOLEAN, NEW batch \in Seq(BOOLEAN), batch # <<>>,
           \A i \in 2 .. Len(batch) : batch[i] # batch[i - 1]
    PROVE  /\ Changes(up, batch) \in Seq(BOOLEAN)
           /\ Changes(up, batch) = <<>> => batch[Len(batch)] = up
           /\ Changes(up, batch) # <<>> =>
                Changes(up, batch)[Len(Changes(up, batch))] = batch[Len(batch)]
  <1> DEFINE l == Len(batch)
             f == IF batch[1] = up THEN 2 ELSE 1
             s == [n \in 1 .. l - f + 1 |-> batch[f + n - 1]]
  <1>1. l \in Nat \ {0} /\ f \in {1, 2} /\ l - f + 1 \in Nat
    OBVIOUS
  <1>2. ChangeAt(up, batch) = f .. l
    BY DEF ChangeAt
  <1>3. Cardinality(f .. l) = l - f + 1
    <2> HIDE DEF f, l
    <2>1. f \in Int /\ l \in Int
      BY <1>1
    <2>2. Cardinality(f .. l) = IF f > l THEN 0 ELSE l - f + 1
      BY <2>1, FS_Interval
    <2> QED  BY <1>1, <2>1, <2>2
  <1>4. ASSUME NEW n \in 1 .. l - f + 1 PROVE Nth(f .. l, n) = f + n - 1
    BY <1>1, NthOfInterval
  <1>5. Changes(up, batch) = s
    <2>1. Changes(up, batch) = [n \in 1 .. l - f + 1 |-> batch[Nth(f .. l, n)]]
      BY <1>2, <1>3 DEF Changes
    <2> QED  BY <1>4, <2>1
  <1>6. \A n \in 1 .. l - f + 1 : batch[f + n - 1] \in BOOLEAN
    BY <1>1
  <1>7. s \in Seq(BOOLEAN) /\ Len(s) = l - f + 1
    BY <1>1, <1>6
  <1>8. s = <<>> => batch[l] = up
    <2>1. s = <<>> => l = 1 /\ f = 2
      <3> HIDE DEF f, l, s
      <3>1. s = <<>> => Len(s) = 0
        OBVIOUS
      <3> QED  BY <1>1, <1>7, <3>1
    <2> QED  BY <2>1
  <1>9. s # <<>> => s[Len(s)] = batch[l]
    <2>1. s # <<>> => l - f + 1 \in 1 .. l - f + 1
      BY <1>1, <1>7
    <2> QED  BY <1>1, <1>7, <2>1
  <1> HIDE DEF s
  <1> QED  BY <1>5, <1>7, <1>8, <1>9

\* One step around a counter that wraps.
LEMMA WrapOnce ==
    ASSUME NEW w \in Nat \ {0}, NEW x \in 0 .. 2 * w - 1
    PROVE  x % w = IF x < w THEN x ELSE x - w
  OBVIOUS

LEMMA DropsKept ==
    ASSUME LinkInv,
           \/ UNCHANGED <<dropped, lastCount, lost>>
           \/ /\ lost < Wrap - 1 /\ dropped' = (dropped + 1) % Wrap /\ lost' = lost + 1
              /\ UNCHANGED lastCount
           \/ lost' = 0 /\ lastCount' = dropped /\ UNCHANGED dropped
    PROVE  /\ DropsAreCounted'
           /\ dropped' \in 0 .. Wrap - 1 /\ lastCount' \in 0 .. Wrap - 1
           /\ lost' \in 0 .. Wrap - 1
  <1>1. /\ Wrap \in Nat \ {0} /\ dropped \in 0 .. Wrap - 1 /\ lastCount \in 0 .. Wrap - 1
        /\ lost \in 0 .. Wrap - 1
    BY LinkConstants DEF LinkInv, LinkTyped
  <1>2. lost = IF dropped < lastCount THEN dropped + Wrap - lastCount ELSE dropped - lastCount
    <2> DEFINE x == dropped + Wrap - lastCount
    <2>1. x \in 0 .. 2 * Wrap - 1
      BY <1>1
    <2>2. lost = x % Wrap
      BY DEF LinkInv, DropsAreCounted, OverflowDelta
    <2> HIDE DEF x
    <2>3. lost = IF x < Wrap THEN x ELSE x - Wrap
      BY <1>1, <2>1, <2>2, WrapOnce
    <2> QED  BY <1>1, <2>3 DEF x
  <1>3. CASE UNCHANGED <<dropped, lastCount, lost>>
    BY <1>1, <1>3 DEF LinkInv, DropsAreCounted, OverflowDelta
  <1>4. CASE /\ lost < Wrap - 1 /\ dropped' = (dropped + 1) % Wrap /\ lost' = lost + 1
             /\ UNCHANGED lastCount
    <2>1. dropped' = IF dropped + 1 < Wrap THEN dropped + 1 ELSE 0
      <3> DEFINE x == dropped + 1
      <3>1. x \in 0 .. 2 * Wrap - 1 /\ x <= Wrap
        BY <1>1
      <3>2. dropped' = x % Wrap
        BY <1>4
      <3> HIDE DEF x
      <3>3. dropped' = IF x < Wrap THEN x ELSE x - Wrap
        BY <1>1, <3>1, <3>2, WrapOnce
      <3> QED  BY <1>1, <3>1, <3>3 DEF x
    <2>3. (dropped' + Wrap - lastCount) % Wrap = lost + 1
      <3> DEFINE x == dropped' + Wrap - lastCount
      <3>1. x \in 0 .. 2 * Wrap - 1
        BY <1>1, <2>1
      <3>2. (IF x < Wrap THEN x ELSE x - Wrap) = lost + 1
        BY <1>1, <1>2, <1>4, <2>1
      <3> HIDE DEF x
      <3>3. x % Wrap = lost + 1
        BY <1>1, <3>1, <3>2, WrapOnce
      <3> QED  BY <3>3 DEF x
    <2> QED  BY <1>1, <1>4, <2>1, <2>3 DEF DropsAreCounted, OverflowDelta
  <1>5. CASE lost' = 0 /\ lastCount' = dropped /\ UNCHANGED dropped
    <2>1. (dropped + Wrap - dropped) % Wrap = 0
      BY <1>1, WrapOnce
    <2> QED  BY <1>1, <1>5, <2>1 DEF DropsAreCounted, OverflowDelta
  <1> QED  BY <1>3, <1>4, <1>5

LEMMA LinkStep ==
    ASSUME LinkInv, LinkNext
    PROVE  LinkInv'
  <1>1. LinkTyped /\ NetlinkEndsInLink /\ BeliefFollows
    BY DEF LinkInv
  <1>2. /\ DropsAreCounted'
        /\ dropped' \in 0 .. Wrap - 1 /\ lastCount' \in 0 .. Wrap - 1
        /\ lost' \in 0 .. Wrap - 1
    BY DropsKept DEF LinkNext, link_changes, frame_arrives, dequeueLink, drainLinkEvents,
                     receiveCan_down, receiveCan, kernelVars
  <1>3. CASE link_changes
    <2>1. LinkTyped'
      BY <1>1, <1>2, <1>3 DEF link_changes, LinkTyped
    <2>2. NetlinkEndsInLink'
      BY <1>1, <1>3 DEF link_changes, LinkTyped, NetlinkEndsInLink
    <2>3. BeliefFollows'
      BY <1>1, <1>3 DEF link_changes, LinkTyped, BeliefFollows
    <2> QED  BY <1>2, <2>1, <2>2, <2>3 DEF LinkInv
  <1>4. CASE frame_arrives
    BY <1>1, <1>2, <1>4 DEF frame_arrives, LinkInv, LinkTyped, NetlinkEndsInLink, BeliefFollows
  <1>5. CASE dequeueLink
    <2>1. LinkTyped'
      <3>1. ~broken => Tail(ring) \in Seq(BOOLEAN)
        BY <1>1, <1>5 DEF dequeueLink, LinkTyped
      <3>2. lastTold' \in {"up", "down"} /\ ring' = Tail(ring)
            /\ UNCHANGED <<kernelVars, linkUp, broken>>
        BY <1>5, Zenon DEF dequeueLink, Word
      <3> QED  BY <1>1, <1>2, <3>1, <3>2 DEF LinkTyped, kernelVars
    <2>2. NetlinkEndsInLink'
      BY <1>1, <1>5 DEF dequeueLink, NetlinkEndsInLink, kernelVars
    <2>3. BeliefFollows'
      <3>0. broken' = broken
        BY <1>5 DEF dequeueLink, kernelVars
      <3> SUFFICES ASSUME ~broken PROVE BeliefFollows'
        BY <3>0 DEF BeliefFollows
      <3>1. /\ ring \in Seq(BOOLEAN) /\ ring # <<>> /\ ring[Len(ring)] = linkUp
            /\ netlink = <<>> /\ linkUp => link
        BY <1>1, <1>5 DEF dequeueLink, LinkTyped, BeliefFollows
      <3>2. /\ ring' = Tail(ring) /\ UNCHANGED <<netlink, link, linkUp, broken>>
            /\ lastTold' = Word(Head(ring))
        BY <1>5 DEF dequeueLink, kernelVars
      <3>3. Len(ring) \in Nat \ {0} /\ Len(Tail(ring)) = Len(ring) - 1
        BY <3>1
      <3>4. Len(ring) = 1 => lastTold' = Word(linkUp)
        BY <3>1, <3>2
      <3>5. Len(ring) # 1 => Tail(ring)[Len(Tail(ring))] = ring[Len(ring)]
        BY <3>1, <3>3
      <3>6. lastTold' = "up" /\ ring' = <<>> => linkUp
        <4>1. ring' = <<>> => Len(ring) = 1
          BY <3>2, <3>3
        <4> QED  BY <3>4, <4>1 DEF Word
      <3>7. ring' # <<>> => ring'[Len(ring')] = linkUp
        <4>1. ring' # <<>> => Len(ring) # 1
          BY <3>1, <3>2, <3>3
        <4> QED  BY <3>1, <3>2, <3>5, <4>1
      <3> QED  BY <3>1, <3>2, <3>6, <3>7 DEF BeliefFollows
    <2> QED  BY <1>2, <2>1, <2>2, <2>3 DEF LinkInv
  <1>6. CASE drainLinkEvents
    <2>1. /\ Changes(linkUp, netlink) \in Seq(BOOLEAN)
          /\ Changes(linkUp, netlink) = <<>> => netlink[Len(netlink)] = linkUp
          /\ Changes(linkUp, netlink) # <<>> =>
               Changes(linkUp, netlink)[Len(Changes(linkUp, netlink))] = netlink[Len(netlink)]
      BY <1>1, <1>6, AlternatingChanges DEF drainLinkEvents, LinkTyped, NetlinkEndsInLink
    <2>2. /\ ring = <<>> /\ netlink # <<>> /\ netlink' = <<>>
          /\ UNCHANGED <<link, sockError, frames, lastTold>>
          /\ \/ /\ ring' = Changes(linkUp, netlink) /\ linkUp' = netlink[Len(netlink)]
                /\ UNCHANGED broken
             \/ broken' = TRUE /\ linkUp' \in {linkUp, Changes(linkUp, netlink)[LinkRing + 1]}
                /\ (linkUp' # linkUp => LinkRing < Len(Changes(linkUp, netlink)))
      BY <1>6 DEF drainLinkEvents
    <2>3. linkUp' \in BOOLEAN /\ broken' \in BOOLEAN /\ (~broken' => ring' \in Seq(BOOLEAN))
      <3>1. netlink[Len(netlink)] \in BOOLEAN
        BY <1>1, <2>2 DEF LinkTyped
      <3>2. LinkRing < Len(Changes(linkUp, netlink)) =>
              Changes(linkUp, netlink)[LinkRing + 1] \in BOOLEAN
        BY <2>1, LinkConstants
      <3>3. linkUp \in BOOLEAN /\ broken \in BOOLEAN
        BY <1>1 DEF LinkTyped
      <3>4. linkUp' \in BOOLEAN
        BY <2>2, <3>1, <3>2, <3>3
      <3>5. CASE broken' = TRUE
        BY <3>4, <3>5
      <3>6. CASE ring' = Changes(linkUp, netlink) /\ UNCHANGED broken
        BY <2>1, <3>3, <3>4, <3>6
      <3> QED  BY <2>2, <3>5, <3>6
    <2>4. LinkTyped'
      BY <1>1, <1>2, <2>2, <2>3 DEF LinkTyped
    <2>5. NetlinkEndsInLink'
      BY <2>2 DEF NetlinkEndsInLink
    <2>6. BeliefFollows'
      BY <1>1, <2>1, <2>2 DEF BeliefFollows, NetlinkEndsInLink
    <2> QED  BY <1>2, <2>4, <2>5, <2>6 DEF LinkInv
  <1>7. CASE receiveCan_down \/ receiveCan
    <2>1. /\ UNCHANGED <<link, netlink, ring, broken>> /\ ring = <<>>
          /\ sockError' \in BOOLEAN /\ frames' \in BOOLEAN
          /\ \/ linkUp' = FALSE /\ lastTold' = "down"
             \/ UNCHANGED <<linkUp, lastTold>>
      BY <1>1, <1>7 DEF receiveCan_down, receiveCan, LinkTyped
    <2>2. LinkTyped'
      BY <1>1, <1>2, <2>1 DEF LinkTyped
    <2>3. NetlinkEndsInLink'
      BY <1>1, <2>1 DEF NetlinkEndsInLink
    <2>4. BeliefFollows'
      BY <1>1, <2>1 DEF BeliefFollows, LinkTyped
    <2> QED  BY <1>2, <2>2, <2>3, <2>4 DEF LinkInv
  <1> QED  BY <1>3, <1>4, <1>5, <1>6, <1>7 DEF LinkNext

LEMMA LinkStarts == LinkInit => LinkInv
  <1>1. Wrap \in Nat \ {0} /\ (0 + Wrap - 0) % Wrap = 0
    BY LinkConstants, WrapOnce
  <1>2. LinkInit => LinkTyped
    <2> SUFFICES ASSUME LinkInit PROVE LinkTyped
      OBVIOUS
    <2>1. link \in BOOLEAN /\ ring = <<link>> /\ netlink = <<>>
      BY DEF LinkInit
    <2>2. ring \in Seq(BOOLEAN) /\ netlink \in Seq(BOOLEAN)
      BY <2>1
    <2>3. /\ linkUp = link /\ broken = FALSE /\ sockError = FALSE /\ frames = FALSE
          /\ dropped = 0 /\ lastCount = 0 /\ lost = 0 /\ lastTold = "none"
      BY DEF LinkInit
    <2>4. link \in BOOLEAN /\ 0 \in 0 .. Wrap - 1
      BY <1>1, <2>1
    <2> QED  BY <2>2, <2>3, <2>4 DEF LinkTyped
  <1>3. LinkInit => NetlinkEndsInLink /\ BeliefFollows
    <2> SUFFICES ASSUME LinkInit PROVE NetlinkEndsInLink /\ BeliefFollows
      OBVIOUS
    <2>1. /\ ring = <<link>> /\ linkUp = link /\ netlink = <<>> /\ lastTold = "none"
      BY DEF LinkInit
    <2>2. ring # <<>> /\ ring[Len(ring)] = linkUp
      BY <2>1
    <2> QED  BY <2>1, <2>2 DEF NetlinkEndsInLink, BeliefFollows
  <1>4. LinkInit => DropsAreCounted
    BY <1>1 DEF LinkInit, DropsAreCounted, OverflowDelta
  <1> QED  BY <1>2, <1>3, <1>4 DEF LinkInv

LEMMA LinkInductive == LinkInv /\ [LinkNext]_linkVars => LinkInv'
  <1>1. ASSUME LinkInv, UNCHANGED linkVars PROVE LinkInv'
    BY <1>1 DEF linkVars, LinkInv, LinkTyped, NetlinkEndsInLink, BeliefFollows,
                DropsAreCounted, OverflowDelta
  <1> QED  BY <1>1, LinkStep

\* The ring stays a sequence of states within its size, the kernel's messages within
\* their bound, also after an error: drainLinkEvents queues a part of the changes.
LinkBounded ==
    /\ Len(netlink) <= MaxNetlink
    /\ ring \in Seq(BOOLEAN) /\ Len(ring) <= LinkRing

LEMMA LinkBoundedStarts == LinkInit => LinkBounded
  <1> SUFFICES ASSUME LinkInit PROVE LinkBounded
    OBVIOUS
  <1>1. link \in BOOLEAN /\ ring = <<link>> /\ netlink = <<>>
    BY DEF LinkInit
  <1>2. ring \in Seq(BOOLEAN) /\ Len(ring) = 1 /\ Len(netlink) = 0
    BY <1>1
  <1> QED  BY <1>2, LinkConstants DEF LinkBounded

LEMMA LinkBoundedKept ==
    ASSUME LinkInv, LinkBounded, [LinkNext]_linkVars
    PROVE  LinkBounded'
  <1>1. /\ ring \in Seq(BOOLEAN) /\ Len(ring) <= LinkRing /\ LinkRing \in Nat \ {0}
        /\ netlink \in Seq(BOOLEAN) /\ Len(netlink) <= MaxNetlink /\ MaxNetlink \in Nat
    BY LinkConstants DEF LinkInv, LinkTyped, LinkBounded
  <1>2. CASE link_changes
    <2>1. Len(netlink') = Len(netlink) + 1 /\ Len(netlink) < MaxNetlink /\ ring' = ring
      BY <1>1, <1>2 DEF link_changes
    <2> QED  BY <1>1, <2>1 DEF LinkBounded
  <1>3. CASE dequeueLink
    <2>1. /\ ring' = Tail(ring) /\ netlink' = netlink /\ ring # <<>>
      BY <1>3 DEF dequeueLink, kernelVars
    <2>2. ring' \in Seq(BOOLEAN) /\ Len(ring') = Len(ring) - 1
      BY <1>1, <2>1
    <2> QED  BY <1>1, <2>1, <2>2 DEF LinkBounded
  <1>4. CASE drainLinkEvents
    <2> DEFINE new == Changes(linkUp, netlink)
    <2>1. new \in Seq(BOOLEAN)
      BY <1>4, AlternatingChanges DEF drainLinkEvents, LinkInv, LinkTyped, NetlinkEndsInLink
    <2>2. /\ netlink' = <<>> /\ ring = <<>>
          /\ \/ Len(new) <= LinkRing /\ ring' = new
             \/ Len(new) > LinkRing /\ ring' = SubSeq(new, 1, LinkRing)
             \/ ring' = ring
      BY <1>4 DEF drainLinkEvents
    <2> HIDE DEF new
    <2>3. Len(new) > LinkRing =>
            SubSeq(new, 1, LinkRing) \in Seq(BOOLEAN) /\ Len(SubSeq(new, 1, LinkRing)) = LinkRing
      BY <1>1, <2>1
    <2>4. netlink' = <<>> /\ Len(<<>>) = 0
      BY <2>2
    <2>5. ring' \in Seq(BOOLEAN) /\ Len(ring') <= LinkRing
      <3>1. CASE Len(new) <= LinkRing /\ ring' = new
        BY <2>1, <3>1
      <3>2. CASE Len(new) > LinkRing /\ ring' = SubSeq(new, 1, LinkRing)
        BY <1>1, <2>3, <3>2
      <3>3. CASE ring' = ring
        BY <1>1, <3>3
      <3> QED  BY <2>2, <3>1, <3>2, <3>3
    <2> QED  BY <1>1, <2>4, <2>5 DEF LinkBounded
  <1>5. CASE frame_arrives \/ receiveCan_down \/ receiveCan \/ UNCHANGED linkVars
    BY <1>1, <1>5 DEF frame_arrives, receiveCan_down, receiveCan, linkVars, LinkBounded
  <1> QED  BY <1>2, <1>3, <1>4, <1>5 DEF LinkNext

LEMMA LinkTyping == LinkInv /\ LinkBounded => LinkTypeOK
  <1> SUFFICES ASSUME LinkInv, LinkBounded PROVE LinkTypeOK
    OBVIOUS
  <1>1. {link, sockError, frames, linkUp, broken} \subseteq BOOLEAN
    BY DEF LinkInv, LinkTyped
  <1>2. {dropped, lastCount, lost} \subseteq 0 .. Wrap - 1
    BY DEF LinkInv, LinkTyped
  <1>3. netlink \in Seq(BOOLEAN) /\ lastTold \in {"none", "up", "down"}
    BY DEF LinkInv, LinkTyped
  <1> QED  BY <1>1, <1>2, <1>3 DEF LinkBounded, LinkTypeOK

LEMMA LinkTells == LinkInv => LinkIsTold
  BY DEF LinkInv, BeliefFollows, LinkIsTold, NeverFalselyUp, Quiet

LEMMA LinkInvariant == LinkSpec => []LinkInv
  BY LinkStarts, LinkInductive, PTL DEF LinkSpec

\* The SocketCAN backend tells link and losses as they are: whichever of netlink and
\* the socket error speaks first, a caller that has received everything does not
\* believe in a link that is down, and no frame the kernel dropped goes uncounted
\* (drainLinkEvents, receiveCan).
THEOREM LinkIsToldAsItIs == LinkSpec => []LinkIsTold
  BY LinkInvariant, LinkTells, PTL

\* Every variable of the backend and of the kernel's part of it stays in its range,
\* link_events_ within its size (drainLinkEvents).
THEOREM LinkTypes == LinkSpec => []LinkTypeOK
  <1>1. LinkInv /\ LinkBounded /\ [LinkNext]_linkVars => LinkBounded'
    BY LinkBoundedKept
  <1> QED  BY <1>1, LinkInvariant, LinkBoundedStarts, LinkTyping, PTL DEF LinkSpec

-----------------------------------------------------------------------------
(* CanProbe.  A probe that has counted nothing stale knows of every clean  *)
(* frame of an expected motor: it has put the motor into a mask, and a     *)
(* second one into another.                                                *)

\* What may lie in the receive queue.
ArrivedFrames == UNION {Arrivals(i) : i \in Motors}
QueuedFrames == [frame : ArrivedFrames, at : ProbeTimes]

ProbeTyped ==
    /\ power \in [Motors -> {0, 1, 14}] /\ queue \in Seq(QueuedFrames)
    /\ busNow \in Nat /\ deadline \in Nat /\ rejected \in BOOLEAN
    /\ epochs \in Seq(Nat)
    /\ masks \in [fresh : SUBSET Motors, enabled : SUBSET Motors, fault : SUBSET Motors,
                  duplicate : SUBSET Motors]
    /\ counts \in [received : Nat, stale : Nat]
    /\ at \in {"idle", "send", "now", "receive", "verdict"}

\* Where a probe is says what it has.
ProbeStage ==
    /\ at \in {"send", "now"} => masks = NoMasks /\ counts = NoCounts /\ seen = {}
    /\ at # "idle" => verdict = "none"
    /\ at = "send" => Len(epochs) < Len(Expected)
    /\ at \in {"now", "receive"} => Len(epochs) = Len(Expected)

\* A readable frame of motor i.
IsFrom(r, i) == r.frame.id = Expected[i].receive /\ r.frame.clean
\* What a first and a second frame of a motor leave behind in a probe.
Noted(i) == counts.stale > 0 \/ i \in masks.enabled \cup masks.fault \cup masks.fresh
Repeated(i) == counts.stale > 0 \/ i \in masks.enabled \cup masks.fault \cup masks.duplicate
\* The frame that made motor i fresh.
InTime(r, i) ==
    r.frame = StatusFrame(Expected[i], 0) /\ r.at > epochs[i] /\ r.at <= deadline

\* Every frame received is accounted for.
FramesAreNoted ==
    /\ \A r \in seen : r.n \in Nat /\ r.n <= counts.received
    /\ \A r \in seen, i \in Motors : IsFrom(r, i) => Noted(i)
    /\ \A r \in seen, s \in seen, i \in Motors :
         IsFrom(r, i) /\ IsFrom(s, i) /\ r # s => Repeated(i)
    /\ \A i \in masks.fresh : power[i] = 0 /\ \E s \in seen : InTime(s, i)

\* OK is returned on clean masks only.
OkIsClean ==
    verdict = "OK" =>
        /\ masks.enabled = {} /\ masks.fault = {} /\ masks.duplicate = {}
        /\ masks.fresh = Motors /\ counts.stale = 0

ProbeInv == ProbeTyped /\ ProbeStage /\ FramesAreNoted /\ OkIsClean /\ RejectionSticks

\* The manifest's motors have numbers, and identifiers of their own.
LEMMA ManifestIsValid ==
    /\ Motors = 1 .. Len(Expected) /\ Len(Expected) \in Nat \ {0}
    /\ \A i \in Motors : Expected[i].motor \in 0 .. 15 /\ Expected[i].receive # Stranger.receive
    /\ \A i, j \in Motors : Expected[i].receive = Expected[j].receive => i = j
  BY ProbeConstants DEF Motors, oa_can_validate_manifest

\* What a motor's status byte decodes to.
LEMMA StatusNibble ==
    ASSUME NEW s \in {0, 1, 14}, NEW m \in 0 .. 15
    PROVE  Shr(s * 16 + m, 4) = s /\ Low(s * 16 + m, 4) = m
  <1>1. 2 ^ 4 = 16
    OBVIOUS
  <1>2. (s * 16 + m) \div 16 = s /\ (s * 16 + m) % 16 = m
    OBVIOUS
  <1> QED BY <1>1, <1>2 DEF Shr, Low

\* A frame of the queue is a stranger's, or of one motor, readable or not.
LEMMA ArrivalIsOne ==
    ASSUME ProbeTyped, NEW f \in ArrivedFrames
    PROVE  \/ f.id = Stranger.receive /\ From(f) = {}
           \/ \E i \in Motors :
                /\ f.id = Expected[i].receive /\ From(f) = {i}
                /\ f.clean \in BOOLEAN /\ f.data[1] = power[i] * 16 + Expected[i].motor
                /\ f.clean => f = StatusFrame(Expected[i], power[i])
  <1>1. PICK i \in Motors : f \in Arrivals(i)
    BY DEF ArrivedFrames
  <1>2. CASE f = StatusFrame(Stranger, 0)
    <2>1. f.id = Stranger.receive
      BY <1>2 DEF StatusFrame
    <2> QED BY <2>1, ManifestIsValid DEF From
  <1>3. CASE f \in {StatusFrame(Expected[i], power[i]),
                    [StatusFrame(Expected[i], power[i]) EXCEPT !.clean = FALSE]}
    <2>1. /\ f.id = Expected[i].receive /\ f.clean \in BOOLEAN
          /\ f.data[1] = power[i] * 16 + Expected[i].motor
          /\ f.clean => f = StatusFrame(Expected[i], power[i])
      <3> DEFINE g == StatusFrame(Expected[i], power[i])
      <3>1. /\ g.id = Expected[i].receive /\ g.clean = TRUE
            /\ g.data[1] = power[i] * 16 + Expected[i].motor
            /\ g = [id |-> g.id, clean |-> g.clean, data |-> g.data]
        BY DEF StatusFrame
      <3>2. f = g \/ f = [g EXCEPT !.clean = FALSE]
        BY <1>3
      <3> HIDE DEF g
      <3>3. f.id = g.id /\ f.data = g.data /\ (f = g \/ f.clean = FALSE)
        BY <3>1, <3>2
      <3> QED BY <3>1, <3>3 DEF g
    <2>2. From(f) = {i}
      BY <2>1, ManifestIsValid DEF From
    <2> QED BY <2>1, <2>2
  <1> QED BY <1>1, <1>2, <1>3 DEF Arrivals

\* What the probe makes of it.
LEMMA ClassOfArrival ==
    ASSUME ProbeTyped, NEW f, NEW t \in Nat, NEW i \in Motors, From(f) = {i},
           f.id = Expected[i].receive, f.clean \in BOOLEAN,
           f.data[1] = power[i] * 16 + Expected[i].motor
    PROVE  /\ Class(f, t) \in {"stale", "invalid", "enabled", "fault", "disabled"}
           /\ Class(f, t) = "stale" <=> t <= epochs[i]
           /\ Class(f, t) = "invalid" => ~f.clean
           /\ Class(f, t) = "disabled" => f.clean /\ power[i] = 0
  <1>1. power[i] \in {0, 1, 14} /\ Expected[i].motor \in 0 .. 15
    BY ManifestIsValid DEF ProbeTyped
  <1>2. Shr(f.data[1], 4) = power[i] /\ Low(f.data[1], 4) = Expected[i].motor
    BY <1>1, StatusNibble
  <1>3. Decoded(f, i) = IF ~f.clean THEN "EFRAME"
                        ELSE IF power[i] \in {0, 1} THEN "OK" ELSE "EFAULT"
    BY <1>1, <1>2 DEF Decoded, oa_decode_feedback, KnownStatus, Healthy
  <1>4. (CHOOSE j \in From(f) : TRUE) = i
    OBVIOUS
  <1>5. Class(f, t) = IF t <= epochs[i] THEN "stale"
                      ELSE IF Decoded(f, i) \notin {"OK", "EFAULT"} THEN "invalid"
                      ELSE IF power[i] = 1 THEN "enabled"
                      ELSE IF Decoded(f, i) = "EFAULT" THEN "fault" ELSE "disabled"
    BY <1>2, <1>4 DEF Class
  <1> QED BY <1>1, <1>3, <1>5

LEMMA ProbeStarts == ASSUME ProbeInit PROVE ProbeInv
  <1> USE DEF ProbeInit, NoMasks, NoCounts
  <1>1. ProbeTyped
    <2>1. queue \in Seq(QueuedFrames) /\ epochs \in Seq(Nat)
      OBVIOUS
    <2>2. /\ masks \in [fresh : SUBSET Motors, enabled : SUBSET Motors,
                         fault : SUBSET Motors, duplicate : SUBSET Motors]
          /\ counts \in [received : Nat, stale : Nat]
      OBVIOUS
    <2> QED BY <2>1, <2>2 DEF ProbeTyped
  <1>2. ProbeStage /\ FramesAreNoted
    BY DEF ProbeStage, FramesAreNoted
  <1>3. OkIsClean /\ RejectionSticks
    BY DEF OkIsClean, RejectionSticks
  <1> QED BY <1>1, <1>2, <1>3 DEF ProbeInv

\* A frame that is sent leaves what the probe knows alone.
LEMMA SendKeepsRejection ==
    ASSUME ProbeInv, NEW f, oa_fake_send(f)
    PROVE  busNow' \in Nat /\ rejected' \in BOOLEAN /\ queue' = queue /\ RejectionSticks'
  <1>1. busNow' \in Nat /\ queue' = queue
    BY DEF ProbeInv, ProbeTyped, oa_fake_send
  <1> DEFINE legal == oa_frame_is_diagnostic(f) \/ oa_frame_is_special(f, DISABLE)
  <1>2. /\ rejected' = (rejected \/ ~legal)
        /\ lifecycle' = "FAULT" <=> lifecycle = "FAULT" \/ ~legal
    BY DEF oa_fake_send
  <1>3. legal \in BOOLEAN
    OBVIOUS
  <1> HIDE DEF legal
  <1> QED BY <1>1, <1>2, <1>3 DEF ProbeInv, ProbeTyped, RejectionSticks

\* What a step keeps that changes neither the motors nor what the probe has heard.
LEMMA HeardUnchanged ==
    ASSUME ProbeInv, ProbeTyped', ProbeStage', RejectionSticks',
           UNCHANGED <<power, epochs, deadline, masks, counts, seen, verdict>>
    PROVE  ProbeInv'
  BY DEF ProbeInv, FramesAreNoted, OkIsClean, IsFrom, Noted, Repeated, InTime

\* The caller's steps, before or after a probe.
LEMMA CallerKeepsProbe ==
    ASSUME ProbeInv,
           \/ \E i \in Motors : caller_sends(i)
           \/ \E i \in Motors, t \in ProbeTimes : \E f \in Arrivals(i) : enqueue_feedback(f, t)
           \/ set_time
    PROVE  ProbeInv'
  <1> USE DEF ProbeTimes
  <1>1. ASSUME NEW i \in Motors, caller_sends(i) PROVE ProbeInv'
    <2>1. PICK f : oa_fake_send(f)
      BY <1>1 DEF caller_sends
    <2>2. UNCHANGED <<power, at, epochs, deadline, masks, counts, seen, verdict>>
      BY <1>1 DEF caller_sends
    <2>3. busNow' \in Nat /\ rejected' \in BOOLEAN /\ queue' = queue /\ RejectionSticks'
      BY <2>1, SendKeepsRejection
    <2>4. ProbeTyped' /\ ProbeStage'
      BY <2>2, <2>3 DEF ProbeInv, ProbeTyped, ProbeStage, QueuedFrames, ArrivedFrames, Arrivals
    <2> QED BY <2>2, <2>3, <2>4, HeardUnchanged
  <1>2. ASSUME NEW i \in Motors, NEW t \in ProbeTimes, NEW f \in Arrivals(i), enqueue_feedback(f, t)
        PROVE  ProbeInv'
    <2>1. [frame |-> f, at |-> t] \in QueuedFrames
      BY <1>2 DEF QueuedFrames, ArrivedFrames
    <2>2. queue' \in Seq(QueuedFrames)
      BY <1>2, <2>1 DEF ProbeInv, ProbeTyped, enqueue_feedback
    <2>3. UNCHANGED <<power, busNow, lifecycle, rejected, at, epochs, deadline, masks, counts, seen, verdict>>
      BY <1>2 DEF enqueue_feedback
    <2>4. ProbeTyped' /\ ProbeStage' /\ RejectionSticks'
      BY <2>2, <2>3
      DEF ProbeInv, ProbeTyped, ProbeStage, RejectionSticks, QueuedFrames, ArrivedFrames, Arrivals
    <2> QED BY <2>3, <2>4, HeardUnchanged
  <1>3. ASSUME set_time PROVE ProbeInv'
    <2>1. UNCHANGED <<power, queue, lifecycle, rejected, at, epochs, deadline, masks, counts, seen, verdict>>
          /\ busNow' \in Nat
      BY <1>3 DEF set_time, ProbeInv, ProbeTyped
    <2>2. ProbeTyped' /\ ProbeStage' /\ RejectionSticks'
      BY <2>1
      DEF ProbeInv, ProbeTyped, ProbeStage, RejectionSticks, QueuedFrames, ArrivedFrames, Arrivals
    <2> QED BY <2>1, <2>2, HeardUnchanged
  <1> QED BY <1>1, <1>2, <1>3

\* The steps of a probe around the receive loop.
LEMMA ProbeCallKeepsInv ==
    ASSUME ProbeInv, probe_begin \/ probe_send \/ probe_now \/ probe_verdict
    PROVE  ProbeInv'
  <1> USE DEF QueuedFrames, ArrivedFrames, Arrivals
  <1>1. CASE probe_begin
    <2>1. /\ UNCHANGED <<power, queue, busNow, lifecycle, rejected, deadline>>
          /\ at' = "send" /\ epochs' = <<>> /\ masks' = NoMasks /\ counts' = NoCounts
          /\ seen' = {} /\ verdict' = "none"
      BY <1>1 DEF probe_begin, fakeVars
    <2>2. epochs' \in Seq(Nat) /\ Len(epochs') < Len(Expected)
      BY <2>1, ManifestIsValid
    <2>3. masks' \in [fresh : SUBSET Motors, enabled : SUBSET Motors,
                      fault : SUBSET Motors, duplicate : SUBSET Motors]
          /\ counts' \in [received : Nat, stale : Nat]
      BY <2>1 DEF NoMasks, NoCounts
    <2>4. ProbeTyped'
      BY <2>1, <2>2, <2>3 DEF ProbeInv, ProbeTyped
    <2>5. ProbeStage' /\ OkIsClean' /\ RejectionSticks'
      BY <2>1, <2>2 DEF ProbeInv, ProbeStage, OkIsClean, RejectionSticks
    <2>6. FramesAreNoted'
      BY <2>1 DEF FramesAreNoted, NoMasks
    <2> QED BY <2>4, <2>5, <2>6 DEF ProbeInv
  <1>2. CASE probe_send
    <2>1. /\ oa_fake_send(RefreshFrame(Expected[Len(epochs) + 1].send))
          /\ UNCHANGED <<power, deadline, masks, counts, seen, verdict>>
          /\ epochs' = Append(epochs, busNow')
          /\ at' = IF Len(epochs) + 1 = Len(Expected) THEN "now" ELSE "send"
          /\ at = "send"
      BY <1>2 DEF probe_send
    <2>2. busNow' \in Nat /\ rejected' \in BOOLEAN /\ queue' = queue /\ RejectionSticks'
      BY <2>1, SendKeepsRejection
    <2>3. epochs' \in Seq(Nat) /\ Len(epochs') = Len(epochs) + 1
      BY <2>1, <2>2 DEF ProbeInv, ProbeTyped
    <2>4. Len(epochs) \in Nat /\ Len(epochs) < Len(Expected)
      BY <2>1 DEF ProbeInv, ProbeTyped, ProbeStage
    <2>5. ProbeTyped'
      BY <2>1, <2>2, <2>3 DEF ProbeInv, ProbeTyped
    <2>6. ProbeStage'
      BY <2>1, <2>3, <2>4, ManifestIsValid DEF ProbeInv, ProbeStage
    <2>7. seen' = {} /\ masks'.fresh = {} /\ verdict' = "none"
      BY <2>1 DEF ProbeInv, ProbeStage, NoMasks
    <2> QED BY <2>2, <2>5, <2>6, <2>7 DEF ProbeInv, FramesAreNoted, OkIsClean
  <1>3. CASE probe_now
    <2>1. /\ UNCHANGED <<power, queue, busNow, lifecycle, rejected, epochs, masks, counts, seen, verdict>>
          /\ at = "now" /\ at' = "receive" /\ deadline' = busNow + Timeout
      BY <1>3 DEF probe_now, fakeVars
    <2>2. deadline' \in Nat
      BY <2>1, ProbeConstants DEF ProbeInv, ProbeTyped
    <2>3. ProbeTyped'
      BY <2>1, <2>2 DEF ProbeInv, ProbeTyped
    <2>4. ProbeStage' /\ OkIsClean' /\ RejectionSticks'
      BY <2>1 DEF ProbeInv, ProbeStage, OkIsClean, RejectionSticks
    <2>5. seen' = {} /\ masks'.fresh = {}
      BY <2>1 DEF ProbeInv, ProbeStage, NoMasks
    <2> QED BY <2>3, <2>4, <2>5 DEF ProbeInv, FramesAreNoted
  <1>4. CASE probe_verdict
    <2>1. /\ UNCHANGED <<power, queue, busNow, lifecycle, rejected, epochs, deadline, masks, counts, seen>>
          /\ at' = "idle"
          /\ verdict' = "OK" => /\ masks.enabled = {} /\ masks.fault = {} /\ masks.duplicate = {}
                                /\ masks.fresh = Motors /\ counts.stale = 0
      BY <1>4 DEF probe_verdict, fakeVars
    <2>2. ProbeTyped'
      BY <2>1 DEF ProbeInv, ProbeTyped
    <2>3. ProbeStage' /\ RejectionSticks' /\ OkIsClean'
      BY <2>1 DEF ProbeInv, ProbeStage, RejectionSticks, OkIsClean
    <2>4. FramesAreNoted'
      BY <2>1 DEF ProbeInv, FramesAreNoted, IsFrom, Noted, Repeated, InTime
    <2> QED BY <2>2, <2>3, <2>4 DEF ProbeInv
  <1> QED BY <1>1, <1>2, <1>3, <1>4

\* The receive loop ends and leaves what it has heard to the verdict.
LEMMA ProbeEndsReceiving ==
    ASSUME ProbeInv, probe_timeout \/ probe_budget
    PROVE  ProbeInv'
  <1>1. /\ UNCHANGED <<power, queue, epochs, deadline, masks, counts, seen, verdict, rejected>>
        /\ at' = "verdict" /\ at = "receive"
    BY DEF probe_timeout, probe_budget, oa_fake_timeout, fakeVars
  <1>2. busNow' \in Nat /\ (lifecycle' = "FAULT" <=> lifecycle = "FAULT")
    BY DEF probe_timeout, probe_budget, oa_fake_timeout, fakeVars, MaxOf, ProbeInv, ProbeTyped
  <1>3. ProbeTyped' /\ ProbeStage' /\ RejectionSticks'
    BY <1>1, <1>2
    DEF ProbeInv, ProbeTyped, ProbeStage, RejectionSticks, QueuedFrames, ArrivedFrames, Arrivals
  <1> QED BY <1>1, <1>3, HeardUnchanged

\* The head of the queue, and what is left.
LEMMA HeadOfQueue ==
    ASSUME ProbeTyped, queue # <<>>
    PROVE  /\ Head(queue).frame \in ArrivedFrames /\ Head(queue).at \in Nat
           /\ Tail(queue) \in Seq(QueuedFrames)
  <1>1. queue \in Seq(QueuedFrames)
    BY DEF ProbeTyped
  <1>2. Head(queue) \in QueuedFrames /\ Tail(queue) \in Seq(QueuedFrames)
    BY <1>1
  <1> QED BY <1>2, ProbeConstants DEF QueuedFrames, ProbeTimes

\* Receiving one more frame, whatever it is: it is noted, as a second one where
\* the motor has been heard before, and makes a motor fresh only in time.
LEMMA OneMoreIsNoted ==
    ASSUME ProbeInv, ProbeTyped', NEW s,
           UNCHANGED <<power, epochs, deadline>>,
           seen' = seen \cup {s}, s.n = counts.received + 1,
           counts'.received = counts.received + 1, counts'.stale >= counts.stale,
           masks.fresh \subseteq masks'.fresh, masks.enabled \subseteq masks'.enabled,
           masks.fault \subseteq masks'.fault, masks.duplicate \subseteq masks'.duplicate,
           \A i \in Motors : IsFrom(s, i) => /\ Noted(i)'
                                             /\ Noted(i) => Repeated(i)',
           \A i \in masks'.fresh \ masks.fresh : power[i] = 0 /\ InTime(s, i)'
    PROVE  FramesAreNoted'
  <1> USE DEF ProbeInv, ProbeTyped
  <1>1. \A r \in seen' : r.n \in Nat /\ r.n <= counts'.received
    BY DEF FramesAreNoted
  <1>2. \A i \in Motors : /\ Noted(i) => Noted(i)'
                          /\ Repeated(i) => Repeated(i)'
    BY DEF Noted, Repeated
  <1>3. \A r \in seen', i \in Motors : IsFrom(r, i) => Noted(i)'
    BY <1>2 DEF FramesAreNoted
  <1>4. \A r \in seen', q \in seen', i \in Motors :
          IsFrom(r, i) /\ IsFrom(q, i) /\ r # q => Repeated(i)'
    <2> SUFFICES ASSUME NEW r \in seen', NEW q \in seen', NEW i \in Motors,
                        IsFrom(r, i), IsFrom(q, i), r # q
                 PROVE  Repeated(i)'
      OBVIOUS
    <2>1. CASE r \in seen /\ q \in seen
      BY <1>2, <2>1 DEF FramesAreNoted
    <2>2. CASE r = s \/ q = s
      BY <2>2 DEF FramesAreNoted
    <2> QED BY <2>1, <2>2
  <1>5. \A i \in masks'.fresh : power'[i] = 0 /\ \E r \in seen' : InTime(r, i)'
    BY DEF FramesAreNoted, InTime
  <1> QED BY <1>1, <1>3, <1>4, <1>5 DEF FramesAreNoted, IsFrom

\* What the masks become.
LEMMA ReceiveKeepsInv ==
    ASSUME ProbeInv, probe_receive
    PROVE  ProbeInv'
  <1> DEFINE f == Head(queue).frame
             t == Head(queue).at
             c == Class(f, t)
             Add(mask, class) == mask \cup (IF c = class THEN From(f) ELSE {})
  <1>0. PICK s : s = [n |-> counts.received + 1, frame |-> f, at |-> t]
    OBVIOUS
  <1>1. /\ UNCHANGED <<power, at, epochs, deadline, verdict, rejected>>
        /\ at = "receive" /\ queue # <<>> /\ queue' = Tail(queue) /\ ~(t > deadline)
        /\ seen' = seen \cup {s}
    <2>1. queue # <<>> /\ ~(t > deadline)
      BY DEF probe_receive, oa_fake_receive, Late
    <2>2. seen' = seen \cup {s}
      BY <1>0 DEF probe_receive
    <2> QED BY <2>1, <2>2 DEF probe_receive, oa_fake_receive
  <1>2. f \in ArrivedFrames /\ t \in Nat /\ queue' \in Seq(QueuedFrames)
    BY <1>1, HeadOfQueue DEF ProbeInv
  <1>3. busNow' \in Nat /\ (lifecycle' = "FAULT" <=> lifecycle = "FAULT")
    BY <1>2 DEF probe_receive, oa_fake_receive, MaxOf, ProbeInv, ProbeTyped
  <1>4. /\ masks' = [fresh |-> Add(masks.fresh, "disabled"),
                     enabled |-> Add(masks.enabled, "enabled"),
                     fault |-> Add(masks.fault, "fault"),
                     duplicate |-> masks.duplicate \cup
                        (IF c = "disabled" THEN From(f) \cap masks.fresh ELSE {})]
        /\ counts' = [received |-> counts.received + 1,
                      stale |-> counts.stale + (IF c = "stale" THEN 1 ELSE 0)]
    BY DEF probe_receive
  <1>5. From(f) \subseteq Motors
    BY DEF From
  <1>6. \/ f.id = Stranger.receive /\ From(f) = {}
        \/ \E i \in Motors :
             /\ f.id = Expected[i].receive /\ From(f) = {i}
             /\ f.clean \in BOOLEAN /\ f.data[1] = power[i] * 16 + Expected[i].motor
             /\ f.clean => f = StatusFrame(Expected[i], power[i])
    BY <1>2, ArrivalIsOne DEF ProbeInv
  <1>7. \A i \in Motors :
          /\ From(f) = {i} /\ f.id = Expected[i].receive
          /\ f.clean \in BOOLEAN /\ f.data[1] = power[i] * 16 + Expected[i].motor
          => /\ c \in {"stale", "invalid", "enabled", "fault", "disabled"}
             /\ c = "stale" <=> t <= epochs[i]
             /\ c = "invalid" => ~f.clean
             /\ c = "disabled" => f.clean /\ power[i] = 0
    BY <1>2, ClassOfArrival DEF ProbeInv
  <1>8. s.n = counts.received + 1 /\ s.frame = f /\ s.at = t
    BY <1>0
  <1> HIDE DEF f, t, c
  <1>9. masks'.fresh = Add(masks.fresh, "disabled") /\ masks'.enabled = Add(masks.enabled, "enabled")
        /\ masks'.fault = Add(masks.fault, "fault")
        /\ masks'.duplicate = masks.duplicate \cup
              (IF c = "disabled" THEN From(f) \cap masks.fresh ELSE {})
        /\ counts'.received = counts.received + 1
        /\ counts'.stale = counts.stale + (IF c = "stale" THEN 1 ELSE 0)
    BY <1>4
  <1>10. ProbeTyped'
    <2>1. masks' \in [fresh : SUBSET Motors, enabled : SUBSET Motors,
                      fault : SUBSET Motors, duplicate : SUBSET Motors]
      BY <1>4, <1>5 DEF ProbeInv, ProbeTyped
    <2>2. counts' \in [received : Nat, stale : Nat]
      BY <1>4 DEF ProbeInv, ProbeTyped
    <2> QED BY <1>1, <1>2, <1>3, <2>1, <2>2
            DEF ProbeInv, ProbeTyped, QueuedFrames, ArrivedFrames, Arrivals
  <1>11. counts.stale \in Nat
    BY DEF ProbeInv, ProbeTyped
  <1>12. \A i \in Motors : IsFrom(s, i) => Noted(i)' /\ (Noted(i) => Repeated(i)')
    <2> SUFFICES ASSUME NEW i \in Motors, f.id = Expected[i].receive, f.clean
                 PROVE  Noted(i)' /\ (Noted(i) => Repeated(i)')
      BY <1>8 DEF IsFrom
    <2>1. /\ From(f) = {i} /\ f.clean \in BOOLEAN
          /\ f.data[1] = power[i] * 16 + Expected[i].motor
      BY <1>6, ManifestIsValid
    <2>2. c \in {"stale", "enabled", "fault", "disabled"}
      BY <1>7, <2>1
    <2> HIDE DEF Add
    <2>3. CASE c = "stale"
      BY <1>9, <1>11, <2>3 DEF Noted, Repeated
    <2>4. CASE c = "enabled" \/ c = "fault"
      BY <1>9, <2>1, <2>4 DEF Noted, Repeated, Add
    <2>5. CASE c = "disabled"
      <3>1. i \in masks'.fresh
        BY <1>9, <2>1, <2>5 DEF Add
      <3>2. i \in masks.fresh => i \in masks'.duplicate
        BY <1>9, <2>1, <2>5
      <3>3. masks.enabled \subseteq masks'.enabled /\ masks.fault \subseteq masks'.fault
            /\ counts'.stale = counts.stale
        BY <1>9, <1>11, <2>5 DEF Add
      <3> QED BY <3>1, <3>2, <3>3 DEF Noted, Repeated
    <2> QED BY <2>2, <2>3, <2>4, <2>5
  <1>13. \A i \in masks'.fresh \ masks.fresh : power[i] = 0 /\ InTime(s, i)'
    <2> SUFFICES ASSUME NEW i \in masks'.fresh \ masks.fresh
                 PROVE  power[i] = 0 /\ InTime(s, i)'
      OBVIOUS
    <2>1. c = "disabled" /\ i \in From(f)
      BY <1>9
    <2>2. /\ i \in Motors /\ f.id = Expected[i].receive /\ From(f) = {i}
          /\ f.clean \in BOOLEAN /\ f.data[1] = power[i] * 16 + Expected[i].motor
          /\ f.clean => f = StatusFrame(Expected[i], power[i])
      BY <1>6, <2>1
    <2>3. f = StatusFrame(Expected[i], 0) /\ power[i] = 0 /\ ~(t <= epochs[i])
      BY <1>7, <2>1, <2>2
    <2>4. epochs[i] \in Nat
      BY <1>1, <2>2, ManifestIsValid DEF ProbeInv, ProbeTyped, ProbeStage
    <2>5. t > epochs[i] /\ t <= deadline
      BY <1>1, <1>2, <2>3, <2>4 DEF ProbeInv, ProbeTyped
    <2> QED BY <1>1, <1>8, <2>3, <2>5 DEF InTime
  <1>14. FramesAreNoted'
    <2>1. /\ counts'.stale >= counts.stale
          /\ masks.fresh \subseteq masks'.fresh /\ masks.enabled \subseteq masks'.enabled
          /\ masks.fault \subseteq masks'.fault /\ masks.duplicate \subseteq masks'.duplicate
      BY <1>9, <1>11
    <2> QED BY <1>1, <1>8, <1>9, <1>10, <1>12, <1>13, <2>1, OneMoreIsNoted
  <1>15. ProbeStage' /\ RejectionSticks' /\ OkIsClean'
    BY <1>1, <1>3 DEF ProbeInv, ProbeStage, RejectionSticks, OkIsClean
  <1> QED BY <1>10, <1>14, <1>15 DEF ProbeInv

LEMMA ProbeInductive ==
    ASSUME ProbeInv, [ProbeNext]_probeVars
    PROVE  ProbeInv'
  <1>1. CASE UNCHANGED probeVars
    <2>1. UNCHANGED <<power, epochs, deadline, masks, counts, seen, verdict>>
      BY <1>1 DEF probeVars
    <2>2. ProbeTyped' /\ ProbeStage' /\ RejectionSticks'
      BY <1>1 DEF probeVars, ProbeInv, ProbeTyped, ProbeStage, RejectionSticks, QueuedFrames,
                  ArrivedFrames, Arrivals
    <2> QED BY <2>1, <2>2, HeardUnchanged
  <1>2. CASE Probe
    BY <1>2, ProbeCallKeepsInv, ReceiveKeepsInv, ProbeEndsReceiving DEF Probe
  <1>3. CASE ProbeNext /\ ~Probe
    BY <1>3, CallerKeepsProbe DEF ProbeNext
  <1> QED BY <1>1, <1>2, <1>3

LEMMA ProbeTells ==
    ASSUME ProbeInv
    PROVE  ProbeIsHonest
  <1> SUFFICES ASSUME verdict = "OK", NEW i \in Motors
               PROVE  /\ power[i] = 0
                      /\ \E s \in seen :
                           /\ s.frame = StatusFrame(Expected[i], 0)
                           /\ s.at > epochs[i] /\ s.at <= deadline
                           /\ \A r \in seen \ {s} :
                                r.frame.id = Expected[i].receive => ~r.frame.clean
    BY DEF ProbeIsHonest, ProbeOkIsDisabled, ProbeInv
  <1>1. power[i] = 0 /\ ~Repeated(i)
    BY DEF ProbeInv, OkIsClean, FramesAreNoted, Repeated
  <1>2. PICK s \in seen : InTime(s, i)
    BY DEF ProbeInv, OkIsClean, FramesAreNoted
  <1>3. IsFrom(s, i)
    BY <1>2 DEF InTime, IsFrom, StatusFrame
  <1>4. \A r \in seen \ {s} : ~IsFrom(r, i)
    BY <1>1, <1>3 DEF ProbeInv, FramesAreNoted
  <1> QED BY <1>1, <1>2, <1>4 DEF InTime, IsFrom

LEMMA ProbeInvariant == ProbeSpec => []ProbeInv
  <1>1. ProbeInit => ProbeInv
    BY ProbeStarts
  <1>2. ProbeInv /\ [ProbeNext]_probeVars => ProbeInv'
    BY ProbeInductive
  <1> QED BY <1>1, <1>2, PTL DEF ProbeSpec

\* A probe that returns OK has heard every motor of the manifest once, in time and
\* disabled, and a transport that has refused a control frame never looks usable
\* again (oa_can_probe_expected, oa_fake_send, oa_fake_receive).
THEOREM ProbeTellsTheTruth == ProbeSpec => []ProbeIsHonest
  <1>1. ProbeInv => ProbeIsHonest
    BY ProbeTells
  <1> QED BY <1>1, ProbeInvariant, PTL

\* What a probe counts, and how late it may be: it sends before the clock's bound and
\* waits Timeout from the last request, never past its receive budget.
ProbeBounded ==
    /\ Len(queue) <= Capacity /\ lifecycle \in Lifecycles
    /\ busNow <= MaxTime + Timeout /\ deadline <= MaxTime + Timeout
    /\ at = "now" => busNow <= MaxTime
    /\ Len(epochs) <= Len(Expected)
    /\ counts.received <= Budget /\ counts.stale <= counts.received
    /\ verdict \in {"none", "OK", "ESTATE", "EFAULT", "ETIMEOUT"}

LEMMA ProbeBoundedStarts ==
    ASSUME ProbeInit
    PROVE  ProbeBounded
  <1>1. Len(queue) = 0 /\ Len(epochs) = 0
    BY DEF ProbeInit
  <1> QED BY <1>1, ProbeConstants, ManifestIsValid
          DEF ProbeInit, ProbeBounded, NoCounts, Lifecycles

LEMMA ProbeBoundedKept ==
    ASSUME ProbeInv, ProbeBounded, [ProbeNext]_probeVars
    PROVE  ProbeBounded'
  <1>1. /\ Len(queue) \in Nat /\ Len(epochs) \in Nat /\ Len(Expected) \in Nat \ {0}
        /\ busNow \in Nat /\ deadline \in Nat
        /\ counts.received \in Nat /\ counts.stale \in Nat
        /\ Capacity \in Nat /\ Budget \in Nat /\ Timeout \in Nat /\ MaxTime \in Nat
    BY ProbeConstants, ManifestIsValid DEF ProbeInv, ProbeTyped
  <1>2. ASSUME NEW f, oa_fake_send(f)
        PROVE  /\ busNow' \in Nat /\ busNow' <= MaxTime /\ queue' = queue
               /\ lifecycle' \in Lifecycles
    <2>1. busNow < MaxTime /\ busNow' = busNow + 1 /\ queue' = queue
      BY <1>2 DEF oa_fake_send
    <2>2. lifecycle' \in {lifecycle, "FAULT", "PROBING", "DISABLED"}
      BY <1>2, Zenon DEF oa_fake_send
    <2> QED BY <1>1, <2>1, <2>2 DEF ProbeBounded, Lifecycles
  <1>3. CASE probe_receive
    <2>1. /\ UNCHANGED <<at, epochs, deadline, verdict>>
          /\ counts.received < Budget /\ at = "receive"
          /\ queue # <<>> /\ queue' = Tail(queue) /\ ~(Head(queue).at > deadline)
          /\ busNow' = MaxOf(busNow, Head(queue).at)
      BY <1>3 DEF probe_receive, oa_fake_receive, Late
    <2>2. lifecycle' \in Lifecycles
      <3>1. lifecycle' \in {lifecycle, "PROBED"}
        BY <1>3, Zenon DEF probe_receive, oa_fake_receive
      <3> QED BY <3>1 DEF ProbeBounded, Lifecycles
    <2>3. Head(queue).at \in Nat
      BY <2>1, HeadOfQueue DEF ProbeInv
    <2>4. Len(queue') = Len(queue) - 1
      BY <2>1 DEF ProbeInv, ProbeTyped
    <2>5. \E n \in {0, 1} : counts' = [received |-> counts.received + 1,
                                       stale |-> counts.stale + n]
      <3> DEFINE k(n) == [received |-> counts.received + 1, stale |-> counts.stale + n]
      <3>1. counts' = k(0) \/ counts' = k(1)
        BY <1>3, Zenon DEF probe_receive
      <3> QED BY <3>1
    <2>6. /\ counts'.received = counts.received + 1
          /\ counts'.stale \in {counts.stale, counts.stale + 1}
      BY <1>1, <2>5
    <2>7. busNow' <= MaxTime + Timeout
      BY <1>1, <2>1, <2>3 DEF ProbeBounded, MaxOf
    <2>8. /\ Len(queue') <= Capacity
          /\ counts'.received <= Budget /\ counts'.stale <= counts'.received
      BY <1>1, <2>1, <2>4, <2>6 DEF ProbeBounded
    <2> QED BY <2>1, <2>2, <2>7, <2>8 DEF ProbeBounded
  <1>4. CASE probe_begin
    <2>1. Len(epochs') = 0
      BY <1>4 DEF probe_begin
    <2> QED BY <1>1, <1>4, <2>1 DEF probe_begin, fakeVars, ProbeBounded, NoCounts
  <1>5. CASE probe_send
    <2>1. /\ UNCHANGED <<deadline, counts, verdict>> /\ at = "send"
          /\ epochs' = Append(epochs, busNow')
      BY <1>5 DEF probe_send
    <2>2. /\ busNow' \in Nat /\ busNow' <= MaxTime /\ queue' = queue
          /\ lifecycle' \in Lifecycles
      BY <1>2, <1>5 DEF probe_send
    <2>3. Len(epochs') = Len(epochs) + 1 /\ Len(epochs) < Len(Expected)
      BY <2>1 DEF ProbeInv, ProbeTyped, ProbeStage
    <2> QED BY <1>1, <2>1, <2>2, <2>3 DEF ProbeBounded
  <1>6. CASE probe_now \/ probe_budget \/ probe_verdict
    <2>1. /\ UNCHANGED <<queue, lifecycle, busNow, epochs, counts>>
          /\ verdict' \in {verdict, "OK", "ESTATE", "EFAULT", "ETIMEOUT"}
          /\ at' # "now"
          /\ deadline' = deadline \/ (at = "now" /\ deadline' = busNow + Timeout)
      BY <1>6, Zenon DEF probe_now, probe_budget, probe_verdict, fakeVars
    <2> QED BY <1>1, <2>1 DEF ProbeBounded
  <1>7. CASE probe_timeout
    BY <1>1, <1>7 DEF probe_timeout, oa_fake_timeout, MaxOf, ProbeBounded, Lifecycles
  <1>8. ASSUME NEW i \in Motors, caller_sends(i)
        PROVE  ProbeBounded'
    <2>1. busNow' <= MaxTime /\ queue' = queue /\ lifecycle' \in Lifecycles
      BY <1>2, <1>8 DEF caller_sends
    <2>2. busNow' = busNow + 1
      BY <1>8 DEF caller_sends, oa_fake_send
    <2> QED BY <1>1, <1>8, <2>1, <2>2 DEF caller_sends, ProbeBounded
  <1>9. ASSUME NEW f, NEW t, enqueue_feedback(f, t)
        PROVE  ProbeBounded'
    <2>1. Len(queue') = Len(queue) + 1 /\ Len(queue) < Capacity
      BY <1>9 DEF enqueue_feedback, ProbeInv, ProbeTyped
    <2> QED BY <1>1, <1>9, <2>1 DEF enqueue_feedback, ProbeBounded
  <1>10. CASE set_time \/ UNCHANGED probeVars
    BY <1>1, <1>10 DEF set_time, probeVars, ProbeBounded
  <1> QED BY <1>3, <1>4, <1>5, <1>6, <1>7, <1>8, <1>9, <1>10 DEF ProbeNext, Probe

LEMMA ProbeTyping ==
    ASSUME ProbeInv, ProbeBounded
    PROVE  ProbeTypeOK
  <1>1. /\ Len(epochs) \in Nat /\ Len(Expected) \in Nat
        /\ Len(epochs) <= Len(Expected) /\ epochs \in Seq(Nat)
    BY ManifestIsValid DEF ProbeInv, ProbeTyped, ProbeBounded
  <1>2. DOMAIN epochs \subseteq Motors
    BY <1>1, ManifestIsValid
  <1>3. /\ counts.received \in 0 .. Budget /\ counts.stale \in 0 .. Budget
        /\ busNow \in 0 .. MaxTime + Timeout /\ deadline \in 0 .. MaxTime + Timeout
    BY ProbeConstants DEF ProbeInv, ProbeTyped, ProbeBounded
  <1> QED BY <1>2, <1>3 DEF ProbeTypeOK, ProbeInv, ProbeTyped, ProbeBounded

\* A probe stays in its ranges: it never receives more frames than its budget, waits
\* for no deadline later than Timeout after its last request, and counts no frame
\* stale that it has not received (oa_can_probe_expected).
THEOREM ProbeTypes == ProbeSpec => []ProbeTypeOK
  <1>1. ProbeInv /\ ProbeBounded /\ [ProbeNext]_probeVars => ProbeBounded'
    BY ProbeBoundedKept
  <1>2. ProbeInit => ProbeBounded
    BY ProbeBoundedStarts
  <1>3. ProbeInv /\ ProbeBounded => ProbeTypeOK
    BY ProbeTyping
  <1> QED BY <1>1, <1>2, <1>3, ProbeInvariant, PTL DEF ProbeSpec

-----------------------------------------------------------------------------
(* CanCodec.  First the conversions: a binary32 gives back what was put in *)
(* it, bytes and bit fields fall apart into what they were put together    *)
(* from.                                                                   *)

LEMMA PowersOfTwo ==
    /\ 2 ^ 0 = 1 /\ 2 ^ 1 = 2 /\ 2 ^ 2 = 4 /\ 2 ^ 3 = 8
    /\ 2 ^ 4 = 16 /\ 2 ^ 5 = 32 /\ 2 ^ 6 = 64 /\ 2 ^ 7 = 128
    /\ 2 ^ 8 = 256 /\ 2 ^ 9 = 512 /\ 2 ^ 10 = 1024 /\ 2 ^ 11 = 2048
    /\ 2 ^ 12 = 4096 /\ 2 ^ 13 = 8192 /\ 2 ^ 14 = 16384 /\ 2 ^ 15 = 32768
    /\ 2 ^ 16 = 65536 /\ 2 ^ 17 = 131072 /\ 2 ^ 18 = 262144 /\ 2 ^ 19 = 524288
    /\ 2 ^ 20 = 1048576 /\ 2 ^ 21 = 2097152 /\ 2 ^ 22 = 4194304 /\ 2 ^ 23 = 8388608
    /\ 2 ^ 24 = 16777216
  BY SMT

\* The exponent of a binary32: the power below a, and what makes it 2^23.
LEMMA ExponentExists ==
    ASSUME NEW a \in 1 .. 2 ^ 24 - 1
    PROVE  \E k \in 0 .. 23 : 2 ^ k <= a /\ a < 2 ^ (k + 1)
  <1>1. \/ (1 <= a /\ a < 2) \/ (2 <= a /\ a < 4) \/ (4 <= a /\ a < 8)
        \/ (8 <= a /\ a < 16) \/ (16 <= a /\ a < 32) \/ (32 <= a /\ a < 64)
        \/ (64 <= a /\ a < 128) \/ (128 <= a /\ a < 256) \/ (256 <= a /\ a < 512)
        \/ (512 <= a /\ a < 1024) \/ (1024 <= a /\ a < 2048) \/ (2048 <= a /\ a < 4096)
        \/ (4096 <= a /\ a < 8192) \/ (8192 <= a /\ a < 16384) \/ (16384 <= a /\ a < 32768)
        \/ (32768 <= a /\ a < 65536) \/ (65536 <= a /\ a < 131072) \/ (131072 <= a /\ a < 262144)
        \/ (262144 <= a /\ a < 524288) \/ (524288 <= a /\ a < 1048576) \/ (1048576 <= a /\ a < 2097152)
        \/ (2097152 <= a /\ a < 4194304) \/ (4194304 <= a /\ a < 8388608) \/ (8388608 <= a /\ a < 16777216)
    BY SMT, PowersOfTwo
  <1> QED BY SMT, <1>1, PowersOfTwo

\* A power, the next one, and what makes it 2^23.
LEMMA PowerPairs ==
    ASSUME NEW k \in 0 .. 23
    PROVE  /\ 2 ^ k \in Nat \ {0} /\ 2 ^ (k + 1) = 2 * 2 ^ k
           /\ 2 ^ (23 - k) \in Nat \ {0} /\ 2 ^ k * 2 ^ (23 - k) = 2 ^ 23
  <1>1. CASE k = 0      BY SMT, <1>1, PowersOfTwo
  <1>2. CASE k = 1      BY SMT, <1>2, PowersOfTwo
  <1>3. CASE k = 2      BY SMT, <1>3, PowersOfTwo
  <1>4. CASE k = 3      BY SMT, <1>4, PowersOfTwo
  <1>5. CASE k = 4      BY SMT, <1>5, PowersOfTwo
  <1>6. CASE k = 5      BY SMT, <1>6, PowersOfTwo
  <1>7. CASE k = 6      BY SMT, <1>7, PowersOfTwo
  <1>8. CASE k = 7      BY SMT, <1>8, PowersOfTwo
  <1>9. CASE k = 8      BY SMT, <1>9, PowersOfTwo
  <1>10. CASE k = 9     BY SMT, <1>10, PowersOfTwo
  <1>11. CASE k = 10    BY SMT, <1>11, PowersOfTwo
  <1>12. CASE k = 11    BY SMT, <1>12, PowersOfTwo
  <1>13. CASE k = 12    BY SMT, <1>13, PowersOfTwo
  <1>14. CASE k = 13    BY SMT, <1>14, PowersOfTwo
  <1>15. CASE k = 14    BY SMT, <1>15, PowersOfTwo
  <1>16. CASE k = 15    BY SMT, <1>16, PowersOfTwo
  <1>17. CASE k = 16    BY SMT, <1>17, PowersOfTwo
  <1>18. CASE k = 17    BY SMT, <1>18, PowersOfTwo
  <1>19. CASE k = 18    BY SMT, <1>19, PowersOfTwo
  <1>20. CASE k = 19    BY SMT, <1>20, PowersOfTwo
  <1>21. CASE k = 20    BY SMT, <1>21, PowersOfTwo
  <1>22. CASE k = 21    BY SMT, <1>22, PowersOfTwo
  <1>23. CASE k = 22    BY SMT, <1>23, PowersOfTwo
  <1>24. CASE k = 23    BY SMT, <1>24, PowersOfTwo
  <1> QED
    BY SMT, <1>1, <1>2, <1>3, <1>4, <1>5, <1>6, <1>7, <1>8, <1>9, <1>10, <1>11, <1>12,
       <1>13, <1>14, <1>15, <1>16, <1>17, <1>18, <1>19, <1>20, <1>21, <1>22, <1>23, <1>24

\* The rest of a division by a positive number.
LEMMA Division ==
    ASSUME NEW x \in Int, NEW n \in Nat \ {0}
    PROVE  /\ x \div n \in Int /\ (x \div n) * n <= x /\ x < (x \div n) * n + n
  BY SMT

\* A product is divided by one of its factors.
LEMMA ExactDivision ==
    ASSUME NEW x \in Int, NEW n \in Nat \ {0}
    PROVE  (x * n) \div n = x
  <1> DEFINE d == (x * n) \div n
  <1>1. x * n \in Int
    BY SMT
  <1>2. d \in Int /\ d * n <= x * n /\ x * n < d * n + n
    BY SMT, <1>1, Division
  <1> HIDE DEF d
  <1>3. (d - x) * n <= 0 /\ 0 < (d - x + 1) * n
    BY SMT, <1>2
  <1>4. d - x <= 0 /\ 0 < d - x + 1
    BY SMT, <1>2, <1>3
  <1>5. d = x
    BY SMT, <1>2, <1>4
  <1> QED BY SMT, <1>5 DEF d

\* The significand of a is a fraction of 23 bits, and its exponent gives a back.
LEMMA Significand ==
    ASSUME NEW a \in Nat, NEW k \in 0 .. 23, 2 ^ k <= a, a < 2 ^ (k + 1)
    PROVE  /\ (a - 2 ^ k) * 2 ^ (23 - k) \in 0 .. (2 ^ 23 - 1)
           /\ (2 ^ 23 + (a - 2 ^ k) * 2 ^ (23 - k)) \div 2 ^ (23 - k) = a
  <1> DEFINE p == 2 ^ k
             q == 2 ^ (23 - k)
  <1>1. p \in Nat \ {0} /\ q \in Nat \ {0} /\ p * q = 2 ^ 23 /\ p <= a /\ a < 2 * p
    <2>1. p \in Nat \ {0} /\ q \in Nat \ {0} /\ p * q = 2 ^ 23 /\ 2 ^ (k + 1) = 2 * p
      BY ZenonT(20), PowerPairs
    <2> QED BY Zenon, <2>1
  <1>0. 2 ^ 23 \in Nat
    BY SMT, PowersOfTwo
  <1> HIDE DEF p, q
  <1>2. (a - p) * q = a * q - p * q
    BY SMT, <1>1
  <1>3. 2 ^ 23 + (a - p) * q = a * q
    BY SMT, <1>1, <1>2
  <1>4. a - p \in Nat /\ a - p <= p - 1
    BY SMT, <1>1
  <1>5. 0 <= (a - p) * q /\ (a - p) * q <= (p - 1) * q
    BY SMT, <1>1, <1>4
  <1>6. (p - 1) * q = p * q - q
    BY SMT, <1>1
  <1>7. (a - p) * q \in 0 .. (2 ^ 23 - 1)
    BY SMT, <1>0, <1>1, <1>4, <1>5, <1>6
  <1>8. (2 ^ 23 + (a - p) * q) \div q = a
    BY SMT, <1>0, <1>1, <1>3, ExactDivision
  <1> QED BY Zenon, <1>7, <1>8 DEF p, q

\* A span goes through its four bytes unchanged.
LEMMA FourBytes ==
    ASSUME NEW x \in Byte, NEW y \in Byte, NEW z \in Byte, NEW w \in Byte
    PROVE  /\ <<x, y, z, w>> \in Seq(Byte) /\ <<x, y, z, w>> \in Seq(Int)
           /\ Len(<<x, y, z, w>>) = 4
  BY DEF Byte

LEMMA BinaryRoundTrip ==
    ASSUME NEW a \in 1 .. 2 ^ 24 - 1
    PROVE  /\ Len(F32Bytes(a)) = 4 /\ F32Bytes(a) \in Seq(Int) /\ F32Bytes(a) \in Seq(Byte)
           /\ F32Units(F32Bytes(a)) = a
  <1> DEFINE k == CHOOSE e \in 0 .. 23 : 2 ^ e <= a /\ a < 2 ^ (e + 1)
             x == 124 + k
             m == (a - 2 ^ k) * 2 ^ (23 - k)
             b == F32Bytes(a)
  <1>1. k \in 0 .. 23 /\ 2 ^ k <= a /\ a < 2 ^ (k + 1)
    BY Zenon, ExponentExists
  <1>2. a \in Nat /\ a # 0 /\ AbsOf(a) = a /\ ~(a < 0)
    BY SMT, PowersOfTwo DEF AbsOf
  <1>3. b = <<Low(m, 8), Low(Shr(m, 8), 8), Low(x, 1) * 128 + Shr(m, 16), 0 + Shr(x, 1)>>
    BY SMT, <1>2 DEF F32Bytes
  <1> HIDE DEF k
  <1>4. m \in 0 .. (2 ^ 23 - 1) /\ (2 ^ 23 + m) \div 2 ^ (23 - k) = a
    BY Zenon, <1>1, <1>2, Significand
  <1>5. x \in 124 .. 147
    BY SMT, <1>1
  <1> HIDE DEF m, x, b
  <1>6. /\ b[1] = m % 256 /\ b[2] = (m \div 256) % 256
        /\ b[3] = (x % 2) * 128 + m \div 65536 /\ b[4] = x \div 2
    BY SMT, <1>3, <1>4, <1>5, PowersOfTwo DEF Low, Shr
  <1>7. /\ Len(b) = 4 /\ b \in Seq(Int)
    BY SMT, <1>3, <1>4, <1>5, <1>6, PowersOfTwo
  <1>8. m = (m \div 65536) * 65536 + ((m \div 256) % 256) * 256 + (m % 256) /\ m \div 65536 \in 0 .. 127
    BY SMT, <1>4, PowersOfTwo
  <1>15. b \in Seq(Byte)
    <2>1. b[1] \in Byte /\ b[2] \in Byte /\ b[3] \in Byte /\ b[4] \in Byte
      BY SMT, <1>4, <1>5, <1>6, <1>8, PowersOfTwo DEF Byte
    <2>2. b = <<b[1], b[2], b[3], b[4]>>
      BY <1>3
    <2>3. <<b[1], b[2], b[3], b[4]>> \in Seq(Byte)
      BY ONLY Zenon, <2>1, FourBytes
    <2> QED BY ONLY Zenon, <2>2, <2>3
  <1>9. Low(b[3], 7) = m \div 65536 /\ Shr(b[3], 7) = x % 2
    BY SMT, <1>5, <1>6, <1>8, PowersOfTwo DEF Low, Shr
  <1>10. Low(b[4], 7) = x \div 2 /\ ~(b[4] >= 128)
    BY SMT, <1>5, <1>6, PowersOfTwo DEF Low
  <1>11. Low(b[4], 7) * 2 + Shr(b[3], 7) = x
    BY SMT, <1>5, <1>9, <1>10
  <1>12. Low(b[3], 7) * 65536 + b[2] * 256 + b[1] = m
    BY SMT, <1>6, <1>8, <1>9
  <1>13. F32Units(b) = (2 ^ 23 + m) \div 2 ^ (23 - (x - 124))
    BY SMT, <1>5, <1>10, <1>11, <1>12, PowersOfTwo DEF F32Units
  <1>14. x - 124 = k
    BY SMT, <1>1 DEF x
  <1> QED BY Zenon, <1>4, <1>7, <1>13, <1>14, <1>15 DEF b

\* Shifts and masks are divisions.
LEMMA ShiftsAndMasks ==
    /\ \A x \in Int : Shr(x, 8) = x \div 256
    /\ \A x \in Int : Low(x, 8) = x % 256
    /\ \A x \in Int : Shr(x, 4) = x \div 16
    /\ \A x \in Int : Low(x, 4) = x % 16
  BY SMT, PowersOfTwo DEF Shr, Low

\* A field of a motion frame fits its bits, and comes back short of one quantum.
LEMMA FieldSurvives ==
    ASSUME NEW v \in Int, NEW span \in Nat \ {0}, AbsOf(v) <= span, NEW bits \in {12, 16}
    PROVE  LET raw == oa_to_uint(v, -span, span, bits) IN
           /\ raw \in Nat /\ raw < 2 ^ bits
           /\ Within(v, oa_from_uint(raw, -span, span, bits), span, bits)
  <1> DEFINE M == 2 ^ bits - 1
             s == 2 * span
             x == (v + span) * M
             raw == oa_to_uint(v, -span, span, bits)
  <1>1. M \in Nat
    <2>1. CASE bits = 12
      BY SMT, <2>1, PowersOfTwo
    <2>2. CASE bits = 16
      BY SMT, <2>2, PowersOfTwo
    <2> QED BY <2>1, <2>2
  <1> HIDE DEF M
  <1>2. s \in Nat \ {0} /\ v + span \in 0 .. s /\ span - (-span) = s /\ v - (-span) = v + span
    BY SMT DEF AbsOf
  <1>3. raw = x \div s
    BY SMT, <1>2 DEF oa_to_uint, M
  <1>4. x \in Int /\ 0 <= x /\ x <= s * M
    BY SMT, <1>1, <1>2
  <1>5. raw \in Int /\ raw * s <= x /\ x < raw * s + s
    <2> HIDE DEF x, s, raw
    <2> QED BY Zenon, <1>2, <1>3, <1>4, Division
  <1>6. oa_from_uint(raw, -span, span, bits) = raw * s + (-span) * M
    BY SMT, <1>2 DEF oa_from_uint, M
  <1> HIDE DEF raw
  <1>7. v * M - (raw * s + (-span) * M) = x - raw * s
    BY SMT, <1>1, <1>2, <1>5
  <1> HIDE DEF x, s
  <1>8. Within(v, oa_from_uint(raw, -span, span, bits), span, bits)
    BY SMT, <1>2, <1>4, <1>5, <1>6, <1>7 DEF Within, M, s
  <1>9. 0 < (raw + 1) * s /\ (raw - M) * s <= 0
    BY SMT, <1>1, <1>2, <1>4, <1>5
  <1>10. 0 <= raw /\ raw <= M
    BY SMT, <1>1, <1>2, <1>5, <1>9
  <1> QED BY SMT, <1>5, <1>8, <1>10 DEF M, raw

\* The gains fit their bits.
LEMMA GainFits ==
    ASSUME NEW most \in Nat \ {0}, NEW v \in 0 .. most
    PROVE  oa_to_uint(v, 0, most, 12) \in Nat /\ oa_to_uint(v, 0, most, 12) < 4096
  <1> DEFINE x == v * 4095
             raw == x \div most
  <1>1. oa_to_uint(v, 0, most, 12) = raw
    BY SMT, PowersOfTwo DEF oa_to_uint
  <1>2. x \in Int
    BY SMT
  <1>3. 0 <= x /\ x <= most * 4095
    BY SMT
  <1>4. raw \in Int
    BY SMT, <1>2
  <1>5. raw * most <= x /\ x < raw * most + most
    <2> HIDE DEF x
    <2> QED BY Zenon, <1>2, Division
  <1> HIDE DEF x, raw
  <1>6. 0 < (raw + 1) * most /\ (raw - 4095) * most <= 0
    BY SMT, <1>2, <1>3, <1>4, <1>5
  <1>7. 0 < raw + 1 /\ raw - 4095 <= 0
    BY SMT, <1>4, <1>6
  <1>8. raw \in Nat /\ raw < 4096
    BY SMT, <1>4, <1>7
  <1> QED BY SMT, <1>1, <1>8

\* The fields of a motion frame fit their bits.
LEMMA FieldsFit ==
    ASSUME NEW s, NEW p, InSpan(s, p), {s.p, s.v, s.kp, s.kd, s.t} \subseteq Int,
           {p.pmax, p.vmax, p.tmax} \subseteq Nat \ {0}
    PROVE  LET pos == oa_to_uint(s.p, -p.pmax, p.pmax, 16)
               vel == oa_to_uint(s.v, -p.vmax, p.vmax, 12)
               kp == oa_to_uint(s.kp, 0, 4000, 12)
               kd == oa_to_uint(s.kd, 0, 40, 12)
               tor == oa_to_uint(s.t, -p.tmax, p.tmax, 12)
           IN /\ pos \in Nat /\ pos < 65536 /\ vel \in Nat /\ vel < 4096
              /\ tor \in Nat /\ tor < 4096
              /\ kp \in Nat /\ kp < 4096 /\ kd \in Nat /\ kd < 4096
              /\ Within(s.p, oa_from_uint(pos, -p.pmax, p.pmax, 16), p.pmax, 16)
              /\ Within(s.v, oa_from_uint(vel, -p.vmax, p.vmax, 12), p.vmax, 12)
              /\ Within(s.t, oa_from_uint(tor, -p.tmax, p.tmax, 12), p.tmax, 12)
  <1> DEFINE pos == oa_to_uint(s.p, -p.pmax, p.pmax, 16)
             vel == oa_to_uint(s.v, -p.vmax, p.vmax, 12)
             kp == oa_to_uint(s.kp, 0, 4000, 12)
             kd == oa_to_uint(s.kd, 0, 40, 12)
             tor == oa_to_uint(s.t, -p.tmax, p.tmax, 12)
  <1>1. /\ pos \in Nat /\ pos < 65536 /\ Within(s.p, oa_from_uint(pos, -p.pmax, p.pmax, 16), p.pmax, 16)
        /\ vel \in Nat /\ vel < 4096 /\ Within(s.v, oa_from_uint(vel, -p.vmax, p.vmax, 12), p.vmax, 12)
        /\ tor \in Nat /\ tor < 4096 /\ Within(s.t, oa_from_uint(tor, -p.tmax, p.tmax, 12), p.tmax, 12)
    <2>1. AbsOf(s.p) <= p.pmax /\ AbsOf(s.v) <= p.vmax /\ AbsOf(s.t) <= p.tmax
      BY DEF InSpan
    <2>2. 2 ^ 16 = 65536 /\ 2 ^ 12 = 4096
      BY SMT, PowersOfTwo
    <2> HIDE DEF pos, vel, tor
    <2>3. pos \in Nat /\ pos < 2 ^ 16 /\ Within(s.p, oa_from_uint(pos, -p.pmax, p.pmax, 16), p.pmax, 16)
      BY Zenon, <2>1, FieldSurvives DEF pos
    <2>4. vel \in Nat /\ vel < 2 ^ 12 /\ Within(s.v, oa_from_uint(vel, -p.vmax, p.vmax, 12), p.vmax, 12)
      BY Zenon, <2>1, FieldSurvives DEF vel
    <2>5. tor \in Nat /\ tor < 2 ^ 12 /\ Within(s.t, oa_from_uint(tor, -p.tmax, p.tmax, 12), p.tmax, 12)
      BY Zenon, <2>1, FieldSurvives DEF tor
    <2> QED BY SMT, <2>2, <2>3, <2>4, <2>5
  <1>2. kp \in Nat /\ kp < 4096 /\ kd \in Nat /\ kd < 4096
    <2> SUFFICES ASSUME NEW most, most = 4000, NEW least, least = 40
                 PROVE  kp \in Nat /\ kp < 4096 /\ kd \in Nat /\ kd < 4096
      OBVIOUS
    <2>1. /\ most \in Nat \ {0} /\ s.kp \in 0 .. most
          /\ least \in Nat \ {0} /\ s.kd \in 0 .. least
      BY SMT DEF InSpan
    <2>2. kp = oa_to_uint(s.kp, 0, most, 12) /\ kd = oa_to_uint(s.kd, 0, least, 12)
      BY SMT
    <2> HIDE DEF kp, kd
    <2> QED BY ONLY <2>1, <2>2, GainFits, SMT
  <1> HIDE DEF pos, vel, kp, kd, tor
  <1>3. /\ pos \in Nat /\ pos < 65536 /\ vel \in Nat /\ vel < 4096
        /\ tor \in Nat /\ tor < 4096
        /\ kp \in Nat /\ kp < 4096 /\ kd \in Nat /\ kd < 4096
        /\ Within(s.p, oa_from_uint(pos, -p.pmax, p.pmax, 16), p.pmax, 16)
        /\ Within(s.v, oa_from_uint(vel, -p.vmax, p.vmax, 12), p.vmax, 12)
        /\ Within(s.t, oa_from_uint(tor, -p.tmax, p.tmax, 12), p.tmax, 12)
    BY <1>1, <1>2
  <1> QED BY <1>3 DEF pos, vel, kp, kd, tor

\* The fields of a motion frame, sent back by a motor, are the fields that were sent.
LEMMA FieldsComeBack ==
    ASSUME NEW d, NEW status, NEW s, NEW p, NEW q, InSpan(s, p),
           {s.p, s.v, s.kp, s.kd, s.t} \subseteq Int,
           {p.pmax, p.vmax, p.tmax} \subseteq Nat \ {0},
           q.pmax = p.pmax, q.vmax = p.vmax, q.tmax = p.tmax
    PROVE  LET g == Feedback(Echo(d, oa_encode_mit_values(s, p), status), q) IN
           /\ g.device = q.send
           /\ Within(s.p, g.p, p.pmax, 16) /\ Within(s.v, g.v, p.vmax, 12)
           /\ Within(s.t, g.t, p.tmax, 12)
  <1> DEFINE pos == oa_to_uint(s.p, -p.pmax, p.pmax, 16)
             vel == oa_to_uint(s.v, -p.vmax, p.vmax, 12)
             kp == oa_to_uint(s.kp, 0, 4000, 12)
             kd == oa_to_uint(s.kd, 0, 40, 12)
             tor == oa_to_uint(s.t, -p.tmax, p.tmax, 12)
             f == oa_encode_mit_values(s, p)
             e == Echo(d, f, status)
             g == Feedback(e, q)
  <1>1. /\ pos \in Nat /\ pos < 65536 /\ Within(s.p, oa_from_uint(pos, -p.pmax, p.pmax, 16), p.pmax, 16)
        /\ vel \in Nat /\ vel < 4096 /\ Within(s.v, oa_from_uint(vel, -p.vmax, p.vmax, 12), p.vmax, 12)
        /\ tor \in Nat /\ tor < 4096 /\ Within(s.t, oa_from_uint(tor, -p.tmax, p.tmax, 12), p.tmax, 12)
    BY FieldsFit
  <1>2. kp \in Nat /\ kp < 4096 /\ kd \in Nat /\ kd < 4096
    BY FieldsFit
  <1> HIDE DEF pos, vel, kp, kd, tor
  <1>3. f.data = <<Shr(pos, 8), Low(pos, 8), Shr(vel, 4), Low(vel, 4) * 16 + Shr(kp, 8),
                   Low(kp, 8), Shr(kd, 4), Low(kd, 4) * 16 + Shr(tor, 8), Low(tor, 8)>>
    BY DEF oa_encode_mit_values, pos, vel, kp, kd, tor
  <1> HIDE DEF f
  <1>4. /\ e.data[2] = f.data[1] /\ e.data[3] = f.data[2] /\ e.data[4] = f.data[3]
        /\ e.data[5] = Shr(f.data[4], 4) * 16 + Low(f.data[7], 4) /\ e.data[6] = f.data[8]
    BY DEF Echo
  <1> HIDE DEF e
  <1>5. e.data[2] * 256 + e.data[3] = pos
    <2>1. e.data[2] = pos \div 256 /\ e.data[3] = pos % 256
      BY <1>1, <1>3, <1>4, ShiftsAndMasks
    <2>2. (pos \div 256) * 256 + (pos % 256) = pos
      BY SMT, <1>1
    <2> QED BY <2>1, <2>2
  <1>6. /\ Shr(f.data[4], 4) = vel % 16 /\ Low(f.data[7], 4) = tor \div 256
        /\ f.data[3] = vel \div 16 /\ f.data[8] = tor % 256
    <2> DEFINE low == vel % 16
               high == kp \div 256
               gain == kd % 16
               top == tor \div 256
    <2>1. /\ f.data[4] = low * 16 + high /\ f.data[7] = gain * 16 + top
          /\ f.data[3] = vel \div 16 /\ f.data[8] = tor % 256
      <3>1. /\ f.data[4] = Low(vel, 4) * 16 + Shr(kp, 8) /\ f.data[7] = Low(kd, 4) * 16 + Shr(tor, 8)
            /\ f.data[3] = Shr(vel, 4) /\ f.data[8] = Low(tor, 8)
        BY <1>3
      <3>2. Low(vel, 4) = low /\ Shr(kp, 8) = high /\ Low(kd, 4) = gain /\ Shr(tor, 8) = top
            /\ Shr(vel, 4) = vel \div 16 /\ Low(tor, 8) = tor % 256
        <4>1. vel \in Int /\ kp \in Int /\ kd \in Int /\ tor \in Int
          BY SMT, <1>1, <1>2
        <4> QED BY SMT, <4>1, PowersOfTwo DEF Shr, Low
      <3> QED BY Zenon, <3>1, <3>2
    <2>2. /\ low \in Nat /\ high \in Nat /\ high < 16
          /\ gain \in Nat /\ top \in Nat /\ top < 16
      BY SMT, <1>1, <1>2
    <2> HIDE DEF low, high, gain, top
    <2>3. f.data[4] \div 16 = low /\ f.data[7] % 16 = top
      BY SMT, <2>1, <2>2
    <2>4. f.data[4] \in Int /\ f.data[7] \in Int
      BY SMT, <2>1, <2>2
    <2>5. Shr(f.data[4], 4) = f.data[4] \div 16 /\ Low(f.data[7], 4) = f.data[7] % 16
      BY SMT, <2>4, PowersOfTwo DEF Shr, Low
    <2> QED BY <2>1, <2>3, <2>5 DEF low, top
  <1>7. /\ e.data[4] * 16 + Shr(e.data[5], 4) = vel
        /\ Low(e.data[5], 4) * 256 + e.data[6] = tor
    <2>1. /\ e.data[4] = vel \div 16
          /\ e.data[5] = (vel % 16) * 16 + tor \div 256 /\ e.data[6] = tor % 256
      BY <1>4, <1>6
    <2>2. Shr(e.data[5], 4) = vel % 16 /\ Low(e.data[5], 4) = tor \div 256
      <3>1. vel % 16 \in Nat /\ tor \div 256 \in Nat /\ tor \div 256 < 16
        BY SMT, <1>1
      <3>2. e.data[5] \in Int /\ e.data[5] \div 16 = vel % 16 /\ e.data[5] % 16 = tor \div 256
        BY SMT, <2>1, <3>1
      <3> QED BY SMT, <3>2, PowersOfTwo DEF Shr, Low
    <2>3. (vel \div 16) * 16 + (vel % 16) = vel /\ (tor \div 256) * 256 + (tor % 256) = tor
      BY SMT, <1>1
    <2> QED BY <2>1, <2>2, <2>3
  <1>9. /\ g.device = q.send /\ g.p = oa_from_uint(pos, -p.pmax, p.pmax, 16)
        /\ g.v = oa_from_uint(vel, -p.vmax, p.vmax, 12) /\ g.t = oa_from_uint(tor, -p.tmax, p.tmax, 12)
    BY <1>5, <1>7 DEF Feedback
  <1> QED BY <1>1, <1>9 DEF f, e

\* A gripper frame asks for the opening it was made for, and rounds down.
LEMMA GripperRoundsDown ==
    ASSUME NEW g \in [opening: Int, speed: Int, torque: Int],
           NEW h \in [closed: Int, open: Int, maximum: Nat \ {0}], h.closed # h.open,
           NEW p, p.send \in Identifier, p.tmax \in Nat \ {0}, GripperFits(g, h, p)
    PROVE  LET f == oa_can_encode_pos_force(g, h, p) IN
           /\ oa_can_gripper_opening(h, f.position) = g.opening
           /\ f.speed * 8 * h.maximum <= g.speed * Span(h) * 100
           /\ f.current * p.tmax <= g.torque * 10000
           /\ f.speed \in 0 .. 2 ^ 16 - 1 /\ f.current \in 0 .. 2 ^ 16 - 1
           /\ f.id \in Identifier
  <1> DEFINE top == h.maximum
             width == h.open - h.closed
             span == Span(h)
             tmax == p.tmax
             f == oa_can_encode_pos_force(g, h, p)
  <1>1. /\ top \in Nat \ {0} /\ width \in Int /\ width # 0 /\ tmax \in Nat \ {0}
        /\ g.opening \in Int /\ g.speed \in Int /\ g.torque \in Int /\ h.closed \in Int /\ h.open \in Int
        /\ span \in Nat
    BY SMT DEF Span, AbsOf
  <1>2. /\ g.speed >= 0 /\ g.torque > 0 /\ g.torque <= tmax /\ p.send <= 1279
        /\ g.speed * span <= 800 * top
    BY DEF GripperFits
  <1>3. /\ f.id = p.send + 768
        /\ f.position = h.closed * top + g.opening * width
        /\ f.speed = (g.speed * span * 100) \div (8 * top)
        /\ f.current = (g.torque * 10000) \div tmax
    BY DEF oa_can_encode_pos_force, oa_can_gripper_motor_position
  <1>4. f.id \in Identifier
    BY SMT, <1>2, <1>3, PowersOfTwo DEF Identifier
  <1>5. oa_can_gripper_opening(h, f.position) = g.opening
    <2> HIDE DEF f
    <2> DEFINE along == IF h.open > h.closed THEN 1 ELSE -1
               n == along * width
    <2>1. oa_can_gripper_opening(h, f.position) = (along * (f.position - h.closed * top)) \div n
      BY DEF oa_can_gripper_opening
    <2>2. n \in Nat \ {0}
      BY SMT, <1>1
    <2>3. along * (f.position - h.closed * top) = g.opening * n
      <3>1. h.closed * top \in Int /\ g.opening * width \in Int
        BY SMT, <1>1
      <3>2. f.position - h.closed * top = g.opening * width
        BY SMT, <1>3, <3>1
      <3>3. along * (g.opening * width) = g.opening * n
        BY SMT, <1>1
      <3> QED BY <3>2, <3>3
    <2> HIDE DEF n
    <2>4. (g.opening * n) \div n = g.opening
      BY Zenon, <1>1, <2>2, ExactDivision
    <2> QED BY <2>1, <2>3, <2>4
  <1> DEFINE x == g.speed * span * 100
             y == g.torque * 10000
             m == 8 * top
  <1>6. x \in Int /\ y \in Int /\ m \in Nat \ {0}
    BY SMT, <1>1
  <1>7. 0 <= x /\ x <= m * 10000 /\ 0 <= y /\ y <= tmax * 10000
    <2>1. g.speed * span \in Int /\ 0 <= g.speed * span
      BY SMT, <1>1, <1>2
    <2>2. 0 <= x /\ x <= (800 * top) * 100
      BY SMT, <1>1, <1>2, <2>1
    <2>3. (800 * top) * 100 = m * 10000
      BY SMT, <1>1
    <2> QED BY SMT, <1>1, <1>2, <2>2, <2>3
  <1> HIDE DEF f, x, y, m, span, tmax, top
  <1>8. f.speed = x \div m /\ f.current = y \div tmax
    BY <1>3 DEF x, y, m
  <1>9. /\ f.speed \in Int /\ f.speed * m <= x /\ x < f.speed * m + m
        /\ f.current \in Int /\ f.current * tmax <= y /\ y < f.current * tmax + tmax
    BY Zenon, <1>1, <1>6, <1>8, Division
  <1>10. 0 < (f.speed + 1) * m /\ (f.speed - 10000) * m <= 0
    BY SMT, <1>6, <1>7, <1>9
  <1>11. 0 < (f.current + 1) * tmax /\ (f.current - 10000) * tmax <= 0
    BY SMT, <1>1, <1>6, <1>7, <1>9
  <1>12. f.speed >= 0 /\ f.speed <= 10000
    BY SMT, <1>6, <1>9, <1>10
  <1>13. f.current >= 0 /\ f.current <= 10000
    BY SMT, <1>1, <1>9, <1>11
  <1>14. f.speed \in 0 .. 2 ^ 16 - 1 /\ f.current \in 0 .. 2 ^ 16 - 1
    <2>1. f.speed \in Int /\ f.current \in Int
      BY SMT, <1>9
    <2>2. 2 ^ 16 - 1 \in Int /\ 10000 <= 2 ^ 16 - 1
      BY SMT, PowersOfTwo
    <2>3. f.speed \in 0 .. 2 ^ 16 - 1
      BY SMT, <1>12, <2>1, <2>2
    <2>4. f.current \in 0 .. 2 ^ 16 - 1
      BY SMT, <1>13, <2>1, <2>2
    <2> QED BY SMT, <2>3, <2>4
  <1>15. f.speed * 8 * top = f.speed * m
    BY SMT, <1>1, <1>9 DEF m
  <1>16. /\ f.speed * 8 * top <= x /\ f.current * tmax <= y
    BY <1>9, <1>15
  <1> QED BY SMT, <1>4, <1>5, <1>14, <1>16 DEF f, x, y, span, tmax, top

-----------------------------------------------------------------------------
(* CanCodec: the exchanges.  Until a set-point goes out, what is on the    *)
(* bus is what motors answered to register frames; from then on it is the  *)
(* answer to that set-point.                                               *)

SpanRegisters == {PMAX, VMAX, TMAX}
SpanOf(d, rid) == IF rid = PMAX THEN d.pmax ELSE IF rid = VMAX THEN d.vmax ELSE d.tmax

\* f is a motor's answer to a register frame, with its span if it was a query, or
\* is damaged.
Answered(f) ==
    f.clean => \E d \in Device :
        /\ f.id = d.receive
        /\ f.data[3] = QUERY => /\ f.data[4] \in SpanRegisters
                                /\ SubSeq(f.data, 5, 8) = F32Bytes(SpanOf(d, f.data[4]))

\* What was asked and what was read is of a motor.
AsksMotors ==
    \A q \in asked : /\ \E d \in Device : q.send = d.send /\ q.receive = d.receive
                     /\ q.op = QUERY => q.rid \in SpanRegisters
ReadsAreSpans ==
    \A v \in reads : /\ v.rid \in SpanRegisters
                     /\ \E d \in Device : /\ v.send = d.send /\ v.receive = d.receive
                                          /\ v.units = SpanOf(d, v.rid)

\* The set-point under way, and what is on the bus because of it.
OrderIsSound ==
    /\ \A o, u \in order : o = u
    /\ \A o \in order : /\ o.profile \in profiles /\ o.device = o.profile.send
                        /\ o.point \in Setpoint /\ InSpan(o.point, o.profile)
    /\ order # {} => asked = {}
BusIsAnswers == order = {} => \A f \in bus : Answered(f)
BusIsEchoes ==
    \A o \in order, f \in bus : \E d \in Device, status \in {1, 14, 15} :
        f = Echo(d, oa_encode_mit_values(o.point, o.profile), status)

CodecInv ==
    /\ AsksMotors /\ ReadsAreSpans /\ OrderIsSound /\ BusIsAnswers /\ BusIsEchoes
    /\ ProfileIsTheMotors /\ SetPointSurvives /\ GripperNeverExceeds

\* Motors have distinct identifiers and spans a binary32 holds.
LEMMA MotorFacts ==
    /\ \A d \in Device : /\ d.send \in Identifier /\ d.receive \in Identifier
                         /\ d.pmax \in 1 .. 2 ^ 24 - 1 /\ d.vmax \in 1 .. 2 ^ 24 - 1
                         /\ d.tmax \in 1 .. 2 ^ 24 - 1
    /\ \A d, e \in Device : d.send = e.send \/ d.receive = e.receive => d = e
  <1>1. ASSUME NEW d \in Device
        PROVE  {d.send, d.receive} \subseteq Identifier /\ {d.pmax, d.vmax, d.tmax} \subseteq 1 .. 2 ^ 24 - 1
    BY Zenon, CodecConstants
  <1>2. \A d, e \in Device : d.send = e.send \/ d.receive = e.receive => d = e
    BY Zenon, CodecConstants
  <1> QED BY Zenon, <1>1, <1>2

LEMMA SpanIsSpan ==
    ASSUME NEW d \in Device, NEW rid
    PROVE  SpanOf(d, rid) \in 1 .. 2 ^ 24 - 1
  BY Zenon, MotorFacts DEF SpanOf

\* What follows four bytes of head.
LEMMA AfterTheHead ==
    ASSUME NEW head \in Seq(Int), Len(head) = 4, NEW bytes \in Seq(Int), Len(bytes) = 4
    PROVE  /\ (head \o bytes)[3] = head[3] /\ (head \o bytes)[4] = head[4]
           /\ SubSeq(head \o bytes, 5, 8) = bytes
  <1> DEFINE data == head \o bytes
  <1>1. /\ data \in Seq(Int) /\ Len(data) = Len(head) + Len(bytes)
        /\ \A i \in 1 .. Len(head) + Len(bytes) :
             data[i] = IF i <= Len(head) THEN head[i] ELSE bytes[i - Len(head)]
    BY Zenon, ConcatProperties
  <1> HIDE DEF data
  <1>2. /\ Len(data) = 8 /\ data[3] = head[3] /\ data[4] = head[4]
        /\ \A i \in 1 .. 4 : data[i + 4] = bytes[i]
    BY SMT, <1>1
  <1>3. SubSeq(data, 5, 8) = [i \in 1 .. 4 |-> data[i + 4]]
    BY SMT, <1>1, <1>2
  <1>4. bytes = [i \in 1 .. 4 |-> bytes[i]]
    OBVIOUS
  <1>5. [i \in 1 .. 4 |-> data[i + 4]] = [i \in 1 .. 4 |-> bytes[i]]
    BY SMT, <1>2
  <1> QED BY Zenon, <1>2, <1>3, <1>4, <1>5 DEF data

\* The register frame of a query or a write.
LEMMA RegisterFrameParts ==
    ASSUME NEW id, NEW from \in Identifier, NEW rid \in Int, NEW op \in Int,
           NEW bytes \in Seq(Int), Len(bytes) = 4
    PROVE  /\ RegisterFrame(id, from, rid, op, bytes).id = id
           /\ RegisterFrame(id, from, rid, op, bytes).clean
           /\ RegisterFrame(id, from, rid, op, bytes).data[3] = op
           /\ RegisterFrame(id, from, rid, op, bytes).data[4] = rid
           /\ SubSeq(RegisterFrame(id, from, rid, op, bytes).data, 5, 8) = bytes
  <1> DEFINE f == RegisterFrame(id, from, rid, op, bytes)
             head == <<Low(from, 8), Shr(from, 8), op, rid>>
  <1>1. from \in Int
    BY SMT, PowersOfTwo DEF Identifier
  <1>2. Low(from, 8) \in Int /\ Shr(from, 8) \in Int
    BY SMT, <1>1, PowersOfTwo DEF Low, Shr
  <1>3. head \in Seq(Int) /\ Len(head) = 4 /\ head[3] = op /\ head[4] = rid
    BY SMT, <1>2
  <1>4. f.id = id /\ f.clean /\ f.data = head \o bytes
    BY DEF RegisterFrame
  <1> HIDE DEF f, head
  <1>5. f.data[3] = op /\ f.data[4] = rid /\ SubSeq(f.data, 5, 8) = bytes
    <2>1. /\ (head \o bytes)[3] = head[3] /\ (head \o bytes)[4] = head[4]
          /\ SubSeq(head \o bytes, 5, 8) = bytes
      BY Zenon, <1>3, AfterTheHead
    <2> QED BY Zenon, <1>3, <1>4, <2>1
  <1> QED BY <1>4, <1>5 DEF f

\* Motors answer with their spans.
LEMMA MotorsAnswer ==
    ASSUME NEW d \in Device, NEW rid \in SpanRegisters
    PROVE  LET f == RegisterFrame(DiagnosticId, d.send, rid, QUERY, <<0, 0, 0, 0>>) IN
           Answered(MotorAnswer(d, f)) /\ Answered(Damaged(MotorAnswer(d, f)))
  <1> DEFINE zeros == <<0, 0, 0, 0>>
             f == RegisterFrame(DiagnosticId, d.send, rid, QUERY, zeros)
             bytes == F32Bytes(SpanOf(d, rid))
             g == MotorAnswer(d, f)
  <1>1. d.send \in Identifier /\ rid \in Int /\ QUERY \in Int /\ QUERY # WRITE
    BY MotorFacts DEF SpanRegisters, PMAX, VMAX, TMAX, QUERY, WRITE
  <1>2. zeros \in Seq(Int) /\ Len(zeros) = 4
    OBVIOUS
  <1> HIDE DEF zeros
  <1>3. f.data[3] = QUERY /\ f.data[4] = rid
    BY SMT, <1>1, <1>2, RegisterFrameParts
  <1> HIDE DEF f
  <1>4. Register(d, rid) = bytes
    BY DEF Register, SpanOf, SpanRegisters
  <1>5. g = RegisterFrame(d.receive, d.send, rid, QUERY, bytes)
    BY <1>1, <1>3, <1>4 DEF MotorAnswer
  <1>6. bytes \in Seq(Int) /\ Len(bytes) = 4
    BY Zenon, SpanIsSpan, BinaryRoundTrip
  <1> HIDE DEF bytes, g
  <1>7. g.id = d.receive /\ g.data[3] = QUERY /\ g.data[4] = rid
        /\ SubSeq(g.data, 5, 8) = bytes
    BY SMT, <1>1, <1>5, <1>6, RegisterFrameParts
  <1>8. Answered(g)
    BY <1>7 DEF Answered, bytes
  <1>9. Damaged(g).clean = FALSE
    BY <1>5 DEF Damaged, RegisterFrame
  <1> QED BY <1>8, <1>9 DEF Answered, f, g, zeros

LEMMA WritesAreAnswered ==
    ASSUME NEW d \in Device
    PROVE  LET f == RegisterFrame(DiagnosticId, d.send, CTRL_MODE, WRITE, U32Bytes(1)) IN
           Answered(MotorAnswer(d, f))
  <1> DEFINE f == RegisterFrame(DiagnosticId, d.send, CTRL_MODE, WRITE, U32Bytes(1))
             g == MotorAnswer(d, f)
  <1>1. /\ d.send \in Identifier /\ CTRL_MODE \in Int /\ WRITE \in Int /\ QUERY # WRITE
    BY MotorFacts DEF CTRL_MODE, QUERY, WRITE
  <1>2. U32Bytes(1) \in Seq(Int) /\ Len(U32Bytes(1)) = 4
    BY SMT, PowersOfTwo DEF U32Bytes, Low, Shr
  <1>3. f.data[3] = WRITE /\ f.data[4] = CTRL_MODE /\ SubSeq(f.data, 5, 8) = U32Bytes(1)
    BY SMT, <1>1, <1>2, RegisterFrameParts
  <1> HIDE DEF f
  <1>4. g = RegisterFrame(d.receive, d.send, CTRL_MODE, WRITE, U32Bytes(1))
    BY <1>3 DEF MotorAnswer
  <1> HIDE DEF g
  <1>5. g.id = d.receive /\ g.data[3] = WRITE
    BY SMT, <1>1, <1>2, <1>4, RegisterFrameParts
  <1> QED BY <1>1, <1>5 DEF Answered, f, g

LEMMA DeliverAdds ==
    ASSUME NEW f, Deliver(f)
    PROVE  bus' \subseteq bus \cup {f}
  BY DEF Deliver

\* A register frame goes out: what comes back is a motor's answer.
LEMMA AskingKeepsInv ==
    ASSUME CodecInv, order = {}, NEW d \in Device, NEW rid, NEW op,
           op = QUERY => rid \in SpanRegisters, asked' = {Request(d, rid, op)},
           NEW g, NEW h, Answered(g), Answered(h), bus' \subseteq bus \cup {g, h}, squeeze' = {},
           UNCHANGED <<reads, profiles, order, got>>
    PROVE  CodecInv'
  <1>1. AsksMotors'
    BY DEF AsksMotors, Request
  <1>2. BusIsAnswers'
    BY DEF CodecInv, BusIsAnswers
  <1>3. ReadsAreSpans' /\ OrderIsSound' /\ BusIsEchoes'
    BY DEF CodecInv, ReadsAreSpans, OrderIsSound, BusIsEchoes
  <1>4. ProfileIsTheMotors' /\ SetPointSurvives' /\ GripperNeverExceeds'
    BY DEF CodecInv, ProfileIsTheMotors, SetPointSurvives, GripperNeverExceeds
  <1> QED BY Zenon, <1>1, <1>2, <1>3, <1>4 DEF CodecInv

LEMMA QueryKeepsInv ==
    ASSUME CodecInv, NEW d \in Device, NEW rid \in SpanRegisters, query_register(d, rid)
    PROVE  CodecInv'
  <1> DEFINE f == RegisterFrame(DiagnosticId, d.send, rid, QUERY, <<0, 0, 0, 0>>)
  <1>1. PICK g, h : g = MotorAnswer(d, f) /\ h = Damaged(MotorAnswer(d, f))
    OBVIOUS
  <1>2. Answered(g) /\ Answered(h)
    BY Zenon, <1>1, MotorsAnswer
  <1>3. /\ order = {} /\ asked' = {Request(d, rid, QUERY)} /\ squeeze' = {}
        /\ UNCHANGED <<reads, profiles, order, got>>
        /\ Deliver(g) \/ Deliver(h) \/ UNCHANGED bus
    BY Zenon, <1>1 DEF query_register
  <1> HIDE DEF f
  <1>4. bus' \subseteq bus \cup {g, h}
    BY <1>3, DeliverAdds
  <1> QED BY Zenon, <1>2, <1>3, <1>4, AskingKeepsInv

LEMMA WriteKeepsInv ==
    ASSUME CodecInv, NEW d \in Device, write_register(d, CTRL_MODE, U32Bytes(1))
    PROVE  CodecInv'
  <1> DEFINE f == RegisterFrame(DiagnosticId, d.send, CTRL_MODE, WRITE, U32Bytes(1))
  <1>1. PICK g : g = MotorAnswer(d, f)
    OBVIOUS
  <1>2. Answered(g) /\ WRITE # QUERY
    BY <1>1, WritesAreAnswered DEF WRITE, QUERY
  <1>3. /\ order = {} /\ asked' = {Request(d, CTRL_MODE, WRITE)} /\ squeeze' = {}
        /\ UNCHANGED <<reads, profiles, order, got>> /\ Deliver(g)
    BY Zenon, <1>1 DEF write_register
  <1> HIDE DEF f
  <1>4. bus' \subseteq bus \cup {g, g}
    BY <1>3, DeliverAdds
  <1> QED BY Zenon, <1>2, <1>3, <1>4, AskingKeepsInv

\* An accepted answer is of the motor and the register that were asked.
LEMMA ReadIsSpan ==
    ASSUME CodecInv, NEW f \in bus, NEW q \in asked, q.op = QUERY,
           oa_can_decode_register_response(f, q) = "OK"
    PROVE  LET v == Value(f, q) IN
           /\ v.rid \in SpanRegisters
           /\ \E d \in Device : /\ v.send = d.send /\ v.receive = d.receive
                                /\ v.units = SpanOf(d, v.rid)
  <1>1. f.clean /\ f.id = q.receive /\ f.data[3] = q.op /\ f.data[4] = q.rid
    BY DEF oa_can_decode_register_response
  <1>2. order = {}
    BY DEF CodecInv, OrderIsSound
  <1>3. Answered(f)
    BY <1>2 DEF CodecInv, BusIsAnswers
  <1>4. PICK d \in Device : f.id = d.receive /\ SubSeq(f.data, 5, 8) = F32Bytes(SpanOf(d, q.rid))
    BY Zenon, <1>1, <1>3 DEF Answered
  <1>5. q.rid \in SpanRegisters
    BY DEF CodecInv, AsksMotors
  <1>6. PICK e \in Device : q.send = e.send /\ q.receive = e.receive
    BY DEF CodecInv, AsksMotors
  <1>7. e = d
    BY Zenon, <1>1, <1>4, <1>6, MotorFacts
  <1>8. F32Units(SubSeq(f.data, 5, 8)) = SpanOf(d, q.rid)
    BY Zenon, <1>4, SpanIsSpan, BinaryRoundTrip
  <1> QED BY Zenon, <1>5, <1>6, <1>7, <1>8 DEF Value

LEMMA ReadKeepsInv ==
    ASSUME CodecInv, NEW f \in bus, read_register(f)
    PROVE  CodecInv'
  <1>1. /\ asked' \subseteq asked /\ bus' \subseteq bus /\ squeeze' = {}
        /\ UNCHANGED <<profiles, order, got>>
    BY DEF read_register
  <1>2. ReadsAreSpans'
    <2> SUFFICES ASSUME NEW v \in reads', v \notin reads
                 PROVE  /\ v.rid \in SpanRegisters
                        /\ \E d \in Device : /\ v.send = d.send /\ v.receive = d.receive
                                             /\ v.units = SpanOf(d, v.rid)
      BY DEF CodecInv, ReadsAreSpans
    <2>1. PICK q \in asked : /\ oa_can_decode_register_response(f, q) = "OK"
                             /\ q.op = QUERY /\ v = Value(f, q)
      BY DEF read_register
    <2> QED BY <2>1, ReadIsSpan
  <1>3. AsksMotors' /\ OrderIsSound'
    BY <1>1 DEF CodecInv, AsksMotors, OrderIsSound
  <1>4. BusIsAnswers' /\ BusIsEchoes'
    BY <1>1 DEF CodecInv, BusIsAnswers, BusIsEchoes
  <1>5. ProfileIsTheMotors' /\ SetPointSurvives' /\ GripperNeverExceeds'
    BY <1>1 DEF CodecInv, ProfileIsTheMotors, SetPointSurvives, GripperNeverExceeds
  <1> QED BY Zenon, <1>2, <1>3, <1>4, <1>5 DEF CodecInv

\* Three registers of one motor are its spans.
LEMMA ProfileKeepsInv ==
    ASSUME CodecInv, NEW p \in reads, NEW v \in reads, NEW t \in reads,
           oa_can_mit_profile_from_registers(p, v, t)
    PROVE  CodecInv'
  <1> DEFINE profile == [send |-> p.send, receive |-> p.receive, pmax |-> p.units,
                         vmax |-> v.units, tmax |-> t.units]
  <1>1. /\ p.rid = PMAX /\ v.rid = VMAX /\ t.rid = TMAX
        /\ p.receive = v.receive /\ p.receive = t.receive
        /\ profiles' = profiles \cup {profile} /\ squeeze' = {}
        /\ UNCHANGED <<bus, asked, reads, order, got>>
    BY DEF oa_can_mit_profile_from_registers
  <1>2. PICK d \in Device : p.send = d.send /\ p.receive = d.receive /\ p.units = SpanOf(d, PMAX)
    BY <1>1 DEF CodecInv, ReadsAreSpans
  <1>3. PICK e \in Device : v.receive = e.receive /\ v.units = SpanOf(e, VMAX)
    BY <1>1 DEF CodecInv, ReadsAreSpans
  <1>4. PICK c \in Device : t.receive = c.receive /\ t.units = SpanOf(c, TMAX)
    BY <1>1 DEF CodecInv, ReadsAreSpans
  <1>5. e = d /\ c = d
    BY Zenon, <1>1, <1>2, <1>3, <1>4, MotorFacts
  <1>6. /\ d.send = profile.send /\ d.receive = profile.receive
        /\ d.pmax = profile.pmax /\ d.vmax = profile.vmax /\ d.tmax = profile.tmax
    BY <1>2, <1>3, <1>4, <1>5 DEF SpanOf, PMAX, VMAX, TMAX
  <1> HIDE DEF profile
  <1>7. ProfileIsTheMotors'
    BY Zenon, <1>1, <1>6 DEF CodecInv, ProfileIsTheMotors
  <1>8. AsksMotors' /\ ReadsAreSpans' /\ OrderIsSound' /\ BusIsAnswers' /\ BusIsEchoes'
    BY <1>1 DEF CodecInv, AsksMotors, ReadsAreSpans, OrderIsSound, BusIsAnswers, BusIsEchoes
  <1>9. SetPointSurvives' /\ GripperNeverExceeds'
    BY <1>1 DEF CodecInv, SetPointSurvives, GripperNeverExceeds
  <1> QED BY Zenon, <1>7, <1>8, <1>9 DEF CodecInv

\* A set-point goes out on a drained bus, and what comes back is its echo.
LEMMA EncodeKeepsInv ==
    ASSUME CodecInv, NEW d \in Device, NEW p \in profiles, NEW s \in Setpoint,
           encode_mit_profile(d, p, s)
    PROVE  CodecInv'
  <1> DEFINE o == [device |-> d.send, point |-> s, profile |-> p]
  <1>1. /\ bus = {} /\ asked = {} /\ p.send = d.send /\ InSpan(s, p)
        /\ order' = {o} /\ got' = {} /\ squeeze' = {} /\ UNCHANGED <<asked, reads, profiles>>
    BY DEF encode_mit_profile
  <1>2. PICK status \in {1, 14, 15} : Deliver(Echo(d, oa_encode_mit_values(s, p), status))
    BY DEF encode_mit_profile
  <1>3. o.device = d.send /\ o.point = s /\ o.profile = p
    OBVIOUS
  <1> HIDE DEF o
  <1>4. \A f \in bus' : f = Echo(d, oa_encode_mit_values(s, p), status)
    BY <1>1, <1>2, DeliverAdds
  <1>5. BusIsEchoes'
    BY Zenon, <1>1, <1>3, <1>4 DEF BusIsEchoes
  <1>6. OrderIsSound'
    BY <1>1, <1>3 DEF OrderIsSound
  <1>7. AsksMotors' /\ ReadsAreSpans' /\ BusIsAnswers'
    BY <1>1 DEF CodecInv, AsksMotors, ReadsAreSpans, BusIsAnswers
  <1>8. ProfileIsTheMotors' /\ SetPointSurvives' /\ GripperNeverExceeds'
    BY <1>1 DEF CodecInv, ProfileIsTheMotors, SetPointSurvives, GripperNeverExceeds
  <1> QED BY Zenon, <1>5, <1>6, <1>7, <1>8 DEF CodecInv

\* A set-point has integer fields and a profile a motor's spans, one profile to an
\* identifier.
LEMMA ProfileFacts ==
    ASSUME CodecInv, NEW p \in profiles
    PROVE  /\ p.send \in Identifier /\ p.pmax \in Nat \ {0} /\ p.vmax \in Nat \ {0} /\ p.tmax \in Nat \ {0}
           /\ \A q \in profiles : q.send = p.send => q.pmax = p.pmax /\ q.vmax = p.vmax /\ q.tmax = p.tmax
  <1>1. PICK d \in Device : /\ d.send = p.send /\ d.receive = p.receive
                            /\ d.pmax = p.pmax /\ d.vmax = p.vmax /\ d.tmax = p.tmax
    BY DEF CodecInv, ProfileIsTheMotors
  <1>2. \A a : a \in 1 .. 2 ^ 24 - 1 => a \in Nat \ {0}
    BY SMT, PowersOfTwo
  <1>3. p.send \in Identifier /\ p.pmax \in Nat \ {0} /\ p.vmax \in Nat \ {0} /\ p.tmax \in Nat \ {0}
    BY Zenon, <1>1, <1>2, MotorFacts
  <1>4. ASSUME NEW q \in profiles, q.send = p.send
        PROVE  q.pmax = p.pmax /\ q.vmax = p.vmax /\ q.tmax = p.tmax
    <2>1. PICK e \in Device : /\ e.send = q.send
                              /\ e.pmax = q.pmax /\ e.vmax = q.vmax /\ e.tmax = q.tmax
      BY DEF CodecInv, ProfileIsTheMotors
    <2>2. e = d
      BY Zenon, <1>1, <1>4, <2>1, MotorFacts
    <2> QED BY Zenon, <1>1, <2>1, <2>2
  <1> QED BY Zenon, <1>3, <1>4

LEMMA SetpointFacts ==
    ASSUME NEW s \in Setpoint
    PROVE  {s.p, s.v, s.kp, s.kd, s.t} \subseteq Int
  <1>1. s \in [p: Int, v: Int, kp: Int, kd: Int, t: Int]
    BY Zenon, CodecConstants
  <1> QED BY <1>1

LEMMA DecodeKeepsInv ==
    ASSUME CodecInv, NEW f \in bus, NEW p \in profiles, order # {}, decode_feedback(f, p)
    PROVE  CodecInv'
  <1>1. /\ got' = {Feedback(f, p)} /\ bus' \subseteq bus /\ squeeze' = {}
        /\ UNCHANGED <<asked, reads, profiles, order>>
    BY DEF decode_feedback
  <1>2. SetPointSurvives'
    <2> SUFFICES ASSUME NEW o \in order, NEW g, g = Feedback(f, p), g.device = o.device
                 PROVE  /\ Within(o.point.p, g.p, o.profile.pmax, 16)
                        /\ Within(o.point.v, g.v, o.profile.vmax, 12)
                        /\ Within(o.point.t, g.t, o.profile.tmax, 12)
      BY Zenon, <1>1 DEF SetPointSurvives
    <2>1. PICK d \in Device, status \in {1, 14, 15} :
            f = Echo(d, oa_encode_mit_values(o.point, o.profile), status)
      BY Zenon DEF CodecInv, BusIsEchoes
    <2>2. /\ o.profile \in profiles /\ o.device = o.profile.send
          /\ o.point \in Setpoint /\ InSpan(o.point, o.profile)
      BY Zenon DEF CodecInv, OrderIsSound
    <2>3. g.device = p.send
      BY DEF Feedback
    <2>4. p.pmax = o.profile.pmax /\ p.vmax = o.profile.vmax /\ p.tmax = o.profile.tmax
      BY Zenon, <2>2, <2>3, ProfileFacts
    <2>5. {o.profile.pmax, o.profile.vmax, o.profile.tmax} \subseteq Nat \ {0}
      BY Zenon, <2>2, ProfileFacts
    <2>6. {o.point.p, o.point.v, o.point.kp, o.point.kd, o.point.t} \subseteq Int
      BY Zenon, <2>2, SetpointFacts
    <2> QED BY Zenon, <2>1, <2>2, <2>4, <2>5, <2>6, FieldsComeBack
  <1>3. AsksMotors' /\ ReadsAreSpans' /\ OrderIsSound' /\ BusIsAnswers' /\ BusIsEchoes'
    BY <1>1 DEF CodecInv, AsksMotors, ReadsAreSpans, OrderIsSound, BusIsAnswers, BusIsEchoes
  <1>4. ProfileIsTheMotors' /\ GripperNeverExceeds'
    BY <1>1 DEF CodecInv, ProfileIsTheMotors, GripperNeverExceeds
  <1> QED BY Zenon, <1>2, <1>3, <1>4 DEF CodecInv

LEMMA DropKeepsInv ==
    ASSUME CodecInv, bus' \subseteq bus, squeeze' = {},
           UNCHANGED <<asked, reads, profiles, order, got>>
    PROVE  CodecInv'
  <1>1. AsksMotors' /\ ReadsAreSpans' /\ OrderIsSound' /\ BusIsAnswers' /\ BusIsEchoes'
    BY DEF CodecInv, AsksMotors, ReadsAreSpans, OrderIsSound, BusIsAnswers, BusIsEchoes
  <1>2. ProfileIsTheMotors' /\ SetPointSurvives' /\ GripperNeverExceeds'
    BY DEF CodecInv, ProfileIsTheMotors, SetPointSurvives, GripperNeverExceeds
  <1> QED BY Zenon, <1>1, <1>2 DEF CodecInv

LEMMA GripKeepsInv ==
    ASSUME CodecInv, NEW p \in profiles, NEW g \in Grip, NEW h \in Hand, encode_gripper(g, h, p)
    PROVE  CodecInv'
  <1>1. /\ GripperFits(g, h, p)
        /\ squeeze' = {[grip |-> g, hand |-> h, tmax |-> p.tmax,
                        frame |-> oa_can_encode_pos_force(g, h, p)]}
        /\ UNCHANGED <<bus, asked, reads, profiles, order, got>>
    BY Zenon DEF encode_gripper
  <1>2. /\ g \in [opening: Int, speed: Int, torque: Int] /\ h.closed # h.open
        /\ h \in [closed: Int, open: Int, maximum: Nat \ {0}]
    BY Zenon, CodecConstants
  <1>3. p.send \in Identifier /\ p.tmax \in Nat \ {0}
    BY Zenon, ProfileFacts
  <1> DEFINE f == oa_can_encode_pos_force(g, h, p)
  <1>4. /\ oa_can_gripper_opening(h, f.position) = g.opening
        /\ f.speed * 8 * h.maximum <= g.speed * Span(h) * 100
        /\ f.current * p.tmax <= g.torque * 10000
        /\ f.speed \in 0 .. 2 ^ 16 - 1 /\ f.current \in 0 .. 2 ^ 16 - 1
        /\ f.id \in Identifier
    BY SMT, <1>1, <1>2, <1>3, GripperRoundsDown
  <1> HIDE DEF f
  <1>5. \A q \in squeeze' : q.grip = g /\ q.hand = h /\ q.tmax = p.tmax /\ q.frame = f
    BY <1>1 DEF f
  <1>6. GripperNeverExceeds'
    BY SMT, <1>4, <1>5 DEF GripperNeverExceeds
  <1>7. AsksMotors' /\ ReadsAreSpans' /\ OrderIsSound' /\ BusIsAnswers' /\ BusIsEchoes'
    BY <1>1 DEF CodecInv, AsksMotors, ReadsAreSpans, OrderIsSound, BusIsAnswers, BusIsEchoes
  <1>8. ProfileIsTheMotors' /\ SetPointSurvives'
    BY <1>1 DEF CodecInv, ProfileIsTheMotors, SetPointSurvives
  <1> QED BY Zenon, <1>6, <1>7, <1>8 DEF CodecInv

LEMMA CodecStarts == CodecInit => CodecInv
  BY DEF CodecInit, CodecInv, AsksMotors, ReadsAreSpans, OrderIsSound, BusIsAnswers, BusIsEchoes,
         ProfileIsTheMotors, SetPointSurvives, GripperNeverExceeds

LEMMA CodecInductive ==
    ASSUME CodecInv, [CodecNext]_codecVars
    PROVE  CodecInv'
  <1>1. CASE \E d \in Device, rid \in {PMAX, VMAX, TMAX} : query_register(d, rid)
    BY Zenon, <1>1, QueryKeepsInv DEF SpanRegisters
  <1>2. CASE \E d \in Device : write_register(d, CTRL_MODE, U32Bytes(1))
    BY Zenon, <1>2, WriteKeepsInv
  <1>3. ASSUME NEW f \in bus, read_register(f) PROVE CodecInv'
    BY Zenon, <1>3, ReadKeepsInv
  <1>4. ASSUME NEW f \in bus, bus_drops(f) PROVE CodecInv'
    <2>1. bus' \subseteq bus /\ squeeze' = {} /\ UNCHANGED <<asked, reads, profiles, order, got>>
      BY <1>4 DEF bus_drops
    <2> QED BY Zenon, <2>1, DropKeepsInv
  <1>5. CASE \E p, v, t \in reads : oa_can_mit_profile_from_registers(p, v, t)
    BY Zenon, <1>5, ProfileKeepsInv
  <1>6. CASE \E d \in Device, p \in profiles, s \in Setpoint : encode_mit_profile(d, p, s)
    BY Zenon, <1>6, EncodeKeepsInv
  <1>7. CASE \E f \in bus, p \in profiles : order # {} /\ decode_feedback(f, p)
    BY Zenon, <1>7, DecodeKeepsInv
  <1>8. CASE \E p \in profiles, g \in Grip, h \in Hand : encode_gripper(g, h, p)
    BY Zenon, <1>8, GripKeepsInv
  <1>9. CASE UNCHANGED codecVars
    <2>1. AsksMotors' /\ ReadsAreSpans' /\ OrderIsSound' /\ BusIsAnswers' /\ BusIsEchoes'
      BY <1>9 DEF CodecInv, AsksMotors, ReadsAreSpans, OrderIsSound, BusIsAnswers, BusIsEchoes, codecVars
    <2>2. ProfileIsTheMotors' /\ SetPointSurvives' /\ GripperNeverExceeds'
      BY <1>9 DEF CodecInv, ProfileIsTheMotors, SetPointSurvives, GripperNeverExceeds, codecVars
    <2> QED BY Zenon, <2>1, <2>2 DEF CodecInv
  <1> QED BY Zenon, <1>1, <1>2, <1>3, <1>4, <1>5, <1>6, <1>7, <1>8, <1>9 DEF CodecNext

LEMMA CodecTells == CodecInv => CodecIsExact
  BY Zenon DEF CodecInv, CodecIsExact

LEMMA CodecInvariant == CodecSpec => []CodecInv
  <1>1. CodecInv /\ [CodecNext]_codecVars => CodecInv'
    BY CodecInductive
  <1> QED BY <1>1, CodecStarts, PTL DEF CodecSpec

\* What the codec encodes and decodes is what was meant: verified profiles hold the spans
\* of the motor they name, a set-point comes back as itself, short of one quantum, and a
\* gripper frame never asks for more than the request (can/src/openarm_can.c), for any
\* motors with distinct identifiers, any set-points, requests and calibrations, and a bus
\* that keeps, repeats, damages or loses any number of answers.
THEOREM CodecMeansWhatItSays == CodecSpec => []CodecIsExact
  BY CodecInvariant, CodecTells, PTL

-----------------------------------------------------------------------------
(* CanCodec: what is on the wire.  Every frame has a standard identifier   *)
(* and eight bytes that are bytes, and the bus keeps within its room.      *)

WireFrames == [id: Identifier, clean: BOOLEAN, data: [1 .. 8 -> Byte]]

AtMostOne(S) == S = {} \/ \E x : S = {x}
CodecBounded ==
    /\ bus \subseteq WireFrames /\ IsFiniteSet(bus) /\ Cardinality(bus) <= BusRoom
    /\ \A q \in asked : ValidRequest(q) /\ q.op \in {QUERY, WRITE}
    /\ AtMostOne(asked) /\ AtMostOne(order) /\ AtMostOne(got)

\* The halves of a word, of a field and of a byte.
LEMMA WordHalves ==
    ASSUME NEW x \in Nat, x < 2 ^ 16
    PROVE  Shr(x, 8) \in Byte /\ Low(x, 8) \in Byte
  <1>1. x \div 256 \in 0 .. 255 /\ x % 256 \in 0 .. 255
    BY SMT, PowersOfTwo
  <1>2. Shr(x, 8) = x \div 256 /\ Low(x, 8) = x % 256
    BY SMT, PowersOfTwo DEF Shr, Low
  <1> QED BY ONLY Zenon, <1>1, <1>2 DEF Byte

LEMMA FieldHalves ==
    ASSUME NEW x \in Nat, x < 2 ^ 12
    PROVE  Shr(x, 4) \in Byte /\ Low(x, 4) \in 0 .. 15 /\ Shr(x, 8) \in 0 .. 15
  <1>1. x \div 16 \in 0 .. 255 /\ x % 16 \in 0 .. 15 /\ x \div 256 \in 0 .. 15
    BY SMT, PowersOfTwo
  <1>2. Shr(x, 4) = x \div 16 /\ Low(x, 4) = x % 16 /\ Shr(x, 8) = x \div 256
    BY SMT, PowersOfTwo DEF Shr, Low
  <1> QED BY ONLY Zenon, <1>1, <1>2 DEF Byte

LEMMA ByteHalves ==
    ASSUME NEW x \in Byte
    PROVE  Shr(x, 4) \in 0 .. 15 /\ Low(x, 4) \in 0 .. 15
  <1>1. x \in 0 .. 255
    BY DEF Byte
  <1>2. x \div 16 \in 0 .. 15 /\ x % 16 \in 0 .. 15
    BY SMT, <1>1
  <1>3. Shr(x, 4) = x \div 16 /\ Low(x, 4) = x % 16
    BY SMT, <1>1, PowersOfTwo DEF Shr, Low
  <1> QED BY ONLY Zenon, <1>2, <1>3

LEMMA TwoNibbles ==
    ASSUME NEW high \in 0 .. 15, NEW low \in 0 .. 15
    PROVE  high * 16 + low \in Byte
  BY SMT DEF Byte

\* An identifier splits into two bytes.
LEMMA IdentifierBytes ==
    ASSUME NEW from \in Identifier
    PROVE  Low(from, 8) \in Byte /\ Shr(from, 8) \in Byte /\ Low(from, 4) \in 0 .. 15
  <1>1. from \in Nat /\ from < 2 ^ 12 /\ from < 2 ^ 16
    BY SMT, PowersOfTwo DEF Identifier
  <1>2. Low(from, 8) \in Byte /\ Shr(from, 8) \in Byte
    BY ONLY Zenon, <1>1, WordHalves
  <1>3. Low(from, 4) \in 0 .. 15
    BY ONLY Zenon, <1>1, FieldHalves
  <1> QED BY <1>2, <1>3

LEMMA RegisterFrameOnWire ==
    ASSUME NEW id \in Identifier, NEW from \in Identifier, NEW rid \in Byte, NEW op \in Byte,
           NEW bytes \in Seq(Byte), Len(bytes) = 4
    PROVE  RegisterFrame(id, from, rid, op, bytes) \in WireFrames
  <1> DEFINE head == <<Low(from, 8), Shr(from, 8), op, rid>>
             data == head \o bytes
  <1>1. head \in Seq(Byte) /\ Len(head) = 4
    BY Zenon, IdentifierBytes, FourBytes
  <1> HIDE DEF head
  <1>2. data \in Seq(Byte) /\ Len(data) = 8
    <2>1. data \in Seq(Byte) /\ Len(data) = Len(head) + Len(bytes)
      BY Zenon, <1>1, ConcatProperties
    <2> QED BY SMT, <1>1, <2>1
  <1> HIDE DEF data
  <1>3. data \in [1 .. 8 -> Byte]
    BY Zenon, <1>2, LenProperties
  <1>4. RegisterFrame(id, from, rid, op, bytes) = [id |-> id, clean |-> TRUE, data |-> data]
    BY DEF RegisterFrame, data, head
  <1> QED BY <1>3, <1>4 DEF WireFrames

\* A damaged frame is still a frame.
LEMMA DamagedOnWire ==
    ASSUME NEW f \in WireFrames
    PROVE  Damaged(f) \in WireFrames
  BY DEF Damaged, WireFrames

LEMMA AnswersOnWire ==
    ASSUME NEW d \in Device
    PROVE  /\ \A rid \in SpanRegisters :
                MotorAnswer(d, RegisterFrame(DiagnosticId, d.send, rid, QUERY, <<0, 0, 0, 0>>))
                  \in WireFrames
           /\ MotorAnswer(d, RegisterFrame(DiagnosticId, d.send, CTRL_MODE, WRITE, U32Bytes(1)))
                \in WireFrames
  <1>1. d.send \in Identifier /\ d.receive \in Identifier
    BY MotorFacts
  <1>2. \A b : b \in Byte => b \in Int
    BY DEF Byte
  <1>3. ASSUME NEW rid \in SpanRegisters
        PROVE  MotorAnswer(d, RegisterFrame(DiagnosticId, d.send, rid, QUERY, <<0, 0, 0, 0>>))
                 \in WireFrames
    <2> DEFINE zeros == <<0, 0, 0, 0>>
               f == RegisterFrame(DiagnosticId, d.send, rid, QUERY, zeros)
               bytes == F32Bytes(SpanOf(d, rid))
    <2>1. rid \in Byte /\ rid \in Int /\ QUERY \in Byte /\ QUERY \in Int /\ QUERY # WRITE
      BY DEF SpanRegisters, PMAX, VMAX, TMAX, QUERY, WRITE, Byte
    <2>2. zeros \in Seq(Int) /\ Len(zeros) = 4
      OBVIOUS
    <2> HIDE DEF zeros
    <2>3. f.data[3] = QUERY /\ f.data[4] = rid
      BY SMT, <1>1, <2>1, <2>2, RegisterFrameParts
    <2> HIDE DEF f
    <2>4. Register(d, rid) = bytes
      BY DEF Register, SpanOf, SpanRegisters
    <2>5. MotorAnswer(d, f) = RegisterFrame(d.receive, d.send, rid, QUERY, bytes)
      BY <2>1, <2>3, <2>4 DEF MotorAnswer
    <2>6. bytes \in Seq(Byte) /\ Len(bytes) = 4
      BY Zenon, SpanIsSpan, BinaryRoundTrip
    <2> HIDE DEF bytes
    <2>7. MotorAnswer(d, f) \in WireFrames
      BY Zenon, <1>1, <2>1, <2>5, <2>6, RegisterFrameOnWire
    <2> QED BY <2>7 DEF f, zeros
  <1>4. MotorAnswer(d, RegisterFrame(DiagnosticId, d.send, CTRL_MODE, WRITE, U32Bytes(1)))
          \in WireFrames
    <2> DEFINE f == RegisterFrame(DiagnosticId, d.send, CTRL_MODE, WRITE, U32Bytes(1))
    <2>1. /\ CTRL_MODE \in Byte /\ CTRL_MODE \in Int /\ WRITE \in Byte /\ WRITE \in Int
      BY DEF CTRL_MODE, WRITE, Byte
    <2>2. U32Bytes(1) \in Seq(Int) /\ U32Bytes(1) \in Seq(Byte) /\ Len(U32Bytes(1)) = 4
      <3>1. U32Bytes(1) = <<1, 0, 0, 0>>
        BY SMT, PowersOfTwo DEF U32Bytes, Low, Shr
      <3>2. 1 \in Byte /\ 0 \in Byte
        BY DEF Byte
      <3> QED BY Zenon, <3>1, <3>2, FourBytes
    <2>3. f.data[3] = WRITE /\ f.data[4] = CTRL_MODE /\ SubSeq(f.data, 5, 8) = U32Bytes(1)
      BY SMT, <1>1, <2>1, <2>2, RegisterFrameParts
    <2> HIDE DEF f
    <2>4. MotorAnswer(d, f) = RegisterFrame(d.receive, d.send, CTRL_MODE, WRITE, U32Bytes(1))
      BY <2>3 DEF MotorAnswer
    <2>5. MotorAnswer(d, f) \in WireFrames
      BY Zenon, <1>1, <2>1, <2>2, <2>4, RegisterFrameOnWire
    <2> QED BY <2>5 DEF f
  <1> QED BY <1>3, <1>4

\* The motion frame of a set-point is eight bytes.
LEMMA MotionFrameBytes ==
    ASSUME NEW s, NEW p, InSpan(s, p), {s.p, s.v, s.kp, s.kd, s.t} \subseteq Int,
           {p.pmax, p.vmax, p.tmax} \subseteq Nat \ {0}
    PROVE  \A i \in 1 .. 8 : oa_encode_mit_values(s, p).data[i] \in Byte
  <1> DEFINE pos == oa_to_uint(s.p, -p.pmax, p.pmax, 16)
             vel == oa_to_uint(s.v, -p.vmax, p.vmax, 12)
             kp == oa_to_uint(s.kp, 0, 4000, 12)
             kd == oa_to_uint(s.kd, 0, 40, 12)
             tor == oa_to_uint(s.t, -p.tmax, p.tmax, 12)
             data == oa_encode_mit_values(s, p).data
  <1>1. /\ pos \in Nat /\ pos < 2 ^ 16 /\ vel \in Nat /\ vel < 2 ^ 12
        /\ tor \in Nat /\ tor < 2 ^ 12
        /\ kp \in Nat /\ kp < 2 ^ 12 /\ kd \in Nat /\ kd < 2 ^ 12
    <2> HIDE DEF pos, vel, kp, kd, tor
    <2>1. /\ pos \in Nat /\ pos < 65536 /\ vel \in Nat /\ vel < 4096 /\ tor \in Nat /\ tor < 4096
          /\ kp \in Nat /\ kp < 4096 /\ kd \in Nat /\ kd < 4096
      BY FieldsFit DEF pos, vel, kp, kd, tor
    <2>2. 2 ^ 16 = 65536 /\ 2 ^ 12 = 4096
      BY SMT, PowersOfTwo
    <2> QED BY SMT, <2>1, <2>2
  <1>2. data = <<Shr(pos, 8), Low(pos, 8), Shr(vel, 4), Low(vel, 4) * 16 + Shr(kp, 8),
                 Low(kp, 8), Shr(kd, 4), Low(kd, 4) * 16 + Shr(tor, 8), Low(tor, 8)>>
    BY DEF oa_encode_mit_values
  <1> HIDE DEF pos, vel, kp, kd, tor, data
  <1>3. Shr(pos, 8) \in Byte /\ Low(pos, 8) \in Byte
    BY ONLY Zenon, <1>1, WordHalves
  <1>4. Shr(vel, 4) \in Byte /\ Low(vel, 4) \in 0 .. 15
    BY ONLY Zenon, <1>1, FieldHalves
  <1>5. Shr(kd, 4) \in Byte /\ Low(kd, 4) \in 0 .. 15
    BY ONLY Zenon, <1>1, FieldHalves
  <1>6. Shr(kp, 8) \in 0 .. 15 /\ Shr(tor, 8) \in 0 .. 15
    BY ONLY Zenon, <1>1, FieldHalves
  <1>7. Low(kp, 8) \in Byte /\ Low(tor, 8) \in Byte
    <2>1. kp < 2 ^ 16 /\ tor < 2 ^ 16
      BY SMT, <1>1, PowersOfTwo
    <2> QED BY ONLY Zenon, <1>1, <2>1, WordHalves
  <1>8. Low(vel, 4) * 16 + Shr(kp, 8) \in Byte /\ Low(kd, 4) * 16 + Shr(tor, 8) \in Byte
    BY ONLY Zenon, <1>4, <1>5, <1>6, TwoNibbles
  <1>9. /\ data[1] \in Byte /\ data[2] \in Byte /\ data[3] \in Byte /\ data[4] \in Byte
        /\ data[5] \in Byte /\ data[6] \in Byte /\ data[7] \in Byte /\ data[8] \in Byte
    BY <1>2, <1>3, <1>4, <1>5, <1>7, <1>8
  <1>10. \A i \in 1 .. 8 : i \in {1, 2, 3, 4, 5, 6, 7, 8}
    OBVIOUS
  <1> QED BY ONLY Zenon, <1>9, <1>10 DEF data

\* A motor's answer to it is a frame.
LEMMA EchoOnWire ==
    ASSUME NEW d \in Device, NEW f, \A i \in 1 .. 8 : f.data[i] \in Byte,
           NEW status \in {1, 14, 15}
    PROVE  Echo(d, f, status) \in WireFrames
  <1>1. d.receive \in Identifier /\ d.send \in Identifier
    BY MotorFacts
  <1>2. /\ f.data[1] \in Byte /\ f.data[2] \in Byte /\ f.data[3] \in Byte
        /\ f.data[4] \in Byte /\ f.data[7] \in Byte /\ f.data[8] \in Byte
    OBVIOUS
  <1>3. status * 16 + Low(d.send, 4) \in Byte
    <2>1. status \in 0 .. 15 /\ Low(d.send, 4) \in 0 .. 15
      BY <1>1, IdentifierBytes
    <2> QED BY ONLY Zenon, <2>1, TwoNibbles
  <1>4. Shr(f.data[4], 4) * 16 + Low(f.data[7], 4) \in Byte
    <2>1. Shr(f.data[4], 4) \in 0 .. 15 /\ Low(f.data[7], 4) \in 0 .. 15
      BY ONLY Zenon, <1>2, ByteHalves
    <2> QED BY ONLY Zenon, <2>1, TwoNibbles
  <1>5. 30 \in Byte
    BY DEF Byte
  <1> QED BY <1>1, <1>2, <1>3, <1>4, <1>5 DEF Echo, WireFrames

LEMMA RoomIsPositive == BusRoom \in Nat \ {0}
  BY Zenon, CodecConstants

LEMMA DeliverBounded ==
    ASSUME bus \subseteq WireFrames, IsFiniteSet(bus), Cardinality(bus) <= BusRoom,
           NEW f \in WireFrames, Deliver(f)
    PROVE  bus' \subseteq WireFrames /\ IsFiniteSet(bus') /\ Cardinality(bus') <= BusRoom
  <1>1. CASE Cardinality(bus \cup {f}) <= BusRoom /\ bus' = bus \cup {f}
    BY <1>1, FS_AddElement
  <1>2. ASSUME NEW old \in bus, bus' = (bus \ {old}) \cup {f}
        PROVE  bus' \subseteq WireFrames /\ IsFiniteSet(bus') /\ Cardinality(bus') <= BusRoom
    <2> DEFINE rest == bus \ {old}
    <2>1. IsFiniteSet(rest) /\ Cardinality(rest) = Cardinality(bus) - 1
      BY FS_RemoveElement
    <2>2. Cardinality(bus) \in Nat /\ Cardinality(rest) \in Nat
      BY <2>1, FS_CardinalityType
    <2> HIDE DEF rest
    <2>3. /\ IsFiniteSet(rest \cup {f})
          /\ Cardinality(rest \cup {f}) \in {Cardinality(rest), Cardinality(rest) + 1}
      BY <2>1, FS_AddElement
    <2>4. bus' = rest \cup {f} /\ bus' \subseteq WireFrames
      BY <1>2 DEF rest
    <2>5. Cardinality(rest \cup {f}) <= BusRoom
      BY ONLY SMT, <2>1, <2>2, <2>3, RoomIsPositive, Cardinality(bus) <= BusRoom
    <2> QED BY <2>3, <2>4, <2>5
  <1> QED BY <1>1, <1>2 DEF Deliver

LEMMA DropBounded ==
    ASSUME bus \subseteq WireFrames, IsFiniteSet(bus), Cardinality(bus) <= BusRoom,
           NEW f, bus' \in {bus, bus \ {f}}
    PROVE  bus' \subseteq WireFrames /\ IsFiniteSet(bus') /\ Cardinality(bus') <= BusRoom
  <1>1. IsFiniteSet(bus \ {f}) /\ Cardinality(bus \ {f}) \in {Cardinality(bus), Cardinality(bus) - 1}
    BY FS_RemoveElement
  <1>2. Cardinality(bus) \in Nat
    BY FS_CardinalityType
  <1>3. Cardinality(bus \ {f}) <= BusRoom
    BY SMT, <1>1, <1>2, RoomIsPositive
  <1> QED BY <1>1, <1>3

LEMMA CodecBoundedKept ==
    ASSUME CodecInv, CodecBounded, [CodecNext]_codecVars
    PROVE  CodecBounded'
  <1>1. /\ bus \subseteq WireFrames /\ IsFiniteSet(bus) /\ Cardinality(bus) <= BusRoom
        /\ \A q \in asked : ValidRequest(q) /\ q.op \in {QUERY, WRITE}
        /\ AtMostOne(asked) /\ AtMostOne(order) /\ AtMostOne(got)
    BY DEF CodecBounded
  <1>2. ASSUME NEW d \in Device, NEW rid \in SpanRegisters, query_register(d, rid)
        PROVE  CodecBounded'
    <2> DEFINE f == MotorAnswer(d, RegisterFrame(DiagnosticId, d.send, rid, QUERY, <<0, 0, 0, 0>>))
               q == Request(d, rid, QUERY)
    <2>1. /\ ValidRequest(q) /\ asked' = {q} /\ UNCHANGED <<order, got>>
          /\ Deliver(f) \/ Deliver(Damaged(f)) \/ UNCHANGED bus
      BY Zenon, <1>2 DEF query_register
    <2>2. f \in WireFrames /\ Damaged(f) \in WireFrames
      BY Zenon, AnswersOnWire, DamagedOnWire
    <2>3. q.op \in {QUERY, WRITE}
      BY DEF Request
    <2> HIDE DEF f, q
    <2>4. bus' \subseteq WireFrames /\ IsFiniteSet(bus') /\ Cardinality(bus') <= BusRoom
      BY Zenon, <1>1, <2>1, <2>2, DeliverBounded
    <2> QED BY Zenon, <1>1, <2>1, <2>3, <2>4 DEF CodecBounded, AtMostOne
  <1>3. ASSUME NEW d \in Device, write_register(d, CTRL_MODE, U32Bytes(1))
        PROVE  CodecBounded'
    <2> DEFINE f == MotorAnswer(d, RegisterFrame(DiagnosticId, d.send, CTRL_MODE, WRITE, U32Bytes(1)))
               q == Request(d, CTRL_MODE, WRITE)
    <2>1. /\ ValidRequest(q) /\ asked' = {q} /\ UNCHANGED <<order, got>> /\ Deliver(f)
      BY Zenon, <1>3 DEF write_register
    <2>2. f \in WireFrames
      BY Zenon, AnswersOnWire
    <2>3. q.op \in {QUERY, WRITE}
      BY DEF Request
    <2> HIDE DEF f, q
    <2>4. bus' \subseteq WireFrames /\ IsFiniteSet(bus') /\ Cardinality(bus') <= BusRoom
      BY Zenon, <1>1, <2>1, <2>2, DeliverBounded
    <2> QED BY Zenon, <1>1, <2>1, <2>3, <2>4 DEF CodecBounded, AtMostOne
  <1>4. ASSUME NEW f \in bus,
               \/ read_register(f) \/ bus_drops(f)
               \/ \E p \in profiles : decode_feedback(f, p)
        PROVE  CodecBounded'
    <2>1. /\ bus' \in {bus, bus \ {f}} /\ asked' \in {{}, asked}
          /\ order' = order /\ (got' = got \/ \E g : got' = {g})
      BY Zenon, <1>4 DEF read_register, bus_drops, decode_feedback
    <2>2. bus' \subseteq WireFrames /\ IsFiniteSet(bus') /\ Cardinality(bus') <= BusRoom
      BY <1>1, <2>1, DropBounded
    <2>3. \A q \in asked' : ValidRequest(q) /\ q.op \in {QUERY, WRITE}
      BY Zenon, <1>1, <2>1
    <2> QED BY Zenon, <1>1, <2>1, <2>2, <2>3 DEF CodecBounded, AtMostOne
  <1>5. ASSUME NEW d \in Device, NEW p \in profiles, NEW s \in Setpoint,
               encode_mit_profile(d, p, s)
        PROVE  CodecBounded'
    <2>1. /\ InSpan(s, p) /\ got' = {} /\ asked' = asked /\ \E o : order' = {o}
      BY Zenon, <1>5 DEF encode_mit_profile
    <2>2. PICK status \in {1, 14, 15} : Deliver(Echo(d, oa_encode_mit_values(s, p), status))
      BY Zenon, <1>5 DEF encode_mit_profile
    <2>3. {p.pmax, p.vmax, p.tmax} \subseteq Nat \ {0}
      BY Zenon, ProfileFacts
    <2>4. {s.p, s.v, s.kp, s.kd, s.t} \subseteq Int
      BY Zenon, SetpointFacts
    <2>5. \A i \in 1 .. 8 : oa_encode_mit_values(s, p).data[i] \in Byte
      BY Zenon, <2>1, <2>3, <2>4, MotionFrameBytes
    <2>6. Echo(d, oa_encode_mit_values(s, p), status) \in WireFrames
      BY Zenon, <2>5, EchoOnWire
    <2>7. bus' \subseteq WireFrames /\ IsFiniteSet(bus') /\ Cardinality(bus') <= BusRoom
      BY Zenon, <1>1, <2>2, <2>6, DeliverBounded
    <2> QED BY Zenon, <1>1, <2>1, <2>7 DEF CodecBounded, AtMostOne
  <1>6. ASSUME UNCHANGED <<bus, asked, order, got>>
        PROVE  CodecBounded'
    BY Zenon, <1>1, <1>6 DEF CodecBounded, AtMostOne
  <1>7. CASE \E p, v, t \in reads : oa_can_mit_profile_from_registers(p, v, t)
    BY Zenon, <1>6, <1>7 DEF oa_can_mit_profile_from_registers
  <1>8. CASE \E p \in profiles, g \in Grip, h \in Hand : encode_gripper(g, h, p)
    BY Zenon, <1>6, <1>8 DEF encode_gripper
  <1>9. CASE UNCHANGED codecVars
    BY <1>6, <1>9 DEF codecVars
  <1> QED BY Zenon, <1>2, <1>3, <1>4, <1>5, <1>7, <1>8, <1>9 DEF CodecNext, SpanRegisters

LEMMA AtMostOneCounts ==
    ASSUME NEW S, AtMostOne(S)
    PROVE  Cardinality(S) <= 1
  <1>1. CASE S = {}
    BY <1>1, FS_EmptySet
  <1>2. ASSUME NEW x, S = {x} PROVE Cardinality(S) <= 1
    <2>1. Cardinality({x}) = 1
      BY Zenon, FS_Singleton
    <2>2. Cardinality(S) = 1
      BY <1>2, <2>1
    <2> QED  BY ONLY <2>2
  <1> QED  BY <1>1, <1>2 DEF AtMostOne

LEMMA CodecTyping == CodecBounded => CodecTypeOK
  BY AtMostOneCounts DEF CodecBounded, CodecTypeOK, WireFrames

LEMMA CodecBoundedStarts == CodecInit => CodecBounded
  <1>1. IsFiniteSet({}) /\ Cardinality({}) <= BusRoom
    BY FS_EmptySet, RoomIsPositive
  <1> QED  BY <1>1 DEF CodecInit, CodecBounded, AtMostOne

\* Whatever the host asks, writes or sends, every frame of the bus has a standard
\* identifier and eight bytes between 0 and 255: no field is encoded into more bits
\* than it has (oa_can_make_register_query_typed, oa_can_make_register_write,
\* oa_encode_mit_values).
THEOREM CodecTypes == CodecSpec => []CodecTypeOK
  <1>1. CodecInv /\ CodecBounded /\ [CodecNext]_codecVars => CodecBounded'
    BY CodecBoundedKept
  <1> QED BY <1>1, CodecInvariant, CodecBoundedStarts, CodecTyping, PTL DEF CodecSpec
=============================================================================
