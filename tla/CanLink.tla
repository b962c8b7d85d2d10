------------------------------ MODULE CanLink ------------------------------
(***************************************************************************)
(* How the SocketCAN backend follows the interface                         *)
(* (socketcan_backend.cpp): link transitions come as netlink datagrams and *)
(* as an error on the CAN socket, and reach the caller of receive() as     *)
(* events; frames dropped by the kernel reach it as a counter.             *)
(*                                                                         *)
(* The kernel (external): every transition of the interface is a netlink   *)
(* message; going down also leaves ENETDOWN on the CAN socket until the    *)
(* next read takes it.  Frames are counted, not described.                 *)
(***************************************************************************)
EXTENDS Naturals, Sequences, FiniteSets

CONSTANTS
    LinkRing,    \* link_events_.size()
    MaxNetlink,  \* bound on link messages the kernel holds for the socket
    Wrap         \* 2^w for the w bits of the kernel's drop counter

ASSUME LinkConstants == {LinkRing, MaxNetlink, Wrap} \subseteq Nat \ {0}

VARIABLES
    link,       \* the interface is up (IFF_UP and IFF_RUNNING)
    netlink,    \* link messages the kernel holds
    sockError,  \* ENETDOWN is pending on the CAN socket
    frames,     \* a frame waits on the CAN socket
    dropped,    \* the kernel's drop counter (SO_RXQ_OVFL)
    linkUp,     \* link_up_
    ring,       \* link_events_
    lastCount,  \* last_overflow_count_
    lastTold,       \* the last link event receive() returned, or "none"
    lost,       \* history: the frames dropped since the counter was last read
    broken      \* history: receive() has returned an error

linkVars == <<link, netlink, sockError, frames, dropped, linkUp, ring, lastCount,
              lastTold, lost, broken>>

LinkTypeOK ==
    /\ {link, sockError, frames, linkUp, broken} \subseteq BOOLEAN
    /\ netlink \in Seq(BOOLEAN) /\ Len(netlink) <= MaxNetlink
    /\ ring \in Seq(BOOLEAN) /\ Len(ring) <= LinkRing
    /\ {dropped, lastCount, lost} \subseteq 0 .. Wrap - 1
    /\ lastTold \in {"none", "up", "down"}

\* makeSocketCanBackend subscribes before it reads the interface's state, and the
\* constructor queues that state as the first event.
LinkInit ==
    /\ link \in BOOLEAN /\ linkUp = link
    /\ ring = <<link>>
    /\ netlink = <<>> /\ sockError = FALSE /\ frames = FALSE
    /\ dropped = 0 /\ lastCount = 0 /\ lost = 0
    /\ lastTold = "none" /\ broken = FALSE

kernelVars == <<link, netlink, sockError, frames, dropped>>
Word(up) == IF up THEN "up" ELSE "down"

-----------------------------------------------------------------------------
(* The kernel.                                                             *)

link_changes ==
    /\ Len(netlink) < MaxNetlink
    /\ link' = ~link
    /\ netlink' = Append(netlink, ~link)
    /\ sockError' = (sockError \/ link)
    /\ UNCHANGED <<frames, dropped, linkUp, ring, lastCount, lastTold, lost, broken>>

\* A frame arrives, or is dropped because the receive queue is full.
frame_arrives ==
    /\ link
    /\ \/ /\ ~frames
          /\ frames' = TRUE
          /\ UNCHANGED <<dropped, lost>>
       \/ /\ frames /\ lost < Wrap - 1
          /\ dropped' = (dropped + 1) % Wrap
          /\ lost' = lost + 1
          /\ UNCHANGED frames
    /\ UNCHANGED <<link, netlink, sockError, linkUp, ring, lastCount, lastTold, broken>>

-----------------------------------------------------------------------------
(* receive(): queued link events first, then netlink, then the CAN socket. *)

\* dequeueLink.
dequeueLink ==
    /\ ring # <<>>
    /\ lastTold' = Word(Head(ring))
    /\ ring' = Tail(ring)
    /\ UNCHANGED <<kernelVars, linkUp, lastCount, lost, broken>>

\* The messages of a batch that change the state, each against the one before it,
\* and the states they report, in their order.
ChangeAt(up, batch) ==
    {i \in 1 .. Len(batch) : batch[i] # (IF i = 1 THEN up ELSE batch[i - 1])}
Nth(S, n) == CHOOSE i \in S : Cardinality({j \in S : j <= i}) = n
Changes(up, batch) ==
    LET at == ChangeAt(up, batch)
    IN  [n \in 1 .. Cardinality(at) |-> batch[Nth(at, n)]]

\* parseLinkDatagram and drainLinkEvents: every message that changes the state is
\* queued; a full ring, a truncated or foreign datagram is an error.
drainLinkEvents ==
    /\ ring = <<>> /\ netlink # <<>>
    /\ LET new == Changes(linkUp, netlink) IN
       \/ /\ Len(new) <= LinkRing
          /\ ring' = new
          /\ linkUp' = netlink[Len(netlink)]
          /\ UNCHANGED broken
       \/ /\ Len(new) > LinkRing
          /\ ring' = SubSeq(new, 1, LinkRing)
          /\ linkUp' = new[LinkRing + 1]
          /\ broken' = TRUE
       \/ \* an unreadable datagram: nothing of it is kept
          /\ broken' = TRUE
          /\ UNCHANGED <<ring, linkUp>>
    /\ netlink' = <<>>
    /\ UNCHANGED <<link, sockError, frames, dropped, lastCount, lastTold, lost>>

\* receiveCan with a pending ENETDOWN: the caller is told at once, perhaps before
\* the netlink message of the same transition is visible.
receiveCan_down ==
    /\ ring = <<>> /\ netlink \in {<<>>, <<FALSE>>} /\ sockError
    /\ sockError' = FALSE
    /\ linkUp' = FALSE
    /\ lastTold' = "down"
    /\ UNCHANGED <<link, netlink, frames, dropped, ring, lastCount, lost, broken>>

\* A delta that does not follow the counter over its end.
OverflowDeltaUnwrapped == IF dropped >= lastCount THEN dropped - lastCount ELSE 0

\* rx_overflow_delta: the difference of two readings of a wrapping counter.
OverflowDelta == (dropped + Wrap - lastCount) % Wrap

\* receiveCan with a frame.
receiveCan ==
    /\ ring = <<>> /\ netlink = <<>> /\ ~sockError
    /\ frames
    /\ frames' = FALSE
    /\ lost' = 0
    /\ lastCount' = dropped
    /\ UNCHANGED <<link, netlink, sockError, dropped, linkUp, ring, lastTold, broken>>

LinkNext ==
    \/ link_changes \/ frame_arrives
    \/ dequeueLink \/ drainLinkEvents \/ receiveCan_down \/ receiveCan

LinkSpec == LinkInit /\ [][LinkNext]_linkVars

-----------------------------------------------------------------------------
(* Properties.                                                             *)

\* Nothing is left for the caller to receive.
Quiet == ring = <<>> /\ netlink = <<>> /\ ~sockError

\* A caller that has received everything and no error is never left believing in
\* a link that is down, whichever of the two channels spoke first.
NeverFalselyUp == Quiet /\ ~broken /\ lastTold = "up" => link

\* The delta the next frame carries is the number of frames dropped since the
\* last one, across the wrap of the kernel's counter, as long as fewer than 2^w
\* were.
DropsAreCounted == OverflowDelta = lost

\* Link and losses are told as they are (drainLinkEvents, receiveCan).
LinkIsTold == NeverFalselyUp /\ DropsAreCounted
=============================================================================
