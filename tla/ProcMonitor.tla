---------------------------- MODULE ProcMonitor ----------------------------
(***************************************************************************)
(* How a process event reaches the event loop: the receive buffer of the   *)
(* netlink socket, the thread that reads it (crates/procmon/src/           *)
(* netlink.rs), a bounded channel, the thread that forwards each event     *)
(* (crates/core/src/main.rs), the unbounded channel of the daemon and the  *)
(* loop that takes from it.  The events are numbered as they happen.       *)
(***************************************************************************)
EXTENDS Integers, Sequences

CONSTANTS SocketLimit,   \* events that fit into the receive buffer
          ChannelLimit,  \* capacity of the sync_channel: 4096 in the code
          MaxEvents      \* bound of the model: events that happen

VARIABLES happened,      \* how many events have happened
          socket,        \* the receive buffer
          overrun,       \* an event did not fit: the next recv() fails
          listener,      \* thread procmon-netlink: "open" or "closed"
          held,          \* the event it has received and is about to send
          pipe,          \* the bounded channel
          forwarder,     \* thread procmon-forward: "open" or "closed"
          events,        \* what was sent on the daemon's channel
          taken,         \* how many of these the event loop has taken
          loop           \* the event loop: "running", "stopping" or "stopped"

vars == <<happened, socket, overrun, listener, held, pipe, forwarder, events,
          taken, loop>>

Shutdown == 0

ASSUME LimitsAssumption ==
  SocketLimit \in Nat /\ ChannelLimit \in Nat \ {0} /\ MaxEvents \in Nat

Init ==
  /\ happened = 0 /\ socket = <<>> /\ overrun = FALSE
  /\ listener = "open" /\ held = <<>> /\ pipe = <<>> /\ forwarder = "open"
  /\ events = <<>> /\ taken = 0 /\ loop = "running"

-----------------------------------------------------------------------------
(* The kernel announces an event.  One that does not fit is gone, and the   *)
(* socket is marked.                                                        *)
Happen ==
  /\ happened < MaxEvents
  /\ happened' = happened + 1
  /\ IF listener = "open" /\ Len(socket) < SocketLimit
       THEN socket' = Append(socket, happened') /\ UNCHANGED overrun
       ELSE overrun' = (overrun \/ listener = "open") /\ UNCHANGED socket
  /\ UNCHANGED <<listener, held, pipe, forwarder, events, taken, loop>>

(* A bug to detect: an error of recv() is skipped like an interruption.     *)
ReceiveRetry ==
  /\ listener = "open" /\ held = <<>> /\ (overrun \/ socket # <<>>)
  /\ IF overrun THEN overrun' = FALSE /\ UNCHANGED <<socket, held, listener>>
     ELSE /\ held' = <<Head(socket)>> /\ socket' = Tail(socket)
          /\ UNCHANGED <<listener, overrun>>
  /\ UNCHANGED <<happened, pipe, forwarder, events, taken, loop>>

(* run_listener: recv() reports the overrun before it returns another       *)
(* event, and the error ends the thread.                                    *)
Receive ==
  /\ listener = "open" /\ held = <<>> /\ (overrun \/ socket # <<>>)
  /\ IF overrun THEN /\ listener' = "closed" /\ socket' = <<>>
                     /\ UNCHANGED held
     ELSE /\ held' = <<Head(socket)>> /\ socket' = Tail(socket)
          /\ UNCHANGED listener
  /\ UNCHANGED <<happened, overrun, pipe, forwarder, events, taken, loop>>

(* So does any other error, EINTR too, and an empty message.                *)
RecvFails ==
  /\ listener = "open" /\ held = <<>>
  /\ listener' = "closed" /\ socket' = <<>>
  /\ UNCHANGED <<happened, overrun, held, pipe, forwarder, events, taken, loop>>

(* A bug to detect: the channel is not bounded.                             *)
HandOverUnbounded ==
  /\ listener = "open" /\ held # <<>> /\ held' = <<>>
  /\ IF forwarder = "closed"
       THEN listener' = "closed" /\ socket' = <<>> /\ UNCHANGED pipe
       ELSE pipe' = pipe \o held /\ UNCHANGED <<listener, socket>>
  /\ UNCHANGED <<happened, overrun, forwarder, events, taken, loop>>

(* The send on the bounded channel blocks while it is full, and fails when  *)
(* nobody receives any more.                                                *)
HandOver ==
  /\ listener = "open" /\ held # <<>> /\ held' = <<>>
  /\ IF forwarder = "closed"
       THEN listener' = "closed" /\ socket' = <<>> /\ UNCHANGED pipe
       ELSE /\ Len(pipe) < ChannelLimit /\ pipe' = pipe \o held
            /\ UNCHANGED <<listener, socket>>
  /\ UNCHANGED <<happened, overrun, forwarder, events, taken, loop>>

(* A bug to detect: events are forwarded when the channel is full only.     *)
ForwardWhenFull ==
  /\ forwarder = "open" /\ Len(pipe) = ChannelLimit
  /\ IF loop # "stopped"
       THEN /\ events' = Append(events, Head(pipe)) /\ pipe' = Tail(pipe)
            /\ UNCHANGED forwarder
       ELSE forwarder' = "closed" /\ pipe' = <<>> /\ UNCHANGED events
  /\ UNCHANGED <<happened, socket, overrun, listener, held, taken, loop>>

(* The forwarding thread passes the next event on, as long as the daemon's  *)
(* receiver exists: until run() returns.                                    *)
Forward ==
  /\ forwarder = "open" /\ pipe # <<>>
  /\ IF loop # "stopped"
       THEN /\ events' = Append(events, Head(pipe)) /\ pipe' = Tail(pipe)
            /\ UNCHANGED forwarder
       ELSE forwarder' = "closed" /\ pipe' = <<>> /\ UNCHANGED events
  /\ UNCHANGED <<happened, socket, overrun, listener, held, taken, loop>>

(* A bug to detect: the end of the monitor is not passed on.                *)
HangUpSilently ==
  /\ forwarder = "open" /\ pipe = <<>> /\ listener = "closed"
  /\ forwarder' = "closed"
  /\ UNCHANGED <<happened, socket, overrun, listener, held, pipe, events, taken, loop>>

(* The listener is gone and its channel empty: the daemon is to stop.       *)
HangUp ==
  /\ forwarder = "open" /\ pipe = <<>> /\ listener = "closed"
  /\ forwarder' = "closed"
  /\ events' = IF loop # "stopped" THEN Append(events, Shutdown) ELSE events
  /\ UNCHANGED <<happened, socket, overrun, listener, held, pipe, taken, loop>>

(* Daemon::run takes the next event, and leaves its loop at a Shutdown.     *)
Take ==
  /\ loop = "running" /\ taken < Len(events)
  /\ taken' = taken + 1
  /\ loop' = IF events[taken'] = Shutdown THEN "stopping" ELSE loop
  /\ UNCHANGED <<happened, socket, overrun, listener, held, pipe, forwarder, events>>

(* SIGTERM or SIGINT: the signals thread puts a Shutdown anywhere between    *)
(* the events of the monitor, and the loop takes it when it comes to it.     *)
Terminate ==
  /\ loop = "running" /\ loop' = "stopping"
  /\ UNCHANGED <<happened, socket, overrun, listener, held, pipe, forwarder,
                 events, taken>>

(* The loop is left, shutdown() restores the processes, and only when run()  *)
(* returns does the receiver of the daemon's channel go away.               *)
RunReturns ==
  /\ loop = "stopping" /\ loop' = "stopped"
  /\ UNCHANGED <<happened, socket, overrun, listener, held, pipe, forwarder,
                 events, taken>>

Next == \/ Happen \/ Receive \/ RecvFails \/ HandOver \/ Forward \/ HangUp
        \/ Take \/ Terminate \/ RunReturns

Spec == Init /\ [][Next]_vars

(* Threads are scheduled and shutdown() ends (DaemonLive); nothing is        *)
(* assumed of the kernel, of errors or of signals.                          *)
FairSpec == /\ Spec
            /\ WF_vars(Receive) /\ WF_vars(HandOver) /\ WF_vars(Forward)
            /\ WF_vars(HangUp) /\ WF_vars(Take) /\ WF_vars(RunReturns)

-----------------------------------------------------------------------------
EventNumber == 1..MaxEvents

TypeOK ==
  /\ happened \in 0..MaxEvents /\ overrun \in BOOLEAN
  /\ socket \in Seq(EventNumber) /\ held \in Seq(EventNumber) /\ Len(held) <= 1
  /\ pipe \in Seq(EventNumber) /\ Len(pipe) <= ChannelLimit
  /\ listener \in {"open", "closed"} /\ forwarder \in {"open", "closed"}
  /\ events \in Seq(EventNumber \cup {Shutdown}) /\ taken \in 0..Len(events)
  /\ loop \in {"running", "stopping", "stopped"}

(* The monitor as a stream.  It breaks when run() returns, when an event is *)
(* lost, and when the listener ends.                                        *)
StreamPhase ==
  IF forwarder = "closed" THEN "ended"
  ELSE IF listener = "open" /\ ~overrun /\ loop # "stopped" THEN "open" ELSE "broken"

Stream == INSTANCE EventStream WITH
            Message <- EventNumber, End <- Shutdown, phase <- StreamPhase,
            transit <- IF loop # "stopped" THEN pipe \o held \o socket ELSE <<>>,
            delivered <- events

(* The whole chain of buffers and threads is a reliable stream until it     *)
(* breaks: an overrun of the receive buffer never shows as a gap in the     *)
(* events that the daemon sees, only as their end.                          *)
ImplementsStream == Stream!Spec

(* Every event that happens reaches the daemon, as long as no buffer is     *)
(* overrun, recv() reports no other error either and the daemon runs:       *)
(* blocking on the bounded channel delays events and loses none.            *)
AllDelivered ==
  \A n \in 1..MaxEvents :
     [](~overrun /\ listener = "open" /\ loop = "running") /\ <>(happened >= n)
       => <>(\E i \in DOMAIN events : events[i] = n)

(* A daemon that misses an event, because a buffer was overrun or because   *)
(* its listener has ended, does not go on as if it knew all processes: it   *)
(* stops.                                                                   *)
OverrunStops == overrun \/ listener = "closed" ~> loop = "stopped"
=============================================================================
