------------------------------- MODULE Service ------------------------------
(***************************************************************************)
(* What the monitors of ulatencyd share: the instances of the daemon that  *)
(* run one after another, the phases the main thread of each goes through  *)
(* (crates/core/src/main.rs, Daemon::run), and the channel into its event  *)
(* loop, of which the events of the monitors are kept here.                *)
(***************************************************************************)
EXTENDS Naturals, Sequences, FiniteSets

CONSTANT MaxChannel      \* bound of the model: so many events of each type wait at most

VARIABLES phase,         \* what the main thread is doing
          channel        \* the mpsc channel of Events, oldest first

ASSUME ChannelAssumption == MaxChannel \in [{"Power", "Pressure"} -> Nat]

(* "down": no instance runs; "detecting": the power source is read for the   *)
(* first time; "spawned": thread power-monitor runs; "initial": the value to *)
(* start with is read; "running": the event loop; "stopping": shutdown().    *)
Phase == {"down", "detecting", "spawned", "initial", "running", "stopping"}

Up      == phase # "down"
Looping == phase = "running" /\ channel # <<>>

(* The event loop takes the next event, which is of this type.              *)
TakeEvent(type) ==
  Looping /\ Head(channel).type = type /\ channel' = Tail(channel)

(* A monitor sends: the channel itself is not bounded.                      *)
SendEvent(e) ==
  /\ Cardinality({i \in DOMAIN channel : channel[i].type = e.type}) < MaxChannel[e.type]
  /\ channel' = Append(channel, e)
=============================================================================
