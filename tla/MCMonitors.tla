----------------------------- MODULE MCMonitors -----------------------------
(* A small instance of Monitors: the second setting cannot be written, two  *)
(* changes of the power source may wait in the channel.                     *)
EXTENDS Monitors

MCKnobs      == <<"slice", "preempt">>
MCMaxChannel == [Power |-> 2, Pressure |-> 1]
=============================================================================
