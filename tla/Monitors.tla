------------------------------ MODULE Monitors ------------------------------
(***************************************************************************)
(* The monitors beside the event loop of one daemon, instance after        *)
(* instance: threads psi-monitor and power-monitor send to the same        *)
(* channel, the event loop handles one event at a time, and the process    *)
(* stops in order or is killed and is started again (Restart=on-failure).  *)
(***************************************************************************)
EXTENDS PowerMonitor, PressureMonitor

vars == <<phase, channel, powerVars, pressureVars>>

Init == /\ phase = "down" /\ channel = <<>>
        /\ PowerInit /\ PressureInit

(* The machine.                                                             *)
World == \/ SupplyChanges /\ UNCHANGED pressureVars
         \/ ChooseAutogroup /\ UNCHANGED pressureVars
         \/ StallChanges /\ UNCHANGED powerVars

(* main() spawns thread psi-monitor just before the power source is read.   *)
Start == PowerStart /\ PressureStart

MainThread == \/ SpawnMonitor /\ UNCHANGED pressureVars
              \/ ReadInitial /\ UNCHANGED pressureVars
              \/ EnterLoop /\ UNCHANGED pressureVars

PowerThread == \/ WakeUp /\ UNCHANGED pressureVars
               \/ Compare /\ UNCHANGED pressureVars
               \/ SendPower /\ UNCHANGED pressureVars

Reads == \E s \in Supply : ReadSupply(s) /\ UNCHANGED pressureVars

PsiThread == Poll /\ UNCHANGED powerVars

(* The event loop takes no event while it handles another one.              *)
EventLoop == \/ ~handling /\ OnPower /\ UNCHANGED pressureVars
             \/ WriteKnob /\ UNCHANGED pressureVars
             \/ toWrite = 0 /\ SharePressure /\ UNCHANGED powerVars
             \/ ChangeMode /\ UNCHANGED powerVars

Ends == \/ ~handling /\ StopLoop /\ UNCHANGED pressureVars
        \/ PowerStop /\ UNCHANGED pressureVars
        \/ PowerCrash /\ UNCHANGED pressureVars

Next == \/ World \/ Start \/ MainThread \/ PowerThread \/ Reads \/ PsiThread
        \/ EventLoop \/ Ends

Spec == Init /\ [][Next]_vars

(* Every thread is scheduled, and sleep() and poll() return in time.        *)
(* Nothing is assumed of the machine, of starts, stops and crashes.         *)
FairSpec == /\ Spec
            /\ WF_vars(MainThread) /\ WF_vars(PowerThread) /\ WF_vars(Reads)
            /\ WF_vars(PsiThread) /\ WF_vars(EventLoop)

-----------------------------------------------------------------------------
(* The types of the state.                                                  *)
Reading == [left: SUBSET Supply, online: BOOLEAN, discharging: BOOLEAN]

Message == [type: {"Power"}, value: Source] \cup [type: {"Pressure"}, value: 0..100]

TypeOK ==
  /\ phase \in Phase /\ channel \in Seq(Message)
  /\ reading \in Reading /\ monitor \in {"none", "asleep", "reading", "sending"}
  /\ last \in Source /\ latest \in Source /\ source \in Source
  /\ knobs \in [DOMAIN Knobs -> Source \cup {"kernel"}] /\ toWrite \in 0..Len(Knobs)
  /\ {autogroup, saved, native} \subseteq {"0", "1"} /\ spoiled \in BOOLEAN
  /\ stall \in Stall \cup {Unreadable} /\ pressure \in 0..100
  /\ level \in Level /\ mode \in Level /\ handling \in BOOLEAN
=============================================================================
