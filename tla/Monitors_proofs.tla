--------------------------- MODULE Monitors_proofs --------------------------
(***************************************************************************)
(* What module Monitors keeps for any machine, any settings, thresholds    *)
(* and length of the channel: its types, the agreement of thread           *)
(* power-monitor with the event loop, the agreement of mode and pressure,  *)
(* and the autogroup setting that an orderly stop gives back.              *)
(***************************************************************************)
EXTENDS Monitors, TLAPS

LEMMA ReadTyped == \A s \in Stall \cup {Unreadable} : Read(s) \in 0..100
  BY PressureAssumption DEF Read

LEMMA LevelTyped == \A p : LevelOf(p) \in Level
  BY DEF LevelOf, Level

LEMMA SendTyped ==
  ASSUME channel \in Seq(Message), NEW e \in Message, SendEvent(e)
  PROVE  channel' \in Seq(Message) /\ channel' = Append(channel, e)
  BY DEF SendEvent

LEMMA TakeTyped ==
  ASSUME channel \in Seq(Message), NEW kind, TakeEvent(kind)
  PROVE  /\ channel # <<>> /\ channel' \in Seq(Message) /\ channel' = Tail(channel)
         /\ Head(channel) \in Message /\ Head(channel).type = kind
         /\ phase = "running"
<1>1. channel # <<>> /\ channel' = Tail(channel) /\ Head(channel).type = kind /\ phase = "running"
  BY DEF TakeEvent, Looping
<1> HIDE DEF Message
<1>2. Head(channel) \in Message /\ Tail(channel) \in Seq(Message)
  BY <1>1
<1> QED BY <1>1, <1>2

-----------------------------------------------------------------------------
LEMMA InitTyped == Init => TypeOK
<1> SUFFICES ASSUME Init PROVE TypeOK
  OBVIOUS
<1>1. channel \in Seq(Message) /\ phase \in Phase
  BY DEF Init, Phase
<1>2. reading \in Reading /\ monitor \in {"none", "asleep", "reading", "sending"}
  BY DEF Init, PowerInit, Reading, NothingRead
<1>3. toWrite \in 0..Len(Knobs) /\ knobs \in [DOMAIN Knobs -> Source \cup {"kernel"}]
  BY PowerAssumption DEF Init, PowerInit
<1>4. /\ last \in Source /\ latest \in Source /\ source \in Source
      /\ {autogroup, saved, native} \subseteq {"0", "1"} /\ spoiled \in BOOLEAN
  BY DEF Init, PowerInit, Source
<1>5. /\ stall \in Stall \cup {Unreadable} /\ pressure \in 0..100
      /\ level \in Level /\ mode \in Level
  BY DEF Init, PressureInit, Level
<1>6. handling = FALSE
  BY DEF Init, PressureInit
<1> QED BY <1>1, <1>2, <1>3, <1>4, <1>5, <1>6 DEF TypeOK

LEMMA StepTyped == TypeOK /\ [Next]_vars => TypeOK'
<1> SUFFICES ASSUME TypeOK, [Next]_vars PROVE TypeOK'
  OBVIOUS
<1>1. Len(Knobs) \in Nat
  BY PowerAssumption
<1> USE DEF TypeOK, powerVars, autogroupVars, pressureVars
<1>2. CASE World
  <2>1. CASE SupplyChanges /\ UNCHANGED pressureVars
    BY <2>1 DEF SupplyChanges
  <2>2. CASE StallChanges /\ UNCHANGED powerVars
    BY <2>2 DEF StallChanges
  <2>3. CASE ChooseAutogroup /\ UNCHANGED pressureVars
    BY <2>3 DEF ChooseAutogroup
  <2> QED BY <1>2, <2>1, <2>2, <2>3 DEF World
<1>3. CASE Start
  <2>1. reading' \in Reading
    BY <1>3 DEF Start, PowerStart, Reading, StartReading, NothingRead
  <2>2. /\ phase' \in Phase /\ channel' \in Seq(Message)
        /\ pressure' \in 0..100 /\ level' \in Level /\ mode' \in Level
    BY <1>3 DEF Start, PowerStart, PressureStart, Phase, Level
  <2> QED BY <1>3, <2>1, <2>2 DEF Start, PowerStart, PressureStart
<1>4. CASE MainThread
  <2>1. CASE SpawnMonitor /\ UNCHANGED pressureVars
    BY <2>1 DEF SpawnMonitor, Detected, Source, Phase, Reading, NothingRead
  <2>2. CASE ReadInitial /\ UNCHANGED pressureVars
    BY <2>2 DEF ReadInitial, Phase
  <2>3. CASE EnterLoop /\ UNCHANGED pressureVars
    <3>1. {autogroup', saved', native'} \subseteq {"0", "1"} /\ spoiled' \in BOOLEAN
      BY <2>3 DEF EnterLoop, DisableAutogroup, ApplyProfile
    <3>2. UNCHANGED <<supplies, reading, monitor, last, latest, source, knobs, channel>>
      BY <2>3 DEF EnterLoop
    <3>3. phase' \in Phase /\ toWrite' \in 0..Len(Knobs)
      BY <2>3, <1>1 DEF EnterLoop, ApplyProfile, Phase
    <3> QED BY <2>3, <3>1, <3>2, <3>3
  <2> QED BY <1>4, <2>1, <2>2, <2>3 DEF MainThread
<1>5. CASE PowerThread
  <2>1. CASE WakeUp /\ UNCHANGED pressureVars
    BY <2>1 DEF WakeUp, Reading, StartReading, NothingRead
  <2>2. CASE Compare /\ UNCHANGED pressureVars
    BY <2>2 DEF Compare, Detected, Source, Reading, NothingRead
  <2>3. CASE SendPower /\ UNCHANGED pressureVars
    <3>1. [type |-> "Power", value |-> last] \in Message
      BY DEF Message
    <3>2. channel' \in Seq(Message)
      BY <2>3, <3>1, SendTyped DEF SendPower
    <3> QED BY <2>3, <3>2 DEF SendPower
  <2> QED BY <1>5, <2>1, <2>2, <2>3 DEF PowerThread
<1>6. CASE Reads
  BY <1>6 DEF Reads, ReadSupply, Reading
<1>7. CASE PsiThread
  <2>1. [type |-> "Pressure", value |-> Read(stall)] \in Message
    BY ReadTyped DEF Message
  <2>2. channel' \in Seq(Message)
    BY <1>7, <2>1, SendTyped DEF PsiThread, Poll
  <2> QED BY <1>7, <2>2 DEF PsiThread, Poll
<1>8. CASE EventLoop
  <2>1. CASE ~handling /\ OnPower /\ UNCHANGED pressureVars
    <3>1. channel' \in Seq(Message) /\ Head(channel) \in Message /\ Head(channel).type = "Power"
      BY <2>1, TakeTyped DEF OnPower, ApplyProfile
    <3>2. Head(channel).value \in Source
      BY <3>1 DEF Message
    <3> QED BY <2>1, <3>1, <3>2, <1>1 DEF OnPower, ApplyProfile
  <2>2. CASE WriteKnob /\ UNCHANGED pressureVars
    <3>1. knobs' \in [DOMAIN Knobs -> Source \cup {"kernel"}]
      BY <2>2 DEF WriteKnob
    <3>2. toWrite' \in 0..Len(Knobs)
      BY <2>2, <1>1 DEF WriteKnob
    <3> QED BY <2>2, <3>1, <3>2 DEF WriteKnob
  <2>3. CASE toWrite = 0 /\ SharePressure /\ UNCHANGED powerVars
    <3>1. channel' \in Seq(Message) /\ Head(channel) \in Message /\ Head(channel).type = "Pressure"
      BY <2>3, TakeTyped DEF SharePressure
    <3>2. Head(channel).value \in 0..100
      BY <3>1 DEF Message
    <3> QED BY <2>3, <3>1, <3>2, LevelTyped DEF SharePressure
  <2>4. CASE ChangeMode /\ UNCHANGED powerVars
    BY <2>4, LevelTyped DEF ChangeMode
  <2> QED BY <1>8, <2>1, <2>2, <2>3, <2>4 DEF EventLoop
<1>9. CASE Ends
  <2>1. CASE StopLoop /\ UNCHANGED pressureVars
    BY <2>1 DEF StopLoop, Phase
  <2>2. CASE PowerStop /\ UNCHANGED pressureVars
    <3>1. {autogroup', saved', native'} \subseteq {"0", "1"} /\ spoiled' \in BOOLEAN
      BY <2>2 DEF PowerStop, RestoreAutogroup, ThreadsEnd
    <3>2. phase' \in Phase /\ reading' \in Reading /\ toWrite' \in 0..Len(Knobs)
      BY <2>2, <1>1 DEF PowerStop, ThreadsEnd, Phase, Reading, NothingRead
    <3>3. last' \in Source /\ latest' \in Source /\ source' \in Source
      BY <2>2 DEF PowerStop, ThreadsEnd, Source
    <3> QED BY <2>2, <3>1, <3>2, <3>3 DEF PowerStop, ThreadsEnd
  <2>3. CASE PowerCrash /\ UNCHANGED pressureVars
    <3>1. {autogroup', saved', native'} \subseteq {"0", "1"} /\ spoiled' \in BOOLEAN
      BY <2>3 DEF PowerCrash, ThreadsEnd
    <3>2. phase' \in Phase /\ reading' \in Reading /\ toWrite' \in 0..Len(Knobs)
      BY <2>3, <1>1 DEF PowerCrash, ThreadsEnd, Phase, Reading, NothingRead
    <3>3. last' \in Source /\ latest' \in Source /\ source' \in Source
      BY <2>3 DEF PowerCrash, ThreadsEnd, Source
    <3> QED BY <2>3, <3>1, <3>2, <3>3 DEF PowerCrash, ThreadsEnd
  <2> QED BY <1>9, <2>1, <2>2, <2>3 DEF Ends
<1>10. CASE UNCHANGED vars
  BY <1>10 DEF vars
<1> QED BY <1>2, <1>3, <1>4, <1>5, <1>6, <1>7, <1>8, <1>9, <1>10 DEF Next

(* Module Monitors keeps its types: the event loop is never sent a message  *)
(* that it does not know, and never has more settings to write than exist.  *)
THEOREM MonitorsTyped == Spec => []TypeOK
  BY InitTyped, StepTyped, PTL DEF Spec

-----------------------------------------------------------------------------
(* Appending to the channel and taking from it, as far as power events go.  *)
LEMMA AppendPower ==
  ASSUME NEW s \in Seq(Message), NEW v, NEW e, e.type = "Power", e.value = v
  PROVE  NewestIs(Append(s, e), v) /\ ~NoPower(Append(s, e))
<1>1. /\ Len(Append(s, e)) = Len(s) + 1 /\ Len(s) \in Nat
      /\ Append(s, e)[Len(s) + 1] = e
  OBVIOUS
<1>2. ~NoPower(Append(s, e))
  BY <1>1 DEF NoPower
<1>3. ASSUME NEW i \in 1..Len(Append(s, e)),
             \A j \in (i + 1)..Len(Append(s, e)) : Append(s, e)[j].type # "Power"
      PROVE  i = Len(s) + 1
  BY <1>1, <1>3
<1> QED BY <1>1, <1>2, <1>3 DEF NewestIs

LEMMA AppendOther ==
  ASSUME NEW s \in Seq(Message), NEW v, NEW e, e.type # "Power"
  PROVE  /\ NewestIs(s, v) => NewestIs(Append(s, e), v)
         /\ NoPower(Append(s, e)) = NoPower(s)
<1>1. /\ Len(Append(s, e)) = Len(s) + 1 /\ Len(s) \in Nat
      /\ Append(s, e)[Len(s) + 1] = e
      /\ \A i \in 1..Len(s) : Append(s, e)[i] = s[i]
  OBVIOUS
<1>2. NoPower(Append(s, e)) = NoPower(s)
  BY <1>1 DEF NoPower
<1>3. NewestIs(s, v) => NewestIs(Append(s, e), v)
  BY <1>1 DEF NewestIs
<1> QED BY <1>2, <1>3

LEMMA TailPower ==
  ASSUME NEW s \in Seq(Message), s # <<>>, NEW v, NewestIs(s, v)
  PROVE  /\ NewestIs(Tail(s), v)
         /\ Head(s).type # "Power" /\ NoPower(Tail(s)) => NoPower(s)
         /\ Head(s).type = "Power" /\ NoPower(Tail(s)) => Head(s).value = v
<1>1. /\ Len(Tail(s)) = Len(s) - 1 /\ Len(s) \in Nat \ {0} /\ Head(s) = s[1]
      /\ \A i \in 1..Len(Tail(s)) : Tail(s)[i] = s[i + 1]
  OBVIOUS
<1>2. ASSUME NEW i \in 2..Len(s) PROVE i - 1 \in 1..Len(Tail(s)) /\ Tail(s)[i - 1] = s[i]
  BY <1>1
<1>3. NewestIs(Tail(s), v)
  <2> SUFFICES ASSUME NEW i \in 1..Len(Tail(s)), Tail(s)[i].type = "Power",
                      \A j \in (i + 1)..Len(Tail(s)) : Tail(s)[j].type # "Power"
               PROVE  Tail(s)[i].value = v
    BY DEF NewestIs
  <2>1. i + 1 \in 1..Len(s) /\ s[i + 1] = Tail(s)[i]
    BY <1>1
  <2>2. \A j \in (i + 2)..Len(s) : s[j].type # "Power"
    <3> TAKE j \in (i + 2)..Len(s)
    <3>1. j - 1 \in (i + 1)..Len(Tail(s)) /\ Tail(s)[j - 1] = s[j]
      BY <1>1, <1>2
    <3> QED BY <3>1
  <2> QED BY <2>1, <2>2, i + 1 + 1 = i + 2 DEF NewestIs
<1>4. NoPower(Tail(s)) => \A i \in 2..Len(s) : s[i].type # "Power"
  BY <1>2 DEF NoPower
<1>5. Head(s).type # "Power" /\ NoPower(Tail(s)) => NoPower(s)
  BY <1>1, <1>4 DEF NoPower
<1>6. Head(s).type = "Power" /\ NoPower(Tail(s)) => Head(s).value = v
  BY <1>1, <1>4, 1 + 1 = 2 DEF NewestIs
<1> QED BY <1>3, <1>5, <1>6

-----------------------------------------------------------------------------
(* Why PowerAgrees holds: before the monitor runs no power event is in the  *)
(* channel; from then on the mutex holds what the thread saw last, and the  *)
(* newest event in the channel says the same.                               *)
PowerInv ==
  /\ phase \in {"down", "detecting"} => monitor = "none" /\ NoPower(channel)
  /\ phase \in {"spawned", "initial", "running"} => latest = last
  /\ phase \in {"spawned", "initial", "running"} /\ monitor # "sending" => NewestIs(channel, last)
  /\ phase \in {"initial", "running"} /\ monitor # "sending" /\ NoPower(channel) => source = last

LEMMA NoPowerNewest == \A s, v : NoPower(s) => NewestIs(s, v)
  BY DEF NoPower, NewestIs

LEMMA StepPower == TypeOK /\ PowerInv /\ [Next]_vars => PowerInv'
<1> SUFFICES ASSUME TypeOK, PowerInv, [Next]_vars PROVE PowerInv'
  OBVIOUS
<1>0. channel \in Seq(Message)
  BY DEF TypeOK
<1> USE DEF PowerInv, powerVars, autogroupVars, pressureVars
<1>1. CASE World
  BY <1>1 DEF World, SupplyChanges, ChooseAutogroup, StallChanges
<1>2. CASE Start
  BY <1>2 DEF Start, PowerStart
<1>3. CASE MainThread
  <2>1. CASE SpawnMonitor
    BY <2>1, NoPowerNewest DEF SpawnMonitor
  <2>2. CASE ReadInitial
    BY <2>2 DEF ReadInitial
  <2>3. CASE EnterLoop
    BY <2>3 DEF EnterLoop, DisableAutogroup, ApplyProfile
  <2> QED BY <1>3, <2>1, <2>2, <2>3 DEF MainThread
<1>4. CASE PowerThread
  <2>1. CASE WakeUp
    BY <2>1 DEF WakeUp
  <2>2. CASE Compare
    BY <2>2 DEF Compare
  <2>3. CASE SendPower
    <3>1. channel' = Append(channel, [type |-> "Power", value |-> last])
      BY <2>3 DEF SendPower, SendEvent
    <3>2. NewestIs(channel', last) /\ ~NoPower(channel')
      BY <1>0, <3>1, AppendPower
    <3> QED BY <2>3, <3>2 DEF SendPower
  <2> QED BY <1>4, <2>1, <2>2, <2>3 DEF PowerThread
<1>5. CASE Reads
  BY <1>5 DEF Reads, ReadSupply
<1>6. CASE PsiThread
  <2>1. channel' = Append(channel, [type |-> "Pressure", value |-> Read(stall)])
    BY <1>6 DEF PsiThread, Poll, SendEvent
  <2>2. (NewestIs(channel, last) => NewestIs(channel', last)) /\ NoPower(channel') = NoPower(channel)
    BY <1>0, <2>1, AppendOther
  <2> QED BY <1>6, <2>2 DEF PsiThread, Poll
<1>7. CASE EventLoop
  <2>1. CASE OnPower
    <3>1. channel # <<>> /\ channel' = Tail(channel) /\ Head(channel).type = "Power" /\ phase = "running"
      BY <2>1, <1>0, TakeTyped DEF OnPower, ApplyProfile
    <3>2. monitor # "sending" => NewestIs(channel', last) /\ (NoPower(channel') => Head(channel).value = last)
      BY <1>0, <3>1, TailPower
    <3> QED BY <2>1, <3>1, <3>2 DEF OnPower, ApplyProfile
  <2>2. CASE WriteKnob
    BY <2>2 DEF WriteKnob
  <2>3. CASE SharePressure /\ UNCHANGED powerVars
    <3>1. channel # <<>> /\ channel' = Tail(channel) /\ Head(channel).type = "Pressure" /\ phase = "running"
      BY <2>3, <1>0, TakeTyped DEF SharePressure
    <3>2. monitor # "sending" => NewestIs(channel', last) /\ (NoPower(channel') => NoPower(channel))
      BY <1>0, <3>1, TailPower
    <3> QED BY <2>3, <3>1, <3>2 DEF SharePressure
  <2>4. CASE ChangeMode /\ UNCHANGED powerVars
    BY <2>4 DEF ChangeMode
  <2> QED BY <1>7, <2>1, <2>2, <2>3, <2>4 DEF EventLoop
<1>8. CASE Ends
  <2>1. CASE StopLoop
    BY <2>1 DEF StopLoop
  <2>2. CASE ThreadsEnd
    BY <2>2 DEF ThreadsEnd, NoPower
  <2> QED BY <1>8, <2>1, <2>2 DEF Ends, PowerStop, PowerCrash
<1>9. CASE UNCHANGED vars
  BY <1>9 DEF vars
<1> QED BY <1>1, <1>2, <1>3, <1>4, <1>5, <1>6, <1>7, <1>8, <1>9 DEF Next

(* However the first reading, the mutex, the thread and the event loop      *)
(* interleave, the event loop holds, or has coming to it, what thread       *)
(* power-monitor saw last.                                                  *)
THEOREM PowerAgreement == Spec => []PowerAgrees
<1>1. Init => PowerInv
  BY DEF Init, PowerInit, PowerInv, NoPower
<1>2. PowerInv => PowerAgrees
  BY DEF PowerInv, PowerAgrees
<1> QED BY <1>1, <1>2, InitTyped, StepTyped, StepPower, PTL DEF Spec

-----------------------------------------------------------------------------
(* Why the mode matches: the level that the event loop remembers is that of *)
(* the pressure it shared last, and the mode is behind only while the loop  *)
(* is about to change it.                                                   *)
ModeInv ==
  /\ level = LevelOf(pressure)
  /\ phase \in {"detecting", "spawned", "initial"} => ~handling
  /\ ~handling => mode = LevelOf(pressure)

(* Between two events the mode that clients see matches the pressure, for   *)
(* all thresholds above zero, also those at which some levels never occur.  *)
THEOREM ModeAgreement == Spec => []ModeIsLevel
<1>1. LevelOf(0) = "normal"
  BY PressureAssumption DEF LevelOf
<1>2. Init => ModeInv
  BY <1>1 DEF Init, PressureInit, ModeInv
<1>3. ModeInv /\ [Next]_vars => ModeInv'
  <2> SUFFICES ASSUME ModeInv, [Next]_vars PROVE ModeInv'
    OBVIOUS
  <2> USE DEF ModeInv, pressureVars
  <2>1. CASE Start
    BY <2>1, <1>1 DEF Start, PressureStart
  <2>2. CASE SharePressure
    BY <2>2 DEF SharePressure, TakeEvent, Looping
  <2>3. CASE ChangeMode
    BY <2>3 DEF ChangeMode
  <2>4. CASE World
    BY <2>4 DEF World, SupplyChanges, ChooseAutogroup, StallChanges
  <2>5. CASE MainThread
    BY <2>5 DEF MainThread, SpawnMonitor, ReadInitial, EnterLoop
  <2>6. CASE PowerThread \/ Reads
    BY <2>6 DEF PowerThread, WakeUp, Compare, SendPower, Reads, ReadSupply
  <2>7. CASE PsiThread
    BY <2>7 DEF PsiThread, Poll
  <2>8. CASE (OnPower \/ WriteKnob) /\ UNCHANGED pressureVars
    BY <2>8 DEF OnPower, ApplyProfile, WriteKnob
  <2>9. CASE Ends
    BY <2>9 DEF Ends, StopLoop, PowerStop, PowerCrash, ThreadsEnd
  <2>10. CASE UNCHANGED vars
    BY <2>10 DEF vars
  <2> QED BY <2>1, <2>2, <2>3, <2>4, <2>5, <2>6, <2>7, <2>8, <2>9, <2>10 DEF Next, EventLoop
<1>4. ModeInv => ModeIsLevel
  BY DEF ModeInv, ModeIsLevel
<1> QED BY <1>2, <1>3, <1>4, PTL DEF Spec

-----------------------------------------------------------------------------
(* Why autogroup returns: before an instance turns it off it is as it was    *)
(* chosen, and an instance that runs has saved that value, unless the       *)
(* reading failed or an earlier instance was killed.                        *)
AutogroupInv ==
  ~spoiled =>
    IF phase \in {"running", "stopping"} /\ ~KeepAutogroup THEN saved = native
                                                           ELSE autogroup = native

(* Whatever value the machine has, instances that stop in order leave it,   *)
(* although starts and attempts to turn autogroup off may fail before; the  *)
(* exceptions are a value that could not be read or not be written back and *)
(* instances that were killed while they ran.                               *)
THEOREM AutogroupIsReturned == Spec => []AutogroupReturned
<1>1. Init => AutogroupInv
  BY DEF Init, PowerInit, AutogroupInv
<1>2. AutogroupInv /\ [Next]_vars => AutogroupInv'
  <2> SUFFICES ASSUME AutogroupInv, [Next]_vars PROVE AutogroupInv'
    OBVIOUS
  <2> USE DEF AutogroupInv, autogroupVars
  <2>1. CASE UNCHANGED <<phase, autogroupVars>>
    BY <2>1
  <2>2. CASE PowerStart \/ SpawnMonitor \/ ReadInitial
    BY <2>2 DEF PowerStart, SpawnMonitor, ReadInitial
  <2>3. CASE EnterLoop
    BY <2>3 DEF EnterLoop, DisableAutogroup, ApplyProfile
  <2>4. CASE StopLoop
    BY <2>4 DEF StopLoop, powerVars
  <2>5. CASE PowerStop
    BY <2>5 DEF PowerStop, RestoreAutogroup, ThreadsEnd
  <2>6. CASE PowerCrash
    BY <2>6 DEF PowerCrash, ThreadsEnd
  <2>7. CASE ChooseAutogroup
    BY <2>7 DEF ChooseAutogroup
  <2>8. World \/ PowerThread \/ Reads \/ PsiThread \/ EventLoop
          => ChooseAutogroup \/ UNCHANGED <<phase, autogroupVars>>
    BY DEF World, SupplyChanges, StallChanges, PowerThread, WakeUp, Compare, SendPower,
           Reads, ReadSupply, PsiThread, Poll, EventLoop, OnPower, WriteKnob, SharePressure,
           ChangeMode, powerVars
  <2> QED BY <2>1, <2>2, <2>3, <2>4, <2>5, <2>6, <2>7, <2>8
          DEF Next, Start, MainThread, Ends, vars, powerVars
<1>3. AutogroupInv => AutogroupReturned
  BY DEF AutogroupInv, AutogroupReturned
<1> QED BY <1>1, <1>2, <1>3, PTL DEF Spec
=============================================================================
