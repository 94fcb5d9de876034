---------------------------- MODULE PowerMonitor ----------------------------
(***************************************************************************)
(* The power source and the scheduler profile that follows it              *)
(* (crates/core/src/sched.rs): a first reading of /sys/class/power_supply, *)
(* a thread that polls it, the event loop that drops what it knows, and    *)
(* the kernel's scheduler settings, which outlive the daemon.              *)
(***************************************************************************)
EXTENDS Service

CONSTANTS Mains, Batteries,  \* the power supplies of the machine
          Knobs,             \* the settings of a profile, in the order written
          Writable,          \* those that the kernel lets the daemon write
          KeepAutogroup      \* config: sched.autogroup_enabled

VARIABLES supplies,      \* what each power supply says of itself
          reading,       \* what detect_power_state_sysfs has read so far
          monitor,       \* thread power-monitor: "none", "asleep", "reading", "sending"
          last,          \* the last state that this thread has seen
          latest,        \* the mutex it shares with the main thread
          source,        \* Daemon::last_power_source
          knobs,         \* the profile that each setting is from
          toWrite,       \* the settings apply_sched_profile has still to write
          autogroup,     \* /proc/sys/kernel/sched_autogroup_enabled
          saved,         \* AutogroupGuard::original_value
          native,        \* history: the autogroup value that the administrator chose
          spoiled        \* history: since then an instance was killed while it ran,
                         \* or the value could not be read or not be given back

autogroupVars == <<autogroup, saved, native, spoiled>>
powerVars == <<supplies, reading, monitor, last, latest, source, knobs, toWrite,
               autogroupVars>>

Source == {"AC", "Battery"}

(* "gone": the supply, or the file that tells its state, cannot be read.    *)
Status(s) == IF s \in Mains THEN {"online", "offline", "gone"}
             ELSE {"charging", "discharging", "gone"}
Supply == Mains \cup Batteries

ASSUME PowerAssumption ==
  /\ Mains \cap Batteries = {}
  /\ Knobs \in Seq(STRING) /\ Writable \subseteq STRING
  /\ KeepAutogroup \in BOOLEAN

NothingRead == [left |-> {}, online |-> FALSE, discharging |-> FALSE]
StartReading == [NothingRead EXCEPT !.left = Supply]

PowerInit ==
  /\ supplies \in [Supply -> {"online", "offline", "charging", "discharging", "gone"}]
  /\ \A s \in Supply : supplies[s] \in Status(s)
  /\ reading = NothingRead /\ monitor = "none"
  /\ last = "AC" /\ latest = "AC" /\ source = "AC"
  /\ knobs = [i \in DOMAIN Knobs |-> "kernel"] /\ toWrite = 0
  /\ autogroup \in {"0", "1"} /\ native = autogroup
  /\ saved = "1" /\ spoiled = FALSE

-----------------------------------------------------------------------------
(* The machine is plugged in or unplugged, a battery begins to charge...    *)
SupplyChanges ==
  /\ \E s \in Supply : \E st \in Status(s) \ {supplies[s]} :
       supplies' = [supplies EXCEPT ![s] = st]
  /\ UNCHANGED <<reading, monitor, last, latest, source, knobs, toWrite,
                 autogroupVars, phase, channel>>

(* detect_power_state_sysfs reads one entry after another, in any order; the *)
(* main thread does at the start, the monitor later.                         *)
ReadSupply(s) ==
  /\ s \in reading.left
  /\ reading' = [left        |-> reading.left \ {s},
                 online      |-> reading.online \/ supplies[s] = "online",
                 discharging |-> reading.discharging \/ supplies[s] = "discharging"]
  /\ UNCHANGED <<supplies, monitor, last, latest, source, knobs, toWrite,
                 autogroupVars, phase, channel>>

(* A bug to detect: a discharging battery is enough.                        *)
DetectedBattery == IF reading.discharging THEN "Battery" ELSE "AC"

Detected == IF reading.discharging /\ ~reading.online THEN "Battery" ELSE "AC"

-----------------------------------------------------------------------------
(* The main thread, from main() to the event loop.                          *)
PowerStart ==
  /\ phase = "down" /\ phase' = "detecting"
  /\ reading' = StartReading
  /\ UNCHANGED <<supplies, monitor, last, latest, source, knobs, toWrite,
                 autogroupVars, channel>>

(* spawn_power_monitor *)
SpawnMonitor ==
  /\ phase = "detecting" /\ reading.left = {}
  /\ phase' = "spawned" /\ monitor' = "asleep"
  /\ last' = Detected /\ latest' = Detected /\ reading' = NothingRead
  /\ UNCHANGED <<supplies, source, knobs, toWrite, autogroupVars, channel>>

(* The mutex is read when the monitor may already have written to it.       *)
ReadInitial ==
  /\ phase = "spawned" /\ phase' = "initial"
  /\ source' = latest
  /\ UNCHANGED <<supplies, reading, monitor, last, latest, knobs, toWrite,
                 autogroupVars, channel>>

(* A bug to detect: the value is saved after it was overwritten.            *)
DisableAutogroupSavingLate ==
  /\ autogroup' = "0" /\ saved' = autogroup'
  /\ UNCHANGED <<native, spoiled>>

(* AutogroupGuard::disable: a value that cannot be read counts as "1", and a *)
(* write that fails is passed over.                                         *)
DisableAutogroup ==
  \E readable, writable \in BOOLEAN :
    /\ saved' = IF readable THEN autogroup ELSE "1"
    /\ autogroup' = IF writable THEN "0" ELSE autogroup
    /\ spoiled' = (spoiled \/ ~readable)
    /\ UNCHANGED native

(* AutogroupGuard::restore: again the write may fail.                       *)
RestoreAutogroup ==
  \E writable \in BOOLEAN :
    /\ autogroup' = IF writable THEN saved ELSE autogroup
    /\ spoiled' = (spoiled \/ ~writable)

(* The administrator chooses a value, while no instance runs.               *)
ChooseAutogroup ==
  /\ phase = "down" /\ spoiled' = FALSE
  /\ native' \in {"0", "1"} /\ autogroup' = native'
  /\ UNCHANGED <<supplies, reading, monitor, last, latest, source, knobs, toWrite,
                 saved, phase, channel>>

(* A bug to detect: a loop over the settings that goes one too far.         *)
ApplyOneMore == toWrite' = Len(Knobs) + 1

(* apply_sched_profile begins.                                              *)
ApplyProfile == toWrite' = Len(Knobs)

(* Daemon::run: autogroup off, and the profile for the source at the start. *)
EnterLoop ==
  /\ phase = "initial" /\ phase' = "running"
  /\ IF KeepAutogroup THEN UNCHANGED autogroupVars ELSE DisableAutogroup
  /\ ApplyProfile
  /\ UNCHANGED <<supplies, reading, monitor, last, latest, source, knobs, channel>>

-----------------------------------------------------------------------------
(* Thread power-monitor: it sleeps, reads, and tells of a change only; the  *)
(* shared state first, the event after.                                     *)
WakeUp ==
  /\ monitor = "asleep" /\ monitor' = "reading"
  /\ reading' = StartReading
  /\ UNCHANGED <<supplies, last, latest, source, knobs, toWrite, autogroupVars, phase, channel>>

Compare ==
  /\ monitor = "reading" /\ reading.left = {}
  /\ monitor' = IF Detected = last THEN "asleep" ELSE "sending"
  /\ last' = Detected
  /\ latest' = IF Detected = last THEN latest ELSE Detected
  /\ reading' = NothingRead
  /\ UNCHANGED <<supplies, source, knobs, toWrite, autogroupVars,
                 phase, channel>>

SendPower ==
  /\ monitor = "sending" /\ monitor' = "asleep"
  /\ SendEvent([type |-> "Power", value |-> last])
  /\ UNCHANGED <<supplies, reading, last, latest, source, knobs, toWrite,
                 autogroupVars, phase>>

-----------------------------------------------------------------------------
(* A bug to detect: the profile is applied and the source not remembered.   *)
OnPowerForgetting ==
  /\ toWrite = 0 /\ TakeEvent("Power")
  /\ toWrite' = IF Head(channel).value # source THEN Len(Knobs) ELSE 0
  /\ UNCHANGED <<supplies, reading, monitor, last, latest, source, knobs,
                 autogroupVars, phase>>

(* Event::Power: a source that is already applied changes nothing.          *)
OnPower ==
  /\ toWrite = 0 /\ TakeEvent("Power")
  /\ LET new == Head(channel).value IN
       /\ source' = new
       /\ IF new # source THEN ApplyProfile ELSE UNCHANGED toWrite
  /\ UNCHANGED <<supplies, reading, monitor, last, latest, knobs, autogroupVars, phase>>

(* apply_sched_profile: one setting after another, and a write that fails   *)
(* is passed over.                                                          *)
WriteKnob ==
  /\ phase = "running" /\ toWrite > 0 /\ toWrite' = toWrite - 1
  /\ LET i == Len(Knobs) - toWrite + 1 IN
       knobs' = IF Knobs[i] \in Writable THEN [knobs EXCEPT ![i] = source] ELSE knobs
  /\ UNCHANGED <<supplies, reading, monitor, last, latest, source, autogroupVars, phase, channel>>

-----------------------------------------------------------------------------
(* The process ends, and its threads and all they knew with it.             *)
ThreadsEnd ==
  /\ phase' = "down" /\ channel' = <<>>
  /\ monitor' = "none" /\ reading' = NothingRead /\ toWrite' = 0
  /\ last' = "AC" /\ latest' = "AC" /\ source' = "AC" /\ saved' = "1"
  /\ UNCHANGED <<supplies, knobs, native>>

(* Event::Shutdown ends the loop; AutogroupGuard is dropped after shutdown(). *)
StopLoop ==
  /\ phase = "running" /\ toWrite = 0 /\ phase' = "stopping"
  /\ UNCHANGED <<powerVars, channel>>

PowerStop ==
  /\ phase = "stopping" /\ ThreadsEnd
  /\ IF KeepAutogroup THEN UNCHANGED <<autogroup, spoiled>> ELSE RestoreAutogroup

(* Killed, or a failed start, at any moment.                                *)
PowerCrash ==
  /\ Up /\ ThreadsEnd
  /\ spoiled' = (spoiled \/ phase \in {"running", "stopping"})
  /\ UNCHANGED autogroup

-----------------------------------------------------------------------------
(* What thread power-monitor saw last is what the event loop holds, or will *)
(* hold after the last power event on its way.  No change is lost, although *)
(* the first reading, the mutex and the events overlap, and no event that   *)
(* is still on its way leaves an older source behind.                       *)
NoPower(events) == \A i \in 1..Len(events) : events[i].type # "Power"

NewestIs(events, s) ==
  \A i \in 1..Len(events) :
    /\ events[i].type = "Power"
    /\ \A j \in (i + 1)..Len(events) : events[j].type # "Power"
    => events[i].value = s

PowerAgrees ==
  phase \in {"initial", "running"} /\ monitor # "sending" =>
    /\ NewestIs(channel, last)
    /\ NoPower(channel) => source = last

(* What the doc of detect_power_state_sysfs calls on battery.               *)
OnBattery == /\ \E b \in Batteries : supplies[b] = "discharging"
             /\ \A m \in Mains : supplies[m] # "online"

(* The settings end up with the profile of the power source, all of them    *)
(* that can be written, once the machine stays plugged in or on battery,    *)
(* whatever was read, sent and applied before, and by earlier instances.  A *)
(* reading is of one file after another, so that it may show a state that   *)
(* the machine was never in: the readings that follow must correct it.      *)
ProfileIs(profile) ==
  \A i \in DOMAIN Knobs : Knobs[i] \in Writable => knobs[i] = profile

ProfileFollows ==
  <>[](phase = "running") /\ <>[][supplies' = supplies]_supplies
    => <>[]ProfileIs(IF OnBattery THEN "Battery" ELSE "AC")

(* Whenever no instance runs, autogroup is as the administrator chose it,    *)
(* "0" or "1", through any starts, failed starts, failed attempts to turn   *)
(* it off and stops since then; unless an instance was killed while it ran, *)
(* or the value could not be read, or the write that gives it back failed.  *)
AutogroupReturned == phase = "down" /\ ~spoiled => autogroup = native
=============================================================================
