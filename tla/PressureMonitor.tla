--------------------------- MODULE PressureMonitor --------------------------
(***************************************************************************)
(* Memory pressure on its way from /proc/pressure to what clients see      *)
(* (crates/psi/src/lib.rs, the Event::Pressure arm of Daemon::run).  What  *)
(* the daemon does to processes at each level is in module Daemon.         *)
(***************************************************************************)
EXTENDS Service

CONSTANTS Stall,         \* the values that memory.some_avg10 takes, in percent
          Unreadable,    \* no such file: an old kernel, a container, psi=0
          LowThreshold, HighThreshold

VARIABLES stall,         \* memory.some_avg10, or Unreadable
          pressure,      \* SharedState::pressure
          level,         \* Daemon::last_pressure_level
          mode,          \* SharedState::mode
          handling       \* the event loop is about to handle a change of level

pressureVars == <<stall, pressure, level, mode, handling>>

Level == {"normal", "low", "high", "critical"}

ASSUME PressureAssumption ==
  /\ Stall \subseteq 0..100 /\ Unreadable \notin Stall
  /\ LowThreshold \in Nat \ {0} /\ HighThreshold \in Nat \ {0}

(* PressureLevel::from_memory.  The critical level begins at one and a half *)
(* times the high threshold.                                                *)
LevelOf(p) ==
  IF 2 * p >= 3 * HighThreshold THEN "critical"
  ELSE IF p >= HighThreshold THEN "high"
  ELSE IF p >= LowThreshold THEN "low"
  ELSE "normal"

(* read_psi_into: what cannot be read counts as no pressure.                *)
Read(s) == IF s = Unreadable THEN 0 ELSE s

PressureInit ==
  /\ stall \in Stall \cup {Unreadable}
  /\ pressure = 0 /\ level = "normal" /\ mode = "normal" /\ handling = FALSE

-----------------------------------------------------------------------------
StallChanges ==
  /\ stall' \in (Stall \cup {Unreadable}) \ {stall}
  /\ UNCHANGED <<pressure, level, mode, handling, phase, channel>>

(* A new instance starts from the defaults of SharedState and Daemon::new.  *)
PressureStart ==
  /\ pressure' = 0 /\ level' = "normal" /\ mode' = "normal" /\ handling' = FALSE
  /\ UNCHANGED stall

(* A bug to detect: the thread has its triggers and no timeout; the kernel  *)
(* does not tell when the pressure is over.                                 *)
PollTriggersOnly ==
  /\ Up /\ Read(stall) >= LowThreshold
  /\ SendEvent([type |-> "Pressure", value |-> Read(stall)])
  /\ UNCHANGED <<pressureVars, phase>>

(* Thread psi-monitor: poll() returns as a trigger fires, or in time, or in *)
(* error; the pressure is read and sent in any case.  Triggers that cannot  *)
(* be armed only make the thread wait for the timeout.                      *)
Poll ==
  /\ Up
  /\ SendEvent([type |-> "Pressure", value |-> Read(stall)])
  /\ UNCHANGED <<pressureVars, phase>>

(* A bug to detect: the level that was handled is not remembered.           *)
SharePressureForgetting ==
  /\ ~handling /\ TakeEvent("Pressure")
  /\ LET new == Head(channel).value IN
       /\ pressure' = new
       /\ handling' = (LevelOf(new) # level)
  /\ UNCHANGED <<stall, level, mode, phase>>

(* Event::Pressure: the reading is shared with the clients in any case.     *)
SharePressure ==
  /\ ~handling /\ TakeEvent("Pressure")
  /\ LET new == Head(channel).value IN
       /\ pressure' = new
       /\ level' = LevelOf(new)
       /\ handling' = (LevelOf(new) # level)
  /\ UNCHANGED <<stall, mode, phase>>

(* handle_pressure_change, for another level only.  The lock on SharedState *)
(* was given up in between, so that clients may see the one without the     *)
(* other.                                                                   *)
ChangeMode ==
  /\ phase = "running" /\ handling /\ handling' = FALSE
  /\ mode' = LevelOf(pressure)
  /\ UNCHANGED <<stall, pressure, level, phase, channel>>

-----------------------------------------------------------------------------
(* Once an event is handled, the mode that Status shows to clients matches  *)
(* the pressure that GetSystemPressure shows them: the handler that skips a *)
(* level it has handled before never skips one too many, through rises,     *)
(* falls, unreadable files, crashes in the middle of it and restarts.       *)
ModeIsLevel == phase = "running" /\ ~handling => mode = LevelOf(pressure)

(* What stays as it is gets through: the end of the pressure, which the     *)
(* kernel does not notify, as well as its rise; and readings that the file  *)
(* no longer gives do not hold the daemon in a critical mode.               *)
PressureFollows ==
  <>[](phase = "running") /\ <>[][stall' = stall]_stall
    => <>[](pressure = Read(stall) /\ mode = LevelOf(Read(stall)))
=============================================================================
