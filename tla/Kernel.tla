------------------------------- MODULE Kernel -------------------------------
(***************************************************************************)
(* What surrounds the daemon: processes that fork, exec, rename            *)
(* themselves, exit and are reaped, the cgroup each is in, and the channel *)
(* of events that the daemon's event loop consumes.  Process ids are       *)
(* reused as soon as they are free.  Every step is announced by the        *)
(* process-events connector in the order it happened.                      *)
(***************************************************************************)
EXTENDS ProcessTable

CONSTANTS Sources,    \* which producers of events, and which faults, there are
          Boot,       \* the processes at the time the daemon starts
          Nobody,     \* what is left at a pid that no process has
          Programs,   \* what processes other than init execute
          MaxQueue    \* bound of the model: no process event beyond it

VARIABLES proc,       \* pid -> [st, ppid, comm, cg]
          queue,      \* the mpsc channel of Events, oldest first
          status      \* the daemon: "running", "hung", "stopping", "stopped", "crashed"

Process == [st: {"none", "alive", "zombie"}, ppid: ParentPid, comm: Comm, cg: Group]

ASSUME BootAssumption ==
  Boot \in [Pid -> Process] /\ Nobody \in Process /\ Nobody.st = "none"
(* The parent of a process runs, or is outside: 0, for init and the kernel's *)
(* threads.  Init runs.                                                     *)
ASSUME BootTreeAssumption ==
  /\ Boot[1].st = "alive"
  /\ \A p \in Pid : LET up == Boot[p].ppid IN
       Boot[p].st # "none" => up \in {0, 1} \/ (up # p /\ Boot[up].st = "alive")
ASSUME MaxQueueAssumption == MaxQueue \in Nat

(* Readable under /proc: a zombie still is.                                 *)
Exists(p) == proc[p].st # "none"
Alive(p)  == proc[p].st = "alive"

(* ProcessInfo::from_pid.                                                   *)
ReadInfo(p) == [ppid |-> proc[p].ppid, comm |-> proc[p].comm, path |-> proc[p].cg]

(* Nothing is announced, and nothing kept, while no daemon listens.         *)
Up == status \notin {"stopped", "crashed"}

Announce(e) ==
  /\ Len(queue) < MaxQueue
  /\ queue' = IF Up THEN Append(queue, e) ELSE queue

-----------------------------------------------------------------------------
Fork(p, c) ==
  /\ Alive(p) /\ ~Exists(c)
  /\ proc' = [proc EXCEPT ![c] = [proc[p] EXCEPT !.ppid = p]]
  /\ Announce([type |-> "Fork", parent |-> p, pid |-> c])

Exec(p, comm) ==
  /\ "exec" \in Sources /\ Alive(p) /\ p # 1 /\ comm \in Programs
  /\ proc' = [proc EXCEPT ![p].comm = comm]
  /\ Announce([type |-> "Exec", pid |-> p])

(* prctl(PR_SET_NAME); setuid is announced and handled in the same way.     *)
Rename(p, comm) ==
  /\ "rename" \in Sources /\ Alive(p) /\ p # 1 /\ comm \in Programs \ {proc[p].comm}
  /\ proc' = [proc EXCEPT ![p].comm = comm]
  /\ Announce([type |-> "Comm", pid |-> p])

(* The children of a process that exits become children of init.            *)
Exit(p) ==
  /\ "exit" \in Sources /\ Alive(p) /\ p # 1
  /\ proc' = [q \in Pid |->
       IF q = p THEN [proc[q] EXCEPT !.st = "zombie"]
       ELSE IF Exists(q) /\ proc[q].ppid = p THEN [proc[q] EXCEPT !.ppid = 1]
       ELSE proc[q]]
  /\ Announce([type |-> "Exit", pid |-> p])

Reap(p) ==
  /\ proc[p].st = "zombie"
  /\ proc' = [proc EXCEPT ![p] = Nobody]
  /\ UNCHANGED queue

KernelStep ==
  \E p \in Pid :
     \/ \E c \in Pid : Fork(p, c)
     \/ \E comm \in Comm : Exec(p, comm) \/ Rename(p, comm)
     \/ Exit(p)
     \/ Reap(p)
=============================================================================
