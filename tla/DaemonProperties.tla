-------------------------- MODULE DaemonProperties --------------------------
(***************************************************************************)
(* What the event loop of module Daemon promises, and what its comments    *)
(* claim of it.                                                            *)
(***************************************************************************)
EXTENDS Daemon

(* Nothing is on its way to the event loop, and it is in no loop.           *)
Quiet == status = "running" /\ todo.kind = "idle" /\ queue = <<>>

Pending(p) == \E i \in DOMAIN queue :
                 queue[i].type \in {"Fork", "Exec", "Comm", "Exit"} /\ queue[i].pid = p

(* The kernel has announced a new owner of p, and the news is on its way.   *)
Forked(p) == \E i \in DOMAIN queue : queue[i].type = "Fork" /\ queue[i].pid = p

(* This step carries out a client's request for p.                          *)
Placed(p) == queue # <<>> /\ queue' = Tail(queue) /\ Front.type = "Place" /\ Front.pid = p

-----------------------------------------------------------------------------
(* The types of the state, and that the loops over processes go over those  *)
(* that the table knows.                                                    *)
TypeOK ==
  /\ proc \in [Pid -> Process] /\ queue \in Seq(Event)
  /\ IsTable(table)
  /\ IsMap(managed, Pid, Managed)
  /\ rules \in RuleSets
  /\ startup \in BOOLEAN /\ mode \in Level
  /\ foreground \subseteq Pid /\ throttled \subseteq Pid
  /\ dirs \subseteq Tier /\ gcLeft \subseteq Tier
  /\ todo \in Todo
  /\ todo.kind \in {"classify", "recheck", "restore"} => todo.pids \subseteq Tracked(table)
  /\ status \in {"running", "hung", "stopping", "stopped", "crashed"}
  /\ status = "stopping" => todo.kind = "restore"

(* The parent-to-child edges of the process table, which fork-bomb          *)
(* throttling, focus and apply_to_children walk, stay consistent with the   *)
(* entries through re-parenting, pid reuse, scans and exits in any order.   *)
EdgesSound == EdgeSound(table)

(* SharedState::managed, which clients list, names only processes that the  *)
(* table tracks, and shows for each one whose entry holds an applied action *)
(* the rule and the cgroup of that action.                                  *)
Shows(m, t) ==
  /\ DOMAIN m \subseteq Tracked(t)
  /\ \A p \in Tracked(t) :
       LET a == t.entries[p].applied IN
       a # None => /\ p \in DOMAIN m
                   /\ m[p].rule = a.rule
                   /\ a.opt.cgroup # None => m[p].cgroup = a.opt.cgroup

ManagedTracked == Shows(managed, table)

(* The cgroup that teardown gives back to a process is the one it had       *)
(* before the first move: neither an exec, nor a rescan, nor a recheck, nor *)
(* a later rule replaces it while the process stays in the table.           *)
OriginalIsFirst ==
  [][\A p \in Tracked(table) :
       p \in Tracked(table)' /\ table.entries[p].orig # None
         => table'.entries[p].orig = table.entries[p].orig]_vars

(* Every process that a rule moved can be put back: the table knows where   *)
(* it came from, unless it is gone, or the event loop has yet to hear that  *)
(* the pid has a new owner.  (A detection swallows the Fork of a child, and *)
(* with it the news of a new owner: this is stated without detections.)     *)
MovedCanReturn ==
  \A p \in MovedPids(table) :
     table.entries[p].orig = None => ~Exists(p) \/ Forked(p)

(* What may move a foreground process all the same: the throttling of a fork *)
(* bomb, a change of the pressure, the client that asks for this process, a *)
(* rule for its parent that is applied to the children, and the shutdown.   *)
Override(p) ==
  \/ throttled' # throttled \/ mode' # mode
  \/ Placed(p)
  \/ \E q \in Tracked(table') : /\ p \in ChildrenOf(table', q)
                               /\ table'.entries[q].applied # None
                               /\ table'.entries[q].applied.children
  \/ status = "stopping"

(* A foreground process is never demoted while it stays foreground: no scan,  *)
(* exec, rename, recheck, reload, focus request or pressure that stays as it *)
(* is moves it anywhere but into the interactive tier (the freeze that the   *)
(* comments of classify_and_apply and do_rechecks describe).                 *)
ForegroundNotDemoted ==
  [][\A p \in foreground :
       p \in foreground' /\ Alive(p) /\ ~Override(p) =>
         proc'[p].cg \in {proc[p].cg, "interactive"}]_vars

(* A process that is gone for good leaves the table and the managed map of  *)
(* a daemon that runs on, although a scan may list it once more, as a       *)
(* zombie, after its Exit event was handled.                                *)
DeadForgotten ==
  \A p \in Pid :
     [](status = "running") /\ <>[](~Exists(p))
       => <>[](p \notin Tracked(table) /\ p \notin DOMAIN managed)

(* SIGTERM stops the daemon, however many events, scans and restores are in *)
(* front of it.                                                             *)
ShutdownHandled ==
  (\E i \in DOMAIN queue : queue[i].type = "Shutdown") ~> status = "stopped"

(* When a fork bomb is found, its root and all its children are in           *)
(* swapstorm, but those whose forks the event loop has yet to handle: the    *)
(* table knows every other child by its present parent, whatever was reused, *)
(* re-parented and scanned before.  Init is left out, since it adopts        *)
(* orphans without an event, and so are those in a namespace of their own.   *)
BombContained ==
  [][\A r \in (throttled' \ throttled) \ {1} : \A p \in Pid :
       /\ Alive(p) /\ proc[p].comm \notin Sandboxed
       /\ p = r \/ proc[p].ppid = r
       /\ ~Forked(p)
       => proc'[p].cg = "swapstorm"]_vars

-----------------------------------------------------------------------------
(* Claims of comments and docs that the code does not keep.                 *)

(* focus.rs, find_app_root: the walk stops at a cycle, so that no request   *)
(* keeps the event loop from taking the next event.                         *)
NeverHung == status # "hung"

(* daemon.rs, handle_pressure_change: once the pressure is resolved,        *)
(* processes are restored to their correct tiers; none that a rule put into *)
(* idle is left in swapstorm with its verdict standing.                     *)
PressureReleased ==
  Quiet /\ mode = "normal" =>
    \A p \in MovedPids(table) :
      Alive(p) /\ table.entries[p].applied.opt.cgroup = "idle"
        => proc[p].cg # "swapstorm"
=============================================================================
