------------------------------- MODULE Daemon -------------------------------
(***************************************************************************)
(* The event loop of crates/core/src/daemon.rs: one thread that takes one  *)
(* event at a time from the channel and keeps the process table, the map   *)
(* of managed processes, the foreground set and the cgroup placement of    *)
(* the processes.  A handler is one step, except for the loops over many   *)
(* processes (scan, recheck, restore), which take one step for each        *)
(* process: the kernel moves on meanwhile, and the order is that of a      *)
(* HashMap, that is, any.                                                  *)
(***************************************************************************)
EXTENDS Kernel, Focus, RuleEngine

CONSTANTS RuleSets,      \* the rule lists that a reload may find on disk
          FactsOf,       \* what the predicates can see of each command
          KernelComms,   \* kernel threads and the daemon's own: never touched
          Sandboxed,     \* commands that run in a cgroup namespace of their own
          LineageDepth,  \* config: fork_bomb.lineage_depth
          AncestorDepth, \* how many ancestors the rules see: 10 in the code
          ScanAtStart,   \* config: apply_to_existing_processes
          TiersUsed,     \* bound of the model: the tiers that an instance has
          Placements,    \* bound of the model: the moves that clients ask for
          Readings       \* bound of the model: the pressure levels that occur

VARIABLES table,         \* Daemon::table
          managed,       \* SharedState::managed: pid -> what was applied
          rules,         \* Daemon::engine
          startup,       \* Daemon::startup_phase
          foreground,    \* ForegroundTracker::current_pids
          throttled,     \* ForkBombDetector::throttled
          mode,          \* last_pressure_level, and SharedState::mode
          dirs,          \* the tier directories that exist
          gcLeft,        \* those the cgroup-gc thread has yet to look at
          todo           \* the loop the event loop is in, and what is left of it

vars == <<proc, queue, table, managed, rules, startup, foreground, throttled,
          mode, dirs, gcLeft, todo, status>>

(* all_tiers: the cgroups that the daemon creates, in the order gc takes.   *)
AllTiers == <<"rt", "interactive", "system", "background", "idle", "swapstorm">>
Tier == {AllTiers[i] : i \in DOMAIN AllTiers} \cap TiersUsed

Level == {"normal", "low", "high", "critical"}

IdleTodo == [kind |-> "idle", pids |-> {}]

Todo == [kind: {"idle", "list", "read", "classify", "recheck", "restore"},
         pids: SUBSET Pid]

Event == [type: {"Fork"}, parent: Pid, pid: Pid]
     \cup [type: {"Exec", "Comm", "Exit", "Foreground"}, pid: Pid]
     \cup [type: {"Place"}, pid: Pid, tier: Tier]
     \cup [type: {"Pressure"}, level: Level]
     \cup [type: {"Rescan", "Recheck", "Gc", "Reload", "Shutdown"}]

Managed == [comm: Comm, cgroup: Value \cup {"system"}, rule: RuleName]

ASSUME TierAssumption ==
  /\ Tier \subseteq Group /\ Placements \subseteq [pid: Pid, tier: Tier]
  /\ Readings \subseteq Level
  /\ Sources \cap {"forkbomb", "pressure"} # {} => "swapstorm" \in Tier
  /\ "focus" \in Sources => {"interactive", "system"} \subseteq Tier
  /\ LineageDepth \in Nat /\ AncestorDepth \in Nat
  /\ ScanAtStart \in BOOLEAN

ASSUME RuleSetsAssumption ==
  \A rs \in RuleSets : /\ DOMAIN rs \subseteq Nat
                       /\ \A i \in DOMAIN rs : rs[i].action \in Action

FirstLoop == IF ScanAtStart THEN [kind |-> "list", pids |-> {}] ELSE IdleTodo

Init ==
  /\ proc = Boot /\ queue = <<>>
  /\ table = EmptyTable
  /\ managed = [p \in {} |-> None]
  /\ rules \in RuleSets
  /\ startup = TRUE
  /\ foreground = {} /\ throttled = {}
  /\ mode = "normal"
  /\ dirs = Tier /\ gcLeft = {}
  /\ todo = FirstLoop
  /\ status = "running"

-----------------------------------------------------------------------------
(* CgroupManager::assign_pid for every process of S.  The write fails when  *)
(* the tier is gone or unknown, and does nothing to the dead.               *)
Assigned(pr, S, tier) ==
  [p \in Pid |->
     IF /\ p \in S /\ pr[p].st = "alive" /\ pr[p].comm \notin Sandboxed
        /\ tier \in dirs
     THEN [pr[p] EXCEPT !.cg = tier] ELSE pr[p]]

(* A bug to detect: foreground processes are classified like any other.     *)
VerdictOnAll(t, p) ==
  LET info == t.entries[p].info IN
  IF info.comm \in KernelComms THEN None
  ELSE Classify(rules,
                [comm |-> info.comm, facts |-> FactsOf[info.comm],
                 kthread |-> FALSE, rt |-> FALSE, path |-> info.path],
                AncestorComms(t, p, AncestorDepth))

Verdict(t, p) ==
  LET info == t.entries[p].info IN
  IF info.comm \in KernelComms \/ p \in foreground THEN None
  ELSE Classify(rules,
                [comm |-> info.comm, facts |-> FactsOf[info.comm],
                 kthread |-> FALSE, rt |-> FALSE, path |-> info.path],
                AncestorComms(t, p, AncestorDepth))

(* A bug to detect: a process without a verdict goes to the lowest tier.    *)
ClassifyOrDefault(t, p) ==
  /\ table' = MarkClassified(t, p)
  /\ proc' = Assigned(proc, {p}, IF Verdict(t, p) = None THEN "idle"
                                                         ELSE Verdict(t, p).opt.cgroup)
  /\ UNCHANGED managed

(* classify_and_apply, from table t.  What the kernel answered to the cgroup *)
(* write is not looked at: the action counts as applied.                     *)
ClassifyAndApply(t, p) ==
  LET a == Verdict(t, p) IN
  \/ /\ a = None
     /\ table' = MarkClassified(t, p)
     /\ UNCHANGED <<proc, managed>>
  \/ /\ a # None
     /\ LET moves == a.opt.cgroup # None
            kids  == IF a.children THEN ChildrenOf(t, p) \cap Tracked(t) ELSE {}
        IN  /\ table' = SetApplied(IF moves /\ Exists(p)
                                     THEN SetOriginal(t, p, proc[p].cg) ELSE t,
                                   p, a, a.opt.recheck_secs # None)
            /\ proc' = IF moves THEN Assigned(proc, {p} \cup kids, a.opt.cgroup)
                                ELSE proc
            /\ managed' = Put(managed, p,
                 [comm   |-> t.entries[p].info.comm,
                  cgroup |-> IF moves THEN a.opt.cgroup ELSE "system",
                  rule   |-> a.rule])

(* A bug to detect: the managed map keeps what the table has forgotten.     *)
ForgetNothing(p) == managed

Forget(p) == [q \in DOMAIN managed \ {p} |-> managed[q]]

-----------------------------------------------------------------------------
(* The event loop is between two events.                                    *)
Waiting == status = "running" /\ todo.kind = "idle" /\ queue # <<>>

(* It takes the next event, which is of this type.                          *)
Take(type) == Waiting /\ Head(queue).type = type /\ queue' = Tail(queue)
Front == Head(queue)

(* The grace period is over when an event arrives after the deadline: the   *)
(* event is handled after a full scan.                                      *)
EndGrace ==
  /\ Waiting /\ startup
  /\ startup' = FALSE
  /\ todo' = [kind |-> "list", pids |-> {}]
  /\ UNCHANGED <<proc, queue, table, managed, rules, foreground, throttled,
                 mode, dirs, gcLeft, status>>

(* Fork: the child goes into the table marked as classified, in both phases. *)
NoteFork(t, pr) ==
  LET c == Front.pid IN
  IF pr[c].st = "none" THEN t
  ELSE MarkClassified(Insert(t, c, [ppid |-> pr[c].ppid, comm |-> pr[c].comm,
                                    path |-> pr[c].cg]), c)

OnFork ==
  /\ Take("Fork")
  /\ table' = NoteFork(table, proc)
  /\ UNCHANGED <<proc, managed, rules, startup, foreground, throttled, mode,
                 dirs, gcLeft, todo, status>>

(* The rate of this parent reached the threshold: its subtree, as far as    *)
(* the table knows it, goes to swapstorm.  When that can be is for module   *)
(* ForkBomb; here it may be any time the parent is not throttled yet.       *)
OnForkBomb ==
  /\ "forkbomb" \in Sources
  /\ Take("Fork")
  /\ LET root == Front.parent
         all  == CollectSubtree(table, root, LineageDepth)
     IN  /\ root \notin throttled
         /\ throttled' = throttled \cup {root}
         /\ proc' = Assigned(proc, all, "swapstorm")
  /\ table' = IF startup THEN NoteFork(table, proc') ELSE table
  /\ UNCHANGED <<managed, rules, startup, foreground, mode, dirs, gcLeft, todo, status>>

OnExec ==
  /\ Take("Exec")
  /\ LET p == Front.pid
         t == IF Exists(p) THEN Insert(table, p, ReadInfo(p)) ELSE table
     IN  IF ~Exists(p) THEN UNCHANGED <<proc, table, managed>>
         ELSE IF startup THEN /\ table' = MarkClassified(t, p)
                              /\ UNCHANGED <<proc, managed>>
         ELSE ClassifyAndApply(t, p)
  /\ UNCHANGED <<rules, startup, foreground, throttled, mode, dirs, gcLeft, todo, status>>

(* Comm and Uid: only a process without a verdict is looked at.             *)
OnComm ==
  /\ Take("Comm")
  /\ LET p == Front.pid
         done == p \in Tracked(table) /\ table.entries[p].classified
     IN  IF startup \/ done \/ ~Exists(p) THEN UNCHANGED <<proc, table, managed>>
         ELSE ClassifyAndApply(Insert(table, p, ReadInfo(p)), p)
  /\ UNCHANGED <<rules, startup, foreground, throttled, mode, dirs, gcLeft, todo, status>>

OnExit ==
  /\ Take("Exit")
  /\ foreground' = foreground \ {Front.pid}
  /\ table' = Remove(table, Front.pid)
  /\ managed' = Forget(Front.pid)
  /\ UNCHANGED <<proc, rules, startup, throttled, mode, dirs, gcLeft, todo, status>>

-----------------------------------------------------------------------------
(* do_full_scan.  Between the directory listing and the read of each new    *)
(* process the world may change: three steps.                               *)
OnRescan ==
  /\ Take("Rescan")
  /\ todo' = [kind |-> "list", pids |-> {}]
  /\ UNCHANGED <<proc, table, managed, rules, startup, foreground, throttled,
                 mode, dirs, gcLeft, status>>

(* A /proc that cannot be read counts as empty.                             *)
ScanList ==
  /\ status = "running" /\ todo.kind = "list"
  /\ \/ todo' = [kind |-> "read", pids |-> {p \in Pid : Exists(p)}]
     \/ "noproc" \in Sources /\ todo' = [kind |-> "read", pids |-> {}]
  /\ UNCHANGED <<proc, queue, table, managed, rules, startup, foreground,
                 throttled, mode, dirs, gcLeft, status>>

ScanRead ==
  /\ status = "running" /\ todo.kind = "read"
  /\ LET live == todo.pids
         new  == {p \in live \ Tracked(table) : Exists(p)}
     IN  /\ table' = MergeScan(table, [p \in new |-> ReadInfo(p)], live)
         /\ managed' = [p \in DOMAIN managed \cap live |-> managed[p]]
  /\ todo' = IF startup \/ Unclassified(table') = {} THEN IdleTodo
             ELSE [kind |-> "classify", pids |-> Unclassified(table')]
  /\ UNCHANGED <<proc, queue, rules, startup, foreground, throttled, mode,
                 dirs, gcLeft, status>>

Done(p) == IF todo.pids = {p} THEN IdleTodo ELSE [todo EXCEPT !.pids = @ \ {p}]

ScanClassify(p) ==
  /\ status = "running" /\ todo.kind = "classify" /\ p \in todo.pids
  /\ todo' = Done(p)
  /\ ClassifyAndApply(table, p)
  /\ UNCHANGED <<queue, rules, startup, foreground, throttled, mode, dirs, gcLeft, status>>

(* do_rechecks: some of the armed deadlines have passed.                    *)
OnRecheck ==
  /\ Take("Recheck")
  /\ \E due \in SUBSET {p \in Tracked(table) : table.entries[p].recheck} :
       todo' = IF due = {} THEN IdleTodo ELSE [kind |-> "recheck", pids |-> due]
  /\ UNCHANGED <<proc, table, managed, rules, startup, foreground, throttled,
                 mode, dirs, gcLeft, status>>

Recheck(p) ==
  /\ status = "running" /\ todo.kind = "recheck" /\ p \in todo.pids
  /\ todo' = Done(p)
  /\ IF p \in foreground THEN UNCHANGED <<proc, table, managed>>
     ELSE IF Exists(p) THEN ClassifyAndApply(Insert(table, p, ReadInfo(p)), p)
     ELSE /\ table' = Remove(table, p) /\ managed' = Forget(p)
          /\ UNCHANGED proc
  /\ UNCHANGED <<queue, rules, startup, foreground, throttled, mode, dirs, gcLeft, status>>

-----------------------------------------------------------------------------
(* Control requests.                                                        *)
OnForeground ==
  /\ Take("Foreground")
  /\ LET hint    == Front.pid
         ignored == startup \/ IsSessionRoot(table, hint)
         hangs   == ~ignored /\ ~WalkEnds(table, hint)
         new     == IF ignored \/ hangs THEN {} ELSE Boosted(table, hint)
     IN  /\ status' = IF hangs THEN "hung" ELSE status
         /\ foreground' = IF new = {} THEN foreground ELSE new
         /\ proc' = IF new = {} THEN proc
                    ELSE Assigned(Assigned(proc, foreground \ new, "system"),
                                  new, "interactive")
  /\ UNCHANGED <<table, managed, rules, startup, throttled, mode, dirs, gcLeft, todo>>

OnPlace ==
  /\ Take("Place")
  /\ proc' = Assigned(proc, {Front.pid}, Front.tier)
  /\ UNCHANGED <<table, managed, rules, startup, foreground, throttled, mode,
                 dirs, gcLeft, todo, status>>

(* ReloadRules, from the control socket or SIGHUP: what is on disk now, or  *)
(* the old rules when a file does not load.                                 *)
OnReload ==
  /\ Take("Reload")
  /\ rules' \in RuleSets \cup {rules}
  /\ UNCHANGED <<proc, table, managed, startup, foreground, throttled, mode,
                 dirs, gcLeft, todo, status>>

-----------------------------------------------------------------------------
(* handle_pressure_change, which a level equal to the last does not reach.  *)
In(tier) == {p \in Pid : Alive(p) /\ proc[p].cg = tier}

OnPressure ==
  /\ Take("Pressure")
  /\ LET level == Front.level IN
       /\ mode' = level
       /\ proc' = IF level = "critical" /\ mode # level
                    THEN Assigned(proc, In("idle") \cup In("background"), "swapstorm")
                    ELSE proc
       /\ table' = IF level = "normal" /\ mode = "critical"
                     THEN MarkClassifiedFalse(table, In("swapstorm")) ELSE table
  /\ UNCHANGED <<managed, rules, startup, foreground, throttled, dirs, gcLeft,
                 todo, status>>

(* do_gc: windows that have gone cold are dropped with their parents'       *)
(* throttling, and a thread starts to remove the empty tiers.  Those that   *)
(* are gone already are nothing to it.                                      *)
OnGc ==
  /\ Take("Gc")
  /\ throttled' \in SUBSET throttled
  /\ gcLeft' = dirs
  /\ UNCHANGED <<proc, table, managed, rules, startup, foreground, mode, dirs,
                 todo, status>>

GcTier ==
  /\ \E i \in DOMAIN AllTiers :
       LET tier == AllTiers[i] IN
       /\ tier \in gcLeft /\ \A j \in 1..(i - 1) : AllTiers[j] \notin gcLeft
       /\ gcLeft' = gcLeft \ {tier}
       /\ dirs' = IF In(tier) = {} THEN dirs \ {tier} ELSE dirs
  /\ UNCHANGED <<proc, queue, table, managed, rules, startup, foreground,
                 throttled, mode, todo, status>>

-----------------------------------------------------------------------------
(* A bug to detect: the event loop goes on after it.                        *)
OnShutdownGoOn ==
  /\ Take("Shutdown")
  /\ UNCHANGED <<proc, table, managed, rules, startup, foreground, throttled,
                 mode, dirs, gcLeft, todo, status>>

(* shutdown: the restore thread puts back what moved_pids() names, for at   *)
(* most two seconds, then the empty tiers are removed.                      *)
OnShutdown ==
  /\ Take("Shutdown")
  /\ status' = "stopping"
  /\ todo' = [kind |-> "restore", pids |-> MovedPids(table)]
  /\ UNCHANGED <<proc, table, managed, rules, startup, foreground, throttled,
                 mode, dirs, gcLeft>>

Restore(p) ==
  /\ status = "stopping" /\ p \in todo.pids
  /\ todo' = [todo EXCEPT !.pids = @ \ {p}]
  /\ LET orig == table.entries[p].orig IN
       proc' = IF orig # None /\ Alive(p) /\ orig \notin Tier \ dirs
                 THEN [proc EXCEPT ![p].cg = orig] ELSE proc
  /\ UNCHANGED <<queue, table, managed, rules, startup, foreground, throttled,
                 mode, dirs, gcLeft, status>>

(* The memory of the process is lost; the processes it moved stay where     *)
(* they are, and so do the tiers.                                           *)
Ends(final) ==
  /\ status' = final
  /\ queue' = <<>> /\ table' = EmptyTable /\ managed' = [p \in {} |-> None]
  /\ startup' = TRUE /\ foreground' = {} /\ throttled' = {}
  /\ mode' = "normal" /\ gcLeft' = {} /\ todo' = IdleTodo
  /\ UNCHANGED <<proc, rules>>

(* Either the restore thread has answered or the two seconds are over.      *)
Teardown ==
  /\ status = "stopping" /\ Ends("stopped")
  /\ dirs' = {t \in dirs : In(t) # {}}

(* Killed or panicked, at any moment.                                       *)
Crash == "restart" \in Sources /\ Up /\ Ends("crashed") /\ UNCHANGED dirs

-----------------------------------------------------------------------------
(* A bug to detect: tiers that are gone are not created again.              *)
SetupNothing == UNCHANGED dirs

(* CgroupManager::new makes the tiers that are not there.                   *)
SetupHierarchy == dirs' = Tier

(* main(), again: by Restart=on-failure after a crash, or by an admin.      *)
Start ==
  /\ "restart" \in Sources /\ ~Up
  /\ SetupHierarchy
  /\ status' = "running" /\ todo' = FirstLoop
  /\ rules' \in RuleSets
  /\ UNCHANGED <<proc, queue, table, managed, startup, foreground, throttled, mode, gcLeft>>

-----------------------------------------------------------------------------
(* Producers other than the kernel.  A ticker, or a client that waits for   *)
(* its reply, has at most one event in the channel, and only the rescan     *)
(* ticker adds to a full one: bounds of the model.                          *)
Send(e) ==
  /\ \A i \in DOMAIN queue : queue[i].type # e.type
  /\ queue' = Append(queue, e)
  /\ UNCHANGED <<proc, table, managed, rules, startup, foreground, throttled,
                 mode, dirs, gcLeft, todo, status>>

RescanTick == "rescan" \in Sources /\ Send([type |-> "Rescan"])

Signal(source, type) == source \in Sources /\ Len(queue) < MaxQueue /\ Send([type |-> type])

(* The control socket: SetForegroundProcess and SetProcessCgroup.           *)
Client ==
  /\ Len(queue) < MaxQueue
  /\ \/ "focus" \in Sources /\ \E p \in Pid : Send([type |-> "Foreground", pid |-> p])
     \/ "place" \in Sources /\ \E m \in Placements :
                                 Send([type |-> "Place", pid |-> m.pid, tier |-> m.tier])

(* The psi-monitor thread: any reading, when a trigger fires or in time.    *)
PsiUpdate ==
  /\ "pressure" \in Sources /\ Len(queue) < MaxQueue
  /\ \E l \in Readings : Send([type |-> "Pressure", level |-> l])

Producers ==
  \/ RescanTick
  \/ Signal("recheck", "Recheck") \/ Signal("gc", "Gc")
  \/ Signal("reload", "Reload") \/ Signal("shutdown", "Shutdown")
  \/ Client \/ PsiUpdate

ProcEvents == OnFork \/ OnForkBomb \/ OnExec \/ OnComm \/ OnExit
Loops      == \/ ScanList \/ ScanRead
              \/ \E p \in Pid : ScanClassify(p) \/ Recheck(p) \/ Restore(p)
Timers     == EndGrace \/ OnRescan \/ OnRecheck \/ OnGc
Requests   == OnForeground \/ OnPlace \/ OnReload \/ OnPressure \/ OnShutdown

DaemonStep == ProcEvents \/ Loops \/ Timers \/ Requests \/ Teardown

Environment ==
  /\ KernelStep
  /\ UNCHANGED <<table, managed, rules, startup, foreground, throttled, mode,
                 dirs, gcLeft, todo, status>>

Next ==
  \/ DaemonStep
  \/ GcTier \/ Crash \/ Start
  \/ (Up \/ "restart" \in Sources) /\ Environment
  \/ Up /\ Producers

Spec == Init /\ [][Next]_vars

(* The event loop is a thread that is always scheduled and the rescan       *)
(* ticker fires for as long as the process lives.  Nothing is assumed of    *)
(* other processes, of clients or of signals.                               *)
FairSpec == Spec /\ WF_vars(DaemonStep) /\ WF_vars(Up /\ RescanTick)
=============================================================================
