# A verification development for ulatencyd-rs

ulatencyd watches the processes of a Linux desktop through the kernel's
process-events connector, classifies each one by rules, and moves it into one
of six cgroup v2 tiers, so that what the user works with stays responsive.
These modules model the core of the daemon as TLA+ state machines. TLC checks
them on small instances, TLAPS proves some of the results for all values of
the constants. `PROJECT.json` maps every definition to the lines it models,
lists the hazards with the properties that watch over them, and gives for each
property a mutant of the code that breaks it.

## 1. The system

| component | state | operations | talks to |
|---|---|---|---|
| Process table (`core/process_table.rs`) | entries by pid, child sets by parent | insert, remove, mark, set_original_cgroup, set_applied, merge_scan; queries | owned by the event loop |
| Event loop (`core/daemon.rs`) | table, rule engine, focus and fork-bomb state, grace-period flag, last pressure level; shares `managed`, mode and pressure with the control socket under a mutex | one handler for each kind of event, full scan, rechecks, collection, shutdown | takes `Event`s from one mpsc channel |
| Rule engine (`rules`) | ordered rules, exception list | load, reload, classify | called by the event loop |
| Foreground tracker (`core/focus.rs`) | set of boosted pids | set_foreground, on_exit | reads the table, moves processes |
| Fork-bomb detector (`core/forkbomb.rs`) | window of timestamps by parent, throttled parents | record_fork, throttle_subtree, gc | reads the table, moves processes |
| Process monitor (`procmon/netlink.rs`, `core/main.rs`) | socket buffer, bounded channel of 4096 | listener thread, forwarding thread | the only producer of `Event::Proc`; its end becomes `Event::Shutdown` |
| /proc scan (`procmon/scan.rs`, `info.rs`) | none | list, read | called by the event loop |
| Cgroup manager (`cgroupv2`) | the tier directories (in the kernel) | set up, assign, list, collect (own thread), tear down | the kernel |
| PSI monitor (`psi`) | armed triggers, latest averages | poll, read | sends `Event::Pressure` |
| Power monitor (`core/sched.rs`) | last power source, saved autogroup value | poll, apply profile | sends `Event::Power` |
| Control socket (`core/control.rs`) | the shared state, read only | list, status; three requests that change something | sends `Event::Control` |
| Signals, tickers (`core/signal.rs`, `main.rs`) | none | SIGHUP, SIGTERM, rescan, recheck and GC ticks | send their events |
| Configuration, notification, diagnostics, CLI, D-Bus shim | none that a property is about | | see *Not modelled* |

**Where it is hard.** One thread handles all events, so handlers are atomic to
each other; but what they look at is not. The kernel goes on forking, executing,
exiting, giving orphans to init and reusing pids while events wait in the
channel; a handler reads `/proc` *now* for an event of *then*; a scan lists
the processes at one moment and reads them at others. Three views of the same
processes are kept (table, `managed`, foreground set) and are pruned at
different places. The collection of empty tiers runs on a thread of its own.
The power source travels through a first reading, a polling thread, a mutex and
events, which overlap. Buffers overrun or fill up; a reload may meet a broken
file; a client takes "accepted" for "done"; shutdown waits behind all of it; and
a daemon that is killed leaves processes, tiers and kernel settings behind for
the next instance.

**What makes the parts correct.**

* Table: the edges from parent to child agree with the entries; the first
  original cgroup survives re-insertion; the dead are forgotten.
* Event loop: what clients are shown is what was applied; a process ends up in
  the tier of the program it runs, whatever overtook what; a foreground process
  is not demoted; shutdown is reached.
* Rules: the order of the rules means what it says; the exceptions hold after
  merging; a reload is all or nothing.
* Fork-bomb detector: neither false alarms nor missed bombs at the edges of the
  window; bounded in the middle of a bomb; throttling reaches the children that
  are known; a pid is not watched less because an earlier owner was throttled.
* Monitor: no gaps; blocking loses nothing; a lost event ends the daemon.
* Tiers: the directory that a move needs exists.
* Power and pressure: what is in force follows what the machine says, although
  readings are torn, events late and some files unreadable; what clients are
  shown agrees with itself.
* Restart: processes that an earlier instance left in a tier come under the
  rules again; an orderly stop gives back cgroups and the autogroup setting.

## 2. The modules

    RuleAction ─┬─ RuleEngine ── RuleReload ── MCRuleReload
                └─ ProcessTable ─┬─ Kernel ─┐
                                 └─ Focus ──┴─ Daemon ── DaemonProperties ─┬─ MCDaemon
                                    (with RuleEngine)                      └─ DaemonHistory ── MCDaemonHistory
    Service ─┬─ PowerMonitor ────┬─ Monitors ── MCMonitors
             └─ PressureMonitor ─┘
    ForkBomb            EventStream ◄── ProcMonitor

    proofs: Recursion_proofs ─┬─ RuleReload_proofs, ForkBomb_proofs
                              └─ Daemon_proofs ── DaemonProperties_proofs ── DaemonHistory_proofs
            ProcMonitor_proofs, Monitors_proofs

(an indented module extends those on its left; `◄──` is refinement.)

* **RuleAction** - `rules::Action`, the value that travels from a rule to the
  table. A field is an Option: `None` or a value.
* **RuleEngine** - matching, exceptions, merging, loading order. `RuleLoop` is
  the loop of `classify()` rule by rule, `RulesAction` the closed form the
  daemon model uses; run `MCRuleReload` compares the two. The predicates
  that look at a process's command, executable, uid and so on are members of a
  set of facts: what matters is how they are combined.
* **RuleReload** - an engine, the files it loads one after another, and an
  administrator who edits and breaks them at any moment of it; and the properties of the rules, for any set of processes.
* **ProcessTable** - every operation of the table as an operator on a value.
  A recheck deadline is armed or not; which armed deadlines have passed is a
  choice of the caller.
* **Kernel** - the processes, their cgroups, the announcements, and the channel
  of events. Fork, exec, rename (setuid is handled alike), exit with orphans
  going to init, reaping, reuse of pids. Modelled from how the code uses it.
* **Focus** - the walks over the table: up to the application's root, down to
  its tree, and down a bounded number of levels for the detector.
* **Daemon** - the event loop. State and actions correspond to the code so:

  | variable | code |
  |---|---|
  | `queue`, `proc` | the mpsc channel; the kernel's processes |
  | `table`, `rules`, `startup`, `foreground`, `throttled` | `Daemon::{table, engine, startup_phase}`, `ForegroundTracker::current_pids`, `ForkBombDetector::throttled` |
  | `managed`, `mode` | `SharedState::managed`; `SharedState::mode`, which changes exactly with `last_pressure_level` |
  | `dirs`, `gcLeft` | the tier directories; the tiers thread `cgroup-gc` has still to look at |
  | `todo`, `status` | the loop the event loop is in and what is left of it; running, hung, stopping, stopped, crashed |

  | action | code |
  |---|---|
  | `EndGrace` | the test before `match event`, then a full scan; the event stays in front |
  | `OnFork`, `OnForkBomb`, `OnExec`, `OnComm`, `OnExit` | `handle_proc_event` and `handle_proc_event_startup` |
  | `OnRescan`, `ScanList`, `ScanRead`, `ScanClassify` | `do_full_scan`: listing (which may fail), reading and merging, then one process at a time |
  | `OnRecheck`, `Recheck` | `do_rechecks` |
  | `OnForeground`, `OnPlace`, `OnReload` | `handle_control_cmd`, SIGHUP |
  | `OnPressure`, `OnGc`, `GcTier` | `handle_pressure_change`, `do_gc`, the thread it starts |
  | `OnShutdown`, `Restore`, `Teardown` | `shutdown` and the restore thread, `CgroupManager::teardown` |
  | `Crash`, `Start` | the process is killed between any two steps; `main()` again, whose `setup_hierarchy` makes the tiers that are gone |
  | `ClassifyAndApply` (operator) | `classify_and_apply` with all it calls |

  A handler is one step, except for the loops over many processes, which take a
  step for each, in any order (the code iterates hash maps).
* **DaemonProperties**, **DaemonHistory** - the properties. The history adds to
  each process what it did last (to tell a fork from an exec), the cgroup it came
  from, and how far it is with `ulatencyctl run`; and which tiers were collected.
* **ForkBomb** - the detector with time. In `Daemon` the moment of detection is
  free, so that the two need no common clock: `Daemon` asks what a detection
  does, `ForkBomb` when there is one.
* **EventStream** - the promise of the monitor, in one screen: a stream without
  gaps that may break and then says so. **ProcMonitor** - the five stages that
  implement it, with the refinement mapping (`Stream`). The listener ends with an
  overrun (`Receive`), any other error of recv() (`RecvFails`) or when its channel
  has no receiver; the receiver of the daemon's channel lives until `run()` returns
  (`RunReturns`), so that sends succeed while the daemon stops.
* **Service** - what the monitors share: the phases of an instance from `main()`
  to the end of the process, and the channel. **PowerMonitor** and
  **PressureMonitor** are a producer each with its part of the event loop;
  **Monitors** composes them over instance after instance of the daemon:

  | variable | code |
  |---|---|
  | `supplies`, `stall` | what `/sys/class/power_supply` and `/proc/pressure/memory` say |
  | `reading`, `monitor`, `last`, `latest` | the reading in progress; thread `power-monitor`; its `last`; the `Arc<Mutex<PowerState>>` |
  | `source`, `knobs`, `toWrite` | `Daemon::last_power_source`; the kernel's settings, and those `apply_sched_profile` has yet to write |
  | `autogroup`, `saved` | the kernel's setting; `AutogroupGuard::original_value` |
  | `native`, `spoiled` | history: what the administrator chose; that an exception of `AutogroupReturned` has come about since |
  | `pressure`, `mode`, `level`, `handling` | `SharedState::{pressure, mode}`, `Daemon::last_pressure_level`; between the two locks |

  | action | code |
  |---|---|
  | `Start`, `SpawnMonitor`, `ReadInitial`, `EnterLoop` | `main()`, `spawn_power_monitor`, the lock, the head of `Daemon::run` |
  | `ReadSupply`, `WakeUp`, `Compare`, `SendPower` | `detect_power_state_sysfs` entry by entry; the polling thread |
  | `OnPower`, `WriteKnob` | `Event::Power`, `apply_sched_profile` setting by setting |
  | `Poll`, `SharePressure`, `ChangeMode` | `run_monitor`; `Event::Pressure`; the mode that `handle_pressure_change` sets |
  | `StopLoop`, `PowerStop`, `PowerCrash` | `Event::Shutdown`, the drop of the guard, the death of the process |

### What is abstracted, and why it may be

* In a scan all new processes are read at one instant, after the listing. Their
  reads are independent of each other, and the table changes after the last.
* Nice values, scheduling policies, I/O weights and oom_score_adj have no place
  in `Daemon`: they are written with the cgroup and never read back. Actions
  carry them, so that merging and exceptions are complete.
* `KernelComms` are kernel threads and the daemon's own processes and threads,
  which `classify_and_apply` passes over for different reasons with the same
  effect. `Sandboxed` are commands in a cgroup namespace of their own.
* Fork events of threads (tid different from tgid) are not generated.
* A `SetProcessCgroup` with an unknown tier changes nothing and is not sent.
* The restore thread is cut off at `Teardown`; in the code it may go on for an
  instant after its two seconds.
* What the control socket reads under the mutex is looked at between handlers.
* `Start` cannot fail after it has begun in `Daemon`: a start that fails before
  the event loop is in `Monitors` (`PowerCrash` in an early phase), and in
  `Daemon` it would only leave tiers that the next start makes anyway.
* A crash loses the channel and the table; processes and tiers stay (the unit has
  `Restart=on-failure`, `KillMode=process`). While no instance runs, processes go
  on, unannounced.
* In `Monitors` an event of pressure carries `memory.some_avg10` only, which
  alone decides the level; cpu and io are passed on to clients in the same record.
  The event loop's other events are left out: they take turns with these.

## 3. The runs

All bounds are constants of the modules and named in their cfg: the set of
pids, `MaxQueue` (process events beyond it wait in the kernel), `Programs`,
`Sources` (which producers are active), `TiersUsed` (the tiers that exist),
`Placements` (the moves that clients ask for) and `Readings` (the pressure levels
that occur). Each run of `Daemon`
activates the producers that its question is about.
A producer other than the kernel has one event in the channel at a time: the
tickers' second event finds the same work done, and a client waits for its reply.

| run | question | result |
|---|---|---|
| `MCRuleReload` | two files with up to two rules each, of four kinds; four processes, four ancestries; edits and breaks between the reads of a reload | the loop is its closed form; a final rule hides what is below; exceptions hold after merging; the rules are in order; a reload keeps the old rules or has those of one version of each file, the one on disk for a file that is not touched meanwhile |
| `DaemonExec` | two pids and a channel of two process events, one more event for each producer: forks, execs, exits, reuse, against scans, collections of tiers, client requests, shutdowns, crashes and restarts | types; a moved process can return; **a process that executed after the grace period is at last in the tier of its program**, whatever the order; so is one that a new instance finds at its start; a command of `ulatencyctl run` is in the tier asked for; all three unless the collections removed that tier; an orderly stop brings home every process that only rules have moved, with the exceptions below |
| `DaemonChanges` | two pids: pressure, focus and client requests, execs, exits, rescans, rechecks, vanishing tiers, listings of `/proc` that fail, crashes and restarts | clients are shown what is recorded; the original cgroup is the first; nothing but a detection, a change of the pressure, a client that asks for this process, a rule of the parent for its children and the shutdown takes a foreground process away |
| `DaemonTree` | four pids, so that a bomb's parent has a known child (and that one a child) when a further fork triggers: re-parenting and reuse against scans and detections; `LineageDepth` 1 | the edges are sound; a bomb's root is throttled and with it every child whose Fork was handled, whatever was re-parented and reused before |
| `DaemonLive` | fair scheduling; execs, renames, exits, scans, reloads, a shutdown | the dead are forgotten, although a scan can bring back a zombie after its Exit; a shutdown is carried out |
| `ForkBomb` | threshold 3, a window of 2 ticks, cold after 5, at most 2 forks in a tick | no false alarm, no missed bomb, bounded windows, cold parents are dropped |
| `ProcMonitor` | six events, buffers of two | the chain implements `EventStream`; blocking loses nothing; an overrun, or any other end of the listener, stops the daemon |
| `Monitors` | one mains, one battery, two settings of which one cannot be written; a pressure that is critical, none, or in a file that cannot be read; autogroup at 0 or 1, changed by the administrator between instances, with reads and writes that may fail; crashes and stops in every phase | thread and event loop agree on the power source; the settings follow it at last; the mode agrees with the pressure and both follow the file; autogroup is given back |

**Why the bounds are enough.** Two pids give init and one process whose pid is
reused; more are needed only where related processes and init matter: four
for the tree, since the clause about known children takes init, the bomb, a known
child and the child whose fork triggers. A channel of two process events holds
Exit and Fork, or Fork and Exec, of one pid, so that an event is handled for a
pid that has changed hands; the producers other than the kernel add one each.
`DaemonExec` has one rule, for `cc`, and two of the six tiers, that of the rule and
that of the client: nothing else places a process in this run, and the collection
of a tier that nobody asks for does not show in its properties; the theorems are for
every set of tiers. `DaemonChanges` has the three
tiers of its rules, the focus and the pressure. `DaemonExec` has no rechecks, for its size: they classify again what is
classified, and the theorems about its properties cover them, with channels of any
length. In `DaemonChanges` the channel holds one process event besides those of eight
other producers: the properties are about the order in which handlers run, which
a longer channel does not restrict. Its pressure is `normal` or `critical`, the only levels that
move or release anything; a level in between (`DaemonPressure`) puts off the
release. `DaemonTree` has no collections (`BombContained` fails with them:
`DaemonBombGc`) and no listing of `/proc` that fails, after which no edge is known.
Clients place any process but init, whose move would show nothing that a move of
another does not. `DaemonExec` has no renames: they are handled as execs that
classify less often, and are in `DaemonLive`. The window of the detector is
exercised at ages below, at and above a second, and the collection below, at and
above ten seconds, with a threshold that neither one tick nor one fork reaches.
Buffers of two in the monitor can be empty, half full, full and overrun. In
`Monitors` two power events may wait, so that a newer one is behind an older; one
pressure reading, since each replaces the last.

`CHECK_DEADLOCK FALSE` is set where the model may stop: `DaemonHang` (the event
loop hangs), `DaemonLive` (stopped) and `ProcMonitor` (all events have happened).

**Fairness.** `DaemonLive`: the event loop is a thread that is always runnable
when it has an event, and `RescanTick` comes from a ticker thread that loops
as long as the process lives; nothing is assumed of processes, clients or signals. `ForkBomb`: time
goes on and the GC ticker ticks. `ProcMonitor`: the listener, the forwarding
thread and the event loop are scheduled, and `shutdown()` ends (which `DaemonLive`
shows); nothing is assumed of the kernel or of errors: `AllDelivered` is about a
monitor that has none.
`Monitors`: the main thread, both monitor threads and the event loop are
scheduled, and `sleep()` and `poll()` return (both have timeouts in the code);
nothing is assumed of the machine, of starts, stops and crashes: `ProfileFollows`
and `PressureFollows` are about an instance that runs on, and a machine that
stays as it is. `DeadForgotten` is about a daemon that runs on and a pid that
stays unused.

### What the code does not keep

Four runs check a sentence of a comment and end in a counterexample.

* `DaemonHang` / `NeverHung` - `find_app_root` (focus.rs:175) is said to stop at
  "PID 1 or a cycle"; it stops only at a process that is its own parent. The
  table keeps the old parent of an orphan, so after reuse of pids two entries
  can name each other, and a focus request for one of them never returns.
* `DaemonEarly` / `EarlyExecPlaced` - an exec in the grace period is marked
  classified; the scan that "will reclassify properly" (daemon.rs:310) passes
  over it.
* `DaemonBombGc` / `BombContained` - the collection removes an empty swapstorm
  tier, nothing makes it again before the next start, and a bomb is then
  reported and not moved. (Without collections the same property holds:
  `DaemonTree`.)
* `DaemonPressure` / `PressureReleased` - the processes moved at the critical
  level are given back only when the level falls to normal in one step.

Other places where code and comment part, or where a choice is debatable. They are
conditions of the properties, or stand under the hazards with a note:

* **Tiers that are collected.** main.rs:189 starts the collection unconditionally,
  every ten seconds; it removes each empty tier, nothing makes one again before the
  next start (`setup_hierarchy`, which the comment at cgroupv2/src/lib.rs:209-210
  names, runs at no other time), and a move into a missing tier fails unseen. With
  a grace period of ten or thirty seconds most tiers are gone before the first
  verdict. `LateExecPlaced`, `BootPlaced` and `RunInTier` hold *except for the tiers
  this instance has collected* (`collected`), which in a running daemon is a large
  exception; `DaemonBombGc` is the finding about it.
* **Moves in the grace period.** daemon.rs:87-88 says that none are applied; client
  requests, pressure and detections move processes all the same. No property asks
  for either: `RunInTier` is about requests made after the grace period.
* **Exceptions.** rules/src/lib.rs:230 calls the exempt "processes that must never
  be touched by the daemon"; but `apply_to_children` (daemon.rs:507-513) moves a
  parent's children without asking the list, as do clients, focus requests,
  detections and pressure. `ExceptionsHold` is about verdicts: what `classify()`
  returns for the process itself. The tests at rules/src/lib.rs:613-628 expect that
  children of firefox and pipewire are exempt from moves; the default list
  (261-277) names neither.
* **Overflow.** The sweep after a scan is explained by events dropped in an overflow
  of the kernel's buffer (daemon.rs:577); after such an overflow the daemon does not
  run on but stops (`OverrunStops`).
* **A failed listing of `/proc`** counts as a listing of nothing (scan.rs:83): the
  table is emptied, and what was moved before loses its original cgroup.
* **Heirs.** `insert` keeps the original cgroup of any earlier entry (process_table.rs:43),
  meant for one process's execs; a zombie that was listed after its Exit leaves
  one to the next owner of the pid. `ReturnedHome` excepts these (`Heir`) and no
  other reuse. It excepts as well: what something else than a rule moved
  (`Overridden`), what was moved before its own Fork was handled, and a program
  that no rule moves, which `moved_pids` leaves out.
* **Detections.** The fork that sets one off leaves its child out of table and
  throttling; if its pid was known, the entry of the earlier owner stays, so that
  `MovedCanReturn` is checked without detections. Throttling is lifted after ten
  seconds even if the bomb goes on.
* **Autogroup.** After the crash of an instance the next one saves the "0" that the
  crashed one wrote; a value that cannot be read counts as "1"; a write that gives
  it back may fail. `AutogroupReturned` names the three.
* **Reload.** Files are read one after another: an edit of two files during a reload
  may be seen by halves. `ReloadAllOrNothing` promises one version of each file,
  and the present one only of those that were not touched.
* Children inserted by a scan are classified by their parent's program; earlier
  directories win between equal priorities (rules/src/lib.rs:321 says later ones);
  the result of a cgroup write is not looked at.

## 4. The proofs

TLAPS checks, for every set of pids, every rule set, every bound:

* **Daemon_proofs.** `Invariance`: `Inv == TypeOK /\ EdgesSound /\ ManagedTracked`
  is inductive, one lemma for each action; `TypeCorrect`, `EdgesAlwaysSound` and
  `ManagedAlwaysTracked` follow. `ManagedTracked` is not inductive on its own:
  the loops of scan and recheck classify pids chosen earlier, and `set_applied`
  on a pid that has left the table would show clients an action that no entry
  records. That these loops only go over tracked processes - no other event is
  handled meanwhile - is the part of `TypeOK` about `todo`. Soundness of the
  edges is what makes `remove` and `merge_scan` find every edge to delete.
* **DaemonProperties_proofs.** Four results on what the handlers do to processes.
  - `OriginalStays`: the action property `OriginalIsFirst`. `Keeps(t, u)` says
    that table `u` has the original cgroups of `t`; each operation of the table
    keeps, keeping composes as long as nothing is removed in between, and every
    action of `Next` is one or two operations.
  - `MovedAlwaysReturn`: `MovedCanReturn`, if `"forkbomb"` is not among the
    `Sources`. The invariant `ReturnInv` is about every entry that has an action
    with a tier and no original cgroup (`Homeless`): it may only be there for a
    process that is gone, or whose pid has a new owner whose Fork is in the
    channel. Such an entry arises when `classify_and_apply` finds the process
    dead, and it must vanish before anything else is done for the pid: the
    handler of the Fork inserts the new owner with a clean action. A detection
    swallows that Fork, hence the hypothesis.
  - `ForegroundStays`: `ForegroundNotDemoted`, from the types alone. Its content
    is that of all the ways to a cgroup write only those in `Override` do not ask
    for the foreground set first.
  - `BombsContained`: `BombContained`, if neither `"gc"` nor `"noproc"` is among
    the `Sources` (with collections it is wrong: `DaemonBombGc`; after a failed
    listing no edge is known), the daemon scans when it starts, and
    `LineageDepth` reaches the children. The invariant `BombInv` says of every
    live process with a live parent: the table has the edge from that parent,
    unless the process's Fork is on its way, the parent is throttled already (the
    handler that detects leaves out the child) or is init (which adopts without an
    event). This is kept only because of what the channel holds (`InOrder`): behind
    an Exit or a Fork of a pid that lives again come the Forks of its new owner and
    of that owner's children, so that a handler that removes or overwrites an entry
    for an event of *then* cannot take away an edge of *now*. A scan adds to it:
    what it listed and read includes every process whose Fork is not on its way.
    `SubtreeFound` is the only fact needed of the recursive walk.
* **DaemonHistory_proofs.** Where processes end up, for any number of processes,
  restarts and events: `LateExecsPlaced`, `BootAlwaysPlaced`, `RunsInTier` and
  `HomesReturned`. Their one hypothesis is `PlainRules`: each rule names one
  program, no list has two rules for one program, and nothing is exempt (with other
  rules the verdict depends on the ancestors, whose events come in any order). Both
  runs of `MCDaemonHistory` meet it, and TLC checks that they do. All producers of
  events may be active, collections, reloads, pressure, detections and failing
  listings included: the history gives up a process when one of them decides about
  it (`Overridden`), and a tier when it is collected. What a step of the event loop
  may do to one process is stated once (`Effect`, `Traced`), every handler is shown
  to do no more (`Handled`), and the invariant `PlaceInv` follows from that alone. It
  speaks of tiers that are gone (`Tier \ dirs`), which in the end are among the
  collected ones:
  - `LateInv`: a process that executed late is where the rules want it, and a scan
    under way has it listed; or the Exec is still in the channel. Every Exit for
    its pid, which is the Exit of an earlier owner, has that Exec behind it. So no
    late Exit removes the entry for good, and no scan prunes it.
  - `BootInv`: nothing is announced of a process that was there at the start, so
    that its entry names its program; when it counts as classified, it is placed;
    after the grace period, every scan that is over has listed it and its loop of
    classifications has it done or still to do. A start after a crash has an empty
    table, which is what makes the scan find everything.
  - `RunInv` with `KnownInv`: when the request of a client is behind in the channel,
    the entry names a program without a rule, or the Exec that makes it so comes
    before the request. So no verdict undoes the move.

  The exceptions are in the history, not in hypotheses, and a reader should know
  them: `life`, `run` and `home` give up a process that is or was in the foreground
  set, that a client moves, that is in swapstorm when a detection or a change of the
  pressure happens, that a failed listing passed over, and all of them when the
  rules change.

  `HomesReturned`, the action property `ReturnedHome`, has an invariant of its own,
  `HomesInv`, which uses `PlaceInv`. It follows in the same way from what a handler
  does to the record of one process (`Records`: what is recorded is where the
  process is or was recorded before; rules move nothing that is not recorded then;
  and an entry stops to count as moved only when it is new or names a program
  that no rule moves):
  - `Dormant`: in the grace period nothing is classified.
  - `OrderInv`: a live process loses its entry only to an Exit of an earlier owner of
    its pid or to a scan that began before it, and in both cases its Fork is still to
    come; otherwise the original cgroup would be lost, and the next verdict would
    record the tier as the place to go back to.
  - `HomeInv`: until its Fork is handled a process is where it was born. From then on
    the table has no other cgroup for it to go back to, and it is away from home only
    with an entry that moved it, after the grace period, as a program that a rule
    moves. An entry of an earlier owner with another original cgroup may be there
    until then, and the handler of the Fork would keep it: these are the heirs that
    `home` gives up, at that step and at no other.
  - `StopInv`: `moved_pids()` is computed once, when the Shutdown is handled, while
    processes go on. Who is away from home is on the list, with home as the original
    cgroup, until it is restored.
* **The first part of Daemon_proofs** states once what each operation of the table
  does to types, edges, children and recorded actions and cgroups.
  **Recursion_proofs**: a set of numbers that is not empty has a least one, induction for sets of
  numbers, and that a function defined by recursion up to `N` exists; the walks
  over the table, the sums of the detector and the loops over rules need it.
* **RuleReload_proofs.** For any number of files and any rules in them:
  `RulesTyped` and `RulesInOrder` (the inductive invariant `Loaded`) rest on
  `StableSortSorts`: the rank of a rule counts the rules before it, ranks are
  injective on `1..n` and hence onto, so that there is a rule for each place, and
  a rule of lower priority has a larger rank. `LoopAlwaysComputes` goes by
  `After`, the state of the loop after `i` rules in closed form: `TurnCounts`
  shows that one turn leads from `After(i - 1)` to `After(i)`, and since this
  function solves the recursion, the recursion has a solution and equals it.
  `ExceptionsAlwaysHold` follows from the closed form; it is about the verdict on a
  process, not about what `apply_to_children` does with the verdict on its parent. This licenses the use of
  `RulesAction` in `Daemon` for every rule list. `FinalAlwaysHides`: two lists
  that agree down to a matching rule without `continue` have the same rules that
  count. `ReloadAlwaysWhole`: concatenation and sorting permute, so that each rule
  is loaded as often as the files have it; the permutation that `StableSort`
  applies is its rank, and that of `Concat` is given by the lengths of what
  precedes. `Gathered` carries it through the reads, one file at a time: what was
  read of a file that nobody has touched since is what the file holds.
* **ProcMonitor_proofs.** `TypeCorrect`, and `Refinement`: `Spec => Stream!Spec`
  for buffers of every size. It rests on `ThreadsInv`: a marked overrun means
  that the receive buffer was full and is still as full as it was, a closed
  listener holds nothing, and a closed forwarder means that run() has returned or
  that everything was passed on.
* **Monitors_proofs.** `MonitorsTyped`; then `PowerAgreement`, whose strengthening
  adds the phases before the loop (`latest` is what the monitor saw, also while
  it is about to send) and that events are only on their way while an instance
  runs; `ModeAgreement`, which needs that the level handled last is the level of
  the pressure shared last; `AutogroupIsReturned`, for whichever value the machine
  has: what was saved is that value while the loop runs and what is in force is
  that value at all other times (`AutogroupInv`), until one of the three exceptions
  of the property comes about.
* **ForkBomb_proofs.** `DetectorTyped` and `DetectorBounded`: a window reaches the
  threshold only in the step that throttles its parent, whose forks are not
  recorded from then on. `NoBombMissed` and `NoAlarmFalse` relate the window to
  what really happened: by `WindowInv` a window is in order; for every age up to a
  second it has at most as many forks of at most that age as there were
  (`Genuine`), and for a parent that is not throttled not fewer, as far back as
  the last time gc dropped it (`Complete`). Order is needed because eviction
  counts what is stale and cuts as many from the front.

The library's induction theorems take operators as parameters, which the
provers cannot instantiate. `Induction` in Recursion_proofs is stated for a set
of numbers instead (the least number outside it would have a predecessor), which
is enough for the recursive functions here.

The assumptions are those of the modules: pids are positive and include 1; the
values `None`, tiers and cgroups are what they are named for; the rules in
`RuleSets` and `Contents` have actions of the right type and priorities that are
numbers; the tiers that a handler names exist where the source of its events is
active (`TiersUsed` may leave out the others; the code has all six); the processes
at the start are a tree below init (`BootTreeAssumption`);
mains and batteries are different; the channel of the process monitor
holds at least one event. TLC evaluates them in the runs.

Only model-checked: the liveness properties (`DeadForgotten`, `ShutdownHandled`,
`ColdForgotten`, `AllDelivered`, `OverrunStops`, `ProfileFollows`,
`PressureFollows`), because they and `ENABLED` are out of the prover's reach. Every
invariant and action property of a passing run has a theorem.

The obligations were also discharged with one more rule of caution: tlapm 1.4.5
gives the SMT solver, in every obligation that mentions `Len`, an axiom by which
a value has the length `n` exactly when its domain is `1..n`, which is false of
values that are not sequences. Every leaf was proved a second time with only the
implication that holds.

## 5. Not modelled

* **Threads** (tid different from tgid) in `Kernel`: they are inserted at their
  fork and pruned by the next scan; every instance would have twice its processes.
* **What is applied besides the cgroup**: nice, scheduling policy, I/O weight,
  oom_score_adj. Written once per action and never read back.
* **Limits and controllers of a tier**, the individual timeouts of teardown, two
  collections at a time (one differs from two only in the tier it looks at).
* **Input and output**: parsing of `/proc`, of netlink messages, of rule files and
  of the configuration; the listening socket with its stale file and its
  permissions; errors and interrupts of `poll()` in the psi thread, which end in
  the same reading.
* **Commands that only print** (`status`, `list`, `diagnose`...), the diagnostic
  log, the notifications to the supervisor, the System76 shim (a translation of
  calls) and the unused D-Bus crate: no state that a property could be about.

## 6. Plan

Done: the event loop with its table, rules, kernel, crashes and restarts; the
detector; the process monitor and its refinement; the power and pressure monitors;
`ulatencyctl run`; the proofs above. What is left, in this order:

1. The foreground set: session roots that appear inside an application, and whom
   the set may name after a zombie was listed again.
2. Threads in `Kernel`, in an instance without restarts.
3. The restore thread that runs on beside teardown.
