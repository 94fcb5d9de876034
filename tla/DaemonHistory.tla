--------------------------- MODULE DaemonHistory ----------------------------
(***************************************************************************)
(* Module Daemon with a history of each process, for the properties that   *)
(* tell a process that only forked from one that executed its program, and *)
(* one that the rules place from one that something else has placed.       *)
(***************************************************************************)
EXTENDS DaemonProperties

(* life: what the current owner of a pid did last.  It is there since the   *)
(* daemon started ("boot"), "forked", executed a program "early" (in the    *)
(* grace period) or "late", or took another name or was overridden, which   *)
(* is "other".                                                              *)
(* home: the cgroup it was in when the daemon started or, later, when it    *)
(* was created; None once it was overridden, moved before its creation was  *)
(* handled, heir to an earlier owner of its pid, or a program that no rule  *)
(* moves.                                                                   *)
(* run: what a process is that called `ulatencyctl run` after the grace     *)
(* period: it "asked" for the tier and has the reply, or it "runs" the      *)
(* command since; "no" otherwise.                                           *)
(* collected: the tiers that the collections of this instance removed.      *)
VARIABLES life, home, run, collected

Announced(type, p) ==
  /\ queue' # <<>> /\ Len(queue') = Len(queue) + 1
  /\ queue'[Len(queue')].type = type
  /\ queue'[Len(queue')].pid = p

NoRun == [state |-> "no", tier |-> None]

HInit ==
  /\ Init
  /\ life = [p \in Pid |-> "boot"] /\ home = [p \in Pid |-> Boot[p].cg]
  /\ run = [p \in Pid |-> NoRun] /\ collected = {}

(* No rule names this program.                                              *)
Unruled(comm) == \A i \in DOMAIN rules : {comm} \notin rules[i].match.any

(* No rule for this program moves it.                                       *)
Unmoved(comm) ==
  \A i \in DOMAIN rules :
     rules[i].match.any = {{comm}} => rules[i].action.opt.cgroup = None

(* A listing of /proc that fails passes over the live.                      *)
Missed(p) == todo.kind = "list" /\ todo'.kind = "read" /\ Alive(p) /\ p \notin todo'.pids

(* Something else than the rules of the running instance decides about p:   *)
(* the rules change, p is in the foreground, a client has it moved, it is   *)
(* in swapstorm when a fork bomb is found or the pressure changes, or the   *)
(* daemon takes it for gone.                                                *)
Overridden(p) ==
  \/ rules' # rules
  \/ p \in foreground \cup foreground'
  \/ Placed(p) /\ proc'[p].cg # proc[p].cg
  \/ (~(throttled' \subseteq throttled) \/ mode' # mode) /\ proc'[p].cg = "swapstorm"
  \/ Missed(p)

(* The event loop has handled the last fork of p, and what it knows of p is *)
(* inherited: insert() keeps the original cgroup of an earlier owner of the *)
(* pid whose entry was still there (a zombie that a scan listed after its   *)
(* Exit), and a detection that the fork sets off leaves all of the entry.   *)
Heir(p) ==
  /\ Forked(p) /\ ~Forked(p)' /\ p \in Tracked(table)
  /\ table.entries[p].orig # None \/ ~(throttled' \subseteq throttled)

Live(p) ==
  IF ~Up' \/ proc'[p].st = "none" THEN "boot"
  ELSE IF Up /\ Overridden(p) THEN "other"
  ELSE IF Announced("Fork", p) THEN "forked"
  ELSE IF Announced("Exec", p) THEN (IF startup THEN "early" ELSE "late")
  ELSE IF Announced("Comm", p) THEN "other"
  ELSE life[p]

Home(p) ==
  IF ~Up' \/ proc'[p].st = "none" THEN proc'[p].cg
  ELSE IF \/ Up /\ Overridden(p)
          \/ Heir(p) \/ (Forked(p) /\ proc'[p].cg # proc[p].cg)
          \/ (Announced("Exec", p) \/ Announced("Comm", p)) /\ Unmoved(proc'[p].comm)
       THEN None
  ELSE IF Announced("Fork", p) THEN proc'[p].cg
  ELSE home[p]

(* cmd_run: the client asks for a tier for its own pid, has the reply as    *)
(* soon as the request is on the channel, and executes the command.         *)
Ran(p) ==
  IF \/ ~Up' \/ proc'[p].st # "alive" \/ Announced("Fork", p) \/ Announced("Comm", p)
     \/ Up /\ Overridden(p) /\ ~Placed(p)
  THEN NoRun
  ELSE IF Announced("Place", p) THEN
    [state |-> IF life[p] \in {"early", "late"} /\ ~startup /\ Unruled(proc[p].comm)
                 THEN "asked" ELSE "no",
     tier  |-> queue'[Len(queue')].tier]
  ELSE IF Announced("Exec", p) THEN
    (IF run[p].state = "asked" /\ Unruled(proc'[p].comm) THEN [run[p] EXCEPT !.state = "runs"]
                                                          ELSE NoRun)
  ELSE run[p]

HNext ==
  /\ Next
  /\ life' = [p \in Pid |-> Live(p)]
  /\ home' = [p \in Pid |-> Home(p)]
  /\ run' = [p \in Pid |-> Ran(p)]
  /\ collected' = IF Up' THEN collected \cup (dirs \ dirs') ELSE {}

hvars == <<vars, life, home, run, collected>>

HSpec == HInit /\ [][HNext]_hvars

-----------------------------------------------------------------------------
(* Under which rules the places are certain.                                *)

(* A rule that names one program and nothing else, and moves only that.     *)
PlainRule(r) ==
  /\ \E c \in Comm : r.match.any = {{c}}
  /\ r.match.all = {} /\ r.match.parent = {}
  /\ r.match.contains = None /\ r.match.pattern = None
  /\ ~r.action.children /\ r.action.opt.cgroup \in Tier \cup {None}

(* No list has two rules for one program, nothing is exempt, and a program  *)
(* is not taken for another.                                                *)
PlainRules ==
  /\ FullyExempt = {} /\ AncestorNames = {} /\ NoCgroupMove = {}
  /\ KernelComms = {} /\ Sandboxed = {}
  /\ \A c \in Comm : FactsOf[c] \cap Comm = {c}
  /\ \A rs \in RuleSets : \A i \in DOMAIN rs :
        /\ PlainRule(rs[i])
        /\ \A j \in DOMAIN rs : rs[j].match.any = rs[i].match.any => j = i

-----------------------------------------------------------------------------
(* Process p is where the rule for the program it runs says, unless a       *)
(* collection of this instance took the tier away: the write then fails and *)
(* the process stays where it was.                                          *)
Settled(p) ==
  /\ p \in Tracked(table) /\ table.entries[p].info.comm = proc[p].comm
  /\ \A i \in DOMAIN rules :
       LET r == rules[i] IN
       r.match.any = {{proc[p].comm}} /\ r.action.opt.cgroup # None
         => proc[p].cg = r.action.opt.cgroup \/ r.action.opt.cgroup \in collected

(* Every process that executes a program after the grace period, and that   *)
(* nothing has overridden since, ends up in the tier that the rules give    *)
(* this program, whatever the order of scans, rechecks, exits, pid reuse    *)
(* and late events: once the channel is empty, it is where its current      *)
(* program belongs, unless the collections have removed this tier.          *)
LateExecPlaced ==
  Quiet => \A p \in Pid : Alive(p) /\ life[p] = "late" => Settled(p)

(* A daemon that starts again, after a crash or a stop, finds processes in  *)
(* the tiers where the last one left them, and tiers that are gone: once    *)
(* the grace period is over and a scan has been made, each of them that     *)
(* nothing has overridden is where the rules of this instance want it,      *)
(* unless this instance has itself collected the tier in the meantime.      *)
BootPlaced ==
  Quiet /\ ~startup => \A p \in Pid : Alive(p) /\ life[p] = "boot" => Settled(p)

(* An orderly stop that is not cut short puts every process back to the     *)
(* cgroup it was in before the daemon moved it, through any sequence of     *)
(* execs, scans, rechecks, late exits and pid reuse.  Excepted are those    *)
(* that something else than a rule moved (Overridden), that were moved      *)
(* before their own fork was handled, by what an earlier owner of the pid   *)
(* left, or are Heir to it, that have become a program that no rule moves,  *)
(* since moved_pids() names only processes whose last verdict was to move   *)
(* them, and those that came from a tier that was collected.                *)
ReturnedHome ==
  [][status = "stopping" /\ status' = "stopped" /\ todo.pids = {} =>
       \A p \in Pid :
         Alive(p) /\ ~Pending(p) /\ home[p] \notin {None} \cup collected
           => proc[p].cg = home[p]]_hvars

(* `ulatencyctl run` executes its command when its request is accepted, not  *)
(* when it is carried out.  A command that no rule names, asked for after   *)
(* the grace period, is in its tier all the same unless that was collected: *)
(* no event or scan that was on its way before, and no pid that is used     *)
(* again, undoes the move, as long as nothing overrides it.                 *)
RunInTier ==
  Quiet => \A p \in Pid :
    run[p].state = "runs" => proc[p].cg = run[p].tier \/ run[p].tier \in collected

-----------------------------------------------------------------------------
(* Claims of comments that the code does not keep.                          *)

(* daemon.rs, handle_proc_event_startup: what executes during the grace     *)
(* period is classified by the full scan that ends it.                      *)
EarlyExecPlaced ==
  Quiet /\ ~startup => \A p \in Pid : Alive(p) /\ life[p] = "early" => Settled(p)
=============================================================================
