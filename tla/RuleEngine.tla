----------------------------- MODULE RuleEngine -----------------------------
(***************************************************************************)
(* The rule engine of crates/rules/src/lib.rs: how the rules of several    *)
(* directories become one ordered list, when a rule matches a process, and *)
(* which action the matching rules give it.                                *)
(*                                                                         *)
(* A process is [comm, facts, kthread, rt, path].  "facts" stands for      *)
(* everything the predicates test one by one: the command and its          *)
(* prefixes, pieces of the command line, the executable, the uid, uid and  *)
(* thread and memory thresholds, environment variables.                    *)
(***************************************************************************)
EXTENDS Integers, Sequences, FiniteSets, RuleAction

CONSTANTS FullyExempt, NoCgroupMove, AncestorNames  \* ExceptionList: sets of commands

(* The fields that make an action worth applying.                           *)
Effective == Field \ {"sched_priority", "recheck_secs"}

First(S) == CHOOSE i \in S : \A j \in S : i <= j

-----------------------------------------------------------------------------
(* Matching.  A matcher is a record                                         *)
(*   any     : the non-empty list predicates (comm, comm_prefix, exe_path,   *)
(*             cmdline_contains, uid): one member of each list must hold     *)
(*   all     : the predicates that must all hold (bounds, env_set)           *)
(*   parent  : parent_comm, {} when the rule has none                        *)
(*   contains: the paths cgroup_path_contains accepts, or None               *)
(*   pattern : the paths the glob or exact cgroup_path accepts, or None      *)
Matches(m, proc, parent) ==
  /\ \A alternatives \in m.any : alternatives \cap proc.facts # {}
  /\ m.all \subseteq proc.facts
  /\ m.parent # {} => parent \in m.parent
  /\ IF proc.path = None
       THEN m.pattern = None
       ELSE /\ m.contains # None => proc.path \in m.contains
            /\ m.pattern # None => proc.path \in m.pattern

IsExempt(proc, ancestors) ==
  \/ proc.comm \in FullyExempt
  \/ \E i \in DOMAIN ancestors : ancestors[i] \in AncestorNames

(* A bug to detect: what runs below an exempt command is not exempt.        *)
IsCgroupExemptItself(proc, ancestors) == proc.comm \in NoCgroupMove

IsCgroupExempt(proc, ancestors) ==
  \/ proc.comm \in NoCgroupMove
  \/ \E i \in DOMAIN ancestors : ancestors[i] \in NoCgroupMove

(* What classify() takes out of a matching rule's action.                   *)
Censored(opt, proc, ancestors) ==
  [f \in Field |->
     IF \/ f = "cgroup" /\ IsCgroupExempt(proc, ancestors)
        \/ f = "sched_policy" /\ proc.rt /\ opt[f] = "normal"
     THEN None ELSE opt[f]]

Parent(ancestors) == IF ancestors = <<>> THEN "" ELSE ancestors[1]

(* A bug to detect: the later rule wins.                                    *)
MergeOver(dst, src) ==
  [dst EXCEPT !.opt = [f \in Field |-> IF src.opt[f] # None THEN src.opt[f]
                                                            ELSE dst.opt[f]]]

(* merge_action: dst keeps every field it has.                              *)
MergeAction(dst, src) ==
  [dst EXCEPT !.opt = [f \in Field |-> IF dst.opt[f] # None THEN dst.opt[f]
                                                            ELSE src.opt[f]]]

(* One turn of the rule loop of classify().                                 *)
Visit(rule, proc, ancestors, s) ==
  LET action == [rule.action EXCEPT !.opt = Censored(@, proc, ancestors)] IN
  IF s.stop \/ ~Matches(rule.match, proc, Parent(ancestors)) THEN s
  ELSE [result |-> IF s.result = None THEN action ELSE MergeAction(s.result, action),
        stop   |-> ~rule.continue]

RuleLoop(rules, proc, ancestors) ==
  LET run[i \in 0..Len(rules)] ==
        IF i = 0 THEN [result |-> None, stop |-> FALSE]
                 ELSE Visit(rules[i], proc, ancestors, run[i - 1])
  IN  run[Len(rules)].result

(* A bug to detect: a rule without "continue" does not stop the search.     *)
UsedRulesNoStop(rules, proc, ancestors) ==
  {i \in DOMAIN rules : Matches(rules[i].match, proc, Parent(ancestors))}

(* The same in closed form.  The rules that count are the matching ones up  *)
(* to the first without "continue"; each field comes from the first of them *)
(* that sets it; the name and apply_to_children come from the first of all. *)
UsedRules(rules, proc, ancestors) ==
  LET hits == {i \in DOMAIN rules : Matches(rules[i].match, proc, Parent(ancestors))}
  IN  {i \in hits : \A j \in hits : j < i => rules[j].continue}

RulesAction(rules, proc, ancestors) ==
  LET used   == UsedRules(rules, proc, ancestors)
      opt(i) == Censored(rules[i].action.opt, proc, ancestors)
      field(f) == LET set == {i \in used : opt(i)[f] # None}
                  IN  IF set = {} THEN None ELSE opt(First(set))[f]
  IN  IF used = {} THEN None
      ELSE [rules[First(used)].action EXCEPT !.opt = [f \in Field |-> field(f)]]

Classify(rules, proc, ancestors) ==
  LET a == RulesAction(rules, proc, ancestors)
  IN  IF \/ proc.kthread
         \/ IsExempt(proc, ancestors)
         \/ a = None
         \/ \A f \in Effective : a.opt[f] = None
      THEN None ELSE a

-----------------------------------------------------------------------------
(* load_rules: the files of every directory in turn, each rule with its     *)
(* priority, then a stable sort by descending priority.                     *)
Concat(dirs) ==
  LET upto[d \in 0..Len(dirs)] == IF d = 0 THEN <<>> ELSE upto[d - 1] \o dirs[d]
  IN  upto[Len(dirs)]

(* A bug to detect: the comparison of the sort the wrong way round.         *)
StableSortAscending(s) ==
  LET before(i, j) == \/ s[i].priority < s[j].priority
                      \/ s[i].priority = s[j].priority /\ i <= j
      rank(j) == Cardinality({i \in DOMAIN s : before(i, j)})
  IN  [k \in DOMAIN s |-> s[CHOOSE j \in DOMAIN s : rank(j) = k]]

StableSort(s) ==
  LET before(i, j) == \/ s[i].priority > s[j].priority
                      \/ s[i].priority = s[j].priority /\ i <= j
      rank(j) == Cardinality({i \in DOMAIN s : before(i, j)})
  IN  [k \in DOMAIN s |-> s[CHOOSE j \in DOMAIN s : rank(j) = k]]

(* A bug to detect: the priorities of the files are replaced by the order   *)
(* of the directories.                                                      *)
LoadRulesByDirectory(dirs) ==
  StableSort(Concat([d \in DOMAIN dirs |->
                       [i \in DOMAIN dirs[d] |-> [dirs[d][i] EXCEPT !.priority = d]]]))

LoadRules(dirs) == StableSort(Concat(dirs))
=============================================================================
