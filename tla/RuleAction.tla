----------------------------- MODULE RuleAction -----------------------------
(***************************************************************************)
(* The value that travels through the whole daemon: rules::Action, what a  *)
(* rule asks to be done to a process (crates/rules/src/lib.rs).  Every     *)
(* field of "opt" is an Option.                                            *)
(***************************************************************************)
CONSTANTS None,      \* an absent Option
          Value,     \* the values a field can hold
          RuleName

Field == {"cgroup", "nice", "sched_policy", "sched_priority",
          "oom_score_adj", "io_weight", "recheck_secs"}

Action == [opt: [Field -> Value \cup {None}], children: BOOLEAN, rule: RuleName]

ASSUME NoneAssumption == None \notin Value /\ None \notin Action
=============================================================================
