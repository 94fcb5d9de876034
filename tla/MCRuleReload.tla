---------------------------- MODULE MCRuleReload ----------------------------
(* Small instances of RuleReload: two files, rules over the facts of three   *)
(* kinds of process.                                                        *)
EXTENDS RuleReload

NoOpt == [f \in Field |-> None]
Rule(name, prio, any, parent, cont, contains, kids, opt) ==
  [priority |-> prio, continue |-> cont,
   match  |-> [any |-> any, all |-> {}, parent |-> parent,
               contains |-> contains, pattern |-> None],
   action |-> [opt |-> opt, children |-> kids, rule |-> name]]

(* A user-wide tier rule, one for a single program that only tunes it and   *)
(* lets others speak, one for the children of a compositor, and a late one. *)
MCRules == {
  Rule("wide", 50, {{"user"}}, {}, FALSE, None, FALSE,
       [NoOpt EXCEPT !.cgroup = "system", !.sched_policy = "normal"]),
  Rule("tune", 60, {{"make"}, {"user", "root"}}, {}, TRUE, None, TRUE,
       [NoOpt EXCEPT !.nice = "5"]),
  Rule("again", 55, {{"make"}}, {}, FALSE, {"/user.slice"}, TRUE,
       [NoOpt EXCEPT !.cgroup = "idle", !.nice = "9"]),
  Rule("kids", 50, {}, {"sway"}, TRUE, None, FALSE,
       [NoOpt EXCEPT !.recheck_secs = "30", !.sched_policy = "batch"]) }

Named(n) == CHOOSE r \in MCRules : r.action.rule = n
MCContents == {<<>>, <<Named("wide")>>, <<Named("again"), Named("kids")>>,
               <<Named("wide"), Named("tune")>>}

Proc(comm, facts, rt, path) ==
  [comm |-> comm, facts |-> facts, kthread |-> FALSE, rt |-> rt, path |-> path]
MCValue == {"system", "idle", "normal", "batch", "5", "9", "30"}
MCRuleName == {"wide", "tune", "again", "kids"}
MCProcs == { Proc("make", {"make", "user"}, FALSE, "/user.slice"),
             Proc("make", {"make", "root"}, TRUE, None),
             Proc("sway", {"sway", "user"}, TRUE, "/user.slice"),
             Proc("chrt", {"chrt", "user"}, FALSE, "/user.slice") }
MCAncestors == {<<>>, <<"sway">>, <<"bash", "sway">>, <<"bash", "chrt">>}

MCFullyExempt == {"chrt"}
MCNoCgroupMove == {"sway"}
=============================================================================
