------------------------------ MODULE MCDaemon ------------------------------
(* Small instances of Daemon: the values of its constants.  Pid 1 is init,  *)
(* a session root; the other processes run "app" or "cc" once they exec.    *)
EXTENDS DaemonProperties

MCGroup == Tier \cup {"session"}
MCValue == Tier \cup {"30"}
MCComm  == {"init", "app", "cc", "tool", "xfce4-session"}
MCRuleName == {"r-app", "r-cc"}
MCFactsOf == [c \in MCComm |-> {c}]
MCEmpty == {}

P(st, ppid, comm, cg) == [st |-> st, ppid |-> ppid, comm |-> comm, cg |-> cg]
MCNobody == P("none", 0, "init", "session")

NoOpt == [f \in Field |-> None]
Rule(name, comm, children, opt) ==
  [priority |-> 50, continue |-> FALSE,
   match  |-> [any |-> {{comm}}, all |-> {}, parent |-> {}, contains |-> None,
               pattern |-> None],
   action |-> [opt |-> opt, children |-> children, rule |-> name]]

AppRule == Rule("r-app", "app", FALSE, [NoOpt EXCEPT !.cgroup = "system"])
CcRule  == Rule("r-cc", "cc", FALSE,
                [NoOpt EXCEPT !.cgroup = "idle", !.recheck_secs = "30"])
MCRuleSets == {<<AppRule, CcRule>>}
MCRuleSetsCc == {<<CcRule>>}

(* The same in fewer tiers.                                                 *)
MCRuleSetsSystem ==
  {<<AppRule, [CcRule EXCEPT !.action.opt.cgroup = "system"]>>}

(* A reload may find the rule of "cc" gone.                                 *)
MCRuleSetsTwo == {<<AppRule, CcRule>>, <<AppRule>>}

(* Clients place any process but init.                                      *)
MCPlaceRt   == [pid: Pid \ {1}, tier: {"rt"}]
MCPlaceSwap == [pid: Pid \ {1}, tier: {"swapstorm"}]

(* Only init runs; or init and one more process.                            *)
MCBoot == [p \in Pid |-> IF p = 1 THEN P("alive", 0, "init", "session") ELSE MCNobody]
MCBootApp == [p \in Pid |-> IF p = 1 THEN P("alive", 0, "init", "session")
                            ELSE IF p = 2 THEN P("alive", 1, "app", "session")
                            ELSE MCNobody]
=============================================================================
