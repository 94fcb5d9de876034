------------------------ MODULE DaemonHistory_proofs ------------------------
(***************************************************************************)
(* Where processes end up, for any number of processes, any rules that     *)
(* name one program each, and all that the daemon and the world around it  *)
(* do: what executes late and what was there before the daemon is where    *)
(* the rules want it, what `ulatencyctl run` started is where its client   *)
(* wanted it, and what was moved is back where it came from when the       *)
(* daemon has stopped, but for the exceptions that DaemonHistory names.    *)
(***************************************************************************)
EXTENDS DaemonHistory, DaemonProperties_proofs

(* Cgroup g is where the rules want a process that runs c, or they want it  *)
(* where no process can go any more.                                        *)
Right(c, g) ==
  \A i \in DOMAIN rules :
     LET r == rules[i] IN
     r.match.any = {{c}} /\ r.action.opt.cgroup # None
       => g = r.action.opt.cgroup \/ r.action.opt.cgroup \notin dirs

(* Settled, with the tiers that are gone for those that were collected.     *)
InPlace(p) ==
  /\ p \in Tracked(table) /\ table.entries[p].info.comm = proc[p].comm
  /\ Right(proc[p].comm, proc[p].cg)

-----------------------------------------------------------------------------
(* What such rules answer.                                                  *)

(* What the rules see of a process that runs c in cgroup g.                 *)
Seen(c, g) == [comm |-> c, facts |-> FactsOf[c], kthread |-> FALSE, rt |-> FALSE, path |-> g]

(* a is what the rules rs may answer for c: nothing if no rule names c, and *)
(* the cgroup of the rule that does, if it has one.                         *)
Answers(rs, c, a) ==
  /\ (\A i \in DOMAIN rs : {c} \notin rs[i].match.any) => a = None
  /\ a # None => ~a.children /\ a.opt.cgroup \in Tier \cup {None}
  /\ \A i \in DOMAIN rs :
        rs[i].match.any = {{c}} /\ rs[i].action.opt.cgroup # None
          => a # None /\ a.opt.cgroup = rs[i].action.opt.cgroup
  /\ a # None /\ a.opt.cgroup # None =>
        \E i \in DOMAIN rs : rs[i].match.any = {{c}} /\ rs[i].action.opt.cgroup # None

LEMMA PlainMatch ==
  ASSUME PlainRules, NEW rs \in RuleSets, NEW i \in DOMAIN rs, NEW c \in Comm,
         NEW g \in Group, NEW parent
  PROVE  /\ Matches(rs[i].match, Seen(c, g), parent) <=> rs[i].match.any = {{c}}
         /\ {c} \in rs[i].match.any <=> rs[i].match.any = {{c}}
<1> DEFINE who == Seen(c, g)
<1>1. PICK d \in Comm : rs[i].match.any = {{d}}
  BY DEF PlainRules, PlainRule
<1>2. /\ rs[i].match.all = {} /\ rs[i].match.parent = {}
      /\ rs[i].match.contains = None /\ rs[i].match.pattern = None
  BY DEF PlainRules, PlainRule
<1>3. who.facts = FactsOf[c] /\ who.path # None
  BY GroupAssumption DEF Seen
<1> HIDE DEF who
<1>4. {d} \cap FactsOf[c] # {} <=> c = d
  <2>1. FactsOf[c] \cap Comm = {c}
    BY DEF PlainRules
  <2> QED BY <2>1
<1>5. Matches(rs[i].match, who, parent) <=> c = d
  <2> DEFINE m == rs[i].match
             any == m.any
  <2>1. (\A alternatives \in any : alternatives \cap who.facts # {}) <=> c = d
    <3> HIDE DEF any
    <3>1. any = {{d}}
      BY <1>1 DEF any
    <3> QED BY <1>3, <1>4, <3>1
  <2>2. m.all \subseteq who.facts /\ m.parent = {} /\ m.contains = None /\ m.pattern = None
    BY <1>2
  <2> HIDE DEF m
  <2> QED BY <1>3, <2>1, <2>2 DEF Matches, m
<1>6. ({c} \in {{d}} <=> c = d) /\ ({{d}} = {{c}} <=> c = d)
  <2>1. \A x, y : {x} = {y} => x = y
    OBVIOUS
  <2> QED BY <2>1, Zenon
<1> QED BY <1>1, <1>5, <1>6 DEF who

LEMMA PlainClassify ==
  ASSUME PlainRules, NEW rs \in RuleSets, NEW c \in Comm, NEW g \in Group, NEW above
  PROVE  Answers(rs, c, Classify(rs, Seen(c, g), above))
<1> DEFINE who == Seen(c, g)
           a == Classify(rs, who, above)
           act == RulesAction(rs, who, above)
           used == UsedRules(rs, who, above)
           hits == {i \in DOMAIN rs : rs[i].match.any = {{c}}}
<1>1. DOMAIN rs \subseteq Nat /\ \A i \in DOMAIN rs : rs[i].action \in Action
  BY RuleSetsAssumption
<1>2. \A i \in DOMAIN rs : Matches(rs[i].match, who, Parent(above)) <=> i \in hits
  <2> SUFFICES ASSUME NEW i \in DOMAIN rs
               PROVE  Matches(rs[i].match, who, Parent(above)) <=> rs[i].match.any = {{c}}
    OBVIOUS
  <2> QED BY PlainMatch
<1>3. \A i, j \in hits : i = j
  BY DEF PlainRules
<1>4. used = hits
  <2> DEFINE found == {i \in DOMAIN rs : Matches(rs[i].match, who, Parent(above))}
  <2>1. found = hits
    BY <1>2
  <2>2. used = {i \in found : \A j \in found : j < i => rs[j].continue}
    BY DEF UsedRules
  <2>3. \A i, j \in hits : ~(j < i)
    BY <1>1, <1>3
  <2> HIDE DEF hits, found, used
  <2> QED BY <2>1, <2>2, <2>3
<1>5. ~IsExempt(who, above) /\ ~who.kthread
  BY DEF IsExempt, PlainRules, Seen
<1>6. a = IF act = None \/ \A f \in Effective : act.opt[f] = None THEN None ELSE act
  BY <1>5 DEF Classify
<1>7. CASE hits = {}
  <2>1. act = None
    BY <1>4, <1>7 DEF RulesAction
  <2>2. a = None
    BY <1>6, <2>1
  <2>3. \A i \in DOMAIN rs : rs[i].match.any # {{c}}
    BY <1>7
  <2> HIDE DEF a
  <2> QED BY <2>2, <2>3 DEF Answers, a
<1>8. CASE hits # {}
  <2>1. PICK i \in DOMAIN rs : hits = {i} /\ rs[i].match.any = {{c}}
    <3>1. PICK i \in hits : TRUE
      BY <1>8
    <3>2. hits = {i}
      <4> HIDE DEF hits
      <4> QED BY <1>3, <3>1
    <3> QED BY <3>1, <3>2
  <2>2. act \in Action /\ act # None
    <3> HIDE DEF hits
    <3> QED BY <1>1, <1>4, <1>8, ClassifyType, NoneAssumption
  <2>3. First({i}) = i
    BY <1>1, <2>1, FirstIn
  <2>4. act.children = rs[i].action.children /\ act.opt.cgroup = rs[i].action.opt.cgroup
    <3> DEFINE opt(k) == Censored(rs[k].action.opt, who, above)
               set(f) == {k \in {i} : opt(k)[f] # None}
               field(f) == IF set(f) = {} THEN None ELSE opt(First(set(f)))[f]
    <3>1. act = [rs[i].action EXCEPT !.opt = [f \in Field |-> field(f)]]
      BY <1>4, <2>1, <2>3 DEF RulesAction
    <3>2. rs[i].action \in Action
      BY <1>1
    <3>3. act.children = rs[i].action.children /\ act.opt = [f \in Field |-> field(f)]
      <4> DEFINE F == [f \in Field |-> field(f)]
      <4> HIDE DEF F
      <4>1. act = [rs[i].action EXCEPT !.opt = F]
        BY <3>1 DEF F
      <4>2. act.children = rs[i].action.children /\ act.opt = F
        BY <3>2, <4>1 DEF Action
      <4> QED BY <4>2 DEF F
    <3>4. "cgroup" \in Field
      BY DEF Field
    <3>5. opt(i)["cgroup"] = rs[i].action.opt["cgroup"]
      BY <3>4 DEF Censored, IsCgroupExempt, PlainRules
    <3>6. field("cgroup") = opt(i)["cgroup"]
      <4>1. CASE opt(i)["cgroup"] = None
        BY <4>1
      <4>2. CASE opt(i)["cgroup"] # None
        <5>1. set("cgroup") = {i}
          BY <4>2
        <5> QED BY <2>3, <5>1
      <4> QED BY <4>1, <4>2
    <3> HIDE DEF field
    <3>7. act.opt["cgroup"] = field("cgroup")
      BY <3>3, <3>4
    <3> QED BY <3>3, <3>5, <3>6, <3>7
  <2>5. PlainRule(rs[i])
    BY DEF PlainRules
  <2>6. act.opt.cgroup # None => a = act
    <3>1. "cgroup" \in Effective
      BY DEF Effective, Field
    <3> QED BY <1>6, <2>2, <3>1
  <2>7. a # None => a = act
    BY <1>6
  <2> HIDE DEF a, act
  <2>8. {c} \in rs[i].match.any
    BY <2>1
  <2>9. \A k \in DOMAIN rs : rs[k].match.any = {{c}} => k = i
    BY <2>1
  <2>10. ~(\A k \in DOMAIN rs : {c} \notin rs[k].match.any)
    BY <2>8
  <2>11. a # None => ~a.children /\ a.opt.cgroup \in Tier \cup {None}
    BY <2>4, <2>5, <2>7 DEF PlainRule
  <2>12. rs[i].action.opt.cgroup # None => a # None /\ a.opt.cgroup = rs[i].action.opt.cgroup
    BY <2>2, <2>4, <2>6
  <2>13. a # None /\ a.opt.cgroup # None =>
           rs[i].match.any = {{c}} /\ rs[i].action.opt.cgroup # None
    BY <2>1, <2>4, <2>7
  <2> QED BY <2>9, <2>10, <2>11, <2>12, <2>13 DEF Answers, a
<1> QED BY <1>7, <1>8

LEMMA PlainVerdict ==
  ASSUME PlainRules, rules \in RuleSets, NEW t, IsTable(t),
         NEW p \in Tracked(t), p \notin foreground
  PROVE  Answers(rules, t.entries[p].info.comm, Verdict(t, p))
<1> DEFINE info == t.entries[p].info
           above == AncestorComms(t, p, AncestorDepth)
<1>1. t.entries[p] \in Entry
  BY DEF IsTable, IsMap, Tracked
<1>2. info \in Info
  BY <1>1 DEF Entry
<1>3. info.comm \in Comm /\ info.path \in Group
  BY <1>2 DEF Info
<1>4. Verdict(t, p) = Classify(rules, Seen(info.comm, info.path), above)
  BY DEF Verdict, PlainRules, Seen
<1> HIDE DEF above, info
<1>5. Answers(rules, info.comm, Classify(rules, Seen(info.comm, info.path), above))
  BY <1>3, PlainClassify
<1> QED BY <1>4, <1>5 DEF info

-----------------------------------------------------------------------------
(* What one step of the event loop does to one process.                     *)

(* The event loop takes an event of this type about p.                      *)
Hears(type, p) ==
  queue # <<>> /\ queue' = Tail(queue) /\ Front.type = type /\ Front.pid = p

(* Something else than the rules decides about p, and not its client.       *)
Aside(p) == Overridden(p) /\ ~Placed(p)

LEMMA PlacedHears == \A p : Placed(p) <=> Hears("Place", p)
  BY DEF Placed, Hears

(* What a step does to a process as far as it is not aside: an entry only   *)
(* ever gets the name its process has now; a process is only moved to where *)
(* a client or the rule for the name in its entry wants it; and an entry    *)
(* only goes with the process, or with news of its end.                     *)
Ordered(p) ==
  LET was == p \in Tracked(table)
      is  == p \in Tracked(table')
      old == table.entries[p]
      new == table'.entries[p]
  IN  /\ is => \/ was /\ new.info.comm = old.info.comm
               \/ new.info.comm = proc[p].comm
      /\ proc'[p].cg # proc[p].cg => Placed(p) \/ (is /\ ~Unruled(new.info.comm))
      /\ is /\ Alive(p) /\ new.info.comm = proc[p].comm =>
           /\ proc'[p].cg # proc[p].cg => Placed(p) \/ Right(proc[p].comm, proc'[p].cg)
           /\ new.classified => \/ Right(proc[p].comm, proc'[p].cg)
                                \/ was /\ old.classified /\ proc'[p].cg = proc[p].cg
                                \/ Placed(p) /\ proc'[p].cg # proc[p].cg
                                \/ Hears("Fork", p) \/ Hears("Exec", p)
      /\ was /\ is /\ old.classified => new.classified
      /\ was /\ ~is => \/ Hears("Exit", p) \/ ~Exists(p)
                       \/ todo.kind = "read" /\ p \notin todo.pids
      /\ Hears("Exec", p) /\ Exists(p) =>
           /\ is /\ new.info.comm = proc[p].comm
           /\ ~startup /\ Alive(p) => Right(proc[p].comm, proc'[p].cg)

Effect(p) ==
  /\ proc'[p].st = proc[p].st /\ proc'[p].comm = proc[p].comm
  /\ Aside(p) \/ (rules' = rules /\ Ordered(p))

(* What is true of the state at every step.                                 *)
Ruled == TypeOK /\ PlainRules

(* Nothing happens to p, or it is aside.                                    *)
Untouched(p) ==
  /\ proc'[p].st = proc[p].st /\ proc'[p].comm = proc[p].comm
  /\ Aside(p) \/ (rules' = rules /\ proc'[p].cg = proc[p].cg)

LEMMA StillUntouched ==
  ASSUME proc' = proc, rules' = rules PROVE \A p : Untouched(p)
  BY DEF Untouched

LEMMA SameEffect ==
  ASSUME NEW p \in Pid, Untouched(p), ~(Hears("Exec", p) /\ Exists(p)),
         Aside(p) \/ /\ p \in Tracked(table') <=> p \in Tracked(table)
                     /\ p \in Tracked(table) => table'.entries[p] = table.entries[p]
  PROVE  Effect(p)
  BY DEF Effect, Ordered, Untouched

LEMMA ClassifyAndApplyPlaces ==
  ASSUME Ruled, NEW t, IsTable(t), NEW p \in Tracked(t), ClassifyAndApply(t, p)
  PROVE  LET c == t.entries[p].info.comm IN
         /\ SameTree(t, table') /\ table'.entries[p].classified
         /\ \A q \in Tracked(t) \ {p} : table'.entries[q] = t.entries[q]
         /\ \A q \in Pid \ {p} : proc'[q] = proc[q]
         /\ proc'[p].st = proc[p].st /\ proc'[p].comm = proc[p].comm
         /\ proc'[p].cg # proc[p].cg => ~Unruled(c)
         /\ Alive(p) /\ p \notin foreground => Right(c, proc'[p].cg)
<1> DEFINE c == t.entries[p].info.comm
           a == Verdict(t, p)
<1>1. TypeOK /\ rules \in RuleSets /\ proc \in [Pid -> Process]
  BY DEF Ruled, TypeOK
<1>2. p \in Pid /\ proc[p] \in Process /\ proc[p].cg \in Group
  BY <1>1 DEF IsTable, IsMap, Tracked, Process
<1>3. IF p \in foreground THEN a = None ELSE Answers(rules, c, a)
  BY <1>1, PlainVerdict DEF Ruled, Verdict
<1>4. SameTree(t, table')
  BY <1>1, ClassifyAndApplyTree
<1>5. CASE a = None
  <2>1. table' = MarkClassified(t, p) /\ proc' = proc
    BY <1>5 DEF ClassifyAndApply
  <2>2. table'.entries[p].classified /\ \A q \in Tracked(t) \ {p} : table'.entries[q] = t.entries[q]
    BY <1>2, <2>1, MarkClassifiedOK
  <2> HIDE DEF a, c
  <2>3. p \notin foreground => Right(c, proc'[p].cg)
    BY <1>3, <1>5 DEF Answers, Right
  <2> QED BY <1>4, <2>1, <2>2, <2>3 DEF c
<1>6. CASE a # None
  <2> DEFINE moves == a.opt.cgroup # None
             kids == IF a.children THEN ChildrenOf(t, p) \cap Tracked(t) ELSE {}
             u == IF moves /\ Exists(p) THEN SetOriginal(t, p, proc[p].cg) ELSE t
             rechecks == a.opt.recheck_secs # None
  <2>1. /\ table' = SetApplied(u, p, a, rechecks)
        /\ proc' = IF moves THEN Assigned(proc, {p} \cup kids, a.opt.cgroup) ELSE proc
    BY <1>6 DEF ClassifyAndApply
  <2>2. a \in Action /\ rechecks \in BOOLEAN
    BY <1>1, <1>6, VerdictType
  <2>3. kids = {} /\ p \notin foreground
    BY <1>3, <1>6 DEF Answers
  <2> HIDE DEF a, rechecks, kids
  <2>4. /\ IsTable(u) /\ Tracked(u) = Tracked(t)
        /\ \A q \in Tracked(t) \ {p} : u.entries[q] = t.entries[q]
    BY <1>2, SetOriginalOK
  <2> HIDE DEF u
  <2>5. /\ table'.entries[p].classified
        /\ \A q \in Tracked(t) \ {p} : table'.entries[q] = t.entries[q]
    BY <2>1, <2>2, <2>4, SetAppliedOK
  <2>6. /\ \A q \in Pid \ {p} : proc'[q] = proc[q]
        /\ proc'[p].st = proc[p].st /\ proc'[p].comm = proc[p].comm
        /\ moves /\ Alive(p) /\ a.opt.cgroup \in dirs => proc'[p].cg = a.opt.cgroup
        /\ ~moves => proc' = proc
    <3>1. proc[p].comm \notin Sandboxed
      BY DEF Ruled, PlainRules
    <3> QED BY <1>1, <1>2, <2>1, <2>3, <3>1 DEF Assigned, Alive, Process
  <2>7. ~Unruled(c)
    BY <1>3, <1>6, <2>3 DEF Answers, Unruled
  <2>8. Alive(p) => Right(c, proc'[p].cg)
    <3> SUFFICES ASSUME Alive(p), NEW i \in DOMAIN rules, rules[i].match.any = {{c}},
                        rules[i].action.opt.cgroup # None,
                        rules[i].action.opt.cgroup \in dirs
                 PROVE  proc'[p].cg = rules[i].action.opt.cgroup
      BY DEF Right
    <3> HIDE DEF c
    <3>1. a.opt.cgroup = rules[i].action.opt.cgroup
      BY <1>3, <2>3 DEF Answers
    <3> QED BY <2>6, <3>1
  <2> QED BY <1>4, <2>5, <2>6, <2>7, <2>8
<1> QED BY <1>5, <1>6

(* Between two events nothing is heard.                                     *)
LEMMA HearsNothing ==
  ASSUME queue \in Seq(Event), queue' = queue, NEW type, NEW p
  PROVE  ~Hears(type, p)
<1> SUFFICES ASSUME queue # <<>> PROVE Tail(queue) # queue
  BY DEF Hears
<1> DEFINE rest == Tail(queue)
<1>1. Len(rest) = Len(queue) - 1 /\ Len(queue) \in Nat
  BY HeadTailProperties
<1> HIDE DEF rest
<1>2. rest # queue
  BY <1>1
<1> QED BY <1>2 DEF rest

(* A process of the table is classified.                                    *)
LEMMA JudgedEffect ==
  ASSUME Ruled, NEW p \in Tracked(table), ClassifyAndApply(table, p), rules' = rules,
         queue' = queue, queue \in Seq(Event)
  PROVE  \A q \in Pid : Effect(q)
<1>1. IsTable(table)
  BY DEF Ruled, TypeOK
<1>2. /\ SameTree(table, table') /\ table'.entries[p].classified
      /\ \A q \in Tracked(table) \ {p} : table'.entries[q] = table.entries[q]
      /\ \A q \in Pid \ {p} : proc'[q] = proc[q]
      /\ proc'[p].st = proc[p].st /\ proc'[p].comm = proc[p].comm
      /\ proc'[p].cg # proc[p].cg => ~Unruled(table.entries[p].info.comm)
      /\ Alive(p) /\ p \notin foreground => Right(table.entries[p].info.comm, proc'[p].cg)
  BY <1>1, ClassifyAndApplyPlaces
<1>3. \A q : ~Hears("Exec", q) /\ ~Hears("Place", q)
  BY HearsNothing
<1>4. ASSUME NEW q \in Pid, q # p PROVE Effect(q)
  BY <1>2, <1>3, <1>4, SameEffect DEF SameTree, Untouched
<1>5. p \in foreground => Aside(p)
  BY <1>3, PlacedHears DEF Aside, Overridden
<1>6. Effect(p)
  BY <1>2, <1>3, <1>5 DEF Effect, Ordered, SameTree
<1> QED BY <1>4, <1>6

(* A process is read again and classified.                                  *)
LEMMA ReadEffect ==
  ASSUME Ruled, NEW p \in Pid, Exists(p), rules' = rules,
         ClassifyAndApply(Insert(table, p, ReadInfo(p)), p),
         \A q : (Hears("Exec", q) => q = p) /\ ~Hears("Place", q)
  PROVE  \A q \in Pid : Effect(q)
<1> DEFINE t == Insert(table, p, ReadInfo(p))
<1>1. IsTable(table) /\ ReadInfo(p) \in Info
  BY ReadInfoType DEF Ruled, TypeOK
<1>2. /\ IsTable(t) /\ Tracked(t) = Tracked(table) \cup {p}
      /\ t.entries[p].info = ReadInfo(p)
      /\ \A q \in Tracked(table) \ {p} : t.entries[q] = table.entries[q]
  BY <1>1, InsertOK
<1>3. ClassifyAndApply(t, p) /\ p \in Tracked(t)
  BY <1>2
<1> HIDE DEF t
<1>4. /\ SameTree(t, table') /\ table'.entries[p].classified
      /\ \A q \in Tracked(t) \ {p} : table'.entries[q] = t.entries[q]
      /\ \A q \in Pid \ {p} : proc'[q] = proc[q]
      /\ proc'[p].st = proc[p].st /\ proc'[p].comm = proc[p].comm
      /\ proc'[p].cg # proc[p].cg => ~Unruled(t.entries[p].info.comm)
      /\ Alive(p) /\ p \notin foreground => Right(t.entries[p].info.comm, proc'[p].cg)
  BY <1>2, <1>3, ClassifyAndApplyPlaces
<1>5. ASSUME NEW q \in Pid, q # p PROVE Effect(q)
  BY <1>2, <1>4, <1>5, SameEffect DEF SameTree, Untouched
<1>6. t.entries[p].info.comm = proc[p].comm
  BY <1>2 DEF ReadInfo
<1>7. p \in foreground => Aside(p)
  BY PlacedHears DEF Aside, Overridden
<1>8. Effect(p)
  BY <1>2, <1>4, <1>6, <1>7 DEF Effect, Ordered, SameTree
<1> QED BY <1>5, <1>8

(* A process is read and counts as classified: after a fork, or after an    *)
(* exec in the grace period.                                                *)
LEMMA NotedEffect ==
  ASSUME TypeOK, NEW p \in Pid, NEW info \in Info, info.comm = proc[p].comm,
         table' = MarkClassified(Insert(table, p, info), p),
         \A q \in Pid : Untouched(q),
         Hears("Fork", p) \/ (Hears("Exec", p) /\ startup),
         \A q : Hears("Exec", q) => q = p /\ startup
  PROVE  \A q \in Pid : Effect(q)
<1> DEFINE t == Insert(table, p, info)
<1>1. IsTable(table)
  BY DEF TypeOK
<1>2. /\ IsTable(t) /\ Tracked(t) = Tracked(table) \cup {p}
      /\ t.entries[p].info = info
      /\ \A q \in Tracked(table) \ {p} : t.entries[q] = table.entries[q]
  BY <1>1, InsertOK
<1> HIDE DEF t
<1>3. table' = MarkClassified(t, p)
  BY DEF t
<1>4. /\ SameTree(t, table') /\ table'.entries[p].classified
      /\ \A q \in Tracked(t) \ {p} : table'.entries[q] = t.entries[q]
  BY <1>2, <1>3, MarkClassifiedOK
<1>5. ASSUME NEW q \in Pid, q # p PROVE Effect(q)
  BY <1>2, <1>4, <1>5, SameEffect DEF SameTree
<1>6. p \in Tracked(table') /\ table'.entries[p].info.comm = proc[p].comm
  BY <1>2, <1>4 DEF SameTree
<1>7. Effect(p)
  BY <1>4, <1>6 DEF Effect, Ordered, Untouched
<1> QED BY <1>5, <1>7

(* An entry is removed: its process is gone, or its end was announced.      *)
LEMMA RemovedEffect ==
  ASSUME TypeOK, NEW p \in Pid, proc' = proc, rules' = rules, table' = Remove(table, p),
         Hears("Exit", p) \/ ~Exists(p), \A q : ~Hears("Exec", q)
  PROVE  \A q \in Pid : Effect(q)
<1>1. IsTable(table)
  BY DEF TypeOK
<1>2. /\ Tracked(table') = Tracked(table) \ {p}
      /\ \A q \in Tracked(table') : table'.entries[q] = table.entries[q]
  BY <1>1, RemoveOK
<1>3. ASSUME NEW q \in Pid, q # p PROVE Effect(q)
  BY <1>2, <1>3, SameEffect DEF Untouched
<1>4. Effect(p)
  BY <1>2 DEF Effect, Ordered
<1> QED BY <1>3, <1>4

-----------------------------------------------------------------------------
(* The steps of a daemon that runs, with the loops over processes.          *)

(* A scan lists every process, or those it misses are aside; and after it   *)
(* every listed process is classified or will be.                           *)
Traced(p) ==
  LET done == p \in Tracked(table') /\ table'.entries[p].classified
      left == todo'.kind = "classify" /\ p \in todo'.pids
  IN  /\ Alive(p) /\ ~Aside(p) /\ todo'.kind = "read" => p \in todo'.pids
      /\ ~startup' /\ todo'.kind \notin {"list", "read"} =>
           \/ todo.kind = "read" /\ (p \in todo.pids /\ Exists(p) => done \/ left)
           \/ /\ ~startup /\ todo.kind \notin {"list", "read"}
              /\ todo.kind = "classify" /\ p \in todo.pids => done \/ left

Handled ==
  /\ status = "running" /\ (startup' => startup) /\ dirs' = dirs
  /\ queue' = queue \/ (queue # <<>> /\ queue' = Tail(queue))
  /\ \A p \in Pid : Effect(p) /\ Traced(p)

(* What is heard when an event of this type is taken.                       *)
LEMMA TakeHears ==
  ASSUME TypeOK, NEW type, Take(type)
  PROVE  /\ queue # <<>> /\ queue' = Tail(queue) /\ Front \in Event /\ Front.type = type
         /\ status = "running" /\ todo.kind = "idle"
         /\ Hears(type, Front.pid)
         /\ \A t, p : Hears(t, p) => t = type /\ p = Front.pid
  BY TakeType DEF Take, Waiting, Hears, Front

LEMMA IdleTraced ==
  ASSUME todo.kind = "idle", todo' = todo, startup' = startup, NEW p
  PROVE  Traced(p)
  BY DEF Traced

LEMMA OnForkHandled ==
  ASSUME Ruled, OnFork PROVE Handled
<1>1. TypeOK
  BY DEF Ruled
<1>2. Take("Fork")
  BY DEF OnFork
<1> DEFINE c == Front.pid
<1>3. c \in Pid
  BY <1>1, <1>2, TakeHears, EventFields
<1>4. proc' = proc /\ rules' = rules /\ table' = NoteFork(table, proc)
  BY DEF OnFork
<1>5. \A q \in Pid : Untouched(q)
  BY <1>4, StillUntouched
<1>6. \A q \in Pid : Effect(q)
  <2>1. CASE Exists(c)
    <3>1. table' = MarkClassified(Insert(table, c, ReadInfo(c)), c)
      BY <1>4, <2>1 DEF NoteFork, Exists, ReadInfo
    <3>2. ReadInfo(c) \in Info /\ ReadInfo(c).comm = proc[c].comm
      BY <1>1, <1>3, ReadInfoType DEF TypeOK, ReadInfo
    <3> QED BY <1>1, <1>2, <1>3, <1>5, <3>1, <3>2, TakeHears, NotedEffect
  <2>2. CASE ~Exists(c)
    <3>1. table' = table
      BY <1>4, <2>2 DEF NoteFork, Exists
    <3> QED BY <1>1, <1>2, <1>5, <3>1, TakeHears, SameEffect
  <2> QED BY <2>1, <2>2
<1> QED BY <1>1, <1>2, <1>6, TakeHears, IdleTraced DEF OnFork, Handled

(* A detection only moves what is aside then: what is in swapstorm.         *)
LEMMA OnForkBombUntouched ==
  ASSUME Ruled, OnForkBomb PROVE \A q \in Pid : Untouched(q)
<1> SUFFICES ASSUME NEW q \in Pid PROVE Untouched(q)
  OBVIOUS
<1> DEFINE root == Front.parent
           all == CollectSubtree(table, root, LineageDepth)
<1>1. TypeOK /\ proc \in [Pid -> Process] /\ Take("Fork")
  BY DEF Ruled, TypeOK, OnForkBomb
<1>2. /\ proc' = Assigned(proc, all, "swapstorm") /\ rules' = rules
      /\ root \notin throttled /\ throttled' = throttled \cup {root}
  BY DEF OnForkBomb
<1> HIDE DEF all
<1>3. ~(throttled' \subseteq throttled)
  BY <1>2
<1>4. /\ proc'[q].st = proc[q].st /\ proc'[q].comm = proc[q].comm
      /\ proc'[q].cg # proc[q].cg => proc'[q].cg = "swapstorm"
  BY <1>1, <1>2 DEF Assigned, Process
<1>5. ~Placed(q)
  BY <1>1, TakeHears, PlacedHears
<1> QED BY <1>2, <1>3, <1>4, <1>5 DEF Untouched, Aside, Overridden

LEMMA OnForkBombHandled ==
  ASSUME Ruled, OnForkBomb PROVE Handled
<1>1. TypeOK
  BY DEF Ruled
<1>2. Take("Fork")
  BY DEF OnForkBomb
<1> DEFINE c == Front.pid
<1>3. c \in Pid
  BY <1>1, <1>2, TakeHears, EventFields
<1>4. \A q \in Pid : Untouched(q)
  BY OnForkBombUntouched
<1>5. \A q \in Pid : Effect(q)
  <2>1. CASE table' = table
    BY <1>1, <1>2, <1>4, <2>1, TakeHears, SameEffect
  <2>2. CASE table' # table
    <3> DEFINE info == [ppid |-> proc'[c].ppid, comm |-> proc'[c].comm, path |-> proc'[c].cg]
    <3>1. table' = MarkClassified(Insert(table, c, info), c)
      BY <2>2 DEF OnForkBomb, NoteFork
    <3>2. proc' \in [Pid -> Process]
      BY <1>1, AssignedType DEF OnForkBomb, TypeOK
    <3>3. info \in Info /\ info.comm = proc[c].comm
      BY <1>3, <1>4, <3>2 DEF Info, Process, Untouched
    <3> HIDE DEF info
    <3> QED BY <1>1, <1>2, <1>3, <1>4, <3>1, <3>3, TakeHears, NotedEffect
  <2> QED BY <2>1, <2>2
<1> QED BY <1>1, <1>2, <1>5, TakeHears, IdleTraced DEF OnForkBomb, Handled

LEMMA OnExecHandled ==
  ASSUME Ruled, OnExec PROVE Handled
<1>1. TypeOK
  BY DEF Ruled
<1>2. Take("Exec") /\ rules' = rules
  BY DEF OnExec
<1> DEFINE p == Front.pid
           t == Insert(table, p, ReadInfo(p))
<1>3. p \in Pid /\ ReadInfo(p) \in Info /\ ReadInfo(p).comm = proc[p].comm
  <2>1. p \in Pid
    BY <1>1, <1>2, TakeHears, EventFields
  <2> QED BY <1>1, <2>1, ReadInfoType DEF TypeOK, ReadInfo
<1>4. \A q \in Pid : Effect(q)
  <2>1. CASE ~Exists(p)
    <3>1. proc' = proc /\ table' = table
      BY <2>1 DEF OnExec
    <3> QED BY <1>1, <1>2, <2>1, <3>1, TakeHears, SameEffect, StillUntouched
  <2>2. CASE Exists(p) /\ startup
    <3>1. proc' = proc /\ table' = MarkClassified(t, p)
      BY <2>2 DEF OnExec
    <3>2. \A q \in Pid : Untouched(q)
      BY <1>2, <3>1, StillUntouched
    <3> QED BY <1>1, <1>2, <1>3, <2>2, <3>1, <3>2, TakeHears, NotedEffect
  <2>3. CASE Exists(p) /\ ~startup
    <3>1. ClassifyAndApply(t, p)
      BY <2>3 DEF OnExec
    <3> QED BY <1>1, <1>2, <1>3, <2>3, <3>1, TakeHears, ReadEffect
  <2> QED BY <2>1, <2>2, <2>3
<1> QED BY <1>1, <1>2, <1>4, TakeHears, IdleTraced DEF OnExec, Handled

LEMMA OnCommHandled ==
  ASSUME Ruled, OnComm PROVE Handled
<1>1. TypeOK
  BY DEF Ruled
<1>2. Take("Comm") /\ rules' = rules
  BY DEF OnComm
<1> DEFINE p == Front.pid
<1>3. p \in Pid
  BY <1>1, <1>2, TakeHears, EventFields
<1>4. \A q : ~Hears("Exec", q) /\ ~Hears("Place", q)
  BY <1>1, <1>2, TakeHears
<1>5. \A q \in Pid : Effect(q)
  <2>1. CASE UNCHANGED <<proc, table>>
    BY <1>2, <1>4, <2>1, SameEffect, StillUntouched
  <2>2. CASE Exists(p) /\ ClassifyAndApply(Insert(table, p, ReadInfo(p)), p)
    BY <1>2, <1>3, <1>4, <2>2, ReadEffect
  <2> QED BY <2>1, <2>2 DEF OnComm
<1> QED BY <1>1, <1>2, <1>5, TakeHears, IdleTraced DEF OnComm, Handled

LEMMA OnExitHandled ==
  ASSUME Ruled, OnExit PROVE Handled
<1>1. TypeOK
  BY DEF Ruled
<1>2. Take("Exit")
  BY DEF OnExit
<1> DEFINE p == Front.pid
<1>3. p \in Pid
  BY <1>1, <1>2, TakeHears, EventFields
<1>4. \A q \in Pid : Effect(q)
  BY <1>1, <1>2, <1>3, TakeHears, RemovedEffect DEF OnExit
<1> QED BY <1>1, <1>2, <1>4, TakeHears, IdleTraced DEF OnExit, Handled

LEMMA OnPlaceHandled ==
  ASSUME Ruled, OnPlace PROVE Handled
<1>1. TypeOK /\ proc \in [Pid -> Process]
  BY DEF Ruled, TypeOK
<1>2. Take("Place")
  BY DEF OnPlace
<1> DEFINE p == Front.pid
<1>3. p \in Pid /\ \A q : ~Hears("Exec", q)
  BY <1>1, <1>2, TakeHears, EventFields
<1>4. Placed(p)
  BY <1>1, <1>2, TakeHears DEF Placed
<1>5. table' = table /\ rules' = rules /\ proc' = Assigned(proc, {p}, Front.tier)
  BY DEF OnPlace
<1> HIDE DEF p
<1>6. /\ \A q \in Pid \ {p} : proc'[q] = proc[q]
      /\ proc'[p].st = proc[p].st /\ proc'[p].comm = proc[p].comm
  BY <1>1, <1>3, <1>5 DEF Assigned, Process
<1>7. ASSUME NEW q \in Pid, q # p PROVE Effect(q)
  BY <1>3, <1>5, <1>6, <1>7, SameEffect DEF Untouched
<1>8. Effect(p)
  BY <1>3, <1>4, <1>5, <1>6 DEF Effect, Ordered
<1> QED BY <1>1, <1>2, <1>7, <1>8, TakeHears, IdleTraced DEF OnPlace, Handled

(* A request for the foreground only moves what is, or was, in it.          *)
LEMMA OnForegroundUntouched ==
  ASSUME Ruled, OnForeground PROVE \A q \in Pid : Untouched(q)
<1> SUFFICES ASSUME NEW q \in Pid PROVE Untouched(q)
  OBVIOUS
<1>1. TypeOK /\ proc \in [Pid -> Process] /\ rules' = rules /\ ~Placed(q)
  BY TakeHears, PlacedHears DEF Ruled, TypeOK, OnForeground
<1>2. proc'[q].st = proc[q].st /\ proc'[q].comm = proc[q].comm
  BY <1>1, AssignedType DEF OnForeground, Assigned, Process
<1>3. q \notin foreground \cup foreground' => proc'[q] = proc[q]
  BY DEF OnForeground, Assigned
<1>4. q \in foreground \cup foreground' => Aside(q)
  BY <1>1 DEF Aside, Overridden
<1> QED BY <1>1, <1>2, <1>3, <1>4 DEF Untouched

LEMMA OnForegroundHandled ==
  ASSUME Ruled, OnForeground PROVE Handled
<1>1. TypeOK /\ Take("Foreground") /\ table' = table
  BY DEF Ruled, OnForeground
<1>2. \A q \in Pid : Effect(q)
  BY <1>1, TakeHears, OnForegroundUntouched, SameEffect
<1> QED BY <1>1, <1>2, TakeHears, IdleTraced DEF OnForeground, Handled

(* New rules are a matter of every process.                                 *)
LEMMA OnReloadHandled ==
  ASSUME Ruled, OnReload PROVE Handled
<1>1. TypeOK /\ Take("Reload") /\ table' = table /\ proc' = proc
  BY DEF Ruled, OnReload
<1>2. \A q : ~Hears("Exec", q) /\ ~Hears("Place", q)
  BY <1>1, TakeHears
<1>3. \A q \in Pid : Untouched(q)
  BY <1>1, <1>2, PlacedHears DEF Untouched, Aside, Overridden
<1>4. \A q \in Pid : Effect(q)
  BY <1>1, <1>2, <1>3, SameEffect
<1> QED BY <1>1, <1>4, TakeHears, IdleTraced DEF OnReload, Handled

(* A pressure that changes only touches what is in swapstorm then.          *)
LEMMA OnPressureUntouched ==
  ASSUME Ruled, OnPressure, NEW q \in Pid
  PROVE  /\ Untouched(q)
         /\ Aside(q) \/ /\ q \in Tracked(table') <=> q \in Tracked(table)
                        /\ q \in Tracked(table) => table'.entries[q] = table.entries[q]
<1>1. /\ TypeOK /\ proc \in [Pid -> Process] /\ IsTable(table)
      /\ rules' = rules /\ mode' = Front.level
  BY DEF Ruled, TypeOK, OnPressure
<1>2. Aside(q) <=> Overridden(q)
  BY <1>1, TakeHears, PlacedHears DEF OnPressure, Aside
<1>3. CASE mode' = "critical" /\ mode # mode'
  <2>1. table' = table /\ proc' = Assigned(proc, In("idle") \cup In("background"), "swapstorm")
    BY <1>1, <1>3 DEF OnPressure
  <2>2. /\ proc'[q].st = proc[q].st /\ proc'[q].comm = proc[q].comm
        /\ proc'[q].cg # proc[q].cg => proc'[q].cg = "swapstorm"
    BY <1>1, <2>1 DEF Assigned, Process
  <2> QED BY <1>1, <1>2, <1>3, <2>1, <2>2 DEF Untouched, Overridden
<1>4. CASE mode' = "normal" /\ mode = "critical"
  <2>1. proc' = proc /\ table' = MarkClassifiedFalse(table, In("swapstorm"))
    BY <1>1, <1>4 DEF OnPressure
  <2>2. mode' # mode
    BY <1>4
  <2>3. Alive(q) /\ proc'[q].cg = "swapstorm" => Aside(q)
    BY <1>2, <2>2 DEF Overridden
  <2>4. Tracked(table') = Tracked(table)
    BY <1>1, <2>1, MarkClassifiedFalseOK
  <2>5. q \in Tracked(table) /\ q \notin In("swapstorm") => table'.entries[q] = table.entries[q]
    BY <1>1, <2>1, MarkClassifiedFalseOK
  <2>6. q \in In("swapstorm") => Alive(q) /\ proc'[q].cg = "swapstorm"
    BY <2>1 DEF In
  <2> QED BY <1>1, <2>1, <2>3, <2>4, <2>5, <2>6 DEF Untouched
<1>5. CASE /\ ~(mode' = "critical" /\ mode # mode')
           /\ ~(mode' = "normal" /\ mode = "critical")
  <2>1. proc' = proc /\ table' = table
    BY <1>1, <1>5 DEF OnPressure
  <2> QED BY <1>1, <2>1 DEF Untouched
<1> QED BY <1>3, <1>4, <1>5

LEMMA OnPressureHandled ==
  ASSUME Ruled, OnPressure PROVE Handled
<1>1. TypeOK /\ Take("Pressure")
  BY DEF Ruled, OnPressure
<1>2. \A q \in Pid : Effect(q)
  BY <1>1, TakeHears, OnPressureUntouched, SameEffect
<1> QED BY <1>1, <1>2, TakeHears, IdleTraced DEF OnPressure, Handled

LEMMA OnGcHandled ==
  ASSUME Ruled, OnGc PROVE Handled
<1>1. TypeOK /\ Take("Gc") /\ table' = table /\ proc' = proc /\ rules' = rules
  BY DEF Ruled, OnGc
<1>2. \A q \in Pid : Effect(q)
  BY <1>1, TakeHears, SameEffect, StillUntouched
<1> QED BY <1>1, <1>2, TakeHears, IdleTraced DEF OnGc, Handled

LEMMA TimersHandled ==
  ASSUME Ruled, EndGrace \/ OnRescan \/ OnRecheck PROVE Handled
<1>1. TypeOK /\ queue \in Seq(Event)
  BY DEF Ruled, TypeOK
<1>2. /\ table' = table /\ proc' = proc
      /\ status = "running" /\ todo.kind = "idle"
      /\ \/ todo'.kind = "list"
         \/ todo'.kind \in {"idle", "recheck"} /\ startup' = startup
  BY DEF EndGrace, OnRescan, OnRecheck, Take, Waiting, IdleTodo
<1>3. \A q : ~Hears("Exec", q)
  <2>1. CASE EndGrace
    BY <1>1, <2>1, HearsNothing DEF EndGrace
  <2>2. CASE OnRescan
    BY <1>1, <2>2, TakeHears DEF OnRescan
  <2>3. CASE OnRecheck
    BY <1>1, <2>3, TakeHears DEF OnRecheck
  <2> QED BY <2>1, <2>2, <2>3
<1>4. /\ rules' = rules /\ (startup' => startup) /\ dirs' = dirs
      /\ queue' = queue \/ (queue # <<>> /\ queue' = Tail(queue))
  BY DEF EndGrace, OnRescan, OnRecheck, Take, Waiting
<1>5. \A q \in Pid : Effect(q) /\ Traced(q)
  BY <1>2, <1>3, <1>4, SameEffect, StillUntouched DEF Traced
<1> QED BY <1>2, <1>4, <1>5 DEF Handled

LEMMA ScanListHandled ==
  ASSUME Ruled, ScanList PROVE Handled
<1>1. TypeOK /\ queue \in Seq(Event)
  BY DEF Ruled, TypeOK
<1>2. \A q : ~Hears("Exec", q) /\ ~Hears("Place", q)
  BY <1>1, HearsNothing DEF ScanList
<1>3. \A q \in Pid : Effect(q)
  BY <1>2, SameEffect, StillUntouched DEF ScanList
<1>4. ASSUME NEW q \in Pid PROVE Traced(q)
  <2>1. todo.kind = "list" /\ todo'.kind = "read"
    BY DEF ScanList
  <2>2. Alive(q) /\ q \notin todo'.pids => Aside(q)
    BY <1>2, <2>1, PlacedHears DEF Aside, Overridden, Missed
  <2> QED BY <2>1, <2>2 DEF Traced
<1> QED BY <1>3, <1>4 DEF ScanList, Handled

LEMMA ScanReadHandled ==
  ASSUME Ruled, ScanRead PROVE Handled
<1> DEFINE live  == todo.pids
           new   == {p \in live \ Tracked(table) : Exists(p)}
           fresh == [p \in new |-> ReadInfo(p)]
<1>1. TypeOK /\ queue \in Seq(Event) /\ IsTable(table) /\ proc \in [Pid -> Process]
  BY DEF Ruled, TypeOK
<1>2. live \in SUBSET Pid /\ todo.kind = "read"
  BY <1>1 DEF TypeOK, Todo, ScanRead
<1>3. IsMap(fresh, Pid, Info) /\ DOMAIN fresh = new
  BY <1>1, <1>2, ReadInfoType DEF IsMap
<1>4. table' = MergeScan(table, fresh, live) /\ proc' = proc /\ rules' = rules
  BY DEF ScanRead
<1>5. /\ IsTable(table') /\ Tracked(table') = (Tracked(table) \cup new) \cap live
      /\ \A q \in Tracked(table') :
           IF q \in Tracked(table) THEN table'.entries[q] = table.entries[q]
           ELSE table'.entries[q].info = ReadInfo(q) /\ ~table'.entries[q].classified
  <2> HIDE DEF live, new
  <2>1. \A q \in new : fresh[q] = ReadInfo(q)
    OBVIOUS
  <2> HIDE DEF fresh
  <2>2. \A q \in Tracked(table') : q \notin Tracked(table) => q \in new
    BY <1>1, <1>2, <1>3, <1>4, MergeScanOK
  <2> QED BY <1>1, <1>2, <1>3, <1>4, <2>1, <2>2, MergeScanOK
<1>6. \A q : ~Hears("Exec", q)
  BY <1>1, HearsNothing DEF ScanRead
<1>7. ASSUME NEW q \in Pid PROVE Effect(q)
  <2>1. q \in Tracked(table') /\ q \notin Tracked(table) => table'.entries[q].info.comm = proc[q].comm
    <3>1. ReadInfo(q).comm = proc[q].comm
      BY DEF ReadInfo
    <3>2. q \in Tracked(table') /\ q \notin Tracked(table) => table'.entries[q].info = ReadInfo(q)
      BY <1>5
    <3> QED BY <3>1, <3>2
  <2>2. q \in Tracked(table) /\ q \notin Tracked(table') => q \notin todo.pids
    BY <1>5
  <2> QED BY <1>2, <1>4, <1>5, <1>6, <2>1, <2>2 DEF Effect, Ordered
<1>8. ASSUME NEW q \in Pid PROVE Traced(q)
  <2>1. todo'.kind \in {"idle", "classify"}
    BY DEF ScanRead, IdleTodo
  <2>2. q \in live /\ Exists(q) => q \in Tracked(table')
    BY <1>5
  <2>3. startup' = startup
    BY DEF ScanRead
  <2>4. ASSUME ~startup, q \in Tracked(table'), ~table'.entries[q].classified
        PROVE  todo'.kind = "classify" /\ q \in todo'.pids
    <3>1. q \in Unclassified(table')
      BY <2>4 DEF Unclassified
    <3>2. todo' = [kind |-> "classify", pids |-> Unclassified(table')]
      BY <2>4, <3>1 DEF ScanRead
    <3> QED BY <3>1, <3>2
  <2> QED BY <1>2, <2>1, <2>2, <2>3, <2>4 DEF Traced
<1> QED BY <1>7, <1>8 DEF ScanRead, Handled

LEMMA ScanClassifyHandled ==
  ASSUME Ruled, NEW p \in Pid, ScanClassify(p) PROVE Handled
<1>1. TypeOK /\ queue \in Seq(Event) /\ IsTable(table)
  BY DEF Ruled, TypeOK
<1>2. p \in Tracked(table) /\ todo.kind = "classify"
  BY <1>1 DEF TypeOK, ScanClassify
<1>3. ClassifyAndApply(table, p) /\ UNCHANGED <<queue, rules, startup>> /\ todo' = Done(p)
  BY DEF ScanClassify
<1>4. \A q \in Pid : Effect(q)
  BY <1>1, <1>2, <1>3, JudgedEffect
<1>5. p \in Tracked(table') /\ table'.entries[p].classified
  BY <1>1, <1>2, <1>3, ClassifyAndApplyPlaces DEF SameTree
<1>6. /\ todo'.kind \in {"idle", "classify"}
      /\ \A q \in todo.pids \ {p} : todo'.kind = "classify" /\ q \in todo'.pids
  BY <1>1, <1>2, <1>3 DEF Done, IdleTodo, TypeOK, Todo
<1>7. ASSUME NEW q \in Pid PROVE Traced(q)
  BY <1>2, <1>3, <1>5, <1>6 DEF Traced
<1> QED BY <1>4, <1>7 DEF ScanClassify, Handled

LEMMA RecheckHandled ==
  ASSUME Ruled, NEW p \in Pid, Recheck(p) PROVE Handled
<1>1. TypeOK /\ queue \in Seq(Event)
  BY DEF Ruled, TypeOK
<1>2. /\ UNCHANGED <<queue, rules, startup>> /\ todo' = Done(p)
      /\ todo.kind = "recheck" /\ p \in todo.pids
  BY DEF Recheck
<1>3. \A q : ~Hears("Exec", q) /\ ~Hears("Place", q)
  BY <1>1, <1>2, HearsNothing
<1>4. \A q \in Pid : Effect(q)
  <2>1. CASE UNCHANGED <<proc, table>>
    BY <1>2, <1>3, <2>1, SameEffect, StillUntouched
  <2>2. CASE Exists(p) /\ ClassifyAndApply(Insert(table, p, ReadInfo(p)), p)
    BY <1>2, <1>3, <2>2, ReadEffect
  <2>3. CASE ~Exists(p) /\ table' = Remove(table, p) /\ proc' = proc
    BY <1>1, <1>2, <1>3, <2>3, RemovedEffect
  <2> QED BY <2>1, <2>2, <2>3 DEF Recheck
<1>5. todo'.kind \in {"idle", "recheck"}
  BY <1>1, <1>2, DoneType
<1>6. \A q \in Pid : Traced(q)
  BY <1>2, <1>5 DEF Traced
<1> QED BY <1>4, <1>6 DEF Recheck, Handled

-----------------------------------------------------------------------------
(* The inductive invariant.                                                 *)

(* An event of this type about p is on its way.                             *)
Coming(type, p) == \E i \in DOMAIN queue : queue[i].type = type /\ queue[i].pid = p

(* What the table knows of p is the program it runs; it is nothing a rule   *)
(* names.                                                                   *)
Knows(p) == p \in Tracked(table) => table.entries[p].info.comm = proc[p].comm
Calm(p)  == p \in Tracked(table) => Unruled(table.entries[p].info.comm)

(* A process that executed late is where it belongs, or the news of its     *)
(* program is behind everything that could take it away.                    *)
LateInv(p) ==
  life[p] = "late" =>
    /\ ~startup
    /\ \A j \in DOMAIN queue : queue[j].type = "Exit" /\ queue[j].pid = p
         => \E i \in DOMAIN queue : j < i /\ queue[i].type = "Exec" /\ queue[i].pid = p
    /\ \/ Coming("Exec", p)
       \/ InPlace(p) /\ (todo.kind = "read" => p \in todo.pids)

(* The table knows what it runs, or will hear of it.                        *)
KnownInv(p) == life[p] \in {"early", "late"} => Coming("Exec", p) \/ Knows(p)

(* A process that was there at the start is not heard of.  It is where the  *)
(* rules want it as soon as it counts as classified, and a scan that is     *)
(* over, or on its way, has seen or will see it.                            *)
BootInv(p) ==
  life[p] = "boot" =>
    /\ ~Pending(p)
    /\ p \in Tracked(table) =>
         /\ table.entries[p].info.comm = proc[p].comm
         /\ table.entries[p].classified => Right(proc[p].comm, proc[p].cg)
    /\ todo.kind = "read" => p \in todo.pids
    /\ ~startup /\ todo.kind \notin {"list", "read"} =>
         /\ p \in Tracked(table)
         /\ table.entries[p].classified \/ (todo.kind = "classify" /\ p \in todo.pids)

(* The request for p at place i is carried out when nothing that the event  *)
(* loop knows or hears before it names a program of the rules.              *)
Awaits(p, i) ==
  /\ queue[i].type = "Place" /\ queue[i].pid = p
  /\ \/ Calm(p)
     \/ \E k \in DOMAIN queue : k < i /\ queue[k].type = "Exec" /\ queue[k].pid = p

(* A client that asked for a tier is in it and stays, or is to be moved, or *)
(* the tier is gone.                                                        *)
RunInv(p) ==
  run[p].state # "no" =>
    /\ Unruled(proc[p].comm) /\ run[p].tier \in Tier
    /\ \A i \in DOMAIN queue : queue[i].type = "Place" /\ queue[i].pid = p
                                 => queue[i].tier = run[p].tier
    /\ \/ \E i \in DOMAIN queue : Awaits(p, i)
       \/ Calm(p) /\ (proc[p].cg = run[p].tier \/ run[p].tier \notin dirs)

PlaceInv ==
  /\ Up => Tier \ dirs \subseteq collected
  /\ ~Up => /\ queue = <<>> /\ Tracked(table) = {} /\ startup
            /\ \A p \in Pid : life[p] = "boot" /\ run[p] = NoRun
  /\ status = "running" =>
       \A p \in Pid : Alive(p) => LateInv(p) /\ KnownInv(p) /\ BootInv(p) /\ RunInv(p)

-----------------------------------------------------------------------------
(* A step of the event loop keeps what is true of each process.             *)

(* n events are taken from the channel: none or the first.                  *)
Shifted(n) ==
  /\ n \in {0, 1} /\ DOMAIN queue \subseteq Nat /\ DOMAIN queue' \subseteq Nat
  /\ \A i \in DOMAIN queue : i > n => i - n \in DOMAIN queue' /\ queue'[i - n] = queue[i]
  /\ \A i \in DOMAIN queue' : i + n \in DOMAIN queue /\ queue'[i] = queue[i + n]
  /\ \A i \in DOMAIN queue : i <= n =>
       /\ i = 1 /\ queue[i] = Front /\ Hears(queue[i].type, queue[i].pid)
       /\ queue[i].type = "Place" => Placed(queue[i].pid)
  /\ \A type, p : Hears(type, p) => 1 \in DOMAIN queue /\ n = 1

LEMMA QueueShifted ==
  ASSUME queue \in Seq(Event), queue' = queue \/ (queue # <<>> /\ queue' = Tail(queue))
  PROVE  \E n : Shifted(n)
<1>1. DOMAIN queue = 1..Len(queue) /\ Len(queue) \in Nat
  BY LenProperties
<1>2. CASE queue' = queue
  <2>1. \A type, p : ~Hears(type, p)
    BY <1>2, HearsNothing
  <2>2. \A i \in DOMAIN queue : i \in Nat /\ ~(i <= 0) /\ i - 0 = i /\ i + 0 = i
    BY <1>1
  <2>3. Shifted(0)
    BY <1>2, <2>1, <2>2 DEF Shifted
  <2> QED BY <2>3
<1>3. CASE queue # <<>> /\ queue' = Tail(queue)
  <2>1. queue' \in Seq(Event)
    BY <1>3, HeadTailProperties
  <2>2. DOMAIN queue' = 1..Len(queue')
    BY <2>1, LenProperties
  <2>3. 1 \in DOMAIN queue /\ queue[1] = Front
    BY <1>3, FrontTaken
  <2>4. \A i \in DOMAIN queue : i <= 1 => i = 1
    BY <1>1
  <2>5. \A i \in DOMAIN queue : i > 1 => i # 1
    BY <1>1
  <2>6. /\ Hears(queue[1].type, queue[1].pid)
        /\ queue[1].type = "Place" => Placed(queue[1].pid)
    BY <1>3, <2>3 DEF Hears, Placed
  <2>7. /\ \A i \in DOMAIN queue : i > 1 => i - 1 \in DOMAIN queue' /\ queue'[i - 1] = queue[i]
        /\ \A i \in DOMAIN queue' : i + 1 \in DOMAIN queue /\ queue'[i] = queue[i + 1]
    BY <1>3, <2>5, TailKeeps
  <2>8. DOMAIN queue \subseteq Nat /\ DOMAIN queue' \subseteq Nat
    <3>1. Len(queue') = Len(queue) - 1
      BY <1>3, HeadTailProperties
    <3> QED BY <1>1, <2>2, <3>1
  <2>9. Shifted(1)
    BY <2>3, <2>4, <2>6, <2>7, <2>8 DEF Shifted
  <2> QED BY <2>9
<1> QED BY <1>2, <1>3

LEMMA ComingShifts ==
  ASSUME NEW n, Shifted(n), NEW type, NEW p
  PROVE  /\ Coming(type, p) => Coming(type, p)' \/ Hears(type, p)
         /\ Coming(type, p)' => Coming(type, p)
<1>1. ASSUME Coming(type, p) PROVE Coming(type, p)' \/ Hears(type, p)
  <2>1. PICK i \in DOMAIN queue : queue[i].type = type /\ queue[i].pid = p
    BY <1>1 DEF Coming
  <2>2. i \in Nat /\ n \in Nat
    BY DEF Shifted
  <2>3. CASE i > n
    BY <2>1, <2>3 DEF Shifted, Coming
  <2>4. CASE i <= n
    BY <2>1, <2>4 DEF Shifted
  <2> QED BY <2>2, <2>3, <2>4
<1>2. Coming(type, p)' => Coming(type, p)
  BY DEF Shifted, Coming
<1> QED BY <1>1, <1>2

(* A client's request is carried out, unless the tier is gone.              *)
Honours ==
  \A p \in Pid : Placed(p) /\ Alive(p) =>
     \/ proc'[p].cg = Front.tier
     \/ Front.tier \notin dirs /\ proc'[p].cg = proc[p].cg

(* The histories of a process after a step of the event loop.               *)
Told ==
  \A p \in Pid : Alive(p) =>
     /\ life'[p] = IF Overridden(p) THEN "other" ELSE life[p]
     /\ run'[p] = IF Aside(p) THEN NoRun ELSE run[p]

LEMMA LateKept ==
  ASSUME Ruled, Handled, Told, NEW p \in Pid, Alive(p), LateInv(p) PROVE LateInv(p)'
<1> SUFFICES ASSUME life'[p] = "late" PROVE LateInv(p)'
  BY DEF LateInv
<1>1. ~Overridden(p) /\ life[p] = "late"
  BY DEF Told
<1>2. /\ Effect(p) /\ Ordered(p) /\ Traced(p) /\ ~Aside(p)
      /\ rules' = rules /\ dirs' = dirs /\ (startup' => startup)
      /\ queue \in Seq(Event)
      /\ queue' = queue \/ (queue # <<>> /\ queue' = Tail(queue))
  BY <1>1 DEF Handled, Ruled, TypeOK, Effect, Aside
<1>3. PICK n : Shifted(n)
  BY <1>2, QueueShifted
<1>4. /\ ~startup
      /\ \A j \in DOMAIN queue : queue[j].type = "Exit" /\ queue[j].pid = p
           => \E i \in DOMAIN queue : j < i /\ queue[i].type = "Exec" /\ queue[i].pid = p
      /\ \/ Coming("Exec", p)
         \/ InPlace(p) /\ (todo.kind = "read" => p \in todo.pids)
  BY <1>1 DEF LateInv
<1>5. ASSUME NEW j \in DOMAIN queue', queue'[j].type = "Exit", queue'[j].pid = p
      PROVE  \E i \in DOMAIN queue' : j < i /\ queue'[i].type = "Exec" /\ queue'[i].pid = p
  <2>1. j + n \in DOMAIN queue /\ queue[j + n] = queue'[j] /\ j \in Nat /\ n \in Nat
    BY <1>3 DEF Shifted
  <2>2. PICK i \in DOMAIN queue : j + n < i /\ queue[i].type = "Exec" /\ queue[i].pid = p
    BY <1>4, <1>5, <2>1
  <2>3. i \in Nat /\ i > n /\ j < i - n
    BY <1>3, <2>1, <2>2 DEF Shifted
  <2>4. i - n \in DOMAIN queue' /\ queue'[i - n] = queue[i]
    BY <1>3, <2>3 DEF Shifted
  <2> QED BY <2>2, <2>3, <2>4
<1>6. ASSUME Hears("Exit", p) PROVE Coming("Exec", p)'
  <2>1. 1 \in DOMAIN queue /\ n = 1 /\ queue[1].type = "Exit" /\ queue[1].pid = p
    BY <1>3, <1>6 DEF Shifted, Hears
  <2>2. PICK i \in DOMAIN queue : 1 < i /\ queue[i].type = "Exec" /\ queue[i].pid = p
    BY <1>4, <2>1
  <2> QED BY <1>3, <2>1, <2>2 DEF Shifted, Coming
<1>7. CASE Coming("Exec", p)'
  BY <1>2, <1>4, <1>5, <1>7 DEF LateInv, Coming
<1>8. CASE ~Coming("Exec", p)'
  <2>1. proc'[p].comm = proc[p].comm /\ Exists(p)
    BY <1>2 DEF Effect, Alive, Exists
  <2>2. p \in Tracked(table') /\ table'.entries[p].info.comm = proc[p].comm
        /\ Right(proc[p].comm, proc'[p].cg)
    <3>1. CASE Hears("Exec", p)
      BY <1>2, <1>4, <2>1, <3>1 DEF Ordered
    <3>2. CASE ~Hears("Exec", p)
      <4>1. ~Coming("Exec", p)
        BY <1>3, <1>8, <3>2, ComingShifts
      <4>2. InPlace(p) /\ (todo.kind = "read" => p \in todo.pids) /\ ~Hears("Exit", p)
        BY <1>4, <1>6, <1>8, <4>1
      <4>3. p \in Tracked(table) /\ table.entries[p].info.comm = proc[p].comm
            /\ Right(proc[p].comm, proc[p].cg)
        BY <4>2 DEF InPlace
      <4>4. p \in Tracked(table') /\ table'.entries[p].info.comm = proc[p].comm
        BY <1>2, <2>1, <4>2, <4>3 DEF Ordered
      <4>5. Right(proc[p].comm, proc'[p].cg)
        <5>1. CASE proc'[p].cg = proc[p].cg
          BY <4>3, <5>1
        <5>2. CASE proc'[p].cg # proc[p].cg
          <6>1. ~Placed(p)
            BY <1>1, <5>2 DEF Overridden
          <6> QED BY <1>2, <4>4, <5>2, <6>1 DEF Ordered
        <5> QED BY <5>1, <5>2
      <4> QED BY <4>4, <4>5
    <3> QED BY <3>1, <3>2
  <2>3. InPlace(p)'
    BY <1>2, <2>1, <2>2 DEF InPlace, Right
  <2>4. todo'.kind = "read" => p \in todo'.pids
    BY <1>2, <2>1 DEF Traced
  <2> QED BY <1>2, <1>4, <1>5, <2>3, <2>4 DEF LateInv
<1> QED BY <1>7, <1>8

LEMMA KnownKept ==
  ASSUME Ruled, Handled, Told, NEW p \in Pid, Alive(p), KnownInv(p) PROVE KnownInv(p)'
<1> SUFFICES ASSUME life'[p] \in {"early", "late"} PROVE Coming("Exec", p)' \/ Knows(p)'
  BY DEF KnownInv
<1>1. ~Aside(p) /\ life'[p] = life[p]
  BY DEF Told, Aside
<1>2. /\ Effect(p) /\ Ordered(p) /\ queue \in Seq(Event)
      /\ queue' = queue \/ (queue # <<>> /\ queue' = Tail(queue))
  BY <1>1 DEF Handled, Ruled, TypeOK, Effect
<1>3. PICK n : Shifted(n)
  BY <1>2, QueueShifted
<1>4. Coming("Exec", p)' \/ Hears("Exec", p) \/ Knows(p)
  BY <1>3, <1>1, ComingShifts DEF KnownInv
<1>5. Exists(p) /\ proc'[p].comm = proc[p].comm
  BY <1>2 DEF Effect, Exists, Alive
<1>6. Hears("Exec", p) \/ Knows(p) => Knows(p)'
  BY <1>2, <1>5 DEF Ordered, Knows
<1> QED BY <1>4, <1>6

LEMMA BootKept ==
  ASSUME Ruled, Handled, Told, TypeOK', NEW p \in Pid, Alive(p), BootInv(p) PROVE BootInv(p)'
<1> SUFFICES ASSUME life'[p] = "boot" PROVE BootInv(p)'
  BY DEF BootInv
<1>1. ~Overridden(p) /\ life[p] = "boot"
  BY DEF Told
<1>2. /\ Effect(p) /\ Ordered(p) /\ Traced(p) /\ ~Aside(p)
      /\ rules' = rules /\ dirs' = dirs /\ (startup' => startup)
      /\ queue \in Seq(Event)
      /\ queue' = queue \/ (queue # <<>> /\ queue' = Tail(queue))
  BY <1>1 DEF Handled, Ruled, TypeOK, Effect, Aside
<1>3. PICK n : Shifted(n)
  BY <1>2, QueueShifted
<1>4. /\ ~Pending(p)
      /\ p \in Tracked(table) =>
           /\ table.entries[p].info.comm = proc[p].comm
           /\ table.entries[p].classified => Right(proc[p].comm, proc[p].cg)
      /\ todo.kind = "read" => p \in todo.pids
      /\ ~startup /\ todo.kind \notin {"list", "read"} =>
           /\ p \in Tracked(table)
           /\ table.entries[p].classified \/ (todo.kind = "classify" /\ p \in todo.pids)
  BY <1>1 DEF BootInv
<1>5. Exists(p) /\ proc'[p].comm = proc[p].comm
  BY <1>2 DEF Effect, Exists, Alive
<1>6. ~Pending(p)'
  BY <1>3, <1>4 DEF Pending, Shifted
<1>7. ~Hears("Fork", p) /\ ~Hears("Exec", p) /\ ~Hears("Exit", p)
  BY <1>3, <1>4 DEF Pending, Shifted, Hears
<1>8. p \in Tracked(table') =>
        /\ table'.entries[p].info.comm = proc'[p].comm
        /\ table'.entries[p].classified => Right(proc'[p].comm, proc'[p].cg)
  <2> SUFFICES ASSUME p \in Tracked(table')
               PROVE  /\ table'.entries[p].info.comm = proc'[p].comm
                      /\ table'.entries[p].classified => Right(proc'[p].comm, proc'[p].cg)
    OBVIOUS
  <2>1. table'.entries[p].info.comm = proc'[p].comm
    BY <1>2, <1>4, <1>5 DEF Ordered
  <2>2. ASSUME table'.entries[p].classified PROVE Right(proc'[p].comm, proc'[p].cg)
    <3>1. \/ Right(proc[p].comm, proc'[p].cg)
          \/ /\ p \in Tracked(table) /\ table.entries[p].classified
             /\ proc'[p].cg = proc[p].cg
      <4>1. Placed(p) => proc'[p].cg = proc[p].cg
        BY <1>1 DEF Overridden
      <4> QED BY <1>2, <1>5, <1>7, <2>1, <2>2, <4>1 DEF Ordered
    <3> QED BY <1>4, <1>5, <3>1
  <2> QED BY <2>1, <2>2
<1>9. todo'.kind = "read" => p \in todo'.pids
  BY <1>2, <1>5 DEF Traced
<1>10. ASSUME ~startup', todo'.kind \notin {"list", "read"}
       PROVE  /\ p \in Tracked(table')
              /\ table'.entries[p].classified \/ (todo'.kind = "classify" /\ p \in todo'.pids)
  <2>1. todo'.kind = "classify" => todo'.pids \subseteq Tracked(table')
    BY DEF TypeOK
  <2>2. CASE todo.kind = "read"
    BY <1>2, <1>4, <1>5, <1>10, <2>1, <2>2 DEF Traced
  <2>3. CASE todo.kind # "read"
    <3>1. /\ ~startup /\ todo.kind \notin {"list", "read"}
          /\ todo.kind = "classify" /\ p \in todo.pids =>
               \/ p \in Tracked(table') /\ table'.entries[p].classified
               \/ todo'.kind = "classify" /\ p \in todo'.pids
      BY <1>2, <1>10, <2>3 DEF Traced
    <3>2. /\ p \in Tracked(table)
          /\ table.entries[p].classified \/ (todo.kind = "classify" /\ p \in todo.pids)
      BY <1>4, <3>1
    <3>3. p \in Tracked(table')
      BY <1>2, <1>5, <1>7, <2>3, <3>2 DEF Ordered
    <3>4. table.entries[p].classified => table'.entries[p].classified
      BY <1>2, <3>2, <3>3 DEF Ordered
    <3> QED BY <3>1, <3>2, <3>3, <3>4
  <2> QED BY <2>2, <2>3
<1> QED BY <1>2, <1>6, <1>8, <1>9, <1>10 DEF BootInv, Right, Tracked

LEMMA RunKept ==
  ASSUME Ruled, Handled, Honours, Told, NEW p \in Pid, Alive(p), RunInv(p) PROVE RunInv(p)'
<1> SUFFICES ASSUME run'[p].state # "no" PROVE RunInv(p)'
  BY DEF RunInv
<1>1. run'[p] = run[p] /\ ~Aside(p)
  BY DEF Told, NoRun
<1>2. /\ Effect(p) /\ Ordered(p) /\ rules' = rules /\ dirs' = dirs /\ queue \in Seq(Event)
      /\ queue' = queue \/ (queue # <<>> /\ queue' = Tail(queue))
  BY <1>1 DEF Handled, Ruled, TypeOK, Effect
<1>3. PICK n : Shifted(n)
  BY <1>2, QueueShifted
<1>4. /\ Unruled(proc[p].comm) /\ run[p].tier \in Tier
      /\ \A i \in DOMAIN queue : queue[i].type = "Place" /\ queue[i].pid = p
                                   => queue[i].tier = run[p].tier
      /\ \/ \E i \in DOMAIN queue : Awaits(p, i)
         \/ Calm(p) /\ (proc[p].cg = run[p].tier \/ run[p].tier \notin dirs)
  BY <1>1 DEF RunInv
<1>5. proc'[p].comm = proc[p].comm /\ Exists(p)
  BY <1>2 DEF Effect, Alive, Exists
<1>6. \A c : Unruled(c)' <=> Unruled(c)
  BY <1>2 DEF Unruled
<1>7. \A i \in DOMAIN queue' : queue'[i].type = "Place" /\ queue'[i].pid = p
                                 => queue'[i].tier = run'[p].tier
  BY <1>1, <1>3, <1>4 DEF Shifted
<1>8. Calm(p) /\ p \in Tracked(table') => Unruled(table'.entries[p].info.comm)
  BY <1>2, <1>4 DEF Ordered, Calm
<1>9. Hears("Exec", p) /\ p \in Tracked(table')
           => Unruled(table'.entries[p].info.comm)
  BY <1>2, <1>4, <1>5 DEF Ordered
<1>10. Calm(p) \/ Hears("Exec", p) => Calm(p)'
  BY <1>6, <1>8, <1>9 DEF Calm
<1>11. Placed(p) => proc'[p].cg = run[p].tier \/ run[p].tier \notin dirs
  <2> SUFFICES ASSUME Placed(p) PROVE proc'[p].cg = run[p].tier \/ run[p].tier \notin dirs
    OBVIOUS
  <2>1. 1 \in DOMAIN queue /\ queue[1] = Front
    BY <1>2, FrontTaken DEF Placed
  <2>2. queue[1].type = "Place" /\ queue[1].pid = p
    BY <2>1 DEF Placed
  <2>3. Front.tier = run[p].tier
    BY <1>4, <2>1, <2>2
  <2> QED BY <2>3 DEF Honours
<1>12. \/ \E i \in DOMAIN queue' : Awaits(p, i)'
       \/ Calm(p)' /\ (proc'[p].cg = run[p].tier \/ run[p].tier \notin dirs)
  <2>1. ASSUME NEW i \in DOMAIN queue, Awaits(p, i)
        PROVE  \/ \E j \in DOMAIN queue' : Awaits(p, j)'
               \/ Calm(p)' /\ (proc'[p].cg = run[p].tier \/ run[p].tier \notin dirs)
    <3>1. /\ queue[i].type = "Place" /\ queue[i].pid = p
          /\ \/ Calm(p)
             \/ \E k \in DOMAIN queue : k < i /\ queue[k].type = "Exec" /\ queue[k].pid = p
      BY <2>1 DEF Awaits
    <3>2. i \in Nat /\ n \in Nat /\ (i > n \/ i <= n)
      BY <1>3 DEF Shifted
    <3>3. CASE i <= n
      <4>1. i = 1 /\ Placed(p)
        BY <1>3, <3>1, <3>3 DEF Shifted
      <4>2. \A k \in DOMAIN queue : ~(k < i)
        BY <1>2, <4>1, LenProperties
      <4> QED BY <1>10, <1>11, <3>1, <4>1, <4>2
    <3>4. CASE i > n
      <4>1. i - n \in DOMAIN queue' /\ queue'[i - n] = queue[i]
        BY <1>3, <3>4 DEF Shifted
      <4>2. CASE Calm(p)
        BY <1>10, <3>1, <4>1, <4>2 DEF Awaits
      <4>3. ASSUME NEW k \in DOMAIN queue, k < i, queue[k].type = "Exec", queue[k].pid = p
            PROVE  Awaits(p, i - n)'
        <5>1. k \in Nat /\ (k > n \/ k <= n)
          BY <1>3, <3>2 DEF Shifted
        <5>2. CASE k <= n
          BY <1>3, <1>10, <3>1, <4>1, <4>3, <5>2 DEF Awaits, Shifted
        <5>3. CASE k > n
          <6>1. k - n \in DOMAIN queue' /\ queue'[k - n] = queue[k] /\ k - n < i - n
            BY <1>3, <3>2, <4>3, <5>1, <5>3 DEF Shifted
          <6> QED BY <3>1, <4>1, <4>3, <6>1 DEF Awaits
        <5> QED BY <5>1, <5>2, <5>3
      <4> QED BY <3>1, <4>1, <4>2, <4>3
    <3> QED BY <3>2, <3>3, <3>4
  <2>2. ASSUME Calm(p), proc[p].cg = run[p].tier \/ run[p].tier \notin dirs
        PROVE  Calm(p)' /\ (proc'[p].cg = run[p].tier \/ run[p].tier \notin dirs)
    <3>1. p \in Tracked(table') => Unruled(table'.entries[p].info.comm)
      BY <1>8, <2>2
    <3>2. proc'[p].cg # proc[p].cg => Placed(p)
      BY <1>2, <3>1 DEF Ordered
    <3> QED BY <1>10, <1>11, <2>2, <3>2
  <2> QED BY <1>4, <2>1, <2>2
<1> QED BY <1>2, <1>1, <1>4, <1>5, <1>6, <1>7, <1>12 DEF RunInv

-----------------------------------------------------------------------------
(* Which steps the event loop takes.                                        *)

(* A request is only taken from the channel where it is carried out.        *)
LEMMA RequestsHonoured ==
  ASSUME Ruled, OnPlace PROVE Honours
<1> SUFFICES ASSUME NEW p \in Pid, Placed(p), Alive(p)
             PROVE  \/ proc'[p].cg = Front.tier
                    \/ Front.tier \notin dirs /\ proc'[p].cg = proc[p].cg
  BY DEF Honours
<1>1. TypeOK /\ Sandboxed = {} /\ proc \in [Pid -> Process]
  BY DEF Ruled, PlainRules, TypeOK
<1>2. Front.pid = p /\ proc' = Assigned(proc, {Front.pid}, Front.tier)
  BY DEF OnPlace, Placed
<1> QED BY <1>1, <1>2 DEF Assigned, Alive, Process

LEMMA NothingPlaced ==
  ASSUME TypeOK, \/ queue' = queue
                 \/ \E type : type # "Place" /\ Take(type)
  PROVE  Honours
<1>1. queue \in Seq(Event)
  BY DEF TypeOK
<1>2. \A p : ~Hears("Place", p)
  BY <1>1, HearsNothing, TakeHears
<1> QED BY <1>2 DEF Hears, Placed, Honours

LEMMA RunningHandled ==
  ASSUME PlainRules, TypeOK, DaemonStep, status = "running"
  PROVE  OnShutdown \/ (Ruled /\ Handled /\ Honours /\ status' \in {status, "hung"})
<1>1. Ruled
  BY DEF Ruled
<1>2. CASE ProcEvents
  <2>1. CASE OnFork
    BY <1>1, <2>1, OnForkHandled, NothingPlaced DEF OnFork
  <2>2. CASE OnForkBomb
    BY <1>1, <2>2, OnForkBombHandled, NothingPlaced DEF OnForkBomb
  <2>3. CASE OnExec
    BY <1>1, <2>3, OnExecHandled, NothingPlaced DEF OnExec
  <2>4. CASE OnComm
    BY <1>1, <2>4, OnCommHandled, NothingPlaced DEF OnComm
  <2>5. CASE OnExit
    BY <1>1, <2>5, OnExitHandled, NothingPlaced DEF OnExit
  <2> QED BY <1>2, <2>1, <2>2, <2>3, <2>4, <2>5 DEF ProcEvents
<1>3. CASE Loops
  <2>1. CASE ScanList
    BY <1>1, <2>1, ScanListHandled, NothingPlaced DEF ScanList
  <2>2. CASE ScanRead
    BY <1>1, <2>2, ScanReadHandled, NothingPlaced DEF ScanRead
  <2>3. ASSUME NEW p \in Pid, ScanClassify(p) PROVE Handled /\ Honours /\ status' = status
    BY <1>1, <2>3, ScanClassifyHandled, NothingPlaced DEF ScanClassify
  <2>4. ASSUME NEW p \in Pid, Recheck(p) PROVE Handled /\ Honours /\ status' = status
    BY <1>1, <2>4, RecheckHandled, NothingPlaced DEF Recheck
  <2>5. \A p \in Pid : ~Restore(p)
    BY DEF Restore
  <2> QED BY <1>1, <1>3, <2>1, <2>2, <2>3, <2>4, <2>5 DEF Loops
<1>4. CASE Timers
  <2>1. CASE OnGc
    BY <1>1, <2>1, OnGcHandled, NothingPlaced DEF OnGc
  <2>2. CASE EndGrace \/ OnRescan \/ OnRecheck
    <3>1. Handled
      BY <1>1, <2>2, TimersHandled
    <3>2. Honours /\ status' = status
      BY <2>2, NothingPlaced DEF EndGrace, OnRescan, OnRecheck
    <3> QED BY <1>1, <3>1, <3>2
  <2> QED BY <1>4, <2>1, <2>2 DEF Timers
<1>5. CASE Requests
  <2>1. CASE OnForeground
    BY <1>1, <2>1, OnForegroundHandled, NothingPlaced DEF OnForeground
  <2>2. CASE OnPlace
    BY <1>1, <2>2, OnPlaceHandled, RequestsHonoured DEF OnPlace
  <2>3. CASE OnReload
    BY <1>1, <2>3, OnReloadHandled, NothingPlaced DEF OnReload
  <2>4. CASE OnPressure
    BY <1>1, <2>4, OnPressureHandled, NothingPlaced DEF OnPressure
  <2> QED BY <1>5, <2>1, <2>2, <2>3, <2>4 DEF Requests
<1>6. ~Teardown
  BY DEF Teardown
<1> QED BY <1>2, <1>3, <1>4, <1>5, <1>6 DEF DaemonStep

(* Nothing is announced while events are only taken.                        *)
LEMMA NothingAnnounced ==
  ASSUME queue \in Seq(Event), queue' = queue \/ (queue # <<>> /\ queue' = Tail(queue))
  PROVE  \A type, p : ~Announced(type, p)
<1>1. Len(queue) \in Nat
  BY LenProperties
<1>2. queue # <<>> => Len(Tail(queue)) = Len(queue) - 1
  BY HeadTailProperties
<1> QED BY <1>1, <1>2 DEF Announced

LEMMA HandledTold ==
  ASSUME TypeOK, HNext, Handled, status' \in {status, "hung"} PROVE Told
<1> SUFFICES ASSUME NEW p \in Pid, Alive(p)
             PROVE  /\ life'[p] = IF Overridden(p) THEN "other" ELSE life[p]
                    /\ run'[p] = IF Aside(p) THEN NoRun ELSE run[p]
  BY DEF Told
<1>1. \A type, q : ~Announced(type, q)
  BY NothingAnnounced DEF TypeOK, Handled
<1>2. proc'[p].st = "alive" /\ Up /\ Up'
  BY DEF Handled, Effect, Alive, Up
<1>3. life'[p] = Live(p) /\ run'[p] = Ran(p)
  BY DEF HNext
<1> QED BY <1>1, <1>2, <1>3 DEF Live, Ran, Aside

LEMMA HandledPlaces ==
  ASSUME Ruled, TypeOK', HNext, PlaceInv, Handled, Honours, status' \in {status, "hung"}
  PROVE  PlaceInv'
<1>1. TypeOK /\ Told /\ status = "running" /\ Up /\ Up'
  BY HandledTold DEF Ruled, Handled, Up
<1>2. Tier \ dirs' \subseteq collected'
  BY <1>1 DEF PlaceInv, Handled, HNext
<1>3. ASSUME NEW p \in Pid, Alive(p)'
      PROVE  LateInv(p)' /\ KnownInv(p)' /\ BootInv(p)' /\ RunInv(p)'
  <2>1. Alive(p)
    BY <1>3 DEF Handled, Effect, Alive
  <2>2. LateInv(p) /\ KnownInv(p) /\ BootInv(p) /\ RunInv(p)
    BY <1>1, <2>1 DEF PlaceInv
  <2> QED BY <1>1, <2>1, <2>2, LateKept, KnownKept, BootKept, RunKept
<1> QED BY <1>1, <1>2, <1>3 DEF PlaceInv

-----------------------------------------------------------------------------
(* Events join the channel.                                                 *)

(* Event e becomes the last of the channel, at place n.                     *)
Grown(n, e) ==
  /\ DOMAIN queue' = DOMAIN queue \cup {n} /\ queue'[n] = e
  /\ \A i \in DOMAIN queue : i < n /\ queue'[i] = queue[i]
  /\ \A type, p : Announced(type, p) <=> (e.type = type /\ e.pid = p)
  /\ queue'[Len(queue')] = e
  /\ \A p : ~Placed(p)

LEMMA QueueGrown ==
  ASSUME queue \in Seq(Event), NEW e \in Event, queue' = Append(queue, e)
  PROVE  \E n : Grown(n, e)
<1> PICK n : n = Len(queue) + 1
  OBVIOUS
<1>1. /\ DOMAIN queue' = DOMAIN queue \cup {n} /\ n \notin DOMAIN queue
      /\ queue'[n] = e /\ \A i \in DOMAIN queue : queue'[i] = queue[i]
  BY AppendKeeps
<1>2. Len(queue') = n /\ queue' # <<>>
  BY AppendProperties
<1>3. DOMAIN queue = 1..Len(queue) /\ Len(queue) \in Nat
  BY LenProperties
<1>4. \A i \in DOMAIN queue : i < n
  BY <1>3
<1>5. \A p : ~Placed(p)
  <2> SUFFICES ASSUME queue # <<>>, queue' = Tail(queue) PROVE FALSE
    BY DEF Placed
  <2>1. Len(queue') = Len(queue) - 1
    BY HeadTailProperties
  <2> QED BY <1>2, <1>3, <2>1
<1> QED BY <1>1, <1>2, <1>4, <1>5 DEF Grown, Announced

(* An event that says nothing about p.                                      *)
Foreign(e, p) ==
  e.type \in {"Fork", "Exec", "Comm", "Exit", "Place"} => e.pid # p

(* A step of the world outside that does not concern p.                     *)
LEMMA OtherKept ==
  ASSUME TypeOK, HNext, Up, NEW p \in Pid, Alive(p),
         LateInv(p), KnownInv(p), BootInv(p), RunInv(p),
         UNCHANGED <<table, rules, startup, todo, status>>, dirs' \subseteq dirs,
         proc'[p].st = "alive", proc'[p].comm = proc[p].comm, proc'[p].cg = proc[p].cg,
         \/ queue' = queue
         \/ \E e \in Event : queue' = Append(queue, e) /\ Foreign(e, p)
  PROVE  LateInv(p)' /\ KnownInv(p)' /\ BootInv(p)' /\ RunInv(p)'
<1>1. queue \in Seq(Event) /\ Up'
  BY DEF TypeOK, Up
<1>2. /\ \A i \in DOMAIN queue : i \in DOMAIN queue' /\ queue'[i] = queue[i]
      /\ \A i \in DOMAIN queue' :
           i \in DOMAIN queue \/ queue'[i].type \notin {"Fork", "Exec", "Comm", "Exit", "Place"}
                              \/ queue'[i].pid # p
      /\ ~Placed(p)
      /\ \A type \in {"Fork", "Exec", "Comm", "Place"} : ~Announced(type, p)
  <2>1. CASE queue' = queue
    <3>1. ~Placed(p)
      BY <1>1, <2>1, HearsNothing DEF Placed, Hears
    <3>2. \A type : ~Announced(type, p)
      BY <1>1, <2>1, NothingAnnounced
    <3> QED BY <2>1, <3>1, <3>2
  <2>2. ASSUME NEW e \in Event, queue' = Append(queue, e), Foreign(e, p)
        PROVE  <1>2!:
    <3>1. PICK n : Grown(n, e)
      BY <1>1, <2>2, QueueGrown
    <3> QED BY <2>2, <3>1 DEF Grown, Foreign
  <2> QED BY <2>1, <2>2
<1>3. life'[p] \in {life[p], "other"} /\ run'[p] \in {run[p], NoRun}
  BY <1>1, <1>2 DEF HNext, Live, Ran
<1>4. Unruled(proc[p].comm)' <=> Unruled(proc[p].comm)
  BY DEF Unruled
<1>5. Calm(p) => Calm(p)'
  BY DEF Calm, Unruled, Tracked
<1>6. \A c, g : Right(c, g) => Right(c, g)'
  BY DEF Right
<1>7. LateInv(p)'
  <2>1. InPlace(p) => InPlace(p)'
    BY <1>6 DEF InPlace, Tracked
  <2> QED BY <1>2, <1>3, <2>1 DEF LateInv, Coming
<1>8. KnownInv(p)'
  BY <1>2, <1>3 DEF KnownInv, Coming, Knows, Tracked
<1>9. BootInv(p)'
  <2>1. ~Pending(p) => ~Pending(p)'
    BY <1>2 DEF Pending
  <2> QED BY <1>3, <1>6, <2>1 DEF BootInv, Tracked
<1>10. RunInv(p)'
  <2>1. \A i \in DOMAIN queue : Awaits(p, i) => i \in DOMAIN queue' /\ Awaits(p, i)'
    BY <1>2, <1>5 DEF Awaits
  <2> QED BY <1>2, <1>3, <1>4, <1>5, <2>1 DEF RunInv, NoRun
<1> QED BY <1>7, <1>8, <1>9, <1>10

(* A client's request joins the channel.                                    *)
LEMMA AskedKept ==
  ASSUME TypeOK, HNext, Up, NEW p \in Pid, Alive(p),
         LateInv(p), KnownInv(p), BootInv(p), RunInv(p),
         NEW e \in Event, Send(e), e.type = "Place", e.pid = p
  PROVE  LateInv(p)' /\ KnownInv(p)' /\ BootInv(p)' /\ RunInv(p)'
<1>1. /\ queue \in Seq(Event) /\ Up' /\ queue' = Append(queue, e)
      /\ UNCHANGED <<proc, table, rules, startup, dirs, todo, status>>
      /\ \A i \in DOMAIN queue : queue[i].type # "Place"
  BY DEF TypeOK, Up, Send
<1>2. PICK n : Grown(n, e)
  BY <1>1, QueueGrown
<1>3. /\ life'[p] \in {life[p], "other"}
      /\ run'[p].state # "no" => /\ life[p] \in {"early", "late"} /\ Unruled(proc[p].comm)
                                 /\ run'[p].tier = e.tier
  BY <1>1, <1>2 DEF HNext, Live, Ran, Grown, Alive, NoRun
<1>4. LateInv(p)'
  <2>1. InPlace(p) => InPlace(p)'
    BY <1>1 DEF InPlace, Right, Tracked
  <2> QED BY <1>1, <1>2, <1>3, <2>1 DEF LateInv, Coming, Grown
<1>5. KnownInv(p)'
  BY <1>1, <1>2, <1>3 DEF KnownInv, Coming, Knows, Tracked, Grown
<1>6. BootInv(p)'
  <2>1. ~Pending(p) => ~Pending(p)'
    BY <1>2 DEF Pending, Grown
  <2> QED BY <1>1, <1>3, <2>1 DEF BootInv, Right, Tracked
<1>7. RunInv(p)'
  <2> SUFFICES ASSUME run'[p].state # "no" PROVE RunInv(p)'
    BY DEF RunInv
  <2>1. Unruled(proc[p].comm)'
    BY <1>1, <1>3 DEF Unruled
  <2>2. run'[p].tier = e.tier /\ e.tier \in Tier
    BY <1>3 DEF Event
  <2>3. \A i \in DOMAIN queue' : queue'[i].type = "Place" => queue'[i].tier = e.tier
    BY <1>1, <1>2 DEF Grown
  <2>4. Knows(p) => Calm(p)'
    BY <1>1, <1>3 DEF Knows, Calm, Unruled, Tracked
  <2>5. Awaits(p, n)'
    BY <1>2, <1>3, <2>4 DEF Awaits, Grown, KnownInv, Coming
  <2>6. n \in DOMAIN queue'
    BY <1>2 DEF Grown
  <2> QED BY <2>1, <2>3, <2>5, <2>6, <2>2 DEF RunInv
<1> QED BY <1>4, <1>5, <1>6, <1>7

(* A process executes a program.                                            *)
LEMMA ExecKept ==
  ASSUME TypeOK, HNext, Up, NEW p \in Pid, Alive(p), LateInv(p), RunInv(p),
         UNCHANGED <<table, rules, startup, dirs, todo, status>>,
         NEW e \in Event, e.type = "Exec", e.pid = p, queue' = Append(queue, e),
         proc'[p].st = "alive", proc'[p].cg = proc[p].cg
  PROVE  LateInv(p)' /\ KnownInv(p)' /\ BootInv(p)' /\ RunInv(p)'
<1>1. queue \in Seq(Event) /\ Up'
  BY DEF TypeOK, Up
<1>2. PICK n : Grown(n, e)
  BY <1>1, QueueGrown
<1>3. /\ life'[p] \in {IF startup THEN "early" ELSE "late", "other"}
      /\ \/ run'[p] = NoRun
         \/ /\ run[p].state = "asked" /\ Unruled(proc'[p].comm)
            /\ run'[p] = [run[p] EXCEPT !.state = "runs"]
  BY <1>1, <1>2 DEF HNext, Live, Ran, Grown
<1>4. Coming("Exec", p)'
  BY <1>2 DEF Coming, Grown
<1>5. LateInv(p)'
  <2>1. ASSUME NEW j \in DOMAIN queue', queue'[j].type = "Exit"
        PROVE  j < n /\ n \in DOMAIN queue' /\ queue'[n].type = "Exec" /\ queue'[n].pid = p
    BY <1>2, <2>1 DEF Grown
  <2> QED BY <1>3, <1>4, <2>1 DEF LateInv
<1>6. KnownInv(p)' /\ BootInv(p)'
  BY <1>3, <1>4 DEF KnownInv, BootInv
<1>7. RunInv(p)'
  <2> SUFFICES ASSUME run'[p].state # "no" PROVE RunInv(p)'
    BY DEF RunInv
  <2>1. /\ run[p].state = "asked" /\ Unruled(proc'[p].comm)
        /\ run'[p] = [run[p] EXCEPT !.state = "runs"]
    BY <1>3 DEF NoRun
  <2>2. /\ run[p].tier \in Tier
        /\ \A i \in DOMAIN queue : queue[i].type = "Place" /\ queue[i].pid = p
                                     => queue[i].tier = run[p].tier
        /\ \/ \E i \in DOMAIN queue : Awaits(p, i)
           \/ Calm(p) /\ (proc[p].cg = run[p].tier \/ run[p].tier \notin dirs)
    BY <2>1 DEF RunInv
  <2>3. run'[p].tier = run[p].tier
    BY <2>1
  <2>4. Unruled(proc[p].comm)'
    BY <2>1 DEF Unruled
  <2>5. Calm(p) => Calm(p)'
    BY DEF Calm, Unruled, Tracked
  <2>6. \A i \in DOMAIN queue : Awaits(p, i) => i \in DOMAIN queue' /\ Awaits(p, i)'
    BY <1>2, <2>5 DEF Awaits, Grown
  <2>7. \A i \in DOMAIN queue' : queue'[i].type = "Place" /\ queue'[i].pid = p
                                   => queue'[i].tier = run'[p].tier
    BY <1>2, <2>2, <2>3 DEF Grown
  <2> QED BY <2>2, <2>3, <2>4, <2>5, <2>6, <2>7 DEF RunInv
<1> QED BY <1>5, <1>6, <1>7

(* A process is born, or takes another name.                                *)
LEMMA OtherLife ==
  ASSUME TypeOK, HNext, Up, NEW p \in Pid, UNCHANGED status,
         NEW e \in Event, e.type \in {"Fork", "Comm"}, e.pid = p, queue' = Append(queue, e),
         proc'[p].st = "alive"
  PROVE  LateInv(p)' /\ KnownInv(p)' /\ BootInv(p)' /\ RunInv(p)'
<1>1. queue \in Seq(Event) /\ Up'
  BY DEF TypeOK, Up
<1>2. PICK n : Grown(n, e)
  BY <1>1, QueueGrown
<1>3. life'[p] \in {"forked", "other"} /\ run'[p] = NoRun
  BY <1>1, <1>2 DEF HNext, Live, Ran, Grown
<1> QED BY <1>3 DEF LateInv, KnownInv, BootInv, RunInv, NoRun

(* What the kernel does to the processes that live on.                      *)
LEMMA KernelKeeps ==
  ASSUME TypeOK, HNext, Up, Environment, NEW p \in Pid, Alive(p)',
         Alive(p) => LateInv(p) /\ KnownInv(p) /\ BootInv(p) /\ RunInv(p)
  PROVE  LateInv(p)' /\ KnownInv(p)' /\ BootInv(p)' /\ RunInv(p)'
<1>1. /\ proc \in [Pid -> Process] /\ proc'[p].st = "alive"
      /\ UNCHANGED <<table, rules, startup, dirs, todo, status>> /\ KernelStep
  BY DEF TypeOK, Environment, Alive
<1>2. ASSUME NEW a \in Pid, NEW c \in Pid, Fork(a, c)
      PROVE  LateInv(p)' /\ KnownInv(p)' /\ BootInv(p)' /\ RunInv(p)'
  <2> PICK e \in Event : e = [type |-> "Fork", parent |-> a, pid |-> c]
    BY DEF Event
  <2>1. queue' = Append(queue, e) /\ e.type = "Fork" /\ e.pid = c
    BY <1>2 DEF Fork, Announce
  <2>2. CASE p = c
    BY <1>1, <2>1, <2>2, OtherLife
  <2>3. CASE p # c
    <3>1. proc'[p] = proc[p] /\ Alive(p) /\ Foreign(e, p)
      BY <1>1, <1>2, <2>1, <2>3 DEF Fork, Alive, Foreign
    <3> QED BY <1>1, <2>1, <3>1, OtherKept
  <2> QED BY <2>2, <2>3
<1>3. ASSUME NEW a \in Pid, NEW comm \in Comm, Exec(a, comm)
      PROVE  LateInv(p)' /\ KnownInv(p)' /\ BootInv(p)' /\ RunInv(p)'
  <2> PICK e \in Event : e = [type |-> "Exec", pid |-> a]
    BY DEF Event
  <2>1. /\ queue' = Append(queue, e) /\ e.type = "Exec" /\ e.pid = a
        /\ Alive(a) /\ proc' = [proc EXCEPT ![a].comm = comm]
    BY <1>3 DEF Exec, Announce
  <2>2. CASE p = a
    <3>1. proc'[p].cg = proc[p].cg /\ Alive(p)
      BY <1>1, <2>1, <2>2 DEF Process
    <3> QED BY <1>1, <2>1, <2>2, <3>1, ExecKept
  <2>3. CASE p # a
    <3>1. proc'[p] = proc[p] /\ Alive(p) /\ Foreign(e, p)
      BY <1>1, <2>1, <2>3 DEF Alive, Foreign
    <3> QED BY <1>1, <2>1, <3>1, OtherKept
  <2> QED BY <2>2, <2>3
<1>4. ASSUME NEW a \in Pid, NEW comm \in Comm, Rename(a, comm)
      PROVE  LateInv(p)' /\ KnownInv(p)' /\ BootInv(p)' /\ RunInv(p)'
  <2> PICK e \in Event : e = [type |-> "Comm", pid |-> a]
    BY DEF Event
  <2>1. /\ queue' = Append(queue, e) /\ e.type = "Comm" /\ e.pid = a
        /\ proc' = [proc EXCEPT ![a].comm = comm]
    BY <1>4 DEF Rename, Announce
  <2>2. CASE p = a
    BY <1>1, <2>1, <2>2, OtherLife
  <2>3. CASE p # a
    <3>1. proc'[p] = proc[p] /\ Alive(p) /\ Foreign(e, p)
      BY <1>1, <2>1, <2>3 DEF Alive, Foreign
    <3> QED BY <1>1, <2>1, <3>1, OtherKept
  <2> QED BY <2>2, <2>3
<1>5. ASSUME NEW a \in Pid, Exit(a)
      PROVE  LateInv(p)' /\ KnownInv(p)' /\ BootInv(p)' /\ RunInv(p)'
  <2> PICK e \in Event : e = [type |-> "Exit", pid |-> a]
    BY DEF Event
  <2>1. queue' = Append(queue, e) /\ e.type = "Exit" /\ e.pid = a
    BY <1>5 DEF Exit, Announce
  <2>2. p # a
    BY <1>1, <1>5 DEF Exit, Process
  <2>3. /\ proc'[p].st = proc[p].st /\ proc'[p].comm = proc[p].comm
        /\ proc'[p].cg = proc[p].cg
    BY <1>1, <1>5, <2>2 DEF Exit, Process
  <2>4. Alive(p) /\ Foreign(e, p)
    BY <1>1, <2>1, <2>2, <2>3 DEF Alive, Foreign
  <2> QED BY <1>1, <2>1, <2>3, <2>4, OtherKept
<1>6. ASSUME NEW a \in Pid, Reap(a)
      PROVE  LateInv(p)' /\ KnownInv(p)' /\ BootInv(p)' /\ RunInv(p)'
  <2>1. queue' = queue /\ proc' = [proc EXCEPT ![a] = Nobody]
    BY <1>6 DEF Reap
  <2>2. p # a
    BY <1>1, <2>1, BootAssumption
  <2>3. proc'[p] = proc[p] /\ Alive(p)
    BY <1>1, <2>1, <2>2 DEF Alive
  <2> QED BY <1>1, <2>1, <2>3, OtherKept
<1> QED BY <1>1, <1>2, <1>3, <1>4, <1>5, <1>6 DEF KernelStep

(* What the kernel announces.                                               *)
LEMMA EnvironmentAdds ==
  ASSUME Environment
  PROVE  \/ queue' = queue
         \/ Up /\ \E e \in Event : /\ e.type \in {"Fork", "Exec", "Comm", "Exit"}
                                   /\ queue' = Append(queue, e)
<1> DEFINE Adds == \/ queue' = queue
                   \/ Up /\ \E e \in Event : /\ e.type \in {"Fork", "Exec", "Comm", "Exit"}
                                             /\ queue' = Append(queue, e)
<1>1. ASSUME NEW e \in Event, e.type \in {"Fork", "Exec", "Comm", "Exit"}, Announce(e)
      PROVE  Adds
  BY <1>1 DEF Announce
<1> HIDE DEF Adds
<1>2. ASSUME NEW p \in Pid, NEW c \in Pid, Fork(p, c) PROVE Adds
  <2>1. [type |-> "Fork", parent |-> p, pid |-> c] \in Event
    BY DEF Event
  <2> QED BY <1>1, <1>2, <2>1 DEF Fork
<1>3. ASSUME NEW p \in Pid, NEW comm \in Comm, Exec(p, comm) \/ Rename(p, comm) \/ Exit(p)
      PROVE  Adds
  <2>1. \A type \in {"Exec", "Comm", "Exit"} : [type |-> type, pid |-> p] \in Event
    BY DEF Event
  <2> QED BY <1>1, <1>3, <2>1 DEF Exec, Rename, Exit
<1>4. ASSUME NEW p \in Pid, Exit(p) PROVE Adds
  <2>1. [type |-> "Exit", pid |-> p] \in Event
    BY DEF Event
  <2> QED BY <1>1, <1>4, <2>1 DEF Exit
<1>5. ASSUME NEW p \in Pid, Reap(p) PROVE Adds
  BY <1>5 DEF Reap, Adds
<1> QED BY <1>2, <1>3, <1>4, <1>5 DEF Environment, KernelStep, Adds

(* While no daemon runs there is no history.                                *)
LEMMA NoHistory ==
  ASSUME HNext, ~Up' PROVE \A p \in Pid : life'[p] = "boot" /\ run'[p] = NoRun
  BY DEF HNext, Live, Ran

LEMMA EnvironmentPlaces ==
  ASSUME TypeOK, HNext, PlaceInv, Environment PROVE PlaceInv'
<1>1. UNCHANGED <<table, rules, startup, dirs, todo, status>>
  BY DEF Environment
<1>2. (Up' <=> Up) /\ (Up => Tier \ dirs' \subseteq collected')
  BY <1>1 DEF Up, PlaceInv, HNext
<1>3. ~Up => queue' = <<>>
  BY EnvironmentAdds DEF PlaceInv
<1>4. ASSUME status = "running", NEW p \in Pid, Alive(p)'
      PROVE  LateInv(p)' /\ KnownInv(p)' /\ BootInv(p)' /\ RunInv(p)'
  <2>1. Up
    BY <1>4 DEF Up
  <2>2. Alive(p) => LateInv(p) /\ KnownInv(p) /\ BootInv(p) /\ RunInv(p)
    BY <1>4 DEF PlaceInv
  <2> QED BY <1>4, <2>1, <2>2, KernelKeeps
<1> QED BY <1>1, <1>2, <1>3, <1>4, NoHistory DEF PlaceInv, Tracked

(* What the other producers send.                                           *)
LEMMA ProducersAdd ==
  ASSUME Producers
  PROVE  \E e \in Event : Send(e) /\ e.type \notin {"Fork", "Exec", "Comm", "Exit"}
<1>1. /\ \A type \in {"Rescan", "Recheck", "Gc", "Reload", "Shutdown"} : [type |-> type] \in Event
      /\ \A p \in Pid : [type |-> "Foreground", pid |-> p] \in Event
      /\ \A m \in Placements : [type |-> "Place", pid |-> m.pid, tier |-> m.tier] \in Event
      /\ \A l \in Readings : [type |-> "Pressure", level |-> l] \in Event
  BY TierAssumption DEF Event
<1>2. CASE RescanTick
  BY <1>1, <1>2 DEF RescanTick
<1>3. CASE \/ Signal("recheck", "Recheck") \/ Signal("gc", "Gc")
           \/ Signal("reload", "Reload") \/ Signal("shutdown", "Shutdown")
  BY <1>1, <1>3 DEF Signal
<1>4. CASE Client
  BY <1>1, <1>4 DEF Client
<1>5. CASE PsiUpdate
  BY <1>1, <1>5 DEF PsiUpdate
<1> QED BY <1>2, <1>3, <1>4, <1>5 DEF Producers

LEMMA ProducersPlace ==
  ASSUME TypeOK, HNext, PlaceInv, Up, Producers PROVE PlaceInv'
<1>1. PICK e \in Event : Send(e) /\ e.type \notin {"Fork", "Exec", "Comm", "Exit"}
  BY ProducersAdd
<1>2. /\ UNCHANGED <<proc, table, rules, startup, dirs, todo, status>>
      /\ queue' = Append(queue, e) /\ queue \in Seq(Event) /\ Up'
  BY <1>1 DEF Send, TypeOK, Up
<1>3. Tier \ dirs' \subseteq collected'
  BY <1>2 DEF PlaceInv, HNext
<1>4. ASSUME status = "running", NEW p \in Pid, Alive(p)'
      PROVE  LateInv(p)' /\ KnownInv(p)' /\ BootInv(p)' /\ RunInv(p)'
  <2>1. Alive(p) /\ proc'[p].st = "alive"
    BY <1>2, <1>4 DEF Alive
  <2>2. LateInv(p) /\ KnownInv(p) /\ BootInv(p) /\ RunInv(p)
    BY <1>4, <2>1 DEF PlaceInv
  <2>3. CASE e.type = "Place" /\ e.pid = p
    BY <1>1, <2>1, <2>2, <2>3, AskedKept
  <2>4. CASE ~(e.type = "Place" /\ e.pid = p)
    <3>1. Foreign(e, p)
      BY <1>1, <2>4 DEF Foreign
    <3> QED BY <1>2, <2>1, <2>2, <3>1, OtherKept
  <2> QED BY <2>3, <2>4
<1> QED BY <1>2, <1>3, <1>4 DEF PlaceInv

(* A tier is collected.                                                     *)
LEMMA GcTierPlaces ==
  ASSUME TypeOK, HNext, PlaceInv, GcTier PROVE PlaceInv'
<1>1. /\ UNCHANGED <<proc, queue, table, rules, startup, todo, status>>
      /\ dirs' \subseteq dirs /\ (Up' <=> Up)
  BY DEF GcTier, Up
<1>2. Up => Tier \ dirs' \subseteq collected'
  BY <1>1 DEF PlaceInv, HNext
<1>3. ASSUME status = "running", NEW p \in Pid, Alive(p)'
      PROVE  LateInv(p)' /\ KnownInv(p)' /\ BootInv(p)' /\ RunInv(p)'
  <2>1. Alive(p) /\ Up /\ proc'[p].st = "alive"
    BY <1>1, <1>3 DEF Alive, Up
  <2>2. LateInv(p) /\ KnownInv(p) /\ BootInv(p) /\ RunInv(p)
    BY <1>3, <2>1 DEF PlaceInv
  <2> QED BY <1>1, <2>1, <2>2, OtherKept
<1> QED BY <1>1, <1>2, <1>3, NoHistory DEF PlaceInv, Tracked

-----------------------------------------------------------------------------
(* The daemon stops and starts again.                                       *)

LEMMA StopPlaces ==
  ASSUME HNext, PlaceInv, OnShutdown \/ \E p \in Pid : Restore(p) PROVE PlaceInv'
<1>1. dirs' = dirs /\ Up /\ Up' /\ status' # "running"
  BY DEF OnShutdown, Restore, Take, Waiting, Up
<1> QED BY <1>1 DEF PlaceInv, HNext

LEMMA EndsPlaces ==
  ASSUME HNext, NEW final \in {"stopped", "crashed"}, Ends(final) PROVE PlaceInv'
<1>1. status' = final /\ queue' = <<>> /\ table' = EmptyTable /\ startup'
  BY DEF Ends
<1>2. ~Up' /\ status' # "running"
  BY <1>1 DEF Up
<1>3. Tracked(table') = {}
  BY <1>1, EmptyTableOK
<1> QED BY <1>1, <1>2, <1>3, NoHistory DEF PlaceInv, Tracked

(* What holds of every process at the start of an instance.                 *)
LEMMA FreshPlaces ==
  ASSUME NEW p, queue = <<>>, Tracked(table) = {}, startup, todo = FirstLoop,
         life[p] = "boot", run[p] = NoRun
  PROVE  LateInv(p) /\ KnownInv(p) /\ BootInv(p) /\ RunInv(p)
<1>1. todo.kind # "read"
  BY DEF FirstLoop, IdleTodo
<1>2. ~Pending(p)
  BY DEF Pending
<1>3. BootInv(p)
  BY <1>1, <1>2 DEF BootInv
<1> QED BY <1>3 DEF LateInv, KnownInv, RunInv, NoRun

LEMMA StartPlaces ==
  ASSUME HNext, PlaceInv, Start PROVE PlaceInv'
<1>1. /\ ~Up /\ Up' /\ UNCHANGED <<proc, queue, table, startup>>
      /\ dirs' = Tier /\ todo' = FirstLoop
  BY DEF Start, SetupHierarchy, Up
<1>2. /\ queue = <<>> /\ Tracked(table) = {} /\ startup
      /\ \A p \in Pid : life[p] = "boot" /\ run[p] = NoRun
  BY <1>1 DEF PlaceInv
<1>3. \A type, p : ~Announced(type, p) /\ ~Placed(p)
  BY <1>1, <1>2 DEF Announced, Placed
<1>4. \A p \in Pid : life'[p] = "boot" /\ run'[p] = NoRun
  BY <1>1, <1>2, <1>3 DEF HNext, Live, Ran
<1>5. \A p \in Pid : LateInv(p)' /\ KnownInv(p)' /\ BootInv(p)' /\ RunInv(p)'
  <2> SUFFICES ASSUME NEW p \in Pid
               PROVE  LateInv(p)' /\ KnownInv(p)' /\ BootInv(p)' /\ RunInv(p)'
    OBVIOUS
  <2>1. todo'.kind # "read" /\ queue' = <<>> /\ startup' /\ Tracked(table') = {}
    BY <1>1, <1>2 DEF FirstLoop, IdleTodo, Tracked
  <2>2. ~Pending(p)'
    BY <2>1 DEF Pending
  <2>3. BootInv(p)'
    BY <2>1, <2>2 DEF BootInv
  <2> QED BY <1>4, <2>3 DEF LateInv, KnownInv, RunInv, NoRun
<1> QED BY <1>1, <1>2, <1>5 DEF PlaceInv

-----------------------------------------------------------------------------
(* The invariant holds at first and every step keeps it.                    *)

LEMMA InitPlaces ==
  ASSUME HInit PROVE PlaceInv
<1>1. /\ queue = <<>> /\ dirs = Tier /\ startup
      /\ todo = FirstLoop /\ Tracked(table) = {} /\ Up
      /\ \A p \in Pid : life[p] = "boot" /\ run[p] = NoRun
  BY EmptyTableOK DEF HInit, Init, Up
<1>2. \A p \in Pid : LateInv(p) /\ KnownInv(p) /\ BootInv(p) /\ RunInv(p)
  BY <1>1, FreshPlaces
<1> QED BY <1>1, <1>2 DEF PlaceInv

LEMMA StutterPlaces ==
  ASSUME PlaceInv, UNCHANGED hvars PROVE PlaceInv'
<1>1. UNCHANGED <<proc, queue, table, rules, startup, dirs, todo, status, life, run, collected>>
  BY DEF hvars, vars
<1>2. \A p : /\ InPlace(p)' <=> InPlace(p)
             /\ Pending(p)' <=> Pending(p)
             /\ Calm(p)' <=> Calm(p)
             /\ Alive(p)' <=> Alive(p)
  BY <1>1 DEF InPlace, Right, Pending, Calm, Unruled, Tracked, Alive
<1>3. \A p : LateInv(p)' <=> LateInv(p)
  BY <1>1, <1>2 DEF LateInv, Coming
<1>4. \A p : KnownInv(p)' <=> KnownInv(p)
  BY <1>1 DEF KnownInv, Coming, Knows, Tracked
<1>5. \A p : BootInv(p)' <=> BootInv(p)
  BY <1>1, <1>2 DEF BootInv, Right, Tracked
<1>6. \A p : RunInv(p)' <=> RunInv(p)
  <2>1. \A p, i : Awaits(p, i)' <=> Awaits(p, i)
    BY <1>1, <1>2 DEF Awaits
  <2>2. \A c : Unruled(c)' <=> Unruled(c)
    BY <1>1 DEF Unruled
  <2> QED BY <1>1, <1>2, <2>1, <2>2 DEF RunInv
<1> QED BY <1>1, <1>2, <1>3, <1>4, <1>5, <1>6 DEF PlaceInv, Up, Tracked

LEMMA NextPlaces ==
  ASSUME PlainRules, TypeOK, TypeOK', PlaceInv, [HNext]_hvars PROVE PlaceInv'
<1>1. CASE UNCHANGED hvars
  BY <1>1, StutterPlaces
<1>2. CASE HNext
  <2>1. CASE DaemonStep /\ status = "running"
    <3>1. CASE OnShutdown
      BY <1>2, <3>1, StopPlaces
    <3>2. CASE Ruled /\ Handled /\ Honours /\ status' \in {status, "hung"}
      BY <1>2, <3>2, HandledPlaces
    <3> QED BY <2>1, <3>1, <3>2, RunningHandled
  <2>2. CASE DaemonStep /\ status # "running"
    <3>1. Teardown \/ \E p \in Pid : Restore(p)
      BY <2>2 DEF DaemonStep, ProcEvents, Loops, Timers, Requests, OnFork, OnForkBomb,
                  OnExec, OnComm, OnExit, ScanList, ScanRead, ScanClassify, Recheck,
                  EndGrace, OnRescan, OnRecheck, OnGc, OnForeground, OnPlace, OnReload,
                  OnPressure, OnShutdown, Take, Waiting
    <3>2. CASE Teardown
      BY <1>2, <3>2, EndsPlaces DEF Teardown
    <3> QED BY <1>2, <3>1, <3>2, StopPlaces
  <2>3. CASE GcTier
    BY <1>2, <2>3, GcTierPlaces
  <2>4. CASE Crash
    BY <1>2, <2>4, EndsPlaces DEF Crash
  <2>5. CASE Start
    BY <1>2, <2>5, StartPlaces
  <2>6. CASE Environment
    BY <1>2, <2>6, EnvironmentPlaces
  <2>7. CASE Up /\ Producers
    BY <1>2, <2>7, ProducersPlace
  <2> QED BY <1>2, <2>1, <2>2, <2>3, <2>4, <2>5, <2>6, <2>7 DEF HNext, Next
<1> QED BY <1>1, <1>2

(* The history adds nothing to what the daemon does.                        *)
LEMMA HistoryImplements == HSpec => Spec
<1>1. HInit => Init
  BY DEF HInit
<1>2. [HNext]_hvars => [Next]_vars
  BY DEF HNext, hvars
<1> QED BY <1>1, <1>2, PTL DEF HSpec, Spec

(* The inductive invariant of the places: what a process is due, it has, or *)
(* an event or a loop that is on its way brings it, or its tier is one that *)
(* the collections of this instance removed.                                *)
THEOREM PlacesInvariance ==
  ASSUME PlainRules PROVE HSpec => [](TypeOK /\ PlaceInv)
<1>1. HSpec => []TypeOK
  BY HistoryImplements, TypeCorrect, PTL
<1>2. HInit => PlaceInv
  BY InitPlaces
<1>3. TypeOK /\ TypeOK' /\ PlaceInv /\ [HNext]_hvars => PlaceInv'
  BY NextPlaces
<1> QED BY <1>1, <1>2, <1>3, PTL DEF HSpec

(* While a daemon runs, only its own collections can have removed a tier    *)
(* that a rule names.                                                       *)
LEMMA InPlaceSettled ==
  ASSUME PlainRules, TypeOK, PlaceInv, Up, NEW p \in Pid, InPlace(p) PROVE Settled(p)
<1>1. Tier \ dirs \subseteq collected
  BY DEF PlaceInv
<1>2. \A i \in DOMAIN rules : rules[i].action.opt.cgroup \in Tier \cup {None}
  BY DEF TypeOK, PlainRules, PlainRule
<1> QED BY <1>1, <1>2 DEF InPlace, Right, Settled

(* Whatever runs beside it, the collection of empty tiers, fork bombs,      *)
(* reloads, foreground and pressure changes and failing scans included: a   *)
(* process that executes a program after the grace period, and that none of *)
(* these has overridden since, is in the tier the rules give this program   *)
(* once the channel is empty, unless this tier was collected before.        *)
THEOREM LateExecsPlaced ==
  ASSUME PlainRules PROVE HSpec => []LateExecPlaced
<1>1. TypeOK /\ PlaceInv => LateExecPlaced
  <2> SUFFICES ASSUME TypeOK, PlaceInv, Quiet, NEW p \in Pid, Alive(p), life[p] = "late"
               PROVE  Settled(p)
    BY DEF LateExecPlaced
  <2>1. ~Coming("Exec", p)
    BY DEF Quiet, Coming
  <2>2. InPlace(p) /\ Up
    BY <2>1 DEF PlaceInv, LateInv, Quiet, Up
  <2> QED BY <2>2, InPlaceSettled
<1> QED BY <1>1, PlacesInvariance, PTL

(* A process that was there when the daemon started, and that nothing has   *)
(* overridden since, is where the rules of this instance want it once the   *)
(* grace period is over and a scan was made, unless the tier was collected: *)
(* a collection may well come before this scan.                             *)
THEOREM BootAlwaysPlaced ==
  ASSUME PlainRules PROVE HSpec => []BootPlaced
<1>1. TypeOK /\ PlaceInv => BootPlaced
  <2> SUFFICES ASSUME TypeOK, PlaceInv, Quiet, ~startup,
                      NEW p \in Pid, Alive(p), life[p] = "boot"
               PROVE  Settled(p)
    BY DEF BootPlaced
  <2>1. BootInv(p) /\ todo.kind = "idle" /\ Up
    BY DEF PlaceInv, Quiet, Up
  <2>2. InPlace(p)
    BY <2>1 DEF BootInv, InPlace
  <2> QED BY <2>1, <2>2, InPlaceSettled
<1> QED BY <1>1, PlacesInvariance, PTL

(* A command that a client runs in a tier after the grace period, and that  *)
(* no rule names, is in this tier once the channel is empty, and stays      *)
(* there as long as nothing overrides it, unless the tier was collected.    *)
THEOREM RunsInTier ==
  ASSUME PlainRules PROVE HSpec => []RunInTier
<1> DEFINE Lives == \A p \in Pid : run[p].state # "no" => Alive(p)
<1>1. HSpec => []Lives
  <2>1. HInit => Lives
    BY DEF HInit, NoRun
  <2>2. Lives /\ [HNext]_hvars => Lives'
    <3> SUFFICES ASSUME Lives, [HNext]_hvars, NEW p \in Pid, run'[p].state # "no"
                 PROVE  Alive(p)'
      OBVIOUS
    <3>1. CASE HNext
      <4>1. run'[p] = Ran(p)
        BY <3>1 DEF HNext
      <4> QED BY <4>1 DEF Ran, NoRun, Alive
    <3>2. CASE UNCHANGED hvars
      BY <3>2 DEF hvars, vars, Alive
    <3> QED BY <3>1, <3>2
  <2> HIDE DEF Lives
  <2> QED BY <2>1, <2>2, PTL DEF HSpec
<1>2. PlaceInv /\ Lives => RunInTier
  <2> SUFFICES ASSUME PlaceInv, Lives, Quiet, NEW p \in Pid, run[p].state = "runs"
               PROVE  proc[p].cg = run[p].tier \/ run[p].tier \in collected
    BY DEF RunInTier
  <2>1. RunInv(p) /\ Tier \ dirs \subseteq collected
    BY DEF PlaceInv, Quiet, Up
  <2> QED BY <2>1 DEF RunInv, Quiet
<1> HIDE DEF Lives
<1> QED BY <1>1, <1>2, PlacesInvariance, PTL

-----------------------------------------------------------------------------
(* ReturnedHome.  What one step of the event loop makes of the record of    *)
(* where a process came from.                                               *)

Moved(p) == p \in MovedPids(table)

(* In the grace period nothing is classified, so nothing is moved.          *)
Dormant ==
  startup => /\ todo.kind \notin {"classify", "recheck"}
             /\ \A p \in Tracked(table) : ~table.entries[p].recheck

(* Unless something else decides about p: what is recorded is where the     *)
(* process is; the rules move nothing that is not recorded and does not     *)
(* count as moved; and that changes only when the process is new or becomes *)
(* a program that no rule moves.                                            *)
Records(p) ==
  LET was == p \in Tracked(table)
      is  == p \in Tracked(table')
      old == table.entries[p]
      new == table'.entries[p]
  IN  ~Overridden(p) =>
      /\ is /\ new.orig # None => new.orig = proc[p].cg \/ (was /\ new.orig = old.orig)
      /\ proc'[p].cg # proc[p].cg =>
           ~startup /\ is /\ Moved(p)' /\ new.orig # None /\ ~Unmoved(new.info.comm)
      /\ Moved(p) /\ is =>
           Moved(p)' \/ Hears("Fork", p) \/ startup \/ Unmoved(new.info.comm)
      /\ Hears("Fork", p) /\ Exists(p) /\ is =>
           new.info.comm = proc[p].comm \/ (was /\ ~(throttled' \subseteq throttled))

Recorded == Dormant' /\ \A p \in Pid : Records(p)

LEMMA SameRecords ==
  ASSUME NEW p \in Pid, ~(Hears("Fork", p) /\ Exists(p)),
         Overridden(p) \/ /\ proc'[p].cg = proc[p].cg
                          /\ p \in Tracked(table') <=> p \in Tracked(table)
                          /\ p \in Tracked(table) => table'.entries[p] = table.entries[p]
  PROVE  Records(p)
<1> SUFFICES ASSUME ~Overridden(p) PROVE Records(p)
  BY DEF Records
<1>1. Moved(p)' <=> Moved(p)
  BY DEF Moved, MovedPids
<1> QED BY <1>1 DEF Records

(* What no rule moves is not moved, and what a rule moves is.               *)
LEMMA VerdictMoves ==
  ASSUME Ruled, NEW t, IsTable(t), NEW p \in Tracked(t), p \notin foreground
  PROVE  LET a == Verdict(t, p) IN
         a # None /\ a.opt.cgroup # None <=> ~Unmoved(t.entries[p].info.comm)
<1>1. Answers(rules, t.entries[p].info.comm, Verdict(t, p))
  BY PlainVerdict DEF Ruled, TypeOK
<1> QED BY <1>1 DEF Answers, Unmoved

LEMMA ClassifyAndApplyRecords ==
  ASSUME Ruled, NEW t, IsTable(t), NEW p \in Tracked(t), p \notin foreground,
         ClassifyAndApply(t, p)
  PROVE  LET c   == t.entries[p].info.comm
             new == table'.entries[p]
         IN  /\ new.orig \in {t.entries[p].orig, proc[p].cg}
             /\ proc'[p].cg # proc[p].cg => ~Unmoved(c) /\ new.orig # None
             /\ ~Unmoved(c) => Moved(p)'
<1> DEFINE c == t.entries[p].info.comm
           a == Verdict(t, p)
<1>1. TypeOK /\ p \in Pid /\ proc \in [Pid -> Process] /\ proc[p].cg \in Group
  BY DEF Ruled, TypeOK, IsTable, IsMap, Tracked, Process
<1>2. a # None /\ a.opt.cgroup # None <=> ~Unmoved(c)
  BY VerdictMoves
<1>3. SameTree(t, table') /\ (a # None => table'.entries[p].applied = a)
  BY <1>1, ClassifyAndApplyTree
<1>4. CASE a = None
  <2>1. table' = MarkClassified(t, p) /\ proc' = proc
    BY <1>4 DEF ClassifyAndApply
  <2>2. table'.entries[p].orig = t.entries[p].orig
    BY <1>1, <2>1, MarkClassifiedOK
  <2> HIDE DEF a, c
  <2> QED BY <1>2, <1>4, <2>1, <2>2 DEF c
<1>5. CASE a # None
  <2> DEFINE moves == a.opt.cgroup # None
             kids == IF a.children THEN ChildrenOf(t, p) \cap Tracked(t) ELSE {}
             u == IF moves /\ Exists(p) THEN SetOriginal(t, p, proc[p].cg) ELSE t
             rechecks == a.opt.recheck_secs # None
  <2>1. /\ table' = SetApplied(u, p, a, rechecks)
        /\ proc' = IF moves THEN Assigned(proc, {p} \cup kids, a.opt.cgroup) ELSE proc
    BY <1>5 DEF ClassifyAndApply
  <2>2. a \in Action /\ rechecks \in BOOLEAN
    BY <1>1, <1>5, VerdictType DEF Ruled, TypeOK
  <2> HIDE DEF a, rechecks, kids
  <2>3. /\ IsTable(u) /\ Tracked(u) = Tracked(t)
        /\ u.entries[p].orig \in {t.entries[p].orig, proc[p].cg}
        /\ moves /\ Exists(p) => u.entries[p].orig # None
    BY <1>1, SetOriginalOK
  <2> HIDE DEF u
  <2>4. table'.entries[p].orig = u.entries[p].orig
    BY <2>1, <2>2, <2>3, SetAppliedOK
  <2>5. Moved(p)' <=> moves
    BY <1>3, <1>5 DEF SameTree, Moved, MovedPids
  <2>6. proc'[p].cg # proc[p].cg => moves /\ Exists(p)
    BY <1>1, <2>1 DEF Assigned, Exists, Process
  <2> HIDE DEF c
  <2> QED BY <1>2, <1>5, <2>3, <2>4, <2>5, <2>6 DEF c
<1> QED BY <1>4, <1>5

(* A process of the table is classified.                                    *)
LEMMA JudgedRecords ==
  ASSUME Ruled, ~startup, NEW p \in Tracked(table), ClassifyAndApply(table, p),
         \A q : ~Hears("Fork", q)
  PROVE  \A q \in Pid : Records(q)
<1>1. IsTable(table) /\ p \in Pid
  BY DEF Ruled, TypeOK, IsTable, IsMap, Tracked
<1>2. /\ SameTree(table, table')
      /\ \A q \in Tracked(table) \ {p} : table'.entries[q] = table.entries[q]
      /\ \A q \in Pid \ {p} : proc'[q] = proc[q]
  BY <1>1, ClassifyAndApplyPlaces
<1>3. ASSUME NEW q \in Pid, q # p PROVE Records(q)
  BY <1>2, <1>3, SameRecords DEF SameTree
<1>4. CASE p \in foreground
  BY <1>3, <1>4 DEF Records, Overridden
<1>5. CASE p \notin foreground
  <2> DEFINE c == table.entries[p].info.comm
  <2>1. /\ table'.entries[p].orig \in {table.entries[p].orig, proc[p].cg}
        /\ proc'[p].cg # proc[p].cg => ~Unmoved(c) /\ table'.entries[p].orig # None
        /\ ~Unmoved(c) => Moved(p)'
    BY <1>1, <1>5, ClassifyAndApplyRecords
  <2>2. table'.entries[p].info.comm = c /\ p \in Tracked(table')
    BY <1>2 DEF SameTree
  <2> HIDE DEF c
  <2>3. Records(p)
    BY <2>1, <2>2 DEF Records
  <2> QED BY <1>3, <2>3
<1> QED BY <1>4, <1>5

(* A process is read again and classified.                                  *)
LEMMA ReadRecords ==
  ASSUME Ruled, ~startup, NEW p \in Pid, Exists(p),
         ClassifyAndApply(Insert(table, p, ReadInfo(p)), p), \A q : ~Hears("Fork", q)
  PROVE  \A q \in Pid : Records(q)
<1> DEFINE t == Insert(table, p, ReadInfo(p))
<1>1. IsTable(table) /\ ReadInfo(p) \in Info
  BY ReadInfoType DEF Ruled, TypeOK
<1>2. /\ IsTable(t) /\ Tracked(t) = Tracked(table) \cup {p}
      /\ t.entries[p].info = ReadInfo(p)
      /\ t.entries[p].orig = IF p \in Tracked(table) THEN table.entries[p].orig ELSE None
      /\ \A q \in Tracked(table) \ {p} : t.entries[q] = table.entries[q]
  BY <1>1, InsertOK
<1>3. ClassifyAndApply(t, p) /\ p \in Tracked(t)
  BY <1>2
<1> HIDE DEF t
<1>4. /\ SameTree(t, table')
      /\ \A q \in Tracked(t) \ {p} : table'.entries[q] = t.entries[q]
      /\ \A q \in Pid \ {p} : proc'[q] = proc[q]
  BY <1>2, <1>3, ClassifyAndApplyPlaces
<1>5. ASSUME NEW q \in Pid, q # p PROVE Records(q)
  BY <1>2, <1>4, <1>5, SameRecords DEF SameTree
<1>6. CASE p \in foreground
  BY <1>5, <1>6 DEF Records, Overridden
<1>7. CASE p \notin foreground
  <2> DEFINE c == t.entries[p].info.comm
  <2>1. /\ table'.entries[p].orig \in {t.entries[p].orig, proc[p].cg}
        /\ proc'[p].cg # proc[p].cg => ~Unmoved(c) /\ table'.entries[p].orig # None
        /\ ~Unmoved(c) => Moved(p)'
    BY <1>2, <1>3, <1>7, ClassifyAndApplyRecords
  <2>2. table'.entries[p].info.comm = c /\ p \in Tracked(table')
    BY <1>3, <1>4 DEF SameTree
  <2> HIDE DEF c
  <2>3. Records(p)
    BY <1>2, <2>1, <2>2 DEF Records
  <2> QED BY <1>5, <2>3
<1> QED BY <1>6, <1>7

(* A process is read and counts as classified.                              *)
LEMMA NotedRecords ==
  ASSUME TypeOK, Dormant, NEW p \in Pid, NEW info \in Info, info.comm = proc[p].comm,
         table' = MarkClassified(Insert(table, p, info), p),
         \A q \in Pid : Untouched(q),
         Hears("Fork", p) \/ startup,
         \A q : Hears("Fork", q) => q = p
  PROVE  /\ \A q \in Pid : Records(q)
         /\ startup => \A q \in Tracked(table') : ~table'.entries[q].recheck
<1> DEFINE t == Insert(table, p, info)
<1>1. IsTable(table)
  BY DEF TypeOK
<1>2. /\ IsTable(t) /\ Tracked(t) = Tracked(table) \cup {p}
      /\ t.entries[p].info = info
      /\ t.entries[p].applied = None /\ ~t.entries[p].recheck
      /\ t.entries[p].orig = IF p \in Tracked(table) THEN table.entries[p].orig ELSE None
      /\ \A q \in Tracked(table) \ {p} : t.entries[q] = table.entries[q]
  BY <1>1, InsertOK
<1> HIDE DEF t
<1>3. table' = MarkClassified(t, p)
  BY DEF t
<1>4. /\ SameTree(t, table')
      /\ \A q \in Tracked(t) \ {p} : table'.entries[q] = t.entries[q]
      /\ table'.entries[p].applied = None /\ ~table'.entries[p].recheck
      /\ table'.entries[p].orig = t.entries[p].orig
  BY <1>2, <1>3, MarkClassifiedOK
<1>5. \A q \in Pid : Overridden(q) \/ proc'[q].cg = proc[q].cg
  BY DEF Untouched, Aside
<1>6. ASSUME NEW q \in Pid, q # p PROVE Records(q)
  BY <1>2, <1>4, <1>5, <1>6, SameRecords DEF SameTree
<1>7. p \in Tracked(table') /\ table'.entries[p].info.comm = proc[p].comm
  BY <1>2, <1>4 DEF SameTree
<1>8. Records(p)
  <2>1. table'.entries[p].orig # None
          => p \in Tracked(table) /\ table'.entries[p].orig = table.entries[p].orig
    BY <1>2, <1>4
  <2> QED BY <1>5, <1>7, <2>1 DEF Records
<1>9. ASSUME startup, NEW q \in Tracked(table') PROVE ~table'.entries[q].recheck
  <2>1. Tracked(table') = Tracked(table) \cup {p}
    BY <1>2, <1>4 DEF SameTree
  <2>2. CASE q = p
    BY <1>4, <2>2
  <2>3. CASE q # p
    BY <1>2, <1>4, <1>9, <2>1, <2>3 DEF Dormant
  <2> QED BY <2>2, <2>3
<1> QED BY <1>6, <1>8, <1>9

(* An entry is removed.                                                     *)
LEMMA RemovedRecords ==
  ASSUME TypeOK, NEW p \in Pid, proc' = proc, table' = Remove(table, p),
         \A q : ~Hears("Fork", q)
  PROVE  /\ \A q \in Pid : Records(q)
         /\ \A q \in Tracked(table') : q \in Tracked(table) /\ table'.entries[q] = table.entries[q]
<1>1. IsTable(table)
  BY DEF TypeOK
<1>2. /\ Tracked(table') = Tracked(table) \ {p}
      /\ \A q \in Tracked(table') : table'.entries[q] = table.entries[q]
  BY <1>1, RemoveOK
<1>3. ASSUME NEW q \in Pid, q # p PROVE Records(q)
  BY <1>2, <1>3, SameRecords
<1>4. Records(p)
  BY <1>2 DEF Records, Moved, MovedPids
<1> QED BY <1>2, <1>3, <1>4

LEMMA ScanReadRecords ==
  ASSUME Ruled, Dormant, ScanRead PROVE Recorded
<1> DEFINE live  == todo.pids
           new   == {p \in live \ Tracked(table) : Exists(p)}
           fresh == [p \in new |-> ReadInfo(p)]
<1>1. TypeOK /\ queue \in Seq(Event) /\ IsTable(table) /\ proc \in [Pid -> Process]
  BY DEF Ruled, TypeOK
<1>2. live \in SUBSET Pid
  BY <1>1 DEF TypeOK, Todo
<1>3. IsMap(fresh, Pid, Info)
  BY <1>1, <1>2, ReadInfoType DEF IsMap
<1>4. table' = MergeScan(table, fresh, live) /\ proc' = proc /\ startup' = startup
  BY DEF ScanRead
<1>5. \A q \in Tracked(table') :
        IF q \in Tracked(table) THEN table'.entries[q] = table.entries[q]
        ELSE /\ table'.entries[q].applied = None /\ table'.entries[q].orig = None
             /\ ~table'.entries[q].recheck
  <2> HIDE DEF live, new, fresh
  <2> QED BY <1>1, <1>2, <1>3, <1>4, MergeScanOK
<1>6. \A q : ~Hears("Fork", q)
  BY <1>1, HearsNothing DEF ScanRead
<1>7. ASSUME NEW q \in Pid PROVE Records(q)
  <2>1. CASE q \in Tracked(table) <=> q \in Tracked(table')
    BY <1>4, <1>5, <1>6, <2>1, SameRecords
  <2>2. CASE q \in Tracked(table) /\ q \notin Tracked(table')
    BY <1>4, <1>6, <2>2 DEF Records, Moved, MovedPids
  <2>3. CASE q \notin Tracked(table) /\ q \in Tracked(table')
    BY <1>4, <1>5, <1>6, <2>3 DEF Records, Moved, MovedPids
  <2> QED BY <2>1, <2>2, <2>3
<1>8. Dormant'
  <2>1. startup => todo' = IdleTodo
    BY DEF ScanRead
  <2>2. startup => \A q \in Tracked(table') : ~table'.entries[q].recheck
    BY <1>5 DEF Dormant
  <2> QED BY <1>4, <2>1, <2>2 DEF Dormant, Tracked, IdleTodo
<1> QED BY <1>7, <1>8 DEF Recorded

(* The handlers that read or forget one process.                            *)
LEMMA ProcEventsRecord ==
  ASSUME Ruled, Dormant, OnFork \/ OnExec \/ OnComm \/ OnExit PROVE Recorded
<1> DEFINE p == Front.pid
           t == Insert(table, p, ReadInfo(p))
<1>1. TypeOK
  BY DEF Ruled
<1>2. PICK type \in {"Fork", "Exec", "Comm", "Exit"} :
        Take(type) /\ (type = "Fork" => OnFork) /\ (type = "Exec" => OnExec)
                   /\ (type = "Comm" => OnComm) /\ (type = "Exit" => OnExit)
  <2>1. \A type, other : Take(type) /\ Take(other) => type = other
    BY DEF Take
  <2> QED BY <2>1 DEF OnFork, OnExec, OnComm, OnExit
<1>3. p \in Pid /\ Hears(type, p) /\ \A s, q : Hears(s, q) => s = type /\ q = p
  BY <1>1, <1>2, TakeHears, EventFields
<1>4. /\ todo' = todo /\ startup' = startup /\ todo.kind = "idle" /\ rules' = rules
      /\ ReadInfo(p) \in Info /\ ReadInfo(p).comm = proc[p].comm
  BY <1>1, <1>2, <1>3, TakeType, ReadInfoType
     DEF TypeOK, ReadInfo, OnFork, OnExec, OnComm, OnExit
<1>5. \/ table' = table /\ proc' = proc /\ ~(Hears("Fork", p) /\ Exists(p))
      \/ /\ proc' = proc /\ table' = MarkClassified(t, p)
         /\ Hears("Fork", p) \/ (startup /\ \A q : ~Hears("Fork", q))
      \/ ~startup /\ Exists(p) /\ ClassifyAndApply(t, p) /\ \A q : ~Hears("Fork", q)
      \/ proc' = proc /\ table' = Remove(table, p) /\ \A q : ~Hears("Fork", q)
  <2>1. CASE type = "Fork"
    BY <1>2, <1>3, <2>1 DEF OnFork, NoteFork, Exists, ReadInfo
  <2>2. CASE type = "Exec"
    BY <1>2, <1>3, <2>2 DEF OnExec
  <2>3. CASE type = "Comm"
    BY <1>2, <1>3, <2>3 DEF OnComm
  <2>4. CASE type = "Exit"
    BY <1>2, <1>3, <2>4 DEF OnExit
  <2> QED BY <2>1, <2>2, <2>3, <2>4
<1> DEFINE Asleep == startup => \A q \in Tracked(table') : ~table'.entries[q].recheck
           AllRecord == \A q \in Pid : Records(q)
<1>6. CASE table' = table /\ proc' = proc /\ ~(Hears("Fork", p) /\ Exists(p))
  <2>1. AllRecord
    BY <1>3, <1>6, SameRecords
  <2>2. Asleep
    BY <1>6 DEF Dormant
  <2> QED BY <1>4, <2>1, <2>2 DEF Recorded, Dormant, Tracked
<1>7. CASE /\ proc' = proc /\ table' = MarkClassified(t, p)
           /\ Hears("Fork", p) \/ (startup /\ \A q : ~Hears("Fork", q))
  <2>1. \A q \in Pid : Untouched(q)
    BY <1>4, <1>7, StillUntouched
  <2>2. AllRecord /\ Asleep
    BY <1>1, <1>3, <1>4, <1>7, <2>1, NotedRecords
  <2> QED BY <1>4, <2>2 DEF Recorded, Dormant, Tracked
<1>8. CASE ~startup /\ Exists(p) /\ ClassifyAndApply(t, p) /\ \A q : ~Hears("Fork", q)
  <2>1. AllRecord
    BY <1>3, <1>8, ReadRecords
  <2> QED BY <1>4, <1>8, <2>1 DEF Recorded, Dormant
<1>9. CASE proc' = proc /\ table' = Remove(table, p) /\ \A q : ~Hears("Fork", q)
  <2>1. AllRecord /\ Asleep
    BY <1>1, <1>3, <1>9, RemovedRecords DEF Dormant
  <2> QED BY <1>4, <2>1 DEF Recorded, Dormant, Tracked
<1> QED BY <1>5, <1>6, <1>7, <1>8, <1>9

(* A detection: in the grace period the child is read all the same, after   *)
(* it nothing is known of the child but what an earlier owner of its pid    *)
(* has left.                                                                *)
LEMMA OnForkBombRecords ==
  ASSUME Ruled, Dormant, OnForkBomb PROVE Recorded
<1> DEFINE p == Front.pid
<1>1. TypeOK /\ Take("Fork") /\ \A q \in Pid : Untouched(q)
  BY OnForkBombUntouched DEF Ruled, OnForkBomb
<1>2. p \in Pid /\ Hears("Fork", p) /\ \A s, q : Hears(s, q) => s = "Fork" /\ q = p
  BY <1>1, TakeHears, EventFields
<1>3. /\ todo' = todo /\ startup' = startup /\ todo.kind = "idle"
      /\ ~(throttled' \subseteq throttled)
  BY <1>1, TakeType DEF OnForkBomb
<1>4. CASE table' = table
  <2>1. \A q \in Pid : Overridden(q) \/ proc'[q].cg = proc[q].cg
    BY <1>1 DEF Untouched, Aside
  <2>2. ASSUME NEW q \in Pid PROVE Records(q)
    <3>1. Moved(q)' <=> Moved(q)
      BY <1>4 DEF Moved, MovedPids, Tracked
    <3> QED BY <1>3, <1>4, <2>1, <3>1 DEF Records, Tracked
  <2>3. Dormant'
    BY <1>3, <1>4 DEF Dormant, Tracked
  <2> QED BY <2>2, <2>3 DEF Recorded
<1>5. CASE table' # table
  <2> DEFINE info == [ppid |-> proc'[p].ppid, comm |-> proc'[p].comm, path |-> proc'[p].cg]
  <2>1. table' = MarkClassified(Insert(table, p, info), p)
    BY <1>5 DEF OnForkBomb, NoteFork
  <2>2. proc' \in [Pid -> Process]
    BY <1>1, AssignedType DEF OnForkBomb, TypeOK
  <2>3. info \in Info /\ info.comm = proc[p].comm
    BY <1>1, <1>2, <2>2 DEF Info, Process, Untouched
  <2> HIDE DEF info
  <2>4. /\ \A q \in Pid : Records(q)
        /\ startup => \A q \in Tracked(table') : ~table'.entries[q].recheck
    BY <1>1, <1>2, <2>1, <2>3, NotedRecords
  <2> QED BY <1>3, <2>4 DEF Recorded, Dormant, Tracked
<1> QED BY <1>4, <1>5

(* The steps that leave the entries alone, but for those that something     *)
(* else decides about.                                                      *)
LEMMA IdleRecords ==
  ASSUME Ruled, Dormant, startup' => startup, \A q : ~Hears("Fork", q),
         startup => todo'.kind \notin {"classify", "recheck"},
         Tracked(table') = Tracked(table),
         \A q \in Tracked(table) : table'.entries[q].recheck = table.entries[q].recheck,
         \A q \in Pid :
           Overridden(q) \/ /\ proc'[q].cg = proc[q].cg
                            /\ q \in Tracked(table) => table'.entries[q] = table.entries[q]
  PROVE  Recorded
<1>1. Dormant'
  <2>1. Tracked(table)' = Tracked(table)
    BY DEF Tracked
  <2> QED BY <2>1 DEF Dormant
<1>2. ASSUME NEW q \in Pid PROVE Records(q)
  BY <1>2, SameRecords
<1> QED BY <1>1, <1>2 DEF Recorded

LEMMA RequestsRecord ==
  ASSUME Ruled, Dormant, OnPlace \/ OnForeground \/ OnReload \/ OnPressure \/ OnGc
  PROVE  Recorded
<1>1. TypeOK /\ IsTable(table) /\ proc \in [Pid -> Process]
  BY DEF Ruled, TypeOK
<1>2. PICK type \in {"Place", "Foreground", "Reload", "Pressure", "Gc"} :
        Take(type) /\ Hears(type, Front.pid) /\ \A t, q : Hears(t, q) => t = type
  BY <1>1, TakeHears DEF OnPlace, OnForeground, OnReload, OnPressure, OnGc
<1>3. /\ \A q : ~Hears("Fork", q)
      /\ todo.kind = "idle" /\ todo' = todo /\ startup' = startup
  BY <1>1, <1>2, TakeType DEF OnPlace, OnForeground, OnReload, OnPressure, OnGc
<1>4. CASE OnPlace
  <2>1. table' = table /\ Placed(Front.pid)
    BY <1>1, <1>4, TakeHears, PlacedHears DEF OnPlace
  <2>2. \A q \in Pid : q # Front.pid => proc'[q] = proc[q]
    BY <1>1, <1>4, AssignedOnly DEF OnPlace
  <2>3. \A q \in Pid : Overridden(q) \/ proc'[q].cg = proc[q].cg
    BY <2>1, <2>2 DEF Overridden
  <2> QED BY <1>3, <2>1, <2>3, IdleRecords
<1>5. CASE OnForeground
  <2>1. table' = table /\ \A q \in Pid : Overridden(q) \/ proc'[q].cg = proc[q].cg
    BY <1>5, OnForegroundUntouched DEF OnForeground, Untouched, Aside
  <2> QED BY <1>3, <2>1, IdleRecords
<1>6. CASE OnReload
  <2>1. table' = table /\ proc' = proc
    BY <1>6 DEF OnReload
  <2> QED BY <1>3, <2>1, IdleRecords
<1>7. CASE OnPressure
  <2>1. \A q \in Pid :
          Overridden(q) \/ /\ proc'[q].cg = proc[q].cg
                           /\ q \in Tracked(table) => table'.entries[q] = table.entries[q]
    BY <1>7, OnPressureUntouched DEF Untouched, Aside
  <2>2. /\ Tracked(table') = Tracked(table)
        /\ \A q \in Tracked(table) : table'.entries[q].recheck = table.entries[q].recheck
    BY <1>1, <1>7, MarkClassifiedFalseOK DEF OnPressure
  <2> QED BY <1>3, <2>1, <2>2, IdleRecords
<1>8. CASE OnGc
  <2>1. table' = table /\ proc' = proc
    BY <1>8 DEF OnGc
  <2> QED BY <1>3, <2>1, IdleRecords
<1> QED BY <1>4, <1>5, <1>6, <1>7, <1>8

LEMMA TimersRecord ==
  ASSUME Ruled, Dormant, EndGrace \/ OnRescan \/ OnRecheck \/ ScanList PROVE Recorded
<1>1. TypeOK /\ queue \in Seq(Event)
  BY DEF Ruled, TypeOK
<1>2. table' = table /\ proc' = proc /\ (startup' => startup)
  BY DEF EndGrace, OnRescan, OnRecheck, ScanList
<1>3. \A q : ~Hears("Fork", q)
  <2>1. CASE EndGrace \/ ScanList
    BY <1>1, <2>1, HearsNothing DEF EndGrace, ScanList
  <2>2. CASE OnRescan \/ OnRecheck
    BY <1>1, <2>2, TakeHears DEF OnRescan, OnRecheck
  <2> QED BY <2>1, <2>2
<1>4. ASSUME startup PROVE todo'.kind \notin {"classify", "recheck"}
  <2>1. {p \in Tracked(table) : table.entries[p].recheck} = {}
    BY <1>4 DEF Dormant
  <2>2. CASE OnRecheck
    <3>1. todo' = IdleTodo
      BY <2>1, <2>2 DEF OnRecheck
    <3> QED BY <3>1 DEF IdleTodo
  <2>3. CASE EndGrace \/ OnRescan \/ ScanList
    BY <2>3 DEF EndGrace, OnRescan, ScanList
  <2> QED BY <2>2, <2>3
<1> QED BY <1>2, <1>3, <1>4, IdleRecords

LEMMA ScanClassifyRecords ==
  ASSUME Ruled, Dormant, NEW p \in Pid, ScanClassify(p) PROVE Recorded
<1>1. TypeOK /\ queue \in Seq(Event)
  BY DEF Ruled, TypeOK
<1>2. /\ p \in Tracked(table) /\ todo.kind = "classify" /\ queue' = queue
      /\ startup' = startup /\ ClassifyAndApply(table, p)
  BY <1>1 DEF TypeOK, ScanClassify
<1>3. ~startup
  BY <1>2 DEF Dormant
<1>4. \A q : ~Hears("Fork", q)
  BY <1>1, <1>2, HearsNothing
<1>5. \A q \in Pid : Records(q)
  BY <1>2, <1>3, <1>4, JudgedRecords
<1> QED BY <1>2, <1>3, <1>5 DEF Recorded, Dormant

LEMMA RecheckRecords ==
  ASSUME Ruled, Dormant, NEW p \in Pid, Recheck(p) PROVE Recorded
<1>1. TypeOK /\ queue \in Seq(Event)
  BY DEF Ruled, TypeOK
<1>2. todo.kind = "recheck" /\ queue' = queue /\ startup' = startup
  BY DEF Recheck
<1>3. ~startup
  BY <1>2 DEF Dormant
<1>4. \A q : ~Hears("Fork", q)
  BY <1>1, <1>2, HearsNothing
<1>5. \A q \in Pid : Records(q)
  <2>1. CASE p \in foreground
    BY <1>4, <2>1, SameRecords DEF Recheck
  <2>2. CASE p \notin foreground /\ Exists(p)
    BY <1>1, <1>3, <1>4, <2>2, ReadRecords DEF Recheck
  <2>3. CASE p \notin foreground /\ ~Exists(p)
    BY <1>1, <1>4, <2>3, RemovedRecords DEF Recheck
  <2> QED BY <2>1, <2>2, <2>3
<1> QED BY <1>2, <1>3, <1>5 DEF Recorded, Dormant

LEMMA RunningRecorded ==
  ASSUME Ruled, Dormant, DaemonStep, status = "running" PROVE Recorded \/ OnShutdown
<1>1. ~Teardown /\ \A p \in Pid : ~Restore(p)
  BY DEF Teardown, Restore
<1>2. CASE ProcEvents
  BY <1>2, ProcEventsRecord, OnForkBombRecords DEF ProcEvents
<1>3. CASE Loops
  BY <1>1, <1>3, TimersRecord, ScanReadRecords, ScanClassifyRecords, RecheckRecords
     DEF Loops
<1>4. CASE Timers
  BY <1>4, TimersRecord, RequestsRecord DEF Timers
<1>5. CASE Requests
  BY <1>5, RequestsRecord DEF Requests
<1> QED BY <1>1, <1>2, <1>3, <1>4, <1>5 DEF DaemonStep

-----------------------------------------------------------------------------
(* The inductive invariant of the way home.                                 *)

(* What the table knows of p is nothing that a rule moves.                  *)
Hushed(p) == p \in Tracked(table) => Unmoved(table.entries[p].info.comm)

(* A live process loses its entry only to an exit of an earlier owner of    *)
(* its pid, or to a scan that began before it: its fork is on its way then. *)
OrderInv(p) ==
  /\ \A j \in DOMAIN queue : queue[j].type = "Exit" /\ queue[j].pid = p => Behind(j, p)
  /\ home[p] # None /\ todo.kind = "read" => p \in todo.pids \/ Forked(p)

(* Until its fork is handled a process is where it was born.  From then on  *)
(* the table records no other place for it, and it is away from there only  *)
(* as one that the rules moved, by its name and by its entry, and whose     *)
(* place is recorded.                                                       *)
HomeInv(p) ==
  home[p] # None =>
    IF Forked(p) THEN proc[p].cg = home[p]
    ELSE /\ Unmoved(proc[p].comm) => Hushed(p)
         /\ p \in Tracked(table) /\ table.entries[p].orig # None
              => table.entries[p].orig = home[p]
         /\ proc[p].cg # home[p] =>
              /\ ~startup /\ Moved(p) /\ table.entries[p].orig # None
              /\ ~Unmoved(proc[p].comm) /\ ~Unmoved(table.entries[p].info.comm)

(* While the daemon stops, what is away from home is on the list, unless    *)
(* its home is a tier that is gone.                                         *)
Listed(p) == p \in todo.pids /\ table.entries[p].orig # None

StopInv(p) ==
  home[p] \notin {None} \cup (Tier \ dirs) /\ ~Pending(p) =>
    /\ Listed(p) => table.entries[p].orig = home[p]
    /\ proc[p].cg # home[p] => Listed(p)

HomesInv ==
  /\ ~Up => \A p \in Pid : home[p] = proc[p].cg
  /\ status = "running" => Dormant /\ \A p \in Pid : Alive(p) => OrderInv(p) /\ HomeInv(p)
  /\ status = "stopping" => \A p \in Pid : Alive(p) => StopInv(p)

(* The home of a process after a step of the event loop.                    *)
Homed(p) ==
  home'[p] # None => /\ home'[p] = home[p] /\ ~Overridden(p) /\ ~Heir(p)
                     /\ Forked(p) => proc'[p].cg = proc[p].cg

LEMMA HandledHomed ==
  ASSUME TypeOK, HNext, NEW p \in Pid, Up, Up', proc'[p].st = "alive",
         queue' = queue \/ (queue # <<>> /\ queue' = Tail(queue))
  PROVE  Homed(p)
<1>1. \A type, q : ~Announced(type, q)
  BY NothingAnnounced DEF TypeOK
<1>2. home'[p] = Home(p)
  BY DEF HNext
<1> QED BY <1>1, <1>2 DEF Home, Homed

LEMMA OrderKept ==
  ASSUME Ruled, Handled, NEW p \in Pid, Alive(p), Homed(p), OrderInv(p) PROVE OrderInv(p)'
<1>1. /\ queue \in Seq(Event) /\ Effect(p) /\ Traced(p)
      /\ queue' = queue \/ (queue # <<>> /\ queue' = Tail(queue))
  BY DEF Ruled, TypeOK, Handled
<1>2. PICK n : Shifted(n)
  BY <1>1, QueueShifted
<1>3. ASSUME NEW j \in DOMAIN queue', queue'[j].type = "Exit", queue'[j].pid = p
      PROVE  Behind(j, p)'
  <2>1. j + n \in DOMAIN queue /\ queue[j + n] = queue'[j] /\ j \in Nat /\ n \in Nat
    BY <1>2 DEF Shifted
  <2>2. PICK i \in DOMAIN queue : i > j + n /\ queue[i].type = "Fork" /\ queue[i].pid = p
    BY <1>3, <2>1 DEF OrderInv, Behind
  <2>3. i \in Nat /\ i > n /\ i - n > j
    BY <1>2, <2>1, <2>2 DEF Shifted
  <2>4. i - n \in DOMAIN queue' /\ queue'[i - n] = queue[i]
    BY <1>2, <2>3 DEF Shifted
  <2> QED BY <2>2, <2>3, <2>4 DEF Behind
<1>4. home'[p] # None /\ todo'.kind = "read" => p \in todo'.pids
  BY <1>1 DEF Traced, Homed, Aside
<1> QED BY <1>3, <1>4 DEF OrderInv

LEMMA HomeKept ==
  ASSUME Ruled, Handled, Recorded, Keeps(table, table'), NEW p \in Pid,
         Alive(p), Homed(p), OrderInv(p), HomeInv(p)
  PROVE  HomeInv(p)'
<1> SUFFICES ASSUME home'[p] # None PROVE HomeInv(p)'
  BY DEF HomeInv
<1> DEFINE was == p \in Tracked(table)
           is  == p \in Tracked(table')
           old == table.entries[p]
           new == table'.entries[p]
<1>1. /\ home'[p] = home[p] /\ home[p] # None /\ ~Overridden(p) /\ ~Aside(p)
      /\ Forked(p) => proc'[p].cg = proc[p].cg
  BY DEF Homed, Aside
<1>2. /\ Effect(p) /\ Ordered(p) /\ Records(p) /\ rules' = rules /\ (startup' => startup)
      /\ queue \in Seq(Event)
      /\ queue' = queue \/ (queue # <<>> /\ queue' = Tail(queue))
  BY <1>1 DEF Handled, Recorded, Ruled, TypeOK, Effect
<1>3. PICK n : Shifted(n)
  BY <1>2, QueueShifted
<1>4. proc'[p].comm = proc[p].comm /\ Exists(p)
  BY <1>2 DEF Effect, Alive, Exists
<1>5. \A c : Unmoved(c)' <=> Unmoved(c)
  BY <1>2 DEF Unmoved
<1>6. (Forked(p) => Forked(p)' \/ Hears("Fork", p)) /\ (Forked(p)' => Forked(p))
  BY <1>3, ComingShifts DEF Coming, Forked
<1>7. Moved(p) => was
  BY DEF Moved, MovedPids
<1>8. CASE Forked(p)'
  BY <1>1, <1>6, <1>8 DEF HomeInv
<1>9. CASE ~Forked(p)' /\ Forked(p)
  <2>1. Hears("Fork", p)
    BY <1>6, <1>9
  <2>2. /\ proc'[p].cg = proc[p].cg /\ proc[p].cg = home[p]
        /\ was => old.orig = None /\ throttled' \subseteq throttled
    BY <1>1, <1>9 DEF HomeInv, Homed, Heir
  <2>3. is => new.info.comm = proc[p].comm
    BY <1>1, <1>2, <1>4, <2>1, <2>2 DEF Records
  <2>4. is /\ new.orig # None => new.orig = home[p]
    BY <1>1, <1>2, <2>2 DEF Records
  <2>5. Unmoved(proc[p].comm)' => Hushed(p)'
    BY <1>4, <2>3 DEF Hushed, Unmoved, Tracked
  <2>6. p \in Tracked(table)' /\ table'.entries[p].orig # None
          => table'.entries[p].orig = home'[p]
    BY <1>1, <2>4 DEF Tracked
  <2>7. proc'[p].cg = home'[p]
    BY <1>1, <2>2
  <2> QED BY <1>9, <2>5, <2>6, <2>7 DEF HomeInv
<1>10. CASE ~Forked(p)
  <2>1. /\ Unmoved(proc[p].comm) => Hushed(p)
        /\ was /\ old.orig # None => old.orig = home[p]
        /\ proc[p].cg # home[p] => /\ ~startup /\ Moved(p) /\ old.orig # None
                                   /\ ~Unmoved(proc[p].comm) /\ ~Unmoved(old.info.comm)
    BY <1>1, <1>10 DEF HomeInv
  <2>2. ~Hears("Fork", p) /\ ~Forked(p)'
    BY <1>3, <1>6, <1>10 DEF Shifted, Hears, Forked
  <2>3. Unmoved(proc[p].comm) => (is => Unmoved(new.info.comm))
    BY <1>2, <2>1 DEF Ordered, Hushed
  <2>4. is /\ new.orig # None => new.orig = home[p]
    <3> SUFFICES ASSUME is, new.orig # None PROVE new.orig = home[p]
      OBVIOUS
    <3>1. CASE was /\ old.orig # None
      BY <2>1, <3>1 DEF Keeps
    <3>2. CASE ~(was /\ old.orig # None)
      <4>1. new.orig = proc[p].cg
        BY <1>1, <1>2, <3>2 DEF Records
      <4> QED BY <1>7, <2>1, <3>2, <4>1
    <3> QED BY <3>1, <3>2
  <2>5. ASSUME proc'[p].cg # home[p]
        PROVE  /\ ~startup' /\ Moved(p)' /\ new.orig # None
               /\ ~Unmoved(proc[p].comm) /\ ~Unmoved(new.info.comm)
    <3>1. CASE proc'[p].cg # proc[p].cg
      <4>1. ~startup /\ is /\ Moved(p)' /\ new.orig # None /\ ~Unmoved(new.info.comm)
        BY <1>1, <1>2, <3>1 DEF Records
      <4> QED BY <1>2, <2>3, <4>1
    <3>2. CASE proc'[p].cg = proc[p].cg
      <4>1. /\ ~startup /\ Moved(p) /\ old.orig # None
            /\ ~Unmoved(proc[p].comm) /\ ~Unmoved(old.info.comm)
        BY <2>1, <2>5, <3>2
      <4>2. ~Hears("Exit", p)
        <5> SUFFICES ASSUME Hears("Exit", p) PROVE FALSE
          OBVIOUS
        <5>1. 1 \in DOMAIN queue /\ queue[1].type = "Exit" /\ queue[1].pid = p
          BY <1>2, FrontTaken DEF Hears
        <5> QED BY <1>10, <5>1 DEF OrderInv, Behind, Forked
      <4>3. ~(todo.kind = "read" /\ p \notin todo.pids)
        BY <1>1, <1>10 DEF OrderInv
      <4>4. is /\ new.info.comm \in {old.info.comm, proc[p].comm}
        BY <1>2, <1>4, <1>7, <4>1, <4>2, <4>3 DEF Ordered
      <4>5. new.orig # None
        BY <1>7, <4>1, <4>4 DEF Keeps
      <4>6. ~Unmoved(new.info.comm)
        BY <4>1, <4>4
      <4>7. Moved(p)'
        BY <1>1, <1>2, <2>2, <4>1, <4>4, <4>6 DEF Records
      <4> QED BY <1>2, <4>1, <4>5, <4>6, <4>7
    <3> QED BY <3>1, <3>2
  <2>6. Unmoved(proc[p].comm)' => Hushed(p)'
    BY <1>4, <1>5, <2>3 DEF Hushed, Tracked
  <2>7. p \in Tracked(table)' /\ table'.entries[p].orig # None
          => table'.entries[p].orig = home'[p]
    BY <1>1, <2>4 DEF Tracked
  <2>8. proc'[p].cg # home'[p] =>
          /\ ~startup' /\ Moved(p)' /\ table'.entries[p].orig # None
          /\ ~Unmoved(proc[p].comm)' /\ ~Unmoved(table.entries[p].info.comm)'
    BY <1>1, <1>4, <1>5, <2>5
  <2> QED BY <2>2, <2>6, <2>7, <2>8 DEF HomeInv
<1> QED BY <1>8, <1>9, <1>10

LEMMA HandledHomes ==
  ASSUME Ruled, HNext, HomesInv, Keeps(table, table'),
         Handled, Recorded, status' \in {status, "hung"}
  PROVE  HomesInv'
<1>1. /\ TypeOK /\ status = "running" /\ status' \in {"running", "hung"} /\ Up /\ Up'
      /\ queue' = queue \/ (queue # <<>> /\ queue' = Tail(queue))
  BY DEF Ruled, Handled, Up
<1>2. Dormant'
  BY DEF Recorded
<1>3. ASSUME NEW p \in Pid, Alive(p)' PROVE OrderInv(p)' /\ HomeInv(p)'
  <2>1. Alive(p) /\ proc'[p].st = "alive"
    BY <1>3 DEF Handled, Effect, Alive
  <2>2. OrderInv(p) /\ HomeInv(p)
    BY <1>1, <2>1 DEF HomesInv
  <2>3. Homed(p)
    BY <1>1, <2>1, HandledHomed
  <2> QED BY <2>1, <2>2, <2>3, OrderKept, HomeKept
<1> QED BY <1>1, <1>2, <1>3 DEF HomesInv, Up

-----------------------------------------------------------------------------
(* The processes, and what else joins the channel.                          *)

(* An event that says nothing of what p is.                                 *)
Silent(e, p) == e.type \in {"Fork", "Exec", "Comm", "Exit"} => e.pid # p

(* A process lives on in its cgroup; when it takes a name, this is          *)
(* announced.                                                               *)
LivesOn(p) ==
  /\ Alive(p) /\ proc'[p].cg = proc[p].cg
  /\ \/ /\ proc'[p].comm = proc[p].comm
        /\ queue' = queue \/ \E e \in Event : queue' = Append(queue, e) /\ Silent(e, p)
     \/ \E e \in Event : /\ queue' = Append(queue, e)
                         /\ e.type \in {"Exec", "Comm"} /\ e.pid = p

Born(p) == \E e \in Event : queue' = Append(queue, e) /\ e.type = "Fork" /\ e.pid = p

LEMMA KernelDoes ==
  ASSUME TypeOK, Up, KernelStep, NEW p \in Pid, proc'[p].st = "alive"
  PROVE  Born(p) \/ LivesOn(p)
<1>1. proc \in [Pid -> Process]
  BY DEF TypeOK
<1>2. ASSUME NEW a \in Pid, NEW c \in Pid, Fork(a, c) PROVE Born(p) \/ LivesOn(p)
  <2> PICK e \in Event : e = [type |-> "Fork", parent |-> a, pid |-> c]
    BY DEF Event
  <2>1. queue' = Append(queue, e) /\ e.type = "Fork" /\ e.pid = c
    BY <1>2 DEF Fork, Announce
  <2>2. p # c => proc'[p] = proc[p]
    BY <1>1, <1>2 DEF Fork
  <2> QED BY <2>1, <2>2 DEF Born, LivesOn, Silent, Alive
<1>3. ASSUME NEW a \in Pid, NEW comm \in Comm, Exec(a, comm) \/ Rename(a, comm)
      PROVE  LivesOn(p)
  <2>1. PICK e \in Event : /\ queue' = Append(queue, e)
                           /\ e.type \in {"Exec", "Comm"} /\ e.pid = a
    <3>1. \A type \in {"Exec", "Comm"} : [type |-> type, pid |-> a] \in Event
      BY DEF Event
    <3> QED BY <1>3, <3>1 DEF Exec, Rename, Announce
  <2>2. Alive(a) /\ proc' = [proc EXCEPT ![a].comm = comm]
    BY <1>3 DEF Exec, Rename
  <2>3. proc'[p].cg = proc[p].cg /\ Alive(p) /\ (p # a => proc'[p] = proc[p])
    BY <1>1, <2>2 DEF Process, Alive
  <2> QED BY <2>1, <2>3 DEF LivesOn, Silent
<1>4. ASSUME NEW a \in Pid, Exit(a) PROVE LivesOn(p)
  <2> PICK e \in Event : e = [type |-> "Exit", pid |-> a]
    BY DEF Event
  <2>1. queue' = Append(queue, e) /\ e.pid = a
    BY <1>4 DEF Exit, Announce
  <2>2. p # a
    BY <1>1, <1>4 DEF Exit, Process
  <2>3. /\ proc'[p].st = proc[p].st /\ proc'[p].comm = proc[p].comm
        /\ proc'[p].cg = proc[p].cg
    BY <1>1, <1>4, <2>2 DEF Exit, Process
  <2> QED BY <2>1, <2>2, <2>3 DEF LivesOn, Silent, Alive
<1>5. ASSUME NEW a \in Pid, Reap(a) PROVE LivesOn(p)
  <2>1. queue' = queue /\ proc' = [proc EXCEPT ![a] = Nobody]
    BY <1>5 DEF Reap
  <2>2. p # a
    BY <1>1, <2>1, BootAssumption
  <2>3. proc'[p] = proc[p]
    BY <1>1, <2>1, <2>2
  <2> QED BY <2>1, <2>3 DEF LivesOn, Alive
<1> QED BY <1>2, <1>3, <1>4, <1>5 DEF KernelStep

(* Whatever lives on keeps its home, or loses it, as it does when it becomes *)
(* a program that no rule moves.                                            *)
LEMMA LivesOnHome ==
  ASSUME TypeOK, HNext, Up', NEW p \in Pid, proc'[p].st = "alive", LivesOn(p),
         home'[p] # None
  PROVE  /\ home'[p] = home[p]
         /\ proc'[p].comm = proc[p].comm \/ ~Unmoved(proc'[p].comm)
<1>1. queue \in Seq(Event) /\ home'[p] = Home(p)
  BY DEF TypeOK, HNext
<1>2. CASE proc'[p].comm = proc[p].comm /\ queue' = queue
  <2>1. \A type, q : ~Announced(type, q)
    BY <1>1, <1>2, NothingAnnounced
  <2> QED BY <1>1, <1>2, <2>1 DEF Home
<1>3. ASSUME proc'[p].comm = proc[p].comm,
             NEW e \in Event, queue' = Append(queue, e), Silent(e, p)
      PROVE  home'[p] = home[p]
  <2>1. PICK n : Grown(n, e)
    BY <1>1, <1>3, QueueGrown
  <2>2. ~Announced("Fork", p)
    BY <1>3, <2>1 DEF Grown, Silent
  <2> QED BY <1>1, <2>2 DEF Home
<1>4. ASSUME NEW e \in Event, queue' = Append(queue, e),
             e.type \in {"Exec", "Comm"}, e.pid = p
      PROVE  home'[p] = home[p] /\ ~Unmoved(proc'[p].comm)
  <2>1. PICK n : Grown(n, e)
    BY <1>1, <1>4, QueueGrown
  <2>2. ~Announced("Fork", p) /\ (Announced("Exec", p) \/ Announced("Comm", p))
    BY <1>4, <2>1 DEF Grown
  <2> QED BY <1>1, <2>2 DEF Home
<1> QED BY <1>2, <1>3, <1>4 DEF LivesOn

LEMMA LivesOnOrder ==
  ASSUME TypeOK, NEW p \in Pid, LivesOn(p)
  PROVE  /\ \A i \in DOMAIN queue : i \in DOMAIN queue' /\ queue'[i] = queue[i]
         /\ \A i \in DOMAIN queue' :
              i \in DOMAIN queue \/ queue'[i].type \notin {"Fork", "Exit"} \/ queue'[i].pid # p
         /\ Forked(p)' <=> Forked(p)
         /\ Pending(p) => Pending(p)'
<1>1. /\ \A i \in DOMAIN queue : i \in DOMAIN queue' /\ queue'[i] = queue[i]
      /\ \A i \in DOMAIN queue' :
           i \in DOMAIN queue \/ queue'[i].type \notin {"Fork", "Exit"} \/ queue'[i].pid # p
  <2>1. CASE queue' = queue
    BY <2>1
  <2>2. ASSUME NEW e \in Event, queue' = Append(queue, e),
               Silent(e, p) \/ e.type \in {"Exec", "Comm"}
        PROVE  <1>1!:
    <3>1. PICK n : Grown(n, e)
      BY <2>2, QueueGrown DEF TypeOK
    <3> QED BY <2>2, <3>1 DEF Grown, Silent
  <2> QED BY <2>1, <2>2 DEF LivesOn
<1> QED BY <1>1 DEF Forked, Pending

(* Nothing that happens outside takes a process off its way home.           *)
LEMMA OutsideHomes ==
  ASSUME TypeOK, HNext, Up, NEW p \in Pid, proc'[p].st = "alive", LivesOn(p) \/ Born(p),
         UNCHANGED <<table, rules, startup, todo, status>>, dirs' \subseteq dirs,
         Alive(p) => /\ status = "running" => OrderInv(p) /\ HomeInv(p)
                     /\ status = "stopping" => StopInv(p)
  PROVE  /\ status = "running" => OrderInv(p)' /\ HomeInv(p)'
         /\ status = "stopping" => StopInv(p)'
<1>1. queue \in Seq(Event) /\ Up' /\ home'[p] = Home(p)
  BY DEF TypeOK, Up, HNext
<1>2. ASSUME NEW e \in Event, queue' = Append(queue, e), e.type = "Fork", e.pid = p
      PROVE  OrderInv(p)' /\ HomeInv(p)' /\ StopInv(p)'
  <2>1. PICK n : Grown(n, e)
    BY <1>1, <1>2, QueueGrown
  <2>2. n \in DOMAIN queue' /\ queue'[n].type = "Fork" /\ queue'[n].pid = p
    BY <1>2, <2>1 DEF Grown
  <2>3. Forked(p)' /\ Pending(p)'
    BY <2>2 DEF Forked, Pending
  <2>4. home'[p] \in {proc'[p].cg, None}
    BY <1>1, <1>2, <2>1 DEF Grown, Home
  <2>5. \A j \in DOMAIN queue' : queue'[j].type = "Exit" => n > j
    <3>1. \A j \in DOMAIN queue' : queue'[j].type = "Exit" => j < n
      BY <2>1, <2>2 DEF Grown
    <3> QED BY <3>1
  <2> QED BY <2>2, <2>3, <2>4, <2>5 DEF OrderInv, HomeInv, StopInv, Behind
<1>3. CASE LivesOn(p)
  <2>1. /\ \A i \in DOMAIN queue : i \in DOMAIN queue' /\ queue'[i] = queue[i]
        /\ \A i \in DOMAIN queue' :
             i \in DOMAIN queue \/ queue'[i].type \notin {"Fork", "Exit"} \/ queue'[i].pid # p
        /\ Forked(p)' <=> Forked(p)
        /\ Pending(p) => Pending(p)'
    BY <1>3, LivesOnOrder
  <2>2. home'[p] # None => /\ home'[p] = home[p]
                           /\ proc'[p].comm = proc[p].comm \/ ~Unmoved(proc'[p].comm)
    BY <1>1, <1>3, LivesOnHome
  <2>3. Alive(p) /\ proc'[p].cg = proc[p].cg
    BY <1>3 DEF LivesOn
  <2>4. (\A c : Unmoved(c)' <=> Unmoved(c)) /\ (Moved(p)' <=> Moved(p))
    BY DEF Unmoved, Moved, MovedPids, Tracked
  <2>5. Hushed(p)' <=> Hushed(p)
    BY DEF Hushed, Unmoved, Tracked
  <2>6. OrderInv(p) => OrderInv(p)'
    BY <2>1, <2>2 DEF OrderInv, Behind
  <2>7. HomeInv(p) => HomeInv(p)'
    BY <2>1, <2>2, <2>3, <2>4, <2>5 DEF HomeInv, Tracked
  <2>8. StopInv(p) => StopInv(p)'
    BY <2>1, <2>2, <2>3 DEF StopInv, Listed
  <2> QED BY <2>3, <2>6, <2>7, <2>8
<1> QED BY <1>2, <1>3 DEF Born

LEMMA EnvironmentHomes ==
  ASSUME TypeOK, HNext, HomesInv, Environment PROVE HomesInv'
<1>1. /\ UNCHANGED <<table, rules, startup, dirs, todo, status>> /\ KernelStep
      /\ (Up' <=> Up)
  BY DEF Environment, Up
<1>2. Dormant => Dormant'
  BY <1>1 DEF Dormant, Tracked
<1>3. ~Up' => \A p \in Pid : home'[p] = proc'[p].cg
  BY DEF HNext, Home
<1>4. ASSUME Up, NEW p \in Pid, Alive(p)'
      PROVE  /\ status = "running" => OrderInv(p)' /\ HomeInv(p)'
             /\ status = "stopping" => StopInv(p)'
  <2>1. proc'[p].st = "alive"
    BY <1>4 DEF Alive
  <2>2. LivesOn(p) \/ Born(p)
    BY <1>1, <1>4, <2>1, KernelDoes
  <2> QED BY <1>1, <1>4, <2>1, <2>2, OutsideHomes DEF HomesInv
<1>5. status \in {"running", "stopping"} => Up
  BY DEF Up
<1> QED BY <1>1, <1>2, <1>3, <1>4, <1>5 DEF HomesInv

LEMMA ProducersHome ==
  ASSUME TypeOK, HNext, HomesInv, Up, Producers PROVE HomesInv'
<1>1. PICK e \in Event : Send(e) /\ e.type \notin {"Fork", "Exec", "Comm", "Exit"}
  BY ProducersAdd
<1>2. /\ UNCHANGED <<proc, table, rules, startup, dirs, todo, status>>
      /\ queue' = Append(queue, e) /\ Up'
  BY <1>1 DEF Send, Up
<1>3. Dormant => Dormant'
  BY <1>2 DEF Dormant, Tracked
<1>4. ASSUME NEW p \in Pid, Alive(p)'
      PROVE  /\ status = "running" => OrderInv(p)' /\ HomeInv(p)'
             /\ status = "stopping" => StopInv(p)'
  <2>1. proc'[p].st = "alive" /\ LivesOn(p)
    BY <1>1, <1>2, <1>4 DEF Alive, LivesOn, Silent
  <2> QED BY <1>2, <2>1, OutsideHomes DEF HomesInv, Alive
<1> QED BY <1>2, <1>3, <1>4 DEF HomesInv

(* A tier is collected.                                                     *)
LEMMA GcTierHomes ==
  ASSUME TypeOK, HNext, HomesInv, GcTier PROVE HomesInv'
<1>1. /\ UNCHANGED <<proc, queue, table, rules, startup, todo, status>>
      /\ dirs' \subseteq dirs /\ (Up' <=> Up)
  BY DEF GcTier, Up
<1>2. Dormant => Dormant'
  BY <1>1 DEF Dormant, Tracked
<1>3. ~Up' => \A p \in Pid : home'[p] = proc'[p].cg
  BY DEF HNext, Home
<1>4. ASSUME Up, NEW p \in Pid, Alive(p)'
      PROVE  /\ status = "running" => OrderInv(p)' /\ HomeInv(p)'
             /\ status = "stopping" => StopInv(p)'
  <2>1. proc'[p].st = "alive" /\ LivesOn(p)
    BY <1>1, <1>4 DEF Alive, LivesOn
  <2> QED BY <1>1, <1>4, <2>1, OutsideHomes DEF HomesInv, Alive
<1>5. status \in {"running", "stopping"} => Up
  BY DEF Up
<1> QED BY <1>1, <1>2, <1>3, <1>4, <1>5 DEF HomesInv

-----------------------------------------------------------------------------
(* The daemon stops and starts again.                                       *)

LEMMA OnShutdownHomes ==
  ASSUME TypeOK, HNext, HomesInv, OnShutdown PROVE HomesInv'
<1>1. /\ UNCHANGED <<proc, table, rules, startup>>
      /\ todo' = [kind |-> "restore", pids |-> MovedPids(table)]
      /\ status = "running" /\ status' = "stopping" /\ Up /\ Up' /\ Take("Shutdown")
      /\ queue \in Seq(Event) /\ queue # <<>> /\ queue' = Tail(queue)
  BY TakeHears DEF OnShutdown, Up, TypeOK
<1>2. ASSUME NEW p \in Pid, Alive(p)' PROVE StopInv(p)'
  <2> SUFFICES ASSUME home'[p] # None, ~Pending(p)' PROVE StopInv(p)'
    BY DEF StopInv
  <2>1. Alive(p) /\ proc'[p].st = "alive"
    BY <1>1, <1>2 DEF Alive
  <2>2. home'[p] = home[p]
    BY <1>1, <2>1, HandledHomed DEF Homed
  <2>3. ~Forked(p)
    <3>1. ~Forked(p)'
      BY DEF Pending, Forked
    <3> QED BY <1>1, <3>1, TakeKeepsForks
  <2>4. HomeInv(p)
    BY <1>1, <2>1 DEF HomesInv
  <2>5. /\ p \in Tracked(table) /\ table.entries[p].orig # None => table.entries[p].orig = home[p]
        /\ proc[p].cg # home[p] => Moved(p) /\ table.entries[p].orig # None
    BY <2>2, <2>3, <2>4 DEF HomeInv
  <2>6. Moved(p) => p \in Tracked(table)
    BY DEF Moved, MovedPids
  <2> QED BY <1>1, <2>2, <2>5, <2>6 DEF StopInv, Listed, Moved
<1> QED BY <1>1, <1>2 DEF HomesInv

LEMMA RestoreHomes ==
  ASSUME TypeOK, HNext, HomesInv, NEW q \in Pid, Restore(q) PROVE HomesInv'
<1>1. /\ UNCHANGED <<table, rules, startup, status, queue, dirs>>
      /\ status = "stopping" /\ Up /\ Up' /\ q \in todo.pids
      /\ todo' = [todo EXCEPT !.pids = @ \ {q}]
      /\ proc \in [Pid -> Process]
  BY DEF Restore, Up, TypeOK
<1>2. todo'.pids = todo.pids \ {q}
  BY <1>1 DEF TypeOK, Todo
<1>3. LET orig == table.entries[q].orig IN
      proc' = IF orig # None /\ Alive(q) /\ orig \notin Tier \ dirs
                THEN [proc EXCEPT ![q].cg = orig] ELSE proc
  BY DEF Restore
<1>4. ASSUME NEW p \in Pid, Alive(p)' PROVE StopInv(p)'
  <2> SUFFICES ASSUME home'[p] # None, home'[p] \notin Tier \ dirs, ~Pending(p)'
               PROVE  StopInv(p)'
    BY <1>1 DEF StopInv
  <2>1. Alive(p) /\ proc'[p].st = "alive"
    BY <1>1, <1>3, <1>4 DEF Alive, Process
  <2>2. home'[p] = home[p]
    BY <1>1, <2>1, HandledHomed DEF Homed
  <2>3. StopInv(p) /\ ~Pending(p)
    BY <1>1, <2>1 DEF HomesInv, Pending
  <2>4. /\ Listed(p) => table.entries[p].orig = home[p]
        /\ proc[p].cg # home[p] => Listed(p)
    BY <2>2, <2>3 DEF StopInv
  <2>5. CASE p = q
    <3>1. proc'[p].cg = home[p]
      <4>1. CASE Listed(p)
        BY <1>1, <1>3, <2>1, <2>2, <2>4, <2>5, <4>1 DEF Listed, Process
      <4>2. CASE ~Listed(p)
        BY <1>1, <1>3, <2>4, <2>5, <4>2 DEF Listed
      <4> QED BY <4>1, <4>2
    <3>2. ~Listed(p)'
      BY <1>2, <2>5 DEF Listed
    <3> QED BY <2>2, <3>1, <3>2 DEF StopInv
  <2>6. CASE p # q
    <3>1. proc'[p].cg = proc[p].cg
      BY <1>1, <1>3, <2>6 DEF Process
    <3>2. Listed(p)' <=> Listed(p)
      BY <1>1, <1>2, <2>6 DEF Listed
    <3> QED BY <1>1, <2>2, <2>4, <3>1, <3>2 DEF StopInv
  <2> QED BY <2>5, <2>6
<1> QED BY <1>1, <1>4 DEF HomesInv

LEMMA EndsHomes ==
  ASSUME HNext, NEW final \in {"stopped", "crashed"}, Ends(final) PROVE HomesInv'
<1>1. ~Up' /\ status' \notin {"running", "stopping"}
  BY DEF Ends, Up
<1>2. \A p \in Pid : home'[p] = proc'[p].cg
  BY <1>1 DEF HNext, Home
<1> QED BY <1>1, <1>2 DEF HomesInv

(* What holds of every process at the start of an instance.                 *)
LEMMA FreshHomes ==
  ASSUME queue = <<>>, Tracked(table) = {}, todo = FirstLoop, status = "running",
         \A p \in Pid : home[p] \in {proc[p].cg, None}
  PROVE  HomesInv
<1>1. todo.kind \notin {"classify", "recheck", "read"}
  BY DEF FirstLoop, IdleTodo
<1>2. Dormant
  BY <1>1 DEF Dormant
<1>3. \A p : ~Forked(p)
  BY DEF Forked
<1>4. \A p \in Pid : Alive(p) => OrderInv(p) /\ HomeInv(p)
  BY <1>1, <1>3 DEF OrderInv, HomeInv, Hushed
<1> QED BY <1>2, <1>4 DEF HomesInv, Up

LEMMA StartHomes ==
  ASSUME HNext, PlaceInv, HomesInv, Start PROVE HomesInv'
<1>1. /\ ~Up /\ Up' /\ UNCHANGED <<proc, queue, table, startup>>
      /\ todo' = FirstLoop /\ status' = "running"
  BY DEF Start, Up
<1>2. /\ queue' = <<>> /\ Tracked(table') = {}
      /\ \A p \in Pid : home[p] = proc[p].cg
  BY <1>1 DEF PlaceInv, HomesInv
<1>3. \A type, p : ~Announced(type, p)
  BY <1>1, <1>2 DEF Announced
<1>4. \A p \in Pid : home'[p] \in {proc'[p].cg, None}
  BY <1>1, <1>2, <1>3 DEF HNext, Home
<1>5. todo'.kind \notin {"classify", "recheck", "read"}
  BY <1>1 DEF FirstLoop, IdleTodo
<1>6. Dormant'
  BY <1>2, <1>5 DEF Dormant, Tracked
<1>7. \A p : ~Forked(p)'
  BY <1>2 DEF Forked
<1>8. \A p \in Pid : OrderInv(p)' /\ HomeInv(p)'
  BY <1>2, <1>4, <1>5, <1>7 DEF OrderInv, HomeInv, Hushed, Tracked
<1> QED BY <1>1, <1>6, <1>8 DEF HomesInv

LEMMA StutterHomes ==
  ASSUME HomesInv, UNCHANGED hvars PROVE HomesInv'
<1>1. UNCHANGED <<proc, queue, table, rules, startup, dirs, todo, status, home>>
  BY DEF hvars, vars
<1>2. Dormant' <=> Dormant
  BY <1>1 DEF Dormant, Tracked
<1>3. \A p : OrderInv(p)' <=> OrderInv(p)
  BY <1>1 DEF OrderInv, Behind, Forked
<1>4. \A p : HomeInv(p)' <=> HomeInv(p)
  BY <1>1 DEF HomeInv, Forked, Hushed, Unmoved, Moved, MovedPids, Tracked
<1>5. \A p : StopInv(p)' <=> StopInv(p)
  BY <1>1 DEF StopInv, Listed, Pending
<1> QED BY <1>1, <1>2, <1>3, <1>4, <1>5 DEF HomesInv, Up, Alive

-----------------------------------------------------------------------------
(* Every step keeps the way home.                                           *)

LEMMA InitHomes ==
  ASSUME HInit PROVE HomesInv
<1>1. /\ queue = <<>> /\ todo = FirstLoop /\ status = "running" /\ Tracked(table) = {}
      /\ \A p \in Pid : home[p] = proc[p].cg
  BY EmptyTableOK DEF HInit, Init
<1> QED BY <1>1, FreshHomes

LEMMA NextHomes ==
  ASSUME PlainRules, TypeOK, PlaceInv, HomesInv, [HNext]_hvars
  PROVE  HomesInv'
<1>1. CASE UNCHANGED hvars
  BY <1>1, StutterHomes
<1>2. CASE HNext
  <2>1. CASE DaemonStep /\ status = "running"
    <3>1. CASE OnShutdown
      BY <1>2, <3>1, OnShutdownHomes
    <3>2. CASE ~OnShutdown
      <4>1. Ruled /\ Handled /\ status' \in {status, "hung"}
        BY <2>1, <3>2, RunningHandled
      <4>2. Recorded
        BY <2>1, <3>2, <4>1, RunningRecorded DEF HomesInv
      <4>3. Keeps(table, table')
        BY <1>2, NextKeeps DEF HNext
      <4> QED BY <1>2, <4>1, <4>2, <4>3, HandledHomes
    <3> QED BY <3>1, <3>2
  <2>2. CASE DaemonStep /\ status # "running"
    <3>1. Teardown \/ \E p \in Pid : Restore(p)
      BY <2>2 DEF DaemonStep, ProcEvents, Loops, Timers, Requests, OnFork, OnForkBomb,
                  OnExec, OnComm, OnExit, ScanList, ScanRead, ScanClassify, Recheck,
                  EndGrace, OnRescan, OnRecheck, OnGc, OnForeground, OnPlace, OnReload,
                  OnPressure, OnShutdown, Take, Waiting
    <3>2. CASE Teardown
      BY <1>2, <3>2, EndsHomes DEF Teardown
    <3> QED BY <1>2, <3>1, <3>2, RestoreHomes
  <2>3. CASE GcTier
    BY <1>2, <2>3, GcTierHomes
  <2>4. CASE Crash
    BY <1>2, <2>4, EndsHomes DEF Crash
  <2>5. CASE Start
    BY <1>2, <2>5, StartHomes
  <2>6. CASE Environment
    BY <1>2, <2>6, EnvironmentHomes
  <2>7. CASE Up /\ Producers
    BY <1>2, <2>7, ProducersHome
  <2> QED BY <1>2, <2>1, <2>2, <2>3, <2>4, <2>5, <2>6, <2>7 DEF HNext, Next
<1> QED BY <1>1, <1>2

(* The inductive invariant of the way home, with what it rests on: what     *)
(* holds of a daemon that is not up, and which tiers can be gone.           *)
THEOREM HomesInvariance ==
  ASSUME PlainRules PROVE HSpec => [](TypeOK /\ PlaceInv /\ HomesInv)
<1>1. HInit => HomesInv
  BY InitHomes
<1>2. TypeOK /\ PlaceInv /\ HomesInv /\ [HNext]_hvars => HomesInv'
  BY NextHomes
<1> QED BY <1>1, <1>2, PlacesInvariance, PTL DEF HSpec

(* A stop that is not cut short leaves every process in the cgroup it was   *)
(* in before the daemon moved it, whatever happened in between, but for     *)
(* those that Overridden and Heir name, that were moved before their own    *)
(* fork was handled, that became a program that no rule moves, or whose     *)
(* home is a tier that was collected.                                       *)
THEOREM HomesReturned ==
  ASSUME PlainRules PROVE HSpec => ReturnedHome
<1> DEFINE AtHome ==
      status = "stopping" /\ status' = "stopped" /\ todo.pids = {} =>
        \A p \in Pid : Alive(p) /\ ~Pending(p) /\ home[p] \notin {None} \cup collected
                         => proc[p].cg = home[p]
<1>1. PlaceInv /\ HomesInv => AtHome
  <2> SUFFICES ASSUME PlaceInv, HomesInv, status = "stopping", todo.pids = {}, NEW p \in Pid,
                      Alive(p), ~Pending(p), home[p] \notin {None} \cup collected
               PROVE  proc[p].cg = home[p]
    OBVIOUS
  <2>1. Tier \ dirs \subseteq collected /\ StopInv(p)
    BY DEF PlaceInv, HomesInv, Up
  <2> QED BY <2>1 DEF StopInv, Listed
<1>2. PlaceInv /\ HomesInv /\ [HNext]_hvars => [AtHome]_hvars
  BY <1>1
<1>3. HSpec => [][AtHome]_hvars
  <2> HIDE DEF AtHome
  <2> QED BY <1>2, HomesInvariance, PTL DEF HSpec
<1> QED BY <1>3 DEF ReturnedHome
=============================================================================
