----------------------------- MODULE RuleReload -----------------------------
(***************************************************************************)
(* A running rule engine and the rule files it loads from.  load_rules     *)
(* reads file after file while files are edited and broken at any time;    *)
(* when all are read, what was gathered replaces the loaded rules, and     *)
(* when one cannot be read or parsed, the rules stay as they were.         *)
(*                                                                         *)
(* The set of files is fixed.  A file that is not there holds no rules;    *)
(* one that is removed after its directory was listed is a broken one, and *)
(* one that is created after that is created after its turn.               *)
(***************************************************************************)
EXTENDS RuleEngine

CONSTANTS Files,      \* the files of all directories, in their order: 1..Files
          Contents,   \* what a file may hold: sequences of rules
          Procs,      \* the processes that may have to be classified
          Ancestries  \* the commands of their ancestors, nearest first

VARIABLES disk,     \* file -> its rules
          broken,   \* the files that are unreadable or do not parse
          rules,    \* RuleEngine::rules
          loading,  \* load_rules is under way, for a reload
          read,     \* what it has of the files 1..Len(read)
          touched   \* history: the files that changed since it began

vars == <<disk, broken, rules, loading, read, touched>>

Rules == UNION {{c[i] : i \in DOMAIN c} : c \in Contents}

ASSUME RuleAssumption ==
  /\ Files \in Nat /\ Contents \subseteq Seq(Rules)
  /\ \A r \in Rules : r.priority \in Int /\ r.continue \in BOOLEAN /\ r.action \in Action

(* The first load, of a daemon that starts, has found the files in order.   *)
Init == /\ disk \in [1..Files -> Contents]
        /\ broken = {}
        /\ rules = LoadRules(disk)
        /\ loading = FALSE /\ read = <<>> /\ touched = {}

(* The administrator changes a file, while a reload runs or not.            *)
Touch(f) == touched' = IF loading THEN touched \cup {f} ELSE {}

Edit(f)  == \E c \in Contents : /\ disk' = [disk EXCEPT ![f] = c] /\ Touch(f)
                                /\ UNCHANGED <<broken, rules, loading, read>>
Break(f) == /\ broken' = broken \cup {f} /\ Touch(f)
            /\ UNCHANGED <<disk, rules, loading, read>>
Mend(f)  == /\ broken' = broken \ {f} /\ Touch(f)
            /\ UNCHANGED <<disk, rules, loading, read>>

(* RuleEngine::reload, on SIGHUP or on request.                             *)
Reload == /\ ~loading /\ loading' = TRUE
          /\ UNCHANGED <<disk, broken, rules, read, touched>>

Ends == loading' = FALSE /\ read' = <<>> /\ touched' = {}

(* A bug to detect: a file that does not load is passed over.               *)
ReadFileLenient ==
  LET next == Len(read) + 1 IN
  /\ loading /\ next <= Files
  /\ read' = Append(read, IF next \in broken THEN <<>> ELSE disk[next])
  /\ UNCHANGED <<disk, broken, rules, loading, touched>>

(* The next file: a failure is the end of the reload.                       *)
ReadFile ==
  LET next == Len(read) + 1 IN
  /\ loading /\ next <= Files
  /\ IF next \in broken THEN Ends
     ELSE read' = Append(read, disk[next]) /\ UNCHANGED <<loading, touched>>
  /\ UNCHANGED <<disk, broken, rules>>

(* All files are read: their rules are sorted and put in force.             *)
Replace ==
  /\ loading /\ Len(read) = Files
  /\ rules' = LoadRules(read)
  /\ Ends /\ UNCHANGED <<disk, broken>>

Next == \/ \E f \in 1..Files : Edit(f) \/ Break(f) \/ Mend(f)
        \/ Reload \/ ReadFile \/ Replace

Spec == Init /\ [][Next]_vars

-----------------------------------------------------------------------------
(* The types of the state: only rules that some file holds are ever loaded. *)
TypeOK == /\ disk \in [1..Files -> Contents]
          /\ broken \subseteq 1..Files /\ touched \subseteq 1..Files
          /\ rules \in Seq(Rules)
          /\ loading \in BOOLEAN
          /\ read \in Seq(Contents) /\ Len(read) <= Files

(* The loop of classify(), which merges action after action and stops at    *)
(* the first matching rule without "continue", computes what the closed     *)
(* form says: first rule that sets a field wins that field.                 *)
LoopIsClosedForm ==
  \A p \in Procs, a \in Ancestries : RulesAction(rules, p, a) = RuleLoop(rules, p, a)

(* A rule without "continue" that matches is the last word: whatever the    *)
(* rules of lower priority are replaced by, the process gets the same.      *)
Replaced == {SubSeq(rules, 1, n) \o c : n \in 0..Len(rules), c \in Contents}

FinalRuleHides ==
  \A p \in Procs, a \in Ancestries : \A i \in DOMAIN rules :
     Matches(rules[i].match, p, Parent(a)) /\ ~rules[i].continue =>
       \A other \in Replaced :
          (\A j \in DOMAIN rules : rules[j].priority >= rules[i].priority
                                    => j \in DOMAIN other /\ other[j] = rules[j])
            => Classify(other, p, a) = Classify(rules, p, a)

(* The verdict on a process never moves it when the exception list protects *)
(* it: no combination of rules gives a listed command, or a process below   *)
(* one, a cgroup, and so it has none to hand on to its children; a fully    *)
(* exempt program, or one that runs below a listed one, gets no verdict at  *)
(* all.  This is about classify(): a verdict on its parent reaches a listed *)
(* process through apply_to_children, which does not ask the list.          *)
ExceptionsHold ==
  \A p \in Procs, a \in Ancestries :
     LET got   == Classify(rules, p, a)
         above == {a[i] : i \in DOMAIN a}
     IN  got # None =>
           /\ p.comm \notin FullyExempt /\ above \cap AncestorNames = {}
           /\ ({p.comm} \cup above) \cap NoCgroupMove # {} => got.opt.cgroup = None

(* Whatever was edited, broken and loaded before, the rules are looked at   *)
(* in descending order of their priorities.                                 *)
PrioritiesFall ==
  \A i, j \in DOMAIN rules : i < j => rules[i].priority >= rules[j].priority

(* How often rule r is in the list t, and in the files of d.                 *)
Copies(t, r) == Cardinality({i \in DOMAIN t : t[i] = r})
Filed(d, r) ==
  Cardinality(UNION {{<<f, i>> : i \in {j \in DOMAIN d[f] : d[f][j] = r}} : f \in 1..Files})

(* The rules change only at the end of a reload that met no broken file, and *)
(* are then exactly those of one version of each file, none lost and none   *)
(* taken twice.  For a file that nobody changed while the reload ran this is *)
(* the version on disk; only if somebody did, files may be seen at different *)
(* moments, in a combination that was never on disk.                        *)
ReloadAllOrNothing ==
  [][rules' # rules =>
       /\ broken \subseteq touched
       /\ \E seen \in [1..Files -> Contents] :
            /\ \A f \in 1..Files \ touched : seen[f] = disk[f]
            /\ \A r \in Rules : Copies(rules', r) = Filed(seen, r)]_vars
=============================================================================
