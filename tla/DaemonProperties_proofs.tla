---------------------- MODULE DaemonProperties_proofs ----------------------
(***************************************************************************)
(* What the event loop promises of the processes it moves, for any number  *)
(* of processes and any rules: the cgroup to give back is the first one    *)
(* and is there when it is needed; nothing but what Override names takes a *)
(* foreground process away; and a fork bomb is contained.                  *)
(***************************************************************************)
EXTENDS Daemon_proofs

(* Table u still has the original cgroups of table t, for the processes     *)
(* that both track.                                                         *)
Keeps(t, u) ==
  \A p \in Tracked(t) :
     p \in Tracked(u) /\ t.entries[p].orig # None
       => u.entries[p].orig = t.entries[p].orig

-----------------------------------------------------------------------------
(* The operations of the table.                                             *)

LEMMA KeepsInsert ==
  ASSUME NEW t, IsTable(t), NEW p \in Pid, NEW info \in Info
  PROVE  Keeps(t, Insert(t, p, info))
<1> DEFINE u == Insert(t, p, info)
<1>1. /\ \A q \in Tracked(t) \ {p} : u.entries[q] = t.entries[q]
      /\ p \in Tracked(t) => u.entries[p].orig = t.entries[p].orig
  BY InsertOK
<1> HIDE DEF u
<1>2. Keeps(t, u)
  BY <1>1 DEF Keeps
<1> QED BY <1>2 DEF u

LEMMA KeepsRemove ==
  ASSUME NEW t, IsTable(t), NEW p \in Pid
  PROVE  Keeps(t, Remove(t, p))
<1> DEFINE u == Remove(t, p)
<1>1. \A q \in Tracked(u) : u.entries[q] = t.entries[q]
  BY RemoveOK
<1> HIDE DEF u
<1>2. Keeps(t, u)
  BY <1>1 DEF Keeps
<1> QED BY <1>2 DEF u

LEMMA KeepsMarkClassified ==
  ASSUME NEW t, IsTable(t), NEW p \in Pid
  PROVE  Keeps(t, MarkClassified(t, p))
<1> DEFINE u == MarkClassified(t, p)
<1>1. \A q \in Tracked(t) : u.entries[q].orig = t.entries[q].orig
  BY MarkClassifiedOK
<1> HIDE DEF u
<1>2. Keeps(t, u)
  BY <1>1 DEF Keeps
<1> QED BY <1>2 DEF u

(* First one change of the table, then another, in one handler.             *)
LEMMA KeepsChain ==
  ASSUME NEW t, NEW u, NEW v, Keeps(t, u), Keeps(u, v), Tracked(t) \subseteq Tracked(u)
  PROVE  Keeps(t, v)
  BY DEF Keeps

-----------------------------------------------------------------------------
(* The handlers.                                                            *)

LEMMA ClassifyAndApplyKeeps ==
  ASSUME TypeOK, NEW t, IsTable(t), NEW p \in Tracked(t), ClassifyAndApply(t, p)
  PROVE  Keeps(t, table')
<1>1. p \in Pid /\ proc[p].cg \in Group
  BY DEF IsTable, IsMap, Tracked, TypeOK, Process
<1>2. CASE Verdict(t, p) = None
  BY <1>1, <1>2, KeepsMarkClassified DEF ClassifyAndApply
<1>3. CASE Verdict(t, p) # None
  <2> DEFINE a == Verdict(t, p)
             moves == a.opt.cgroup # None
             u == IF moves /\ Exists(p) THEN SetOriginal(t, p, proc[p].cg) ELSE t
             rechecks == a.opt.recheck_secs # None
  <2>1. table' = SetApplied(u, p, a, rechecks)
    BY <1>3 DEF ClassifyAndApply
  <2>2. a \in Action /\ rechecks \in BOOLEAN
    BY <1>3, VerdictType DEF TypeOK
  <2> HIDE DEF a, moves, rechecks
  <2>3. /\ IsTable(u) /\ Tracked(u) = Tracked(t)
        /\ \A q \in Tracked(t) :
             t.entries[q].orig # None => u.entries[q].orig = t.entries[q].orig
    BY <1>1, SetOriginalOK
  <2> HIDE DEF u
  <2>4. /\ Tracked(table') = Tracked(u)
        /\ table'.entries[p].orig = u.entries[p].orig
        /\ \A q \in Tracked(u) \ {p} : table'.entries[q] = u.entries[q]
    BY <2>1, <2>2, <2>3, SetAppliedOK
  <2> QED BY <2>3, <2>4 DEF Keeps
<1> QED BY <1>2, <1>3

(* exec, a new name and a recheck read the process again and insert it.     *)
LEMMA ReadAndApplyKeeps ==
  ASSUME TypeOK, NEW p \in Pid, ClassifyAndApply(Insert(table, p, ReadInfo(p)), p)
  PROVE  Keeps(table, table')
<1> DEFINE u == Insert(table, p, ReadInfo(p))
<1>1. IsTable(table) /\ ReadInfo(p) \in Info
  BY ReadInfoType DEF TypeOK
<1>2. IsTable(u) /\ Tracked(u) = Tracked(table) \cup {p} /\ Keeps(table, u)
  BY <1>1, InsertOK, KeepsInsert
<1>3. ClassifyAndApply(u, p)
  OBVIOUS
<1> HIDE DEF u
<1>4. Keeps(u, table')
  BY <1>2, <1>3, ClassifyAndApplyKeeps
<1> QED BY <1>2, <1>4, KeepsChain

LEMMA NoteForkKeeps ==
  ASSUME TypeOK, NEW pr \in [Pid -> Process], Front.pid \in Pid
  PROVE  Keeps(table, NoteFork(table, pr))
<1> DEFINE c    == Front.pid
           info == [ppid |-> pr[c].ppid, comm |-> pr[c].comm, path |-> pr[c].cg]
           u    == Insert(table, c, info)
<1>1. IsTable(table) /\ info \in Info
  BY DEF TypeOK, Info, Process
<1> HIDE DEF info
<1>2. IsTable(u) /\ Tracked(table) \subseteq Tracked(u) /\ Keeps(table, u)
  BY <1>1, InsertOK, KeepsInsert
<1> HIDE DEF u
<1>3. Keeps(table, MarkClassified(u, c))
  BY <1>2, KeepsMarkClassified, KeepsChain
<1>4. NoteFork(table, pr) = IF pr[c].st = "none" THEN table ELSE MarkClassified(u, c)
  BY DEF NoteFork, u, info
<1> QED BY <1>3, <1>4 DEF Keeps

LEMMA ProcEventsKeep ==
  ASSUME TypeOK, ProcEvents PROVE Keeps(table, table')
<1>1. CASE OnFork
  <2>1. Front.pid \in Pid
    BY <1>1, TakeType, EventFields DEF OnFork
  <2> QED BY <1>1, <2>1, NoteForkKeeps DEF OnFork, TypeOK
<1>2. CASE OnForkBomb
  <2>1. Front.pid \in Pid
    BY <1>2, TakeType, EventFields DEF OnForkBomb
  <2>2. proc' \in [Pid -> Process]
    BY <1>2, AssignedType DEF OnForkBomb, TypeOK
  <2>3. table' \in {table, NoteFork(table, proc')}
    BY <1>2 DEF OnForkBomb
  <2> QED BY <2>1, <2>2, <2>3, NoteForkKeeps DEF Keeps
<1>3. CASE OnExec
  <2> DEFINE p == Front.pid
             u == Insert(table, p, ReadInfo(p))
  <2>1. p \in Pid
    BY <1>3, TakeType, EventFields DEF OnExec
  <2>2. CASE ~Exists(p)
    BY <1>3, <2>2 DEF OnExec, Keeps
  <2>3. CASE Exists(p) /\ startup
    <3>1. table' = MarkClassified(u, p)
      BY <1>3, <2>3 DEF OnExec
    <3>2. IsTable(table) /\ ReadInfo(p) \in Info
      BY <2>1, ReadInfoType DEF TypeOK
    <3>3. IsTable(u) /\ Tracked(table) \subseteq Tracked(u) /\ Keeps(table, u)
      BY <2>1, <3>2, InsertOK, KeepsInsert
    <3> HIDE DEF u
    <3> QED BY <2>1, <3>1, <3>3, KeepsMarkClassified, KeepsChain
  <2>4. CASE Exists(p) /\ ~startup
    <3>1. ClassifyAndApply(Insert(table, p, ReadInfo(p)), p)
      BY <1>3, <2>4 DEF OnExec
    <3> QED BY <2>1, <3>1, ReadAndApplyKeeps
  <2> QED BY <2>2, <2>3, <2>4
<1>4. CASE OnComm
  <2> DEFINE p == Front.pid
             done == p \in Tracked(table) /\ table.entries[p].classified
  <2>1. p \in Pid
    BY <1>4, TakeType, EventFields DEF OnComm
  <2>2. CASE startup \/ done \/ ~Exists(p)
    BY <1>4, <2>2 DEF OnComm, Keeps
  <2>3. CASE ~(startup \/ done \/ ~Exists(p))
    <3>1. ClassifyAndApply(Insert(table, p, ReadInfo(p)), p)
      BY <1>4, <2>3 DEF OnComm
    <3> QED BY <2>1, <3>1, ReadAndApplyKeeps
  <2> QED BY <2>2, <2>3
<1>5. CASE OnExit
  <2>1. Front.pid \in Pid
    BY <1>5, TakeType, EventFields DEF OnExit
  <2> QED BY <1>5, <2>1, KeepsRemove DEF OnExit, TypeOK
<1> QED BY <1>1, <1>2, <1>3, <1>4, <1>5 DEF ProcEvents

LEMMA LoopsKeep ==
  ASSUME TypeOK, Loops PROVE Keeps(table, table')
<1>1. CASE ScanList
  BY <1>1 DEF ScanList, Keeps
<1>2. CASE ScanRead
  <2> DEFINE live  == todo.pids
             new   == {p \in live \ Tracked(table) : Exists(p)}
             fresh == [p \in new |-> ReadInfo(p)]
  <2>1. live \in SUBSET Pid /\ IsTable(table)
    BY DEF TypeOK, Todo
  <2>2. IsMap(fresh, Pid, Info)
    BY <2>1, ReadInfoType DEF IsMap, TypeOK
  <2>3. table' = MergeScan(table, fresh, live)
    BY <1>2 DEF ScanRead
  <2> HIDE DEF fresh, live
  <2>4. \A q \in Tracked(table') :
          q \in Tracked(table) => table'.entries[q] = table.entries[q]
    BY <2>1, <2>2, <2>3, MergeScanOK
  <2> QED BY <2>4 DEF Keeps
<1>3. ASSUME NEW p \in Pid, ScanClassify(p) PROVE Keeps(table, table')
  <2>1. IsTable(table) /\ p \in Tracked(table) /\ ClassifyAndApply(table, p)
    BY <1>3 DEF ScanClassify, TypeOK
  <2> QED BY <2>1, ClassifyAndApplyKeeps
<1>4. ASSUME NEW p \in Pid, Recheck(p) PROVE Keeps(table, table')
  <2>1. CASE table' = table
    BY <2>1 DEF Keeps
  <2>2. CASE ClassifyAndApply(Insert(table, p, ReadInfo(p)), p)
    BY <2>2, ReadAndApplyKeeps
  <2>3. CASE table' = Remove(table, p)
    BY <2>3, KeepsRemove DEF TypeOK
  <2> QED BY <1>4, <2>1, <2>2, <2>3 DEF Recheck
<1>5. ASSUME NEW p \in Pid, Restore(p) PROVE Keeps(table, table')
  BY <1>5 DEF Restore, Keeps
<1> QED BY <1>1, <1>2, <1>3, <1>4, <1>5 DEF Loops

LEMMA RequestsKeep ==
  ASSUME TypeOK, Requests PROVE Keeps(table, table')
<1>1. CASE OnPressure
  <2> DEFINE u == MarkClassifiedFalse(table, In("swapstorm"))
  <2>1. table' \in {table, u} /\ IsTable(table)
    BY <1>1 DEF OnPressure, TypeOK
  <2>2. \A q \in Tracked(table) : u.entries[q].orig = table.entries[q].orig
    BY <2>1, MarkClassifiedFalseOK
  <2> HIDE DEF u
  <2> QED BY <2>1, <2>2 DEF Keeps
<1>2. CASE OnForeground \/ OnPlace \/ OnReload \/ OnShutdown
  BY <1>2 DEF OnForeground, OnPlace, OnReload, OnShutdown, Keeps
<1> QED BY <1>1, <1>2 DEF Requests

(* The memory of a daemon that ends is empty, and a new one starts empty.   *)
LEMMA EndsKeeps ==
  ASSUME NEW final, Ends(final) PROVE Keeps(table, table')
<1>1. Tracked(table') = {}
  BY EmptyTableOK DEF Ends
<1> QED BY <1>1 DEF Keeps

LEMMA NextKeeps ==
  ASSUME TypeOK, [Next]_vars PROVE Keeps(table, table')
<1>1. CASE table' = table
  BY <1>1 DEF Keeps
<1>2. CASE ProcEvents \/ Loops \/ Requests
  BY <1>2, ProcEventsKeep, LoopsKeep, RequestsKeep
<1>3. CASE Teardown \/ Crash
  BY <1>3, EndsKeeps DEF Teardown, Crash
<1>4. (Timers \/ GcTier \/ Start \/ Environment \/ Producers \/ UNCHANGED vars)
        => table' = table
  <2>1. Producers => table' = table
    BY DEF Producers, RescanTick, Signal, Client, PsiUpdate, Send
  <2>2. Timers => table' = table
    BY DEF Timers, EndGrace, OnRescan, OnRecheck, OnGc
  <2>3. (GcTier \/ Start \/ Environment \/ UNCHANGED vars) => table' = table
    BY DEF GcTier, Start, Environment, vars
  <2> QED BY <2>1, <2>2, <2>3
<1> QED BY <1>1, <1>2, <1>3, <1>4 DEF Next, DaemonStep

-----------------------------------------------------------------------------
(* No exec, rescan, recheck, reload or later rule replaces the cgroup that  *)
(* teardown gives back to a process, while its entry stays in the table.    *)
THEOREM OriginalStays == Spec => OriginalIsFirst
<1> DEFINE KeepsAll == \A p \in Tracked(table) :
                         p \in Tracked(table)' /\ table.entries[p].orig # None
                           => table'.entries[p].orig = table.entries[p].orig
<1>1. TypeOK /\ [Next]_vars => [KeepsAll]_vars
  BY NextKeeps DEF Keeps
<1> QED BY TypeCorrect, <1>1, PTL DEF Spec, OriginalIsFirst

-----------------------------------------------------------------------------
(* MovedCanReturn: a moved process without a recorded cgroup does not exist, *)
(* or its pid has a new owner whose Fork is on its way.                     *)

Homeless(t) == {p \in MovedPids(t) : t.entries[p].orig = None}

ReturnInv ==
  /\ ~Up => Tracked(table) = {}
  /\ \A p \in Homeless(table) : ~Exists(p) \/ Forked(p)

(* Only the cgroups of the processes differ.                                *)
SameLives(pr, qr) ==
  \A p \in Pid : qr[p].st = pr[p].st /\ qr[p].ppid = pr[p].ppid

LEMMA AssignedLives ==
  ASSUME NEW pr \in [Pid -> Process], NEW S, NEW tier
  PROVE  SameLives(pr, Assigned(pr, S, tier))
  BY DEF SameLives, Assigned, Process

(* An entry is homeless in u only if it was in t, when each of them is as   *)
(* it was or has no action.                                                 *)
LEMMA HomelessLess ==
  ASSUME NEW t, NEW u,
         \A q \in Tracked(u) :
           \/ u.entries[q].applied = None
           \/ /\ q \in Tracked(t) /\ u.entries[q].applied = t.entries[q].applied
              /\ u.entries[q].orig = t.entries[q].orig
  PROVE  Homeless(u) \subseteq Homeless(t)
  BY DEF Homeless, MovedPids

LEMMA ClassifyAndApplyHomes ==
  ASSUME TypeOK, NEW t, IsTable(t), NEW p \in Tracked(t), ClassifyAndApply(t, p)
  PROVE  /\ Homeless(table') \subseteq Homeless(t) \cup {q \in {p} : ~Exists(q)}
         /\ SameLives(proc, proc')
<1>1. p \in Pid /\ proc[p].cg \in Group /\ proc \in [Pid -> Process]
  BY DEF IsTable, IsMap, Tracked, TypeOK, Process
<1>2. CASE Verdict(t, p) = None
  <2>1. table' = MarkClassified(t, p) /\ proc' = proc
    BY <1>2 DEF ClassifyAndApply
  <2>2. /\ Tracked(table') = Tracked(t)
        /\ \A q \in Tracked(t) : /\ table'.entries[q].applied = t.entries[q].applied
                                 /\ table'.entries[q].orig = t.entries[q].orig
    BY <1>1, <2>1, MarkClassifiedOK
  <2>3. Homeless(table') \subseteq Homeless(t)
    BY <2>2, HomelessLess
  <2> QED BY <2>1, <2>3 DEF SameLives
<1>3. CASE Verdict(t, p) # None
  <2> DEFINE a == Verdict(t, p)
             moves == a.opt.cgroup # None
             kids == IF a.children THEN ChildrenOf(t, p) \cap Tracked(t) ELSE {}
             u == IF moves /\ Exists(p) THEN SetOriginal(t, p, proc[p].cg) ELSE t
             rechecks == a.opt.recheck_secs # None
  <2>1. /\ table' = SetApplied(u, p, a, rechecks)
        /\ proc' = IF moves THEN Assigned(proc, {p} \cup kids, a.opt.cgroup) ELSE proc
    BY <1>3 DEF ClassifyAndApply
  <2>2. a \in Action /\ rechecks \in BOOLEAN
    BY <1>3, VerdictType DEF TypeOK
  <2> HIDE DEF a, rechecks, kids
  <2>3. SameLives(proc, proc')
    BY <1>1, <2>1, AssignedLives DEF SameLives
  <2>4. /\ IsTable(u) /\ Tracked(u) = Tracked(t)
        /\ \A q \in Tracked(t) :
             /\ u.entries[q].applied = t.entries[q].applied
             /\ t.entries[q].orig # None => u.entries[q].orig = t.entries[q].orig
        /\ moves /\ Exists(p) => u.entries[p].orig # None
    BY <1>1, SetOriginalOK
  <2> HIDE DEF u
  <2>5. /\ Tracked(table') = Tracked(u)
        /\ table'.entries[p].applied = a
        /\ table'.entries[p].orig = u.entries[p].orig
        /\ \A q \in Tracked(u) \ {p} : table'.entries[q] = u.entries[q]
    BY <2>1, <2>2, <2>4, SetAppliedOK
  <2>6. ASSUME NEW q \in Homeless(table') PROVE q \in Homeless(t) \/ (q = p /\ ~Exists(q))
    <3>1. /\ q \in Tracked(t) /\ table'.entries[q].applied # None
          /\ table'.entries[q].applied.opt.cgroup # None
          /\ table'.entries[q].orig = None
      BY <2>4, <2>5, <2>6 DEF Homeless, MovedPids
    <3>2. CASE q = p
      BY <2>4, <2>5, <3>1, <3>2
    <3>3. CASE q # p
      BY <2>4, <2>5, <3>1, <3>3 DEF Homeless, MovedPids
    <3> QED BY <3>2, <3>3
  <2> QED BY <2>3, <2>6
<1> QED BY <1>2, <1>3

(* Insertion makes a home of the entry: its action is forgotten.            *)
LEMMA HomelessInsert ==
  ASSUME NEW t, IsTable(t), NEW p \in Pid, NEW info \in Info
  PROVE  Homeless(Insert(t, p, info)) \subseteq Homeless(t) \ {p}
<1> DEFINE u == Insert(t, p, info)
<1>1. /\ Tracked(u) = Tracked(t) \cup {p} /\ u.entries[p].applied = None
      /\ \A q \in Tracked(t) \ {p} : u.entries[q] = t.entries[q]
  BY InsertOK
<1> HIDE DEF u
<1>2. p \notin Homeless(u)
  BY <1>1 DEF Homeless, MovedPids
<1>3. Homeless(u) \subseteq Homeless(t)
  BY <1>1, HomelessLess
<1>4. Homeless(u) \subseteq Homeless(t) \ {p}
  BY <1>2, <1>3
<1> QED BY <1>4 DEF u

LEMMA HomelessMark ==
  ASSUME NEW t, IsTable(t), NEW p \in Pid
  PROVE  Homeless(MarkClassified(t, p)) \subseteq Homeless(t)
<1> DEFINE u == MarkClassified(t, p)
<1>1. /\ Tracked(u) = Tracked(t)
      /\ \A q \in Tracked(t) : /\ u.entries[q].applied = t.entries[q].applied
                               /\ u.entries[q].orig = t.entries[q].orig
  BY MarkClassifiedOK
<1> HIDE DEF u
<1>2. Homeless(u) \subseteq Homeless(t)
  BY <1>1, HomelessLess
<1> QED BY <1>2 DEF u

LEMMA HomelessRemove ==
  ASSUME NEW t, IsTable(t), NEW p \in Pid
  PROVE  Homeless(Remove(t, p)) \subseteq Homeless(t)
<1> DEFINE u == Remove(t, p)
<1>1. Tracked(u) = Tracked(t) \ {p} /\ \A q \in Tracked(u) : u.entries[q] = t.entries[q]
  BY RemoveOK
<1> HIDE DEF u
<1>2. Homeless(u) \subseteq Homeless(t)
  BY <1>1, HomelessLess
<1> QED BY <1>2 DEF u

(* An event that is not the first is still in the channel when the first is *)
(* taken from it, one place further on.                                     *)
LEMMA TailKeeps ==
  ASSUME queue \in Seq(Event), queue # <<>>, queue' = Tail(queue)
  PROVE  /\ \A i \in DOMAIN queue \ {1} : i - 1 \in DOMAIN queue' /\ queue'[i - 1] = queue[i]
         /\ \A i \in DOMAIN queue' : i + 1 \in DOMAIN queue /\ queue'[i] = queue[i + 1]
<1>1. Len(queue') = Len(queue) - 1 /\ \A i \in 1..Len(queue') : queue'[i] = queue[i + 1]
  BY HeadTailProperties
<1>2. DOMAIN queue' = 1..Len(queue') /\ DOMAIN queue = 1..Len(queue) /\ Len(queue) \in Nat
  BY HeadTailProperties
<1> QED BY <1>1, <1>2

(* What is on its way stays there when an event is added.                   *)
LEMMA AppendKeeps ==
  ASSUME queue \in Seq(Event), NEW e \in Event, queue' = Append(queue, e)
  PROVE  /\ DOMAIN queue' = DOMAIN queue \cup {Len(queue) + 1}
         /\ Len(queue) + 1 \notin DOMAIN queue
         /\ \A i \in DOMAIN queue : queue'[i] = queue[i]
         /\ queue'[Len(queue) + 1] = e
<1>1. /\ Len(queue') = Len(queue) + 1
      /\ \A i \in 1..Len(queue) : queue'[i] = queue[i]
      /\ queue'[Len(queue) + 1] = e
  BY AppendProperties
<1>2. DOMAIN queue' = 1..Len(queue') /\ DOMAIN queue = 1..Len(queue) /\ Len(queue) \in Nat
  BY <1>1, AppendProperties
<1> QED BY <1>1, <1>2

LEMMA TakeKeepsForks ==
  ASSUME TypeOK, NEW type, type # "Fork", Take(type), NEW p, Forked(p)
  PROVE  Forked(p)'
<1>1. queue \in Seq(Event) /\ queue # <<>> /\ queue' = Tail(queue) /\ Head(queue).type = type
  BY DEF TypeOK, Take, Waiting
<1>2. PICK i \in DOMAIN queue : queue[i].type = "Fork" /\ queue[i].pid = p
  BY DEF Forked
<1>3. Head(queue) = queue[1]
  BY <1>1, HeadTailProperties
<1>4. i # 1
  BY <1>1, <1>2, <1>3
<1>5. i - 1 \in DOMAIN queue' /\ queue'[i - 1] = queue[i]
  BY <1>1, <1>4, TailKeeps
<1> QED BY <1>2, <1>5 DEF Forked

(* A step that takes no home from a process that exists, and no Fork from   *)
(* the channel.                                                             *)
Settles ==
  /\ Homeless(table') \subseteq Homeless(table) \cup {q \in Pid : ~Exists(q)}
  /\ SameLives(proc, proc')
  /\ \A q \in Pid : Forked(q) => Forked(q)'
  /\ Up /\ Up'

LEMMA SettlesOK ==
  ASSUME TypeOK, ReturnInv, Settles PROVE ReturnInv'
<1>1. \A q \in Pid : Exists(q)' <=> Exists(q)
  BY DEF Settles, SameLives, Exists
<1>2. Homeless(table) \subseteq Pid
  BY DEF TypeOK, IsTable, IsMap, Tracked, Homeless, MovedPids
<1> QED BY <1>1, <1>2 DEF Settles, ReturnInv

LEMMA ReadAndApplyHomes ==
  ASSUME TypeOK, NEW p \in Pid, Exists(p), ClassifyAndApply(Insert(table, p, ReadInfo(p)), p)
  PROVE  Homeless(table') \subseteq Homeless(table) /\ SameLives(proc, proc')
<1> DEFINE u == Insert(table, p, ReadInfo(p))
<1>1. IsTable(table) /\ ReadInfo(p) \in Info
  BY ReadInfoType DEF TypeOK
<1>2. IsTable(u) /\ p \in Tracked(u) /\ Homeless(u) \subseteq Homeless(table)
  BY <1>1, InsertOK, HomelessInsert
<1>3. ClassifyAndApply(u, p)
  OBVIOUS
<1> HIDE DEF u
<1> QED BY <1>2, <1>3, ClassifyAndApplyHomes

(* A Fork that is handled gives the entry of the child no action, unless    *)
(* the child is gone.                                                       *)
LEMMA OnForkReturns ==
  ASSUME TypeOK, ReturnInv, OnFork PROVE ReturnInv'
<1> DEFINE c    == Front.pid
           info == [ppid |-> proc[c].ppid, comm |-> proc[c].comm, path |-> proc[c].cg]
           u    == Insert(table, c, info)
<1>1. c \in Pid /\ IsTable(table) /\ info \in Info
  BY TakeType, EventFields DEF OnFork, TypeOK, Info, Process
<1> HIDE DEF info
<1>2. IsTable(u) /\ Homeless(u) \subseteq Homeless(table) \ {c}
  BY <1>1, InsertOK, HomelessInsert
<1> HIDE DEF u
<1>3. table' = IF proc[c].st = "none" THEN table ELSE MarkClassified(u, c)
  BY DEF OnFork, NoteFork, u, info
<1>4. Homeless(table') \subseteq Homeless(table) /\ (Exists(c) => c \notin Homeless(table'))
  BY <1>1, <1>2, <1>3, HomelessMark DEF Exists
<1>5. ASSUME NEW q \in Homeless(table') PROVE ~Exists(q)' \/ Forked(q)'
  <2>1. ~Exists(q) \/ Forked(q)
    BY <1>4, <1>5 DEF ReturnInv
  <2>2. CASE ~Exists(q)
    BY <2>2 DEF OnFork, Exists
  <2>3. CASE Forked(q) /\ Exists(q)
    <3>1. queue \in Seq(Event) /\ queue # <<>> /\ queue' = Tail(queue) /\ c = queue[1].pid
      BY HeadTailProperties DEF OnFork, Take, Waiting, TypeOK, Front
    <3>2. q # c
      BY <1>4, <1>5, <2>3
    <3>3. PICK i \in DOMAIN queue : queue[i].type = "Fork" /\ queue[i].pid = q
      BY <2>3 DEF Forked
    <3>4. i - 1 \in DOMAIN queue' /\ queue'[i - 1] = queue[i]
      BY <3>1, <3>2, <3>3, TailKeeps
    <3> QED BY <3>3, <3>4 DEF Forked
  <2> QED BY <2>1, <2>2, <2>3
<1>6. Up'
  BY DEF OnFork, Take, Waiting, Up
<1> QED BY <1>5, <1>6 DEF ReturnInv

LEMMA OnExecReturns ==
  ASSUME TypeOK, ReturnInv, OnExec PROVE ReturnInv'
<1> DEFINE p == Front.pid
           u == Insert(table, p, ReadInfo(p))
<1>1. p \in Pid /\ Take("Exec")
  BY TakeType, EventFields DEF OnExec
<1>2. /\ Homeless(table') \subseteq Homeless(table) \cup {q \in Pid : ~Exists(q)}
      /\ SameLives(proc, proc')
  <2>1. CASE ~Exists(p)
    BY <2>1 DEF OnExec, SameLives
  <2>2. CASE Exists(p) /\ startup
    <3>1. table' = MarkClassified(u, p) /\ proc' = proc
      BY <2>2 DEF OnExec
    <3>2. IsTable(table) /\ ReadInfo(p) \in Info
      BY <1>1, ReadInfoType DEF TypeOK
    <3>3. IsTable(u) /\ Homeless(u) \subseteq Homeless(table)
      BY <1>1, <3>2, InsertOK, HomelessInsert
    <3> HIDE DEF u
    <3> QED BY <1>1, <3>1, <3>3, HomelessMark DEF SameLives
  <2>3. CASE Exists(p) /\ ~startup
    <3>1. ClassifyAndApply(Insert(table, p, ReadInfo(p)), p)
      BY <2>3 DEF OnExec
    <3> QED BY <1>1, <2>3, <3>1, ReadAndApplyHomes
  <2> QED BY <2>1, <2>2, <2>3
<1>3. \A q \in Pid : Forked(q) => Forked(q)'
  BY <1>1, TakeKeepsForks
<1>4. Up /\ Up'
  BY <1>1 DEF OnExec, Take, Waiting, Up
<1> QED BY <1>2, <1>3, <1>4, SettlesOK DEF Settles

LEMMA OnCommReturns ==
  ASSUME TypeOK, ReturnInv, OnComm PROVE ReturnInv'
<1> DEFINE p    == Front.pid
           done == p \in Tracked(table) /\ table.entries[p].classified
<1>1. p \in Pid /\ Take("Comm")
  BY TakeType, EventFields DEF OnComm
<1>2. Homeless(table') \subseteq Homeless(table) /\ SameLives(proc, proc')
  <2>1. CASE startup \/ done \/ ~Exists(p)
    BY <2>1 DEF OnComm, SameLives
  <2>2. CASE ~(startup \/ done \/ ~Exists(p))
    <3>1. ClassifyAndApply(Insert(table, p, ReadInfo(p)), p)
      BY <2>2 DEF OnComm
    <3> QED BY <1>1, <2>2, <3>1, ReadAndApplyHomes
  <2> QED BY <2>1, <2>2
<1>3. \A q \in Pid : Forked(q) => Forked(q)'
  BY <1>1, TakeKeepsForks
<1>4. Up /\ Up'
  BY <1>1 DEF OnComm, Take, Waiting, Up
<1> QED BY <1>2, <1>3, <1>4, SettlesOK DEF Settles

LEMMA OnExitReturns ==
  ASSUME TypeOK, ReturnInv, OnExit PROVE ReturnInv'
<1>1. Front.pid \in Pid /\ Take("Exit") /\ IsTable(table)
  BY TakeType, EventFields DEF OnExit, TypeOK
<1>2. Homeless(table') \subseteq Homeless(table) /\ SameLives(proc, proc')
  BY <1>1, HomelessRemove DEF OnExit, SameLives
<1>3. \A q \in Pid : Forked(q) => Forked(q)'
  BY <1>1, TakeKeepsForks
<1>4. Up /\ Up'
  BY <1>1 DEF OnExit, Take, Waiting, Up
<1> QED BY <1>2, <1>3, <1>4, SettlesOK DEF Settles

(* The channel is left alone, and so are the forks in it.                   *)
LEMMA ForksStay ==
  ASSUME queue' = queue, NEW q PROVE Forked(q) => Forked(q)'
  BY DEF Forked

LEMMA LoopsReturn ==
  ASSUME TypeOK, ReturnInv, Loops PROVE ReturnInv'
<1>1. Up /\ Up'
  BY DEF Loops, ScanList, ScanRead, ScanClassify, Recheck, Restore, Up
<1>2. \A q \in Pid : Forked(q) => Forked(q)'
  <2>1. queue' = queue
    BY DEF Loops, ScanList, ScanRead, ScanClassify, Recheck, Restore
  <2> QED BY <2>1, ForksStay
<1>3. /\ Homeless(table') \subseteq Homeless(table) \cup {q \in Pid : ~Exists(q)}
      /\ SameLives(proc, proc')
  <2>1. CASE ScanList
    BY <2>1 DEF ScanList, SameLives
  <2>2. CASE ScanRead
    <3> DEFINE live  == todo.pids
               new   == {p \in live \ Tracked(table) : Exists(p)}
               fresh == [p \in new |-> ReadInfo(p)]
    <3>1. live \in SUBSET Pid /\ IsTable(table)
      BY DEF TypeOK, Todo
    <3>2. IsMap(fresh, Pid, Info)
      BY <3>1, ReadInfoType DEF IsMap, TypeOK
    <3>3. table' = MergeScan(table, fresh, live) /\ proc' = proc
      BY <2>2 DEF ScanRead
    <3> HIDE DEF fresh, live
    <3>4. \A q \in Tracked(table') :
            IF q \in Tracked(table) THEN table'.entries[q] = table.entries[q]
                                    ELSE table'.entries[q].applied = None
      BY <3>1, <3>2, <3>3, MergeScanOK
    <3>5. Homeless(table') \subseteq Homeless(table)
      BY <3>4, HomelessLess
    <3> QED BY <3>3, <3>5 DEF SameLives
  <2>3. ASSUME NEW p \in Pid, ScanClassify(p)
        PROVE  /\ Homeless(table') \subseteq Homeless(table) \cup {q \in Pid : ~Exists(q)}
               /\ SameLives(proc, proc')
    <3>1. IsTable(table) /\ p \in Tracked(table) /\ ClassifyAndApply(table, p)
      BY <2>3 DEF ScanClassify, TypeOK
    <3> QED BY <3>1, ClassifyAndApplyHomes
  <2>4. ASSUME NEW p \in Pid, Recheck(p)
        PROVE  Homeless(table') \subseteq Homeless(table) /\ SameLives(proc, proc')
    <3>1. CASE p \in foreground
      BY <2>4, <3>1 DEF Recheck, SameLives
    <3>2. CASE p \notin foreground /\ Exists(p)
      BY <2>4, <3>2, ReadAndApplyHomes DEF Recheck
    <3>3. CASE p \notin foreground /\ ~Exists(p)
      BY <2>4, <3>3, HomelessRemove DEF Recheck, TypeOK, SameLives
    <3> QED BY <3>1, <3>2, <3>3
  <2>5. ASSUME NEW p \in Pid, Restore(p)
        PROVE  table' = table /\ SameLives(proc, proc')
    BY <2>5 DEF Restore, SameLives, TypeOK, Process
  <2> QED BY <2>1, <2>2, <2>3, <2>4, <2>5 DEF Loops
<1> QED BY <1>1, <1>2, <1>3, SettlesOK DEF Settles

LEMMA TimersReturn ==
  ASSUME TypeOK, ReturnInv, Timers PROVE ReturnInv'
<1>1. Up /\ Up' /\ table' = table /\ proc' = proc
  BY DEF Timers, EndGrace, OnRescan, OnRecheck, OnGc, Take, Waiting, Up
<1>2. \A q \in Pid : Forked(q) => Forked(q)'
  <2>1. CASE EndGrace
    BY <2>1, ForksStay DEF EndGrace
  <2>2. CASE OnRescan \/ OnRecheck \/ OnGc
    BY <2>2, TakeKeepsForks DEF OnRescan, OnRecheck, OnGc
  <2> QED BY <2>1, <2>2 DEF Timers
<1>3. SameLives(proc, proc')
  BY <1>1 DEF SameLives
<1> QED BY <1>1, <1>2, <1>3, SettlesOK DEF Settles

(* A request moves processes and nothing else.                              *)
LEMMA RequestsLive ==
  ASSUME TypeOK, Requests PROVE SameLives(proc, proc')
<1>1. proc \in [Pid -> Process] /\ dirs \subseteq Tier
  BY DEF TypeOK
<1>2. CASE OnForeground
  <2>1. \A new : LET qr == Assigned(proc, foreground \ new, "system") IN
                 SameLives(proc, Assigned(qr, new, "interactive"))
    <3> TAKE new
    <3> DEFINE qr == Assigned(proc, foreground \ new, "system")
    <3>1. qr \in [Pid -> Process] /\ SameLives(proc, qr)
      BY <1>1, AssignedType, AssignedLives
    <3> HIDE DEF qr
    <3>2. SameLives(qr, Assigned(qr, new, "interactive"))
      BY <3>1, AssignedLives
    <3>3. SameLives(proc, Assigned(qr, new, "interactive"))
      BY <3>1, <3>2 DEF SameLives
    <3> QED BY <3>3 DEF qr
  <2>2. SameLives(proc, proc)
    BY DEF SameLives
  <2> QED BY <1>2, <2>1, <2>2 DEF OnForeground
<1>3. CASE OnPlace \/ OnReload \/ OnPressure \/ OnShutdown
  <2>1. \/ proc' = proc
        \/ \E S, tier : proc' = Assigned(proc, S, tier)
    BY <1>3 DEF OnPlace, OnReload, OnPressure, OnShutdown
  <2> QED BY <1>1, <2>1, AssignedLives DEF SameLives
<1> QED BY <1>2, <1>3 DEF Requests

LEMMA RequestsReturn ==
  ASSUME TypeOK, ReturnInv, Requests PROVE ReturnInv'
<1>1. Up /\ Up'
  BY DEF Requests, OnForeground, OnPlace, OnReload, OnPressure, OnShutdown, Take, Waiting, Up
<1>2. \A q \in Pid : Forked(q) => Forked(q)'
  BY TakeKeepsForks DEF Requests, OnForeground, OnPlace, OnReload, OnPressure, OnShutdown
<1>3. Homeless(table') \subseteq Homeless(table)
  <2>1. CASE OnPressure
    <3> DEFINE u == MarkClassifiedFalse(table, In("swapstorm"))
    <3>1. table' \in {table, u} /\ IsTable(table)
      BY <2>1 DEF OnPressure, TypeOK
    <3>2. /\ Tracked(u) = Tracked(table)
          /\ \A q \in Tracked(table) :
               /\ u.entries[q].applied \in {table.entries[q].applied, None}
               /\ u.entries[q].orig = table.entries[q].orig
      BY <3>1, MarkClassifiedFalseOK
    <3> HIDE DEF u
    <3>3. Homeless(u) \subseteq Homeless(table)
      BY <3>2, HomelessLess
    <3> QED BY <3>1, <3>3
  <2>2. CASE OnForeground \/ OnPlace \/ OnReload \/ OnShutdown
    BY <2>2 DEF OnForeground, OnPlace, OnReload, OnShutdown
  <2> QED BY <2>1, <2>2 DEF Requests
<1>4. SameLives(proc, proc')
  BY RequestsLive
<1> QED BY <1>1, <1>2, <1>3, <1>4, SettlesOK DEF Settles

LEMMA SendReturns ==
  ASSUME TypeOK, ReturnInv, NEW e \in Event, Send(e) PROVE ReturnInv'
<1>1. queue \in Seq(Event) /\ queue' = Append(queue, e)
  BY DEF TypeOK, Send
<1>2. \A q : Forked(q) => Forked(q)'
  BY <1>1, AppendKeeps DEF Forked
<1> QED BY <1>2 DEF Send, ReturnInv, Up, Exists

(* Every producer but the kernel sends an event.                            *)
Sends ==
  \E e \in Event : /\ Send(e) /\ e.type \notin {"Fork", "Exit"}
                   /\ e.type = "Gc" => "gc" \in Sources

LEMMA ProducersSend ==
  ASSUME Producers PROVE Sends
<1>1. \A type \in {"Rescan", "Recheck", "Gc", "Reload", "Shutdown"} : [type |-> type] \in Event
  BY DEF Event
<1>2. \A p \in Pid : [type |-> "Foreground", pid |-> p] \in Event
  BY DEF Event
<1>3. \A m \in Placements : [type |-> "Place", pid |-> m.pid, tier |-> m.tier] \in Event
  BY TierAssumption DEF Event
<1>4. \A l \in Readings : [type |-> "Pressure", level |-> l] \in Event
  BY TierAssumption DEF Event
<1>5. CASE RescanTick
  BY <1>1, <1>5 DEF RescanTick, Sends
<1>6. ASSUME NEW source, NEW type \in {"Recheck", "Gc", "Reload", "Shutdown"},
             Signal(source, type), type = "Gc" => source = "gc"
      PROVE  Sends
  BY <1>1, <1>6 DEF Signal, Sends
<1>7. CASE Client
  BY <1>2, <1>3, <1>7 DEF Client, Sends
<1>8. CASE PsiUpdate
  BY <1>4, <1>8 DEF PsiUpdate, Sends
<1> QED BY <1>5, <1>6, <1>7, <1>8 DEF Producers

(* A process comes to exist by a fork that is announced, or while no daemon *)
(* runs, whose table is empty.                                              *)
LEMMA EnvironmentReturns ==
  ASSUME TypeOK, ReturnInv, Environment PROVE ReturnInv'
<1>1. /\ proc \in [Pid -> Process] /\ queue \in Seq(Event)
      /\ table' = table /\ (Up' <=> Up)
  BY DEF Environment, TypeOK, Up
<1>2. Homeless(table) \subseteq Pid /\ (~Up => Homeless(table) = {})
  BY DEF TypeOK, IsTable, IsMap, Tracked, Homeless, MovedPids, ReturnInv
<1>3. ASSUME NEW e \in Event, Announce(e), NEW q
      PROVE  /\ Forked(q) => Forked(q)'
             /\ Up /\ e.type = "Fork" => Forked(e.pid)'
  <2>1. CASE Up
    <3>1. queue' = Append(queue, e)
      BY <1>3, <2>1 DEF Announce
    <3> QED BY <1>1, <3>1, AppendKeeps DEF Forked
  <2>2. CASE ~Up
    <3>1. queue' = queue
      BY <1>3, <2>2 DEF Announce
    <3> QED BY <2>2, <3>1 DEF Forked
  <2> QED BY <2>1, <2>2
<1>4. ASSUME NEW q \in Homeless(table) PROVE ~Exists(q)' \/ Forked(q)'
  <2>1. Up /\ q \in Pid /\ (~Exists(q) \/ Forked(q))
    BY <1>2, <1>4 DEF ReturnInv
  <2>2. ASSUME NEW p \in Pid, NEW c \in Pid, Fork(p, c)
        PROVE  ~Exists(q)' \/ Forked(q)'
    <3> DEFINE e == [type |-> "Fork", parent |-> p, pid |-> c]
    <3>1. e \in Event /\ Announce(e) /\ e.type = "Fork" /\ e.pid = c
      BY <2>2 DEF Event, Fork
    <3>2. q # c => (Exists(q)' <=> Exists(q))
      BY <1>1, <2>1, <2>2 DEF Fork, Exists
    <3> QED BY <1>3, <2>1, <3>1, <3>2
  <2>3. ASSUME NEW p \in Pid, NEW comm \in Comm, Exec(p, comm) \/ Rename(p, comm)
        PROVE  ~Exists(q)' \/ Forked(q)'
    <3>1. PICK e \in Event : Announce(e)
      <4>1. [type |-> "Exec", pid |-> p] \in Event /\ [type |-> "Comm", pid |-> p] \in Event
        BY DEF Event
      <4> QED BY <2>3, <4>1 DEF Exec, Rename
    <3>2. proc' = [proc EXCEPT ![p].comm = comm]
      BY <2>3 DEF Exec, Rename
    <3>3. Exists(q)' <=> Exists(q)
      BY <1>1, <2>1, <3>2 DEF Exists, Process
    <3> QED BY <1>3, <2>1, <3>1, <3>3
  <2>4. ASSUME NEW p \in Pid, Exit(p)
        PROVE  ~Exists(q)' \/ Forked(q)'
    <3>1. [type |-> "Exit", pid |-> p] \in Event /\ Announce([type |-> "Exit", pid |-> p])
      BY <2>4 DEF Event, Exit
    <3>2. Exists(q)' => Exists(q)
      <4>1. q = p => Exists(q)
        BY <2>4 DEF Exit, Alive, Exists
      <4>2. q # p => proc'[q].st = proc[q].st
        BY <1>1, <2>1, <2>4 DEF Exit, Process
      <4> QED BY <4>1, <4>2 DEF Exists
    <3> QED BY <1>3, <2>1, <3>1, <3>2
  <2>5. ASSUME NEW p \in Pid, Reap(p)
        PROVE  ~Exists(q)' \/ Forked(q)'
    <3>1. queue' = queue /\ proc' = [proc EXCEPT ![p] = Nobody]
      BY <2>5 DEF Reap
    <3>2. Exists(q)' => Exists(q)
      BY <1>1, <2>1, <3>1, BootAssumption DEF Exists
    <3>3. Forked(q) => Forked(q)'
      BY <3>1, ForksStay
    <3> QED BY <2>1, <3>2, <3>3
  <2> QED BY <2>2, <2>3, <2>4, <2>5 DEF Environment, KernelStep
<1> QED BY <1>1, <1>4 DEF ReturnInv

LEMMA NextReturns ==
  ASSUME "forkbomb" \notin Sources, TypeOK, ReturnInv, [Next]_vars PROVE ReturnInv'
<1>1. CASE ProcEvents
  <2>1. ~OnForkBomb
    BY DEF OnForkBomb
  <2> QED BY <1>1, <2>1, OnForkReturns, OnExecReturns, OnCommReturns, OnExitReturns
          DEF ProcEvents
<1>2. CASE Loops \/ Timers \/ Requests
  BY <1>2, LoopsReturn, TimersReturn, RequestsReturn
<1>3. CASE Teardown \/ Crash
  <2>1. Tracked(table') = {}
    BY <1>3, EmptyTableOK DEF Teardown, Crash, Ends
  <2> QED BY <2>1 DEF ReturnInv, Homeless, MovedPids
<1>4. CASE Start
  <2>1. Tracked(table') = {}
    BY <1>4 DEF Start, ReturnInv
  <2> QED BY <2>1 DEF ReturnInv, Homeless, MovedPids
<1>5. CASE GcTier \/ UNCHANGED vars
  BY <1>5 DEF GcTier, vars, ReturnInv, Up, Exists, Forked
<1>6. CASE Environment
  BY <1>6, EnvironmentReturns
<1>7. CASE Producers
  <2>1. Sends
    BY <1>7, ProducersSend
  <2>2. PICK e \in Event : Send(e)
    BY <2>1 DEF Sends
  <2> QED BY <2>2, SendReturns
<1> QED BY <1>1, <1>2, <1>3, <1>4, <1>5, <1>6, <1>7 DEF Next, DaemonStep

(* As long as no detection swallows the news of a new owner, the table has  *)
(* a cgroup to give back for every process that a rule moved.               *)
THEOREM MovedAlwaysReturn ==
  ASSUME "forkbomb" \notin Sources
  PROVE  Spec => []MovedCanReturn
<1>1. Init => ReturnInv
  BY EmptyTableOK DEF Init, ReturnInv, Homeless, MovedPids
<1>2. TypeOK /\ ReturnInv /\ [Next]_vars => ReturnInv'
  BY NextReturns
<1>3. ReturnInv => MovedCanReturn
  BY DEF ReturnInv, MovedCanReturn, Homeless
<1> QED BY TypeCorrect, <1>1, <1>2, <1>3, PTL DEF Spec

-----------------------------------------------------------------------------
(* ForegroundNotDemoted, step by step.                                      *)

(* A cgroup write is about the processes it names.                          *)
LEMMA AssignedOnly ==
  ASSUME NEW pr \in [Pid -> Process], NEW S, NEW tier, NEW p \in Pid
  PROVE  /\ p \notin S => Assigned(pr, S, tier)[p] = pr[p]
         /\ Assigned(pr, S, tier)[p].cg \in {pr[p].cg, tier}
  BY DEF Assigned, Process

(* classify_and_apply leaves the processes and their parents as they are,   *)
(* and records the verdict.                                                 *)
LEMMA ClassifyAndApplyTree ==
  ASSUME TypeOK, NEW t, IsTable(t), NEW p \in Tracked(t), ClassifyAndApply(t, p)
  PROVE  /\ SameTree(t, table')
         /\ Verdict(t, p) # None => table'.entries[p].applied = Verdict(t, p)
<1>1. p \in Pid /\ proc[p].cg \in Group
  BY DEF IsTable, IsMap, Tracked, TypeOK, Process
<1>2. CASE Verdict(t, p) = None
  BY <1>1, <1>2, MarkClassifiedOK DEF ClassifyAndApply
<1>3. CASE Verdict(t, p) # None
  <2> DEFINE a == Verdict(t, p)
             moves == a.opt.cgroup # None
             u == IF moves /\ Exists(p) THEN SetOriginal(t, p, proc[p].cg) ELSE t
             rechecks == a.opt.recheck_secs # None
  <2>1. table' = SetApplied(u, p, a, rechecks)
    BY <1>3 DEF ClassifyAndApply
  <2>2. a \in Action /\ rechecks \in BOOLEAN
    BY <1>3, VerdictType DEF TypeOK
  <2> HIDE DEF a, moves, rechecks
  <2>3. IsTable(u) /\ SameTree(t, u)
    BY <1>1, SetOriginalOK DEF SameTree
  <2> HIDE DEF u
  <2>4. p \in Tracked(u)
    BY <2>3 DEF SameTree
  <2>5. SameTree(u, table') /\ table'.entries[p].applied = a
    BY <2>1, <2>2, <2>3, <2>4, SetAppliedOK
  <2>6. SameTree(t, table')
    BY <2>3, <2>5 DEF SameTree
  <2> QED BY <2>5, <2>6 DEF a
<1> QED BY <1>2, <1>3

(* It moves no foreground process but a child of the one it is about.       *)
LEMMA ClassifyAndApplyFreezes ==
  ASSUME TypeOK, NEW t, IsTable(t), NEW p \in Tracked(t), ClassifyAndApply(t, p),
         NEW q \in foreground, ~Override(q)
  PROVE  proc'[q] = proc[q]
<1>1. q \in Pid /\ proc \in [Pid -> Process]
  BY DEF TypeOK
<1>2. CASE Verdict(t, p) = None
  BY <1>2 DEF ClassifyAndApply
<1>3. CASE Verdict(t, p) # None
  <2> DEFINE a == Verdict(t, p)
             kids == IF a.children THEN ChildrenOf(t, p) \cap Tracked(t) ELSE {}
  <2>1. p # q
    BY <1>3 DEF Verdict
  <2>2. /\ p \in Tracked(table') /\ ChildrenOf(table', p) = ChildrenOf(t, p)
        /\ table'.entries[p].applied = a
    BY <1>3, ClassifyAndApplyTree DEF SameTree, ChildrenOf
  <2>3. proc' \in {proc, Assigned(proc, {p} \cup kids, a.opt.cgroup)}
    BY <1>3 DEF ClassifyAndApply
  <2>4. a # None
    BY <1>3
  <2> HIDE DEF a
  <2>5. q \notin kids
    BY <2>2, <2>4 DEF Override
  <2> HIDE DEF kids
  <2> QED BY <1>1, <2>1, <2>3, <2>5, AssignedOnly
<1> QED BY <1>2, <1>3

LEMMA ReadAndApplyFreezes ==
  ASSUME TypeOK, NEW p \in Pid, ClassifyAndApply(Insert(table, p, ReadInfo(p)), p),
         NEW q \in foreground, ~Override(q)
  PROVE  proc'[q] = proc[q]
<1> DEFINE u == Insert(table, p, ReadInfo(p))
<1>1. IsTable(table) /\ ReadInfo(p) \in Info
  BY ReadInfoType DEF TypeOK
<1>2. IsTable(u) /\ p \in Tracked(u)
  BY <1>1, InsertOK
<1>3. ClassifyAndApply(u, p)
  OBVIOUS
<1> HIDE DEF u
<1> QED BY <1>2, <1>3, ClassifyAndApplyFreezes

(* The processes do not move themselves.                                    *)
LEMMA EnvironmentMoves ==
  ASSUME proc \in [Pid -> Process], Environment, NEW q \in Pid, Alive(q)
  PROVE  proc'[q].cg = proc[q].cg
<1>1. ASSUME NEW p \in Pid, NEW c \in Pid, Fork(p, c) PROVE proc'[q].cg = proc[q].cg
  BY <1>1 DEF Fork, Alive, Exists
<1>2. ASSUME NEW p \in Pid, NEW comm \in Comm, Exec(p, comm) \/ Rename(p, comm)
      PROVE  proc'[q].cg = proc[q].cg
  <2>1. proc' = [proc EXCEPT ![p].comm = comm]
    BY <1>2 DEF Exec, Rename
  <2> QED BY <2>1 DEF Process
<1>3. ASSUME NEW p \in Pid, Exit(p) PROVE proc'[q].cg = proc[q].cg
  BY <1>3 DEF Exit, Process
<1>4. ASSUME NEW p \in Pid, Reap(p) PROVE proc'[q].cg = proc[q].cg
  BY <1>4 DEF Reap, Alive
<1> QED BY <1>1, <1>2, <1>3, <1>4 DEF Environment, KernelStep

LEMMA NextFreezes ==
  ASSUME TypeOK, [Next]_vars, NEW q \in foreground, q \in foreground', Alive(q), ~Override(q)
  PROVE  proc'[q].cg \in {proc[q].cg, "interactive"}
<1>1. q \in Pid /\ proc \in [Pid -> Process] /\ dirs \subseteq Tier
  BY DEF TypeOK
<1>2. CASE ProcEvents
  <2>1. ~OnForkBomb
    BY DEF OnForkBomb, Override
  <2>2. CASE OnFork \/ OnExit
    BY <2>2 DEF OnFork, OnExit
  <2>3. CASE OnExec
    <3>1. Front.pid \in Pid
      BY <2>3, TakeType, EventFields DEF OnExec
    <3> QED BY <2>3, <3>1, ReadAndApplyFreezes DEF OnExec
  <2>4. CASE OnComm
    <3>1. Front.pid \in Pid
      BY <2>4, TakeType, EventFields DEF OnComm
    <3> QED BY <2>4, <3>1, ReadAndApplyFreezes DEF OnComm
  <2> QED BY <1>2, <2>1, <2>2, <2>3, <2>4 DEF ProcEvents
<1>3. CASE Loops
  <2>1. CASE ScanList \/ ScanRead
    BY <2>1 DEF ScanList, ScanRead
  <2>2. ASSUME NEW p \in Pid, ScanClassify(p) PROVE proc'[q] = proc[q]
    <3>1. IsTable(table) /\ p \in Tracked(table) /\ ClassifyAndApply(table, p)
      BY <2>2 DEF ScanClassify, TypeOK
    <3> QED BY <3>1, ClassifyAndApplyFreezes
  <2>3. ASSUME NEW p \in Pid, Recheck(p) PROVE proc'[q] = proc[q]
    BY <2>3, ReadAndApplyFreezes DEF Recheck
  <2>4. ASSUME NEW p \in Pid PROVE ~Restore(p)
    BY DEF Restore, Override
  <2> QED BY <1>3, <2>1, <2>2, <2>3, <2>4 DEF Loops
<1>4. CASE Requests
  <2>1. CASE OnForeground
    <3>1. \/ foreground' = foreground /\ proc' = proc
          \/ proc' = Assigned(Assigned(proc, foreground \ foreground', "system"),
                              foreground', "interactive")
      BY <2>1 DEF OnForeground
    <3> DEFINE qr == Assigned(proc, foreground \ foreground', "system")
    <3>2. qr \in [Pid -> Process] /\ qr[q] = proc[q]
      BY <1>1, AssignedType, AssignedOnly
    <3> HIDE DEF qr
    <3>3. Assigned(qr, foreground', "interactive")[q].cg \in {qr[q].cg, "interactive"}
      BY <1>1, <3>2, AssignedOnly
    <3> QED BY <3>1, <3>2, <3>3 DEF qr
  <2>2. CASE OnPlace
    <3>1. q # Front.pid
      BY <2>2 DEF OnPlace, Override, Placed, Take, Waiting, Front
    <3> QED BY <1>1, <2>2, <3>1, AssignedOnly DEF OnPlace
  <2>3. CASE OnPressure
    BY <2>3 DEF OnPressure, Override
  <2>4. CASE OnReload \/ OnShutdown
    BY <2>4 DEF OnReload, OnShutdown
  <2> QED BY <1>4, <2>1, <2>2, <2>3, <2>4 DEF Requests
<1>5. CASE Timers \/ Teardown \/ Crash \/ GcTier \/ Start \/ Producers \/ UNCHANGED vars
  <2>1. (Timers \/ GcTier \/ Start \/ UNCHANGED vars) => proc' = proc
    BY DEF Timers, EndGrace, OnRescan, OnRecheck, OnGc, GcTier, Start, vars
  <2>2. (Teardown \/ Crash) => proc' = proc
    BY DEF Teardown, Crash, Ends
  <2>3. Producers => proc' = proc
    <3> SUFFICES ASSUME Producers PROVE proc' = proc
      OBVIOUS
    <3>1. Sends
      BY ProducersSend
    <3> QED BY <3>1 DEF Sends, Send
  <2> QED BY <1>5, <2>1, <2>2, <2>3
<1>6. CASE Environment
  BY <1>1, <1>6, EnvironmentMoves
<1> QED BY <1>2, <1>3, <1>4, <1>5, <1>6 DEF Next, DaemonStep

(* Whatever the rules, and whatever is in the channel: nothing but what     *)
(* Override names takes a process of the foreground out of its cgroup.      *)
THEOREM ForegroundStays == Spec => ForegroundNotDemoted
<1> DEFINE Stays == \A p \in foreground :
                      p \in foreground' /\ Alive(p) /\ ~Override(p) =>
                        proc'[p].cg \in {proc[p].cg, "interactive"}
<1>1. TypeOK /\ [Next]_vars => [Stays]_vars
  BY NextFreezes
<1> QED BY TypeCorrect, <1>1, PTL DEF Spec, ForegroundNotDemoted

-----------------------------------------------------------------------------
(* BombContained.  The edges of the table lead to every live process from   *)
(* its present parent, unless its Fork is on its way, the parent is         *)
(* throttled already (a detection leaves out the child that sets it off) or *)
(* is init (which adopts without an event).  That this survives the reuse   *)
(* of pids rests on the order of the events in the channel.                 *)

(* A process lives no longer than its parent.                               *)
Family ==
  /\ Alive(1)
  /\ \A p \in Pid : LET up == proc[p].ppid IN
       Exists(p) => up \in {0, 1} \/ (up # p /\ Alive(up))

(* Behind event i comes the fork of p.                                      *)
Behind(i, p) ==
  \E j \in DOMAIN queue : j > i /\ queue[j].type = "Fork" /\ queue[j].pid = p

(* What an event of the channel says of a pid that lives since is put right *)
(* by a fork behind it; children are born after their parents; and a child  *)
(* is its parent's until init adopts it.                                    *)
InOrder(i) ==
  LET e == queue[i] IN
  /\ e.type = "Exit" /\ Alive(e.pid) => Behind(i, e.pid)
  /\ e.type = "Fork" /\ e.pid # 1 =>
       \A p \in Pid : Exists(p) /\ proc[p].ppid = e.pid => Behind(i, p)
  /\ e.type = "Fork" /\ Exists(e.pid) =>
       proc[e.pid].ppid \in {e.parent, 1} \/ Behind(i, e.pid)
  /\ e.type # "Gc"

(* The walks over the table can pass over p.                                *)
Exempt(p) == ~Alive(p) \/ proc[p].ppid \in {0, 1} \cup throttled \/ Forked(p)

Rooted(t, p) == p \in Tracked(t) /\ p \in t.children[proc[p].ppid]

Scanning == todo.kind \in {"list", "read"}

(* A scan adds the processes that the table misses: it has listed all but   *)
(* those whose Fork is on its way.                                          *)
TreeInv ==
  /\ \A p \in Pid : ~Exempt(p) /\ (Scanning => p \in Tracked(table)) => Rooted(table, p)
  /\ todo.kind = "read" => \A p \in Pid : Exists(p) => p \in todo.pids \/ Forked(p)

BombInv ==
  /\ Family /\ gcLeft = {}
  /\ Up  => TreeInv /\ Tier \subseteq dirs /\ \A i \in DOMAIN queue : InOrder(i)
  /\ ~Up => Tracked(table) = {} /\ queue = <<>>

(* Processes come to their end and are adopted by init; none begins.        *)
Ages(pr, qr) ==
  \A p \in Pid : /\ qr[p].st = "alive" => pr[p].st = "alive"
                 /\ qr[p].st # "none" => pr[p].st # "none" /\ qr[p].ppid \in {pr[p].ppid, 1}

LEMMA SameLivesAges ==
  ASSUME NEW pr, NEW qr, SameLives(pr, qr) PROVE Ages(pr, qr)
  BY DEF SameLives, Ages

-----------------------------------------------------------------------------
(* The order of the events.                                                 *)

LEMMA BehindTail ==
  ASSUME queue \in Seq(Event), queue # <<>>, queue' = Tail(queue),
         NEW i \in DOMAIN queue', NEW p, Behind(i + 1, p)
  PROVE  Behind(i, p)'
<1>1. PICK j \in DOMAIN queue : j > i + 1 /\ queue[j].type = "Fork" /\ queue[j].pid = p
  BY DEF Behind
<1>2. i \in Nat /\ j \in Nat /\ i >= 1
  <2>1. DOMAIN queue' = 1..Len(queue') /\ DOMAIN queue = 1..Len(queue) /\ Len(queue) \in Nat
        /\ Len(queue') \in Nat
    BY HeadTailProperties
  <2> QED BY <2>1
<1>3. j # 1 /\ j - 1 > i
  BY <1>1, <1>2
<1>4. j - 1 \in DOMAIN queue' /\ queue'[j - 1] = queue[j]
  BY <1>3, TailKeeps
<1> QED BY <1>1, <1>3, <1>4 DEF Behind

(* An event joins the channel: it is behind those that are there.           *)
LEMMA BehindAppend ==
  ASSUME queue \in Seq(Event), NEW e \in Event, queue' = Append(queue, e),
         NEW i \in DOMAIN queue
  PROVE  /\ \A p : Behind(i, p) => Behind(i, p)'
         /\ e.type = "Fork" => Behind(i, e.pid)'
<1>1. /\ DOMAIN queue' = DOMAIN queue \cup {Len(queue) + 1}
      /\ \A j \in DOMAIN queue : queue'[j] = queue[j]
      /\ queue'[Len(queue) + 1] = e
  BY AppendKeeps
<1>2. Len(queue) + 1 > i
  <2>1. DOMAIN queue = 1..Len(queue) /\ Len(queue) \in Nat
    OBVIOUS
  <2> QED BY <2>1
<1> QED BY <1>1, <1>2 DEF Behind

(* Nothing happens to the order while processes only age.                   *)
LEMMA AgesInOrder ==
  ASSUME queue \in Seq(Event), NEW i \in DOMAIN queue, NEW k \in DOMAIN queue',
         InOrder(i), queue'[k] = queue[i], Ages(proc, proc'),
         \A p : Behind(i, p) => Behind(k, p)'
  PROVE  InOrder(k)'
<1>0. PICK e \in Event : e = queue[i]
  OBVIOUS
<1>1. e.type \in {"Fork", "Exit"} => e.pid \in Pid
  BY EventFields
<1>2. queue'[k] = e /\ queue[i] = e
  BY <1>0
<1>3. ASSUME e.type = "Exit", Alive(e.pid)' PROVE Behind(k, e.pid)'
  BY <1>1, <1>2, <1>3 DEF InOrder, Ages, Alive
<1>4. ASSUME e.type = "Fork", e.pid # 1, NEW p \in Pid, Exists(p)', proc'[p].ppid = e.pid
      PROVE  Behind(k, p)'
  BY <1>1, <1>2, <1>4 DEF InOrder, Ages, Exists
<1>5. ASSUME e.type = "Fork", Exists(e.pid)'
      PROVE  proc'[e.pid].ppid \in {e.parent, 1} \/ Behind(k, e.pid)'
  BY <1>1, <1>2, <1>5 DEF InOrder, Ages, Exists
<1>6. e.type # "Gc"
  BY <1>2 DEF InOrder
<1> QED BY <1>2, <1>3, <1>4, <1>5, <1>6 DEF InOrder

(* The order is kept by a step that takes the first event, adds one that is *)
(* neither a fork nor an exit of a live process, or leaves the channel      *)
(* alone.                                                                   *)
LEMMA OrderStays ==
  ASSUME queue \in Seq(Event), \A i \in DOMAIN queue : InOrder(i), Ages(proc, proc'),
         \/ queue' = queue
         \/ queue # <<>> /\ queue' = Tail(queue)
         \/ \E e \in Event : /\ queue' = Append(queue, e)
                             /\ e.type \notin {"Fork", "Gc"}
                             /\ e.type = "Exit" => proc'[e.pid].st # "alive"
  PROVE  \A i \in DOMAIN queue' : InOrder(i)'
<1>1. CASE queue' = queue
  <2>1. \A i \in DOMAIN queue : \A p : Behind(i, p) => Behind(i, p)'
    BY <1>1 DEF Behind
  <2> QED BY <1>1, <2>1, AgesInOrder
<1>2. CASE queue # <<>> /\ queue' = Tail(queue)
  <2> SUFFICES ASSUME NEW k \in DOMAIN queue' PROVE InOrder(k)'
    OBVIOUS
  <2>1. k + 1 \in DOMAIN queue /\ queue'[k] = queue[k + 1]
    BY <1>2, TailKeeps
  <2>2. \A p : Behind(k + 1, p) => Behind(k, p)'
    BY <1>2, BehindTail
  <2> QED BY <2>1, <2>2, AgesInOrder
<1>3. ASSUME NEW e \in Event, queue' = Append(queue, e), e.type \notin {"Fork", "Gc"},
             e.type = "Exit" => proc'[e.pid].st # "alive"
      PROVE  \A i \in DOMAIN queue' : InOrder(i)'
  <2> PICK n : n = Len(queue) + 1
    OBVIOUS
  <2>1. /\ DOMAIN queue' = DOMAIN queue \cup {n}
        /\ \A i \in DOMAIN queue : queue'[i] = queue[i]
        /\ queue'[n] = e
    BY <1>3, AppendKeeps
  <2>2. ASSUME NEW i \in DOMAIN queue PROVE InOrder(i)'
    <3>1. \A p : Behind(i, p) => Behind(i, p)'
      BY <1>3, BehindAppend
    <3> QED BY <2>1, <3>1, AgesInOrder
  <2>3. InOrder(n)'
    BY <1>3, <2>1 DEF InOrder, Alive
  <2> QED BY <2>1, <2>2, <2>3
<1> QED BY <1>1, <1>2, <1>3

-----------------------------------------------------------------------------
(* The edges.                                                               *)

(* What has its edge in t, and what only u tracks, has its edge in u.       *)
Roots(t, u) ==
  \A p \in Pid :
    Alive(p) /\ (Rooted(t, p) \/ p \in Tracked(u) \ Tracked(t)) => Rooted(u, p)

LEMMA RootsSame ==
  ASSUME NEW t, NEW u, SameTree(t, u) PROVE Roots(t, u)
  BY DEF SameTree, Roots, Rooted

LEMMA RootsChain ==
  ASSUME NEW t, NEW u, NEW v, Roots(t, u), Roots(u, v) PROVE Roots(t, v)
  BY DEF Roots

LEMMA RootsInsert ==
  ASSUME NEW t, IsTable(t), proc \in [Pid -> Process],
         NEW p \in Pid, NEW info \in Info, info.ppid = proc[p].ppid
  PROVE  Roots(t, Insert(t, p, info)) /\ Rooted(Insert(t, p, info), p)
<1> DEFINE u == Insert(t, p, info)
<1>1. /\ Tracked(u) = Tracked(t) \cup {p} /\ p \in u.children[info.ppid]
      /\ \A q \in ParentPid : u.children[q] \ {p} = t.children[q] \ {p}
  BY InsertOK
<1> HIDE DEF u
<1>2. \A q \in Pid : proc[q].ppid \in ParentPid
  BY DEF Process
<1>3. Roots(t, u) /\ Rooted(u, p)
  BY <1>1, <1>2 DEF Roots, Rooted
<1> QED BY <1>3 DEF u

LEMMA RootsReadAndApply ==
  ASSUME TypeOK, NEW p \in Pid, ClassifyAndApply(Insert(table, p, ReadInfo(p)), p)
  PROVE  Roots(table, table') /\ SameLives(proc, proc')
<1> DEFINE u == Insert(table, p, ReadInfo(p))
<1>1. IsTable(table) /\ proc \in [Pid -> Process] /\ ReadInfo(p) \in Info
      /\ ReadInfo(p).ppid = proc[p].ppid
  BY ReadInfoType DEF TypeOK, ReadInfo
<1>2. IsTable(u) /\ p \in Tracked(u) /\ Roots(table, u)
  BY <1>1, InsertOK, RootsInsert
<1>3. ClassifyAndApply(u, p)
  OBVIOUS
<1> HIDE DEF u
<1>4. SameTree(u, table') /\ SameLives(proc, proc')
  BY <1>2, <1>3, ClassifyAndApplyTree, ClassifyAndApplyHomes
<1> QED BY <1>2, <1>4, RootsSame, RootsChain

(* A process that is gone has no children.                                  *)
LEMMA RootsRemove ==
  ASSUME TypeOK, Family, NEW p \in Pid, ~Exists(p)
  PROVE  Roots(table, Remove(table, p))
<1> DEFINE u == Remove(table, p)
<1>1. /\ Tracked(u) = Tracked(table) \ {p}
      /\ \A q \in ParentPid \ {p} : table.children[q] \ {p} \subseteq u.children[q]
  BY RemoveOK DEF TypeOK
<1> HIDE DEF u
<1>2. p # 1 /\ p # 0
  BY PidAssumption DEF Family, Alive, Exists
<1>3. \A q \in Pid : Alive(q) => q # p /\ proc[q].ppid \in ParentPid \ {p}
  BY <1>2 DEF Family, Alive, Exists, TypeOK, Process
<1>4. Roots(table, u)
  BY <1>1, <1>3 DEF Roots, Rooted
<1> QED BY <1>4 DEF u

(* A step of the event loop that takes no edge away, lifts no throttling    *)
(* and neither handles a fork nor goes on with a scan.                      *)
Grows ==
  /\ Up /\ Up' /\ SameLives(proc, proc') /\ Roots(table, table')
  /\ throttled \subseteq throttled' /\ UNCHANGED <<dirs, gcLeft>>
  /\ queue' = queue \/ (queue # <<>> /\ queue' = Tail(queue))
  /\ \A p \in Pid : Forked(p) => Forked(p)'
  /\ todo'.kind = "list" \/ (~Scanning /\ ~Scanning')

LEMMA GrowsContains ==
  ASSUME TypeOK, BombInv, Grows PROVE BombInv'
<1>1. /\ Family /\ TreeInv /\ \A i \in DOMAIN queue : InOrder(i)
      /\ queue \in Seq(Event) /\ proc \in [Pid -> Process]
  BY DEF BombInv, Grows, TypeOK
<1>2. \A p \in Pid : /\ Alive(p)' <=> Alive(p)
                     /\ Exists(p)' <=> Exists(p)
                     /\ proc'[p].ppid = proc[p].ppid
  BY DEF Grows, SameLives, Alive, Exists
<1>3. Family'
  <2>1. \A p \in Pid : proc[p].ppid \in Pid \cup {0}
    BY <1>1 DEF Process, ParentPid
  <2> QED BY <1>1, <1>2, <2>1, PidAssumption DEF Family
<1>4. \A i \in DOMAIN queue' : InOrder(i)'
  BY <1>1, SameLivesAges, OrderStays DEF Grows
<1>5. TreeInv'
  <2>1. ASSUME NEW p \in Pid, ~Exempt(p)', Scanning' => p \in Tracked(table')
        PROVE  Rooted(table, p)'
    <3>1. Alive(p) /\ ~Exempt(p)
      BY <1>2, <2>1 DEF Exempt, Grows
    <3>2. Rooted(table, p) \/ p \in Tracked(table') \ Tracked(table)
      BY <1>1, <2>1, <3>1 DEF TreeInv, Grows, Scanning
    <3>3. Rooted(table', p)
      BY <3>1, <3>2 DEF Grows, Roots
    <3> QED BY <1>2, <3>3 DEF Rooted
  <2>2. todo'.kind # "read"
    BY DEF Grows, Scanning
  <2> QED BY <2>1, <2>2 DEF TreeInv
<1> QED BY <1>3, <1>4, <1>5 DEF BombInv, Grows

(* The handlers that neither handle a fork, nor an exit, nor go on with a   *)
(* scan.                                                                    *)
LEMMA RequestsGrow ==
  ASSUME TypeOK, Requests PROVE Grows
<1>1. /\ Up /\ Up' /\ throttled' = throttled /\ UNCHANGED <<dirs, gcLeft>>
      /\ queue # <<>> /\ queue' = Tail(queue) /\ ~Scanning /\ ~Scanning'
  BY DEF Requests, OnForeground, OnPlace, OnReload, OnPressure, OnShutdown, Take, Waiting,
         Up, Scanning
<1>2. \A q \in Pid : Forked(q) => Forked(q)'
  BY TakeKeepsForks DEF Requests, OnForeground, OnPlace, OnReload, OnPressure, OnShutdown
<1>3. Roots(table, table')
  <2>1. table' \in {table, MarkClassifiedFalse(table, In("swapstorm"))} /\ IsTable(table)
    BY DEF Requests, OnForeground, OnPlace, OnReload, OnPressure, OnShutdown, TypeOK
  <2>2. SameTree(table, MarkClassifiedFalse(table, In("swapstorm"))) /\ SameTree(table, table)
    BY <2>1, MarkClassifiedFalseOK DEF SameTree
  <2> QED BY <2>1, <2>2, RootsSame
<1> QED BY <1>1, <1>2, <1>3, RequestsLive DEF Grows

LEMMA TimersGrow ==
  ASSUME TypeOK, EndGrace \/ OnRescan \/ OnRecheck PROVE Grows
<1>1. /\ Up /\ Up' /\ throttled' = throttled /\ UNCHANGED <<dirs, gcLeft, table, proc>>
      /\ todo'.kind = "list" \/ (~Scanning /\ ~Scanning')
  <2>1. CASE EndGrace
    BY <2>1 DEF EndGrace, Waiting, Up
  <2>2. CASE OnRescan
    BY <2>2 DEF OnRescan, Take, Waiting, Up
  <2>3. CASE OnRecheck
    <3>1. todo'.kind \in {"idle", "recheck"}
      BY <2>3 DEF OnRecheck, IdleTodo
    <3> QED BY <2>3, <3>1 DEF OnRecheck, Take, Waiting, Up, Scanning
  <2> QED BY <2>1, <2>2, <2>3
<1>2. queue' = queue \/ (queue # <<>> /\ queue' = Tail(queue))
  BY DEF EndGrace, OnRescan, OnRecheck, Take, Waiting
<1>3. \A q \in Pid : Forked(q) => Forked(q)'
  <2>1. CASE EndGrace
    BY <2>1, ForksStay DEF EndGrace
  <2>2. CASE OnRescan \/ OnRecheck
    BY <2>2, TakeKeepsForks DEF OnRescan, OnRecheck
  <2> QED BY <2>1, <2>2
<1>4. SameLives(proc, proc') /\ Roots(table, table')
  BY <1>1 DEF SameLives, Roots
<1> QED BY <1>1, <1>2, <1>3, <1>4 DEF Grows

LEMMA ExecGrows ==
  ASSUME TypeOK, OnExec \/ OnComm PROVE Grows
<1>1. /\ Up /\ Up' /\ throttled' = throttled /\ UNCHANGED <<dirs, gcLeft>>
      /\ queue # <<>> /\ queue' = Tail(queue) /\ ~Scanning /\ ~Scanning'
  BY DEF OnExec, OnComm, Take, Waiting, Up, Scanning
<1>2. \A q \in Pid : Forked(q) => Forked(q)'
  BY TakeKeepsForks DEF OnExec, OnComm
<1>3. SameLives(proc, proc') /\ Roots(table, table')
  <2> DEFINE p == Front.pid
             t == Insert(table, p, ReadInfo(p))
  <2>1. p \in Pid
    BY TakeType, EventFields DEF OnExec, OnComm
  <2>2. CASE ClassifyAndApply(t, p)
    BY <2>1, <2>2, RootsReadAndApply
  <2>3. CASE table' = MarkClassified(t, p) /\ proc' = proc
    <3>1. IsTable(table) /\ proc \in [Pid -> Process] /\ ReadInfo(p) \in Info
          /\ ReadInfo(p).ppid = proc[p].ppid
      BY <2>1, ReadInfoType DEF TypeOK, ReadInfo
    <3>2. IsTable(t) /\ Roots(table, t)
      BY <2>1, <3>1, InsertOK, RootsInsert
    <3> HIDE DEF t
    <3>3. SameTree(t, MarkClassified(t, p))
      BY <2>1, <3>2, MarkClassifiedOK
    <3> QED BY <2>3, <3>2, <3>3, RootsSame, RootsChain DEF SameLives
  <2>4. CASE table' = table /\ proc' = proc
    BY <2>4 DEF SameLives, Roots
  <2> QED BY <2>2, <2>3, <2>4 DEF OnExec, OnComm
<1> QED BY <1>1, <1>2, <1>3 DEF Grows

LEMMA LoopsGrow ==
  ASSUME TypeOK, BombInv, NEW p \in Pid, ScanClassify(p) \/ Recheck(p) \/ Restore(p)
  PROVE  Grows
<1>1. /\ Up /\ Up' /\ throttled' = throttled /\ UNCHANGED <<dirs, gcLeft, queue>>
      /\ ~Scanning
  BY DEF ScanClassify, Recheck, Restore, Up, Scanning, TypeOK
<1>2. ~Scanning'
  <2>1. CASE ScanClassify(p) \/ Recheck(p)
    BY <1>1, <2>1, DoneType DEF ScanClassify, Recheck, Scanning
  <2>2. CASE Restore(p)
    <3>1. todo'.kind = todo.kind
      BY <2>2 DEF Restore, TypeOK, Todo
    <3> QED BY <1>1, <3>1 DEF Scanning
  <2> QED BY <2>1, <2>2
<1>3. SameLives(proc, proc') /\ Roots(table, table')
  <2>1. CASE ScanClassify(p)
    <3>1. IsTable(table) /\ p \in Tracked(table) /\ ClassifyAndApply(table, p)
      BY <2>1 DEF ScanClassify, TypeOK
    <3> QED BY <3>1, ClassifyAndApplyTree, ClassifyAndApplyHomes, RootsSame
  <2>2. CASE Recheck(p)
    <3>1. CASE p \in foreground
      BY <2>2, <3>1 DEF Recheck, SameLives, Roots
    <3>2. CASE p \notin foreground /\ Exists(p)
      BY <2>2, <3>2, RootsReadAndApply DEF Recheck
    <3>3. CASE p \notin foreground /\ ~Exists(p)
      BY <2>2, <3>3, RootsRemove DEF Recheck, BombInv, SameLives
    <3> QED BY <3>1, <3>2, <3>3
  <2>3. CASE Restore(p)
    BY <2>3 DEF Restore, SameLives, Roots, TypeOK, Process
  <2> QED BY <2>1, <2>2, <2>3
<1>4. \A q \in Pid : Forked(q) => Forked(q)'
  <2>1. queue' = queue
    BY <1>1
  <2> QED BY <2>1, ForksStay
<1> QED BY <1>1, <1>2, <1>3, <1>4 DEF Grows

-----------------------------------------------------------------------------
(* Forks, exits and scans.                                                  *)

(* What is behind the event that is taken stays in the channel.             *)
LEMMA FrontTaken ==
  ASSUME queue \in Seq(Event), queue # <<>>, queue' = Tail(queue)
  PROVE  /\ 1 \in DOMAIN queue /\ queue[1] = Front /\ Front \in Event
         /\ \A p : Behind(1, p) => Forked(p)'
         /\ \A p : Forked(p) => Forked(p)' \/ (Front.type = "Fork" /\ Front.pid = p)
<1>1. 1 \in DOMAIN queue /\ queue[1] = Front /\ DOMAIN queue = 1..Len(queue)
  BY HeadTailProperties, LenProperties DEF Front
<1>2. Front \in Event
  BY <1>1
<1>3. \A p : Behind(1, p) => Forked(p)'
  <2> SUFFICES ASSUME NEW p, Behind(1, p) PROVE Forked(p)'
    OBVIOUS
  <2>1. PICK j \in DOMAIN queue : j > 1 /\ queue[j].type = "Fork" /\ queue[j].pid = p
    BY DEF Behind
  <2>2. j - 1 \in DOMAIN queue' /\ queue'[j - 1] = queue[j]
    BY <2>1, TailKeeps
  <2> QED BY <2>1, <2>2 DEF Forked
<1>4. \A p : Forked(p) => Forked(p)' \/ (Front.type = "Fork" /\ Front.pid = p)
  <2> SUFFICES ASSUME NEW p, Forked(p)
               PROVE  Forked(p)' \/ (Front.type = "Fork" /\ Front.pid = p)
    OBVIOUS
  <2>1. PICK j \in DOMAIN queue : queue[j].type = "Fork" /\ queue[j].pid = p
    BY DEF Forked
  <2>2. CASE j = 1
    BY <1>1, <2>1, <2>2
  <2>3. CASE j # 1
    <3>1. j - 1 \in DOMAIN queue' /\ queue'[j - 1] = queue[j]
      BY <2>3, TailKeeps
    <3> QED BY <2>1, <3>1 DEF Forked
  <2> QED BY <2>2, <2>3
<1> QED BY <1>1, <1>2, <1>3, <1>4

(* The fork of a child is in the channel if that of its parent is.          *)
LEMMA ForksFollow ==
  ASSUME \A i \in DOMAIN queue : InOrder(i), NEW p \in Pid, Exists(p), proc[p].ppid # 1,
         Forked(proc[p].ppid)
  PROVE  Forked(p)
<1>1. PICK i \in DOMAIN queue : queue[i].type = "Fork" /\ queue[i].pid = proc[p].ppid
  BY DEF Forked
<1>2. Behind(i, p)
  BY <1>1 DEF InOrder
<1> QED BY <1>2 DEF Behind, Forked

(* What the handlers of forks and exits have in common: they take the event *)
(* and leave the processes where they are in the tree.                      *)
LEMMA TakenContains ==
  ASSUME TypeOK, BombInv, NEW type, Take(type), SameLives(proc, proc'),
         UNCHANGED <<dirs, gcLeft, todo, status>>, throttled \subseteq throttled',
         \A p \in Pid : ~Exempt(p)' => Rooted(table', p)
  PROVE  BombInv'
<1>1. /\ Up /\ Up' /\ Family /\ \A i \in DOMAIN queue : InOrder(i)
      /\ queue \in Seq(Event) /\ queue # <<>> /\ queue' = Tail(queue)
      /\ proc \in [Pid -> Process] /\ todo.kind = "idle"
  BY DEF BombInv, TypeOK, Take, Waiting, Up
<1>2. \A p \in Pid : /\ Alive(p)' <=> Alive(p)
                     /\ Exists(p)' <=> Exists(p)
                     /\ proc'[p].ppid = proc[p].ppid
  BY DEF SameLives, Alive, Exists
<1>3. Family'
  <2>1. \A p \in Pid : proc[p].ppid \in Pid \cup {0}
    BY <1>1 DEF Process, ParentPid
  <2> QED BY <1>1, <1>2, <2>1, PidAssumption DEF Family
<1>4. \A i \in DOMAIN queue' : InOrder(i)'
  BY <1>1, SameLivesAges, OrderStays
<1>5. TreeInv'
  <2>1. \A p \in Pid : Rooted(table', p) => Rooted(table, p)'
    BY <1>2 DEF Rooted
  <2> QED BY <1>1, <2>1 DEF TreeInv
<1> QED BY <1>1, <1>3, <1>4, <1>5 DEF BombInv

LEMMA OnExitContains ==
  ASSUME TypeOK, BombInv, OnExit PROVE BombInv'
<1> DEFINE x == Front.pid
<1>1. /\ Family /\ TreeInv /\ \A i \in DOMAIN queue : InOrder(i)
      /\ queue \in Seq(Event) /\ queue # <<>> /\ queue' = Tail(queue)
      /\ Front.type = "Exit" /\ todo.kind = "idle" /\ IsTable(table)
      /\ proc' = proc /\ throttled' = throttled /\ table' = Remove(table, x)
  BY DEF BombInv, TypeOK, OnExit, Take, Waiting, Up, Front
<1>2. x \in Pid
  BY <1>1, FrontTaken, EventFields
<1>3. ASSUME NEW p \in Pid, ~Exempt(p)' PROVE Rooted(table', p)
  <2> DEFINE q == proc[p].ppid
  <2>1. Alive(p) /\ ~Forked(p) /\ ~Forked(p)' /\ q \notin {0, 1} \cup throttled
    BY <1>1, <1>3, FrontTaken DEF Exempt, Alive
  <2>2. Rooted(table, p)
    BY <1>1, <2>1 DEF TreeInv, Exempt, Scanning
  <2>3. Alive(q) /\ Exists(p) /\ q \in ParentPid
    BY <1>1, <2>1 DEF Family, Alive, Exists, TypeOK, Process
  <2>4. p # x
    BY <1>1, <2>1, FrontTaken DEF InOrder
  <2>5. q # x
    <3> SUFFICES ASSUME q = x PROVE FALSE
      OBVIOUS
    <3>1. Behind(1, q)
      BY <1>1, <2>3, FrontTaken DEF InOrder
    <3>2. Forked(q)
      BY <3>1 DEF Behind, Forked
    <3> QED BY <1>1, <2>1, <2>3, <3>2, ForksFollow
  <2>6. /\ Tracked(Remove(table, x)) = Tracked(table) \ {x}
        /\ \A r \in ParentPid \ {x} : table.children[r] \ {x} \subseteq Remove(table, x).children[r]
    BY <1>1, <1>2, RemoveOK
  <2> QED BY <1>1, <2>2, <2>3, <2>4, <2>5, <2>6 DEF Rooted
<1>4. SameLives(proc, proc')
  BY <1>1 DEF SameLives
<1> QED BY <1>1, <1>3, <1>4, TakenContains DEF OnExit

(* The child of a fork, as the handler puts it into the table.              *)
LEMMA NoteForkRoots ==
  ASSUME TypeOK, Front.pid \in Pid, NEW pr \in [Pid -> Process], SameLives(proc, pr)
  PROVE  /\ Roots(table, NoteFork(table, pr))
         /\ Alive(Front.pid) => Rooted(NoteFork(table, pr), Front.pid)
<1> DEFINE c == Front.pid
           info == [ppid |-> pr[c].ppid, comm |-> pr[c].comm, path |-> pr[c].cg]
           t == Insert(table, c, info)
<1>1. CASE pr[c].st = "none"
  BY <1>1 DEF NoteFork, Roots, Alive, SameLives
<1>2. CASE pr[c].st # "none"
  <2>1. IsTable(table) /\ info \in Info /\ info.ppid = proc[c].ppid
        /\ proc \in [Pid -> Process]
    BY DEF TypeOK, Info, Process, SameLives
  <2>2. NoteFork(table, pr) = MarkClassified(t, c)
    BY <1>2 DEF NoteFork
  <2> HIDE DEF info
  <2>3. IsTable(t) /\ Roots(table, t) /\ Rooted(t, c)
    BY <2>1, InsertOK, RootsInsert
  <2> HIDE DEF t
  <2>4. SameTree(t, MarkClassified(t, c))
    BY <2>3, MarkClassifiedOK
  <2> QED BY <2>2, <2>3, <2>4, RootsSame, RootsChain DEF Roots
<1> QED BY <1>1, <1>2

LEMMA OnForkContains ==
  ASSUME TypeOK, BombInv, OnFork \/ OnForkBomb PROVE BombInv'
<1> DEFINE root == Front.parent
<1> PICK c : c = Front.pid
  OBVIOUS
<1>1. /\ Family /\ TreeInv /\ \A i \in DOMAIN queue : InOrder(i)
      /\ queue \in Seq(Event) /\ queue # <<>> /\ queue' = Tail(queue)
      /\ Front.type = "Fork" /\ todo.kind = "idle" /\ Take("Fork")
      /\ throttled \subseteq throttled' /\ UNCHANGED <<dirs, gcLeft, todo, status>>
  BY DEF BombInv, TypeOK, OnFork, OnForkBomb, Take, Waiting, Up, Front
<1>2. c \in Pid
  BY <1>1, FrontTaken, EventFields
<1>3. proc' \in [Pid -> Process] /\ SameLives(proc, proc')
  <2>1. proc \in [Pid -> Process] /\ dirs \subseteq Tier
    BY DEF TypeOK
  <2>2. proc' = proc \/ \E S : proc' = Assigned(proc, S, "swapstorm")
    BY DEF OnFork, OnForkBomb
  <2> QED BY <2>1, <2>2, AssignedType, AssignedLives DEF SameLives
<1>4. \A p \in Pid : Alive(p)' <=> Alive(p)
  BY <1>3 DEF SameLives, Alive
<1>5. ASSUME NEW p \in Pid, ~Exempt(p)', p # c PROVE Rooted(table, p)
  <2>1. Alive(p) /\ ~Forked(p) /\ proc[p].ppid \notin {0, 1} \cup throttled
    BY <1>1, <1>3, <1>4, <1>5, FrontTaken DEF Exempt, SameLives
  <2> QED BY <1>1, <2>1 DEF TreeInv, Exempt, Scanning
<1>6. CASE table' \in {NoteFork(table, proc), NoteFork(table, proc')}
  <2>1. proc \in [Pid -> Process] /\ SameLives(proc, proc)
    BY DEF TypeOK, SameLives
  <2>2. Roots(table, table') /\ (Alive(c) => Rooted(table', c))
    BY <1>2, <1>3, <1>6, <2>1, NoteForkRoots
  <2>3. ASSUME NEW p \in Pid, ~Exempt(p)' PROVE Rooted(table', p)
    <3>1. Alive(p)
      BY <1>4, <2>3 DEF Exempt
    <3> QED BY <1>5, <2>2, <2>3, <3>1 DEF Roots
  <2> QED BY <1>1, <1>3, <2>3, TakenContains
<1>7. CASE OnForkBomb /\ table' = table
  <2>1. throttled' = throttled \cup {root}
    BY <1>7 DEF OnForkBomb
  <2>2. Exempt(c)'
    <3>1. Exists(c) => proc[c].ppid \in {root, 1} \/ Behind(1, c)
      BY <1>1, FrontTaken DEF InOrder
    <3> QED BY <1>1, <1>2, <1>3, <1>4, <2>1, <3>1, FrontTaken DEF Exempt, Alive, Exists, SameLives
  <2>3. \A p \in Pid : ~Exempt(p)' => Rooted(table', p)
    BY <1>5, <1>7, <2>2
  <2> QED BY <1>1, <1>3, <2>3, TakenContains
<1> QED BY <1>6, <1>7 DEF OnFork, OnForkBomb

LEMMA ScanListContains ==
  ASSUME "noproc" \notin Sources, TypeOK, BombInv, ScanList PROVE BombInv'
<1>1. /\ Up /\ Up' /\ UNCHANGED <<proc, queue, table, throttled, dirs, gcLeft>>
      /\ todo.kind = "list" /\ todo' = [kind |-> "read", pids |-> {p \in Pid : Exists(p)}]
  BY DEF ScanList, Up
<1>2. /\ Family' <=> Family
      /\ \A p \in Pid : /\ Exempt(p)' <=> Exempt(p)
                        /\ Rooted(table, p)' <=> Rooted(table, p)
                        /\ Exists(p)' <=> Exists(p)
      /\ \A i \in DOMAIN queue : InOrder(i)' <=> InOrder(i)
  BY <1>1 DEF Family, Alive, Exists, Exempt, Forked, Rooted, InOrder, Behind
<1>3. TreeInv'
  BY <1>1, <1>2 DEF BombInv, TreeInv, Scanning
<1> QED BY <1>1, <1>2, <1>3 DEF BombInv

LEMMA ScanReadContains ==
  ASSUME TypeOK, BombInv, ScanRead PROVE BombInv'
<1> DEFINE live  == todo.pids
           new   == {p \in live \ Tracked(table) : Exists(p)}
           fresh == [p \in new |-> ReadInfo(p)]
<1>1. /\ Up /\ Up' /\ UNCHANGED <<proc, queue, throttled, dirs, gcLeft>>
      /\ todo.kind = "read" /\ table' = MergeScan(table, fresh, live)
      /\ Family /\ TreeInv /\ \A i \in DOMAIN queue : InOrder(i)
  BY DEF ScanRead, Up, BombInv
<1>2. todo'.kind \in {"idle", "classify"}
  BY DEF ScanRead, IdleTodo
<1>3. live \in SUBSET Pid /\ IsTable(table) /\ IsMap(fresh, Pid, Info)
  <2>1. live \in SUBSET Pid /\ IsTable(table)
    BY DEF TypeOK, Todo
  <2> QED BY <2>1, ReadInfoType DEF IsMap, TypeOK
<1>4. /\ Family'
      /\ \A p \in Pid : Exempt(p)' <=> Exempt(p)
      /\ \A i \in DOMAIN queue : InOrder(i)'
  BY <1>1 DEF Family, Alive, Exists, Exempt, Forked, InOrder, Behind
<1>5. ASSUME NEW p \in Pid, ~Exempt(p) PROVE Rooted(table', p)
  <2> DEFINE q == proc[p].ppid
  <2>1. Exists(p) /\ ~Forked(p) /\ q \in ParentPid /\ q \in Pid /\ Exists(q) /\ q # 1
    BY <1>1, <1>5 DEF Exempt, Family, Alive, Exists, TypeOK, Process, ParentPid
  <2>2. p \in live
    BY <1>1, <2>1 DEF TreeInv
  <2>3. q \in live
    BY <1>1, <2>1, ForksFollow DEF TreeInv
  <2>4. /\ Tracked(table') = (Tracked(table) \cup DOMAIN fresh) \cap live
        /\ table.children[q] \cap live \subseteq table'.children[q]
        /\ \A c \in (DOMAIN fresh \cap live) \ Tracked(table) :
             fresh[c].ppid = q => c \in table'.children[q]
    <3> HIDE DEF fresh, live
    <3> QED BY <1>1, <1>3, <2>1, <2>3, MergeScanOK
  <2>5. CASE p \in Tracked(table)
    <3>1. Rooted(table, p)
      BY <1>1, <1>5, <2>5 DEF TreeInv
    <3> QED BY <2>2, <2>4, <2>5, <3>1 DEF Rooted
  <2>6. CASE p \notin Tracked(table)
    <3>1. p \in new /\ fresh[p].ppid = q
      BY <2>1, <2>2, <2>6 DEF ReadInfo
    <3> QED BY <2>1, <2>2, <2>4, <2>6, <3>1 DEF Rooted
  <2> QED BY <2>5, <2>6
<1>6. TreeInv'
  <2>1. \A p \in Pid : Rooted(table', p) => Rooted(table, p)'
    BY <1>1 DEF Rooted
  <2> QED BY <1>2, <1>4, <1>5, <2>1 DEF TreeInv
<1> QED BY <1>1, <1>4, <1>6 DEF BombInv

-----------------------------------------------------------------------------
(* The daemon ends and starts again, and events come in.                    *)

LEMMA EndsContains ==
  ASSUME BombInv, NEW final \in {"stopped", "crashed"}, Ends(final) PROVE BombInv'
<1>1. /\ proc' = proc /\ status' = final /\ queue' = <<>> /\ gcLeft' = {}
      /\ table' = EmptyTable
  BY DEF Ends
<1>2. Tracked(table') = {}
  BY <1>1, EmptyTableOK
<1>3. Family'
  BY <1>1 DEF BombInv, Family, Alive, Exists
<1>4. ~Up'
  BY <1>1 DEF Up
<1> QED BY <1>1, <1>2, <1>3, <1>4 DEF BombInv, Tracked

LEMMA StartContains ==
  ASSUME ScanAtStart, BombInv, Start PROVE BombInv'
<1>1. /\ Tracked(table) = {} /\ queue = <<>> /\ Family /\ gcLeft = {}
      /\ UNCHANGED <<proc, queue, table, gcLeft>> /\ dirs' = Tier
      /\ todo' = [kind |-> "list", pids |-> {}]
  BY DEF BombInv, Start, SetupHierarchy, FirstLoop
<1>2. Family' /\ Tracked(table') = {}
  BY <1>1 DEF Family, Alive, Exists
<1>3. TreeInv'
  BY <1>1, <1>2 DEF TreeInv, Scanning
<1> QED BY <1>1, <1>2, <1>3 DEF BombInv, Tracked

(* A step of the world outside: processes may end and be adopted, and an    *)
(* event may join the channel.                                              *)
LEMMA OutsideContains ==
  ASSUME TypeOK, BombInv, Family', Ages(proc, proc'),
         UNCHANGED <<table, throttled, dirs, gcLeft, todo, status>>,
         \/ queue' = queue
         \/ \E e \in Event : /\ Up
                             /\ queue' = Append(queue, e)
                             /\ e.type \notin {"Fork", "Gc"}
                             /\ e.type = "Exit" => proc'[e.pid].st # "alive"
  PROVE  BombInv'
<1>1. queue \in Seq(Event) /\ proc \in [Pid -> Process]
  BY DEF TypeOK
<1>2. CASE ~Up
  BY <1>2 DEF BombInv, Tracked, Up
<1>3. CASE Up
  <2>1. TreeInv /\ \A i \in DOMAIN queue : InOrder(i)
    BY <1>3 DEF BombInv
  <2>2. \A i \in DOMAIN queue' : InOrder(i)'
    BY <1>1, <2>1, OrderStays
  <2>3. \A p : Forked(p) => Forked(p)'
    <3>1. CASE queue' = queue
      BY <3>1, ForksStay
    <3>2. ASSUME NEW e \in Event, queue' = Append(queue, e)
          PROVE  \A p : Forked(p) => Forked(p)'
      <4>1. /\ DOMAIN queue \subseteq DOMAIN queue'
            /\ \A i \in DOMAIN queue : queue'[i] = queue[i]
        BY <1>1, <3>2, AppendKeeps
      <4> QED BY <4>1 DEF Forked
    <3> QED BY <3>1, <3>2
  <2>4. TreeInv'
    <3>1. ASSUME NEW p \in Pid, ~Exempt(p)', Scanning' => p \in Tracked(table)'
          PROVE  Rooted(table, p)'
      <4>1. Alive(p) /\ ~Forked(p) /\ proc'[p].ppid = proc[p].ppid
            /\ proc[p].ppid \notin {0, 1} \cup throttled
        BY <2>3, <3>1 DEF Exempt, Ages, Alive
      <4>2. Rooted(table, p)
        BY <2>1, <3>1, <4>1 DEF TreeInv, Exempt, Scanning, Tracked
      <4> QED BY <4>1, <4>2 DEF Rooted, Tracked
    <3>2. ASSUME todo'.kind = "read", NEW p \in Pid, Exists(p)'
          PROVE  p \in todo'.pids \/ Forked(p)'
      BY <2>1, <2>3, <3>2 DEF TreeInv, Ages, Exists
    <3> QED BY <3>1, <3>2 DEF TreeInv
  <2> QED BY <1>3, <2>2, <2>4 DEF BombInv, Up
<1> QED BY <1>2, <1>3

LEMMA ProducersContains ==
  ASSUME TypeOK, BombInv, "gc" \notin Sources, Up, Producers PROVE BombInv'
<1>1. PICK e \in Event : Send(e) /\ e.type \notin {"Fork", "Exit", "Gc"}
  BY ProducersSend DEF Sends
<1>2. /\ UNCHANGED <<proc, table, throttled, dirs, gcLeft, todo, status>>
      /\ queue' = Append(queue, e)
  BY <1>1 DEF Send
<1>3. Family' /\ Ages(proc, proc')
  BY <1>2 DEF BombInv, Family, Alive, Exists, Ages
<1> QED BY <1>1, <1>2, <1>3, OutsideContains

(* A process is born: its parent lives, and its Fork is the last event.     *)
LEMMA ForkContains ==
  ASSUME TypeOK, BombInv, NEW p \in Pid, NEW c \in Pid, Fork(p, c),
         UNCHANGED <<table, throttled, dirs, gcLeft, todo, status>>
  PROVE  BombInv'
<1>1. /\ queue \in Seq(Event) /\ proc \in [Pid -> Process] /\ Family
      /\ Alive(p) /\ ~Exists(c) /\ p # c /\ c # 1
      /\ proc' = [proc EXCEPT ![c] = [proc[p] EXCEPT !.ppid = p]]
  BY DEF TypeOK, BombInv, Family, Fork, Alive, Exists
<1>2. /\ proc'[c].ppid = p /\ proc'[c].st = "alive"
      /\ \A q \in Pid \ {c} : proc'[q] = proc[q]
  BY <1>1 DEF Process, Alive
<1>3. Family'
  <2>1. \A q \in Pid : Exists(q) => proc[q].ppid # c \/ c = 0
    BY <1>1 DEF Family, Alive, Exists
  <2> QED BY <1>1, <1>2, <2>1, PidAssumption DEF Family, Alive, Exists, Process, ParentPid
<1>4. CASE ~Up
  BY <1>3, <1>4 DEF BombInv, Fork, Announce, Tracked, Up
<1>5. CASE Up
  <2> PICK e \in Event : e = [type |-> "Fork", parent |-> p, pid |-> c]
    BY DEF Event
  <2> PICK n : n = Len(queue) + 1
    OBVIOUS
  <2>1. queue' = Append(queue, e) /\ e.type = "Fork" /\ e.pid = c /\ e.parent = p
    BY <1>5 DEF Fork, Announce
  <2>2. /\ DOMAIN queue' = DOMAIN queue \cup {n} /\ queue'[n] = e
        /\ \A i \in DOMAIN queue : queue'[i] = queue[i]
    BY <1>1, <2>1, AppendKeeps
  <2>3. TreeInv /\ \A i \in DOMAIN queue : InOrder(i)
    BY <1>5 DEF BombInv
  <2>4. ASSUME NEW i \in DOMAIN queue PROVE InOrder(i)'
    <3>1. /\ \A q : Behind(i, q) => Behind(i, q)'
          /\ Behind(i, c)'
      BY <1>1, <2>1, BehindAppend
    <3>2. PICK d \in Event : d = queue[i]
      BY <1>1
    <3>3. queue'[i] = d /\ (d.type \in {"Fork", "Exit"} => d.pid \in Pid)
      BY <2>2, <3>2, EventFields
    <3>4. InOrder(i)
      BY <2>3
    <3>5. d.type = "Exit" /\ Alive(d.pid)' => Behind(i, d.pid)'
      BY <1>2, <3>1, <3>2, <3>3, <3>4 DEF InOrder, Alive
    <3>6. ASSUME d.type = "Fork", d.pid # 1, NEW q \in Pid, Exists(q)', proc'[q].ppid = d.pid
          PROVE  Behind(i, q)'
      BY <1>2, <3>1, <3>2, <3>4, <3>6 DEF InOrder, Exists
    <3>7. d.type = "Fork" /\ Exists(d.pid)' =>
            proc'[d.pid].ppid \in {d.parent, 1} \/ Behind(i, d.pid)'
      BY <1>2, <3>1, <3>2, <3>3, <3>4 DEF InOrder, Exists
    <3>8. d.type # "Gc"
      BY <3>2, <3>4 DEF InOrder
    <3> QED BY <3>3, <3>5, <3>6, <3>7, <3>8 DEF InOrder
  <2>5. InOrder(n)'
    <3>1. \A q \in Pid : Exists(q)' => proc'[q].ppid # c
      BY <1>1, <1>2, PidAssumption DEF Family, Alive, Exists
    <3> QED BY <1>2, <2>1, <2>2, <3>1 DEF InOrder
  <2>6. Forked(c)' /\ \A q : Forked(q) => Forked(q)'
    BY <2>1, <2>2 DEF Forked
  <2>7. TreeInv'
    <3>1. ASSUME NEW q \in Pid, ~Exempt(q)', Scanning' => q \in Tracked(table)'
          PROVE  Rooted(table, q)'
      <4>1. q # c /\ ~Exempt(q)
        BY <1>2, <2>6, <3>1 DEF Exempt, Alive
      <4> QED BY <1>2, <2>3, <3>1, <4>1 DEF TreeInv, Scanning, Rooted, Tracked
    <3>2. ASSUME todo'.kind = "read", NEW q \in Pid, Exists(q)'
          PROVE  q \in todo'.pids \/ Forked(q)'
      BY <1>2, <2>3, <2>6, <3>2 DEF TreeInv, Exists
    <3> QED BY <3>1, <3>2 DEF TreeInv
  <2> QED BY <1>3, <1>5, <2>2, <2>4, <2>5, <2>7 DEF BombInv, Up
<1> QED BY <1>4, <1>5

LEMMA EnvironmentContains ==
  ASSUME TypeOK, BombInv, Environment PROVE BombInv'
<1>1. /\ UNCHANGED <<table, throttled, dirs, gcLeft, todo, status>> /\ KernelStep
      /\ queue \in Seq(Event) /\ proc \in [Pid -> Process] /\ Family
  BY DEF Environment, TypeOK, BombInv
<1>2. \A p \in Pid : proc[p].ppid \in Pid \cup {0}
  BY <1>1 DEF Process, ParentPid
<1>3. ASSUME NEW p \in Pid, NEW c \in Pid, Fork(p, c) PROVE BombInv'
  BY <1>1, <1>3, ForkContains
<1>4. ASSUME NEW p \in Pid, NEW comm \in Comm, Exec(p, comm) \/ Rename(p, comm) PROVE BombInv'
  <2>1. proc' = [proc EXCEPT ![p].comm = comm]
    BY <1>4 DEF Exec, Rename
  <2>2. \A q \in Pid : proc'[q].st = proc[q].st /\ proc'[q].ppid = proc[q].ppid
    BY <1>1, <2>1 DEF Process
  <2>3. Family' /\ Ages(proc, proc')
    <3>1. Family'
      <4>1. \A q \in Pid : (Alive(q)' <=> Alive(q)) /\ (Exists(q)' <=> Exists(q))
        BY <2>2 DEF Alive, Exists
      <4> QED BY <1>1, <1>2, <2>2, <4>1, PidAssumption DEF Family
    <3>2. Ages(proc, proc')
      BY <2>2 DEF Ages
    <3> QED BY <3>1, <3>2
  <2>4. \E e \in Event : Announce(e) /\ e.type \in {"Exec", "Comm"}
    <3>1. [type |-> "Exec", pid |-> p] \in Event /\ [type |-> "Comm", pid |-> p] \in Event
      BY DEF Event
    <3> QED BY <1>4, <3>1 DEF Exec, Rename
  <2> QED BY <1>1, <2>3, <2>4, OutsideContains DEF Announce
<1>5. ASSUME NEW p \in Pid, Exit(p) PROVE BombInv'
  <2>1. /\ Alive(p) /\ p # 1
        /\ proc' = [q \in Pid |->
             IF q = p THEN [proc[q] EXCEPT !.st = "zombie"]
             ELSE IF Exists(q) /\ proc[q].ppid = p THEN [proc[q] EXCEPT !.ppid = 1]
             ELSE proc[q]]
    BY <1>5 DEF Exit
  <2>2. /\ proc'[p].st = "zombie" /\ proc'[p].ppid = proc[p].ppid
        /\ \A q \in Pid \ {p} :
             /\ proc'[q].st = proc[q].st
             /\ proc'[q].ppid = IF Exists(q) /\ proc[q].ppid = p THEN 1 ELSE proc[q].ppid
    BY <1>1, <2>1 DEF Process
  <2>3. Ages(proc, proc')
    BY <2>1, <2>2 DEF Ages, Alive
  <2>4. Family'
    <3>1. Alive(1)'
      BY <1>1, <2>1, <2>2, PidAssumption DEF Family, Alive
    <3>2. ASSUME NEW q \in Pid, Exists(q)', proc'[q].ppid \notin {0, 1}
          PROVE  proc'[q].ppid # q /\ proc'[proc'[q].ppid].st = "alive"
      <4>1. Exists(q) /\ proc'[q].ppid = proc[q].ppid
        BY <2>1, <2>2, <3>2 DEF Exists, Alive
      <4>2. proc[q].ppid # q /\ Alive(proc[q].ppid) /\ proc[q].ppid \in Pid
        BY <1>1, <1>2, <3>2, <4>1 DEF Family
      <4>3. proc[q].ppid # p
        BY <2>2, <3>2, <4>1, <4>2
      <4> QED BY <2>2, <4>1, <4>2, <4>3 DEF Alive
    <3> QED BY <3>1, <3>2 DEF Family, Alive, Exists
  <2>5. PICK e \in Event : Announce(e) /\ e.type = "Exit" /\ e.pid = p
    <3>1. [type |-> "Exit", pid |-> p] \in Event
      BY DEF Event
    <3> QED BY <1>5, <3>1 DEF Exit
  <2>6. proc'[e.pid].st # "alive"
    BY <2>2, <2>5
  <2> QED BY <1>1, <2>3, <2>4, <2>5, <2>6, OutsideContains DEF Announce
<1>6. ASSUME NEW p \in Pid, Reap(p) PROVE BombInv'
  <2>1. /\ proc[p].st = "zombie" /\ queue' = queue /\ proc'[p].st = "none"
        /\ \A q \in Pid \ {p} : proc'[q] = proc[q]
    BY <1>1, <1>6, BootAssumption DEF Reap
  <2>2. Ages(proc, proc')
    BY <2>1 DEF Ages
  <2>3. Family'
    <3>1. \A q \in Pid : proc[q].st = "alive" => proc'[q].st = "alive"
      BY <2>1
    <3>2. \A q \in Pid : proc'[q].st # "none" => proc'[q] = proc[q]
      BY <2>1
    <3> QED BY <1>1, <1>2, <3>1, <3>2, PidAssumption DEF Family, Alive, Exists
  <2>4. queue' = queue
    BY <2>1
  <2> QED BY <1>1, <2>2, <2>3, <2>4, OutsideContains
<1> QED BY <1>1, <1>3, <1>4, <1>5, <1>6 DEF KernelStep

LEMMA InitContains ==
  ASSUME ScanAtStart, Init PROVE BombInv
<1>1. /\ proc = Boot /\ queue = <<>> /\ table = EmptyTable /\ dirs = Tier /\ gcLeft = {}
      /\ todo = [kind |-> "list", pids |-> {}]
  BY DEF Init, FirstLoop
<1>2. Tracked(table) = {}
  BY <1>1, EmptyTableOK
<1>3. Family
  BY <1>1, BootTreeAssumption DEF Family, Alive, Exists
<1>4. TreeInv
  BY <1>1, <1>2 DEF TreeInv, Scanning
<1> QED BY <1>1, <1>2, <1>3, <1>4 DEF BombInv

LEMMA NextContains ==
  ASSUME ScanAtStart, Sources \cap {"gc", "noproc"} = {}, TypeOK, BombInv, [Next]_vars
  PROVE  BombInv'
<1>1. CASE ProcEvents
  BY <1>1, ExecGrows, GrowsContains, OnForkContains, OnExitContains DEF ProcEvents
<1>2. CASE Loops
  BY <1>2, LoopsGrow, GrowsContains, ScanListContains, ScanReadContains DEF Loops
<1>3. CASE Timers
  <2>1. ~OnGc
    <3> SUFFICES ASSUME OnGc PROVE FALSE
      OBVIOUS
    <3>1. queue \in Seq(Event) /\ queue # <<>> /\ queue' = Tail(queue) /\ Front.type = "Gc" /\ Up
      BY DEF OnGc, Take, Waiting, Front, TypeOK, Up
    <3> QED BY <3>1, FrontTaken DEF BombInv, InOrder
  <2> QED BY <1>3, <2>1, TimersGrow, GrowsContains DEF Timers
<1>4. CASE Requests
  BY <1>4, RequestsGrow, GrowsContains
<1>5. CASE Teardown \/ Crash
  BY <1>5, EndsContains DEF Teardown, Crash
<1>6. CASE GcTier
  BY <1>6 DEF GcTier, BombInv
<1>7. CASE Start
  BY <1>7, StartContains
<1>8. CASE Environment
  BY <1>8, EnvironmentContains
<1>9. CASE Up /\ Producers
  BY <1>9, ProducersContains
<1>10. CASE UNCHANGED vars
  <2>1. /\ UNCHANGED <<proc, table, throttled, dirs, gcLeft, todo, status, queue>>
    BY <1>10 DEF vars
  <2>2. Family' /\ Ages(proc, proc')
    BY <2>1 DEF BombInv, Family, Alive, Exists, Ages
  <2> QED BY <2>1, <2>2, OutsideContains
<1> QED BY <1>1, <1>2, <1>3, <1>4, <1>5, <1>6, <1>7, <1>8, <1>9, <1>10 DEF Next, DaemonStep

-----------------------------------------------------------------------------
(* The walk down from a process finds it, and its children if it looks for  *)
(* any.                                                                     *)
LEMMA SubtreeFound ==
  ASSUME NEW t, IsTable(t), NEW root \in Pid, NEW depth \in Nat
  PROVE  /\ root \in CollectSubtree(t, root, depth)
         /\ depth >= 1 => t.children[root] \subseteq CollectSubtree(t, root, depth)
<1> DEFINE S == SUBSET Pid
           g == [i \in 1..depth |-> [A \in S |-> A \cup UNION {t.children[p] : p \in A}]]
           Good(f) == f = [k \in 0..depth |->
                             IF k = 0 THEN {root}
                             ELSE f[k - 1] \cup UNION {t.children[p] : p \in f[k - 1]}]
<1>1. \A p \in Pid : t.children[p] \in S
  BY DEF IsTable, ParentPid
<1>2. {root} \in S /\ g \in [1..depth -> [S -> S]]
  BY <1>1
<1>3. PICK f \in [0..depth -> S] : Recursive(f, depth, {root}, g)
  <2> HIDE DEF g, S
  <2> QED BY <1>2, Recursion
<1>4. Good(f)
  <2>1. \A k \in 0..depth : f[k] = IF k = 0 THEN {root} ELSE g[k][f[k - 1]]
    <3> HIDE DEF g, S
    <3> QED BY <1>3 DEF Recursive
  <2>2. \A k \in 0..depth : k # 0 =>
          g[k][f[k - 1]] = f[k - 1] \cup UNION {t.children[p] : p \in f[k - 1]}
    <3> SUFFICES ASSUME NEW k \in 0..depth, k # 0
                 PROVE  g[k][f[k - 1]] = f[k - 1] \cup UNION {t.children[p] : p \in f[k - 1]}
      OBVIOUS
    <3>1. k \in 1..depth /\ f[k - 1] \in S
      BY <1>3
    <3> QED BY <3>1
  <2> HIDE DEF g, S
  <2> QED BY <1>3, <2>1, <2>2
<1> DEFINE reach == CHOOSE h : Good(h)
<1>5. Good(reach)
  <2> HIDE DEF Good
  <2> QED BY <1>4
<1>6. CollectSubtree(t, root, depth) = reach[depth]
  BY DEF CollectSubtree
<1> HIDE DEF reach
<1> DEFINE Found == {k \in Nat : k <= depth =>
                    /\ root \in reach[k]
                    /\ k >= 1 => t.children[root] \subseteq reach[k]}
<1>7. 0 \in Found
  BY <1>5
<1>8. ASSUME NEW k \in Nat, k \in Found PROVE k + 1 \in Found
  <2> SUFFICES ASSUME k + 1 <= depth
               PROVE  root \in reach[k + 1] /\ t.children[root] \subseteq reach[k + 1]
    OBVIOUS
  <2>1. reach[k + 1] = reach[k] \cup UNION {t.children[p] : p \in reach[k]}
    BY <1>5
  <2>2. root \in reach[k]
    BY <1>8
  <2> QED BY <2>1, <2>2
<1>9. Nat \subseteq Found
  <2> HIDE DEF Found
  <2> QED BY <1>7, <1>8, Induction
<1> QED BY <1>6, <1>9

LEMMA BombStep ==
  ASSUME Sources \cap {"gc", "noproc"} = {}, LineageDepth >= 1, TypeOK, BombInv, [Next]_vars,
         NEW r \in (throttled' \ throttled) \ {1}, NEW p \in Pid,
         Alive(p), proc[p].comm \notin Sandboxed, p = r \/ proc[p].ppid = r, ~Forked(p)
  PROVE  proc'[p].cg = "swapstorm"
<1>1. OnForkBomb
  <2> SUFFICES ASSUME ~OnForkBomb PROVE throttled' \subseteq throttled
    OBVIOUS
  <2> QED BY DEF Next, DaemonStep, ProcEvents, OnFork, OnExec, OnComm, OnExit,
       Loops, ScanList, ScanRead, ScanClassify, Recheck, Restore,
       Timers, EndGrace, OnRescan, OnRecheck, OnGc,
       Requests, OnForeground, OnPlace, OnReload, OnPressure, OnShutdown,
       Teardown, Crash, Ends, GcTier, Start, Environment,
       Producers, RescanTick, Signal, Client, PsiUpdate, Send, vars
<1>2. /\ Front.parent = r /\ Up /\ todo.kind = "idle"
      /\ proc' = Assigned(proc, CollectSubtree(table, r, LineageDepth), "swapstorm")
  BY <1>1 DEF OnForkBomb, Take, Waiting, Up
<1>3. r \in Pid /\ r # 0 /\ r # 1 /\ r \notin throttled
  <2>1. throttled' \subseteq Pid
    <3>1. Front.parent \in Pid
      BY <1>1, TakeType, EventFields DEF OnForkBomb
    <3> QED BY <1>1, <3>1 DEF OnForkBomb, TypeOK
  <2> QED BY <2>1, PidAssumption
<1>4. TreeInv /\ "swapstorm" \in dirs
  BY <1>1, <1>2, TierAssumption DEF BombInv, OnForkBomb
<1>5. /\ r \in CollectSubtree(table, r, LineageDepth)
      /\ table.children[r] \subseteq CollectSubtree(table, r, LineageDepth)
  BY <1>3, SubtreeFound, TierAssumption DEF TypeOK
<1>6. p \in CollectSubtree(table, r, LineageDepth)
  <2>1. CASE p = r
    BY <1>5, <2>1
  <2>2. CASE proc[p].ppid = r
    <3>1. Rooted(table, p)
      BY <1>2, <1>3, <1>4, <2>2 DEF TreeInv, Exempt, Scanning
    <3> QED BY <1>5, <2>2, <3>1 DEF Rooted
  <2> QED BY <2>1, <2>2
<1> QED BY <1>2, <1>4, <1>6 DEF Assigned, Alive, TypeOK, Process

(* Whatever was reused, re-parented, scanned and crashed before: when a     *)
(* fork bomb is found, the processes that the event loop has heard of from  *)
(* its root down to its children are in swapstorm.  The collection of empty *)
(* tiers is off (with it the claim is wrong: run daemon_bomb_gc), no        *)
(* listing of /proc fails (a failed one empties the table, and with it the  *)
(* edges that the throttle walks), the daemon looks at the processes that   *)
(* run when it starts, and the throttle is set to reach the children.       *)
THEOREM BombsContained ==
  ASSUME Sources \cap {"gc", "noproc"} = {}, ScanAtStart, LineageDepth >= 1
  PROVE  Spec => BombContained
<1> DEFINE Contained == \A r \in (throttled' \ throttled) \ {1} : \A p \in Pid :
                          /\ Alive(p) /\ proc[p].comm \notin Sandboxed
                          /\ p = r \/ proc[p].ppid = r
                          /\ ~Forked(p)
                          => proc'[p].cg = "swapstorm"
<1>1. Init => BombInv
  BY InitContains
<1>2. TypeOK /\ BombInv /\ [Next]_vars => BombInv'
  BY NextContains
<1>3. TypeOK /\ BombInv /\ [Next]_vars => [Contained]_vars
  BY BombStep
<1> QED BY TypeCorrect, <1>1, <1>2, <1>3, PTL DEF Spec, BombContained
=============================================================================
