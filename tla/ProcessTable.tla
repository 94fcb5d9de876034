---------------------------- MODULE ProcessTable ----------------------------
(***************************************************************************)
(* The in-memory process table of crates/core/src/process_table.rs as      *)
(* operators on a value                                                    *)
(*     t = [entries |-> partial function from Pid, children |-> edges].    *)
(* DOMAIN t.entries is the key set of the entries map.  A key that is      *)
(* missing from the children map reads as the empty set in every query,    *)
(* so children is total here.  A recheck deadline is only armed or not:    *)
(* which armed deadlines have expired is for the caller to choose.         *)
(***************************************************************************)
EXTENDS Integers, Sequences, FiniteSets, RuleAction

CONSTANTS Pid,      \* the process ids that the kernel hands out
          Comm,     \* command names: what a process says it runs
          Group     \* cgroup v2 paths

ParentPid == Pid \cup {0}

ASSUME PidAssumption == Pid \subseteq Nat \ {0} /\ 1 \in Pid
ASSUME GroupAssumption == None \notin Group

Info  == [ppid: ParentPid, comm: Comm, path: Group]

Entry == [info: Info, applied: Action \cup {None}, recheck: BOOLEAN,
          classified: BOOLEAN, orig: Group \cup {None}]

(* m is a HashMap from S to T: a function on a subset of S.                 *)
IsMap(m, S, T) == DOMAIN m \subseteq S /\ m \in [DOMAIN m -> T]

IsTable(t) ==
  /\ t = [entries |-> t.entries, children |-> t.children]
  /\ IsMap(t.entries, Pid, Entry)
  /\ t.children \in [ParentPid -> SUBSET Pid]

EmptyTable == [entries  |-> [p \in {} |-> None],
               children |-> [p \in ParentPid |-> {}]]

Tracked(t) == DOMAIN t.entries

FreshEntry(info, orig) ==
  [info |-> info, applied |-> None, recheck |-> FALSE,
   classified |-> FALSE, orig |-> orig]

-----------------------------------------------------------------------------
(* Mutation *)

Put(entries, p, e) ==
  [q \in DOMAIN entries \cup {p} |-> IF q = p THEN e ELSE entries[q]]

(* A bug to detect: the entry of a known process stays as it is.            *)
InsertIfNew(t, p, info) ==
  IF p \in Tracked(t) THEN t
  ELSE [entries  |-> Put(t.entries, p, FreshEntry(info, None)),
        children |-> [t.children EXCEPT ![info.ppid] = @ \cup {p}]]

(* A bug to detect: the edge from the old parent stays.                     *)
InsertLeavingEdge(t, p, info) ==
  [entries  |-> Put(t.entries, p,
                    FreshEntry(info, IF p \in Tracked(t) THEN t.entries[p].orig
                                                         ELSE None)),
   children |-> [t.children EXCEPT ![info.ppid] = @ \cup {p}]]

Insert(t, p, info) ==
  LET known == p \in Tracked(t)
      stale == IF known /\ t.entries[p].info.ppid # info.ppid
                 THEN {t.entries[p].info.ppid} ELSE {}
  IN  [entries  |-> Put(t.entries, p,
                        FreshEntry(info, IF known THEN t.entries[p].orig ELSE None)),
       children |-> [q \in ParentPid |->
                       IF q = info.ppid THEN t.children[q] \cup {p}
                       ELSE IF q \in stale THEN t.children[q] \ {p}
                       ELSE t.children[q]]]

Remove(t, p) ==
  IF p \notin Tracked(t) THEN t
  ELSE [entries  |-> [q \in Tracked(t) \ {p} |-> t.entries[q]],
        children |-> [q \in ParentPid |->
                        IF q = p THEN {}
                        ELSE IF q = t.entries[p].info.ppid THEN t.children[q] \ {p}
                        ELSE t.children[q]]]

(* get_mut: the entry of p becomes e.                                       *)
Update(t, p, e) == [t EXCEPT !.entries = Put(t.entries, p, e)]

MarkClassified(t, p) ==
  IF p \in Tracked(t)
    THEN Update(t, p, [t.entries[p] EXCEPT !.classified = TRUE]) ELSE t

MarkClassifiedFalse(t, S) ==
  [t EXCEPT !.entries = [p \in Tracked(t) |->
     IF p \in S THEN [t.entries[p] EXCEPT !.classified = FALSE, !.applied = None]
                ELSE t.entries[p]]]

(* A bug to detect: every move records where it started.                    *)
SetOriginalAlways(t, p, g) ==
  IF p \in Tracked(t) THEN Update(t, p, [t.entries[p] EXCEPT !.orig = g]) ELSE t

(* A bug to detect: the test for a recorded cgroup is the wrong way round.  *)
SetOriginalInverted(t, p, g) ==
  IF p \in Tracked(t) /\ t.entries[p].orig # None
    THEN Update(t, p, [t.entries[p] EXCEPT !.orig = g]) ELSE t

SetOriginal(t, p, g) ==
  IF p \in Tracked(t) /\ t.entries[p].orig = None
    THEN Update(t, p, [t.entries[p] EXCEPT !.orig = g]) ELSE t

SetApplied(t, p, a, rechecks) ==
  IF p \in Tracked(t)
    THEN Update(t, p, [t.entries[p] EXCEPT !.recheck = rechecks, !.applied = a,
                                           !.classified = TRUE])
    ELSE t

(* A bug to detect: the scan adds processes and removes none.               *)
MergeScanAddsOnly(t, fresh, live) ==
  LET new == DOMAIN fresh \ Tracked(t)
  IN  [entries  |-> [p \in Tracked(t) \cup new |->
                       IF p \in new THEN FreshEntry(fresh[p], None) ELSE t.entries[p]],
       children |-> [q \in ParentPid |->
                       t.children[q] \cup {p \in new : fresh[p].ppid = q}]]

(* A bug to detect: parent and child of the new edges are swapped.          *)
MergeScanSwapped(t, fresh, live) ==
  LET new  == DOMAIN fresh \ Tracked(t)
      keep == (Tracked(t) \cup new) \cap live
  IN  [entries  |-> [p \in keep |-> IF p \in new THEN FreshEntry(fresh[p], None)
                                                ELSE t.entries[p]],
       children |-> [q \in ParentPid |->
                       t.children[q] \cup (IF q \in new THEN {fresh[q].ppid} ELSE {})]]

(* merge_scan: the processes read by this scan that the table does not      *)
(* know are added, then every entry that the listing misses is removed.     *)
MergeScan(t, fresh, live) ==
  LET new  == DOMAIN fresh \ Tracked(t)
      keep == (Tracked(t) \cup new) \cap live
      gone == (Tracked(t) \cup new) \ live
      entry(p) == IF p \in new THEN FreshEntry(fresh[p], None) ELSE t.entries[p]
  IN  [entries  |-> [p \in keep |-> entry(p)],
       children |-> [q \in ParentPid |->
          IF q \in gone THEN {}
          ELSE (t.children[q] \cup {p \in new : fresh[p].ppid = q})
                 \ {p \in gone : entry(p).info.ppid = q}]]

-----------------------------------------------------------------------------
(* Queries *)

ChildrenOf(t, p) == t.children[p]

Unclassified(t) == {p \in Tracked(t) : ~t.entries[p].classified}

(* The commands on the way up from p, nearest first, at most depth of them. *)
AncestorComms(t, p, depth) ==
  LET up(q) == t.entries[q].info.ppid
      last(q) == q \notin Tracked(t) \/ up(q) \in {0, q} \/ up(q) \notin Tracked(t)
      walk[k \in 0..depth] ==
        IF k = 0 THEN [at |-> p, comms |-> <<>>]
        ELSE LET w == walk[k - 1] IN
             IF last(w.at) THEN w
             ELSE [at    |-> up(w.at),
                   comms |-> Append(w.comms, t.entries[up(w.at)].info.comm)]
  IN  walk[depth].comms

(* moved_pids: the entries whose applied action names a cgroup.             *)
MovedPids(t) ==
  {p \in Tracked(t) : /\ t.entries[p].applied # None
                      /\ t.entries[p].applied.opt.cgroup # None}

-----------------------------------------------------------------------------
(* Every parent-to-child edge leads to an entry that names that parent.     *)
(* Code that walks the edges (children_of) relies on it to reach only       *)
(* processes the table knows.                                               *)
EdgeSound(t) ==
  \A q \in ParentPid : \A c \in t.children[q] :
     c \in Tracked(t) /\ t.entries[c].info.ppid = q
=============================================================================
