--------------------------- MODULE Daemon_proofs ---------------------------
(***************************************************************************)
(* For any number of processes, any rules and any length of the channel:   *)
(* the types, the consistency of the process table's edges, and that the   *)
(* managed map shows what the table holds, in every reachable state.       *)
(***************************************************************************)
EXTENDS DaemonProperties, Recursion_proofs, SequenceTheorems

(***************************************************************************)
(* What every operation of the process table preserves: the types of the   *)
(* table (IsTable), the consistency of its edges (EdgeSound), and which    *)
(* processes it tracks.                                                    *)
(***************************************************************************)

(* A fresh entry, which insert and merge_scan make, is an entry.            *)
LEMMA FreshEntryType ==
  ASSUME NEW info \in Info, NEW orig \in Group \cup {None}
  PROVE  FreshEntry(info, orig) \in Entry
  BY DEF FreshEntry, Entry

(* put replaces one value of a map and leaves the others.                   *)
LEMMA PutType ==
  ASSUME NEW S, NEW T, NEW m, IsMap(m, S, T), NEW p \in S, NEW e \in T
  PROVE  /\ IsMap(Put(m, p, e), S, T)
         /\ DOMAIN Put(m, p, e) = DOMAIN m \cup {p}
         /\ Put(m, p, e)[p] = e
         /\ \A q \in DOMAIN m \ {p} : Put(m, p, e)[q] = m[q]
  BY DEF IsMap, Put

(* The same processes under the same parents: what the walks over the table *)
(* see of it.                                                               *)
SameTree(t, u) ==
  /\ Tracked(u) = Tracked(t) /\ u.children = t.children
  /\ \A q \in Tracked(t) : u.entries[q].info = t.entries[q].info

(* The table that the daemon starts with.                                   *)
LEMMA EmptyTableOK ==
  /\ IsTable(EmptyTable)
  /\ EdgeSound(EmptyTable)
  /\ Tracked(EmptyTable) = {}
  BY DEF IsTable, IsMap, EdgeSound, Tracked, EmptyTable

-----------------------------------------------------------------------------
(* insert: the process is tracked, with an entry that says what was read    *)
(* and no action; the others keep their entries.                            *)
LEMMA InsertOK ==
  ASSUME NEW t, IsTable(t), NEW p \in Pid, NEW info \in Info
  PROVE  LET u == Insert(t, p, info) IN
         /\ IsTable(u)
         /\ Tracked(u) = Tracked(t) \cup {p}
         /\ u.entries[p].info = info
         /\ u.entries[p].applied = None /\ ~u.entries[p].recheck
         /\ \A q \in Tracked(t) \ {p} : u.entries[q] = t.entries[q]
         /\ u.entries[p].orig = IF p \in Tracked(t) THEN t.entries[p].orig ELSE None
         /\ p \in u.children[info.ppid]
         /\ \A q \in ParentPid : u.children[q] \ {p} = t.children[q] \ {p}
         /\ EdgeSound(t) => EdgeSound(u)
<1> DEFINE u     == Insert(t, p, info)
           known == p \in Tracked(t)
           orig  == IF known THEN t.entries[p].orig ELSE None
           e     == FreshEntry(info, orig)
           stale == IF known /\ t.entries[p].info.ppid # info.ppid
                      THEN {t.entries[p].info.ppid} ELSE {}
<1>1. u = [entries  |-> Put(t.entries, p, e),
           children |-> [q \in ParentPid |->
                          IF q = info.ppid THEN t.children[q] \cup {p}
                          ELSE IF q \in stale THEN t.children[q] \ {p}
                          ELSE t.children[q]]]
  BY DEF Insert
<1>2. orig \in Group \cup {None}
  BY DEF IsTable, IsMap, Tracked, Entry
<1>3. e \in Entry
  BY <1>2, FreshEntryType
<1>4. IsMap(t.entries, Pid, Entry)
  BY DEF IsTable
<1>5. /\ IsMap(u.entries, Pid, Entry)
      /\ DOMAIN u.entries = Tracked(t) \cup {p}
      /\ u.entries[p] = e
      /\ \A q \in Tracked(t) \ {p} : u.entries[q] = t.entries[q]
  <2> HIDE DEF e
  <2> QED BY <1>1, <1>3, <1>4, PutType DEF Tracked
<1>6. info.ppid \in ParentPid
  BY DEF Info
<1>7. u.children \in [ParentPid -> SUBSET Pid]
  BY <1>1 DEF IsTable
<1>8. IsTable(u)
  BY <1>1, <1>5, <1>7 DEF IsTable
<1>9. ASSUME EdgeSound(t) PROVE EdgeSound(u)
  <2> SUFFICES ASSUME NEW q \in ParentPid, NEW c \in u.children[q]
               PROVE  c \in Tracked(u) /\ u.entries[c].info.ppid = q
    BY DEF EdgeSound
  <2>1. CASE c = p
    <3>1. ASSUME q # info.ppid PROVE FALSE
      <4>1. p \in t.children[q] /\ q \notin stale
        BY <1>1, <2>1, <3>1
      <4>2. known /\ t.entries[p].info.ppid = q
        BY <4>1, <1>9 DEF EdgeSound
      <4> QED BY <4>1, <4>2, <3>1
    <3>2. e.info = info
      BY DEF FreshEntry
    <3> QED BY <2>1, <3>1, <3>2, <1>5 DEF Tracked
  <2>2. CASE c # p
    <3>1. c \in t.children[q]
      BY <1>1, <2>2
    <3>2. c \in Tracked(t) /\ t.entries[c].info.ppid = q
      BY <3>1, <1>9 DEF EdgeSound
    <3> QED BY <3>2, <2>2, <1>5 DEF Tracked
  <2> QED BY <2>1, <2>2
<1>10. e.info = info /\ e.applied = None /\ ~e.recheck /\ e.orig = orig
  BY DEF FreshEntry
<1>11. /\ p \in u.children[info.ppid]
       /\ \A q \in ParentPid : u.children[q] \ {p} = t.children[q] \ {p}
  BY <1>1, <1>6
<1> QED BY <1>5, <1>8, <1>9, <1>10, <1>11 DEF Tracked

(* remove: the process is gone, and the edges to and from it.               *)
LEMMA RemoveOK ==
  ASSUME NEW t, IsTable(t), NEW p \in Pid
  PROVE  LET u == Remove(t, p) IN
         /\ IsTable(u)
         /\ Tracked(u) = Tracked(t) \ {p}
         /\ \A q \in Tracked(u) : u.entries[q] = t.entries[q]
         /\ \A q \in ParentPid \ {p} : t.children[q] \ {p} \subseteq u.children[q]
         /\ EdgeSound(t) => EdgeSound(u)
<1> DEFINE u == Remove(t, p)
<1>1. CASE p \notin Tracked(t)
  BY <1>1 DEF Remove
<1>2. CASE p \in Tracked(t)
  <2>1. u = [entries  |-> [q \in Tracked(t) \ {p} |-> t.entries[q]],
             children |-> [q \in ParentPid |->
                             IF q = p THEN {}
                             ELSE IF q = t.entries[p].info.ppid THEN t.children[q] \ {p}
                             ELSE t.children[q]]]
    BY <1>2 DEF Remove
  <2>2. IsMap(u.entries, Pid, Entry) /\ DOMAIN u.entries = Tracked(t) \ {p}
    BY <2>1 DEF IsTable, IsMap, Tracked
  <2>3. \A q \in Tracked(u) : u.entries[q] = t.entries[q]
    BY <2>1 DEF Tracked
  <2>4. u.children \in [ParentPid -> SUBSET Pid]
    BY <2>1 DEF IsTable
  <2>5. IsTable(u)
    BY <2>1, <2>2, <2>4 DEF IsTable
  <2>6. ASSUME EdgeSound(t) PROVE EdgeSound(u)
    <3> SUFFICES ASSUME NEW q \in ParentPid, NEW c \in u.children[q]
                 PROVE  c \in Tracked(u) /\ u.entries[c].info.ppid = q
      BY DEF EdgeSound
    <3>1. c \in t.children[q]
      BY <2>1
    <3>2. c \in Tracked(t) /\ t.entries[c].info.ppid = q
      BY <3>1, <2>6 DEF EdgeSound
    <3>3. c # p
      BY <2>1, <3>2
    <3> QED BY <3>2, <3>3, <2>2, <2>3 DEF Tracked
  <2>7. \A q \in ParentPid \ {p} : t.children[q] \ {p} \subseteq u.children[q]
    BY <2>1
  <2> QED BY <2>2, <2>3, <2>5, <2>6, <2>7 DEF Tracked
<1> QED BY <1>1, <1>2

(* An update in place that leaves the parent alone leaves the edges sound.  *)
LEMMA UpdateOK ==
  ASSUME NEW t, IsTable(t), NEW p \in Tracked(t), NEW e \in Entry,
         e.info = t.entries[p].info
  PROVE  LET u == Update(t, p, e) IN
         /\ IsTable(u)
         /\ Tracked(u) = Tracked(t)
         /\ u.entries[p] = e
         /\ \A q \in Tracked(t) \ {p} : u.entries[q] = t.entries[q]
         /\ SameTree(t, u)
         /\ EdgeSound(t) => EdgeSound(u)
<1> DEFINE u == Update(t, p, e)
<1>1. u = [entries |-> Put(t.entries, p, e), children |-> t.children]
  BY DEF Update, IsTable
<1>2. p \in Pid /\ IsMap(t.entries, Pid, Entry)
  BY DEF IsTable, IsMap, Tracked
<1>3. /\ IsMap(Put(t.entries, p, e), Pid, Entry)
      /\ DOMAIN Put(t.entries, p, e) = DOMAIN t.entries \cup {p}
      /\ Put(t.entries, p, e)[p] = e
      /\ \A q \in DOMAIN t.entries \ {p} : Put(t.entries, p, e)[q] = t.entries[q]
  BY <1>2, PutType
<1>4. u.entries = Put(t.entries, p, e) /\ u.children = t.children
  BY <1>1
<1>5. Tracked(u) = Tracked(t)
  BY <1>3, <1>4 DEF Tracked
<1>6. \A q \in Tracked(t) : u.entries[q] = IF q = p THEN e ELSE t.entries[q]
  BY <1>3, <1>4 DEF Tracked
<1>7. IsTable(u)
  BY <1>1, <1>3, <1>4 DEF IsTable
<1>8. EdgeSound(t) => EdgeSound(u)
  BY <1>4, <1>5, <1>6 DEF EdgeSound
<1>9. SameTree(t, u)
  BY <1>4, <1>5, <1>6 DEF SameTree
<1> QED BY <1>5, <1>6, <1>7, <1>8, <1>9

(* mark_classified: only the flag changes.                                  *)
LEMMA MarkClassifiedOK ==
  ASSUME NEW t, IsTable(t), NEW p \in Pid
  PROVE  LET u == MarkClassified(t, p) IN
         /\ IsTable(u)
         /\ Tracked(u) = Tracked(t)
         /\ \A q \in Tracked(t) : /\ u.entries[q].applied = t.entries[q].applied
                                  /\ u.entries[q].orig = t.entries[q].orig
                                  /\ u.entries[q].recheck = t.entries[q].recheck
         /\ p \in Tracked(t) => u.entries[p].classified
         /\ \A q \in Tracked(t) \ {p} : u.entries[q] = t.entries[q]
         /\ SameTree(t, u)
         /\ EdgeSound(t) => EdgeSound(u)
<1> DEFINE e == [t.entries[p] EXCEPT !.classified = TRUE]
<1>1. CASE p \notin Tracked(t)
  BY <1>1 DEF MarkClassified, SameTree
<1>2. CASE p \in Tracked(t)
  <2>1. t.entries[p] \in Entry
    BY <1>2 DEF IsTable, IsMap, Tracked
  <2>2. /\ e \in Entry /\ e.info = t.entries[p].info /\ e.classified
        /\ e.applied = t.entries[p].applied /\ e.orig = t.entries[p].orig
        /\ e.recheck = t.entries[p].recheck
    BY <2>1 DEF Entry
  <2>3. MarkClassified(t, p) = Update(t, p, e)
    BY <1>2 DEF MarkClassified
  <2> HIDE DEF e
  <2> QED BY <1>2, <2>2, <2>3, UpdateOK
<1> QED BY <1>1, <1>2

(* mark_classified_false: the flag and the applied action are reset.        *)
LEMMA MarkClassifiedFalseOK ==
  ASSUME NEW t, IsTable(t), NEW S
  PROVE  LET u == MarkClassifiedFalse(t, S) IN
         /\ IsTable(u)
         /\ Tracked(u) = Tracked(t)
         /\ \A q \in Tracked(t) : /\ u.entries[q].info = t.entries[q].info
                                  /\ u.entries[q].applied \in {t.entries[q].applied, None}
                                  /\ u.entries[q].orig = t.entries[q].orig
                                  /\ u.entries[q].recheck = t.entries[q].recheck
                                  /\ q \notin S => u.entries[q] = t.entries[q]
         /\ SameTree(t, u)
         /\ EdgeSound(t) => EdgeSound(u)
<1> DEFINE u == MarkClassifiedFalse(t, S)
           e(p) == IF p \in S THEN [t.entries[p] EXCEPT !.classified = FALSE,
                                                        !.applied = None]
                              ELSE t.entries[p]
<1>1. u = [t EXCEPT !.entries = [p \in Tracked(t) |-> e(p)]]
  BY DEF MarkClassifiedFalse
<1>2. \A p \in Tracked(t) : t.entries[p] \in Entry
  BY DEF IsTable, IsMap, Tracked
<1>3. \A p \in Tracked(t) : /\ e(p) \in Entry
                           /\ e(p).info = t.entries[p].info
                           /\ e(p).applied \in {t.entries[p].applied, None}
                           /\ e(p).orig = t.entries[p].orig
  BY <1>2 DEF Entry
<1>4. \A p \in Tracked(t) :
        e(p).recheck = t.entries[p].recheck /\ (p \notin S => e(p) = t.entries[p])
  BY <1>2 DEF Entry
<1> HIDE DEF e
<1>5. /\ u.entries = [p \in Tracked(t) |-> e(p)]
      /\ u.children = t.children
      /\ u = [entries |-> u.entries, children |-> u.children]
  <2> DEFINE f == [p \in Tracked(t) |-> e(p)]
  <2> HIDE DEF f
  <2>1. u = [t EXCEPT !.entries = f]
    BY <1>1 DEF f
  <2>2. u.entries = f /\ u.children = t.children
        /\ u = [entries |-> u.entries, children |-> u.children]
    BY <2>1 DEF IsTable
  <2> QED BY <2>2 DEF f
<1>6. IsMap(u.entries, Pid, Entry) /\ Tracked(u) = Tracked(t)
  BY <1>3, <1>5 DEF IsTable, IsMap, Tracked
<1>7. \A p \in Tracked(t) : u.entries[p] = e(p)
  BY <1>5
<1>8. IsTable(u)
  BY <1>5, <1>6 DEF IsTable
<1>9. EdgeSound(t) => EdgeSound(u)
  BY <1>3, <1>5, <1>6, <1>7 DEF EdgeSound
<1>10. SameTree(t, u)
  BY <1>3, <1>5, <1>6, <1>7 DEF SameTree
<1> HIDE DEF u
<1>11. \A q \in Tracked(t) : /\ u.entries[q].info = t.entries[q].info
                             /\ u.entries[q].applied \in {t.entries[q].applied, None}
                             /\ u.entries[q].orig = t.entries[q].orig
                             /\ u.entries[q].recheck = t.entries[q].recheck
                             /\ q \notin S => u.entries[q] = t.entries[q]
  <2> SUFFICES ASSUME NEW q \in Tracked(t)
               PROVE  <1>11!(q)
    OBVIOUS
  <2>1. u.entries[q] = e(q)
    BY <1>7
  <2>2. e(q).info = t.entries[q].info /\ e(q).applied \in {t.entries[q].applied, None}
    BY <1>3
  <2>3. e(q).orig = t.entries[q].orig
    BY <1>3
  <2>4. e(q).recheck = t.entries[q].recheck
    BY <1>4
  <2>5. q \notin S => e(q) = t.entries[q]
    BY <1>4
  <2> QED BY <2>1, <2>2, <2>3, <2>4, <2>5, Zenon
<1> QED BY <1>6, <1>8, <1>9, <1>10, <1>11 DEF u

(* set_original_cgroup: the first cgroup stays.                             *)
LEMMA SetOriginalOK ==
  ASSUME NEW t, IsTable(t), NEW p \in Pid, NEW g \in Group
  PROVE  LET u == SetOriginal(t, p, g) IN
         /\ IsTable(u)
         /\ Tracked(u) = Tracked(t)
         /\ \A q \in Tracked(t) :
              /\ u.entries[q].applied = t.entries[q].applied
              /\ t.entries[q].orig # None => u.entries[q].orig = t.entries[q].orig
         /\ p \in Tracked(t) => /\ u.entries[p].orig # None
                                /\ u.entries[p].orig \in {t.entries[p].orig, g}
         /\ \A q \in Tracked(t) \ {p} : u.entries[q] = t.entries[q]
         /\ SameTree(t, u)
         /\ EdgeSound(t) => EdgeSound(u)
<1> DEFINE e == [t.entries[p] EXCEPT !.orig = g]
<1>1. CASE ~(p \in Tracked(t) /\ t.entries[p].orig = None)
  BY <1>1 DEF SetOriginal, SameTree
<1>2. CASE p \in Tracked(t) /\ t.entries[p].orig = None
  <2>1. t.entries[p] \in Entry
    BY <1>2 DEF IsTable, IsMap, Tracked
  <2>2. /\ e \in Entry /\ e.info = t.entries[p].info
        /\ e.applied = t.entries[p].applied /\ e.orig = g /\ g # None
    BY <2>1, GroupAssumption DEF Entry
  <2>3. SetOriginal(t, p, g) = Update(t, p, e)
    BY <1>2 DEF SetOriginal
  <2> HIDE DEF e
  <2> QED BY <1>2, <2>2, <2>3, UpdateOK
<1> QED BY <1>1, <1>2

(* set_applied: the entry holds the action.                                 *)
LEMMA SetAppliedOK ==
  ASSUME NEW t, IsTable(t), NEW p \in Tracked(t), NEW a \in Action, NEW r \in BOOLEAN
  PROVE  LET u == SetApplied(t, p, a, r) IN
         /\ IsTable(u)
         /\ Tracked(u) = Tracked(t)
         /\ u.entries[p].applied = a
         /\ u.entries[p].orig = t.entries[p].orig
         /\ u.entries[p].classified
         /\ \A q \in Tracked(t) \ {p} : u.entries[q] = t.entries[q]
         /\ SameTree(t, u)
         /\ EdgeSound(t) => EdgeSound(u)
<1> DEFINE e == [t.entries[p] EXCEPT !.recheck = r, !.applied = a, !.classified = TRUE]
<1>1. t.entries[p] \in Entry
  BY DEF IsTable, IsMap, Tracked
<1>2. /\ e \in Entry /\ e.applied = a /\ e.classified
      /\ e.info = t.entries[p].info /\ e.orig = t.entries[p].orig
  BY <1>1 DEF Entry
<1>3. SetApplied(t, p, a, r) = Update(t, p, e)
  BY DEF SetApplied
<1> HIDE DEF e
<1> QED BY <1>2, <1>3, UpdateOK

(* merge_scan: what it listed and knew or read is tracked, what it did not  *)
(* list is not.                                                             *)
LEMMA MergeScanOK ==
  ASSUME NEW t, IsTable(t), NEW fresh, IsMap(fresh, Pid, Info),
         NEW live \in SUBSET Pid
  PROVE  LET u == MergeScan(t, fresh, live) IN
         /\ IsTable(u)
         /\ Tracked(u) = (Tracked(t) \cup DOMAIN fresh) \cap live
         /\ \A q \in Tracked(u) :
              IF q \in Tracked(t) THEN u.entries[q] = t.entries[q]
                                  ELSE /\ u.entries[q].info = fresh[q]
                                       /\ u.entries[q].applied = None
                                       /\ u.entries[q].orig = None
                                       /\ ~u.entries[q].recheck
                                       /\ ~u.entries[q].classified
         /\ \A q \in ParentPid :
              q \in live \/ q \notin Tracked(t) \cup DOMAIN fresh
                => /\ t.children[q] \cap live \subseteq u.children[q]
                   /\ \A c \in (DOMAIN fresh \cap live) \ Tracked(t) :
                        fresh[c].ppid = q => c \in u.children[q]
         /\ EdgeSound(t) => EdgeSound(u)
<1> DEFINE u    == MergeScan(t, fresh, live)
           new  == DOMAIN fresh \ Tracked(t)
           keep == (Tracked(t) \cup new) \cap live
           gone == (Tracked(t) \cup new) \ live
           entry(p) == IF p \in new THEN FreshEntry(fresh[p], None) ELSE t.entries[p]
<1>1. u = [entries  |-> [p \in keep |-> entry(p)],
           children |-> [q \in ParentPid |->
              IF q \in gone THEN {}
              ELSE (t.children[q] \cup {p \in new : fresh[p].ppid = q})
                     \ {p \in gone : entry(p).info.ppid = q}]]
  BY DEF MergeScan
<1>2. \A p \in Tracked(t) : t.entries[p] \in Entry
  BY DEF IsTable, IsMap, Tracked
<1>3. \A p \in new : FreshEntry(fresh[p], None) \in Entry
  BY FreshEntryType DEF IsMap
<1>4. \A p \in Tracked(t) \cup new : entry(p) \in Entry
  BY <1>2, <1>3
<1>5. /\ \A p \in new : /\ entry(p).info = fresh[p] /\ entry(p).applied = None
                         /\ entry(p).orig = None /\ ~entry(p).recheck
                         /\ ~entry(p).classified
      /\ \A p \in Tracked(t) : entry(p) = t.entries[p]
  BY DEF FreshEntry
<1>6. Tracked(t) \subseteq Pid /\ DOMAIN fresh \subseteq Pid
  BY DEF IsTable, IsMap, Tracked
<1> HIDE DEF entry
<1>7. IsMap(u.entries, Pid, Entry) /\ Tracked(u) = keep
  BY <1>1, <1>4, <1>6 DEF IsMap, Tracked
<1>8. \A q \in Tracked(u) : u.entries[q] = entry(q)
  BY <1>1, <1>7 DEF Tracked
<1>9. u.children \in [ParentPid -> SUBSET Pid]
  BY <1>1, <1>6 DEF IsTable
<1>10. IsTable(u)
  BY <1>1, <1>7, <1>9 DEF IsTable
<1>11. ASSUME EdgeSound(t) PROVE EdgeSound(u)
  <2> SUFFICES ASSUME NEW q \in ParentPid, NEW c \in u.children[q]
               PROVE  c \in Tracked(u) /\ u.entries[c].info.ppid = q
    BY DEF EdgeSound
  <2>1. /\ c \in t.children[q] \/ (c \in new /\ fresh[c].ppid = q)
        /\ ~(c \in gone /\ entry(c).info.ppid = q)
    BY <1>1
  <2>2. c \in Tracked(t) \cup new /\ entry(c).info.ppid = q
    BY <2>1, <1>5, <1>11 DEF EdgeSound
  <2> QED BY <2>1, <2>2, <1>7, <1>8
<1>12. ASSUME NEW q \in ParentPid, q \in live \/ q \notin Tracked(t) \cup DOMAIN fresh
       PROVE  /\ t.children[q] \cap live \subseteq u.children[q]
              /\ \A c \in (DOMAIN fresh \cap live) \ Tracked(t) :
                   fresh[c].ppid = q => c \in u.children[q]
  <2>1. u.children[q] = (t.children[q] \cup {p \in new : fresh[p].ppid = q})
                          \ {p \in gone : entry(p).info.ppid = q}
    BY <1>1, <1>12
  <2>2. gone \cap live = {}
    OBVIOUS
  <2> QED BY <2>1, <2>2
<1>13. \A p \in new : entry(p).info = fresh[p]
  BY <1>5
<1> QED BY <1>5, <1>7, <1>8, <1>10, <1>11, <1>12, <1>13

-----------------------------------------------------------------------------
(* The inductive invariant of the event loop.                               *)
Inv == TypeOK /\ EdgesSound /\ ManagedTracked

-----------------------------------------------------------------------------
(* The pieces that the handlers are made of.                                *)

(* What /proc says of a process is well-formed.                             *)
LEMMA ReadInfoType ==
  ASSUME proc \in [Pid -> Process], NEW p \in Pid
  PROVE  ReadInfo(p) \in Info
  BY DEF ReadInfo, Info, Process

(* A cgroup write leaves every process one.                                 *)
LEMMA AssignedType ==
  ASSUME NEW pr \in [Pid -> Process], dirs \subseteq Tier, NEW S, NEW tier
  PROVE  Assigned(pr, S, tier) \in [Pid -> Process]
<1>1. tier \in dirs => tier \in Group
  BY TierAssumption
<1> QED BY <1>1 DEF Assigned, Process

(* The first of a non-empty set of positions is one of them.                *)
LEMMA FirstIn ==
  ASSUME NEW S \in SUBSET Nat, S # {}
  PROVE  First(S) \in S /\ \A j \in S : First(S) <= j
  BY LeastIn DEF First

(* What classify() answers is an action, or None.                           *)
LEMMA ClassifyType ==
  ASSUME NEW rs, NEW who, NEW ancestors,
         DOMAIN rs \subseteq Nat, \A i \in DOMAIN rs : rs[i].action \in Action
  PROVE  /\ Classify(rs, who, ancestors) \in Action \cup {None}
         /\ UsedRules(rs, who, ancestors) # {} => RulesAction(rs, who, ancestors) \in Action
<1> DEFINE used     == UsedRules(rs, who, ancestors)
           opt(i)   == Censored(rs[i].action.opt, who, ancestors)
           set(f)   == {i \in used : opt(i)[f] # None}
           field(f) == IF set(f) = {} THEN None ELSE opt(First(set(f)))[f]
<1>1. used \subseteq DOMAIN rs
  BY DEF UsedRules
<1>2. \A i \in used : opt(i) \in [Field -> Value \cup {None}]
  <2> SUFFICES ASSUME NEW i \in used PROVE opt(i) \in [Field -> Value \cup {None}]
    OBVIOUS
  <2>1. rs[i].action.opt \in [Field -> Value \cup {None}]
    BY <1>1 DEF Action
  <2> QED BY <2>1 DEF Censored
<1>3. \A f \in Field : field(f) \in Value \cup {None}
  <2> SUFFICES ASSUME NEW f \in Field, set(f) # {} PROVE field(f) \in Value \cup {None}
    OBVIOUS
  <2>1. First(set(f)) \in set(f)
    BY <1>1, FirstIn
  <2> QED BY <2>1, <1>2
<1>4. used # {} => [rs[First(used)].action EXCEPT !.opt = [f \in Field |-> field(f)]] \in Action
  <2> SUFFICES ASSUME used # {}
               PROVE  [rs[First(used)].action EXCEPT !.opt = [f \in Field |-> field(f)]] \in Action
    OBVIOUS
  <2>1. First(used) \in DOMAIN rs
    BY <1>1, FirstIn
  <2>2. rs[First(used)].action \in Action
    BY <2>1
  <2>3. [f \in Field |-> field(f)] \in [Field -> Value \cup {None}]
    BY <1>3
  <2> HIDE DEF field, used
  <2> QED BY <2>2, <2>3 DEF Action
<1>5. RulesAction(rs, who, ancestors) =
        IF used = {} THEN None
        ELSE [rs[First(used)].action EXCEPT !.opt = [f \in Field |-> field(f)]]
  BY DEF RulesAction
<1>6. /\ RulesAction(rs, who, ancestors) \in Action \cup {None}
      /\ used # {} => RulesAction(rs, who, ancestors) \in Action
  <2> HIDE DEF used, field
  <2> QED BY <1>4, <1>5
<1> QED BY <1>6 DEF Classify

(* The verdict on a process is an action or none.                           *)
LEMMA VerdictType ==
  ASSUME rules \in RuleSets, NEW t, NEW p
  PROVE  Verdict(t, p) \in Action \cup {None}
<1>1. DOMAIN rules \subseteq Nat /\ \A i \in DOMAIN rules : rules[i].action \in Action
  BY RuleSetsAssumption
<1> QED BY <1>1, ClassifyType DEF Verdict

(* An event that is taken is well-formed, and the rest of the channel too.  *)
LEMMA TakeType ==
  ASSUME TypeOK, NEW type, Take(type)
  PROVE  /\ Front \in Event /\ Front.type = type
         /\ queue' \in Seq(Event)
         /\ status = "running" /\ todo.kind = "idle"
<1>1. queue \in Seq(Event) /\ queue # <<>>
  BY DEF TypeOK, Take, Waiting
<1>2. Head(queue) \in Event /\ Tail(queue) \in Seq(Event)
  BY <1>1, HeadTailProperties
<1> QED BY <1>2 DEF Take, Front, Waiting

(* The fields that the events of each type carry.                           *)
LEMMA EventFields ==
  ASSUME NEW e \in Event
  PROVE  /\ e.type \in {"Fork", "Exec", "Comm", "Exit", "Foreground", "Place"} => e.pid \in Pid
         /\ e.type = "Fork" => e.parent \in Pid
         /\ e.type = "Pressure" => e.level \in Level
  BY DEF Event

-----------------------------------------------------------------------------
(* The managed map and the table change together.                           *)

(* A table that tracks no less, with the same actions or fewer, is shown by *)
(* the same map.                                                            *)
LEMMA ShowsLess ==
  ASSUME NEW m, NEW t, NEW u, Shows(m, t), Tracked(t) \subseteq Tracked(u),
         \A q \in Tracked(u) : IF q \in Tracked(t)
                               THEN u.entries[q].applied \in {t.entries[q].applied, None}
                               ELSE u.entries[q].applied = None
  PROVE  Shows(m, u)
  BY DEF Shows

(* Both forget a process.                                                   *)
LEMMA ShowsForget ==
  ASSUME NEW t, NEW p, IsTable(t), p \in Pid, Shows(managed, t)
  PROVE  Shows(Forget(p), Remove(t, p))
<1> DEFINE u == Remove(t, p)
           m == Forget(p)
<1>1. Tracked(u) = Tracked(t) \ {p} /\ \A q \in Tracked(u) : u.entries[q] = t.entries[q]
  BY RemoveOK
<1>2. DOMAIN m = DOMAIN managed \ {p} /\ \A q \in DOMAIN m : m[q] = managed[q]
  BY DEF Forget
<1> HIDE DEF u, m
<1>3. DOMAIN m \subseteq Tracked(u)
  BY <1>1, <1>2 DEF Shows
<1>4. ASSUME NEW q \in Tracked(u), u.entries[q].applied # None
      PROVE  /\ q \in DOMAIN m
             /\ m[q].rule = u.entries[q].applied.rule
             /\ u.entries[q].applied.opt.cgroup # None
                  => m[q].cgroup = u.entries[q].applied.opt.cgroup
  <2>1. q \in Tracked(t) /\ q # p /\ u.entries[q] = t.entries[q]
    BY <1>1
  <2>2. q \in DOMAIN m /\ m[q] = managed[q]
    BY <1>2, <1>4, <2>1 DEF Shows
  <2> QED BY <1>4, <2>1, <2>2 DEF Shows
<1>5. Shows(m, u)
  BY <1>3, <1>4 DEF Shows
<1> QED BY <1>5 DEF u, m

(* classify_and_apply from a table that tracks p and that the managed map   *)
(* shows: everything keeps its type, the table tracks the same processes,   *)
(* its edges stay sound and the map shows the new table.                    *)
LEMMA ClassifyAndApplyOK ==
  ASSUME TypeOK, NEW t, IsTable(t), NEW p \in Tracked(t), ClassifyAndApply(t, p)
  PROVE  /\ proc' \in [Pid -> Process]
         /\ IsTable(table')
         /\ IsMap(managed', Pid, Managed)
         /\ Tracked(table') = Tracked(t)
         /\ EdgeSound(t) => EdgeSound(table')
         /\ Shows(managed, t) => Shows(managed', table')
<1>1. Verdict(t, p) \in Action \cup {None}
  BY VerdictType DEF TypeOK
<1>2. p \in Pid
  BY DEF IsTable, IsMap, Tracked
<1>3. CASE Verdict(t, p) = None
  <2>1. table' = MarkClassified(t, p) /\ proc' = proc /\ managed' = managed
    BY <1>3 DEF ClassifyAndApply
  <2>2. /\ IsTable(table') /\ Tracked(table') = Tracked(t)
        /\ EdgeSound(t) => EdgeSound(table')
        /\ \A q \in Tracked(t) : table'.entries[q].applied = t.entries[q].applied
    BY <1>2, <2>1, MarkClassifiedOK
  <2>3. Shows(managed, t) => Shows(managed', table')
    BY <2>1, <2>2, ShowsLess
  <2> QED BY <2>1, <2>2, <2>3 DEF TypeOK
<1>4. CASE Verdict(t, p) # None
  <2> DEFINE a == Verdict(t, p)
             moves == a.opt.cgroup # None
             kids  == IF a.children THEN ChildrenOf(t, p) \cap Tracked(t) ELSE {}
             u == IF moves /\ Exists(p) THEN SetOriginal(t, p, proc[p].cg) ELSE t
             rechecks == a.opt.recheck_secs # None
             shown == [comm   |-> t.entries[p].info.comm,
                       cgroup |-> IF moves THEN a.opt.cgroup ELSE "system",
                       rule   |-> a.rule]
  <2>1. /\ table' = SetApplied(u, p, a, rechecks)
        /\ proc' = IF moves THEN Assigned(proc, {p} \cup kids, a.opt.cgroup) ELSE proc
        /\ managed' = Put(managed, p, shown)
    BY <1>4 DEF ClassifyAndApply
  <2>2. a \in Action /\ rechecks \in BOOLEAN
    BY <1>1, <1>4
  <2>3. shown \in Managed /\ shown.rule = a.rule /\ (moves => shown.cgroup = a.opt.cgroup)
    <3>1. a.opt.cgroup \in Value \cup {None} /\ a.rule \in RuleName
      BY <2>2 DEF Action, Field
    <3>2. t.entries[p].info.comm \in Comm
      BY DEF IsTable, IsMap, Tracked, Entry, Info
    <3> QED BY <3>1, <3>2 DEF Managed
  <2>4. proc[p].cg \in Group
    BY <1>2 DEF TypeOK, Process
  <2> HIDE DEF a, kids, rechecks, shown
  <2>5. /\ IsTable(u) /\ Tracked(u) = Tracked(t)
        /\ EdgeSound(t) => EdgeSound(u)
        /\ \A q \in Tracked(t) : u.entries[q].applied = t.entries[q].applied
    BY <1>2, <2>4, SetOriginalOK
  <2> HIDE DEF u
  <2>6. /\ IsTable(table') /\ Tracked(table') = Tracked(t)
        /\ table'.entries[p].applied = a
        /\ \A q \in Tracked(t) \ {p} : table'.entries[q] = u.entries[q]
        /\ EdgeSound(u) => EdgeSound(table')
    BY <2>1, <2>2, <2>5, SetAppliedOK
  <2>7. proc' \in [Pid -> Process]
    BY <2>1, AssignedType DEF TypeOK
  <2>8. /\ IsMap(managed', Pid, Managed)
        /\ DOMAIN managed' = DOMAIN managed \cup {p}
        /\ managed'[p] = shown
        /\ \A q \in DOMAIN managed \ {p} : managed'[q] = managed[q]
    <3>1. IsMap(managed, Pid, Managed)
      BY DEF TypeOK
    <3> QED BY <1>2, <2>1, <2>3, <3>1, PutType
  <2>9. ASSUME Shows(managed, t) PROVE Shows(managed', table')
    <3>1. DOMAIN managed' \subseteq Tracked(table')
      BY <2>6, <2>8, <2>9 DEF Shows
    <3>2. ASSUME NEW q \in Tracked(table'), table'.entries[q].applied # None
          PROVE  /\ q \in DOMAIN managed'
                 /\ managed'[q].rule = table'.entries[q].applied.rule
                 /\ table'.entries[q].applied.opt.cgroup # None
                      => managed'[q].cgroup = table'.entries[q].applied.opt.cgroup
      <4>1. CASE q = p
        BY <4>1, <2>3, <2>6, <2>8
      <4>2. CASE q # p
        <5>1. table'.entries[q].applied = t.entries[q].applied /\ q \in Tracked(t)
          BY <4>2, <2>5, <2>6
        <5>2. q \in DOMAIN managed /\ managed'[q] = managed[q]
          BY <3>2, <4>2, <5>1, <2>8, <2>9 DEF Shows
        <5> QED BY <3>2, <5>1, <5>2, <2>8, <2>9 DEF Shows
      <4> QED BY <4>1, <4>2
    <3> QED BY <3>1, <3>2 DEF Shows
  <2> QED BY <2>5, <2>6, <2>7, <2>8, <2>9
<1> QED BY <1>3, <1>4

(* A process that is read from /proc and inserted is shown as before.       *)
LEMMA InsertRead ==
  ASSUME TypeOK, NEW p \in Pid
  PROVE  LET u == Insert(table, p, ReadInfo(p)) IN
         /\ IsTable(u)
         /\ Tracked(u) = Tracked(table) \cup {p}
         /\ EdgesSound => EdgeSound(u)
         /\ ManagedTracked => Shows(managed, u)
<1> DEFINE u == Insert(table, p, ReadInfo(p))
<1>1. IsTable(table) /\ ReadInfo(p) \in Info
  BY ReadInfoType DEF TypeOK
<1>2. /\ IsTable(u) /\ Tracked(u) = Tracked(table) \cup {p}
      /\ u.entries[p].applied = None
      /\ \A q \in Tracked(table) \ {p} : u.entries[q] = table.entries[q]
      /\ EdgeSound(table) => EdgeSound(u)
  BY <1>1, InsertOK
<1> HIDE DEF u
<1>3. ManagedTracked => Shows(managed, u)
  BY <1>2, ShowsLess DEF ManagedTracked
<1> QED BY <1>2, <1>3 DEF EdgesSound, u

(* A fork is noted in the table with no action.                             *)
LEMMA NoteForkOK ==
  ASSUME TypeOK, NEW pr \in [Pid -> Process], Front.pid \in Pid
  PROVE  LET u == NoteFork(table, pr) IN
         /\ IsTable(u)
         /\ EdgesSound => EdgeSound(u)
         /\ ManagedTracked => Shows(managed, u)
<1> DEFINE c    == Front.pid
           info == [ppid |-> pr[c].ppid, comm |-> pr[c].comm, path |-> pr[c].cg]
           t    == Insert(table, c, info)
           u    == MarkClassified(t, c)
<1>1. IsTable(table) /\ info \in Info
  BY DEF TypeOK, Info, Process
<1> HIDE DEF info
<1>2. /\ IsTable(t) /\ Tracked(t) = Tracked(table) \cup {c}
      /\ t.entries[c].applied = None
      /\ \A q \in Tracked(table) \ {c} : t.entries[q] = table.entries[q]
      /\ EdgeSound(table) => EdgeSound(t)
  BY <1>1, InsertOK
<1> HIDE DEF t
<1>3. /\ IsTable(u) /\ Tracked(u) = Tracked(t)
      /\ \A q \in Tracked(t) : u.entries[q].applied = t.entries[q].applied
      /\ EdgeSound(t) => EdgeSound(u)
  BY <1>2, MarkClassifiedOK
<1> HIDE DEF u
<1>4. ManagedTracked => Shows(managed, u)
  BY <1>2, <1>3, ShowsLess DEF ManagedTracked
<1>5. NoteFork(table, pr) = IF pr[c].st = "none" THEN table ELSE u
  BY DEF NoteFork, u, t, info
<1> QED BY <1>1, <1>2, <1>3, <1>4, <1>5 DEF EdgesSound, ManagedTracked

(* A loop over processes that has done one of them goes on with the others. *)
LEMMA DoneType ==
  ASSUME TypeOK, NEW p, p \in todo.pids
  PROVE  /\ Done(p) \in Todo
         /\ Done(p).pids \subseteq todo.pids \ {p}
         /\ Done(p).kind \in {"idle", todo.kind}
  BY DEF TypeOK, Todo, Done, IdleTodo

-----------------------------------------------------------------------------
(* The events of processes.                                                 *)

LEMMA EndGraceInv ==
  ASSUME Inv, EndGrace PROVE Inv'
  BY DEF Inv, EndGrace, Waiting, TypeOK, EdgesSound, ManagedTracked, Todo

LEMMA OnForkInv ==
  ASSUME Inv, OnFork PROVE Inv'
<1>1. TypeOK /\ EdgesSound /\ ManagedTracked
  BY DEF Inv
<1>2. queue' \in Seq(Event) /\ status = "running" /\ todo.kind = "idle" /\ Front.pid \in Pid
  BY <1>1, TakeType, EventFields DEF OnFork
<1>3. IsTable(table') /\ EdgesSound' /\ ManagedTracked'
  BY <1>1, <1>2, NoteForkOK DEF OnFork, TypeOK, EdgesSound, ManagedTracked
<1>4. TypeOK'
  BY <1>1, <1>2, <1>3 DEF OnFork, TypeOK
<1> QED BY <1>3, <1>4 DEF Inv

LEMMA OnForkBombInv ==
  ASSUME Inv, OnForkBomb PROVE Inv'
<1>1. TypeOK /\ EdgesSound /\ ManagedTracked
  BY DEF Inv
<1>2. /\ queue' \in Seq(Event) /\ status = "running" /\ todo.kind = "idle"
      /\ Front.pid \in Pid /\ Front.parent \in Pid
  BY <1>1, TakeType, EventFields DEF OnForkBomb
<1>3. proc' \in [Pid -> Process]
  BY <1>1, AssignedType DEF OnForkBomb, TypeOK
<1>4. IsTable(table') /\ EdgesSound' /\ ManagedTracked'
  BY <1>1, <1>2, <1>3, NoteForkOK DEF OnForkBomb, TypeOK, EdgesSound, ManagedTracked
<1>5. TypeOK'
  BY <1>1, <1>2, <1>3, <1>4 DEF OnForkBomb, TypeOK
<1> QED BY <1>4, <1>5 DEF Inv

LEMMA OnExecInv ==
  ASSUME Inv, OnExec PROVE Inv'
<1>1. TypeOK /\ EdgesSound /\ ManagedTracked
  BY DEF Inv
<1>2. queue' \in Seq(Event) /\ status = "running" /\ todo.kind = "idle" /\ Front.pid \in Pid
  BY <1>1, TakeType, EventFields DEF OnExec
<1> DEFINE p == Front.pid
           u == Insert(table, p, ReadInfo(p))
<1>3. /\ IsTable(u) /\ p \in Tracked(u) /\ EdgeSound(u) /\ Shows(managed, u)
  BY <1>1, <1>2, InsertRead
<1>4. /\ proc' \in [Pid -> Process] /\ IsTable(table') /\ IsMap(managed', Pid, Managed)
      /\ EdgesSound' /\ ManagedTracked'
  <2>1. CASE ~Exists(p)
    BY <1>1, <2>1 DEF OnExec, TypeOK, EdgesSound, ManagedTracked
  <2>2. CASE Exists(p) /\ startup
    <3>1. table' = MarkClassified(u, p) /\ proc' = proc /\ managed' = managed
      BY <2>2 DEF OnExec
    <3> HIDE DEF u
    <3>2. /\ IsTable(table') /\ Tracked(table') = Tracked(u)
          /\ \A q \in Tracked(u) : table'.entries[q].applied = u.entries[q].applied
          /\ EdgeSound(table')
      BY <1>2, <1>3, <3>1, MarkClassifiedOK
    <3>3. Shows(managed', table')
      BY <1>3, <3>1, <3>2, ShowsLess
    <3> QED BY <1>1, <3>1, <3>2, <3>3 DEF TypeOK, EdgesSound, ManagedTracked
  <2>3. CASE Exists(p) /\ ~startup
    <3>1. ClassifyAndApply(u, p)
      BY <2>3 DEF OnExec
    <3> HIDE DEF u
    <3> QED BY <1>1, <1>3, <3>1, ClassifyAndApplyOK DEF EdgesSound, ManagedTracked
  <2> QED BY <2>1, <2>2, <2>3
<1>5. TypeOK'
  BY <1>1, <1>2, <1>4 DEF OnExec, TypeOK
<1> QED BY <1>4, <1>5 DEF Inv

LEMMA OnCommInv ==
  ASSUME Inv, OnComm PROVE Inv'
<1>1. TypeOK /\ EdgesSound /\ ManagedTracked
  BY DEF Inv
<1>2. queue' \in Seq(Event) /\ status = "running" /\ todo.kind = "idle" /\ Front.pid \in Pid
  BY <1>1, TakeType, EventFields DEF OnComm
<1> DEFINE p    == Front.pid
           u    == Insert(table, p, ReadInfo(p))
           done == p \in Tracked(table) /\ table.entries[p].classified
<1>3. /\ IsTable(u) /\ p \in Tracked(u) /\ EdgeSound(u) /\ Shows(managed, u)
  BY <1>1, <1>2, InsertRead
<1>4. /\ proc' \in [Pid -> Process] /\ IsTable(table') /\ IsMap(managed', Pid, Managed)
      /\ EdgesSound' /\ ManagedTracked'
  <2>1. CASE startup \/ done \/ ~Exists(p)
    <3>1. UNCHANGED <<proc, table, managed>>
      BY <2>1 DEF OnComm
    <3> QED BY <1>1, <3>1 DEF TypeOK, EdgesSound, ManagedTracked
  <2>2. CASE ~(startup \/ done \/ ~Exists(p))
    <3>1. ClassifyAndApply(u, p)
      BY <2>2 DEF OnComm
    <3> HIDE DEF u
    <3> QED BY <1>1, <1>3, <3>1, ClassifyAndApplyOK DEF EdgesSound, ManagedTracked
  <2> QED BY <2>1, <2>2
<1>5. TypeOK'
  BY <1>1, <1>2, <1>4 DEF OnComm, TypeOK
<1> QED BY <1>4, <1>5 DEF Inv

LEMMA OnExitInv ==
  ASSUME Inv, OnExit PROVE Inv'
<1>1. TypeOK /\ EdgesSound /\ ManagedTracked
  BY DEF Inv
<1>2. queue' \in Seq(Event) /\ status = "running" /\ todo.kind = "idle" /\ Front.pid \in Pid
  BY <1>1, TakeType, EventFields DEF OnExit
<1>3. IsTable(table)
  BY <1>1 DEF TypeOK
<1>4. table' = Remove(table, Front.pid) /\ managed' = Forget(Front.pid)
  BY DEF OnExit
<1>5. IsTable(table') /\ EdgesSound'
  BY <1>1, <1>2, <1>3, <1>4, RemoveOK DEF EdgesSound
<1>6. ManagedTracked'
  BY <1>1, <1>2, <1>3, <1>4, ShowsForget DEF ManagedTracked
<1>7. IsMap(managed', Pid, Managed)
  BY <1>1, <1>4 DEF Forget, TypeOK, IsMap
<1>8. TypeOK'
  BY <1>1, <1>2, <1>5, <1>7 DEF OnExit, TypeOK
<1> QED BY <1>5, <1>6, <1>8 DEF Inv

-----------------------------------------------------------------------------
(* The full scan and the rechecks.                                          *)

LEMMA ScanListInv ==
  ASSUME Inv, OnRescan \/ ScanList PROVE Inv'
<1>1. TypeOK /\ EdgesSound /\ ManagedTracked
  BY DEF Inv
<1>2. CASE OnRescan
  <2>1. queue' \in Seq(Event) /\ status = "running"
    BY <1>1, <1>2, TakeType DEF OnRescan
  <2>2. TypeOK'
    BY <1>1, <1>2, <2>1 DEF OnRescan, TypeOK, Todo
  <2> QED BY <1>1, <1>2, <2>2 DEF OnRescan, Inv, EdgesSound, ManagedTracked
<1>3. CASE ScanList
  <2>1. TypeOK'
    BY <1>1, <1>3 DEF ScanList, TypeOK, Todo
  <2> QED BY <1>1, <1>3, <2>1 DEF ScanList, Inv, EdgesSound, ManagedTracked
<1> QED BY <1>2, <1>3

LEMMA ScanReadInv ==
  ASSUME Inv, ScanRead PROVE Inv'
<1>1. TypeOK /\ EdgesSound /\ ManagedTracked
  BY DEF Inv
<1> DEFINE live  == todo.pids
           new   == {p \in live \ Tracked(table) : Exists(p)}
           fresh == [p \in new |-> ReadInfo(p)]
<1>2. /\ table' = MergeScan(table, fresh, live)
      /\ managed' = [p \in DOMAIN managed \cap live |-> managed[p]]
  BY DEF ScanRead
<1>3. live \in SUBSET Pid /\ IsTable(table)
  BY <1>1 DEF TypeOK, Todo
<1>4. IsMap(fresh, Pid, Info)
  BY <1>1, <1>3, ReadInfoType DEF IsMap, TypeOK
<1> HIDE DEF live, fresh
<1>5. /\ IsTable(table')
      /\ Tracked(table') = (Tracked(table) \cup DOMAIN fresh) \cap live
      /\ \A q \in Tracked(table') :
           IF q \in Tracked(table) THEN table'.entries[q] = table.entries[q]
                                   ELSE table'.entries[q].applied = None
      /\ EdgesSound'
  BY <1>1, <1>2, <1>3, <1>4, MergeScanOK DEF EdgesSound
<1>6. IsMap(managed', Pid, Managed)
  BY <1>1, <1>2 DEF TypeOK, IsMap
<1>7. ManagedTracked'
  <2>1. DOMAIN managed' \subseteq Tracked(table')
    BY <1>1, <1>2, <1>5 DEF ManagedTracked, Shows
  <2>2. ASSUME NEW q \in Tracked(table'), table'.entries[q].applied # None
        PROVE  /\ q \in DOMAIN managed'
               /\ managed'[q].rule = table'.entries[q].applied.rule
               /\ table'.entries[q].applied.opt.cgroup # None
                    => managed'[q].cgroup = table'.entries[q].applied.opt.cgroup
    <3>1. q \in Tracked(table) /\ q \in live /\ table'.entries[q] = table.entries[q]
      BY <1>5, <2>2
    <3>2. q \in DOMAIN managed' /\ managed'[q] = managed[q]
      BY <1>1, <1>2, <2>2, <3>1 DEF ManagedTracked, Shows
    <3> QED BY <1>1, <2>2, <3>1, <3>2 DEF ManagedTracked, Shows
  <2> QED BY <2>1, <2>2 DEF ManagedTracked, Shows
<1>8. /\ todo' \in Todo /\ status = "running"
      /\ todo'.kind \in {"classify", "recheck", "restore"} => todo'.pids \subseteq Tracked(table')
  <2>1. Unclassified(table') \subseteq Tracked(table') /\ Tracked(table') \subseteq Pid
    BY <1>5 DEF Unclassified, IsTable, IsMap, Tracked
  <2> QED BY <2>1 DEF ScanRead, Todo, IdleTodo
<1>9. TypeOK'
  BY <1>1, <1>5, <1>6, <1>8 DEF ScanRead, TypeOK
<1> QED BY <1>5, <1>7, <1>9 DEF Inv

LEMMA ScanClassifyInv ==
  ASSUME Inv, NEW p \in Pid, ScanClassify(p) PROVE Inv'
<1>1. TypeOK /\ EdgesSound /\ ManagedTracked
  BY DEF Inv
<1>2. IsTable(table) /\ p \in Tracked(table) /\ p \in todo.pids /\ status = "running"
      /\ todo.kind = "classify"
  BY <1>1 DEF ScanClassify, TypeOK
<1>3. /\ proc' \in [Pid -> Process] /\ IsTable(table') /\ IsMap(managed', Pid, Managed)
      /\ Tracked(table') = Tracked(table) /\ EdgesSound' /\ ManagedTracked'
  BY <1>1, <1>2, ClassifyAndApplyOK DEF ScanClassify, EdgesSound, ManagedTracked
<1>4. todo' \in Todo /\ todo'.pids \subseteq todo.pids
  BY <1>1, <1>2, DoneType DEF ScanClassify
<1>5. TypeOK'
  BY <1>1, <1>2, <1>3, <1>4 DEF ScanClassify, TypeOK
<1> QED BY <1>3, <1>5 DEF Inv

LEMMA OnRecheckInv ==
  ASSUME Inv, OnRecheck PROVE Inv'
<1>1. TypeOK /\ EdgesSound /\ ManagedTracked
  BY DEF Inv
<1>2. queue' \in Seq(Event) /\ status = "running"
  BY <1>1, TakeType DEF OnRecheck
<1>3. Tracked(table) \subseteq Pid
  BY <1>1 DEF TypeOK, IsTable, IsMap, Tracked
<1>4. PICK due \in SUBSET Tracked(table) :
        todo' = IF due = {} THEN IdleTodo ELSE [kind |-> "recheck", pids |-> due]
  BY DEF OnRecheck
<1>5. todo' \in Todo /\ todo'.pids \subseteq Tracked(table)
  BY <1>3, <1>4 DEF Todo, IdleTodo
<1>6. TypeOK'
  BY <1>1, <1>2, <1>5 DEF OnRecheck, TypeOK
<1> QED BY <1>1, <1>6 DEF OnRecheck, Inv, EdgesSound, ManagedTracked

LEMMA RecheckInv ==
  ASSUME Inv, NEW p \in Pid, Recheck(p) PROVE Inv'
<1>1. TypeOK /\ EdgesSound /\ ManagedTracked
  BY DEF Inv
<1>2. /\ IsTable(table) /\ p \in todo.pids /\ todo.pids \subseteq Tracked(table)
      /\ status = "running" /\ todo.kind = "recheck"
  BY <1>1 DEF Recheck, TypeOK
<1>3. todo' \in Todo /\ todo'.pids \subseteq todo.pids \ {p}
  BY <1>1, <1>2, DoneType DEF Recheck
<1> DEFINE u == Insert(table, p, ReadInfo(p))
<1>4. /\ proc' \in [Pid -> Process] /\ IsTable(table') /\ IsMap(managed', Pid, Managed)
      /\ Tracked(table) \ {p} \subseteq Tracked(table') /\ EdgesSound' /\ ManagedTracked'
  <2>1. CASE p \in foreground
    BY <1>1, <2>1 DEF Recheck, TypeOK, EdgesSound, ManagedTracked
  <2>2. CASE p \notin foreground /\ Exists(p)
    <3>1. ClassifyAndApply(u, p)
      BY <2>2 DEF Recheck
    <3>2. /\ IsTable(u) /\ Tracked(u) = Tracked(table) \cup {p}
          /\ EdgeSound(u) /\ Shows(managed, u)
      BY <1>1, InsertRead
    <3> HIDE DEF u
    <3> QED BY <1>1, <3>1, <3>2, ClassifyAndApplyOK DEF EdgesSound, ManagedTracked
  <2>3. CASE p \notin foreground /\ ~Exists(p)
    <3>1. table' = Remove(table, p) /\ managed' = Forget(p) /\ proc' = proc
      BY <2>3 DEF Recheck
    <3>2. IsTable(table') /\ EdgesSound' /\ Tracked(table') = Tracked(table) \ {p}
      BY <1>1, <1>2, <3>1, RemoveOK DEF EdgesSound
    <3>3. ManagedTracked'
      BY <1>1, <1>2, <3>1, ShowsForget DEF ManagedTracked
    <3>4. IsMap(managed', Pid, Managed)
      BY <1>1, <3>1 DEF Forget, TypeOK, IsMap
    <3> QED BY <1>1, <3>1, <3>2, <3>3, <3>4 DEF TypeOK
  <2> QED BY <2>1, <2>2, <2>3
<1>5. todo'.pids \subseteq Tracked(table')
  BY <1>2, <1>3, <1>4
<1>6. TypeOK'
  BY <1>1, <1>2, <1>3, <1>4, <1>5 DEF Recheck, TypeOK
<1> QED BY <1>4, <1>6 DEF Inv

-----------------------------------------------------------------------------
(* Control requests, timers, and shutdown.                                  *)

LEMMA OnForegroundInv ==
  ASSUME Inv, OnForeground PROVE Inv'
<1>1. TypeOK /\ EdgesSound /\ ManagedTracked
  BY DEF Inv
<1>2. queue' \in Seq(Event) /\ status = "running" /\ todo.kind = "idle"
  BY <1>1, TakeType DEF OnForeground
<1>3. Tracked(table) \subseteq Pid
  BY <1>1 DEF TypeOK, IsTable, IsMap, Tracked
<1>4. PICK new \in SUBSET Pid :
        /\ status' \in {"running", "hung"}
        /\ foreground' = IF new = {} THEN foreground ELSE new
        /\ proc' = IF new = {} THEN proc
                   ELSE Assigned(Assigned(proc, foreground \ new, "system"),
                                 new, "interactive")
  <2> DEFINE hint    == Front.pid
             ignored == startup \/ IsSessionRoot(table, hint)
             hangs   == ~ignored /\ ~WalkEnds(table, hint)
             new     == IF ignored \/ hangs THEN {} ELSE Boosted(table, hint)
  <2>1. new \in SUBSET Pid
    BY <1>3 DEF Boosted
  <2>2. /\ status' \in {"running", "hung"}
        /\ foreground' = IF new = {} THEN foreground ELSE new
        /\ proc' = IF new = {} THEN proc
                   ELSE Assigned(Assigned(proc, foreground \ new, "system"),
                                 new, "interactive")
    BY <1>2 DEF OnForeground
  <2> HIDE DEF new
  <2> QED BY <2>1, <2>2
<1>5. proc' \in [Pid -> Process]
  <2>1. proc \in [Pid -> Process] /\ dirs \subseteq Tier
    BY <1>1 DEF TypeOK
  <2>2. Assigned(proc, foreground \ new, "system") \in [Pid -> Process]
    BY <2>1, AssignedType
  <2> QED BY <1>4, <2>1, <2>2, AssignedType
<1>6. UNCHANGED <<table, managed, rules, startup, throttled, mode, dirs, gcLeft, todo>>
  BY DEF OnForeground
<1>7. TypeOK'
  BY <1>1, <1>2, <1>4, <1>5, <1>6 DEF TypeOK
<1> QED BY <1>1, <1>6, <1>7 DEF Inv, EdgesSound, ManagedTracked

LEMMA OnPlaceInv ==
  ASSUME Inv, OnPlace PROVE Inv'
<1>1. TypeOK /\ EdgesSound /\ ManagedTracked
  BY DEF Inv
<1>2. queue' \in Seq(Event)
  BY <1>1, TakeType DEF OnPlace
<1>3. proc' \in [Pid -> Process]
  BY <1>1, AssignedType DEF OnPlace, TypeOK
<1>4. TypeOK'
  BY <1>1, <1>2, <1>3 DEF OnPlace, TypeOK
<1> QED BY <1>1, <1>4 DEF OnPlace, Inv, EdgesSound, ManagedTracked

LEMMA OnReloadInv ==
  ASSUME Inv, OnReload PROVE Inv'
<1>1. TypeOK /\ EdgesSound /\ ManagedTracked
  BY DEF Inv
<1>2. queue' \in Seq(Event)
  BY <1>1, TakeType DEF OnReload
<1>3. TypeOK'
  BY <1>1, <1>2 DEF OnReload, TypeOK
<1> QED BY <1>1, <1>3 DEF OnReload, Inv, EdgesSound, ManagedTracked

LEMMA OnPressureInv ==
  ASSUME Inv, OnPressure PROVE Inv'
<1>1. TypeOK /\ EdgesSound /\ ManagedTracked
  BY DEF Inv
<1>2. /\ queue' \in Seq(Event) /\ status = "running" /\ todo.kind = "idle"
      /\ Front.level \in Level
  BY <1>1, TakeType, EventFields DEF OnPressure
<1>3. proc' \in [Pid -> Process]
  BY <1>1, AssignedType DEF OnPressure, TypeOK
<1>4. IsTable(table') /\ EdgesSound' /\ ManagedTracked'
  <2> DEFINE u == MarkClassifiedFalse(table, In("swapstorm"))
  <2>1. table' \in {table, u} /\ managed' = managed /\ IsTable(table)
    BY <1>1 DEF OnPressure, TypeOK
  <2>2. /\ IsTable(u) /\ Tracked(u) = Tracked(table)
        /\ \A q \in Tracked(table) : u.entries[q].applied \in {table.entries[q].applied, None}
        /\ EdgeSound(table) => EdgeSound(u)
    BY <2>1, MarkClassifiedFalseOK
  <2> HIDE DEF u
  <2>3. Shows(managed, u)
    BY <1>1, <2>2, ShowsLess DEF ManagedTracked
  <2> QED BY <1>1, <2>1, <2>2, <2>3 DEF EdgesSound, ManagedTracked
<1>5. TypeOK'
  BY <1>1, <1>2, <1>3, <1>4 DEF OnPressure, TypeOK
<1> QED BY <1>4, <1>5 DEF Inv

LEMMA GcInv ==
  ASSUME Inv, OnGc \/ GcTier PROVE Inv'
<1>1. TypeOK /\ EdgesSound /\ ManagedTracked
  BY DEF Inv
<1>2. CASE OnGc
  <2>1. queue' \in Seq(Event)
    BY <1>1, <1>2, TakeType DEF OnGc
  <2>2. TypeOK'
    BY <1>1, <1>2, <2>1 DEF OnGc, TypeOK
  <2> QED BY <1>1, <1>2, <2>2 DEF OnGc, Inv, EdgesSound, ManagedTracked
<1>3. CASE GcTier
  <2>1. TypeOK'
    BY <1>1, <1>3 DEF GcTier, TypeOK
  <2> QED BY <1>1, <1>3, <2>1 DEF GcTier, Inv, EdgesSound, ManagedTracked
<1> QED BY <1>2, <1>3

LEMMA OnShutdownInv ==
  ASSUME Inv, OnShutdown PROVE Inv'
<1>1. TypeOK /\ EdgesSound /\ ManagedTracked
  BY DEF Inv
<1>2. queue' \in Seq(Event)
  BY <1>1, TakeType DEF OnShutdown
<1>3. Tracked(table) \subseteq Pid /\ MovedPids(table) \subseteq Tracked(table)
  BY <1>1 DEF TypeOK, IsTable, IsMap, Tracked, MovedPids
<1>4. TypeOK'
  BY <1>1, <1>2, <1>3 DEF OnShutdown, TypeOK, Todo
<1> QED BY <1>1, <1>4 DEF OnShutdown, Inv, EdgesSound, ManagedTracked

LEMMA RestoreInv ==
  ASSUME Inv, NEW p \in Pid, Restore(p) PROVE Inv'
<1>1. TypeOK /\ EdgesSound /\ ManagedTracked
  BY DEF Inv
<1>2. p \in Tracked(table)
  BY <1>1 DEF Restore, TypeOK
<1>3. table.entries[p].orig \in Group \cup {None}
  BY <1>1, <1>2 DEF TypeOK, IsTable, IsMap, Tracked, Entry
<1>4. proc' \in [Pid -> Process]
  BY <1>1, <1>3 DEF Restore, TypeOK, Process
<1>5. todo' \in Todo /\ todo'.kind = todo.kind /\ todo'.pids \subseteq todo.pids
  BY <1>1 DEF Restore, TypeOK, Todo
<1>6. TypeOK'
  BY <1>1, <1>4, <1>5 DEF Restore, TypeOK
<1> QED BY <1>1, <1>6 DEF Restore, Inv, EdgesSound, ManagedTracked

(* What is left of a daemon that has ended, in whatever way.                *)
LEMMA EndsInv ==
  ASSUME Inv, NEW final \in {"stopped", "crashed"}, Ends(final), dirs' \subseteq Tier
  PROVE  Inv'
<1>1. TypeOK
  BY DEF Inv
<1>2. /\ table' = EmptyTable /\ managed' = [p \in {} |-> None] /\ queue' = <<>>
      /\ gcLeft' = {} /\ todo' = IdleTodo /\ status' = final
  BY DEF Ends
<1>3. IsTable(table') /\ EdgeSound(table') /\ Tracked(table') = {}
  BY <1>2, EmptyTableOK
<1>4. IsMap(managed', Pid, Managed) /\ DOMAIN managed' = {}
  BY <1>2 DEF IsMap
<1>5. queue' \in Seq(Event) /\ gcLeft' \subseteq Tier
  BY <1>2
<1>6. todo' \in Todo /\ todo'.kind = "idle"
  BY <1>2 DEF IdleTodo, Todo
<1>7. TypeOK'
  BY <1>1, <1>2, <1>3, <1>4, <1>5, <1>6 DEF Ends, TypeOK, Level
<1> QED BY <1>3, <1>4, <1>7 DEF Inv, EdgesSound, ManagedTracked, Shows

LEMMA TeardownInv ==
  ASSUME Inv, Teardown \/ Crash PROVE Inv'
<1>1. dirs' \subseteq Tier
  BY DEF Inv, TypeOK, Teardown, Crash
<1> QED BY <1>1, EndsInv DEF Teardown, Crash

LEMMA StartInv ==
  ASSUME Inv, Start PROVE Inv'
<1>1. TypeOK /\ EdgesSound /\ ManagedTracked
  BY DEF Inv
<1>2. todo' \in Todo /\ todo'.kind \in {"list", "idle"}
  BY DEF Start, FirstLoop, IdleTodo, Todo
<1>3. TypeOK'
  BY <1>1, <1>2 DEF Start, SetupHierarchy, TypeOK
<1> QED BY <1>1, <1>3 DEF Start, Inv, EdgesSound, ManagedTracked

-----------------------------------------------------------------------------
(* The other producers, and the processes themselves.                       *)

LEMMA SendInv ==
  ASSUME Inv, NEW e \in Event, Send(e) PROVE Inv'
<1>1. TypeOK /\ EdgesSound /\ ManagedTracked
  BY DEF Inv
<1>2. queue' \in Seq(Event)
  BY <1>1, AppendProperties DEF Send, TypeOK
<1>3. TypeOK'
  BY <1>1, <1>2 DEF Send, TypeOK
<1> QED BY <1>1, <1>3 DEF Send, Inv, EdgesSound, ManagedTracked

LEMMA ProducersInv ==
  ASSUME Inv, Producers PROVE Inv'
<1>1. \A type \in {"Rescan", "Recheck", "Gc", "Reload", "Shutdown"} : [type |-> type] \in Event
  BY DEF Event
<1>2. CASE RescanTick
  BY <1>1, <1>2, SendInv DEF RescanTick
<1>3. ASSUME NEW source, NEW type \in {"Recheck", "Gc", "Reload", "Shutdown"},
             Signal(source, type)
      PROVE  Inv'
  BY <1>1, <1>3, SendInv DEF Signal
<1>4. CASE Client
  <2>1. \A p \in Pid : [type |-> "Foreground", pid |-> p] \in Event
    BY DEF Event
  <2>2. \A m \in Placements : [type |-> "Place", pid |-> m.pid, tier |-> m.tier] \in Event
    BY TierAssumption DEF Event
  <2>4. CASE \E p \in Pid : Send([type |-> "Foreground", pid |-> p])
    BY <2>1, <2>4, SendInv
  <2>5. CASE \E m \in Placements : Send([type |-> "Place", pid |-> m.pid, tier |-> m.tier])
    BY <2>2, <2>5, SendInv
  <2> QED BY <1>4, <2>4, <2>5 DEF Client
<1>5. CASE PsiUpdate
  <2>1. \A l \in Readings : [type |-> "Pressure", level |-> l] \in Event
    BY TierAssumption DEF Event
  <2> QED BY <1>5, <2>1, SendInv DEF PsiUpdate
<1> QED BY <1>2, <1>3, <1>4, <1>5 DEF Producers

(* An event of a process joins the channel.                                 *)
LEMMA AnnounceType ==
  ASSUME TypeOK, NEW e \in Event, Announce(e)
  PROVE  queue' \in Seq(Event)
  BY AppendProperties DEF Announce, TypeOK

LEMMA EnvironmentInv ==
  ASSUME Inv, Environment PROVE Inv'
<1>1. TypeOK /\ EdgesSound /\ ManagedTracked
  BY DEF Inv
<1>2. UNCHANGED <<table, managed, rules, startup, foreground, throttled, mode,
                  dirs, gcLeft, todo, status>>
  BY DEF Environment
<1>3. proc \in [Pid -> Process] /\ queue \in Seq(Event)
  BY <1>1 DEF TypeOK
<1>4. proc' \in [Pid -> Process] /\ queue' \in Seq(Event)
  <2>1. ASSUME NEW p \in Pid, NEW c \in Pid, Fork(p, c)
        PROVE  proc' \in [Pid -> Process] /\ queue' \in Seq(Event)
    <3>1. [type |-> "Fork", parent |-> p, pid |-> c] \in Event
      BY DEF Event
    <3>2. queue' \in Seq(Event)
      BY <1>1, <2>1, <3>1, AnnounceType DEF Fork
    <3>3. [proc[p] EXCEPT !.ppid = p] \in Process
      BY <1>3 DEF Process, ParentPid
    <3>4. proc' = [proc EXCEPT ![c] = [proc[p] EXCEPT !.ppid = p]]
      BY <2>1 DEF Fork
    <3> QED BY <1>3, <3>2, <3>3, <3>4
  <2>2. ASSUME NEW p \in Pid, NEW comm \in Comm, Exec(p, comm) \/ Rename(p, comm)
        PROVE  proc' \in [Pid -> Process] /\ queue' \in Seq(Event)
    <3>1. [type |-> "Exec", pid |-> p] \in Event /\ [type |-> "Comm", pid |-> p] \in Event
      BY DEF Event
    <3>2. queue' \in Seq(Event)
      BY <1>1, <2>2, <3>1, AnnounceType DEF Exec, Rename
    <3>3. proc' = [proc EXCEPT ![p] = [proc[p] EXCEPT !.comm = comm]]
      BY <1>3, <2>2 DEF Exec, Rename
    <3>4. [proc[p] EXCEPT !.comm = comm] \in Process
      BY <1>3 DEF Process
    <3> QED BY <1>3, <3>2, <3>3, <3>4
  <2>3. ASSUME NEW p \in Pid, Exit(p)
        PROVE  proc' \in [Pid -> Process] /\ queue' \in Seq(Event)
    <3>1. [type |-> "Exit", pid |-> p] \in Event
      BY DEF Event
    <3>2. queue' \in Seq(Event)
      BY <1>1, <2>3, <3>1, AnnounceType DEF Exit
    <3>3. 1 \in ParentPid
      BY PidAssumption DEF ParentPid
    <3>4. \A q \in Pid : /\ [proc[q] EXCEPT !.st = "zombie"] \in Process
                        /\ [proc[q] EXCEPT !.ppid = 1] \in Process
      BY <1>3, <3>3 DEF Process
    <3> QED BY <1>3, <2>3, <3>2, <3>4 DEF Exit
  <2>4. ASSUME NEW p \in Pid, Reap(p)
        PROVE  proc' \in [Pid -> Process] /\ queue' \in Seq(Event)
    BY <1>3, <2>4, BootAssumption DEF Reap
  <2> QED BY <2>1, <2>2, <2>3, <2>4 DEF Environment, KernelStep
<1>5. TypeOK'
  BY <1>1, <1>2, <1>4 DEF TypeOK
<1> QED BY <1>1, <1>2, <1>5 DEF Inv, EdgesSound, ManagedTracked

-----------------------------------------------------------------------------
(* The invariant holds at first and every step keeps it.                    *)
LEMMA InitInv == Init => Inv
<1> SUFFICES ASSUME Init PROVE Inv
  OBVIOUS
<1>1. IsTable(table) /\ EdgeSound(table) /\ Tracked(table) = {}
  BY EmptyTableOK DEF Init
<1>2. IsMap(managed, Pid, Managed) /\ DOMAIN managed = {}
  BY DEF Init, IsMap
<1>3. queue \in Seq(Event) /\ gcLeft \subseteq Tier
  BY DEF Init
<1>4. todo \in Todo /\ todo.kind \in {"list", "idle"}
  BY DEF Init, FirstLoop, IdleTodo, Todo
<1>5. TypeOK
  BY <1>1, <1>2, <1>3, <1>4, BootAssumption DEF Init, TypeOK, Level
<1> QED BY <1>1, <1>2, <1>5 DEF Inv, EdgesSound, ManagedTracked, Shows

LEMMA NextInv == Inv /\ [Next]_vars => Inv'
<1> SUFFICES ASSUME Inv, [Next]_vars PROVE Inv'
  OBVIOUS
<1>1. CASE UNCHANGED vars
  BY <1>1 DEF vars, Inv, TypeOK, EdgesSound, ManagedTracked
<1>2. CASE ProcEvents
  BY <1>2, OnForkInv, OnForkBombInv, OnExecInv, OnCommInv, OnExitInv DEF ProcEvents
<1>3. CASE Loops
  BY <1>3, ScanListInv, ScanReadInv, ScanClassifyInv, RecheckInv, RestoreInv DEF Loops
<1>4. CASE Timers
  BY <1>4, EndGraceInv, ScanListInv, OnRecheckInv, GcInv DEF Timers
<1>5. CASE Requests
  BY <1>5, OnForegroundInv, OnPlaceInv, OnReloadInv, OnPressureInv, OnShutdownInv
     DEF Requests
<1>6. CASE Teardown \/ Crash \/ Start \/ GcTier \/ Environment \/ Producers
  BY <1>6, TeardownInv, StartInv, GcInv, EnvironmentInv, ProducersInv
<1> QED BY <1>1, <1>2, <1>3, <1>4, <1>5, <1>6 DEF Next, DaemonStep

(* The inductive invariant of the daemon.                                   *)
THEOREM Invariance == Spec => []Inv
  BY InitInv, NextInv, PTL DEF Spec

(* Every value has its type, and the scan, recheck and restore loops only   *)
(* ever look up processes that the table has an entry for.                  *)
THEOREM TypeCorrect == Spec => []TypeOK
<1>1. Inv => TypeOK
  BY DEF Inv
<1> QED BY Invariance, <1>1, PTL

(* The edges of the process table stay consistent with its entries.         *)
THEOREM EdgesAlwaysSound == Spec => []EdgesSound
<1>1. Inv => EdgesSound
  BY DEF Inv
<1> QED BY Invariance, <1>1, PTL

(* What clients see in the managed map is what the table holds.             *)
THEOREM ManagedAlwaysTracked == Spec => []ManagedTracked
<1>1. Inv => ManagedTracked
  BY DEF Inv
<1> QED BY Invariance, <1>1, PTL
=============================================================================
