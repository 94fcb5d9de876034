------------------------------ MODULE ForkBomb ------------------------------
(***************************************************************************)
(* The fork-bomb detector of crates/core/src/forkbomb.rs: for each parent  *)
(* a window of the forks of the last second, and the set of parents whose  *)
(* subtree has been throttled.  An Instant is an age in ticks; an age past *)
(* Cold is as good as any other, which bounds the model.                   *)
(***************************************************************************)
EXTENDS Integers, Sequences, FiniteSets

CONSTANTS Parent,
          Threshold,   \* config: fork_bomb.threshold_per_second
          Second,      \* ticks in the window: one second
          Cold,        \* ticks after which a window is cold: ten seconds
          MaxForks     \* bound of the model: forks of a parent in one tick

ASSUME DetectorAssumption ==
  /\ Threshold \in Nat /\ Second \in Nat /\ Cold \in Nat /\ Second < Cold
  /\ MaxForks \in Nat

VARIABLES windows,     \* parent -> ages of its recorded forks, oldest first
          throttled,   \* the parents that are throttled
          forks,       \* what happened: how many forks of each age up to Cold
          freed        \* ticks since gc last dropped the parent, at most Second + 1

vars == <<windows, throttled, forks, freed>>

Age == 0..(Cold + 1)

Init == /\ windows = [p \in {} |-> <<>>]
        /\ throttled = {}
        /\ forks = [p \in Parent |-> [a \in 0..Cold |-> 0]]
        /\ freed = [p \in Parent |-> Second + 1]

-----------------------------------------------------------------------------
(* A bug to detect: a fork exactly a second ago is evicted.                 *)
StaleEarly(w) == {i \in DOMAIN w : w[i] >= Second}

(* ForkWindow::record: evict what is older than a second, then add this one. *)
Stale(w) == {i \in DOMAIN w : w[i] > Second}

(* A bug to detect: nothing is evicted.                                     *)
RecordAll(w) == Append(w, 0)

(* A bug to detect: the end of the window is recorded instead of now.       *)
RecordEnd(w) == Append(SubSeq(w, Cardinality(Stale(w)) + 1, Len(w)), -Second)

Record(w) == Append(SubSeq(w, Cardinality(Stale(w)) + 1, Len(w)), 0)

Window(p) == IF p \in DOMAIN windows THEN windows[p] ELSE <<>>

(* A bug to detect: the forks of a throttled parent are still recorded.     *)
RecordEveryFork(p) ==
  /\ forks[p][0] < MaxForks
  /\ forks' = [forks EXCEPT ![p][0] = @ + 1]
  /\ LET w == Record(Window(p)) IN
       /\ windows' = [q \in DOMAIN windows \cup {p} |-> IF q = p THEN w ELSE windows[q]]
       /\ throttled' = IF Len(w) >= Threshold THEN throttled \cup {p} ELSE throttled
  /\ UNCHANGED freed

(* record_fork, for the fork of a process by p.                             *)
RecordFork(p) ==
  /\ forks[p][0] < MaxForks
  /\ forks' = [forks EXCEPT ![p][0] = @ + 1]
  /\ IF p \in throttled THEN UNCHANGED <<windows, throttled>>
     ELSE LET w == Record(Window(p)) IN
          /\ windows' = [q \in DOMAIN windows \cup {p} |->
                           IF q = p THEN w ELSE windows[q]]
          /\ throttled' = IF Len(w) >= Threshold THEN throttled \cup {p}
                                                 ELSE throttled
  /\ UNCHANGED freed

(* gc, on the GC ticker.                                                    *)
ColdWindows == {p \in DOMAIN windows : windows[p] = <<>> \/ windows[p][Len(windows[p])] > Cold}

(* A bug to detect: what is throttled stays throttled (the one that was     *)
(* fixed as bug 2).                                                         *)
GcKeepsThrottled ==
  /\ windows' = [p \in DOMAIN windows \ ColdWindows |-> windows[p]]
  /\ freed' = [p \in Parent |-> IF p \in ColdWindows THEN 0 ELSE freed[p]]
  /\ UNCHANGED <<throttled, forks>>

Gc ==
  /\ windows' = [p \in DOMAIN windows \ ColdWindows |-> windows[p]]
  /\ throttled' = throttled \ ColdWindows
  /\ freed' = [p \in Parent |-> IF p \in ColdWindows THEN 0 ELSE freed[p]]
  /\ UNCHANGED forks

(* Time passes.                                                             *)
Older(age) == IF age > Cold THEN age ELSE age + 1

Tick ==
  /\ windows' = [p \in DOMAIN windows |-> [i \in DOMAIN windows[p] |-> Older(windows[p][i])]]
  /\ forks' = [p \in Parent |-> [a \in 0..Cold |-> IF a = 0 THEN 0 ELSE forks[p][a - 1]]]
  /\ freed' = [p \in Parent |-> IF freed[p] > Second THEN freed[p] ELSE freed[p] + 1]
  /\ UNCHANGED throttled

Next == (\E p \in Parent : RecordFork(p)) \/ Gc \/ Tick

Spec == Init /\ [][Next]_vars

(* Time does not stop, and the GC ticker never does either.                 *)
FairSpec == Spec /\ WF_vars(Tick) /\ WF_vars(Gc)

-----------------------------------------------------------------------------
(* Of the forks counted by age in f, how many are at most a ticks old, for  *)
(* every a up to a second.                                                  *)
UpToAge(f) ==
  LET upto[a \in 0..Second] == IF a = 0 THEN f[0] ELSE upto[a - 1] + f[a]
  IN  upto

(* The forks of p in the last second, as they really happened.              *)
Recent(p) == UpToAge(forks[p])[Second]

TypeOK ==
  /\ DOMAIN windows \subseteq Parent
  /\ \A p \in DOMAIN windows : windows[p] \in Seq(Age)
  /\ throttled \subseteq Parent
  /\ forks \in [Parent -> [0..Cold -> 0..MaxForks]]
  /\ freed \in [Parent -> 0..(Second + 1)]

(* A throttled parent has a window, so that gc can drop it again, and no    *)
(* window outgrows the threshold, whatever the rate of forks: the detector  *)
(* stays bounded in the middle of a fork bomb.                              *)
WindowsBounded ==
  /\ throttled \subseteq DOMAIN windows
  /\ \A p \in DOMAIN windows :
       /\ Len(windows[p]) <= Threshold \/ Len(windows[p]) = 1
       /\ Len(windows[p]) >= Threshold <=> p \in throttled

(* No false alarm: a parent is reported only when it has really forked as   *)
(* often as the threshold says within the last second, however the forks    *)
(* fell around the edge of the window.                                      *)
NoFalseAlarm ==
  [][\A p \in throttled' \ throttled : Recent(p)' >= Threshold]_vars

(* No missed bomb: a parent that has forked, and that often, within the     *)
(* last second is throttled, unless gc has dropped it in that second.       *)
NoMissedBomb ==
  \A p \in Parent :
     Recent(p) > 0 /\ Recent(p) >= Threshold /\ freed[p] > Second => p \in throttled

(* A parent that stops forking is forgotten, and its throttling with it, so *)
(* that the next owner of the pid starts afresh.                            *)
ColdForgotten ==
  \A p \in Parent :
     <>[](\A a \in 0..Cold : forks[p][a] = 0)
       => <>[](p \notin throttled /\ p \notin DOMAIN windows)

=============================================================================
