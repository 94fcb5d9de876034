--------------------------- MODULE ForkBomb_proofs --------------------------
(***************************************************************************)
(* For any number of parents, any threshold, any rate of forks and any     *)
(* timing of garbage collections: the detector stays bounded, misses no    *)
(* bomb and raises no false alarm.                                         *)
(***************************************************************************)
EXTENDS ForkBomb, FiniteSetTheorems, Recursion_proofs

(* What is evicted is no more than there is.                                *)
LEMMA StaleBounded ==
  ASSUME NEW w \in Seq(Age)
  PROVE  Cardinality(Stale(w)) \in 0..Len(w)
<1>1. Len(w) \in Nat /\ DOMAIN w = 1..Len(w)
  OBVIOUS
<1>2. IsFiniteSet(1..Len(w)) /\ Cardinality(1..Len(w)) = Len(w)
  BY <1>1, FS_Interval
<1>3. Stale(w) \subseteq 1..Len(w)
  BY <1>1 DEF Stale
<1>4. IsFiniteSet(Stale(w)) /\ Cardinality(Stale(w)) <= Cardinality(1..Len(w))
  BY <1>2, <1>3, FS_Subset
<1>5. Cardinality(Stale(w)) \in Nat
  BY <1>4, FS_CardinalityType
<1> QED BY <1>1, <1>2, <1>4, <1>5

(* A window that has recorded one more fork has at most one more entry.     *)
LEMMA RecordBounded ==
  ASSUME NEW w \in Seq(Age)
  PROVE  Record(w) \in Seq(Age) /\ Len(Record(w)) \in 1..(Len(w) + 1)
<1> DEFINE n == Cardinality(Stale(w))
           rest == SubSeq(w, n + 1, Len(w))
<1>1. n \in 0..Len(w) /\ Len(w) \in Nat
  BY StaleBounded
<1> HIDE DEF n
<1>2. 0 \in Age /\ (0..(Cold + 1)) = Age
  BY DetectorAssumption DEF Age
<1>3. rest \in Seq(Age) /\ Len(rest) = Len(w) - n
  <2>1. \A i \in (n + 1)..Len(w) : w[i] \in Age
    BY <1>1
  <2> HIDE DEF Age
  <2> QED BY <1>1, <2>1
<1> HIDE DEF rest, Age
<1>4. Append(rest, 0) \in Seq(Age) /\ Len(Append(rest, 0)) = Len(rest) + 1
  BY <1>2, <1>3
<1>5. Record(w) = Append(rest, 0)
  BY DEF Record, rest, n
<1> QED BY <1>1, <1>3, <1>4, <1>5

LEMMA WindowTyped ==
  ASSUME TypeOK, NEW p \in Parent
  PROVE  Window(p) \in Seq(Age)
  BY DEF TypeOK, Window

-----------------------------------------------------------------------------
LEMMA InitTyped == Init => TypeOK
  BY DetectorAssumption DEF Init, TypeOK

LEMMA StepTyped == TypeOK /\ [Next]_vars => TypeOK'
<1> SUFFICES ASSUME TypeOK, [Next]_vars PROVE TypeOK'
  OBVIOUS
<1> USE DEF TypeOK
<1>1. ASSUME NEW p \in Parent, RecordFork(p) PROVE TypeOK'
  <2>1. forks' \in [Parent -> [0..Cold -> 0..MaxForks]]
    <3>1. forks[p][0] + 1 \in 0..MaxForks
      BY <1>1, DetectorAssumption DEF RecordFork
    <3>2. forks' = [forks EXCEPT ![p] = [forks[p] EXCEPT ![0] = forks[p][0] + 1]]
      BY <1>1 DEF RecordFork
    <3>3. [forks[p] EXCEPT ![0] = forks[p][0] + 1] \in [0..Cold -> 0..MaxForks]
      BY <3>1
    <3> QED BY <3>2, <3>3
  <2>2. CASE p \in throttled
    BY <1>1, <2>1, <2>2 DEF RecordFork
  <2>3. CASE p \notin throttled
    <3> DEFINE w == Record(Window(p))
    <3>1. w \in Seq(Age)
      BY WindowTyped, RecordBounded
    <3>2. /\ windows' = [q \in DOMAIN windows \cup {p} |-> IF q = p THEN w ELSE windows[q]]
          /\ throttled' = IF Len(w) >= Threshold THEN throttled \cup {p} ELSE throttled
      BY <1>1, <2>3 DEF RecordFork
    <3> HIDE DEF w
    <3>3. DOMAIN windows' \subseteq Parent /\ \A q \in DOMAIN windows' : windows'[q] \in Seq(Age)
      BY <3>1, <3>2
    <3> QED BY <1>1, <2>1, <3>2, <3>3 DEF RecordFork
  <2> QED BY <2>2, <2>3
<1>2. CASE Gc
  <2>1. freed' \in [Parent -> 0..(Second + 1)]
    BY <1>2, DetectorAssumption DEF Gc
  <2>2. DOMAIN windows' \subseteq Parent /\ \A q \in DOMAIN windows' : windows'[q] \in Seq(Age)
    BY <1>2 DEF Gc
  <2> QED BY <1>2, <2>1, <2>2 DEF Gc
<1>3. CASE Tick
  <2>1. freed' \in [Parent -> 0..(Second + 1)]
    BY <1>3, DetectorAssumption DEF Tick
  <2>2. forks' \in [Parent -> [0..Cold -> 0..MaxForks]]
    <3>1. \A p \in Parent : \A a \in 0..Cold : a # 0 => forks[p][a - 1] \in 0..MaxForks
      BY DetectorAssumption
    <3>2. 0 \in 0..MaxForks
      BY DetectorAssumption
    <3> QED BY <1>3, <3>1, <3>2 DEF Tick
  <2>3. \A q \in DOMAIN windows :
          [i \in DOMAIN windows[q] |-> Older(windows[q][i])] \in Seq(Age)
    <3> TAKE q \in DOMAIN windows
    <3>1. \A a \in Age : Older(a) \in Age
      BY DetectorAssumption DEF Age, Older
    <3>2. windows[q] \in Seq(Age)
      OBVIOUS
    <3> HIDE DEF Age
    <3>3. Len(windows[q]) \in Nat /\ DOMAIN windows[q] = 1..Len(windows[q])
      BY <3>2
    <3>4. \A i \in 1..Len(windows[q]) : Older(windows[q][i]) \in Age
      BY <3>1, <3>2
    <3> QED BY <3>3, <3>4
  <2>4. DOMAIN windows' \subseteq Parent /\ \A q \in DOMAIN windows' : windows'[q] \in Seq(Age)
    BY <1>3, <2>3 DEF Tick
  <2> QED BY <1>3, <2>1, <2>2, <2>4 DEF Tick
<1>4. CASE UNCHANGED vars
  BY <1>4 DEF vars
<1> QED BY <1>1, <1>2, <1>3, <1>4 DEF Next

(* Every value of the detector keeps its type, and ages stay within Age.    *)
THEOREM DetectorTyped == Spec => []TypeOK
  BY InitTyped, StepTyped, PTL DEF Spec

-----------------------------------------------------------------------------
LEMMA StepBounded == TypeOK /\ WindowsBounded /\ [Next]_vars => WindowsBounded'
<1> SUFFICES ASSUME TypeOK, WindowsBounded, [Next]_vars PROVE WindowsBounded'
  OBVIOUS
<1> USE DEF WindowsBounded
<1>1. ASSUME NEW p \in Parent, RecordFork(p) PROVE WindowsBounded'
  <2>1. CASE p \in throttled
    BY <1>1, <2>1 DEF RecordFork
  <2>2. CASE p \notin throttled
    <3> DEFINE w == Record(Window(p))
    <3>1. Window(p) \in Seq(Age) /\ Len(w) \in 1..(Len(Window(p)) + 1)
      BY WindowTyped, RecordBounded
    <3>2. Len(Window(p)) \in Nat /\ (Len(Window(p)) = 0 \/ Len(Window(p)) < Threshold)
      <4>1. CASE p \in DOMAIN windows
        BY <2>2, <3>1, <4>1, DetectorAssumption DEF Window
      <4>2. CASE p \notin DOMAIN windows
        BY <4>2 DEF Window
      <4> QED BY <4>1, <4>2
    <3>3. Len(w) <= Threshold \/ Len(w) = 1
      <4> DEFINE k == Len(w)
                 n == Len(Window(p))
      <4>1. k \in 1..(n + 1) /\ n \in Nat /\ (n = 0 \/ n < Threshold)
        BY <3>1, <3>2
      <4> HIDE DEF k, n
      <4>2. k <= Threshold \/ k = 1
        BY <4>1, DetectorAssumption
      <4> QED BY <4>2 DEF k
    <3>4. /\ windows' = [q \in DOMAIN windows \cup {p} |-> IF q = p THEN w ELSE windows[q]]
          /\ throttled' = IF Len(w) >= Threshold THEN throttled \cup {p} ELSE throttled
      BY <1>1, <2>2 DEF RecordFork
    <3> HIDE DEF w
    <3>5. throttled' \subseteq DOMAIN windows'
      BY <3>4
    <3>6. ASSUME NEW q \in DOMAIN windows'
          PROVE  /\ Len(windows'[q]) <= Threshold \/ Len(windows'[q]) = 1
                 /\ Len(windows'[q]) >= Threshold <=> q \in throttled'
      <4>1. CASE q = p
        BY <2>2, <3>3, <3>4, <4>1
      <4>2. CASE q # p
        BY <3>4, <4>2
      <4> QED BY <4>1, <4>2
    <3> QED BY <3>5, <3>6
  <2> QED BY <2>1, <2>2
<1>2. CASE Gc
  BY <1>2 DEF Gc
<1>3. CASE Tick
  <2>1. \A q \in DOMAIN windows : Len([i \in DOMAIN windows[q] |-> Older(windows[q][i])])
                                    = Len(windows[q])
    <3> TAKE q \in DOMAIN windows
    <3>1. Len(windows[q]) \in Nat /\ DOMAIN windows[q] = 1..Len(windows[q])
      BY DEF TypeOK
    <3> QED BY <3>1
  <2> QED BY <1>3, <2>1 DEF Tick
<1>4. CASE UNCHANGED vars
  BY <1>4 DEF vars
<1> QED BY <1>1, <1>2, <1>3, <1>4 DEF Next

(* No window outgrows the threshold and every throttled parent keeps one,   *)
(* so that the collection can drop it, in the middle of any fork bomb.      *)
THEOREM DetectorBounded == Spec => []WindowsBounded
<1>1. Init => WindowsBounded
  BY DEF Init, WindowsBounded
<1> QED BY <1>1, InitTyped, StepTyped, StepBounded, PTL DEF Spec

-----------------------------------------------------------------------------
(* The numbers of forks by age, and what a fork and a tick do to them.      *)
Counts == [0..Cold -> Nat]

LEMMA UpToAgeDef ==
  ASSUME NEW f \in Counts
  PROVE  /\ UpToAge(f) \in [0..Second -> Nat]
         /\ UpToAge(f)[0] = f[0]
         /\ \A a \in 1..Second : UpToAge(f)[a] = UpToAge(f)[a - 1] + f[a]
<1> USE DetectorAssumption
<1> DEFINE Sums(h) == h = [a \in 0..Second |-> IF a = 0 THEN f[0] ELSE h[a - 1] + f[a]]
           g == [a \in 1..Second |-> [n \in Nat |-> n + f[a]]]
<1>1. \A a \in 0..Second : f[a] \in Nat
  BY DEF Counts
<1>2. g \in [1..Second -> [Nat -> Nat]]
  BY <1>1
<1>3. PICK h \in [0..Second -> Nat] :
        h = [i \in 0..Second |-> IF i = 0 THEN f[0] ELSE g[i][h[i - 1]]]
  <2> DEFINE base == f[0]
             S == Nat
  <2>1. base \in S /\ g \in [1..Second -> [S -> S]]
    BY <1>1, <1>2
  <2>2. \E h \in [0..Second -> S] : Recursive(h, Second, base, g)
    <3> HIDE DEF g, S, base
    <3> QED BY <2>1, Recursion
  <2> HIDE DEF g
  <2> QED BY <2>2 DEF Recursive
<1>4. \A i \in 0..Second : i # 0 => g[i][h[i - 1]] = h[i - 1] + f[i]
  <2> SUFFICES ASSUME NEW i \in 0..Second, i # 0 PROVE g[i][h[i - 1]] = h[i - 1] + f[i]
    OBVIOUS
  <2>1. i \in 1..Second /\ h[i - 1] \in Nat
    OBVIOUS
  <2>2. \A a \in 1..Second : \A n \in Nat : g[a][n] = n + f[a]
    OBVIOUS
  <2> HIDE DEF g
  <2> QED BY <2>1, <2>2
<1>5. Sums(h)
  <2> HIDE DEF g
  <2> QED BY <1>3, <1>4
<1>6. Sums(UpToAge(f))
  <2>1. UpToAge(f) = CHOOSE k : Sums(k)
    BY DEF UpToAge
  <2> HIDE DEF Sums
  <2> QED BY <1>5, <2>1
<1> DEFINE u == UpToAge(f)
           Num == {a \in Nat : a <= Second => u[a] \in Nat}
<1>7. 0 \in Num
  BY <1>1, <1>6
<1>8. ASSUME NEW a \in Nat, a \in Num PROVE a + 1 \in Num
  <2> SUFFICES ASSUME a + 1 <= Second PROVE u[a + 1] \in Nat
    OBVIOUS
  <2>1. a + 1 \in 0..Second /\ a + 1 # 0 /\ (a + 1) - 1 = a
    OBVIOUS
  <2>2. u[a] \in Nat
    BY <1>8
  <2>3. u[a + 1] = u[a] + f[a + 1]
    <3> HIDE DEF u
    <3>1. u[a + 1] = u[(a + 1) - 1] + f[a + 1]
      BY <1>6, <2>1 DEF u
    <3> QED BY <2>1, <3>1
  <2>4. f[a + 1] \in Nat
    BY <1>1, <2>1
  <2> HIDE DEF u
  <2> QED BY <2>2, <2>3, <2>4
<1>9. Nat \subseteq Num
  <2> HIDE DEF Num
  <2> QED BY <1>7, <1>8, Induction
<1> QED BY <1>6, <1>9

(* One fork more counts at every age.                                       *)
LEMMA UpToAgeFork ==
  ASSUME NEW f \in Counts, NEW k \in Counts, k = [f EXCEPT ![0] = @ + 1]
  PROVE  \A a \in 0..Second : UpToAge(k)[a] = UpToAge(f)[a] + 1
<1> USE DetectorAssumption
<1> DEFINE Good == {a \in Nat : a <= Second => UpToAge(k)[a] = UpToAge(f)[a] + 1}
<1>1. 0 \in 0..Cold /\ k[0] = f[0] + 1 /\ \A a \in 1..Second : k[a] = f[a]
  BY DEF Counts
<1>2. 0 \in Good
  BY <1>1, UpToAgeDef
<1>3. ASSUME NEW a \in Nat, a \in Good PROVE a + 1 \in Good
  <2> SUFFICES ASSUME a + 1 <= Second PROVE UpToAge(k)[a + 1] = UpToAge(f)[a + 1] + 1
    OBVIOUS
  <2>1. a \in 0..Second /\ a + 1 \in 1..Second /\ (a + 1) - 1 = a
    OBVIOUS
  <2>2. UpToAge(k)[a] = UpToAge(f)[a] + 1
    BY <1>3
  <2>3. UpToAge(f)[a] \in Nat /\ f[a + 1] \in Nat
    BY <2>1, UpToAgeDef DEF Counts
  <2>4. /\ UpToAge(f)[a + 1] = UpToAge(f)[a] + f[a + 1]
        /\ UpToAge(k)[a + 1] = UpToAge(k)[a] + k[a + 1]
    BY <2>1, UpToAgeDef
  <2> QED BY <1>1, <2>1, <2>2, <2>3, <2>4
<1>4. Nat \subseteq Good
  <2> HIDE DEF Good
  <2> QED BY <1>2, <1>3, Induction
<1>5. ASSUME NEW a \in 0..Second PROVE UpToAge(k)[a] = UpToAge(f)[a] + 1
  <2>1. a \in Nat /\ a <= Second
    OBVIOUS
  <2>2. a \in Good
    BY <1>4, <2>1
  <2> QED BY <2>1, <2>2
<1> QED BY <1>5

(* After a tick every fork is one tick older.                               *)
LEMMA UpToAgeTick ==
  ASSUME NEW f \in Counts, NEW k \in Counts,
         k = [a \in 0..Cold |-> IF a = 0 THEN 0 ELSE f[a - 1]]
  PROVE  /\ UpToAge(k)[0] = 0
         /\ \A a \in 1..Second : UpToAge(k)[a] = UpToAge(f)[a - 1]
<1> USE DetectorAssumption
<1> DEFINE Good == {a \in Nat : a + 1 <= Second => UpToAge(k)[a + 1] = UpToAge(f)[a]}
<1>1. k[0] = 0 /\ \A a \in 1..Cold : k[a] = f[a - 1]
  OBVIOUS
<1>2. UpToAge(k)[0] = 0
  BY <1>1, UpToAgeDef
<1>3. 0 \in Good
  <2> SUFFICES ASSUME 1 <= Second PROVE UpToAge(k)[1] = UpToAge(f)[0]
    OBVIOUS
  <2>1. UpToAge(k)[1] = UpToAge(k)[0] + k[1] /\ UpToAge(f)[0] = f[0]
    <3>1. 1 \in 1..Second /\ 1 - 1 = 0
      OBVIOUS
    <3> QED BY <3>1, UpToAgeDef
  <2>2. k[1] = f[0] /\ f[0] \in Nat
    BY <1>1 DEF Counts
  <2> QED BY <1>2, <2>1, <2>2
<1>4. ASSUME NEW a \in Nat, a \in Good PROVE a + 1 \in Good
  <2> SUFFICES ASSUME a + 2 <= Second PROVE UpToAge(k)[(a + 1) + 1] = UpToAge(f)[a + 1]
    OBVIOUS
  <2> DEFINE b == a + 1
             c == a + 2
  <2>1. b \in 1..Second /\ c \in 1..Second /\ c - 1 = b /\ b - 1 = a /\ b + 1 = c
    OBVIOUS
  <2>2. UpToAge(k)[b] = UpToAge(f)[a]
    BY <1>4
  <2>3. k[c] = f[b]
    BY <1>1, <2>1
  <2> HIDE DEF b, c
  <2>4. UpToAge(k)[c] = UpToAge(k)[b] + k[c] /\ UpToAge(f)[b] = UpToAge(f)[a] + f[b]
    BY <2>1, UpToAgeDef
  <2>5. UpToAge(k)[c] = UpToAge(f)[b]
    BY <2>2, <2>3, <2>4
  <2> QED BY <2>1, <2>5 DEF b
<1>5. Nat \subseteq Good
  <2> HIDE DEF Good
  <2> QED BY <1>3, <1>4, Induction
<1>6. ASSUME NEW a \in 1..Second PROVE UpToAge(k)[a] = UpToAge(f)[a - 1]
  <2>1. a - 1 \in Nat /\ (a - 1) + 1 = a
    OBVIOUS
  <2> QED BY <1>5, <2>1
<1> QED BY <1>2, <1>6

-----------------------------------------------------------------------------
(* A window is in order: no fork in it is older than the one before.        *)
Sorted(w) == \A i, j \in DOMAIN w : i <= j => w[i] >= w[j]

(* Each fork in window w happened: w[i] is the age of the Len(w) - i + 1st  *)
(* fork, counted back from now.                                             *)
Genuine(w, f) ==
  \A b \in 0..Second : \A i \in DOMAIN w :
     w[i] <= b => Len(w) - i + 1 <= UpToAge(f)[b]

(* Each fork of the last "since" ticks is in window w.                      *)
Complete(w, f, since) ==
  \A b \in 0..Second :
     b < since /\ UpToAge(f)[b] > 0
       => \E i \in DOMAIN w : w[i] <= b /\ UpToAge(f)[b] <= Len(w) - i + 1

(* In an ordered window what is stale comes first, and as much is evicted.  *)
LEMMA StaleFirst ==
  ASSUME NEW w \in Seq(Age), Sorted(w)
  PROVE  \E n \in 0..Len(w) : n = Cardinality(Stale(w)) /\ Stale(w) = 1..n
<1> USE DetectorAssumption
<1>1. Len(w) \in Nat /\ DOMAIN w = 1..Len(w) /\ \A i \in 1..Len(w) : w[i] \in Int
  BY DEF Age
<1> DEFINE Fresh == (1..(Len(w) + 1)) \ Stale(w)
<1>2. Stale(w) \subseteq 1..Len(w)
  BY <1>1 DEF Stale
<1>3. Len(w) + 1 \in Fresh
  BY <1>1, <1>2
<1>4. PICK m \in Fresh : \A j \in Fresh : m <= j
  <2>1. Fresh \in SUBSET Nat /\ Fresh # {}
    BY <1>3
  <2> HIDE DEF Fresh
  <2> QED BY <2>1, LeastIn
<1>5. m \in 1..(Len(w) + 1) /\ m \notin Stale(w)
  BY <1>4
<1>6. ASSUME NEW i \in 1..Len(w), i < m PROVE i \in Stale(w)
  <2> SUFFICES ASSUME i \notin Stale(w) PROVE FALSE
    OBVIOUS
  <2>1. i \in Fresh
    BY <1>1
  <2> QED BY <1>1, <1>4, <1>5, <1>6, <2>1
<1>7. ASSUME NEW i \in 1..Len(w), i >= m PROVE i \notin Stale(w)
  <2>1. m \in DOMAIN w /\ i \in DOMAIN w /\ w[m] >= w[i]
    BY <1>1, <1>5, <1>7 DEF Sorted
  <2>2. ~(w[m] > Second)
    BY <1>5, <2>1 DEF Stale
  <2> QED BY <1>1, <2>1, <2>2 DEF Stale
<1> DEFINE n == m - 1
<1>8. n \in 0..Len(w) /\ \A i \in 1..Len(w) : i < m <=> i <= n
  BY <1>1, <1>5
<1>9. Stale(w) = 1..n
  <2>1. ASSUME NEW i \in Stale(w) PROVE i \in 1..n
    BY <1>1, <1>2, <1>5, <1>7, <1>8
  <2>2. ASSUME NEW i \in 1..n PROVE i \in Stale(w)
    <3>1. i \in 1..Len(w) /\ i < m
      BY <1>1, <1>5
    <3> QED BY <1>6, <3>1
  <2> QED BY <2>1, <2>2
<1>10. Cardinality(1..n) = n
  BY <1>1, <1>8, FS_Interval
<1> QED BY <1>8, <1>9, <1>10

(* What record() leaves: the forks that are not stale, and the new one.     *)
LEMMA RecordIs ==
  ASSUME NEW w \in Seq(Age), Sorted(w)
  PROVE  \E n \in 0..Len(w) :
           /\ Stale(w) = 1..n
           /\ Len(Record(w)) = Len(w) - n + 1
           /\ DOMAIN Record(w) = 1..(Len(w) - n + 1)
           /\ Record(w)[Len(w) - n + 1] = 0
           /\ \A i \in 1..(Len(w) - n) : Record(w)[i] = w[n + i]
<1>1. PICK n \in 0..Len(w) : n = Cardinality(Stale(w)) /\ Stale(w) = 1..n
  BY StaleFirst
<1> DEFINE rest == SubSeq(w, n + 1, Len(w))
<1>2. Len(w) \in Nat /\ \A i \in 1..Len(w) : w[i] \in Age
  OBVIOUS
<1> HIDE DEF Age
<1>3. /\ rest \in Seq(Age) /\ Len(rest) = Len(w) - n
      /\ \A i \in 1..(Len(w) - n) : rest[i] = w[n + i]
  BY <1>2
<1> HIDE DEF rest
<1>4. Record(w) = Append(rest, 0)
  BY <1>1 DEF Record, rest
<1>5. /\ Len(Append(rest, 0)) = Len(rest) + 1
      /\ DOMAIN Append(rest, 0) = 1..(Len(rest) + 1)
      /\ Append(rest, 0)[Len(rest) + 1] = 0
      /\ \A i \in 1..Len(rest) : Append(rest, 0)[i] = rest[i]
  BY <1>3
<1> QED BY <1>1, <1>2, <1>3, <1>4, <1>5

(* record() keeps a window in order, genuine and complete.                  *)
LEMMA RecordKeeps ==
  ASSUME NEW w \in Seq(Age), Sorted(w), NEW f \in Counts, Genuine(w, f),
         NEW k \in Counts, \A b \in 0..Second : UpToAge(k)[b] = UpToAge(f)[b] + 1
  PROVE  /\ Sorted(Record(w)) /\ Genuine(Record(w), k)
         /\ \A since \in Nat : Complete(w, f, since) => Complete(Record(w), k, since)
<1> DEFINE v == Record(w)
<1>1. PICK n \in 0..Len(w) :
           /\ Stale(w) = 1..n
           /\ Len(v) = Len(w) - n + 1
           /\ DOMAIN v = 1..(Len(w) - n + 1)
           /\ v[Len(w) - n + 1] = 0
           /\ \A i \in 1..(Len(w) - n) : v[i] = w[n + i]
  BY RecordIs
<1> HIDE DEF v
<1>2. Len(w) \in Nat /\ DOMAIN w = 1..Len(w) /\ \A i \in 1..Len(w) : w[i] \in Nat
  BY DetectorAssumption DEF Age
<1>3. \A b \in 0..Second : /\ UpToAge(k)[b] = UpToAge(f)[b] + 1
                           /\ UpToAge(f)[b] \in Nat
  BY UpToAgeDef
<1>4. Sorted(v)
  <2> SUFFICES ASSUME NEW i \in DOMAIN v, NEW j \in DOMAIN v, i <= j PROVE v[i] >= v[j]
    BY DEF Sorted
  <2>1. CASE j = Len(w) - n + 1
    <3>1. v[i] \in Nat
      BY <1>1, <1>2
    <3> QED BY <1>1, <2>1, <3>1
  <2>2. CASE j # Len(w) - n + 1
    <3>1. i \in 1..(Len(w) - n) /\ j \in 1..(Len(w) - n)
      <4>1. i \in 1..(Len(w) - n + 1) /\ j \in 1..(Len(w) - n + 1)
        BY <1>1
      <4>2. Len(w) \in Nat /\ n \in Nat
        BY <1>2
      <4> QED BY <2>2, <4>1, <4>2
    <3>2. n + i \in DOMAIN w /\ n + j \in DOMAIN w /\ n + i <= n + j
      BY <1>1, <1>2, <3>1
    <3>3. w[n + i] >= w[n + j]
      BY <3>2 DEF Sorted
    <3> QED BY <1>1, <3>1, <3>3
  <2> QED BY <2>1, <2>2
<1>5. Genuine(v, k)
  <2> SUFFICES ASSUME NEW b \in 0..Second, NEW i \in DOMAIN v, v[i] <= b
               PROVE  Len(v) - i + 1 <= UpToAge(k)[b]
    BY DEF Genuine
  <2>1. CASE i = Len(w) - n + 1
    BY <1>1, <1>2, <1>3, <2>1
  <2>2. CASE i # Len(w) - n + 1
    <3>1. i \in 1..(Len(w) - n) /\ n + i \in DOMAIN w /\ v[i] = w[n + i]
      <4>1. i \in 1..(Len(w) - n + 1)
        BY <1>1
      <4>2. i \in 1..(Len(w) - n) /\ n + i \in 1..Len(w)
        BY <1>2, <2>2, <4>1
      <4> QED BY <1>1, <1>2, <4>2
    <3>2. Len(w) - (n + i) + 1 <= UpToAge(f)[b]
      BY <3>1 DEF Genuine
    <3>3. Len(v) = Len(w) - n + 1
      BY <1>1
    <3>4. UpToAge(k)[b] = UpToAge(f)[b] + 1 /\ UpToAge(f)[b] \in Nat
      BY <1>3
    <3>5. Len(w) \in Nat /\ n \in Nat /\ i \in Int
      BY <1>2, <3>1
    <3> QED BY <3>2, <3>3, <3>4, <3>5
  <2> QED BY <2>1, <2>2
<1>6. ASSUME NEW since \in Nat, Complete(w, f, since) PROVE Complete(v, k, since)
  <2> SUFFICES ASSUME NEW b \in 0..Second, b < since
               PROVE  \E i \in DOMAIN v : v[i] <= b /\ UpToAge(k)[b] <= Len(v) - i + 1
    BY DEF Complete
  <2>1. CASE UpToAge(f)[b] = 0
    <3>1. Len(v) \in DOMAIN v /\ v[Len(v)] = 0
      BY <1>1, <1>2
    <3>2. UpToAge(k)[b] <= Len(v) - Len(v) + 1
      BY <1>1, <1>2, <1>3, <2>1
    <3>3. 0 <= b
      BY DetectorAssumption
    <3> QED BY <3>1, <3>2, <3>3
  <2>2. CASE UpToAge(f)[b] > 0
    <3>1. PICK i \in DOMAIN w : w[i] <= b /\ UpToAge(f)[b] <= Len(w) - i + 1
      BY <1>6, <2>2 DEF Complete
    <3>2. i \notin Stale(w)
      BY <1>2, <3>1, DetectorAssumption DEF Stale
    <3>3. i > n /\ i - n \in 1..(Len(w) - n) /\ n + (i - n) = i
      BY <1>1, <1>2, <3>2
    <3>4. i - n \in DOMAIN v /\ v[i - n] = w[i]
      BY <1>1, <1>2, <3>3
    <3>5. UpToAge(k)[b] <= Len(v) - (i - n) + 1
      BY <1>1, <1>2, <1>3, <3>1
    <3> QED BY <3>1, <3>4, <3>5
  <2> QED BY <1>3, <2>1, <2>2
<1> QED BY <1>4, <1>5, <1>6 DEF v

-----------------------------------------------------------------------------
(* The inductive invariant that relates what the detector keeps to what     *)
(* happened: every recorded fork is one that happened, whatever the parent, *)
(* and of a parent that is not throttled no fork since the last collection  *)
(* is missing.  (The forks of a throttled parent are not recorded: when gc  *)
(* drops it, freed starts again from 0.)                                    *)
WindowInv ==
  \A p \in Parent :
     /\ Sorted(Window(p)) /\ Genuine(Window(p), forks[p])
     /\ p \notin throttled => Complete(Window(p), forks[p], freed[p])

LEMMA CountsTyped ==
  ASSUME TypeOK, NEW p \in Parent
  PROVE  forks[p] \in Counts /\ freed[p] \in Nat
  BY DetectorAssumption DEF TypeOK, Counts

(* Nothing has happened yet, or nothing is recorded.                        *)
LEMMA EmptyWindow ==
  ASSUME NEW f
  PROVE  Sorted(<<>>) /\ Genuine(<<>>, f) /\ Complete(<<>>, f, 0)
  BY DEF Sorted, Genuine, Complete

LEMMA ForkKeeps ==
  ASSUME TypeOK, TypeOK', WindowInv, NEW p \in Parent, RecordFork(p)
  PROVE  WindowInv'
<1>1. ASSUME NEW q \in Parent, q # p
      PROVE  /\ Window(q)' = Window(q) /\ forks'[q] = forks[q] /\ freed'[q] = freed[q]
             /\ q \in throttled' <=> q \in throttled
  <2>1. forks'[q] = forks[q] /\ freed' = freed
    BY <1>1 DEF RecordFork, TypeOK
  <2>2. /\ q \in DOMAIN windows' <=> q \in DOMAIN windows
        /\ q \in DOMAIN windows => windows'[q] = windows[q]
    BY <1>1 DEF RecordFork
  <2>3. q \in throttled' <=> q \in throttled
    BY <1>1 DEF RecordFork
  <2> QED BY <2>1, <2>2, <2>3 DEF Window
<1>2. /\ forks[p] \in Counts /\ forks'[p] \in Counts /\ freed[p] \in Nat
      /\ forks'[p] = [forks[p] EXCEPT ![0] = @ + 1] /\ freed' = freed
  <2>1. forks[p] \in Counts /\ forks'[p] \in Counts /\ freed[p] \in Nat
    BY DetectorAssumption DEF TypeOK, Counts
  <2> QED BY <2>1 DEF RecordFork, TypeOK
<1>3. \A b \in 0..Second : UpToAge(forks'[p])[b] = UpToAge(forks[p])[b] + 1
  BY <1>2, UpToAgeFork
<1>4. /\ Sorted(Window(p)') /\ Genuine(Window(p)', forks'[p])
      /\ p \notin throttled' => Complete(Window(p)', forks'[p], freed'[p])
  <2>1. CASE p \in throttled
    <3>1. Window(p)' = Window(p) /\ p \in throttled'
      BY <2>1 DEF RecordFork, Window
    <3>2. Genuine(Window(p), forks'[p])
      <4>1. \A b \in 0..Second : UpToAge(forks[p])[b] \in Nat
        BY <1>2, UpToAgeDef
      <4>2. Window(p) \in Seq(Age) /\ \A i \in DOMAIN Window(p) : i \in Nat
        BY WindowTyped
      <4>3. Genuine(Window(p), forks[p])
        BY DEF WindowInv
      <4> SUFFICES ASSUME NEW b \in 0..Second, NEW i \in DOMAIN Window(p), Window(p)[i] <= b
                   PROVE  Len(Window(p)) - i + 1 <= UpToAge(forks'[p])[b]
        BY DEF Genuine
      <4>4. Len(Window(p)) - i + 1 <= UpToAge(forks[p])[b]
        BY <4>3 DEF Genuine
      <4>5. Len(Window(p)) \in Nat /\ i \in Nat
        BY <4>2
      <4> QED BY <1>3, <4>1, <4>4, <4>5
    <3> QED BY <3>1, <3>2 DEF WindowInv
  <2>2. CASE p \notin throttled
    <3>1. Window(p)' = Record(Window(p))
      BY <2>2 DEF RecordFork, Window
    <3>2. /\ Window(p) \in Seq(Age) /\ Sorted(Window(p)) /\ Genuine(Window(p), forks[p])
          /\ Complete(Window(p), forks[p], freed[p])
      BY <2>2, WindowTyped DEF WindowInv
    <3>3. /\ Sorted(Record(Window(p))) /\ Genuine(Record(Window(p)), forks'[p])
          /\ Complete(Record(Window(p)), forks'[p], freed[p])
      BY <1>2, <1>3, <3>2, RecordKeeps
    <3> QED BY <1>2, <3>1, <3>3
  <2> QED BY <2>1, <2>2
<1>5. ASSUME NEW q \in Parent
      PROVE  /\ Sorted(Window(q)') /\ Genuine(Window(q)', forks'[q])
             /\ q \notin throttled' => Complete(Window(q)', forks'[q], freed'[q])
  BY <1>1, <1>4 DEF WindowInv
<1> QED BY <1>5 DEF WindowInv

LEMMA GcKeeps ==
  ASSUME TypeOK, WindowInv, Gc
  PROVE  WindowInv'
<1> SUFFICES ASSUME NEW q \in Parent
             PROVE  /\ Sorted(Window(q)') /\ Genuine(Window(q)', forks'[q])
                    /\ q \notin throttled' => Complete(Window(q)', forks'[q], freed'[q])
  BY DEF WindowInv
<1>1. CASE q \in ColdWindows
  <2>1. Window(q)' = <<>> /\ freed'[q] = 0
    BY <1>1 DEF Gc, Window
  <2> QED BY <2>1, EmptyWindow
<1>2. CASE q \notin ColdWindows
  <2>1. /\ Window(q)' = Window(q) /\ freed'[q] = freed[q] /\ forks' = forks
        /\ q \in throttled' <=> q \in throttled
    BY <1>2 DEF Gc, Window
  <2> QED BY <2>1 DEF WindowInv
<1> QED BY <1>1, <1>2

LEMMA TickKeeps ==
  ASSUME TypeOK, TypeOK', WindowInv, Tick
  PROVE  WindowInv'
<1> SUFFICES ASSUME NEW q \in Parent
             PROVE  /\ Sorted(Window(q)') /\ Genuine(Window(q)', forks'[q])
                    /\ q \notin throttled' => Complete(Window(q)', forks'[q], freed'[q])
  BY DEF WindowInv
<1> DEFINE w == Window(q)
           v == [i \in DOMAIN w |-> Older(w[i])]
           f == forks[q]
           k == forks'[q]
<1>1. Window(q)' = v
  <2>1. CASE q \in DOMAIN windows
    BY <2>1 DEF Tick, Window
  <2>2. CASE q \notin DOMAIN windows
    <3>1. Window(q)' = <<>> /\ w = <<>>
      BY <2>2 DEF Tick, Window
    <3>2. v = <<>>
      BY <3>1
    <3> QED BY <3>1, <3>2
  <2> QED BY <2>1, <2>2
<1>2. /\ f \in Counts /\ k \in Counts /\ freed[q] \in Nat
      /\ k = [a \in 0..Cold |-> IF a = 0 THEN 0 ELSE f[a - 1]]
      /\ freed'[q] \in {freed[q], freed[q] + 1} /\ (freed'[q] = freed[q] => freed[q] > Second)
      /\ throttled' = throttled
  <2>1. f \in Counts /\ k \in Counts /\ freed[q] \in Nat
    BY DetectorAssumption DEF TypeOK, Counts
  <2> QED BY <2>1 DEF Tick
<1>3. UpToAge(k)[0] = 0 /\ \A b \in 1..Second : UpToAge(k)[b] = UpToAge(f)[b - 1]
  BY <1>2, UpToAgeTick
<1>4. w \in Seq(Age) /\ Sorted(w) /\ Genuine(w, f) /\ (q \notin throttled => Complete(w, f, freed[q]))
  BY WindowTyped DEF WindowInv
<1> HIDE DEF w, f, k
<1>5. /\ Len(w) \in Nat /\ DOMAIN w = 1..Len(w) /\ DOMAIN v = DOMAIN w /\ Len(v) = Len(w)
      /\ \A i \in DOMAIN w : w[i] \in Nat /\ v[i] = IF w[i] > Cold THEN w[i] ELSE w[i] + 1
  <2>1. DOMAIN w = 1..Len(w) /\ Len(w) \in Nat /\ \A i \in DOMAIN w : w[i] \in Nat
    BY <1>4, DetectorAssumption DEF Age
  <2>2. Len(v) = Len(w)
    BY <2>1
  <2> QED BY <2>1, <2>2 DEF Older
<1> HIDE DEF v
<1>6. Sorted(v)
  BY <1>4, <1>5, DetectorAssumption DEF Sorted
<1>7. ASSUME NEW b \in 0..Second, NEW i \in DOMAIN v, v[i] <= b
      PROVE  Len(v) - i + 1 <= UpToAge(k)[b]
  <2>1. b \in 1..Second /\ b - 1 \in 0..Second /\ w[i] <= b - 1
    BY <1>5, <1>7, DetectorAssumption
  <2>2. Len(w) - i + 1 <= UpToAge(f)[b - 1]
    BY <1>4, <1>5, <2>1 DEF Genuine
  <2> QED BY <1>3, <1>5, <2>1, <2>2
<1>8. ASSUME q \notin throttled, NEW b \in 0..Second, b < freed'[q], UpToAge(k)[b] > 0
      PROVE  \E i \in DOMAIN v : v[i] <= b /\ UpToAge(k)[b] <= Len(v) - i + 1
  <2>1. b \in 1..Second /\ b - 1 \in 0..Second /\ UpToAge(k)[b] = UpToAge(f)[b - 1]
    BY <1>3, <1>8, DetectorAssumption
  <2>2. b - 1 < freed[q]
    BY <1>2, <1>8, <2>1, DetectorAssumption
  <2>3. PICK i \in DOMAIN w : w[i] <= b - 1 /\ UpToAge(f)[b - 1] <= Len(w) - i + 1
    BY <1>4, <1>8, <2>1, <2>2 DEF Complete
  <2>4. v[i] <= b
    BY <1>5, <2>1, <2>3, DetectorAssumption
  <2> QED BY <1>5, <2>1, <2>3, <2>4
<1>9. Genuine(v, k) /\ (q \notin throttled => Complete(v, k, freed'[q]))
  BY <1>7, <1>8 DEF Genuine, Complete
<1> QED BY <1>1, <1>2, <1>6, <1>9 DEF k

-----------------------------------------------------------------------------
LEMMA InitWindow == Init => WindowInv
<1> SUFFICES ASSUME Init, NEW p \in Parent
             PROVE  /\ Sorted(Window(p)) /\ Genuine(Window(p), forks[p])
                    /\ Complete(Window(p), forks[p], freed[p])
  BY DEF WindowInv
<1>1. Window(p) = <<>> /\ \A a \in 0..Cold : forks[p][a] = 0
  BY DEF Init, Window
<1>2. forks[p] \in Counts
  BY InitTyped, CountsTyped
<1> DEFINE Good == {b \in Nat : b <= Second => UpToAge(forks[p])[b] = 0}
<1>3. 0 \in Good
  BY <1>1, <1>2, UpToAgeDef, DetectorAssumption
<1>4. ASSUME NEW b \in Nat, b \in Good PROVE b + 1 \in Good
  <2> SUFFICES ASSUME b + 1 <= Second PROVE UpToAge(forks[p])[b + 1] = 0
    OBVIOUS
  <2>1. UpToAge(forks[p])[b] = 0 /\ b + 1 \in 1..Second /\ (b + 1) - 1 = b /\ forks[p][b + 1] = 0
    BY <1>1, <1>4, DetectorAssumption
  <2> QED BY <1>2, <2>1, UpToAgeDef
<1>5. \A b \in 0..Second : UpToAge(forks[p])[b] = 0
  <2>1. Nat \subseteq Good
    <3> HIDE DEF Good
    <3> QED BY <1>3, <1>4, Induction
  <2> TAKE b \in 0..Second
  <2>2. b \in Nat /\ b <= Second
    BY DetectorAssumption
  <2>3. b \in Good
    BY <2>1, <2>2
  <2> QED BY <2>2, <2>3
<1> QED BY <1>1, <1>5 DEF Sorted, Genuine, Complete

LEMMA StepWindow == TypeOK /\ TypeOK' /\ WindowInv /\ [Next]_vars => WindowInv'
<1> SUFFICES ASSUME TypeOK, TypeOK', WindowInv, [Next]_vars PROVE WindowInv'
  OBVIOUS
<1>1. ASSUME NEW p \in Parent, RecordFork(p) PROVE WindowInv'
  BY <1>1, ForkKeeps
<1>2. CASE UNCHANGED vars
  BY <1>2 DEF vars, WindowInv, Window
<1> QED BY <1>1, <1>2, GcKeeps, TickKeeps DEF Next

LEMMA WindowHolds == Spec => [](TypeOK /\ WindowsBounded /\ WindowInv)
<1>1. Spec => []TypeOK
  BY DetectorTyped
<1>2. Spec => []WindowsBounded
  BY DetectorBounded
<1> QED BY <1>1, <1>2, InitWindow, StepWindow, PTL DEF Spec

LEMMA WindowCatches == TypeOK /\ WindowsBounded /\ WindowInv => NoMissedBomb
<1> SUFFICES ASSUME TypeOK, WindowsBounded, WindowInv, NEW p \in Parent,
                    Recent(p) > 0, Recent(p) >= Threshold, freed[p] > Second, p \notin throttled
             PROVE  FALSE
  BY DEF NoMissedBomb
<1> DEFINE w == Window(p)
           n == UpToAge(forks[p])[Second]
<1>1. w \in Seq(Age) /\ n \in Nat /\ Second \in 0..Second
  BY WindowTyped, CountsTyped, UpToAgeDef, DetectorAssumption
<1>2. n > 0 /\ n >= Threshold /\ Complete(w, forks[p], freed[p])
  BY DEF Recent, WindowInv
<1> HIDE DEF w, n
<1>3. PICK i \in DOMAIN w : w[i] <= Second /\ n <= Len(w) - i + 1
  BY <1>1, <1>2 DEF Complete, n
<1>4. Len(w) >= Threshold /\ Len(w) >= 1
  BY <1>1, <1>2, <1>3, DetectorAssumption
<1>5. p \in DOMAIN windows /\ w = windows[p]
  BY <1>4 DEF w, Window
<1> QED BY <1>4, <1>5 DEF WindowsBounded

(* No missed bomb: whatever the threshold, the rate of the forks and the    *)
(* timing of the collections, a parent that has forked as often as the      *)
(* threshold within the last second is throttled (record_fork counts every  *)
(* fork of a parent it has not reported).                                   *)
THEOREM NoBombMissed == Spec => []NoMissedBomb
  BY WindowHolds, WindowCatches, PTL

LEMMA StepAlarm ==
  ASSUME TypeOK, TypeOK', WindowInv, WindowInv', [Next]_vars
  PROVE  \A p \in throttled' \ throttled : Recent(p)' >= Threshold
<1> SUFFICES ASSUME NEW p \in throttled' \ throttled PROVE Recent(p)' >= Threshold
  OBVIOUS
<1>1. p \in Parent
  BY DEF TypeOK
<1>2. RecordFork(p)
  BY DEF Next, vars, Gc, Tick, RecordFork
<1> DEFINE w == Window(p)
           v == Record(w)
           n == UpToAge(forks'[p])[Second]
<1>3. /\ v = Window(p)' /\ Len(v) >= Threshold
      /\ w \in Seq(Age) /\ Sorted(w)
      /\ v \in Seq(Age) /\ Genuine(v, forks'[p])
  <2>1. v = Window(p)' /\ Len(v) >= Threshold
    BY <1>2 DEF RecordFork, Window
  <2>2. w \in Seq(Age) /\ Sorted(w)
    BY <1>1, WindowTyped DEF WindowInv
  <2>3. Genuine(Window(p)', forks'[p])
    BY <1>1 DEF WindowInv
  <2>4. v \in Seq(Age)
    BY <2>2, RecordBounded
  <2> QED BY <2>1, <2>2, <2>3, <2>4
<1>4. n \in Nat /\ Recent(p)' = n
  <2>1. forks'[p] \in Counts
    BY <1>1, DetectorAssumption DEF TypeOK, Counts
  <2> QED BY <2>1, UpToAgeDef, DetectorAssumption DEF Recent
<1> HIDE DEF w, v, n
<1>5. 1 \in DOMAIN v /\ v[1] <= Second
  <2>1. PICK m \in 0..Len(w) :
             /\ Stale(w) = 1..m
             /\ Len(v) = Len(w) - m + 1
             /\ DOMAIN v = 1..(Len(w) - m + 1)
             /\ v[Len(w) - m + 1] = 0
             /\ \A i \in 1..(Len(w) - m) : v[i] = w[m + i]
    BY <1>3, RecordIs DEF v
  <2>2. Len(w) \in Nat /\ DOMAIN w = 1..Len(w) /\ \A i \in DOMAIN w : w[i] \in Nat
    BY <1>3, DetectorAssumption DEF Age
  <2>3. CASE m = Len(w)
    BY <2>1, <2>2, <2>3, DetectorAssumption
  <2>4. CASE m < Len(w)
    <3>1. m + 1 \in DOMAIN w /\ m + 1 \notin Stale(w)
      BY <2>1, <2>2, <2>4
    <3>2. v[1] = w[m + 1]
      BY <2>1, <2>2, <2>4
    <3> QED BY <2>1, <2>2, <2>4, <3>1, <3>2, DetectorAssumption DEF Stale
  <2>5. m = Len(w) \/ m < Len(w)
    <3>1. m \in 0..Len(w) /\ Len(w) \in Nat
      BY <2>2
    <3>2. \A l \in Nat : \A x \in 0..l : x = l \/ x < l
      OBVIOUS
    <3> QED BY <3>1, <3>2
  <2> QED BY <2>3, <2>4, <2>5
<1>6. Len(v) - 1 + 1 <= n
  BY <1>3, <1>5, DetectorAssumption DEF Genuine, n
<1> QED BY <1>3, <1>4, <1>6, DetectorAssumption

(* No false alarm: a parent is reported only in the step of a fork that     *)
(* makes it at least as many within the last second as the threshold says.  *)
THEOREM NoAlarmFalse == Spec => NoFalseAlarm
<1>1. TypeOK /\ TypeOK' /\ WindowInv /\ WindowInv' /\ [Next]_vars
        => [\A p \in throttled' \ throttled : Recent(p)' >= Threshold]_vars
  BY StepAlarm
<1> QED BY <1>1, WindowHolds, PTL DEF Spec, NoFalseAlarm
=============================================================================
