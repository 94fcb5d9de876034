------------------------- MODULE RuleReload_proofs -------------------------
(***************************************************************************)
(* For any directories and any rules: what is loaded comes from the files  *)
(* and is in order, and classify()'s loop over it computes the closed form *)
(* that the rest of the project uses.                                      *)
(***************************************************************************)
EXTENDS RuleReload, Recursion_proofs, SequenceTheorems, FiniteSetTheorems

(* The first of a non-empty set of positions is one of them.                *)
LEMMA FirstIn ==
  ASSUME NEW S \in SUBSET Nat, S # {}
  PROVE  First(S) \in S /\ \A j \in S : First(S) <= j
  BY LeastIn DEF First

(* load_rules before its sort: directory after directory.                   *)
Grows(upto, dirs, n) ==
  /\ upto[0] = <<>>
  /\ \A k \in 1..n : upto[k] = upto[k - 1] \o dirs[k]

LEMMA ConcatDef ==
  ASSUME NEW R, NEW n \in Nat, NEW dirs \in [1..n -> Seq(R)]
  PROVE  \E upto \in [0..n -> Seq(R)] : Grows(upto, dirs, n) /\ Concat(dirs) = upto[n]
<1> DEFINE Good(f) == f = [d \in 0..n |-> IF d = 0 THEN <<>> ELSE f[d - 1] \o dirs[d]]
           g == [d \in 1..n |-> [s \in Seq(R) |-> s \o dirs[d]]]
<1>1. Len(dirs) = n
  <2>1. dirs \in Seq(Seq(R))
    BY SeqDef
  <2>2. DOMAIN dirs = 1..Len(dirs) /\ Len(dirs) \in Nat /\ DOMAIN dirs = 1..n
    BY <2>1, LenProperties
  <2> QED BY <2>2
<1>2. g \in [1..n -> [Seq(R) -> Seq(R)]]
  OBVIOUS
<1>3. \E f \in [0..n -> Seq(R)] :
         f = [i \in 0..n |-> IF i = 0 THEN <<>> ELSE g[i][f[i - 1]]]
  <2> DEFINE S == Seq(R)
             base == <<>>
  <2>1. base \in S /\ g \in [1..n -> [S -> S]]
    BY <1>2
  <2>2. \E f \in [0..n -> S] : Recursive(f, n, base, g)
    <3> HIDE DEF g, S, base
    <3> QED BY <2>1, Recursion
  <2> HIDE DEF g
  <2> QED BY <2>2 DEF Recursive
<1>4. \E f : Good(f)
  <2>1. PICK f \in [0..n -> Seq(R)] :
          f = [i \in 0..n |-> IF i = 0 THEN <<>> ELSE g[i][f[i - 1]]]
    BY <1>3
  <2>2. \A i \in 0..n : i # 0 => g[i][f[i - 1]] = f[i - 1] \o dirs[i]
    <3>1. \A i \in 1..n : f[i - 1] \in Seq(R)
      OBVIOUS
    <3>2. \A i \in 1..n : \A s \in Seq(R) : g[i][s] = s \o dirs[i]
      OBVIOUS
    <3>3. \A i \in 0..n : i # 0 => i \in 1..n
      OBVIOUS
    <3> HIDE DEF g
    <3> QED BY <3>1, <3>2, <3>3, Zenon
  <2>3. \A i \in 0..n : f[i] = IF i = 0 THEN <<>> ELSE f[i - 1] \o dirs[i]
    <3> HIDE DEF g
    <3> QED BY <2>1, <2>2
  <2>4. Good(f)
    BY <2>3
  <2> QED BY <2>4
<1> DEFINE upto == CHOOSE f : Good(f)
<1>5. Good(upto)
  BY <1>4
<1> HIDE DEF upto
<1> DEFINE In == {k \in Nat : k <= n => upto[k] \in Seq(R)}
<1>6. 0 \in In
  BY <1>5
<1>7. ASSUME NEW k \in Nat, k \in In PROVE k + 1 \in In
  <2> SUFFICES ASSUME k + 1 <= n PROVE upto[k + 1] \in Seq(R)
    OBVIOUS
  <2>1. upto[k] \in Seq(R) /\ dirs[k + 1] \in Seq(R)
    BY <1>7
  <2>2. upto[k + 1] = upto[k] \o dirs[k + 1]
    <3>1. k + 1 \in 0..n /\ k + 1 # 0 /\ (k + 1) - 1 = k
      OBVIOUS
    <3>2. upto[k + 1] = upto[(k + 1) - 1] \o dirs[k + 1]
      BY <1>5, <3>1
    <3> QED BY <3>1, <3>2
  <2> QED BY <2>1, <2>2
<1>8. Nat \subseteq In
  <2> HIDE DEF In
  <2> QED BY <1>6, <1>7, Induction
<1>9. upto \in [0..n -> Seq(R)]
  <2>1. \A k \in 0..n : k \in Nat /\ k <= n
    OBVIOUS
  <2>2. \A k \in 0..n : upto[k] \in Seq(R)
    BY <1>8, <2>1
  <2>3. upto = [k \in 0..n |-> upto[k]]
    BY <1>5
  <2> QED BY <2>2, <2>3
<1>10. Grows(upto, dirs, n)
  <2>1. \A k \in 0..n : upto[k] = IF k = 0 THEN <<>> ELSE upto[k - 1] \o dirs[k]
    BY <1>5
  <2>2. 0 \in 0..n /\ \A k \in 1..n : k \in 0..n /\ k # 0
    OBVIOUS
  <2> QED BY <2>1, <2>2, Zenon DEF Grows
<1>11. Concat(dirs) = upto[n]
  BY <1>1 DEF Concat, upto
<1> QED BY <1>9, <1>10, <1>11

(* The rules of the files, none made up.                                    *)
LEMMA ConcatType ==
  ASSUME NEW R, NEW n \in Nat, NEW dirs \in [1..n -> Seq(R)]
  PROVE  Concat(dirs) \in Seq(R)
BY ConcatDef

(* None left out and none twice: s lists the rules of the first d           *)
(* directories, each at one position.                                       *)
Places(dirs, d) == {q \in (1..d) \X Nat : q[2] \in DOMAIN dirs[q[1]]}

Lists(s, b, dirs, d) ==
  /\ b \in [DOMAIN s -> Places(dirs, d)]
  /\ \A k, l \in DOMAIN s : b[k] = b[l] => k = l
  /\ \A q \in Places(dirs, d) : \E k \in DOMAIN s : b[k] = q
  /\ \A k \in DOMAIN s : s[k] = dirs[b[k][1]][b[k][2]]

LEMMA ListsOneMore ==
  ASSUME NEW R, NEW n \in Nat, NEW dirs \in [1..n -> Seq(R)], NEW d \in 1..n,
         NEW s \in Seq(R), NEW b, Lists(s, b, dirs, d - 1)
  PROVE  \E c : Lists(s \o dirs[d], c, dirs, d)
<1> DEFINE t == dirs[d]
           m == Len(s)
           c == [k \in 1..(m + Len(t)) |-> IF k <= m THEN b[k] ELSE <<d, k - m>>]
<1>1. /\ t \in Seq(R) /\ m \in Nat /\ Len(t) \in Nat
      /\ DOMAIN s = 1..m /\ DOMAIN t = 1..Len(t)
  OBVIOUS
<1>2. /\ DOMAIN (s \o t) = 1..(m + Len(t))
      /\ \A k \in 1..(m + Len(t)) : (s \o t)[k] = IF k <= m THEN s[k] ELSE t[k - m]
  BY <1>1
<1> DEFINE new == {<<d, i>> : i \in DOMAIN t}
<1>3. Places(dirs, d) = Places(dirs, d - 1) \cup new
  <2>1. \A e \in 1..d : e = d \/ e \in 1..(d - 1)
    OBVIOUS
  <2>2. 1..(d - 1) \subseteq 1..d /\ d \in 1..d /\ DOMAIN t \subseteq Nat
    BY <1>1
  <2> HIDE DEF t
  <2>3. Places(dirs, d) \subseteq Places(dirs, d - 1) \cup new
    <3> SUFFICES ASSUME NEW q \in Places(dirs, d), q[1] = d PROVE q \in new
      BY <2>1 DEF Places
    <3>1. q = <<d, q[2]>> /\ q[2] \in DOMAIN t
      BY DEF Places, t
    <3> QED BY <3>1
  <2>4. Places(dirs, d - 1) \subseteq Places(dirs, d)
    BY <2>2 DEF Places
  <2>5. new \subseteq Places(dirs, d)
    BY <2>2 DEF Places, t
  <2> QED BY <2>3, <2>4, <2>5
<1>4. \A q \in Places(dirs, d - 1) : q[1] # d
  BY DEF Places
<1>5. /\ \A k \in 1..m : b[k] \in Places(dirs, d - 1)
      /\ \A k, l \in 1..m : b[k] = b[l] => k = l
      /\ \A q \in Places(dirs, d - 1) : \E k \in 1..m : b[k] = q
      /\ \A k \in 1..m : s[k] = dirs[b[k][1]][b[k][2]]
  BY <1>1 DEF Lists
<1> HIDE DEF t, m
<1>6. \A k \in 1..(m + Len(t)) :
         \/ k \in 1..m /\ c[k] = b[k] /\ c[k][1] # d
         \/ k > m /\ k - m \in DOMAIN t /\ c[k] = <<d, k - m>>
  <2> TAKE k \in 1..(m + Len(t))
  <2>1. CASE k <= m
    <3>1. k \in 1..m /\ c[k] = b[k]
      BY <1>1, <2>1
    <3> QED BY <1>4, <1>5, <3>1
  <2>2. CASE k > m
    BY <1>1, <2>2
  <2> QED BY <1>1, <2>1, <2>2
<1> HIDE DEF c
<1>7. c \in [1..(m + Len(t)) -> Places(dirs, d)]
  <2>1. ASSUME NEW k \in 1..(m + Len(t)) PROVE c[k] \in Places(dirs, d)
    <3>1. CASE k \in 1..m /\ c[k] = b[k]
      BY <1>3, <1>5, <3>1
    <3>2. CASE k - m \in DOMAIN t /\ c[k] = <<d, k - m>>
      BY <1>3, <3>2
    <3> QED BY <1>6, <3>1, <3>2
  <2> QED BY <2>1 DEF c
<1>8. ASSUME NEW k \in 1..(m + Len(t)), NEW l \in 1..(m + Len(t)), c[k] = c[l] PROVE k = l
  <2>1. CASE k \in 1..m /\ c[k] = b[k] /\ c[k][1] # d
    <3>1. l \in 1..m /\ c[l] = b[l]
      <4>1. c[l] # <<d, l - m>>
        BY <1>8, <2>1
      <4> QED BY <1>6, <4>1
    <3>2. b[k] = b[l] /\ k \in 1..m /\ l \in 1..m
      BY <1>8, <2>1, <3>1
    <3> QED BY <1>5, <3>2
  <2>2. CASE k > m /\ k - m \in DOMAIN t /\ c[k] = <<d, k - m>>
    <3>1. c[k][1] = d
      BY <2>2
    <3>2. c[l] = <<d, l - m>>
      BY <1>6, <1>8, <3>1
    <3>3. k - m = l - m
      <4>1. c[k][2] = k - m /\ c[l][2] = l - m
        BY <2>2, <3>2
      <4> QED BY <1>8, <4>1
    <3> QED BY <1>1, <3>3
  <2> QED BY <1>6, <2>1, <2>2
<1>9. ASSUME NEW q \in Places(dirs, d) PROVE \E k \in 1..(m + Len(t)) : c[k] = q
  <2>1. CASE q \in Places(dirs, d - 1)
    <3>1. PICK k \in 1..m : b[k] = q
      BY <1>5, <2>1
    <3>2. k \in 1..(m + Len(t)) /\ c[k] = b[k]
      BY <1>1 DEF c
    <3> QED BY <3>1, <3>2
  <2>2. CASE q \in new
    <3>1. PICK i \in DOMAIN t : q = <<d, i>>
      BY <2>2
    <3>2. m + i \in 1..(m + Len(t)) /\ c[m + i] = <<d, i>>
      BY <1>1 DEF c
    <3> QED BY <3>1, <3>2
  <2> QED BY <1>3, <2>1, <2>2
<1>10. ASSUME NEW k \in 1..(m + Len(t)) PROVE (s \o t)[k] = dirs[c[k][1]][c[k][2]]
  <2>1. CASE k \in 1..m /\ c[k] = b[k] /\ c[k][1] # d
    <3>1. (s \o t)[k] = s[k]
      <4>1. k <= m
        BY <1>1, <2>1
      <4> QED BY <1>2, <4>1
    <3>2. s[k] = dirs[b[k][1]][b[k][2]]
      BY <1>5, <2>1
    <3> QED BY <2>1, <3>1, <3>2
  <2>2. CASE k > m /\ k - m \in DOMAIN t /\ c[k] = <<d, k - m>>
    BY <1>1, <1>2, <2>2 DEF t
  <2> QED BY <1>6, <2>1, <2>2
<1>11. Lists(s \o t, c, dirs, d)
  BY <1>2, <1>7, <1>8, <1>9, <1>10 DEF Lists
<1> QED BY <1>11 DEF t

LEMMA ConcatLists ==
  ASSUME NEW R, NEW n \in Nat, NEW dirs \in [1..n -> Seq(R)]
  PROVE  \E b : Lists(Concat(dirs), b, dirs, n)
<1>1. PICK upto \in [0..n -> Seq(R)] : Grows(upto, dirs, n) /\ Concat(dirs) = upto[n]
  BY ConcatDef
<1> DEFINE Good == {d \in Nat : d <= n => \E b : Lists(upto[d], b, dirs, d)}
<1>2. 0 \in Good
  <2> DEFINE b == [k \in {} |-> k]
  <2>1. upto[0] = <<>> /\ DOMAIN upto[0] = {} /\ Places(dirs, 0) = {}
    BY <1>1 DEF Grows, Places
  <2>2. Lists(upto[0], b, dirs, 0)
    BY <2>1 DEF Lists
  <2> QED BY <2>2
<1>3. ASSUME NEW d \in Nat, d \in Good PROVE d + 1 \in Good
  <2> SUFFICES ASSUME d + 1 <= n PROVE \E b : Lists(upto[d + 1], b, dirs, d + 1)
    OBVIOUS
  <2>1. d + 1 \in 1..n /\ (d + 1) - 1 = d /\ upto[d] \in Seq(R)
    BY <1>1
  <2>2. PICK b : Lists(upto[d], b, dirs, d)
    BY <1>3
  <2>3. upto[d + 1] = upto[d] \o dirs[d + 1]
    BY <1>1, <2>1 DEF Grows
  <2> QED BY <2>1, <2>2, <2>3, ListsOneMore
<1>4. Nat \subseteq Good
  <2> HIDE DEF Good
  <2> QED BY <1>2, <1>3, Induction
<1> QED BY <1>1, <1>4

(* t holds the entries of s, each at one position of its own.               *)
Permutes(t, s) ==
  \E to \in [DOMAIN t -> DOMAIN s] :
     /\ \A k, l \in DOMAIN t : to[k] = to[l] => k = l
     /\ \A i \in DOMAIN s : \E k \in DOMAIN t : to[k] = i
     /\ \A k \in DOMAIN t : t[k] = s[to[k]]

(* The sort gives back the rules of the list, each as often as it is there, *)
(* in descending priority.                                                  *)
LEMMA StableSortSorts ==
  ASSUME NEW R, \A r \in R : r.priority \in Int, NEW s \in Seq(R)
  PROVE  /\ StableSort(s) \in Seq(R)
         /\ \A k, l \in DOMAIN StableSort(s) :
              k < l => StableSort(s)[k].priority >= StableSort(s)[l].priority
         /\ Permutes(StableSort(s), s)
<1> DEFINE n == Len(s)
           before(i, j) == \/ s[i].priority > s[j].priority
                           \/ s[i].priority = s[j].priority /\ i <= j
           above(j) == {i \in DOMAIN s : before(i, j)}
           rank(j)  == Cardinality(above(j))
           at(k)    == CHOOSE j \in DOMAIN s : rank(j) = k
           sorted   == [k \in DOMAIN s |-> s[at(k)]]
<1>1. n \in Nat /\ DOMAIN s = 1..n
  BY LenProperties
<1>2. \A i \in DOMAIN s : s[i] \in R /\ s[i].priority \in Int /\ i \in Int
  BY <1>1
<1>3. \A i, j \in DOMAIN s : /\ (before(i, j) \/ before(j, i))
                              /\ i # j => ~(before(i, j) /\ before(j, i))
  BY <1>2
<1>4. \A i, j \in DOMAIN s : before(i, j) => above(i) \subseteq above(j)
  <2>1. \A h, i, j \in DOMAIN s : before(h, i) /\ before(i, j) => before(h, j)
    BY <1>2
  <2> HIDE DEF before
  <2> QED BY <2>1
<1>5. IsFiniteSet(1..n) /\ Cardinality(1..n) = n
  <2> HIDE DEF n
  <2>1. 1 \in Int /\ n \in Int
    BY <1>1
  <2>2. IsFiniteSet(1..n) /\ Cardinality(1..n) = IF 1 > n THEN 0 ELSE n - 1 + 1
    BY <2>1, FS_Interval
  <2> QED BY <1>1, <2>2
<1>6. \A j \in DOMAIN s : /\ IsFiniteSet(above(j)) /\ j \in above(j)
                           /\ rank(j) \in Nat /\ rank(j) <= n /\ rank(j) # 0
  <2> SUFFICES ASSUME NEW j \in DOMAIN s
               PROVE  /\ IsFiniteSet(above(j)) /\ j \in above(j)
                      /\ rank(j) \in Nat /\ rank(j) <= n /\ rank(j) # 0
    OBVIOUS
  <2>1. j \in above(j)
    BY <1>3
  <2>2. above(j) \subseteq 1..n
    BY <1>1
  <2> HIDE DEF above
  <2>3. IsFiniteSet(above(j)) /\ rank(j) <= n
    BY <1>5, <2>2, FS_Subset
  <2>4. rank(j) \in Nat
    BY <2>3, FS_CardinalityType
  <2>5. rank(j) # 0
    BY <2>1, <2>3, FS_EmptySet
  <2> QED BY <2>1, <2>3, <2>4, <2>5
<1>7. \A i, j \in DOMAIN s : before(i, j) => rank(i) <= rank(j)
  <2> HIDE DEF above, before
  <2> QED BY <1>4, <1>6, FS_Subset
<1>8. \A i, j \in DOMAIN s : before(i, j) /\ i # j => rank(i) # rank(j)
  <2> SUFFICES ASSUME NEW i \in DOMAIN s, NEW j \in DOMAIN s, before(i, j), i # j,
                      rank(i) = rank(j)
               PROVE  FALSE
    OBVIOUS
  <2>1. j \notin above(i)
    BY <1>3
  <2>2. above(i) \subseteq above(j)
    BY <1>4
  <2> HIDE DEF above, before
  <2>3. above(i) = above(j)
    BY <1>6, <2>2, FS_Subset
  <2> QED BY <1>6, <2>1, <2>3
<1>9. \A i, j \in DOMAIN s : rank(i) = rank(j) => i = j
  <2> SUFFICES ASSUME NEW i \in DOMAIN s, NEW j \in DOMAIN s, rank(i) = rank(j), i # j
               PROVE  FALSE
    OBVIOUS
  <2>1. before(i, j) \/ before(j, i)
    BY <1>3
  <2> HIDE DEF rank, before
  <2>2. ~before(i, j)
    BY <1>8
  <2>3. ~before(j, i)
    BY <1>8
  <2> QED BY <2>1, <2>2, <2>3
<1>10. \A k \in 1..n : \E j \in DOMAIN s : rank(j) = k
  <2> HIDE DEF rank
  <2> DEFINE f == [j \in 1..n |-> rank(j)]
  <2>1. f \in [1..n -> 1..n]
    <3> SUFFICES ASSUME NEW j \in 1..n PROVE rank(j) \in 1..n
      OBVIOUS
    <3>1. rank(j) \in Nat /\ rank(j) <= n /\ rank(j) # 0
      BY <1>1, <1>6
    <3> HIDE DEF n
    <3> QED BY <1>1, <3>1
  <2>2. f \in Injection(1..n, 1..n)
    BY <1>1, <1>9, <2>1 DEF Injection, IsInjective
  <2>3. f \in Surjection(1..n, 1..n)
    <3> HIDE DEF f
    <3> QED BY <1>5, <2>2, FS_Injection
  <2> QED BY <1>1, <2>3 DEF Surjection
<1>11. \A k \in 1..n : at(k) \in DOMAIN s /\ rank(at(k)) = k
  <2> HIDE DEF rank
  <2> QED BY <1>10
<1>12. StableSort(s) = sorted
  BY DEF StableSort
<1> HIDE DEF rank, at
<1>13. sorted \in Seq(R) /\ DOMAIN sorted = 1..n
  <2>1. sorted \in [1..n -> R]
    BY <1>1, <1>2, <1>11
  <2> QED BY <1>1, <2>1, SeqDef
<1>14. ASSUME NEW k \in 1..n, NEW l \in 1..n, k < l
       PROVE  sorted[k].priority >= sorted[l].priority
  <2> SUFFICES ASSUME s[at(k)].priority < s[at(l)].priority PROVE FALSE
    BY <1>1, <1>2, <1>11
  <2>1. before(at(l), at(k))
    BY <1>2, <1>11
  <2>2. rank(at(l)) <= rank(at(k))
    BY <1>7, <1>11, <2>1
  <2>3. rank(at(l)) = l /\ rank(at(k)) = k
    BY <1>11
  <2> HIDE DEF n
  <2>4. k \in Int /\ l \in Int /\ l <= k
    BY <1>1, <2>2, <2>3
  <2> QED BY <1>14, <2>4
<1> DEFINE to == [k \in 1..n |-> at(k)]
<1>15. /\ to \in [1..n -> DOMAIN s]
       /\ \A k, l \in 1..n : to[k] = to[l] => k = l
       /\ \A k \in 1..n : sorted[k] = s[to[k]]
  BY <1>1, <1>11
<1>16. ASSUME NEW i \in DOMAIN s PROVE \E k \in 1..n : to[k] = i
  <2>1. rank(i) \in 1..n
    <3>1. rank(i) \in Nat /\ rank(i) <= n /\ rank(i) # 0
      BY <1>6
    <3> HIDE DEF n
    <3> QED BY <1>1, <3>1
  <2>2. at(rank(i)) = i
    <3>1. at(rank(i)) \in DOMAIN s /\ rank(at(rank(i))) = rank(i)
      BY <1>11, <2>1
    <3> QED BY <1>9, <3>1
  <2> QED BY <2>1, <2>2
<1> HIDE DEF sorted, to
<1>17. \A k, l \in DOMAIN sorted : k < l => sorted[k].priority >= sorted[l].priority
  BY <1>13, <1>14
<1>18. Permutes(sorted, s)
  <2>1. to \in [DOMAIN sorted -> DOMAIN s]
    BY <1>13, <1>15
  <2> SUFFICES \E u \in [DOMAIN sorted -> DOMAIN s] :
                 /\ \A k, l \in DOMAIN sorted : u[k] = u[l] => k = l
                 /\ \A i \in DOMAIN s : \E k \in DOMAIN sorted : u[k] = i
                 /\ \A k \in DOMAIN sorted : sorted[k] = s[u[k]]
    BY DEF Permutes
  <2> WITNESS to \in [DOMAIN sorted -> DOMAIN s]
  <2> QED BY <1>13, <1>15, <1>16
<1> QED BY <1>12, <1>13, <1>17, <1>18

(* load_rules: rules of the files, in descending priority.                  *)
LEMMA LoadedIsSorted ==
  ASSUME NEW dirs \in [1..Files -> Contents]
  PROVE  /\ LoadRules(dirs) \in Seq(Rules)
         /\ \A i, j \in DOMAIN LoadRules(dirs) :
              i < j => LoadRules(dirs)[i].priority >= LoadRules(dirs)[j].priority
<1>1. dirs \in [1..Files -> Seq(Rules)] /\ Files \in Nat
  BY RuleAssumption
<1>2. Concat(dirs) \in Seq(Rules)
  BY <1>1, ConcatType
<1>3. \A r \in Rules : r.priority \in Int
  BY RuleAssumption
<1> QED BY <1>2, <1>3, StableSortSorts DEF LoadRules

(* The least of a set of positions, once it is known.                       *)
LEMMA FirstIs ==
  ASSUME NEW S \in SUBSET Nat, NEW m \in S, \A j \in S : m <= j
  PROVE  First(S) = m
<1>1. First(S) \in S /\ \A j \in S : First(S) <= j
  BY FirstIn
<1>2. First(S) <= m /\ m <= First(S) /\ First(S) \in Nat /\ m \in Nat
  BY <1>1
<1> QED BY <1>2

(* What the rules of a set U give: the closed form, for any such set.       *)
Own(rs, p, a, i)      == [rs[i].action EXCEPT !.opt = Censored(@, p, a)]
Opt(rs, p, a, i)      == Censored(rs[i].action.opt, p, a)
Setting(rs, p, a, U, f) == {i \in U : Opt(rs, p, a, i)[f] # None}
FieldOf(rs, p, a, U, f) == IF Setting(rs, p, a, U, f) = {} THEN None
                           ELSE Opt(rs, p, a, First(Setting(rs, p, a, U, f)))[f]
Given(rs, p, a, U) ==
  IF U = {} THEN None
  ELSE [rs[First(U)].action EXCEPT !.opt = [f \in Field |-> FieldOf(rs, p, a, U, f)]]

LEMMA GivenIsRulesAction ==
  ASSUME NEW rs, NEW p, NEW a
  PROVE  RulesAction(rs, p, a) = Given(rs, p, a, UsedRules(rs, p, a))
BY DEF RulesAction, Given, FieldOf, Setting, Opt

(* A first rule that counts: its action, as censored.                       *)
LEMMA GivenFirst ==
  ASSUME NEW rs, NEW p, NEW a, NEW i \in Nat, rs[i].action \in Action
  PROVE  Given(rs, p, a, {i}) = Own(rs, p, a, i)
<1>1. First({i}) = i
  BY FirstIs
<1>2. \A f \in Field : FieldOf(rs, p, a, {i}, f) = Opt(rs, p, a, i)[f]
  <2> SUFFICES ASSUME NEW f \in Field
               PROVE  FieldOf(rs, p, a, {i}, f) = Opt(rs, p, a, i)[f]
    OBVIOUS
  <2>1. CASE Opt(rs, p, a, i)[f] = None
    <3>1. Setting(rs, p, a, {i}, f) = {}
      BY <2>1 DEF Setting
    <3> QED BY <2>1, <3>1 DEF FieldOf
  <2>2. CASE Opt(rs, p, a, i)[f] # None
    <3>1. Setting(rs, p, a, {i}, f) = {i}
      BY <2>2 DEF Setting
    <3> QED BY <1>1, <3>1 DEF FieldOf
  <2> QED BY <2>1, <2>2
<1>3. [f \in Field |-> FieldOf(rs, p, a, {i}, f)] = Opt(rs, p, a, i)
  BY <1>2 DEF Opt, Censored
<1> QED BY <1>1, <1>3 DEF Given, Opt, Own

(* A later rule that counts: merged into what the earlier ones gave.        *)
LEMMA GivenNext ==
  ASSUME NEW rs, NEW p, NEW a, NEW U \in SUBSET Nat, U # {},
         NEW i \in Nat, \A j \in U : j < i, \A j \in U : rs[j].action \in Action,
         rs[i].action \in Action
  PROVE  Given(rs, p, a, U \cup {i})
           = MergeAction(Given(rs, p, a, U), Own(rs, p, a, i))
<1> DEFINE V   == U \cup {i}
           dst == Given(rs, p, a, U)
           src == Own(rs, p, a, i)
           fof(W) == [f \in Field |-> FieldOf(rs, p, a, W, f)]
<1>1. First(U) \in U /\ \A j \in U : First(U) <= j
  BY FirstIn
<1>2. First(V) = First(U)
  <2>1. V \in SUBSET Nat /\ First(U) \in V
    BY <1>1
  <2>2. \A j \in V : First(U) <= j
    <3>1. First(U) < i /\ First(U) \in Nat
      BY <1>1
    <3>2. First(U) <= i
      BY <3>1
    <3> QED BY <1>1, <3>2
  <2> HIDE DEF V
  <2> QED BY <2>1, <2>2, FirstIs
<1>3. rs[First(U)].action \in Action
  BY <1>1
<1>4. dst.opt = fof(U) /\ src.opt = Opt(rs, p, a, i)
  BY <1>3 DEF Given, Action, Opt, Own
<1>5. \A f \in Field : FieldOf(rs, p, a, V, f) =
                          IF dst.opt[f] # None THEN dst.opt[f] ELSE src.opt[f]
  <2> SUFFICES ASSUME NEW f \in Field
               PROVE  FieldOf(rs, p, a, V, f) =
                        IF dst.opt[f] # None THEN dst.opt[f] ELSE src.opt[f]
    OBVIOUS
  <2>1. dst.opt[f] = FieldOf(rs, p, a, U, f) /\ src.opt[f] = Opt(rs, p, a, i)[f]
    BY <1>4
  <2> DEFINE X == Setting(rs, p, a, U, f)
             Y == Setting(rs, p, a, V, f)
  <2>2. /\ X \subseteq U /\ X \subseteq Y /\ Y \subseteq X \cup {i}
        /\ i \in Y <=> Opt(rs, p, a, i)[f] # None
    BY DEF Setting
  <2>3. CASE X # {}
    <3>1. First(X) \in X /\ \A j \in X : First(X) <= j
      BY <2>2, <2>3, FirstIn
    <3>2. First(Y) = First(X) /\ Y # {}
      <4>1. First(X) < i /\ First(X) \in Nat
        BY <2>2, <3>1
      <4>2. \A j \in Y : First(X) <= j
        <5> HIDE DEF X, Y
        <5> QED BY <2>2, <3>1, <4>1
      <4>3. Y \in SUBSET Nat /\ First(X) \in Y
        <5> HIDE DEF X, Y
        <5> QED BY <2>2, <3>1
      <4> HIDE DEF X, Y
      <4> QED BY <4>2, <4>3, FirstIs
    <3>3. Opt(rs, p, a, First(X))[f] # None
      BY <3>1 DEF Setting
    <3>4. FieldOf(rs, p, a, U, f) = Opt(rs, p, a, First(X))[f]
      BY <2>3 DEF FieldOf
    <3>5. FieldOf(rs, p, a, V, f) = Opt(rs, p, a, First(X))[f]
      BY <3>2 DEF FieldOf
    <3> QED BY <2>1, <3>3, <3>4, <3>5
  <2>4. CASE X = {}
    <3>1. FieldOf(rs, p, a, U, f) = None
      BY <2>4 DEF FieldOf
    <3>2. CASE i \in Y
      <4>1. Y = {i} /\ First({i}) = i
        BY <2>2, <2>4, <3>2, FirstIs
      <4>2. FieldOf(rs, p, a, V, f) = Opt(rs, p, a, i)[f]
        BY <4>1 DEF FieldOf
      <4> QED BY <2>1, <3>1, <4>2
    <3>3. CASE i \notin Y
      <4>1. Y = {} /\ Opt(rs, p, a, i)[f] = None
        BY <2>2, <2>4, <3>3
      <4>2. FieldOf(rs, p, a, V, f) = None
        BY <4>1 DEF FieldOf
      <4> QED BY <2>1, <3>1, <4>1, <4>2
    <3> QED BY <3>2, <3>3
  <2> QED BY <2>3, <2>4
<1> HIDE DEF src
<1>6. MergeAction(dst, src) = [dst EXCEPT !.opt = fof(V)]
  BY <1>5 DEF MergeAction
<1>7. dst = [rs[First(U)].action EXCEPT !.opt = fof(U)]
  BY DEF Given
<1>8. Given(rs, p, a, V) = [rs[First(U)].action EXCEPT !.opt = fof(V)]
  BY <1>2 DEF Given
<1>9. [dst EXCEPT !.opt = fof(V)] = [rs[First(U)].action EXCEPT !.opt = fof(V)]
  <2> HIDE DEF dst, fof
  <2> QED BY <1>3, <1>7 DEF Action
<1> QED BY <1>6, <1>8, <1>9 DEF src

(* Rules that count give an action.                                         *)
LEMMA GivenSomething ==
  ASSUME NEW rs, NEW p, NEW a, NEW U \in SUBSET Nat, U # {},
         \A j \in U : rs[j].action \in Action
  PROVE  Given(rs, p, a, U) # None
<1>1. rs[First(U)].action \in Action
  BY FirstIn
<1>2. \A f \in Field : FieldOf(rs, p, a, U, f) \in Value \cup {None}
  <2> SUFFICES ASSUME NEW f \in Field, Setting(rs, p, a, U, f) # {}
               PROVE  Opt(rs, p, a, First(Setting(rs, p, a, U, f)))[f] \in Value \cup {None}
    BY DEF FieldOf
  <2>1. First(Setting(rs, p, a, U, f)) \in U
    BY FirstIn DEF Setting
  <2> QED BY <2>1 DEF Opt, Censored, Action
<1>3. [f \in Field |-> FieldOf(rs, p, a, U, f)] \in [Field -> Value \cup {None}]
  BY <1>2
<1>4. [rs[First(U)].action EXCEPT !.opt = [f \in Field |-> FieldOf(rs, p, a, U, f)]] \in Action
  BY <1>1, <1>3 DEF Action
<1> QED BY <1>4, NoneAssumption DEF Given

(* The state of the loop after i rules: what the rules that count among     *)
(* them give, and whether one of them had no "continue".                    *)
Counted(rs, p, a, i) == UsedRules(rs, p, a) \cap 1..i
After(rs, p, a, i) ==
  [result |-> Given(rs, p, a, Counted(rs, p, a, i)),
   stop   |-> \E k \in Counted(rs, p, a, i) : ~rs[k].continue]

(* One turn of the loop goes from one such state to the next.               *)
LEMMA TurnCounts ==
  ASSUME NEW R, \A r \in R : r.action \in Action, NEW rs \in Seq(R),
         NEW p, NEW a, NEW i \in 1..Len(rs)
  PROVE  After(rs, p, a, i) = Visit(rs[i], p, a, After(rs, p, a, i - 1))
<1> DEFINE used == UsedRules(rs, p, a)
           hit(j) == Matches(rs[j].match, p, Parent(a))
           new  == Counted(rs, p, a, i)
           old  == Counted(rs, p, a, i - 1)
           s    == After(rs, p, a, i - 1)
           src  == Own(rs, p, a, i)
<1>1. DOMAIN rs = 1..Len(rs) /\ Len(rs) \in Nat
  BY LenProperties
<1>2. \A j \in DOMAIN rs : rs[j].action \in Action
  BY <1>1
<1>3. \A j : j \in used <=> /\ j \in DOMAIN rs /\ hit(j)
                             /\ \A k \in DOMAIN rs : hit(k) /\ k < j => rs[k].continue
  BY DEF UsedRules
<1>4. used \subseteq 1..Len(rs)
  BY <1>1, <1>3
<1>5. /\ new = IF i \in used THEN old \cup {i} ELSE old
      /\ old \in SUBSET Nat /\ \A j \in old : j < i
  BY <1>1, <1>4 DEF Counted
<1>6. \A j \in old : j \in used /\ rs[j].action \in Action
  BY <1>2, <1>1, <1>4 DEF Counted
<1>7. s = [result |-> Given(rs, p, a, old), stop |-> \E k \in old : ~rs[k].continue]
  BY DEF After
<1>8. ASSUME hit(i), ~s.stop PROVE i \in used
  <2> DEFINE final == {j \in DOMAIN rs : hit(j) /\ ~rs[j].continue /\ j < i}
  <2>1. ASSUME final # {} PROVE FALSE
    <3>1. First(final) \in final /\ \A j \in final : First(final) <= j
      <4>1. final \in SUBSET Nat
        BY <1>1
      <4> HIDE DEF final
      <4> QED BY <2>1, <4>1, FirstIn
    <3>2. First(final) \in used
      <4>1. ASSUME NEW k \in DOMAIN rs, hit(k), k < First(final) PROVE rs[k].continue
        <5>1. k \notin final
          <6>1. k \in Int /\ First(final) \in Int
            BY <1>1, <3>1
          <6> HIDE DEF final
          <6> QED BY <3>1, <4>1, <6>1
        <5>2. k \in Int /\ First(final) \in Int /\ i \in Int /\ First(final) < i
          BY <1>1, <3>1
        <5>3. k < i
          <6> HIDE DEF final
          <6> QED BY <4>1, <5>2
        <5> QED BY <4>1, <5>1, <5>3
      <4> QED BY <1>3, <3>1, <4>1
    <3>3. First(final) \in old
      <4>1. First(final) \in 1..Len(rs) /\ First(final) < i
        BY <1>1, <3>1
      <4> HIDE DEF final
      <4>2. First(final) \in 1..(i - 1)
        BY <1>1, <4>1
      <4> QED BY <3>2, <4>2 DEF Counted
    <3> QED BY <1>7, <1>8, <3>1, <3>3
  <2> QED BY <1>1, <1>3, <1>8, <2>1
<1>9. CASE s.stop \/ ~hit(i)
  <2>1. i \notin used
    BY <1>1, <1>3, <1>5, <1>6, <1>7, <1>9
  <2>2. new = old
    BY <1>5, <2>1
  <2>3. After(rs, p, a, i) = s
    BY <2>2 DEF After
  <2> QED BY <1>9, <2>3 DEF Visit
<1>10. CASE ~s.stop /\ hit(i)
  <2>1. i \in used /\ new = old \cup {i} /\ i \in Nat /\ rs[i].action \in Action
    BY <1>1, <1>2, <1>5, <1>8, <1>10
  <2>2. (\E k \in new : ~rs[k].continue) <=> ~rs[i].continue
    BY <1>7, <1>10, <2>1
  <2>3. Given(rs, p, a, new) = IF s.result = None THEN src ELSE MergeAction(s.result, src)
    <3>1. CASE old = {}
      <4>1. s.result = None /\ new = {i}
        BY <1>7, <2>1, <3>1 DEF Given
      <4>2. Given(rs, p, a, {i}) = src
        BY <2>1, GivenFirst
      <4> HIDE DEF src, s
      <4> QED BY <4>1, <4>2
    <3>2. CASE old # {}
      <4>1. Given(rs, p, a, new) = MergeAction(Given(rs, p, a, old), src)
        BY <1>5, <1>6, <2>1, <3>2, GivenNext
      <4>2. Given(rs, p, a, old) # None
        BY <1>5, <1>6, <3>2, GivenSomething
      <4> QED BY <1>7, <4>1, <4>2
    <3> QED BY <3>1, <3>2
  <2>4. Visit(rs[i], p, a, s) =
          [result |-> IF s.result = None THEN src ELSE MergeAction(s.result, src),
           stop   |-> ~rs[i].continue]
    BY <1>10 DEF Visit, Own
  <2> QED BY <2>2, <2>3, <2>4 DEF After
<1> QED BY <1>9, <1>10

(* The loop of classify() computes the closed form, for any list of rules.  *)
LEMMA LoopComputes ==
  ASSUME NEW R, \A r \in R : r.action \in Action, NEW rs \in Seq(R), NEW p, NEW a
  PROVE  RulesAction(rs, p, a) = RuleLoop(rs, p, a)
<1> DEFINE N == Len(rs)
           Empty == [result |-> None, stop |-> FALSE]
           Runs(f) == f = [i \in 0..N |-> IF i = 0 THEN Empty ELSE Visit(rs[i], p, a, f[i - 1])]
           run == CHOOSE f : Runs(f)
           after == [i \in 0..N |-> After(rs, p, a, i)]
<1>1. N \in Nat /\ DOMAIN rs = 1..N
  BY LenProperties
<1>2. After(rs, p, a, 0) = Empty
  <2>1. Counted(rs, p, a, 0) = {}
    BY DEF Counted
  <2> QED BY <2>1 DEF After, Given
<1>3. \A i \in 1..N : After(rs, p, a, i) = Visit(rs[i], p, a, After(rs, p, a, i - 1))
  BY TurnCounts
<1>4. Runs(after)
  <2>1. \A i \in 1..N : after[i] = After(rs, p, a, i) /\ after[i - 1] = After(rs, p, a, i - 1)
    BY <1>1
  <2>2. \A i \in 0..N : i # 0 => i \in 1..N
    BY <1>1
  <2>3. after[0] = Empty
    BY <1>1, <1>2
  <2>4. \A i \in 0..N : after[i] = IF i = 0 THEN Empty ELSE Visit(rs[i], p, a, after[i - 1])
    <3> HIDE DEF after, Empty
    <3> QED BY <1>3, <2>1, <2>2, <2>3
  <2> HIDE DEF Empty
  <2> QED BY <2>4
<1>5. Runs(run)
  BY <1>4
<1> HIDE DEF run
<1> DEFINE Same == {i \in Nat : i <= N => run[i] = After(rs, p, a, i)}
<1>6. 0 \in Same
  BY <1>1, <1>2, <1>5
<1>7. ASSUME NEW i \in Nat, i \in Same PROVE i + 1 \in Same
  <2> SUFFICES ASSUME i + 1 <= N PROVE run[i + 1] = After(rs, p, a, i + 1)
    OBVIOUS
  <2>1. run[i] = After(rs, p, a, i) /\ i + 1 \in 1..N /\ (i + 1) - 1 = i
    BY <1>1, <1>7
  <2>2. run[i + 1] = Visit(rs[i + 1], p, a, run[i])
    <3> HIDE DEF N, Empty
    <3>1. i + 1 \in 0..N /\ i + 1 # 0
      BY <1>1, <2>1
    <3>2. run[i + 1] = Visit(rs[i + 1], p, a, run[(i + 1) - 1])
      BY <1>5, <3>1
    <3> QED BY <2>1, <3>2
  <2>3. After(rs, p, a, i + 1) = Visit(rs[i + 1], p, a, After(rs, p, a, i))
    <3> HIDE DEF N
    <3>1. After(rs, p, a, i + 1) = Visit(rs[i + 1], p, a, After(rs, p, a, (i + 1) - 1))
      BY <1>3, <2>1
    <3> QED BY <2>1, <3>1
  <2> QED BY <2>1, <2>2, <2>3
<1>8. run[N] = After(rs, p, a, N)
  <2>1. Nat \subseteq Same
    <3> HIDE DEF Same
    <3> QED BY <1>6, <1>7, Induction
  <2> QED BY <1>1, <2>1
<1>9. Counted(rs, p, a, N) = UsedRules(rs, p, a)
  BY <1>1 DEF Counted, UsedRules
<1>10. RuleLoop(rs, p, a) = run[N].result
  BY DEF RuleLoop, run
<1> QED BY <1>8, <1>9, <1>10, GivenIsRulesAction DEF After

(* Below a listed command no rule that counts has a cgroup left to give.    *)
LEMMA ExemptStays ==
  ASSUME NEW rs, NEW p, NEW a, DOMAIN rs \subseteq Nat,
         \A i \in DOMAIN rs : rs[i].action \in Action,
         IsCgroupExempt(p, a), RulesAction(rs, p, a) # None
  PROVE  RulesAction(rs, p, a).opt["cgroup"] = None
<1> DEFINE U == UsedRules(rs, p, a)
<1>1. RulesAction(rs, p, a) = Given(rs, p, a, U)
  BY GivenIsRulesAction
<1>2. U # {}
  BY <1>1 DEF Given
<1>3. U \subseteq DOMAIN rs
  BY DEF UsedRules
<1>4. First(U) \in U
  BY <1>2, <1>3, FirstIn
<1>5. rs[First(U)].action \in Action
  BY <1>3, <1>4
<1>6. \A i : Opt(rs, p, a, i)["cgroup"] = None
  BY DEF Opt, Censored, Field
<1>7. FieldOf(rs, p, a, U, "cgroup") = None
  BY <1>6 DEF FieldOf, Setting
<1>8. Given(rs, p, a, U).opt = [f \in Field |-> FieldOf(rs, p, a, U, f)]
  BY <1>2, <1>5 DEF Given, Action
<1> QED BY <1>1, <1>7, <1>8 DEF Field

-----------------------------------------------------------------------------
(* The inductive invariant: the types, the order of the loaded rules, and   *)
(* that what was read of a file nobody changed since is what it holds.      *)
Gathered == \A f \in 1..Len(read) : f \notin touched => f \notin broken /\ read[f] = disk[f]

Loaded == TypeOK /\ PrioritiesFall /\ Gathered /\ (~loading => read = <<>>)

LEMMA ReadFileLoads ==
  ASSUME Loaded, ReadFile
  PROVE  Loaded'
<1> USE DEF Loaded
<1> DEFINE next == Len(read) + 1
<1>1. /\ loading /\ next <= Files
      /\ disk' = disk /\ broken' = broken /\ rules' = rules
      /\ IF next \in broken THEN Ends
         ELSE read' = Append(read, disk[next]) /\ UNCHANGED <<loading, touched>>
  BY DEF ReadFile
<1>2. read \in Seq(Contents) /\ Len(read) \in Nat /\ Files \in Nat
  BY RuleAssumption DEF TypeOK
<1>3. PrioritiesFall'
  BY <1>1 DEF PrioritiesFall
<1>4. CASE next \in broken
  <2>1. loading' = FALSE /\ read' = <<>> /\ touched' = {}
    BY <1>1, <1>4 DEF Ends
  <2>2. read' \in Seq(Contents) /\ Len(read') = 0
    BY <2>1
  <2>3. TypeOK'
    <3> HIDE DEF Rules
    <3>1. Len(read') <= Files
      BY <1>2, <2>2
    <3>2. disk' \in [1..Files -> Contents] /\ broken' \subseteq 1..Files /\ rules' \in Seq(Rules)
      BY <1>1 DEF TypeOK
    <3>3. loading' \in BOOLEAN /\ touched' \subseteq 1..Files
      BY <2>1
    <3> QED BY <2>2, <3>1, <3>2, <3>3, Zenon DEF TypeOK
  <2>4. Gathered'
    BY <2>2 DEF Gathered
  <2> QED BY <1>3, <2>1, <2>3, <2>4
<1>5. CASE next \notin broken
  <2>1. read' = Append(read, disk[next]) /\ loading' = loading /\ touched' = touched
    BY <1>1, <1>5
  <2>2. next \in 1..Files /\ disk[next] \in Contents
    BY <1>1, <1>2 DEF TypeOK
  <2>3. /\ read' \in Seq(Contents) /\ Len(read') = next
        /\ \A f \in 1..Len(read) : read'[f] = read[f]
        /\ read'[next] = disk[next]
    BY <1>2, <2>1, <2>2, AppendProperties
  <2>4. TypeOK'
    BY <1>1, <2>1, <2>3 DEF TypeOK
  <2>5. Gathered'
    <3> SUFFICES ASSUME NEW f \in 1..next, f \notin touched
                 PROVE  f \notin broken /\ read'[f] = disk[f]
      BY <1>1, <2>1, <2>3 DEF Gathered
    <3>1. f \in 1..Len(read) \/ f = next
      BY <1>2
    <3> QED BY <1>5, <2>3, <3>1 DEF Gathered
  <2> QED BY <1>1, <1>3, <2>1, <2>4, <2>5
<1> QED BY <1>4, <1>5

LEMMA LoadedStep ==
  ASSUME Loaded, [Next]_vars
  PROVE  Loaded'
<1> USE DEF Loaded
<1>1. ASSUME NEW f \in 1..Files, Edit(f) \/ Break(f) \/ Mend(f)
      PROVE  Loaded'
  <2>1. /\ rules' = rules /\ loading' = loading /\ read' = read
        /\ touched' = IF loading THEN touched \cup {f} ELSE {}
        /\ \A g \in 1..Files : g # f => (disk'[g] = disk[g] /\ (g \in broken' <=> g \in broken))
    BY <1>1 DEF Edit, Break, Mend, Touch, TypeOK
  <2>2. disk' \in [1..Files -> Contents] /\ broken' \subseteq 1..Files
    BY <1>1 DEF Edit, Break, Mend, TypeOK
  <2>3. TypeOK' /\ PrioritiesFall'
    BY <2>1, <2>2 DEF TypeOK, PrioritiesFall
  <2>4. Gathered'
    <3>1. CASE ~loading
      BY <2>1, <3>1 DEF Gathered
    <3>2. CASE loading
      <4> SUFFICES ASSUME NEW g \in 1..Len(read), g \notin touched, g # f
                   PROVE  g \notin broken' /\ read[g] = disk'[g]
        BY <2>1, <3>2 DEF Gathered
      <4>1. g \in 1..Files
        BY RuleAssumption DEF TypeOK
      <4> QED BY <2>1, <4>1 DEF Gathered
    <3> QED BY <3>1, <3>2
  <2> QED BY <2>1, <2>3, <2>4
<1>2. CASE Reload
  BY <1>2 DEF Reload, TypeOK, PrioritiesFall, Gathered
<1>3. CASE ReadFile
  BY <1>3, ReadFileLoads
<1>4. CASE Replace
  <2>1. /\ rules' = LoadRules(read) /\ disk' = disk /\ broken' = broken
        /\ loading' = FALSE /\ read' = <<>> /\ touched' = {}
    BY <1>4 DEF Replace, Ends
  <2>2. read \in [1..Files -> Contents]
    BY <1>4, LenProperties DEF Replace, TypeOK
  <2>3. /\ LoadRules(read) \in Seq(Rules)
        /\ \A i, j \in DOMAIN LoadRules(read) :
             i < j => LoadRules(read)[i].priority >= LoadRules(read)[j].priority
    BY <2>2, LoadedIsSorted
  <2>4. read' \in Seq(Contents) /\ Len(read') = 0
    BY <2>1
  <2>5. TypeOK'
    <3>1. Len(read') <= Files
      BY <2>4, RuleAssumption
    <3>2. /\ disk' \in [1..Files -> Contents] /\ broken' \subseteq 1..Files
          /\ loading' \in BOOLEAN /\ touched' \subseteq 1..Files
      BY <2>1 DEF TypeOK
    <3> QED BY <2>1, <2>3, <2>4, <3>1, <3>2, Zenon DEF TypeOK
  <2>6. Gathered'
    BY <2>4 DEF Gathered
  <2>7. PrioritiesFall'
    BY <2>1, <2>3, Zenon DEF PrioritiesFall
  <2> QED BY <2>1, <2>5, <2>6, <2>7
<1>5. CASE UNCHANGED vars
  BY <1>5 DEF vars, TypeOK, PrioritiesFall, Gathered
<1> QED BY <1>1, <1>2, <1>3, <1>4, <1>5 DEF Next

LEMMA LoadedAlways == Spec => []Loaded
<1>1. Init => Loaded
  <2> SUFFICES ASSUME Init PROVE Loaded
    OBVIOUS
  <2>1. /\ disk \in [1..Files -> Contents] /\ broken = {} /\ rules = LoadRules(disk)
        /\ loading = FALSE /\ read = <<>> /\ touched = {}
    BY DEF Init
  <2>2. read \in Seq(Contents) /\ Len(read) = 0
    BY <2>1
  <2>3. /\ LoadRules(disk) \in Seq(Rules)
        /\ \A i, j \in DOMAIN LoadRules(disk) :
             i < j => LoadRules(disk)[i].priority >= LoadRules(disk)[j].priority
    BY <2>1, LoadedIsSorted
  <2>4. TypeOK
    <3>1. Len(read) <= Files
      BY <2>2, RuleAssumption
    <3>2. broken \subseteq 1..Files /\ touched \subseteq 1..Files /\ loading \in BOOLEAN
      BY <2>1
    <3> QED BY <2>1, <2>2, <2>3, <3>1, <3>2, Zenon DEF TypeOK
  <2>5. Gathered
    BY <2>2 DEF Gathered
  <2>6. PrioritiesFall
    BY <2>1, <2>3, Zenon DEF PrioritiesFall
  <2> QED BY <2>1, <2>4, <2>5, <2>6 DEF Loaded
<1>2. Loaded /\ [Next]_vars => Loaded'
  BY LoadedStep
<1> QED BY <1>1, <1>2, PTL DEF Spec

(* Whatever the files hold and however often they are broken, mended and    *)
(* reloaded, RuleEngine::rules holds only rules of the files.               *)
THEOREM RulesTyped == Spec => []TypeOK
<1>1. Loaded => TypeOK
  BY DEF Loaded
<1> QED BY <1>1, LoadedAlways, PTL

(* The rules are always in descending order of their priorities: the sort   *)
(* of load_rules sorts any list.                                            *)
THEOREM RulesInOrder == Spec => []PrioritiesFall
<1>1. Loaded => PrioritiesFall
  BY DEF Loaded
<1> QED BY <1>1, LoadedAlways, PTL

(* At every moment the loop, run over the rules that are loaded, merging    *)
(* action after action, computes the closed form.                           *)
THEOREM LoopAlwaysComputes == Spec => []LoopIsClosedForm
<1>1. TypeOK => LoopIsClosedForm
  BY LoopComputes, RuleAssumption DEF TypeOK, LoopIsClosedForm
<1> QED BY <1>1, RulesTyped, PTL

(* No list of rules gives a process that the exception list protects a      *)
(* verdict that moves it, or a fully exempt program any verdict; what a     *)
(* verdict on its parent does to it through apply_to_children is not meant. *)
THEOREM ExceptionsAlwaysHold == Spec => []ExceptionsHold
<1>1. TypeOK => ExceptionsHold
  <2> SUFFICES ASSUME TypeOK, NEW p \in Procs, NEW a \in Ancestries,
                      Classify(rules, p, a) # None
               PROVE  LET above == {a[i] : i \in DOMAIN a} IN
                      /\ p.comm \notin FullyExempt /\ above \cap AncestorNames = {}
                      /\ ({p.comm} \cup above) \cap NoCgroupMove # {} =>
                           Classify(rules, p, a).opt.cgroup = None
    BY DEF ExceptionsHold
  <2>1. Classify(rules, p, a) = RulesAction(rules, p, a) /\ ~IsExempt(p, a)
    BY DEF Classify
  <2>2. p.comm \notin FullyExempt /\ {a[i] : i \in DOMAIN a} \cap AncestorNames = {}
    BY <2>1 DEF IsExempt
  <2>3. ASSUME ({p.comm} \cup {a[i] : i \in DOMAIN a}) \cap NoCgroupMove # {}
        PROVE  Classify(rules, p, a).opt.cgroup = None
    <3>1. IsCgroupExempt(p, a)
      BY <2>3 DEF IsCgroupExempt
    <3>2. DOMAIN rules \subseteq Nat /\ \A i \in DOMAIN rules : rules[i].action \in Action
      <4>1. rules \in Seq(Rules)
        BY DEF TypeOK
      <4> QED BY <4>1, LenProperties, RuleAssumption
    <3>3. RulesAction(rules, p, a).opt["cgroup"] = None
      BY <2>1, <3>1, <3>2, ExemptStays
    <3> QED BY <2>1, <3>3
  <2> QED BY <2>2, <2>3
<1> QED BY <1>1, RulesTyped, PTL

(* Behind a rule that matches and does not continue nothing counts, so that *)
(* two lists that agree up to there give the same.                          *)
LEMMA UsedBefore ==
  ASSUME NEW R, NEW rs \in Seq(R), NEW p, NEW a, NEW i \in DOMAIN rs,
         Matches(rs[i].match, p, Parent(a)), ~rs[i].continue
  PROVE  UsedRules(rs, p, a) \subseteq 1..i
<1>1. DOMAIN rs = 1..Len(rs) /\ Len(rs) \in Nat
  BY LenProperties
<1> SUFFICES ASSUME NEW u \in UsedRules(rs, p, a) PROVE u \in 1..i
  OBVIOUS
<1>2. u \in DOMAIN rs /\ ~(i < u)
  BY DEF UsedRules
<1> QED BY <1>1, <1>2

LEMMA SameGiven ==
  ASSUME NEW rs, NEW so, NEW p, NEW a, NEW U \in SUBSET Nat, \A j \in U : so[j] = rs[j]
  PROVE  Given(so, p, a, U) = Given(rs, p, a, U)
<1>1. \A j \in U, f \in Field : Opt(so, p, a, j)[f] = Opt(rs, p, a, j)[f]
  BY DEF Opt
<1>2. \A f \in Field : FieldOf(so, p, a, U, f) = FieldOf(rs, p, a, U, f)
  <2> SUFFICES ASSUME NEW f \in Field
               PROVE  FieldOf(so, p, a, U, f) = FieldOf(rs, p, a, U, f)
    OBVIOUS
  <2> DEFINE S == Setting(rs, p, a, U, f)
  <2>1. Setting(so, p, a, U, f) = S
    BY <1>1 DEF Setting
  <2>2. CASE S = {}
    BY <2>1, <2>2 DEF FieldOf
  <2>3. CASE S # {}
    <3>1. First(S) \in U
      BY <2>3, FirstIn DEF Setting
    <3> HIDE DEF S
    <3>2. Opt(so, p, a, First(S))[f] = Opt(rs, p, a, First(S))[f]
      BY <1>1, <3>1
    <3> QED BY <2>1, <3>2 DEF FieldOf, S
  <2> QED BY <2>2, <2>3
<1>3. U # {} => so[First(U)] = rs[First(U)]
  BY FirstIn
<1> QED BY <1>2, <1>3 DEF Given

LEMMA FinalHides ==
  ASSUME NEW R, NEW rs \in Seq(R), NEW so \in Seq(R), NEW p, NEW a, NEW i \in DOMAIN rs,
         Matches(rs[i].match, p, Parent(a)), ~rs[i].continue,
         \A j \in 1..i : j \in DOMAIN so /\ so[j] = rs[j]
  PROVE  Classify(so, p, a) = Classify(rs, p, a)
<1>1. /\ DOMAIN rs = 1..Len(rs) /\ Len(rs) \in Nat
      /\ DOMAIN so = 1..Len(so) /\ Len(so) \in Nat /\ 1..i \subseteq DOMAIN rs /\ i \in 1..i
  BY LenProperties
<1>2. i \in DOMAIN so /\ so[i] = rs[i]
  BY <1>1
<1>3. UsedRules(rs, p, a) \subseteq 1..i /\ UsedRules(so, p, a) \subseteq 1..i
  BY <1>2, UsedBefore
<1> DEFINE hits(s) == {j \in 1..i : Matches(s[j].match, p, Parent(a))}
           upTo(s) == {j \in hits(s) : \A k \in hits(s) : k < j => s[k].continue}
<1>4. ASSUME NEW s, NEW n \in Nat, DOMAIN s = 1..n, 1..i \subseteq 1..n,
             UsedRules(s, p, a) \subseteq 1..i
      PROVE  UsedRules(s, p, a) = upTo(s)
  <2>1. \A j \in 1..i, k \in 1..n : k < j => k \in 1..i
    <3>1. i \in Nat
      BY <1>1
    <3> QED BY <1>4, <3>1
  <2>2. UsedRules(s, p, a) \subseteq upTo(s)
    BY <1>4 DEF UsedRules
  <2>3. upTo(s) \subseteq UsedRules(s, p, a)
    BY <1>4, <2>1 DEF UsedRules
  <2> QED BY <2>2, <2>3
<1>5. upTo(so) = upTo(rs)
  OBVIOUS
<1>6. UsedRules(so, p, a) = UsedRules(rs, p, a)
  <2> HIDE DEF upTo
  <2>1. UsedRules(rs, p, a) = upTo(rs)
    BY <1>1, <1>3, <1>4
  <2>2. 1..i \subseteq 1..Len(so)
    BY <1>1
  <2>3. UsedRules(so, p, a) = upTo(so)
    BY <1>1, <1>3, <1>4, <2>2
  <2> QED BY <1>5, <2>1, <2>3
<1>7. RulesAction(so, p, a) = RulesAction(rs, p, a)
  <2> DEFINE U == UsedRules(rs, p, a)
  <2>1. U \in SUBSET Nat /\ \A j \in U : so[j] = rs[j]
    BY <1>1, <1>3
  <2> HIDE DEF U
  <2>2. Given(so, p, a, U) = Given(rs, p, a, U)
    BY <2>1, SameGiven
  <2> QED BY <1>6, <2>2, GivenIsRulesAction DEF U
<1> QED BY <1>7 DEF Classify

(* A matching rule without "continue" is the last word in any rule list:    *)
(* the loop of classify() stops there, and the sort of load_rules has put   *)
(* everything of lower priority behind it.                                  *)
THEOREM FinalAlwaysHides == Spec => []FinalRuleHides
<1>1. Loaded => FinalRuleHides
  <2> SUFFICES ASSUME Loaded, NEW p \in Procs, NEW a \in Ancestries, NEW i \in DOMAIN rules,
                      Matches(rules[i].match, p, Parent(a)), ~rules[i].continue,
                      NEW other \in Replaced,
                      \A j \in DOMAIN rules : rules[j].priority >= rules[i].priority
                                               => j \in DOMAIN other /\ other[j] = rules[j]
               PROVE  Classify(other, p, a) = Classify(rules, p, a)
    BY DEF FinalRuleHides
  <2>1. rules \in Seq(Rules)
    BY DEF Loaded, TypeOK
  <2>2. DOMAIN rules = 1..Len(rules) /\ Len(rules) \in Nat
    BY <2>1, LenProperties
  <2>3. other \in Seq(Rules)
    <3>1. PICK n \in 0..Len(rules), c \in Contents : other = SubSeq(rules, 1, n) \o c
      BY DEF Replaced
    <3>2. c \in Seq(Rules)
      BY RuleAssumption
    <3>3. SubSeq(rules, 1, n) \in Seq(Rules)
      <4>1. \A k \in 1..n : rules[k] \in Rules
        BY <2>1, <2>2
      <4> HIDE DEF Rules
      <4> QED BY <2>1, <2>2, <4>1
    <3> QED BY <3>1, <3>2, <3>3
  <2>4. \A j \in 1..i : j \in DOMAIN other /\ other[j] = rules[j]
    <3> SUFFICES ASSUME NEW j \in 1..i PROVE rules[j].priority >= rules[i].priority
      BY <2>2
    <3>1. j \in DOMAIN rules /\ (j < i \/ j = i)
      BY <2>2
    <3>2. rules[i] \in Rules /\ rules[i].priority \in Int
      BY <2>1, RuleAssumption
    <3> QED BY <3>1, <3>2 DEF Loaded, PrioritiesFall
  <2> QED BY <2>1, <2>3, <2>4, FinalHides
<1> QED BY <1>1, LoadedAlways, PTL

-----------------------------------------------------------------------------
(* What is loaded holds every rule as often as the files do.                *)
CopiesOf(t, r) == {i \in DOMAIN t : t[i] = r}
FiledIn(dirs, n, r) ==
  UNION {{<<d, i>> : i \in {j \in DOMAIN dirs[d] : dirs[d][j] = r}} : d \in 1..n}

LEMMA LoadedCounts ==
  ASSUME NEW R, \A q \in R : q.priority \in Int, NEW n \in Nat,
         NEW dirs \in [1..n -> Seq(R)], NEW r
  PROVE  Cardinality(CopiesOf(LoadRules(dirs), r)) = Cardinality(FiledIn(dirs, n, r))
<1> DEFINE s == Concat(dirs)
           t == LoadRules(dirs)
           S == CopiesOf(t, r)
           T == FiledIn(dirs, n, r)
<1> USE DEF CopiesOf, FiledIn
<1>1. s \in Seq(R)
  BY ConcatType
<1>2. PICK b : Lists(s, b, dirs, n)
  BY ConcatLists
<1>3. t \in Seq(R) /\ t = StableSort(s)
  BY <1>1, StableSortSorts DEF LoadRules
<1>4. PICK to \in [DOMAIN t -> DOMAIN s] :
         /\ \A k, l \in DOMAIN t : to[k] = to[l] => k = l
         /\ \A i \in DOMAIN s : \E k \in DOMAIN t : to[k] = i
         /\ \A k \in DOMAIN t : t[k] = s[to[k]]
  <2>1. Permutes(t, s)
    BY <1>1, <1>3, StableSortSorts
  <2> HIDE DEF s, t
  <2> QED BY <2>1 DEF Permutes
<1> DEFINE f == [k \in S |-> b[to[k]]]
<1>5. T = {q \in Places(dirs, n) : dirs[q[1]][q[2]] = r}
  <2> DEFINE P == {q \in Places(dirs, n) : dirs[q[1]][q[2]] = r}
  <2>1. ASSUME NEW q \in T PROVE q \in P
    <3>0. PICK d \in 1..n : q \in {<<d, i>> : i \in {j \in DOMAIN dirs[d] : dirs[d][j] = r}}
      OBVIOUS
    <3>1. PICK i \in DOMAIN dirs[d] : dirs[d][i] = r /\ q = <<d, i>>
      BY <3>0
    <3>2. i \in Nat
      <4>1. dirs[d] \in Seq(R)
        OBVIOUS
      <4> QED BY <4>1, LenProperties
    <3> QED BY <3>1, <3>2 DEF Places
  <2>2. ASSUME NEW q \in P PROVE q \in T
    <3>1. q[1] \in 1..n /\ q[2] \in DOMAIN dirs[q[1]] /\ dirs[q[1]][q[2]] = r
      BY DEF Places
    <3>2. q = <<q[1], q[2]>>
      BY DEF Places
    <3> QED BY <3>1, <3>2
  <2> QED BY <2>1, <2>2
<1>6. /\ \A k \in DOMAIN s : b[k] \in Places(dirs, n) /\ s[k] = dirs[b[k][1]][b[k][2]]
      /\ \A k, l \in DOMAIN s : b[k] = b[l] => k = l
      /\ \A q \in Places(dirs, n) : \E k \in DOMAIN s : b[k] = q
  BY <1>2 DEF Lists
<1> HIDE DEF s, t, T
<1>7. IsFiniteSet(S)
  <2>1. DOMAIN t = 1..Len(t) /\ Len(t) \in Nat
    BY <1>3, LenProperties
  <2>2. IsFiniteSet(1..Len(t)) /\ S \subseteq 1..Len(t)
    BY <2>1, FS_Interval
  <2> HIDE DEF S
  <2> QED BY <2>2, FS_Subset
<1>8. f \in [S -> T]
  <2> SUFFICES ASSUME NEW k \in S PROVE b[to[k]] \in T
    OBVIOUS
  <2>1. to[k] \in DOMAIN s /\ s[to[k]] = r
    BY <1>4
  <2> QED BY <1>5, <1>6, <2>1
<1>9. \A k, l \in S : f[k] = f[l] => k = l
  <2> SUFFICES ASSUME NEW k \in S, NEW l \in S, b[to[k]] = b[to[l]] PROVE k = l
    OBVIOUS
  <2>1. to[k] \in DOMAIN s /\ to[l] \in DOMAIN s
    BY <1>4
  <2> QED BY <1>4, <1>6, <2>1
<1>10. \A q \in T : \E k \in S : f[k] = q
  <2> SUFFICES ASSUME NEW q \in T PROVE \E k \in S : b[to[k]] = q
    OBVIOUS
  <2>1. PICK i \in DOMAIN s : b[i] = q
    BY <1>5, <1>6
  <2>2. s[i] = r
    BY <1>5, <1>6, <2>1
  <2>3. PICK k \in DOMAIN t : to[k] = i
    BY <1>4
  <2> QED BY <1>4, <2>1, <2>2, <2>3
<1>11. ExistsBijection(S, T)
  <2> HIDE DEF S, f
  <2>1. f \in Injection(S, T)
    BY <1>8, <1>9 DEF Injection, IsInjective
  <2>2. f \in Surjection(S, T)
    BY <1>8, <1>10 DEF Surjection
  <2> QED BY <2>1, <2>2 DEF ExistsBijection, Bijection
<1>12. Cardinality(T) = Cardinality(S)
  <2> HIDE DEF S
  <2> QED BY <1>7, <1>11, FS_Bijection
<1> QED BY <1>12 DEF t, S, T

LEMMA ReloadStep ==
  ASSUME Loaded, [Next]_vars, rules' # rules
  PROVE  /\ broken \subseteq touched
         /\ \E seen \in [1..Files -> Contents] :
              /\ \A f \in 1..Files \ touched : seen[f] = disk[f]
              /\ \A r \in Rules : Copies(rules', r) = Filed(seen, r)
<1>1. Replace
  BY DEF Next, Edit, Break, Mend, Reload, ReadFile, vars
<1>2. Len(read) = Files /\ rules' = LoadRules(read)
  BY <1>1 DEF Replace
<1>3. read \in [1..Files -> Contents] /\ read \in [1..Files -> Seq(Rules)] /\ Files \in Nat
  BY <1>2, RuleAssumption, LenProperties DEF Loaded, TypeOK
<1>4. \A f \in 1..Files \ touched : f \notin broken /\ read[f] = disk[f]
  BY <1>2 DEF Loaded, Gathered
<1>5. broken \subseteq touched
  BY <1>4 DEF Loaded, TypeOK
<1>6. \A q \in Rules : q.priority \in Int
  BY RuleAssumption
<1> HIDE DEF Rules
<1>7. \A r \in Rules : Copies(rules', r) = Filed(read, r)
  <2> SUFFICES ASSUME NEW r \in Rules PROVE Copies(rules', r) = Filed(read, r)
    OBVIOUS
  <2>1. Cardinality(CopiesOf(LoadRules(read), r)) = Cardinality(FiledIn(read, Files, r))
    BY <1>3, <1>6, LoadedCounts
  <2> QED BY <1>2, <2>1, Zenon DEF Copies, Filed, CopiesOf, FiledIn
<1> QED BY <1>3, <1>4, <1>5, <1>7

(* A reload is all or nothing, for any files and any changes while it runs: *)
(* with a broken file the rules stay, and otherwise the concatenation and   *)
(* the sort of load_rules lose no rule of what was read, add none and load  *)
(* none twice; and what was read of a file is what it holds, unless it was  *)
(* changed while the reload ran.                                            *)
THEOREM ReloadAlwaysWhole == Spec => ReloadAllOrNothing
<1>1. Loaded /\ [Next]_vars
        => [rules' # rules =>
              /\ broken \subseteq touched
              /\ \E seen \in [1..Files -> Contents] :
                   /\ \A f \in 1..Files \ touched : seen[f] = disk[f]
                   /\ \A r \in Rules : Copies(rules', r) = Filed(seen, r)]_vars
  BY ReloadStep
<1> QED BY <1>1, LoadedAlways, PTL DEF Spec, ReloadAllOrNothing
=============================================================================
