----------------------------- MODULE AlgoProofs -----------------------------
(***************************************************************************)
(* Proofs about AlgoAgreement, for lists of any size, any builds of the    *)
(* two endpoints and anything their applications ask for.                  *)
(***************************************************************************)
EXTENDS AlgoAgreement, FiniteSetTheorems, TLAPS

-----------------------------------------------------------------------------
(* Induction.  The loops over the lists are recursive functions; induction *)
(* is stated with a set instead of a predicate and follows from the finite *)
(* subsets of Nat being well-founded.                                      *)

(* A non-empty set of naturals has a least element. *)
LEMMA LeastNumber ==
    ASSUME NEW T \in SUBSET Nat, T # {}
    PROVE  \E x \in T : \A y \in T : x <= y
<1> DEFINE R == StrictSubsetOrdering(Nat)
           U == {0..n : n \in T}
<1>1. IsWellFoundedOn(R, FiniteSubsetsOf(Nat))
  BY FS_StrictSubsetOrderingWellFounded
<1>2. U \subseteq FiniteSubsetsOf(Nat)
  <2> SUFFICES ASSUME NEW n \in T PROVE 0..n \in FiniteSubsetsOf(Nat)
    OBVIOUS
  <2>1. IsFiniteSet(0..n) /\ 0..n \subseteq Nat
    BY FS_Interval
  <2> QED BY <2>1 DEF FiniteSubsetsOf
<1>3. U # {}
  OBVIOUS
<1> HIDE DEF R, U
<1>4. PICK u \in U : \A v \in U : ~(<<v, u>> \in R)
  BY <1>1, <1>2, <1>3, WFMin
<1>5. PICK x \in T : u = 0..x
  BY DEF U
<1>6. ASSUME NEW y \in T, y < x PROVE FALSE
  <2>1. 0..y \in U
    BY DEF U
  <2>2. 0..y \subseteq 0..x /\ x \in 0..x /\ x \notin 0..y
    BY <1>6
  <2>3. <<0..y, 0..x>> \in R
    BY <1>2, <1>5, <2>1, <2>2 DEF R, StrictSubsetOrdering, FiniteSubsetsOf, U
  <2> QED BY <1>4, <1>5, <2>1, <2>3
<1> QED BY <1>6

(* Induction up to n. *)
LEMMA InductionUpTo ==
    ASSUME NEW n \in Nat, NEW S, 0 \in S, \A i \in 1..n : i - 1 \in S => i \in S
    PROVE  0..n \subseteq S
<1> DEFINE T == {i \in 0..n : i \notin S}
<1> SUFFICES ASSUME T # {} PROVE FALSE
  OBVIOUS
<1>1. PICK x \in T : \A y \in T : x <= y
  <2>1. T \in SUBSET Nat
    OBVIOUS
  <2> HIDE DEF T
  <2> QED BY <2>1, LeastNumber
<1>2. x \in 1..n /\ x - 1 \in 0..n /\ x - 1 \in S
  BY <1>1
<1> QED BY <1>1, <1>2

(* The values after each step of a loop over 1..n. *)
Steps(f, c, n, step) == f = [i \in 0..n |-> IF i = 0 THEN c ELSE step[<<f[i - 1], i>>]]

(* A loop has a value after every step. *)
LEMMA Loop ==
    ASSUME NEW S, NEW c \in S, NEW n \in Nat, NEW step \in [S \X (1..n) -> S]
    PROVE  \E f \in [0..n -> S] : Steps(f, c, n, step)
<1> DEFINE Upto(k, f) == /\ f \in [0..k -> S] /\ f[0] = c
                         /\ \A i \in 1..k : f[i] = step[<<f[i - 1], i>>]
           K == {k \in 0..n : \E f : Upto(k, f)}
<1>1. 0 \in K
  <2> DEFINE f == [i \in 0..0 |-> c]
  <2>1. Upto(0, f)
    OBVIOUS
  <2> HIDE DEF Upto, f
  <2> QED BY <2>1
<1>2. ASSUME NEW k \in 1..n, k - 1 \in K PROVE k \in K
  <2>1. PICK f : Upto(k - 1, f)
    BY <1>2
  <2> DEFINE g == [i \in 0..k |-> IF i = k THEN step[<<f[k - 1], k>>] ELSE f[i]]
  <2>2. /\ f \in [0 .. k - 1 -> S] /\ f[0] = c
        /\ \A i \in 1 .. k - 1 : f[i] = step[<<f[i - 1], i>>]
    BY <2>1
  <2> HIDE DEF K
  <2>3. k \in 0..k /\ k - 1 \in 0 .. k - 1 /\ 0 \in 0 .. k - 1
    OBVIOUS
  <2>4. step[<<f[k - 1], k>>] \in S
    <3>1. f[k - 1] \in S
      BY <2>2, <2>3
    <3> QED BY <3>1
  <2>5. g \in [0..k -> S]
    <3> SUFFICES ASSUME NEW i \in 0..k PROVE (IF i = k THEN step[<<f[k - 1], k>>] ELSE f[i]) \in S
      OBVIOUS
    <3>1. i = k \/ i \in 0 .. k - 1
      OBVIOUS
    <3> QED BY <2>2, <2>4, <3>1
  <2>6. g[0] = c
    <3>1. 0 \in 0..k /\ 0 # k
      OBVIOUS
    <3> QED BY <2>2, <3>1
  <2>7. ASSUME NEW i \in 1..k PROVE g[i] = step[<<g[i - 1], i>>]
    <3>1. i - 1 \in 0..k /\ i - 1 # k
      OBVIOUS
    <3>2. g[i - 1] = f[i - 1]
      BY <3>1
    <3>3. CASE i = k
      <4>1. g[k] = step[<<f[k - 1], k>>]
        BY <2>3
      <4> HIDE DEF g
      <4> QED BY <3>2, <3>3, <4>1
    <3>4. CASE i # k
      <4>1. i \in 1 .. k - 1 /\ i \in 0..k
        BY <3>4
      <4>2. g[i] = f[i]
        BY <3>4, <4>1
      <4> HIDE DEF g
      <4> QED BY <2>2, <3>2, <4>1, <4>2
    <3> QED BY <3>3, <3>4
  <2> HIDE DEF g
  <2>8. Upto(k, g)
    BY <2>5, <2>6, <2>7
  <2> HIDE DEF Upto
  <2> QED BY <2>8 DEF K
<1>3. n \in K
  <2> HIDE DEF K
  <2>1. 0..n \subseteq K
    BY <1>1, <1>2, InductionUpTo
  <2> QED BY <2>1
<1>4. PICK f : Upto(n, f)
  BY <1>3
<1>5. \A i \in 0..n : i # 0 => i \in 1..n
  OBVIOUS
<1>6. f = [i \in 0..n |-> f[i]]
  BY <1>4
<1>7. f = [i \in 0..n |-> IF i = 0 THEN c ELSE step[<<f[i - 1], i>>]]
  BY <1>4, <1>5, <1>6
<1> QED BY <1>4, <1>7 DEF Steps

-----------------------------------------------------------------------------
(* bzrtp_selectCommonAlgo.                                                 *)

LEMMA TakeType ==
    ASSUME NEW common \in Seq(Nat), NEW a \in Nat, NEW slave
    PROVE  TakeCommon(common, a, slave) \in Seq(Nat)
BY DEF TakeCommon

(* The lists after each step of the loop. *)
LEMMA CommonLoop ==
    ASSUME NEW master \in Seq(Nat), NEW slave
    PROVE  \E common \in [0 .. Len(master) -> Seq(Nat)] :
              /\ common[0] = <<>>
              /\ \A i \in 1 .. Len(master) :
                    common[i] = TakeCommon(common[i - 1], master[i], slave)
              /\ selectCommonAlgo(master, slave) = common[Len(master)]
<1> DEFINE n == Len(master)
           Runs(g) == g = [i \in 0..n |-> IF i = 0 THEN <<>>
                                          ELSE TakeCommon(g[i - 1], master[i], slave)]
           common == CHOOSE g : Runs(g)
           S == Seq(Nat)
           step == [x \in S \X (1..n) |-> TakeCommon(x[1], master[x[2]], slave)]
<1>1. n \in Nat /\ \A i \in 1..n : master[i] \in Nat
  OBVIOUS
<1>2. selectCommonAlgo(master, slave) = common[n]
  BY DEF selectCommonAlgo
<1>3. <<>> \in S
  OBVIOUS
<1>4. \A s \in S, i \in 1..n : TakeCommon(s, master[i], slave) \in S
  BY <1>1, TakeType
<1> HIDE DEF S, n
<1>5. /\ step \in [S \X (1..n) -> S]
      /\ \A s \in S, i \in 1..n : step[<<s, i>>] = TakeCommon(s, master[i], slave)
  BY <1>4
<1> HIDE DEF step
<1>6. PICK f \in [0..n -> S] : Steps(f, <<>>, n, step)
  BY <1>1, <1>3, <1>5, Loop
<1>7. Runs(f)
  <2>1. \A i \in 0..n : i # 0 => i \in 1..n /\ i - 1 \in 0..n
    BY <1>1
  <2>2. \A i \in 0..n : i # 0 => step[<<f[i - 1], i>>] = TakeCommon(f[i - 1], master[i], slave)
    BY <1>5, <2>1
  <2> QED BY <1>6, <2>2 DEF Steps
<1>8. Runs(common)
  <2> HIDE DEF Runs
  <2> QED BY <1>7
<1> HIDE DEF common
<1>9. /\ common = [i \in 0..n |-> common[i]] /\ common[0] = <<>>
      /\ \A i \in 1..n : common[i] = TakeCommon(common[i - 1], master[i], slave)
  <2>1. 0 \in 0..n /\ \A i \in 1..n : i \in 0..n /\ i # 0
    BY <1>1
  <2> QED BY <1>8, <2>1
<1>10. \A i \in 0..n : common[i] \in S
  <2> DEFINE T == {i \in 0..n : common[i] \in S}
  <2>1. 0 \in T
    BY <1>1, <1>3, <1>9
  <2>2. ASSUME NEW i \in 1..n, i - 1 \in T PROVE i \in T
    <3>1. common[i - 1] \in S /\ i \in 0..n
      BY <1>1, <2>2
    <3>2. common[i] \in S
      BY <1>4, <1>9, <3>1
    <3> QED BY <3>1, <3>2
  <2> HIDE DEF T
  <2>3. 0..n \subseteq T
    BY <1>1, <2>1, <2>2, InductionUpTo
  <2> QED BY <2>3 DEF T
<1>11. common \in [0..n -> S]
  BY <1>9, <1>10
<1> QED BY <1>2, <1>9, <1>11 DEF n, S

-----------------------------------------------------------------------------
(* bzrtp_addMandatoryCryptoTypesIfNeeded.                                  *)

LEMMA KeepType ==
    ASSUME NEW kept \in Seq(Nat), NEW a \in Nat, NEW t
    PROVE  Keep(t, kept, a) \in Seq(Nat)
BY DEF Keep

(* The lists after each step of the first loop. *)
LEMMA KeepLoop ==
    ASSUME NEW list \in Seq(Nat), NEW t
    PROVE  \E kept \in [0 .. Len(list) -> Seq(Nat)] :
              /\ kept[0] = <<>>
              /\ \A i \in 1 .. Len(list) : kept[i] = Keep(t, kept[i - 1], list[i])
              /\ KeepRoom(t, list) = kept[Len(list)]
<1> DEFINE n == Len(list)
           Runs(g) == g = [i \in 0..n |-> IF i = 0 THEN <<>> ELSE Keep(t, g[i - 1], list[i])]
           kept == CHOOSE g : Runs(g)
           S == Seq(Nat)
           step == [x \in S \X (1..n) |-> Keep(t, x[1], list[x[2]])]
<1>1. n \in Nat /\ \A i \in 1..n : list[i] \in Nat
  OBVIOUS
<1>2. KeepRoom(t, list) = kept[n]
  BY DEF KeepRoom
<1>3. <<>> \in S
  OBVIOUS
<1>4. \A s \in S, i \in 1..n : Keep(t, s, list[i]) \in S
  BY <1>1, KeepType
<1> HIDE DEF S, n
<1>5. /\ step \in [S \X (1..n) -> S]
      /\ \A s \in S, i \in 1..n : step[<<s, i>>] = Keep(t, s, list[i])
  BY <1>4
<1> HIDE DEF step
<1>6. PICK f \in [0..n -> S] : Steps(f, <<>>, n, step)
  BY <1>1, <1>3, <1>5, Loop
<1>7. Runs(f)
  <2>1. \A i \in 0..n : i # 0 => i \in 1..n /\ i - 1 \in 0..n
    BY <1>1
  <2>2. \A i \in 0..n : i # 0 => step[<<f[i - 1], i>>] = Keep(t, f[i - 1], list[i])
    BY <1>5, <2>1
  <2> QED BY <1>6, <2>2 DEF Steps
<1>8. Runs(kept)
  <2> HIDE DEF Runs
  <2> QED BY <1>7
<1> HIDE DEF kept
<1>9. /\ kept = [i \in 0..n |-> kept[i]] /\ kept[0] = <<>>
      /\ \A i \in 1..n : kept[i] = Keep(t, kept[i - 1], list[i])
  <2>1. 0 \in 0..n /\ \A i \in 1..n : i \in 0..n /\ i # 0
    BY <1>1
  <2> QED BY <1>8, <2>1
<1>10. \A i \in 0..n : kept[i] \in S
  <2> DEFINE T == {i \in 0..n : kept[i] \in S}
  <2>1. 0 \in T
    BY <1>1, <1>3, <1>9
  <2>2. ASSUME NEW i \in 1..n, i - 1 \in T PROVE i \in T
    <3>1. kept[i - 1] \in S /\ i \in 0..n
      BY <1>1, <2>2
    <3>2. kept[i] \in S
      BY <1>4, <1>9, <3>1
    <3> QED BY <3>1, <3>2
  <2> HIDE DEF T
  <2>3. 0..n \subseteq T
    BY <1>1, <2>1, <2>2, InductionUpTo
  <2> QED BY <2>3 DEF T
<1>11. kept \in [0..n -> S]
  BY <1>9, <1>10
<1> QED BY <1>2, <1>9, <1>11 DEF n, S

(* One step of the second loop. *)
Add(t, list, added, a) == IF a \in Missing(t, list) THEN Append(added, a) ELSE added

(* It makes a list of numbers of one. *)
LEMMA AddType ==
    ASSUME NEW added \in Seq(Nat), NEW a \in Nat, NEW t, NEW list
    PROVE  Add(t, list, added, a) \in Seq(Nat)
BY DEF Add

(* The lists after each step of the second loop. *)
LEMMA AddLoop ==
    ASSUME NEW list \in Seq(Nat), NEW t, Mandatory[t] \in Seq(Nat)
    PROVE  \E added \in [0 .. Len(Mandatory[t]) -> Seq(Nat)] :
              /\ added[0] = list
              /\ \A i \in 1 .. Len(Mandatory[t]) :
                    added[i] = Add(t, list, added[i - 1], Mandatory[t][i])
              /\ AddMissing(t, list) = added[Len(Mandatory[t])]
<1> DEFINE mand == Mandatory[t]
           n == Len(mand)
           Runs(g) == g = [i \in 0..n |-> IF i = 0 THEN list ELSE Add(t, list, g[i - 1], mand[i])]
           added == CHOOSE g : Runs(g)
           S == Seq(Nat)
           step == [x \in S \X (1..n) |-> Add(t, list, x[1], mand[x[2]])]
<1>1. n \in Nat /\ \A i \in 1..n : mand[i] \in Nat
  OBVIOUS
<1>2. AddMissing(t, list) = added[n]
  BY DEF AddMissing, Add
<1>3. list \in S
  OBVIOUS
<1>4. \A s \in S, i \in 1..n : Add(t, list, s, mand[i]) \in S
  BY <1>1, AddType
<1> HIDE DEF S, n, mand
<1>5. /\ step \in [S \X (1..n) -> S]
      /\ \A s \in S, i \in 1..n : step[<<s, i>>] = Add(t, list, s, mand[i])
  BY <1>4
<1> HIDE DEF step
<1>6. PICK f \in [0..n -> S] : Steps(f, list, n, step)
  BY <1>1, <1>3, <1>5, Loop
<1>7. Runs(f)
  <2>1. \A i \in 0..n : i # 0 => i \in 1..n /\ i - 1 \in 0..n
    BY <1>1
  <2>2. \A i \in 0..n : i # 0 => step[<<f[i - 1], i>>] = Add(t, list, f[i - 1], mand[i])
    BY <1>5, <2>1
  <2> QED BY <1>6, <2>2 DEF Steps
<1>8. Runs(added)
  <2> HIDE DEF Runs
  <2> QED BY <1>7
<1> HIDE DEF added
<1>9. /\ added = [i \in 0..n |-> added[i]] /\ added[0] = list
      /\ \A i \in 1..n : added[i] = Add(t, list, added[i - 1], mand[i])
  <2>1. 0 \in 0..n /\ \A i \in 1..n : i \in 0..n /\ i # 0
    BY <1>1
  <2> QED BY <1>8, <2>1
<1>10. \A i \in 0..n : added[i] \in S
  <2> DEFINE T == {i \in 0..n : added[i] \in S}
  <2>1. 0 \in T
    BY <1>1, <1>3, <1>9
  <2>2. ASSUME NEW i \in 1..n, i - 1 \in T PROVE i \in T
    <3>1. added[i - 1] \in S /\ i \in 0..n
      BY <1>1, <2>2
    <3>2. added[i] \in S
      BY <1>4, <1>9, <3>1
    <3> QED BY <3>1, <3>2
  <2> HIDE DEF T
  <2>3. 0..n \subseteq T
    BY <1>1, <2>1, <2>2, InductionUpTo
  <2> QED BY <2>3 DEF T
<1>11. added \in [0..n -> S]
  BY <1>9, <1>10
<1> QED BY <1>2, <1>9, <1>11 DEF n, S, mand

-----------------------------------------------------------------------------
(* What the lists hold.                                                    *)

(* Appending something new. *)
LEMMA Appended ==
    ASSUME NEW l \in Seq(Nat), NEW a \in Nat
    PROVE  /\ Append(l, a) \in Seq(Nat) /\ Len(Append(l, a)) = Len(l) + 1
           /\ ToSet(Append(l, a)) = ToSet(l) \cup {a}
           /\ IsInjective(l) /\ a \notin ToSet(l) => IsInjective(Append(l, a))
           /\ \A i \in 1 .. Len(l) : Append(l, a)[i] = l[i]
           /\ Append(l, a)[Len(l) + 1] = a
<1> DEFINE m == Append(l, a)
           n == Len(l)
<1>1. /\ m \in Seq(Nat) /\ Len(m) = n + 1 /\ n \in Nat
      /\ DOMAIN m = 1 .. n + 1 /\ DOMAIN l = 1..n
      /\ \A i \in 1..n : m[i] = l[i]
      /\ m[n + 1] = a
  OBVIOUS
<1> HIDE DEF m, n
<1>2. ToSet(m) = ToSet(l) \cup {a}
  <2>1. \A i \in DOMAIN m : i \in DOMAIN l \/ i = n + 1
    BY <1>1
  <2>2. n + 1 \in DOMAIN m /\ \A i \in DOMAIN l : i \in DOMAIN m
    BY <1>1
  <2> QED BY <1>1, <2>1, <2>2 DEF ToSet
<1>3. ASSUME IsInjective(l), a \notin ToSet(l) PROVE IsInjective(m)
  <2> SUFFICES ASSUME NEW i \in DOMAIN m, NEW j \in DOMAIN m, m[i] = m[j] PROVE i = j
    BY DEF IsInjective
  <2>1. \A k \in 1..n : m[k] # a
    BY <1>1, <1>3 DEF ToSet
  <2>2. CASE i \in 1..n /\ j \in 1..n
    BY <1>1, <1>3, <2>2 DEF IsInjective
  <2> QED BY <1>1, <2>1, <2>2
<1> QED BY <1>1, <1>2, <1>3 DEF m, n

(* The empty list. *)
LEMMA Nothing == <<>> \in Seq(Nat) /\ Len(<<>>) = 0 /\ ToSet(<<>>) = {} /\ IsInjective(<<>>)
BY DEF ToSet, IsInjective

(* bzrtp_selectCommonAlgo finds what both lists have, without doubles; all *)
(* of it unless the master is longer than a list may be.                   *)
LEMMA CommonAlgos ==
    ASSUME NEW master \in Seq(Nat), NEW slave, ListSize \in Nat
    PROVE  LET common == selectCommonAlgo(master, slave) IN
           /\ common \in Seq(Nat) /\ IsInjective(common) /\ Len(common) <= ListSize
           /\ ToSet(common) \subseteq ToSet(master) \cap ToSet(slave)
           /\ Len(master) <= ListSize => ToSet(common) = ToSet(master) \cap ToSet(slave)
<1> DEFINE n == Len(master)
<1>1. PICK common \in [0..n -> Seq(Nat)] :
        /\ common[0] = <<>>
        /\ \A i \in 1..n : common[i] = TakeCommon(common[i - 1], master[i], slave)
        /\ selectCommonAlgo(master, slave) = common[n]
  BY CommonLoop
<1>2. /\ n \in Nat /\ \A i \in 1..n : master[i] \in Nat /\ master[i] \in ToSet(master)
      /\ DOMAIN master = 1..n
  BY DEF ToSet
<1> DEFINE Good(c, i) ==
             /\ IsInjective(c) /\ Len(c) <= i /\ Len(c) <= ListSize
             /\ ToSet(c) \subseteq ToSet(master) \cap ToSet(slave)
             /\ i <= ListSize =>
                   \A j \in 1..i : master[j] \in ToSet(slave) => master[j] \in ToSet(c)
           T == {i \in 0..n : Good(common[i], i)}
<1> HIDE DEF n
<1>3. 0 \in T
  BY <1>1, <1>2, Nothing
<1>4. ASSUME NEW i \in 1..n, i - 1 \in T PROVE i \in T
  <2>1. PICK c \in Seq(Nat) : c = common[i - 1]
    BY <1>2
  <2>2. PICK d : d = TakeCommon(c, master[i], slave)
    OBVIOUS
  <2>3. Good(c, i - 1) /\ Len(c) \in Nat
    BY <1>4, <2>1
  <2>4. common[i] = d /\ i \in 0..n
    BY <1>1, <1>2, <2>1, <2>2
  <2>5. CASE master[i] \in ToSet(slave) \ ToSet(c) /\ Len(c) < ListSize
    <3>1. d = Append(c, master[i])
      BY <2>2, <2>5 DEF TakeCommon
    <3>2. /\ Len(d) = Len(c) + 1 /\ ToSet(d) = ToSet(c) \cup {master[i]}
          /\ IsInjective(d)
      BY <1>2, <2>3, <2>5, <3>1, Appended
    <3>3. Len(d) <= i /\ Len(d) <= ListSize
      BY <2>3, <2>5, <3>2
    <3>4. ToSet(d) \subseteq ToSet(master) \cap ToSet(slave)
      BY <1>2, <2>3, <2>5, <3>2
    <3>5. ASSUME i <= ListSize, NEW j \in 1..i, master[j] \in ToSet(slave)
          PROVE  master[j] \in ToSet(d)
      <4>1. j = i \/ j \in 1 .. i - 1
        OBVIOUS
      <4>2. i - 1 <= ListSize
        BY <3>5
      <4> QED BY <2>3, <3>2, <3>5, <4>1, <4>2
    <3>6. Good(d, i)
      BY <3>2, <3>3, <3>4, <3>5
    <3> HIDE DEF Good
    <3> QED BY <2>4, <3>6
  <2>6. CASE ~(master[i] \in ToSet(slave) \ ToSet(c) /\ Len(c) < ListSize)
    <3>1. d = c
      BY <2>2, <2>6 DEF TakeCommon
    <3>2. Len(d) <= i
      BY <2>3, <3>1
    <3>3. ASSUME i <= ListSize, NEW j \in 1..i, master[j] \in ToSet(slave)
          PROVE  master[j] \in ToSet(d)
      <4>1. j = i \/ j \in 1 .. i - 1
        OBVIOUS
      <4>2. i - 1 <= ListSize /\ Len(c) < ListSize
        BY <2>3, <3>3
      <4> QED BY <2>3, <2>6, <3>1, <3>3, <4>1, <4>2
    <3>4. Good(d, i)
      BY <2>3, <3>1, <3>2, <3>3
    <3> HIDE DEF Good
    <3> QED BY <2>4, <3>4
  <2> QED BY <2>5, <2>6
<1>5. n \in T
  <2> HIDE DEF T
  <2>1. 0..n \subseteq T
    BY <1>2, <1>3, <1>4, InductionUpTo
  <2> QED BY <1>2, <2>1
<1>6. PICK c \in Seq(Nat) : c = common[n]
  BY <1>2
<1>7. Good(c, n)
  BY <1>5, <1>6
<1>8. n <= ListSize => ToSet(master) \cap ToSet(slave) \subseteq ToSet(c)
  BY <1>2, <1>7 DEF ToSet
<1> QED BY <1>1, <1>6, <1>7, <1>8 DEF n

-----------------------------------------------------------------------------
(* The mandatory types.                                                    *)

(* They are few and distinct. *)
LEMMA MandatoryTypes ==
    ASSUME NEW t \in Types
    PROVE  /\ Mandatory[t] \in Seq(Nat) /\ IsInjective(Mandatory[t])
           /\ Len(Mandatory[t]) \in Nat /\ DOMAIN Mandatory[t] = 1 .. Len(Mandatory[t])
           /\ ToSet(Mandatory[t]) \subseteq Implementable[t]
<1> USE DEF Mandatory, S256, AES1, HS32, HS80, DH3k, Mult, B32
<1>1. \A x \in Nat : <<x>> \in Seq(Nat) /\ IsInjective(<<x>>) /\ ToSet(<<x>>) = {x}
  BY DEF IsInjective, ToSet
<1>2. \A x, y \in Nat : x # y => /\ <<x, y>> \in Seq(Nat) /\ IsInjective(<<x, y>>)
                                 /\ ToSet(<<x, y>>) = {x, y}
  <2> SUFFICES ASSUME NEW x \in Nat, NEW y \in Nat, x # y
               PROVE  /\ <<x, y>> \in Seq(Nat) /\ IsInjective(<<x, y>>)
                      /\ ToSet(<<x, y>>) = {x, y}
    OBVIOUS
  <2>1. <<x, y>> \in Seq(Nat) /\ DOMAIN <<x, y>> = {1, 2}
    OBVIOUS
  <2> QED BY <2>1 DEF IsInjective, ToSet
<1>3. CASE t = "hash"
  BY <1>1, <1>3 DEF Implementable
<1>4. CASE t = "cipher"
  BY <1>1, <1>4 DEF Implementable
<1>5. CASE t = "authtag"
  BY <1>2, <1>5 DEF Implementable
<1>6. CASE t = "keyAgreement"
  BY <1>2, <1>6 DEF Implementable, DH2k, EC25
<1>7. CASE t = "sas"
  BY <1>1, <1>7 DEF Implementable
<1> QED BY <1>3, <1>4, <1>5, <1>6, <1>7 DEF Types

(* A stretch of a list has at most as many members as places. *)
LEMMA StretchSize ==
    ASSUME NEW l, NEW a \in Nat, NEW b \in Nat, a <= b + 1
    PROVE  /\ IsFiniteSet({l[j] : j \in a..b})
           /\ Cardinality({l[j] : j \in a..b}) <= b - a + 1
<1> DEFINE U == {l[j] : j \in a..b}
           f == [j \in a..b |-> l[j]]
<1>1. IsFiniteSet(a..b) /\ Cardinality(a..b) = b - a + 1
  BY FS_Interval
<1>2. f \in Surjection(a..b, U)
  BY DEF Surjection
<1> HIDE DEF f, U
<1>3. IsFiniteSet(U) /\ Cardinality(U) <= b - a + 1
  BY <1>1, <1>2, FS_Surjection
<1> QED BY <1>3 DEF U

(* How many of them are missing. *)
LEMMA MissingSize ==
    ASSUME NEW t \in Types, NEW l
    PROVE  /\ IsFiniteSet(Missing(t, l)) /\ Cardinality(Missing(t, l)) \in Nat
           /\ Cardinality(Missing(t, l)) < ListSize /\ ListSize \in Nat
<1> DEFINE n == Len(Mandatory[t])
<1>1. n \in Nat /\ ToSet(Mandatory[t]) = {Mandatory[t][j] : j \in 1..n}
  BY MandatoryTypes DEF ToSet
<1>2. n < ListSize /\ ListSize \in Nat
  BY AlgoAssumption
<1> HIDE DEF n
<1>3. IsFiniteSet(ToSet(Mandatory[t])) /\ Cardinality(ToSet(Mandatory[t])) <= n
  <2> DEFINE U == {Mandatory[t][j] : j \in 1..n}
  <2>1. 1 \in Nat /\ 1 <= n + 1 /\ n - 1 + 1 = n
    BY <1>1
  <2>2. IsFiniteSet(U) /\ Cardinality(U) <= n - 1 + 1
    BY <1>1, <2>1, StretchSize
  <2> HIDE DEF U
  <2>3. IsFiniteSet(U) /\ Cardinality(U) <= n
    BY <2>1, <2>2
  <2> QED BY <1>1, <2>3 DEF U
<1>4. Cardinality(ToSet(Mandatory[t])) \in Nat
  BY <1>3, FS_CardinalityType
<1>5. Missing(t, l) \in SUBSET ToSet(Mandatory[t])
  BY DEF Missing
<1>6. /\ IsFiniteSet(Missing(t, l))
      /\ Cardinality(Missing(t, l)) <= Cardinality(ToSet(Mandatory[t]))
  BY <1>3, <1>5, FS_Subset
<1>7. Cardinality(Missing(t, l)) \in Nat
  BY <1>6, FS_CardinalityType
<1> QED BY <1>1, <1>2, <1>3, <1>4, <1>6, <1>7

(* The first loop leaves room for what is missing. *)
LEMMA RoomKept ==
    ASSUME NEW t \in Types, NEW list \in Seq(Nat)
    PROVE  LET kept == KeepRoom(t, list) IN
           /\ kept \in Seq(Nat) /\ IsInjective(kept) /\ ToSet(kept) \subseteq ToSet(list)
           /\ Len(kept) + Cardinality(Missing(t, kept)) <= ListSize
<1> DEFINE n == Len(list)
<1>1. PICK kept \in [0..n -> Seq(Nat)] :
        /\ kept[0] = <<>>
        /\ \A i \in 1..n : kept[i] = Keep(t, kept[i - 1], list[i])
        /\ KeepRoom(t, list) = kept[n]
  BY KeepLoop
<1>2. n \in Nat /\ \A i \in 1..n : list[i] \in Nat /\ list[i] \in ToSet(list)
  BY DEF ToSet
<1> DEFINE Good(c) == /\ IsInjective(c) /\ ToSet(c) \subseteq ToSet(list)
                      /\ Len(c) + Cardinality(Missing(t, c)) <= ListSize
           T == {i \in 0..n : Good(kept[i])}
<1> HIDE DEF n
<1>3. 0 \in T
  BY <1>1, <1>2, Nothing, MissingSize
<1>4. ASSUME NEW i \in 1..n, i - 1 \in T PROVE i \in T
  <2>1. PICK c \in Seq(Nat) : c = kept[i - 1]
    BY <1>2
  <2>2. PICK a \in Nat : a = list[i]
    BY <1>2
  <2>3. Good(c) /\ Len(c) \in Nat /\ a \in ToSet(list)
    BY <1>2, <1>4, <2>1, <2>2
  <2>4. kept[i] = Keep(t, c, a) /\ i \in 0..n
    BY <1>1, <1>2, <2>1, <2>2
  <2>5. CASE Keep(t, c, a) = c
    <3> HIDE DEF Good
    <3> QED BY <2>3, <2>4, <2>5
  <2>6. CASE Keep(t, c, a) # c
    <3>1. PICK d : d = Append(c, a)
      OBVIOUS
    <3>2. /\ Len(c) + Cardinality(Missing(t, c)) < ListSize \/ a \in Missing(t, c)
          /\ a \notin ToSet(c) /\ kept[i] = d
      BY <2>4, <2>6, <3>1 DEF Keep
    <3>3. Len(d) = Len(c) + 1 /\ ToSet(d) = ToSet(c) \cup {a} /\ IsInjective(d)
      BY <2>3, <3>1, <3>2, Appended
    <3>4. Missing(t, d) = Missing(t, c) \ {a}
      BY <3>3 DEF Missing
    <3>5. /\ Cardinality(Missing(t, c)) \in Nat /\ ListSize \in Nat
          /\ Cardinality(Missing(t, d)) = IF a \in Missing(t, c)
                                          THEN Cardinality(Missing(t, c)) - 1
                                          ELSE Cardinality(Missing(t, c))
      BY <3>4, MissingSize, FS_RemoveElement
    <3>6. Len(d) + Cardinality(Missing(t, d)) <= ListSize
      BY <2>3, <3>2, <3>3, <3>5
    <3>7. Good(d)
      BY <2>3, <3>3, <3>6
    <3> HIDE DEF Good
    <3> QED BY <2>4, <3>2, <3>7
  <2> QED BY <2>5, <2>6
<1>5. n \in T
  <2> HIDE DEF T
  <2>1. 0..n \subseteq T
    BY <1>2, <1>3, <1>4, InductionUpTo
  <2> QED BY <1>2, <2>1
<1>6. PICK c \in Seq(Nat) : c = kept[n]
  BY <1>2
<1>7. Good(c)
  BY <1>5, <1>6
<1> QED BY <1>1, <1>6, <1>7

(* The second loop adds what is missing. *)
LEMMA MissingAdded ==
    ASSUME NEW t \in Types, NEW list \in Seq(Nat), IsInjective(list)
    PROVE  LET all == AddMissing(t, list) IN
           /\ all \in Seq(Nat) /\ IsInjective(all)
           /\ ToSet(all) = ToSet(list) \cup ToSet(Mandatory[t])
           /\ Len(all) = Len(list) + Cardinality(Missing(t, list))
           /\ Missing(t, list) = {} => all = list
<1> DEFINE mand == Mandatory[t]
           n == Len(mand)
           miss == Missing(t, list)
           Seen(i) == {mand[j] : j \in 1..i} \cap miss
<1>1. /\ mand \in Seq(Nat) /\ IsInjective(mand) /\ n \in Nat /\ DOMAIN mand = 1..n
      /\ \A i \in 1..n : mand[i] \in Nat
  BY MandatoryTypes
<1>2. PICK added \in [0..n -> Seq(Nat)] :
        /\ added[0] = list
        /\ \A i \in 1..n : added[i] = Add(t, list, added[i - 1], mand[i])
        /\ AddMissing(t, list) = added[n]
  BY <1>1, AddLoop
<1>3. IsFiniteSet(miss) /\ Cardinality(miss) \in Nat
  BY MissingSize
<1>4. /\ \A a \in miss : a \notin ToSet(list)
      /\ miss = ToSet(mand) \ ToSet(list)
  BY DEF Missing
<1> DEFINE Good(c, i) == /\ IsInjective(c) /\ ToSet(c) = ToSet(list) \cup Seen(i)
                         /\ Len(c) = Len(list) + Cardinality(Seen(i))
                         /\ miss = {} => c = list
           T == {i \in 0..n : Good(added[i], i)}
<1> HIDE DEF mand, n, miss
<1>5. Len(list) \in Nat
  OBVIOUS
<1>6. 0 \in T
  <2>1. Seen(0) = {}
    OBVIOUS
  <2>2. Cardinality(Seen(0)) = 0
    BY <2>1, FS_EmptySet
  <2> HIDE DEF Seen
  <2>3. ToSet(list) = ToSet(list) \cup Seen(0) /\ Len(list) = Len(list) + Cardinality(Seen(0))
    BY <1>5, <2>1, <2>2
  <2> QED BY <1>1, <1>2, <2>3
<1>7. ASSUME NEW i \in 1..n, i - 1 \in T PROVE i \in T
  <2>1. PICK c \in Seq(Nat) : c = added[i - 1]
    BY <1>1
  <2>2. PICK a \in Nat : a = mand[i]
    BY <1>1
  <2>3. Good(c, i - 1) /\ Len(c) \in Nat
    BY <1>7, <2>1
  <2>4. added[i] = Add(t, list, c, a) /\ i \in 0..n
    BY <1>1, <1>2, <2>1, <2>2
  <2>5. Seen(i) = IF a \in miss THEN Seen(i - 1) \cup {a} ELSE Seen(i - 1)
    <3>1. \A j \in 1..i : j = i \/ j \in 1 .. i - 1
      OBVIOUS
    <3>2. i \in 1..i /\ \A j \in 1 .. i - 1 : j \in 1..i
      OBVIOUS
    <3> QED BY <2>2, <3>1, <3>2
  <2>6. CASE a \in miss
    <3>1. PICK d : d = Append(c, a)
      OBVIOUS
    <3>2. added[i] = d
      BY <2>4, <2>6, <3>1 DEF Add, miss
    <3>3. a \notin Seen(i - 1)
      <4>1. \A j \in 1 .. i - 1 : j \in 1..n /\ i \in 1..n /\ j # i
        BY <1>1
      <4>2. \A j \in 1 .. i - 1 : mand[j] # mand[i]
        BY <1>1, <4>1 DEF IsInjective
      <4> QED BY <2>2, <4>2
    <3>4. a \notin ToSet(c)
      BY <1>4, <2>3, <2>6, <3>3
    <3>5. Len(d) = Len(c) + 1 /\ ToSet(d) = ToSet(c) \cup {a} /\ IsInjective(d)
      BY <2>3, <3>1, <3>4, Appended
    <3>6. /\ IsFiniteSet(Seen(i - 1)) /\ Cardinality(Seen(i - 1)) \in Nat
          /\ Cardinality(Seen(i)) = Cardinality(Seen(i - 1)) + 1
      <4>1. Seen(i - 1) \in SUBSET miss
        OBVIOUS
      <4> HIDE DEF Seen
      <4>2. IsFiniteSet(Seen(i - 1))
        BY <1>3, <4>1, FS_Subset
      <4> QED BY <2>5, <2>6, <3>3, <4>2, FS_AddElement, FS_CardinalityType
    <3> HIDE DEF Seen
    <3>7. ToSet(d) = ToSet(list) \cup Seen(i) /\ Len(d) = Len(list) + Cardinality(Seen(i))
      BY <1>5, <2>3, <2>5, <2>6, <3>5, <3>6
    <3>8. Good(d, i)
      BY <2>6, <3>5, <3>7
    <3> HIDE DEF Good
    <3> QED BY <2>4, <3>2, <3>8
  <2>7. CASE a \notin miss
    <3>1. added[i] = c
      BY <2>4, <2>7 DEF Add, miss
    <3> HIDE DEF Seen
    <3>2. Good(c, i)
      BY <2>3, <2>5, <2>7
    <3> HIDE DEF Good
    <3> QED BY <2>4, <3>1, <3>2
  <2> QED BY <2>6, <2>7
<1>8. n \in T
  <2> HIDE DEF T
  <2>1. 0..n \subseteq T
    BY <1>1, <1>6, <1>7, InductionUpTo
  <2> QED BY <1>1, <2>1
<1>9. PICK c \in Seq(Nat) : c = added[n]
  BY <1>1
<1>10. Good(c, n)
  BY <1>8, <1>9
<1>11. Seen(n) = miss
  BY <1>1, <1>4 DEF ToSet
<1> HIDE DEF Seen
<1>12. ToSet(c) = ToSet(list) \cup ToSet(mand)
  BY <1>4, <1>10, <1>11
<1> QED BY <1>2, <1>9, <1>10, <1>11, <1>12 DEF mand, miss

-----------------------------------------------------------------------------
(* The list of a type as an endpoint keeps it. *)
ListOK(t, list) ==
    /\ list \in Seq(Nat) /\ ToSet(list) \subseteq Implementable[t]
    /\ Len(list) <= ListSize /\ IsInjective(list)
    /\ ToSet(Mandatory[t]) \subseteq ToSet(list)

(* Whatever was in the list, it is in order afterwards. *)
LEMMA MandatoryMakesOK ==
    ASSUME NEW t \in Types, NEW list \in Seq(Nat), ToSet(list) \subseteq Implementable[t]
    PROVE  ListOK(t, addMandatoryCryptoTypesIfNeeded(t, list))
<1>1. PICK kept : kept = KeepRoom(t, list)
  OBVIOUS
<1>2. /\ kept \in Seq(Nat) /\ IsInjective(kept) /\ ToSet(kept) \subseteq ToSet(list)
      /\ Len(kept) + Cardinality(Missing(t, kept)) <= ListSize
  BY <1>1, RoomKept
<1>3. PICK all : all = AddMissing(t, kept)
  OBVIOUS
<1>4. /\ all \in Seq(Nat) /\ IsInjective(all)
      /\ ToSet(all) = ToSet(kept) \cup ToSet(Mandatory[t])
      /\ Len(all) = Len(kept) + Cardinality(Missing(t, kept))
  BY <1>2, <1>3, MissingAdded
<1>5. ListOK(t, all)
  BY <1>2, <1>4, MandatoryTypes DEF ListOK
<1> QED BY <1>1, <1>3, <1>5 DEF addMandatoryCryptoTypesIfNeeded

(* A list in order is left as it is: what is missing at any step comes     *)
(* later in the list, so there is room for the next one.                   *)
LEMMA MandatoryKeepsOK ==
    ASSUME NEW t \in Types, NEW list, ListOK(t, list)
    PROVE  addMandatoryCryptoTypesIfNeeded(t, list) = list
<1> DEFINE n == Len(list)
<1>1. /\ list \in Seq(Nat) /\ n \in Nat /\ n <= ListSize /\ ListSize \in Nat
      /\ DOMAIN list = 1..n /\ IsInjective(list) /\ \A i \in 1..n : list[i] \in Nat
      /\ ToSet(Mandatory[t]) \subseteq ToSet(list)
  BY AlgoAssumption DEF ListOK
<1>2. PICK kept \in [0..n -> Seq(Nat)] :
        /\ kept[0] = <<>>
        /\ \A i \in 1..n : kept[i] = Keep(t, kept[i - 1], list[i])
        /\ KeepRoom(t, list) = kept[n]
  BY <1>1, KeepLoop
<1> HIDE DEF n
<1> DEFINE Prefix(c, i) == Len(c) = i /\ \A j \in 1..i : c[j] = list[j]
           T == {i \in 0..n : Prefix(kept[i], i)}
<1>3. 0 \in T
  BY <1>1, <1>2
<1>4. ASSUME NEW i \in 1..n, i - 1 \in T PROVE i \in T
  <2>1. PICK c \in Seq(Nat) : c = kept[i - 1]
    BY <1>1
  <2>2. PICK a \in Nat : a = list[i]
    BY <1>1
  <2>3. Len(c) = i - 1 /\ \A j \in 1 .. i - 1 : c[j] = list[j]
    BY <1>4, <2>1
  <2>4. kept[i] = Keep(t, c, a) /\ i \in 0..n
    BY <1>1, <1>2, <2>1, <2>2
  <2>5. ToSet(c) = {list[j] : j \in 1 .. i - 1}
    <3>1. DOMAIN c = 1 .. i - 1
      BY <2>3
    <3> QED BY <2>3, <3>1 DEF ToSet
  <2>6. a \notin ToSet(c)
    <3>1. \A j \in 1 .. i - 1 : j \in 1..n /\ i \in 1..n /\ j # i
      BY <1>1
    <3>2. \A j \in 1 .. i - 1 : list[j] # list[i]
      BY <1>1, <3>1 DEF IsInjective
    <3> QED BY <2>2, <2>5, <3>2
  <2>7. ASSUME a \notin Missing(t, c)
        PROVE  Len(c) + Cardinality(Missing(t, c)) < ListSize
    <3> DEFINE U == {list[j] : j \in i + 1 .. n}
    <3>1. Missing(t, c) \in SUBSET U
      <4> SUFFICES ASSUME NEW b \in Missing(t, c) PROVE b \in U
        OBVIOUS
      <4>1. b \in ToSet(list) /\ b \notin ToSet(c) /\ b # a
        BY <1>1, <2>7 DEF Missing
      <4>2. PICK j \in 1..n : b = list[j]
        BY <1>1, <4>1 DEF ToSet
      <4>3. j \notin 1 .. i - 1 /\ j # i
        BY <2>2, <2>5, <4>1, <4>2
      <4>4. j \in i + 1 .. n
        BY <1>1, <4>3
      <4> QED BY <4>2, <4>4
    <3>2. IsFiniteSet(U) /\ Cardinality(U) <= n - (i + 1) + 1
      <4>1. i + 1 \in Nat /\ i + 1 <= n + 1
        BY <1>1
      <4> QED BY <1>1, <4>1, StretchSize
    <3> HIDE DEF U
    <3>3. Cardinality(U) \in Nat /\ Cardinality(Missing(t, c)) <= Cardinality(U)
      BY <3>1, <3>2, FS_Subset, FS_CardinalityType
    <3>4. Cardinality(Missing(t, c)) \in Nat
      BY MissingSize
    <3> QED BY <1>1, <2>3, <3>2, <3>3, <3>4
  <2>8. Len(c) < ListSize
    BY <1>1, <2>3
  <2>9. Keep(t, c, a) = Append(c, a)
    BY <2>6, <2>7, <2>8 DEF Keep
  <2>10. PICK d : d = Append(c, a)
    OBVIOUS
  <2>11. /\ Len(d) = Len(c) + 1 /\ \A j \in 1 .. Len(c) : d[j] = c[j]
         /\ d[Len(c) + 1] = a
    BY <2>10, Appended
  <2>12. Prefix(d, i)
    <3>1. \A j \in 1..i : j = i \/ j \in 1 .. i - 1
      OBVIOUS
    <3> QED BY <2>2, <2>3, <2>11, <3>1
  <2> HIDE DEF Prefix
  <2> QED BY <2>4, <2>9, <2>10, <2>12
<1>5. n \in T
  <2> HIDE DEF T
  <2>1. 0..n \subseteq T
    BY <1>1, <1>3, <1>4, InductionUpTo
  <2> QED BY <1>1, <2>1
<1>6. kept[n] = list
  <2>1. PICK c \in Seq(Nat) : c = kept[n]
    BY <1>1
  <2>2. Len(c) = n /\ \A j \in 1..n : c[j] = list[j]
    BY <1>5, <2>1
  <2>3. c = list
    BY <1>1, <2>2 DEF n
  <2> QED BY <2>1, <2>3
<1>7. Missing(t, list) = {}
  BY <1>1 DEF Missing
<1>8. AddMissing(t, list) = list
  BY <1>1, <1>7, MissingAdded
<1> QED BY <1>2, <1>6, <1>8 DEF addMandatoryCryptoTypesIfNeeded

-----------------------------------------------------------------------------
(* Names.                                                                  *)

(* The three stretches of numbers of the key agreements. *)
KeyNames1 == <<"DH2k", "X255", "K255", "EC25", "X448", "K448", "DH3k",
               "EC38", "EC52", "KYB1", "KYB2", "KYB3", "HQD1", "HQD2", "HQD3">>
KeyNames2 == <<"X1K1", "X1H1", "X3K3", "X3H3", "XKR1", "XKR3">>
KeyNames3 == <<"Prsh", "Mult">>

(* Which number has which name. *)
LEMMA KeyNames ==
    LET f == TypeNames["keyAgreement"] IN
    /\ DOMAIN f = 65..79 \cup 81..86 \cup 158..159
    /\ \A a \in 65..79 : f[a] = KeyNames1[a - 64]
    /\ \A a \in 81..86 : f[a] = KeyNames2[a - 80]
    /\ \A a \in 158..159 : f[a] = KeyNames3[a - 157]
<1> DEFINE f1 == Numbered(65, KeyNames1)
           f2 == Numbered(81, KeyNames2)
           f3 == Numbered(158, KeyNames3)
           f == Joined(f1, Joined(f2, f3))
<1>1. TypeNames["keyAgreement"] = f
  BY DEF TypeNames, KeyAgreementNames, DH2k, K255_KYB512, Prsh, KeyNames1, KeyNames2, KeyNames3
<1>2. Len(KeyNames1) = 15 /\ Len(KeyNames2) = 6 /\ Len(KeyNames3) = 2
  BY DEF KeyNames1, KeyNames2, KeyNames3
<1>3. DOMAIN f1 = 65..79 /\ \A a \in 65..79 : f1[a] = KeyNames1[a - 64]
  <2>1. 65 + 15 - 1 = 79 /\ \A a \in 65..79 : a - 65 + 1 = a - 64
    OBVIOUS
  <2> QED BY <1>2, <2>1 DEF Numbered
<1>4. DOMAIN f2 = 81..86 /\ \A a \in 81..86 : f2[a] = KeyNames2[a - 80]
  <2>1. 81 + 6 - 1 = 86 /\ \A a \in 81..86 : a - 81 + 1 = a - 80
    OBVIOUS
  <2> QED BY <1>2, <2>1 DEF Numbered
<1>5. DOMAIN f3 = 158..159 /\ \A a \in 158..159 : f3[a] = KeyNames3[a - 157]
  <2>1. 158 + 2 - 1 = 159 /\ \A a \in 158..159 : a - 158 + 1 = a - 157
    OBVIOUS
  <2> QED BY <1>2, <2>1 DEF Numbered
<1> HIDE DEF f1, f2, f3
<1>6. f = [a \in DOMAIN f1 \cup (DOMAIN f2 \cup DOMAIN f3) |->
             IF a \in DOMAIN f1 THEN f1[a] ELSE IF a \in DOMAIN f2 THEN f2[a] ELSE f3[a]]
  BY DEF Joined
<1> HIDE DEF f
<1>7. /\ DOMAIN f = 65..79 \cup 81..86 \cup 158..159
      /\ \A a \in 65..79 : f[a] = f1[a]
      /\ \A a \in 81..86 : f[a] = f2[a]
      /\ \A a \in 158..159 : f[a] = f3[a]
  BY <1>3, <1>4, <1>5, <1>6
<1> QED BY <1>1, <1>3, <1>4, <1>5, <1>7

(* No name of a key agreement stands for two. *)
LEMMA KeyNamesOnce ==
    LET f == TypeNames["keyAgreement"] IN
    \A a, b \in DOMAIN f : f[a] = f[b] => a = b
<1> DEFINE f == TypeNames["keyAgreement"]
<1>1. /\ DOMAIN f = 65..79 \cup 81..86 \cup 158..159
      /\ \A a \in 65..79 : f[a] = KeyNames1[a - 64]
      /\ \A a \in 81..86 : f[a] = KeyNames2[a - 80]
      /\ \A a \in 158..159 : f[a] = KeyNames3[a - 157]
  BY KeyNames
<1> HIDE DEF f
<1>2. /\ f[65] = "DH2k" /\ f[66] = "X255" /\ f[67] = "K255" /\ f[68] = "EC25"
      /\ f[69] = "X448" /\ f[70] = "K448" /\ f[71] = "DH3k" /\ f[72] = "EC38"
      /\ f[73] = "EC52" /\ f[74] = "KYB1" /\ f[75] = "KYB2" /\ f[76] = "KYB3"
      /\ f[77] = "HQD1" /\ f[78] = "HQD2" /\ f[79] = "HQD3"
  BY <1>1 DEF KeyNames1
<1>3. /\ f[81] = "X1K1" /\ f[82] = "X1H1" /\ f[83] = "X3K3" /\ f[84] = "X3H3"
      /\ f[85] = "XKR1" /\ f[86] = "XKR3"
  BY <1>1 DEF KeyNames2
<1>4. f[158] = "Prsh" /\ f[159] = "Mult"
  BY <1>1 DEF KeyNames3
<1>5. \A a \in DOMAIN f :
        a \in {65, 66, 67, 68, 69, 70, 71, 72, 73, 74, 75, 76, 77, 78, 79,
               81, 82, 83, 84, 85, 86, 158, 159}
  BY <1>1
<1>6. \A a, b \in DOMAIN f : f[a] = f[b] => a = b
  BY <1>2, <1>3, <1>4, <1>5
<1> QED BY <1>6 DEF f

(* The name of an algorithm a build may have stands for that one alone. *)
LEMMA NameOnce ==
    ASSUME NEW t \in Types, NEW a \in Implementable[t]
    PROVE  /\ a \in Nat /\ a # UNSET_ALGO
           /\ a \in DOMAIN TypeNames[t]
           /\ \A b \in DOMAIN TypeNames[t] : TypeNames[t][b] = TypeNames[t][a] => b = a
<1> USE DEF UNSET_ALGO
<1>1. CASE t = "keyAgreement"
  <2>1. a \in 65..79 \cup 81..86 \cup 158..159
    BY <1>1 DEF Implementable, DH2k, DH3k, EC25, KYB1, K255_KYB512, K448_KYB1024_HQC256, Mult
  <2> QED BY <1>1, <2>1, KeyNames, KeyNamesOnce
<1>2. CASE t = "hash"
  <2> DEFINE f == TypeNames[t]
  <2>1. f = Numbered(17, <<"S256", "S384", "S512", "N256", "N384">>) /\ a \in 17..19
    BY <1>2 DEF TypeNames, S256, S384, S512, Implementable
  <2> HIDE DEF f
  <2>2. DOMAIN f = 17..21 /\ f[17] = "S256" /\ f[18] = "S384" /\ f[19] = "S512"
        /\ f[20] = "N256" /\ f[21] = "N384"
    BY <2>1 DEF Numbered
  <2> QED BY <2>1, <2>2 DEF f
<1>3. CASE t = "cipher"
  <2> DEFINE f == TypeNames[t]
  <2>1. f = Numbered(33, <<"AES1", "AES2", "AES3", "2FS1", "2FS2", "2FS3">>) /\ a \in 33..35
    BY <1>3 DEF TypeNames, AES1, AES3, Implementable
  <2> HIDE DEF f
  <2>2. DOMAIN f = 33..38 /\ f[33] = "AES1" /\ f[34] = "AES2" /\ f[35] = "AES3"
        /\ f[36] = "2FS1" /\ f[37] = "2FS2" /\ f[38] = "2FS3"
    BY <2>1 DEF Numbered
  <2> QED BY <2>1, <2>2 DEF f
<1>4. CASE t = "authtag"
  <2> DEFINE f == TypeNames[t]
  <2>1. f = Numbered(49, <<"HS32", "HS80", "SK32", "SK64", "GCM">>) /\ a \in 49..53
    BY <1>4 DEF TypeNames, HS32, HS80, GCM, Implementable
  <2> HIDE DEF f
  <2>2. DOMAIN f = 49..53 /\ f[49] = "HS32" /\ f[50] = "HS80" /\ f[51] = "SK32"
        /\ f[52] = "SK64" /\ f[53] = "GCM"
    BY <2>1 DEF Numbered
  <2> QED BY <2>1, <2>2 DEF f
<1>5. CASE t = "sas"
  <2> DEFINE f == TypeNames[t]
  <2>1. f = Numbered(161, <<"B32", "B256">>) /\ a \in 161..162
    BY <1>5 DEF TypeNames, B32, B256, Implementable
  <2> HIDE DEF f
  <2>2. DOMAIN f = 161..162 /\ f[161] = "B32" /\ f[162] = "B256"
    BY <2>1 DEF Numbered
  <2> QED BY <2>1, <2>2 DEF f
<1> QED BY <1>1, <1>2, <1>3, <1>4, <1>5 DEF Types

(* A name is read as the number it was written for. *)
LEMMA NameRead ==
    ASSUME NEW t \in Types, NEW a \in Implementable[t]
    PROVE  /\ cryptoAlgoTypeIntToString(t, a) \in Names
           /\ cryptoAlgoTypeStringToInt(t, cryptoAlgoTypeIntToString(t, a)) = a
<1> DEFINE f == TypeNames[t]
           known == {b \in DOMAIN f : f[b] = f[a]}
<1>1. a \in DOMAIN f /\ f[a] \in Names /\ \A b \in DOMAIN f : f[b] = f[a] => b = a
  BY NameOnce DEF Names
<1>2. cryptoAlgoTypeIntToString(t, a) = f[a]
  BY <1>1 DEF cryptoAlgoTypeIntToString
<1> HIDE DEF f
<1>3. known = {a}
  BY <1>1
<1>4. cryptoAlgoTypeStringToInt(t, f[a]) = IF known = {} THEN UNSET_ALGO ELSE CHOOSE b \in known : TRUE
  BY DEF cryptoAlgoTypeStringToInt, f
<1> HIDE DEF known
<1>5. (CHOOSE b \in known : TRUE) = a
  BY <1>3
<1> QED BY <1>1, <1>2, <1>3, <1>4, <1>5

(* The peer reads lists in order as they were sent. *)
LEMMA HelloRead ==
    ASSUME NEW lists, lists = [t \in Types |-> lists[t]], \A t \in Types : ListOK(t, lists[t])
    PROVE  ParseHello(BuildHello(lists)) = lists
<1> DEFINE hello == BuildHello(lists)
<1>1. ASSUME NEW t \in Types
      PROVE  /\ DOMAIN hello[t] = DOMAIN lists[t]
             /\ \A i \in DOMAIN lists[t] :
                   cryptoAlgoTypeStringToInt(t, hello[t][i]) = lists[t][i]
  <2>1. hello[t] = [i \in DOMAIN lists[t] |-> cryptoAlgoTypeIntToString(t, lists[t][i])]
    BY DEF BuildHello
  <2> HIDE DEF hello
  <2>2. \A i \in DOMAIN lists[t] : lists[t][i] \in Implementable[t]
    BY DEF ListOK, ToSet
  <2> QED BY <2>1, <2>2, NameRead
<1>2. ParseHello(hello) =
        [t \in Types |-> addMandatoryCryptoTypesIfNeeded(t,
            [i \in DOMAIN hello[t] |-> cryptoAlgoTypeStringToInt(t, hello[t][i])])]
  BY DEF ParseHello
<1> HIDE DEF hello
<1>3. ASSUME NEW t \in Types
      PROVE  addMandatoryCryptoTypesIfNeeded(t,
               [i \in DOMAIN hello[t] |-> cryptoAlgoTypeStringToInt(t, hello[t][i])]) = lists[t]
  <2>1. lists[t] \in Seq(Nat)
    BY DEF ListOK
  <2>2. lists[t] = [i \in DOMAIN lists[t] |-> lists[t][i]]
    BY <2>1
  <2>3. [i \in DOMAIN hello[t] |-> cryptoAlgoTypeStringToInt(t, hello[t][i])] = lists[t]
    BY <1>1, <2>2
  <2>4. addMandatoryCryptoTypesIfNeeded(t, lists[t]) = lists[t]
    BY MandatoryKeepsOK
  <2> QED BY <2>3, <2>4
<1> QED BY <1>2, <1>3 DEF hello

-----------------------------------------------------------------------------
(* bzrtp_cryptoAlgoAgreement on two lists in order.                        *)

(* What two lists of a type have in common: the mandatory types at least. *)
LEMMA CommonOK ==
    ASSUME NEW t \in Types, NEW self, NEW peer, ListOK(t, self), ListOK(t, peer)
    PROVE  LET common == selectCommonAlgo(self, peer) IN
           /\ ToSet(common) = ToSet(self) \cap ToSet(peer)
           /\ ToSet(Mandatory[t]) \subseteq ToSet(common)
           /\ common # <<>> /\ Head(common) \in ToSet(common)
<1> DEFINE common == selectCommonAlgo(self, peer)
<1>1. common \in Seq(Nat) /\ ToSet(common) = ToSet(self) \cap ToSet(peer)
  BY AlgoAssumption, CommonAlgos DEF ListOK
<1>2. ToSet(Mandatory[t]) \subseteq ToSet(common)
  BY <1>1 DEF ListOK
<1>3. ToSet(Mandatory[t]) # {}
  BY DEF Mandatory, Types, ToSet
<1> HIDE DEF common
<1>4. common # <<>>
  BY <1>2, <1>3, Nothing
<1>5. Head(common) = common[1] /\ 1 \in DOMAIN common
  BY <1>1, <1>4
<1> QED BY <1>1, <1>2, <1>4, <1>5 DEF common, ToSet

(* Both endpoints come to the same key agreement, one that both have. *)
LEMMA KeyAgreementOK ==
    ASSUME NEW self, NEW peer, ListOK("keyAgreement", self), ListOK("keyAgreement", peer)
    PROVE  /\ KeyAgreement(self, peer) \in ToSet(self) \cap ToSet(peer)
           /\ KeyAgreement(self, peer) = KeyAgreement(peer, self)
<1> DEFINE mine == selectCommonAlgo(self, peer)
           theirs == selectCommonAlgo(peer, self)
<1>1. "keyAgreement" \in Types
  BY DEF Types
<1>2. /\ mine # <<>> /\ Head(mine) \in ToSet(self) \cap ToSet(peer)
      /\ theirs # <<>> /\ Head(theirs) \in ToSet(self) \cap ToSet(peer)
  BY <1>1, CommonOK
<1>3. Head(mine) \in Nat /\ Head(theirs) \in Nat
  BY <1>1, <1>2, NameOnce DEF ListOK
<1>4. /\ KeyAgreement(self, peer) = Faster(Head(mine), Head(theirs))
      /\ KeyAgreement(peer, self) = Faster(Head(theirs), Head(mine))
  BY <1>2 DEF KeyAgreement
<1> HIDE DEF mine, theirs
<1> QED BY <1>2, <1>3, <1>4 DEF Faster

(* Any other algorithm: one that both have. *)
LEMMA OtherAlgoOK ==
    ASSUME NEW t \in Types, NEW self, NEW peer, ListOK(t, self), ListOK(t, peer), NEW k
    PROVE  /\ OtherAlgo(t, self, peer, k) \in ToSet(self) \cap ToSet(peer)
           /\ t \in DOMAIN Preferred /\ Strong(k) /\ Preferred[t][1] \in ToSet(self) \cap ToSet(peer)
                => OtherAlgo(t, self, peer, k) = Preferred[t][1]
<1> DEFINE common == selectCommonAlgo(self, peer)
<1>1. /\ ToSet(common) = ToSet(self) \cap ToSet(peer)
      /\ ToSet(Mandatory[t]) \subseteq ToSet(common)
      /\ common # <<>> /\ Head(common) \in ToSet(common)
  BY CommonOK
<1>2. OtherAlgo(t, self, peer, k) = IF t \in DOMAIN Preferred /\ Strong(k)
                                    THEN Strongest(t, common) ELSE Head(common)
  BY <1>1 DEF OtherAlgo
<1> HIDE DEF common
<1>3. ASSUME t \in DOMAIN Preferred
      PROVE  /\ Strongest(t, common) \in ToSet(common)
             /\ Preferred[t][1] \in ToSet(common) => Strongest(t, common) = Preferred[t][1]
  <2>1. t = "hash" \/ t = "cipher"
    BY <1>3 DEF Preferred
  <2>2. CASE t = "hash"
    <3>1. S256 \in ToSet(common)
      BY <1>1, <2>2 DEF Mandatory, ToSet
    <3>2. Preferred[t][3] = S256
      BY <2>2 DEF Preferred
    <3> QED BY <3>1, <3>2 DEF Strongest
  <2>3. CASE t = "cipher"
    <3>1. AES1 \in ToSet(common)
      BY <1>1, <2>3 DEF Mandatory, ToSet
    <3>2. Preferred[t][3] = AES1
      BY <2>3 DEF Preferred
    <3> QED BY <3>1, <3>2 DEF Strongest
  <2> QED BY <2>1, <2>2, <2>3
<1> QED BY <1>1, <1>2, <1>3

(* The lists of both endpoints are in order. *)
AllOK(lists) == lists = [t \in Types |-> lists[t]] /\ \A t \in Types : ListOK(t, lists[t])

(* The algorithms chosen for a channel, given the lists of both sides. *)
LEMMA AgreementOK ==
    ASSUME NEW self, NEW peer, AllOK(self), AllOK(peer)
    PROVE  LET c == cryptoAlgoAgreement(self, peer) IN
           /\ c \in [Types -> Nat]
           /\ \A t \in Types : c[t] \in ToSet(self[t]) \cap ToSet(peer[t])
           /\ c["keyAgreement"] = KeyAgreement(self["keyAgreement"], peer["keyAgreement"])
           /\ /\ isPostQuantum(c["keyAgreement"])
              /\ AES3 \in ToSet(self["cipher"]) \cap ToSet(peer["cipher"])
              /\ S512 \in ToSet(self["hash"]) \cap ToSet(peer["hash"])
              => c["cipher"] = AES3 /\ c["hash"] = S512
<1> DEFINE k == KeyAgreement(self["keyAgreement"], peer["keyAgreement"])
           c == [t \in Types |->
                   IF t = "keyAgreement" THEN k ELSE OtherAlgo(t, self[t], peer[t], k)]
<1>1. /\ "keyAgreement" \in Types /\ "hash" \in Types /\ "cipher" \in Types /\ "sas" \in Types
      /\ "hash" # "keyAgreement" /\ "cipher" # "keyAgreement"
  BY DEF Types
<1>2. \A t \in Types : ListOK(t, self[t]) /\ ListOK(t, peer[t])
  BY DEF AllOK
<1>3. k \in ToSet(self["keyAgreement"]) \cap ToSet(peer["keyAgreement"])
  BY <1>1, <1>2, KeyAgreementOK
<1>4. cryptoAlgoAgreement(self, peer) =
        IF (\E t \in Types : c[t] = UNSET_ALGO) \/ ~Implemented(c) THEN None ELSE c
  BY DEF cryptoAlgoAgreement
<1> HIDE DEF k
<1>5. \A t \in Types : t # "keyAgreement" =>
        OtherAlgo(t, self[t], peer[t], k) \in ToSet(self[t]) \cap ToSet(peer[t])
  BY <1>2, OtherAlgoOK
<1>6. \A t \in Types : c[t] \in ToSet(self[t]) \cap ToSet(peer[t])
  BY <1>3, <1>5
<1>7. c["keyAgreement"] = k /\ c["cipher"] = OtherAlgo("cipher", self["cipher"], peer["cipher"], k)
      /\ c["hash"] = OtherAlgo("hash", self["hash"], peer["hash"], k) /\ DOMAIN c = Types
      /\ c = [t \in Types |-> c[t]]
  BY <1>1
<1> HIDE DEF c
<1>8. \A t \in Types : c[t] \in Implementable[t] /\ c[t] \in Nat /\ c[t] # UNSET_ALGO
  BY <1>2, <1>6, NameOnce DEF ListOK
<1>9. Implemented(c)
  <2>1. c["hash"] \in {S256, S384, S512} /\ c["cipher"] \in {AES1, AES3} /\ c["sas"] \in {B32, B256}
    BY <1>1, <1>8 DEF Implementable
  <2>2. c["keyAgreement"] \in Implementable["keyAgreement"]
    BY <1>1, <1>8
  <2>3. c["keyAgreement"] \notin {EC25, EC38, EC52}
    BY <2>2 DEF Implementable, DH2k, DH3k, EC25, EC38, EC52, KYB1, K255_KYB512,
                K448_KYB1024_HQC256, Mult
  <2> QED BY <2>1, <2>3 DEF Implemented
<1>10. cryptoAlgoAgreement(self, peer) = c /\ c \in [Types -> Nat]
  BY <1>4, <1>7, <1>8, <1>9
<1>11. ASSUME isPostQuantum(k), AES3 \in ToSet(self["cipher"]) \cap ToSet(peer["cipher"]),
              S512 \in ToSet(self["hash"]) \cap ToSet(peer["hash"])
       PROVE  c["cipher"] = AES3 /\ c["hash"] = S512
  <2>1. Strong(k)
    BY <1>11 DEF Strong
  <2>2. /\ "cipher" \in DOMAIN Preferred /\ Preferred["cipher"][1] = AES3
        /\ "hash" \in DOMAIN Preferred /\ Preferred["hash"][1] = S512
    BY DEF Preferred
  <2> QED BY <1>1, <1>2, <1>7, <1>11, <2>1, <2>2, OtherAlgoOK
<1> QED BY <1>6, <1>7, <1>10, <1>11 DEF k

-----------------------------------------------------------------------------
(* The lists of a context.                                                 *)

(* A list of what a build implements is a list of numbers. *)
LEMMA BuildList ==
    ASSUME NEW p \in Endpoints, NEW t \in Types
    PROVE  /\ Available[p][t] \in Seq(Nat)
           /\ ToSet(Available[p][t]) \subseteq Implementable[t]
<1>1. Implementable[t] \subseteq Nat
  BY NameOnce
<1>2. Available[p][t] \in Seq(Implementable[t])
  BY AlgoAssumption
<1> QED
  BY <1>1, <1>2 DEF ToSet

(* The lists of a new context are in order: Mult, cut off with the end of  *)
(* a long list of key agreements, is put back.                             *)
LEMMA AvailableOK ==
    ASSUME NEW p \in Endpoints, NEW t \in Types
    PROVE  ListOK(t, getAvailableCryptoTypes(p, t))
<1> PICK all : all = Available[p][t]
  OBVIOUS
<1>1. /\ all \in Seq(Nat) /\ ToSet(all) \subseteq Implementable[t] /\ IsInjective(all)
      /\ ToSet(Mandatory[t]) \subseteq ToSet(all) /\ ListSize \in Nat
      /\ t # "keyAgreement" => Len(all) <= ListSize
  BY BuildList, AlgoAssumption
<1>2. CASE ~(t = "keyAgreement" /\ Len(all) >= ListSize)
  <2>1. getAvailableCryptoTypes(p, t) = all
    BY <1>2 DEF getAvailableCryptoTypes
  <2> QED
    BY <1>1, <1>2, <2>1 DEF ListOK
<1>3. CASE t = "keyAgreement" /\ Len(all) >= ListSize
  <2> PICK n \in Nat : n = Len(all)
    BY <1>1
  <2>0. ListSize - 1 \in Nat
    <3> PICK c : c = Cardinality(Missing(t, all))
      OBVIOUS
    <3>1. c \in Nat /\ c < ListSize /\ ListSize \in Nat
      BY MissingSize
    <3> QED
      BY <3>1
  <2> PICK m \in Nat : m = ListSize - 1
    BY <2>0
  <2> PICK cut : cut = SubSeq(all, 1, m)
    OBVIOUS
  <2>1. getAvailableCryptoTypes(p, t) = Append(cut, Mult)
    BY <1>3 DEF getAvailableCryptoTypes
  <2>2. m < n /\ DOMAIN all = 1..n
    BY <1>1, <1>3
  <2>3. /\ cut \in Seq(Nat) /\ Len(cut) = m /\ DOMAIN cut = 1..m
        /\ \A i \in 1..m : cut[i] = all[i]
    BY <1>1, <2>2
  <2>4. /\ all[n] = Mult /\ \E i \in 1..m : all[i] = DH3k
    BY <1>3, AlgoAssumption
  <2>a. \A i, j \in 1..n : all[i] = all[j] => i = j
    BY <1>1, <2>2 DEF IsInjective
  <2>b. \A i \in 1..m : i \in 1..n /\ i # n
    BY <2>2
  <2>c. n \in 1..n
    BY <2>2
  <2>5. IsInjective(cut)
    BY <2>a, <2>b, <2>3 DEF IsInjective
  <2>d. ToSet(cut) = {all[i] : i \in 1..m} /\ ToSet(all) = {all[i] : i \in 1..n}
    <3>1. ToSet(cut) = {cut[i] : i \in 1..m} /\ ToSet(all) = {all[i] : i \in 1..n}
      BY <2>2, <2>3 DEF ToSet
    <3>2. {cut[i] : i \in 1..m} = {all[i] : i \in 1..m}
      BY <2>3
    <3> QED BY <3>1, <3>2
  <2>6. Mult \notin ToSet(cut) /\ ToSet(cut) \subseteq ToSet(all) /\ DH3k \in ToSet(cut)
    <3> HIDE DEF Mult, DH3k
    <3>1. ASSUME Mult \in ToSet(cut) PROVE FALSE
      <4>1. PICK i \in 1..m : all[i] = Mult
        BY <2>d, <3>1
      <4> QED BY <2>a, <2>b, <2>c, <2>4, <4>1
    <3>2. ToSet(cut) \subseteq ToSet(all)
      BY <2>b, <2>d
    <3>3. DH3k \in ToSet(cut)
      BY <2>d, <2>4
    <3> QED BY <3>1, <3>2, <3>3
  <2>7. Mult \in Nat /\ Mult \in ToSet(all)
    BY <2>2, <2>4 DEF Mult, ToSet
  <2>8. ToSet(Mandatory[t]) = {DH3k, Mult}
    BY <1>3 DEF Mandatory, ToSet
  <2> HIDE DEF Mult, DH3k
  <2> PICK l : l = Append(cut, Mult)
    OBVIOUS
  <2>9. /\ l \in Seq(Nat) /\ Len(l) = m + 1 /\ ToSet(l) = ToSet(cut) \cup {Mult}
        /\ IsInjective(l)
    <3>1. Append(cut, Mult) = l
      OBVIOUS
    <3> HIDE DEF Mult
    <3> QED
      BY ONLY <3>1, <2>3, <2>5, <2>6, <2>7, Appended, m \in Nat
  <2> QED
    BY <1>1, <2>1, <2>6, <2>7, <2>8, <2>9 DEF ListOK
<1> QED
  BY <1>2, <1>3

(* bzrtp_setSupportedCryptoTypes: whatever the application asks for. *)
LEMMA RequestOK ==
    ASSUME NEW p \in Endpoints, NEW t \in Types, NEW request \in Requests[t]
    PROVE  ListOK(t, addMandatoryCryptoTypesIfNeeded(t,
                        selectCommonAlgo(request, Available[p][t])))
<1> PICK known : known = selectCommonAlgo(request, Available[p][t])
  OBVIOUS
<1>1. request \in Seq(Nat) /\ ListSize \in Nat
  BY AlgoAssumption
<1>2. known \in Seq(Nat) /\ ToSet(known) \subseteq Implementable[t]
  BY <1>1, CommonAlgos, BuildList
<1> QED
  BY <1>2, MandatoryMakesOK

(* bzrtp_initBzrtpContext adds to a list that is in order. *)
LEMMA WithAlgoOK ==
    ASSUME NEW t \in Types, NEW list, ListOK(t, list), NEW a \in Implementable[t]
    PROVE  ListOK(t, WithAlgo(list, a))
<1>1. a \in Nat /\ ListSize \in Nat
  BY NameOnce, AlgoAssumption
<1>2. CASE Len(list) < ListSize /\ a \notin ToSet(list)
  <2> PICK l : l = Append(list, a)
    OBVIOUS
  <2>1. /\ l \in Seq(Nat) /\ Len(l) = Len(list) + 1 /\ ToSet(l) = ToSet(list) \cup {a}
        /\ IsInjective(l)
    BY <1>1, <1>2, Appended DEF ListOK
  <2> QED
    BY <1>1, <1>2, <2>1 DEF ListOK, WithAlgo
<1>3. CASE ~(Len(list) < ListSize /\ a \notin ToSet(list))
  BY <1>3 DEF WithAlgo
<1> QED
  BY <1>2, <1>3

(* A list of ciphers or hashes has room for one more as long as it misses  *)
(* one: there are at most three to put into it.                            *)
LEMMA WithAlgoHas ==
    ASSUME NEW t \in {"hash", "cipher"}, NEW list, ListOK(t, list), NEW a \in Implementable[t]
    PROVE  a \in ToSet(WithAlgo(list, a))
<1>1. a \in Nat /\ ListSize \in Nat /\ list \in Seq(Nat) /\ IsInjective(list)
  BY NameOnce, AlgoAssumption DEF ListOK, Types
<1>2. ListSize > 2
  BY <1>1, AlgoAssumption DEF Types, Mandatory
<1>3. ToSet(list) \subseteq Implementable[t] /\ Implementable[t] \subseteq {S256, S384, S512, AES1, AES3}
  BY DEF ListOK, Implementable
<1>4. CASE a \in ToSet(list)
  BY <1>4 DEF WithAlgo
<1>5. CASE a \notin ToSet(list)
  <2>1. \E x, y : Implementable[t] \ {a} \subseteq {x, y}
    <3>1. CASE t = "hash"
      <4>1. Implementable[t] = {S256, S384, S512}
        BY <3>1 DEF Implementable
      <4> HIDE DEF S256, S384, S512
      <4>2. \/ Implementable[t] \ {a} \subseteq {S384, S512}
            \/ Implementable[t] \ {a} \subseteq {S256, S512}
            \/ Implementable[t] \ {a} \subseteq {S256, S384}
        BY <4>1
      <4> QED
        BY <4>2
    <3>2. CASE t = "cipher"
      <4>1. Implementable[t] = {AES1, AES3}
        BY <3>2 DEF Implementable
      <4> HIDE DEF AES1, AES3
      <4> QED
        BY <4>1
    <3> QED
      BY <3>1, <3>2
  <2> PICK x, y : Implementable[t] \ {a} \subseteq {x, y}
    BY <2>1
  <2>2. ToSet(list) \subseteq {x, y}
    BY <1>3, <1>5
  <2> PICK n \in Nat : n = Len(list)
    BY <1>1
  <2>3. DOMAIN list = 1..n /\ \A i \in 1..n : list[i] \in {x, y}
    <3>1. DOMAIN list = 1..n
      BY <1>1
    <3>2. \A i \in 1..n : list[i] \in ToSet(list)
      BY <3>1 DEF ToSet
    <3> QED
      BY <3>1, <3>2, <2>2
  <2>4. \A i, j \in 1..n : list[i] = list[j] => i = j
    BY <1>1, <2>3 DEF IsInjective
  <2>5. n <= 2
    <3> SUFFICES ASSUME n > 2 PROVE FALSE
      OBVIOUS
    <3>1. 1 \in 1..n /\ 2 \in 1..n /\ 3 \in 1..n
      OBVIOUS
    <3>2. list[1] # list[2] /\ list[1] # list[3] /\ list[2] # list[3]
      BY <3>1, <2>4
    <3> QED
      BY <3>1, <3>2, <2>3
  <2>6. WithAlgo(list, a) = Append(list, a)
    BY <1>1, <1>2, <1>5, <2>5 DEF WithAlgo
  <2> QED
    BY <1>1, <2>6, Appended
<1> QED
  BY <1>4, <1>5

(* bzrtp_initBzrtpContext has seen to the lists. *)
Strengthened(lists) ==
    (\E k \in ToSet(lists["keyAgreement"]) : isPostQuantum(k))
        => AES3 \in ToSet(lists["cipher"]) /\ S512 \in ToSet(lists["hash"])

-----------------------------------------------------------------------------
(* The choice for a channel, and a Commit that carries it.                 *)

Choice(self, peer, main) ==
    LET c == cryptoAlgoAgreement(self, peer)
    IN  IF main THEN c ELSE [c EXCEPT !["keyAgreement"] = Mult]

CommitOf(c) == [t \in Types |-> cryptoAlgoTypeIntToString(t, c[t])]

(* What is chosen is supported on both sides, strong enough, and as far as *)
(* the key agreement goes it does not depend on who chooses.               *)
LEMMA ChoiceOK ==
    ASSUME NEW self, NEW peer, AllOK(self), AllOK(peer), NEW main \in BOOLEAN
    PROVE  LET c == Choice(self, peer, main) IN
           /\ c \in [Types -> Nat] /\ c # None
           /\ \A t \in Types : c[t] \in ToSet(self[t]) \cap ToSet(peer[t])
           /\ c["keyAgreement"] = Choice(peer, self, main)["keyAgreement"]
           /\ isPostQuantum(c["keyAgreement"]) /\ Strengthened(self) /\ Strengthened(peer)
                => c["cipher"] = AES3 /\ c["hash"] = S512
<1> DEFINE key(lists) == lists["keyAgreement"]
<1> PICK c : c = cryptoAlgoAgreement(self, peer)
  OBVIOUS
<1> PICK d : d = cryptoAlgoAgreement(peer, self)
  OBVIOUS
<1>1. /\ c \in [Types -> Nat] /\ d \in [Types -> Nat]
      /\ \A t \in Types : c[t] \in ToSet(self[t]) \cap ToSet(peer[t])
      /\ c["keyAgreement"] = KeyAgreement(key(self), key(peer))
      /\ d["keyAgreement"] = KeyAgreement(key(peer), key(self))
      /\ /\ isPostQuantum(c["keyAgreement"])
         /\ AES3 \in ToSet(self["cipher"]) \cap ToSet(peer["cipher"])
         /\ S512 \in ToSet(self["hash"]) \cap ToSet(peer["hash"])
         => c["cipher"] = AES3 /\ c["hash"] = S512
  BY AgreementOK
<1>2. "keyAgreement" \in Types
  BY DEF Types
<1>3. ListOK("keyAgreement", key(self)) /\ ListOK("keyAgreement", key(peer))
  BY <1>2 DEF AllOK
<1>4. c["keyAgreement"] = d["keyAgreement"]
  BY <1>1, <1>3, KeyAgreementOK
<1>5. CASE main
  <2>1. Choice(self, peer, main) = c /\ Choice(peer, self, main) = d
    BY <1>5 DEF Choice
  <2>2. isPostQuantum(c["keyAgreement"]) /\ Strengthened(self) /\ Strengthened(peer)
          => c["cipher"] = AES3 /\ c["hash"] = S512
    BY <1>1, <1>2 DEF Strengthened
  <2> QED
    BY <1>1, <1>4, <2>1, <2>2, NoneAssumption
<1>6. CASE ~main
  <2> PICK m : m = [c EXCEPT !["keyAgreement"] = Mult]
    OBVIOUS
  <2>1. /\ Choice(self, peer, main) = m
        /\ Choice(peer, self, main) = [d EXCEPT !["keyAgreement"] = Mult]
    BY <1>6 DEF Choice
  <2>2. /\ m \in [Types -> Nat] /\ m["keyAgreement"] = Mult
        /\ \A t \in Types \ {"keyAgreement"} : m[t] = c[t]
        /\ Choice(peer, self, main)["keyAgreement"] = Mult
    BY <1>1, <1>2, <2>1 DEF Mult
  <2>3. Mult \in ToSet(Mandatory["keyAgreement"])
    BY DEF Mandatory, ToSet
  <2>4. Mult \in ToSet(key(self)) \cap ToSet(key(peer))
    BY <1>3, <2>3 DEF ListOK
  <2>5. ~isPostQuantum(Mult)
    BY DEF isPostQuantum, Mult, KYB1, K448_KYB1024_HQC256
  <2>6. m # None
    BY <2>2, NoneAssumption
  <2>7. \A t \in Types : m[t] \in ToSet(self[t]) \cap ToSet(peer[t])
    BY <1>1, <2>2, <2>4
  <2> QED
    BY <2>1, <2>2, <2>5, <2>6, <2>7
<1> QED
  BY <1>5, <1>6

(* The peer reads the Commit as it was meant. *)
LEMMA CommitRead ==
    ASSUME NEW c \in [Types -> Nat], \A t \in Types : c[t] \in Implementable[t]
    PROVE  /\ CommitOf(c) # None
           /\ [t \in Types |-> cryptoAlgoTypeStringToInt(t, CommitOf(c)[t])] = c
<1>1. \A t \in Types : /\ cryptoAlgoTypeIntToString(t, c[t]) \in Names
                       /\ cryptoAlgoTypeStringToInt(t, cryptoAlgoTypeIntToString(t, c[t])) = c[t]
  BY NameRead
<1>2. CommitOf(c) \in [Types -> Names]
  BY <1>1 DEF CommitOf
<1>3. \A t \in Types : cryptoAlgoTypeStringToInt(t, CommitOf(c)[t]) = c[t]
  BY <1>1 DEF CommitOf
<1> QED
  BY <1>2, <1>3, NoneAssumption

-----------------------------------------------------------------------------
(* The inductive invariant.                                                *)

Contexts ==
    /\ supported = [p \in Endpoints |-> supported[p]]
    /\ \A p \in Endpoints : AllOK(supported[p])
    /\ isInitialised \in [Endpoints -> BOOLEAN]
    /\ \A p \in Endpoints : isInitialised[p] => Strengthened(supported[p])

Channels ==
    /\ isMainChannel \in BOOLEAN
    /\ algos = [p \in Endpoints |-> algos[p]]
    /\ commit = [p \in Endpoints |-> commit[p]]
    /\ role \in [Endpoints -> {"INITIATOR", "RESPONDER"}]
    /\ error = [p \in Endpoints |-> FALSE]

Chosen(p) == Choice(supported[p], supported[Other(p)], isMainChannel)

(* An endpoint uses what it chose or, once it is the responder, what the   *)
(* peer chose: its lists can no longer change.                             *)
Agreed ==
    \A p \in Endpoints :
        /\ algos[p] # None =>
             /\ isInitialised[p] /\ isInitialised[Other(p)]
             /\ algos[p] = Chosen(p) \/ (role[p] = "RESPONDER" /\ algos[p] = Chosen(Other(p)))
        /\ commit[p] # None => algos[p] # None /\ commit[p] = CommitOf(Chosen(p))

AlgoInv == Contexts /\ Channels /\ Agreed

(* There are two endpoints. *)
LEMMA TwoEndpoints ==
    ASSUME NEW p \in Endpoints
    PROVE  /\ Other(p) \in Endpoints /\ Other(p) # p /\ Other(Other(p)) = p
           /\ \A q \in Endpoints : q = p \/ q = Other(p)
BY AlgoAssumption DEF Endpoints, Other

(* What two contexts choose, stated for the states of the invariant. *)
LEMMA ChosenOK ==
    ASSUME Contexts, isMainChannel \in BOOLEAN, NEW p \in Endpoints
    PROVE  /\ Chosen(p) \in [Types -> Nat] /\ Chosen(p) # None
           /\ \A t \in Types : /\ Chosen(p)[t] \in ToSet(supported[p][t])
                               /\ Chosen(p)[t] \in ToSet(supported[Other(p)][t])
                               /\ Chosen(p)[t] \in Implementable[t]
           /\ Chosen(p)["keyAgreement"] = Chosen(Other(p))["keyAgreement"]
           /\ /\ isInitialised[p] /\ isInitialised[Other(p)]
              /\ isPostQuantum(Chosen(p)["keyAgreement"])
              => Chosen(p)["cipher"] = AES3 /\ Chosen(p)["hash"] = S512
<1> PICK self : self = supported[p]
  OBVIOUS
<1> PICK peer : peer = supported[Other(p)]
  OBVIOUS
<1> PICK c : c = Choice(self, peer, isMainChannel)
  OBVIOUS
<1>1. AllOK(self) /\ AllOK(peer)
  BY TwoEndpoints DEF Contexts
<1>2. Chosen(p) = c /\ Chosen(Other(p)) = Choice(peer, self, isMainChannel)
  BY TwoEndpoints DEF Chosen
<1>3. /\ c \in [Types -> Nat] /\ c # None
      /\ \A t \in Types : c[t] \in ToSet(self[t]) \cap ToSet(peer[t])
      /\ c["keyAgreement"] = Choice(peer, self, isMainChannel)["keyAgreement"]
      /\ isPostQuantum(c["keyAgreement"]) /\ Strengthened(self) /\ Strengthened(peer)
           => c["cipher"] = AES3 /\ c["hash"] = S512
  BY <1>1, ChoiceOK
<1>4. \A t \in Types : c[t] \in Implementable[t]
  BY <1>1, <1>3 DEF AllOK, ListOK
<1>5. isInitialised[p] /\ isInitialised[Other(p)] => Strengthened(self) /\ Strengthened(peer)
  BY TwoEndpoints DEF Contexts
<1> QED
  BY <1>2, <1>3, <1>4, <1>5

(* The lists of a context replaced by others in order. *)
LEMMA ListsReplaced ==
    ASSUME NEW lists, AllOK(lists), NEW t \in Types, NEW list, ListOK(t, list)
    PROVE  /\ AllOK([lists EXCEPT ![t] = list])
           /\ [lists EXCEPT ![t] = list][t] = list
           /\ \A u \in Types \ {t} : [lists EXCEPT ![t] = list][u] = lists[u]
<1> PICK new : new = [lists EXCEPT ![t] = list]
  OBVIOUS
<1>1. lists = [u \in Types |-> lists[u]]
  BY DEF AllOK
<1>2. /\ new = [u \in Types |-> new[u]] /\ new[t] = list
      /\ \A u \in Types \ {t} : new[u] = lists[u]
  BY <1>1
<1>3. \A u \in Types : ListOK(u, new[u])
  BY <1>2 DEF AllOK
<1> QED
  BY <1>2, <1>3 DEF AllOK

(* New contexts. *)
LEMMA AlgoInit == Init => AlgoInv
<1> SUFFICES ASSUME Init PROVE AlgoInv
  OBVIOUS
<1>1. Contexts
  <2>1. ASSUME NEW p \in Endpoints PROVE AllOK(supported[p])
    <3>1. supported[p] = [t \in Types |-> getAvailableCryptoTypes(p, t)]
      BY DEF Init
    <3>2. \A t \in Types : ListOK(t, getAvailableCryptoTypes(p, t))
      BY AvailableOK
    <3> QED
      BY <3>1, <3>2 DEF AllOK
  <2>2. supported = [p \in Endpoints |-> supported[p]]
    BY DEF Init
  <2>3. isInitialised \in [Endpoints -> BOOLEAN] /\ \A p \in Endpoints : ~isInitialised[p]
    BY DEF Init
  <2> QED
    BY <2>1, <2>2, <2>3 DEF Contexts
<1>2. Channels
  BY DEF Init, Channels
<1>3. Agreed
  BY DEF Init, Agreed
<1> QED
  BY <1>1, <1>2, <1>3 DEF AlgoInv

(* While an endpoint is not initialised no channel of it has algorithms,   *)
(* and the change of its lists disturbs nothing.                           *)
LEMMA NothingChosen ==
    ASSUME Agreed, NEW p \in Endpoints, ~isInitialised[p]
    PROVE  \A q \in Endpoints : algos[q] = None /\ commit[q] = None
BY TwoEndpoints DEF Agreed

(* Any request of the application leaves a list in order. *)
LEMMA AlgoSet ==
    ASSUME AlgoInv, NEW p \in Endpoints, NEW t \in Types, NEW request \in Requests[t],
           setSupportedCryptoTypes(p, t, request)
    PROVE  AlgoInv'
<1> PICK new : new = addMandatoryCryptoTypesIfNeeded(t,
                        selectCommonAlgo(request, Available[p][t]))
  OBVIOUS
<1>1. /\ ~isInitialised[p] /\ supported' = [supported EXCEPT ![p][t] = new]
      /\ UNCHANGED <<isInitialised, isMainChannel, algos, commit, role, error>>
  BY DEF setSupportedCryptoTypes
<1>2. ListOK(t, new)
  BY RequestOK
<1>3. /\ supported = [q \in Endpoints |-> supported[q]]
      /\ \A q \in Endpoints : AllOK(supported[q])
  BY DEF AlgoInv, Contexts
<1>4. /\ supported' = [q \in Endpoints |-> supported'[q]]
      /\ supported'[p] = [supported[p] EXCEPT ![t] = new]
      /\ \A q \in Endpoints \ {p} : supported'[q] = supported[q]
  BY <1>1, <1>3
<1>5. Contexts'
  <2>1. \A q \in Endpoints : AllOK(supported'[q])
    BY <1>2, <1>3, <1>4, ListsReplaced
  <2>2. \A q \in Endpoints : isInitialised'[q] => Strengthened(supported'[q])
    BY <1>1, <1>4 DEF AlgoInv, Contexts
  <2> QED
    BY <1>1, <1>4, <2>1, <2>2 DEF AlgoInv, Contexts
<1>6. Channels'
  BY <1>1 DEF AlgoInv, Channels
<1>7. Agreed'
  BY <1>1, NothingChosen DEF AlgoInv, Agreed
<1> QED
  BY <1>5, <1>6, <1>7 DEF AlgoInv

(* A context that is initialised is Strengthened. *)
LEMMA AlgoInitialise ==
    ASSUME AlgoInv, NEW p \in Endpoints, initBzrtpContext(p)
    PROVE  AlgoInv'
<1> DEFINE PQ == \E k \in ToSet(supported[p]["keyAgreement"]) : isPostQuantum(k)
<1> PICK cipher : cipher = WithAlgo(supported[p]["cipher"], AES3)
  OBVIOUS
<1> PICK hash : hash = WithAlgo(supported[p]["hash"], S512)
  OBVIOUS
<1>1. /\ ~isInitialised[p] /\ isInitialised' = [isInitialised EXCEPT ![p] = TRUE]
      /\ UNCHANGED <<isMainChannel, algos, commit, role, error>>
      /\ PQ => supported' = [supported EXCEPT ![p]["cipher"] = cipher, ![p]["hash"] = hash]
      /\ ~PQ => supported' = supported
  BY DEF initBzrtpContext
<1>2. /\ supported = [q \in Endpoints |-> supported[q]]
      /\ \A q \in Endpoints : AllOK(supported[q])
      /\ isInitialised \in [Endpoints -> BOOLEAN]
  BY DEF AlgoInv, Contexts
<1>3. /\ "cipher" \in Types /\ "hash" \in Types /\ "keyAgreement" \in Types
      /\ AES3 \in Implementable["cipher"] /\ S512 \in Implementable["hash"]
  BY DEF Types, Implementable
<1>4. /\ supported' = [q \in Endpoints |-> supported'[q]]
      /\ \A q \in Endpoints \ {p} : supported'[q] = supported[q]
  BY <1>1, <1>2
<1>5. AllOK(supported'[p]) /\ Strengthened(supported'[p])
  <2>1. CASE PQ
    <3> PICK lists : lists = supported[p]
      OBVIOUS
    <3> PICK some : some = [lists EXCEPT !["cipher"] = cipher]
      OBVIOUS
    <3>1. supported'[p] = [some EXCEPT !["hash"] = hash]
      BY <1>1, <1>2, <2>1
    <3>2. ListOK("cipher", lists["cipher"]) /\ ListOK("hash", lists["hash"]) /\ AllOK(lists)
      BY <1>2, <1>3 DEF AllOK
    <3>3. ListOK("cipher", cipher) /\ ListOK("hash", hash)
      BY <1>3, <3>2, WithAlgoOK
    <3>4. AES3 \in ToSet(cipher) /\ S512 \in ToSet(hash)
      BY <1>3, <3>2, WithAlgoHas
    <3>5. AllOK(some) /\ some["cipher"] = cipher
      BY <1>3, <3>2, <3>3, ListsReplaced
    <3>6. /\ AllOK(supported'[p]) /\ supported'[p]["hash"] = hash
          /\ supported'[p]["cipher"] = some["cipher"]
      BY <1>3, <3>1, <3>3, <3>5, ListsReplaced
    <3> QED
      BY <3>4, <3>5, <3>6 DEF Strengthened
  <2>2. CASE ~PQ
    BY <1>1, <1>2, <2>2 DEF Strengthened
  <2> QED
    BY <2>1, <2>2
<1>6. Contexts'
  <2>1. isInitialised' \in [Endpoints -> BOOLEAN]
    BY <1>1, <1>2
  <2>2. \A q \in Endpoints \ {p} : isInitialised'[q] = isInitialised[q]
    BY <1>1, <1>2
  <2>3. \A q \in Endpoints : AllOK(supported'[q])
    BY <1>2, <1>4, <1>5
  <2>4. \A q \in Endpoints : isInitialised'[q] => Strengthened(supported'[q])
    BY <1>4, <1>5, <2>2 DEF AlgoInv, Contexts
  <2> QED
    BY <1>4, <2>1, <2>3, <2>4 DEF Contexts
<1>7. Channels'
  BY <1>1 DEF AlgoInv, Channels
<1>8. Agreed'
  BY <1>1, NothingChosen DEF AlgoInv, Agreed
<1> QED
  BY <1>6, <1>7, <1>8 DEF AlgoInv

(* The steps that leave the lists alone leave Contexts and what would be   *)
(* chosen alone.                                                           *)
LEMMA ListsUntouched ==
    ASSUME AlgoInv, UNCHANGED <<supported, isInitialised, isMainChannel>>
    PROVE  /\ Contexts' /\ \A q \in Endpoints : Chosen(q)' = Chosen(q)
BY DEF AlgoInv, Contexts, Chosen

(* No Hello is refused. *)
LEMMA AlgoHello ==
    ASSUME AlgoInv, NEW p \in Endpoints, responseToHelloMessage(p)
    PROVE  AlgoInv'
<1> PICK hello : hello = ParseHello(BuildHello(supported[Other(p)]))
  OBVIOUS
<1> PICK c : c = cryptoAlgoAgreement(supported[p], hello)
  OBVIOUS
<1> PICK refused : refused = (c = None \/ (~isMainChannel /\ Mult \notin ToSet(hello["keyAgreement"])))
  OBVIOUS
<1>1. /\ isInitialised[p] /\ isInitialised[Other(p)] /\ algos[p] = None
      /\ error' = [error EXCEPT ![p] = refused]
      /\ algos' = [algos EXCEPT ![p] = IF refused \/ isMainChannel THEN c
                                       ELSE [c EXCEPT !["keyAgreement"] = Mult]]
      /\ UNCHANGED <<supported, isInitialised, isMainChannel, commit, role>>
  BY DEF responseToHelloMessage
<1>2. AllOK(supported[p]) /\ AllOK(supported[Other(p)])
  BY TwoEndpoints DEF AlgoInv, Contexts
<1>3. hello = supported[Other(p)]
  BY <1>2, HelloRead DEF AllOK
<1>4. c # None
  BY <1>2, <1>3, AgreementOK, NoneAssumption
<1>5. Mult \in ToSet(hello["keyAgreement"])
  <2>1. ListOK("keyAgreement", hello["keyAgreement"])
    BY <1>2, <1>3 DEF AllOK, Types
  <2>2. Mult \in ToSet(Mandatory["keyAgreement"])
    BY DEF Mandatory, ToSet
  <2> QED
    BY <2>1, <2>2 DEF ListOK
<1>6. refused = FALSE
  BY <1>4, <1>5
<1>7. algos' = [algos EXCEPT ![p] = Chosen(p)]
  BY <1>1, <1>3, <1>6 DEF Chosen, Choice
<1>8. Contexts' /\ \A q \in Endpoints : Chosen(q)' = Chosen(q)
  BY <1>1, ListsUntouched
<1>9. Channels'
  BY <1>1, <1>6, <1>7 DEF AlgoInv, Channels
<1>10. algos'[p] = Chosen(p) /\ \A q \in Endpoints \ {p} : algos'[q] = algos[q]
  BY <1>7 DEF AlgoInv, Channels
<1>11. Agreed'
  <2> SUFFICES ASSUME NEW q \in Endpoints
               PROVE  /\ algos'[q] # None =>
                           /\ isInitialised'[q] /\ isInitialised'[Other(q)]
                           /\ algos'[q] = Chosen(q)
                              \/ (role'[q] = "RESPONDER" /\ algos'[q] = Chosen(Other(q)))
                      /\ commit'[q] # None => algos'[q] # None /\ commit'[q] = CommitOf(Chosen(q))
    BY <1>8, TwoEndpoints DEF Agreed
  <2>1. CASE q = p
    BY <1>1, <1>10, <2>1 DEF AlgoInv, Agreed
  <2>2. CASE q # p
    BY <1>1, <1>10, <2>2 DEF AlgoInv, Agreed
  <2> QED
    BY <2>1, <2>2
<1> QED
  BY <1>8, <1>9, <1>11 DEF AlgoInv

(* A Commit carries what its sender chose. *)
LEMMA AlgoSend ==
    ASSUME AlgoInv, NEW p \in Endpoints, sendCommit(p)
    PROVE  AlgoInv'
<1>1. /\ algos[p] # None /\ role[p] = "INITIATOR"
      /\ commit' = [commit EXCEPT ![p] = CommitOf(algos[p])]
      /\ UNCHANGED <<supported, isInitialised, isMainChannel, algos, role, error>>
  BY DEF sendCommit, CommitOf
<1>2. algos[p] = Chosen(p)
  BY <1>1 DEF AlgoInv, Agreed
<1>3. Contexts' /\ \A q \in Endpoints : Chosen(q)' = Chosen(q)
  BY <1>1, ListsUntouched
<1>4. Channels'
  BY <1>1 DEF AlgoInv, Channels
<1>5. commit'[p] = CommitOf(Chosen(p)) /\ \A q \in Endpoints \ {p} : commit'[q] = commit[q]
  BY <1>1, <1>2 DEF AlgoInv, Channels
<1>6. Agreed'
  <2> SUFFICES ASSUME NEW q \in Endpoints
               PROVE  /\ algos'[q] # None =>
                           /\ isInitialised'[q] /\ isInitialised'[Other(q)]
                           /\ algos'[q] = Chosen(q)
                              \/ (role'[q] = "RESPONDER" /\ algos'[q] = Chosen(Other(q)))
                      /\ commit'[q] # None => algos'[q] # None /\ commit'[q] = CommitOf(Chosen(q))
    BY <1>3, TwoEndpoints DEF Agreed
  <2> QED
    BY <1>1, <1>5 DEF AlgoInv, Agreed
<1> QED
  BY <1>3, <1>4, <1>6 DEF AlgoInv

(* The responder reads what the initiator chose. *)
LEMMA AlgoTurn ==
    ASSUME AlgoInv, NEW p \in Endpoints, turnIntoResponder(p)
    PROVE  AlgoInv'
<1> PICK c : c = commit[Other(p)]
  OBVIOUS
<1>1. /\ algos[p] # None /\ c # None
      /\ role' = [role EXCEPT ![p] = "RESPONDER"]
      /\ algos' = [algos EXCEPT ![p] = [t \in Types |-> cryptoAlgoTypeStringToInt(t, c[t])]]
      /\ UNCHANGED <<supported, isInitialised, isMainChannel, commit, error>>
  BY DEF turnIntoResponder
<1>2. c = CommitOf(Chosen(Other(p)))
  BY <1>1, TwoEndpoints DEF AlgoInv, Agreed
<1>3. /\ Chosen(Other(p)) \in [Types -> Nat] /\ Chosen(Other(p)) # None
      /\ \A t \in Types : Chosen(Other(p))[t] \in Implementable[t]
  BY TwoEndpoints, ChosenOK DEF AlgoInv, Channels
<1>4. [t \in Types |-> cryptoAlgoTypeStringToInt(t, c[t])] = Chosen(Other(p))
  BY <1>2, <1>3, CommitRead
<1>5. Contexts' /\ \A q \in Endpoints : Chosen(q)' = Chosen(q)
  BY <1>1, ListsUntouched
<1>6. Channels'
  BY <1>1 DEF AlgoInv, Channels
<1>7. /\ algos'[p] = Chosen(Other(p)) /\ role'[p] = "RESPONDER"
      /\ \A q \in Endpoints \ {p} : algos'[q] = algos[q] /\ role'[q] = role[q]
  BY <1>1, <1>4 DEF AlgoInv, Channels
<1>8. Agreed'
  <2> SUFFICES ASSUME NEW q \in Endpoints
               PROVE  /\ algos'[q] # None =>
                           /\ isInitialised'[q] /\ isInitialised'[Other(q)]
                           /\ algos'[q] = Chosen(q)
                              \/ (role'[q] = "RESPONDER" /\ algos'[q] = Chosen(Other(q)))
                      /\ commit'[q] # None => algos'[q] # None /\ commit'[q] = CommitOf(Chosen(q))
    BY <1>5, TwoEndpoints DEF Agreed
  <2>1. CASE q = p
    BY <1>1, <1>3, <1>7, <2>1 DEF AlgoInv, Agreed
  <2>2. CASE q # p
    BY <1>1, <1>7, <2>2 DEF AlgoInv, Agreed
  <2> QED
    BY <2>1, <2>2
<1> QED
  BY <1>5, <1>6, <1>8 DEF AlgoInv

(* The inductive step, one lemma for each action. *)
LEMMA AlgoNext == AlgoInv /\ [Next]_vars => AlgoInv'
<1> SUFFICES ASSUME AlgoInv, [Next]_vars PROVE AlgoInv'
  OBVIOUS
<1>1. CASE UNCHANGED vars
  BY <1>1 DEF vars, AlgoInv, Contexts, Channels, Agreed, Chosen
<1>2. CASE Next
  <2> PICK p \in Endpoints :
        \/ \E t \in Types : \E request \in Requests[t] : setSupportedCryptoTypes(p, t, request)
        \/ initBzrtpContext(p)
        \/ responseToHelloMessage(p)
        \/ sendCommit(p)
        \/ turnIntoResponder(p)
    BY <1>2 DEF Next
  <2> QED
    BY AlgoSet, AlgoInitialise, AlgoHello, AlgoSend, AlgoTurn
<1> QED
  BY <1>1, <1>2

(* The invariant holds in every state. *)
LEMMA AlgoAlways == Spec => []AlgoInv
BY AlgoInit, AlgoNext, PTL DEF Spec

-----------------------------------------------------------------------------
(* bzrtp_setSupportedCryptoTypes and bzrtp_initBzrtpContext keep the lists *)
(* of every type within their arrays, without doubles, and complete with   *)
(* what is mandatory.                                                      *)
THEOREM ListsComplete == Spec => []TypeOK
<1>1. AlgoInv => TypeOK
  BY DEF AlgoInv, Contexts, AllOK, ListOK, TypeOK
<1> QED
  BY <1>1, AlgoAlways, PTL

(* The parser of the peer, which adds the mandatory types once more,       *)
(* recovers the lists a Hello was built from: bzrtp_packetParser and       *)
(* bzrtp_packetBuild.                                                      *)
THEOREM ListsSurvive == Spec => []ListsSurviveHello
<1>1. AlgoInv => ListsSurviveHello
  BY HelloRead DEF AlgoInv, Contexts, AllOK, ListsSurviveHello
<1> QED
  BY <1>1, AlgoAlways, PTL

(* bzrtp_responseToHelloMessage never meets ZRTP_CRYPTOAGREEMENT_INVALID*: *)
(* whatever the applications asked for, and on secondary channels too.     *)
THEOREM NeverRefused == Spec => []HelloAccepted
<1>1. AlgoInv => HelloAccepted
  BY DEF AlgoInv, Channels, HelloAccepted
<1> QED
  BY <1>1, AlgoAlways, PTL

(* bzrtp_cryptoAlgoAgreement gives both ends the same key agreement,       *)
(* without a message between them, so that crossing Commits are comparable *)
(* in state_keyAgreement_sendingCommit.                                    *)
THEOREM CommitsAgree == Spec => []CrossingCommitsAgree
<1>1. ASSUME AlgoInv PROVE CrossingCommitsAgree
  <2> SUFFICES ASSUME commit[A] # None, commit[B] # None
               PROVE  commit[A]["keyAgreement"] = commit[B]["keyAgreement"]
    BY DEF CrossingCommitsAgree
  <2>1. A \in Endpoints /\ B \in Endpoints /\ Other(A) = B
    BY AlgoAssumption DEF Endpoints, Other
  <2>2. commit[A] = CommitOf(Chosen(A)) /\ commit[B] = CommitOf(Chosen(B))
    BY <1>1, <2>1 DEF AlgoInv, Agreed
  <2>3. Chosen(A)["keyAgreement"] = Chosen(B)["keyAgreement"]
    BY <1>1, <2>1, ChosenOK DEF AlgoInv, Channels
  <2> QED
    BY <2>2, <2>3 DEF CommitOf, Types
<1> QED
  BY <1>1, AlgoAlways, PTL

(* What an endpoint uses is in its own lists, even when the Commit of the  *)
(* peer imposed it in bzrtp_turnIntoResponder, which does not look.        *)
THEOREM SupportedOnly == Spec => []UsesSupported
<1>1. ASSUME AlgoInv PROVE UsesSupported
  <2> SUFFICES ASSUME NEW p \in Endpoints, algos[p] # None, NEW t \in Types
               PROVE  algos[p][t] \in ToSet(supported[p][t])
    BY DEF UsesSupported
  <2>1. algos[p] = Chosen(p) \/ algos[p] = Chosen(Other(p))
    BY <1>1 DEF AlgoInv, Agreed
  <2>2. /\ Chosen(p)[t] \in ToSet(supported[p][t])
        /\ Chosen(Other(p))[t] \in ToSet(supported[p][t])
    BY <1>1, TwoEndpoints, ChosenOK DEF AlgoInv, Channels
  <2> QED
    BY <2>1, <2>2
<1> QED
  BY <1>1, AlgoAlways, PTL

(* The lists that bzrtp_initBzrtpContext completes at both ends let        *)
(* bzrtp_cryptoAlgoAgreement pair a post quantum key agreement with AES3   *)
(* and S512, always.                                                       *)
THEOREM StrongEnough == Spec => []PostQuantumStrength
<1>1. ASSUME AlgoInv PROVE PostQuantumStrength
  <2> SUFFICES ASSUME NEW p \in Endpoints, algos[p] # None,
                      isPostQuantum(algos[p]["keyAgreement"])
               PROVE  algos[p]["cipher"] = AES3 /\ algos[p]["hash"] = S512
    BY DEF PostQuantumStrength
  <2>1. /\ isInitialised[p] /\ isInitialised[Other(p)]
        /\ algos[p] = Chosen(p) \/ algos[p] = Chosen(Other(p))
    BY <1>1 DEF AlgoInv, Agreed
  <2>2. \A q \in Endpoints :
            isInitialised[q] /\ isInitialised[Other(q)] /\ isPostQuantum(Chosen(q)["keyAgreement"])
              => Chosen(q)["cipher"] = AES3 /\ Chosen(q)["hash"] = S512
    BY <1>1, ChosenOK DEF AlgoInv, Channels
  <2> QED
    BY <2>1, <2>2, TwoEndpoints
<1> QED
  BY <1>1, AlgoAlways, PTL
=============================================================================
