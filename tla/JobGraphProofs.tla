--------------------------- MODULE JobGraphProofs ---------------------------
(***************************************************************************)
(* Proofs about JobGraph, for programs of any size: what delay() stores    *)
(* keeps to the order that was said, and a direct run executes in order.   *)
(* Met, Ends and Closure are recursive functions; that they exist, and     *)
(* what is so at every step of them, follows from every set of numbers     *)
(* having a least one.                                                     *)
(***************************************************************************)
EXTENDS JobGraph, FiniteSetTheorems, WellFoundedInduction, SequenceTheorems, TLAPS

-----------------------------------------------------------------------------
(* Numbers, and functions defined by recursion on them                     *)

(* Every set of numbers has a least element,                               *)
LEMMA LeastNumber ==
    ASSUME NEW T \in SUBSET Nat, T # {}
    PROVE  \E m \in T : \A n \in T : m <= n
<1>1. \E m \in T : \A n \in T : <<n, m>> \notin OpToRel(<, Nat)
  BY NatLessThanWellFounded, WFMin
<1>2. \A m, n \in T : <<n, m>> \notin OpToRel(<, Nat) => ~ (n < m)
  BY DEF OpToRel
<1>3. \E m \in T : \A n \in T : ~ (n < m)
  BY <1>1, <1>2, Zenon
<1> QED
  BY <1>3

(* and one that is bounded has a greatest.                                 *)
LEMMA GreatestNumber ==
    ASSUME NEW T \in SUBSET Nat, T # {}, NEW bound \in Nat, \A n \in T : n <= bound
    PROVE  \E m \in T : \A n \in T : n <= m
<1> DEFINE D == {bound - n : n \in T}
<1>1. D \in SUBSET Nat /\ D # {}
  <2>1. \A n \in T : bound - n \in Nat
    OBVIOUS
  <2> QED
    BY <2>1
<1>2. PICK d \in D : \A e \in D : d <= e
  <2> HIDE DEF D
  <2> QED BY <1>1, LeastNumber
<1>3. PICK m \in T : d = bound - m
  BY <1>2
<1>4. ASSUME NEW n \in T
      PROVE  n <= m
  <2>1. bound - m <= bound - n
    BY <1>2, <1>3
  <2> QED
    BY <2>1
<1> QED
  BY <1>4

(* What holds of 0, and of n + 1 when of n, holds of all numbers.          *)
LEMMA Induction ==
    ASSUME NEW P, 0 \in P, \A n \in Nat : n \in P => n + 1 \in P
    PROVE  Nat \subseteq P
<1> DEFINE T == Nat \ P
<1> SUFFICES ASSUME T # {} PROVE FALSE
  OBVIOUS
<1>1. PICK m \in T : \A n \in T : m <= n
  BY LeastNumber
<1>2. m # 0 /\ m - 1 \in Nat /\ (m - 1) + 1 = m
  OBVIOUS
<1>3. m - 1 \in P
  BY <1>1, <1>2
<1> QED
  BY <1>2, <1>3

(* A function whose values are made of the values before exists.           *)
StepsIn(step, N, V) == \A m \in 1 .. N : \A g \in [1 .. m - 1 -> V] : step[m][g] \in V

MadeBy(step, N, V) ==
    {f \in [1 .. N -> V] : \A m \in 1 .. N : f[m] = step[m][[k \in 1 .. m - 1 |-> f[k]]]}

LEMMA ValuesExist ==
    ASSUME NEW N \in Nat, NEW V, NEW step, StepsIn(step, N, V)
    PROVE  MadeBy(step, N, V) # {}
<1> USE DEF StepsIn, MadeBy
<1> DEFINE Made(n, f) == \A m \in 1 .. n : f[m] = step[m][[k \in 1 .. m - 1 |-> f[k]]]
           P == {n \in Nat : n <= N => \E f \in [1 .. n -> V] : Made(n, f)}
<1>1. 0 \in P
  <2> DEFINE f == [k \in 1 .. 0 |-> 0]
  <2>1. f \in [1 .. 0 -> V] /\ Made(0, f)
    OBVIOUS
  <2> QED
    BY <2>1
<1>2. ASSUME NEW n \in Nat, n \in P PROVE n + 1 \in P
  <2> SUFFICES ASSUME n + 1 <= N PROVE \E g \in [1 .. n + 1 -> V] : Made(n + 1, g)
    OBVIOUS
  <2>1. PICK f \in [1 .. n -> V] : Made(n, f)
    BY <1>2
  <2> DEFINE g == [m \in 1 .. n + 1 |-> IF m = n + 1 THEN step[n + 1][f] ELSE f[m]]
  <2>2. step[n + 1][f] \in V
    OBVIOUS
  <2>3. g \in [1 .. n + 1 -> V]
    BY <2>2
  <2>4. f = [k \in 1 .. (n + 1) - 1 |-> g[k]]
    OBVIOUS
  <2>5. ASSUME NEW m \in 1 .. n
        PROVE  [k \in 1 .. m - 1 |-> f[k]] = [k \in 1 .. m - 1 |-> g[k]]
    OBVIOUS
  <2>6. ASSUME NEW m \in 1 .. n + 1
        PROVE  g[m] = step[m][[k \in 1 .. m - 1 |-> g[k]]]
    <3>1. CASE m = n + 1
      BY <2>4, <3>1
    <3>2. CASE m # n + 1
      <4>1. m \in 1 .. n /\ g[m] = f[m]
        BY <3>2
      <4> QED
        BY <2>1, <2>5, <4>1
    <3> QED
      BY <3>1, <3>2
  <2> QED
    BY <2>3, <2>6
<1> HIDE DEF P
<1>3. N \in P
  BY <1>1, <1>2, Induction
<1> QED
  BY <1>3 DEF P

(* So does one that applies a step again and again.                        *)
Iterations(step, z, S) == {f \in [Nat -> S] : f[0] = z /\ \A n \in Nat : f[n + 1] = step[f[n]]}

LEMMA IterationExists ==
    ASSUME NEW S, NEW z \in S, NEW step \in [S -> S]
    PROVE  Iterations(step, z, S) # {}
<1> USE DEF Iterations
<1> DEFINE Made(n, f) == f[0] = z /\ \A m \in 1 .. n : f[m] = step[f[m - 1]]
           P == {n \in Nat : \E f \in [0 .. n -> S] : Made(n, f)}
<1>1. 0 \in P
  <2> DEFINE f == [k \in 0 .. 0 |-> z]
  <2>1. f \in [0 .. 0 -> S] /\ Made(0, f)
    OBVIOUS
  <2> QED
    BY <2>1
<1>2. ASSUME NEW n \in Nat, n \in P PROVE n + 1 \in P
  <2>1. PICK f \in [0 .. n -> S] : Made(n, f)
    BY <1>2
  <2> DEFINE g == [m \in 0 .. n + 1 |-> IF m = n + 1 THEN step[f[n]] ELSE f[m]]
  <2>2. g \in [0 .. n + 1 -> S]
    OBVIOUS
  <2>3. Made(n + 1, g)
    BY <2>1
  <2> HIDE DEF g, Made
  <2> QED
    BY <2>2, <2>3
<1> HIDE DEF P
<1>3. Nat \subseteq P
  BY <1>1, <1>2, Induction
<1> DEFINE g == [n \in Nat |-> CHOOSE f \in [0 .. n -> S] : Made(n, f)]
<1>4. \A n \in Nat : g[n] \in [0 .. n -> S] /\ Made(n, g[n])
  BY <1>3 DEF P
<1> HIDE DEF g
<1>5. ASSUME NEW n \in Nat
      PROVE  \A m \in 0 .. n : g[n + 1][m] = g[n][m]
  <2> DEFINE Q == {m \in Nat : m <= n => g[n + 1][m] = g[n][m]}
  <2>1. 0 \in Q
    BY <1>4
  <2>2. ASSUME NEW m \in Nat, m \in Q PROVE m + 1 \in Q
    <3> SUFFICES ASSUME m + 1 <= n PROVE g[n + 1][m + 1] = g[n][m + 1]
      OBVIOUS
    <3>1. g[n][m + 1] = step[g[n][m]] /\ g[n + 1][m + 1] = step[g[n + 1][m]]
      <4>1. m + 1 \in 1 .. n /\ m + 1 \in 1 .. n + 1 /\ (m + 1) - 1 = m
        OBVIOUS
      <4> QED
        BY <1>4, <4>1
    <3> QED
      BY <2>2, <3>1
  <2> HIDE DEF Q
  <2>3. Nat \subseteq Q
    BY <2>1, <2>2, Induction
  <2> QED
    BY <2>3 DEF Q
<1> DEFINE f == [n \in Nat |-> g[n][n]]
<1>6. f \in [Nat -> S] /\ f[0] = z
  BY <1>4
<1>7. ASSUME NEW n \in Nat PROVE f[n + 1] = step[f[n]]
  <2>1. g[n + 1][n + 1] = step[g[n + 1][n]]
    <3>1. n + 1 \in 1 .. n + 1 /\ (n + 1) - 1 = n
      OBVIOUS
    <3> QED
      BY <1>4, <3>1
  <2> QED
    BY <1>5, <2>1
<1> QED
  BY <1>6, <1>7

LEMMA FewerIn ==
    ASSUME NEW B, IsFiniteSet(B), NEW A, A \subseteq B, A # B
    PROVE  Cardinality(A) < Cardinality(B)
<1>1. Cardinality(A) <= Cardinality(B) /\ (Cardinality(B) = Cardinality(A) => B = A) /\ IsFiniteSet(A)
  BY FS_Subset
<1>2. Cardinality(A) \in Nat /\ Cardinality(B) \in Nat
  BY <1>1, FS_CardinalityType
<1> QED
  BY <1>1, <1>2

(* Sets that grow for as long as they change, and stay in a set of N, have *)
(* stopped after N steps.                                                  *)
LEMMA Saturates ==
    ASSUME NEW N \in Nat, NEW T, IsFiniteSet(T), Cardinality(T) = N, NEW f \in [Nat -> SUBSET T],
           \A n \in Nat : f[n] \subseteq f[n + 1] /\ (f[n + 1] = f[n] => f[(n + 1) + 1] = f[n + 1])
    PROVE  f[N + 1] = f[N]
<1> SUFFICES ASSUME f[N + 1] # f[N] PROVE FALSE
  OBVIOUS
<1> DEFINE Q == {n \in Nat : n <= N => f[(N - n) + 1] # f[N - n]}
<1>1. 0 \in Q
  OBVIOUS
<1>2. ASSUME NEW n \in Nat, n \in Q PROVE n + 1 \in Q
  <2> SUFFICES ASSUME n + 1 <= N PROVE f[(N - (n + 1)) + 1] # f[N - (n + 1)]
    OBVIOUS
  <2> DEFINE k == N - (n + 1)
  <2>1. k \in Nat /\ k + 1 = N - n
    OBVIOUS
  <2>2. f[(k + 1) + 1] # f[k + 1]
    BY <1>2, <2>1
  <2> QED
    BY <2>1, <2>2
<1>3. Nat \subseteq Q
  <2> HIDE DEF Q
  <2> QED
    BY <1>1, <1>2, Induction
<1>4. \A n \in 0 .. N : f[n + 1] # f[n]
  <2> TAKE n \in 0 .. N
  <2>1. N - n \in Nat /\ N - n <= N /\ N - (N - n) = n
    OBVIOUS
  <2> QED
    BY <1>3, <2>1
<1> DEFINE P == {n \in Nat : n <= N + 1 => Cardinality(f[n]) >= n}
<1>5. \A n \in Nat : IsFiniteSet(f[n]) /\ Cardinality(f[n]) \in Nat /\ Cardinality(f[n]) <= N
  BY FS_Subset, FS_CardinalityType
<1>6. 0 \in P
  BY <1>5
<1>7. ASSUME NEW n \in Nat, n \in P PROVE n + 1 \in P
  <2> SUFFICES ASSUME n + 1 <= N + 1 PROVE Cardinality(f[n + 1]) >= n + 1
    OBVIOUS
  <2>1. Cardinality(f[n]) >= n /\ f[n] \subseteq f[n + 1] /\ f[n] # f[n + 1]
    BY <1>4, <1>7
  <2>2. Cardinality(f[n]) < Cardinality(f[n + 1])
    BY <1>5, <2>1, FewerIn
  <2> QED
    BY <1>5, <2>1, <2>2
<1>8. Nat \subseteq P
  <2> HIDE DEF P
  <2> QED
    BY <1>6, <1>7, Induction
<1>9. N + 1 \in Nat /\ Cardinality(f[N + 1]) >= N + 1
  BY <1>8
<1> QED
  BY <1>5, <1>9

-----------------------------------------------------------------------------
(* Programs                                                                *)

Thing == [kind : {"job", "chain", "group"}, parts : Seq(Nat)]

(* The parts of a thing are made before it; a chain has some, and links    *)
(* each to the next.                                                       *)
Proper(i) ==
    /\ \A k \in DOMAIN things[i].parts : things[i].parts[k] \in 1 .. i - 1
    /\ IsJob(i) => things[i].parts = <<>>
    /\ things[i].kind = "chain" =>
         /\ things[i].parts # <<>>
         /\ \A k \in 1 .. Len(things[i].parts) - 1 : <<things[i].parts[k], things[i].parts[k + 1]>> \in links[i]

(* What on_done was called for is linked, as is all that a thing holds.    *)
GraphShape ==
    /\ things \in Seq(Thing) /\ links \in Seq(SUBSET (Nat \X Nat)) /\ Len(links) = Len(things)
    /\ \A i \in Things : Proper(i) /\ links[i] \subseteq Things \X Things
    /\ promised \subseteq Things \X Things
    /\ \A p \in promised : Followed(p[1]) \X {p[2]} \subseteq links[p[1]]
    /\ split \subseteq Things

LEMMA ThingsNumbered ==
    ASSUME GraphShape
    PROVE  /\ Len(things) \in Nat /\ Things = 1 .. Len(things) /\ DOMAIN links = Things
           /\ IsFiniteSet(Things) /\ Cardinality(Things) = Len(things)
<1>1. Len(things) \in Nat /\ Things = 1 .. Len(things) /\ DOMAIN links = Things
  BY LenProperties DEF GraphShape, Things
<1>2. IsFiniteSet(1 .. Len(things)) /\ Cardinality(1 .. Len(things)) = Len(things)
  <2>1. 1 \in Int /\ Len(things) \in Int
    BY <1>1
  <2>2. Cardinality(1 .. Len(things)) = IF 1 > Len(things) THEN 0 ELSE Len(things) - 1 + 1
    BY <2>1, FS_Interval
  <2>3. IsFiniteSet(1 .. Len(things))
    BY <2>1, FS_Interval
  <2> QED
    BY <1>1, <2>2, <2>3
<1> QED
  BY <1>1, <1>2

LEMMA ThingShape ==
    ASSUME GraphShape, NEW i \in Things
    PROVE  /\ i \in Nat /\ things[i].kind \in {"job", "chain", "group"}
           /\ things[i].parts \in Seq(Nat)
           /\ Len(things[i].parts) \in Nat /\ DOMAIN things[i].parts = 1 .. Len(things[i].parts)
           /\ \A k \in DOMAIN things[i].parts : things[i].parts[k] \in Parts(i)
           /\ \A j \in Parts(i) : j \in Things /\ j < i
           /\ IsJob(i) => Parts(i) = {}
           /\ things[i].kind = "chain" =>
                /\ Len(things[i].parts) \in DOMAIN things[i].parts /\ 1 \in DOMAIN things[i].parts
                /\ First(things[i].parts) \in Parts(i) /\ Final(things[i].parts) \in Parts(i)
<1>1. things[i] \in Thing /\ i \in 1 .. Len(things) /\ Len(things) \in Nat
  BY ThingsNumbered, ElementOfSeq DEF GraphShape
<1>2. things[i].kind \in {"job", "chain", "group"} /\ things[i].parts \in Seq(Nat)
  BY <1>1 DEF Thing
<1>3. Len(things[i].parts) \in Nat /\ DOMAIN things[i].parts = 1 .. Len(things[i].parts)
  BY <1>2, LenProperties
<1>4. Proper(i)
  BY DEF GraphShape
<1>5. \A j \in Parts(i) : j \in Things /\ j < i
  BY <1>1, <1>4, ThingsNumbered DEF Proper, Parts
<1>6. ASSUME things[i].kind = "chain" PROVE Len(things[i].parts) \in DOMAIN things[i].parts /\ 1 \in DOMAIN things[i].parts
  <2>1. Len(things[i].parts) # 0
    BY <1>2, <1>4, <1>6, EmptySeq DEF Proper
  <2> QED
    BY <1>3, <2>1
<1>7. IsJob(i) => Parts(i) = {}
  BY <1>4 DEF Proper, Parts
<1>8. \A k \in DOMAIN things[i].parts : things[i].parts[k] \in Parts(i)
  BY DEF Parts
<1>9. things[i].kind = "chain" => First(things[i].parts) \in Parts(i) /\ Final(things[i].parts) \in Parts(i)
  BY <1>6, <1>8 DEF First, Final
<1> QED
  BY <1>1, <1>2, <1>3, <1>5, <1>6, <1>7, <1>8, <1>9

-----------------------------------------------------------------------------
(* The delayables at the start and at the end of a thing                   *)

(* What Ends is made of at a thing.                                        *)
EndsAt(e, i) ==
    LET parts == things[i].parts
        All(side) == UNION {e[parts[k]][side] : k \in DOMAIN parts}
    IN CASE things[i].kind = "job"   -> [head |-> {i}, tail |-> {i}, inside |-> {i}]
         [] things[i].kind = "group" -> [head |-> All("head"), tail |-> All("tail"),
                                         inside |-> All("inside")]
         [] things[i].kind = "chain" -> [head |-> e[First(parts)].tail,
                                         tail |-> e[Final(parts)].head,
                                         inside |-> All("inside")]

LEMMA EndsOf ==
    ASSUME GraphShape
    PROVE  /\ \A i \in Things : Ends[i] = EndsAt(Ends, i)
           /\ \A i \in Things : Ends[i] \in [head : SUBSET Things, tail : SUBSET Things, inside : SUBSET Things]
<1> DEFINE V == [head : SUBSET Things, tail : SUBSET Things, inside : SUBSET Things]
           N == Len(things)
           step == [m \in 1 .. N |-> [g \in [1 .. m - 1 -> V] |-> EndsAt(g, m)]]
<1>1. N \in Nat /\ Things = 1 .. N
  BY ThingsNumbered
<1>2. ASSUME NEW i \in Things, NEW D, NEW g \in [D -> V], Parts(i) \subseteq D
      PROVE  EndsAt(g, i) \in V
  <2> DEFINE parts == things[i].parts
  <2>1. \A k \in DOMAIN parts : g[parts[k]] \in V
    BY <1>2, ThingShape
  <2>2. CASE things[i].kind = "job"
    BY <2>2 DEF EndsAt
  <2>3. CASE things[i].kind = "group"
    <3>1. EndsAt(g, i) = [head |-> UNION {g[parts[k]].head : k \in DOMAIN parts},
                          tail |-> UNION {g[parts[k]].tail : k \in DOMAIN parts},
                          inside |-> UNION {g[parts[k]].inside : k \in DOMAIN parts}]
      BY <2>3 DEF EndsAt
    <3> QED
      BY <2>1, <3>1
  <2>4. CASE things[i].kind = "chain"
    <3>1. EndsAt(g, i) = [head |-> g[First(parts)].tail, tail |-> g[Final(parts)].head,
                          inside |-> UNION {g[parts[k]].inside : k \in DOMAIN parts}]
      BY <2>4 DEF EndsAt
    <3>2. g[First(parts)] \in V /\ g[Final(parts)] \in V
      BY <1>2, <2>4, ThingShape
    <3> QED
      BY <2>1, <3>1, <3>2
  <2> QED
    BY <2>2, <2>3, <2>4, ThingShape
<1>3. ASSUME NEW i \in Things, NEW e, NEW g, \A j \in Parts(i) : e[j] = g[j]
      PROVE  EndsAt(e, i) = EndsAt(g, i)
  <2> DEFINE parts == things[i].parts
  <2>1. \A k \in DOMAIN parts : e[parts[k]] = g[parts[k]]
    BY <1>3, ThingShape
  <2>2. ASSUME NEW side PROVE {e[parts[k]][side] : k \in DOMAIN parts} = {g[parts[k]][side] : k \in DOMAIN parts}
    BY <2>1
  <2>3. CASE things[i].kind = "job"
    BY <2>3 DEF EndsAt
  <2>4. CASE things[i].kind = "group"
    BY <2>2, <2>4 DEF EndsAt
  <2>5. CASE things[i].kind = "chain"
    BY <1>3, <2>2, <2>5, ThingShape DEF EndsAt
  <2> QED
    BY <2>3, <2>4, <2>5, ThingShape
<1>4. ASSUME NEW m \in 1 .. N, NEW g \in [1 .. m - 1 -> V] PROVE step[m][g] \in V
  <2>1. Parts(m) \subseteq 1 .. m - 1
    BY <1>1, ThingShape
  <2> QED
    BY <1>1, <1>2, <2>1
<1> HIDE DEF V
<1>5. PICK f \in MadeBy(step, N, V) : TRUE
  <2>1. N \in Nat
    BY <1>1
  <2>2. StepsIn(step, N, V)
    BY <1>4 DEF StepsIn
  <2> HIDE DEF step, N
  <2> QED
    BY <2>1, <2>2, ValuesExist
<1> USE DEF MadeBy
<1>6. \A m \in 1 .. N : f[m] = EndsAt(f, m)
  <2> TAKE m \in 1 .. N
  <2> DEFINE g == [k \in 1 .. m - 1 |-> f[k]]
  <2>1. g \in [1 .. m - 1 -> V] /\ \A j \in Parts(m) : g[j] = f[j]
    <3>1. \A j \in 1 .. m - 1 : j \in 1 .. N
      BY <1>1
    <3>2. \A j \in 1 .. N : f[j] \in V
      BY <1>5
    <3>3. \A j \in Parts(m) : j \in 1 .. m - 1
      <4> TAKE j \in Parts(m)
      <4>1. m \in Things /\ m \in Nat
        BY <1>1
      <4>2. j \in Things /\ j < m
        BY <4>1, ThingShape
      <4> HIDE DEF N
      <4> QED
        BY <1>1, <4>1, <4>2
    <3> QED
      BY <3>1, <3>2, <3>3
  <2>2. f[m] = EndsAt(g, m)
    BY <1>5, <2>1
  <2> HIDE DEF g
  <2> QED
    BY <1>1, <1>3, <2>1, <2>2
<1>7. f = [i \in Things |-> EndsAt(f, i)]
  BY <1>1, <1>6
<1>8. Ends = CHOOSE e : e = [i \in Things |-> EndsAt(e, i)]
  BY DEF Ends, EndsAt
<1>9. \A i \in Things : Ends[i] = EndsAt(Ends, i)
  <2>1. Ends = [i \in Things |-> EndsAt(Ends, i)]
    BY <1>7, <1>8
  <2> DEFINE e == Ends
  <2> HIDE DEF e
  <2>2. e = [i \in Things |-> EndsAt(e, i)]
    BY <2>1 DEF e
  <2>3. \A i \in Things : e[i] = EndsAt(e, i)
    BY <2>2
  <2> QED
    BY <2>3 DEF e
<1> DEFINE P == {n \in Nat : \A i \in Things : i <= n => Ends[i] = f[i]}
<1>10. Nat \subseteq P
  <2>1. 0 \in P
    BY <1>1
  <2>2. ASSUME NEW n \in Nat, n \in P PROVE n + 1 \in P
    <3> SUFFICES ASSUME n + 1 \in Things PROVE Ends[n + 1] = f[n + 1]
      BY <1>1, <2>2
    <3>1. \A j \in Parts(n + 1) : Ends[j] = f[j]
      BY <1>1, <2>2, ThingShape
    <3>2. Ends[n + 1] = EndsAt(Ends, n + 1)
      BY <1>9
    <3>3. EndsAt(Ends, n + 1) = EndsAt(f, n + 1)
      BY <1>3, <3>1
    <3>4. f[n + 1] = EndsAt(f, n + 1)
      BY <1>1, <1>6
    <3> QED
      BY <3>2, <3>3, <3>4
  <2> HIDE DEF P
  <2> QED
    BY <2>1, <2>2, Induction
<1>11. \A i \in Things : Ends[i] = f[i]
  BY <1>1, <1>10
<1> QED
  BY <1>1, <1>5, <1>9, <1>11 DEF V

(* What holds of a thing when it holds of its parts holds of all.          *)
LEMMA ThingInduction ==
    ASSUME GraphShape, NEW P, \A i \in Things : Parts(i) \subseteq P => i \in P
    PROVE  Things \subseteq P
<1> DEFINE Q == {n \in Nat : \A i \in Things : i <= n => i \in P}
<1>1. Things = 1 .. Len(things) /\ Len(things) \in Nat
  BY ThingsNumbered
<1>2. 0 \in Q
  BY <1>1
<1>3. ASSUME NEW n \in Nat, n \in Q PROVE n + 1 \in Q
  <2> SUFFICES ASSUME n + 1 \in Things PROVE n + 1 \in P
    BY <1>1, <1>3
  <2>1. Parts(n + 1) \subseteq P
    BY <1>1, <1>3, ThingShape
  <2> QED
    BY <2>1
<1>4. Nat \subseteq Q
  <2> HIDE DEF Q
  <2> QED
    BY <1>2, <1>3, Induction
<1> QED
  BY <1>1, <1>4

LEMMA EndsShape ==
    ASSUME GraphShape, NEW i \in Things
    PROVE  /\ IsJob(i) => Ends[i].head = {i} /\ Ends[i].tail = {i} /\ Ends[i].inside = {i}
           /\ things[i].kind = "group" =>
                /\ \A x : x \in Ends[i].head <=> \E j \in Parts(i) : x \in Ends[j].head
                /\ \A x : x \in Ends[i].tail <=> \E j \in Parts(i) : x \in Ends[j].tail
           /\ things[i].kind = "chain" =>
                /\ Ends[i].head = Ends[First(things[i].parts)].tail
                /\ Ends[i].tail = Ends[Final(things[i].parts)].head
           /\ ~IsJob(i) => \A x : x \in Ends[i].inside <=> \E j \in Parts(i) : x \in Ends[j].inside
<1> DEFINE parts == things[i].parts
<1>1. Ends[i] = EndsAt(Ends, i)
  BY EndsOf
<1>2. CASE things[i].kind = "job"
  BY <1>1, <1>2 DEF EndsAt, IsJob
<1>3. CASE things[i].kind = "group"
  <2>1. Ends[i] = [head |-> UNION {Ends[parts[k]].head : k \in DOMAIN parts},
                   tail |-> UNION {Ends[parts[k]].tail : k \in DOMAIN parts},
                   inside |-> UNION {Ends[parts[k]].inside : k \in DOMAIN parts}]
    BY <1>1, <1>3 DEF EndsAt
  <2>2. ~IsJob(i) /\ Parts(i) = {parts[k] : k \in DOMAIN parts}
    BY <1>3 DEF Parts, IsJob
  <2>3. \A x, side : x \in UNION {Ends[parts[k]][side] : k \in DOMAIN parts}
                        <=> \E j \in Parts(i) : x \in Ends[j][side]
    <3> HIDE DEF parts
    <3> TAKE x, side
    <3>1. x \in UNION {Ends[parts[k]][side] : k \in DOMAIN parts}
            <=> \E k \in DOMAIN parts : x \in Ends[parts[k]][side]
      OBVIOUS
    <3>2. (\E k \in DOMAIN parts : x \in Ends[parts[k]][side]) <=> \E j \in Parts(i) : x \in Ends[j][side]
      BY <2>2
    <3> QED
      BY <3>1, <3>2
  <2>4. /\ Ends[i].head = UNION {Ends[parts[k]].head : k \in DOMAIN parts}
        /\ Ends[i].tail = UNION {Ends[parts[k]].tail : k \in DOMAIN parts}
        /\ Ends[i].inside = UNION {Ends[parts[k]].inside : k \in DOMAIN parts}
    BY <2>1
  <2> HIDE DEF parts
  <2>5. \A x : x \in Ends[i].head <=> \E j \in Parts(i) : x \in Ends[j].head
    BY <2>3, <2>4
  <2>6. \A x : x \in Ends[i].tail <=> \E j \in Parts(i) : x \in Ends[j].tail
    BY <2>3, <2>4
  <2>7. \A x : x \in Ends[i].inside <=> \E j \in Parts(i) : x \in Ends[j].inside
    BY <2>3, <2>4
  <2> QED
    BY <1>3, <2>2, <2>5, <2>6, <2>7
<1>4. CASE things[i].kind = "chain"
  <2>1. Ends[i] = [head |-> Ends[First(parts)].tail, tail |-> Ends[Final(parts)].head,
                   inside |-> UNION {Ends[parts[k]].inside : k \in DOMAIN parts}]
    BY <1>1, <1>4 DEF EndsAt
  <2> QED
    BY <1>4, <2>1 DEF Parts, IsJob
<1> QED
  BY <1>2, <1>3, <1>4, ThingShape

(* Both ends of a thing are delayables it is made of.                      *)
LEMMA EndsInside ==
    ASSUME GraphShape, NEW i \in Things
    PROVE  /\ Ends[i].head \subseteq Ends[i].inside /\ Ends[i].tail \subseteq Ends[i].inside
           /\ Ends[i].inside \subseteq Jobs0
<1> DEFINE P == {v \in Things : /\ Ends[v].head \subseteq Ends[v].inside
                                /\ Ends[v].tail \subseteq Ends[v].inside
                                /\ Ends[v].inside \subseteq Jobs0}
<1>1. ASSUME NEW v \in Things, Parts(v) \subseteq P PROVE v \in P
  <2>1. CASE IsJob(v)
    BY <2>1, EndsShape DEF Jobs0
  <2>2. CASE things[v].kind = "group"
    BY <1>1, <2>2, EndsShape DEF IsJob
  <2>3. CASE things[v].kind = "chain"
    <3> DEFINE a == First(things[v].parts)
               b == Final(things[v].parts)
    <3>1. a \in Parts(v) /\ b \in Parts(v)
      BY <2>3, ThingShape
    <3> HIDE DEF a, b
    <3>2. \A j \in Parts(v) : /\ Ends[j].head \subseteq Ends[j].inside
                              /\ Ends[j].tail \subseteq Ends[j].inside
                              /\ Ends[j].inside \subseteq Jobs0
      BY <1>1
    <3>3. Ends[v].head = Ends[a].tail /\ Ends[v].tail = Ends[b].head
      BY <2>3, EndsShape DEF a, b
    <3>4. \A x : x \in Ends[v].inside <=> \E j \in Parts(v) : x \in Ends[j].inside
      BY <2>3, EndsShape DEF IsJob
    <3> QED
      BY <3>1, <3>2, <3>3, <3>4
  <2> QED
    BY <2>1, <2>2, <2>3, ThingShape DEF IsJob
<1> HIDE DEF P
<1>2. Things \subseteq P
  BY <1>1, ThingInduction
<1> QED
  BY <1>2 DEF P

-----------------------------------------------------------------------------
(* The things delay() meets                                                *)

LEMMA MetClosed ==
    ASSUME GraphShape, NEW i \in Things
    PROVE  /\ i \in Met(i) /\ Met(i) \subseteq Things
           /\ \A j \in Met(i) : Vertices(j) \subseteq Met(i)
<1> DEFINE N == Len(things)
           Wider(X) == X \cup UNION {Vertices(j) : j \in X}
           step == [X \in SUBSET Things |-> Wider(X)]
<1>1. N \in Nat /\ IsFiniteSet(Things) /\ Cardinality(Things) = N
  BY ThingsNumbered
<1>2. \A j \in Things : Vertices(j) \subseteq Things
  BY ThingShape DEF Vertices, GraphShape
<1>3. step \in [SUBSET Things -> SUBSET Things] /\ {i} \in SUBSET Things
  BY <1>2
<1>4. PICK f \in Iterations(step, {i}, SUBSET Things) : TRUE
  <2> HIDE DEF step, N, Wider
  <2>1. Iterations(step, {i}, SUBSET Things) # {}
    BY <1>3, IterationExists
  <2> QED
    BY <2>1
<1>5. /\ f \in [Nat -> SUBSET Things] /\ f[0] = {i}
      /\ \A n \in Nat : f[n + 1] = Wider(f[n])
  BY DEF Iterations
<1>6. f[N + 1] = f[N]
  <2>1. \A n \in Nat : f[n] \subseteq f[n + 1] /\ (f[n + 1] = f[n] => f[(n + 1) + 1] = f[n + 1])
    <3> TAKE n \in Nat
    <3>1. f[n + 1] = Wider(f[n]) /\ f[(n + 1) + 1] = Wider(f[n + 1])
      BY <1>5
    <3> QED
      BY <3>1
  <2> HIDE DEF N
  <2> QED
    BY <1>1, <1>5, <2>1, Saturates
<1> DEFINE MetBy(m) == [n \in 0 .. N |-> IF n = 0 THEN {i} ELSE Wider(m[n - 1])]
<1>7. PICK m : m = MetBy(m) /\ Met(i) = m[N]
  <2>1. Met(i) = (CHOOSE m : m = MetBy(m))[N]
    BY DEF Met
  <2>2. \E m : m = MetBy(m)
    <3> DEFINE m == [n \in 0 .. N |-> f[n]]
    <3>1. \A n \in 0 .. N : f[n] = IF n = 0 THEN {i} ELSE Wider(m[n - 1])
      <4> TAKE n \in 0 .. N
      <4>1. CASE n = 0
        BY <1>5, <4>1
      <4>2. CASE n # 0
        <5>1. n - 1 \in Nat /\ n - 1 \in 0 .. N /\ (n - 1) + 1 = n
          BY <1>1, <4>2
        <5>2. f[n] = Wider(f[n - 1])
          BY <1>5, <5>1
        <5> QED
          BY <4>2, <5>1, <5>2
      <4> QED
        BY <4>1, <4>2
    <3>2. m = MetBy(m)
      BY <3>1
    <3> QED
      BY <3>2
  <2> HIDE DEF MetBy
  <2> QED
    BY <2>1, <2>2
<1> DEFINE P == {n \in Nat : n <= N => m[n] = f[n] /\ i \in f[n]}
<1>8. N \in P
  <2> HIDE DEF step
  <2>1. m[0] = {i} /\ \A n \in 1 .. N : m[n] = Wider(m[n - 1])
    BY <1>1, <1>7
  <2>2. 0 \in P
    BY <1>5, <2>1
  <2>3. ASSUME NEW n \in Nat, n \in P PROVE n + 1 \in P
    <3> SUFFICES ASSUME n + 1 <= N PROVE m[n + 1] = f[n + 1] /\ i \in f[n + 1]
      OBVIOUS
    <3>1. n + 1 \in 1 .. N /\ (n + 1) - 1 = n /\ n <= N
      BY <1>1
    <3>2. m[n + 1] = Wider(m[n])
      BY <2>1, <3>1
    <3> QED
      BY <1>5, <2>3, <3>1, <3>2
  <2> HIDE DEF P
  <2> QED
    BY <1>1, <2>2, <2>3, Induction
<1>9. Met(i) = f[N] /\ i \in f[N]
  BY <1>1, <1>7, <1>8
<1>10. Met(i) = Met(i) \cup UNION {Vertices(j) : j \in Met(i)}
  BY <1>1, <1>5, <1>6, <1>9
<1>11. Met(i) \subseteq Things
  BY <1>1, <1>5, <1>9
<1> HIDE DEF N, P
<1> QED
  BY <1>9, <1>10, <1>11

LEMMA JobsMet ==
    ASSUME GraphShape, NEW i \in Things
    PROVE  \A v \in Met(i) : /\ Parts(v) \subseteq Met(i)
                             /\ Ends[v].inside \subseteq JobsOf(i)
                             /\ \A e \in links[v] : {e[1], e[2]} \subseteq Met(i)
<1>1. \A v \in Met(i) : v \in Things /\ Parts(v) \subseteq Met(i)
  BY MetClosed, ThingShape DEF Vertices
<1>2. \A v \in Met(i) : \A e \in links[v] : {e[1], e[2]} \subseteq Met(i)
  BY MetClosed DEF Vertices
<1> DEFINE P == {v \in Things : v \in Met(i) => Ends[v].inside \subseteq JobsOf(i)}
<1>3. ASSUME NEW v \in Things, Parts(v) \subseteq P PROVE v \in P
  <2>1. CASE IsJob(v)
    BY <2>1, EndsShape DEF JobsOf
  <2>2. CASE ~IsJob(v)
    BY <1>1, <1>3, <2>2, EndsShape
  <2> QED
    BY <2>1, <2>2
<1> HIDE DEF P
<1>4. Things \subseteq P
  BY <1>3, ThingInduction
<1> QED
  BY <1>1, <1>2, <1>4 DEF P

(* The edges of the whole graph lead from jobs of it to jobs of it.        *)
LEMMA EdgesBetweenJobs ==
    ASSUME GraphShape, NEW i \in Things
    PROVE  /\ Edges(i) \subseteq JobsOf(i) \X JobsOf(i)
           /\ JobsOf(i) \subseteq Things
           /\ \A v \in Met(i) : \A e \in links[v] : Ends[e[1]].tail \X Ends[e[2]].head \subseteq Edges(i)
<1>1. \A v \in Met(i) : \A e \in links[v] : Ends[e[1]].tail \X Ends[e[2]].head \subseteq Edges(i)
  BY DEF Edges
<1>2. Met(i) \subseteq Things
  BY MetClosed
<1>3. ASSUME NEW v \in Met(i), NEW e \in links[v]
      PROVE  Ends[e[1]].tail \subseteq JobsOf(i) /\ Ends[e[2]].head \subseteq JobsOf(i)
  <2>1. e[1] \in Met(i) /\ e[2] \in Met(i)
    BY JobsMet
  <2> QED
    BY <1>2, <2>1, JobsMet, EndsInside
<1>4. Edges(i) \subseteq JobsOf(i) \X JobsOf(i)
  <2> SUFFICES ASSUME NEW p \in Edges(i) PROVE p \in JobsOf(i) \X JobsOf(i)
    OBVIOUS
  <2>1. PICK v \in Met(i) : \E e \in links[v] : p \in Ends[e[1]].tail \X Ends[e[2]].head
    BY DEF Edges
  <2> QED
    BY <1>3, <2>1
<1> QED
  BY <1>1, <1>2, <1>4 DEF JobsOf

-----------------------------------------------------------------------------
(* What comes after what                                                   *)

Relations == SUBSET (Things \X Things)

(* The pairs of a relation, continued by an edge.                          *)
Continued(R, edges) == {p \in Things \X Things : \E i \in Things : <<p[1], i>> \in R /\ <<i, p[2]>> \in edges}

Paths(edges) == Iterations([R \in Relations |-> R \cup Continued(R, edges)], edges, Relations)

LEMMA ClosureIterates ==
    ASSUME GraphShape, NEW edges \in Relations
    PROVE  \E f \in Paths(edges) : Closure(edges) = f[Len(things)]
<1> DEFINE step == [R \in Relations |-> R \cup Continued(R, edges)]
           PathsBy(g) == [n \in Nat |-> IF n = 0 THEN edges ELSE g[n - 1] \cup Continued(g[n - 1], edges)]
<1>1. Len(things) \in Nat
  BY ThingsNumbered
<1>2. step \in [Relations -> Relations]
  BY DEF Relations, Continued
<1>3. PICK f \in Paths(edges) : TRUE
  <2>1. Paths(edges) = Iterations(step, edges, Relations)
    BY DEF Paths
  <2> HIDE DEF step
  <2> QED
    BY <1>2, <2>1, IterationExists
<1>4. f \in [Nat -> Relations] /\ f[0] = edges /\ \A n \in Nat : f[n + 1] = f[n] \cup Continued(f[n], edges)
  BY DEF Paths, Iterations
<1>5. f = PathsBy(f)
  <2>1. \A n \in Nat : f[n] = IF n = 0 THEN edges ELSE f[n - 1] \cup Continued(f[n - 1], edges)
    <3> TAKE n \in Nat
    <3>1. CASE n = 0
      BY <1>4, <3>1
    <3>2. CASE n # 0
      <4>1. n - 1 \in Nat /\ (n - 1) + 1 = n
        BY <3>2
      <4>2. f[n] = f[n - 1] \cup Continued(f[n - 1], edges)
        BY <1>4, <4>1
      <4> QED
        BY <3>2, <4>2
    <3> QED
      BY <3>1, <3>2
  <2> QED
    BY <1>4, <2>1
<1>6. PICK g : g = PathsBy(g) /\ Closure(edges) = g[Len(things)]
  <2>1. Closure(edges) = (CHOOSE g : g = PathsBy(g))[Len(things)]
    BY DEF Closure, Continued
  <2> HIDE DEF PathsBy
  <2> QED
    BY <1>5, <2>1
<1>7. g[0] = edges /\ \A n \in Nat : g[n + 1] = g[n] \cup Continued(g[n], edges)
  <2>1. \A n \in Nat : g[n] = IF n = 0 THEN edges ELSE g[n - 1] \cup Continued(g[n - 1], edges)
    BY <1>6
  <2>2. ASSUME NEW n \in Nat PROVE g[n + 1] = g[n] \cup Continued(g[n], edges)
    <3>1. n + 1 \in Nat /\ n + 1 # 0 /\ (n + 1) - 1 = n
      OBVIOUS
    <3> QED
      BY <2>1, <3>1
  <2> QED
    BY <2>1, <2>2
<1> DEFINE P == {n \in Nat : g[n] = f[n]}
<1>8. Nat \subseteq P
  <2>1. 0 \in P
    BY <1>4, <1>7
  <2>2. ASSUME NEW n \in Nat, n \in P PROVE n + 1 \in P
    <3>1. f[n + 1] = f[n] \cup Continued(f[n], edges) /\ g[n + 1] = g[n] \cup Continued(g[n], edges)
      BY <1>4, <1>7
    <3>2. g[n] = f[n]
      BY <2>2
    <3> QED
      BY <3>1, <3>2
  <2> HIDE DEF P
  <2> QED
    BY <2>1, <2>2, Induction
<1>9. Closure(edges) = f[Len(things)]
  BY <1>1, <1>6, <1>8
<1> QED
  BY <1>9

(* The closure is made of edges and goes on by edges; it is the least      *)
(* relation that does.                                                     *)
ClosedUnder(R, edges) == \A a, b, c \in Things : <<a, b>> \in R /\ <<b, c>> \in edges => <<a, c>> \in R

LEMMA ClosureGoesOn ==
    ASSUME GraphShape, NEW edges \in Relations
    PROVE  /\ edges \subseteq Closure(edges) /\ Closure(edges) \in Relations
           /\ ClosedUnder(Closure(edges), edges)
<1> DEFINE N == Len(things)
<1>1. PICK f \in Paths(edges) : Closure(edges) = f[N]
  BY ClosureIterates
<1>2. f \in [Nat -> Relations] /\ f[0] = edges /\ \A n \in Nat : f[n + 1] = f[n] \cup Continued(f[n], edges)
  BY DEF Paths, Iterations
<1>3. N \in Nat /\ IsFiniteSet(Things) /\ Cardinality(Things) = N
  BY ThingsNumbered
<1> HIDE DEF N
<1> DEFINE P == {n \in Nat : edges \subseteq f[n]}
<1>4. edges \subseteq f[N]
  <2>1. 0 \in P
    BY <1>2
  <2>2. ASSUME NEW n \in Nat, n \in P PROVE n + 1 \in P
    BY <1>2, <2>2
  <2> HIDE DEF P
  <2>3. Nat \subseteq P
    BY <2>1, <2>2, Induction
  <2> QED
    BY <1>3, <2>3 DEF P
<1>5. ClosedUnder(f[N], edges)
  <2> SUFFICES ASSUME NEW a \in Things, NEW b \in Things, NEW c \in Things, <<a, b>> \in f[N], <<b, c>> \in edges
               PROVE  <<a, c>> \in f[N]
    BY DEF ClosedUnder
  <2> DEFINE After(R) == {x \in Things : <<a, x>> \in R}
             g == [n \in Nat |-> After(f[n])]
  <2>1. g \in [Nat -> SUBSET Things]
    OBVIOUS
  <2>2. ASSUME NEW n \in Nat
        PROVE  g[n + 1] = g[n] \cup {x \in Things : \E y \in g[n] : <<y, x>> \in edges}
    <3>1. f[n + 1] = f[n] \cup Continued(f[n], edges)
      BY <1>2
    <3>2. \A x \in Things : <<a, x>> \in Continued(f[n], edges) <=> \E y \in After(f[n]) : <<y, x>> \in edges
      BY DEF Continued
    <3>3. After(f[n + 1]) = After(f[n]) \cup {x \in Things : \E y \in After(f[n]) : <<y, x>> \in edges}
      <4>1. \A x \in Things : x \in After(f[n + 1]) <=> x \in After(f[n]) \/ <<a, x>> \in Continued(f[n], edges)
        BY <3>1
      <4>2. After(f[n + 1]) \subseteq Things /\ After(f[n]) \subseteq Things
        OBVIOUS
      <4> HIDE DEF After
      <4> QED
        BY <3>2, <4>1, <4>2
    <3> HIDE DEF After
    <3>4. n + 1 \in Nat
      OBVIOUS
    <3>5. g[n] = After(f[n]) /\ g[n + 1] = After(f[n + 1])
      BY <3>4
    <3> HIDE DEF g
    <3> QED
      BY <3>3, <3>5
  <2> HIDE DEF g
  <2>3. \A n \in Nat : g[n] \subseteq g[n + 1] /\ (g[n + 1] = g[n] => g[(n + 1) + 1] = g[n + 1])
    <3> TAKE n \in Nat
    <3>1. n + 1 \in Nat
      OBVIOUS
    <3>2. /\ g[n + 1] = g[n] \cup {x \in Things : \E y \in g[n] : <<y, x>> \in edges}
          /\ g[(n + 1) + 1] = g[n + 1] \cup {x \in Things : \E y \in g[n + 1] : <<y, x>> \in edges}
      BY <2>2, <3>1
    <3> QED
      BY <3>2
  <2>4. g[N + 1] = g[N]
    BY <1>3, <2>1, <2>3, Saturates
  <2>5. b \in g[N]
    BY <1>3 DEF g
  <2>6. c \in g[N]
    BY <1>3, <2>2, <2>4, <2>5
  <2> QED
    BY <1>3, <2>6 DEF g
<1> QED
  BY <1>1, <1>2, <1>3, <1>4, <1>5

LEMMA ClosureIsLeast ==
    ASSUME GraphShape, NEW edges \in Relations, NEW R, edges \subseteq R, ClosedUnder(R, edges)
    PROVE  Closure(edges) \subseteq R
<1>1. PICK f \in Paths(edges) : Closure(edges) = f[Len(things)]
  BY ClosureIterates
<1>2. f \in [Nat -> Relations] /\ f[0] = edges /\ \A n \in Nat : f[n + 1] = f[n] \cup Continued(f[n], edges)
  BY DEF Paths, Iterations
<1> DEFINE P == {n \in Nat : f[n] \subseteq R}
<1>3. 0 \in P
  BY <1>2
<1>4. ASSUME NEW n \in Nat, n \in P PROVE n + 1 \in P
  <2>1. Continued(f[n], edges) \subseteq R
    <3> SUFFICES ASSUME NEW p \in Continued(f[n], edges) PROVE p \in R
      OBVIOUS
    <3>1. PICK i \in Things : p \in Things \X Things /\ <<p[1], i>> \in f[n] /\ <<i, p[2]>> \in edges
      BY DEF Continued
    <3>2. <<p[1], i>> \in R /\ p[1] \in Things /\ p[2] \in Things /\ p = <<p[1], p[2]>>
      BY <1>4, <3>1
    <3>3. <<p[1], p[2]>> \in R
      BY <3>1, <3>2 DEF ClosedUnder
    <3> QED
      BY <3>2, <3>3
  <2>2. n + 1 \in Nat /\ f[n + 1] = f[n] \cup Continued(f[n], edges)
    BY <1>2
  <2> QED
    BY <1>4, <2>1, <2>2
<1> HIDE DEF P
<1>5. Nat \subseteq P
  BY <1>3, <1>4, Induction
<1> QED
  BY <1>1, <1>5, ThingsNumbered DEF P

LEMMA ClosureTransitive ==
    ASSUME GraphShape, NEW edges \in Relations, NEW a \in Things, NEW b \in Things, NEW c \in Things,
           <<a, b>> \in Closure(edges), <<b, c>> \in Closure(edges)
    PROVE  <<a, c>> \in Closure(edges)
<1> DEFINE C == Closure(edges)
           R == {p \in Things \X Things : <<a, p[1]>> \in C => <<a, p[2]>> \in C}
<1>1. C \in Relations /\ ClosedUnder(C, edges)
  BY ClosureGoesOn
<1> HIDE DEF C
<1>2. edges \subseteq R
  <2> SUFFICES ASSUME NEW p \in edges PROVE p \in R
    OBVIOUS
  <2>1. p \in Things \X Things /\ p = <<p[1], p[2]>>
    BY DEF Relations
  <2> QED
    BY <1>1, <2>1 DEF ClosedUnder
<1>3. ClosedUnder(R, edges)
  BY <1>1 DEF ClosedUnder
<1> HIDE DEF R
<1>4. C \subseteq R
  BY <1>2, <1>3, ClosureIsLeast DEF C
<1>5. <<b, c>> \in R
  BY <1>4 DEF C
<1> QED
  BY <1>5 DEF R, C

-----------------------------------------------------------------------------
(* Plain programs                                                          *)

(* Every delayable of it is at its start and at its end.                   *)
Blunt(i) == Ends[i].head = Ends[i].inside /\ Ends[i].tail = Ends[i].inside

HasChain(c, i) == things[i].kind = "chain" \/ \E j \in Parts(i) : c[j]

LEMMA PlainIsBlunt ==
    ASSUME GraphShape, Plain, NEW i \in Things, things[i].kind = "chain"
    PROVE  Blunt(First(things[i].parts)) /\ Blunt(Final(things[i].parts))
<1> DEFINE N == Len(things)
           step == [m \in 1 .. N |-> [g \in [1 .. m - 1 -> BOOLEAN] |-> HasChain(g, m)]]
           ChainedBy(c) == [v \in Things |-> HasChain(c, v)]
<1>1. N \in Nat /\ Things = 1 .. N
  BY ThingsNumbered
<1>2. PICK f \in MadeBy(step, N, BOOLEAN) : TRUE
  <2>1. StepsIn(step, N, BOOLEAN)
    BY DEF StepsIn, HasChain
  <2> HIDE DEF step, N
  <2> QED
    BY <1>1, <2>1, ValuesExist
<1>3. \A v \in Things : f[v] = HasChain(f, v)
  <2> TAKE v \in Things
  <2> DEFINE g == [k \in 1 .. v - 1 |-> f[k]]
  <2>1. f \in [1 .. N -> BOOLEAN] /\ f[v] = step[v][g]
    <3> HIDE DEF step
    <3> QED
      BY <1>1 DEF MadeBy
  <2>2. g \in [1 .. v - 1 -> BOOLEAN] /\ f[v] = step[v][g]
    <3>1. \A k \in 1 .. v - 1 : f[k] \in BOOLEAN
      BY <1>1, <2>1
    <3> QED
      BY <2>1, <3>1
  <2>3. step[v][g] = HasChain(g, v)
    BY <1>1, <2>2
  <2>4. \A j \in Parts(v) : g[j] = f[j]
    BY <1>1, ThingShape
  <2>5. HasChain(g, v) = HasChain(f, v)
    <3> HIDE DEF g
    <3> QED
      BY <2>4 DEF HasChain
  <2> QED
    BY <2>2, <2>3, <2>5
<1>4. f = ChainedBy(f)
  BY <1>1, <1>3 DEF MadeBy
<1>5. PICK c : /\ c = ChainedBy(c)
               /\ \A v \in Things : things[v].kind = "chain" =>
                    ~c[First(things[v].parts)] /\ ~c[Final(things[v].parts)]
  <2> DEFINE c == CHOOSE c : c = ChainedBy(c)
  <2>1. \A v \in Things : things[v].kind = "chain" =>
                    ~c[First(things[v].parts)] /\ ~c[Final(things[v].parts)]
    BY DEF Plain, HasChain
  <2> HIDE DEF ChainedBy
  <2>2. c = ChainedBy(c)
    BY <1>4
  <2> HIDE DEF c
  <2> QED
    BY <2>1, <2>2
<1>6. \A v \in Things : c[v] = HasChain(c, v)
  BY <1>5
<1> DEFINE P == {v \in Things : ~c[v] => Blunt(v)}
<1>7. ASSUME NEW v \in Things, Parts(v) \subseteq P PROVE v \in P
  <2> SUFFICES ASSUME ~c[v] PROVE Blunt(v)
    OBVIOUS
  <2>1. things[v].kind # "chain" /\ \A j \in Parts(v) : Blunt(j)
    BY <1>6, <1>7 DEF HasChain
  <2>2. CASE IsJob(v)
    BY <2>2, EndsShape DEF Blunt
  <2>3. CASE things[v].kind = "group"
    <3>1. \A x : x \in Ends[v].head <=> x \in Ends[v].inside
      BY <2>1, <2>3, EndsShape DEF Blunt, IsJob
    <3>2. \A x : x \in Ends[v].tail <=> x \in Ends[v].inside
      BY <2>1, <2>3, EndsShape DEF Blunt, IsJob
    <3>3. Ends[v].head = Ends[v].inside
      <4>1. Ends[v].head \subseteq Things /\ Ends[v].inside \subseteq Things
        BY EndsOf
      <4> QED
        BY <3>1, <4>1
    <3>4. Ends[v].tail = Ends[v].inside
      <4>1. Ends[v].tail \subseteq Things /\ Ends[v].inside \subseteq Things
        BY EndsOf
      <4> QED
        BY <3>2, <4>1
    <3> QED
      BY <3>3, <3>4 DEF Blunt
  <2> QED
    BY <2>1, <2>2, <2>3, ThingShape DEF IsJob
<1> HIDE DEF P
<1>8. Things \subseteq P
  BY <1>7, ThingInduction
<1>9. First(things[i].parts) \in Things /\ Final(things[i].parts) \in Things
  BY ThingShape
<1> QED
  BY <1>5, <1>8, <1>9 DEF P

(* Nothing is without a delayable, at its start and at its end.            *)
LEMMA PlainIsFilled ==
    ASSUME GraphShape, Plain, NEW i \in Things
    PROVE  Ends[i].head # {} /\ Ends[i].tail # {} /\ Ends[i].inside # {}
<1> DEFINE P == {v \in Things : Ends[v].head # {} /\ Ends[v].tail # {}}
<1>1. ASSUME NEW v \in Things, Parts(v) \subseteq P PROVE v \in P
  <2>1. CASE IsJob(v)
    BY <2>1, EndsShape
  <2>2. CASE things[v].kind = "group"
    <3>1. PICK j \in Parts(v) : TRUE
      BY <2>2 DEF Plain
    <3>2. Ends[j].head # {} /\ Ends[j].tail # {}
      BY <1>1
    <3> QED
      BY <2>2, <3>2, EndsShape
  <2>3. CASE things[v].kind = "chain"
    <3> DEFINE a == First(things[v].parts)
               b == Final(things[v].parts)
    <3>1. a \in P /\ b \in P
      BY <1>1, <2>3, ThingShape
    <3> QED
      BY <2>3, <3>1, EndsShape
  <2> QED
    BY <2>1, <2>2, <2>3, ThingShape DEF IsJob
<1> HIDE DEF P
<1>2. Things \subseteq P
  BY <1>1, ThingInduction
<1> QED
  BY <1>2, EndsInside DEF P

-----------------------------------------------------------------------------
(* What was said is kept                                                   *)

(* Every delayable of a thing comes after its start and before its end.    *)
Spanned(v, C) ==
    \A j \in Ends[v].inside :
        /\ j \in Ends[v].head \/ \E h \in Ends[v].head : <<h, j>> \in C
        /\ j \in Ends[v].tail \/ \E t \in Ends[v].tail : <<j, t>> \in C

After(v, w, C) == Ends[v].inside \X Ends[w].inside \subseteq C

(* What is linked is ordered.                                              *)
LEMMA LinkOrders ==
    ASSUME GraphShape, NEW i \in Things, NEW x \in Met(i), NEW v, NEW w, <<v, w>> \in links[x],
           Spanned(v, Closure(Edges(i))), Spanned(w, Closure(Edges(i)))
    PROVE  After(v, w, Closure(Edges(i)))
<1> DEFINE C == Closure(Edges(i))
<1>1. v \in Things /\ w \in Things
  BY JobsMet, MetClosed
<1>2. Edges(i) \in Relations
  BY EdgesBetweenJobs DEF Relations
<1>3. Edges(i) \subseteq C
  BY <1>2, ClosureGoesOn
<1>4. Ends[v].tail \X Ends[w].head \subseteq C
  <2> DEFINE e == <<v, w>>
  <2>1. Ends[e[1]].tail \X Ends[e[2]].head \subseteq Edges(i)
    BY EdgesBetweenJobs
  <2> QED
    BY <1>3, <2>1
<1>5. \A a, b, c \in Things : <<a, b>> \in C /\ <<b, c>> \in C => <<a, c>> \in C
  BY <1>2, ClosureTransitive
<1>6. Ends[v].inside \subseteq Things /\ Ends[w].inside \subseteq Things
  BY <1>1, EndsInside DEF Jobs0
<1>7. Ends[v].tail \subseteq Things /\ Ends[w].head \subseteq Things
  BY <1>1, <1>6, EndsInside
<1> HIDE DEF C
<1>8. ASSUME NEW j \in Ends[v].inside, NEW k \in Ends[w].inside PROVE <<j, k>> \in C
  <2>1. PICK t \in Ends[v].tail : t = j \/ <<j, t>> \in C
    BY DEF Spanned, C
  <2>2. PICK h \in Ends[w].head : h = k \/ <<h, k>> \in C
    BY DEF Spanned, C
  <2>3. <<t, h>> \in C
    BY <1>4
  <2>4. <<j, h>> \in C
    BY <1>5, <1>6, <1>7, <2>1, <2>3
  <2> QED
    BY <1>5, <1>6, <1>7, <2>2, <2>4
<1> QED
  BY <1>8 DEF After, C

(* Order goes on, over what is not empty.                                  *)
LEMMA OrderGoesOn ==
    ASSUME GraphShape, Plain, NEW i \in Things, NEW u \in Things, NEW v \in Things, NEW w \in Things,
           After(u, v, Closure(Edges(i))), After(v, w, Closure(Edges(i)))
    PROVE  After(u, w, Closure(Edges(i)))
<1> DEFINE C == Closure(Edges(i))
<1>1. Edges(i) \in Relations
  BY EdgesBetweenJobs DEF Relations
<1>2. \A a, b, c \in Things : <<a, b>> \in C /\ <<b, c>> \in C => <<a, c>> \in C
  BY <1>1, ClosureTransitive
<1>3. PICK m \in Ends[v].inside : TRUE
  BY PlainIsFilled
<1>4. Ends[u].inside \subseteq Things /\ Ends[v].inside \subseteq Things /\ Ends[w].inside \subseteq Things
  BY EndsInside DEF Jobs0
<1> HIDE DEF C
<1>5. ASSUME NEW a \in Ends[u].inside, NEW c \in Ends[w].inside PROVE <<a, c>> \in C
  <2>1. <<a, m>> \in C /\ <<m, c>> \in C
    BY <1>3 DEF After, C
  <2> QED
    BY <1>2, <1>3, <1>4, <2>1
<1> QED
  BY <1>5 DEF After, C

(* So the parts of a chain are ordered.                                    *)
LEMMA ChainOrders ==
    ASSUME GraphShape, Plain, NEW i \in Things, NEW v \in Met(i), things[v].kind = "chain",
           \A j \in Parts(v) : Spanned(j, Closure(Edges(i))),
           NEW l \in DOMAIN things[v].parts, NEW k \in 1 .. l - 1
    PROVE  After(things[v].parts[k], things[v].parts[l], Closure(Edges(i)))
<1> DEFINE C == Closure(Edges(i))
           parts == things[v].parts
           P == {n \in Nat : n \in DOMAIN parts /\ k < n => After(parts[k], parts[n], C)}
<1>1. v \in Things
  BY MetClosed
<1>2. /\ Len(parts) \in Nat /\ DOMAIN parts = 1 .. Len(parts)
      /\ \A n \in DOMAIN parts : parts[n] \in Parts(v) /\ parts[n] \in Things
  BY <1>1, ThingShape
<1>3. \A n \in 1 .. Len(parts) - 1 : <<parts[n], parts[n + 1]>> \in links[v]
  BY <1>1 DEF GraphShape, Proper
<1>4. \A n \in 1 .. Len(parts) - 1 : After(parts[n], parts[n + 1], C)
  <2> TAKE n \in 1 .. Len(parts) - 1
  <2>1. n \in DOMAIN parts /\ n + 1 \in DOMAIN parts
    BY <1>2
  <2> HIDE DEF parts
  <2>2. Spanned(parts[n], C) /\ Spanned(parts[n + 1], C)
    BY <1>2, <2>1
  <2> QED
    BY <1>3, <2>2, LinkOrders
<1> HIDE DEF C, parts
<1>5. 0 \in P
  BY <1>2
<1>6. ASSUME NEW n \in Nat, n \in P PROVE n + 1 \in P
  <2> SUFFICES ASSUME n + 1 \in DOMAIN parts, k < n + 1 PROVE After(parts[k], parts[n + 1], C)
    OBVIOUS
  <2>1. k \in DOMAIN parts /\ k \in Nat /\ n \in 1 .. Len(parts) - 1 /\ n \in DOMAIN parts
    BY <1>2 DEF parts
  <2>2. After(parts[n], parts[n + 1], C)
    BY <1>4, <2>1
  <2>3. CASE k = n
    BY <2>2, <2>3
  <2>4. CASE k # n
    <3>1. After(parts[k], parts[n], C)
      BY <1>6, <2>1, <2>4
    <3> QED
      BY <1>2, <2>1, <2>2, <3>1, OrderGoesOn DEF C
  <2> QED
    BY <2>3, <2>4
<1>7. l \in P
  <2> HIDE DEF P
  <2>1. Nat \subseteq P
    BY <1>5, <1>6, Induction
  <2> QED
    BY <1>2, <2>1 DEF parts
<1>8. After(parts[k], parts[l], C)
  <2>1. k < l /\ l \in DOMAIN parts
    BY <1>2 DEF parts
  <2> QED
    BY <1>7, <2>1
<1> QED
  BY <1>8 DEF C, parts

(* Every thing that delay() meets is spanned by its ends.                  *)
LEMMA PlainSpans ==
    ASSUME GraphShape, Plain, NEW i \in Things, NEW v \in Met(i)
    PROVE  Spanned(v, Closure(Edges(i)))
<1> DEFINE C == Closure(Edges(i))
           P == {u \in Things : u \in Met(i) => Spanned(u, C)}
<1>1. ASSUME NEW u \in Things, Parts(u) \subseteq P PROVE u \in P
  <2> SUFFICES ASSUME u \in Met(i) PROVE Spanned(u, C)
    OBVIOUS
  <2>1. \A q \in Parts(u) : Spanned(q, C)
    BY <1>1, JobsMet
  <2> HIDE DEF C
  <2>2. CASE IsJob(u)
    BY <2>2, EndsShape DEF Spanned
  <2>3. CASE things[u].kind = "group"
    <3> SUFFICES ASSUME NEW j \in Ends[u].inside
                 PROVE  /\ j \in Ends[u].head \/ \E h \in Ends[u].head : <<h, j>> \in C
                        /\ j \in Ends[u].tail \/ \E t \in Ends[u].tail : <<j, t>> \in C
      BY DEF Spanned
    <3>1. PICK q \in Parts(u) : j \in Ends[q].inside
      BY <2>3, EndsShape DEF IsJob
    <3>2. Ends[q].head \subseteq Ends[u].head /\ Ends[q].tail \subseteq Ends[u].tail
      BY <2>3, <3>1, EndsShape
    <3> QED
      BY <2>1, <3>1, <3>2 DEF Spanned
  <2>4. CASE things[u].kind = "chain"
    <3> DEFINE parts == things[u].parts
    <3>1. /\ Len(parts) \in Nat /\ DOMAIN parts = 1 .. Len(parts)
          /\ \A n \in DOMAIN parts : parts[n] \in Things
          /\ 1 \in DOMAIN parts /\ Len(parts) \in DOMAIN parts
      BY <2>4, ThingShape
    <3>2. \A l \in DOMAIN parts : \A k \in 1 .. l - 1 : After(parts[k], parts[l], C)
      BY <2>1, <2>4, ChainOrders DEF C
    <3>3. Ends[u].head = Ends[parts[1]].inside /\ Ends[u].tail = Ends[parts[Len(parts)]].inside
      BY <2>4, EndsShape, PlainIsBlunt DEF Blunt, First, Final
    <3>4. ASSUME NEW j \in Ends[u].inside
          PROVE  \E n \in DOMAIN parts : j \in Ends[parts[n]].inside
      <4>1. \E q \in Parts(u) : j \in Ends[q].inside
        BY <2>4, EndsShape DEF IsJob
      <4> QED
        BY <4>1 DEF Parts
    <3> HIDE DEF parts
    <3> SUFFICES ASSUME NEW j \in Ends[u].inside
                 PROVE  /\ j \in Ends[u].head \/ \E h \in Ends[u].head : <<h, j>> \in C
                        /\ j \in Ends[u].tail \/ \E t \in Ends[u].tail : <<j, t>> \in C
      BY DEF Spanned
    <3>5. PICK n \in DOMAIN parts : j \in Ends[parts[n]].inside
      BY <3>4
    <3>6. j \in Ends[u].head \/ \E h \in Ends[u].head : <<h, j>> \in C
      <4>1. PICK h \in Ends[parts[1]].inside : TRUE
        BY <3>1, PlainIsFilled
      <4>2. CASE n = 1
        BY <3>3, <3>5, <4>2
      <4>3. CASE n # 1
        <5>1. 1 \in 1 .. n - 1
          BY <3>1, <4>3
        <5>2. After(parts[1], parts[n], C)
          BY <3>2, <5>1
        <5> QED
          BY <3>3, <3>5, <4>1, <5>2 DEF After
      <4> QED
        BY <4>2, <4>3
    <3>7. j \in Ends[u].tail \/ \E t \in Ends[u].tail : <<j, t>> \in C
      <4>1. PICK t \in Ends[parts[Len(parts)]].inside : TRUE
        BY <3>1, PlainIsFilled
      <4>2. CASE n = Len(parts)
        BY <3>3, <3>5, <4>2
      <4>3. CASE n # Len(parts)
        <5>1. n \in 1 .. Len(parts) - 1
          BY <3>1, <4>3
        <5>2. After(parts[n], parts[Len(parts)], C)
          BY <3>1, <3>2, <5>1
        <5> QED
          BY <3>3, <3>5, <4>1, <5>2 DEF After
      <4> QED
        BY <4>2, <4>3
    <3> QED
      BY <3>6, <3>7
  <2> QED
    BY <2>2, <2>3, <2>4, ThingShape DEF IsJob
<1> HIDE DEF P
<1>2. Things \subseteq P
  BY <1>1, ThingInduction
<1> QED
  BY <1>2, MetClosed DEF P

(* A thing whose parts come before another does.                           *)
LEMMA PartsBefore ==
    ASSUME GraphShape, NEW v \in Things, ~IsJob(v), NEW w, NEW C, \A q \in Parts(v) : After(q, w, C)
    PROVE  After(v, w, C)
<1>1. ASSUME NEW j \in Ends[v].inside, NEW k \in Ends[w].inside PROVE <<j, k>> \in C
  <2>1. PICK q \in Parts(v) : j \in Ends[q].inside
    BY EndsShape
  <2> QED
    BY <2>1 DEF After
<1> QED
  BY <1>1 DEF After

(* What a plain program has said of the jobs follows from the edges.       *)
LEMMA SaidIsOrdered ==
    ASSUME GraphShape, Plain, top \in Things
    PROVE  JobOrder \subseteq Closure(Edges(top))
<1> DEFINE C == Closure(Edges(top))
<1>1. \A v \in Met(top) : v \in Things /\ Parts(v) \subseteq Met(top) /\ Spanned(v, C)
  BY MetClosed, JobsMet, PlainSpans
<1>2. \A v \in Met(top) : things[v].kind = "chain" =>
        \A l \in DOMAIN things[v].parts : \A k \in 1 .. l - 1 : After(things[v].parts[k], things[v].parts[l], C)
  BY <1>1, ChainOrders
<1>3. ASSUME NEW v \in Met(top), NEW u, NEW w, <<u, w>> \in links[v] PROVE After(u, w, C)
  <2> DEFINE e == <<u, w>>
  <2>1. {e[1], e[2]} \subseteq Met(top)
    BY <1>3, JobsMet
  <2>2. Spanned(u, C) /\ Spanned(w, C)
    BY <1>1, <2>1
  <2> QED
    BY <1>3, <2>2, LinkOrders
<1>4. ASSUME NEW p \in promised, p[1] \in Met(top) PROVE After(p[1], p[2], C)
  <2> DEFINE v == p[1]
             w == p[2]
             parts == things[v].parts
  <2>1. Followed(v) \X {w} \subseteq links[v] /\ v \in Things /\ w \in Things
    BY DEF GraphShape
  <2>2. \A u \in Followed(v) : After(u, w, C)
    BY <1>3, <1>4, <2>1
  <2> HIDE DEF w
  <2>3. CASE things[v].kind = "job"
    BY <2>2, <2>3 DEF Followed, w
  <2>4. CASE things[v].kind = "group"
    <3>1. Followed(v) = Parts(v)
      BY <2>4 DEF Followed
    <3> QED
      BY <2>1, <2>2, <2>4, <3>1, PartsBefore DEF IsJob, w
  <2>5. CASE things[v].kind = "chain"
    <3>1. Final(parts) \in Followed(v)
      BY <2>5 DEF Followed
    <3>2. /\ Len(parts) \in Nat /\ Len(parts) \in DOMAIN parts /\ DOMAIN parts = 1 .. Len(parts)
          /\ \A k \in DOMAIN parts : parts[k] \in Things
      BY <2>1, <2>5, ThingShape
    <3>3. After(parts[Len(parts)], w, C)
      BY <2>2, <3>1 DEF Final
    <3>4. ASSUME NEW k \in DOMAIN parts PROVE After(parts[k], w, C)
      <4>1. CASE k = Len(parts)
        BY <3>3, <4>1
      <4>2. CASE k # Len(parts)
        <5>1. k \in 1 .. Len(parts) - 1
          BY <3>2, <4>2
        <5>2. After(parts[k], parts[Len(parts)], C)
          BY <1>2, <1>4, <2>5, <3>2, <5>1
        <5> HIDE DEF parts
        <5> QED
          BY <2>1, <3>2, <3>3, <5>2, OrderGoesOn
      <4> QED
        BY <4>1, <4>2
    <3>5. \A q \in Parts(v) : After(q, w, C)
      BY <3>4 DEF Parts
    <3> QED
      BY <2>1, <2>5, <3>5, PartsBefore DEF IsJob, w
  <2> QED
    BY <2>1, <2>3, <2>4, <2>5, ThingShape
<1>5. ASSUME NEW p \in Said PROVE After(p[1], p[2], C)
  BY <1>2, <1>4 DEF Said
<1> QED
  BY <1>5 DEF JobOrder, After

-----------------------------------------------------------------------------
(* The program goes on                                                     *)

LEMMA FollowedSame ==
    ASSUME NEW v, things[v].kind \in {"job", "chain", "group"}, things'[v] = things[v]
    PROVE  Followed(v)' = Followed(v)
<1>1. CASE things[v].kind = "job"
  BY <1>1 DEF Followed
<1>2. CASE things[v].kind = "chain"
  BY <1>2 DEF Followed
<1>3. CASE things[v].kind = "group"
  BY <1>3 DEF Followed, Parts
<1> QED
  BY <1>1, <1>2, <1>3

(* Things are added, and what there is stays as it is.                     *)
LEMMA GrowthKeeps ==
    ASSUME GraphShape, things' \in Seq(Thing), links' \in Seq(SUBSET (Nat \X Nat)),
           Len(links') = Len(things'), Len(things) <= Len(things'),
           \A i \in Things : things'[i] = things[i] /\ links'[i] = links[i],
           promised' = promised, split' \subseteq Things,
           \A i \in Len(things) + 1 .. Len(things') : Proper(i)' /\ links'[i] \subseteq Things' \X Things'
    PROVE  GraphShape'
<1>1. /\ Len(things) \in Nat /\ Things = 1 .. Len(things)
      /\ Len(things') \in Nat /\ Things' = 1 .. Len(things')
  BY ThingsNumbered, LenProperties DEF Things
<1>2. Things \subseteq Things'
  BY <1>1
<1>3. ASSUME NEW i \in Things' PROVE Proper(i)' /\ links'[i] \subseteq Things' \X Things'
  <2>1. CASE i \in Things
    <3>1. Proper(i) /\ links[i] \subseteq Things \X Things
      BY <2>1 DEF GraphShape
    <3>2. things'[i] = things[i] /\ links'[i] = links[i]
      BY <2>1
    <3>3. Proper(i)'
      BY <3>1, <3>2 DEF Proper, IsJob
    <3> QED
      BY <1>2, <3>1, <3>2, <3>3
  <2>2. CASE i \notin Things
    BY <1>1, <2>2
  <2> QED
    BY <2>1, <2>2
<1>4. ASSUME NEW p \in promised PROVE Followed(p[1])' \X {p[2]} \subseteq links'[p[1]] /\ p \in Things' \X Things'
  <2>1. p[1] \in Things /\ p \in Things \X Things /\ Followed(p[1]) \X {p[2]} \subseteq links[p[1]]
    BY DEF GraphShape
  <2>2. Followed(p[1])' = Followed(p[1])
    BY <2>1, ThingShape, FollowedSame
  <2> QED
    BY <1>2, <2>1, <2>2
<1>5. \A p \in promised : (Followed(p[1]) \X {p[2]} \subseteq links[p[1]])'
  BY <1>4
<1>6. split' \subseteq Things' /\ promised' \subseteq Things' \X Things'
  BY <1>2, <1>4
<1> QED
  BY <1>3, <1>5, <1>6 DEF GraphShape

(* One more.                                                               *)
LEMMA MakeKeeps ==
    ASSUME GraphShape, NEW kind \in {"job", "chain", "group"}, NEW parts \in Seq(Nat), NEW edges,
           Make([kind |-> kind, parts |-> parts], edges),
           \A k \in DOMAIN parts : parts[k] \in Things,
           kind = "job" => parts = <<>>,
           edges \subseteq Things \X Things,
           kind = "chain" => /\ parts # <<>>
                             /\ \A k \in 1 .. Len(parts) - 1 : <<parts[k], parts[k + 1]>> \in edges
    PROVE  GraphShape'
<1> DEFINE new == [kind |-> kind, parts |-> parts]
           n == Len(things)
<1>1. n \in Nat /\ Things = 1 .. n /\ Len(links) = n /\ things \in Seq(Thing) /\ links \in Seq(SUBSET (Nat \X Nat))
  BY ThingsNumbered DEF GraphShape
<1>2. new \in Thing /\ new.kind = kind /\ new.parts = parts
  BY DEF Thing
<1>3. edges \in SUBSET (Nat \X Nat)
  BY <1>1
<1>4. things' = Append(things, new) /\ links' = Append(links, edges) /\ promised' = promised /\ split' = split
  BY DEF Make
<1> HIDE DEF new
<1>5. /\ things' \in Seq(Thing) /\ Len(things') = n + 1 /\ things'[n + 1] = new
      /\ \A i \in 1 .. n : things'[i] = things[i]
  BY <1>1, <1>2, <1>4, AppendProperties
<1>6. /\ links' \in Seq(SUBSET (Nat \X Nat)) /\ Len(links') = n + 1 /\ links'[n + 1] = edges
      /\ \A i \in 1 .. n : links'[i] = links[i]
  <2> DEFINE S == SUBSET (Nat \X Nat)
  <2>1. links \in Seq(S) /\ edges \in S
    BY <1>1, <1>3
  <2> HIDE DEF S
  <2>2. /\ Append(links, edges) \in Seq(S) /\ Len(Append(links, edges)) = n + 1
        /\ Append(links, edges)[n + 1] = edges
        /\ \A i \in 1 .. n : Append(links, edges)[i] = links[i]
    BY <1>1, <2>1, AppendProperties
  <2> QED
    BY <1>4, <2>2 DEF S
<1>7. Things' = 1 .. n + 1
  BY <1>5, LenProperties DEF Things
<1>8. \A i \in n + 1 .. Len(things') : Proper(i)' /\ links'[i] \subseteq Things' \X Things'
  <2> SUFFICES ASSUME NEW i \in n + 1 .. Len(things') PROVE Proper(i)' /\ links'[i] \subseteq Things' \X Things'
    OBVIOUS
  <2>1. i = n + 1 /\ Things \subseteq Things'
    BY <1>1, <1>5, <1>7
  <2>2. things'[i].kind = kind /\ things'[i].parts = parts /\ links'[i] = edges
    BY <1>2, <1>5, <1>6, <2>1
  <2>3. \A k \in DOMAIN parts : parts[k] \in 1 .. i - 1
    BY <1>1, <2>1
  <2>4. Proper(i)'
    BY <2>2, <2>3 DEF Proper, IsJob
  <2> QED
    BY <2>1, <2>2, <2>4
<1>9. split' \subseteq Things
  BY <1>4 DEF GraphShape
<1>10. \A i \in Things : things'[i] = things[i] /\ links'[i] = links[i]
  BY <1>1, <1>5, <1>6
<1>11. Len(things) <= Len(things')
  BY <1>1, <1>5
<1> QED
  BY <1>4, <1>5, <1>6, <1>8, <1>9, <1>10, <1>11, GrowthKeeps

(* What a chain or group is made of.                                       *)
LEMMA ArrangementIs ==
    ASSUME GraphShape, NEW s \in Arrangements
    PROVE  s \in Seq(Nat) /\ \A k \in DOMAIN s : s[k] \in Things
<1>1. PICK n \in 0 .. MaxParts : s \in [1 .. n -> Loose]
  BY DEF Arrangements
<1>2. n \in Nat
  BY <1>1, GraphBounds
<1>3. Loose \subseteq Things /\ Things \subseteq Nat
  BY ThingsNumbered DEF Loose
<1>4. s \in [1 .. n -> Nat]
  BY <1>1, <1>3
<1> QED
  BY <1>1, <1>2, <1>3, <1>4, SeqDef

LEMMA ProgramKeeps ==
    ASSUME GraphShape,
           \/ MakeDelayable
           \/ \E s \in Arrangements : MakeChain(s) \/ MakeGroup(s)
    PROVE  GraphShape'
<1>1. CASE MakeDelayable
  <2>1. Make([kind |-> "job", parts |-> <<>>], {})
    BY <1>1 DEF MakeDelayable
  <2>2. <<>> \in Seq(Nat) /\ Len(<<>>) = 0 /\ \A k \in DOMAIN <<>> : <<>>[k] \in Things
    BY EmptySeq
  <2> DEFINE kind == "job"
             parts == <<>>
             edges == {}
  <2>3. parts \in Seq(Nat) /\ parts = <<>> /\ \A k \in DOMAIN parts : parts[k] \in Things
    BY <2>2
  <2>4. Make([kind |-> kind, parts |-> parts], edges)
    BY <2>1
  <2>5. kind \in {"job", "chain", "group"} /\ kind # "chain" /\ edges \subseteq Things \X Things
    OBVIOUS
  <2> HIDE DEF parts, kind, edges
  <2> QED
    BY <2>3, <2>4, <2>5, MakeKeeps
<1>2. ASSUME NEW s \in Arrangements, MakeGroup(s) PROVE GraphShape'
  BY <1>2, ArrangementIs, MakeKeeps DEF MakeGroup
<1>3. ASSUME NEW s \in Arrangements, MakeChain(s) PROVE GraphShape'
  <2> DEFINE edges == {<<s[k], s[k + 1]>> : k \in 1 .. Len(s) - 1}
  <2>1. Make([kind |-> "chain", parts |-> s], edges) /\ s # <<>>
    BY <1>3 DEF MakeChain
  <2>2. s \in Seq(Nat) /\ Len(s) \in Nat /\ DOMAIN s = 1 .. Len(s) /\ \A k \in DOMAIN s : s[k] \in Things
    BY ArrangementIs, LenProperties
  <2>3. edges \subseteq Things \X Things
    BY <2>2
  <2>4. \A k \in 1 .. Len(s) - 1 : <<s[k], s[k + 1]>> \in edges
    OBVIOUS
  <2> HIDE DEF edges
  <2> QED
    BY <2>1, <2>2, <2>3, <2>4, MakeKeeps
<1> QED
  BY <1>1, <1>2, <1>3

(* A part of a program that is to follow another.                          *)
LEMMA OnDoneKeeps ==
    ASSUME GraphShape, NEW v \in Things, NEW w \in Things, OnDone(v, w)
    PROVE  GraphShape'
<1>1. /\ things' = things /\ split' = split /\ promised' = promised \cup {<<v, w>>}
      /\ links' = [links EXCEPT ![v] = @ \cup (Followed(v) \X {w})]
  BY DEF OnDone
<1>2. Things' = Things /\ DOMAIN links = Things /\ Things \subseteq Nat
  BY <1>1, ThingsNumbered DEF Things
<1>3. Followed(v) \subseteq Things
  <2>1. CASE things[v].kind = "job"
    BY <2>1 DEF Followed
  <2>2. CASE things[v].kind = "group"
    BY <2>2, ThingShape DEF Followed
  <2>3. CASE things[v].kind = "chain"
    BY <2>3, ThingShape DEF Followed
  <2> QED
    BY <2>1, <2>2, <2>3, ThingShape
<1>4. /\ links'[v] = links[v] \cup (Followed(v) \X {w})
      /\ \A i \in Things : links[i] \subseteq links'[i] /\ (i # v => links'[i] = links[i])
  BY <1>1, <1>2
<1>5. \A i \in Things : links[i] \subseteq Things \X Things
  BY DEF GraphShape
<1>6. \A i \in Things : links'[i] \subseteq Things \X Things
  BY <1>3, <1>4, <1>5
<1>7. links' \in Seq(SUBSET (Nat \X Nat)) /\ Len(links') = Len(things)
  <2> DEFINE n == Len(things)
  <2>1. n \in Nat /\ Things = 1 .. n
    BY ThingsNumbered
  <2>2. links' \in [1 .. n -> SUBSET (Nat \X Nat)]
    <3>1. \A i \in Things : links'[i] \in SUBSET (Nat \X Nat)
      BY <1>2, <1>6
    <3>2. links' = [i \in Things |-> links'[i]]
      BY <1>1, <1>2
    <3> QED
      BY <2>1, <3>1, <3>2
  <2> HIDE DEF n
  <2>3. links' \in Seq(SUBSET (Nat \X Nat))
    BY <2>1, <2>2, SeqDef
  <2>4. DOMAIN links' = 1 .. n
    BY <2>2
  <2>5. Len(links') = n
    BY <2>1, <2>3, <2>4, LenProperties
  <2> QED
    BY <2>3, <2>5 DEF n
<1>8. \A i \in Things : Proper(i)'
  <2> TAKE i \in Things
  <2>1. Proper(i) /\ links[i] \subseteq links'[i] /\ things' = things
    BY <1>1, <1>4 DEF GraphShape
  <2> QED
    BY <2>1 DEF Proper, IsJob
<1>9. \A u \in Things : Followed(u)' = Followed(u)
  BY <1>1, ThingShape, FollowedSame
<1>10. \A p \in promised' : Followed(p[1])' \X {p[2]} \subseteq links'[p[1]] /\ p \in Things \X Things
  <2> TAKE p \in promised'
  <2>1. CASE p \in promised
    <3>1. p \in Things \X Things /\ p[1] \in Things /\ Followed(p[1]) \X {p[2]} \subseteq links[p[1]]
      BY <2>1 DEF GraphShape
    <3> QED
      BY <1>4, <1>9, <3>1
  <2>2. CASE p = <<v, w>>
    <3>1. p[1] = v /\ p[2] = w /\ p \in Things \X Things
      BY <2>2
    <3> QED
      BY <1>4, <1>9, <3>1
  <2> QED
    BY <1>1, <2>1, <2>2
<1>11. \A p \in promised' : (Followed(p[1]) \X {p[2]} \subseteq links[p[1]])'
  BY <1>10
<1>12. things' \in Seq(Thing) /\ split' \subseteq Things
  BY <1>1 DEF GraphShape
<1>13. Len(links') = Len(things')
  BY <1>1, <1>7
<1> QED
  BY <1>2, <1>6, <1>7, <1>8, <1>10, <1>11, <1>12, <1>13 DEF GraphShape

LEMMA ThreeMore ==
    ASSUME NEW S, NEW s \in Seq(S), NEW t \in Seq(S), Len(t) = 3
    PROVE  /\ s \o t \in Seq(S) /\ Len(s \o t) = Len(s) + 3
           /\ \A i \in 1 .. Len(s) + 3 : (s \o t)[i] = IF i <= Len(s) THEN s[i] ELSE t[i - Len(s)]
<1>1. /\ s \o t \in Seq(S) /\ Len(s \o t) = Len(s) + Len(t)
      /\ \A i \in 1 .. Len(s) + Len(t) : (s \o t)[i] = IF i <= Len(s) THEN s[i] ELSE t[i - Len(s)]
  BY ConcatProperties
<1> QED
  BY <1>1

(* Two batches and what they are in.                                       *)
LEMMA SplitKeeps ==
    ASSUME GraphShape, NEW j \in Things, NEW kind \in {"chain", "group"}, Split(j, kind)
    PROVE  GraphShape'
<1> DEFINE n == Len(things)
           batch == [kind |-> "job", parts |-> <<>>]
           both == [kind |-> kind, parts |-> <<n + 1, n + 2>>]
           edges == IF kind = "chain" THEN {<<n + 1, n + 2>>} ELSE {}
           S == SUBSET (Nat \X Nat)
           t == <<batch, batch, both>>
           l == <<{}, {}, edges>>
<1>1. n \in Nat /\ Things = 1 .. n /\ Len(links) = n /\ things \in Seq(Thing) /\ links \in Seq(S)
  BY ThingsNumbered DEF GraphShape
<1>2. /\ things' = things \o t /\ links' = links \o l
      /\ promised' = promised /\ split' = split \cup {j}
  BY DEF Split
<1>3. batch \in Thing /\ both \in Thing
  <2>1. <<>> \in Seq(Nat) /\ <<n + 1, n + 2>> \in Seq(Nat)
    BY <1>1
  <2> QED
    BY <2>1 DEF Thing
<1>4. edges \in S /\ {} \in S
  BY <1>1
<1>5. t \in Seq(Thing) /\ Len(t) = 3 /\ t[1] = batch /\ t[2] = batch /\ t[3] = both
  <2> HIDE DEF batch, both
  <2> QED
    BY <1>3
<1>6. l \in Seq(S) /\ Len(l) = 3 /\ l[1] = {} /\ l[2] = {} /\ l[3] = edges
  <2> HIDE DEF edges, S
  <2> QED
    BY <1>4
<1> HIDE DEF t, l, S
<1>7. /\ things' \in Seq(Thing) /\ Len(things') = n + 3
      /\ \A i \in 1 .. n + 3 : things'[i] = IF i <= n THEN things[i] ELSE t[i - n]
  BY <1>1, <1>2, <1>5, ThreeMore
<1>8. /\ links' \in Seq(S) /\ Len(links') = n + 3
      /\ \A i \in 1 .. n + 3 : links'[i] = IF i <= n THEN links[i] ELSE l[i - n]
  BY <1>1, <1>2, <1>6, ThreeMore
<1>9. Things' = 1 .. n + 3
  BY <1>7, LenProperties DEF Things
<1>10. \A i \in Things : things'[i] = things[i] /\ links'[i] = links[i]
  BY <1>1, <1>7, <1>8
<1>11. \A i \in n + 1 .. Len(things') : Proper(i)' /\ links'[i] \subseteq Things' \X Things'
  <2> SUFFICES ASSUME NEW i \in n + 1 .. Len(things') PROVE Proper(i)' /\ links'[i] \subseteq Things' \X Things'
    OBVIOUS
  <2>1. i \in n + 1 .. n + 3 /\ i \in 1 .. n + 3 /\ ~(i <= n)
    BY <1>1, <1>7
  <2>2. things'[i] = t[i - n] /\ links'[i] = l[i - n]
    BY <1>7, <1>8, <2>1
  <2>3. CASE i \in {n + 1, n + 2}
    <3>1. i - n \in {1, 2}
      BY <1>1, <2>3
    <3>2. things'[i] = batch /\ links'[i] = {}
      BY <1>5, <1>6, <2>2, <3>1
    <3>3. things'[i].parts = <<>> /\ things'[i].kind = "job"
      BY <3>2
    <3>4. DOMAIN things'[i].parts = {}
      BY <3>3
    <3> QED
      BY <3>2, <3>3, <3>4 DEF Proper, IsJob
  <2>4. CASE i = n + 3
    <3> DEFINE p == <<n + 1, n + 2>>
    <3>1. i - n = 3
      BY <1>1, <2>4
    <3>2. things'[i] = both /\ links'[i] = edges
      BY <1>5, <1>6, <2>2, <3>1
    <3>3. things'[i].parts = p /\ things'[i].kind = kind
      BY <3>2
    <3>4. DOMAIN p = 1 .. 2 /\ Len(p) = 2 /\ p[1] = n + 1 /\ p[2] = n + 2 /\ p # <<>>
      BY <1>1
    <3> HIDE DEF p
    <3>5. \A k \in DOMAIN p : p[k] \in 1 .. i - 1
      BY <1>1, <2>4, <3>4
    <3>6. kind = "chain" => \A k \in 1 .. Len(p) - 1 : <<p[k], p[k + 1]>> \in edges
      BY <3>4
    <3>7. Proper(i)'
      BY <3>2, <3>3, <3>4, <3>5, <3>6 DEF Proper, IsJob
    <3>8. edges \subseteq Things' \X Things'
      BY <1>1, <1>9
    <3> QED
      BY <3>2, <3>7, <3>8
  <2> QED
    BY <1>1, <2>1, <2>3, <2>4
<1>12. split' \subseteq Things
  BY <1>2 DEF GraphShape
<1>13. Len(things) <= Len(things')
  BY <1>1, <1>7
<1>14. links' \in Seq(SUBSET (Nat \X Nat)) /\ Len(links') = Len(things')
  BY <1>7, <1>8 DEF S
<1> QED
  BY <1>2, <1>7, <1>10, <1>11, <1>12, <1>13, <1>14, GrowthKeeps

-----------------------------------------------------------------------------
(* delay(), and the direct execution                                       *)

InProgress == outcome \in {"running", "aborted", "run"}

DelayInv ==
    /\ outcome \in {"open", "refused", "found", "stored", "running", "aborted", "run"}
    /\ outcome = "open" => top = 0
    /\ outcome # "open" => top \in Things
    /\ outcome \in {"open", "refused", "found"} => rows = {} /\ depends = {}
    /\ outcome = "stored" \/ InProgress => rows = JobsOf(top) /\ depends = Edges(top)

(* What a job still waits for.                                             *)
Awaited(k) == {e \in depends : e[2] = k /\ e[1] \notin Performed}

(* A job is performed once and after its parents; those are ready that     *)
(* wait for nothing, and unmet counts what the others wait for.            *)
DirectInv ==
    /\ performed \in Seq(rows)
    /\ \A k, l \in DOMAIN performed : performed[k] = performed[l] => k = l
    /\ \A l \in DOMAIN performed : \A e \in depends :
         e[2] = performed[l] => \E k \in 1 .. l - 1 : performed[k] = e[1]
    /\ InProgress =>
         /\ ready = {k \in rows \ Performed : Awaited(k) = {}}
         /\ unmet = [k \in rows |-> Cardinality(Awaited(k))]
    /\ ~InProgress => performed = <<>> /\ ready = {}
    /\ outcome = "run" => ready = {}

GraphInv == GraphShape /\ DelayInv /\ DirectInv

LEMMA ShapeSame ==
    ASSUME GraphShape, things' = things, links' = links, promised' = promised, split' = split
    PROVE  GraphShape'
<1>1. things \in Seq(Thing) /\ links \in Seq(SUBSET (Nat \X Nat)) /\ Len(links) = Len(things) /\ split \subseteq Things
  BY DEF GraphShape
<1>2. Len(things) <= Len(things) /\ Len(things) + 1 .. Len(things) = {}
  BY ThingsNumbered
<1> QED
  BY <1>1, <1>2, GrowthKeeps

LEMMA GraphSame ==
    ASSUME NEW i, things' = things, links' = links, top' = i
    PROVE  JobsOf(top)' = JobsOf(i) /\ Edges(top)' = Edges(i)
<1>1. Ends' = Ends
  BY DEF Ends, Things
<1>2. ASSUME NEW v PROVE Met(v)' = Met(v)
  BY DEF Met, Vertices, Parts, IsJob
<1> QED
  BY <1>1, <1>2 DEF JobsOf, Edges, IsJob

(* Nothing has been delayed yet.                                           *)
LEMMA OpenKeeps ==
    ASSUME GraphInv, outcome = "open", GraphShape',
           outcome' = outcome, top' = top, rows' = rows, depends' = depends, UNCHANGED runVars
    PROVE  GraphInv'
<1>1. DelayInv'
  BY DEF GraphInv, DelayInv, InProgress
<1>2. DirectInv'
  BY DEF GraphInv, DirectInv, InProgress, runVars
<1> QED
  BY <1>1, <1>2 DEF GraphInv

(* The call of delay().                                                    *)
LEMMA DelayKeeps ==
    ASSUME GraphInv, NEW i \in Things, Delay(i)
    PROVE  GraphInv'
<1>1. /\ outcome = "open" /\ top' = i /\ performed' = performed
      /\ things' = things /\ links' = links /\ promised' = promised /\ split' = split
  BY DEF Delay, DelayRefused, DelayFound, DelayStored, DelayDirectly, Built, graphVars, runVars
<1>2. GraphShape' /\ top' \in Things'
  BY <1>1, ShapeSame DEF GraphInv, Things
<1>3. performed = <<>> /\ ready = {} /\ rows = {} /\ depends = {}
  BY <1>1 DEF GraphInv, DelayInv, DirectInv, InProgress
<1>4. JobsOf(top)' = JobsOf(i) /\ Edges(top)' = Edges(i)
  BY <1>1, GraphSame
<1>5. <<>> \in Seq(rows') /\ DOMAIN <<>> = {}
  BY EmptySeq
<1>6. CASE DelayRefused(i) \/ DelayFound(i)
  <2>1. outcome' \in {"refused", "found"} /\ rows' = rows /\ depends' = depends /\ ready' = ready
    BY <1>6 DEF DelayRefused, DelayFound, runVars
  <2>2. DelayInv'
    BY <1>1, <1>2, <1>3, <2>1 DEF DelayInv, InProgress
  <2>3. DirectInv'
    BY <1>1, <1>3, <1>5, <2>1 DEF DirectInv, InProgress
  <2> QED
    BY <1>2, <2>2, <2>3 DEF GraphInv
<1>7. CASE DelayStored(i)
  <2>1. outcome' = "stored" /\ rows' = JobsOf(i) /\ depends' = Edges(i) /\ ready' = ready
    BY <1>7 DEF DelayStored, runVars
  <2>2. DelayInv'
    BY <1>1, <1>2, <1>4, <2>1 DEF DelayInv, InProgress
  <2>3. DirectInv'
    BY <1>1, <1>3, <1>5, <2>1 DEF DirectInv, InProgress
  <2> QED
    BY <1>2, <2>2, <2>3 DEF GraphInv
<1>8. CASE DelayDirectly(i)
  <2>1. /\ outcome' = "running" /\ rows' = JobsOf(i) /\ depends' = Edges(i)
        /\ unmet' = [j \in rows' |-> Cardinality({e \in depends' : e[2] = j})]
        /\ ready' = {j \in rows' : \A e \in depends' : e[2] # j}
    BY <1>8 DEF DelayDirectly
  <2>2. DelayInv'
    BY <1>1, <1>2, <1>4, <2>1 DEF DelayInv, InProgress
  <2>3. performed' = <<>> /\ Performed' = {}
    BY <1>1, <1>3, <1>5 DEF Performed
  <2>4. \A k : Awaited(k)' = {e \in depends' : e[2] = k}
    BY <2>3 DEF Awaited
  <2>5. unmet' = [k \in rows' |-> Cardinality(Awaited(k)')]
    BY <2>1, <2>4
  <2>6. ready' = {k \in rows' \ Performed' : Awaited(k)' = {}}
    BY <2>1, <2>3, <2>4
  <2>7. DirectInv'
    BY <1>5, <2>1, <2>3, <2>5, <2>6 DEF DirectInv, InProgress
  <2> QED
    BY <1>2, <2>2, <2>7 DEF GraphInv
<1> QED
  BY <1>6, <1>7, <1>8 DEF Delay

(* The rows and the edges between them are finite sets.                    *)
LEMMA RowsFinite ==
    ASSUME GraphInv, InProgress
    PROVE  /\ rows \subseteq Things /\ depends \subseteq rows \X rows /\ depends \in Relations
           /\ IsFiniteSet(depends)
<1>1. GraphShape /\ top \in Things /\ rows = JobsOf(top) /\ depends = Edges(top)
  BY DEF GraphInv, DelayInv, InProgress
<1>2. rows \subseteq Things /\ depends \subseteq rows \X rows
  BY <1>1, EdgesBetweenJobs
<1>3. depends \in Relations
  BY <1>2 DEF Relations
<1>4. IsFiniteSet(Things \X Things)
  BY <1>1, ThingsNumbered, FS_Product
<1>5. IsFiniteSet(depends)
  BY <1>3, <1>4, FS_Subset DEF Relations
<1> QED
  BY <1>2, <1>3, <1>5

(* A job is executed directly.                                             *)
LEMMA ExecuteKeeps ==
    ASSUME GraphInv, NEW j \in Things, Execute(j)
    PROVE  GraphInv'
<1>1. /\ outcome = "running" /\ j \in ready
      /\ performed' = Append(performed, j)
      /\ ready' = (ready \ {j}) \cup Freed(j)
      /\ unmet' = [k \in rows |-> IF <<j, k>> \in depends /\ unmet[k] > 0 THEN unmet[k] - 1 ELSE unmet[k]]
      /\ things' = things /\ links' = links /\ promised' = promised /\ split' = split
      /\ outcome' = outcome /\ top' = top /\ rows' = rows /\ depends' = depends
  BY DEF Execute, graphVars
<1>2. GraphShape' /\ DelayInv'
  <2>1. PICK i : i = top
    OBVIOUS
  <2>2. JobsOf(top)' = JobsOf(i) /\ Edges(top)' = Edges(i)
    BY <1>1, <2>1, GraphSame
  <2>3. GraphShape' /\ Things' = Things
    BY <1>1, ShapeSame DEF GraphInv, Things
  <2> QED
    BY <1>1, <2>1, <2>2, <2>3 DEF GraphInv, DelayInv, InProgress
<1>3. InProgress /\ InProgress' /\ outcome # "run"
  BY <1>1 DEF InProgress
<1>4. /\ performed \in Seq(rows)
      /\ \A k, l \in DOMAIN performed : performed[k] = performed[l] => k = l
      /\ \A l \in DOMAIN performed : \A e \in depends :
            e[2] = performed[l] => \E k \in 1 .. l - 1 : performed[k] = e[1]
      /\ ready = {k \in rows \ Performed : Awaited(k) = {}}
      /\ unmet = [k \in rows |-> Cardinality(Awaited(k))]
  BY <1>3 DEF GraphInv, DirectInv
<1>5. rows \subseteq Things /\ depends \subseteq rows \X rows /\ IsFiniteSet(depends)
  BY <1>3, RowsFinite
<1>6. j \in rows /\ j \notin Performed /\ \A e \in depends : e[2] = j => e[1] \in Performed
  BY <1>1, <1>4 DEF Awaited
<1> DEFINE n == Len(performed)
<1>7. n \in Nat /\ DOMAIN performed = 1 .. n
  BY <1>4, LenProperties
<1>8. /\ performed' \in Seq(rows) /\ DOMAIN performed' = 1 .. n + 1 /\ performed'[n + 1] = j
      /\ \A k \in 1 .. n : performed'[k] = performed[k]
  <2>1. /\ Append(performed, j) \in Seq(rows) /\ Len(Append(performed, j)) = n + 1
        /\ Append(performed, j)[n + 1] = j
        /\ \A k \in 1 .. n : Append(performed, j)[k] = performed[k]
    BY <1>4, <1>6, AppendProperties
  <2>2. DOMAIN Append(performed, j) = 1 .. n + 1
    BY <2>1, LenProperties
  <2> QED
    BY <1>1, <2>1, <2>2
<1> HIDE DEF n
<1>9. Performed' = Performed \cup {j}
  BY <1>7, <1>8 DEF Performed
<1>10. \A k \in 1 .. n : performed[k] \in Performed
  BY <1>7 DEF Performed
<1>11. \A k, l \in DOMAIN performed' : performed'[k] = performed'[l] => k = l
  <2> TAKE k, l \in DOMAIN performed'
  <2>1. CASE k \in 1 .. n /\ l \in 1 .. n
    BY <1>4, <1>7, <1>8, <2>1
  <2>2. CASE k = n + 1 \/ l = n + 1
    BY <1>6, <1>7, <1>8, <1>10, <2>2
  <2> QED
    BY <1>7, <1>8, <2>1, <2>2
<1>12. \A l \in DOMAIN performed' : \A e \in depends' :
         e[2] = performed'[l] => \E k \in 1 .. l - 1 : performed'[k] = e[1]
  <2> SUFFICES ASSUME NEW l \in DOMAIN performed', NEW e \in depends, e[2] = performed'[l]
               PROVE  \E k \in 1 .. l - 1 : performed'[k] = e[1]
    BY <1>1
  <2>1. CASE l \in 1 .. n
    <3>1. e[2] = performed[l]
      BY <1>8, <2>1
    <3>2. PICK k \in 1 .. l - 1 : performed[k] = e[1]
      BY <1>4, <1>7, <2>1, <3>1
    <3> QED
      BY <1>7, <1>8, <2>1, <3>2
  <2>2. CASE l = n + 1
    <3>1. e[1] \in Performed
      BY <1>6, <1>8, <2>2
    <3>2. PICK k \in 1 .. n : performed[k] = e[1]
      BY <1>7, <3>1 DEF Performed
    <3> QED
      BY <1>7, <1>8, <2>2, <3>2
  <2> QED
    BY <1>7, <1>8, <2>1, <2>2
<1>13. ASSUME NEW k \in rows
       PROVE  Awaited(k)' = Awaited(k) \ {<<j, k>>}
  <2>1. Awaited(k)' = {e \in depends : e[2] = k /\ e[1] \notin Performed'}
    BY <1>1 DEF Awaited
  <2>2. \A e \in depends : e = <<e[1], e[2]>>
    BY <1>5
  <2> QED
    BY <1>9, <2>1, <2>2 DEF Awaited
<1>14. \A k \in rows : <<j, k>> \in depends <=> <<j, k>> \in Awaited(k)
  BY <1>6 DEF Awaited
<1>15. \A k \in rows : /\ IsFiniteSet(Awaited(k)) /\ Cardinality(Awaited(k)) \in Nat
                       /\ (Cardinality(Awaited(k)) = 0 <=> Awaited(k) = {})
  <2> TAKE k \in rows
  <2>1. IsFiniteSet(Awaited(k))
    BY <1>5, FS_Subset DEF Awaited
  <2> QED
    BY <2>1, FS_CardinalityType, FS_EmptySet
<1>16. \A k \in rows : Cardinality(Awaited(k)') = IF <<j, k>> \in depends THEN Cardinality(Awaited(k)) - 1
                                                                           ELSE Cardinality(Awaited(k))
  <2> TAKE k \in rows
  <2>1. CASE <<j, k>> \in depends
    <3>1. Cardinality(Awaited(k) \ {<<j, k>>}) = Cardinality(Awaited(k)) - 1
      BY <1>14, <1>15, <2>1, FS_RemoveElement
    <3> QED
      BY <1>13, <2>1, <3>1
  <2>2. CASE <<j, k>> \notin depends
    <3>1. Awaited(k)' = Awaited(k)
      BY <1>13, <1>14, <2>2
    <3> QED
      BY <2>2, <3>1
  <2> QED
    BY <2>1, <2>2
<1>17. unmet' = [k \in rows |-> Cardinality(Awaited(k)')]
  <2>1. \A k \in rows : (IF <<j, k>> \in depends /\ unmet[k] > 0 THEN unmet[k] - 1 ELSE unmet[k])
                          = Cardinality(Awaited(k)')
    <3> TAKE k \in rows
    <3>1. unmet[k] = Cardinality(Awaited(k)) /\ unmet[k] \in Nat
      BY <1>4, <1>15
    <3>2. <<j, k>> \in depends => unmet[k] > 0
      BY <1>14, <1>15, <3>1
    <3> QED
      BY <1>16, <3>1, <3>2
  <2> QED
    BY <1>1, <2>1
<1>18. \A k \in rows : k \in Freed(j) <=> <<j, k>> \in depends /\ Awaited(k)' = {}
  <2> TAKE k \in rows
  <2>1. k \in Freed(j) <=> <<j, k>> \in depends /\ Cardinality(Awaited(k)) = 1
    BY <1>4 DEF Freed
  <2>2. IsFiniteSet(Awaited(k)')
    BY <1>13, <1>15, FS_Subset
  <2>3. Awaited(k)' = {} <=> Cardinality(Awaited(k)') = 0
    BY <2>2, FS_EmptySet
  <2> QED
    BY <1>15, <1>16, <2>1, <2>3
<1>19. \A k \in Performed : k \in rows /\ Awaited(k) = {}
  <2> TAKE k \in Performed
  <2>1. PICK l \in 1 .. n : performed[l] = k
    BY <1>7 DEF Performed
  <2>2. k \in rows
    BY <1>4, <1>7, <2>1, ElementOfSeq DEF n
  <2>3. \A e \in depends : e[2] = k => e[1] \in Performed
    <3> TAKE e \in depends
    <3> HAVE e[2] = k
    <3>1. PICK m \in 1 .. l - 1 : performed[m] = e[1]
      BY <1>4, <1>7, <2>1
    <3> QED
      BY <1>7, <1>10, <2>1, <3>1
  <2> QED
    BY <2>2, <2>3 DEF Awaited
<1>20. ready' = {k \in rows \ Performed' : Awaited(k)' = {}}
  <2>1. \A k \in rows : k \in ready' <=> k \notin Performed' /\ Awaited(k)' = {}
    <3> TAKE k \in rows
    <3>1. CASE k \in Performed'
      <4>1. Awaited(k) = {}
        BY <1>1, <1>4, <1>9, <1>19, <3>1
      <4>2. k \notin Freed(j)
        BY <1>14, <1>18, <4>1
      <4>3. k \notin ready \ {j}
        BY <1>4, <1>9, <3>1
      <4> QED
        BY <1>1, <3>1, <4>2, <4>3
    <3>2. CASE k \notin Performed'
      <4>1. k # j /\ k \notin Performed
        BY <1>9, <3>2
      <4>2. CASE <<j, k>> \in depends
        <5>1. k \notin ready
          BY <1>4, <1>14, <4>2
        <5> QED
          BY <1>1, <1>18, <3>2, <4>2, <5>1
      <4>3. CASE <<j, k>> \notin depends
        <5>1. Awaited(k)' = Awaited(k) /\ k \notin Freed(j)
          BY <1>13, <1>14, <1>18, <4>3
        <5> QED
          BY <1>1, <1>4, <3>2, <4>1, <5>1
      <4> QED
        BY <4>2, <4>3
    <3> QED
      BY <3>1, <3>2
  <2>2. ready' \subseteq rows
    BY <1>1, <1>4 DEF Freed
  <2> QED
    BY <2>1, <2>2
<1>21. DirectInv'
  <2>1. performed' \in Seq(rows') /\ outcome' # "run"
    BY <1>1, <1>8
  <2>2. /\ ready' = {k \in rows' \ Performed' : Awaited(k)' = {}}
        /\ unmet' = [k \in rows' |-> Cardinality(Awaited(k)')]
    BY <1>1, <1>17, <1>20
  <2> QED
    BY <1>3, <1>11, <1>12, <2>1, <2>2 DEF DirectInv
<1> QED
  BY <1>2, <1>21 DEF GraphInv

LEMMA GraphStep ==
    ASSUME GraphInv, [GraphNext]_jobGraphVars
    PROVE  GraphInv'
<1>1. ASSUME outcome = "open", UNCHANGED <<outcome, top, rows, depends, runVars>>, GraphShape'
      PROVE  GraphInv'
  BY <1>1, OpenKeeps
<1>2. ASSUME MakeDelayable \/ \E s \in Arrangements : MakeChain(s) \/ MakeGroup(s) PROVE GraphInv'
  <2>1. GraphShape'
    BY <1>2, ProgramKeeps DEF GraphInv
  <2>2. outcome = "open" /\ UNCHANGED <<outcome, top, rows, depends, runVars>>
    BY <1>2 DEF MakeDelayable, MakeChain, MakeGroup, Make
  <2> QED
    BY <1>1, <2>1, <2>2
<1>3. ASSUME NEW v \in Things, NEW w \in Things, OnDone(v, w) PROVE GraphInv'
  <2>1. GraphShape'
    BY <1>3, OnDoneKeeps DEF GraphInv
  <2>2. outcome = "open" /\ UNCHANGED <<outcome, top, rows, depends, runVars>>
    BY <1>3 DEF OnDone
  <2> QED
    BY <1>1, <2>1, <2>2
<1>4. ASSUME NEW j \in Things, NEW kind \in {"chain", "group"}, Split(j, kind) PROVE GraphInv'
  <2>1. GraphShape'
    BY <1>4, SplitKeeps DEF GraphInv
  <2>2. outcome = "open" /\ UNCHANGED <<outcome, top, rows, depends, runVars>>
    BY <1>4 DEF Split
  <2> QED
    BY <1>1, <2>1, <2>2
<1>5. CASE ExecuteRaises \/ AllExecuted \/ UNCHANGED jobGraphVars
  <2>1. /\ things' = things /\ links' = links /\ promised' = promised /\ split' = split
        /\ top' = top /\ rows' = rows /\ depends' = depends
        /\ performed' = performed /\ ready' = ready /\ unmet' = unmet
    BY <1>5 DEF ExecuteRaises, AllExecuted, jobGraphVars, graphVars, runVars
  <2>2. \/ outcome' = outcome
        \/ outcome = "running" /\ outcome' = "aborted"
        \/ outcome = "running" /\ outcome' = "run" /\ ready = {}
    BY <1>5 DEF ExecuteRaises, AllExecuted, jobGraphVars
  <2>3. GraphShape' /\ Things' = Things
    BY <2>1, ShapeSame DEF GraphInv, Things
  <2>4. PICK i : i = top
    OBVIOUS
  <2>5. JobsOf(top)' = JobsOf(i) /\ Edges(top)' = Edges(i)
    BY <2>1, <2>4, GraphSame
  <2>6. DelayInv'
    BY <2>1, <2>2, <2>3, <2>4, <2>5 DEF GraphInv, DelayInv, InProgress
  <2>7. Performed' = Performed /\ \A k : Awaited(k)' = Awaited(k)
    BY <2>1 DEF Performed, Awaited
  <2>8. InProgress' <=> InProgress
    BY <2>2 DEF InProgress
  <2>9. unmet = [k \in rows |-> Cardinality(Awaited(k))] => unmet' = [k \in rows |-> Cardinality(Awaited(k)')]
    BY <2>1, <2>7
  <2>10. DirectInv'
    BY <2>1, <2>2, <2>7, <2>8, <2>9 DEF GraphInv, DirectInv
  <2> QED
    BY <2>3, <2>6, <2>10 DEF GraphInv
<1> QED
  BY <1>2, <1>3, <1>4, <1>5, DelayKeeps, ExecuteKeeps DEF GraphNext

LEMMA GraphStarts == GraphInit => GraphInv
<1> SUFFICES ASSUME GraphInit PROVE GraphInv
  OBVIOUS
<1>1. things = <<>> /\ links = <<>> /\ <<>> \in Seq(Thing) /\ <<>> \in Seq(SUBSET (Nat \X Nat)) /\ Things = {}
  BY EmptySeq DEF GraphInit, Things
<1>2. GraphShape
  BY <1>1 DEF GraphInit, GraphShape
<1>3. DelayInv
  BY DEF GraphInit, DelayInv, InProgress
<1>4. DirectInv
  <2>1. performed = <<>> /\ performed \in Seq(rows) /\ DOMAIN performed = {} /\ ready = {} /\ outcome = "open"
    BY EmptySeq DEF GraphInit
  <2> QED
    BY <2>1 DEF DirectInv, InProgress
<1> QED
  BY <1>2, <1>3, <1>4 DEF GraphInv

(* What the order of jobs rests on.                                        *)
THEOREM GraphHolds == GraphSpec => []GraphInv
  BY GraphStarts, GraphStep, PTL DEF GraphSpec

-----------------------------------------------------------------------------
(* What it shows                                                           *)

LEMMA GraphIsTyped == GraphInv => GraphTypeOK
<1> SUFFICES ASSUME GraphInv PROVE GraphTypeOK
  OBVIOUS
<1>1. GraphShape /\ DelayInv /\ DirectInv
  BY DEF GraphInv
<1>2. Things = 1 .. Len(things) /\ DOMAIN links = Things /\ Len(things) \in Nat
  BY <1>1, ThingsNumbered
<1>3. \A i \in Things : /\ things[i].kind \in {"job", "chain", "group"}
                        /\ Parts(i) \subseteq 1 .. i - 1
                        /\ IsJob(i) => Parts(i) = {}
  <2> TAKE i \in Things
  <2>1. \A j \in Parts(i) : j \in 1 .. i - 1
    BY <1>1, <1>2, ThingShape
  <2> QED
    BY <1>1, <2>1, ThingShape
<1>4. rows \subseteq Things /\ depends \subseteq rows \X rows
  <2>1. CASE outcome \in {"open", "refused", "found"}
    BY <1>1, <2>1 DEF DelayInv
  <2>2. CASE outcome \notin {"open", "refused", "found"}
    <3>1. top \in Things /\ rows = JobsOf(top) /\ depends = Edges(top)
      BY <1>1, <2>2 DEF DelayInv, InProgress
    <3> QED
      BY <1>1, <3>1, EdgesBetweenJobs
  <2> QED
    BY <2>1, <2>2
<1>5. performed \in Seq(Things)
  <2>1. performed \in Seq(rows) /\ Len(performed) \in Nat
    BY <1>1, LenProperties DEF DirectInv
  <2>2. performed \in [1 .. Len(performed) -> Things]
    BY <1>4, <2>1, SeqDef
  <2> QED
    BY <2>1, <2>2, SeqDef
<1>6. ready \subseteq Things
  BY <1>1, <1>4 DEF DirectInv, InProgress
<1>7. \A i \in Things : links[i] \subseteq Things \X Things
  BY <1>1 DEF GraphShape
<1>8. promised \subseteq Things \X Things /\ split \subseteq Things /\ top \in Things \cup {0}
  BY <1>1 DEF GraphShape, DelayInv
<1>9. outcome \in {"open", "refused", "found", "stored", "running", "aborted", "run"}
  BY <1>1 DEF DelayInv
<1> QED
  BY <1>2, <1>3, <1>4, <1>5, <1>6, <1>7, <1>8, <1>9 DEF GraphTypeOK

(* The jobs and dependencies of programs of any size are what GraphTypeOK  *)
(* says: the edges lead from stored jobs to stored jobs (delay.py:166-210).*)
THEOREM GraphTyped == GraphSpec => []GraphTypeOK
  BY GraphHolds, GraphIsTyped, PTL

(* The jobs that delay() stores, of a plain program of any size, wait for  *)
(* each other as the program has said (delay.py:166-210, 326-341, 381-402).*)
THEOREM OrderIsKept == GraphSpec => []OrderKept
<1>1. GraphInv => OrderKept
  <2> SUFFICES ASSUME GraphInv, outcome = "stored", Plain PROVE JobOrder \subseteq Closure(depends)
    BY DEF OrderKept, InOrder
  <2>1. GraphShape /\ top \in Things /\ depends = Edges(top)
    BY DEF GraphInv, DelayInv
  <2> QED
    BY <2>1, SaidIsOrdered
<1> QED
  BY <1>1, GraphHolds, PTL

(* A job that others wait for comes before them.                           *)
LEMMA RunInOrder ==
    ASSUME GraphInv, InProgress, NEW p \in Closure(depends), p[2] \in Performed
    PROVE  p[1] \in Performed /\ Position(p[1]) < Position(p[2])
<1>1. GraphShape /\ DirectInv /\ depends \in Relations
  BY RowsFinite DEF GraphInv
<1>2. DOMAIN performed = 1 .. Len(performed) /\ Len(performed) \in Nat
  BY <1>1, LenProperties DEF DirectInv
<1>3. ASSUME NEW k \in DOMAIN performed PROVE Position(performed[k]) = k
  BY <1>1 DEF DirectInv, Position
<1>4. \A j \in Performed : Position(j) \in DOMAIN performed /\ performed[Position(j)] = j
  <2> TAKE j \in Performed
  <2>1. PICK k \in DOMAIN performed : performed[k] = j
    BY DEF Performed
  <2> QED
    BY <1>3, <2>1
<1> DEFINE R == {q \in Things \X Things : q[2] \in Performed => q[1] \in Performed /\ Position(q[1]) < Position(q[2])}
<1>5. depends \subseteq R
  <2> SUFFICES ASSUME NEW e \in depends, e[2] \in Performed
               PROVE  e[1] \in Performed /\ Position(e[1]) < Position(e[2])
    BY <1>1 DEF Relations
  <2>1. PICK k \in 1 .. Position(e[2]) - 1 : performed[k] = e[1]
    BY <1>1, <1>4 DEF DirectInv
  <2>2. k \in DOMAIN performed
    BY <1>2, <1>4
  <2>3. Position(e[1]) = k /\ e[1] \in Performed
    BY <1>3, <2>1, <2>2 DEF Performed
  <2> QED
    BY <1>2, <1>4, <2>3
<1>6. ClosedUnder(R, depends)
  <2> SUFFICES ASSUME NEW a \in Things, NEW b \in Things, NEW c \in Things, <<a, b>> \in R, <<b, c>> \in depends,
                      c \in Performed
               PROVE  a \in Performed /\ Position(a) < Position(c)
    BY DEF ClosedUnder
  <2>1. b \in Performed /\ Position(b) < Position(c)
    BY <1>5
  <2>2. a \in Performed /\ Position(a) < Position(b)
    BY <2>1
  <2>3. Position(a) \in Nat /\ Position(b) \in Nat /\ Position(c) \in Nat
    BY <1>2, <1>4, <2>1, <2>2
  <2> QED
    BY <2>1, <2>2, <2>3
<1> HIDE DEF R
<1>7. Closure(depends) \subseteq R
  BY <1>1, <1>5, <1>6, ClosureIsLeast
<1> QED
  BY <1>7 DEF R

(* When no job is ready, those left wait for each other in a circle.  Of   *)
(* these one is followed by the most jobs; what it waits for is followed   *)
(* by more.                                                                *)
LEMMA LeftInCircle ==
    ASSUME GraphInv, InProgress, ready = {}, Performed # rows
    PROVE  Circular(Closure(depends))
<1>1. /\ GraphShape /\ DirectInv /\ depends \in Relations
      /\ rows \subseteq Things /\ depends \subseteq rows \X rows
  BY RowsFinite DEF GraphInv
<1> DEFINE C == Closure(depends)
           D(x) == {y \in Things : <<x, y>> \in C}
           U == rows \ Performed
<1>2. U # {}
  <2>1. Performed \subseteq rows
    <3> SUFFICES ASSUME NEW k \in DOMAIN performed PROVE performed[k] \in rows
      BY DEF Performed
    <3>1. performed \in Seq(rows) /\ DOMAIN performed = 1 .. Len(performed)
      BY <1>1, LenProperties DEF DirectInv
    <3> QED
      BY <3>1, ElementOfSeq
  <2> QED
    BY <2>1
<1>3. \A x \in U : \E q \in U : <<q, x>> \in depends
  <2> TAKE x \in U
  <2>1. PICK e \in depends : e[2] = x /\ e[1] \notin Performed
    BY <1>1 DEF DirectInv, Awaited
  <2> QED
    BY <1>1, <2>1
<1> SUFFICES ASSUME ~Circular(C) PROVE FALSE
  OBVIOUS
<1>4. \A x \in Things : <<x, x>> \notin C
  BY DEF Circular
<1>5. depends \subseteq C /\ \A a, b, c \in Things : <<a, b>> \in C /\ <<b, c>> \in C => <<a, c>> \in C
  BY <1>1, ClosureGoesOn, ClosureTransitive
<1> HIDE DEF C
<1>6. IsFiniteSet(Things)
  BY <1>1, ThingsNumbered
<1>7. \A x : /\ IsFiniteSet(D(x)) /\ Cardinality(D(x)) \in Nat
             /\ Cardinality(D(x)) <= Cardinality(Things)
  BY <1>6, FS_Subset, FS_CardinalityType
<1> DEFINE T == {Cardinality(D(x)) : x \in U}
<1>8. PICK m \in T : \A k \in T : k <= m
  <2>1. T \in SUBSET Nat /\ T # {}
    BY <1>2, <1>7
  <2>2. Cardinality(Things) \in Nat /\ \A k \in T : k <= Cardinality(Things)
    BY <1>6, <1>7, FS_CardinalityType
  <2> HIDE DEF T
  <2> QED
    BY <2>1, <2>2, GreatestNumber
<1>9. PICK x \in U : m = Cardinality(D(x))
  OBVIOUS
<1>10. PICK q \in U : <<q, x>> \in depends
  BY <1>3
<1>11. q \in Things /\ x \in Things /\ <<q, x>> \in C
  BY <1>1, <1>5, <1>10
<1>12. D(x) \subseteq D(q) /\ x \in D(q) /\ x \notin D(x)
  BY <1>4, <1>5, <1>11
<1>13. Cardinality(D(x)) < Cardinality(D(q))
  <2> HIDE DEF D
  <2> QED
    BY <1>7, <1>12, FewerIn
<1>14. Cardinality(D(q)) <= m
  BY <1>8
<1> HIDE DEF D
<1> QED
  BY <1>7, <1>9, <1>13, <1>14

(* Executed directly, for programs of any size: no job runs twice, none    *)
(* before all it follows, and in the end all have run unless they wait for *)
(* each other in a circle (delay.py:125-150, 290-292).                     *)
THEOREM DirectRunInOrder == GraphSpec => []DirectRunKeepsOrder
<1>1. GraphInv => DirectRunKeepsOrder
  <2> SUFFICES ASSUME GraphInv PROVE DirectRunKeepsOrder
    OBVIOUS
  <2>1. \A k, l \in DOMAIN performed : performed[k] = performed[l] => k = l
    BY DEF GraphInv, DirectInv
  <2>2. ASSUME outcome \in {"running", "run"}, Plain, NEW p \in JobOrder, p[2] \in Performed
        PROVE  p[1] \in Performed /\ Position(p[1]) < Position(p[2])
    <3>1. InProgress /\ GraphShape /\ top \in Things /\ depends = Edges(top)
      BY <2>2 DEF GraphInv, DelayInv, InProgress
    <3>2. p \in Closure(depends)
      BY <2>2, <3>1, SaidIsOrdered
    <3> QED
      BY <2>2, <3>1, <3>2, RunInOrder
  <2>3. ASSUME outcome = "run" PROVE Performed = rows \/ Circular(Closure(depends))
    <3>1. InProgress /\ ready = {}
      BY <2>3 DEF GraphInv, DirectInv, InProgress
    <3> QED
      BY <3>1, LeftInCircle
  <2> QED
    BY <2>1, <2>2, <2>3 DEF DirectRunKeepsOrder
<1> QED
  BY <1>1, GraphHolds, PTL
=============================================================================
