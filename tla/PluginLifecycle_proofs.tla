------------------------ MODULE PluginLifecycle_proofs ------------------------
(***************************************************************************)
(* Proofs about PluginLifecycle, for any plugins, dependencies, tasks and  *)
(* bounds, where one operation of a person is under way at a time.         *)
(***************************************************************************)
EXTENDS PluginLifecycle, SequenceTheorems, FiniteSetTheorems, WellFoundedInduction, TLAPS

-----------------------------------------------------------------------------
\* Naturals: the smallest of some, and functions defined round by round.

LEMMA Descent ==
    \E R : /\ \A m, n \in Nat : <<m, n>> \in R <=> m < n
           /\ \A T \in SUBSET Nat : T # {} => \E x \in T : \A y \in T : <<y, x>> \notin R
<1>1. \A m, n \in Nat : <<m, n>> \in OpToRel(<, Nat) <=> m < n
  BY Zenon DEF OpToRel
<1>2. \A T \in SUBSET Nat : T # {} => \E x \in T : \A y \in T : <<y, x>> \notin OpToRel(<, Nat)
  BY NatLessThanWellFounded, WFMin, Zenon
<1>3. QED
  BY <1>1, <1>2, Zenon

\* Any naturals have a smallest among them: what holds of a number once it holds
\* of all below it holds of every number.
LEMMA Smallest ==
    ASSUME NEW T \in SUBSET Nat, T # {}
    PROVE  \E m \in T : \A n \in T : m <= n
<1>1. PICK R : /\ \A m, n \in Nat : <<m, n>> \in R <=> m < n
               /\ \A U \in SUBSET Nat : U # {} => \E x \in U : \A y \in U : <<y, x>> \notin R
  BY Descent
<1>2. PICK m \in T : \A n \in T : <<n, m>> \notin R
  BY <1>1
<1>3. ASSUME NEW n \in T
      PROVE  m <= n
  <2>1. m \in Nat /\ n \in Nat
    OBVIOUS
  <2>2. ~ (n < m)
    BY <1>1, <1>2, <2>1
  <2>3. QED
    BY <2>1, <2>2
<1>4. QED
  BY <1>3

\* The rounds up to the n-th, of a function given by its first value and by
\* what each round makes of the last.
Rounds(n, S, s, F) ==
    {g \in [0..n -> S] : g[0] = s /\ \A i \in 0..(n - 1) : g[i + 1] = F[<<i + 1, g[i]>>]}

LEMMA RoundsAgree ==
    ASSUME NEW S, NEW s \in S, NEW F \in [Nat \X S -> S], NEW m \in Nat, NEW n \in Nat,
           NEW g \in Rounds(m, S, s, F), NEW h \in Rounds(n, S, s, F)
    PROVE  \A i \in 0..m : i <= n => g[i] = h[i]
<1> DEFINE Bad == {i \in 0..m : i <= n /\ g[i] # h[i]}
<1>1. SUFFICES ASSUME Bad # {} PROVE FALSE
  OBVIOUS
<1>2. PICK k \in Bad : \A i \in Bad : k <= i
  <2>1. Bad \in SUBSET Nat
    OBVIOUS
  <2>2. QED
    BY <1>1, <2>1, Smallest
<1>3. k # 0
  BY <1>2 DEF Rounds
<1>4. k - 1 \in 0..m /\ k - 1 <= n /\ k - 1 \notin Bad
  BY <1>2, <1>3
<1>5. g[k - 1] = h[k - 1]
  BY <1>4
<1>6. g[k] = F[<<k, g[k - 1]>>] /\ h[k] = F[<<k, h[k - 1]>>]
  BY <1>2, <1>3 DEF Rounds
<1>7. QED
  BY <1>2, <1>5, <1>6

LEMMA RoundsGoOn ==
    ASSUME NEW S, NEW s \in S, NEW F \in [Nat \X S -> S], NEW n \in Nat
    PROVE  Rounds(n, S, s, F) # {}
<1> DEFINE Bad == {i \in Nat : Rounds(i, S, s, F) = {}}
<1>1. SUFFICES ASSUME Bad # {} PROVE FALSE
  OBVIOUS
<1>2. PICK k \in Bad : \A i \in Bad : k <= i
  <2>1. Bad \in SUBSET Nat
    OBVIOUS
  <2>2. QED
    BY <1>1, <2>1, Smallest
<1>3. k # 0
  <2>1. [i \in 0..0 |-> s] \in Rounds(0, S, s, F)
    BY DEF Rounds
  <2>2. QED
    BY <1>2, <2>1
<1>4. k - 1 \in Nat /\ k - 1 \notin Bad
  BY <1>2, <1>3
<1>5. PICK g \in Rounds(k - 1, S, s, F) : TRUE
  BY <1>4
<1> DEFINE h == [i \in 0..k |-> IF i = k THEN F[<<k, g[k - 1]>>] ELSE g[i]]
<1>6. g \in [0..(k - 1) -> S] /\ g[0] = s /\ \A i \in 0..(k - 1) - 1 : g[i + 1] = F[<<i + 1, g[i]>>]
  BY <1>5 DEF Rounds
<1>7. h \in [0..k -> S]
  <2>1. g[k - 1] \in S
    BY <1>4, <1>6
  <2>2. F[<<k, g[k - 1]>>] \in S
    BY <1>2, <2>1
  <2>3. \A i \in 0..k : i # k => g[i] \in S
    BY <1>2, <1>6
  <2>4. QED
    BY <2>2, <2>3
<1>8. h[0] = s
  BY <1>2, <1>3, <1>6
<1>9. ASSUME NEW i \in 0..(k - 1)
      PROVE  h[i + 1] = F[<<i + 1, h[i]>>]
  <2>1. h[i] = g[i]
    BY <1>2
  <2>2. CASE i = k - 1
    <3>1. i + 1 = k /\ k \in 0..k
      BY <1>2, <2>2
    <3>2. h[k] = F[<<k, g[k - 1]>>]
      BY <3>1
    <3>3. QED
      BY <2>1, <2>2, <3>1, <3>2
  <2>3. CASE i # k - 1
    BY <1>2, <1>6, <2>1, <2>3
  <2>4. QED
    BY <2>2, <2>3
<1>10. QED
  BY <1>2, <1>7, <1>8, <1>9 DEF Rounds

\* There is a function of all rounds.
Iterates(f, S, s, F) ==
    f \in [Nat -> S] /\ f[0] = s /\ \A n \in Nat : f[n + 1] = F[<<n + 1, f[n]>>]

LEMMA Recursion ==
    ASSUME NEW S, NEW s \in S, NEW F \in [Nat \X S -> S]
    PROVE  \E f : Iterates(f, S, s, F)
<1> DEFINE to(n) == CHOOSE g \in Rounds(n, S, s, F) : TRUE
           f == [n \in Nat |-> to(n)[n]]
<1>1. ASSUME NEW n \in Nat
      PROVE  to(n) \in Rounds(n, S, s, F)
  BY RoundsGoOn
<1>2. f \in [Nat -> S]
  BY <1>1 DEF Rounds
<1>3. f[0] = s
  BY <1>1 DEF Rounds
<1>4. ASSUME NEW n \in Nat
      PROVE  f[n + 1] = F[<<n + 1, f[n]>>]
  <2>1. to(n) \in Rounds(n, S, s, F) /\ to(n + 1) \in Rounds(n + 1, S, s, F)
    BY <1>1
  <2> HIDE DEF to
  <2>2. to(n)[n] = to(n + 1)[n]
    BY <2>1, RoundsAgree
  <2>3. to(n + 1)[n + 1] = F[<<n + 1, to(n + 1)[n]>>]
    BY <2>1 DEF Rounds
  <2>4. QED
    BY <2>2, <2>3
<1>5. Iterates(f, S, s, F)
  BY <1>2, <1>3, <1>4 DEF Iterates
<1>6. QED
  BY <1>5, Zenon

\* What holds of 0, and of the next of each number it holds of, holds of all.
LEMMA Induction ==
    ASSUME NEW T, 0 \in T, \A n \in Nat : n \in T => n + 1 \in T
    PROVE  \A n \in Nat : n \in T
<1> DEFINE Bad == {i \in Nat : i \notin T}
<1>1. SUFFICES ASSUME Bad # {} PROVE FALSE
  OBVIOUS
<1>2. PICK k \in Bad : \A i \in Bad : k <= i
  <2>1. Bad \in SUBSET Nat
    OBVIOUS
  <2>2. QED
    BY <1>1, <2>1, Smallest
<1>3. k # 0 /\ k \in Nat /\ k \notin T
  BY <1>2
<1>4. k - 1 \in Nat /\ ~ (k <= k - 1) /\ (k - 1) + 1 = k
  BY <1>3
<1>5. k - 1 \in T
  BY <1>2, <1>4
<1>6. QED
  BY <1>3, <1>4, <1>5

-----------------------------------------------------------------------------
\* Among.

Picked(S, seq) ==
    LET kept[n \in Nat] ==
          IF n = 0 THEN <<>>
          ELSE IF seq[n] \in S THEN Append(kept[n - 1], seq[n]) ELSE kept[n - 1]
    IN  kept

LEMMA PickedIs ==
    ASSUME NEW S, NEW seq
    PROVE  /\ Among(S, seq) = Picked(S, seq)[Len(seq)]
           /\ Picked(S, seq)[0] = <<>>
           /\ \A n \in Nat : Picked(S, seq)[n + 1] =
                IF seq[n + 1] \in S THEN Append(Picked(S, seq)[n], seq[n + 1]) ELSE Picked(S, seq)[n]
<1> DEFINE F == [x \in Nat \X Seq(S) |-> IF seq[x[1]] \in S THEN Append(x[2], seq[x[1]]) ELSE x[2]]
           round(f, n) == IF n = 0 THEN <<>>
                          ELSE IF seq[n] \in S THEN Append(f[n - 1], seq[n]) ELSE f[n - 1]
           kept == Picked(S, seq)
<1>1. F \in [Nat \X Seq(S) -> Seq(S)]
  OBVIOUS
<1>2. PICK f : Iterates(f, Seq(S), <<>>, F)
  <2>1. <<>> \in Seq(S)
    OBVIOUS
  <2> HIDE DEF F
  <2>2. QED
    BY <1>1, <2>1, Recursion, Zenon
<1>3. f = [n \in Nat |-> round(f, n)]
  <2>1. ASSUME NEW n \in Nat, n # 0 PROVE f[n] = round(f, n)
    <3>1. n - 1 \in Nat /\ (n - 1) + 1 = n
      BY <2>1
    <3>2. f[n] = F[<<n, f[n - 1]>>] /\ f[n - 1] \in Seq(S)
      BY <1>2, <3>1 DEF Iterates
    <3>3. QED
      BY <2>1, <3>2
  <2>2. QED
    BY <1>2, <2>1 DEF Iterates
<1>4. kept = CHOOSE g : g = [n \in Nat |-> round(g, n)]
  BY DEF Picked
<1> HIDE DEF round, kept
<1>5. kept = [n \in Nat |-> round(kept, n)]
  BY <1>3, <1>4, Zenon
<1>6. \A n \in Nat : kept[n] = round(kept, n)
  BY <1>5
<1>7. kept[0] = <<>>
  BY <1>6 DEF round
<1>8. ASSUME NEW n \in Nat
      PROVE  kept[n + 1] = IF seq[n + 1] \in S THEN Append(kept[n], seq[n + 1]) ELSE kept[n]
  BY <1>6 DEF round
<1>9. Among(S, seq) = kept[Len(seq)]
  BY DEF Among, Picked, kept
<1>10. QED
  BY <1>7, <1>8, <1>9 DEF kept

LEMMA AmongFacts ==
    ASSUME NEW S, NEW X, NEW seq \in Seq(X)
    PROVE  /\ Among(S, seq) \in Seq(S \cap X)
           /\ Range(Among(S, seq)) = S \cap Range(seq)
           /\ IsInjective(seq) => IsInjective(Among(S, seq))
<1> DEFINE kept == Picked(S, seq)
           Good(n) == /\ kept[n] \in Seq(S \cap X)
                      /\ \A i \in DOMAIN kept[n] : \E j \in 1..n : kept[n][i] = seq[j]
                      /\ \A j \in 1..n : seq[j] \in S => \E i \in DOMAIN kept[n] : kept[n][i] = seq[j]
                      /\ IsInjective(seq) => IsInjective(kept[n])
           T == {n \in Nat : n <= Len(seq) => Good(n)}
<1>1. 0 \in T
  <2>1. kept[0] = <<>>
    BY PickedIs
  <2> HIDE DEF kept
  <2>2. Good(0)
    BY <2>1 DEF IsInjective
  <2>3. QED
    BY <2>2
<1>2. ASSUME NEW n \in Nat, n \in T
      PROVE  n + 1 \in T
  <2> SUFFICES ASSUME n + 1 <= Len(seq)
               PROVE  Good(n + 1)
    OBVIOUS
  <2>1. Good(n)
    BY <1>2
  <2>2. n + 1 \in DOMAIN seq /\ seq[n + 1] \in X /\ DOMAIN seq = 1..Len(seq)
    OBVIOUS
  <2>3. CASE seq[n + 1] \notin S
    <3>1. kept[n + 1] = kept[n]
      <4>1. Picked(S, seq)[n + 1] =
              IF seq[n + 1] \in S THEN Append(Picked(S, seq)[n], seq[n + 1]) ELSE Picked(S, seq)[n]
        <5> HIDE DEF kept, T, Good
        <5>1. QED
          BY PickedIs, SMTT(30)
      <4>2. QED
        BY <2>3, <4>1
    <3>2. \A j \in 1..(n + 1) : seq[j] \in S => j \in 1..n
      BY <2>3
    <3>3. \A j \in 1..n : j \in 1..(n + 1)
      OBVIOUS
    <3>4. QED
      BY <2>1, <3>1, <3>2, <3>3, Zenon
  <2>4. CASE seq[n + 1] \in S
    <3> DEFINE k == kept[n]
    <3>1. kept[n + 1] = Append(k, seq[n + 1])
      BY <2>4, PickedIs
    <3> HIDE DEF kept
    <3>2. /\ Append(k, seq[n + 1]) \in Seq(S \cap X)
          /\ DOMAIN Append(k, seq[n + 1]) = 1..(Len(k) + 1)
          /\ DOMAIN k = 1..Len(k) /\ Len(k) \in Nat
          /\ \A i \in 1..Len(k) : Append(k, seq[n + 1])[i] = k[i]
          /\ Append(k, seq[n + 1])[Len(k) + 1] = seq[n + 1]
      BY <2>1, <2>2, <2>4
    <3>3. \A i \in DOMAIN kept[n + 1] : \E j \in 1..(n + 1) : kept[n + 1][i] = seq[j]
      <4> TAKE i \in DOMAIN kept[n + 1]
      <4>1. CASE i = Len(k) + 1
        BY <3>1, <3>2, <4>1
      <4>2. CASE i # Len(k) + 1
        <5>1. i \in 1..Len(k)
          BY <3>1, <3>2, <4>2
        <5>2. PICK j \in 1..n : k[i] = seq[j]
          BY <2>1, <3>2, <5>1
        <5>3. j \in 1..(n + 1)
          OBVIOUS
        <5>4. QED
          BY <3>1, <3>2, <5>1, <5>2, <5>3
      <4>3. QED
        BY <4>1, <4>2
    <3>4. \A j \in 1..(n + 1) : seq[j] \in S => \E i \in DOMAIN kept[n + 1] : kept[n + 1][i] = seq[j]
      <4> TAKE j \in 1..(n + 1)
      <4> HAVE seq[j] \in S
      <4>1. CASE j = n + 1
        <5>1. Len(k) + 1 \in DOMAIN kept[n + 1]
          BY <3>1, <3>2
        <5>2. QED
          BY <3>1, <3>2, <4>1, <5>1
      <4>2. CASE j # n + 1
        <5>1. j \in 1..n
          BY <4>2
        <5>2. PICK i \in DOMAIN k : k[i] = seq[j]
          BY <2>1, <5>1
        <5>3. i \in 1..Len(k) /\ i \in DOMAIN kept[n + 1]
          BY <3>1, <3>2
        <5>4. QED
          BY <3>1, <3>2, <5>2, <5>3
      <4>3. QED
        BY <4>1, <4>2
    <3>5. ASSUME IsInjective(seq)
          PROVE  IsInjective(kept[n + 1])
      <4>1. \A i \in 1..Len(k) : k[i] # seq[n + 1]
        <5> SUFFICES ASSUME NEW i \in 1..Len(k), k[i] = seq[n + 1]
                     PROVE  FALSE
          OBVIOUS
        <5>1. PICK j \in 1..n : k[i] = seq[j]
          BY <2>1, <3>2
        <5>2. j \in DOMAIN seq /\ j # n + 1
          BY <2>2
        <5>3. QED
          BY <2>2, <3>5, <5>1, <5>2 DEF IsInjective
      <4>2. \A i, j \in 1..Len(k) : k[i] = k[j] => i = j
        BY <2>1, <3>2, <3>5 DEF IsInjective
      <4>3. \A i \in 1..(Len(k) + 1) : i = Len(k) + 1 \/ i \in 1..Len(k)
        BY <3>2
      <4>4. QED
        BY <3>1, <3>2, <4>1, <4>2, <4>3 DEF IsInjective
    <3>6. QED
      BY <3>1, <3>2, <3>3, <3>4, <3>5
  <2>5. QED
    BY <2>3, <2>4
<1>3. Len(seq) \in Nat /\ DOMAIN seq = 1..Len(seq)
  OBVIOUS
<1>4. Good(Len(seq))
  <2> HIDE DEF Good
  <2>1. \A n \in Nat : n \in T
    BY <1>1, <1>2, Induction
  <2>2. QED
    BY <1>3, <2>1
<1>5. Among(S, seq) = kept[Len(seq)]
  BY PickedIs
<1> HIDE DEF kept
<1>6. Range(Among(S, seq)) = S \cap Range(seq)
  <2>1. \A i \in DOMAIN kept[Len(seq)] : kept[Len(seq)][i] \in S
    BY <1>4
  <2>2. QED
    BY <1>3, <1>4, <1>5, <2>1, SMTT(30) DEF Range
<1>7. QED
  BY <1>4, <1>5, <1>6

-----------------------------------------------------------------------------
\* Depth first.

Done(visit, deps, out) ==
    LET done[i \in Nat] ==
          IF i = 0 THEN out
          ELSE IF i > Len(deps) THEN done[i - 1] ELSE visit[deps[i]][done[i - 1]]
    IN  done

Visits(I) == [I -> [Seq(I) -> Seq(I)]]

LEMMA DoneIs ==
    ASSUME NEW I, NEW visit \in Visits(I), NEW deps \in Seq(I), NEW out \in Seq(I)
    PROVE  /\ VisitEach(visit, deps, out) = Done(visit, deps, out)[Len(deps)]
           /\ Done(visit, deps, out)[0] = out
           /\ \A i \in Nat : i + 1 <= Len(deps) =>
                Done(visit, deps, out)[i + 1] =
                  visit[deps[i + 1]][Done(visit, deps, out)[i]]
<1> DEFINE F == [x \in Nat \X Seq(I) |->
                   IF x[1] \in 1..Len(deps) THEN visit[deps[x[1]]][x[2]] ELSE x[2]]
           round(f, i) == IF i = 0 THEN out
                          ELSE IF i > Len(deps) THEN f[i - 1] ELSE visit[deps[i]][f[i - 1]]
           done == Done(visit, deps, out)
<1>1. F \in [Nat \X Seq(I) -> Seq(I)]
  BY DEF Visits
<1>2. PICK f : Iterates(f, Seq(I), out, F)
  <2> HIDE DEF F
  <2>1. QED
    BY <1>1, Recursion, Zenon
<1>3. f = [n \in Nat |-> round(f, n)]
  <2>1. ASSUME NEW n \in Nat, n # 0 PROVE f[n] = round(f, n)
    <3>1. n - 1 \in Nat /\ (n - 1) + 1 = n /\ Len(deps) \in Nat
      BY <2>1
    <3>2. f[n] = F[<<n, f[n - 1]>>] /\ f[n - 1] \in Seq(I)
      BY <1>2, <3>1 DEF Iterates
    <3>3. n > Len(deps) \/ n \in 1..Len(deps)
      BY <2>1, <3>1
    <3>4. QED
      BY <2>1, <3>2, <3>3
  <2>2. f \in [Nat -> Seq(I)] /\ f[0] = out
    BY <1>2 DEF Iterates
  <2>3. QED
    BY <2>1, <2>2
<1>4. done = CHOOSE g : g = [n \in Nat |-> round(g, n)]
  BY DEF Done
<1> HIDE DEF round, done
<1>5. done = [n \in Nat |-> round(done, n)]
  BY <1>3, <1>4, Zenon
<1>6. \A n \in Nat : done[n] = round(done, n)
  BY <1>5
<1>7. done[0] = out
  BY <1>6 DEF round
<1>8. ASSUME NEW i \in Nat, i + 1 <= Len(deps)
      PROVE  done[i + 1] = visit[deps[i + 1]][done[i]]
  BY <1>8, <1>6 DEF round
<1>9. VisitEach(visit, deps, out) = done[Len(deps)]
  BY DEF VisitEach, Done, done
<1>10. QED
  BY <1>7, <1>8, <1>9 DEF done

LEMMA VisitEachType ==
    ASSUME NEW I, NEW visit \in Visits(I), NEW deps \in Seq(I), NEW out \in Seq(I)
    PROVE  VisitEach(visit, deps, out) \in Seq(I)
<1> DEFINE done == Done(visit, deps, out)
           T == {i \in Nat : i <= Len(deps) => done[i] \in Seq(I)}
<1>1. /\ VisitEach(visit, deps, out) = done[Len(deps)]
      /\ done[0] = out
      /\ \A i \in Nat : i + 1 <= Len(deps) => done[i + 1] = visit[deps[i + 1]][done[i]]
  <2>1. /\ VisitEach(visit, deps, out) = Done(visit, deps, out)[Len(deps)]
        /\ Done(visit, deps, out)[0] = out
        /\ \A i \in Nat : i + 1 <= Len(deps) =>
             Done(visit, deps, out)[i + 1] = visit[deps[i + 1]][Done(visit, deps, out)[i]]
    <3> HIDE DEF done
    <3>1. QED
      BY DoneIs
  <2>2. QED
    BY <2>1
<1> HIDE DEF done
<1>2. 0 \in T
  BY <1>1
<1>3. ASSUME NEW i \in Nat, i \in T
      PROVE  i + 1 \in T
  <2> SUFFICES ASSUME i + 1 <= Len(deps)
               PROVE  done[i + 1] \in Seq(I)
    OBVIOUS
  <2>1. deps[i + 1] \in I /\ done[i] \in Seq(I)
    BY <1>3
  <2>2. visit[deps[i + 1]][done[i]] \in Seq(I)
    BY <2>1 DEF Visits
  <2>3. QED
    BY <1>1, <2>2
<1>4. \A i \in Nat : i \in T
  <2> HIDE DEF T
  <2>1. QED
    BY <1>2, <1>3, Induction
<1>5. QED
  BY <1>1, <1>4

\* A graph: the plugins there are, what each declares, and those installed.
Graph(P, needs, installed) ==
    needs \in [P -> SUBSET P] /\ installed \in Seq(P) /\ IsInjective(installed)

LEMMA RangeIn ==
    ASSUME NEW X, NEW s \in Seq(X)
    PROVE  Range(s) \in SUBSET X /\ s \in Seq(Range(s)) /\ \A i \in 1..Len(s) : s[i] \in Range(s)
  BY DEF Range

LEMMA NeedsAmong ==
    ASSUME NEW P, NEW needs, NEW installed, Graph(P, needs, installed), NEW S
    PROVE  /\ Among(S, installed) \in Seq(Range(installed))
           /\ Range(Among(S, installed)) = S \cap Range(installed)
           /\ IsInjective(Among(S, installed))
<1>1. installed \in Seq(Range(installed))
  BY RangeIn DEF Graph
<1>2. /\ Among(S, installed) \in Seq(S \cap Range(installed))
      /\ Range(Among(S, installed)) = S \cap Range(installed)
      /\ IsInjective(installed) => IsInjective(Among(S, installed))
  BY <1>1, AmongFacts
<1>3. QED
  BY <1>2 DEF Graph

Stacks(I) == [SUBSET I -> Visits(I)]

\* What a visit makes of out, with the visits one deeper.
After(v, onStack, cur, out, needs, installed) ==
    IF cur \in Range(out) \cup onStack THEN out
    ELSE Append(VisitEach(v[onStack \cup {cur}], Among(needs[cur], installed), out), cur)

LEMMA AfterType ==
    ASSUME NEW P, NEW needs, NEW installed, Graph(P, needs, installed),
           NEW v \in Stacks(Range(installed)), NEW onStack \in SUBSET Range(installed),
           NEW cur \in Range(installed), NEW out \in Seq(Range(installed))
    PROVE  After(v, onStack, cur, out, needs, installed) \in Seq(Range(installed))
<1> DEFINE I == Range(installed)
<1>1. onStack \cup {cur} \in SUBSET I
  OBVIOUS
<1>2. v[onStack \cup {cur}] \in Visits(I)
  BY <1>1 DEF Stacks
<1>3. Among(needs[cur], installed) \in Seq(I)
  BY NeedsAmong
<1>4. VisitEach(v[onStack \cup {cur}], Among(needs[cur], installed), out) \in Seq(I)
  BY <1>2, <1>3, VisitEachType
<1>5. QED
  BY <1>4 DEF After

\* Every visit is made of the ones one plugin less deep.
VisitUnfolds(needs, installed) ==
    /\ \A n \in Nat : Visit(needs, installed)[n] \in Stacks(Range(installed))
    /\ \A onStack \in SUBSET Range(installed), cur \in Range(installed), out \in Seq(Range(installed)) :
         /\ Visit(needs, installed)[0][onStack][cur][out] = out
         /\ \A n \in Nat : Visit(needs, installed)[n + 1][onStack][cur][out] =
              After(Visit(needs, installed)[n], onStack, cur, out, needs, installed)

LEMMA VisitIs ==
    ASSUME NEW P, NEW needs, NEW installed, Graph(P, needs, installed)
    PROVE  VisitUnfolds(needs, installed)
<1> DEFINE I == Range(installed)
           S == Stacks(I)
           next(v) == [onStack \in SUBSET I |-> [cur \in I |-> [out \in Seq(I) |->
                         After(v, onStack, cur, out, needs, installed)]]]
           F == [x \in Nat \X S |-> next(x[2])]
           s == [onStack \in SUBSET I |-> [cur \in I |-> [out \in Seq(I) |-> out]]]
           round(f, n) ==
             [onStack \in SUBSET I |-> [cur \in I |-> [out \in Seq(I) |->
                IF n = 0 \/ cur \in Range(out) \cup onStack THEN out
                ELSE Append(VisitEach(f[n - 1][onStack \cup {cur}], Among(needs[cur], installed), out), cur)]]]
           visit == Visit(needs, installed)
<1>1. ASSUME NEW v \in S
      PROVE  next(v) \in S
  BY AfterType DEF Stacks, Visits
<1>2. F \in [Nat \X S -> S]
  <2> HIDE DEF next, S
  <2>1. QED
    BY <1>1
<1>3. s \in S
  BY DEF Stacks, Visits
<1>4. PICK f : Iterates(f, S, s, F)
  <2> HIDE DEF F, S, s
  <2>1. QED
    BY <1>2, <1>3, Recursion, Zenon
<1>5. \A h : round(h, 0) = s
  OBVIOUS
<1>6. ASSUME NEW n \in Nat, n # 0, NEW h
      PROVE  round(h, n) = next(h[n - 1])
  BY <1>6 DEF After
<1> HIDE DEF S, next, s, round, visit
<1>7. f = [n \in Nat |-> round(f, n)]
  <2>1. f \in [Nat -> S] /\ f[0] = s /\ \A n \in Nat : f[n + 1] = F[<<n + 1, f[n]>>]
    BY <1>4 DEF Iterates
  <2>2. ASSUME NEW n \in Nat, n # 0 PROVE f[n] = round(f, n)
    <3>1. n - 1 \in Nat /\ (n - 1) + 1 = n
      BY <2>2
    <3>2. f[n - 1] \in S /\ f[n] = F[<<n, f[n - 1]>>]
      BY <2>1, <3>1
    <3>3. f[n] = next(f[n - 1])
      BY <3>2
    <3>4. QED
      BY <1>6, <2>2, <3>3
  <2>3. QED
    BY <1>5, <2>1, <2>2
<1>8. visit = CHOOSE g : g = [n \in Nat |-> round(g, n)]
  BY DEF Visit, visit, round
<1>9. visit = [n \in Nat |-> round(visit, n)]
  BY <1>7, <1>8, Zenon
<1>10. visit[0] = s
  BY <1>5, <1>9
<1>11. ASSUME NEW n \in Nat
       PROVE  visit[n + 1] = next(visit[n])
  BY <1>9, <1>6
<1>12. \A n \in Nat : visit[n] \in S
  <2> DEFINE T == {n \in Nat : visit[n] \in S}
  <2>1. 0 \in T
    BY <1>3, <1>10
  <2>2. ASSUME NEW n \in Nat, n \in T PROVE n + 1 \in T
    BY <1>1, <1>11, <2>2
  <2>3. \A n \in Nat : n \in T
    <3> HIDE DEF T
    <3>1. QED
      BY <2>1, <2>2, Induction
  <2>4. QED
    BY <2>3
<1>13. ASSUME NEW onStack \in SUBSET I, NEW cur \in I, NEW out \in Seq(I)
       PROVE  /\ visit[0][onStack][cur][out] = out
              /\ \A n \in Nat : visit[n + 1][onStack][cur][out] =
                   After(visit[n], onStack, cur, out, needs, installed)
  <2>1. visit[0][onStack][cur][out] = out
    BY <1>10 DEF s
  <2>2. ASSUME NEW n \in Nat
        PROVE  visit[n + 1][onStack][cur][out] = After(visit[n], onStack, cur, out, needs, installed)
    <3>1. next(visit[n])[onStack][cur][out] = After(visit[n], onStack, cur, out, needs, installed)
      BY DEF next
    <3>2. QED
      BY <1>11, <3>1
  <2>3. QED
    BY <2>1, <2>2
<1>14. QED
  BY <1>12, <1>13 DEF visit, S, VisitUnfolds

\* What a visit leaves of out: it is kept, and what comes after it is none of
\* the stack and has its own dependencies in it, or on the stack.
Grown(out, r, onStack, needs, I) ==
    /\ r \in Seq(I) /\ Len(out) <= Len(r) /\ \A i \in 1..Len(out) : r[i] = out[i]
    /\ IsInjective(out) => IsInjective(r)
    /\ \A p \in Range(r) : p \notin Range(out) =>
         p \notin onStack /\ needs[p] \cap I \subseteq Range(r) \cup onStack

\* Each after its own dependencies.
InOrder(out, r, needs, I) ==
    \A j \in (Len(out) + 1)..Len(r) : \A q \in needs[r[j]] \cap I : \E i \in 1..(j - 1) : r[i] = q

\* No more than what the visited one needs.
Within(out, r, S, needs, installed) ==
    \A T \in SUBSET Range(installed) :
       S \subseteq T /\ Closed(T, needs, installed) => Range(r) \subseteq Range(out) \cup T

\* The stack leads to the visited one, and there are no cycles.
Leads(onStack, cur, needs, installed) ==
    /\ Acyclic(needs, installed)
    /\ \A s \in onStack : cur \in Reach(needs[s] \cap Range(installed), needs, installed)

Serves(visit, onStack, cur, needs, installed) ==
    \A out \in Seq(Range(installed)) :
       /\ Grown(out, visit[cur][out], onStack, needs, Range(installed))
       /\ cur \in Range(visit[cur][out]) \cup onStack
       /\ Within(out, visit[cur][out], {cur}, needs, installed)
       /\ Leads(onStack, cur, needs, installed) =>
            InOrder(out, visit[cur][out], needs, Range(installed))

LEMMA GrownRange ==
    ASSUME NEW I, NEW out \in Seq(I), NEW r \in Seq(I),
           Len(out) <= Len(r), \A i \in 1..Len(out) : r[i] = out[i]
    PROVE  Range(out) \subseteq Range(r)
  BY DEF Range

LEMMA GrownTwice ==
    ASSUME NEW I, NEW needs, NEW onStack, NEW out \in Seq(I), NEW r, NEW z,
           Grown(out, r, onStack, needs, I), Grown(r, z, onStack, needs, I)
    PROVE  Grown(out, z, onStack, needs, I)
<1>1. r \in Seq(I) /\ z \in Seq(I) /\ Len(out) <= Len(r) /\ Len(r) <= Len(z)
  BY DEF Grown
<1>2. Len(out) \in Nat /\ Len(r) \in Nat /\ Len(z) \in Nat
  BY <1>1
<1>3. \A i \in 1..Len(out) : z[i] = out[i]
  BY <1>1, <1>2 DEF Grown
<1>4. Range(r) \subseteq Range(z)
  BY <1>1, GrownRange DEF Grown
<1>5. \A p \in Range(z) : p \notin Range(out) =>
         p \notin onStack /\ needs[p] \cap I \subseteq Range(z) \cup onStack
  <2> SUFFICES ASSUME NEW p \in Range(z), p \notin Range(out)
               PROVE  p \notin onStack /\ needs[p] \cap I \subseteq Range(z) \cup onStack
    OBVIOUS
  <2>1. CASE p \in Range(r)
    BY <1>4, <2>1 DEF Grown
  <2>2. CASE p \notin Range(r)
    BY <2>2 DEF Grown
  <2>3. QED
    BY <2>1, <2>2
<1>6. IsInjective(out) => IsInjective(z)
  BY DEF Grown
<1>7. QED
  BY <1>1, <1>2, <1>3, <1>5, <1>6 DEF Grown

LEMMA InOrderTwice ==
    ASSUME NEW I, NEW needs, NEW onStack, NEW out \in Seq(I), NEW r, NEW z,
           Grown(out, r, onStack, needs, I), Grown(r, z, onStack, needs, I),
           InOrder(out, r, needs, I), InOrder(r, z, needs, I)
    PROVE  InOrder(out, z, needs, I)
<1>1. r \in Seq(I) /\ z \in Seq(I) /\ Len(out) <= Len(r) /\ Len(r) <= Len(z)
  BY DEF Grown
<1>2. Len(out) \in Nat /\ Len(r) \in Nat /\ Len(z) \in Nat
  BY <1>1
<1>3. \A i \in 1..Len(r) : z[i] = r[i]
  BY DEF Grown
<1> SUFFICES ASSUME NEW j \in (Len(out) + 1)..Len(z), NEW q \in needs[z[j]] \cap I
             PROVE  \E i \in 1..(j - 1) : z[i] = q
  BY DEF InOrder
<1>4. CASE j <= Len(r)
  <2>1. j \in (Len(out) + 1)..Len(r) /\ j \in 1..Len(r)
    BY <1>2, <1>4
  <2>2. PICK i \in 1..(j - 1) : r[i] = q
    BY <1>3, <2>1 DEF InOrder
  <2>3. i \in 1..Len(r)
    BY <2>1
  <2>4. QED
    BY <1>3, <2>2, <2>3
<1>5. CASE ~ (j <= Len(r))
  BY <1>2, <1>5 DEF InOrder
<1>6. QED
  BY <1>4, <1>5

\* A visit to each: what each of them does, one after the other.
LEMMA EachServes ==
    ASSUME NEW needs, NEW installed, NEW onStack, NEW visit \in Visits(Range(installed)),
           NEW deps \in Seq(Range(installed)), NEW out \in Seq(Range(installed)),
           \A d \in Range(deps) : Serves(visit, onStack, d, needs, installed)
    PROVE  /\ Grown(out, VisitEach(visit, deps, out), onStack, needs, Range(installed))
           /\ Range(deps) \subseteq Range(VisitEach(visit, deps, out)) \cup onStack
           /\ Within(out, VisitEach(visit, deps, out), Range(deps), needs, installed)
           /\ (\A d \in Range(deps) : Leads(onStack, d, needs, installed)) =>
                InOrder(out, VisitEach(visit, deps, out), needs, Range(installed))
<1> DEFINE I == Range(installed)
           done == Done(visit, deps, out)
           Good(i) == /\ Grown(out, done[i], onStack, needs, I)
                      /\ \A j \in 1..i : deps[j] \in Range(done[i]) \cup onStack
                      /\ Within(out, done[i], Range(deps), needs, installed)
                      /\ (\A d \in Range(deps) : Leads(onStack, d, needs, installed)) =>
                           InOrder(out, done[i], needs, I)
           T == {i \in Nat : i <= Len(deps) => Good(i)}
<1>1. /\ VisitEach(visit, deps, out) = done[Len(deps)]
      /\ done[0] = out
      /\ \A i \in Nat : i + 1 <= Len(deps) => done[i + 1] = visit[deps[i + 1]][done[i]]
  <2>1. /\ VisitEach(visit, deps, out) = Done(visit, deps, out)[Len(deps)]
        /\ Done(visit, deps, out)[0] = out
        /\ \A i \in Nat : i + 1 <= Len(deps) =>
             Done(visit, deps, out)[i + 1] = visit[deps[i + 1]][Done(visit, deps, out)[i]]
    <3> HIDE DEF done
    <3>1. QED
      BY DoneIs
  <2>2. QED
    BY <2>1
<1> HIDE DEF done
<1>2. Len(deps) \in Nat /\ DOMAIN deps = 1..Len(deps) /\ Len(out) \in Nat
  OBVIOUS
<1>3. 0 \in T
  <2>1. Grown(out, out, onStack, needs, I)
    BY <1>2 DEF Grown
  <2>2. Within(out, out, Range(deps), needs, installed)
    BY DEF Within
  <2>3. InOrder(out, out, needs, I)
    BY <1>2 DEF InOrder
  <2>4. QED
    BY <1>1, <2>1, <2>2, <2>3
<1>4. ASSUME NEW i \in Nat, i \in T
      PROVE  i + 1 \in T
  <2> SUFFICES ASSUME i + 1 <= Len(deps)
               PROVE  Good(i + 1)
    OBVIOUS
  <2> DEFINE d == deps[i + 1]
             r == done[i]
             z == done[i + 1]
  <2>1. Good(i)
    BY <1>2, <1>4
  <2>2. i + 1 \in DOMAIN deps /\ d \in Range(deps)
    BY <1>2 DEF Range
  <2>3. z = visit[d][r]
    BY <1>1
  <2>4. r \in Seq(I)
    BY <2>1 DEF Grown
  <2>5. /\ Grown(r, z, onStack, needs, I)
        /\ d \in Range(z) \cup onStack
        /\ Within(r, z, {d}, needs, installed)
        /\ Leads(onStack, d, needs, installed) => InOrder(r, z, needs, I)
    BY <2>2, <2>3, <2>4 DEF Serves
  <2> HIDE DEF d, r, z
  <2>6. Grown(out, z, onStack, needs, I)
    BY <2>1, <2>5, GrownTwice DEF r
  <2>7. \A j \in 1..(i + 1) : deps[j] \in Range(z) \cup onStack
    <3>1. Range(r) \subseteq Range(z)
      BY <2>4, <2>5, GrownRange DEF Grown
    <3> TAKE j \in 1..(i + 1)
    <3>2. CASE j = i + 1
      BY <2>5, <3>2 DEF d
    <3>3. CASE j # i + 1
      BY <3>3, <2>1, <3>1 DEF r
    <3>4. QED
      BY <3>2, <3>3
  <2>8. Within(out, z, Range(deps), needs, installed)
    <3> SUFFICES ASSUME NEW U \in SUBSET Range(installed), Range(deps) \subseteq U,
                        Closed(U, needs, installed)
                 PROVE  Range(z) \subseteq Range(out) \cup U
      BY DEF Within
    <3>1. Range(r) \subseteq Range(out) \cup U
      BY <2>1 DEF Within, r
    <3>2. Range(z) \subseteq Range(r) \cup U
      BY <2>2, <2>5 DEF Within
    <3>3. QED
      BY <3>1, <3>2
  <2>9. ASSUME \A e \in Range(deps) : Leads(onStack, e, needs, installed)
        PROVE  InOrder(out, z, needs, I)
    BY <2>1, <2>9, <2>2, <2>5, InOrderTwice DEF r
  <2>10. QED
    BY <2>6, <2>7, <2>8, <2>9 DEF z
<1>5. Good(Len(deps))
  <2> HIDE DEF Good
  <2>1. \A i \in Nat : i \in T
    BY <1>3, <1>4, Induction
  <2>2. QED
    BY <1>2, <2>1
<1>6. Range(deps) \subseteq Range(done[Len(deps)]) \cup onStack
  BY <1>2, <1>5 DEF Range
<1>7. QED
  BY <1>1, <1>5, <1>6

-----------------------------------------------------------------------------
\* What is reached.

LEMMA ReachHolds ==
    ASSUME NEW needs, NEW installed, NEW S \in SUBSET Range(installed)
    PROVE  /\ S \subseteq Reach(S, needs, installed)
           /\ Reach(S, needs, installed) \in SUBSET Range(installed)
           /\ Closed(Reach(S, needs, installed), needs, installed)
           /\ \A T \in SUBSET Range(installed) : S \subseteq T /\ Closed(T, needs, installed)
                => Reach(S, needs, installed) \subseteq T
<1>1. S \subseteq Reach(S, needs, installed)
  BY DEF Reach
<1>2. Reach(S, needs, installed) \in SUBSET Range(installed)
  BY DEF Reach
<1>3. Closed(Reach(S, needs, installed), needs, installed)
  BY DEF Reach, Closed
<1>4. \A T \in SUBSET Range(installed) : S \subseteq T /\ Closed(T, needs, installed)
         => Reach(S, needs, installed) \subseteq T
  BY DEF Reach
<1>5. QED
  BY <1>1, <1>2, <1>3, <1>4

LEMMA ReachGrows ==
    ASSUME NEW needs, NEW installed, NEW S \in SUBSET Range(installed),
           NEW U \in SUBSET Range(installed), U \subseteq Reach(S, needs, installed)
    PROVE  Reach(U, needs, installed) \subseteq Reach(S, needs, installed)
  BY ReachHolds

\* A dependency is reached by those that reach what declares it.
LEMMA LeadsOn ==
    ASSUME NEW P, NEW needs, NEW installed, Graph(P, needs, installed),
           NEW onStack \in SUBSET Range(installed), NEW cur \in Range(installed),
           NEW d \in needs[cur] \cap Range(installed), Leads(onStack, cur, needs, installed)
    PROVE  Leads(onStack \cup {cur}, d, needs, installed)
<1> DEFINE I == Range(installed)
<1>1. d \in Reach(needs[cur] \cap I, needs, installed)
  BY ReachHolds
<1>2. ASSUME NEW s \in onStack
      PROVE  d \in Reach(needs[s] \cap I, needs, installed)
  BY ReachHolds DEF Leads, Closed
<1>3. QED
  BY <1>1, <1>2 DEF Leads

-----------------------------------------------------------------------------
\* A visit that is deep enough.

LEMMA VisitOne ==
    ASSUME NEW P, NEW needs, NEW installed, Graph(P, needs, installed),
           NEW onStack \in SUBSET Range(installed), NEW cur \in Range(installed),
           NEW visit \in Visits(Range(installed)), NEW out \in Seq(Range(installed)), NEW r,
           cur \notin Range(out) \cup onStack,
           r = Append(VisitEach(visit, Among(needs[cur], installed), out), cur),
           \A d \in Range(installed) : Serves(visit, onStack \cup {cur}, d, needs, installed)
    PROVE  /\ Grown(out, r, onStack, needs, Range(installed))
           /\ cur \in Range(r) \cup onStack
           /\ Within(out, r, {cur}, needs, installed)
           /\ Leads(onStack, cur, needs, installed) => InOrder(out, r, needs, Range(installed))
<1> DEFINE I == Range(installed)
           deps == Among(needs[cur], installed)
           stack == onStack \cup {cur}
           e == VisitEach(visit, deps, out)
<1>1. deps \in Seq(I) /\ Range(deps) = needs[cur] \cap I
  BY NeedsAmong
<1>2. \A d \in Range(deps) : Serves(visit, stack, d, needs, installed)
  BY <1>1
<1> HIDE DEF deps, stack
<1>3. /\ Grown(out, e, stack, needs, I)
      /\ Range(deps) \subseteq Range(e) \cup stack
      /\ Within(out, e, Range(deps), needs, installed)
      /\ (\A d \in Range(deps) : Leads(stack, d, needs, installed)) => InOrder(out, e, needs, I)
  BY <1>1, <1>2, EachServes
<1>4. e \in Seq(I) /\ r = Append(e, cur)
  BY <1>3 DEF Grown, deps
<1> HIDE DEF e
<1>5. /\ r \in Seq(I) /\ Len(r) = Len(e) + 1 /\ Len(e) \in Nat /\ Len(out) \in Nat
      /\ DOMAIN r = 1..(Len(e) + 1) /\ DOMAIN e = 1..Len(e)
      /\ \A i \in 1..Len(e) : r[i] = e[i]
      /\ r[Len(e) + 1] = cur
  BY <1>4
<1>6. Range(r) = Range(e) \cup {cur}
  <2>1. \A i \in 1..(Len(e) + 1) : i = Len(e) + 1 \/ i \in 1..Len(e)
    BY <1>5
  <2>2. Len(e) + 1 \in 1..(Len(e) + 1) /\ \A i \in 1..Len(e) : i \in 1..(Len(e) + 1)
    BY <1>5
  <2>3. \A p \in Range(r) : p \in Range(e) \cup {cur}
    BY <1>5, <2>1 DEF Range
  <2>4. \A p \in Range(e) \cup {cur} : p \in Range(r)
    BY <1>5, <2>2 DEF Range
  <2>5. QED
    BY <2>3, <2>4
<1>7. cur \notin Range(e)
  BY <1>3 DEF Grown, stack
<1>8. Grown(out, r, onStack, needs, I)
  <2>1. Len(out) <= Len(e) /\ \A i \in 1..Len(out) : e[i] = out[i]
    BY <1>3 DEF Grown
  <2>2. Len(out) <= Len(r) /\ \A i \in 1..Len(out) : r[i] = out[i]
    BY <1>5, <2>1
  <2>3. ASSUME IsInjective(out)
        PROVE  IsInjective(r)
    <3>1. \A i, j \in 1..Len(e) : r[i] = r[j] => i = j
      BY <1>3, <1>5, <2>3 DEF Grown, IsInjective
    <3>2. \A i \in 1..Len(e) : r[i] # cur
      BY <1>5, <1>7 DEF Range
    <3>3. \A i \in 1..(Len(e) + 1) : i = Len(e) + 1 \/ i \in 1..Len(e)
      BY <1>5
    <3>4. QED
      BY <1>5, <3>1, <3>2, <3>3 DEF IsInjective
  <2>4. ASSUME NEW p \in Range(r), p \notin Range(out)
        PROVE  p \notin onStack /\ needs[p] \cap I \subseteq Range(r) \cup onStack
    <3>1. CASE p = cur
      BY <1>1, <1>3, <1>6, <3>1 DEF stack
    <3>2. CASE p # cur
      BY <1>6, <3>2, <1>3, <2>4 DEF Grown, stack
    <3>3. QED
      BY <3>1, <3>2
  <2>5. QED
    BY <1>5, <2>2, <2>3, <2>4 DEF Grown
<1>9. Within(out, r, {cur}, needs, installed)
  <2> SUFFICES ASSUME NEW U \in SUBSET I, {cur} \subseteq U, Closed(U, needs, installed)
               PROVE  Range(r) \subseteq Range(out) \cup U
    BY DEF Within
  <2>1. Range(deps) \subseteq U
    BY <1>1 DEF Closed
  <2>2. Range(e) \subseteq Range(out) \cup U
    BY <1>3, <2>1 DEF Within
  <2>3. QED
    BY <1>6, <2>2
<1>10. ASSUME Leads(onStack, cur, needs, installed)
       PROVE  InOrder(out, r, needs, I)
  <2>1. \A d \in Range(deps) : Leads(stack, d, needs, installed)
    BY <1>1, <1>10, LeadsOn DEF stack
  <2>2. InOrder(out, e, needs, I)
    BY <1>3, <2>1
  <2> SUFFICES ASSUME NEW j \in (Len(out) + 1)..Len(r), NEW q \in needs[r[j]] \cap I
               PROVE  \E i \in 1..(j - 1) : r[i] = q
    BY DEF InOrder
  <2>3. CASE j = Len(e) + 1
    <3>1. q \in Range(deps)
      BY <1>1, <1>5, <2>3
    <3>2. q \notin stack
      BY <2>1, <3>1 DEF Leads, Acyclic
    <3>3. q \in Range(e)
      BY <1>3, <3>1, <3>2
    <3>4. PICK i \in 1..Len(e) : e[i] = q
      BY <1>5, <3>3 DEF Range
    <3>5. i \in 1..(j - 1)
      BY <1>5, <2>3, <3>4
    <3>6. QED
      BY <1>5, <3>4, <3>5
  <2>4. CASE j # Len(e) + 1
    <3>1. j \in (Len(out) + 1)..Len(e) /\ j \in 1..Len(e)
      BY <1>5, <2>4
    <3>2. PICK i \in 1..(j - 1) : e[i] = q
      BY <1>5, <2>2, <3>1 DEF InOrder
    <3>3. i \in 1..Len(e)
      BY <3>1, <3>2
    <3>4. QED
      BY <1>5, <3>2, <3>3
  <2>5. QED
    BY <2>3, <2>4
<1>11. cur \in Range(r)
  BY <1>6
<1>12. QED
  BY <1>8, <1>9, <1>10, <1>11

LEMMA Installed ==
    ASSUME NEW P, NEW installed \in Seq(P)
    PROVE  /\ IsFiniteSet(Range(installed))
           /\ Cardinality(Range(installed)) \in Nat
           /\ Cardinality(Range(installed)) <= Len(installed)
           /\ Len(installed) \in Nat
<1>1. Len(installed) \in Nat /\ DOMAIN installed = 1..Len(installed)
  OBVIOUS
<1>2. installed \in Surjection(1..Len(installed), Range(installed))
  BY <1>1 DEF Surjection, Range
<1>3. IsFiniteSet(1..Len(installed)) /\ Cardinality(1..Len(installed)) = Len(installed)
  BY <1>1, FS_Interval
<1>4. IsFiniteSet(Range(installed)) /\ Cardinality(Range(installed)) <= Len(installed)
  BY <1>2, <1>3, FS_Surjection
<1>5. QED
  BY <1>1, <1>4, FS_CardinalityType

LEMMA VisitsServe ==
    ASSUME NEW P, NEW needs, NEW installed, Graph(P, needs, installed)
    PROVE  \A n \in Nat : \A onStack \in SUBSET Range(installed) :
             Cardinality(Range(installed) \ onStack) <= n =>
               \A cur \in Range(installed) :
                  Serves(Visit(needs, installed)[n][onStack], onStack, cur, needs, installed)
<1> DEFINE I == Range(installed)
           visit == Visit(needs, installed)
           Deep(n) == \A onStack \in SUBSET I : Cardinality(I \ onStack) <= n =>
                        \A cur \in I : Serves(visit[n][onStack], onStack, cur, needs, installed)
           T == {n \in Nat : Deep(n)}
<1>1. IsFiniteSet(I)
  BY Installed DEF Graph
<1> HIDE DEF T
<1>2. /\ \A n \in Nat : visit[n] \in Stacks(I)
      /\ \A onStack \in SUBSET I, cur \in I, out \in Seq(I) :
           /\ visit[0][onStack][cur][out] = out
           /\ \A n \in Nat : visit[n + 1][onStack][cur][out] =
                After(visit[n], onStack, cur, out, needs, installed)
  <2>1. VisitUnfolds(needs, installed)
    BY VisitIs
  <2>2. QED
    BY <2>1 DEF VisitUnfolds, I, visit
<1>3. \A n \in Nat : \A onStack \in SUBSET I : visit[n][onStack] \in Visits(I)
  BY <1>2 DEF Stacks
<1> HIDE DEF visit
<1>4. ASSUME NEW onStack \in SUBSET I, NEW cur \in I, NEW out \in Seq(I),
             cur \in Range(out) \cup onStack
      PROVE  /\ Grown(out, out, onStack, needs, I)
             /\ Within(out, out, {cur}, needs, installed)
             /\ InOrder(out, out, needs, I)
  BY DEF Grown, Within, InOrder
<1>5. 0 \in T
  <2> SUFFICES ASSUME NEW onStack \in SUBSET I, Cardinality(I \ onStack) <= 0, NEW cur \in I
               PROVE  Serves(visit[0][onStack], onStack, cur, needs, installed)
    BY DEF T
  <2>1. IsFiniteSet(I \ onStack) /\ Cardinality(I \ onStack) \in Nat
    BY <1>1, FS_Difference, FS_CardinalityType
  <2>2. I \ onStack = {}
    BY <2>1, FS_EmptySet
  <2>3. cur \in onStack
    BY <2>2
  <2>4. QED
    BY <1>2, <1>4, <2>3 DEF Serves
<1>6. ASSUME NEW n \in Nat, n \in T
      PROVE  n + 1 \in T
  <2>0. Deep(n)
    BY <1>6 DEF T
  <2> SUFFICES Deep(n + 1)
    <3> HIDE DEF Deep
    <3>1. QED
      BY DEF T
  <2> SUFFICES ASSUME NEW onStack \in SUBSET I, Cardinality(I \ onStack) <= n + 1, NEW cur \in I
               PROVE  Serves(visit[n + 1][onStack], onStack, cur, needs, installed)
    OBVIOUS
  <2> SUFFICES ASSUME NEW out \in Seq(I)
               PROVE  /\ Grown(out, visit[n + 1][onStack][cur][out], onStack, needs, I)
                      /\ cur \in Range(visit[n + 1][onStack][cur][out]) \cup onStack
                      /\ Within(out, visit[n + 1][onStack][cur][out], {cur}, needs, installed)
                      /\ Leads(onStack, cur, needs, installed) =>
                           InOrder(out, visit[n + 1][onStack][cur][out], needs, I)
    BY DEF Serves
  <2> DEFINE r == visit[n + 1][onStack][cur][out]
  <2>1. CASE cur \in Range(out) \cup onStack
    <3>1. r = out
      <4>1. r = After(visit[n], onStack, cur, out, needs, installed)
        BY <1>2
      <4>2. QED
        BY <2>1, <4>1 DEF After
    <3>2. QED
      BY <1>4, <2>1, <3>1
  <2>2. CASE cur \notin Range(out) \cup onStack
    <3>1. r = Append(VisitEach(visit[n][onStack \cup {cur}], Among(needs[cur], installed), out), cur)
      <4>1. r = After(visit[n], onStack, cur, out, needs, installed)
        BY <1>2
      <4>2. QED
        BY <2>2, <4>1 DEF After
    <3>2. onStack \cup {cur} \in SUBSET I
      OBVIOUS
    <3>3. Cardinality(I \ (onStack \cup {cur})) <= n
      <4>1. IsFiniteSet(I \ onStack) /\ Cardinality(I \ onStack) \in Nat
        BY <1>1, FS_Difference, FS_CardinalityType
      <4>2. cur \in I \ onStack /\ I \ (onStack \cup {cur}) = (I \ onStack) \ {cur}
        BY <2>2
      <4>3. Cardinality((I \ onStack) \ {cur}) = Cardinality(I \ onStack) - 1
        BY <4>1, <4>2, FS_RemoveElement
      <4>4. Cardinality(I \ (onStack \cup {cur})) = Cardinality(I \ onStack) - 1
        BY <4>2, <4>3
      <4> DEFINE c == Cardinality(I \ onStack)
      <4>5. c \in Nat /\ c <= n + 1
        BY <4>1
      <4> HIDE DEF c
      <4>6. c - 1 <= n
        BY <4>5
      <4>7. QED
        BY <4>4, <4>6 DEF c
    <3>4. \A d \in I : Serves(visit[n][onStack \cup {cur}], onStack \cup {cur}, d, needs, installed)
      BY <2>0, <3>2, <3>3
    <3>5. visit[n][onStack \cup {cur}] \in Visits(I)
      BY <1>3, <3>2
    <3> HIDE DEF r
    <3>6. QED
      BY <2>2, <3>1, <3>4, <3>5, VisitOne DEF r
  <2>3. QED
    BY <2>1, <2>2
<1>7. \A n \in Nat : n \in T
  BY <1>5, <1>6, Induction
<1>8. QED
  BY <1>7 DEF visit, T

\* "Returns id and all of its transitive dependencies with the dependencies first."
LEMMA ChainServes ==
    ASSUME NEW P, NEW needs, NEW installed, Graph(P, needs, installed), NEW id \in Range(installed)
    PROVE  ChainPrepares(id, needs, installed) /\ ActivationChain(id, needs, installed) \in Seq(Range(installed))
<1> DEFINE I == Range(installed)
           n == Len(installed)
           visit == Visit(needs, installed)[n][{}]
           chain == ActivationChain(id, needs, installed)
<1>1. n \in Nat /\ Cardinality(I \ {}) <= n /\ {} \in SUBSET I
  BY Installed DEF Graph
<1>2. Serves(visit, {}, id, needs, installed)
  BY <1>1, VisitsServe
<1>3. chain = visit[id][<<>>]
  BY DEF ActivationChain
<1> HIDE DEF visit, chain
<1>4. <<>> \in Seq(I) /\ Range(<<>>) = {} /\ Len(<<>>) = 0 /\ IsInjective(<<>>)
  BY DEF Range, IsInjective
<1>5. /\ Grown(<<>>, chain, {}, needs, I)
      /\ id \in Range(chain)
      /\ Within(<<>>, chain, {id}, needs, installed)
      /\ Leads({}, id, needs, installed) => InOrder(<<>>, chain, needs, I)
  BY <1>2, <1>3, <1>4 DEF Serves
<1>6. chain \in Seq(I) /\ IsInjective(chain)
  BY <1>4, <1>5 DEF Grown
<1>7. Range(chain) = Reach({id}, needs, installed)
  <2>1. Range(chain) \in SUBSET I
    BY <1>6, RangeIn
  <2>2. Closed(Range(chain), needs, installed)
    BY <1>4, <1>5 DEF Grown, Closed
  <2>3. {id} \in SUBSET I
    OBVIOUS
  <2>4. Reach({id}, needs, installed) \subseteq Range(chain)
    BY <1>5, <2>1, <2>2, <2>3, ReachHolds
  <2>5. /\ {id} \subseteq Reach({id}, needs, installed)
        /\ Reach({id}, needs, installed) \in SUBSET I
        /\ Closed(Reach({id}, needs, installed), needs, installed)
    BY <2>3, ReachHolds
  <2>6. Range(chain) \subseteq Reach({id}, needs, installed)
    BY <1>4, <1>5, <2>5 DEF Within
  <2>7. QED
    BY <2>4, <2>6
<1>8. ASSUME Acyclic(needs, installed)
      PROVE  DependenciesFirst(chain, needs)
  <2>1. InOrder(<<>>, chain, needs, I)
    BY <1>5, <1>8 DEF Leads
  <2>2. DOMAIN chain = 1..Len(chain) /\ Len(chain) \in Nat /\ \A i \in 1..Len(chain) : chain[i] \in I
    BY <1>6
  <2>3. ASSUME NEW i \in DOMAIN chain, NEW j \in DOMAIN chain, chain[i] \in needs[chain[j]]
        PROVE  i < j
    <3>1. j \in (Len(<<>>) + 1)..Len(chain) /\ chain[i] \in needs[chain[j]] \cap I
      BY <1>4, <2>2, <2>3
    <3>2. PICK k \in 1..(j - 1) : chain[k] = chain[i]
      BY <2>1, <3>1 DEF InOrder
    <3>3. k \in DOMAIN chain
      BY <2>2, <3>2
    <3>4. k = i
      BY <1>6, <3>2, <3>3 DEF IsInjective
    <3>5. QED
      BY <2>2, <3>2, <3>4
  <2>4. QED
    BY <2>3 DEF DependenciesFirst
<1>9. QED
  BY <1>6, <1>7, <1>8 DEF ChainPrepares, chain

-----------------------------------------------------------------------------
\* Dependents, breadth first.

\* Each of the rounds of Met is made of the one before.
MetUnfolds(id, needs, installed) ==
    /\ \A n \in Nat : Met(id, needs, installed)[n] \in Seq(Range(installed) \cup {id})
    /\ Met(id, needs, installed)[0] = <<id>>
    /\ \A n \in Nat : Met(id, needs, installed)[n + 1] =
         IF n + 1 > Len(Met(id, needs, installed)[n]) THEN Met(id, needs, installed)[n]
         ELSE Meet(Met(id, needs, installed)[n], Met(id, needs, installed)[n][n + 1], needs, installed)

LEMMA MeetType ==
    ASSUME NEW P, NEW needs, NEW installed, Graph(P, needs, installed), NEW id, NEW p,
           NEW seen \in Seq(Range(installed) \cup {id})
    PROVE  Meet(seen, p, needs, installed) \in Seq(Range(installed) \cup {id})
<1> DEFINE I == Range(installed)
           direct == DirectDependents(p, needs, installed)
<1>1. direct \in Seq(I)
  BY NeedsAmong DEF DirectDependents
<1> HIDE DEF direct
<1>2. Among(I \ Range(seen), direct) \in Seq((I \ Range(seen)) \cap I)
  BY <1>1, AmongFacts
<1>3. Among(I \ Range(seen), direct) \in Seq(I \cup {id})
  BY <1>2
<1>4. QED
  BY <1>3 DEF Meet, direct

LEMMA MetIs ==
    ASSUME NEW P, NEW needs, NEW installed, Graph(P, needs, installed), NEW id
    PROVE  MetUnfolds(id, needs, installed)
<1> DEFINE S == Seq(Range(installed) \cup {id})
           next(n, seen) == IF n > Len(seen) THEN seen ELSE Meet(seen, seen[n], needs, installed)
           F == [x \in Nat \X S |-> next(x[1], x[2])]
           round(f, n) == IF n = 0 THEN <<id>>
                          ELSE LET seen == f[n - 1]
                               IN  IF n > Len(seen) THEN seen ELSE Meet(seen, seen[n], needs, installed)
           met == Met(id, needs, installed)
<1>1. ASSUME NEW n \in Nat, NEW seen \in S
      PROVE  next(n, seen) \in S
  BY MeetType
<1>2. F \in [Nat \X S -> S]
  <2> HIDE DEF next, S
  <2>1. QED
    BY <1>1
<1>3. <<id>> \in S
  OBVIOUS
<1>4. PICK f : Iterates(f, S, <<id>>, F)
  <2> HIDE DEF F, S
  <2>1. QED
    BY <1>2, <1>3, Recursion, Zenon
<1>5. \A h : round(h, 0) = <<id>>
  OBVIOUS
<1>6. \A h : \A n \in Nat : n # 0 => round(h, n) = next(n, h[n - 1])
  OBVIOUS
<1> HIDE DEF S, next, round, met
<1>7. f = [n \in Nat |-> round(f, n)]
  <2>1. f \in [Nat -> S] /\ f[0] = <<id>> /\ \A n \in Nat : f[n + 1] = F[<<n + 1, f[n]>>]
    BY <1>4 DEF Iterates
  <2>2. ASSUME NEW n \in Nat, n # 0 PROVE f[n] = round(f, n)
    <3>1. n - 1 \in Nat /\ (n - 1) + 1 = n
      BY <2>2
    <3>2. f[n - 1] \in S /\ f[n] = F[<<n, f[n - 1]>>]
      BY <2>1, <3>1
    <3>3. f[n] = next(n, f[n - 1])
      BY <3>2
    <3>4. QED
      BY <1>6, <2>2, <3>3
  <2>3. QED
    BY <1>5, <2>1, <2>2
<1>8. met = CHOOSE g : g = [n \in Nat |-> round(g, n)]
  BY DEF Met, met, round
<1>9. met = [n \in Nat |-> round(met, n)]
  BY <1>7, <1>8, Zenon
<1>10. met[0] = <<id>>
  BY <1>5, <1>9
<1>11. ASSUME NEW n \in Nat
       PROVE  met[n + 1] = next(n + 1, met[n])
  BY <1>9, <1>6
<1>12. \A n \in Nat : met[n] \in S
  <2> DEFINE T == {n \in Nat : met[n] \in S}
  <2>1. 0 \in T
    BY <1>3, <1>10
  <2>2. ASSUME NEW n \in Nat, n \in T PROVE n + 1 \in T
    BY <1>1, <1>11, <2>2
  <2>3. \A n \in Nat : n \in T
    <3> HIDE DEF T
    <3>1. QED
      BY <2>1, <2>2, Induction
  <2>4. QED
    BY <2>3
<1>13. ASSUME NEW n \in Nat
       PROVE  met[n + 1] = IF n + 1 > Len(met[n]) THEN met[n]
                           ELSE Meet(met[n], met[n][n + 1], needs, installed)
  BY <1>11 DEF next
<1>14. QED
  BY <1>10, <1>12, <1>13 DEF met, S, MetUnfolds

LEMMA ChainedAt ==
    ASSUME NEW X, NEW s \in Seq(X), NEW t \in Seq(X)
    PROVE  /\ s \o t \in Seq(X) /\ Len(s \o t) = Len(s) + Len(t)
           /\ \A i \in 1..Len(s) : (s \o t)[i] = s[i]
           /\ \A i \in 1..Len(t) : (s \o t)[Len(s) + i] = t[i]
  OBVIOUS

LEMMA Chained ==
    ASSUME NEW X, NEW s \in Seq(X), NEW t \in Seq(X)
    PROVE  /\ s \o t \in Seq(X) /\ Len(s \o t) = Len(s) + Len(t) /\ Len(s) \in Nat
           /\ \A i \in 1..Len(s) : (s \o t)[i] = s[i]
           /\ Range(s \o t) = Range(s) \cup Range(t)
           /\ IsInjective(s) /\ IsInjective(t) /\ Range(s) \cap Range(t) = {} => IsInjective(s \o t)
<1>1. /\ s \o t \in Seq(X) /\ Len(s \o t) = Len(s) + Len(t) /\ Len(s) \in Nat /\ Len(t) \in Nat
      /\ DOMAIN s = 1..Len(s) /\ DOMAIN t = 1..Len(t) /\ DOMAIN (s \o t) = 1..(Len(s) + Len(t))
      /\ \A i \in 1..Len(s) : (s \o t)[i] = s[i]
      /\ \A i \in 1..Len(t) : (s \o t)[Len(s) + i] = t[i]
  OBVIOUS
<1> DEFINE j == s \o t
<1> HIDE DEF j
<1>2. /\ j \in Seq(X) /\ Len(s) \in Nat /\ Len(t) \in Nat
      /\ DOMAIN s = 1..Len(s) /\ DOMAIN t = 1..Len(t) /\ DOMAIN j = 1..(Len(s) + Len(t))
      /\ \A i \in 1..Len(s) : j[i] = s[i]
      /\ \A i \in 1..Len(t) : j[Len(s) + i] = t[i]
  BY <1>1 DEF j
<1>3. ASSUME NEW k \in 1..(Len(s) + Len(t)), k \notin 1..Len(s)
      PROVE  k - Len(s) \in 1..Len(t) /\ j[k] = t[k - Len(s)]
  BY <1>2, <1>3
<1>4. Range(j) \subseteq Range(s) \cup Range(t)
  BY <1>2, <1>3 DEF Range
<1>5. Range(s) \subseteq Range(j)
  BY <1>2 DEF Range
<1>6. Range(t) \subseteq Range(j)
  <2> SUFFICES ASSUME NEW i \in 1..Len(t)
               PROVE  t[i] \in Range(j)
    BY <1>2 DEF Range
  <2>1. Len(s) + i \in DOMAIN j /\ j[Len(s) + i] = t[i]
    BY <1>2
  <2>2. QED
    BY <2>1 DEF Range
<1>7. ASSUME IsInjective(s), IsInjective(t), Range(s) \cap Range(t) = {}
      PROVE  IsInjective(j)
  <2> SUFFICES ASSUME NEW a \in DOMAIN j, NEW b \in DOMAIN j, j[a] = j[b]
               PROVE  a = b
    BY DEF IsInjective
  <2>1. a \in 1..(Len(s) + Len(t)) /\ b \in 1..(Len(s) + Len(t))
    BY <1>2
  <2>2. CASE a \in 1..Len(s) /\ b \in 1..Len(s)
    BY <1>2, <1>7, <2>2 DEF IsInjective
  <2>3. CASE a \in 1..Len(s) /\ b \notin 1..Len(s)
    BY <1>2, <1>3, <2>1, <2>3, <1>7 DEF Range
  <2>4. CASE a \notin 1..Len(s) /\ b \in 1..Len(s)
    BY <1>2, <1>3, <2>1, <2>4, <1>7 DEF Range
  <2>5. CASE a \notin 1..Len(s) /\ b \notin 1..Len(s)
    <3>1. /\ a - Len(s) \in DOMAIN t /\ j[a] = t[a - Len(s)]
          /\ b - Len(s) \in DOMAIN t /\ j[b] = t[b - Len(s)]
      BY <1>2, <1>3, <2>1, <2>5
    <3>2. a - Len(s) = b - Len(s)
      BY <1>7, <3>1 DEF IsInjective
    <3>3. QED
      BY <1>2, <2>1, <3>2
  <2>6. QED
    BY <2>2, <2>3, <2>4, <2>5
<1>8. QED
  BY <1>1, <1>4, <1>5, <1>6, <1>7 DEF j

\* What is met after n rounds: each once, id first, only those that reach id,
\* and with the n first of them their dependents.
Spreads(met, n, id, needs, installed) ==
    /\ IsInjective(met) /\ Len(met) # 0 /\ met[1] = id
    /\ \A q \in Range(met) : q # id => q \in Range(installed)
    /\ id \in Range(installed) => \A q \in Range(met) : id \in Reach({q}, needs, installed)
    /\ \A i \in 1..n : i <= Len(met) =>
         Range(DirectDependents(met[i], needs, installed)) \subseteq Range(met)

LEMMA MeetSpreads ==
    ASSUME NEW P, NEW needs, NEW installed, Graph(P, needs, installed), NEW id, NEW n \in Nat,
           NEW seen \in Seq(Range(installed) \cup {id}),
           Spreads(seen, n, id, needs, installed), n + 1 <= Len(seen)
    PROVE  Spreads(Meet(seen, seen[n + 1], needs, installed), n + 1, id, needs, installed)
<1> DEFINE I == Range(installed)
           J == I \cup {id}
           p == seen[n + 1]
           direct == DirectDependents(p, needs, installed)
           more == Among(I \ Range(seen), direct)
           r == Meet(seen, p, needs, installed)
<1>1. /\ direct \in Seq(I) /\ IsInjective(direct)
      /\ Range(direct) = {q \in I : q # p /\ p \in needs[q]}
  BY NeedsAmong DEF DirectDependents
<1> HIDE DEF direct
<1>2. /\ more \in Seq((I \ Range(seen)) \cap I) /\ IsInjective(more)
      /\ Range(more) = (I \ Range(seen)) \cap Range(direct)
  BY <1>1, AmongFacts
<1>3. more \in Seq(J)
  BY <1>2
<1>4. r = seen \o more
  BY DEF Meet, direct
<1> HIDE DEF more, r
<1>5. /\ r \in Seq(J) /\ Len(r) = Len(seen) + Len(more) /\ Len(seen) \in Nat /\ Len(more) \in Nat
      /\ \A i \in 1..Len(seen) : r[i] = seen[i]
      /\ Range(r) = Range(seen) \cup Range(more)
      /\ IsInjective(r)
  <2>1. IsInjective(seen) /\ Range(seen) \cap Range(more) = {}
    BY <1>2 DEF Spreads
  <2>2. Len(more) \in Nat
    BY <1>3
  <2> HIDE DEF J
  <2>3. /\ seen \o more \in Seq(J) /\ Len(seen \o more) = Len(seen) + Len(more) /\ Len(seen) \in Nat
        /\ \A i \in 1..Len(seen) : (seen \o more)[i] = seen[i]
        /\ Range(seen \o more) = Range(seen) \cup Range(more)
        /\ IsInjective(seen) /\ IsInjective(more) /\ Range(seen) \cap Range(more) = {}
             => IsInjective(seen \o more)
    BY <1>3, Chained DEF J
  <2>4. QED
    BY <1>2, <1>4, <2>1, <2>2, <2>3
<1>6. Len(r) # 0 /\ r[1] = id
  BY <1>5 DEF Spreads
<1>7. Range(direct) \subseteq Range(r)
  BY <1>1, <1>2, <1>5
<1>8. \A q \in Range(r) : q # id => q \in I
  BY <1>1, <1>2, <1>5 DEF Spreads
<1>9. ASSUME id \in I, NEW q \in Range(r)
      PROVE  id \in Reach({q}, needs, installed)
  <2>1. CASE q \in Range(seen)
    BY <1>9, <2>1 DEF Spreads
  <2>2. CASE q \in Range(more)
    <3>1. q \in I /\ p \in needs[q]
      BY <1>1, <1>2, <2>2
    <3>2. n + 1 \in 1..Len(seen)
      BY <1>5
    <3>3. p \in Range(seen) /\ p \in J
      BY <1>5, <3>2 DEF Range
    <3>4. p \in I
      BY <1>9, <3>3
    <3>5. id \in Reach({p}, needs, installed)
      BY <1>9, <3>3 DEF Spreads
    <3>6. /\ {q} \subseteq Reach({q}, needs, installed)
          /\ Closed(Reach({q}, needs, installed), needs, installed)
      BY <3>1, ReachHolds
    <3>7. p \in Reach({q}, needs, installed)
      BY <3>1, <3>4, <3>6 DEF Closed
    <3>8. Reach({p}, needs, installed) \subseteq Reach({q}, needs, installed)
      BY <3>1, <3>4, <3>7, ReachGrows
    <3>9. QED
      BY <3>5, <3>8
  <2>3. QED
    BY <1>5, <1>9, <2>1, <2>2
<1>10. ASSUME NEW i \in 1..(n + 1), i <= Len(r)
       PROVE  Range(DirectDependents(r[i], needs, installed)) \subseteq Range(r)
  <2>1. i \in 1..Len(seen) /\ r[i] = seen[i]
    BY <1>5
  <2>2. CASE i = n + 1
    BY <1>7, <2>1, <2>2 DEF direct
  <2>3. CASE i # n + 1
    BY <2>1, <2>3, <1>5 DEF Spreads
  <2>4. QED
    BY <2>2, <2>3
<1>11. QED
  BY <1>5, <1>6, <1>8, <1>9, <1>10 DEF Spreads, r

LEMMA MetSpreads ==
    ASSUME NEW P, NEW needs, NEW installed, Graph(P, needs, installed), NEW id
    PROVE  \A n \in Nat : Spreads(Met(id, needs, installed)[n], n, id, needs, installed)
<1> DEFINE met == Met(id, needs, installed)
           J == Range(installed) \cup {id}
           T == {n \in Nat : Spreads(met[n], n, id, needs, installed)}
<1>1. MetUnfolds(id, needs, installed)
  BY MetIs
<1>2. /\ \A n \in Nat : met[n] \in Seq(J)
      /\ met[0] = <<id>>
      /\ \A n \in Nat : met[n + 1] = IF n + 1 > Len(met[n]) THEN met[n]
                                     ELSE Meet(met[n], met[n][n + 1], needs, installed)
  BY <1>1 DEF MetUnfolds
<1> HIDE DEF met
<1>3. 0 \in T
  <2>1. IsInjective(<<id>>) /\ Len(<<id>>) # 0 /\ <<id>>[1] = id /\ Range(<<id>>) = {id}
    BY DEF IsInjective, Range
  <2>2. id \in Range(installed) => id \in Reach({id}, needs, installed)
    BY ReachHolds
  <2>3. Spreads(<<id>>, 0, id, needs, installed)
    <3> DEFINE s == <<id>>
    <3>1. IsInjective(s) /\ Len(s) # 0 /\ s[1] = id /\ Range(s) = {id}
      BY <2>1
    <3> HIDE DEF s
    <3>2. Spreads(s, 0, id, needs, installed)
      BY <2>2, <3>1 DEF Spreads
    <3>3. QED
      BY <3>2 DEF s
  <2>4. QED
    BY <1>2, <2>3
<1>4. ASSUME NEW n \in Nat, n \in T
      PROVE  n + 1 \in T
  <2>1. met[n] \in Seq(J) /\ Len(met[n]) \in Nat /\ Spreads(met[n], n, id, needs, installed)
    <3>1. met[n] \in Seq(J)
      BY <1>2
    <3>2. Len(met[n]) \in Nat
      BY <3>1
    <3>3. QED
      BY <1>4, <3>1, <3>2
  <2>2. CASE n + 1 > Len(met[n])
    <3>1. met[n + 1] = met[n]
      BY <1>2, <2>2
    <3>2. \A i \in 1..(n + 1) : i <= Len(met[n]) => i \in 1..n
      BY <2>1, <2>2
    <3> DEFINE m == met[n]
    <3> HIDE DEF m
    <3>3. Spreads(m, n + 1, id, needs, installed)
      BY <2>1, <3>2 DEF Spreads, m
    <3>4. QED
      BY <3>1, <3>3 DEF m
  <2>3. CASE ~ (n + 1 > Len(met[n]))
    <3>1. met[n + 1] = Meet(met[n], met[n][n + 1], needs, installed)
      BY <1>2, <2>3
    <3>2. n + 1 <= Len(met[n])
      BY <2>1, <2>3
    <3>3. Spreads(Meet(met[n], met[n][n + 1], needs, installed), n + 1, id, needs, installed)
      BY <2>1, <3>2, MeetSpreads
    <3>4. QED
      BY <3>1, <3>3
  <2>4. QED
    BY <2>2, <2>3
<1>5. \A n \in Nat : n \in T
  <2> HIDE DEF T
  <2>1. QED
    BY <1>3, <1>4, Induction
<1>6. QED
  BY <1>5 DEF met

LEMMA BackToFront ==
    ASSUME NEW X, NEW m \in Seq(X), Len(m) # 0
    PROVE  /\ Append(Reverse(Tail(m)), m[1]) \in Seq(X)
           /\ Append(Reverse(Tail(m)), m[1]) # <<>>
           /\ Range(Append(Reverse(Tail(m)), m[1])) = Range(m)
           /\ IsInjective(m) => IsInjective(Append(Reverse(Tail(m)), m[1]))
<1> DEFINE t == Tail(m)
           r == Append(Reverse(t), m[1])
           n == Len(m)
<1>1. /\ n \in Nat /\ n > 0 /\ DOMAIN m = 1..n /\ m[1] \in X
      /\ t \in Seq(X) /\ Len(t) = n - 1 /\ \A i \in 1..(n - 1) : t[i] = m[i + 1]
  OBVIOUS
<1> HIDE DEF t
<1>2. /\ Reverse(t) \in Seq(X) /\ Len(Reverse(t)) = n - 1
      /\ \A i \in 1..(n - 1) : Reverse(t)[i] = m[n - i + 1]
  <2>1. \A i \in 1..(n - 1) : t[(n - 1) - i + 1] = m[n - i + 1] /\ t[(n - 1) - i + 1] \in X
    <3> TAKE i \in 1..(n - 1)
    <3>1. (n - 1) - i + 1 \in 1..(n - 1) /\ ((n - 1) - i + 1) + 1 = n - i + 1
      BY <1>1
    <3>2. QED
      BY <1>1, <3>1
  <2>2. Reverse(t) = [i \in 1..(n - 1) |-> t[(n - 1) - i + 1]]
    BY <1>1 DEF Reverse
  <2>3. QED
    BY <1>1, <2>1, <2>2
<1> DEFINE s == Reverse(t)
<1> HIDE DEF s
<1>3. s \in Seq(X) /\ Len(s) = n - 1 /\ (\A i \in 1..(n - 1) : s[i] = m[n - i + 1]) /\ r = Append(s, m[1])
  BY <1>2 DEF s
<1> HIDE DEF r
<1>4. /\ r \in Seq(X) /\ Len(r) = n /\ DOMAIN r = 1..n
      /\ \A i \in 1..(n - 1) : r[i] = s[i]
      /\ r[n] = m[1]
  <2>1. /\ Append(s, m[1]) \in Seq(X) /\ Len(Append(s, m[1])) = (n - 1) + 1
        /\ \A i \in 1..(n - 1) : Append(s, m[1])[i] = s[i]
        /\ Append(s, m[1])[(n - 1) + 1] = m[1]
    <3>1. /\ Append(s, m[1]) \in Seq(X) /\ Len(Append(s, m[1])) = Len(s) + 1
          /\ \A i \in 1..Len(s) : Append(s, m[1])[i] = s[i]
          /\ Append(s, m[1])[Len(s) + 1] = m[1]
      <4>1. s \in Seq(X) /\ m[1] \in X
        BY <1>1, <1>3
      <4>2. QED
        BY <4>1
    <3>2. QED
      BY <1>3, <3>1
  <2>2. (n - 1) + 1 = n
    BY <1>1
  <2> DEFINE a == Append(s, m[1])
  <2> HIDE DEF a
  <2>3. /\ a \in Seq(X) /\ Len(a) = n
        /\ \A i \in 1..(n - 1) : a[i] = s[i]
        /\ a[n] = m[1]
    BY <2>1, <2>2 DEF a
  <2>4. DOMAIN a = 1..n
    BY <2>3
  <2>5. QED
    BY <1>3, <2>3, <2>4 DEF a
<1>5. \A i \in 1..n : n - i + 1 \in 1..n /\ n - (n - i + 1) + 1 = i /\ r[i] = m[n - i + 1]
  <2> HIDE DEF n
  <2> TAKE i \in 1..n
  <2>0. n \in Nat
    BY <1>1
  <2>1. n - i + 1 \in 1..n /\ n - (n - i + 1) + 1 = i
    BY <1>1
  <2>2. CASE i = n
    BY <1>1, <1>4, <2>1, <2>2
  <2>3. CASE i # n
    <3>1. i \in 1..(n - 1)
      BY <2>0, <2>3
    <3>2. r[i] = s[i]
      BY <1>4, <3>1
    <3>3. s[i] = m[n - i + 1]
      BY <1>3, <3>1
    <3>4. QED
      BY <2>1, <3>2, <3>3
  <2>4. QED
    BY <2>2, <2>3
<1> HIDE DEF n
<1>6. Range(r) = Range(m)
  <2>1. \A i \in 1..n : \E j \in 1..n : r[i] = m[j]
    BY <1>5
  <2>2. \A j \in 1..n : \E i \in 1..n : r[i] = m[j]
    <3> TAKE j \in 1..n
    <3>1. n - j + 1 \in 1..n /\ n - (n - j + 1) + 1 = j
      BY <1>5
    <3>2. r[n - j + 1] = m[n - (n - j + 1) + 1]
      BY <1>5, <3>1
    <3>3. QED
      BY <3>1, <3>2
  <2>3. Range(r) = {r[i] : i \in 1..n} /\ Range(m) = {m[i] : i \in 1..n}
    BY <1>1, <1>4 DEF Range
  <2>4. Range(r) \subseteq Range(m)
    BY <2>1, <2>3
  <2>5. Range(m) \subseteq Range(r)
    BY <2>2, <2>3
  <2>6. QED
    BY <2>4, <2>5
<1>7. ASSUME IsInjective(m)
      PROVE  IsInjective(r)
  <2> SUFFICES ASSUME NEW i \in 1..n, NEW j \in 1..n, r[i] = r[j]
               PROVE  i = j
    BY <1>4 DEF IsInjective
  <2>1. m[n - i + 1] = m[n - j + 1]
    BY <1>5
  <2>2. n - i + 1 = n - j + 1
    BY <1>1, <1>5, <1>7, <2>1 DEF IsInjective
  <2>3. QED
    BY <1>5, <2>2
<1>8. r # <<>>
  BY <1>1, <1>4
<1>9. QED
  BY <1>4, <1>6, <1>7, <1>8 DEF r, t

LEMMA CascadeIs ==
    ASSUME NEW P, NEW needs, NEW installed, Graph(P, needs, installed), NEW id, NEW X,
           Range(installed) \cup {id} \subseteq X
    PROVE  /\ CascadeRemovalSet(id, needs, installed) \in Seq(X)
           /\ CascadeRemovalSet(id, needs, installed) # <<>>
           /\ IsInjective(CascadeRemovalSet(id, needs, installed))
           /\ Range(CascadeRemovalSet(id, needs, installed)) =
                Range(Met(id, needs, installed)[Len(installed) + 1])
<1> DEFINE m == Met(id, needs, installed)[Len(installed) + 1]
<1>1. Len(installed) + 1 \in Nat
  BY Installed DEF Graph
<1>2. m \in Seq(Range(installed) \cup {id})
  BY MetIs, <1>1 DEF MetUnfolds
<1>3. Spreads(m, Len(installed) + 1, id, needs, installed)
  BY <1>1, MetSpreads
<1>4. CascadeRemovalSet(id, needs, installed) = Append(Reverse(Tail(m)), id)
  BY DEF CascadeRemovalSet, TransitiveDependents
<1> HIDE DEF m
<1>5. IsInjective(m) /\ Len(m) # 0 /\ m[1] = id
  BY <1>3 DEF Spreads
<1>6. m \in Seq(X)
  BY <1>2
<1>7. /\ Append(Reverse(Tail(m)), m[1]) \in Seq(X)
      /\ Append(Reverse(Tail(m)), m[1]) # <<>>
      /\ Range(Append(Reverse(Tail(m)), m[1])) = Range(m)
      /\ IsInjective(m) => IsInjective(Append(Reverse(Tail(m)), m[1]))
  BY <1>5, <1>6, BackToFront
<1>8. QED
  BY <1>4, <1>5, <1>7 DEF m

\* All is met once there were as many rounds as there are plugins: what depends
\* on one that is met is met.
LEMMA AllMet ==
    ASSUME NEW P, NEW needs, NEW installed, Graph(P, needs, installed), NEW id
    PROVE  \A p \in Range(installed), q \in Range(Met(id, needs, installed)[Len(installed) + 1]) :
              q \in needs[p] => p \in Range(Met(id, needs, installed)[Len(installed) + 1])
<1> DEFINE I == Range(installed)
           n == Len(installed)
           m == Met(id, needs, installed)[n + 1]
<1>1. IsFiniteSet(I) /\ Cardinality(I) \in Nat /\ Cardinality(I) <= n /\ n \in Nat
  BY Installed DEF Graph
<1>2. m \in Seq(I \cup {id})
  BY MetIs, <1>1 DEF MetUnfolds
<1>3. Spreads(m, n + 1, id, needs, installed)
  BY <1>1, MetSpreads
<1> HIDE DEF m
<1>4. Len(m) <= n + 1 /\ Len(m) \in Nat
  <2>1. Len(m) \in Nat /\ DOMAIN m = 1..Len(m) /\ \A i \in 1..Len(m) : m[i] \in I \cup {id}
    BY <1>2
  <2>2. m \in Injection(1..Len(m), I \cup {id})
    BY <1>2, <1>3, <2>1 DEF Spreads, Injection, IsInjective
  <2>3. /\ IsFiniteSet(I \cup {id})
        /\ Cardinality(I \cup {id}) = IF id \in I THEN Cardinality(I) ELSE Cardinality(I) + 1
    BY <1>1, FS_AddElement
  <2>4. Cardinality(1..Len(m)) = Len(m)
    BY <2>1, FS_Interval
  <2>5. Cardinality(1..Len(m)) <= Cardinality(I \cup {id})
    BY <2>2, <2>3, FS_Injection
  <2> HIDE DEF I
  <2>6. QED
    BY <1>1, <2>1, <2>3, <2>4, <2>5
<1>5. SUFFICES ASSUME NEW p \in I, NEW q \in Range(m), q \in needs[p], p \notin Range(m)
               PROVE  FALSE
  BY DEF m
<1>6. PICK i \in 1..Len(m) : m[i] = q
  BY <1>2 DEF Range
<1>7. i \in 1..(n + 1) /\ i <= Len(m)
  BY <1>1, <1>4
<1>8. Range(DirectDependents(q, needs, installed)) \subseteq Range(m)
  BY <1>3, <1>6, <1>7 DEF Spreads
<1>9. p \in Range(DirectDependents(q, needs, installed))
  BY NeedsAmong, <1>5 DEF DirectDependents
<1>10. QED
  BY <1>5, <1>8, <1>9

\* "Removing in this order always removes the dependents": all of them, each once.
LEMMA CascadeServes ==
    ASSUME NEW P, NEW needs, NEW installed, Graph(P, needs, installed), NEW id \in Range(installed)
    PROVE  CascadeTakesAll(id, needs, installed)
<1> DEFINE I == Range(installed)
           n == Len(installed)
           m == Met(id, needs, installed)[n + 1]
           order == CascadeRemovalSet(id, needs, installed)
<1>1. n + 1 \in Nat
  BY Installed DEF Graph
<1>2. Spreads(m, n + 1, id, needs, installed)
  BY <1>1, MetSpreads
<1>3. IsInjective(order) /\ Range(order) = Range(m)
  BY CascadeIs
<1>4. \A p \in I, q \in Range(m) : q \in needs[p] => p \in Range(m)
  BY AllMet
<1> HIDE DEF m
<1>5. m[1] = id /\ Len(m) # 0 /\ id \in Range(m)
  <2>1. MetUnfolds(id, needs, installed)
    BY MetIs
  <2>2. m \in Seq(I \cup {id})
    BY <1>1, <2>1 DEF MetUnfolds, m
  <2>3. m[1] = id /\ Len(m) # 0
    BY <1>2 DEF Spreads
  <2>4. 1 \in DOMAIN m
    BY <2>2, <2>3
  <2>5. QED
    BY <2>3, <2>4 DEF Range
<1>6. Range(m) \subseteq Dependents(id, needs, installed) \cup {id}
  BY <1>2 DEF Spreads, Dependents
<1>7. Dependents(id, needs, installed) \subseteq Range(m)
  <2> SUFFICES ASSUME NEW p \in I, id \in Reach({p}, needs, installed), p \notin Range(m)
               PROVE  FALSE
    BY DEF Dependents
  <2> DEFINE T == I \ Range(m)
  <2>1. Closed(T, needs, installed)
    BY <1>4 DEF Closed
  <2>2. T \in SUBSET I /\ {p} \subseteq T /\ {p} \in SUBSET I
    OBVIOUS
  <2>3. Reach({p}, needs, installed) \subseteq T
    BY <2>1, <2>2, ReachHolds
  <2>4. QED
    BY <1>5, <2>3
<1>8. Range(order) = Dependents(id, needs, installed) \cup {id}
  BY <1>3, <1>5, <1>6, <1>7
<1>9. QED
  BY <1>3, <1>8 DEF CascadeTakesAll

-----------------------------------------------------------------------------
\* Levels.

WaitingUnfolds(ids, needs, installed) ==
    /\ \A n \in Nat : Waiting(ids, needs, installed)[n] \in SUBSET ids
    /\ Waiting(ids, needs, installed)[0] = ids
    /\ \A n \in Nat : Waiting(ids, needs, installed)[n + 1] =
         Waiting(ids, needs, installed)[n] \ Level(Waiting(ids, needs, installed)[n], needs, installed)

LEMMA WaitingIs ==
    ASSUME NEW ids, NEW needs, NEW installed
    PROVE  WaitingUnfolds(ids, needs, installed)
<1> DEFINE S == SUBSET ids
           next(w) == w \ Level(w, needs, installed)
           F == [x \in Nat \X S |-> next(x[2])]
           round(f, n) == IF n = 0 THEN ids ELSE f[n - 1] \ Level(f[n - 1], needs, installed)
           waiting == Waiting(ids, needs, installed)
<1>1. \A w \in S : next(w) \in S
  OBVIOUS
<1>2. F \in [Nat \X S -> S]
  <2> HIDE DEF next, S
  <2>1. QED
    BY <1>1
<1>3. ids \in S
  OBVIOUS
<1>4. PICK f : Iterates(f, S, ids, F)
  <2> HIDE DEF F, S
  <2>1. QED
    BY <1>2, <1>3, Recursion, Zenon
<1>5. \A h : round(h, 0) = ids
  OBVIOUS
<1>6. \A h : \A n \in Nat : n # 0 => round(h, n) = next(h[n - 1])
  OBVIOUS
<1> HIDE DEF S, next, round, waiting
<1>7. f = [n \in Nat |-> round(f, n)]
  <2>1. f \in [Nat -> S] /\ f[0] = ids /\ \A n \in Nat : f[n + 1] = F[<<n + 1, f[n]>>]
    BY <1>4 DEF Iterates
  <2>2. ASSUME NEW n \in Nat, n # 0 PROVE f[n] = round(f, n)
    <3>1. n - 1 \in Nat /\ (n - 1) + 1 = n
      BY <2>2
    <3>2. f[n - 1] \in S /\ f[n] = F[<<n, f[n - 1]>>]
      BY <2>1, <3>1
    <3>3. f[n] = next(f[n - 1])
      BY <3>2
    <3>4. QED
      BY <1>6, <2>2, <3>3
  <2>3. QED
    BY <1>5, <2>1, <2>2
<1>8. waiting = CHOOSE g : g = [n \in Nat |-> round(g, n)]
  BY DEF Waiting, waiting, round
<1>9. waiting = [n \in Nat |-> round(waiting, n)]
  BY <1>7, <1>8, Zenon
<1>10. waiting[0] = ids
  BY <1>5, <1>9
<1>11. ASSUME NEW n \in Nat
       PROVE  waiting[n + 1] = next(waiting[n])
  BY <1>9, <1>6
<1>12. \A n \in Nat : waiting[n] \in S
  <2> DEFINE T == {n \in Nat : waiting[n] \in S}
  <2>1. 0 \in T
    BY <1>3, <1>10
  <2>2. ASSUME NEW n \in Nat, n \in T PROVE n + 1 \in T
    BY <1>1, <1>11, <2>2
  <2>3. \A n \in Nat : n \in T
    <3> HIDE DEF T
    <3>1. QED
      BY <2>1, <2>2, Induction
  <2>4. QED
    BY <2>3
<1>13. QED
  BY <1>10, <1>11, <1>12 DEF next, S, waiting, WaitingUnfolds

\* What no longer waits waits never again, and each target waits or is in the
\* level of a round.
LEMMA WaitingFacts ==
    ASSUME NEW ids, NEW needs, NEW installed, NEW n \in Nat
    PROVE  /\ \A m \in 0..n : Waiting(ids, needs, installed)[n] \subseteq Waiting(ids, needs, installed)[m]
           /\ \A p \in ids : p \in Waiting(ids, needs, installed)[n] \/ \E m \in 0..(n - 1) :
                p \in Level(Waiting(ids, needs, installed)[m], needs, installed)
<1> DEFINE w == Waiting(ids, needs, installed)
           level(m) == Level(w[m], needs, installed)
           T == {k \in Nat : /\ \A m \in 0..k : w[k] \subseteq w[m]
                             /\ \A p \in ids : p \in w[k] \/ \E m \in 0..(k - 1) : p \in level(m)}
<1>1. w[0] = ids /\ \A k \in Nat : w[k + 1] = w[k] \ level(k)
  BY WaitingIs DEF WaitingUnfolds
<1> HIDE DEF w, level
<1>2. 0 \in T
  BY <1>1
<1>3. ASSUME NEW k \in Nat, k \in T
      PROVE  k + 1 \in T
  <2>1. w[k + 1] = w[k] \ level(k)
    BY <1>1
  <2>2. ASSUME NEW m \in 0..(k + 1)
        PROVE  w[k + 1] \subseteq w[m]
    <3>1. CASE m = k + 1
      BY <3>1
    <3>2. CASE m # k + 1
      BY <3>2, <1>3, <2>1
    <3>3. QED
      BY <3>1, <3>2
  <2>3. ASSUME NEW p \in ids
        PROVE  p \in w[k + 1] \/ \E m \in 0..((k + 1) - 1) : p \in level(m)
    <3>1. CASE p \in w[k]
      BY <2>1, <3>1
    <3>2. CASE p \notin w[k]
      <4>1. PICK m \in 0..(k - 1) : p \in level(m)
        BY <1>3, <3>2
      <4>2. m \in 0..((k + 1) - 1)
        OBVIOUS
      <4>3. QED
        BY <4>1, <4>2
    <3>3. QED
      BY <3>1, <3>2
  <2>4. QED
    BY <2>2, <2>3
<1>4. \A k \in Nat : k \in T
  <2> HIDE DEF T
  <2>1. QED
    BY <1>2, <1>3, Induction
<1>5. QED
  BY <1>4 DEF w, level

\* No more levels than plugins.
LEMMA RoundsEnd ==
    ASSUME NEW P, NEW needs, NEW installed, Graph(P, needs, installed), NEW ids
    PROVE  \E n \in 0..Len(installed) :
              /\ Level(Waiting(ids, needs, installed)[n], needs, installed) = {}
              /\ \A m \in 0..(n - 1) : Level(Waiting(ids, needs, installed)[m], needs, installed) # {}
<1> DEFINE I == Range(installed)
           l == Len(installed)
           w == Waiting(ids, needs, installed)
           level(m) == Level(w[m], needs, installed)
           left(n) == Cardinality(w[n] \cap I)
           T == {n \in Nat : (\E m \in 0..(n - 1) : level(m) = {}) \/ left(n) + n <= l}
<1>1. IsFiniteSet(I) /\ Cardinality(I) \in Nat /\ Cardinality(I) <= l /\ l \in Nat
  BY Installed DEF Graph
<1>2. w[0] = ids /\ \A k \in Nat : w[k + 1] = w[k] \ level(k)
  BY WaitingIs DEF WaitingUnfolds
<1>3. \A m : level(m) \subseteq w[m] \cap I
  BY DEF Level
<1> HIDE DEF w, level, l
<1>4. \A n \in Nat : IsFiniteSet(w[n] \cap I) /\ left(n) \in Nat
  <2> TAKE n \in Nat
  <2>1. IsFiniteSet(w[n] \cap I)
    BY <1>1, FS_Intersection
  <2>2. QED
    BY <2>1, FS_CardinalityType
<1>5. 0 \in T
  <2>1. w[0] \cap I \subseteq I
    OBVIOUS
  <2>2. left(0) <= Cardinality(I)
    BY <1>1, <2>1, FS_Subset
  <2> HIDE DEF left
  <2>3. left(0) \in Nat
    <3>1. 0 \in Nat
      OBVIOUS
    <3>2. QED
      BY <1>4, <3>1, Zenon
  <2>4. left(0) + 0 <= l
    BY <1>1, <2>2, <2>3
  <2>5. QED
    BY <2>4
<1>6. ASSUME NEW n \in Nat, n \in T
      PROVE  n + 1 \in T
  <2>1. CASE \E m \in 0..(n - 1) : level(m) = {}
    <3>1. PICK m \in 0..(n - 1) : level(m) = {}
      BY <2>1
    <3>2. m \in 0..((n + 1) - 1)
      OBVIOUS
    <3>3. QED
      BY <3>1, <3>2
  <2>2. CASE level(n) = {}
    BY <2>2
  <2>3. CASE level(n) # {} /\ left(n) + n <= l
    <3>1. w[n + 1] \cap I \subseteq w[n] \cap I /\ w[n + 1] \cap I # w[n] \cap I
      BY <1>2, <1>3, <2>3
    <3>2. left(n + 1) < left(n)
      <4>1. IsFiniteSet(w[n] \cap I)
        BY <1>4
      <4>2. left(n + 1) <= left(n) /\ (left(n) = left(n + 1) => w[n + 1] \cap I = w[n] \cap I)
        BY <3>1, <4>1, FS_Subset
      <4>3. left(n) \in Nat /\ left(n + 1) \in Nat
        <5> HIDE DEF left
        <5>1. n + 1 \in Nat
          OBVIOUS
        <5>2. QED
          BY <1>4, <5>1, Zenon
      <4> HIDE DEF left
      <4>4. QED
        BY <3>1, <4>2, <4>3
    <3> HIDE DEF left
    <3>3. left(n) \in Nat /\ left(n + 1) \in Nat
      <4>1. n + 1 \in Nat
        OBVIOUS
      <4>2. QED
        BY <1>4, <4>1, Zenon
    <3>4. left(n + 1) + (n + 1) <= l
      BY <1>1, <2>3, <3>2, <3>3
    <3>5. QED
      BY <3>4
  <2>4. QED
    BY <1>6, <2>1, <2>2, <2>3
<1>7. l + 1 \in T
  <2>1. \A n \in Nat : n \in T
    <3> HIDE DEF T
    <3>1. QED
      BY <1>5, <1>6, Induction
  <2>2. l + 1 \in Nat
    BY <1>1
  <2>3. QED
    BY <2>1, <2>2
<1>8. PICK k \in 0..l : level(k) = {}
  <2>1. left(l + 1) \in Nat
    BY <1>1, <1>4
  <2> HIDE DEF left
  <2>2. ~ (left(l + 1) + (l + 1) <= l)
    BY <1>1, <2>1
  <2>3. (l + 1) - 1 = l
    BY <1>1
  <2>4. QED
    BY <1>7, <2>2, <2>3
<1> DEFINE Over == {n \in Nat : level(n) = {}}
<1>9. PICK n \in Over : \A m \in Over : n <= m
  <2>1. Over \in SUBSET Nat /\ k \in Over
    BY <1>1, <1>8
  <2>2. QED
    BY <2>1, Smallest
<1>10. n \in Nat /\ n <= k /\ k <= l /\ level(n) = {}
  BY <1>1, <1>8, <1>9
<1>11. n \in 0..l
  BY <1>1, <1>10
<1>12. ASSUME NEW m \in 0..(n - 1)
       PROVE  level(m) # {}
  BY <1>10, <1>9
<1>13. QED
  BY <1>10, <1>11, <1>12 DEF l, w, level

\* Without cycles, plugins that each wait for one of them are none.
LEMMA NoneBlocked ==
    ASSUME NEW P, NEW needs, NEW installed, Graph(P, needs, installed), Acyclic(needs, installed),
           NEW W \in SUBSET Range(installed), \A p \in W : needs[p] \cap W # {}
    PROVE  W = {}
<1> DEFINE I == Range(installed)
           size(p) == Cardinality(Reach({p}, needs, installed))
           Sizes == {size(p) : p \in W}
<1>1. SUFFICES ASSUME W # {} PROVE FALSE
  OBVIOUS
<1>2. ASSUME NEW p \in W
      PROVE  IsFiniteSet(Reach({p}, needs, installed)) /\ size(p) \in Nat
  BY ReachHolds, Installed, FS_Subset, FS_CardinalityType DEF Graph
<1>3. PICK p \in W : \A q \in W : size(p) <= size(q)
  <2>1. Sizes \in SUBSET Nat /\ Sizes # {}
    BY <1>1, <1>2
  <2>2. PICK m \in Sizes : \A n \in Sizes : m <= n
    BY <2>1, Smallest
  <2>3. QED
    BY <2>2
<1>4. PICK q \in W : q \in needs[p]
  OBVIOUS
<1>5. p \in I /\ q \in I /\ {q} \subseteq needs[p] \cap I
  BY <1>4
<1>6. Reach({q}, needs, installed) \subseteq Reach({p}, needs, installed)
  BY <1>5, ReachHolds, <1>4, ReachGrows DEF Closed
<1>7. p \notin Reach({q}, needs, installed) /\ p \in Reach({p}, needs, installed)
  <2>1. needs[p] \cap I \subseteq Reach(needs[p] \cap I, needs, installed)
    BY ReachHolds
  <2>2. Reach({q}, needs, installed) \subseteq Reach(needs[p] \cap I, needs, installed)
    BY <1>5, <2>1, ReachGrows
  <2>3. p \notin Reach(needs[p] \cap I, needs, installed)
    BY <1>5 DEF Acyclic
  <2>4. p \in Reach({p}, needs, installed)
    BY <1>5, ReachHolds
  <2>5. QED
    BY <2>2, <2>3, <2>4
<1>8. size(q) <= size(p) /\ (size(p) = size(q) => Reach({q}, needs, installed) = Reach({p}, needs, installed))
  BY <1>2, <1>6, FS_Subset
<1>9. size(p) \in Nat /\ size(q) \in Nat /\ size(p) <= size(q)
  BY <1>2, <1>3
<1> HIDE DEF size
<1>10. size(p) = size(q)
  BY <1>8, <1>9
<1>11. QED
  BY <1>7, <1>8, <1>10

\* What the levels are: those of the rounds, then what is left.
LevelsInRounds(n, rest, ids, needs, installed) ==
    /\ Level(Waiting(ids, needs, installed)[n], needs, installed) = {}
    /\ ActivationLevels(ids, needs, installed) =
         [i \in 1..n |-> Level(Waiting(ids, needs, installed)[i - 1], needs, installed)]
           \o (IF rest = {} THEN <<>> ELSE <<rest>>)

LEMMA LevelsAre ==
    ASSUME NEW P, NEW needs, NEW installed, Graph(P, needs, installed), NEW ids
    PROVE  \E n \in 0..Len(installed) :
              LevelsInRounds(n, Waiting(ids, needs, installed)[n] \cap Range(installed), ids, needs, installed)
<1> DEFINE w == Waiting(ids, needs, installed)
           next(n) == Level(w[n], needs, installed)
           Over(n) == next(n) = {} /\ \A m \in 0..(n - 1) : next(m) # {}
           rounds == CHOOSE n \in 0..Len(installed) : Over(n)
           rest == w[rounds] \cap Range(installed)
<1>1. \E n \in 0..Len(installed) : Over(n)
  BY RoundsEnd, ZenonT(40)
<1>2. ActivationLevels(ids, needs, installed) =
        [n \in 1..rounds |-> next(n - 1)] \o (IF rest = {} THEN <<>> ELSE <<rest>>)
  BY DEF ActivationLevels
<1>3. rounds \in 0..Len(installed) /\ next(rounds) = {}
  <2> HIDE DEF next
  <2>1. QED
    BY <1>1
<1> HIDE DEF rounds
<1>4. LevelsInRounds(rounds, rest, ids, needs, installed)
  BY <1>2, <1>3 DEF LevelsInRounds
<1>5. QED
  BY <1>3, <1>4

LEMMA LevelsServe ==
    ASSUME NEW P, NEW needs, NEW installed, Graph(P, needs, installed), NEW ids
    PROVE  /\ ActivationLevels(ids, needs, installed) \in Seq(SUBSET (ids \cap Range(installed)))
           /\ LevelsPrepare(ids, needs, installed)
<1> DEFINE I == Range(installed)
           w == Waiting(ids, needs, installed)
           next(n) == Level(w[n], needs, installed)
           levels == ActivationLevels(ids, needs, installed)
<1>0. PICK n \in 0..Len(installed) : LevelsInRounds(n, w[n] \cap I, ids, needs, installed)
  BY LevelsAre
<1> DEFINE rest == w[n] \cap I
<1>1. /\ rest = w[n] \cap I
      /\ next(n) = {}
      /\ levels = [i \in 1..n |-> next(i - 1)] \o (IF rest = {} THEN <<>> ELSE <<rest>>)
  BY <1>0 DEF LevelsInRounds
<1>2. n \in Nat
  BY Installed DEF Graph
<1>3. /\ \A k \in Nat : w[k] \in SUBSET ids
      /\ w[0] = ids /\ \A k \in Nat : w[k + 1] = w[k] \ next(k)
  BY WaitingIs DEF WaitingUnfolds
<1>4. \A k \in Nat : \A m \in 0..k : w[k] \subseteq w[m]
  BY WaitingFacts
<1>5. \A p \in ids : p \in w[n] \/ \E m \in 0..(n - 1) : p \in next(m)
  BY <1>2, WaitingFacts
<1>6. \A k : next(k) = {p \in w[k] \cap I : needs[p] \cap w[k] = {}}
  BY DEF Level
<1> HIDE DEF w, next, levels, rest
<1> DEFINE last == IF rest = {} THEN <<>> ELSE <<rest>>
           first == [i \in 1..n |-> next(i - 1)]
           X == SUBSET (ids \cap I)
           size == IF rest = {} THEN n ELSE n + 1
<1>7. /\ levels \in Seq(X) /\ DOMAIN levels = 1..size /\ size \in Nat
      /\ \A i \in 1..n : levels[i] = next(i - 1)
      /\ rest # {} => levels[n + 1] = rest
  <2>1. rest \in X
    BY <1>1, <1>2, <1>3
  <2>2. first \in Seq(X) /\ Len(first) = n /\ \A i \in 1..n : first[i] = next(i - 1)
    <3>1. \A i \in 1..n : next(i - 1) \in X
      <4> TAKE i \in 1..n
      <4>1. i - 1 \in Nat
        BY <1>2
      <4>2. w[i - 1] \in SUBSET ids
        BY <1>3, <4>1
      <4>3. QED
        BY <1>6, <4>2
    <3>2. QED
      BY <1>2, <3>1
  <2>3. /\ last \in Seq(X) /\ Len(last) = IF rest = {} THEN 0 ELSE 1
        /\ rest # {} => last[1] = rest
    <3>1. CASE rest = {}
      BY <3>1
    <3>2. CASE rest # {}
      <4>1. last = <<rest>>
        BY <3>2
      <4> HIDE DEF X
      <4>2. <<rest>> \in Seq(X) /\ Len(<<rest>>) = 1 /\ <<rest>>[1] = rest
        BY <2>1
      <4> HIDE DEF last
      <4>3. QED
        BY <3>2, <4>1, <4>2
    <3>3. QED
      BY <3>1, <3>2
  <2> HIDE DEF first, last, X
  <2>4. levels = first \o last
    BY <1>1 DEF first, last
  <2>5. /\ first \o last \in Seq(X) /\ Len(first \o last) = Len(first) + Len(last)
        /\ \A i \in 1..Len(first) : (first \o last)[i] = first[i]
        /\ \A i \in 1..Len(last) : (first \o last)[Len(first) + i] = last[i]
    BY <2>2, <2>3, ChainedAt
  <2>6. Len(levels) = size /\ size \in Nat /\ levels \in Seq(X)
    BY <1>2, <2>2, <2>3, <2>4, <2>5
  <2>7. DOMAIN levels = 1..size
    BY <2>6
  <2>8. \A i \in 1..n : levels[i] = next(i - 1)
    BY <2>2, <2>4, <2>5
  <2>9. rest # {} => levels[n + 1] = rest
    BY <2>2, <2>3, <2>4, <2>5
  <2>10. QED
    BY <2>6, <2>7, <2>8, <2>9
<1>8. ASSUME NEW i \in 1..size
      PROVE  /\ i \in 1..(n + 1) /\ i - 1 \in 0..n
             /\ levels[i] \subseteq w[i - 1] \cap I
             /\ i # n + 1 => i \in 1..n /\ levels[i] = next(i - 1)
             /\ i = n + 1 => rest # {} /\ levels[i] = rest
  <2>1. i \in 1..(n + 1) /\ i - 1 \in 0..n /\ (i # n + 1 => i \in 1..n)
    BY <1>2
  <2>2. i = n + 1 => rest # {}
    BY <1>2
  <2>3. CASE i = n + 1
    BY <1>2, <2>3, <1>1, <1>7, <2>1, <2>2
  <2>4. CASE i # n + 1
    BY <1>7, <2>1, <2>4, <1>6
  <2>5. QED
    BY <2>3, <2>4
<1>9. \A i \in 1..n : i \in 1..size
  BY <1>2
<1>10. UNION Range(levels) = ids \cap I
  <2>1. \A i \in 1..size : levels[i] \subseteq ids \cap I
    <3> TAKE i \in 1..size
    <3>1. i - 1 \in Nat
      BY <1>2, <1>8
    <3>2. w[i - 1] \in SUBSET ids
      BY <1>3, <3>1
    <3>3. QED
      BY <1>8, <3>2
  <2>2. \A p \in ids \cap I : \E i \in 1..size : p \in levels[i]
    <3> TAKE p \in ids \cap I
    <3>1. CASE p \in w[n]
      BY <1>1, <3>1, <1>2, <1>7
    <3>2. CASE \E m \in 0..(n - 1) : p \in next(m)
      <4>1. PICK m \in 0..(n - 1) : p \in next(m)
        BY <3>2
      <4>2. m + 1 \in 1..n /\ (m + 1) - 1 = m
        BY <1>2
      <4>3. levels[m + 1] = next(m) /\ m + 1 \in 1..size
        BY <1>7, <1>9, <4>2
      <4>4. QED
        BY <4>1, <4>3
    <3>3. QED
      BY <1>5, <3>1, <3>2
  <2>3. Range(levels) = {levels[i] : i \in 1..size}
    BY <1>7 DEF Range
  <2> HIDE DEF size, I
  <2>4. QED
    BY <2>1, <2>2, <2>3
<1>11. ASSUME NEW i \in 1..size, NEW j \in 1..size, i < j
       PROVE  levels[i] \cap levels[j] = {}
  <2>1. i \in 1..n /\ i \in 0..(j - 1) /\ j - 1 \in Nat /\ i - 1 \in Nat /\ (i - 1) + 1 = i
    BY <1>2, <1>8, <1>11
  <2>2. levels[i] = next(i - 1)
    BY <1>7, <2>1
  <2>3. w[i] = w[i - 1] \ next(i - 1)
    BY <1>3, <2>1
  <2>4. levels[j] \subseteq w[j - 1]
    BY <1>8
  <2>5. w[j - 1] \subseteq w[i]
    BY <1>4, <2>1
  <2>6. QED
    BY <2>2, <2>3, <2>4, <2>5
<1>12. \A i, j \in DOMAIN levels : i # j => levels[i] \cap levels[j] = {}
  <2> SUFFICES ASSUME NEW i \in 1..size, NEW j \in 1..size, i # j
               PROVE  levels[i] \cap levels[j] = {}
    BY <1>7
  <2>1. i < j \/ j < i
    BY <1>7
  <2>2. QED
    BY <1>11, <2>1
<1>13. ASSUME Acyclic(needs, installed), ids \subseteq I
       PROVE  \A i, j \in DOMAIN levels : \A p \in levels[i], q \in levels[j] :
                 p \in needs[q] => i < j
  <2>1. rest = {}
    <3>1. rest = w[n] /\ rest \in SUBSET I
      BY <1>1, <1>2, <1>3, <1>13
    <3>2. \A p \in rest : needs[p] \cap rest # {}
      BY <1>1, <1>6, <3>1
    <3> HIDE DEF I
    <3>3. QED
      BY <1>13, <3>1, <3>2, NoneBlocked DEF I
  <2> SUFFICES ASSUME NEW i \in 1..size, NEW j \in 1..size, NEW p \in levels[i], NEW q \in levels[j],
                      p \in needs[q], ~ (i < j)
               PROVE  FALSE
    BY <1>7
  <2>2. levels[j] = next(j - 1)
    BY <1>8, <2>1
  <2>3. j - 1 \in 0..(i - 1) /\ i - 1 \in Nat
    BY <1>2, <1>8
  <2>4. p \in w[i - 1] /\ w[i - 1] \subseteq w[j - 1]
    BY <1>4, <1>8, <2>3
  <2>5. QED
    BY <1>6, <2>2, <2>4
<1>14. QED
  BY <1>10, <1>12, <1>13, <1>7 DEF LevelsPrepare, levels

-----------------------------------------------------------------------------
\* All three, of one graph.
LEMMA AllServe ==
    ASSUME NEW P, NEW needs, NEW installed, Graph(P, needs, installed)
    PROVE  OrdersServe(needs, installed)
  BY ChainServes, CascadeServes, LevelsServe DEF OrdersServe

-----------------------------------------------------------------------------
\* Sequences.

\* A sequence holds its head and what its tail holds.
LEMMA HeadAndTail ==
    ASSUME NEW S, NEW s \in Seq(S), s # <<>>
    PROVE  /\ Head(s) \in S /\ Tail(s) \in Seq(S)
           /\ Head(s) \in Range(s) /\ Range(s) \subseteq S
           /\ Range(s) = {Head(s)} \cup Range(Tail(s))
<1>1. Len(s) \in Nat \ {0} /\ s \in [1..Len(s) -> S]
  BY EmptySeq, LenProperties, SeqDef
<1>2. /\ Head(s) = s[1] /\ Tail(s) \in Seq(S) /\ Len(Tail(s)) = Len(s) - 1
      /\ \A i \in 1..Len(Tail(s)) : Tail(s)[i] = s[i + 1]
  BY HeadTailProperties
<1>3. DOMAIN s = 1..Len(s) /\ DOMAIN Tail(s) = 1..Len(s) - 1
  BY <1>1, <1>2, LenProperties
<1>4. ASSUME NEW x \in Range(s)
      PROVE  x = Head(s) \/ x \in Range(Tail(s))
  <2>1. PICK i \in 1..Len(s) : x = s[i]
    BY <1>3 DEF Range
  <2>2. CASE i = 1
    BY <1>2, <2>1, <2>2
  <2>3. CASE i # 1
    <3>1. i - 1 \in DOMAIN Tail(s) /\ Tail(s)[i - 1] = s[i]
      BY <1>1, <1>2, <1>3, <2>3
    <3>2. QED
      BY <2>1, <3>1 DEF Range
  <2>4. QED
    BY <2>2, <2>3
<1>5. ASSUME NEW x \in Range(Tail(s))
      PROVE  x \in Range(s)
  <2>1. PICK i \in 1..Len(s) - 1 : x = Tail(s)[i]
    BY <1>3 DEF Range
  <2>2. i + 1 \in DOMAIN s /\ s[i + 1] = x
    BY <1>1, <1>2, <1>3, <2>1
  <2>3. QED
    BY <2>2 DEF Range
<1>6. Head(s) \in Range(s) /\ Head(s) \in S /\ Range(s) \subseteq S
  BY <1>1, <1>2, <1>3 DEF Range
<1>7. QED
  BY <1>2, <1>4, <1>5, <1>6

\* What is appended is held, and nothing else is new.
LEMMA AppendedRange ==
    ASSUME NEW S, NEW s \in Seq(S), NEW e \in S
    PROVE  Append(s, e) \in Seq(S) /\ Range(Append(s, e)) = Range(s) \cup {e}
<1>1. /\ Append(s, e) \in Seq(S) /\ Len(Append(s, e)) = Len(s) + 1 /\ Len(s) \in Nat
      /\ \A i \in 1..Len(s) : Append(s, e)[i] = s[i]
      /\ Append(s, e)[Len(s) + 1] = e
  BY AppendProperties, LenProperties
<1>2. DOMAIN s = 1..Len(s) /\ DOMAIN Append(s, e) = 1..Len(s) + 1
  BY <1>1, LenProperties
<1>3. ASSUME NEW x \in Range(s)
      PROVE  x \in Range(Append(s, e))
  <2>1. PICK i \in 1..Len(s) : x = s[i]
    BY <1>2 DEF Range
  <2>2. i \in DOMAIN Append(s, e) /\ Append(s, e)[i] = x
    BY <1>1, <1>2, <2>1
  <2>3. QED
    BY <2>2 DEF Range
<1>4. ASSUME NEW x \in Range(Append(s, e))
      PROVE  x \in Range(s) \cup {e}
  <2>1. PICK i \in 1..Len(s) + 1 : x = Append(s, e)[i]
    BY <1>2 DEF Range
  <2>2. CASE i = Len(s) + 1
    BY <1>1, <2>1, <2>2
  <2>3. CASE i # Len(s) + 1
    BY <1>1, <1>2, <2>1, <2>3 DEF Range
  <2>4. QED
    BY <2>2, <2>3
<1>5. e \in Range(Append(s, e))
  BY <1>1, <1>2 DEF Range
<1>6. QED
  BY <1>1, <1>3, <1>4, <1>5

\* A reversed sequence holds the same.
LEMMA ReversedRange ==
    ASSUME NEW S, NEW s \in Seq(S)
    PROVE  Reverse(s) \in Seq(S) /\ Range(Reverse(s)) = Range(s)
<1>1. Len(s) \in Nat /\ s \in [1..Len(s) -> S] /\ DOMAIN s = 1..Len(s)
  BY LenProperties, SeqDef
<1>2. \A i \in 1..Len(s) : (Len(s) - i) + 1 \in 1..Len(s)
  BY <1>1
<1>3. Reverse(s) = [i \in 1..Len(s) |-> s[(Len(s) - i) + 1]]
  BY DEF Reverse
<1>4. Reverse(s) \in [1..Len(s) -> S]
  BY <1>1, <1>2, <1>3
<1>5. Reverse(s) \in Seq(S)
  BY <1>1, <1>4, SeqDef
<1>6. ASSUME NEW x \in Range(s)
      PROVE  x \in Range(Reverse(s))
  <2>1. PICK i \in 1..Len(s) : x = s[i]
    BY <1>1 DEF Range
  <2>2. (Len(s) - ((Len(s) - i) + 1)) + 1 = i
    BY <1>1
  <2>3. Reverse(s)[(Len(s) - i) + 1] = x
    BY <1>2, <1>3, <2>1, <2>2
  <2>4. QED
    BY <1>2, <1>3, <2>3 DEF Range
<1>7. ASSUME NEW x \in Range(Reverse(s))
      PROVE  x \in Range(s)
  <2>1. PICK i \in 1..Len(s) : x = Reverse(s)[i]
    BY <1>3 DEF Range
  <2>2. x = s[(Len(s) - i) + 1]
    BY <1>3, <2>1
  <2>3. QED
    BY <1>1, <1>2, <2>2 DEF Range
<1>8. QED
  BY <1>5, <1>6, <1>7

\* An order taken one by one has a level for each of its plugins.
LEMMA OneByOneLevels ==
    ASSUME NEW S, NEW s \in Seq(S)
    PROVE  /\ OneByOne(s) \in Seq(SUBSET S)
           /\ DOMAIN OneByOne(s) = DOMAIN s
           /\ \A i \in DOMAIN s : OneByOne(s)[i] = {s[i]}
           /\ \A x : (\E i \in DOMAIN OneByOne(s) : x \in OneByOne(s)[i]) <=> x \in Range(s)
<1>1. Len(s) \in Nat /\ s \in [1..Len(s) -> S] /\ DOMAIN s = 1..Len(s)
  BY LenProperties, SeqDef
<1>2. OneByOne(s) = [i \in 1..Len(s) |-> {s[i]}]
  BY <1>1 DEF OneByOne
<1>3. OneByOne(s) \in [1..Len(s) -> SUBSET S]
  BY <1>1, <1>2
<1>4. OneByOne(s) \in Seq(SUBSET S)
  BY <1>1, <1>3, SeqDef
<1>5. QED
  BY <1>1, <1>2, <1>4 DEF Range

-----------------------------------------------------------------------------
\* Types, and what each action does to the task that takes it.

\* A task's fields.
LEMMA TaskType ==
    ASSUME TypeOK, NEW t \in Everyone
    PROVE  /\ task[t] \in TaskRecords
           /\ task[t].do \in Operations /\ task[t].at \in Points
           /\ task[t].id \in Plugins \cup {Nobody} /\ task[t].levels \in Seq(SUBSET Plugins)
           /\ task[t].doing \in [Plugins -> {"no", "load", "activate"}]
           /\ task[t].stops \in Seq(Plugins) /\ task[t].did \in Seq(Plugins)
           /\ task[t].gen \in Versions /\ task[t].rev \in Nat /\ task[t].published \in Nat
  BY DEF TypeOK, TaskRecords

\* No version, and the versions there are.
LEMMA ZeroType ==
    /\ 0 \in 0 .. MaxVersion /\ 1 \in 0 .. MaxVersion /\ MaxVersion \in Nat
    /\ {MaxOps, MaxChanges, MaxFaults} \subseteq Nat
    /\ Needs \in [Plugins -> SUBSET Plugins]
    /\ Coordinator \notin Tasks /\ Coordinator \in Everyone /\ Tasks \subseteq Everyone
    /\ \A t \in Everyone : t = Coordinator \/ t \in Tasks
  BY PluginLifecycleAssumption DEF Everyone

\* A task that does nothing.
LEMMA IdleType ==
    /\ Idle \in TaskRecords
    /\ Idle.do = "none" /\ Idle.at = "none" /\ Idle.id = Nobody /\ Idle.levels = <<>>
    /\ Idle.stops = <<>> /\ Idle.did = <<>> /\ Idle.rev = 0 /\ Idle.published = 0
    /\ \A p \in Plugins : Idle.doing[p] = "no"
<1>1. [p \in Plugins |-> "no"] \in [Plugins -> {"no", "load", "activate"}]
  OBVIOUS
<1>2. [p \in Plugins |-> 0] \in Versions
  BY ZeroType DEF Versions
<1>3. <<>> \in Seq(Plugins) /\ <<>> \in Seq(SUBSET Plugins)
  OBVIOUS
<1>4. "none" \in Operations /\ "none" \in Points
  BY DEF Operations, Points
<1>5. Idle \in TaskRecords
  BY <1>1, <1>2, <1>3, <1>4 DEF Idle, TaskRecords
<1>6. QED
  BY <1>5 DEF Idle

\* The tasks but t are as they were.
Others(t) == task' \in [Everyone -> TaskRecords] /\ \A u \in Everyone \ {t} : task'[u] = task[u]

LEMMA Becomes ==
    ASSUME TypeOK, NEW t \in Everyone, NEW r \in TaskRecords, task' = [task EXCEPT ![t] = r]
    PROVE  Others(t) /\ task'[t] = r
  BY DEF TypeOK, Others

\* The task ends.
LEMMA EndsEffect ==
    ASSUME TypeOK, NEW t \in Everyone, NEW how, Ends(t, how)
    PROVE  /\ Others(t) /\ task'[t] = Idle
           /\ outcome' \in [do : Operations, id : Plugins \cup {Nobody}, ok : BOOLEAN]
<1>1. task' = [task EXCEPT ![t] = Idle]
  BY DEF Ends
<1>2. Others(t) /\ task'[t] = Idle
  BY <1>1, IdleType, Becomes
<1>3. outcome \in [do : Operations, id : Plugins \cup {Nobody}, ok : BOOLEAN]
  BY DEF TypeOK
<1>4. (how = "ok") \in BOOLEAN
  OBVIOUS
<1>5. QED
  BY <1>2, <1>3, <1>4, TaskType DEF Ends

\* The fields of a task but at are as they were.
OnlyMoves(t, to) ==
    /\ Others(t)
    /\ task'[t].do = task[t].do /\ task'[t].id = task[t].id /\ task'[t].at = to
    /\ task'[t].levels = task[t].levels /\ task'[t].doing = task[t].doing
    /\ task'[t].stops = task[t].stops /\ task'[t].gen = task[t].gen /\ task'[t].did = task[t].did
    /\ task'[t].rev = task[t].rev /\ task'[t].published = task[t].published

LEMMA MovesEffect ==
    ASSUME TypeOK, NEW t \in Everyone, NEW to \in Points, task' = [task EXCEPT ![t].at = to]
    PROVE  OnlyMoves(t, to)
<1> DEFINE r == [task[t] EXCEPT !.at = to]
<1>1. task' = [task EXCEPT ![t] = r]
  BY TaskType DEF TypeOK, TaskRecords
<1>2. /\ r \in TaskRecords /\ r.do = task[t].do /\ r.id = task[t].id /\ r.at = to
      /\ r.levels = task[t].levels /\ r.doing = task[t].doing
      /\ r.stops = task[t].stops /\ r.gen = task[t].gen /\ r.did = task[t].did
      /\ r.rev = task[t].rev /\ r.published = task[t].published
  BY TaskType DEF TaskRecords
<1> HIDE DEF r
<1>3. Others(t) /\ task'[t] = r
  BY <1>1, <1>2, Becomes
<1>4. QED
  BY <1>2, <1>3 DEF OnlyMoves

\* The task goes on to stop some plugins.
LEMMA StopsEffect ==
    ASSUME TypeOK, NEW t \in Everyone, NEW to \in Points, NEW s \in Seq(Plugins),
           task' = [task EXCEPT ![t].at = to, ![t].stops = s]
    PROVE  /\ Others(t)
           /\ task'[t].do = task[t].do /\ task'[t].id = task[t].id /\ task'[t].at = to
           /\ task'[t].levels = task[t].levels /\ task'[t].doing = task[t].doing
           /\ task'[t].stops = s /\ task'[t].gen = task[t].gen /\ task'[t].did = task[t].did
           /\ task'[t].rev = task[t].rev /\ task'[t].published = task[t].published
<1> DEFINE r == [task[t] EXCEPT !.at = to, !.stops = s]
<1>1. task' = [task EXCEPT ![t] = r]
  BY TaskType DEF TypeOK, TaskRecords
<1>2. /\ r \in TaskRecords /\ r.do = task[t].do /\ r.id = task[t].id /\ r.at = to
      /\ r.levels = task[t].levels /\ r.doing = task[t].doing
      /\ r.stops = s /\ r.gen = task[t].gen /\ r.did = task[t].did
      /\ r.rev = task[t].rev /\ r.published = task[t].published
  BY TaskType DEF TaskRecords
<1> HIDE DEF r
<1>3. Others(t) /\ task'[t] = r
  BY <1>1, <1>2, Becomes
<1>4. QED
  BY <1>2, <1>3

\* The task goes on to activate some levels.
LEMMA LevelsEffect ==
    ASSUME TypeOK, NEW t \in Everyone, NEW l \in Seq(SUBSET Plugins),
           task' = [task EXCEPT ![t].at = "activate", ![t].levels = l]
    PROVE  /\ Others(t)
           /\ task'[t].do = task[t].do /\ task'[t].id = task[t].id /\ task'[t].at = "activate"
           /\ task'[t].levels = l /\ task'[t].doing = task[t].doing
           /\ task'[t].stops = task[t].stops /\ task'[t].gen = task[t].gen /\ task'[t].did = task[t].did
           /\ task'[t].rev = task[t].rev /\ task'[t].published = task[t].published
<1> DEFINE r == [task[t] EXCEPT !.at = "activate", !.levels = l]
<1>1. task' = [task EXCEPT ![t] = r]
  BY TaskType DEF TypeOK, TaskRecords
<1>2. /\ r \in TaskRecords /\ r.do = task[t].do /\ r.id = task[t].id /\ r.at = "activate"
      /\ r.levels = l /\ r.doing = task[t].doing
      /\ r.stops = task[t].stops /\ r.gen = task[t].gen /\ r.did = task[t].did
      /\ r.rev = task[t].rev /\ r.published = task[t].published
  BY TaskType DEF TaskRecords, Points
<1> HIDE DEF r
<1>3. Others(t) /\ task'[t] = r
  BY <1>1, <1>2, Becomes
<1>4. QED
  BY <1>2, <1>3

\* The plugins of the next level that are loaded.
Taken(t) == {p \in Head(task[t].levels) :
                /\ store[p] # 0
                /\ Enabling(t) => ~(status[p] = "enabled" /\ active[p] # 0)}

LEMMA NextLevelEffect ==
    ASSUME TypeOK, NEW t \in Everyone, NextLevel(t)
    PROVE  /\ Others(t)
           /\ task'[t].do = task[t].do /\ task'[t].id = task[t].id /\ task'[t].at = "activate"
           /\ task'[t].levels = Tail(task[t].levels) /\ task'[t].stops = task[t].stops
           /\ task'[t].did = task[t].did /\ task'[t].rev = task[t].rev
           /\ task'[t].published = task[t].published
           /\ \A p \in Plugins : /\ task'[t].doing[p] = IF p \in Taken(t) THEN "load" ELSE "no"
                                 /\ p \in Taken(t) => task'[t].gen[p] = store[p]
<1> DEFINE l == Tail(task[t].levels)
           d == [p \in Plugins |-> IF p \in Taken(t) THEN "load" ELSE "no"]
           g == [p \in Plugins |-> IF p \in Taken(t) THEN store[p] ELSE 0]
           r == [task[t] EXCEPT !.levels = l, !.doing = d, !.gen = g]
<1>1. task' = [task EXCEPT ![t].levels = l, ![t].doing = d, ![t].gen = g]
  BY DEF NextLevel, Taken
<1>2. l \in Seq(SUBSET Plugins)
  BY TaskType, HeadAndTail DEF NextLevel
<1>3. d \in [Plugins -> {"no", "load", "activate"}]
  OBVIOUS
<1>4. g \in Versions
  BY ZeroType DEF TypeOK, Versions
<1>5. /\ \A p \in Plugins : d[p] = IF p \in Taken(t) THEN "load" ELSE "no"
      /\ \A p \in Plugins : p \in Taken(t) => g[p] = store[p]
  OBVIOUS
<1> HIDE DEF l, d, g
<1>6. task' = [task EXCEPT ![t] = r]
  BY <1>1, TaskType DEF TypeOK, TaskRecords
<1>7. /\ r \in TaskRecords /\ r.do = task[t].do /\ r.id = task[t].id /\ r.at = task[t].at
      /\ r.levels = l /\ r.doing = d /\ r.stops = task[t].stops /\ r.gen = g
      /\ r.did = task[t].did /\ r.rev = task[t].rev /\ r.published = task[t].published
  BY <1>2, <1>3, <1>4, TaskType DEF TaskRecords
<1> HIDE DEF r
<1>8. Others(t) /\ task'[t] = r
  BY <1>6, <1>7, Becomes
<1>9. task[t].at = "activate"
  BY DEF NextLevel
<1>10. QED
  BY <1>5, <1>7, <1>8, <1>9 DEF l

\* An activation that fails ends an enable, which undoes what it did, and not a reload.
LEMMA UndoingEffect ==
    ASSUME TypeOK, NEW t \in Everyone, NEW p \in Plugins, Undoing(t, p)
    PROVE  /\ Others(t)
           /\ task'[t].do = task[t].do /\ task'[t].id = task[t].id
           /\ task'[t].doing[p] = "no"
           /\ \A q \in Plugins \ {p} : task'[t].doing[q] = task[t].doing[q]
           /\ task'[t].gen = task[t].gen /\ task'[t].did = task[t].did
           /\ task'[t].rev = task[t].rev /\ task'[t].published = task[t].published
           /\ ~Enabling(t) => /\ task'[t].at = task[t].at /\ task'[t].levels = task[t].levels
                              /\ task'[t].stops = task[t].stops
           /\ Enabling(t) => /\ task'[t].at = "undo" /\ task'[t].levels = <<>>
                             /\ task'[t].stops = Reverse(task[t].did)
<1> DEFINE d == [task[t].doing EXCEPT ![p] = "no"]
           a == IF Enabling(t) THEN "undo" ELSE task[t].at
           l == IF Enabling(t) THEN <<>> ELSE task[t].levels
           s == IF Enabling(t) THEN Reverse(task[t].did) ELSE task[t].stops
           r == [task[t] EXCEPT !.doing = d, !.at = a, !.levels = l, !.stops = s]
<1>1. task' = [task EXCEPT ![t].doing[p] = "no", ![t].at = a, ![t].levels = l, ![t].stops = s]
  BY TaskType DEF Undoing, TypeOK, TaskRecords
<1>2. a \in Points /\ l \in Seq(SUBSET Plugins)
  BY TaskType DEF Points
<1>3. s \in Seq(Plugins)
  BY TaskType, ReversedRange
<1>4. d \in [Plugins -> {"no", "load", "activate"}]
  BY TaskType
<1>5. d[p] = "no" /\ \A q \in Plugins \ {p} : d[q] = task[t].doing[q]
  BY TaskType
<1>6. /\ ~Enabling(t) => a = task[t].at /\ l = task[t].levels /\ s = task[t].stops
      /\ Enabling(t) => a = "undo" /\ l = <<>> /\ s = Reverse(task[t].did)
  OBVIOUS
<1> HIDE DEF a, l, s
<1>7. task' = [task EXCEPT ![t] = r]
  BY <1>1, TaskType DEF TypeOK, TaskRecords
<1> HIDE DEF d
<1>8. /\ r \in TaskRecords /\ r.do = task[t].do /\ r.id = task[t].id /\ r.at = a
      /\ r.levels = l /\ r.doing = d /\ r.stops = s /\ r.gen = task[t].gen
      /\ r.did = task[t].did /\ r.rev = task[t].rev /\ r.published = task[t].published
  BY <1>2, <1>3, <1>4, TaskType DEF TaskRecords
<1> HIDE DEF r
<1>9. Others(t) /\ task'[t] = r
  BY <1>7, <1>8, Becomes
<1>10. QED
  BY <1>5, <1>6, <1>8, <1>9

\* A plugin of the level comes further, or is done.
LEMMA DoingEffect ==
    ASSUME TypeOK, NEW t \in Everyone, NEW p \in Plugins, NEW s \in Seq(Plugins),
           NEW what \in {"no", "load", "activate"},
           task' = [task EXCEPT ![t].doing[p] = what, ![t].did = s]
    PROVE  /\ Others(t)
           /\ task'[t].do = task[t].do /\ task'[t].id = task[t].id /\ task'[t].at = task[t].at
           /\ task'[t].levels = task[t].levels /\ task'[t].stops = task[t].stops
           /\ task'[t].doing[p] = what
           /\ \A q \in Plugins \ {p} : task'[t].doing[q] = task[t].doing[q]
           /\ task'[t].gen = task[t].gen /\ task'[t].did = s
           /\ task'[t].rev = task[t].rev /\ task'[t].published = task[t].published
<1> DEFINE d == [task[t].doing EXCEPT ![p] = what]
           r == [task[t] EXCEPT !.doing = d, !.did = s]
<1>1. d \in [Plugins -> {"no", "load", "activate"}]
  BY TaskType
<1>2. d[p] = what /\ \A q \in Plugins \ {p} : d[q] = task[t].doing[q]
  BY TaskType
<1>3. task' = [task EXCEPT ![t] = r]
  BY TaskType DEF TypeOK, TaskRecords
<1> HIDE DEF d
<1>4. /\ r \in TaskRecords /\ r.do = task[t].do /\ r.id = task[t].id /\ r.at = task[t].at
      /\ r.levels = task[t].levels /\ r.doing = d /\ r.stops = task[t].stops
      /\ r.gen = task[t].gen /\ r.did = s
      /\ r.rev = task[t].rev /\ r.published = task[t].published
  BY <1>1, TaskType DEF TaskRecords
<1> HIDE DEF r
<1>5. Others(t) /\ task'[t] = r
  BY <1>3, <1>4, Becomes
<1>6. QED
  BY <1>2, <1>4, <1>5

LEMMA LoadEffect ==
    ASSUME TypeOK, NEW t \in Everyone, NEW p \in Plugins,
           task' = [task EXCEPT ![t].doing[p] = "activate"]
    PROVE  task' = [task EXCEPT ![t].doing[p] = "activate", ![t].did = task[t].did]
  BY TaskType DEF TypeOK, TaskRecords

\* A removal that has stopped a plugin goes on to the next, or waits.
LEMMA RemovedEffect ==
    ASSUME TypeOK, NEW t \in Everyone, Stopped(t), task[t].do = "remove"
    PROVE  /\ Others(t)
           /\ task'[t].do = "remove" /\ task'[t].id = task[t].id
           /\ task'[t].at = IF Tail(task[t].stops) = <<>> THEN "join" ELSE "read"
           /\ task'[t].levels = task[t].levels /\ task'[t].doing = task[t].doing
           /\ task'[t].stops = Tail(task[t].stops) /\ task'[t].gen = task[t].gen
           /\ task'[t].rev = task[t].rev /\ task'[t].published = task[t].published
<1> DEFINE s == Tail(task[t].stops)
           d == Append(task[t].did, Head(task[t].stops))
           a == IF Tail(task[t].stops) = <<>> THEN "join" ELSE "read"
           r == [task[t] EXCEPT !.stops = s, !.did = d, !.at = a]
<1>1. task' = [task EXCEPT ![t].stops = s, ![t].did = d, ![t].at = a]
  BY TaskType DEF Stopped, TypeOK, TaskRecords
<1>2. task[t].stops # <<>>
  BY DEF Stopped
<1>3. s \in Seq(Plugins) /\ d \in Seq(Plugins) /\ a \in Points
  BY <1>2, TaskType, HeadAndTail, AppendedRange DEF Points
<1>4. s = Tail(task[t].stops) /\ a = IF Tail(task[t].stops) = <<>> THEN "join" ELSE "read"
  OBVIOUS
<1> HIDE DEF s, d, a
<1>5. task' = [task EXCEPT ![t] = r]
  BY <1>1, TaskType DEF TypeOK, TaskRecords
<1>6. /\ r \in TaskRecords /\ r.do = task[t].do /\ r.id = task[t].id /\ r.at = a
      /\ r.levels = task[t].levels /\ r.doing = task[t].doing /\ r.stops = s
      /\ r.gen = task[t].gen
      /\ r.rev = task[t].rev /\ r.published = task[t].published
  BY <1>3, TaskType DEF TaskRecords
<1> HIDE DEF r
<1>7. Others(t) /\ task'[t] = r
  BY <1>5, <1>6, Becomes
<1>8. QED
  BY <1>4, <1>6, <1>7

\* Another operation that has stopped a plugin goes on to the next.
LEMMA StoppedEffect ==
    ASSUME TypeOK, NEW t \in Everyone, Stopped(t), task[t].do # "remove"
    PROVE  /\ Others(t)
           /\ task'[t].do = task[t].do /\ task'[t].id = task[t].id
           /\ task'[t].at = IF task[t].at \in {"stop", "stopping"} THEN "stop" ELSE "undo"
           /\ task'[t].levels = task[t].levels /\ task'[t].doing = task[t].doing
           /\ task'[t].stops = Tail(task[t].stops) /\ task'[t].gen = task[t].gen
           /\ task'[t].did = task[t].did
           /\ task'[t].rev = task[t].rev /\ task'[t].published = task[t].published
<1> DEFINE s == Tail(task[t].stops)
           a == IF task[t].at \in {"stop", "stopping"} THEN "stop" ELSE "undo"
<1>1. task[t].stops # <<>>
  BY DEF Stopped
<1>2. s \in Seq(Plugins) /\ a \in Points
  BY <1>1, TaskType, HeadAndTail DEF Points
<1>3. task' = [task EXCEPT ![t].stops = s, ![t].at = a]
  BY TaskType DEF Stopped, TypeOK, TaskRecords
<1> HIDE DEF s, a
<1>4. task' = [task EXCEPT ![t].at = a, ![t].stops = s]
  BY <1>3, TaskType DEF TypeOK, TaskRecords
<1>5. QED
  BY <1>2, <1>4, StopsEffect DEF s, a

LEMMA ReadEffect ==
    ASSUME TypeOK, NEW t \in Everyone, ReadEnvironment(t)
    PROVE  /\ Others(t)
           /\ task'[t].do = task[t].do /\ task'[t].id = task[t].id /\ task'[t].at = "write"
           /\ task'[t].levels = task[t].levels /\ task'[t].doing = task[t].doing
           /\ task'[t].stops = task[t].stops /\ task'[t].gen = task[t].gen
           /\ task'[t].did = task[t].did /\ task'[t].published = task[t].published
<1> DEFINE r == [task[t] EXCEPT !.at = "write", !.rev = env.rev]
<1>1. task' = [task EXCEPT ![t] = r]
  BY TaskType DEF ReadEnvironment, TypeOK, TaskRecords
<1>2. env.rev \in Nat /\ "write" \in Points
  BY DEF TypeOK, Points
<1>3. /\ r \in TaskRecords /\ r.do = task[t].do /\ r.id = task[t].id /\ r.at = "write"
      /\ r.levels = task[t].levels /\ r.doing = task[t].doing
      /\ r.stops = task[t].stops /\ r.gen = task[t].gen /\ r.did = task[t].did
      /\ r.published = task[t].published
  BY <1>2, TaskType DEF TaskRecords
<1> HIDE DEF r
<1>4. Others(t) /\ task'[t] = r
  BY <1>1, <1>3, Becomes
<1>5. QED
  BY <1>3, <1>4

\* What a write leaves of the environment.
LEMMA WrittenEffect ==
    ASSUME TypeOK, NEW t \in Everyone, task[t].do \in {"enable", "disable", "remove"},
           task[t].do = "remove" => task[t].stops # <<>>, Accepted(t),
           task[t].do = "disable" => task[t].id \in Plugins
    PROVE  /\ Written(t) \in [rev : Nat, version : Versions, on : SUBSET Plugins]
           /\ Written(t).rev = env.rev + 1
           /\ \A p \in Written(t).on : Written(t).version[p] # 0
           /\ task[t].do = "enable" =>
                /\ Written(t).version = env.version
                /\ Written(t).on = env.on \cup Range(task[t].did)
           /\ task[t].do = "disable" => Written(t).version = env.version
           /\ task[t].do = "remove" =>
                /\ Written(t).version = [env.version EXCEPT ![Head(task[t].stops)] = 0]
                /\ Head(task[t].stops) \in Plugins
                /\ \A q \in Plugins \ {Head(task[t].stops)} :
                      env.version[q] # 0 => Head(task[t].stops) \notin Needs[q]
<1>1. /\ env \in [rev : Nat, version : Versions, on : SUBSET Plugins]
      /\ env.version \in Versions /\ env.version \in [Plugins -> 0 .. MaxVersion]
      /\ env.on \subseteq Plugins /\ env.rev \in Nat
      /\ \A p \in env.on : env.version[p] # 0
  BY DEF TypeOK, Versions
<1>n. env.rev + 1 \in Nat
  BY <1>1
<1>2. CASE task[t].do = "enable"
  <2> DEFINE on == env.on \cup Range(task[t].did)
  <2>1. /\ Range(task[t].did) \subseteq Plugins
        /\ \A p \in Range(task[t].did) : env.version[p] # 0
    BY TaskType, LenProperties, <1>2 DEF Range, Accepted
  <2>2. Written(t) = [env EXCEPT !.rev = env.rev + 1, !.on = on]
    BY <1>2 DEF Written
  <2>3. on \subseteq Plugins /\ \A p \in on : env.version[p] # 0
    BY <1>1, <2>1
  <2> HIDE DEF on
  <2>4. /\ Written(t) \in [rev : Nat, version : Versions, on : SUBSET Plugins]
        /\ Written(t).rev = env.rev + 1 /\ Written(t).version = env.version
        /\ Written(t).on = on
    BY <1>1, <1>n, <2>2, <2>3
  <2>5. QED
    BY <1>2, <2>3, <2>4 DEF on
<1>3. CASE task[t].do = "disable"
  <2>1. Written(t) = [env EXCEPT !.rev = env.rev + 1, !.on = env.on \ {task[t].id}]
    BY <1>3 DEF Written
  <2>2. /\ Written(t) \in [rev : Nat, version : Versions, on : SUBSET Plugins]
        /\ Written(t).rev = env.rev + 1 /\ Written(t).version = env.version
        /\ Written(t).on = env.on \ {task[t].id}
    BY <1>1, <1>n, <2>1
  <2>3. QED
    BY <1>1, <1>3, <2>2
<1>4. CASE task[t].do = "remove"
  <2> DEFINE h == Head(task[t].stops)
             on == env.on \ {h}
             version == [env.version EXCEPT ![h] = 0]
  <2>1. Written(t) = [env EXCEPT !.rev = env.rev + 1, !.on = on, !.version[h] = 0]
    BY <1>4 DEF Written
  <2>2. Written(t) = [env EXCEPT !.rev = env.rev + 1, !.on = on, !.version = version]
    BY <1>1, <2>1
  <2>3. h \in Plugins
    BY <1>4, TaskType, HeadAndTail
  <2>4. version \in Versions
    BY <1>1, ZeroType DEF Versions
  <2>5. on \subseteq Plugins /\ \A p \in on : version[p] # 0
    BY <1>1
  <2>6. \A q \in Plugins \ {h} : env.version[q] # 0 => h \notin Needs[q]
    BY <1>4 DEF Accepted
  <2> HIDE DEF on, version, h
  <2>7. /\ Written(t) \in [rev : Nat, version : Versions, on : SUBSET Plugins]
        /\ Written(t).rev = env.rev + 1 /\ Written(t).version = version
        /\ Written(t).on = on
    BY <1>1, <1>n, <2>2, <2>4, <2>5
  <2>8. QED
    BY <1>4, <2>3, <2>5, <2>6, <2>7 DEF version, h
<1>5. QED
  BY <1>2, <1>3, <1>4

LEMMA WriteEffect ==
    ASSUME TypeOK, NEW t \in Everyone, Write(t), env'.rev \in Nat
    PROVE  /\ Others(t)
           /\ task'[t].do = task[t].do /\ task'[t].id = task[t].id
           /\ task'[t].at = IF task[t].do = "remove" THEN "stop" ELSE "join"
           /\ task'[t].levels = task[t].levels /\ task'[t].doing = task[t].doing
           /\ task'[t].stops = task[t].stops /\ task'[t].gen = task[t].gen
           /\ task'[t].did = task[t].did /\ task'[t].published = env'.rev
<1> DEFINE a == IF task[t].do = "remove" THEN "stop" ELSE "join"
           n == env'.rev
           r == [task[t] EXCEPT !.at = a, !.published = n]
<1>1. task' = [task EXCEPT ![t] = r]
  BY TaskType DEF Write, TypeOK, TaskRecords
<1>2. a \in Points /\ n \in Nat
  BY DEF Points
<1> HIDE DEF a, n
<1>3. /\ r \in TaskRecords /\ r.do = task[t].do /\ r.id = task[t].id /\ r.at = a
      /\ r.levels = task[t].levels /\ r.doing = task[t].doing
      /\ r.stops = task[t].stops /\ r.gen = task[t].gen /\ r.did = task[t].did
      /\ r.published = n
  BY <1>2, TaskType DEF TaskRecords
<1> HIDE DEF r
<1>4. Others(t) /\ task'[t] = r
  BY <1>1, <1>3, Becomes
<1>5. QED
  BY <1>3, <1>4 DEF a, n

\* A removal that cannot go on waits for what it published.
LEMMA LeavesEffect ==
    ASSUME TypeOK, NEW t \in Everyone, task' = [task EXCEPT ![t].at = "join", ![t].failed = TRUE]
    PROVE  /\ Others(t)
           /\ task'[t].do = task[t].do /\ task'[t].id = task[t].id /\ task'[t].at = "join"
           /\ task'[t].levels = task[t].levels /\ task'[t].doing = task[t].doing
           /\ task'[t].stops = task[t].stops /\ task'[t].gen = task[t].gen
           /\ task'[t].did = task[t].did /\ task'[t].published = task[t].published
<1> DEFINE r == [task[t] EXCEPT !.at = "join", !.failed = TRUE]
<1>1. task' = [task EXCEPT ![t] = r]
  BY TaskType DEF TypeOK, TaskRecords
<1>2. /\ r \in TaskRecords /\ r.do = task[t].do /\ r.id = task[t].id /\ r.at = "join"
      /\ r.levels = task[t].levels /\ r.doing = task[t].doing
      /\ r.stops = task[t].stops /\ r.gen = task[t].gen /\ r.did = task[t].did
      /\ r.published = task[t].published
  BY TaskType DEF TaskRecords, Points
<1> HIDE DEF r
<1>3. Others(t) /\ task'[t] = r
  BY <1>1, <1>2, Becomes
<1>4. QED
  BY <1>2, <1>3

\* A task that begins.
LEMMA NewTask ==
    ASSUME NEW d \in Operations, NEW a \in Points, NEW i \in Plugins \cup {Nobody},
           NEW l \in Seq(SUBSET Plugins), NEW s \in Seq(Plugins), NEW n \in Nat, NEW r,
           \/ r = [Idle EXCEPT !.do = d, !.at = a, !.id = i, !.levels = l] /\ s = <<>> /\ n = 0
           \/ r = [Idle EXCEPT !.do = d, !.at = a, !.id = i, !.stops = s] /\ l = <<>> /\ n = 0
           \/ r = [Idle EXCEPT !.do = d, !.at = a, !.id = i] /\ l = <<>> /\ s = <<>> /\ n = 0
           \/ r = [Idle EXCEPT !.do = d, !.at = a, !.stops = s] /\ i = Nobody /\ l = <<>> /\ n = 0
           \/ r = [Idle EXCEPT !.do = d, !.at = a, !.stops = s, !.rev = n] /\ i = Nobody /\ l = <<>>
    PROVE  /\ r \in TaskRecords
           /\ r.do = d /\ r.at = a /\ r.id = i /\ r.levels = l /\ r.stops = s /\ r.rev = n
           /\ r.did = <<>> /\ r.published = 0 /\ \A p \in Plugins : r.doing[p] = "no"
<1>1. CASE r = [Idle EXCEPT !.do = d, !.at = a, !.id = i, !.levels = l] /\ s = <<>> /\ n = 0
  BY <1>1, IdleType DEF TaskRecords
<1>2. CASE r = [Idle EXCEPT !.do = d, !.at = a, !.id = i, !.stops = s] /\ l = <<>> /\ n = 0
  BY <1>2, IdleType DEF TaskRecords
<1>3. CASE r = [Idle EXCEPT !.do = d, !.at = a, !.id = i] /\ l = <<>> /\ s = <<>> /\ n = 0
  BY <1>3, IdleType DEF TaskRecords
<1>4. CASE /\ r = [Idle EXCEPT !.do = d, !.at = a, !.stops = s]
           /\ i = Nobody /\ l = <<>> /\ n = 0
  BY <1>4, IdleType DEF TaskRecords
<1>5. CASE r = [Idle EXCEPT !.do = d, !.at = a, !.stops = s, !.rev = n] /\ i = Nobody /\ l = <<>>
  BY <1>5, IdleType DEF TaskRecords
<1>6. QED
  BY <1>1, <1>2, <1>3, <1>4, <1>5

-----------------------------------------------------------------------------
\* The orders, of what a store holds.

NeedsClosed(S, needs) == \A p \in S : needs[p] \subseteq S

\* What is listed of some plugins is a graph with the dependencies.
LEMMA ListedIs ==
    ASSUME NEW S \in SUBSET Plugins
    PROVE  /\ Graph(Plugins, Needs, Listed(S))
           /\ Listed(S) \in Seq(Plugins) /\ Range(Listed(S)) = S
<1>1. /\ Needs \in [Plugins -> SUBSET Plugins]
      /\ Order \in Seq(Plugins) /\ IsInjective(Order) /\ Range(Order) = Plugins
  BY PluginLifecycleAssumption
<1>2. /\ Listed(S) \in Seq(S \cap Plugins)
      /\ Range(Listed(S)) = S \cap Range(Order)
      /\ IsInjective(Listed(S))
  BY <1>1, AmongFacts DEF Listed
<1>3. Listed(S) \in Seq(Plugins)
  BY <1>2
<1>4. QED
  BY <1>1, <1>2, <1>3 DEF Graph

LEMMA InStoreIs ==
    ASSUME NEW s
    PROVE  /\ Graph(Plugins, Needs, InStore(s))
           /\ InStore(s) \in Seq(Plugins) /\ Range(InStore(s)) = Present(s)
  BY ListedIs DEF Present, InStore

\* A chain is what its plugin reaches, if it is there.
LEMMA ChainReaches ==
    ASSUME NEW s, NEW p \in Plugins
    PROVE  /\ Chain(p, s) \in Seq(Present(s))
           /\ Range(Chain(p, s)) = IF p \in Present(s) THEN Reach({p}, Needs, InStore(s)) ELSE {}
<1> DEFINE installed == InStore(s)
<1>1. /\ Graph(Plugins, Needs, installed)
      /\ installed \in Seq(Plugins) /\ Range(installed) = Present(s)
  BY InStoreIs
<1> HIDE DEF installed
<1>2. Chain(p, s) = ActivationChain(p, Needs, installed)
  BY <1>1 DEF Chain, Chains, installed
<1>3. CASE p \in Present(s)
  BY <1>1, <1>3, ChainServes, <1>2 DEF ChainPrepares, installed
<1>4. CASE p \notin Present(s)
  BY <1>1, <1>2, <1>4 DEF ActivationChain, Range
<1>5. QED
  BY <1>3, <1>4

\* A chain holds its plugin if it is there, and the chains of what it holds.
LEMMA ChainHolds ==
    ASSUME NEW s, NEW p \in Plugins
    PROVE  /\ Chain(p, s) \in Seq(Plugins) /\ Range(Chain(p, s)) \subseteq Plugins
           /\ \A q \in Range(Chain(p, s)) : s[q] # 0
           /\ s[p] # 0 => p \in Range(Chain(p, s))
           /\ \A q \in Range(Chain(p, s)) : Range(Chain(q, s)) \subseteq Range(Chain(p, s))
           /\ \A S \in SUBSET Plugins :
                 p \in S /\ NeedsClosed(S, Needs) => Range(Chain(p, s)) \subseteq S
<1> DEFINE installed == InStore(s)
           I == Present(s)
<1>1. Range(installed) = I /\ I \subseteq Plugins
  BY InStoreIs DEF Present
<1>2. \A q \in Plugins : /\ Chain(q, s) \in Seq(I)
                         /\ Range(Chain(q, s)) = IF q \in I THEN Reach({q}, Needs, installed) ELSE {}
  BY ChainReaches
<1> HIDE DEF installed
<1>3. \A q \in I : {q} \subseteq Reach({q}, Needs, installed) /\ Reach({q}, Needs, installed) \subseteq I
  BY <1>1, ReachHolds
<1>4. Range(Chain(p, s)) \subseteq I
  BY <1>2, <1>3
<1>5. p \in I => p \in Range(Chain(p, s))
  BY <1>2, <1>3
<1>6. ASSUME NEW q \in Range(Chain(p, s))
      PROVE  Range(Chain(q, s)) \subseteq Range(Chain(p, s))
  <2>1. p \in I /\ q \in I /\ q \in Reach({p}, Needs, installed)
    BY <1>2, <1>4, <1>6
  <2>2. {p} \in SUBSET Range(installed) /\ {q} \in SUBSET Range(installed)
    BY <1>1, <2>1
  <2>3. Reach({q}, Needs, installed) \subseteq Reach({p}, Needs, installed)
    BY <2>1, <2>2, ReachGrows
  <2>4. q \in Plugins
    BY <1>1, <2>1
  <2>5. QED
    BY <1>2, <2>1, <2>3, <2>4
<1>7. ASSUME NEW S \in SUBSET Plugins, p \in S, NeedsClosed(S, Needs)
      PROVE  Range(Chain(p, s)) \subseteq S
  <2>1. CASE p \in I
    <3>1. S \cap I \in SUBSET Range(installed) /\ {p} \subseteq S \cap I /\ {p} \in SUBSET Range(installed)
      BY <1>1, <1>7, <2>1
    <3>2. Closed(S \cap I, Needs, installed)
      BY <1>1, <1>7 DEF Closed, NeedsClosed
    <3>3. Reach({p}, Needs, installed) \subseteq S \cap I
      BY <3>1, <3>2, ReachHolds
    <3>4. QED
      BY <1>2, <2>1, <3>3
  <2>2. CASE p \notin I
    BY <1>2, <2>2
  <2>3. QED
    BY <2>1, <2>2
<1>8. \A q \in I : s[q] # 0
  BY DEF Present
<1>9. s[p] # 0 => p \in I
  BY DEF Present
<1> HIDE DEF I
<1>10. Chain(p, s) \in Seq(Plugins)
  <2>1. Chain(p, s) \in Seq(I)
    BY <1>2
  <2>2. I \subseteq Plugins
    BY <1>1
  <2>3. QED
    BY <2>1, <2>2
<1>11. QED
  BY <1>1, <1>4, <1>5, <1>6, <1>7, <1>8, <1>9, <1>10

\* What is there is all a chain depends on.
LEMMA ChainFollows ==
    ASSUME NEW s, NEW z, \A p \in Plugins : s[p] # 0 <=> z[p] # 0
    PROVE  \A p : Chain(p, s) = Chain(p, z)
  BY DEF Present, Chain, InStore

\* A cascade holds all whose chain holds its target.
LEMMA CascadeHolds ==
    ASSUME NEW s, NEW p \in Plugins
    PROVE  /\ CascadeRemovalSet(p, Needs, InStore(s)) \in Seq(Plugins)
           /\ CascadeRemovalSet(p, Needs, InStore(s)) # <<>>
           /\ \A q \in Plugins : s[q] # 0 /\ p \in Range(Chain(q, s))
                 => q \in Range(CascadeRemovalSet(p, Needs, InStore(s)))
<1> DEFINE installed == InStore(s)
           cascade == CascadeRemovalSet(p, Needs, installed)
<1>1. Graph(Plugins, Needs, installed) /\ Range(installed) = Present(s) /\ Present(s) \subseteq Plugins
  BY InStoreIs DEF Present
<1> HIDE DEF installed
<1>2. cascade \in Seq(Plugins) /\ cascade # <<>>
  BY <1>1, CascadeIs
<1>3. ASSUME NEW q \in Plugins, s[q] # 0, p \in Range(Chain(q, s))
      PROVE  q \in Range(cascade)
  <2>1. q \in Present(s) /\ p \in Present(s)
    BY <1>3, ChainHolds DEF Present
  <2>2. p \in Reach({q}, Needs, installed)
    BY <1>3, <2>1, ChainReaches DEF installed
  <2>3. CascadeTakesAll(p, Needs, installed)
    BY <1>1, <2>1, CascadeServes
  <2>4. Range(cascade) = Dependents(p, Needs, installed) \cup {p}
    BY <2>3 DEF CascadeTakesAll
  <2>5. q \in Dependents(p, Needs, installed) \cup {p}
    BY <1>1, <2>1, <2>2 DEF Dependents
  <2>6. QED
    BY <2>4, <2>5
<1>4. QED
  BY <1>2, <1>3 DEF installed

\* The levels hold some of what they were asked for, each once.
LEMMA LevelsHold ==
    ASSUME NEW s, NEW ids \in SUBSET Plugins
    PROVE  /\ ActivationLevels(ids, Needs, InStore(s)) \in Seq(SUBSET ids)
           /\ ActivationLevels(ids, Needs, InStore(s)) \in Seq(SUBSET Plugins)
           /\ \A i, j \in DOMAIN ActivationLevels(ids, Needs, InStore(s)) : i # j =>
                 ActivationLevels(ids, Needs, InStore(s))[i] \cap ActivationLevels(ids, Needs, InStore(s))[j] = {}
           /\ \A i \in DOMAIN ActivationLevels(ids, Needs, InStore(s)) :
                 ActivationLevels(ids, Needs, InStore(s))[i] \subseteq ids
<1> DEFINE levels == ActivationLevels(ids, Needs, InStore(s))
           X == SUBSET (ids \cap Range(InStore(s)))
<1>1. levels \in Seq(X) /\ LevelsPrepare(ids, Needs, InStore(s))
  BY InStoreIs, LevelsServe
<1>2. \A i, j \in DOMAIN levels : i # j => levels[i] \cap levels[j] = {}
  BY <1>1 DEF LevelsPrepare
<1> HIDE DEF levels
<1>3. levels \in Seq(SUBSET ids) /\ levels \in Seq(SUBSET Plugins)
  <2>1. X \subseteq SUBSET ids /\ X \subseteq SUBSET Plugins
    OBVIOUS
  <2> HIDE DEF X
  <2>2. QED
    BY <1>1, <2>1
<1>4. \A i \in DOMAIN levels : levels[i] \in SUBSET ids
  BY <1>3, ElementOfSeq, LenProperties
<1>5. QED
  BY <1>2, <1>3, <1>4 DEF levels

\* A reload stops what runs.
LEMMA ActivesHold ==
    Actives \in Seq(Plugins) /\ \A p \in Plugins : active[p] # 0 => p \in Range(Actives)
  BY InStoreIs DEF Actives, Present

\* Of the graphs asked of, and of the window's own.
LEMMA AllOrdersServe ==
    OrdersPrepare
<1>1. ASSUME NEW g \in Graphs
      PROVE  OrdersServe(g.needs, g.installed)
  BY GraphsAssumption, AllServe DEF Graph
<1>2. ASSUME NEW g \in [needs : {Needs}, installed : {Listed(S) : S \in SUBSET Plugins}]
      PROVE  OrdersServe(g.needs, g.installed)
  <2>1. PICK S \in SUBSET Plugins : g.installed = Listed(S)
    OBVIOUS
  <2>2. g.needs = Needs
    OBVIOUS
  <2>3. Graph(Plugins, Needs, Listed(S))
    BY ListedIs
  <2>4. QED
    BY <2>1, <2>2, <2>3, AllServe
<1>3. QED
  BY <1>1, <1>2 DEF OrdersPrepare


-----------------------------------------------------------------------------
\* Who does what: where a task may be, that a person's operation is alone
\* until it writes, and which revisions the coordinator goes through.

\* A plugin is in a level still to come.
Ahead(t, p) == \E i \in DOMAIN task[t].levels : p \in task[t].levels[i]

Phased(t) ==
    \/ task[t].do = "none" /\ task[t].at = "none"
    \/ task[t].do = "enable" /\ task[t].at \in {"activate", "undo", "undoing", "read", "write", "join",
                                                "joined", "resumed", "rejected"}
    \/ task[t].do = "disable" /\ task[t].at \in {"read", "write", "join", "joined", "resumed",
                                                 "rejected", "stop", "stopping"}
    \/ task[t].do = "remove" /\ task[t].at \in {"read", "write", "stop", "stopping", "join", "joined",
                                                "resumed", "rejected"}
    \/ task[t].do = "reloadOne" /\ task[t].at \in {"fetch", "stop", "stopping", "activate", "undo",
                                                   "undoing"}
    \/ task[t].do = "reload" /\ task[t].at \in {"stop", "stopping", "activate"}
    \/ task[t].do = "revoke" /\ task[t].at \in {"stop", "stopping"}

\* What has been written, before and after.
Unpublished(t) ==
    \/ task[t].do \in {"reload", "reloadOne", "revoke"} \/ task[t].at = "activate"
    \/ task[t].do \in {"enable", "disable"} /\ task[t].at \in {"read", "write"}
Published(t) ==
    \/ task[t].at \in {"join", "joined", "resumed", "rejected"}
    \/ task[t].do \in {"disable", "remove"} /\ task[t].at \in {"stop", "stopping"}

\* An enable has one plugin in hand; what is stopped is there.
Shaped(t) ==
    /\ task[t].do = "none" => task[t] = Idle
    /\ task[t].do \notin {"none", "reload"} => task[t].id \in Plugins
    /\ Phased(t)
    /\ task[t].at # "activate" => task[t].levels = <<>> /\ Busy(t) = {}
    /\ Enabling(t) => /\ \A p, q \in Busy(t) : p = q
                      /\ \A i \in DOMAIN task[t].levels : \A p, q \in task[t].levels[i] : p = q
    /\ Unpublished(t) => task[t].published = 0
    /\ Published(t) => task[t].published # 0
    /\ task[t].at \in {"stopping", "undoing"} => task[t].stops # <<>>
    /\ task[t].do = "remove" /\ task[t].at \in {"stop", "stopping", "read", "write"}
          => task[t].stops # <<>>

\* Before it writes nothing else happens; what it writes is the last revision;
\* what waited for it goes on when the coordinator is done with it.
Solitary(t) ==
    task[t] # Idle =>
       /\ host = "ready"
       /\ \A u \in Tasks : task[u] # Idle => t = u
       /\ task[t].published = 0 => task[Coordinator] = Idle /\ events = {}
       /\ task[t].published # 0 => task[t].published = env.rev
       /\ task[t].at = "joined" => pending = env.rev
       /\ task[t].at = "resumed" \/ (task[t].do = "disable" /\ task[t].at \in {"stop", "stopping"})
             => task[Coordinator] = Idle /\ applied = env.rev

\* The coordinator reloads for a revision it has not applied, and reads no
\* earlier one; the last revision is announced, or it knows it.
Coordinating ==
    /\ task[Coordinator].do \in {"none", "reload"}
    /\ host \in {"start", "failed"} => task[Coordinator] = Idle
    /\ task[Coordinator].do = "reload" =>
          /\ task[Coordinator].rev <= pending
          /\ host = "ready" => applied < task[Coordinator].rev
          /\ host = "loading" => applied = task[Coordinator].rev
          /\ task[Coordinator].at = "activate" => task[Coordinator].rev <= read
    /\ host # "start" => env.rev \in events \/ pending = env.rev

Ordered == (\A t \in Everyone : Shaped(t)) /\ (\A t \in Tasks : Solitary(t)) /\ Coordinating

Control == TypeOK /\ Ordered

\* Only the coordinator reloads as a matter of course: the rest a person asked for.
LEMMA Whose ==
    ASSUME Control, NEW t \in Everyone
    PROVE  /\ task[t].do \notin {"none", "reload"} => t \in Tasks
           /\ task[t].at \notin {"none", "stop", "stopping", "activate"} => t \in Tasks
           /\ task[t].do # "none" <=> task[t] # Idle
           /\ task[t].do = "none" <=> task[t].at = "none"
           /\ t # Coordinator => t \in Tasks
           /\ t \in Tasks => t # Coordinator
  BY ZeroType, IdleType DEF Control, Ordered, Shaped, Phased, Coordinating

\* A step of a task that neither ends nor waits for the coordinator.
Proceeds(t) ==
    /\ Others(t) /\ task[t].do # "none"
    /\ env' = env /\ events' = events /\ host' = host /\ applied' = applied /\ pending' = pending
    /\ \/ read' = read
       \/ read' = env.rev /\ t = Coordinator
       \/ t \in Tasks /\ task[t].published = 0
    /\ Shaped(t)' /\ task'[t].do = task[t].do /\ task'[t].published = task[t].published
    /\ task'[t].at \notin {"joined", "resumed"}
    /\ task[t].do = "disable" /\ task'[t].at \in {"stop", "stopping"}
          => task[Coordinator] = Idle /\ applied = env.rev
    /\ t = Coordinator => /\ task'[t].rev = task[t].rev
                          /\ task'[t].at = "activate" => task[t].rev <= read'

LEMMA StepOrdered ==
    ASSUME Control, NEW t \in Everyone, Proceeds(t)
    PROVE  Ordered'
<1> USE DEF Proceeds
<1>1. \A u \in Everyone : Shaped(u)'
  BY DEF Control, Ordered, Others, Shaped, Phased, Busy, Enabling, Unpublished, Published
<1>2. task[t] # Idle /\ task'[t] # Idle
  BY Whose, IdleType
<1>3. ASSUME NEW u \in Tasks
      PROVE  Solitary(u)'
  <2>1. u \in Everyone /\ Coordinator \in Everyone /\ u # Coordinator
    BY ZeroType
  <2>2. CASE t = Coordinator
    BY <1>2, <2>1, <2>2, ZeroType DEF Others, Control, Ordered, Solitary
  <2>3. CASE t \in Tasks /\ u = t
    BY <2>1, <2>3, ZeroType, <1>2 DEF Others, Control, Ordered, Solitary
  <2>4. CASE t \in Tasks /\ u # t
    BY <2>1, <2>4, <1>2 DEF Others, Control, Ordered, Solitary
  <2>5. QED
    BY <2>2, <2>3, <2>4, ZeroType
<1>4. Coordinating'
  <2>1. CASE t = Coordinator
    BY <1>2, <2>1 DEF Control, Ordered, Coordinating
  <2>2. CASE t \in Tasks
    BY <2>2, ZeroType, <1>2, IdleType DEF Others, Control, Ordered, Solitary, Coordinating
  <2>3. QED
    BY <2>1, <2>2, ZeroType
<1>5. QED
  BY <1>1, <1>3, <1>4 DEF Ordered

\* An operation of a person that ends.
LEMMA EndOrdered ==
    ASSUME Control, NEW t \in Tasks, Others(t), task'[t] = Idle, task[t] # Idle,
           UNCHANGED <<env, events, host, applied, pending, read>>
    PROVE  Ordered'
<1>1. \A u \in Everyone : Shaped(u)'
  BY IdleType DEF Control, Ordered, Others, Shaped, Phased, Busy, Enabling, Unpublished,
     Published
<1>2. \A u \in Tasks : task'[u] = Idle
  BY ZeroType DEF Control, Ordered, Solitary, Others
<1>3. task'[Coordinator] = task[Coordinator]
  BY ZeroType DEF Others
<1>4. QED
  BY <1>1, <1>2, <1>3 DEF Control, Ordered, Solitary, Coordinating

\* What is left of the types when a task has moved.
Kept == UNCHANGED <<env, events, host, applied, pending, store, consents, active, status, enabledIds,
                    registered, realms, read, unlisted, outcome, ops, changes, faults>>

LEMMA KeptType ==
    ASSUME TypeOK, NEW t, Others(t), Kept
    PROVE  TypeOK'
  BY DEF TypeOK, Others, Kept, Versions

LEMMA FailsType ==
    ASSUME TypeOK, NEW k, Fails(k)
    PROVE  faults' \in 0 .. MaxFaults
  BY ZeroType DEF Fails, TypeOK

LEMMA NextLevelControl ==
    ASSUME Control, NEW t \in Everyone, NextLevel(t)
    PROVE  Control'
<1>1. TypeOK /\ Shaped(t) /\ task[t].at = "activate" /\ task[t].levels # <<>>
  BY DEF Control, Ordered, NextLevel
<1>2. TypeOK'
  BY <1>1, NextLevelEffect, KeptType DEF NextLevel, Kept, announced, applying, shown, running,
     listing, bounds
<1>3. Shaped(t)'
  <2>1. task[t].levels \in Seq(SUBSET Plugins)
    BY <1>1, TaskType
  <2>2. /\ DOMAIN Tail(task[t].levels) = 1 .. Len(task[t].levels) - 1
        /\ \A i \in DOMAIN Tail(task[t].levels) :
              i + 1 \in DOMAIN task[t].levels /\ Tail(task[t].levels)[i] = task[t].levels[i + 1]
        /\ 1 \in DOMAIN task[t].levels /\ Head(task[t].levels) = task[t].levels[1]
    BY <1>1, <2>1, HeadTailProperties, LenProperties, EmptySeq
  <2>3. /\ Enabling(t)' <=> Enabling(t)
        /\ Busy(t)' = Taken(t) \cap Plugins
    BY <1>1, NextLevelEffect DEF Enabling, Busy
  <2>4. Enabling(t) => \A p, q \in Taken(t) : p = q
    BY <1>1, <2>2 DEF Shaped, Taken
  <2>5. Enabling(t) => \A i \in DOMAIN task'[t].levels : \A p, q \in task'[t].levels[i] : p = q
    <3>1. task'[t].levels = Tail(task[t].levels)
      BY <1>1, NextLevelEffect
    <3>2. Enabling(t) => \A i \in DOMAIN task[t].levels : \A p, q \in task[t].levels[i] : p = q
      BY <1>1 DEF Shaped
    <3>3. QED
      BY <2>2, <3>1, <3>2
  <2>6. task[t].do # "none"
    BY <1>1 DEF Shaped, Phased
  <2>7. QED
    BY <1>1, <2>3, <2>4, <2>5, <2>6, NextLevelEffect DEF Shaped, Phased, Unpublished, Published
<1>4. Ordered'
  <2>1. /\ env' = env /\ events' = events /\ host' = host /\ applied' = applied
        /\ pending' = pending /\ read' = read
    BY DEF NextLevel, announced, applying, listing
  <2>2. task[t].do # "none"
    BY <1>1, Whose
  <2>3. t = Coordinator => task[t].rev <= read'
    BY <1>1, <2>1, <2>2 DEF Control, Ordered, Coordinating
  <2>4. Proceeds(t)
    BY <1>1, <1>3, <2>1, <2>2, <2>3, NextLevelEffect DEF Proceeds
  <2>5. QED
    BY <2>4, StepOrdered
<1>5. QED
  BY <1>2, <1>4 DEF Control

\* The step of a task that is in hand of a plugin.
LEMMA HandOrdered ==
    ASSUME Control, NEW t \in Everyone, Others(t), task[t].at = "activate",
           env' = env, events' = events, host' = host, applied' = applied, pending' = pending,
           read' = read,
           task'[t].do = task[t].do, task'[t].id = task[t].id, task'[t].rev = task[t].rev,
           task'[t].published = task[t].published,
           \A p \in Plugins : task'[t].doing[p] # "no" => task[t].doing[p] # "no",
           task'[t].levels = task[t].levels \/ task'[t].levels = <<>>,
           \/ task'[t].at = "activate"
           \/ /\ Enabling(t) /\ task'[t].levels = <<>> /\ Busy(t)' = {}
              /\ task'[t].at = "undo" \/ (task[t].do = "enable" /\ task'[t].at = "read")
    PROVE  Ordered'
<1>1. Shaped(t) /\ task[t].do # "none"
  BY Whose DEF Control, Ordered
<1>2. Enabling(t) => t \in Tasks
  BY Whose DEF Enabling
<1>3. Busy(t)' \subseteq Busy(t) /\ (Enabling(t)' <=> Enabling(t))
  BY DEF Busy, Enabling
<1>4. task'[t].at \in {"undo", "read"} => task'[t].do \in {"enable", "reloadOne"} /\ task'[t].do # "reload"
  BY DEF Enabling
<1>5. QED
  <2>1. CASE task'[t].at = "activate"
    <3>1. Shaped(t)'
      BY <1>1, <1>3, <2>1 DEF Shaped, Phased, Unpublished, Published
    <3>2. t = Coordinator => task[t].rev <= read'
      BY <1>1 DEF Control, Ordered, Coordinating
    <3>3. Proceeds(t)
      BY <1>1, <2>1, <3>1, <3>2 DEF Proceeds
    <3>4. QED
      BY <3>3, StepOrdered
  <2>2. CASE task'[t].at = "undo"
    BY <1>1, <1>3, <1>4, <2>2, <1>2, Whose, StepOrdered DEF Shaped, Phased, Unpublished,
       Published, Proceeds
  <2>3. CASE task'[t].at = "read" /\ task[t].do = "enable" /\ Enabling(t) /\ Busy(t)' = {} /\ task'[t].levels = <<>>
    BY <1>1, <1>3, <2>3, <1>2, Whose, StepOrdered DEF Shaped, Phased, Unpublished, Published,
       Proceeds
  <2>4. QED
    BY <2>1, <2>2, <2>3

\* A plugin in hand: what a load, an activation or a failure leaves.
LEMMA UndoingControl ==
    ASSUME Control, NEW t \in Everyone, NEW p \in Plugins, Undoing(t, p), task[t].doing[p] # "no",
           env' = env, events' = events, host' = host, applied' = applied, pending' = pending,
           read' = read
    PROVE  Ordered' /\ Others(t) /\ status' \in [Plugins -> {"disabled", "enabled", "error"}]
<1>1. TypeOK /\ Shaped(t)
  BY DEF Control, Ordered
<1>2. task[t].at = "activate"
  BY <1>1 DEF Shaped, Busy
<1>3. Enabling(t) => Busy(t)' = {}
  BY <1>1, UndoingEffect DEF Shaped, Busy
<1>4. \A q \in Plugins : task'[t].doing[q] # "no" => task[t].doing[q] # "no"
  BY <1>1, UndoingEffect
<1>5. /\ Others(t) /\ task'[t].do = task[t].do /\ task'[t].id = task[t].id
      /\ task'[t].rev = task[t].rev /\ task'[t].published = task[t].published
      /\ task'[t].levels = task[t].levels \/ task'[t].levels = <<>>
      /\ \/ task'[t].at = "activate"
         \/ Enabling(t) /\ task'[t].levels = <<>> /\ Busy(t)' = {} /\ task'[t].at = "undo"
  BY <1>1, <1>2, <1>3, UndoingEffect
<1>6. Ordered'
  BY <1>2, <1>4, <1>5, HandOrdered
<1>7. status' \in [Plugins -> {"disabled", "enabled", "error"}]
  BY <1>1 DEF Undoing, TypeOK
<1>8. QED
  BY <1>5, <1>6, <1>7

LEMMA LoadControl ==
    ASSUME Control, NEW t \in Everyone, NEW p \in Plugins, Load(t, p)
    PROVE  Control'
<1>1. TypeOK /\ Shaped(t) /\ task[t].doing[p] = "load"
  BY DEF Control, Ordered, Load
<1>2. /\ env' = env /\ events' = events /\ host' = host /\ applied' = applied
      /\ pending' = pending /\ read' = read
  BY DEF Load, announced, applying, listing
<1>3. CASE p \in registered
  <2>1. Ordered' /\ Others(t) /\ status' \in [Plugins -> {"disabled", "enabled", "error"}]
    BY <1>1, <1>2, <1>3, UndoingControl DEF Load
  <2>2. realms' \subseteq Plugins /\ registered' \subseteq Plugins
    BY <1>1, <1>3 DEF Load, TypeOK
  <2>3. TypeOK'
    BY <1>1, <2>1, <2>2
    DEF Load, TypeOK, Others, announced, applying, listing, bounds, Versions
  <2>4. QED
    BY <2>1, <2>3 DEF Control
<1>4. CASE p \notin registered
  <2>1. task' = [task EXCEPT ![t].doing[p] = "activate", ![t].did = task[t].did]
    BY <1>1, <1>4, LoadEffect DEF Load
  <2>2. task[t].did \in Seq(Plugins)
    BY <1>1, TaskType
  <2>3. /\ Others(t) /\ task'[t].do = task[t].do /\ task'[t].id = task[t].id
        /\ task'[t].at = task[t].at /\ task'[t].levels = task[t].levels
        /\ \A q \in Plugins \ {p} : task'[t].doing[q] = task[t].doing[q]
        /\ task'[t].rev = task[t].rev /\ task'[t].published = task[t].published
    BY <1>1, <2>1, <2>2, DoingEffect, ZenonT(40)
  <2>4. \A q \in Plugins : task'[t].doing[q] # "no" => task[t].doing[q] # "no"
    BY <1>1, <2>3
  <2>5. task[t].at = "activate"
    BY <1>1 DEF Shaped, Busy
  <2>6. Ordered'
    BY <1>2, <2>3, <2>4, <2>5, HandOrdered
  <2>7. realms' \subseteq Plugins /\ registered' \subseteq Plugins
    BY <1>1, <1>4 DEF Load, TypeOK
  <2>8. TypeOK'
    BY <1>1, <1>4, <2>3, <2>7
    DEF Load, TypeOK, Others, announced, applying, listing, bounds, Versions
  <2>9. QED
    BY <2>6, <2>8 DEF Control
<1>5. QED
  BY <1>3, <1>4

LEMMA LoadFailsControl ==
    ASSUME Control, NEW t \in Everyone, NEW p \in Plugins, LoadFails(t, p)
    PROVE  Control'
<1>1. TypeOK /\ Shaped(t) /\ task[t].doing[p] = "load"
  BY DEF Control, Ordered, LoadFails
<1>2. /\ env' = env /\ events' = events /\ host' = host /\ applied' = applied
      /\ pending' = pending /\ read' = read
  BY DEF LoadFails, announced, applying, listing
<1>3. Ordered' /\ Others(t) /\ status' \in [Plugins -> {"disabled", "enabled", "error"}]
  BY <1>1, <1>2, UndoingControl DEF LoadFails
<1>4. faults' \in 0 .. MaxFaults
  BY <1>1, FailsType DEF LoadFails
<1>5. TypeOK'
  BY <1>1, <1>3, <1>4
  DEF LoadFails, TypeOK, Others, announced, applying, running, listing, Versions
<1>6. QED
  BY <1>3, <1>5 DEF Control

LEMMA ActivateFailsControl ==
    ASSUME Control, NEW t \in Everyone, NEW p \in Plugins, ActivateFails(t, p)
    PROVE  Control'
<1>1. TypeOK /\ Shaped(t) /\ task[t].doing[p] = "activate"
  BY DEF Control, Ordered, ActivateFails
<1>2. /\ env' = env /\ events' = events /\ host' = host /\ applied' = applied
      /\ pending' = pending /\ read' = read
  BY DEF ActivateFails, announced, applying, listing
<1>3. Ordered' /\ Others(t) /\ status' \in [Plugins -> {"disabled", "enabled", "error"}]
  BY <1>1, <1>2, UndoingControl DEF ActivateFails
<1>4. faults' \in 0 .. MaxFaults
  BY <1>1, FailsType DEF ActivateFails
<1>5. realms' \subseteq Plugins /\ registered' \subseteq Plugins
  BY <1>1 DEF ActivateFails, Unregister, TypeOK
<1>6. TypeOK'
  BY <1>1, <1>3, <1>4, <1>5
  DEF ActivateFails, TypeOK, Others, announced, applying, listing, Versions
<1>7. QED
  BY <1>3, <1>6 DEF Control

LEMMA ActivatedControl ==
    ASSUME Control, NEW t \in Everyone, NEW p \in Plugins, Activated(t, p)
    PROVE  Control'
<1>1. TypeOK /\ Shaped(t) /\ task[t].doing[p] = "activate"
  BY DEF Control, Ordered, Activated
<1>2. /\ env' = env /\ events' = events /\ host' = host /\ applied' = applied
      /\ pending' = pending /\ read' = read
  BY DEF Activated, announced, applying, listing
<1>3. Append(task[t].did, p) \in Seq(Plugins)
  BY <1>1, TaskType, AppendedRange
<1>4. task' = [task EXCEPT ![t].doing[p] = "no", ![t].did = Append(task[t].did, p)]
  BY <1>1, TaskType DEF Activated, TypeOK, TaskRecords
<1>5. /\ Others(t) /\ task'[t].do = task[t].do /\ task'[t].id = task[t].id
      /\ task'[t].at = task[t].at /\ task'[t].levels = task[t].levels
      /\ task'[t].doing[p] = "no"
      /\ \A q \in Plugins \ {p} : task'[t].doing[q] = task[t].doing[q]
      /\ task'[t].rev = task[t].rev /\ task'[t].published = task[t].published
  BY <1>1, <1>3, <1>4, DoingEffect
<1>6. \A q \in Plugins : task'[t].doing[q] # "no" => task[t].doing[q] # "no"
  BY <1>1, <1>5
<1>7. task[t].at = "activate"
  BY <1>1 DEF Shaped, Busy
<1>8. Ordered'
  BY <1>2, <1>5, <1>6, <1>7, HandOrdered
<1>9. active' \in Versions
  BY <1>1, TaskType, SMTT(30) DEF Activated, TypeOK, Versions
<1>10. status' \in [Plugins -> {"disabled", "enabled", "error"}]
  BY <1>1 DEF Activated, TypeOK
<1>11. TypeOK'
  BY <1>1, <1>5, <1>9, <1>10
  DEF Activated, TypeOK, Others, announced, applying, listing, bounds, Versions
<1>12. QED
  BY <1>8, <1>11 DEF Control

\* Stopping.
LEMMA BeginStopEffect ==
    ASSUME TypeOK, NEW t \in Everyone, BeginStop(t)
    PROVE  OnlyMoves(t, IF task[t].at = "stop" THEN "stopping" ELSE "undoing")
<1> DEFINE a == IF task[t].at = "stop" THEN "stopping" ELSE "undoing"
<1>1. a \in Points
  BY DEF Points
<1>2. task' = [task EXCEPT ![t].at = a]
  BY TaskType DEF BeginStop, TypeOK, TaskRecords
<1> HIDE DEF a
<1>3. OnlyMoves(t, a)
  BY <1>1, <1>2, MovesEffect
<1>4. QED
  BY <1>3 DEF a

LEMMA BeginStopControl ==
    ASSUME Control, NEW t \in Everyone, BeginStop(t)
    PROVE  Control'
<1>1. TypeOK /\ Shaped(t) /\ task[t].at \in {"stop", "undo"} /\ task[t].stops # <<>>
  BY DEF Control, Ordered, BeginStop
<1>2. /\ env' = env /\ events' = events /\ host' = host /\ applied' = applied
      /\ pending' = pending /\ read' = read
  BY DEF BeginStop, announced, applying, listing
<1>3. OnlyMoves(t, IF task[t].at = "stop" THEN "stopping" ELSE "undoing")
  BY <1>1, BeginStopEffect
<1>4. Shaped(t)' /\ task[t].do # "none"
  BY <1>1, <1>3 DEF OnlyMoves, Shaped, Phased, Busy, Enabling, Unpublished, Published
<1>5. /\ task[t].do = "disable" /\ task'[t].at \in {"stop", "stopping"}
            => task[Coordinator] = Idle /\ applied = env.rev
  BY <1>1, Whose, IdleType DEF Shaped, Phased, Control, Ordered, Solitary
<1>6. Proceeds(t)
  BY <1>2, <1>3, <1>4, <1>5 DEF Proceeds, OnlyMoves
<1>7. Ordered'
  BY <1>6, StepOrdered
<1>8. active' \in Versions
  BY <1>1, ZeroType DEF BeginStop, TypeOK, Versions
<1>9. TypeOK'
  BY <1>1, <1>3, <1>8
  DEF BeginStop, OnlyMoves, TypeOK, Others, announced, applying, shown, listing, bounds, Versions
<1>10. QED
  BY <1>7, <1>9 DEF Control

\* What a stop leaves of the types.
LEMMA StoppedType ==
    ASSUME TypeOK, NEW t \in Everyone, Stopped(t), Others(t)
    PROVE  TypeOK'
<1>1. task[t].stops # <<>> /\ Head(task[t].stops) \in Plugins
  BY TaskType, HeadAndTail DEF Stopped
<1>2. /\ registered' \subseteq Plugins /\ realms' \subseteq Plugins
  BY DEF Stopped, Unregister, TypeOK
<1>3. status' \in [Plugins -> {"disabled", "enabled", "error"}]
  BY DEF Stopped, TypeOK
<1>4. consents' \in Versions /\ enabledIds' \subseteq Plugins
  <2>1. consents \in [Plugins -> 0 .. MaxVersion] /\ enabledIds \subseteq Plugins
    BY DEF TypeOK, Versions
  <2>2. [consents EXCEPT ![Head(task[t].stops)] = 0] \in [Plugins -> 0 .. MaxVersion]
    BY <2>1, ZeroType
  <2>3. \/ consents' = consents /\ enabledIds' = enabledIds
        \/ /\ consents' = [consents EXCEPT ![Head(task[t].stops)] = 0]
           /\ enabledIds' = enabledIds \ {Head(task[t].stops)}
    BY DEF Stopped
  <2>4. QED
    BY <2>1, <2>2, <2>3 DEF Versions
<1>5. /\ env' = env /\ events' = events /\ host' = host /\ applied' = applied
      /\ pending' = pending /\ read' = read /\ store' = store /\ active' = active
      /\ unlisted' = unlisted /\ outcome' = outcome /\ ops' = ops /\ changes' = changes
      /\ faults' = faults
  BY DEF Stopped, announced, applying, listing, bounds
<1>6. QED
  BY <1>2, <1>3, <1>4, <1>5 DEF TypeOK, Others

LEMMA StoppedControl ==
    ASSUME Control, NEW t \in Everyone, Stopped(t)
    PROVE  Control'
<1>1. TypeOK /\ Shaped(t) /\ task[t].stops # <<>>
  BY DEF Control, Ordered, Stopped
<1>2. /\ env' = env /\ events' = events /\ host' = host /\ applied' = applied
      /\ pending' = pending /\ read' = read
  BY DEF Stopped, announced, applying, listing
<1>3. task[t].at \in {"stop", "stopping", "undo", "undoing"}
  BY DEF Stopped
<1>4. CASE task[t].do = "remove"
  <2>1. /\ Others(t) /\ task'[t].do = "remove" /\ task'[t].id = task[t].id
        /\ task'[t].at = IF Tail(task[t].stops) = <<>> THEN "join" ELSE "read"
        /\ task'[t].levels = task[t].levels /\ task'[t].doing = task[t].doing
        /\ task'[t].stops = Tail(task[t].stops)
        /\ task'[t].rev = task[t].rev /\ task'[t].published = task[t].published
    BY <1>1, <1>4, RemovedEffect
  <2>2. task[t].at \in {"stop", "stopping"} /\ task[t].published # 0
    BY <1>1, <1>3, <1>4 DEF Shaped, Phased, Published
  <2>3. Shaped(t)'
    BY <1>1, <1>4, <2>1, <2>2 DEF Shaped, Phased, Busy, Enabling, Unpublished, Published
  <2>4. Proceeds(t)
    BY <1>2, <1>4, <2>1, <2>3, Whose DEF Proceeds
  <2>5. QED
    BY <1>1, <2>1, <2>4, StepOrdered, StoppedType DEF Control
<1>5. CASE task[t].do # "remove"
  <2>1. /\ Others(t) /\ task'[t].do = task[t].do /\ task'[t].id = task[t].id
        /\ task'[t].at = IF task[t].at \in {"stop", "stopping"} THEN "stop" ELSE "undo"
        /\ task'[t].levels = task[t].levels /\ task'[t].doing = task[t].doing
        /\ task'[t].stops = Tail(task[t].stops)
        /\ task'[t].rev = task[t].rev /\ task'[t].published = task[t].published
    BY <1>1, <1>5, StoppedEffect
  <2>2. Shaped(t)' /\ task[t].do # "none"
    BY <1>1, <1>3, <1>5, <2>1 DEF Shaped, Phased, Busy, Enabling, Unpublished, Published
  <2>3. task[t].do = "disable" => task[Coordinator] = Idle /\ applied = env.rev
    BY <1>1, <1>3, Whose, IdleType DEF Shaped, Phased, Control, Ordered, Solitary
  <2>4. Proceeds(t)
    BY <1>2, <1>3, <1>5, <2>1, <2>2, <2>3 DEF Proceeds
  <2>5. QED
    BY <1>1, <2>1, <2>4, StepOrdered, StoppedType DEF Control
<1>6. QED
  BY <1>4, <1>5

\* The end of an operation.
LEMMA EndControl ==
    ASSUME Control, NEW t \in Tasks, NEW how, Ends(t, how), task[t] # Idle,
           env' = env, events' = events, host' = host, applied' = applied, pending' = pending,
           read' = read
    PROVE  /\ Ordered' /\ Others(t)
           /\ outcome' \in [do : Operations, id : Plugins \cup {Nobody}, ok : BOOLEAN]
<1>1. TypeOK /\ t \in Everyone
  BY ZeroType DEF Control
<1>2. /\ Others(t) /\ task'[t] = Idle
      /\ outcome' \in [do : Operations, id : Plugins \cup {Nobody}, ok : BOOLEAN]
  BY <1>1, EndsEffect
<1>3. Ordered'
  BY <1>2, EndOrdered
<1>4. QED
  BY <1>2, <1>3

LEMMA UndoneControl ==
    ASSUME Control, NEW t \in Everyone, Undone(t)
    PROVE  Control'
<1>1. TypeOK /\ t \in Tasks /\ task[t] # Idle
  BY Whose, IdleType DEF Control, Undone
<1>2. /\ env' = env /\ events' = events /\ host' = host /\ applied' = applied
      /\ pending' = pending /\ read' = read
  BY DEF Undone, announced, applying, listing
<1>3. /\ Ordered' /\ Others(t)
      /\ outcome' \in [do : Operations, id : Plugins \cup {Nobody}, ok : BOOLEAN]
  BY <1>1, <1>2, EndControl DEF Undone
<1>4. TypeOK'
  BY <1>1, <1>3
  DEF Undone, TypeOK, Others, announced, applying, shown, running, listing, bounds, Versions
<1>5. QED
  BY <1>3, <1>4 DEF Control

LEMMA DisabledControl ==
    ASSUME Control, NEW t \in Everyone, Disabled(t)
    PROVE  Control'
<1>1. TypeOK /\ t \in Tasks /\ task[t] # Idle
  BY Whose, IdleType DEF Control, Disabled
<1>2. /\ env' = env /\ events' = events /\ host' = host /\ applied' = applied
      /\ pending' = pending /\ read' = read
  BY DEF Disabled, announced, applying, listing
<1>3. /\ Ordered' /\ Others(t)
      /\ outcome' \in [do : Operations, id : Plugins \cup {Nobody}, ok : BOOLEAN]
  BY <1>1, <1>2, EndControl DEF Disabled
<1>4. enabledIds' \subseteq Plugins
  BY <1>1 DEF Disabled, TypeOK
<1>5. TypeOK'
  BY <1>1, <1>3, <1>4
  DEF Disabled, TypeOK, Others, announced, applying, running, listing, bounds, Versions
<1>6. QED
  BY <1>3, <1>5 DEF Control

LEMMA RevokedControl ==
    ASSUME Control, NEW t \in Everyone, Revoked(t)
    PROVE  Control'
<1>1. TypeOK /\ t \in Tasks /\ task[t] # Idle
  BY Whose, IdleType DEF Control, Revoked
<1>2. /\ env' = env /\ events' = events /\ host' = host /\ applied' = applied
      /\ pending' = pending /\ read' = read
  BY DEF Revoked, announced, applying, listing
<1>3. /\ Ordered' /\ Others(t)
      /\ outcome' \in [do : Operations, id : Plugins \cup {Nobody}, ok : BOOLEAN]
  BY <1>1, <1>2, EndControl DEF Revoked
<1>4. consents' \in Versions
  BY <1>1, ZeroType DEF Revoked, TypeOK, Versions
<1>5. TypeOK'
  BY <1>1, <1>3, <1>4
  DEF Revoked, TypeOK, Others, announced, applying, running, listing, bounds, Versions
<1>6. QED
  BY <1>3, <1>5 DEF Control

\* Fetching, and activating anew.
LEMMA FetchControl ==
    ASSUME Control, NEW t \in Everyone, Fetch(t)
    PROVE  Control'
<1>1. TypeOK /\ Shaped(t) /\ task[t].at = "fetch" /\ t \in Tasks /\ task[t] # Idle
  BY Whose, IdleType DEF Control, Ordered, Fetch
<1>2. /\ env' = env /\ events' = events /\ host' = host /\ applied' = applied
      /\ pending' = pending /\ read' = read
  BY DEF Fetch, announced, applying, listing
<1>3. CASE \E how : Ends(t, how) /\ UNCHANGED store
  <2>1. PICK how : Ends(t, how) /\ UNCHANGED store
    BY <1>3
  <2>2. /\ Ordered' /\ Others(t)
        /\ outcome' \in [do : Operations, id : Plugins \cup {Nobody}, ok : BOOLEAN]
    BY <1>1, <1>2, <2>1, EndControl
  <2>3. TypeOK'
    BY <1>1, <2>1, <2>2
    DEF Fetch, TypeOK, Others, announced, applying, running, listing, bounds, Versions
  <2>4. QED
    BY <2>2, <2>3 DEF Control
<1>4. CASE /\ \E v \in 0 .. MaxVersion : store' = [store EXCEPT ![task[t].id] = v]
           /\ task' = [task EXCEPT ![t].at = "stop", ![t].stops = <<task[t].id>>]
           /\ UNCHANGED outcome
  <2>1. task[t].id \in Plugins /\ <<task[t].id>> \in Seq(Plugins) /\ "stop" \in Points
    BY <1>1 DEF Shaped, Phased, Points
  <2>2. /\ Others(t) /\ task'[t].do = task[t].do /\ task'[t].id = task[t].id
        /\ task'[t].at = "stop"
        /\ task'[t].levels = task[t].levels /\ task'[t].doing = task[t].doing
        /\ task'[t].published = task[t].published
    BY <1>1, <1>4, <2>1, StopsEffect
  <2>3. Shaped(t)' /\ task[t].do = "reloadOne"
    BY <1>1, <2>2 DEF Shaped, Phased, Busy, Enabling, Unpublished, Published
  <2>4. Proceeds(t)
    BY <1>1, <1>2, <2>2, <2>3, Whose DEF Proceeds
  <2>5. store' \in Versions
    BY <1>1, <1>4 DEF TypeOK, Versions
  <2>6. TypeOK'
    BY <1>1, <1>4, <2>2, <2>5
    DEF Fetch, TypeOK, Others, announced, applying, running, listing, bounds
  <2>7. QED
    BY <2>4, <2>6, StepOrdered DEF Control
<1>5. QED
  <2> DEFINE id == task[t].id
             fresh == IF id \in Development THEN env.version[id] ELSE store[id]
  <2>1. id \in Plugins
    BY <1>1 DEF Shaped, Phased
  <2>2. fresh \in 0 .. MaxVersion
    BY <1>1, <2>1 DEF TypeOK, Versions
  <2>3. \/ \E how : Ends(t, how) /\ UNCHANGED store
        \/ /\ store' = [store EXCEPT ![id] = fresh]
           /\ task' = [task EXCEPT ![t].at = "stop", ![t].stops = <<id>>]
           /\ UNCHANGED outcome
    BY DEF Fetch
  <2>4. QED
    BY <1>3, <1>4, <2>2, <2>3

LEMMA FetchFailsControl ==
    ASSUME Control, NEW t \in Everyone, FetchFails(t)
    PROVE  Control'
<1>1. TypeOK /\ t \in Tasks /\ task[t] # Idle
  BY Whose, IdleType DEF Control, FetchFails
<1>2. /\ env' = env /\ events' = events /\ host' = host /\ applied' = applied
      /\ pending' = pending /\ read' = read
  BY DEF FetchFails, announced, applying, listing
<1>3. /\ Ordered' /\ Others(t)
      /\ outcome' \in [do : Operations, id : Plugins \cup {Nobody}, ok : BOOLEAN]
  BY <1>1, <1>2, EndControl DEF FetchFails
<1>4. faults' \in 0 .. MaxFaults
  BY <1>1, FailsType DEF FetchFails
<1>5. TypeOK'
  BY <1>1, <1>3, <1>4
  DEF FetchFails, TypeOK, Others, announced, applying, shown, running, listing, Versions
<1>6. QED
  BY <1>3, <1>5 DEF Control

LEMMA ReenableControl ==
    ASSUME Control, NEW t \in Everyone, Reenable(t)
    PROVE  Control'
<1>1. /\ TypeOK /\ Shaped(t) /\ task[t].at = "stop" /\ task[t].do = "reloadOne"
      /\ t \in Tasks /\ task[t] # Idle /\ task[t].id \in Plugins
  BY Whose, IdleType DEF Control, Ordered, Reenable, AllStopped, Shaped
<1>2. /\ env' = env /\ events' = events /\ host' = host /\ applied' = applied
      /\ pending' = pending /\ read' = read
  BY DEF Reenable, announced, applying, listing
<1>3. CASE \E how : Ends(t, how)
  BY <1>1, <1>2, <1>3, EndControl DEF Reenable, TypeOK, Others, announced, applying, shown,
     running, listing, bounds, Versions, Control
<1>4. CASE /\ task' = [task EXCEPT ![t].at = "activate",
                                   ![t].levels = OneByOne(Chain(task[t].id, store))]
           /\ UNCHANGED outcome
  <2> DEFINE chain == Chain(task[t].id, store)
  <2>1. chain \in Seq(Plugins)
    BY <1>1, ChainHolds
  <2> HIDE DEF chain
  <2>2. /\ OneByOne(chain) \in Seq(SUBSET Plugins)
        /\ \A i \in DOMAIN OneByOne(chain) : \A p, q \in OneByOne(chain)[i] : p = q
    BY <2>1, OneByOneLevels
  <2>3. /\ Others(t) /\ task'[t].do = task[t].do /\ task'[t].id = task[t].id
        /\ task'[t].at = "activate"
        /\ task'[t].levels = OneByOne(chain) /\ task'[t].doing = task[t].doing
        /\ task'[t].published = task[t].published
    BY <1>1, <1>4, <2>2, LevelsEffect DEF chain
  <2>4. Busy(t)' = {}
    BY <1>1, <2>3 DEF Busy, Shaped
  <2>5. Shaped(t)'
    BY <1>1, <2>2, <2>3, <2>4 DEF Shaped, Phased, Enabling, Unpublished, Published
  <2>6. Proceeds(t)
    BY <1>1, <1>2, <2>3, <2>5, Whose DEF Proceeds
  <2>7. TypeOK'
    BY <1>1, <1>4, <2>3
    DEF Reenable, TypeOK, Others, announced, applying, shown, running, listing, bounds, Versions
  <2>8. QED
    BY <2>6, <2>7, StepOrdered DEF Control
<1>5. QED
  BY <1>3, <1>4 DEF Reenable

LEMMA ChainActivatedControl ==
    ASSUME Control, NEW t \in Everyone, ChainActivated(t)
    PROVE  Control'
<1>1. /\ TypeOK /\ Shaped(t) /\ task[t].at = "activate" /\ Busy(t) = {} /\ task[t].levels = <<>>
      /\ Enabling(t) /\ t \in Tasks /\ task[t] # Idle
  BY Whose, IdleType DEF Control, Ordered, ChainActivated, ActivatedAll, Enabling
<1>2. /\ env' = env /\ events' = events /\ host' = host /\ applied' = applied
      /\ pending' = pending /\ read' = read
  BY DEF ChainActivated, announced, applying, listing
<1>3. CASE task[t].do = "enable"
  <2>1. task' = [task EXCEPT ![t].at = "read"] /\ "read" \in Points
    BY <1>3 DEF ChainActivated, Points
  <2>2. OnlyMoves(t, "read")
    BY <1>1, <2>1, MovesEffect
  <2>3. Busy(t)' = {}
    BY <1>1, <2>2 DEF Busy, OnlyMoves
  <2>4. Ordered'
    BY <1>1, <1>2, <1>3, <2>2, <2>3, HandOrdered DEF OnlyMoves
  <2>5. TypeOK'
    BY <1>1, <1>3, <2>2
    DEF ChainActivated, OnlyMoves, TypeOK, Others, announced, applying, running, listing, bounds, Versions
  <2>6. QED
    BY <2>4, <2>5 DEF Control
<1>4. CASE task[t].do # "enable"
  <2>1. Ends(t, "ok") /\ enabledIds' = enabledIds \cup Range(task[t].did)
    BY <1>4 DEF ChainActivated
  <2>2. /\ Ordered' /\ Others(t)
        /\ outcome' \in [do : Operations, id : Plugins \cup {Nobody}, ok : BOOLEAN]
    BY <1>1, <1>2, <2>1, EndControl
  <2>3. Range(task[t].did) \subseteq Plugins
    BY <1>1, TaskType, ElementOfSeq, LenProperties DEF Range
  <2>4. enabledIds' \subseteq Plugins
    BY <1>1, <2>1, <2>3 DEF TypeOK
  <2>5. TypeOK'
    BY <1>1, <2>2, <2>4
    DEF ChainActivated, TypeOK, Others, announced, applying, running, listing, bounds, Versions
  <2>6. QED
    BY <2>2, <2>5 DEF Control
<1>5. QED
  BY <1>3, <1>4

\* Writing the environment.
LEMMA ReadEnvironmentControl ==
    ASSUME Control, NEW t \in Everyone, ReadEnvironment(t)
    PROVE  Control'
<1>1. TypeOK /\ Shaped(t) /\ task[t].at = "read" /\ t \in Tasks /\ t # Coordinator /\ task[t].do # "none"
  BY Whose DEF Control, Ordered, ReadEnvironment
<1>2. /\ env' = env /\ events' = events /\ host' = host /\ applied' = applied
      /\ pending' = pending /\ read' = read
  BY DEF ReadEnvironment, announced, applying, listing
<1>3. /\ Others(t) /\ task'[t].do = task[t].do /\ task'[t].id = task[t].id /\ task'[t].at = "write"
      /\ task'[t].levels = task[t].levels /\ task'[t].doing = task[t].doing
      /\ task'[t].stops = task[t].stops /\ task'[t].published = task[t].published
  BY <1>1, ReadEffect
<1>4. Shaped(t)'
  BY <1>1, <1>3 DEF Shaped, Phased, Busy, Enabling, Unpublished, Published
<1>5. Proceeds(t)
  BY <1>1, <1>2, <1>3, <1>4 DEF Proceeds
<1>6. Kept
  BY DEF ReadEnvironment, Kept, announced, applying, shown, running, listing, bounds
<1>7. TypeOK'
  BY <1>1, <1>3, <1>6, KeptType
<1>8. QED
  BY <1>5, <1>7, StepOrdered DEF Control

\* What a write is about.
LEMMA WriteHas ==
    ASSUME Control, NEW t \in Everyone, task[t].at = "write"
    PROVE  /\ t \in Tasks /\ t # Coordinator /\ task[t] # Idle
           /\ task[t].do \in {"enable", "disable", "remove"}
           /\ task[t].do = "remove" => task[t].stops # <<>>
           /\ task[t].id \in Plugins
  BY Whose, IdleType DEF Control, Ordered, Shaped, Phased

LEMMA WriteControl ==
    ASSUME Control, NEW t \in Everyone, Write(t)
    PROVE  Control'
<1>1. /\ TypeOK /\ Shaped(t) /\ task[t].at = "write" /\ Accepted(t)
      /\ t \in Tasks /\ t # Coordinator /\ task[t] # Idle
      /\ task[t].do \in {"enable", "disable", "remove"}
      /\ task[t].do = "remove" => task[t].stops # <<>>
      /\ task[t].id \in Plugins
  BY WriteHas DEF Control, Ordered, Write
<1>2. /\ env' \in [rev : Nat, version : Versions, on : SUBSET Plugins]
      /\ env'.rev = env.rev + 1
      /\ \A p \in env'.on : env'.version[p] # 0
  BY <1>1, WrittenEffect DEF Write
<1>3. /\ events' = events \cup {env'.rev} /\ host' = host /\ applied' = applied
      /\ pending' = pending /\ read' = read
  BY DEF Write, applying, listing
<1>4. env.rev \in Nat /\ env'.rev \in Nat /\ env'.rev # 0 /\ env.rev <= env'.rev
  BY <1>1, <1>2 DEF TypeOK
<1>5. /\ Others(t) /\ task'[t].do = task[t].do /\ task'[t].id = task[t].id
      /\ task'[t].at = IF task[t].do = "remove" THEN "stop" ELSE "join"
      /\ task'[t].levels = task[t].levels /\ task'[t].doing = task[t].doing
      /\ task'[t].stops = task[t].stops /\ task'[t].published = env'.rev
  BY <1>1, <1>4, WriteEffect
<1>6. Shaped(t)'
  BY <1>1, <1>4, <1>5 DEF Shaped, Phased, Busy, Enabling, Unpublished, Published
<1>7. \A u \in Everyone : Shaped(u)'
  BY <1>5, <1>6 DEF Control, Ordered, Others, Shaped, Phased, Busy, Enabling, Unpublished,
     Published
<1>8. Solitary(t)
  BY <1>1 DEF Control, Ordered
<1>9. \A u \in Tasks \ {t} : task'[u] = Idle
  BY <1>1, <1>5, <1>8, ZeroType DEF Solitary, Others
<1>10. \A u \in Tasks : Solitary(u)'
  BY <1>1, <1>3, <1>4, <1>5, <1>8, <1>9 DEF Solitary
<1>11. Coordinating'
  BY <1>1, <1>5, ZeroType, <1>3 DEF Others, Control, Ordered, Coordinating
<1>12. /\ events' \subseteq 1 .. env'.rev /\ pending \in 0 .. env'.rev /\ read \in 0 .. env'.rev
  <2>1. events \subseteq 1 .. env.rev /\ pending \in 0 .. env.rev /\ read \in 0 .. env.rev
    BY <1>1 DEF TypeOK
  <2>2. 0 .. env.rev \subseteq 0 .. env'.rev /\ 1 .. env.rev \subseteq 1 .. env'.rev
    BY <1>4
  <2>3. env'.rev \in 1 .. env'.rev
    BY <1>4
  <2>4. QED
    BY <1>3, <2>1, <2>2, <2>3
<1>13. TypeOK'
  BY <1>1, <1>2, <1>3, <1>5, <1>12
  DEF Write, TypeOK, Others, applying, shown, running, listing, bounds
<1>14. QED
  BY <1>7, <1>10, <1>11, <1>13 DEF Control, Ordered

\* A refused enable, or one the coordinator could not follow, is undone.
LEMMA UndoOrdered ==
    ASSUME Control, NEW t \in Everyone, task[t].do = "enable",
           task[t].at \in {"write", "rejected"},
           task' = [task EXCEPT ![t].at = "undo", ![t].stops = Reverse(task[t].did)],
           env' = env, events' = events, host' = host, applied' = applied, pending' = pending,
           read' = read
    PROVE  Ordered' /\ Others(t)
<1>1. /\ TypeOK /\ Shaped(t) /\ t \in Tasks /\ t # Coordinator
      /\ task[t].levels = <<>> /\ Busy(t) = {} /\ task[t].id \in Plugins
  BY Whose DEF Control, Ordered, Shaped
<1>2. Reverse(task[t].did) \in Seq(Plugins) /\ "undo" \in Points
  BY <1>1, TaskType, ReversedRange DEF Points
<1>3. /\ Others(t) /\ task'[t].do = task[t].do /\ task'[t].id = task[t].id /\ task'[t].at = "undo"
      /\ task'[t].levels = task[t].levels /\ task'[t].doing = task[t].doing
      /\ task'[t].published = task[t].published
  BY <1>1, <1>2, StopsEffect
<1>4. Shaped(t)'
  <2>1. Busy(t)' = {} /\ task'[t].levels = <<>> /\ task'[t].do = "enable" /\ task'[t].id \in Plugins
    BY <1>1, <1>3 DEF Busy
  <2>2. \A i \in DOMAIN task'[t].levels : \A p, q \in task'[t].levels[i] : p = q
    BY <1>1, <1>3 DEF Shaped, Enabling
  <2>3. task'[t].do = "enable" /\ task'[t].at = "undo"
    BY <1>3
  <2>4. Phased(t)' /\ ~Unpublished(t)' /\ ~Published(t)'
    BY <2>3 DEF Phased, Unpublished, Published
  <2>5. QED
    BY <2>1, <2>2, <2>3, <2>4 DEF Shaped, Enabling
<1>5. Proceeds(t)
  BY <1>1, <1>3, <1>4 DEF Proceeds
<1>6. QED
  BY <1>3, <1>5, StepOrdered

LEMMA WriteRefusedControl ==
    ASSUME Control, NEW t \in Everyone, WriteRefused(t)
    PROVE  Control'
<1>1. /\ TypeOK /\ Shaped(t) /\ task[t].at = "write"
      /\ t \in Tasks /\ t # Coordinator /\ task[t] # Idle
      /\ task[t].do \in {"enable", "disable", "remove"}
      /\ task[t].do = "remove" => task[t].stops # <<>>
  BY WriteHas DEF Control, Ordered, WriteRefused
<1>2. /\ env' = env /\ events' = events /\ host' = host /\ applied' = applied
      /\ pending' = pending /\ read' = read
  BY DEF WriteRefused, announced, applying, listing
<1>3. faults' \in 0 .. MaxFaults
  BY <1>1, FailsType DEF WriteRefused, TypeOK
<1>4. /\ Ordered' /\ Others(t)
      /\ outcome' \in [do : Operations, id : Plugins \cup {Nobody}, ok : BOOLEAN]
  <2>1. CASE task[t].do = "enable"
    BY <2>1, <1>1, <1>2, UndoOrdered DEF WriteRefused, Refused, TypeOK
  <2>2. CASE task[t].do = "remove" /\ task[t].published # 0
    <3>1. task' = [task EXCEPT ![t].at = "join", ![t].failed = TRUE] /\ outcome' = outcome
      BY <2>2 DEF WriteRefused, Refused
    <3>2. /\ Others(t)
          /\ task'[t].do = task[t].do /\ task'[t].id = task[t].id /\ task'[t].at = "join"
          /\ task'[t].levels = task[t].levels /\ task'[t].doing = task[t].doing
          /\ task'[t].published = task[t].published
      BY <1>1, <3>1, LeavesEffect
    <3>3. Shaped(t)'
      BY <1>1, <2>2, <3>2 DEF Shaped, Phased, Busy, Enabling, Unpublished, Published
    <3>4. Proceeds(t)
      BY <1>1, <1>2, <2>2, <3>2, <3>3 DEF Proceeds
    <3>5. QED
      BY <1>1, <3>1, <3>2, <3>4, StepOrdered DEF TypeOK
  <2>3. CASE task[t].do = "disable" \/ (task[t].do = "remove" /\ task[t].published = 0)
    BY <2>3, <1>1, <1>2, EndControl DEF WriteRefused, Refused
  <2>4. QED
    BY <1>1, <2>1, <2>2, <2>3
<1>5. TypeOK'
  BY <1>1, <1>3, <1>4
  DEF WriteRefused, TypeOK, Others, announced, applying, shown, running, listing, Versions
<1>6. QED
  BY <1>4, <1>5 DEF Control

LEMMA RejectedControl ==
    ASSUME Control, NEW t \in Everyone, Rejected(t)
    PROVE  Control'
<1>1. TypeOK /\ t \in Tasks /\ task[t] # Idle /\ task[t].at = "rejected"
  BY Whose, IdleType DEF Control, Rejected
<1>2. /\ env' = env /\ events' = events /\ host' = host /\ applied' = applied
      /\ pending' = pending /\ read' = read
  BY DEF Rejected, announced, applying, listing
<1>3. /\ Ordered' /\ Others(t)
      /\ outcome' \in [do : Operations, id : Plugins \cup {Nobody}, ok : BOOLEAN]
  BY <1>1, <1>2, UndoOrdered, EndControl DEF Rejected, TypeOK
<1>4. TypeOK'
  BY <1>1, <1>3
  DEF Rejected, TypeOK, Others, announced, applying, shown, running, listing, bounds, Versions
<1>5. QED
  BY <1>3, <1>4 DEF Control

LEMMA ResumeControl ==
    ASSUME Control, NEW t \in Everyone, Resume(t)
    PROVE  Control'
<1>1. /\ TypeOK /\ Shaped(t) /\ t \in Tasks /\ t # Coordinator /\ task[t] # Idle
      /\ task[t].at = "resumed"
      /\ task[t].do \in {"enable", "disable", "remove"} /\ task[t].id \in Plugins
  BY Whose, IdleType DEF Control, Ordered, Resume, Shaped, Phased
<1>2. /\ env' = env /\ events' = events /\ host' = host /\ applied' = applied
      /\ pending' = pending /\ read' = read
  BY DEF Resume, announced, applying, listing
<1>3. CASE task[t].do = "disable"
  <2>1. /\ task' = [task EXCEPT ![t].at = "stop", ![t].stops = <<task[t].id>>]
        /\ enabledIds' = enabledIds /\ outcome' = outcome
    BY <1>3 DEF Resume
  <2>2. <<task[t].id>> \in Seq(Plugins) /\ "stop" \in Points
    BY <1>1 DEF Points
  <2>3. /\ Others(t) /\ task'[t].do = task[t].do /\ task'[t].id = task[t].id
        /\ task'[t].at = "stop"
        /\ task'[t].levels = task[t].levels /\ task'[t].doing = task[t].doing
        /\ task'[t].published = task[t].published
    BY <1>1, <2>1, <2>2, StopsEffect
  <2>4. Shaped(t)'
    BY <1>1, <1>3, <2>3 DEF Shaped, Phased, Busy, Enabling, Unpublished, Published
  <2>5. task[Coordinator] = Idle /\ applied = env.rev
    BY <1>1 DEF Control, Ordered, Solitary
  <2>6. Proceeds(t)
    BY <1>1, <1>2, <1>3, <2>3, <2>4, <2>5 DEF Proceeds
  <2>7. TypeOK'
    BY <1>1, <2>1, <2>3
    DEF Resume, TypeOK, Others, announced, applying, running, listing, bounds, Versions
  <2>8. QED
    BY <2>6, <2>7, StepOrdered DEF Control
<1>4. CASE task[t].do # "disable"
  <2>1. \E how : Ends(t, how)
    BY <1>1, <1>4 DEF Resume
  <2>2. /\ Ordered' /\ Others(t)
        /\ outcome' \in [do : Operations, id : Plugins \cup {Nobody}, ok : BOOLEAN]
    BY <1>1, <1>2, <2>1, EndControl
  <2>3. Range(task[t].did) \subseteq Plugins
    BY <1>1, TaskType, ElementOfSeq, LenProperties DEF Range
  <2>4. enabledIds' \subseteq Plugins
    BY <1>1, <1>4, <2>3 DEF Resume, TypeOK
  <2>5. TypeOK'
    BY <1>1, <2>2, <2>4
    DEF Resume, TypeOK, Others, announced, applying, running, listing, bounds, Versions
  <2>6. QED
    BY <2>2, <2>5 DEF Control
<1>5. QED
  BY <1>3, <1>4

\* A reload that has stopped all takes what the core lists.
LEMMA ListControl ==
    ASSUME Control, NEW t \in Everyone, List(t)
    PROVE  Control'
<1>1. /\ TypeOK /\ Shaped(t) /\ task[t].at = "stop" /\ task[t].do = "reload"
      /\ task[t].stops = <<>> /\ task[t].published = 0
  BY DEF Control, Ordered, List, AllStopped, Shaped, Unpublished
<1>2. /\ env' = env /\ events' = events /\ host' = host /\ applied' = applied
      /\ pending' = pending /\ read' = env.rev
  BY DEF List, announced, applying
<1> DEFINE ready == {p \in env.on : PendingConsentChain(p, env.version) = {}}
           levels == ActivationLevels(ready, Needs, InStore(env.version))
<1>3. /\ env.on \subseteq Plugins /\ env.version \in Versions /\ env.rev \in Nat
      /\ ready \in SUBSET Plugins
  BY <1>1 DEF TypeOK
<1>4. levels \in Seq(SUBSET Plugins)
  BY <1>3, LevelsHold
<1>5. task' = [task EXCEPT ![t].at = "activate", ![t].levels = levels] /\ realms' = realms \cap ready
  BY DEF List
<1> HIDE DEF levels, ready
<1>6. /\ Others(t) /\ task'[t].do = task[t].do /\ task'[t].id = task[t].id
      /\ task'[t].at = "activate" /\ task'[t].doing = task[t].doing
      /\ task'[t].rev = task[t].rev /\ task'[t].published = task[t].published
  BY <1>1, <1>4, <1>5, LevelsEffect
<1>7. Shaped(t)'
  BY <1>1, <1>6 DEF Busy, Enabling, Shaped, Phased, Unpublished, Published
<1>8. t = Coordinator => task[t].rev <= read'
  BY <1>1, <1>3, TaskType, <1>2 DEF Control, Ordered, Coordinating, TypeOK
<1>9. Proceeds(t)
  BY <1>1, <1>2, <1>6, <1>7, <1>8, Whose DEF Proceeds
<1>10. status' \in [Plugins -> {"disabled", "enabled", "error"}]
  BY DEF List, Unstarted
<1>11. /\ store' \in Versions /\ enabledIds' \subseteq Plugins /\ realms' \subseteq Plugins
       /\ read' \in 0 .. env.rev /\ unlisted' \in BOOLEAN /\ consents' = consents
       /\ active' = active /\ registered' = registered /\ outcome' = outcome
       /\ ops' = ops /\ changes' = changes /\ faults' = faults
  <2>1. store' = env.version /\ enabledIds' = env.on /\ read' = env.rev /\ unlisted' = FALSE
    BY DEF List
  <2>2. realms \subseteq Plugins
    BY <1>1 DEF TypeOK
  <2>3. /\ consents' = consents /\ active' = active /\ registered' = registered
        /\ outcome' = outcome /\ ops' = ops /\ changes' = changes /\ faults' = faults
    BY DEF List, bounds
  <2>4. unlisted' \in BOOLEAN
    BY <2>1
  <2>5. env.rev \in 0 .. env.rev
    BY <1>3
  <2>6. realms' \subseteq Plugins
    BY <1>5, <2>2
  <2>7. QED
    BY <1>3, <2>1, <2>3, <2>4, <2>5, <2>6
<1>12. TypeOK'
  BY <1>1, <1>2, <1>6, <1>10, <1>11 DEF TypeOK, Others
<1>13. QED
  BY <1>9, <1>12, StepOrdered DEF Control

\* A reload of the coordinator that begins.
LEMMA ReloadTask ==
    ASSUME NEW n \in Nat
    PROVE  /\ ReloadFor(n) \in TaskRecords
           /\ ReloadFor(n).do = "reload" /\ ReloadFor(n).at = "stop" /\ ReloadFor(n).id = Nobody
           /\ ReloadFor(n).levels = <<>> /\ ReloadFor(n).stops = Actives /\ ReloadFor(n).rev = n
           /\ ReloadFor(n).did = <<>> /\ ReloadFor(n).published = 0
           /\ \A p \in Plugins : ReloadFor(n).doing[p] = "no"
<1>1. /\ "reload" \in Operations /\ "stop" \in Points /\ Nobody \in Plugins \cup {Nobody}
      /\ <<>> \in Seq(SUBSET Plugins) /\ Actives \in Seq(Plugins)
  BY ActivesHold DEF Operations, Points
<1>2. ReloadFor(n) = [Idle EXCEPT !.do = "reload", !.at = "stop", !.stops = Actives, !.rev = n]
  BY DEF ReloadFor
<1> DEFINE r == ReloadFor(n)
<1> HIDE DEF r
<1>3. r = [Idle EXCEPT !.do = "reload", !.at = "stop", !.stops = Actives, !.rev = n]
  BY <1>2 DEF r
<1>4. /\ r \in TaskRecords
      /\ r.do = "reload" /\ r.at = "stop" /\ r.id = Nobody /\ r.levels = <<>> /\ r.stops = Actives
      /\ r.rev = n
      /\ r.did = <<>> /\ r.published = 0 /\ \A p \in Plugins : r.doing[p] = "no"
  BY <1>1, <1>3, IdleType DEF TaskRecords
<1>5. QED
  BY <1>4 DEF r

\* What the coordinator does with a revision it hears of.
LEMMA HearEffect ==
    ASSUME TypeOK, NEW rev \in Nat, NEW waiting \in [Everyone -> TaskRecords],
           waiting[Coordinator] = task[Coordinator], Hear(rev, waiting)
    PROVE  /\ task' \in [Everyone -> TaskRecords] /\ \A u \in Tasks : task'[u] = waiting[u]
           /\ task[Coordinator] # Idle => task'[Coordinator] = task[Coordinator]
           /\ task[Coordinator] = Idle => task'[Coordinator] = ReloadFor(pending')
           /\ host' = host /\ applied' = applied
           /\ pending' \in Nat /\ pending <= pending' /\ rev <= pending'
           /\ rev <= env.rev => pending' <= env.rev
<1>1. pending \in Nat /\ pending <= env.rev /\ env.rev \in Nat
  BY DEF TypeOK
<1>2. /\ pending' \in Nat /\ pending <= pending' /\ rev <= pending'
      /\ rev <= env.rev => pending' <= env.rev
  BY <1>1 DEF Hear, Awaiting, Later
<1>3. ReloadFor(pending') \in TaskRecords
  BY <1>2, ReloadTask
<1>4. host' = host /\ applied' = applied
  BY DEF Hear
<1>5. CASE task[Coordinator] = Idle
  BY <1>5, <1>2, <1>3, <1>4, ZeroType DEF Hear
<1>6. CASE task[Coordinator] # Idle
  BY <1>6, <1>2, <1>4, ZeroType DEF Hear
<1>7. QED
  BY <1>5, <1>6

\* The task of the coordinator begins to reload.
LEMMA ReloadOrdered ==
    ASSUME Control, NEW n \in Nat, task'[Coordinator] = ReloadFor(n),
           \A u \in Tasks : Shaped(u)'
    PROVE  /\ \A u \in Everyone : Shaped(u)'
           /\ task'[Coordinator].do = "reload" /\ task'[Coordinator].at = "stop"
           /\ task'[Coordinator].rev = n /\ task'[Coordinator] # Idle
<1>1. /\ task'[Coordinator].do = "reload" /\ task'[Coordinator].at = "stop"
      /\ task'[Coordinator].levels = <<>> /\ task'[Coordinator].rev = n
      /\ task'[Coordinator].published = 0 /\ \A p \in Plugins : task'[Coordinator].doing[p] = "no"
  BY ReloadTask
<1>2. /\ Busy(Coordinator)' = {} /\ ~Enabling(Coordinator)' /\ Phased(Coordinator)'
      /\ ~Published(Coordinator)'
  BY <1>1 DEF Busy, Enabling, Phased, Published
<1>3. Shaped(Coordinator)'
  BY <1>1, <1>2 DEF Shaped
<1>4. QED
  BY <1>1, <1>3, IdleType, ZeroType

\* A task that is as it was keeps its shape.
LEMMA SameShape ==
    ASSUME NEW u, Shaped(u), task'[u] = task[u]
    PROVE  Shaped(u)'
  BY DEF Shaped, Phased, Busy, Enabling, Unpublished, Published

\* The numbers of the coordinator.
LEMMA Revisions ==
    ASSUME TypeOK
    PROVE  /\ env.rev \in Nat /\ applied \in Nat /\ pending \in Nat /\ read \in Nat
           /\ applied <= pending /\ pending <= env.rev /\ read <= env.rev
           /\ \A rev \in events : rev \in Nat /\ rev <= env.rev /\ rev # 0
  BY DEF TypeOK

LEMMA EventControl ==
    ASSUME Control, NEW rev \in events, Event(rev)
    PROVE  Control'
<1>1. TypeOK /\ host = "ready" /\ \A u \in Everyone : Shaped(u)
  BY DEF Control, Ordered, Event
<1>2. env' = env /\ events' = events \ {rev} /\ read' = read
  BY DEF Event, listing
<1>3. /\ env.rev \in Nat /\ applied \in Nat /\ pending \in Nat /\ applied <= pending
      /\ pending <= env.rev /\ rev \in Nat /\ rev <= env.rev
  BY <1>1, Revisions
<1>4. CASE rev > applied
  <2>1. Hear(rev, task)
    BY <1>4 DEF Event
  <2>2. task \in [Everyone -> TaskRecords]
    BY <1>1 DEF TypeOK
  <2>3. /\ task' \in [Everyone -> TaskRecords] /\ \A u \in Tasks : task'[u] = task[u]
        /\ task[Coordinator] # Idle => task'[Coordinator] = task[Coordinator]
        /\ task[Coordinator] = Idle => task'[Coordinator] = ReloadFor(pending')
        /\ host' = host /\ applied' = applied
        /\ pending' \in Nat /\ pending <= pending' /\ rev <= pending' /\ pending' <= env.rev
    BY <1>1, <1>3, <2>1, <2>2, HearEffect
  <2>4. \A u \in Tasks : Shaped(u)'
    BY <1>1, <2>3, ZeroType, SameShape
  <2>5. \A u \in Tasks : Solitary(u)'
    <3>1. SUFFICES ASSUME NEW u \in Tasks
                   PROVE  Solitary(u)'
      OBVIOUS
    <3>2. Solitary(u) /\ task'[u] = task[u] /\ \A v \in Tasks : task'[v] = task[v]
      BY <2>3 DEF Control, Ordered
    <3>3. task[u] # Idle => task[u].published # 0
      BY <3>2 DEF Solitary
    <3>4. ~(/\ task[u] # Idle
            /\ task[u].at = "resumed" \/ (task[u].do = "disable" /\ task[u].at \in {"stop", "stopping"}))
      BY <1>3, <1>4, <3>2 DEF Solitary
    <3>5. task[u] # Idle /\ task[u].at = "joined" => pending' = env.rev
      BY <1>3, <2>3, <3>2 DEF Solitary
    <3>6. QED
      BY <1>1, <1>2, <2>3, <3>2, <3>3, <3>4, <3>5 DEF Solitary
  <2>6. (\A u \in Everyone : Shaped(u)') /\ Coordinating'
    <3>1. env.rev \in events' \/ pending' = env.rev
      BY <1>1, <1>2, <1>3, <2>3 DEF Control, Ordered, Coordinating
    <3>2. CASE task[Coordinator] = Idle
      BY <2>3, <2>4, <3>2, ReloadOrdered, <1>3, <1>4, <1>1, <1>2, <3>1 DEF Coordinating
    <3>3. CASE task[Coordinator] # Idle
      <4>1. Shaped(Coordinator)' /\ task'[Coordinator] = task[Coordinator]
        BY <1>1, <2>3, <3>3, ZeroType, SameShape
      <4>2. task[Coordinator].do = "reload" => task[Coordinator].rev <= pending'
        BY <1>1, TaskType, ZeroType, <1>3, <2>3 DEF Control, Ordered, Coordinating
      <4>3. Coordinating'
        BY <1>1, <1>2, <2>3, <3>1, <4>1, <4>2 DEF Control, Ordered, Coordinating
      <4>4. QED
        BY <2>4, <4>1, <4>3, ZeroType
    <3>4. QED
      BY <3>2, <3>3
  <2>7. TypeOK'
    BY <1>1, <1>2, <1>3, <2>3 DEF TypeOK, Event, shown, running, listing, bounds, Versions
  <2>8. QED
    BY <2>5, <2>6, <2>7 DEF Control, Ordered
<1>5. CASE ~(rev > applied)
  <2>1. task' = task /\ host' = host /\ applied' = applied /\ pending' = pending
    BY <1>5 DEF Event, applying
  <2>2. \A u \in Everyone : Shaped(u)'
    BY <1>1, <2>1, SameShape
  <2>3. \A u \in Tasks : Solitary(u)'
    BY <1>2, <2>1 DEF Control, Ordered, Solitary
  <2>4. Coordinating'
    <3>1. env.rev \in events' \/ pending = env.rev
      BY <1>1, <1>3, <1>5, <1>2 DEF Control, Ordered, Coordinating
    <3>2. QED
      BY <1>2, <2>1, <3>1 DEF Control, Ordered, Coordinating
  <2>5. TypeOK'
    BY <1>1, <1>2, <2>1 DEF Event, TypeOK, shown, running, listing, bounds, Versions
  <2>6. QED
    BY <2>2, <2>3, <2>4, <2>5 DEF Control, Ordered
<1>6. QED
  BY <1>4, <1>5

\* Waiting for the coordinator, or going on.
LEMMA JoinControl ==
    ASSUME Control, NEW t \in Everyone, Join(t)
    PROVE  Control'
<1>1. /\ TypeOK /\ Shaped(t) /\ task[t].at = "join" /\ task[t] # Idle /\ t \in Tasks /\ t # Coordinator
      /\ task[t].published # 0 /\ task[t].do # "none"
  BY Whose, IdleType DEF Control, Ordered, Shaped, Published, Join
<1>2. Solitary(t) /\ host = "ready" /\ task[t].published = env.rev
  BY <1>1 DEF Control, Ordered, Solitary
<1>3. /\ env.rev \in Nat /\ applied \in Nat /\ pending \in Nat /\ applied <= pending
      /\ pending <= env.rev
  BY <1>1, Revisions
<1>4. env' = env /\ events' = events /\ read' = read
  BY DEF Join, announced, listing
<1>5. \A u \in Tasks \ {t} : task[u] = Idle
  BY <1>1 DEF Control, Ordered, Solitary
<1>6. CASE task[t].published > applied
  <2> DEFINE r == [task[t] EXCEPT !.at = "joined"]
             waiting == [task EXCEPT ![t] = r]
  <2>1. Hear(env.rev, waiting)
    BY <1>1, <1>2, <1>6, TaskType DEF Join, TypeOK, TaskRecords
  <2>2. /\ r \in TaskRecords /\ r.do = task[t].do /\ r.id = task[t].id /\ r.at = "joined"
        /\ r.levels = task[t].levels /\ r.doing = task[t].doing /\ r.stops = task[t].stops
        /\ r.published = task[t].published
    BY <1>1, TaskType DEF TaskRecords, Points
  <2> HIDE DEF r
  <2>3. /\ waiting \in [Everyone -> TaskRecords] /\ waiting[Coordinator] = task[Coordinator]
        /\ waiting[t] = r /\ \A u \in Tasks \ {t} : waiting[u] = task[u]
    BY <1>1, <2>2, ZeroType DEF TypeOK
  <2> HIDE DEF waiting
  <2>4. /\ task' \in [Everyone -> TaskRecords] /\ \A u \in Tasks : task'[u] = waiting[u]
        /\ task[Coordinator] # Idle => task'[Coordinator] = task[Coordinator]
        /\ task[Coordinator] = Idle => task'[Coordinator] = ReloadFor(pending')
        /\ host' = host /\ applied' = applied
        /\ pending' \in Nat /\ pending <= pending' /\ env.rev <= pending' /\ pending' <= env.rev
    BY <1>1, <1>3, <2>1, <2>3, HearEffect
  <2>5. pending' = env.rev
    BY <1>3, <2>4
  <2>6. /\ task'[t].do = task[t].do /\ task'[t].id = task[t].id /\ task'[t].at = "joined"
        /\ task'[t].levels = task[t].levels /\ task'[t].doing = task[t].doing
        /\ task'[t].stops = task[t].stops
        /\ task'[t].published = task[t].published
        /\ \A u \in Tasks \ {t} : task'[u] = Idle
    BY <1>1, <1>5, <2>2, <2>3, <2>4
  <2>7. Shaped(t)'
    BY <1>1, <2>6 DEF Shaped, Phased, Busy, Enabling, Unpublished, Published
  <2>8. \A u \in Tasks : Shaped(u)'
    BY <1>5, <2>6, ZeroType, SameShape, <2>7 DEF Control, Ordered
  <2>9. \A u \in Tasks : Solitary(u)'
    BY <1>1, <1>2, <1>4, <2>4, <2>5, <2>6 DEF Solitary
  <2>10. (\A u \in Everyone : Shaped(u)') /\ Coordinating'
    <3>1. CASE task[Coordinator] = Idle
      BY <2>4, <2>8, <3>1, ReloadOrdered, <1>2, <1>6, <2>5, <1>4 DEF Coordinating
    <3>2. CASE task[Coordinator] # Idle
      <4>1. Shaped(Coordinator)' /\ task'[Coordinator] = task[Coordinator]
        BY <1>1, <2>4, <3>2, ZeroType, SameShape DEF Control, Ordered
      <4>2. task[Coordinator].do = "reload" => task[Coordinator].rev <= pending'
        BY <1>1, TaskType, ZeroType, <1>3, <2>4 DEF Control, Ordered, Coordinating
      <4>3. Coordinating'
        BY <1>2, <1>4, <2>4, <2>5, <4>1, <4>2 DEF Control, Ordered, Coordinating
      <4>4. QED
        BY <2>8, <4>1, <4>3, ZeroType
    <3>3. QED
      BY <3>1, <3>2
  <2>11. TypeOK'
    BY <1>3, <1>4, <2>4, <1>1 DEF Join, TypeOK, shown, running, listing, bounds, Versions
  <2>12. QED
    BY <2>9, <2>10, <2>11 DEF Control, Ordered
<1>7. CASE ~(task[t].published > applied)
  <2>1. task' = [task EXCEPT ![t].at = "resumed"] /\ "resumed" \in Points
    BY <1>7 DEF Join, Points
  <2>2. host' = host /\ applied' = applied /\ pending' = pending
    BY <1>7 DEF Join, applying
  <2>3. OnlyMoves(t, "resumed")
    BY <1>1, <2>1, MovesEffect
  <2>4. applied = env.rev
    BY <1>2, <1>3, <1>7
  <2>5. task[Coordinator] = Idle
    <3>1. task[Coordinator].do = "reload" =>
             applied < task[Coordinator].rev /\ task[Coordinator].rev <= pending
      BY <1>2 DEF Control, Ordered, Coordinating
    <3>2. task[Coordinator].rev \in Nat
      BY <1>1, TaskType, ZeroType
    <3>3. task[Coordinator].do # "reload"
      BY <1>3, <2>4, <3>1, <3>2
    <3>4. QED
      BY <3>3, Whose, ZeroType DEF Control, Ordered, Coordinating
  <2>6. Shaped(t)'
    BY <1>1, <2>3 DEF OnlyMoves, Shaped, Phased, Busy, Enabling, Unpublished, Published
  <2>7. \A u \in Everyone : Shaped(u)'
    BY <2>3, SameShape, <2>6 DEF OnlyMoves, Others, Control, Ordered
  <2>8. task'[Coordinator] = task[Coordinator] /\ \A u \in Tasks \ {t} : task'[u] = Idle
    BY <1>1, <1>5, <2>3, ZeroType DEF OnlyMoves, Others
  <2>9. \A u \in Tasks : Solitary(u)'
    BY <1>1, <1>2, <1>4, <2>2, <2>3, <2>4, <2>5, <2>8 DEF Solitary, OnlyMoves
  <2>10. Coordinating'
    BY <1>4, <2>2, <2>8 DEF Control, Ordered, Coordinating
  <2>11. TypeOK'
    BY <1>1, <1>4, <2>2, <2>3
    DEF Join, OnlyMoves, Others, TypeOK, shown, running, listing, bounds, Versions
  <2>12. QED
    BY <2>7, <2>9, <2>10, <2>11 DEF Control, Ordered
<1>8. QED
  BY <1>6, <1>7

\* Those who waited go on, and the coordinator is done.
LEMMA JoinedEffect ==
    ASSUME TypeOK, NEW answer \in {"resumed", "rejected"},
           task' = [Joined(answer) EXCEPT ![Coordinator] = Idle]
    PROVE  /\ task' \in [Everyone -> TaskRecords] /\ task'[Coordinator] = Idle
           /\ \A u \in Tasks :
                 /\ task[u].at # "joined" => task'[u] = task[u]
                 /\ task[u].at = "joined" =>
                      /\ task'[u].do = task[u].do /\ task'[u].id = task[u].id
                      /\ task'[u].at = answer
                      /\ task'[u].levels = task[u].levels /\ task'[u].doing = task[u].doing
                      /\ task'[u].stops = task[u].stops /\ task'[u].gen = task[u].gen
                      /\ task'[u].did = task[u].did
                      /\ task'[u].published = task[u].published
<1>1. /\ Joined(answer) = [u \in Everyone |-> IF task[u].at = "joined"
                                              THEN [task[u] EXCEPT !.at = answer] ELSE task[u]]
  BY DEF Joined
<1>2. ASSUME NEW u \in Everyone
      PROVE  /\ [task[u] EXCEPT !.at = answer] \in TaskRecords
             /\ [task[u] EXCEPT !.at = answer].do = task[u].do
             /\ [task[u] EXCEPT !.at = answer].id = task[u].id
             /\ [task[u] EXCEPT !.at = answer].at = answer
             /\ [task[u] EXCEPT !.at = answer].levels = task[u].levels
             /\ [task[u] EXCEPT !.at = answer].doing = task[u].doing
             /\ [task[u] EXCEPT !.at = answer].stops = task[u].stops
             /\ [task[u] EXCEPT !.at = answer].gen = task[u].gen
             /\ [task[u] EXCEPT !.at = answer].did = task[u].did
             /\ [task[u] EXCEPT !.at = answer].published = task[u].published
  BY TaskType DEF TaskRecords, Points
<1>3. \A u \in Everyone : task[u] \in TaskRecords
  BY TaskType
<1>4. Joined(answer) \in [Everyone -> TaskRecords]
  BY <1>1, <1>2, <1>3
<1>5. task' \in [Everyone -> TaskRecords] /\ task'[Coordinator] = Idle
  BY <1>4, IdleType, ZeroType
<1>6. ASSUME NEW u \in Tasks
      PROVE  /\ task[u].at # "joined" => task'[u] = task[u]
             /\ task[u].at = "joined" => task'[u] = [task[u] EXCEPT !.at = answer]
  BY <1>4, ZeroType, <1>1
<1>7. ASSUME NEW u \in Tasks, task[u].at = "joined"
      PROVE  /\ task'[u].do = task[u].do /\ task'[u].id = task[u].id
             /\ task'[u].at = answer
             /\ task'[u].levels = task[u].levels /\ task'[u].doing = task[u].doing
             /\ task'[u].stops = task[u].stops /\ task'[u].gen = task[u].gen
             /\ task'[u].did = task[u].did
             /\ task'[u].published = task[u].published
  <2>1. u \in Everyone /\ task'[u] = [task[u] EXCEPT !.at = answer]
    BY <1>6, <1>7, ZeroType
  <2>2. QED
    BY <1>2, <2>1
<1>8. QED
  BY <1>5, <1>6, <1>7

LEMMA JoinedShaped ==
    ASSUME Control, NEW answer \in {"resumed", "rejected"},
           task' = [Joined(answer) EXCEPT ![Coordinator] = Idle]
    PROVE  \A u \in Everyone : Shaped(u)'
<1>1. Shaped(Coordinator)'
  <2>1. task'[Coordinator] = Idle
    BY JoinedEffect DEF Control
  <2>2. QED
    BY <2>1, IdleType DEF Shaped, Phased, Busy, Enabling, Unpublished, Published
<1>2. ASSUME NEW u \in Tasks
      PROVE  Shaped(u)'
  <2>1. Shaped(u) /\ TypeOK
    BY ZeroType DEF Control, Ordered
  <2>2. CASE task[u].at # "joined"
    BY <2>1, <2>2, JoinedEffect, SameShape
  <2>3. CASE task[u].at = "joined"
    <3>1. /\ task'[u].do = task[u].do /\ task'[u].id = task[u].id /\ task'[u].at = answer
          /\ task'[u].levels = task[u].levels /\ task'[u].doing = task[u].doing
          /\ task'[u].stops = task[u].stops
          /\ task'[u].published = task[u].published
      BY <2>1, <2>3, JoinedEffect
    <3>2. QED
      BY <2>1, <2>3, <3>1 DEF Shaped, Phased, Busy, Enabling, Unpublished, Published
  <2>4. QED
    BY <2>2, <2>3
<1>3. QED
  BY <1>1, <1>2, ZeroType

LEMMA ReloadedControl ==
    ASSUME Control, NEW t \in Everyone, Reloaded(t)
    PROVE  Control'
<1>1. /\ TypeOK /\ task[t].at = "activate" /\ task[t].do = "reload" /\ task[t] # Idle
      /\ \A u \in Everyone : Shaped(u)
  BY IdleType DEF Control, Ordered, Reloaded, ActivatedAll
<1>2. env' = env /\ events' = events /\ read' = read
  BY DEF Reloaded, announced, listing
<1>3. /\ env.rev \in Nat /\ applied \in Nat /\ pending \in Nat /\ applied <= pending
      /\ pending <= env.rev
  BY <1>1, Revisions
<1>4. CASE t # Coordinator
  <2>1. Ends(t, "ok") /\ host' = host /\ applied' = applied /\ pending' = pending
    BY <1>4 DEF Reloaded, applying
  <2>2. t \in Tasks
    BY <1>4, Whose
  <2>3. /\ Ordered' /\ Others(t)
        /\ outcome' \in [do : Operations, id : Plugins \cup {Nobody}, ok : BOOLEAN]
    BY <1>1, <1>2, <2>1, <2>2, EndControl
  <2>4. TypeOK'
    BY <1>1, <1>2, <2>1, <2>3 DEF Reloaded, TypeOK, Others, shown, running, listing, bounds, Versions
  <2>5. QED
    BY <2>3, <2>4 DEF Control
<1>5. CASE t = Coordinator /\ host = "loading"
  <2>1. Ends(t, "ok") /\ host' = "ready" /\ applied' = applied /\ pending' = pending
    BY <1>5 DEF Reloaded
  <2>2. /\ Others(t) /\ task'[t] = Idle
        /\ outcome' \in [do : Operations, id : Plugins \cup {Nobody}, ok : BOOLEAN]
    BY <1>1, <2>1, EndsEffect
  <2>3. \A u \in Tasks : task[u] = Idle
    BY <1>5 DEF Control, Ordered, Solitary
  <2>4. \A u \in Everyone : task'[u] = Idle
    BY <1>5, <2>2, <2>3, ZeroType DEF Others
  <2>5. \A u \in Everyone : Shaped(u)'
    BY <2>4, IdleType DEF Shaped, Phased, Busy, Enabling, Unpublished, Published
  <2>6. (\A u \in Tasks : Solitary(u)') /\ Coordinating'
    <3>1. \A u \in Tasks : Solitary(u)'
      BY <2>4, ZeroType DEF Solitary
    <3>2. Coordinating'
      BY <2>4, IdleType, ZeroType, <1>5, <1>2, <2>1 DEF Control, Ordered, Coordinating
    <3>3. QED
      BY <3>1, <3>2
  <2>7. TypeOK'
    BY <1>1, <1>2, <2>1, <2>2 DEF Reloaded, TypeOK, Others, shown, running, listing, bounds, Versions
  <2>8. QED
    BY <2>5, <2>6, <2>7 DEF Control, Ordered
<1>6. CASE t = Coordinator /\ host # "loading"
  <2>1. /\ applied' = task[t].rev /\ host' = host /\ pending' = pending /\ outcome' = outcome
        /\ task' = IF pending > task[t].rev THEN [task EXCEPT ![t] = ReloadFor(pending)]
                   ELSE [Joined("resumed") EXCEPT ![t] = Idle]
    BY <1>6 DEF Reloaded, AppliedTarget
  <2>2. /\ host = "ready" /\ task[t].rev \in Nat /\ task[t].rev <= pending
        /\ env.rev \in events \/ pending = env.rev
    BY <1>1, TaskType, <1>6 DEF TypeOK, Control, Ordered, Coordinating
  <2>3. \A u \in Tasks : task[u] # Idle =>
          /\ task[u].published # 0 /\ task[u].at # "resumed"
          /\ ~(task[u].do = "disable" /\ task[u].at \in {"stop", "stopping"})
          /\ \A v \in Tasks : task[v] # Idle => u = v
          /\ task[u].published = env.rev /\ (task[u].at = "joined" => pending = env.rev)
    BY <1>1, <1>6 DEF Control, Ordered, Solitary
  <2>4. CASE pending > task[t].rev
    <3>1. task' = [task EXCEPT ![t] = ReloadFor(pending)] /\ ReloadFor(pending) \in TaskRecords
      BY <1>3, <2>1, <2>4, ReloadTask
    <3>2. Others(t) /\ task'[t] = ReloadFor(pending)
      BY <1>1, <3>1, Becomes
    <3>3. \A u \in Tasks : task'[u] = task[u]
      BY <1>6, <3>2, ZeroType DEF Others
    <3>4. \A u \in Tasks : Shaped(u)'
      BY <1>1, <3>3, ZeroType, SameShape
    <3>5. /\ \A u \in Everyone : Shaped(u)'
          /\ task'[Coordinator].do = "reload" /\ task'[Coordinator].at = "stop"
          /\ task'[Coordinator].rev = pending
      BY <1>3, <1>6, <3>2, <3>4, ReloadOrdered
    <3>6. \A u \in Tasks : Solitary(u)'
      BY <1>2, <2>1, <2>2, <2>3, <3>3 DEF Solitary
    <3>7. Coordinating'
      BY <1>2, <1>3, <2>1, <2>2, <2>4, <3>5 DEF Coordinating
    <3>8. TypeOK'
      BY <1>3, <2>1, <2>2, <1>1, <1>2, <3>2 DEF Reloaded, TypeOK, Others, shown, running,
         listing, bounds, Versions
    <3>9. QED
      BY <3>5, <3>6, <3>7, <3>8 DEF Control, Ordered
  <2>5. CASE ~(pending > task[t].rev)
    <3>1. task' = [Joined("resumed") EXCEPT ![Coordinator] = Idle]
      BY <1>6, <2>1, <2>5
    <3>2. /\ task' \in [Everyone -> TaskRecords] /\ task'[Coordinator] = Idle
          /\ \A u \in Tasks :
                 /\ task[u].at # "joined" => task'[u] = task[u]
                 /\ task[u].at = "joined" =>
                      /\ task'[u].do = task[u].do /\ task'[u].at = "resumed"
                      /\ task'[u].published = task[u].published
      BY <1>1, <3>1, JoinedEffect
    <3>3. \A u \in Everyone : Shaped(u)'
      BY <3>1, JoinedShaped
    <3>4. task[t].rev = pending
      BY <1>3, <2>2, <2>5
    <3>5. \A u \in Tasks : task'[u] # Idle => task[u] # Idle
      BY <3>2, IdleType
    <3>6. ASSUME NEW u \in Tasks
          PROVE  Solitary(u)'
      BY <1>2, <2>1, <2>2, <2>3, <3>2, <3>5, <3>4 DEF Solitary
    <3>7. Coordinating'
      BY <3>2, IdleType, <1>2, <2>1, <2>2 DEF Coordinating
    <3>8. TypeOK'
      BY <1>3, <2>1, <2>2, <1>1, <1>2, <3>2 DEF Reloaded, TypeOK, shown, running, listing,
         bounds, Versions
    <3>9. QED
      BY <3>3, <3>6, <3>7, <3>8 DEF Control, Ordered
  <2>6. QED
    BY <2>4, <2>5
<1>7. QED
  BY <1>4, <1>5, <1>6

LEMMA ListFailsControl ==
    ASSUME Control, NEW t \in Everyone, ListFails(t)
    PROVE  Control'
<1>1. /\ TypeOK /\ task[t].at = "stop" /\ task[t].do = "reload" /\ task[t] # Idle
      /\ \A u \in Everyone : Shaped(u)
  BY IdleType DEF Control, Ordered, ListFails, AllStopped
<1>2. /\ env' = env /\ events' = events /\ read' = read /\ applied' = applied /\ pending' = pending
      /\ unlisted' \in BOOLEAN
  BY DEF ListFails, announced
<1>3. faults' \in 0 .. MaxFaults
  BY <1>1, FailsType DEF ListFails
<1>4. CASE t # Coordinator
  <2>1. Ends(t, "error") /\ host' = host
    BY <1>4 DEF ListFails
  <2>2. t \in Tasks
    BY <1>4, Whose
  <2>3. /\ Ordered' /\ Others(t)
        /\ outcome' \in [do : Operations, id : Plugins \cup {Nobody}, ok : BOOLEAN]
    BY <1>1, <1>2, <2>1, <2>2, EndControl
  <2>4. TypeOK'
    BY <1>1, <1>2, <1>3, <2>1, <2>3 DEF ListFails, TypeOK, Others, shown, running, Versions
  <2>5. QED
    BY <2>3, <2>4 DEF Control
<1>5. CASE t = Coordinator
  <2>1. /\ task' = [Joined("rejected") EXCEPT ![Coordinator] = Idle] /\ outcome' = outcome
        /\ host' = IF host = "loading" THEN "failed" ELSE host
    BY <1>5 DEF ListFails
  <2>2. /\ task' \in [Everyone -> TaskRecords] /\ task'[Coordinator] = Idle
        /\ \A u \in Tasks :
               /\ task[u].at # "joined" => task'[u] = task[u]
               /\ task[u].at = "joined" =>
                    /\ task'[u].do = task[u].do /\ task'[u].at = "rejected"
                    /\ task'[u].published = task[u].published
    BY <1>1, <2>1, JoinedEffect
  <2>3. \A u \in Everyone : Shaped(u)'
    BY <2>1, JoinedShaped
  <2>4. \A u \in Tasks : task[u] # Idle =>
          /\ host = "ready" /\ task[u].published # 0 /\ task[u].at # "resumed"
          /\ ~(task[u].do = "disable" /\ task[u].at \in {"stop", "stopping"})
          /\ \A v \in Tasks : task[v] # Idle => u = v
          /\ task[u].published = env.rev /\ (task[u].at = "joined" => pending = env.rev)
    BY <1>1, <1>5 DEF Control, Ordered, Solitary
  <2>5. \A u \in Tasks : task'[u] # Idle => task[u] # Idle
    BY <2>2, IdleType
  <2>6. ASSUME NEW u \in Tasks
        PROVE  Solitary(u)'
    BY <1>2, <2>1, <2>2, <2>4, <2>5 DEF Solitary
  <2>7. Coordinating'
    BY <2>2, IdleType, <1>1, <1>5, <1>2 DEF Control, Ordered, Coordinating
  <2>8. TypeOK'
    BY <1>1, <1>2, <1>3, <2>1, <2>2 DEF ListFails, TypeOK, shown, running, Versions
  <2>9. QED
    BY <2>3, <2>6, <2>7, <2>8 DEF Control, Ordered
<1>6. QED
  BY <1>4, <1>5

\* The first reload.
LEMMA StartControl ==
    ASSUME Control, Start
    PROVE  Control'
<1>1. TypeOK /\ host = "start" /\ \A u \in Everyone : Shaped(u)
  BY DEF Control, Ordered, Start
<1>2. /\ env' = env /\ events' = events /\ read' = read /\ host' = "loading"
      /\ applied' = env.rev /\ pending' = env.rev
  BY DEF Start, announced, listing
<1>3. env.rev \in Nat
  BY <1>1, Revisions
<1>4. task' = [task EXCEPT ![Coordinator] = ReloadFor(env.rev)] /\ ReloadFor(env.rev) \in TaskRecords
  BY <1>3, ReloadTask DEF Start
<1>5. Others(Coordinator) /\ task'[Coordinator] = ReloadFor(env.rev)
  BY <1>1, <1>4, ZeroType, Becomes
<1>6. \A u \in Tasks : task'[u] = task[u] /\ task[u] = Idle
  BY <1>1, <1>5, ZeroType DEF Others, Control, Ordered, Solitary
<1>7. \A u \in Tasks : Shaped(u)'
  BY <1>1, <1>6, ZeroType, SameShape
<1>8. /\ \A u \in Everyone : Shaped(u)'
      /\ task'[Coordinator].do = "reload" /\ task'[Coordinator].at = "stop"
      /\ task'[Coordinator].rev = env.rev
  BY <1>3, <1>5, <1>7, ReloadOrdered
<1>9. \A u \in Tasks : Solitary(u)'
  BY <1>6 DEF Solitary
<1>10. Coordinating'
  BY <1>2, <1>3, <1>8 DEF Coordinating
<1>11. TypeOK'
  BY <1>2, <1>3, <1>1, <1>5 DEF Start, TypeOK, Others, shown, running, listing, bounds, Versions
<1>12. QED
  BY <1>8, <1>9, <1>10, <1>11 DEF Control, Ordered

\* What a person asks for, when nothing else is under way.
LEMMA BeginControl ==
    ASSUME ~Overlap, Control, NEW t \in Tasks, NEW r \in TaskRecords, Begin(t, r), UNCHANGED shown,
           task'[t] = r => Shaped(t)', r.do # "none", r.published = 0,
           r.at \notin {"joined", "resumed"},
           ~(r.do = "disable" /\ r.at \in {"stop", "stopping"})
    PROVE  Control' /\ Others(t) /\ task'[t] = r
<1>1. TypeOK /\ host = "ready" /\ Quiet /\ (\A u \in Everyone : Shaped(u)) /\ t \in Everyone
  BY ZeroType DEF Control, Ordered, Begin
<1>2. events = {} /\ \A u \in Everyone : task[u] = Idle
  BY <1>1 DEF Quiet
<1>3. /\ env' = env /\ events' = events /\ read' = read /\ host' = host
      /\ applied' = applied /\ pending' = pending
  BY DEF Begin, announced, applying, listing
<1>4. Others(t) /\ task'[t] = r
  BY <1>1, Becomes DEF Begin
<1>5. \A u \in Everyone : Shaped(u)'
  BY <1>1, <1>4, SameShape DEF Others
<1>6. \A u \in Everyone \ {t} : task'[u] = Idle
  BY <1>2, <1>4 DEF Others
<1>7. \A u \in Tasks : Solitary(u)'
  BY <1>1, <1>2, <1>3, <1>4, <1>6, ZeroType DEF Solitary
<1>8. Coordinating'
  BY <1>6, ZeroType, IdleType, <1>1, <1>3 DEF Control, Ordered, Coordinating
<1>9. ops' \in 0 .. MaxOps
  BY <1>1, ZeroType DEF TypeOK, Begin
<1>10. TypeOK'
  BY <1>1, <1>3, <1>4, <1>9
  DEF Begin, TypeOK, Others, shown, running, listing, Versions
<1>11. QED
  BY <1>4, <1>5, <1>7, <1>8, <1>10 DEF Control, Ordered

\* Each of the operations.
LEMMA StartEnableControl ==
    ASSUME ~Overlap, Control, NEW t \in Tasks, NEW p \in Plugins, StartEnable(t, p)
    PROVE  /\ Control' /\ Others(t) /\ task'[t].do = "enable" /\ task'[t].at = "activate"
           /\ task'[t].id = p /\ task'[t].levels = OneByOne(Chain(p, store))
           /\ task'[t].stops = <<>> /\ task'[t].did = <<>> /\ task'[t].published = 0
           /\ \A q \in Plugins : task'[t].doing[q] = "no"
<1> DEFINE chain == Chain(p, store)
           l == OneByOne(chain)
           r == [Idle EXCEPT !.do = "enable", !.at = "activate", !.id = p, !.levels = l]
<1>1. chain \in Seq(Plugins)
  BY ChainHolds
<1> HIDE DEF chain
<1>2. /\ l \in Seq(SUBSET Plugins) /\ DOMAIN l = DOMAIN chain
      /\ \A i \in DOMAIN chain : l[i] = {chain[i]}
  BY <1>1, OneByOneLevels
<1>3. Begin(t, r) /\ UNCHANGED shown
  BY DEF StartEnable, chain
<1> HIDE DEF l
<1>4. "enable" \in Operations /\ "activate" \in Points
  BY DEF Operations, Points
<1>5. /\ r \in TaskRecords /\ r.do = "enable" /\ r.at = "activate" /\ r.id = p /\ r.levels = l
      /\ r.stops = <<>> /\ r.did = <<>> /\ r.published = 0 /\ \A q \in Plugins : r.doing[q] = "no"
  BY <1>2, <1>4, IdleType DEF TaskRecords
<1> HIDE DEF r
<1>6. ASSUME task'[t] = r
      PROVE  Shaped(t)'
  <2>1. Busy(t)' = {}
    BY <1>5, <1>6 DEF Busy
  <2>2. \A i \in DOMAIN task'[t].levels : \A q, s \in task'[t].levels[i] : q = s
    BY <1>2, <1>5, <1>6
  <2>3. Phased(t)' /\ ~Published(t)'
    BY <1>5, <1>6 DEF Phased, Published
  <2>4. QED
    BY <1>5, <1>6, <2>1, <2>2, <2>3 DEF Shaped
<1>7. Control' /\ Others(t) /\ task'[t] = r
  BY <1>3, <1>5, <1>6, BeginControl
<1>8. QED
  BY <1>5, <1>7 DEF l, chain

\* A task that begins at reading, fetching or stopping.
LEMMA BeginsShaped ==
    ASSUME NEW t, NEW r, task'[t] = r,
           r.do \in {"disable", "remove", "reloadOne", "reload", "revoke"},
           r.do # "reload" => r.id \in Plugins,
           r.at = CASE r.do \in {"disable", "remove"} -> "read"
                    [] r.do = "reloadOne" -> "fetch"
                    [] OTHER -> "stop",
           r.levels = <<>>, r.published = 0, \A q \in Plugins : r.doing[q] = "no",
           r.do = "remove" => r.stops # <<>>
    PROVE  Shaped(t)'
<1>1. Busy(t)' = {}
  BY DEF Busy
<1>2. CASE r.do \in {"disable", "remove"}
  BY <1>2, <1>1 DEF Phased, Published, Enabling, Shaped
<1>3. CASE r.do = "reloadOne"
  BY <1>3, <1>1 DEF Phased, Published, Shaped
<1>4. CASE r.do \in {"reload", "revoke"}
  BY <1>4, <1>1 DEF Phased, Published, Enabling, Shaped
<1>5. QED
  BY <1>2, <1>3, <1>4

\* What a task begins with.
Starts(t, do, at) ==
    /\ Others(t) /\ task'[t].do = do /\ task'[t].at = at /\ task'[t].levels = <<>>
    /\ task'[t].did = <<>> /\ task'[t].published = 0
    /\ \A p \in Plugins : task'[t].doing[p] = "no"

LEMMA StartDisableControl ==
    ASSUME ~Overlap, Control, NEW t \in Tasks, NEW p \in Plugins, StartDisable(t, p)
    PROVE  Control' /\ Starts(t, "disable", "read") /\ task'[t].id = p /\ task'[t].stops = <<>>
<1> DEFINE r == [Idle EXCEPT !.do = "disable", !.at = "read", !.id = p]
<1>1. Begin(t, r) /\ UNCHANGED shown
  BY DEF StartDisable
<1>2. "disable" \in Operations /\ "read" \in Points
  BY DEF Operations, Points
<1>3. /\ r \in TaskRecords /\ r.do = "disable" /\ r.at = "read" /\ r.id = p /\ r.levels = <<>>
      /\ r.stops = <<>> /\ r.did = <<>> /\ r.published = 0 /\ \A q \in Plugins : r.doing[q] = "no"
  BY <1>2, IdleType DEF TaskRecords
<1> HIDE DEF r
<1>4. task'[t] = r => Shaped(t)'
  BY <1>3, BeginsShaped
<1>5. Control' /\ Others(t) /\ task'[t] = r
  BY <1>1, <1>3, <1>4, BeginControl
<1>6. QED
  BY <1>3, <1>5 DEF Starts

LEMMA StartRemoveControl ==
    ASSUME ~Overlap, Control, NEW t \in Tasks, NEW p \in Plugins, StartRemove(t, p)
    PROVE  /\ Control' /\ Starts(t, "remove", "read") /\ task'[t].id = p
           /\ task'[t].stops = CascadeRemovalSet(p, Needs, InStore(store))
<1> DEFINE s == CascadeRemovalSet(p, Needs, InStore(store))
           r == [Idle EXCEPT !.do = "remove", !.at = "read", !.id = p, !.stops = s]
<1>1. Begin(t, r) /\ UNCHANGED shown
  BY DEF StartRemove
<1>2. "remove" \in Operations /\ "read" \in Points /\ s \in Seq(Plugins) /\ s # <<>>
  BY CascadeHolds DEF Operations, Points
<1> HIDE DEF s
<1>3. /\ r \in TaskRecords /\ r.do = "remove" /\ r.at = "read" /\ r.id = p /\ r.levels = <<>>
      /\ r.stops = s /\ r.did = <<>> /\ r.published = 0 /\ \A q \in Plugins : r.doing[q] = "no"
  BY <1>2, IdleType DEF TaskRecords
<1> HIDE DEF r
<1>4. task'[t] = r => Shaped(t)'
  BY <1>2, <1>3, BeginsShaped
<1>5. Control' /\ Others(t) /\ task'[t] = r
  BY <1>1, <1>3, <1>4, BeginControl
<1>6. QED
  BY <1>3, <1>5 DEF Starts, s

LEMMA StartReloadOneControl ==
    ASSUME ~Overlap, Control, NEW t \in Tasks, NEW p \in Plugins, StartReloadOne(t, p)
    PROVE  Control' /\ Starts(t, "reloadOne", "fetch") /\ task'[t].id = p /\ task'[t].stops = <<>>
<1> DEFINE r == [Idle EXCEPT !.do = "reloadOne", !.at = "fetch", !.id = p]
<1>1. Begin(t, r) /\ UNCHANGED shown
  BY DEF StartReloadOne
<1>2. "reloadOne" \in Operations /\ "fetch" \in Points
  BY DEF Operations, Points
<1>3. /\ r \in TaskRecords /\ r.do = "reloadOne" /\ r.at = "fetch" /\ r.id = p /\ r.levels = <<>>
      /\ r.stops = <<>> /\ r.did = <<>> /\ r.published = 0 /\ \A q \in Plugins : r.doing[q] = "no"
  BY <1>2, IdleType DEF TaskRecords
<1> HIDE DEF r
<1>4. task'[t] = r => Shaped(t)'
  BY <1>3, BeginsShaped
<1>5. Control' /\ Others(t) /\ task'[t] = r
  BY <1>1, <1>3, <1>4, BeginControl
<1>6. QED
  BY <1>3, <1>5 DEF Starts

LEMMA StartReloadControl ==
    ASSUME ~Overlap, Control, NEW t \in Tasks, StartReload(t)
    PROVE  Control' /\ Starts(t, "reload", "stop") /\ task'[t].stops = Actives
<1> DEFINE r == [Idle EXCEPT !.do = "reload", !.at = "stop", !.stops = Actives]
<1>1. Begin(t, r) /\ UNCHANGED shown
  BY DEF StartReload
<1>2. "reload" \in Operations /\ "stop" \in Points /\ Actives \in Seq(Plugins)
  BY ActivesHold DEF Operations, Points
<1>3. /\ r \in TaskRecords /\ r.do = "reload" /\ r.at = "stop" /\ r.levels = <<>>
      /\ r.stops = Actives /\ r.did = <<>> /\ r.published = 0 /\ \A q \in Plugins : r.doing[q] = "no"
  BY <1>2, IdleType DEF TaskRecords
<1> HIDE DEF r
<1>4. task'[t] = r => Shaped(t)'
  BY <1>3, BeginsShaped
<1>5. Control' /\ Others(t) /\ task'[t] = r
  BY <1>1, <1>3, <1>4, BeginControl
<1>6. QED
  BY <1>3, <1>5 DEF Starts

LEMMA StartRevokeControl ==
    ASSUME ~Overlap, Control, NEW t \in Tasks, NEW p \in Plugins, StartRevoke(t, p)
    PROVE  /\ Control' /\ Starts(t, "revoke", "stop") /\ task'[t].id = p
           /\ task'[t].stops = CascadeRemovalSet(p, Needs, InStore(store))
<1> DEFINE s == CascadeRemovalSet(p, Needs, InStore(store))
           r == [Idle EXCEPT !.do = "revoke", !.at = "stop", !.id = p, !.stops = s]
<1>1. Begin(t, r) /\ UNCHANGED shown
  BY DEF StartRevoke
<1>2. "revoke" \in Operations /\ "stop" \in Points /\ s \in Seq(Plugins)
  BY CascadeHolds DEF Operations, Points
<1> HIDE DEF s
<1>3. /\ r \in TaskRecords /\ r.do = "revoke" /\ r.at = "stop" /\ r.id = p /\ r.levels = <<>>
      /\ r.stops = s /\ r.did = <<>> /\ r.published = 0 /\ \A q \in Plugins : r.doing[q] = "no"
  BY <1>2, IdleType DEF TaskRecords
<1> HIDE DEF r
<1>4. task'[t] = r => Shaped(t)'
  BY <1>3, BeginsShaped
<1>5. Control' /\ Others(t) /\ task'[t] = r
  BY <1>1, <1>3, <1>4, BeginControl
<1>6. QED
  BY <1>3, <1>5 DEF Starts, s

LEMMA GrantConsentControl ==
    ASSUME Control, NEW p \in Plugins, GrantConsent(p)
    PROVE  Control'
<1>1. TypeOK /\ task' = task /\ env' = env /\ events' = events /\ read' = read /\ host' = host
      /\ applied' = applied /\ pending' = pending
  BY DEF Control, GrantConsent, announced, applying, listing
<1>2. \A u \in Everyone : Shaped(u)'
  BY <1>1, SameShape DEF Control, Ordered
<1>3. (\A u \in Tasks : Solitary(u)') /\ Coordinating'
  BY <1>1 DEF Control, Ordered, Solitary, Coordinating
<1>4. consents' \in Versions
  BY <1>1 DEF GrantConsent, TypeOK, Versions
<1>5. ops' \in 0 .. MaxOps
  BY <1>1, ZeroType DEF TypeOK, GrantConsent
<1>6. TypeOK'
  BY <1>1, <1>4, <1>5 DEF GrantConsent, TypeOK, running, listing
<1>7. QED
  BY <1>2, <1>3, <1>6 DEF Control, Ordered

\* What others change, when nothing a person asked for is under way here.
Changes(e) ==
    /\ Change(e) /\ e \in [rev : Nat, version : Versions, on : SUBSET Plugins]
    /\ e.rev = env.rev \/ e.rev = env.rev + 1
    /\ \A p \in e.on : e.version[p] # 0

LEMMA ChangeControl ==
    ASSUME ~Overlap, Control, NEW e, Changes(e)
    PROVE  Control' /\ task' = task /\ \A t \in Tasks : task[t] = Idle
<1>1. /\ TypeOK /\ task' = task /\ env' = e /\ read' = read /\ host' = host
      /\ applied' = applied /\ pending' = pending /\ \A t \in Tasks : task[t] = Idle
      /\ events' = IF e.rev = env.rev THEN events ELSE events \cup {e.rev}
  BY DEF Control, Changes, Change, applying, listing
<1>2. \A u \in Everyone : Shaped(u)'
  BY <1>1, SameShape DEF Control, Ordered
<1>3. \A u \in Tasks : Solitary(u)'
  BY <1>1 DEF Solitary
<1>4. Coordinating'
  BY <1>1 DEF Control, Ordered, Coordinating, Changes
<1>5. changes' \in 0 .. MaxChanges
  BY <1>1, ZeroType DEF TypeOK, Changes, Change
<1>6. /\ events' \subseteq 1 .. e.rev /\ pending \in 0 .. e.rev /\ read \in 0 .. e.rev
  <2>1. /\ env.rev \in Nat /\ events \subseteq 1 .. env.rev /\ pending \in 0 .. env.rev
        /\ read \in 0 .. env.rev
    BY <1>1 DEF TypeOK
  <2>2. e.rev \in Nat /\ env.rev <= e.rev
    BY <2>1 DEF Changes
  <2>3. 0 .. env.rev \subseteq 0 .. e.rev /\ 1 .. env.rev \subseteq 1 .. e.rev
    BY <2>1, <2>2
  <2>4. e.rev # env.rev => e.rev \in 1 .. e.rev
    BY <2>1 DEF Changes
  <2>5. QED
    BY <1>1, <2>1, <2>3, <2>4
<1>7. TypeOK'
  BY <1>1, <1>5, <1>6
  DEF Changes, Change, TypeOK, applying, shown, running, listing
<1>8. QED
  BY <1>1, <1>2, <1>3, <1>4, <1>7 DEF Control, Ordered

LEMMA ToggleIs ==
    ASSUME TypeOK, NEW p \in Plugins, Toggle(p)
    PROVE  Changes(env') /\ env'.rev = env.rev + 1 /\ env'.version = env.version
<1>1. /\ env \in [rev : Nat, version : Versions, on : SUBSET Plugins] /\ env.rev + 1 \in Nat
      /\ \A q \in env.on : env.version[q] # 0
  BY DEF TypeOK
<1> DEFINE on == IF p \in env.on THEN env.on \ {p} ELSE env.on \cup {p}
           e == [env EXCEPT !.rev = env.rev + 1, !.on = on]
<1>2. Change(e) /\ env.version[p] # 0
  BY DEF Toggle
<1>3. on \in SUBSET Plugins /\ \A q \in on : env.version[q] # 0
  BY <1>1, <1>2
<1> HIDE DEF on
<1>4. /\ e \in [rev : Nat, version : Versions, on : SUBSET Plugins]
      /\ e.rev = env.rev + 1 /\ e.on = on /\ e.version = env.version
  BY <1>1, <1>3
<1> HIDE DEF e
<1>5. env' = e
  BY <1>2 DEF Change
<1>6. QED
  BY <1>2, <1>3, <1>4, <1>5 DEF Changes

LEMMA InstallIs ==
    ASSUME TypeOK, NEW p \in Plugins, Install(p)
    PROVE  /\ Changes(env') /\ env'.rev = env.rev + 1 /\ env'.on = env.on
           /\ env'.version[p] # 0 /\ env'.version[p] = env.version[p] + 1
           /\ \A q \in Plugins \ {p} : env'.version[q] = env.version[q]
<1>1. /\ env \in [rev : Nat, version : Versions, on : SUBSET Plugins] /\ env.rev + 1 \in Nat
      /\ \A q \in env.on : env.version[q] # 0
      /\ env.version \in [Plugins -> 0 .. MaxVersion] /\ MaxVersion \in Nat
  BY ZeroType DEF TypeOK, Versions
<1> DEFINE v == [env.version EXCEPT ![p] = env.version[p] + 1]
           e == [env EXCEPT !.rev = env.rev + 1, !.version = v]
<1>2. Change(e) /\ env.version[p] < MaxVersion
  BY <1>1 DEF Install
<1>3. env.version[p] + 1 \in 0 .. MaxVersion /\ env.version[p] + 1 # 0
  BY <1>1, <1>2
<1>4. /\ v \in [Plugins -> 0 .. MaxVersion] /\ v[p] = env.version[p] + 1
      /\ \A q \in Plugins \ {p} : v[q] = env.version[q]
  BY <1>1, <1>3
<1> HIDE DEF v
<1>5. /\ e \in [rev : Nat, version : Versions, on : SUBSET Plugins]
      /\ e.rev = env.rev + 1 /\ e.on = env.on /\ e.version = v
  BY <1>1, <1>4 DEF Versions
<1> HIDE DEF e
<1>6. env' = e
  BY <1>2 DEF Change
<1>7. \A q \in e.on : e.version[q] # 0
  BY <1>1, <1>3, <1>4, <1>5
<1>8. QED
  BY <1>2, <1>3, <1>4, <1>5, <1>6, <1>7 DEF Changes

LEMMA EditIs ==
    ASSUME TypeOK, NEW p \in Plugins, Edit(p)
    PROVE  /\ Changes(env') /\ env'.rev = env.rev /\ env'.on = env.on /\ p \in Development
           /\ env'.version[p] # 0 /\ env.version[p] # 0
           /\ \A q \in Plugins \ {p} : env'.version[q] = env.version[q]
<1>1. /\ env \in [rev : Nat, version : Versions, on : SUBSET Plugins]
      /\ \A q \in env.on : env.version[q] # 0
      /\ env.version \in [Plugins -> 0 .. MaxVersion] /\ MaxVersion \in Nat
  BY ZeroType DEF TypeOK, Versions
<1> DEFINE v == [env.version EXCEPT ![p] = env.version[p] + 1]
           e == [env EXCEPT !.version = v]
<1>2. Change(e) /\ env.version[p] \in 1 .. MaxVersion - 1 /\ p \in Development
  BY <1>1 DEF Edit
<1>3. env.version[p] + 1 \in 0 .. MaxVersion /\ env.version[p] + 1 # 0 /\ env.version[p] # 0
  BY <1>1, <1>2
<1>4. /\ v \in [Plugins -> 0 .. MaxVersion] /\ v[p] = env.version[p] + 1
      /\ \A q \in Plugins \ {p} : v[q] = env.version[q]
  BY <1>1, <1>3
<1> HIDE DEF v
<1>5. /\ e \in [rev : Nat, version : Versions, on : SUBSET Plugins]
      /\ e.rev = env.rev /\ e.on = env.on /\ e.version = v
  BY <1>1, <1>4 DEF Versions
<1> HIDE DEF e
<1>6. env' = e
  BY <1>2 DEF Change
<1>7. \A q \in e.on : e.version[q] # 0
  BY <1>1, <1>3, <1>4, <1>5
<1>8. QED
  BY <1>2, <1>3, <1>4, <1>5, <1>6, <1>7 DEF Changes

\* The initial states.
LEMMA InitControl ==
    ASSUME Init
    PROVE  Control
<1>1. /\ env.rev = 1 /\ env.version = [p \in Plugins |-> 1] /\ env.on \subseteq Plugins
      /\ env \in [rev : Nat, version : Versions, on : SUBSET Plugins]
  BY ZeroType DEF Versions, Init
<1>2. \A t \in Everyone : task[t] = Idle
  BY DEF Init
<1>3. \A u \in Everyone : Shaped(u)
  BY <1>2, IdleType DEF Shaped, Phased, Busy, Enabling, Unpublished, Published
<1>4. \A u \in Tasks : Solitary(u)
  BY <1>2, ZeroType DEF Solitary
<1>5. Coordinating
  BY <1>2, ZeroType, IdleType DEF Coordinating, Init
<1>6. TypeOK
  <2>1. \A p \in env.on : env.version[p] # 0
    BY <1>1
  <2>2. task \in [Everyone -> TaskRecords]
    BY IdleType DEF Init
  <2>3. [p \in Plugins |-> 0] \in Versions
    BY ZeroType DEF Versions
  <2>4. store \in Versions /\ consents \in Versions /\ active \in Versions
    BY <2>3 DEF Init
  <2>5. outcome \in [do : Operations, id : Plugins \cup {Nobody}, ok : BOOLEAN]
    BY DEF Init, Operations
  <2>6. ops \in 0 .. MaxOps /\ changes \in 0 .. MaxChanges /\ faults \in 0 .. MaxFaults
    BY ZeroType DEF Init
  <2>7. /\ applied \in 0 .. pending /\ pending \in 0 .. env.rev /\ read \in 0 .. env.rev
        /\ events \subseteq 1 .. env.rev
    BY <1>1 DEF Init
  <2>8. /\ status \in [Plugins -> {"disabled", "enabled", "error"}]
        /\ {enabledIds, registered, realms} \subseteq SUBSET Plugins
        /\ host \in {"start", "loading", "ready", "failed"} /\ unlisted \in BOOLEAN
    BY DEF Init
  <2>9. QED
    BY <1>1, <2>1, <2>2, <2>4, <2>5, <2>6, <2>7, <2>8 DEF TypeOK
<1>7. QED
  BY <1>3, <1>4, <1>5, <1>6 DEF Control, Ordered

LEMMA SameControl ==
    ASSUME Control, UNCHANGED vars
    PROVE  Control'
<1>1. /\ task' = task /\ env' = env /\ events' = events /\ read' = read /\ host' = host
      /\ applied' = applied /\ pending' = pending
  BY DEF vars, announced, applying, listing
<1>2. \A u \in Everyone : Shaped(u)'
  BY <1>1, SameShape DEF Control, Ordered
<1>3. (\A u \in Tasks : Solitary(u)') /\ Coordinating'
  BY <1>1 DEF Control, Ordered, Solitary, Coordinating
<1>4. TypeOK'
  BY <1>1 DEF Control, TypeOK, vars, shown, running, listing, bounds, Versions
<1>5. QED
  BY <1>2, <1>3, <1>4 DEF Control, Ordered

\* Who does what is kept.
LEMMA NextControl ==
    ASSUME ~Overlap, Control, [Next]_vars
    PROVE  Control'
<1>1. ASSUME NEW t \in Everyone, TaskStep(t)
      PROVE  Control'
  BY <1>1, NextLevelControl, BeginStopControl, StoppedControl, UndoneControl, DisabledControl,
     RevokedControl, FetchControl, ReenableControl, ChainActivatedControl, ReadEnvironmentControl,
     WriteControl, WriteRefusedControl, JoinControl, ResumeControl, RejectedControl, ListControl,
     ReloadedControl, LoadControl, ActivatedControl
  DEF TaskStep
<1>2. ASSUME NEW t \in Everyone, Failure(t)
      PROVE  Control'
  BY <1>2, FetchFailsControl, ListFailsControl, WriteRefusedControl, LoadFailsControl,
     ActivateFailsControl
  DEF Failure
<1>3. ASSUME NEW t \in Tasks, NEW p \in Plugins, User(t, p)
      PROVE  Control'
  BY <1>3, StartEnableControl, StartDisableControl, StartRemoveControl, StartReloadOneControl,
     StartRevokeControl
  DEF User
<1>4. ASSUME NEW p \in Plugins, Toggle(p) \/ Install(p) \/ Edit(p)
      PROVE  Control'
  BY <1>4, ToggleIs, InstallIs, EditIs, ChangeControl DEF Control
<1>5. Hears => Control'
  BY EventControl DEF Hears
<1>6. QED
  BY <1>1, <1>2, <1>3, <1>4, <1>5, StartReloadControl, GrantConsentControl, StartControl, SameControl
  DEF Next

\* An operation that has written nothing is alone.
LEMMA Alone ==
    ASSUME Control, NEW t \in Tasks, task[t] # Idle, task[t].published = 0
    PROVE  \A u \in Everyone : u # t => task[u] = Idle
  BY ZeroType DEF Control, Ordered, Solitary

LEMMA AloneDoes ==
    ASSUME Control, NEW t \in Tasks,
           \/ task[t].do \in {"reload", "reloadOne", "revoke"}
           \/ task[t].at = "activate"
           \/ task[t].do \in {"enable", "disable"} /\ task[t].at \in {"read", "write"}
    PROVE  /\ task[t] # Idle /\ task[t].published = 0
           /\ \A u \in Everyone : u # t => task[u] = Idle
  BY ZeroType, IdleType, Alone DEF Control, Ordered, Shaped, Unpublished

\* One task at a time activates.
LEMMA OneActivates ==
    ASSUME Control, NEW t \in Everyone, NEW u \in Everyone,
           task[t].at = "activate" \/ task[t].do = "reload",
           task[u].at = "activate" \/ task[u].do = "reload"
    PROVE  t = u
<1>1. task[t] # Idle /\ task[u] # Idle
  BY IdleType
<1>2. CASE t \in Tasks
  BY <1>1, <1>2, AloneDoes
<1>3. CASE u \in Tasks
  BY <1>1, <1>3, AloneDoes
<1>4. QED
  BY <1>2, <1>3, ZeroType

\* What a task has in hand it has while it activates.
LEMMA BusyActivates ==
    ASSUME Control, NEW t \in Everyone, NEW p \in Plugins, task[t].doing[p] # "no" \/ Ahead(t, p)
    PROVE  task[t].at = "activate" /\ task[t] # Idle
<1>1. Shaped(t)
  BY DEF Control, Ordered
<1>2. task[t].at # "activate" => task[t].levels = <<>> /\ task[t].doing[p] = "no"
  BY <1>1 DEF Shaped, Busy
<1>3. task[t].levels = <<>> => ~Ahead(t, p)
  BY DEF Ahead
<1>4. QED
  BY <1>2, <1>3, IdleType

-----------------------------------------------------------------------------
\* What runs, what is registered, and what is shown of it.

\* A task is stopping the plugin, or activating it: it has its registrations.
Stops(t, p) == task[t].at \in {"stopping", "undoing"} /\ Head(task[t].stops) = p
Holds(t, p) == task[t].doing[p] = "activate" \/ Stops(t, p)

\* What is registered is of what runs, or of what one task has in hand.
Held(p) ==
    /\ p \in registered <=> active[p] # 0 \/ \E t \in Everyone : Holds(t, p)
    /\ active[p] # 0 => \A t \in Everyone : ~Holds(t, p)
    /\ \A t, u \in Everyone : Holds(t, p) /\ Holds(u, p) => t = u

\* What runs is in the store, at the version there.
Fits(p) == active[p] # 0 => store[p] # 0 /\ (p \notin Development => active[p] = store[p])

\* What a task activates, or is to, is in the store; a reload activates what does not run.
InHand(t, p) ==
    /\ task[t].doing[p] # "no" => task[t].gen[p] = store[p] /\ store[p] # 0 /\ active[p] = 0
    /\ Ahead(t, p) => store[p] # 0
    /\ task[t].do = "reload" /\ Ahead(t, p) => active[p] = 0 /\ task[t].doing[p] = "no"
Apart(t) ==
    /\ task[t].do = "reload" =>
          \A i, j \in DOMAIN task[t].levels : i # j => task[t].levels[i] \cap task[t].levels[j] = {}
    /\ task[t].do = "reloadOne" => store[task[t].id] # 0

\* A reload stops all that runs.
Stopping(t) == task[t].do = "reload" /\ task[t].at \in {"stop", "stopping"}
Sweeps(t) == Stopping(t) => \A p \in Plugins : active[p] # 0 => p \in Range(task[t].stops)

\* What is shown is what runs, or is being stopped.
Tells(p) ==
    store[p] # 0 =>
       /\ active[p] # 0 => status[p] = "enabled"
       /\ ~unlisted /\ status[p] = "enabled" /\ active[p] = 0 =>
             \E t \in Everyone : Stopping(t) \/ Stops(t, p)

Still == host \in {"start", "failed"} => \A p \in Plugins : active[p] = 0

Running ==
    /\ \A p \in Plugins : Held(p) /\ Fits(p) /\ Tells(p)
    /\ \A t \in Everyone : Apart(t) /\ Sweeps(t) /\ \A p \in Plugins : InHand(t, p)
    /\ Still

\* A task that turns to something else, with nothing in hand before and after.
Free(t) == task[t].at \notin {"stopping", "undoing"} /\ \A p \in Plugins : task[t].doing[p] = "no"
Turns(t) ==
    /\ Free(t) /\ Free(t)'
    /\ \A p \in Plugins : Ahead(t, p)' =>
          task'[t].do # "reload" /\ store[p] # 0 /\ PendingConsentChain(p, store) = {}
    /\ Apart(t)'
    /\ Stopping(t)' => task'[t].stops = Actives
    /\ Stopping(t) => Stopping(t)' \/ unlisted'

\* A step that leaves what runs and what is shown.
Calm ==
    /\ store' = store /\ active' = active /\ registered' = registered /\ status' = status
    /\ realms' = realms
    /\ unlisted => unlisted'
    /\ Still'
    /\ \A t \in Everyone : task'[t] = task[t] \/ Turns(t)

LEMMA CalmRunning ==
    ASSUME Control, Running, Calm
    PROVE  Running'
<1>1. /\ store' = store /\ active' = active /\ registered' = registered /\ status' = status
      /\ unlisted => unlisted'
  BY DEF Calm
<1>2. \A t \in Everyone : \A p \in Plugins : Stops(t, p)' <=> Stops(t, p)
  <2>1. SUFFICES ASSUME NEW t \in Everyone, NEW p \in Plugins
                 PROVE  Stops(t, p)' <=> Stops(t, p)
    OBVIOUS
  <2>2. CASE task'[t] = task[t]
    BY <2>2 DEF Stops
  <2>3. CASE Turns(t)
    BY <2>3 DEF Turns, Free, Stops
  <2>4. QED
    BY <2>2, <2>3 DEF Calm
<1>3. \A t \in Everyone : \A p \in Plugins : Holds(t, p)' <=> Holds(t, p)
  <2>1. SUFFICES ASSUME NEW t \in Everyone, NEW p \in Plugins
                 PROVE  Holds(t, p)' <=> Holds(t, p)
    OBVIOUS
  <2>2. CASE task'[t] = task[t]
    BY <2>2 DEF Holds, Stops
  <2>3. CASE Turns(t)
    BY <2>3 DEF Turns, Free, Holds, Stops
  <2>4. QED
    BY <2>2, <2>3 DEF Calm
<1>4. \A p \in Plugins : Held(p)' /\ Fits(p)'
  BY <1>1, <1>3 DEF Running, Held, Fits
<1>5. \A p \in Plugins : Tells(p)'
  <2>1. SUFFICES ASSUME NEW p \in Plugins, ~unlisted', status[p] = "enabled", active[p] = 0,
                        store[p] # 0
                 PROVE  \E t \in Everyone : Stopping(t)' \/ Stops(t, p)'
    BY <1>1 DEF Running, Tells
  <2>2. ~unlisted
    BY <1>1, <2>1
  <2>3. PICK t \in Everyone : Stopping(t) \/ Stops(t, p)
    BY <2>1, <2>2 DEF Running, Tells
  <2>4. CASE Stops(t, p)
    BY <1>2, <2>4
  <2>5. CASE Stopping(t)
    BY <2>5, <2>1 DEF Stopping, Turns, Calm
  <2>6. QED
    BY <2>3, <2>4, <2>5
<1>6. ASSUME NEW t \in Everyone
      PROVE  Apart(t)' /\ Sweeps(t)' /\ \A p \in Plugins : InHand(t, p)'
  <2>1. CASE task'[t] = task[t]
    BY <1>1, <2>1 DEF Running, Apart, Sweeps, Stopping, InHand, Ahead
  <2>2. CASE Turns(t)
    <3>1. Apart(t)'
      BY <2>2 DEF Turns
    <3>2. Sweeps(t)'
      BY <1>1, <2>2, ActivesHold DEF Turns, Sweeps
    <3>3. \A p \in Plugins : InHand(t, p)'
      BY <1>1, <2>2 DEF Turns, Free, InHand
    <3>4. QED
      BY <3>1, <3>2, <3>3
  <2>3. QED
    BY <2>1, <2>2 DEF Calm
<1>7. QED
  BY <1>4, <1>5, <1>6 DEF Running, Calm

\* What runs and is shown stays, and the host.
Rests ==
    /\ store' = store /\ active' = active /\ registered' = registered /\ status' = status
    /\ realms' = realms /\ unlisted' = unlisted /\ host' = host

LEMMA OneTurns ==
    ASSUME Running, Rests, NEW t, Others(t), Turns(t)
    PROVE  Calm
  BY DEF Running, Rests, Others, Calm, Still

LEMMA IdleTurns ==
    ASSUME NEW t, Free(t), task'[t] = Idle, Stopping(t) => unlisted'
    PROVE  Turns(t)
  BY IdleType DEF Free, Turns, Ahead, Apart, Stopping

LEMMA MovesTurns ==
    ASSUME NEW t, Free(t), Apart(t), store' = store, task'[t].do = task[t].do, task'[t].id = task[t].id,
           task'[t].doing = task[t].doing, task'[t].levels = <<>>,
           task'[t].at \notin {"stopping", "undoing"}, task[t].do # "reload"
    PROVE  Turns(t)
  BY DEF Free, Turns, Ahead, Apart, Stopping

\* A task that neither activates nor is stopping a plugin has nothing in hand.
LEMMA FreeAt ==
    ASSUME Control, NEW t \in Everyone, task[t].at \notin {"stopping", "undoing"},
           task[t].at # "activate" \/ (Busy(t) = {} /\ task[t].levels = <<>>)
    PROVE  Free(t) /\ task[t].levels = <<>>
  BY DEF Control, Ordered, Shaped, Free, Busy

\* An operation that ends.
LEMMA EndsCalm ==
    ASSUME Control, Running, Rests, NEW t \in Everyone, NEW how, Ends(t, how), Free(t), ~Stopping(t)
    PROVE  Calm
  BY EndsEffect, IdleTurns, OneTurns DEF Control

LEMMA UndoneCalm ==
    ASSUME Control, Running, NEW t \in Everyone, Undone(t)
    PROVE  Calm
  BY FreeAt, EndsCalm DEF Undone, Stopping, Rests, applying, shown, running, listing

LEMMA DisabledCalm ==
    ASSUME Control, Running, NEW t \in Everyone, Disabled(t)
    PROVE  Calm
  BY FreeAt, EndsCalm DEF Disabled, AllStopped, Stopping, Rests, applying, shown, running,
     listing

LEMMA RevokedCalm ==
    ASSUME Control, Running, NEW t \in Everyone, Revoked(t)
    PROVE  Calm
  BY FreeAt, EndsCalm DEF Revoked, AllStopped, Stopping, Rests, applying, shown, running, listing

\* A plugin the code of which is not read anew.
Unread(t) == Fetch(t) /\ \E how : Ends(t, how) /\ store' = store

LEMMA UnreadCalm ==
    ASSUME Control, Running, NEW t \in Everyone, Unread(t)
    PROVE  Calm
  BY FreeAt, EndsCalm DEF Unread, Fetch, Stopping, Rests, applying, shown, running, listing

LEMMA FetchFailsCalm ==
    ASSUME Control, Running, NEW t \in Everyone, FetchFails(t)
    PROVE  Calm
  BY FreeAt, EndsCalm DEF FetchFails, Stopping, Rests, applying, shown, running, listing

\* What is consented to with all it needs is so with each part of it.
LEMMA ChainConsented ==
    ASSUME NEW p \in Plugins, NEW s, PendingConsentChain(p, s) = {}
    PROVE  \A q \in Range(Chain(p, s)) : q \in Plugins /\ s[q] # 0 /\ PendingConsentChain(q, s) = {}
  BY ChainHolds DEF PendingConsentChain

\* A chain taken one by one.
LEMMA ChainTurns ==
    ASSUME NEW t, NEW p \in Plugins, Free(t), store' = store, task[t].do # "reload",
           PendingConsentChain(p, store) = {},
           task'[t].do = "reloadOne" => store[task'[t].id] # 0,
           task'[t].levels = OneByOne(Chain(p, store)),
           \A q \in Plugins : task'[t].doing[q] = "no", task'[t].at = "activate",
           task'[t].do # "reload"
    PROVE  Turns(t) /\ \A q \in Plugins : Ahead(t, q)' <=> q \in Range(Chain(p, store))
<1> DEFINE chain == Chain(p, store)
<1>1. chain \in Seq(Plugins) /\ \A q \in Range(chain) :
         q \in Plugins /\ store[q] # 0 /\ PendingConsentChain(q, store) = {}
  BY ChainHolds, ChainConsented
<1> HIDE DEF chain
<1>2. \A q \in Plugins : Ahead(t, q)' <=> q \in Range(chain)
  BY <1>1, OneByOneLevels DEF chain, Ahead
<1>3. Free(t)' /\ Apart(t)' /\ ~Stopping(t)' /\ ~Stopping(t)
  BY DEF Free, Apart, Stopping
<1>4. QED
  BY <1>1, <1>2, <1>3 DEF Turns, chain

LEMMA ReenableCalm ==
    ASSUME Control, Running, NEW t \in Everyone, Reenable(t)
    PROVE  Calm
<1>1. Free(t) /\ ~Stopping(t) /\ task[t].do = "reloadOne" /\ task[t].levels = <<>> /\ TypeOK
  BY FreeAt DEF Control, Reenable, AllStopped, Stopping
<1>2. Rests
  BY DEF Reenable, Rests, applying, shown, running, listing
<1>3. CASE \E how : Ends(t, how)
  BY <1>1, <1>2, <1>3, EndsCalm
<1>4. CASE /\ task' = [task EXCEPT ![t].at = "activate",
                                   ![t].levels = OneByOne(Chain(task[t].id, store))]
           /\ PendingConsentChain(task[t].id, store) = {}
  <2> DEFINE id == task[t].id
             l == OneByOne(Chain(id, store))
  <2>1. id \in Plugins /\ store[id] # 0
    BY <1>1 DEF Control, Ordered, Shaped, Running, Apart
  <2> HIDE DEF id
  <2>2. l \in Seq(SUBSET Plugins)
    BY <2>1, ChainHolds, OneByOneLevels
  <2> HIDE DEF l
  <2>3. /\ Others(t) /\ task'[t].do = task[t].do /\ task'[t].id = task[t].id
        /\ task'[t].at = "activate" /\ task'[t].levels = l /\ task'[t].doing = task[t].doing
    BY <1>1, <1>4, <2>2, LevelsEffect DEF l, id
  <2>4. Turns(t)
    BY <1>1, <1>2, <1>4, <2>1, <2>3, ChainTurns DEF l, id, Rests, Free
  <2>5. QED
    BY <1>2, <2>3, <2>4, OneTurns
<1>5. QED
  BY <1>3, <1>4 DEF Reenable

LEMMA ChainActivatedCalm ==
    ASSUME Control, Running, NEW t \in Everyone, ChainActivated(t)
    PROVE  Calm
<1>1. Free(t) /\ ~Stopping(t) /\ task[t].levels = <<>> /\ task[t].do # "reload" /\ TypeOK
  BY FreeAt DEF Control, ChainActivated, ActivatedAll, Enabling, Stopping
<1>2. Rests
  BY DEF ChainActivated, Rests, applying, shown, running, listing
<1>3. CASE task[t].do = "enable"
  BY <1>1, <1>3, MovesEffect, <1>2, MovesTurns, OneTurns DEF ChainActivated, Points, OnlyMoves,
     Running, Rests
<1>4. CASE task[t].do # "enable"
  BY <1>1, <1>2, <1>4, EndsCalm DEF ChainActivated
<1>5. QED
  BY <1>3, <1>4

LEMMA ReadEnvironmentCalm ==
    ASSUME Control, Running, NEW t \in Everyone, ReadEnvironment(t)
    PROVE  Calm
<1>1. Free(t) /\ task[t].levels = <<>> /\ TypeOK
  BY FreeAt DEF Control, ReadEnvironment
<1>2. task[t].do # "reload"
  BY DEF Control, Ordered, Shaped, Phased, ReadEnvironment
<1>3. Rests
  BY DEF ReadEnvironment, Rests, applying, shown, running, listing
<1>4. Turns(t) /\ Others(t)
  BY <1>1, <1>2, <1>3, ReadEffect, MovesTurns DEF Running, Rests
<1>5. QED
  BY <1>3, <1>4, OneTurns

LEMMA WriteCalm ==
    ASSUME Control, Running, NEW t \in Everyone, Write(t)
    PROVE  Calm
<1>1. /\ Free(t) /\ task[t].levels = <<>> /\ TypeOK
      /\ task[t].do \in {"enable", "disable", "remove"} /\ Accepted(t)
      /\ task[t].do = "remove" => task[t].stops # <<>>
      /\ task[t].id \in Plugins
  BY FreeAt, WriteHas DEF Control, Write
<1>2. env'.rev \in Nat
  BY <1>1, WrittenEffect DEF Write
<1>3. Rests
  BY DEF Write, Rests, applying, shown, running, listing
<1>4. Turns(t) /\ Others(t)
  BY <1>1, <1>2, <1>3, WriteEffect, MovesTurns DEF Running, Rests
<1>5. QED
  BY <1>3, <1>4, OneTurns

LEMMA UndoTurns ==
    ASSUME Control, Running, NEW t \in Everyone, Free(t), task[t].levels = <<>>,
           task[t].do = "enable", store' = store,
           task' = [task EXCEPT ![t].at = "undo", ![t].stops = Reverse(task[t].did)]
    PROVE  Turns(t) /\ Others(t)
<1>1. TypeOK /\ Reverse(task[t].did) \in Seq(Plugins) /\ "undo" \in Points
  BY TaskType, ReversedRange DEF Control, Points
<1>2. /\ Others(t) /\ task'[t].do = task[t].do /\ task'[t].id = task[t].id /\ task'[t].at = "undo"
      /\ task'[t].levels = task[t].levels /\ task'[t].doing = task[t].doing
  BY <1>1, StopsEffect
<1>3. QED
  BY <1>2, MovesTurns DEF Running

LEMMA WriteRefusedCalm ==
    ASSUME Control, Running, NEW t \in Everyone, WriteRefused(t)
    PROVE  Calm
<1>1. /\ Free(t) /\ task[t].levels = <<>> /\ TypeOK /\ ~Stopping(t)
      /\ task[t].do \in {"enable", "disable", "remove"}
  BY FreeAt, WriteHas DEF Control, WriteRefused, Stopping
<1>2. Rests
  BY DEF WriteRefused, Rests, applying, shown, running, listing
<1>3. CASE task[t].do = "enable"
  BY <1>3, <1>1, <1>2, UndoTurns, OneTurns DEF WriteRefused, Refused, Rests
<1>4. CASE task[t].do = "remove" /\ task[t].published # 0
  BY <1>4, <1>1, <1>2, LeavesEffect, MovesTurns, OneTurns DEF WriteRefused, Refused, Running,
     Rests
<1>5. CASE task[t].do = "disable" \/ (task[t].do = "remove" /\ task[t].published = 0)
  BY <1>5, <1>1, <1>2, EndsCalm DEF WriteRefused, Refused
<1>6. QED
  BY <1>1, <1>3, <1>4, <1>5

LEMMA RejectedCalm ==
    ASSUME Control, Running, NEW t \in Everyone, Rejected(t)
    PROVE  Calm
<1>1. Free(t) /\ task[t].levels = <<>> /\ ~Stopping(t)
  BY FreeAt DEF Rejected, Stopping
<1>2. Rests
  BY DEF Rejected, Rests, applying, shown, running, listing
<1>3. CASE task[t].do = "enable"
  BY <1>1, <1>2, <1>3, UndoTurns, OneTurns DEF Rejected, Rests
<1>4. CASE task[t].do # "enable"
  BY <1>1, <1>2, <1>4, EndsCalm DEF Rejected
<1>5. QED
  BY <1>3, <1>4

LEMMA ResumeCalm ==
    ASSUME Control, Running, NEW t \in Everyone, Resume(t)
    PROVE  Calm
<1>1. /\ Free(t) /\ task[t].levels = <<>> /\ ~Stopping(t) /\ TypeOK
      /\ task[t].do \in {"enable", "disable", "remove"} /\ task[t].id \in Plugins
  BY FreeAt DEF Control, Ordered, Shaped, Phased, Resume, Stopping
<1>2. Rests
  BY DEF Resume, Rests, applying, shown, running, listing
<1>3. CASE task[t].do = "disable"
  <2>1. /\ task' = [task EXCEPT ![t].at = "stop", ![t].stops = <<task[t].id>>]
        /\ <<task[t].id>> \in Seq(Plugins) /\ "stop" \in Points
    BY <1>1, <1>3 DEF Resume, Points
  <2>2. /\ Others(t) /\ task'[t].do = task[t].do /\ task'[t].id = task[t].id /\ task'[t].at = "stop"
        /\ task'[t].levels = task[t].levels /\ task'[t].doing = task[t].doing
    BY <1>1, <2>1, StopsEffect
  <2>3. Turns(t)
    BY <1>1, <1>2, <1>3, <2>2, MovesTurns DEF Running, Rests
  <2>4. QED
    BY <1>2, <2>2, <2>3, OneTurns
<1>4. CASE task[t].do # "disable"
  BY <1>1, <1>4, <1>2, EndsCalm DEF Resume
<1>5. QED
  BY <1>3, <1>4

\* The coordinator begins.
LEMMA ReloadTurns ==
    ASSUME NEW t, NEW n \in Nat, Free(t), task'[t] = ReloadFor(n), ~Stopping(t)
    PROVE  Turns(t)
<1>1. /\ task'[t].do = "reload" /\ task'[t].at = "stop" /\ task'[t].levels = <<>>
      /\ task'[t].stops = Actives /\ \A p \in Plugins : task'[t].doing[p] = "no"
  BY ReloadTask
<1>2. Free(t)'
  BY <1>1 DEF Free
<1>3. DOMAIN task'[t].levels = {}
  BY <1>1
<1>4. Apart(t)' /\ \A p \in Plugins : ~Ahead(t, p)'
  BY <1>1, <1>3 DEF Apart, Ahead
<1>5. QED
  BY <1>1, <1>2, <1>4 DEF Turns

LEMMA IdleFree ==
    ASSUME NEW t, task[t] = Idle
    PROVE  Free(t) /\ ~Stopping(t)
  BY IdleType DEF Free, Stopping

\* What is heard of leaves what runs.
LEMMA HearCalm ==
    ASSUME Control, Running, Rests, NEW n \in Nat, NEW waiting \in [Everyone -> TaskRecords],
           waiting[Coordinator] = task[Coordinator], Hear(n, waiting),
           \A u \in Tasks : waiting[u] = task[u] \/ (task'[u] = waiting[u] => Turns(u))
    PROVE  Calm
<1>1. /\ \A u \in Tasks : task'[u] = waiting[u]
      /\ task[Coordinator] # Idle => task'[Coordinator] = task[Coordinator]
      /\ task[Coordinator] = Idle => task'[Coordinator] = ReloadFor(pending')
      /\ pending' \in Nat
  BY HearEffect DEF Control
<1>2. task'[Coordinator] = task[Coordinator] \/ Turns(Coordinator)
  BY <1>1, IdleFree, ReloadTurns
<1>3. \A t \in Everyone : task'[t] = task[t] \/ Turns(t)
  BY <1>1, <1>2, ZeroType
<1>4. QED
  BY <1>3 DEF Running, Rests, Calm, Still

LEMMA EventCalm ==
    ASSUME Control, Running, NEW rev \in events, Event(rev)
    PROVE  Calm
<1>1. TypeOK /\ rev \in Nat /\ task \in [Everyone -> TaskRecords]
  BY Revisions DEF Control, TypeOK
<1>2. CASE rev > applied
  <2>1. Hear(rev, task)
    BY <1>2 DEF Event
  <2>2. host' = host
    BY <2>1 DEF Hear
  <2>3. Rests
    BY <2>2 DEF Event, Rests, shown, running, listing
  <2>4. QED
    BY <1>1, <2>1, <2>3, HearCalm
<1>3. CASE ~(rev > applied)
  BY <1>3 DEF Event, Rests, shown, running, listing, applying, Running, Calm, Still
<1>4. QED
  BY <1>2, <1>3

LEMMA JoinCalm ==
    ASSUME Control, Running, NEW t \in Everyone, Join(t)
    PROVE  Calm
<1>1. /\ TypeOK /\ t \in Tasks /\ t # Coordinator /\ task[t].published \in Nat
      /\ Free(t) /\ task[t].levels = <<>>
  BY Whose, FreeAt, TaskType DEF Control, Join
<1>2. task[t].do # "reload"
  BY DEF Control, Ordered, Shaped, Phased, Join
<1>3. CASE task[t].published > applied
  <2> DEFINE r == [task[t] EXCEPT !.at = "joined"]
             waiting == [task EXCEPT ![t] = r]
  <2>1. Hear(task[t].published, waiting)
    BY <1>1, <1>3, TaskType DEF Join, TypeOK, TaskRecords
  <2>2. /\ r \in TaskRecords /\ r.do = task[t].do /\ r.id = task[t].id /\ r.at = "joined"
        /\ r.levels = task[t].levels /\ r.doing = task[t].doing
    BY <1>1, TaskType DEF TaskRecords, Points
  <2> HIDE DEF r
  <2>3. /\ waiting \in [Everyone -> TaskRecords] /\ waiting[Coordinator] = task[Coordinator]
        /\ waiting[t] = r /\ \A u \in Tasks \ {t} : waiting[u] = task[u]
    BY <1>1, <2>2, ZeroType DEF TypeOK
  <2> HIDE DEF waiting
  <2>4. host' = host
    BY <2>1 DEF Hear
  <2>5. Rests
    BY <2>4 DEF Join, Rests, shown, running, listing
  <2>6. task'[t] = waiting[t] => Turns(t)
    BY <1>1, <1>2, <2>2, <2>3, <2>5, MovesTurns DEF Running, Rests
  <2>7. QED
    BY <1>1, <2>1, <2>3, <2>5, <2>6, HearCalm
<1>4. CASE ~(task[t].published > applied)
  <2>1. task' = [task EXCEPT ![t].at = "resumed"] /\ "resumed" \in Points
    BY <1>4 DEF Join, Points
  <2>2. Rests
    BY <1>4 DEF Join, Rests, applying, shown, running, listing
  <2>3. OnlyMoves(t, "resumed")
    BY <1>1, <2>1, MovesEffect
  <2>4. Turns(t)
    BY <1>1, <1>2, <2>2, <2>3, MovesTurns DEF OnlyMoves, Running, Rests
  <2>5. QED
    BY <2>2, <2>3, <2>4, OneTurns DEF OnlyMoves
<1>5. QED
  BY <1>3, <1>4

\* Those who waited go on.
LEMMA JoinedTurns ==
    ASSUME Control, Running, NEW answer \in {"resumed", "rejected"}, store' = store,
           Free(Coordinator), Stopping(Coordinator) => unlisted',
           task' = [Joined(answer) EXCEPT ![Coordinator] = Idle]
    PROVE  \A t \in Everyone : task'[t] = task[t] \/ Turns(t)
<1>1. /\ task'[Coordinator] = Idle
      /\ \A u \in Tasks :
            /\ task[u].at # "joined" => task'[u] = task[u]
            /\ task[u].at = "joined" =>
                 /\ task'[u].do = task[u].do /\ task'[u].id = task[u].id
                 /\ task'[u].at = answer
                 /\ task'[u].levels = task[u].levels /\ task'[u].doing = task[u].doing
  BY JoinedEffect DEF Control
<1>2. Turns(Coordinator)
  BY <1>1, IdleTurns
<1>3. ASSUME NEW u \in Tasks, task[u].at = "joined"
      PROVE  Turns(u)
  BY <1>3, ZeroType, FreeAt, <1>1, MovesTurns DEF Control, Ordered, Shaped, Phased, Running
<1>4. QED
  BY <1>1, <1>2, <1>3, ZeroType

LEMMA ReloadedCalm ==
    ASSUME Control, Running, NEW t \in Everyone, Reloaded(t)
    PROVE  Calm
<1>1. TypeOK /\ Free(t) /\ ~Stopping(t)
  BY FreeAt DEF Control, Reloaded, ActivatedAll, Stopping
<1>2. /\ store' = store /\ active' = active /\ registered' = registered /\ status' = status
      /\ realms' = realms /\ unlisted' = unlisted
  BY DEF Reloaded, shown, running, listing
<1>3. host' = host \/ host' = "ready"
  BY DEF Reloaded, applying
<1>4. Still'
  BY <1>2, <1>3 DEF Running, Still
<1>5. CASE \E how : Ends(t, how)
  BY <1>1, <1>5, EndsEffect, IdleTurns, <1>2, <1>4 DEF Calm, Others
<1>6. CASE t = Coordinator /\ task' = [task EXCEPT ![t] = ReloadFor(pending)]
  <2>1. pending \in Nat /\ ReloadFor(pending) \in TaskRecords
    BY <1>1, Revisions, ReloadTask
  <2>2. Others(t) /\ task'[t] = ReloadFor(pending)
    BY <1>1, <1>6, <2>1, Becomes
  <2>3. Turns(t)
    BY <1>1, <2>1, <2>2, ReloadTurns
  <2>4. QED
    BY <1>2, <1>4, <2>2, <2>3 DEF Calm, Others
<1>7. CASE t = Coordinator /\ task' = [Joined("resumed") EXCEPT ![t] = Idle]
  BY <1>1, <1>2, <1>7, JoinedTurns, <1>4 DEF Calm
<1>8. QED
  BY <1>5, <1>6, <1>7 DEF Reloaded

\* A reload that cannot read what there is has stopped all there was.
LEMMA Swept ==
    ASSUME Control, Running, NEW t \in Everyone, AllStopped(t), task[t].do = "reload"
    PROVE  \A p \in Plugins : active[p] = 0
  BY DEF Running, AllStopped, Stopping, Range, Sweeps

LEMMA ListFailsCalm ==
    ASSUME Control, Running, NEW t \in Everyone, ListFails(t)
    PROVE  Calm
<1>1. TypeOK /\ Free(t)
  BY FreeAt DEF Control, ListFails, AllStopped
<1>2. /\ store' = store /\ active' = active /\ registered' = registered /\ status' = status
      /\ realms' = realms /\ unlisted'
  BY DEF ListFails, shown, running
<1>3. \A p \in Plugins : active'[p] = 0
  BY <1>2, Swept DEF ListFails
<1>4. Still'
  BY <1>3 DEF Still
<1>5. CASE t = Coordinator
  BY <1>5, <1>1, <1>2, JoinedTurns, <1>4 DEF ListFails, Calm
<1>6. CASE t # Coordinator
  BY <1>1, <1>6, EndsEffect, <1>2, IdleTurns, <1>4 DEF ListFails, Calm, Others
<1>7. QED
  BY <1>5, <1>6

LEMMA StartCalm ==
    ASSUME Control, Running, Start
    PROVE  Calm
<1>1. TypeOK /\ env.rev \in Nat /\ task[Coordinator] = Idle /\ host' = "loading"
  BY Revisions DEF Control, Ordered, Coordinating, Start
<1>2. task' = [task EXCEPT ![Coordinator] = ReloadFor(env.rev)]
  BY DEF Start
<1>3. Others(Coordinator) /\ task'[Coordinator] = ReloadFor(env.rev)
  BY <1>1, <1>2, ReloadTask, ZeroType, Becomes
<1>4. Turns(Coordinator)
  BY <1>1, <1>3, IdleFree, ReloadTurns
<1>5. /\ store' = store /\ active' = active /\ registered' = registered /\ status' = status
      /\ realms' = realms /\ unlisted' = unlisted
  BY DEF Start, shown, running, listing
<1>6. QED
  BY <1>1, <1>3, <1>4, <1>5 DEF Calm, Others, Still

\* The start of an operation.
LEMMA StartsCalm ==
    ASSUME Control, Running, NEW t \in Tasks, Rests, task[t] = Idle, NEW do, NEW at, Starts(t, do, at),
           at \notin {"stopping", "undoing"}, do = "reloadOne" => store[task'[t].id] # 0,
           do = "reload" /\ at = "stop" => task'[t].stops = Actives
    PROVE  Calm
<1>1. Free(t) /\ ~Stopping(t)
  BY IdleFree
<1>2. /\ Others(t) /\ task'[t].do = do /\ task'[t].at = at /\ task'[t].levels = <<>>
      /\ \A p \in Plugins : task'[t].doing[p] = "no"
  BY DEF Starts
<1>3. DOMAIN task'[t].levels = {}
  BY <1>2
<1>4. \A p \in Plugins : ~Ahead(t, p)'
  BY <1>3 DEF Ahead
<1>5. Apart(t)'
  BY <1>2, <1>3 DEF Apart, Rests
<1>6. Free(t)' /\ (Stopping(t)' => task'[t].stops = Actives)
  BY <1>2 DEF Free, Stopping
<1>7. Turns(t)
  BY <1>1, <1>4, <1>5, <1>6 DEF Turns
<1>8. QED
  BY <1>2, <1>7, OneTurns

LEMMA BeginRests ==
    ASSUME NEW t, NEW r, Begin(t, r), UNCHANGED shown
    PROVE  Rests /\ task[t] = Idle
  BY DEF Begin, Rests, applying, shown, running, listing

LEMMA UserCalm ==
    ASSUME ~Overlap, Control, Running, NEW t \in Tasks, NEW p \in Plugins, User(t, p)
    PROVE  Calm
<1>1. CASE StartEnable(t, p)
  <2>1. /\ Others(t) /\ task'[t].do = "enable" /\ task'[t].at = "activate"
        /\ task'[t].levels = OneByOne(Chain(p, store))
        /\ \A q \in Plugins : task'[t].doing[q] = "no"
    BY <1>1, StartEnableControl
  <2>2. Rests /\ task[t] = Idle
    BY <1>1, BeginRests DEF StartEnable
  <2>3. PendingConsentChain(p, store) = {}
    BY <1>1 DEF StartEnable
  <2>4. Free(t) /\ task[t].do # "reload" /\ store' = store
    BY <2>2, IdleFree, IdleType DEF Rests
  <2>5. Turns(t)
    BY <2>1, <2>3, <2>4, ChainTurns
  <2>6. QED
    BY <2>1, <2>2, <2>5, OneTurns
<1>2. CASE StartDisable(t, p)
  BY <1>2, StartDisableControl, BeginRests, StartsCalm DEF StartDisable
<1>3. CASE StartRemove(t, p)
  BY <1>3, StartRemoveControl, BeginRests, StartsCalm DEF StartRemove
<1>4. CASE StartReloadOne(t, p)
  BY <1>4, StartReloadOneControl, BeginRests, StartsCalm DEF StartReloadOne
<1>5. CASE StartRevoke(t, p)
  BY <1>5, StartRevokeControl, BeginRests, StartsCalm DEF StartRevoke
<1>6. QED
  BY <1>1, <1>2, <1>3, <1>4, <1>5 DEF User

LEMMA StartReloadCalm ==
    ASSUME ~Overlap, Control, Running, NEW t \in Tasks, StartReload(t)
    PROVE  Calm
  BY StartReloadControl, BeginRests, StartsCalm DEF StartReload

LEMMA AsideCalm ==
    ASSUME Running, Rests, task' = task
    PROVE  Calm
  BY DEF Running, Rests, Calm, Still

LEMMA GrantConsentCalm ==
    ASSUME Running, NEW p \in Plugins, GrantConsent(p)
    PROVE  Calm
  BY AsideCalm DEF GrantConsent, Rests, applying, running, listing

LEMMA ChangesCalm ==
    ASSUME Running, NEW e, Changes(e)
    PROVE  Calm
  BY AsideCalm DEF Changes, Change, Rests, applying, shown, running, listing

LEMMA SameCalm ==
    ASSUME Running, UNCHANGED vars
    PROVE  Calm
  BY AsideCalm DEF vars, Rests, applying, shown, running, listing

\* The steps that are calm.
Rereads(t) == Fetch(t) /\ ~Unread(t)
Handles(t) ==
    \/ NextLevel(t) \/ BeginStop(t) \/ Stopped(t) \/ List(t) \/ Rereads(t)
    \/ \E p \in Plugins : Load(t, p) \/ Activated(t, p) \/ LoadFails(t, p) \/ ActivateFails(t, p)

LEMMA NextCalm ==
    ASSUME ~Overlap, Control, Running, [Next]_vars
    PROVE  Calm \/ \E t \in Everyone : Handles(t)
<1>1. ASSUME NEW t \in Everyone, TaskStep(t)
      PROVE  Calm \/ Handles(t)
  BY <1>1, UndoneCalm, DisabledCalm, RevokedCalm, UnreadCalm, ReenableCalm, ChainActivatedCalm,
     ReadEnvironmentCalm, WriteCalm, WriteRefusedCalm, JoinCalm, ResumeCalm, RejectedCalm, ReloadedCalm
  DEF TaskStep, Handles, Rereads
<1>2. ASSUME NEW t \in Everyone, Failure(t)
      PROVE  Calm \/ Handles(t)
  BY <1>2, FetchFailsCalm, ListFailsCalm, WriteRefusedCalm DEF Failure, Handles
<1>3. ASSUME NEW p \in Plugins, Toggle(p) \/ Install(p) \/ Edit(p)
      PROVE  Calm
  BY <1>3, ToggleIs, InstallIs, EditIs, ChangesCalm DEF Control
<1>4. Hears => Calm
  BY EventCalm DEF Hears
<1>5. QED
  BY <1>1, <1>2, <1>3, <1>4, UserCalm, StartReloadCalm, GrantConsentCalm, StartCalm, SameCalm DEF Next

\* What is left of the levels when the next is taken.
LEMMA TailLevels ==
    ASSUME TypeOK, NEW t \in Everyone, task[t].levels # <<>>, task'[t].levels = Tail(task[t].levels)
    PROVE  /\ \A i \in DOMAIN task'[t].levels :
                 i + 1 \in DOMAIN task[t].levels /\ task'[t].levels[i] = task[t].levels[i + 1]
           /\ 1 \in DOMAIN task[t].levels /\ Head(task[t].levels) = task[t].levels[1]
           /\ \A i \in DOMAIN task'[t].levels : i \in Nat /\ i + 1 # 1
  BY TaskType, HeadTailProperties, LenProperties, EmptySeq

LEMMA NextLevelRunning ==
    ASSUME Control, Running, NEW t \in Everyone, NextLevel(t)
    PROVE  Running'
<1>1. /\ TypeOK /\ task[t].at = "activate" /\ task[t].levels # <<>>
      /\ \A p \in Plugins : task[t].doing[p] = "no"
      /\ Shaped(t)
  BY DEF Control, Ordered, NextLevel, Busy
<1>2. Rests
  BY DEF NextLevel, Rests, applying, shown, running, listing
<1>3. /\ Others(t)
      /\ task'[t].do = task[t].do /\ task'[t].id = task[t].id /\ task'[t].at = "activate"
      /\ task'[t].levels = Tail(task[t].levels) /\ task'[t].stops = task[t].stops
      /\ \A p \in Plugins : /\ task'[t].doing[p] = IF p \in Taken(t) THEN "load" ELSE "no"
                            /\ p \in Taken(t) => task'[t].gen[p] = store[p]
  BY <1>1, NextLevelEffect
<1>4. \A u \in Everyone : \A p \in Plugins :
         /\ Stops(u, p)' <=> Stops(u, p)
         /\ Holds(u, p)' <=> Holds(u, p)
         /\ Stopping(u)' <=> Stopping(u)
  BY <1>1, <1>3 DEF Others, Stops, Holds, Stopping
<1>5. \A p \in Plugins : Held(p)' /\ Fits(p)' /\ Tells(p)'
  BY <1>2, <1>4 DEF Running, Rests, Held, Fits, Tells
<1>6. /\ \A i \in DOMAIN task'[t].levels :
            i + 1 \in DOMAIN task[t].levels /\ task'[t].levels[i] = task[t].levels[i + 1]
      /\ 1 \in DOMAIN task[t].levels /\ Head(task[t].levels) = task[t].levels[1]
      /\ \A i \in DOMAIN task'[t].levels : i \in Nat /\ i + 1 # 1
  BY <1>1, <1>3, TailLevels
<1>7. ASSUME NEW p \in Plugins
      PROVE  InHand(t, p)'
  <2>1. Ahead(t, p)' => Ahead(t, p)
    BY <1>6 DEF Ahead
  <2>2. p \in Taken(t) => Ahead(t, p) /\ store[p] # 0
    BY <1>6 DEF Ahead, Taken
  <2>3. task[t].do = "reload" /\ Ahead(t, p)' => p \notin Taken(t)
    <3>1. SUFFICES ASSUME task[t].do = "reload", NEW i \in DOMAIN task'[t].levels,
                          p \in task'[t].levels[i]
                   PROVE  p \notin Head(task[t].levels)
      BY DEF Ahead, Taken
    <3>2. p \in task[t].levels[i + 1] /\ i + 1 \in DOMAIN task[t].levels /\ i + 1 # 1
      BY <1>6, <3>1
    <3>3. task[t].levels[i + 1] \cap task[t].levels[1] = {}
      BY <1>6, <3>1, <3>2 DEF Running, Apart
    <3>4. QED
      BY <1>6, <3>2, <3>3
  <2>4. p \in Taken(t) => active[p] = 0
    <3>1. CASE task[t].do = "reload"
      BY <2>2, <3>1 DEF Running, InHand
    <3>2. CASE task[t].do # "reload"
      BY <1>1, <3>2 DEF Shaped, Phased, Enabling, Taken, Running, Tells
    <3>3. QED
      BY <3>1, <3>2
  <2>5. QED
    BY <1>2, <1>3, <2>1, <2>2, <2>3, <2>4 DEF Running, InHand, Rests
<1>8. Apart(t)'
  <2>1. ASSUME task[t].do = "reload", NEW i \in DOMAIN task'[t].levels, NEW j \in DOMAIN task'[t].levels,
               i # j
        PROVE  task'[t].levels[i] \cap task'[t].levels[j] = {}
    BY <1>6, <2>1 DEF Running, Apart
  <2>2. QED
    BY <1>2, <1>3, <2>1 DEF Running, Apart, Rests
<1>9. \A u \in Everyone : Apart(u)' /\ Sweeps(u)' /\ \A p \in Plugins : InHand(u, p)'
  <2>1. Sweeps(t)'
    BY <1>3 DEF Sweeps, Stopping
  <2>2. ASSUME NEW u \in Everyone \ {t}
        PROVE  Apart(u)' /\ Sweeps(u)' /\ \A p \in Plugins : InHand(u, p)'
    BY <1>3, <1>2 DEF Others, Running, Rests, Apart, Sweeps, Stopping, InHand, Ahead
  <2>3. QED
    BY <1>7, <1>8, <2>1, <2>2
<1>10. Still'
  BY <1>2 DEF Running, Rests, Still
<1>11. QED
  BY <1>5, <1>9, <1>10 DEF Running

\* The tasks but one, when the store stays and no more runs.
LEMMA OthersRunning ==
    ASSUME Running, NEW t, Others(t), store' = store,
           \A p \in Plugins : active'[p] # 0 => active'[p] = active[p]
    PROVE  \A u \in Everyone \ {t} : Apart(u)' /\ Sweeps(u)' /\ \A p \in Plugins : InHand(u, p)'
<1>1. SUFFICES ASSUME NEW u \in Everyone \ {t}
               PROVE  Apart(u)' /\ Sweeps(u)' /\ \A p \in Plugins : InHand(u, p)'
  OBVIOUS
<1>2. task'[u] = task[u]
  BY DEF Others
<1>3. Apart(u)' /\ Sweeps(u)'
  BY <1>2 DEF Running, Apart, Sweeps, Stopping
<1>4. \A p \in Plugins : InHand(u, p)'
  BY <1>2 DEF Running, InHand, Ahead
<1>5. QED
  BY <1>3, <1>4

\* An activation that fails.
LEMMA UndoingRunning ==
    ASSUME Control, Running, NEW t \in Everyone, NEW p \in Plugins, Undoing(t, p),
           task[t].doing[p] # "no", store' = store, active' = active, unlisted' = unlisted,
           host' = host
    PROVE  /\ \A q \in Plugins : Fits(q)' /\ Tells(q)'
           /\ \A u \in Everyone : Apart(u)' /\ Sweeps(u)' /\ \A q \in Plugins : InHand(u, q)'
           /\ Still'
           /\ \A u \in Everyone : \A q \in Plugins : Holds(u, q)' <=> Holds(u, q) /\ ~(u = t /\ q = p)
           /\ active[p] = 0
<1>1. TypeOK /\ task[t].at = "activate"
  BY BusyActivates DEF Control
<1>2. /\ Others(t) /\ task'[t].do = task[t].do /\ task'[t].id = task[t].id
      /\ task'[t].doing[p] = "no" /\ task'[t].gen = task[t].gen
      /\ \A q \in Plugins \ {p} : task'[t].doing[q] = task[t].doing[q]
      /\ task'[t].at \in {"activate", "undo"}
      /\ task'[t].levels = task[t].levels \/ (task'[t].levels = <<>> /\ task[t].do # "reload")
  BY <1>1, UndoingEffect DEF Enabling
<1>3. active[p] = 0 /\ InHand(t, p)
  BY DEF Running, InHand
<1>4. \A u \in Everyone : \A q \in Plugins :
         /\ Stops(u, q)' <=> Stops(u, q)
         /\ Holds(u, q)' <=> Holds(u, q) /\ ~(u = t /\ q = p)
         /\ Stopping(u)' <=> Stopping(u)
  <2>1. ASSUME NEW q \in Plugins
        PROVE  /\ Stops(t, q)' <=> Stops(t, q)
               /\ Holds(t, q)' <=> Holds(t, q) /\ ~(q = p)
               /\ Stopping(t)' <=> Stopping(t)
    BY <1>1, <1>2 DEF Stops, Holds, Stopping
  <2>2. ASSUME NEW u \in Everyone \ {t}, NEW q \in Plugins
        PROVE  /\ Stops(u, q)' <=> Stops(u, q)
               /\ Holds(u, q)' <=> Holds(u, q)
               /\ Stopping(u)' <=> Stopping(u)
    BY <1>2 DEF Others, Stops, Holds, Stopping
  <2>3. QED
    BY <2>1, <2>2
<1>5. ASSUME NEW q \in Plugins
      PROVE  Fits(q)' /\ Tells(q)'
  <2>1. Fits(q)'
    BY DEF Running, Fits
  <2>2. CASE q = p
    BY <1>1, <1>3, <2>1, <2>2 DEF Undoing, TypeOK, Tells
  <2>3. CASE q # p
    BY <1>1, <2>3, <1>4, <2>1 DEF Undoing, TypeOK, Running, Tells
  <2>4. QED
    BY <2>2, <2>3
<1>6. \A u \in Everyone : Apart(u)' /\ Sweeps(u)' /\ \A q \in Plugins : InHand(u, q)'
  <2>1. Sweeps(t)'
    BY <1>2 DEF Sweeps, Stopping
  <2>2. Apart(t)'
    BY <1>2 DEF Running, Apart
  <2>3. ASSUME NEW q \in Plugins
        PROVE  InHand(t, q)'
    <3>1. Ahead(t, q)' => Ahead(t, q)
      BY <1>2 DEF Ahead
    <3>2. task'[t].doing[q] # "no" => task[t].doing[q] # "no"
      BY <1>2
    <3>3. InHand(t, q)
      BY DEF Running
    <3>4. QED
      BY <1>2, <3>1, <3>2, <3>3 DEF InHand
  <2>4. QED
    BY <1>2, <2>1, <2>2, <2>3, OthersRunning
<1>7. Still'
  BY DEF Running, Still
<1>8. QED
  BY <1>3, <1>4, <1>5, <1>6, <1>7

LEMMA LoadFailsRunning ==
    ASSUME Control, Running, NEW t \in Everyone, NEW p \in Plugins, LoadFails(t, p)
    PROVE  Running'
<1>1. task[t].doing[p] = "load" /\ Undoing(t, p)
  BY DEF LoadFails
<1>2. /\ store' = store /\ active' = active /\ unlisted' = unlisted /\ host' = host
      /\ registered' = registered
  BY DEF LoadFails, applying, running, listing
<1>3. ~Holds(t, p)
  BY <1>1, BusyActivates DEF Holds, Stops
<1>4. /\ \A q \in Plugins : Fits(q)' /\ Tells(q)'
      /\ \A u \in Everyone : Apart(u)' /\ Sweeps(u)' /\ \A q \in Plugins : InHand(u, q)'
      /\ Still'
      /\ \A u \in Everyone : \A q \in Plugins : Holds(u, q)' <=> Holds(u, q)
  BY <1>1, <1>2, <1>3, UndoingRunning
<1>5. \A q \in Plugins : Held(q)'
  BY <1>2, <1>4 DEF Running, Held
<1>6. QED
  BY <1>4, <1>5 DEF Running

LEMMA ActivateFailsRunning ==
    ASSUME Control, Running, NEW t \in Everyone, NEW p \in Plugins, ActivateFails(t, p)
    PROVE  Running'
<1>1. task[t].doing[p] = "activate" /\ Undoing(t, p) /\ registered' = registered \ {p}
  BY DEF ActivateFails, Unregister
<1>2. store' = store /\ active' = active /\ unlisted' = unlisted /\ host' = host
  BY DEF ActivateFails, applying, listing
<1>3. Holds(t, p)
  BY <1>1 DEF Holds
<1>4. /\ \A q \in Plugins : Fits(q)' /\ Tells(q)'
      /\ \A u \in Everyone : Apart(u)' /\ Sweeps(u)' /\ \A q \in Plugins : InHand(u, q)'
      /\ Still'
      /\ \A u \in Everyone : \A q \in Plugins : Holds(u, q)' <=> Holds(u, q) /\ ~(u = t /\ q = p)
      /\ active[p] = 0
  BY <1>1, <1>2, UndoingRunning
<1>5. \A q \in Plugins : Held(q)'
  <2>1. Held(p)'
    BY <1>3, <1>4, <1>1, <1>2 DEF Running, Held
  <2>2. ASSUME NEW q \in Plugins \ {p}
        PROVE  Held(q)'
    BY <1>1, <1>2, <1>4 DEF Running, Held
  <2>3. QED
    BY <2>1, <2>2
<1>6. QED
  BY <1>4, <1>5 DEF Running

LEMMA LoadRunning ==
    ASSUME Control, Running, NEW t \in Everyone, NEW p \in Plugins, Load(t, p)
    PROVE  Running'
<1>1. task[t].doing[p] = "load" /\ task[t].at = "activate" /\ TypeOK
  BY BusyActivates DEF Control, Load
<1>2. store' = store /\ active' = active /\ unlisted' = unlisted /\ host' = host
  BY DEF Load, applying, listing
<1>3. ~Holds(t, p)
  BY <1>1 DEF Holds, Stops
<1>4. CASE p \in registered
  <2>1. Undoing(t, p) /\ registered' = registered
    BY <1>4 DEF Load
  <2>2. /\ \A q \in Plugins : Fits(q)' /\ Tells(q)'
        /\ \A u \in Everyone : Apart(u)' /\ Sweeps(u)' /\ \A q \in Plugins : InHand(u, q)'
        /\ Still'
        /\ \A u \in Everyone : \A q \in Plugins : Holds(u, q)' <=> Holds(u, q)
    BY <1>1, <1>2, <1>3, <2>1, UndoingRunning
  <2>3. \A q \in Plugins : Held(q)'
    BY <1>2, <2>1, <2>2 DEF Running, Held
  <2>4. QED
    BY <2>2, <2>3 DEF Running
<1>5. CASE p \notin registered
  <2>1. task' = [task EXCEPT ![t].doing[p] = "activate", ![t].did = task[t].did]
    BY <1>1, <1>5, LoadEffect DEF Load
  <2>2. task[t].did \in Seq(Plugins)
    BY <1>1, TaskType
  <2>3. /\ Others(t) /\ task'[t].do = task[t].do /\ task'[t].id = task[t].id
        /\ task'[t].at = task[t].at /\ task'[t].levels = task[t].levels
        /\ task'[t].stops = task[t].stops
        /\ task'[t].doing[p] = "activate"
        /\ \A q \in Plugins \ {p} : task'[t].doing[q] = task[t].doing[q]
        /\ task'[t].gen = task[t].gen
    BY <1>1, <2>1, <2>2, DoingEffect
  <2>4. registered' = registered \cup {p} /\ status' = status
    BY <1>5 DEF Load
  <2>5. /\ \A u \in Everyone : \A q \in Plugins :
             Stops(u, q)' <=> Stops(u, q)
        /\ \A u \in Everyone : Stopping(u)' <=> Stopping(u)
        /\ \A u \in Everyone : \A q \in Plugins : Holds(u, q)' <=> (Holds(u, q) \/ (u = t /\ q = p))
    <3>1. ASSUME NEW q \in Plugins
          PROVE  /\ Stops(t, q)' <=> Stops(t, q)
                 /\ Holds(t, q)' <=> (Holds(t, q) \/ q = p)
      BY <1>1, <2>3 DEF Stops, Holds
    <3>2. ASSUME NEW u \in Everyone \ {t}, NEW q \in Plugins
          PROVE  /\ Stops(u, q)' <=> Stops(u, q)
                 /\ Holds(u, q)' <=> Holds(u, q)
      BY <2>3 DEF Others, Stops, Holds
    <3>3. \A u \in Everyone : Stopping(u)' <=> Stopping(u)
      BY <2>3 DEF Others, Stopping
    <3>4. QED
      BY <3>1, <3>2, <3>3
  <2>6. \A q \in Plugins : Held(q)'
    <3>1. Held(p)'
      BY <1>5, <1>2, <2>4, <2>5 DEF Running, Held
    <3>2. ASSUME NEW q \in Plugins \ {p}
          PROVE  Held(q)'
      BY <1>2, <2>4, <2>5 DEF Running, Held
    <3>3. QED
      BY <3>1, <3>2
  <2>7. \A q \in Plugins : Fits(q)' /\ Tells(q)'
    BY <1>2, <2>4, <2>5 DEF Running, Fits, Tells
  <2>8. Apart(t)' /\ Sweeps(t)' /\ \A q \in Plugins : InHand(t, q)'
    <3>1. Apart(t)' /\ Sweeps(t)'
      BY <1>1, <1>2, <2>3 DEF Running, Apart, Sweeps, Stopping
    <3>2. ASSUME NEW q \in Plugins
          PROVE  InHand(t, q)'
      BY <1>1, <2>3, <1>2 DEF Running, InHand, Ahead
    <3>3. QED
      BY <3>1, <3>2
  <2>9. \A u \in Everyone : Apart(u)' /\ Sweeps(u)' /\ \A q \in Plugins : InHand(u, q)'
    BY <1>2, <2>3, <2>8, OthersRunning
  <2>10. Still'
    BY <1>2 DEF Running, Still
  <2>11. QED
    BY <2>6, <2>7, <2>9, <2>10 DEF Running
<1>6. QED
  BY <1>4, <1>5

LEMMA ActivatedRunning ==
    ASSUME Control, Running, NEW t \in Everyone, NEW p \in Plugins, Activated(t, p)
    PROVE  Running'
<1>1. task[t].doing[p] = "activate" /\ task[t].at = "activate" /\ TypeOK /\ task[t] # Idle
  BY BusyActivates DEF Control, Activated
<1>2. store' = store /\ registered' = registered /\ unlisted' = unlisted /\ host' = host
  BY DEF Activated, applying, listing
<1>3. /\ InHand(t, p) /\ task[t].gen[p] = store[p] /\ store[p] # 0 /\ active[p] = 0
  BY <1>1 DEF Running, InHand
<1>4. /\ active' = [active EXCEPT ![p] = store[p]] /\ active \in [Plugins -> 0 .. MaxVersion]
      /\ status' = [status EXCEPT ![p] = "enabled"] /\ status \in [Plugins -> {"disabled", "enabled", "error"}]
  BY <1>1, <1>3 DEF Activated, TypeOK, Versions
<1>5. /\ active'[p] = store[p] /\ status'[p] = "enabled"
      /\ \A q \in Plugins \ {p} : active'[q] = active[q] /\ status'[q] = status[q]
  BY <1>4
<1>6. Append(task[t].did, p) \in Seq(Plugins)
  BY <1>1, TaskType, AppendedRange
<1>7. task' = [task EXCEPT ![t].doing[p] = "no", ![t].did = Append(task[t].did, p)]
  BY <1>1, TaskType DEF Activated, TypeOK, TaskRecords
<1>8. /\ Others(t) /\ task'[t].do = task[t].do /\ task'[t].id = task[t].id
      /\ task'[t].at = task[t].at /\ task'[t].levels = task[t].levels
      /\ task'[t].stops = task[t].stops
      /\ task'[t].doing[p] = "no"
      /\ \A q \in Plugins \ {p} : task'[t].doing[q] = task[t].doing[q]
      /\ task'[t].gen = task[t].gen
  BY <1>1, <1>6, <1>7, DoingEffect, ZenonT(40)
<1>9. /\ \A u \in Everyone : \A q \in Plugins : Stops(u, q)' <=> Stops(u, q)
      /\ \A u \in Everyone : Stopping(u)' <=> Stopping(u)
      /\ \A u \in Everyone : \A q \in Plugins : Holds(u, q)' <=> Holds(u, q) /\ ~(u = t /\ q = p)
  <2>1. ASSUME NEW q \in Plugins
        PROVE  /\ Stops(t, q)' <=> Stops(t, q)
               /\ Holds(t, q)' <=> Holds(t, q) /\ q # p
    BY <1>1, <1>8 DEF Stops, Holds
  <2>2. ASSUME NEW u \in Everyone \ {t}, NEW q \in Plugins
        PROVE  /\ Stops(u, q)' <=> Stops(u, q)
               /\ Holds(u, q)' <=> Holds(u, q)
    BY <1>8 DEF Others, Stops, Holds
  <2>3. \A u \in Everyone : Stopping(u)' <=> Stopping(u)
    BY <1>8 DEF Others, Stopping
  <2>4. QED
    BY <2>1, <2>2, <2>3
<1>10. \A q \in Plugins : Held(q)'
  <2>1. Held(p)'
    BY <1>1, <1>9, <1>2, <1>3, <1>5 DEF Holds, Running, Held
  <2>2. ASSUME NEW q \in Plugins \ {p}
        PROVE  Held(q)'
    BY <1>2, <1>5, <1>9 DEF Running, Held
  <2>3. QED
    BY <2>1, <2>2
<1>11. \A q \in Plugins : Fits(q)' /\ Tells(q)'
  <2>1. Fits(p)' /\ Tells(p)'
    BY <1>2, <1>3, <1>5 DEF Fits, Tells
  <2>2. ASSUME NEW q \in Plugins \ {p}
        PROVE  Fits(q)' /\ Tells(q)'
    BY <1>2, <1>5, <1>9 DEF Running, Fits, Tells
  <2>3. QED
    BY <2>1, <2>2
<1>12. ASSUME NEW u \in Everyone
       PROVE  Apart(u)' /\ Sweeps(u)' /\ \A q \in Plugins : InHand(u, q)'
  <2>1. CASE u = t
    <3>1. Apart(t)' /\ Sweeps(t)'
      BY <1>1, <1>2, <1>8 DEF Running, Apart, Sweeps, Stopping
    <3>2. ASSUME NEW q \in Plugins
          PROVE  InHand(t, q)'
      <4>1. Ahead(t, q)' <=> Ahead(t, q)
        BY <1>8 DEF Ahead
      <4>2. CASE q = p
        BY <1>1, <1>2, <1>3, <1>8, <4>1, <4>2 DEF InHand
      <4>3. CASE q # p
        BY <1>2, <1>5, <1>8, <4>1, <4>3 DEF Running, InHand
      <4>4. QED
        BY <4>2, <4>3
    <3>3. QED
      BY <2>1, <3>1, <3>2
  <2>2. CASE u # t
    <3>1. task'[u] = task[u] /\ ~(task[u].at = "activate") /\ task[u].do # "reload"
      BY <1>1, <1>8, <2>2, OneActivates DEF Others
    <3>2. \A q \in Plugins : task[u].doing[q] = "no" /\ ~Ahead(u, q)
      BY <3>1, BusyActivates
    <3>3. Apart(u)' /\ Sweeps(u)'
      BY <1>2, <3>1 DEF Running, Apart, Sweeps, Stopping
    <3>4. \A q \in Plugins : InHand(u, q)'
      BY <3>1, <3>2 DEF InHand, Ahead
    <3>5. QED
      BY <3>3, <3>4
  <2>3. QED
    BY <2>1, <2>2
<1>13. Still'
  BY <1>1, ZeroType, <1>2 DEF Control, Ordered, Solitary, Coordinating, Still
<1>14. QED
  BY <1>10, <1>11, <1>12, <1>13 DEF Running

LEMMA BeginStopRunning ==
    ASSUME Control, Running, NEW t \in Everyone, BeginStop(t)
    PROVE  Running'
<1>0. Head(task[t].stops) \in Plugins
  BY TaskType, HeadAndTail DEF Control, Ordered, BeginStop
<1>h. PICK h \in Plugins : h = Head(task[t].stops)
  BY <1>0
<1>1. /\ TypeOK /\ task[t].at \in {"stop", "undo"} /\ h \in Plugins /\ active[h] # 0
      /\ Shaped(t)
  BY <1>h DEF Control, Ordered, BeginStop
<1>2. /\ store' = store /\ registered' = registered /\ status' = status /\ unlisted' = unlisted
      /\ host' = host
  BY DEF BeginStop, applying, shown, listing
<1>3. active'[h] = 0 /\ \A q \in Plugins \ {h} : active'[q] = active[q]
  BY <1>h, <1>1 DEF BeginStop, TypeOK, Versions
<1>4. OnlyMoves(t, IF task[t].at = "stop" THEN "stopping" ELSE "undoing")
  BY <1>1, BeginStopEffect
<1>5. \A q \in Plugins : task[t].doing[q] = "no" /\ ~Stops(t, q)
  BY <1>1 DEF Shaped, Busy, Stops
<1>6. /\ \A u \in Everyone : Stopping(u)' <=> Stopping(u)
      /\ \A u \in Everyone : \A q \in Plugins : Stops(u, q)' <=> (Stops(u, q) \/ (u = t /\ q = h))
      /\ \A u \in Everyone : \A q \in Plugins : Holds(u, q)' <=> (Holds(u, q) \/ (u = t /\ q = h))
  <2>1. ASSUME NEW q \in Plugins
        PROVE  /\ Stops(t, q)' <=> q = h
               /\ Holds(t, q)' <=> q = h
               /\ ~Holds(t, q)
    BY <1>h, <1>1, <1>4, <1>5 DEF OnlyMoves, Stops, Holds
  <2>2. ASSUME NEW u \in Everyone \ {t}, NEW q \in Plugins
        PROVE  /\ Stops(u, q)' <=> Stops(u, q)
               /\ Holds(u, q)' <=> Holds(u, q)
    BY <1>4 DEF OnlyMoves, Others, Stops, Holds
  <2>3. ASSUME NEW u \in Everyone
        PROVE  Stopping(u)' <=> Stopping(u)
    BY <1>1, <1>4 DEF OnlyMoves, Stopping, Shaped, Phased, Others
  <2>4. QED
    BY <1>5, <2>1, <2>2, <2>3
<1>7. \A q \in Plugins : Held(q)'
  <2>1. Held(h)'
    BY <1>1, <1>2, <1>3, <1>6 DEF Running, Held
  <2>2. ASSUME NEW q \in Plugins \ {h}
        PROVE  Held(q)'
    BY <1>2, <1>3, <1>6 DEF Running, Held
  <2>3. QED
    BY <2>1, <2>2
<1>8. \A q \in Plugins : Fits(q)'
  BY <1>2, <1>3 DEF Running, Fits
<1>9. \A q \in Plugins : Tells(q)'
  <2>1. Tells(h)'
    BY <1>1, <1>6, <1>3 DEF Tells
  <2>2. ASSUME NEW q \in Plugins \ {h}
        PROVE  Tells(q)'
    BY <1>2, <1>3, <1>6 DEF Running, Tells
  <2>3. QED
    BY <2>1, <2>2
<1>10. \A q \in Plugins : active'[q] # 0 => active'[q] = active[q]
  BY <1>3
<1>11. Apart(t)' /\ Sweeps(t)' /\ \A q \in Plugins : InHand(t, q)'
  <2>1. Apart(t)'
    BY <1>2, <1>4 DEF OnlyMoves, Running, Apart
  <2>2. Sweeps(t)'
    BY <1>4, <1>6, <1>10 DEF OnlyMoves, Running, Sweeps
  <2>3. \A q \in Plugins : InHand(t, q)'
    BY <1>2, <1>4, <1>10 DEF OnlyMoves, Running, InHand, Ahead
  <2>4. QED
    BY <2>1, <2>2, <2>3
<1>12. \A u \in Everyone : Apart(u)' /\ Sweeps(u)' /\ \A q \in Plugins : InHand(u, q)'
  BY <1>2, <1>4, <1>10, <1>11, OthersRunning DEF OnlyMoves
<1>13. Still'
  BY <1>2, <1>10 DEF Running, Still
<1>14. QED
  BY <1>7, <1>8, <1>9, <1>12, <1>13 DEF Running

\* What a stop that is done leaves of its task.
LEMMA StoppedLeaves ==
    ASSUME Control, NEW t \in Everyone, Stopped(t)
    PROVE  /\ Others(t) /\ task'[t].do = task[t].do /\ task'[t].id = task[t].id
           /\ task'[t].levels = task[t].levels /\ task'[t].doing = task[t].doing
           /\ task'[t].gen = task[t].gen
           /\ task'[t].stops = Tail(task[t].stops)
           /\ task'[t].published = task[t].published
           /\ task[t].at \in {"stop", "stopping", "undo", "undoing"}
           /\ task[t].do = "remove" => task'[t].at \in {"join", "read"}
           /\ task[t].do # "remove" => task'[t].at = IF task[t].at \in {"stop", "stopping"} THEN "stop"
                                                     ELSE "undo"
           /\ task[t].stops # <<>> /\ Head(task[t].stops) \in Plugins
           /\ Range(task[t].stops) = {Head(task[t].stops)} \cup Range(task'[t].stops)
           /\ \A q \in Plugins : task[t].doing[q] = "no"
<1>1. TypeOK /\ Shaped(t) /\ task[t].stops # <<>> /\ task[t].stops \in Seq(Plugins)
  BY TaskType DEF Control, Ordered, Stopped
<1>2. task[t].at \in {"stop", "stopping", "undo", "undoing"}
  BY DEF Stopped
<1>3. /\ Head(task[t].stops) \in Plugins
      /\ Range(task[t].stops) = {Head(task[t].stops)} \cup Range(Tail(task[t].stops))
  BY <1>1, HeadAndTail
<1>4. \A q \in Plugins : task[t].doing[q] = "no"
  BY <1>1, <1>2 DEF Shaped, Busy
<1>5. CASE task[t].do = "remove"
  BY <1>1, <1>2, <1>3, <1>4, <1>5, RemovedEffect
<1>6. CASE task[t].do # "remove"
  BY <1>1, <1>2, <1>3, <1>4, <1>6, StoppedEffect
<1>7. QED
  BY <1>5, <1>6

LEMMA StoppedRunning ==
    ASSUME Control, Running, NEW t \in Everyone, Stopped(t)
    PROVE  Running'
<1>0. Head(task[t].stops) \in Plugins
  BY StoppedLeaves
<1>h. PICK h \in Plugins : h = Head(task[t].stops)
  BY <1>0
<1>e. PICK ends \in BOOLEAN : ends <=> task[t].at \in {"stopping", "undoing"}
  BY ZeroType
<1>1. /\ Others(t) /\ task'[t].do = task[t].do /\ task'[t].id = task[t].id
      /\ task'[t].levels = task[t].levels /\ task'[t].doing = task[t].doing
      /\ task'[t].gen = task[t].gen
      /\ task'[t].at \notin {"stopping", "undoing"} /\ h \in Plugins
      /\ task[t].at \in {"stop", "stopping", "undo", "undoing"}
      /\ Stopping(t) => Stopping(t)' /\ Range(task[t].stops) = {h} \cup Range(task'[t].stops)
      /\ \A q \in Plugins : task[t].doing[q] = "no"
  BY <1>h, StoppedLeaves DEF Stopping
<1>2. TypeOK /\ Shaped(t)
  BY DEF Control, Ordered
<1>3. /\ store' = store /\ active' = active /\ unlisted' = unlisted /\ host' = host
      /\ registered' = IF ends THEN registered \ {h} ELSE registered
  BY <1>h, <1>e DEF Stopped, applying, listing, Unregister
<1>4. status' = IF task[t].do = "reload" \/ store[h] = 0 \/ (task[t].do = "remove" /\ ~ends)
                THEN status ELSE [status EXCEPT ![h] = "disabled"]
  BY <1>h, <1>e DEF Stopped
<1>5. active[h] = 0
  BY <1>h, <1>e, <1>1 DEF Holds, Stops, Stopped, Running, Held
<1>6. /\ \A u \in Everyone \ {t} : \A q \in Plugins :
            (Stops(u, q)' <=> Stops(u, q)) /\ (Holds(u, q)' <=> Holds(u, q))
      /\ \A u \in Everyone \ {t} : Stopping(u)' <=> Stopping(u)
      /\ \A q \in Plugins : ~Holds(t, q)' /\ ~Stops(t, q)' /\ (Holds(t, q) <=> Stops(t, q))
      /\ \A q \in Plugins : Stops(t, q) <=> ends /\ q = h
  <2>1. \A u \in Everyone \ {t} : \A q \in Plugins :
            (Stops(u, q)' <=> Stops(u, q)) /\ (Holds(u, q)' <=> Holds(u, q))
    BY <1>1 DEF Others, Stops, Holds
  <2>2. \A u \in Everyone \ {t} : Stopping(u)' <=> Stopping(u)
    BY <1>1 DEF Others, Stopping
  <2>3. \A q \in Plugins : ~Holds(t, q)' /\ ~Stops(t, q)' /\ (Holds(t, q) <=> Stops(t, q))
    BY <1>1 DEF Stops, Holds
  <2>4. \A q \in Plugins : Stops(t, q) <=> ends /\ q = h
    BY <1>h, <1>e DEF Stops
  <2>5. QED
    BY <2>1, <2>2, <2>3, <2>4
<1>7. \A q \in Plugins : Held(q)'
  <2>1. CASE ends
    <3>1. Held(h)'
      BY <1>1, <1>6, <2>1, <1>3, <1>5 DEF Running, Held
    <3>2. ASSUME NEW q \in Plugins \ {h}
          PROVE  Held(q)'
      BY <1>6, <1>3, <2>1 DEF Running, Held
    <3>3. QED
      BY <3>1, <3>2
  <2>2. CASE ~ends
    BY <1>6, <2>2, <1>3 DEF Running, Held
  <2>3. QED
    BY <2>1, <2>2
<1>8. \A q \in Plugins : Fits(q)'
  BY <1>3 DEF Running, Fits
<1>9. ASSUME NEW q \in Plugins
      PROVE  Tells(q)'
  <2>1. CASE status'[q] = status[q] /\ ~(q = h /\ Stops(t, h) /\ ~Stopping(t))
    BY <1>1, <1>6, <2>1, <1>3 DEF Running, Tells
  <2>2. CASE status'[q] = "disabled" /\ q = h
    BY <1>3, <1>5, <2>2 DEF Tells
  <2>3. CASE store[q] = 0
    BY <1>3, <2>3 DEF Tells
  <2>4. CASE q # h
    BY <1>2, <1>4, <2>4, <2>1 DEF TypeOK
  <2>5. CASE q = h /\ store[h] # 0
    <3>1. CASE task[t].do = "reload" \/ (task[t].do = "remove" /\ ~ends)
      <4>1. status'[q] = status[q]
        BY <1>4, <3>1
      <4>2. task[t].do = "reload" => Stopping(t)
        BY <1>1, <1>2 DEF Shaped, Phased, Stopping
      <4>3. Stops(t, h) => ends
        BY <1>1, <1>6
      <4>4. QED
        BY <2>1, <3>1, <4>1, <4>2, <4>3
    <3>2. CASE ~(task[t].do = "reload" \/ (task[t].do = "remove" /\ ~ends))
      BY <1>1, <1>2, <1>4, <2>5, <3>2, <2>2 DEF TypeOK
    <3>3. QED
      BY <3>1, <3>2
  <2>6. QED
    BY <2>3, <2>4, <2>5
<1>10. Apart(t)' /\ Sweeps(t)' /\ \A q \in Plugins : InHand(t, q)'
  <2>1. Apart(t)'
    BY <1>1, <1>3 DEF Running, Apart
  <2>2. Sweeps(t)'
    BY <1>1, <1>2, <1>3, <1>5 DEF Stopping, Shaped, Phased, Running, Sweeps
  <2>3. \A q \in Plugins : InHand(t, q)'
    BY <1>1, <1>3 DEF Running, InHand, Ahead
  <2>4. QED
    BY <2>1, <2>2, <2>3
<1>11. \A u \in Everyone : Apart(u)' /\ Sweeps(u)' /\ \A q \in Plugins : InHand(u, q)'
  BY <1>1, <1>3, <1>10, OthersRunning
<1>12. Still'
  BY <1>3 DEF Running, Still
<1>13. QED
  BY <1>7, <1>8, <1>9, <1>11, <1>12 DEF Running

\* What is listed.
Ready == {p \in env.on : PendingConsentChain(p, env.version) = {}}

LEMMA ListEffect ==
    ASSUME Control, NEW t \in Everyone, List(t)
    PROVE  /\ Others(t) /\ task'[t].do = "reload" /\ task[t].do = "reload"
           /\ task[t].at = "stop" /\ task'[t].at = "activate"
           /\ task'[t].doing = task[t].doing /\ task'[t].stops = task[t].stops
           /\ task'[t].did = task[t].did
           /\ task'[t].rev = task[t].rev /\ task'[t].published = task[t].published
           /\ \A i, j \in DOMAIN task'[t].levels : i # j => task'[t].levels[i] \cap task'[t].levels[j] = {}
           /\ \A p : Ahead(t, p)' => p \in Ready
           /\ Ready \subseteq Plugins
           /\ \A p \in Plugins : task[t].doing[p] = "no"
<1>1. /\ TypeOK /\ Shaped(t) /\ task[t].at = "stop" /\ task[t].do = "reload"
  BY DEF Control, Ordered, List, AllStopped
<1> DEFINE levels == ActivationLevels(Ready, Needs, InStore(env.version))
<1>2. Ready \in SUBSET Plugins
  BY <1>1 DEF TypeOK, Ready
<1>3. /\ levels \in Seq(SUBSET Plugins)
      /\ \A i, j \in DOMAIN levels : i # j => levels[i] \cap levels[j] = {}
      /\ \A i \in DOMAIN levels : levels[i] \subseteq Ready
  BY <1>2, LevelsHold
<1>4. task' = [task EXCEPT ![t].at = "activate", ![t].levels = levels]
  BY DEF List, Ready
<1> HIDE DEF levels
<1>5. /\ Others(t) /\ task'[t].do = task[t].do
      /\ task'[t].at = "activate" /\ task'[t].doing = task[t].doing /\ task'[t].levels = levels
      /\ task'[t].stops = task[t].stops /\ task'[t].did = task[t].did
      /\ task'[t].rev = task[t].rev /\ task'[t].published = task[t].published
  BY <1>1, <1>3, <1>4, LevelsEffect
<1>6. \A p : Ahead(t, p)' => p \in Ready
  <2>1. SUFFICES ASSUME NEW p, NEW i \in DOMAIN task'[t].levels, p \in task'[t].levels[i]
                 PROVE  p \in Ready
    BY DEF Ahead
  <2>2. QED
    BY <1>3, <1>5, <2>1
<1>7. \A p \in Plugins : task[t].doing[p] = "no"
  BY <1>1 DEF Shaped, Busy
<1>8. QED
  BY <1>1, <1>2, <1>3, <1>5, <1>6, <1>7

LEMMA ListRunning ==
    ASSUME Control, Running, NEW t \in Everyone, List(t)
    PROVE  Running'
<1>1. /\ Others(t) /\ task'[t].do = "reload" /\ task[t].do = "reload"
      /\ task[t].at = "stop" /\ task'[t].at = "activate"
      /\ task'[t].doing = task[t].doing
      /\ \A i, j \in DOMAIN task'[t].levels : i # j => task'[t].levels[i] \cap task'[t].levels[j] = {}
      /\ \A p : Ahead(t, p)' => p \in Ready
      /\ \A p \in Plugins : task[t].doing[p] = "no"
  BY ListEffect
<1>2. \A p \in Plugins : active[p] = 0
  BY <1>1, Swept DEF List
<1>3. store' = env.version /\ active' = active /\ registered' = registered /\ status' = Unstarted
  BY DEF List
<1>4. \A u \in Everyone : \A q \in Plugins : Holds(u, q)' <=> Holds(u, q)
  BY <1>1 DEF Others, Holds, Stops
<1>5. \A q \in Plugins : Held(q)'
  BY <1>3, <1>4 DEF Running, Held
<1>6. \A q \in Plugins : Fits(q)' /\ Tells(q)'
  BY <1>2, <1>3 DEF Fits, Tells, Unstarted
<1>7. ASSUME NEW u \in Everyone
      PROVE  Apart(u)' /\ Sweeps(u)' /\ \A q \in Plugins : InHand(u, q)'
  <2>1. Sweeps(u)'
    BY <1>2, <1>3 DEF Sweeps
  <2>2. CASE u = t
    <3>1. Apart(t)'
      BY <1>1 DEF Apart
    <3>2. \A q \in Ready : env.version[q] # 0
      BY DEF Ready, Control, TypeOK
    <3>3. \A q \in Plugins : InHand(t, q)'
      BY <1>1, <1>2, <1>3, <3>2 DEF InHand
    <3>4. QED
      BY <2>1, <2>2, <3>1, <3>3
  <2>3. CASE u # t
    <3>1. task'[u] = task[u] /\ task[u].at # "activate" /\ task[u].do # "reload"
      BY <1>1, <2>3, OneActivates DEF Others
    <3>2. \A q \in Plugins : task[u].doing[q] = "no" /\ ~Ahead(u, q)
      BY <3>1, BusyActivates
    <3>3. task[u].do # "reloadOne"
      BY Whose, <1>1, IdleType, <2>3, AloneDoes
    <3>4. Apart(u)'
      BY <3>1, <3>3 DEF Apart
    <3>5. \A q \in Plugins : InHand(u, q)'
      BY <3>1, <3>2 DEF InHand, Ahead
    <3>6. QED
      BY <2>1, <3>4, <3>5
  <2>4. QED
    BY <2>2, <2>3
<1>8. Still'
  BY <1>2, <1>3 DEF Still
<1>9. QED
  BY <1>5, <1>6, <1>7, <1>8 DEF Running

\* The code of a plugin read anew: what is in the store of a development plugin.
LEMMA RereadsEffect ==
    ASSUME Control, Running, NEW t \in Everyone, Rereads(t)
    PROVE  \E id \in Plugins :
             /\ id = task[t].id /\ t \in Tasks /\ task[t].do = "reloadOne" /\ task[t].at = "fetch"
             /\ Others(t) /\ task'[t].do = "reloadOne" /\ task'[t].id = task[t].id
             /\ task'[t].at = "stop" /\ task'[t].stops = <<id>> /\ task'[t].levels = <<>>
             /\ task'[t].did = task[t].did /\ task'[t].published = 0
             /\ \A q \in Plugins : task[t].doing[q] = "no" /\ task'[t].doing[q] = "no"
             /\ store[id] # 0 /\ store'[id] # 0
             /\ \A q \in Plugins : q # id \/ q \notin Development => store'[q] = store[q]
             /\ \A u \in Everyone : u # t => task[u] = Idle
<1>1. /\ TypeOK /\ Shaped(t) /\ task[t].at = "fetch" /\ t \in Tasks
      /\ task[t].do = "reloadOne" /\ task[t].id \in Plugins
  BY Whose DEF Control, Ordered, Rereads, Fetch, Shaped, Phased
<1>2. PICK id \in Plugins : id = task[t].id
  BY <1>1
<1>3. PICK fresh : fresh = IF id \in Development THEN env.version[id] ELSE store[id]
  OBVIOUS
<1>4. fresh # 0 /\ store' = [store EXCEPT ![id] = fresh]
      /\ task' = [task EXCEPT ![t].at = "stop", ![t].stops = <<id>>]
  BY <1>2, <1>3 DEF Rereads, Unread, Fetch
<1>5. /\ Others(t) /\ task'[t].do = task[t].do /\ task'[t].id = task[t].id
      /\ task'[t].at = "stop" /\ task'[t].stops = <<id>>
      /\ task'[t].levels = task[t].levels /\ task'[t].doing = task[t].doing
      /\ task'[t].did = task[t].did /\ task'[t].published = task[t].published
  <2>1. <<id>> \in Seq(Plugins) /\ "stop" \in Points
    BY DEF Points
  <2>2. QED
    BY <1>1, <1>4, <2>1, StopsEffect
<1>6. task[t].levels = <<>> /\ task[t].published = 0 /\ \A q \in Plugins : task[t].doing[q] = "no"
  BY <1>1 DEF Shaped, Busy, Unpublished
<1>7. store[id] # 0
  BY <1>1, <1>2 DEF Running, Apart
<1>8. store \in [Plugins -> 0 .. MaxVersion]
  BY <1>1 DEF TypeOK, Versions
<1>9. store'[id] # 0 /\ \A q \in Plugins : q # id \/ q \notin Development => store'[q] = store[q]
  BY <1>3, <1>4, <1>8
<1>10. \A u \in Everyone : u # t => task[u] = Idle
  BY <1>1, AloneDoes
<1>11. QED
  BY <1>1, <1>2, <1>5, <1>6, <1>7, <1>9, <1>10

LEMMA RereadsRunning ==
    ASSUME Control, Running, NEW t \in Everyone, Rereads(t)
    PROVE  Running'
<1>1. PICK id \in Plugins :
             /\ id = task[t].id /\ t \in Tasks /\ task[t].do = "reloadOne" /\ task[t].at = "fetch"
             /\ Others(t) /\ task'[t].do = "reloadOne" /\ task'[t].id = task[t].id
             /\ task'[t].at = "stop" /\ task'[t].stops = <<id>> /\ task'[t].levels = <<>>
             /\ \A q \in Plugins : task[t].doing[q] = "no" /\ task'[t].doing[q] = "no"
             /\ store[id] # 0 /\ store'[id] # 0
             /\ \A q \in Plugins : q # id \/ q \notin Development => store'[q] = store[q]
             /\ \A u \in Everyone : u # t => task[u] = Idle
  BY RereadsEffect
<1>2. /\ active' = active /\ registered' = registered /\ status' = status /\ unlisted' = unlisted
      /\ host' = host
  BY DEF Rereads, Fetch, applying, running, listing
<1>3. \A u \in Everyone \ {t} : task'[u] = task[u] /\ task[u] = Idle
  BY <1>1 DEF Others
<1>4. DOMAIN task'[t].levels = {}
  BY <1>1
<1>5. \A u \in Everyone : \A q \in Plugins : ~Holds(u, q)' /\ ~Stops(u, q) /\ ~Holds(u, q) /\ ~Stopping(u)
  BY <1>1, <1>3, IdleType DEF Holds, Stops, Stopping
<1>6. \A q \in Plugins : store'[q] # 0 <=> store[q] # 0
  BY <1>1
<1>7. \A q \in Plugins : Held(q)' /\ Fits(q)'
  BY <1>1, <1>2, <1>5, <1>6 DEF Running, Held, Fits
<1>8. \A q \in Plugins : Tells(q)'
  BY <1>2, <1>5, <1>6 DEF Running, Tells
<1>9. ASSUME NEW u \in Everyone
      PROVE  Apart(u)' /\ Sweeps(u)' /\ \A q \in Plugins : InHand(u, q)'
  <2>1. CASE u = t
    BY <1>1, <1>4, <2>1 DEF Apart, Sweeps, Stopping, InHand, Ahead
  <2>2. CASE u # t
    BY <1>3, <2>2, IdleType DEF Apart, Sweeps, Stopping, InHand, Ahead
  <2>3. QED
    BY <2>1, <2>2
<1>10. Still'
  BY <1>2 DEF Running, Still
<1>11. QED
  BY <1>7, <1>8, <1>9, <1>10 DEF Running

LEMMA InitRunning ==
    ASSUME Init
    PROVE  Running
<1>1. /\ \A p \in Plugins : store[p] = 0 /\ active[p] = 0
      /\ registered = {} /\ \A t \in Everyone : task[t] = Idle
  BY DEF Init
<1>2. DOMAIN Idle.levels = {}
  BY IdleType
<1>3. \A t \in Everyone : \A p \in Plugins : ~Holds(t, p)
  BY <1>1, IdleType DEF Holds, Stops
<1>4. \A p \in Plugins : Held(p) /\ Fits(p) /\ Tells(p)
  BY <1>1, <1>3 DEF Held, Fits, Tells
<1>5. \A t \in Everyone : Apart(t) /\ Sweeps(t) /\ \A p \in Plugins : InHand(t, p)
  BY <1>1, <1>2, IdleType DEF Apart, Sweeps, Stopping, InHand, Ahead
<1>6. QED
  BY <1>1, <1>4, <1>5 DEF Running, Still

LEMMA NextRunning ==
    ASSUME ~Overlap, Control, Running, [Next]_vars
    PROVE  Running'
<1>1. CASE Calm
  BY <1>1, CalmRunning
<1>2. ASSUME NEW t \in Everyone, Handles(t)
      PROVE  Running'
  BY <1>2, NextLevelRunning, BeginStopRunning, StoppedRunning, ListRunning, RereadsRunning,
     LoadRunning, ActivatedRunning, LoadFailsRunning, ActivateFailsRunning DEF Handles
<1>3. QED
  BY <1>1, <1>2, NextCalm

-----------------------------------------------------------------------------
\* What an operation of a person does, between what it does to plugins.

\* A removal that has removed, until the window has heard of all of it.
Removes(t) ==
    task[t].do = "remove" /\ task[t].published # 0 /\ task[t].at \notin {"resumed", "rejected"}
Departs(t) == task[t].do = "remove" /\ task[t].at \in {"stop", "stopping"}

\* A revocation stops all that needs what it revokes.
Clears(t) ==
    task[t].do = "revoke" => \A q \in Plugins :
       active[q] # 0 /\ task[t].id \in Range(Chain(q, store)) => q \in Range(task[t].stops)

\* What a task activates, and what an enable activated that may come to nothing.
Carries(t, p) == Ahead(t, p) \/ task[t].doing[p] # "no" \/ p \in Range(task[t].did)
Tries(t, p) ==
    /\ task[t].do = "enable"
    /\ \/ task[t].at \in {"activate", "read", "write"} /\ p \in Range(task[t].did)
       \/ task[t].at \in {"undo", "undoing"} /\ p \in Range(task[t].stops)
Fresh(t) ==
    task[t].do \in {"reload", "reloadOne"} /\ task[t].at \notin {"activate", "undo", "undoing"} =>
       Range(task[t].did) = {}
Renews(t) == task[t].do \in {"reload", "reloadOne"} /\ task[t].at = "activate"

\* Those an operation adds to the enabled ones.
Earned(t) ==
    \/ task[t].do = "enable" /\ task[t].published # 0
    \/ task[t].do = "reloadOne" /\ task[t].at = "activate"

Stays ==
    /\ env' = env /\ events' = events /\ host' = host /\ applied' = applied /\ pending' = pending
    /\ store' = store /\ active' = active /\ read' = read /\ unlisted' = unlisted

Quietly(t) ==
    /\ t \in Tasks /\ Others(t) /\ Stays /\ Turns(t)
    /\ ~Departs(t)'
    /\ Removes(t) => Removes(t)' \/ applied = env.rev
    /\ \A p \in Plugins : Tries(t, p) => Tries(t, p)'
    /\ Fresh(t) => Fresh(t)'
    /\ task'[t].do = "enable" /\ task'[t].published # 0 =>
          task[t].do = "enable" /\ task[t].published # 0 /\ task'[t].did = task[t].did
    /\ Clears(t)'
    /\ Renews(t)' => \E id \in enabledIds : \A p \in Plugins :
          Carries(t, p)' => p \in Range(Chain(id, store)) \/ p \in Range(task[t].did)
    /\ Renews(t)' => ~Renews(t) /\ task[t].do = "reloadOne" /\ task[t].at = "stop"
    /\ \A q \in enabledIds' : q \in enabledIds \/ (q \in Range(task[t].did) /\ Earned(t))

\* A task that ends.
LEMMA EndsQuiet ==
    ASSUME Control, Running, NEW t \in Tasks, NEW how, Ends(t, how), Stays, Free(t), ~Stopping(t),
           ~Removes(t), \A p \in Plugins : ~Tries(t, p),
           \A q \in enabledIds' : q \in enabledIds \/ (q \in Range(task[t].did) /\ Earned(t))
    PROVE  Quietly(t)
<1>1. t \in Everyone /\ Others(t) /\ task'[t] = Idle
  BY EndsEffect, ZeroType DEF Control
<1>2. Turns(t)
  BY <1>1, IdleTurns
<1>3. task'[t].do = "none" /\ task'[t].at = "none"
  BY <1>1, IdleType
<1>4. QED
  BY <1>1, <1>2, <1>3
  DEF Quietly, Departs, Removes, Tries, Fresh, Clears, Renews

\* A task that goes on.
LEMMA MovesQuiet ==
    ASSUME Control, Running, NEW t \in Tasks, Others(t), Stays, Free(t), task[t].levels = <<>>,
           task'[t].do = task[t].do, task'[t].id = task[t].id, task'[t].levels = task[t].levels,
           task'[t].doing = task[t].doing, task'[t].did = task[t].did,
           task'[t].published = task[t].published,
           task'[t].at \notin {"stopping", "undoing", "activate"},
           task[t].do \notin {"reload", "reloadOne", "revoke"},
           task[t].do = "remove" => task'[t].at # "stop",
           Removes(t) => Removes(t)' \/ applied = env.rev,
           \A p \in Plugins : Tries(t, p) => Tries(t, p)',
           enabledIds' = enabledIds
    PROVE  Quietly(t)
  BY MovesTurns, ZeroType DEF Running, Stays, Quietly, Departs, Fresh, Clears, Renews

LEMMA UndoneQuiet ==
    ASSUME Control, Running, NEW t \in Everyone, Undone(t)
    PROVE  Quietly(t)
<1>1. Free(t) /\ ~Stopping(t) /\ t \in Tasks
  BY FreeAt, Whose DEF Undone, Stopping
<1>2. Stays /\ enabledIds' = enabledIds
  BY DEF Undone, Stays, announced, applying, shown, running, listing
<1>3. task[t].at = "undo" /\ Range(task[t].stops) = {} /\ task[t].do # "remove"
  BY DEF Undone, Range, Control, Ordered, Shaped, Phased
<1>4. ~Removes(t) /\ \A p \in Plugins : ~Tries(t, p)
  BY <1>3 DEF Removes, Tries
<1>5. QED
  BY <1>1, <1>2, <1>4, EndsQuiet DEF Undone

LEMMA DisabledQuiet ==
    ASSUME Control, Running, NEW t \in Everyone, Disabled(t)
    PROVE  Quietly(t)
<1>1. Free(t) /\ ~Stopping(t) /\ t \in Tasks
  BY FreeAt, Whose DEF Disabled, AllStopped, Stopping
<1>2. Stays /\ \A q \in enabledIds' : q \in enabledIds
  BY DEF Disabled, Stays, announced, applying, running, listing
<1>3. ~Removes(t) /\ \A p \in Plugins : ~Tries(t, p)
  BY DEF Disabled, Removes, Tries
<1>4. QED
  BY <1>1, <1>2, <1>3, EndsQuiet DEF Disabled

LEMMA RevokedQuiet ==
    ASSUME Control, Running, NEW t \in Everyone, Revoked(t)
    PROVE  Quietly(t)
<1>1. Free(t) /\ ~Stopping(t) /\ t \in Tasks
  BY FreeAt, Whose DEF Revoked, AllStopped, Stopping
<1>2. Stays /\ enabledIds' = enabledIds
  BY DEF Revoked, Stays, announced, applying, running, listing
<1>3. ~Removes(t) /\ \A p \in Plugins : ~Tries(t, p)
  BY DEF Revoked, Removes, Tries
<1>4. QED
  BY <1>1, <1>2, <1>3, EndsQuiet DEF Revoked

LEMMA UnreadQuiet ==
    ASSUME Control, Running, NEW t \in Everyone, Unread(t)
    PROVE  Quietly(t)
<1>1. Free(t) /\ ~Stopping(t) /\ t \in Tasks /\ task[t].do = "reloadOne"
  BY FreeAt, Whose DEF Unread, Fetch, Stopping, Control, Ordered, Shaped, Phased
<1>2. Stays /\ enabledIds' = enabledIds
  BY DEF Unread, Fetch, Stays, announced, applying, running, listing
<1>3. ~Removes(t) /\ \A p \in Plugins : ~Tries(t, p)
  BY <1>1 DEF Removes, Tries
<1>4. QED
  BY <1>1, <1>2, <1>3, EndsQuiet DEF Unread

LEMMA FetchFailsQuiet ==
    ASSUME Control, Running, NEW t \in Everyone, FetchFails(t)
    PROVE  Quietly(t)
<1>1. Free(t) /\ ~Stopping(t) /\ t \in Tasks /\ task[t].do = "reloadOne"
  BY FreeAt, Whose DEF FetchFails, Stopping, Control, Ordered, Shaped, Phased
<1>2. Stays /\ enabledIds' = enabledIds
  BY DEF FetchFails, Stays, announced, applying, shown, running, listing
<1>3. ~Removes(t) /\ \A p \in Plugins : ~Tries(t, p)
  BY <1>1 DEF Removes, Tries
<1>4. QED
  BY <1>1, <1>2, <1>3, EndsQuiet DEF FetchFails

LEMMA ReenableQuiet ==
    ASSUME Control, Running, NEW t \in Everyone, Reenable(t)
    PROVE  Quietly(t)
<1>1. /\ Free(t) /\ ~Stopping(t) /\ task[t].do = "reloadOne" /\ task[t].levels = <<>> /\ TypeOK
      /\ t \in Tasks /\ task[t].at = "stop"
  BY FreeAt, Whose DEF Control, Reenable, AllStopped, Stopping
<1>2. Stays /\ enabledIds' = enabledIds
  BY DEF Reenable, Stays, announced, applying, shown, running, listing
<1>3. ~Removes(t) /\ \A p \in Plugins : ~Tries(t, p)
  BY <1>1 DEF Removes, Tries
<1>4. CASE \E how : Ends(t, how)
  BY <1>1, <1>2, <1>3, <1>4, EndsQuiet
<1>5. CASE /\ task' = [task EXCEPT ![t].at = "activate",
                                   ![t].levels = OneByOne(Chain(task[t].id, store))]
           /\ PendingConsentChain(task[t].id, store) = {} /\ task[t].id \in enabledIds
  <2>1. PICK id \in Plugins : id = task[t].id
    BY <1>1 DEF Control, Ordered, Shaped
  <2>2. store[id] # 0
    BY <1>1, <2>1 DEF Running, Apart
  <2>3. PICK l \in Seq(SUBSET Plugins) : l = OneByOne(Chain(id, store))
    BY ChainHolds, OneByOneLevels
  <2>4. /\ Others(t) /\ task'[t].do = task[t].do /\ task'[t].id = task[t].id
        /\ task'[t].at = "activate" /\ task'[t].levels = l /\ task'[t].doing = task[t].doing
        /\ task'[t].did = task[t].did /\ task'[t].published = task[t].published
    BY <1>1, <1>5, <2>1, <2>3, LevelsEffect
  <2>5. Turns(t) /\ \A q \in Plugins : Ahead(t, q)' <=> q \in Range(Chain(id, store))
    BY <1>1, <1>2, <1>5, <2>1, <2>2, <2>3, <2>4, ChainTurns DEF Stays, Free
  <2>6. \A p \in Plugins : Carries(t, p)' => p \in Range(Chain(id, store)) \/ p \in Range(task[t].did)
    BY <1>1, <2>4, <2>5 DEF Carries, Free
  <2>7. QED
    BY <1>1, <1>2, <1>3, <1>5, <2>1, <2>4, <2>5, <2>6
    DEF Quietly, Departs, Fresh, Clears, Renews
<1>6. QED
  BY <1>4, <1>5 DEF Reenable

LEMMA ChainActivatedQuiet ==
    ASSUME Control, Running, NEW t \in Everyone, ChainActivated(t)
    PROVE  Quietly(t)
<1>1. /\ Free(t) /\ ~Stopping(t) /\ task[t].levels = <<>> /\ TypeOK /\ t \in Tasks
      /\ task[t].do \in {"enable", "reloadOne"} /\ task[t].at = "activate"
  BY FreeAt, Whose DEF Control, ChainActivated, ActivatedAll, Enabling, Stopping
<1>2. Stays
  BY DEF ChainActivated, Stays, announced, applying, running, listing
<1>3. CASE task[t].do = "enable"
  <2>1. OnlyMoves(t, "read") /\ enabledIds' = enabledIds
    BY <1>1, <1>3, MovesEffect DEF ChainActivated, Points
  <2>2. \A p \in Plugins : Tries(t, p) => Tries(t, p)'
    BY <1>1, <2>1 DEF OnlyMoves, Tries
  <2>3. ~Removes(t)
    BY <1>3 DEF Removes
  <2>4. QED
    BY <1>1, <1>2, <1>3, <2>1, <2>2, <2>3, MovesQuiet DEF OnlyMoves
<1>4. CASE task[t].do # "enable"
  BY <1>4, <1>1, <1>2, EndsQuiet DEF ChainActivated, Removes, Tries, Earned
<1>5. QED
  BY <1>3, <1>4

LEMMA ReadEnvironmentQuiet ==
    ASSUME Control, Running, NEW t \in Everyone, ReadEnvironment(t)
    PROVE  Quietly(t)
<1>1. Free(t) /\ task[t].levels = <<>> /\ TypeOK /\ t \in Tasks /\ task[t].at = "read"
  BY FreeAt, Whose DEF Control, ReadEnvironment
<1>2. task[t].do \notin {"reload", "reloadOne", "revoke"}
  BY <1>1 DEF Control, Ordered, Shaped, Phased
<1>3. Stays /\ enabledIds' = enabledIds
  BY DEF ReadEnvironment, Stays, announced, applying, shown, running, listing
<1>4. /\ Others(t) /\ task'[t].do = task[t].do /\ task'[t].id = task[t].id /\ task'[t].at = "write"
      /\ task'[t].levels = task[t].levels /\ task'[t].doing = task[t].doing
      /\ task'[t].stops = task[t].stops /\ task'[t].did = task[t].did
      /\ task'[t].published = task[t].published
  BY <1>1, ReadEffect
<1>5. (Removes(t) => Removes(t)') /\ \A p \in Plugins : Tries(t, p) => Tries(t, p)'
  BY <1>1, <1>4 DEF Removes, Tries
<1>6. QED
  BY <1>1, <1>2, <1>3, <1>4, <1>5, MovesQuiet

\* An enable that takes back what it activated.
LEMMA UndoQuiet ==
    ASSUME Control, Running, NEW t \in Tasks, Free(t), task[t].levels = <<>>,
           task[t].do = "enable", Stays, enabledIds' = enabledIds,
           task[t].at \notin {"undo", "undoing"},
           task' = [task EXCEPT ![t].at = "undo", ![t].stops = Reverse(task[t].did)]
    PROVE  Quietly(t)
<1>1. /\ TypeOK /\ t \in Everyone /\ Reverse(task[t].did) \in Seq(Plugins) /\ "undo" \in Points
      /\ Range(Reverse(task[t].did)) = Range(task[t].did)
  BY TaskType, ReversedRange, ZeroType DEF Control, Points
<1>2. /\ Others(t) /\ task'[t].do = task[t].do /\ task'[t].id = task[t].id /\ task'[t].at = "undo"
      /\ task'[t].levels = task[t].levels /\ task'[t].doing = task[t].doing
      /\ task'[t].stops = Reverse(task[t].did) /\ task'[t].did = task[t].did
      /\ task'[t].published = task[t].published
  BY <1>1, StopsEffect
<1>3. ~Removes(t) /\ \A p \in Plugins : Tries(t, p) => Tries(t, p)'
  BY <1>1, <1>2 DEF Removes, Tries
<1>4. QED
  BY <1>2, <1>3, MovesQuiet

LEMMA WriteRefusedQuiet ==
    ASSUME Control, Running, NEW t \in Everyone, WriteRefused(t)
    PROVE  Quietly(t)
<1>1. /\ Free(t) /\ task[t].levels = <<>> /\ TypeOK /\ ~Stopping(t) /\ t \in Tasks
      /\ task[t].do \in {"enable", "disable", "remove"} /\ task[t].at = "write"
  BY FreeAt, WriteHas DEF Control, WriteRefused, Stopping
<1>2. Stays /\ enabledIds' = enabledIds
  BY DEF WriteRefused, Stays, announced, applying, shown, running, listing
<1>3. CASE task[t].do = "enable"
  BY <1>3, <1>1, <1>2, UndoQuiet DEF WriteRefused, Refused
<1>4. CASE task[t].do = "remove" /\ task[t].published # 0
  <2>1. task' = [task EXCEPT ![t].at = "join", ![t].failed = TRUE]
    BY <1>4 DEF WriteRefused, Refused
  <2>2. /\ Others(t) /\ task'[t].do = task[t].do /\ task'[t].id = task[t].id
        /\ task'[t].at = "join" /\ task'[t].levels = task[t].levels /\ task'[t].doing = task[t].doing
        /\ task'[t].did = task[t].did /\ task'[t].published = task[t].published
    BY <1>1, <2>1, LeavesEffect
  <2>3. (Removes(t) => Removes(t)') /\ \A p \in Plugins : ~Tries(t, p)
    BY <1>4, <2>2 DEF Removes, Tries
  <2>4. QED
    BY <1>1, <1>2, <1>4, <2>2, <2>3, MovesQuiet
<1>5. CASE task[t].do = "disable" \/ (task[t].do = "remove" /\ task[t].published = 0)
  BY <1>5, <1>1, <1>2, EndsQuiet DEF WriteRefused, Refused, Removes, Tries
<1>6. QED
  BY <1>1, <1>3, <1>4, <1>5

LEMMA RejectedQuiet ==
    ASSUME Control, Running, NEW t \in Everyone, Rejected(t)
    PROVE  Quietly(t)
<1>1. Free(t) /\ task[t].levels = <<>> /\ ~Stopping(t) /\ t \in Tasks /\ task[t].at = "rejected"
  BY FreeAt, Whose DEF Rejected, Stopping
<1>2. Stays /\ enabledIds' = enabledIds
  BY DEF Rejected, Stays, announced, applying, shown, running, listing
<1>3. CASE task[t].do = "enable"
  BY <1>1, <1>2, <1>3, UndoQuiet DEF Rejected
<1>4. CASE task[t].do # "enable"
  BY <1>1, <1>4, <1>2, EndsQuiet DEF Removes, Tries, Rejected
<1>5. QED
  BY <1>3, <1>4

LEMMA ResumeQuiet ==
    ASSUME Control, Running, NEW t \in Everyone, Resume(t)
    PROVE  Quietly(t)
<1>1. /\ Free(t) /\ task[t].levels = <<>> /\ ~Stopping(t) /\ TypeOK /\ task[t].at = "resumed"
      /\ task[t].do \in {"enable", "disable", "remove"} /\ task[t].id \in Plugins
      /\ task[t].published # 0 /\ t \in Tasks
  BY FreeAt, Whose DEF Control, Ordered, Shaped, Phased, Published, Resume, Stopping
<1>2. Stays
  BY DEF Resume, Stays, announced, applying, running, listing
<1>3. ~Removes(t) /\ \A p \in Plugins : ~Tries(t, p)
  BY <1>1 DEF Removes, Tries
<1>4. CASE task[t].do = "disable"
  <2>1. /\ task' = [task EXCEPT ![t].at = "stop", ![t].stops = <<task[t].id>>]
        /\ <<task[t].id>> \in Seq(Plugins) /\ "stop" \in Points /\ enabledIds' = enabledIds
    BY <1>1, <1>4 DEF Resume, Points
  <2>2. /\ Others(t) /\ task'[t].do = task[t].do /\ task'[t].id = task[t].id /\ task'[t].at = "stop"
        /\ task'[t].levels = task[t].levels /\ task'[t].doing = task[t].doing
        /\ task'[t].did = task[t].did /\ task'[t].published = task[t].published
    BY <1>1, <2>1, StopsEffect
  <2>3. QED
    BY <1>1, <1>2, <1>3, <1>4, <2>1, <2>2, MovesQuiet
<1>5. CASE task[t].do = "enable"
  BY <1>1, <1>5, <1>2, <1>3, EndsQuiet DEF Resume, Earned
<1>6. CASE task[t].do = "remove"
  BY <1>6, <1>1, <1>2, <1>3, EndsQuiet DEF Resume
<1>7. QED
  BY <1>1, <1>4, <1>5, <1>6

\* What was written the window has heard of.
LEMMA JoinQuiet ==
    ASSUME Control, Running, NEW t \in Everyone, Join(t), ~(task[t].published > applied)
    PROVE  Quietly(t)
<1>1. /\ TypeOK /\ t \in Tasks /\ task[t].published \in Nat /\ task[t] # Idle
      /\ Free(t) /\ task[t].levels = <<>> /\ task[t].published # 0 /\ task[t].at = "join"
      /\ task[t].do \notin {"reload", "reloadOne", "revoke"}
  BY Whose, FreeAt, TaskType, IdleType DEF Control, Join, Ordered, Shaped, Phased, Published
<1>2. applied = env.rev
  BY <1>1, Revisions DEF Control, Ordered, Solitary
<1>3. OnlyMoves(t, "resumed")
  BY <1>1, MovesEffect DEF Join, Points
<1>4. Stays /\ enabledIds' = enabledIds
  BY DEF Join, Stays, announced, applying, shown, running, listing
<1>5. \A p \in Plugins : ~Tries(t, p)
  BY <1>1 DEF Tries
<1>6. QED
  BY <1>1, <1>2, <1>3, <1>4, <1>5, MovesQuiet DEF OnlyMoves

LEMMA ReloadedQuiet ==
    ASSUME Control, Running, NEW t \in Tasks, Reloaded(t)
    PROVE  Quietly(t)
<1>1. /\ t \in Everyone /\ t # Coordinator /\ TypeOK /\ Free(t) /\ ~Stopping(t)
      /\ task[t].do = "reload"
  BY FreeAt, ZeroType DEF Control, Reloaded, ActivatedAll, Stopping
<1>2. Ends(t, "ok") /\ Stays /\ enabledIds' = enabledIds
  BY <1>1 DEF Reloaded, Stays, announced, applying, shown, running, listing
<1>3. ~Removes(t) /\ \A p \in Plugins : ~Tries(t, p)
  BY <1>1 DEF Removes, Tries
<1>4. QED
  BY <1>1, <1>2, <1>3, EndsQuiet

\* What a person asks for.
LEMMA StartsQuiet ==
    ASSUME Control, Running, NEW t \in Tasks, Stays, enabledIds' = enabledIds, task[t] = Idle,
           NEW do, NEW at, Starts(t, do, at), at \notin {"stopping", "undoing", "activate"},
           do = "reloadOne" => store[task'[t].id] # 0,
           do = "reload" /\ at = "stop" => task'[t].stops = Actives,
           do = "remove" => at = "read", Clears(t)'
    PROVE  Quietly(t)
<1>1. Free(t) /\ ~Stopping(t)
  BY IdleFree
<1>2. /\ Others(t) /\ task'[t].do = do /\ task'[t].at = at /\ task'[t].levels = <<>>
      /\ task'[t].did = <<>> /\ task'[t].published = 0
      /\ \A p \in Plugins : task'[t].doing[p] = "no"
  BY DEF Starts
<1>3. DOMAIN task'[t].levels = {}
  BY <1>2
<1>4. \A p \in Plugins : ~Ahead(t, p)'
  BY <1>3 DEF Ahead
<1>5. Apart(t)'
  BY <1>2, <1>3 DEF Apart, Stays
<1>6. Free(t)' /\ (Stopping(t)' => task'[t].stops = Actives)
  BY <1>2 DEF Free, Stopping
<1>7. Turns(t)
  BY <1>1, <1>4, <1>5, <1>6 DEF Turns
<1>8. task[t].do = "none" /\ Range(task'[t].did) = {}
  BY <1>2, IdleType DEF Range
<1>9. QED
  BY <1>2, <1>7, <1>8 DEF Quietly, Departs, Removes, Tries, Fresh, Renews

LEMMA BeginStays ==
    ASSUME NEW t, NEW r, Begin(t, r), UNCHANGED shown
    PROVE  Stays /\ task[t] = Idle /\ enabledIds' = enabledIds
  BY DEF Begin, Stays, announced, applying, shown, running, listing

LEMMA UserQuiet ==
    ASSUME ~Overlap, Control, Running, NEW t \in Tasks, NEW p \in Plugins, User(t, p)
    PROVE  Quietly(t)
<1>1. CASE StartEnable(t, p)
  <2>1. /\ Others(t) /\ task'[t].do = "enable" /\ task'[t].at = "activate"
        /\ task'[t].levels = OneByOne(Chain(p, store))
        /\ task'[t].did = <<>> /\ task'[t].published = 0
        /\ \A q \in Plugins : task'[t].doing[q] = "no"
    BY <1>1, StartEnableControl
  <2>2. Stays /\ task[t] = Idle /\ enabledIds' = enabledIds
    BY <1>1, BeginStays DEF StartEnable
  <2>3. PendingConsentChain(p, store) = {}
    BY <1>1 DEF StartEnable
  <2>4. Free(t) /\ task[t].do = "none" /\ store' = store
    BY <2>2, IdleFree, IdleType DEF Stays
  <2>5. Turns(t)
    BY <2>1, <2>3, <2>4, ChainTurns
  <2>6. QED
    BY <2>1, <2>2, <2>4, <2>5 DEF Quietly, Departs, Removes, Tries, Fresh, Clears, Renews
<1>2. CASE StartDisable(t, p)
  BY <1>2, StartDisableControl, BeginStays, StartsQuiet DEF StartDisable, Starts, Clears
<1>3. CASE StartRemove(t, p)
  <2>1. Starts(t, "remove", "read")
    BY <1>3, StartRemoveControl
  <2>2. Stays /\ task[t] = Idle /\ enabledIds' = enabledIds
    BY <1>3, BeginStays DEF StartRemove
  <2>3. QED
    BY <2>1, <2>2, StartsQuiet DEF Starts, Clears
<1>4. CASE StartReloadOne(t, p)
  <2>1. Starts(t, "reloadOne", "fetch") /\ task'[t].id = p /\ store[p] # 0
    BY <1>4, StartReloadOneControl DEF StartReloadOne
  <2>2. Stays /\ task[t] = Idle /\ enabledIds' = enabledIds
    BY <1>4, BeginStays DEF StartReloadOne
  <2>3. QED
    BY <2>1, <2>2, StartsQuiet DEF Starts, Clears
<1>5. CASE StartRevoke(t, p)
  <2>1. /\ Starts(t, "revoke", "stop") /\ task'[t].id = p
        /\ task'[t].stops = CascadeRemovalSet(p, Needs, InStore(store))
    BY <1>5, StartRevokeControl
  <2>2. Stays /\ task[t] = Idle /\ enabledIds' = enabledIds
    BY <1>5, BeginStays DEF StartRevoke
  <2>3. Clears(t)'
    <3>1. SUFFICES ASSUME NEW q \in Plugins, active[q] # 0, p \in Range(Chain(q, store))
                   PROVE  q \in Range(CascadeRemovalSet(p, Needs, InStore(store)))
      BY <2>1, <2>2 DEF Clears, Stays
    <3>2. store[q] # 0
      BY <3>1 DEF Running, Fits
    <3>3. QED
      BY <3>1, <3>2, CascadeHolds
  <2>4. QED
    BY <2>1, <2>2, <2>3, StartsQuiet
<1>6. QED
  BY <1>1, <1>2, <1>3, <1>4, <1>5 DEF User

LEMMA StartReloadQuiet ==
    ASSUME ~Overlap, Control, Running, NEW t \in Tasks, StartReload(t)
    PROVE  Quietly(t)
  BY StartReloadControl, BeginStays, StartsQuiet DEF StartReload, Starts, Clears

-----------------------------------------------------------------------------
\* The steps, by what they change of what the window knows.

Settles(t) == Quietly(t) /\ realms' = realms /\ (consents' = consents \/ Revoked(t))

\* What runs, what is known of it and what others hold.
Unmoved ==
    /\ env' = env /\ store' = store /\ active' = active /\ realms' = realms /\ read' = read
    /\ enabledIds' = enabledIds /\ consents' = consents

\* An operation gets to another point.
Answered(u, at) ==
    /\ task[u].at \in {"join", "joined"}
    /\ task'[u].do = task[u].do /\ task'[u].id = task[u].id /\ task'[u].at = at
    /\ task'[u].levels = task[u].levels /\ task'[u].doing = task[u].doing
    /\ task'[u].stops = task[u].stops /\ task'[u].did = task[u].did
    /\ task'[u].published = task[u].published

\* The coordinator hears of a revision it has not applied.
Heeds ==
    /\ Unmoved /\ host = "ready" /\ host' = host /\ applied' = applied /\ unlisted' = unlisted
    /\ \/ task'[Coordinator] = task[Coordinator] /\ task[Coordinator] # Idle
       \/ task[Coordinator] = Idle /\ \E n \in Nat : task'[Coordinator] = ReloadFor(n)
    /\ \A u \in Tasks : task'[u] = task[u] \/ Answered(u, "joined")

\* It hears of one it has.
Misses ==
    /\ Unmoved /\ host' = host /\ applied' = applied /\ pending' = pending /\ unlisted' = unlisted
    /\ task' = task /\ \E rev \in events : rev <= applied /\ events' = events \ {rev}

\* It is done with a reload.
Concludes ==
    /\ Unmoved /\ events' = events /\ pending' = pending /\ unlisted' = unlisted
    /\ task[Coordinator].do = "reload" /\ task[Coordinator].at = "activate"
    /\ task[Coordinator].levels = <<>> /\ Free(Coordinator)
    /\ host' = "ready" /\ applied' = task[Coordinator].rev
    /\ \/ task'[Coordinator] = Idle /\ (host = "loading" \/ pending = task[Coordinator].rev)
       \/ \E n \in Nat : task'[Coordinator] = ReloadFor(n)
    /\ \A u \in Tasks : task'[u] = task[u] \/ (Answered(u, "resumed") /\ applied' = env.rev)

\* A reload could not read what there is.
Misreads(t) ==
    /\ Unmoved /\ events' = events /\ applied' = applied /\ pending' = pending /\ unlisted' = TRUE
    /\ host' = host \/ host' = "failed"
    /\ \A p \in Plugins : active[p] = 0
    /\ \A u \in Everyone : \A p \in Plugins : task[u].doing[p] = "no" /\ ~Ahead(u, p)
    /\ task'[t] = Idle
    /\ \A u \in Everyone \ {t} : task'[u] = task[u] \/ (Answered(u, "rejected") /\ u \in Tasks)

\* The window begins.
Boots ==
    /\ Unmoved /\ host = "start" /\ host' = "loading" /\ applied' = env.rev /\ pending' = env.rev
    /\ unlisted' = unlisted /\ \E n \in Nat : task'[Coordinator] = ReloadFor(n)
    /\ \A u \in Tasks : task'[u] = task[u] /\ task[u] = Idle

\* An operation writes the environment.
Writes(t) ==
    /\ t \in Tasks /\ Others(t) /\ task[t].at = "write" /\ env'.rev = env.rev + 1
    /\ events' = events \cup {env'.rev} /\ host' = host /\ applied' = applied /\ pending' = pending
    /\ store' = store /\ active' = active /\ realms' = realms /\ read' = read /\ unlisted' = unlisted
    /\ enabledIds' = enabledIds /\ consents' = consents /\ host = "ready"
    /\ task'[t].do = task[t].do /\ task'[t].id = task[t].id
    /\ task'[t].levels = task[t].levels /\ task'[t].doing = task[t].doing
    /\ task'[t].stops = task[t].stops /\ task'[t].did = task[t].did
    /\ task'[t].published # 0
    /\ \A u \in Tasks \ {t} : task[u] = Idle
    /\ \/ /\ task[t].do \in {"enable", "disable"} /\ task'[t].at = "join" /\ env'.version = env.version
          /\ task[t].do = "enable" => Range(task[t].did) \subseteq env'.on
       \/ /\ task[t].do = "remove" /\ task'[t].at = "stop"
          /\ \E h \in Plugins :
                /\ h = Head(task[t].stops)
                /\ env'.version = [env.version EXCEPT ![h] = 0]
                /\ \A q \in Plugins \ {h} : env.version[q] # 0 => h \notin Needs[q]

\* Others change what is installed, or which are enabled.
Shifts ==
    /\ store' = store /\ active' = active /\ realms' = realms /\ read' = read /\ unlisted' = unlisted
    /\ enabledIds' = enabledIds /\ consents' = consents
    /\ host' = host /\ applied' = applied /\ pending' = pending /\ task' = task
    /\ \A t \in Tasks : task[t] = Idle
    /\ \A p \in Plugins : env.version[p] # 0 => env'.version[p] # 0
    /\ \/ env'.rev = env.rev + 1 /\ events' = events \cup {env'.rev} /\ env'.version = env.version
       \/ /\ env'.rev = env.rev + 1 /\ events' = events \cup {env'.rev}
          /\ \E p \in Plugins : /\ \A q \in Needs[p] \ {p} : env.version[q] # 0
                                /\ env'.version[p] # 0
                                /\ \A q \in Plugins \ {p} : env'.version[q] = env.version[q]
       \/ /\ env'.rev = env.rev /\ events' = events /\ env'.on = env.on
          /\ \A p \in Plugins : /\ env'.version[p] # 0 <=> env.version[p] # 0
                                /\ p \notin Development => env'.version[p] = env.version[p]

\* A person consents, or nothing happens.
Waits ==
    /\ Stays /\ realms' = realms /\ enabledIds' = enabledIds /\ task' = task
    /\ consents' = consents \/ \E p \in Plugins : GrantConsent(p)

LEMMA SettledQuiet ==
    ASSUME NEW t,
           \/ Undone(t) \/ Disabled(t) \/ Revoked(t) \/ Unread(t) \/ FetchFails(t) \/ Reenable(t)
           \/ ChainActivated(t) \/ ReadEnvironment(t) \/ WriteRefused(t) \/ Join(t) \/ Resume(t)
           \/ Rejected(t) \/ Reloaded(t) \/ StartReload(t) \/ \E p \in Plugins : User(t, p)
    PROVE  realms' = realms /\ (consents' = consents \/ Revoked(t))
<1>1. CASE Undone(t) \/ Disabled(t) \/ Revoked(t) \/ Unread(t) \/ FetchFails(t) \/ Reenable(t)
  BY <1>1 DEF Undone, Disabled, Revoked, Unread, Fetch, FetchFails, Reenable, running, shown
<1>2. CASE ChainActivated(t) \/ ReadEnvironment(t) \/ WriteRefused(t)
  BY <1>2 DEF ChainActivated, ReadEnvironment, WriteRefused, running, shown
<1>3. CASE Join(t) \/ Resume(t) \/ Rejected(t) \/ Reloaded(t)
  BY <1>3 DEF Join, Resume, Rejected, Reloaded, running, shown
<1>4. CASE StartReload(t)
  BY <1>4 DEF StartReload, Begin, running, shown
<1>5. ASSUME NEW p \in Plugins, User(t, p)
      PROVE  realms' = realms /\ consents' = consents
  BY <1>5 DEF User, StartEnable, StartDisable, StartRemove, StartReloadOne, StartRevoke, Begin,
              running, shown
<1>6. QED
  BY <1>1, <1>2, <1>3, <1>4, <1>5

LEMMA EventIs ==
    ASSUME Control, NEW rev \in events, Event(rev)
    PROVE  Heeds \/ Misses
<1>1. TypeOK /\ rev \in Nat /\ applied \in Nat /\ host = "ready"
  BY Revisions DEF Control, Event
<1>2. Unmoved /\ unlisted' = unlisted
  BY DEF Event, Unmoved, shown, running, listing
<1>3. CASE rev > applied
  BY <1>1, <1>3, HearEffect, <1>2 DEF Event, TypeOK, Heeds
<1>4. CASE ~(rev > applied)
  BY <1>1, <1>4, <1>2 DEF Event, applying, Misses
<1>5. QED
  BY <1>3, <1>4

LEMMA JoinIs ==
    ASSUME Control, Running, NEW t \in Everyone, Join(t)
    PROVE  Heeds \/ Settles(t)
<1>1. /\ TypeOK /\ t \in Tasks /\ t # Coordinator /\ task[t].published \in Nat
      /\ task[t].at = "join" /\ task[t] # Idle
  BY Whose, TaskType, IdleType DEF Control, Join
<1>2. host = "ready"
  BY <1>1 DEF Control, Ordered, Solitary
<1>3. Unmoved /\ unlisted' = unlisted
  BY DEF Join, announced, Unmoved, shown, running, listing
<1>4. CASE task[t].published > applied
  <2> DEFINE r == [task[t] EXCEPT !.at = "joined"]
             waiting == [task EXCEPT ![t] = r]
  <2>1. Hear(task[t].published, waiting)
    BY <1>1, <1>4, TaskType DEF Join, TypeOK, TaskRecords
  <2>2. /\ r \in TaskRecords /\ r.do = task[t].do /\ r.id = task[t].id /\ r.at = "joined"
        /\ r.levels = task[t].levels /\ r.doing = task[t].doing /\ r.stops = task[t].stops
        /\ r.did = task[t].did /\ r.published = task[t].published
    BY <1>1, TaskType DEF TaskRecords, Points
  <2> HIDE DEF r
  <2>3. /\ waiting \in [Everyone -> TaskRecords] /\ waiting[Coordinator] = task[Coordinator]
        /\ waiting[t] = r /\ \A u \in Tasks \ {t} : waiting[u] = task[u]
    BY <1>1, <2>2, ZeroType DEF TypeOK
  <2> HIDE DEF waiting
  <2>4. /\ \A u \in Tasks : task'[u] = waiting[u]
        /\ task[Coordinator] # Idle => task'[Coordinator] = task[Coordinator]
        /\ task[Coordinator] = Idle => task'[Coordinator] = ReloadFor(pending')
        /\ host' = host /\ applied' = applied /\ pending' \in Nat
    BY <1>1, <2>1, <2>3, HearEffect
  <2>5. Answered(t, "joined")
    BY <1>1, <2>2, <2>3, <2>4 DEF Answered
  <2>6. \A u \in Tasks : task'[u] = task[u] \/ Answered(u, "joined")
    BY <1>1, <2>3, <2>4, <2>5
  <2>7. QED
    BY <1>2, <1>3, <2>4, <2>6 DEF Heeds
<1>5. CASE ~(task[t].published > applied)
  BY <1>5, JoinQuiet, SettledQuiet DEF Settles
<1>6. QED
  BY <1>4, <1>5

LEMMA ReloadedIs ==
    ASSUME Control, Running, NEW t \in Everyone, Reloaded(t)
    PROVE  Concludes \/ Settles(t)
<1>1. CASE t # Coordinator
  BY <1>1, ZeroType, ReloadedQuiet, SettledQuiet DEF Settles
<1>2. CASE t = Coordinator
  <2>1. /\ TypeOK /\ task[Coordinator].do = "reload" /\ task[Coordinator].at = "activate"
        /\ task[Coordinator].levels = <<>> /\ Free(Coordinator)
    BY <1>2, FreeAt DEF Control, Reloaded, ActivatedAll
  <2>2. Unmoved /\ events' = events /\ unlisted' = unlisted
    BY DEF Reloaded, announced, Unmoved, shown, running, listing
  <2>3. /\ pending \in Nat /\ task[Coordinator].rev \in Nat /\ task[Coordinator].rev <= pending
        /\ host \in {"loading", "ready"} /\ task[Coordinator] # Idle
        /\ host = "loading" => applied = task[Coordinator].rev
    BY <2>1, TaskType, ZeroType, Revisions, IdleType DEF TypeOK, Control, Ordered, Coordinating
  <2>4. CASE host = "loading"
    BY <1>2, <2>4, <2>1, EndsEffect, ZeroType, <2>2, <2>3 DEF Reloaded, Others, Concludes
  <2>5. CASE host = "ready"
    <3>1. /\ applied' = task[Coordinator].rev /\ host' = host /\ pending' = pending
          /\ task' = IF pending > task[Coordinator].rev THEN [task EXCEPT ![t] = ReloadFor(pending)]
                     ELSE [Joined("resumed") EXCEPT ![t] = Idle]
      BY <1>2, <2>5 DEF Reloaded, AppliedTarget
    <3>2. CASE pending > task[Coordinator].rev
      <4>1. task' = [task EXCEPT ![t] = ReloadFor(pending)] /\ ReloadFor(pending) \in TaskRecords
        BY <2>3, <3>1, <3>2, ReloadTask
      <4>2. Others(t) /\ task'[t] = ReloadFor(pending)
        BY <2>1, <4>1, Becomes
      <4>3. \A u \in Tasks : task'[u] = task[u]
        BY <1>2, <4>2, ZeroType DEF Others
      <4>4. QED
        BY <1>2, <2>1, <2>2, <2>3, <2>5, <3>1, <4>2, <4>3 DEF Concludes
    <3>3. CASE ~(pending > task[Coordinator].rev)
      <4>1. task' = [Joined("resumed") EXCEPT ![Coordinator] = Idle]
        BY <1>2, <3>1, <3>3
      <4>2. /\ task'[Coordinator] = Idle
            /\ \A u \in Tasks :
                 /\ task[u].at # "joined" => task'[u] = task[u]
                 /\ task[u].at = "joined" => Answered(u, "resumed")
        BY <2>1, <4>1, JoinedEffect DEF Answered
      <4>3. \A u \in Tasks : task[u].at = "joined" => pending = env.rev
        BY IdleType DEF Control, Ordered, Solitary
      <4>4. applied' = pending
        BY <2>3, <3>1, <3>3
      <4>5. QED
        BY <2>1, <2>2, <2>5, <3>1, <4>2, <4>3, <4>4 DEF Concludes
    <3>4. QED
      BY <3>2, <3>3
  <2>6. QED
    BY <2>3, <2>4, <2>5
<1>3. QED
  BY <1>1, <1>2

LEMMA ListFailsIs ==
    ASSUME Control, Running, NEW t \in Everyone, ListFails(t)
    PROVE  Misreads(t)
<1>1. TypeOK /\ task[t].do = "reload" /\ task[t].at = "stop"
  BY DEF Control, ListFails, AllStopped
<1>2. /\ Unmoved /\ events' = events /\ applied' = applied /\ pending' = pending
      /\ unlisted' = TRUE /\ (host' = host \/ host' = "failed")
  BY DEF ListFails, announced, Unmoved, shown, running
<1>3. \A p \in Plugins : active[p] = 0
  BY Swept DEF ListFails
<1>4. \A u \in Everyone : \A p \in Plugins : task[u].doing[p] = "no" /\ ~Ahead(u, p)
  BY <1>1, BusyActivates, OneActivates
<1>5. task'[t] = Idle /\ \A u \in Everyone \ {t} :
         task'[u] = task[u] \/ (Answered(u, "rejected") /\ u \in Tasks)
  <2>1. CASE t = Coordinator
    BY <2>1, <1>1, JoinedEffect, ZeroType DEF ListFails, Answered
  <2>2. CASE t # Coordinator
    BY <1>1, <2>2, EndsEffect DEF ListFails, Others
  <2>3. QED
    BY <2>1, <2>2
<1>6. QED
  BY <1>2, <1>3, <1>4, <1>5 DEF Misreads

LEMMA StartIs ==
    ASSUME Control, Start
    PROVE  Boots
<1>1. TypeOK /\ host = "start" /\ env.rev \in Nat
  BY Revisions DEF Control, Start
<1>2. task' = [task EXCEPT ![Coordinator] = ReloadFor(env.rev)] /\ ReloadFor(env.rev) \in TaskRecords
  BY <1>1, ReloadTask DEF Start
<1>3. Others(Coordinator) /\ task'[Coordinator] = ReloadFor(env.rev)
  BY <1>1, <1>2, ZeroType, Becomes
<1>4. \A u \in Tasks : task'[u] = task[u] /\ task[u] = Idle
  BY <1>1, <1>3, ZeroType DEF Others, Control, Ordered, Solitary
<1>5. /\ Unmoved /\ host' = "loading" /\ applied' = env.rev /\ pending' = env.rev
      /\ unlisted' = unlisted
  BY DEF Start, announced, Unmoved, shown, running, listing
<1>6. QED
  BY <1>1, <1>3, <1>4, <1>5 DEF Boots

LEMMA WriteIs ==
    ASSUME Control, NEW t \in Everyone, Write(t)
    PROVE  Writes(t)
<1>1. /\ TypeOK /\ task[t].at = "write" /\ Accepted(t) /\ t \in Tasks /\ task[t] # Idle
      /\ task[t].do \in {"enable", "disable", "remove"}
      /\ task[t].do = "remove" => task[t].stops # <<>>
      /\ task[t].id \in Plugins
  BY WriteHas DEF Control, Write
<1>2. /\ env'.rev = env.rev + 1
      /\ task[t].do = "enable" =>
           /\ env'.version = env.version /\ env'.on = env.on \cup Range(task[t].did)
      /\ task[t].do = "disable" => env'.version = env.version
      /\ task[t].do = "remove" =>
           /\ env'.version = [env.version EXCEPT ![Head(task[t].stops)] = 0]
           /\ Head(task[t].stops) \in Plugins
           /\ \A q \in Plugins \ {Head(task[t].stops)} :
                 env.version[q] # 0 => Head(task[t].stops) \notin Needs[q]
  BY <1>1, WrittenEffect DEF Write
<1>3. env'.rev \in Nat /\ env'.rev # 0
  BY <1>1, <1>2, Revisions
<1>4. /\ Others(t) /\ task'[t].do = task[t].do /\ task'[t].id = task[t].id
      /\ task'[t].at = IF task[t].do = "remove" THEN "stop" ELSE "join"
      /\ task'[t].levels = task[t].levels /\ task'[t].doing = task[t].doing
      /\ task'[t].stops = task[t].stops /\ task'[t].did = task[t].did
      /\ task'[t].published = env'.rev
  BY <1>1, <1>3, WriteEffect
<1>5. /\ events' = events \cup {env'.rev} /\ host' = host /\ applied' = applied
      /\ pending' = pending
      /\ store' = store /\ active' = active /\ realms' = realms /\ read' = read
      /\ unlisted' = unlisted /\ enabledIds' = enabledIds /\ consents' = consents
  BY DEF Write, applying, shown, running, listing
<1>6. host = "ready" /\ \A u \in Tasks \ {t} : task[u] = Idle
  BY <1>1 DEF Control, Ordered, Solitary
<1>7. CASE task[t].do = "remove"
  <2>1. PICK h \in Plugins : h = Head(task[t].stops)
    BY <1>2, <1>7
  <2>2. QED
    BY <1>1, <1>2, <1>3, <1>4, <1>5, <1>6, <1>7, <2>1 DEF Writes
<1>8. CASE task[t].do # "remove"
  BY <1>1, <1>2, <1>3, <1>4, <1>5, <1>6, <1>8 DEF Writes
<1>9. QED
  BY <1>7, <1>8

LEMMA ChangeIs ==
    ASSUME ~Overlap, Control, NEW p \in Plugins, Toggle(p) \/ Install(p) \/ Edit(p)
    PROVE  Shifts
<1>1. TypeOK /\ Changes(env')
  BY ToggleIs, InstallIs, EditIs DEF Control
<1>2. /\ store' = store /\ active' = active /\ realms' = realms /\ read' = read
      /\ unlisted' = unlisted /\ enabledIds' = enabledIds /\ consents' = consents
      /\ host' = host /\ applied' = applied /\ pending' = pending /\ task' = task
      /\ events' = IF env'.rev = env.rev THEN events ELSE events \cup {env'.rev}
      /\ \A t \in Tasks : task[t] = Idle
  BY <1>1 DEF Changes, Change, applying, shown, running, listing
<1>3. env.rev \in Nat /\ env.rev + 1 # env.rev
  BY <1>1, Revisions
<1>4. CASE Toggle(p)
  BY <1>1, <1>2, <1>3, <1>4, ToggleIs DEF Shifts
<1>5. CASE Install(p)
  <2>1. /\ env'.rev = env.rev + 1 /\ env'.version[p] # 0
        /\ \A q \in Plugins \ {p} : env'.version[q] = env.version[q]
    BY <1>1, <1>5, InstallIs
  <2>2. \A q \in Needs[p] \ {p} : env.version[q] # 0
    BY <1>5 DEF Install
  <2>3. \A q \in Plugins : env.version[q] # 0 => env'.version[q] # 0
    BY <2>1
  <2>4. QED
    BY <1>2, <1>3, <2>1, <2>2, <2>3 DEF Shifts
<1>6. CASE Edit(p)
  BY <1>1, <1>6, EditIs, <1>2 DEF Shifts
<1>7. QED
  BY <1>4, <1>5, <1>6

LEMMA GrantIs ==
    ASSUME NEW p \in Plugins, GrantConsent(p)
    PROVE  Waits
  BY DEF GrantConsent, Waits, Stays, announced, applying, running, listing

LEMMA SameIs ==
    ASSUME UNCHANGED vars
    PROVE  Waits
  BY DEF vars, Waits, Stays, announced, applying, shown, running, listing

Turning ==
    \/ \E t \in Tasks : Settles(t) \/ Writes(t)
    \/ \E t \in Everyone : Misreads(t)
    \/ Heeds \/ Misses \/ Concludes \/ Boots \/ Shifts \/ Waits

LEMMA NextIs ==
    ASSUME ~Overlap, Control, Running, [Next]_vars
    PROVE  Turning \/ \E t \in Everyone : Handles(t)
<1>1. ASSUME NEW t \in Everyone,
             \/ Undone(t) \/ Disabled(t) \/ Revoked(t) \/ Unread(t) \/ FetchFails(t) \/ Reenable(t)
             \/ ChainActivated(t) \/ ReadEnvironment(t) \/ WriteRefused(t) \/ Resume(t)
             \/ Rejected(t)
      PROVE  \E u \in Tasks : Settles(u)
  <2>1. Quietly(t)
    BY <1>1, UndoneQuiet, DisabledQuiet, RevokedQuiet, UnreadQuiet, FetchFailsQuiet, ReenableQuiet,
       ChainActivatedQuiet, ReadEnvironmentQuiet, WriteRefusedQuiet, ResumeQuiet, RejectedQuiet
  <2>2. t \in Tasks
    BY <2>1 DEF Quietly
  <2>3. QED
    BY <1>1, <2>1, <2>2, SettledQuiet DEF Settles
<1>2. ASSUME NEW t \in Everyone, TaskStep(t)
      PROVE  Turning \/ Handles(t)
  <2>1. CASE Join(t) \/ Reloaded(t)
    BY <2>1, JoinIs, ReloadedIs DEF Settles, Quietly, Turning
  <2>2. CASE Write(t)
    BY <2>2, WriteIs DEF Writes, Turning
  <2>3. CASE ~(Join(t) \/ Reloaded(t) \/ Write(t))
    BY <1>1, <1>2, <2>3 DEF TaskStep, Handles, Rereads, Turning
  <2>4. QED
    BY <2>1, <2>2, <2>3
<1>3. ASSUME NEW t \in Everyone, Failure(t)
      PROVE  Turning \/ Handles(t)
  BY <1>1, <1>3, ListFailsIs DEF Failure, Handles, Turning
<1>4. ASSUME NEW t \in Tasks, StartReload(t) \/ \E p \in Plugins : User(t, p)
      PROVE  Turning
  BY <1>4, UserQuiet, StartReloadQuiet, SettledQuiet DEF Settles, Turning
<1>5. ASSUME NEW p \in Plugins, Toggle(p) \/ Install(p) \/ Edit(p)
      PROVE  Turning
  BY <1>5, ChangeIs DEF Turning
<1>6. Hears => Turning
  BY EventIs DEF Hears, Turning
<1>7. Start => Turning
  BY StartIs DEF Turning
<1>8. ASSUME NEW p \in Plugins, GrantConsent(p)
      PROVE  Turning
  BY <1>8, GrantIs DEF Turning
<1>9. UNCHANGED vars => Turning
  BY SameIs DEF Turning
<1>10. QED
  BY <1>2, <1>3, <1>4, <1>5, <1>6, <1>7, <1>8, <1>9 DEF Next

\* A task does something to a plugin.
Works(t) ==
    /\ Others(t) /\ env' = env /\ events' = events /\ host' = host /\ applied' = applied
    /\ pending' = pending /\ store' = store /\ read' = read /\ unlisted' = unlisted
    /\ enabledIds' \subseteq enabledIds
    /\ task'[t].do = task[t].do /\ task'[t].id = task[t].id /\ task'[t].rev = task[t].rev
    /\ task'[t].published = task[t].published /\ task'[t].at \notin {"resumed", "rejected"}
    /\ task[t].do # "none" /\ (Stopping(t) <=> Stopping(t)')
    /\ Departs(t)' => Departs(t) /\ task'[t].stops = task[t].stops

LEMMA NextLevelWorks ==
    ASSUME Control, NEW t \in Everyone, NextLevel(t)
    PROVE  Works(t)
<1>1. TypeOK /\ task[t].at = "activate" /\ task[t].do # "none"
  BY Whose DEF Control, NextLevel
<1>2. /\ Others(t) /\ task'[t].do = task[t].do /\ task'[t].id = task[t].id
      /\ task'[t].at = "activate" /\ task'[t].rev = task[t].rev
      /\ task'[t].published = task[t].published
  BY <1>1, NextLevelEffect
<1>3. /\ env' = env /\ events' = events /\ host' = host /\ applied' = applied
      /\ pending' = pending /\ store' = store /\ read' = read /\ unlisted' = unlisted
      /\ enabledIds' = enabledIds
  BY DEF NextLevel, announced, applying, shown, listing
<1>4. QED
  BY <1>1, <1>2, <1>3 DEF Works, Stopping, Departs

LEMMA UndoingWorks ==
    ASSUME Control, NEW t \in Everyone, NEW p \in Plugins, Undoing(t, p), task[t].doing[p] # "no",
           env' = env, events' = events, host' = host, applied' = applied, pending' = pending,
           store' = store, read' = read, unlisted' = unlisted, enabledIds' = enabledIds
    PROVE  Works(t)
  BY BusyActivates, Whose, UndoingEffect DEF Control, Works, Stopping, Departs

LEMMA LoadWorks ==
    ASSUME Control, NEW t \in Everyone, NEW p \in Plugins,
           Load(t, p) \/ LoadFails(t, p) \/ ActivateFails(t, p) \/ Activated(t, p)
    PROVE  Works(t)
<1>1. task[t].doing[p] # "no" /\ task[t].at = "activate" /\ task[t].do # "none" /\ TypeOK
  BY BusyActivates, Whose DEF Load, LoadFails, ActivateFails, Activated, Control
<1>2. /\ env' = env /\ events' = events /\ host' = host /\ applied' = applied
      /\ pending' = pending /\ store' = store /\ read' = read /\ unlisted' = unlisted
      /\ enabledIds' = enabledIds
  BY DEF Load, LoadFails, ActivateFails, Activated, announced, applying, shown, listing
<1>3. CASE Undoing(t, p)
  BY <1>1, <1>2, <1>3, UndoingWorks
<1>4. CASE task' = [task EXCEPT ![t].doing[p] = "activate"]
  <2>1. task' = [task EXCEPT ![t].doing[p] = "activate", ![t].did = task[t].did]
    BY <1>1, <1>4, LoadEffect
  <2>2. task[t].did \in Seq(Plugins)
    BY <1>1, TaskType
  <2>3. /\ Others(t) /\ task'[t].do = task[t].do /\ task'[t].id = task[t].id
        /\ task'[t].at = task[t].at
        /\ task'[t].rev = task[t].rev /\ task'[t].published = task[t].published
    BY <1>1, <2>1, <2>2, DoingEffect
  <2>4. QED
    BY <1>1, <1>2, <2>3 DEF Works, Stopping, Departs
<1>5. CASE Activated(t, p)
  <2>1. Append(task[t].did, p) \in Seq(Plugins)
    BY <1>1, TaskType, AppendedRange
  <2>2. task' = [task EXCEPT ![t].doing[p] = "no", ![t].did = Append(task[t].did, p)]
    BY <1>1, <1>5, TaskType DEF Activated, TypeOK, TaskRecords
  <2>3. /\ Others(t) /\ task'[t].do = task[t].do /\ task'[t].id = task[t].id
        /\ task'[t].at = task[t].at
        /\ task'[t].rev = task[t].rev /\ task'[t].published = task[t].published
    BY <1>1, <2>1, <2>2, DoingEffect
  <2>4. QED
    BY <1>1, <1>2, <2>3 DEF Works, Stopping, Departs
<1>6. QED
  BY <1>3, <1>4, <1>5 DEF Load, LoadFails, ActivateFails

LEMMA BeginStopWorks ==
    ASSUME Control, NEW t \in Everyone, BeginStop(t)
    PROVE  Works(t)
<1>1. TypeOK /\ Shaped(t) /\ task[t].at \in {"stop", "undo"} /\ task[t].do # "none"
  BY Whose DEF Control, Ordered, BeginStop
<1>2. OnlyMoves(t, IF task[t].at = "stop" THEN "stopping" ELSE "undoing")
  BY <1>1, BeginStopEffect
<1>3. /\ env' = env /\ events' = events /\ host' = host /\ applied' = applied
      /\ pending' = pending /\ store' = store /\ read' = read /\ unlisted' = unlisted
      /\ enabledIds' = enabledIds
  BY DEF BeginStop, announced, applying, shown, listing
<1>4. task[t].do \in {"remove", "reload"} => task[t].at = "stop"
  BY <1>1 DEF Shaped, Phased
<1>5. QED
  BY <1>1, <1>2, <1>3, <1>4 DEF OnlyMoves, Works, Stopping, Departs

LEMMA StoppedWorks ==
    ASSUME Control, NEW t \in Everyone, Stopped(t)
    PROVE  Works(t)
<1>1. /\ TypeOK /\ Shaped(t) /\ task[t].at \in {"stop", "stopping", "undo", "undoing"}
      /\ task[t].do # "none"
      /\ task[t].do = "reload" => task[t].at \in {"stop", "stopping"}
  BY Whose DEF Control, Ordered, Stopped, Shaped, Phased
<1>2. /\ env' = env /\ events' = events /\ host' = host /\ applied' = applied
      /\ pending' = pending /\ store' = store /\ read' = read /\ unlisted' = unlisted
      /\ enabledIds' \subseteq enabledIds
  BY DEF Stopped, announced, applying, listing
<1>3. /\ Others(t) /\ task'[t].do = task[t].do /\ task'[t].id = task[t].id
      /\ task'[t].rev = task[t].rev /\ task'[t].published = task[t].published
      /\ task[t].do = "remove" => task'[t].at \in {"join", "read"}
      /\ task[t].do # "remove" => task'[t].at = IF task[t].at \in {"stop", "stopping"} THEN "stop"
                                                ELSE "undo"
  BY <1>1, RemovedEffect, StoppedEffect
<1>4. ~Departs(t)'
  BY <1>3 DEF Departs
<1>5. Stopping(t) <=> Stopping(t)'
  BY <1>1, <1>3 DEF Stopping
<1>6. QED
  BY <1>1, <1>2, <1>3, <1>4, <1>5 DEF Works

LEMMA HandlesWorks ==
    ASSUME Control, NEW t \in Everyone, Handles(t)
    PROVE  Works(t) \/ List(t) \/ Rereads(t)
  BY NextLevelWorks, BeginStopWorks, StoppedWorks, LoadWorks DEF Handles

-----------------------------------------------------------------------------
\* What the window knows of the environment.

\* What is in the store is what is installed.
Agrees(p) ==
    /\ store[p] # 0 <=> env.version[p] # 0
    /\ p \notin Development => store[p] = env.version[p]

\* What is installed has what it needs.
Served(p) == env.version[p] # 0 => \A q \in Needs[p] : env.version[q] # 0

\* The store is what was read; the coordinator has applied no more; what a
\* removal stops it has removed.
Known ==
    /\ read = env.rev => \A p \in Plugins : Agrees(p)
    /\ host = "ready" => applied <= read
    /\ host = "loading" => pending = applied
    /\ \A t \in Tasks : Departs(t) => env.version[Head(task[t].stops)] = 0
    /\ \A p \in Plugins : Served(p)

LEMMA InitKnown ==
    ASSUME Init
    PROVE  Known
<1>1. /\ env.rev = 1 /\ read = 0 /\ host = "start" /\ env.version = [p \in Plugins |-> 1]
      /\ \A t \in Everyone : task[t] = Idle
  BY DEF Init
<1>2. \A t \in Tasks : ~Departs(t)
  BY <1>1, IdleType, ZeroType DEF Departs
<1>3. \A p \in Plugins : Served(p)
  BY <1>1, ZeroType DEF Served
<1>4. QED
  BY <1>1, <1>2, <1>3 DEF Known

\* A step that leaves what is installed and what is known of it.
LEMMA SameKnown ==
    ASSUME Known, env' = env, store' = store, read' = read, host' = host, applied' = applied,
           host = "loading" => pending' = pending,
           \A t \in Tasks : Departs(t)' => Departs(t) /\ task'[t].stops = task[t].stops
    PROVE  Known'
  BY DEF Known, Agrees, Served

LEMMA SettlesKnown ==
    ASSUME Control, Known, NEW t \in Tasks, Settles(t)
    PROVE  Known'
  BY ZeroType, SameKnown DEF Settles, Quietly, Others, Departs, Stays

LEMMA WorksKnown ==
    ASSUME Control, Known, NEW t \in Everyone, Works(t)
    PROVE  Known'
<1>1. \A u \in Tasks : Departs(u)' => Departs(u) /\ task'[u].stops = task[u].stops
  BY ZeroType DEF Works, Others, Departs
<1>2. QED
  BY <1>1, SameKnown DEF Works

\* An operation that is answered removes nothing.
LEMMA AnsweredKnown ==
    ASSUME NEW u, NEW at, task'[u] = task[u] \/ Answered(u, at), at \notin {"stop", "stopping"}
    PROVE  Departs(u)' => Departs(u) /\ task'[u].stops = task[u].stops
  BY DEF Answered, Departs

LEMMA HeedsKnown ==
    ASSUME Control, Known, Heeds
    PROVE  Known'
  BY AnsweredKnown, SameKnown DEF Heeds, Unmoved

LEMMA ConcludesKnown ==
    ASSUME Control, Known, Concludes
    PROVE  Known'
<1>1. \A u \in Tasks : Departs(u)' => Departs(u) /\ task'[u].stops = task[u].stops
  BY AnsweredKnown DEF Concludes
<1>2. applied' <= read'
  BY DEF Concludes, Unmoved, Control, Ordered, Coordinating
<1>3. host' = "ready" /\ env' = env /\ store' = store /\ read' = read
  BY DEF Concludes, Unmoved
<1>4. QED
  BY <1>1, <1>2, <1>3 DEF Known, Agrees, Served

LEMMA MisreadsKnown ==
    ASSUME Control, Known, NEW t \in Everyone, Misreads(t)
    PROVE  Known'
<1>1. \A u \in Tasks : Departs(u)' => Departs(u) /\ task'[u].stops = task[u].stops
  BY IdleType, ZeroType, AnsweredKnown DEF Misreads, Departs
<1>2. /\ host' = host \/ host' = "failed"
      /\ env' = env /\ store' = store /\ read' = read /\ applied' = applied /\ pending' = pending
  BY DEF Misreads, Unmoved
<1>3. QED
  BY <1>1, <1>2 DEF Known, Agrees, Served

LEMMA BootsKnown ==
    ASSUME Control, Known, Boots
    PROVE  Known'
  BY IdleType DEF Boots, Departs, Unmoved, Known, Agrees, Served

LEMMA WritesKnown ==
    ASSUME Control, Known, NEW t \in Tasks, Writes(t)
    PROVE  Known'
<1>1. TypeOK /\ env.rev \in Nat /\ read \in Nat /\ read <= env.rev
  BY Revisions DEF Control
<1>2. read' # env'.rev
  BY <1>1 DEF Writes
<1>3. /\ host' = host /\ applied' = applied /\ pending' = pending /\ read' = read
  BY DEF Writes
<1>4. env.version \in [Plugins -> 0 .. MaxVersion]
  BY <1>1 DEF TypeOK, Versions
<1>5. \A p \in Plugins : Served(p)'
  <2>1. CASE env'.version = env.version
    BY <2>1 DEF Known, Served
  <2>2. ASSUME NEW h \in Plugins, env'.version = [env.version EXCEPT ![h] = 0],
               \A q \in Plugins \ {h} : env.version[q] # 0 => h \notin Needs[q]
        PROVE  \A p \in Plugins : Served(p)'
    BY <1>4, <2>2, ZeroType DEF Known, Served
  <2>3. QED
    BY <2>1, <2>2 DEF Writes
<1>6. \A u \in Tasks : Departs(u)' => env'.version[Head(task'[u].stops)] = 0
  <2>1. ASSUME Departs(t)'
        PROVE  env'.version[Head(task'[t].stops)] = 0
    <3>1. task[t].do = "remove" /\ task'[t].stops = task[t].stops
      BY <2>1 DEF Writes, Departs
    <3>2. PICK h \in Plugins : h = Head(task[t].stops) /\ env'.version = [env.version EXCEPT ![h] = 0]
      BY <3>1 DEF Writes
    <3>3. env'.version[h] = 0
      BY <1>4, <3>2
    <3>4. QED
      BY <3>1, <3>2, <3>3
  <2>2. \A u \in Tasks \ {t} : ~Departs(u)'
    BY IdleType, ZeroType DEF Writes, Others, Departs
  <2>3. QED
    BY <2>1, <2>2
<1>7. QED
  BY <1>2, <1>3, <1>5, <1>6 DEF Known

LEMMA ShiftsKnown ==
    ASSUME Control, Known, Shifts
    PROVE  Known'
<1>1. TypeOK /\ env.rev \in Nat /\ read \in Nat /\ read <= env.rev
  BY Revisions DEF Control
<1>2. /\ host' = host /\ applied' = applied /\ pending' = pending /\ read' = read /\ store' = store
      /\ task' = task /\ \A t \in Tasks : task[t] = Idle
  BY DEF Shifts
<1>3. \A u \in Tasks : ~Departs(u)'
  BY <1>2, IdleType DEF Departs
<1>4. \A p \in Plugins : Served(p)'
  <2>1. \A p \in Plugins : Needs[p] \subseteq Plugins
    BY ZeroType
  <2>2. CASE \A p \in Plugins : env'.version[p] # 0 <=> env.version[p] # 0
    BY <2>1, <2>2 DEF Known, Served
  <2>3. ASSUME NEW p \in Plugins, \A q \in Needs[p] \ {p} : env.version[q] # 0,
               env'.version[p] # 0, \A q \in Plugins \ {p} : env'.version[q] = env.version[q]
        PROVE  \A q \in Plugins : Served(q)'
    <3>1. Served(p)'
      BY <2>1, <2>3 DEF Served
    <3>2. ASSUME NEW q \in Plugins \ {p}
          PROVE  Served(q)'
      BY <2>1, <2>3 DEF Known, Served
    <3>3. QED
      BY <3>1, <3>2
  <2>4. CASE env'.version = env.version
    BY <2>2, <2>4
  <2>5. QED
    BY <2>2, <2>3, <2>4 DEF Shifts
<1>5. ASSUME read' = env'.rev, NEW p \in Plugins
      PROVE  Agrees(p)'
  <2>1. env'.rev # env.rev + 1
    BY <1>1, <1>2, <1>5
  <2>2. /\ env'.rev = env.rev /\ (env'.version[p] # 0 <=> env.version[p] # 0)
        /\ p \notin Development => env'.version[p] = env.version[p]
    BY <2>1 DEF Shifts
  <2>3. Agrees(p)
    BY <1>2, <1>5, <2>2 DEF Known
  <2>4. QED
    BY <1>2, <2>2, <2>3 DEF Agrees
<1>6. QED
  BY <1>2, <1>3, <1>4, <1>5 DEF Known

LEMMA ListKnown ==
    ASSUME Control, Known, NEW t \in Everyone, List(t)
    PROVE  Known'
<1>1. TypeOK /\ applied <= env.rev
  BY Revisions DEF Control
<1>2. Others(t) /\ task'[t].do = "reload"
  BY ListEffect
<1>3. \A u \in Tasks : Departs(u)' => Departs(u) /\ task'[u].stops = task[u].stops
  BY <1>2, ZeroType DEF Others, Departs
<1>4. /\ env' = env /\ store' = env.version /\ read' = env.rev /\ host' = host
      /\ applied' = applied /\ pending' = pending
  BY DEF List, announced, applying
<1>5. QED
  BY <1>1, <1>3, <1>4 DEF Known, Agrees, Served

LEMMA RereadsKnown ==
    ASSUME Control, Running, Known, NEW t \in Everyone, Rereads(t)
    PROVE  Known'
<1>1. PICK id \in Plugins :
             /\ id = task[t].id /\ Others(t) /\ task'[t].do = "reloadOne"
             /\ store[id] # 0 /\ store'[id] # 0
             /\ \A q \in Plugins : q # id \/ q \notin Development => store'[q] = store[q]
  BY RereadsEffect
<1>2. \A u \in Tasks : Departs(u)' => Departs(u) /\ task'[u].stops = task[u].stops
  BY <1>1, ZeroType DEF Others, Departs
<1>3. /\ env' = env /\ read' = read /\ host' = host /\ applied' = applied /\ pending' = pending
  BY DEF Rereads, Fetch, announced, applying, listing
<1>4. QED
  BY <1>1, <1>2, <1>3 DEF Known, Agrees, Served

LEMMA NextKnown ==
    ASSUME ~Overlap, Control, Running, Known, [Next]_vars
    PROVE  Known'
<1>1. ASSUME NEW t \in Everyone, Handles(t)
      PROVE  Known'
  BY <1>1, HandlesWorks, WorksKnown, ListKnown, RereadsKnown
<1>2. CASE Misses \/ Waits
  BY <1>2, SameKnown DEF Misses, Waits, Departs, Unmoved, Stays
<1>3. QED
  BY <1>1, <1>2, NextIs, SettlesKnown, WritesKnown, MisreadsKnown, HeedsKnown, ConcludesKnown,
     BootsKnown, ShiftsKnown DEF Turning

-----------------------------------------------------------------------------
\* The code of what runs.

\* A reload for a later revision is to come, or it is still to read what there is.
Behind ==
    \/ /\ task[Coordinator].do = "reload"
       /\ Stopping(Coordinator) \/ task[Coordinator].rev < env.rev
    \/ task[Coordinator] = Idle /\ applied < env.rev /\ env.rev \in events

\* What runs, or is activated, has its code loaded, until it is to be reloaded.
Located(p) ==
    active[p] # 0 \/ (\E t \in Everyone : task[t].doing[p] = "activate") => p \in realms \/ Behind
InRealm == \A p \in Plugins : Located(p)

LEMMA InitInRealm ==
    ASSUME Init
    PROVE  InRealm
  BY IdleType DEF Init, InRealm, Located

\* What was loaded is, and no more runs.
LEMMA SameInRealm ==
    ASSUME InRealm, realms' = realms, Behind => Behind',
           \A p \in Plugins : active'[p] # 0 => active[p] # 0,
           \A u \in Everyone : \A p \in Plugins :
              task'[u].doing[p] = "activate" => task[u].doing[p] = "activate"
    PROVE  InRealm'
  BY DEF InRealm, Located

\* The coordinator and the revisions are as they were.
LEMMA SameBehind ==
    ASSUME task'[Coordinator] = task[Coordinator], env' = env, events' = events, applied' = applied
    PROVE  Behind => Behind'
  BY DEF Behind, Stopping

\* A later revision is announced.
LEMMA LaterBehind ==
    ASSUME Control, task'[Coordinator] = task[Coordinator], env'.rev = env.rev + 1,
           events' = events \cup {env'.rev}, applied' = applied
    PROVE  Behind'
<1>1. /\ TypeOK /\ env.rev \in Nat /\ applied \in Nat /\ pending \in Nat
      /\ applied <= pending /\ pending <= env.rev /\ task[Coordinator].rev \in Nat
  BY Revisions, TaskType, ZeroType DEF Control
<1>2. applied < env'.rev
  BY <1>1
<1>3. task[Coordinator].do = "reload" => task[Coordinator].rev < env'.rev
  BY <1>1 DEF Control, Ordered, Coordinating
<1>4. task[Coordinator].do = "reload" \/ task[Coordinator] = Idle
  BY Whose, ZeroType DEF Control, Ordered, Coordinating
<1>5. QED
  BY <1>2, <1>3, <1>4 DEF Behind

\* A reload begins.
LEMMA ReloadBehind ==
    ASSUME NEW n \in Nat, task'[Coordinator] = ReloadFor(n)
    PROVE  Behind' /\ \A p \in Plugins : task'[Coordinator].doing[p] = "no"
  BY ReloadTask DEF Behind, Stopping

LEMMA SettlesInRealm ==
    ASSUME Control, InRealm, NEW t \in Tasks, Settles(t)
    PROVE  InRealm'
<1>1. /\ Others(t) /\ Stays /\ Free(t)' /\ realms' = realms
  BY DEF Settles, Quietly, Turns
<1>2. task'[Coordinator] = task[Coordinator]
  BY <1>1, ZeroType DEF Others
<1>3. Behind => Behind'
  BY <1>1, <1>2, SameBehind DEF Stays
<1>4. \A u \in Everyone : \A p \in Plugins :
         task'[u].doing[p] = "activate" => task[u].doing[p] = "activate"
  BY <1>1 DEF Others, Free
<1>5. QED
  BY <1>1, <1>3, <1>4, SameInRealm DEF Stays

LEMMA WritesInRealm ==
    ASSUME Control, InRealm, NEW t \in Tasks, Writes(t)
    PROVE  InRealm'
  BY ZeroType, LaterBehind DEF Writes, Others, InRealm, Located

LEMMA ShiftsInRealm ==
    ASSUME Control, InRealm, Shifts
    PROVE  InRealm'
<1>1. task' = task /\ applied' = applied /\ realms' = realms /\ active' = active
  BY DEF Shifts
<1>2. CASE env'.rev = env.rev + 1 /\ events' = events \cup {env'.rev}
  BY <1>1, <1>2, LaterBehind DEF InRealm, Located
<1>3. CASE env'.rev = env.rev /\ events' = events
  BY <1>1, <1>3, SameInRealm DEF Behind, Stopping
<1>4. QED
  BY <1>2, <1>3 DEF Shifts

\* What is answered has nothing in hand.
LEMMA AnsweredDoing ==
    ASSUME NEW u, NEW at, task'[u] = task[u] \/ Answered(u, at)
    PROVE  \A p \in Plugins : task'[u].doing[p] = "activate" => task[u].doing[p] = "activate"
  BY DEF Answered

LEMMA HeedsInRealm ==
    ASSUME Control, InRealm, Heeds
    PROVE  InRealm'
<1>1. Unmoved /\ applied' = applied
  BY DEF Heeds
<1>2. CASE \E n \in Nat : task'[Coordinator] = ReloadFor(n)
  BY <1>2, ReloadBehind DEF InRealm, Located
<1>3. CASE task'[Coordinator] = task[Coordinator] /\ task[Coordinator] # Idle
  BY <1>1, <1>3, AnsweredDoing, ZeroType, SameInRealm DEF Behind, Stopping, Unmoved, Heeds
<1>4. QED
  BY <1>2, <1>3 DEF Heeds

LEMMA MissesInRealm ==
    ASSUME Control, InRealm, Misses
    PROVE  InRealm'
<1>1. TypeOK /\ env.rev \in Nat /\ applied \in Nat
  BY Revisions DEF Control
<1>2. PICK rev \in events : rev <= applied /\ events' = events \ {rev}
  BY DEF Misses
<1>3. Unmoved /\ applied' = applied /\ task' = task
  BY DEF Misses
<1>4. applied < env.rev => env.rev # rev
  BY <1>1, <1>2
<1>5. Behind => Behind'
  BY <1>2, <1>3, <1>4 DEF Behind, Stopping, Unmoved
<1>6. QED
  BY <1>3, <1>5, SameInRealm DEF Unmoved

LEMMA ConcludesInRealm ==
    ASSUME Control, Known, InRealm, Concludes
    PROVE  InRealm'
<1>1. /\ TypeOK /\ env.rev \in Nat /\ pending \in Nat /\ pending <= env.rev
      /\ task[Coordinator].rev \in Nat /\ task[Coordinator] # Idle
  BY Revisions, TaskType, IdleType, ZeroType DEF Control, Concludes
<1>2. /\ Unmoved /\ events' = events /\ applied' = task[Coordinator].rev
      /\ task[Coordinator].do = "reload" /\ ~Stopping(Coordinator)
  BY DEF Concludes, Stopping
<1>3. CASE \E n \in Nat : task'[Coordinator] = ReloadFor(n)
  BY <1>3, ReloadBehind DEF InRealm, Located
<1>4. CASE task'[Coordinator] = Idle /\ (host = "loading" \/ pending = task[Coordinator].rev)
  <2>1. Behind => Behind'
    <3>1. SUFFICES ASSUME task[Coordinator].rev < env.rev
                   PROVE  env.rev \in events
      BY <1>1, <1>2, <1>4 DEF Behind, Unmoved
    <3>2. pending = task[Coordinator].rev /\ host # "start"
      BY <1>1, <1>2, <1>4 DEF Known, Control, Ordered, Coordinating
    <3>3. pending # env.rev
      BY <1>1, <3>1, <3>2
    <3>4. QED
      BY <3>2, <3>3 DEF Control, Ordered, Coordinating
  <2>2. \A u \in Everyone : \A p \in Plugins :
           task'[u].doing[p] = "activate" => task[u].doing[p] = "activate"
    BY <1>4, AnsweredDoing, ZeroType, IdleType DEF Concludes
  <2>3. QED
    BY <1>2, <2>1, <2>2, SameInRealm DEF Unmoved
<1>5. QED
  BY <1>3, <1>4 DEF Concludes

LEMMA MisreadsInRealm ==
    ASSUME NEW t \in Everyone, Misreads(t)
    PROVE  InRealm'
  BY IdleType DEF Misreads, Answered, Unmoved, InRealm, Located

\* A task that works leaves the coordinator where it is, or is it.
LEMMA WorksBehind ==
    ASSUME Control, NEW t \in Everyone, Works(t)
    PROVE  Behind => Behind'
<1>1. /\ env' = env /\ events' = events /\ applied' = applied /\ task[t] # Idle
  BY IdleType DEF Works
<1>2. CASE t = Coordinator
  BY <1>1, <1>2 DEF Works, Behind
<1>3. CASE t # Coordinator
  BY <1>1, <1>3, SameBehind, ZeroType DEF Works, Others
<1>4. QED
  BY <1>2, <1>3

\* A plugin comes to run or to be activated with its code, and loses it with that.
Activates(p) == \E u \in Everyone : task[u].doing[p] = "activate"
Keeps(p) ==
    active'[p] # 0 \/ Activates(p)' =>
       \/ p \in realms' \/ Behind'
       \/ (active[p] # 0 \/ Activates(p)) /\ (p \in realms => p \in realms')

LEMMA KeepsInRealm ==
    ASSUME Control, InRealm, NEW t \in Everyone, Works(t), \A p \in Plugins : Keeps(p)
    PROVE  InRealm'
  BY WorksBehind DEF InRealm, Located, Keeps, Activates

LEMMA NextLevelInRealm ==
    ASSUME Control, NEW t \in Everyone, NextLevel(t)
    PROVE  \A p \in Plugins : Keeps(p)
<1>1. TypeOK /\ active' = active /\ realms' = realms
  BY DEF Control, NextLevel, running
<1>2. /\ \A u \in Everyone \ {t} : task'[u] = task[u]
      /\ \A p \in Plugins : task'[t].doing[p] # "activate"
  BY <1>1, NextLevelEffect DEF Others
<1>3. \A p \in Plugins : Activates(p)' => Activates(p)
  BY <1>2 DEF Activates
<1>4. QED
  BY <1>1, <1>3 DEF Keeps

\* What fails is not activated any more.
LEMMA UndoingInRealm ==
    ASSUME Control, Running, NEW t \in Everyone, NEW p \in Plugins, Undoing(t, p),
           task[t].doing[p] # "no", active' = active, realms' \in {realms, realms \ {p}}
    PROVE  \A q \in Plugins : Keeps(q)
<1>1. TypeOK /\ active[p] = 0 /\ task[t].at = "activate"
  BY BusyActivates DEF Control, Running, InHand
<1>2. /\ \A u \in Everyone \ {t} : task'[u] = task[u]
      /\ task'[t].doing[p] = "no" /\ \A q \in Plugins \ {p} : task'[t].doing[q] = task[t].doing[q]
  BY <1>1, UndoingEffect DEF Others
<1>3. ~Activates(p)'
  <2>1. SUFFICES ASSUME NEW u \in Everyone, task'[u].doing[p] = "activate"
                 PROVE  FALSE
    BY DEF Activates
  <2>2. u # t /\ task[u].doing[p] # "no"
    BY <1>2, <2>1
  <2>3. task[u].at = "activate"
    BY <2>2, BusyActivates
  <2>4. QED
    BY <1>1, <2>2, <2>3, OneActivates
<1>4. \A q \in Plugins \ {p} : Activates(q)' => Activates(q)
  BY <1>2 DEF Activates
<1>5. Keeps(p)
  BY <1>1, <1>3 DEF Keeps
<1>6. \A q \in Plugins \ {p} : q \in realms => q \in realms'
  OBVIOUS
<1>7. \A q \in Plugins \ {p} : Keeps(q)
  BY <1>4, <1>6 DEF Keeps
<1>8. QED
  BY <1>5, <1>7

LEMMA LoadInRealm ==
    ASSUME Control, Running, NEW t \in Everyone, NEW p \in Plugins, Load(t, p)
    PROVE  \A q \in Plugins : Keeps(q)
<1>1. TypeOK /\ active' = active /\ task[t].doing[p] # "no"
  BY DEF Control, Load
<1>2. CASE p \in registered
  BY <1>1, <1>2, UndoingInRealm DEF Load
<1>3. CASE p \notin registered
  <2>1. realms' = realms \cup {p} /\ task' = [task EXCEPT ![t].doing[p] = "activate"]
    BY <1>3 DEF Load
  <2>2. task[t].did \in Seq(Plugins)
    BY <1>1, TaskType
  <2>3. task' = [task EXCEPT ![t].doing[p] = "activate", ![t].did = task[t].did]
    BY <1>1, <2>1, LoadEffect
  <2>4. Others(t) /\ \A q \in Plugins \ {p} : task'[t].doing[q] = task[t].doing[q]
    BY <1>1, <2>2, <2>3, DoingEffect
  <2>5. \A q \in Plugins \ {p} : Activates(q)' => Activates(q)
    BY <2>4 DEF Others, Activates
  <2>6. QED
    BY <1>1, <2>1, <2>5 DEF Keeps
<1>4. QED
  BY <1>2, <1>3

LEMMA FailsInRealm ==
    ASSUME Control, Running, NEW t \in Everyone, NEW p \in Plugins,
           LoadFails(t, p) \/ ActivateFails(t, p)
    PROVE  \A q \in Plugins : Keeps(q)
  BY UndoingInRealm DEF LoadFails, ActivateFails, running

LEMMA ActivatedInRealm ==
    ASSUME Control, NEW t \in Everyone, NEW p \in Plugins, Activated(t, p)
    PROVE  \A q \in Plugins : Keeps(q)
<1>1. TypeOK /\ task[t].doing[p] = "activate" /\ realms' = realms /\ Activates(p)
  BY DEF Control, Activated, Activates
<1>2. \A q \in Plugins \ {p} : active'[q] = active[q]
  BY <1>1 DEF Activated, TypeOK, Versions
<1>3. /\ \A u \in Everyone \ {t} : task'[u] = task[u]
      /\ \A q \in Plugins \ {p} : task'[t].doing[q] = task[t].doing[q]
  BY <1>1, TaskType, AppendedRange, DoingEffect DEF Activated, TypeOK, TaskRecords, Others
<1>4. \A q \in Plugins \ {p} : Activates(q)' => Activates(q)
  BY <1>3 DEF Activates
<1>5. Keeps(p)
  BY <1>1 DEF Keeps
<1>6. QED
  BY <1>1, <1>2, <1>4, <1>5 DEF Keeps

LEMMA BeginStopInRealm ==
    ASSUME Control, NEW t \in Everyone, BeginStop(t)
    PROVE  \A p \in Plugins : Keeps(p)
<1>1. TypeOK /\ realms' = realms
  BY DEF Control, BeginStop
<1>2. \A p \in Plugins : active'[p] # 0 => active[p] # 0
  BY <1>1 DEF BeginStop, TypeOK, Versions
<1>3. OnlyMoves(t, IF task[t].at = "stop" THEN "stopping" ELSE "undoing")
  BY <1>1, BeginStopEffect
<1>4. \A u \in Everyone : \A p \in Plugins : task'[u].doing[p] = task[u].doing[p]
  BY <1>3 DEF OnlyMoves, Others
<1>5. \A p \in Plugins : Activates(p)' => Activates(p)
  BY <1>4 DEF Activates
<1>6. QED
  BY <1>1, <1>2, <1>5 DEF Keeps

\* Whose code a removal releases while the coordinator activates it: it has not
\* read the environment the removal wrote.
LEMMA StoppedInRealm ==
    ASSUME Control, Running, Known, NEW t \in Everyone, Stopped(t)
    PROVE  \A p \in Plugins : Keeps(p)
<1>0. /\ TypeOK /\ Others(t) /\ task'[t].doing = task[t].doing /\ task[t].stops # <<>>
      /\ task[t].at \in {"stop", "stopping", "undo", "undoing"}
      /\ Head(task[t].stops) \in Plugins /\ \A q \in Plugins : task[t].doing[q] = "no"
  BY StoppedLeaves DEF Control
<1>1. PICK h \in Plugins : h = Head(task[t].stops)
  BY <1>0
<1>2. /\ active' = active /\ env' = env /\ events' = events /\ applied' = applied
      /\ realms' = IF Releases(t, h) THEN realms \ {h} ELSE realms
  BY <1>1 DEF Stopped, announced, applying
<1>3. active[h] = 0
  BY <1>1 DEF Holds, Stops, Stopped, Running, Held
<1>4. \A u \in Everyone : \A p \in Plugins : task'[u].doing[p] = task[u].doing[p]
  BY <1>0 DEF Others
<1>5. \A p \in Plugins : Activates(p)' <=> Activates(p)
  BY <1>4 DEF Activates
<1>6. \A p \in Plugins \ {h} : Keeps(p)
  BY <1>2, <1>5 DEF Keeps
<1>7. CASE ~Releases(t, h)
  BY <1>2, <1>5, <1>6, <1>7 DEF Keeps
<1>8. CASE Releases(t, h)
  <2>1. SUFFICES ASSUME NEW u \in Everyone, task[u].doing[h] = "activate"
                 PROVE  Behind'
    BY <1>2, <1>3, <1>5, <1>6 DEF Keeps, Activates
  <2>2. /\ t # u /\ task[u].at = "activate" /\ task[u] # Idle
        /\ task[t].do \in {"disable", "remove", "revoke", "reloadOne"}
    BY <1>0, <1>8, <2>1, BusyActivates DEF Releases
  <2>3. t \in Tasks /\ Shaped(t) /\ Solitary(t) /\ task[t] # Idle
    BY <2>2, Whose, IdleType DEF Control, Ordered
  <2>4. u = Coordinator
    BY <2>2, <2>3, AloneDoes, ZeroType
  <2>5. task[t].do = "remove"
    BY <1>0, <2>2, <2>3, <2>4, AloneDoes DEF Shaped, Phased, Solitary
  <2>6. Departs(t) /\ env.version[h] = 0 /\ store[h] # 0
    BY <1>0, <2>3, <2>5, <2>1, <1>1 DEF Departs, Shaped, Phased, Running, InHand, Known
  <2>7. read # env.rev
    BY <2>6 DEF Known, Agrees
  <2>8. task[Coordinator].do = "reload" /\ task[Coordinator].rev <= read
    BY <2>2, <2>4, Whose, ZeroType DEF Control, Ordered, Coordinating, Shaped, Phased
  <2>9. task[Coordinator].rev < env.rev
    BY <1>0, Revisions, TaskType, ZeroType, <2>7, <2>8
  <2>10. task'[Coordinator] = task[Coordinator]
    BY <1>0, <2>2, <2>4 DEF Others
  <2>11. QED
    BY <1>2, <2>8, <2>9, <2>10 DEF Behind
<1>9. QED
  BY <1>7, <1>8

\* What is read anew, with nothing running.
LEMMA ListInRealm ==
    ASSUME Control, Running, NEW t \in Everyone, List(t)
    PROVE  InRealm'
<1>1. Others(t) /\ task[t].do = "reload" /\ task'[t].doing = task[t].doing
  BY ListEffect
<1>2. \A p \in Plugins : active'[p] = 0
  BY <1>1, Swept DEF List
<1>3. \A u \in Everyone : \A p \in Plugins : task[u].doing[p] = "no"
  BY <1>1, BusyActivates, OneActivates DEF List, AllStopped
<1>4. \A u \in Everyone : \A p \in Plugins : task'[u].doing[p] = "no"
  BY <1>1, <1>3 DEF Others
<1>5. QED
  BY <1>2, <1>4 DEF InRealm, Located

LEMMA RereadsInRealm ==
    ASSUME Control, Running, InRealm, NEW t \in Everyone, Rereads(t)
    PROVE  InRealm'
<1>1. PICK id \in Plugins :
             /\ t \in Tasks /\ Others(t) /\ \A q \in Plugins : task'[t].doing[q] = "no"
  BY RereadsEffect
<1>2. /\ env' = env /\ events' = events /\ applied' = applied /\ active' = active
      /\ realms' = realms
  BY DEF Rereads, Fetch, announced, applying, running
<1>3. Behind => Behind'
  BY <1>1, <1>2, SameBehind, ZeroType DEF Others
<1>4. \A u \in Everyone : \A p \in Plugins :
         task'[u].doing[p] = "activate" => task[u].doing[p] = "activate"
  BY <1>1 DEF Others
<1>5. QED
  BY <1>2, <1>3, <1>4, SameInRealm

LEMMA HandlesInRealm ==
    ASSUME Control, Running, Known, InRealm, NEW t \in Everyone, Handles(t)
    PROVE  InRealm'
<1>1. CASE List(t) \/ Rereads(t)
  BY <1>1, ListInRealm, RereadsInRealm
<1>2. CASE ~(List(t) \/ Rereads(t))
  BY <1>2, HandlesWorks, NextLevelInRealm, BeginStopInRealm, StoppedInRealm, LoadInRealm,
     FailsInRealm, ActivatedInRealm, KeepsInRealm DEF Handles
<1>3. QED
  BY <1>1, <1>2

LEMMA NextInRealm ==
    ASSUME ~Overlap, Control, Running, Known, InRealm, [Next]_vars
    PROVE  InRealm'
<1>1. CASE Boots
  BY <1>1, ReloadBehind DEF Boots, InRealm, Located
<1>2. CASE Waits
  BY <1>2, SameBehind, SameInRealm DEF Waits, Stays
<1>3. QED
  BY <1>1, <1>2, NextIs, HandlesInRealm, SettlesInRealm, WritesInRealm, MisreadsInRealm,
     HeedsInRealm, MissesInRealm, ConcludesInRealm, ShiftsInRealm DEF Turning

\* At rest nothing is stopped or activated, and no reload is to come.
LEMMA AtRest ==
    ASSUME Control, Running, Known, InRealm
    PROVE  RestIsClean
<1>1. SUFFICES ASSUME Quiet, NEW p \in Plugins
               PROVE  /\ ~unlisted /\ store[p] # 0 => (status[p] = "enabled" <=> active[p] # 0)
                      /\ active[p] # 0 <=> p \in registered
                      /\ active[p] # 0 => p \in realms
  BY DEF RestIsClean
<1>2. \A t \in Everyone : task[t] = Idle
  BY <1>1 DEF Quiet
<1>3. \A t \in Everyone : ~Stopping(t) /\ ~Stops(t, p) /\ ~Holds(t, p)
  BY <1>2, IdleType DEF Stopping, Stops, Holds
<1>4. ~unlisted /\ store[p] # 0 => (status[p] = "enabled" <=> active[p] # 0)
  BY <1>3 DEF Running, Tells
<1>5. active[p] # 0 <=> p \in registered
  BY <1>3 DEF Running, Held
<1>6. active[p] # 0 => p \in realms
  <2>1. SUFFICES ASSUME active[p] # 0
                 PROVE  ~Behind
    BY DEF InRealm, Located
  <2>2. host = "ready" /\ events = {}
    BY <1>1, <2>1 DEF Running, Still, Quiet
  <2>3. task[Coordinator].do # "reload"
    BY <1>2, IdleType, ZeroType
  <2>4. QED
    BY <2>2, <2>3 DEF Behind
<1>7. QED
  BY <1>4, <1>5, <1>6

-----------------------------------------------------------------------------
\* The consents of what runs.

\* All a plugin depends on is consented to.
Sanctioned(p) == PendingConsentChain(p, store) = {}

\* A plugin runs, or is to.
Comes(p) == active[p] # 0 \/ \E t \in Everyone : task[t].doing[p] # "no" \/ Ahead(t, p)
Removing == \E t \in Tasks : Removes(t)

\* What runs, or is to, is consented to, but for what is being removed.
Consented ==
    /\ \A p \in Plugins : Comes(p) => Sanctioned(p) \/ (env.version[p] = 0 /\ Removing)
    /\ \A t \in Tasks : Clears(t)

LEMMA ComesHas ==
    ASSUME Running, NEW p \in Plugins, Comes(p)
    PROVE  store[p] # 0
  BY DEF Running, Fits, InHand, Comes

LEMMA SameSanctioned ==
    ASSUME NEW p \in Plugins, store' = store, consents' = consents
    PROVE  Sanctioned(p) => Sanctioned(p)'
  BY DEF Sanctioned, PendingConsentChain

\* A step after which what runs or is to did before, or is consented to.
LEMMA HoldsConsented ==
    ASSUME Running, Known, Consented,
           \A p \in Plugins : Comes(p)' =>
              \/ Sanctioned(p)'
              \/ /\ Comes(p) /\ (Sanctioned(p) => Sanctioned(p)')
                 /\ env.version[p] = 0 => env'.version[p] = 0,
           Removing => Removing' \/ read = env.rev,
           \A t \in Tasks : Clears(t)'
    PROVE  Consented'
<1>1. SUFFICES ASSUME NEW p \in Plugins, Comes(p)', ~Sanctioned(p)'
               PROVE  env'.version[p] = 0 /\ Removing'
  BY DEF Consented
<1>2. env.version[p] = 0 /\ Removing /\ env'.version[p] = 0 /\ Comes(p)
  BY <1>1 DEF Consented
<1>3. read # env.rev
  BY <1>2, ComesHas DEF Known, Agrees
<1>4. QED
  BY <1>2, <1>3

LEMMA InitConsented ==
    ASSUME Init
    PROVE  Consented
<1>1. /\ \A p \in Plugins : active[p] = 0
      /\ \A t \in Everyone : task[t] = Idle
  BY DEF Init
<1>2. DOMAIN Idle.levels = {}
  BY IdleType
<1>3. \A p \in Plugins : ~Comes(p)
  BY <1>1, <1>2, IdleType DEF Comes, Ahead
<1>4. \A t \in Tasks : Clears(t)
  BY <1>1, IdleType, ZeroType DEF Clears
<1>5. QED
  BY <1>3, <1>4 DEF Consented

\* What the others clear they do.
LEMMA OthersClear ==
    ASSUME Consented, NEW t, Others(t), store' = store, \A p \in Plugins : active'[p] = active[p],
           t \in Tasks => Clears(t)'
    PROVE  \A u \in Tasks : Clears(u)'
<1>1. ASSUME NEW u \in Tasks, u # t
      PROVE  Clears(u)'
  BY <1>1, ZeroType DEF Others, Consented, Clears
<1>2. QED
  BY <1>1

LEMMA SettlesConsented ==
    ASSUME Control, Running, Known, Consented, NEW t \in Tasks, Settles(t)
    PROVE  Consented'
<1>1. /\ Others(t) /\ Stays /\ Turns(t) /\ Clears(t)'
      /\ Removes(t) => Removes(t)' \/ applied = env.rev
  BY DEF Settles, Quietly
<1>2. /\ env' = env /\ store' = store /\ active' = active
      /\ \A u \in Everyone \ {t} : task'[u] = task[u]
  BY <1>1 DEF Stays, Others
<1>3. \A p \in Plugins : Comes(p)' => Comes(p) \/ Sanctioned(p)
  <2>1. SUFFICES ASSUME NEW p \in Plugins, Comes(p)', ~Comes(p)
                 PROVE  Sanctioned(p)
    OBVIOUS
  <2>2. Ahead(t, p)'
    BY <1>1, <1>2, <2>1 DEF Comes, Turns, Free, Ahead
  <2>3. QED
    BY <1>1, <2>2 DEF Turns, Sanctioned
<1>4. Removing => Removing' \/ read = env.rev
  <2>1. Removes(t) => Removes(t)' \/ read = env.rev
    <3>1. Removes(t) => host = "ready"
      BY IdleType DEF Removes, Control, Ordered, Solitary
    <3>2. host = "ready" /\ applied = env.rev => read = env.rev
      BY Revisions DEF Control, Known
    <3>3. QED
      BY <1>1, <3>1, <3>2
  <2>2. \A u \in Tasks \ {t} : Removes(u) => Removes(u)'
    BY <1>2, ZeroType DEF Removes
  <2>3. QED
    BY <2>1, <2>2 DEF Removing
<1>5. \A u \in Tasks : Clears(u)'
  BY <1>1, <1>2, OthersClear
<1>6. CASE consents' = consents
  BY <1>2, <1>6, SameSanctioned, <1>3, <1>4, <1>5, HoldsConsented
<1>7. CASE Revoked(t)
  <2>1. /\ task[t].do = "revoke" /\ task[t].stops = <<>> /\ task[t].at = "stop"
        /\ consents' = [consents EXCEPT ![task[t].id] = 0] /\ Free(t)' /\ task'[t] = Idle
    BY <1>7, ZeroType, EndsEffect, <1>1 DEF Revoked, Control, AllStopped, Turns
  <2>2. \A p \in Plugins : ~Ahead(t, p)'
    BY IdleType, <2>1 DEF Ahead
  <2>3. \A u \in Everyone \ {t} : task[u] = Idle
    BY <2>1, AloneDoes
  <2>4. DOMAIN Idle.levels = {}
    BY IdleType
  <2>5. \A p \in Plugins : Comes(p)' => active[p] # 0
    BY <1>2, <2>1, <2>2, <2>3, <2>4, IdleType DEF Comes, Ahead, Free
  <2>6. ~Removing
    BY <2>1, <2>3, IdleType, ZeroType DEF Removing, Removes
  <2>7. ASSUME NEW p \in Plugins, active[p] # 0
        PROVE  Sanctioned(p)'
    <3>1. Sanctioned(p)
      BY <2>6, <2>7 DEF Consented, Comes
    <3>2. Range(task[t].stops) = {}
      BY <2>1 DEF Range
    <3>3. task[t].id \notin Range(Chain(p, store))
      BY <2>1, <2>7, <3>2 DEF Consented, Clears
    <3>4. \A q \in Range(Chain(p, store)) : consents'[q] = consents[q]
      BY ChainHolds, <2>1, <3>3 DEF Control, TypeOK, Versions
    <3>5. QED
      BY <1>2, <3>1, <3>4 DEF Sanctioned, PendingConsentChain
  <2>8. QED
    BY <1>5, <2>5, <2>7 DEF Consented
<1>8. QED
  BY <1>6, <1>7 DEF Settles

\* A task activates: what it activates it was to, and what comes to run it lists.
Plies(t) ==
    /\ Works(t) /\ task[t].at = "activate" /\ task'[t].at \in {"activate", "undo"}
    /\ consents' = consents /\ enabledIds' = enabledIds
    /\ \A p \in Plugins : Ahead(t, p)' => Ahead(t, p)
    /\ \A p \in Plugins : task'[t].doing[p] # "no" => task[t].doing[p] # "no" \/ Ahead(t, p)
    /\ \A p \in Plugins : active'[p] # 0 =>
          active[p] # 0 \/ (task[t].doing[p] # "no" /\ p \in Range(task'[t].did))
    /\ \A p \in Plugins : p \in Range(task'[t].did) =>
          p \in Range(task[t].did) \/ task[t].doing[p] # "no"
    /\ Range(task[t].did) \subseteq Range(task'[t].did)
    /\ task'[t].at = "undo" => Enabling(t) /\ Range(task'[t].did) \subseteq Range(task'[t].stops)

LEMMA NextLevelPlies ==
    ASSUME Control, NEW t \in Everyone, NextLevel(t)
    PROVE  Plies(t)
<1>1. TypeOK /\ Works(t) /\ task[t].at = "activate" /\ task[t].levels # <<>>
  BY NextLevelWorks DEF Control, NextLevel
<1>2. /\ task'[t].at = "activate" /\ task'[t].levels = Tail(task[t].levels)
      /\ task'[t].did = task[t].did
      /\ \A p \in Plugins : task'[t].doing[p] = IF p \in Taken(t) THEN "load" ELSE "no"
  BY <1>1, NextLevelEffect
<1>3. /\ \A i \in DOMAIN task'[t].levels :
            i + 1 \in DOMAIN task[t].levels /\ task'[t].levels[i] = task[t].levels[i + 1]
      /\ 1 \in DOMAIN task[t].levels /\ Head(task[t].levels) = task[t].levels[1]
  BY <1>1, <1>2, TailLevels
<1>4. \A p \in Plugins : (Ahead(t, p)' => Ahead(t, p)) /\ (p \in Taken(t) => Ahead(t, p))
  BY <1>3 DEF Ahead, Taken
<1>5. consents' = consents /\ enabledIds' = enabledIds /\ active' = active
  BY DEF NextLevel, shown, running
<1>6. QED
  BY <1>1, <1>2, <1>4, <1>5 DEF Plies

LEMMA UndoingPlies ==
    ASSUME Control, NEW t \in Everyone, NEW p \in Plugins, Undoing(t, p), task[t].doing[p] # "no",
           Works(t), consents' = consents, enabledIds' = enabledIds, active' = active
    PROVE  Plies(t)
<1>1. TypeOK /\ task[t].at = "activate"
  BY BusyActivates DEF Control
<1>2. /\ task'[t].doing[p] = "no"
      /\ \A q \in Plugins \ {p} : task'[t].doing[q] = task[t].doing[q]
      /\ task'[t].did = task[t].did
      /\ ~Enabling(t) => task'[t].at = task[t].at /\ task'[t].levels = task[t].levels
      /\ Enabling(t) => /\ task'[t].at = "undo" /\ task'[t].levels = <<>>
                        /\ task'[t].stops = Reverse(task[t].did)
  BY <1>1, UndoingEffect
<1>3. \A q \in Plugins : task'[t].doing[q] # "no" => task[t].doing[q] # "no"
  BY <1>2
<1>4. \A q \in Plugins : Ahead(t, q)' => Ahead(t, q)
  <2>1. CASE Enabling(t)
    BY <1>2, <2>1 DEF Ahead
  <2>2. CASE ~Enabling(t)
    BY <1>2, <2>2 DEF Ahead
  <2>3. QED
    BY <2>1, <2>2
<1>5. Enabling(t) => Range(task'[t].did) \subseteq Range(task'[t].stops)
  BY <1>1, TaskType, <1>2, ReversedRange
<1>6. task'[t].at \in {"activate", "undo"} /\ (task'[t].at = "undo" => Enabling(t))
  BY <1>1, <1>2
<1>7. QED
  BY <1>1, <1>2, <1>3, <1>4, <1>5, <1>6 DEF Plies

LEMMA LoadPlies ==
    ASSUME Control, NEW t \in Everyone, NEW p \in Plugins,
           Load(t, p) \/ LoadFails(t, p) \/ ActivateFails(t, p) \/ Activated(t, p)
    PROVE  Plies(t)
<1>1. /\ task[t].doing[p] # "no" /\ task[t].at = "activate" /\ TypeOK /\ Works(t)
      /\ consents' = consents /\ enabledIds' = enabledIds
  BY BusyActivates, LoadWorks DEF Load, LoadFails, ActivateFails, Activated, Control
<1>2. CASE Undoing(t, p) /\ active' = active
  BY <1>1, <1>2, UndoingPlies
<1>3. CASE task' = [task EXCEPT ![t].doing[p] = "activate"] /\ active' = active
  <2>1. task[t].did \in Seq(Plugins)
    BY <1>1, TaskType
  <2>2. task' = [task EXCEPT ![t].doing[p] = "activate", ![t].did = task[t].did]
    BY <1>1, <1>3, LoadEffect
  <2>3. /\ task'[t].at = task[t].at /\ task'[t].levels = task[t].levels
        /\ task'[t].did = task[t].did
        /\ \A q \in Plugins \ {p} : task'[t].doing[q] = task[t].doing[q]
    BY <1>1, <2>1, <2>2, DoingEffect
  <2>4. \A q \in Plugins : task'[t].doing[q] # "no" => task[t].doing[q] # "no"
    BY <1>1, <2>3
  <2>5. \A q \in Plugins : Ahead(t, q)' => Ahead(t, q)
    BY <2>3 DEF Ahead
  <2>6. QED
    BY <1>1, <1>3, <2>3, <2>4, <2>5 DEF Plies
<1>4. CASE Activated(t, p)
  <2>1. task[t].did \in Seq(Plugins)
    BY <1>1, TaskType
  <2>2. /\ Append(task[t].did, p) \in Seq(Plugins)
        /\ Range(Append(task[t].did, p)) = Range(task[t].did) \cup {p}
    BY <2>1, AppendedRange
  <2>3. task' = [task EXCEPT ![t].doing[p] = "no", ![t].did = Append(task[t].did, p)]
    BY <1>1, <1>4, TaskType DEF Activated, TypeOK, TaskRecords
  <2>4. /\ task'[t].at = task[t].at /\ task'[t].levels = task[t].levels
        /\ task'[t].did = Append(task[t].did, p) /\ task'[t].doing[p] = "no"
        /\ \A q \in Plugins \ {p} : task'[t].doing[q] = task[t].doing[q]
    BY <1>1, <2>2, <2>3, DoingEffect
  <2>5. \A q \in Plugins : task'[t].doing[q] # "no" => task[t].doing[q] # "no"
    BY <2>4
  <2>6. \A q \in Plugins : Ahead(t, q)' => Ahead(t, q)
    BY <2>4 DEF Ahead
  <2>7. \A q \in Plugins \ {p} : active'[q] = active[q]
    BY <1>1, <1>4 DEF Activated, TypeOK, Versions
  <2>8. QED
    BY <1>1, <2>2, <2>4, <2>5, <2>6, <2>7 DEF Plies
<1>5. QED
  BY <1>2, <1>3, <1>4 DEF Load, LoadFails, ActivateFails, running

\* A task stops a plugin: what it is still to stop it stops, and a removal
\* takes back the consent to what it removed.
Halts(t) ==
    /\ Works(t) /\ \A p \in Plugins : task[t].doing[p] = "no"
    /\ task'[t].levels = task[t].levels /\ task'[t].doing = task[t].doing
    /\ \A p \in Plugins : active'[p] # 0 => active'[p] = active[p]
    /\ \A p \in Plugins : active'[p] # 0 /\ p \in Range(task[t].stops) => p \in Range(task'[t].stops)
    /\ task[t].do # "remove" => task'[t].did = task[t].did
    /\ \/ task[t].at \in {"undo", "undoing"} /\ task'[t].at \in {"undo", "undoing"}
       \/ /\ task[t].at \in {"stop", "stopping"} /\ task[t].do # "remove"
          /\ task'[t].at \in {"stop", "stopping"}
       \/ task[t].do = "remove"
    /\ \/ consents' = consents
       \/ Departs(t) /\ consents' = [consents EXCEPT ![Head(task[t].stops)] = 0]

LEMMA BeginStopHalts ==
    ASSUME Control, NEW t \in Everyone, BeginStop(t)
    PROVE  Halts(t)
<1>1. TypeOK /\ Works(t) /\ task[t].at \in {"stop", "undo"} /\ Shaped(t)
  BY BeginStopWorks DEF Control, Ordered, BeginStop
<1>2. OnlyMoves(t, IF task[t].at = "stop" THEN "stopping" ELSE "undoing")
  BY <1>1, BeginStopEffect
<1>3. \A p \in Plugins : active'[p] # 0 => active'[p] = active[p]
  BY <1>1 DEF BeginStop, TypeOK, Versions
<1>4. \A p \in Plugins : task[t].doing[p] = "no"
  BY <1>1 DEF Shaped, Busy
<1>5. consents' = consents
  BY DEF BeginStop, shown
<1>6. \/ task[t].at = "undo" /\ task'[t].at = "undoing"
      \/ task[t].at = "stop" /\ task'[t].at = "stopping"
  BY <1>1, <1>2 DEF OnlyMoves
<1>7. QED
  BY <1>1, <1>2, <1>3, <1>4, <1>5, <1>6 DEF OnlyMoves, Halts

LEMMA StoppedHalts ==
    ASSUME Control, Running, NEW t \in Everyone, Stopped(t)
    PROVE  Halts(t)
<1>1. /\ TypeOK /\ Works(t) /\ Shaped(t)
      /\ task'[t].levels = task[t].levels /\ task'[t].doing = task[t].doing
      /\ task[t].at \in {"stop", "stopping", "undo", "undoing"}
      /\ task[t].do # "remove" => task'[t].at = IF task[t].at \in {"stop", "stopping"} THEN "stop"
                                                ELSE "undo"
      /\ Head(task[t].stops) \in Plugins
      /\ Range(task[t].stops) = {Head(task[t].stops)} \cup Range(task'[t].stops)
      /\ \A q \in Plugins : task[t].doing[q] = "no"
  BY StoppedLeaves, StoppedWorks DEF Control, Ordered
<1>2. active' = active
  BY DEF Stopped
<1>3. active[Head(task[t].stops)] = 0
  BY <1>1 DEF Holds, Stops, Stopped, Running, Held
<1>4. \A p \in Plugins : active'[p] # 0 /\ p \in Range(task[t].stops) => p \in Range(task'[t].stops)
  BY <1>1, <1>2, <1>3
<1>5. task[t].do # "remove" => task'[t].did = task[t].did /\ consents' = consents
  <2>1. SUFFICES ASSUME task[t].do # "remove"
                 PROVE  task'[t].did = task[t].did /\ consents' = consents
    OBVIOUS
  <2>2. consents' = consents
    BY <2>1 DEF Stopped
  <2>3. QED
    BY <1>1, <2>1, <2>2, StoppedEffect
<1>6. task[t].do = "remove" => Departs(t) /\ consents' = [consents EXCEPT ![Head(task[t].stops)] = 0]
  BY <1>1 DEF Stopped, Departs, Shaped, Phased
<1>7. QED
  BY <1>1, <1>2, <1>4, <1>5, <1>6 DEF Halts

\* What a task does to plugins.
LEMMA HandlesIs ==
    ASSUME Control, Running, NEW t \in Everyone, Handles(t)
    PROVE  Plies(t) \/ Halts(t) \/ List(t) \/ Rereads(t)
  BY NextLevelPlies, LoadPlies, BeginStopHalts, StoppedHalts DEF Handles

LEMMA PliesConsented ==
    ASSUME Control, Running, Known, Consented, NEW t \in Everyone, Plies(t)
    PROVE  Consented'
<1>1. /\ Works(t) /\ Others(t) /\ store' = store /\ env' = env /\ consents' = consents
      /\ task[t].at = "activate" /\ task[t] # Idle
      /\ task[t].do \notin {"remove", "revoke"} /\ task'[t].do = task[t].do
  BY IdleType DEF Plies, Works, Control, Ordered, Shaped, Phased
<1>2. \A p \in Plugins : Comes(p)' => Comes(p)
  <2>1. SUFFICES ASSUME NEW p \in Plugins, Comes(p)'
                 PROVE  Comes(p)
    OBVIOUS
  <2>2. CASE active'[p] # 0 \/ task'[t].doing[p] # "no" \/ Ahead(t, p)'
    BY <2>2 DEF Plies, Comes
  <2>3. CASE \E u \in Everyone \ {t} : task'[u].doing[p] # "no" \/ Ahead(u, p)'
    BY <1>1, <2>3 DEF Others, Comes, Ahead
  <2>4. QED
    BY <2>1, <2>2, <2>3 DEF Comes
<1>3. \A p \in Plugins : Sanctioned(p) => Sanctioned(p)'
  BY <1>1, SameSanctioned
<1>4. Removing => Removing'
  BY <1>1, ZeroType DEF Others, Removes, Removing
<1>5. \A u \in Tasks : Clears(u)'
  <2>1. SUFFICES ASSUME NEW u \in Tasks, task'[u].do = "revoke"
                 PROVE  FALSE
    BY DEF Clears
  <2>2. u # t /\ task[u].do = "revoke"
    BY <1>1, <2>1, ZeroType DEF Others
  <2>3. QED
    BY <1>1, <2>2, AloneDoes
<1>6. QED
  BY <1>1, <1>2, <1>3, <1>4, <1>5, HoldsConsented

LEMMA HaltsConsented ==
    ASSUME Control, Running, Known, Consented, NEW t \in Everyone, Halts(t)
    PROVE  Consented'
<1>1. Works(t) /\ Others(t) /\ store' = store /\ env' = env /\ task'[t].do = task[t].do
  BY DEF Halts, Works
<1>2. \A p \in Plugins : Comes(p)' => Comes(p)
  <2>1. SUFFICES ASSUME NEW p \in Plugins, Comes(p)'
                 PROVE  Comes(p)
    OBVIOUS
  <2>2. CASE active'[p] # 0
    BY <2>2 DEF Halts, Comes
  <2>3. CASE \E u \in Everyone : task'[u].doing[p] # "no" \/ Ahead(u, p)'
    BY <1>1, <2>3 DEF Halts, Others, Comes, Ahead
  <2>4. QED
    BY <2>1, <2>2, <2>3 DEF Comes
<1>3. \A u \in Tasks : Removes(u) => Removes(u)'
  BY <1>1, ZeroType DEF Works, Others, Removes
<1>4. Removing => Removing'
  BY <1>3 DEF Removing
<1>5. \A u \in Tasks : Clears(u)'
  <2>1. ASSUME NEW u \in Tasks, u # t
        PROVE  Clears(u)'
    BY <1>1, <2>1, ZeroType DEF Others, Halts, Consented, Clears
  <2>2. t \in Tasks => Clears(t)'
    BY <1>1 DEF Halts, Works, Consented, Clears
  <2>3. QED
    BY <2>1, <2>2
<1>6. CASE consents' = consents
  BY <1>1, <1>6, SameSanctioned, <1>2, <1>4, <1>5, HoldsConsented
<1>7. CASE Departs(t) /\ consents' = [consents EXCEPT ![Head(task[t].stops)] = 0]
  <2>1. t \in Tasks /\ Shaped(t) /\ TypeOK
    BY <1>7, Whose DEF Departs, Control, Ordered
  <2>2. Removing'
    BY <1>7, <2>1, <1>3 DEF Departs, Removes, Shaped, Published, Removing
  <2>3. env.version[Head(task[t].stops)] = 0
    BY <1>7, <2>1 DEF Known
  <2>4. ASSUME NEW p \in Plugins, Sanctioned(p), env.version[p] # 0
        PROVE  Sanctioned(p)'
    <3>1. PICK S \in SUBSET Plugins : S = {q \in Plugins : env.version[q] # 0}
      OBVIOUS
    <3>2. NeedsClosed(S, Needs) /\ p \in S
      BY ZeroType, <2>4, <3>1 DEF NeedsClosed, Known, Served
    <3>3. Range(Chain(p, store)) \subseteq S
      BY <3>2, ChainHolds
    <3>4. Head(task[t].stops) \notin Range(Chain(p, store))
      BY <2>3, <3>1, <3>3
    <3>5. \A q \in Range(Chain(p, store)) : consents'[q] = consents[q]
      BY <2>1, ChainHolds, <1>7, <3>4 DEF TypeOK, Versions
    <3>6. QED
      BY <1>1, <2>4, <3>5 DEF Sanctioned, PendingConsentChain
  <2>5. \A p \in Plugins : Comes(p)' => Sanctioned(p)' \/ (env'.version[p] = 0 /\ Removing')
    BY <1>1, <1>2, <2>2, <2>4 DEF Consented
  <2>6. QED
    BY <1>5, <2>5 DEF Consented
<1>8. QED
  BY <1>6, <1>7 DEF Halts

\* What is read anew: what is ready of it is consented to.
LEMMA ListConsented ==
    ASSUME Control, Running, NEW t \in Everyone, List(t)
    PROVE  Consented'
<1>1. /\ Others(t) /\ task[t].do = "reload" /\ task[t].at = "stop" /\ task'[t].doing = task[t].doing
      /\ \A p : Ahead(t, p)' => p \in Ready
      /\ \A p \in Plugins : task[t].doing[p] = "no"
  BY ListEffect
<1>2. store' = env.version /\ consents' = consents /\ \A p \in Plugins : active'[p] = 0
  BY <1>1, Swept DEF List
<1>3. \A u \in Everyone : \A p \in Plugins : task[u].doing[p] = "no" /\ ~Ahead(u, p)
  BY <1>1, BusyActivates, OneActivates
<1>4. \A p \in Plugins : Comes(p)' => p \in Ready
  BY <1>1, <1>2, <1>3 DEF Others, Comes, Ahead
<1>5. \A p \in Ready : Sanctioned(p)'
  BY <1>2 DEF Ready, Sanctioned, PendingConsentChain
<1>6. \A u \in Tasks : Clears(u)'
  BY <1>2 DEF Clears
<1>7. QED
  BY <1>4, <1>5, <1>6 DEF Consented

\* What is read of one plugin has another version only of a development one.
LEMMA RereadsConsented ==
    ASSUME Control, Running, Known, Consented, NEW t \in Everyone, Rereads(t)
    PROVE  Consented'
<1>1. PICK id \in Plugins :
             /\ t \in Tasks /\ Others(t) /\ task'[t].do = "reloadOne" /\ task'[t].levels = <<>>
             /\ \A q \in Plugins : task'[t].doing[q] = "no"
             /\ store[id] # 0 /\ store'[id] # 0
             /\ \A q \in Plugins : q # id \/ q \notin Development => store'[q] = store[q]
             /\ \A u \in Everyone : u # t => task[u] = Idle
  BY RereadsEffect
<1>2. env' = env /\ consents' = consents /\ active' = active
  BY DEF Rereads, Fetch, announced, running
<1>3. DOMAIN task'[t].levels = {}
  BY <1>1
<1>4. \A p \in Plugins : Comes(p)' => Comes(p)
  BY <1>1, <1>2, <1>3 DEF Others, Comes, Ahead
<1>5. ASSUME NEW p \in Plugins, Sanctioned(p)
      PROVE  Sanctioned(p)'
  <2>1. \A q \in Plugins : store[q] # 0 <=> store'[q] # 0
    BY <1>1
  <2>2. Chain(p, store) = Chain(p, store') /\ Range(Chain(p, store)) \subseteq Plugins
    BY <2>1, ChainFollows, ChainHolds
  <2>3. QED
    BY <1>1, <1>2, <1>5, <2>2 DEF Sanctioned, PendingConsentChain
<1>6. \A u \in Tasks : Clears(u)'
  BY <1>1, IdleType, ZeroType DEF Others, Clears
<1>7. Removing => Removing'
  <2>1. \A u \in Tasks : ~Removes(u)
    BY RereadsEffect, <1>1, IdleType, ZeroType DEF Removes
  <2>2. QED
    BY <2>1 DEF Removing
<1>8. QED
  BY <1>2, <1>4, <1>5, <1>6, <1>7, HoldsConsented

\* A step of the coordinator that answers operations, or of nobody.
Passes(at) ==
    /\ store' = store /\ active' = active /\ consents' = consents
    /\ \/ task'[Coordinator] = task[Coordinator] \/ task'[Coordinator] = Idle
       \/ \E n \in Nat : task'[Coordinator] = ReloadFor(n)
    /\ \A u \in Tasks : task'[u] = task[u] \/ Answered(u, at)

LEMMA PassesComes ==
    ASSUME NEW at, Passes(at)
    PROVE  \A p \in Plugins : Comes(p)' => Comes(p)
<1>1. SUFFICES ASSUME NEW p \in Plugins, NEW u \in Everyone, task'[u].doing[p] # "no" \/ Ahead(u, p)'
               PROVE  task[u].doing[p] # "no" \/ Ahead(u, p)
  BY DEF Passes, Comes
<1>2. CASE task'[u] = task[u] \/ Answered(u, at)
  BY <1>1, <1>2 DEF Answered, Ahead
<1>3. CASE task'[u] = Idle
  BY IdleType, <1>1, <1>3 DEF Ahead
<1>4. ASSUME NEW n \in Nat, task'[u] = ReloadFor(n)
      PROVE  FALSE
  BY ReloadTask, <1>1, <1>4 DEF Ahead
<1>5. QED
  BY <1>2, <1>3, <1>4, ZeroType DEF Passes

LEMMA PassesClears ==
    ASSUME Consented, NEW at, Passes(at)
    PROVE  \A u \in Tasks : Clears(u)'
<1>1. SUFFICES ASSUME NEW u \in Tasks
               PROVE  Clears(u)'
  OBVIOUS
<1>2. task'[u].do = task[u].do /\ task'[u].id = task[u].id /\ task'[u].stops = task[u].stops
  BY DEF Passes, Answered
<1>3. QED
  BY <1>2 DEF Passes, Consented, Clears

LEMMA PassesConsented ==
    ASSUME Control, Running, Known, Consented, NEW at, Passes(at),
           \A p \in Plugins : env.version[p] = 0 => env'.version[p] = 0,
           Removing => Removing' \/ read = env.rev
    PROVE  Consented'
  BY PassesComes, SameSanctioned, PassesClears, HoldsConsented DEF Passes

LEMMA HeedsConsented ==
    ASSUME Control, Running, Known, Consented, Heeds
    PROVE  Consented'
<1>1. Passes("joined") /\ env' = env
  BY DEF Heeds, Unmoved, Passes
<1>2. Removing => Removing'
  BY DEF Heeds, Answered, Removes, Removing
<1>3. QED
  BY <1>1, <1>2, PassesConsented

LEMMA ConcludesConsented ==
    ASSUME Control, Running, Known, Consented, Concludes
    PROVE  Consented'
<1>1. Passes("resumed") /\ env' = env
  BY DEF Concludes, Unmoved, Passes
<1>2. applied' = env.rev => read = env.rev
  BY Revisions DEF Concludes, Control, Ordered, Coordinating
<1>3. Removing => Removing' \/ read = env.rev
  BY <1>2 DEF Concludes, Removes, Removing
<1>4. QED
  BY <1>1, <1>3, PassesConsented

LEMMA MisreadsConsented ==
    ASSUME Control, NEW t \in Everyone, Misreads(t)
    PROVE  Consented'
<1>1. \A p \in Plugins : active'[p] = 0
  BY DEF Misreads, Unmoved
<1>2. DOMAIN Idle.levels = {}
  BY IdleType
<1>3. \A u \in Everyone : \A p \in Plugins : task'[u].doing[p] = "no" /\ ~Ahead(u, p)'
  BY <1>2, IdleType DEF Misreads, Ahead, Answered
<1>4. QED
  BY <1>1, <1>3 DEF Consented, Comes, Clears

LEMMA WritesConsented ==
    ASSUME Control, Running, Known, Consented, NEW t \in Tasks, Writes(t)
    PROVE  Consented'
<1>1. /\ Others(t) /\ store' = store /\ active' = active /\ consents' = consents
      /\ task'[t].levels = task[t].levels /\ task'[t].doing = task[t].doing
      /\ task'[t].do = task[t].do /\ task'[t].id = task[t].id /\ task'[t].stops = task[t].stops
  BY DEF Writes
<1>2. \A p \in Plugins : Comes(p)' => Comes(p)
  BY <1>1 DEF Others, Comes, Ahead
<1>3. \A p \in Plugins : Sanctioned(p) => Sanctioned(p)'
  BY <1>1, SameSanctioned
<1>4. \A p \in Plugins : env.version[p] = 0 => env'.version[p] = 0
  BY DEF Writes, Control, TypeOK, Versions
<1>5. Removing => Removing'
  BY IdleType DEF Writes, Removes, Removing
<1>6. \A u \in Tasks : Clears(u)'
  BY <1>1, OthersClear DEF Consented, Clears
<1>7. QED
  BY <1>2, <1>3, <1>4, <1>5, <1>6, HoldsConsented

LEMMA ShiftsConsented ==
    ASSUME Control, Running, Known, Consented, Shifts
    PROVE  Consented'
<1>1. /\ store' = store /\ active' = active /\ consents' = consents /\ task' = task
      /\ \A t \in Tasks : task[t] = Idle
  BY DEF Shifts
<1>2. ~Removing
  BY <1>1, IdleType DEF Removing, Removes
<1>3. \A p \in Plugins : Comes(p)' => Sanctioned(p)
  BY <1>1, <1>2 DEF Consented, Comes, Ahead
<1>4. \A p \in Plugins : Sanctioned(p) => Sanctioned(p)'
  BY <1>1, SameSanctioned
<1>5. \A u \in Tasks : Clears(u)'
  BY <1>1 DEF Consented, Clears
<1>6. QED
  BY <1>3, <1>4, <1>5 DEF Consented

LEMMA WaitsConsented ==
    ASSUME Control, Running, Known, Consented, Waits
    PROVE  Consented'
<1>1. /\ store' = store /\ active' = active /\ env' = env /\ task' = task
  BY DEF Waits, Stays
<1>2. \A p \in Plugins : Comes(p)' => Comes(p)
  BY <1>1 DEF Comes, Ahead
<1>3. \A u \in Tasks : Clears(u)'
  BY <1>1 DEF Consented, Clears
<1>4. Removing => Removing'
  BY <1>1 DEF Removing, Removes
<1>5. \A p \in Plugins : Sanctioned(p) => Sanctioned(p)'
  <2>1. CASE consents' = consents
    BY <1>1, <2>1, SameSanctioned
  <2>2. ASSUME NEW q \in Plugins, GrantConsent(q), NEW p \in Plugins, Sanctioned(p)
        PROVE  Sanctioned(p)'
    BY ChainHolds, <2>2, <1>1 DEF Control, TypeOK, Versions, GrantConsent, Sanctioned,
       PendingConsentChain
  <2>3. QED
    BY <2>1, <2>2 DEF Waits
<1>6. QED
  BY <1>1, <1>2, <1>3, <1>4, <1>5, HoldsConsented

LEMMA NextConsented ==
    ASSUME ~Overlap, Control, Running, Known, Consented, [Next]_vars
    PROVE  Consented'
<1>1. CASE Misses
  BY <1>1, PassesConsented DEF Misses, Unmoved, Passes, Removing, Removes
<1>2. CASE Boots
  BY <1>2, IdleType, PassesConsented DEF Boots, Unmoved, Passes, Removing, Removes
<1>3. ASSUME NEW t \in Everyone, Handles(t)
      PROVE  Consented'
  BY <1>3, HandlesIs, PliesConsented, HaltsConsented, ListConsented, RereadsConsented
<1>4. QED
  BY <1>1, <1>2, <1>3, NextIs, SettlesConsented, WritesConsented, MisreadsConsented,
     HeedsConsented, ConcludesConsented, ShiftsConsented, WaitsConsented DEF Turning

\* What runs is consented to at the version it runs at.
LEMMA RunsConsented ==
    ASSUME Control, Running, Known, Consented
    PROVE  ConsentBeforeRun
<1>1. SUFFICES ASSUME NEW p \in Plugins, active[p] # 0, env.version[p] # 0
               PROVE  /\ p \notin Development => consents[p] = active[p]
                      /\ PendingConsentChain(p, store) = {}
  BY DEF ConsentBeforeRun
<1>2. Sanctioned(p)
  BY <1>1 DEF Consented, Comes
<1>3. store[p] # 0 /\ (p \notin Development => active[p] = store[p])
  BY <1>1 DEF Running, Fits
<1>4. p \in Range(Chain(p, store))
  BY <1>3, ChainHolds
<1>5. QED
  BY <1>2, <1>3, <1>4 DEF Sanctioned, PendingConsentChain

-----------------------------------------------------------------------------
\* What runs serves what is enabled.

\* The window reads it, or is to hear of it.
Heard ==
    host = "ready" /\ ~unlisted /\ task[Coordinator] = Idle =>
       read = env.rev \/ (env.rev \in events /\ applied < env.rev)

\* What an enable has written is enabled.
Wrote(t) == task[t].do = "enable" /\ task[t].published # 0 => Range(task[t].did) \subseteq env.on

\* A plugin is enabled, or serves one that is.
Selected(p) == \E q \in env.on : p \in Range(Chain(q, store))

\* What the window takes for enabled, activates and runs serves what is enabled,
\* but for what an enable may still take back.
Serving ==
    /\ \A q \in enabledIds : Selected(q)
    /\ \A t \in Everyone : Renews(t) => \A p \in Plugins : Carries(t, p) => Selected(p)
    /\ \A p \in Plugins : active[p] # 0 => Selected(p) \/ \E t \in Tasks : Tries(t, p)

Choosing ==
    /\ Heard
    /\ \A t \in Tasks : Wrote(t)
    /\ \A t \in Everyone : Fresh(t)
    /\ read = env.rev => Serving

LEMMA InitChoosing ==
    ASSUME Init
    PROVE  Choosing
  BY IdleType, ZeroType DEF Init, Choosing, Heard, Wrote, Fresh

\* What is needed of what is selected is selected, and what is enabled.
LEMMA SelectedHolds ==
    ASSUME Control, Known, read = env.rev
    PROVE  /\ \A q \in env.on : q \in Plugins /\ Selected(q)
           /\ \A q \in Plugins : Selected(q) => \A p \in Range(Chain(q, store)) : Selected(p)
<1>1. \A q \in env.on : q \in Plugins /\ store[q] # 0
  BY DEF Control, TypeOK, Known, Agrees
<1>2. \A q \in env.on : Selected(q)
  BY <1>1, ChainHolds DEF Selected
<1>3. ASSUME NEW q \in Plugins, Selected(q), NEW p \in Range(Chain(q, store))
      PROVE  Selected(p)
  <2>1. PICK r \in env.on : q \in Range(Chain(r, store))
    BY <1>3 DEF Selected
  <2>2. Range(Chain(q, store)) \subseteq Range(Chain(r, store))
    BY <1>1, <2>1, ChainHolds
  <2>3. QED
    BY <1>3, <2>1, <2>2 DEF Selected
<1>4. QED
  BY <1>1, <1>2, <1>3

LEMMA SameSelected ==
    ASSUME env'.on = env.on, store' = store
    PROVE  \A p : Selected(p)' <=> Selected(p)
  BY DEF Selected

\* The coordinator is as it was, and what the window has read.
LEMMA SameHeard ==
    ASSUME Heard, host' = host, unlisted' = unlisted, read' = read, env'.rev = env.rev,
           events' = events, applied' = applied,
           task'[Coordinator] = Idle => task[Coordinator] = Idle
    PROVE  Heard'
  BY DEF Heard

LEMMA SettlesChoosing ==
    ASSUME Control, Known, Choosing, NEW t \in Tasks, Settles(t)
    PROVE  Choosing'
<1>1. /\ Others(t) /\ Stays /\ t \in Everyone
      /\ \A p \in Plugins : Tries(t, p) => Tries(t, p)'
      /\ Fresh(t) => Fresh(t)'
      /\ task'[t].do = "enable" /\ task'[t].published # 0 =>
            task[t].do = "enable" /\ task[t].published # 0 /\ task'[t].did = task[t].did
      /\ Renews(t)' => \E id \in enabledIds : \A p \in Plugins :
            Carries(t, p)' => p \in Range(Chain(id, store)) \/ p \in Range(task[t].did)
      /\ Renews(t)' => task[t].do = "reloadOne" /\ task[t].at = "stop"
      /\ \A q \in enabledIds' : q \in enabledIds \/ (q \in Range(task[t].did) /\ Earned(t))
  BY ZeroType DEF Settles, Quietly
<1>2. \A u \in Everyone \ {t} : task'[u] = task[u]
  BY <1>1 DEF Others
<1>3. Heard'
  BY <1>1, <1>2, SameHeard, ZeroType DEF Stays, Choosing
<1>4. \A u \in Tasks : Wrote(u)'
  BY <1>1, <1>2, ZeroType DEF Choosing, Wrote, Stays
<1>5. \A u \in Everyone : Fresh(u)'
  BY <1>1, <1>2 DEF Choosing, Fresh
<1>6. ASSUME read = env.rev
      PROVE  Serving'
  <2>1. Serving /\ \A p : Selected(p)' <=> Selected(p)
    BY <1>1, <1>6, SameSelected DEF Choosing, Stays
  <2>2. \A q \in enabledIds' : Selected(q)
    <3>1. SUFFICES ASSUME NEW q \in Range(task[t].did), Earned(t)
                   PROVE  Selected(q)
      BY <1>1, <2>1 DEF Serving
    <3>2. q \in Plugins
      BY <1>1, TaskType DEF Control, Range
    <3>3. CASE task[t].do = "enable" /\ task[t].published # 0
      BY <1>6, <3>1, <3>3, SelectedHolds DEF Choosing, Wrote
    <3>4. CASE task[t].do = "reloadOne" /\ task[t].at = "activate"
      BY <1>1, <2>1, <3>1, <3>2, <3>4 DEF Serving, Renews, Carries
    <3>5. QED
      BY <3>1, <3>3, <3>4 DEF Earned
  <2>3. ASSUME Renews(t)', NEW p \in Plugins, Carries(t, p)'
        PROVE  Selected(p)
    <3>1. Range(task[t].did) = {}
      BY <1>1, <2>3 DEF Choosing, Fresh
    <3>2. PICK id \in enabledIds : p \in Range(Chain(id, store))
      BY <1>1, <2>3, <3>1
    <3>3. Selected(id) /\ id \in Plugins
      BY <2>1 DEF Serving, Control, TypeOK
    <3>4. QED
      BY <1>6, <3>2, <3>3, SelectedHolds
  <2>4. \A u \in Everyone \ {t} : \A p \in Plugins :
           (Renews(u)' <=> Renews(u)) /\ (Carries(u, p)' <=> Carries(u, p))
           /\ (Tries(u, p)' <=> Tries(u, p))
    BY <1>2 DEF Renews, Carries, Ahead, Tries
  <2>5. \A u \in Everyone : Renews(u)' => \A p \in Plugins : Carries(u, p)' => Selected(p)
    BY <2>1, <2>3, <2>4 DEF Serving
  <2>6. \A u \in Tasks : \A p \in Plugins : Tries(u, p) => Tries(u, p)'
    BY <1>1, <2>4, ZeroType
  <2>7. \A p \in Plugins : active'[p] # 0 => Selected(p) \/ \E u \in Tasks : Tries(u, p)'
    BY <1>1, <2>1, <2>6 DEF Stays, Serving
  <2>8. QED
    BY <2>1, <2>2, <2>5, <2>7 DEF Serving
<1>7. QED
  BY <1>1, <1>3, <1>4, <1>5, <1>6 DEF Choosing, Stays

\* A task that works: what is known stays.
LEMMA WorksChoosing ==
    ASSUME Control, Choosing, NEW t \in Everyone, Works(t), Fresh(t)', t \in Tasks => Wrote(t)',
           read = env.rev =>
              /\ Renews(t)' => \A p \in Plugins : Carries(t, p)' => Selected(p)
              /\ \A p \in Plugins : active'[p] # 0 =>
                    \/ Selected(p) \/ (t \in Tasks /\ Tries(t, p)')
                    \/ active[p] # 0 /\ (Tries(t, p) => Tries(t, p)')
    PROVE  Choosing'
<1>1. /\ Others(t) /\ env' = env /\ events' = events /\ host' = host /\ applied' = applied
      /\ store' = store /\ read' = read /\ unlisted' = unlisted /\ enabledIds' \subseteq enabledIds
      /\ task'[t].do # "none" /\ \A u \in Everyone \ {t} : task'[u] = task[u]
  BY DEF Works, Others
<1>2. task'[Coordinator] = Idle => task[Coordinator] = Idle
  BY <1>1, IdleType, ZeroType
<1>3. Heard'
  BY <1>1, <1>2, SameHeard DEF Choosing
<1>4. \A u \in Tasks : Wrote(u)'
  BY <1>1, ZeroType DEF Choosing, Wrote
<1>5. \A u \in Everyone : Fresh(u)'
  BY <1>1 DEF Choosing, Fresh
<1>6. ASSUME read = env.rev
      PROVE  Serving'
  <2>1. Serving /\ \A p : Selected(p)' <=> Selected(p)
    BY <1>1, <1>6, SameSelected DEF Choosing
  <2>2. \A u \in Everyone \ {t} : \A p \in Plugins :
           (Renews(u)' <=> Renews(u)) /\ (Carries(u, p)' <=> Carries(u, p))
           /\ (Tries(u, p)' <=> Tries(u, p))
    BY <1>1 DEF Renews, Carries, Ahead, Tries
  <2>3. \A u \in Everyone : Renews(u)' => \A p \in Plugins : Carries(u, p)' => Selected(p)
    BY <1>6, <2>1, <2>2 DEF Serving
  <2>4. ASSUME NEW p \in Plugins, active'[p] # 0, ~Selected(p)
        PROVE  \E u \in Tasks : Tries(u, p)'
    <3>1. CASE t \in Tasks /\ Tries(t, p)'
      BY <3>1
    <3>2. CASE active[p] # 0 /\ (Tries(t, p) => Tries(t, p)')
      <4>1. PICK u \in Tasks : Tries(u, p)
        BY <2>1, <2>4, <3>2 DEF Serving
      <4>2. Tries(u, p)'
        BY <2>2, <3>2, <4>1, ZeroType
      <4>3. QED
        BY <4>2
    <3>3. QED
      BY <1>6, <2>4, <3>1, <3>2
  <2>5. QED
    BY <1>1, <2>1, <2>3, <2>4 DEF Serving
<1>7. QED
  BY <1>1, <1>3, <1>4, <1>5, <1>6 DEF Choosing

LEMMA PliesChoosing ==
    ASSUME Control, Choosing, NEW t \in Everyone, Plies(t)
    PROVE  Choosing'
<1>1. /\ Works(t) /\ task[t].at = "activate" /\ task'[t].at \in {"activate", "undo"}
      /\ task'[t].do = task[t].do /\ task'[t].published = task[t].published
      /\ task[t] # Idle /\ Shaped(t)
  BY IdleType DEF Plies, Works, Control, Ordered
<1>2. Fresh(t)'
  BY <1>1 DEF Fresh
<1>3. t \in Tasks => Wrote(t)'
  BY <1>1, AloneDoes DEF Wrote
<1>4. \A p \in Plugins : Carries(t, p)' => Carries(t, p)
  BY DEF Plies, Carries
<1>5. Renews(t)' => Renews(t)
  BY <1>1 DEF Renews
<1>6. task[t].do = "enable" \/ Renews(t)
  BY <1>1 DEF Shaped, Phased, Renews
<1>7. task[t].do = "enable" => t \in Tasks
  BY Whose
<1>8. \A p \in Plugins : task[t].do = "enable" /\ p \in Range(task'[t].did) => Tries(t, p)'
  BY <1>1 DEF Plies, Tries
<1>9. \A p \in Plugins : Tries(t, p) => Tries(t, p)'
  BY <1>1, <1>8 DEF Plies, Tries
<1>10. ASSUME read = env.rev
       PROVE  /\ Renews(t)' => \A p \in Plugins : Carries(t, p)' => Selected(p)
              /\ \A p \in Plugins : active'[p] # 0 =>
                    \/ Selected(p) \/ (t \in Tasks /\ Tries(t, p)')
                    \/ active[p] # 0 /\ (Tries(t, p) => Tries(t, p)')
  <2>1. Serving
    BY <1>10 DEF Choosing
  <2>2. Renews(t)' => \A p \in Plugins : Carries(t, p)' => Selected(p)
    BY <1>4, <1>5, <2>1 DEF Serving
  <2>3. ASSUME NEW p \in Plugins, active'[p] # 0, active[p] = 0
        PROVE  Selected(p) \/ (t \in Tasks /\ Tries(t, p)')
    <3>1. task[t].doing[p] # "no" /\ p \in Range(task'[t].did)
      BY <2>3 DEF Plies
    <3>2. CASE Renews(t)
      BY <2>1, <3>1, <3>2 DEF Serving, Carries
    <3>3. CASE task[t].do = "enable"
      BY <1>7, <1>8, <3>1, <3>3
    <3>4. QED
      BY <1>6, <3>2, <3>3
  <2>4. QED
    BY <1>9, <2>2, <2>3
<1>11. QED
  BY <1>1, <1>2, <1>3, <1>10, WorksChoosing

LEMMA HaltsChoosing ==
    ASSUME Control, Choosing, NEW t \in Everyone, Halts(t)
    PROVE  Choosing'
<1>1. /\ Works(t) /\ task'[t].do = task[t].do /\ task'[t].published = task[t].published
      /\ env' = env /\ Shaped(t)
      /\ task[t].do # "remove" => task'[t].did = task[t].did
      /\ \/ task[t].at \in {"undo", "undoing"} /\ task'[t].at \in {"undo", "undoing"}
         \/ /\ task[t].at \in {"stop", "stopping"} /\ task[t].do # "remove"
            /\ task'[t].at \in {"stop", "stopping"}
         \/ task[t].do = "remove"
  BY DEF Halts, Works, Control, Ordered
<1>2. Fresh(t)'
  BY <1>1 DEF Choosing, Fresh
<1>3. t \in Tasks => Wrote(t)'
  BY <1>1 DEF Choosing, Wrote
<1>4. ~Renews(t)'
  BY <1>1 DEF Renews
<1>5. \A p \in Plugins : active'[p] # 0 => active[p] # 0 /\ (Tries(t, p) => Tries(t, p)')
  <2>1. SUFFICES ASSUME NEW p \in Plugins, active'[p] # 0
                 PROVE  active[p] # 0 /\ (Tries(t, p) => Tries(t, p)')
    OBVIOUS
  <2>2. active[p] # 0 /\ (p \in Range(task[t].stops) => p \in Range(task'[t].stops))
    BY <2>1 DEF Halts
  <2>3. QED
    BY <1>1, <2>2 DEF Tries
<1>6. QED
  BY <1>1, <1>2, <1>3, <1>4, <1>5, WorksChoosing

LEMMA ListChoosing ==
    ASSUME Control, Running, Choosing, NEW t \in Everyone, List(t)
    PROVE  Choosing'
<1>1. /\ Others(t) /\ task[t].do = "reload" /\ task[t].at = "stop" /\ task'[t].doing = task[t].doing
      /\ task'[t].do = "reload" /\ task'[t].at = "activate" /\ task'[t].did = task[t].did
      /\ \A p : Ahead(t, p)' => p \in Ready
      /\ \A p \in Plugins : task[t].doing[p] = "no"
  BY ListEffect
<1>2. /\ env' = env /\ store' = env.version /\ read' = env.rev /\ enabledIds' = env.on
      /\ \A p \in Plugins : active'[p] = 0
  BY <1>1, Swept DEF List, announced
<1>3. Heard'
  BY <1>2 DEF Heard
<1>4. \A u \in Tasks : Wrote(u)'
  BY <1>1, <1>2, ZeroType DEF Wrote, Others, Choosing
<1>5. \A u \in Everyone : Fresh(u)'
  BY <1>1 DEF Others, Choosing, Fresh
<1>6. ASSUME NEW p \in env.on
      PROVE  Selected(p)'
  BY <1>6, <1>2, ChainHolds DEF Control, TypeOK, Selected
<1>7. ASSUME NEW u \in Everyone, Renews(u)', NEW p \in Plugins, Carries(u, p)'
      PROVE  Selected(p)'
  <2>1. CASE u = t
    BY <1>1, <1>7, <2>1, <1>6 DEF Choosing, Fresh, Carries, Ready
  <2>2. CASE u # t
    BY <1>1, <1>7, <2>2, OneActivates DEF Others, Renews
  <2>3. QED
    BY <2>1, <2>2
<1>8. QED
  BY <1>2, <1>3, <1>4, <1>5, <1>6, <1>7 DEF Choosing, Serving

LEMMA RereadsChoosing ==
    ASSUME Control, Running, Choosing, NEW t \in Everyone, Rereads(t)
    PROVE  Choosing'
<1>1. PICK id \in Plugins :
             /\ t \in Tasks /\ Others(t) /\ task[t].do = "reloadOne" /\ task[t].at = "fetch"
             /\ task'[t].do = "reloadOne" /\ task'[t].at = "stop" /\ task'[t].did = task[t].did
             /\ store[id] # 0 /\ store'[id] # 0
             /\ \A q \in Plugins : q # id \/ q \notin Development => store'[q] = store[q]
  BY RereadsEffect
<1>2. /\ env' = env /\ events' = events /\ host' = host /\ applied' = applied
      /\ active' = active /\ enabledIds' = enabledIds /\ read' = read /\ unlisted' = unlisted
  BY DEF Rereads, Fetch, announced, applying, running, listing
<1>3. \A u \in Everyone \ {t} : task'[u] = task[u]
  BY <1>1 DEF Others
<1>4. \A p : Selected(p)' <=> Selected(p)
  BY <1>1, ChainFollows, <1>2 DEF Selected
<1>5. Heard'
  BY <1>1, <1>2, <1>3, SameHeard, ZeroType DEF Choosing
<1>6. \A u \in Tasks : Wrote(u)'
  BY <1>1, <1>2, <1>3, ZeroType DEF Choosing, Wrote
<1>7. \A u \in Everyone : Fresh(u)'
  BY <1>1, <1>3 DEF Choosing, Fresh
<1>8. ASSUME read = env.rev
      PROVE  Serving'
  <2>1. Serving
    BY <1>8 DEF Choosing
  <2>2. \A u \in Everyone \ {t} : \A p \in Plugins :
           (Renews(u)' <=> Renews(u)) /\ (Carries(u, p)' <=> Carries(u, p))
           /\ (Tries(u, p)' <=> Tries(u, p))
    BY <1>3 DEF Renews, Carries, Ahead, Tries
  <2>3. ~Renews(t)' /\ \A p \in Plugins : ~Tries(t, p)
    BY <1>1 DEF Renews, Tries
  <2>4. \A u \in Everyone : Renews(u)' => \A p \in Plugins : Carries(u, p)' => Selected(p)
    BY <2>1, <2>2, <2>3 DEF Serving
  <2>5. \A p \in Plugins : active[p] # 0 => Selected(p) \/ \E u \in Tasks : Tries(u, p)'
    BY <2>1, <2>2, <2>3, ZeroType DEF Serving
  <2>6. QED
    BY <1>2, <1>4, <2>1, <2>4, <2>5 DEF Serving
<1>9. QED
  BY <1>2, <1>5, <1>6, <1>7, <1>8 DEF Choosing

\* The coordinator answers.
LEMMA PassesChoosing ==
    ASSUME Choosing, NEW at, Passes(at), at # "activate", env' = env, read' = read,
           enabledIds' = enabledIds, Heard'
    PROVE  Choosing'
<1>1. store' = store /\ active' = active /\ \A u \in Tasks : task'[u] = task[u] \/ Answered(u, at)
  BY DEF Passes
<1>2. task'[Coordinator] # task[Coordinator] =>
         /\ task'[Coordinator].at # "activate" /\ Range(task'[Coordinator].did) = {}
  <2>1. ASSUME NEW n \in Nat, task'[Coordinator] = ReloadFor(n)
        PROVE  task'[Coordinator].at # "activate" /\ Range(task'[Coordinator].did) = {}
    BY <2>1, ReloadTask DEF Range
  <2>2. CASE task'[Coordinator] = Idle
    BY <2>2, IdleType DEF Range
  <2>3. QED
    BY <2>1, <2>2 DEF Passes
<1>3. \A u \in Tasks : Wrote(u)'
  BY <1>1 DEF Choosing, Wrote, Answered
<1>4. \A u \in Everyone : Fresh(u)'
  <2>1. ASSUME NEW u \in Tasks
        PROVE  Fresh(u)'
    <3>1. Fresh(u)
      BY ZeroType DEF Choosing
    <3>2. CASE Answered(u, at)
      BY <3>1, <3>2 DEF Answered, Fresh
    <3>3. CASE task'[u] = task[u]
      BY <3>1, <3>3 DEF Fresh
    <3>4. QED
      BY <1>1, <3>2, <3>3
  <2>2. Fresh(Coordinator)'
    BY <1>2, ZeroType DEF Choosing, Fresh
  <2>3. QED
    BY <2>1, <2>2, ZeroType
<1>5. ASSUME read = env.rev
      PROVE  Serving'
  <2>1. Serving /\ \A p : Selected(p)' <=> Selected(p)
    BY <1>1, <1>5, SameSelected DEF Choosing
  <2>2. ASSUME NEW u \in Everyone, Renews(u)', NEW p \in Plugins, Carries(u, p)'
        PROVE  Selected(p)
    BY <1>1, <1>2, <2>2, ZeroType, <2>1 DEF Renews, Answered, Carries, Ahead, Serving
  <2>3. \A u \in Tasks : \A p \in Plugins : Tries(u, p) => Tries(u, p)'
    BY <1>1 DEF Tries, Answered
  <2>4. QED
    BY <1>1, <2>1, <2>2, <2>3 DEF Serving
<1>6. QED
  BY <1>3, <1>4, <1>5 DEF Choosing

LEMMA HeedsChoosing ==
    ASSUME Choosing, Heeds
    PROVE  Choosing'
<1>1. Passes("joined") /\ env' = env /\ read' = read /\ enabledIds' = enabledIds
  BY DEF Heeds, Unmoved, Passes
<1>2. task'[Coordinator] # Idle
  BY ReloadTask, IdleType DEF Heeds
<1>3. Heard'
  BY <1>2 DEF Heard
<1>4. QED
  BY <1>1, <1>3, PassesChoosing

LEMMA MissesChoosing ==
    ASSUME Control, Choosing, Misses
    PROVE  Choosing'
<1>1. /\ Passes("joined") /\ env' = env /\ read' = read /\ enabledIds' = enabledIds
      /\ host' = host /\ unlisted' = unlisted /\ task' = task /\ applied' = applied
  BY DEF Misses, Unmoved, Passes
<1>2. PICK rev \in events : rev <= applied /\ events' = events \ {rev}
  BY DEF Misses
<1>3. applied < env.rev => env.rev # rev
  BY Revisions, <1>2 DEF Control
<1>4. Heard'
  BY <1>1, <1>2, <1>3 DEF Choosing, Heard
<1>5. QED
  BY <1>1, <1>4, PassesChoosing

\* Done with a reload, the coordinator is to hear of what it has not read.
LEMMA ConcludesHeard ==
    ASSUME Control, Known, Concludes
    PROVE  Heard'
<1>1. SUFFICES ASSUME task'[Coordinator] = Idle
               PROVE  read = env.rev \/ (env.rev \in events /\ task[Coordinator].rev < env.rev)
  BY DEF Concludes, Unmoved, Heard
<1>2. /\ env.rev \in Nat /\ read \in Nat /\ read <= env.rev /\ task[Coordinator].rev \in Nat
      /\ task[Coordinator] # Idle /\ task[Coordinator].do = "reload"
      /\ task[Coordinator].rev <= read
  BY Revisions, TaskType, IdleType, ZeroType DEF Control, Ordered, Coordinating, Concludes
<1>3. host # "start" /\ (host = "loading" \/ pending = task[Coordinator].rev)
  BY ReloadTask, IdleType, <1>1, <1>2 DEF Concludes, Control, Ordered, Coordinating
<1>4. pending = task[Coordinator].rev
  BY <1>2, <1>3 DEF Known, Control, Ordered, Coordinating
<1>5. env.rev \in events \/ pending = env.rev
  BY <1>3 DEF Control, Ordered, Coordinating
<1>6. pending = env.rev => read = env.rev
  BY <1>2, <1>4
<1>7. pending # env.rev => task[Coordinator].rev < env.rev
  BY <1>2, <1>4
<1>8. QED
  BY <1>5, <1>6, <1>7

LEMMA ConcludesChoosing ==
    ASSUME Control, Known, Choosing, Concludes
    PROVE  Choosing'
  BY ConcludesHeard, PassesChoosing DEF Concludes, Unmoved, Passes

LEMMA MisreadsChoosing ==
    ASSUME Choosing, NEW t \in Everyone, Misreads(t)
    PROVE  Choosing'
<1>1. /\ env' = env /\ store' = store /\ read' = read /\ enabledIds' = enabledIds /\ unlisted'
      /\ \A p \in Plugins : active'[p] = 0
      /\ task'[t] = Idle
      /\ \A u \in Everyone \ {t} : task'[u] = task[u] \/ (Answered(u, "rejected") /\ u \in Tasks)
  BY DEF Misreads, Unmoved
<1>2. Heard'
  BY <1>1 DEF Heard
<1>3. \A u \in Tasks : Wrote(u)'
  <2>1. Wrote(t)'
    BY <1>1, IdleType DEF Wrote
  <2>2. ASSUME NEW u \in Tasks, u # t
        PROVE  Wrote(u)'
    BY <1>1, <2>2, ZeroType DEF Choosing, Wrote, Answered
  <2>3. QED
    BY <2>1, <2>2
<1>4. \A u \in Everyone : Fresh(u)'
  <2>1. Fresh(t)'
    BY <1>1, IdleType DEF Fresh
  <2>2. ASSUME NEW u \in Everyone, u # t
        PROVE  Fresh(u)'
    <3>1. Fresh(u)
      BY DEF Choosing
    <3>2. CASE Answered(u, "rejected")
      BY <3>1, <3>2 DEF Answered, Fresh
    <3>3. CASE task'[u] = task[u]
      BY <3>1, <3>3 DEF Fresh
    <3>4. QED
      BY <1>1, <2>2, <3>2, <3>3
  <2>3. QED
    BY <2>1, <2>2
<1>5. ASSUME read = env.rev
      PROVE  Serving'
  <2>1. Serving /\ \A p : Selected(p)' <=> Selected(p)
    BY <1>1, <1>5, SameSelected DEF Choosing
  <2>2. ASSUME NEW u \in Everyone, Renews(u)', NEW p \in Plugins, Carries(u, p)'
        PROVE  Selected(p)
    BY <1>1, <2>2, IdleType, <2>1 DEF Renews, Answered, Carries, Ahead, Serving
  <2>3. QED
    BY <1>1, <2>1, <2>2 DEF Serving
<1>6. QED
  BY <1>1, <1>2, <1>3, <1>4, <1>5 DEF Choosing

LEMMA BootsChoosing ==
    ASSUME Choosing, Boots
    PROVE  Choosing'
  BY PassesChoosing DEF Boots, Unmoved, Passes, Heard

\* A later revision is announced: the window has not read it.
LEMMA LaterChoosing ==
    ASSUME Control, env'.rev = env.rev + 1, events' = events \cup {env'.rev},
           applied' = applied, read' = read
    PROVE  Heard' /\ read' # env'.rev
  BY Revisions DEF Control, Heard

LEMMA WritesChoosing ==
    ASSUME Control, Choosing, NEW t \in Tasks, Writes(t)
    PROVE  Choosing'
<1>1. Heard' /\ read' # env'.rev
  BY LaterChoosing DEF Writes
<1>2. /\ task'[t].did = task[t].did /\ task'[t].do = task[t].do
      /\ \A u \in Everyone \ {t} : task'[u] = task[u]
      /\ \A u \in Tasks \ {t} : task[u] = Idle
      /\ task[t].do \in {"enable", "disable", "remove"}
      /\ task[t].do = "enable" => Range(task[t].did) \subseteq env'.on
  BY DEF Writes, Others
<1>3. \A u \in Tasks : Wrote(u)'
  BY <1>2, IdleType, ZeroType DEF Wrote
<1>4. \A u \in Everyone : Fresh(u)'
  BY <1>2 DEF Choosing, Fresh
<1>5. QED
  BY <1>1, <1>3, <1>4 DEF Choosing

LEMMA ShiftsChoosing ==
    ASSUME Control, Choosing, Shifts
    PROVE  Choosing'
<1>1. /\ store' = store /\ active' = active /\ read' = read /\ unlisted' = unlisted
      /\ enabledIds' = enabledIds /\ host' = host /\ applied' = applied /\ task' = task
      /\ \A t \in Tasks : task[t] = Idle
  BY DEF Shifts
<1>2. \A u \in Tasks : Wrote(u)'
  BY <1>1, IdleType DEF Wrote
<1>3. \A u \in Everyone : Fresh(u)'
  BY <1>1 DEF Choosing, Fresh
<1>4. CASE env'.rev = env.rev + 1 /\ events' = events \cup {env'.rev}
  BY <1>1, <1>2, <1>3, <1>4, LaterChoosing DEF Choosing
<1>5. CASE env'.rev = env.rev /\ events' = events /\ env'.on = env.on
  <2>1. Heard'
    BY <1>1, <1>5 DEF Choosing, Heard
  <2>2. \A p : Selected(p)' <=> Selected(p)
    BY <1>1, <1>5, SameSelected
  <2>3. Serving => Serving'
    BY <1>1, <2>2 DEF Serving, Renews, Carries, Ahead, Tries
  <2>4. QED
    BY <1>1, <1>2, <1>3, <1>5, <2>1, <2>3 DEF Choosing
<1>6. QED
  BY <1>4, <1>5 DEF Shifts

LEMMA WaitsChoosing ==
    ASSUME Choosing, Waits
    PROVE  Choosing'
<1>1. /\ env' = env /\ events' = events /\ store' = store /\ active' = active /\ read' = read
      /\ unlisted' = unlisted
      /\ enabledIds' = enabledIds /\ host' = host /\ applied' = applied /\ task' = task
  BY DEF Waits, Stays
<1>2. Heard'
  BY <1>1 DEF Choosing, Heard
<1>3. \A p : Selected(p)' <=> Selected(p)
  BY <1>1, SameSelected
<1>4. Serving => Serving'
  BY <1>1, <1>3 DEF Serving, Renews, Carries, Ahead, Tries
<1>5. QED
  BY <1>1, <1>2, <1>4 DEF Choosing, Wrote, Fresh

LEMMA NextChoosing ==
    ASSUME ~Overlap, Control, Running, Known, Choosing, [Next]_vars
    PROVE  Choosing'
<1>1. ASSUME NEW t \in Everyone, Handles(t)
      PROVE  Choosing'
  BY <1>1, HandlesIs, PliesChoosing, HaltsChoosing, ListChoosing, RereadsChoosing
<1>2. QED
  BY <1>1, NextIs, SettlesChoosing, WritesChoosing, MisreadsChoosing, HeedsChoosing,
     MissesChoosing, ConcludesChoosing, BootsChoosing, ShiftsChoosing, WaitsChoosing DEF Turning

\* At rest the window has read the last revision, and nothing is tried.
LEMMA RestSelected ==
    ASSUME Control, Running, Known, Choosing
    PROVE  NothingRunsUnselected
<1>1. SUFFICES ASSUME Quiet, host = "ready", ~unlisted, NEW p \in Plugins, active[p] # 0
               PROVE  /\ \E q \in env.on : p \in Range(Chain(q, store))
                      /\ p \notin Development => active[p] = env.version[p]
  BY DEF NothingRunsUnselected
<1>2. events = {} /\ \A t \in Everyone : task[t] = Idle
  BY <1>1 DEF Quiet
<1>3. read = env.rev
  BY <1>1, <1>2, ZeroType DEF Choosing, Heard
<1>4. \A t \in Tasks : ~Tries(t, p)
  BY <1>2, IdleType, ZeroType DEF Tries
<1>5. Selected(p)
  BY <1>1, <1>3, <1>4 DEF Choosing, Serving
<1>6. p \notin Development => active[p] = store[p] /\ store[p] = env.version[p]
  BY <1>1, <1>3 DEF Running, Fits, Known, Agrees
<1>7. QED
  BY <1>5, <1>6 DEF Selected

-----------------------------------------------------------------------------
\* The theorems.  One operation of a person is under way at a time: what others
\* change, a reload of the coordinator and every failure may fall in between.

\* What the steps preserve.
Whole == Control /\ Running /\ Known /\ InRealm /\ Consented /\ Choosing

LEMMA InitWhole ==
    ASSUME Init
    PROVE  Whole
  BY InitControl, InitRunning, InitKnown, InitInRealm, InitConsented, InitChoosing DEF Whole

LEMMA NextWhole ==
    ASSUME ~Overlap, Whole, [Next]_vars
    PROVE  Whole'
  BY NextControl, NextRunning, NextKnown, NextInRealm, NextConsented, NextChoosing DEF Whole

LEMMA Remains == ASSUME ~Overlap PROVE Spec => []Whole
<1>1. Init => Whole
  BY InitWhole
<1>2. Whole /\ [Next]_vars => Whole'
  BY NextWhole
<1>3. QED
  BY <1>1, <1>2, PTL DEF Spec

(* The types of every variable, whatever fails. *)
THEOREM TypeCorrect == ASSUME ~Overlap PROVE Spec => []TypeOK
<1>1. Whole => TypeOK
  BY DEF Whole, Control
<1>2. QED
  BY <1>1, Remains, PTL

(* "A human consent record is required before activation" (consent.ts, and
   activatePlugin in loader.ts): with any plugins and dependencies, what
   runs was consented to at its version with all it depends on, through
   reloads, revocations, removals and the failure of any step of them.     *)
THEOREM NothingRunsUnconsented == ASSUME ~Overlap PROVE Spec => []ConsentBeforeRun
<1>1. Whole => ConsentBeforeRun
  BY RunsConsented DEF Whole
<1>2. QED
  BY <1>1, Remains, PTL

(* "No leak on deactivation" (loader.ts): at rest the status tells what
   runs, and registrations and code are those of what runs, whatever was
   refused or failed on the way.                                           *)
THEOREM RestIsAlwaysClean == ASSUME ~Overlap PROVE Spec => []RestIsClean
<1>1. Whole => RestIsClean
  BY AtRest DEF Whole
<1>2. QED
  BY <1>1, Remains, PTL

(* What an enable activated and could not write is taken back, and what
   another window disabled is stopped by the reload that follows: at rest
   nothing runs that no enabled plugin needs (plugins.ts, enable; the
   coordinator of environmentEvents.ts).                                   *)
THEOREM OnlySelectedRuns == ASSUME ~Overlap PROVE Spec => []NothingRunsUnselected
<1>1. Whole => NothingRunsUnselected
  BY RestSelected DEF Whole
<1>2. QED
  BY <1>1, Remains, PTL

(* The orders of dependencyGraph.ts serve their purpose in every graph, not
   the window's alone: "returns id and all of its transitive dependencies
   with the dependencies first"; what is removed with a plugin is all that
   needs it; the levels hold their targets once, dependencies first.       *)
THEOREM OrdersAlwaysPrepare == Spec => []OrdersPrepare
<1>1. OrdersPrepare
  BY AllOrdersServe
<1>2. QED
  BY <1>1, PTL
==============================================================================
