----------------------------- MODULE ToolProofs -----------------------------
(***************************************************************************)
(* The lookup and gfftool, which calls it for everything it does.          *)
(*                                                                         *)
(* First the lookup: the id list and the lookup agree, for every directory *)
(* whose runs ascend and while chunks are added.  Both walk the runs, so   *)
(* both are recursive functions here; what they compute is shown by        *)
(* induction.  Then the tool: what flattened sequences hold, how the       *)
(* indentation climbs and comes back, what the printing of one chunk comes *)
(* to, type by type, what the writing of one comes to, and from these the  *)
(* inductive invariant of the tool's steps and its three properties.       *)
(***************************************************************************)
EXTENDS Tool, SequenceTheorems, WellFoundedInduction, TLAPS

USE MarksAssumption, NewIdAssumption

------------------------------------------------------------------------------
(* Induction, stated of sets: no fact here takes an operator, so each can  *)
(* be cited of a set that is defined where it is needed.                   *)

(* A set of naturals that is not empty has a least element.                *)
LEMMA LeastNatural ==
    ASSUME NEW T, T \subseteq Nat, T # {}
    PROVE  \E x \in T : \A y \in T : x <= y
<1> DEFINE Below == OpToRel(<, Nat)
<1>1. Below = {p \in Nat \X Nat : p[1] < p[2]}
  BY DEF OpToRel
<1>2. IsWellFoundedOn(Below, Nat)
  BY NatLessThanWellFounded
<1> HIDE DEF Below
<1>3. PICK x \in T : \A y \in T : <<y, x>> \notin Below
  BY <1>2, WFMin
<1>4. ASSUME NEW y \in T
      PROVE  x <= y
  <2>1. y \in Nat /\ x \in Nat /\ <<y, x>> \notin {p \in Nat \X Nat : p[1] < p[2]}
    BY <1>1, <1>3
  <2> QED
    BY <2>1
<1> QED
  BY <1>4

(* A set of the numbers up to n that has 0, and each number whose          *)
(* predecessor it has, has them all.                                       *)
LEMMA UpTo ==
    ASSUME NEW n \in Nat, NEW S, 0 \in S, \A k \in 1 .. n : k - 1 \in S => k \in S
    PROVE  \A k \in 0 .. n : k \in S
<1> DEFINE T == {k \in 0 .. n : k \notin S}
<1> SUFFICES ASSUME T # {}
             PROVE  FALSE
  OBVIOUS
<1>0. T \subseteq Nat
  OBVIOUS
<1>1. PICK m \in T : \A y \in T : m <= y
  BY <1>0, LeastNatural
<1>2. m \in 1 .. n /\ m - 1 \in 0 .. n /\ m - 1 \notin T
  BY <1>1
<1> QED
  BY <1>1, <1>2

(* What is computed in n steps from a first value is a function.           *)
Steps(n, V, base, step) == n \in Nat /\ base \in V /\ step \in [1 .. n -> [V -> V]]
Computes(g, n, V, base, step) ==
    /\ g \in [0 .. n -> V]
    /\ g[0] = base
    /\ \A k \in 1 .. n : g[k] = step[k][g[k - 1]]

LEMMA Computed ==
    ASSUME NEW n, NEW V, NEW base, NEW step, Steps(n, V, base, step)
    PROVE  \E g : Computes(g, n, V, base, step)
<1> USE DEF Steps
<1> DEFINE Does(g, m) == g[0] = base /\ \A k \in 1 .. m : g[k] = step[k][g[k - 1]]
           S == {m \in 0 .. n : \E g \in [0 .. m -> V] : Does(g, m)}
<1>1. 0 \in S
  <2> DEFINE first == [x \in 0 .. 0 |-> base]
  <2>1. first \in [0 .. 0 -> V] /\ first[0] = base
    OBVIOUS
  <2> HIDE DEF first
  <2>2. Does(first, 0)
    BY <2>1
  <2> HIDE DEF Does
  <2> QED
    BY <2>1, <2>2
<1>2. ASSUME NEW m \in 1 .. n, m - 1 \in S
      PROVE  m \in S
  <2>1. PICK g \in [0 .. m - 1 -> V] : Does(g, m - 1)
    BY <1>2
  <2> DEFINE h == [k \in 0 .. m |-> IF k = m THEN step[m][g[m - 1]] ELSE g[k]]
  <2>2. g[m - 1] \in V /\ step[m][g[m - 1]] \in V
    OBVIOUS
  <2>3. h \in [0 .. m -> V]
    BY <2>2
  <2>4. h[0] = base
    BY <2>1
  <2>5. ASSUME NEW k \in 1 .. m
        PROVE  h[k] = step[k][h[k - 1]]
    <3> m \in Nat /\ k \in Nat
      OBVIOUS
    <3>1. k - 1 \in 0 .. m - 1 /\ h[k - 1] = g[k - 1]
      OBVIOUS
    <3>2. k # m => k \in 1 .. m - 1 /\ h[k] = g[k]
      OBVIOUS
    <3>3. k = m => h[k] = step[k][g[k - 1]]
      OBVIOUS
    <3> QED
      BY <2>1, <3>1, <3>2, <3>3
  <2> HIDE DEF h
  <2>6. Does(h, m)
    BY <2>4, <2>5
  <2> HIDE DEF Does
  <2> QED
    BY <2>3, <2>6
<1> HIDE DEF S
<1>3. n \in S
  <2>1. \A k \in 1 .. n : k - 1 \in S => k \in S
    BY <1>2
  <2>2. \A k \in 0 .. n : k \in S
    BY <1>1, <2>1, UpTo
  <2> QED
    BY <2>2
<1> QED
  BY <1>3 DEF S, Computes

------------------------------------------------------------------------------
(* The sum of the runs.                                                    *)
LEMMA RunTypes ==
    ASSUME NEW runs \in Seq(IdRuns)
    PROVE  /\ Len(runs) \in Nat /\ DOMAIN runs = 1 .. Len(runs)
           /\ \A j \in 1 .. Len(runs) : runs[j].first \in Nat /\ runs[j].num \in Nat
<1>1. Len(runs) \in Nat /\ \A j \in 1 .. Len(runs) : runs[j] \in IdRuns
  OBVIOUS
<1> QED
  BY <1>1 DEF IdRuns

LEMMA TotalIs ==
    ASSUME NEW runs \in Seq(IdRuns)
    PROVE  /\ Total(runs)[0] = 0
           /\ \A n \in 1 .. Len(runs) :
                 Total(runs)[n] = Total(runs)[n - 1] + runs[n].num
           /\ \A n \in 0 .. Len(runs) : Total(runs)[n] \in Nat
<1> DEFINE N == Len(runs)
           step == [n \in 1 .. N |-> [x \in Nat |-> x + runs[n].num]]
           F(g) == [n \in 0 .. N |-> IF n = 0 THEN 0 ELSE g[n - 1] + runs[n].num]
<1>1. N \in Nat /\ \A n \in 1 .. N : runs[n].num \in Nat
  BY RunTypes
<1>2. step \in [1 .. N -> [Nat -> Nat]]
  BY <1>1
<1>3. PICK g \in [0 .. N -> Nat] : g[0] = 0 /\ \A k \in 1 .. N : g[k] = step[k][g[k - 1]]
  <2>1. Steps(N, Nat, 0, step)
    BY <1>1, <1>2 DEF Steps
  <2> HIDE DEF step, N
  <2>2. \E g : Computes(g, N, Nat, 0, step)
    BY <2>1, Computed
  <2> QED
    BY <2>2 DEF Computes
<1>4. ASSUME NEW k \in 1 .. N
      PROVE  g[k] = g[k - 1] + runs[k].num
  <2>1. k - 1 \in 0 .. N
    BY <1>1
  <2>2. g[k - 1] \in Nat
    BY <2>1
  <2> QED
    BY <1>3, <2>2
<1>5. g = F(g)
  BY <1>1, <1>3, <1>4
<1>6. Total(runs) = CHOOSE h : h = F(h)
  BY DEF Total
<1>7. Total(runs) = F(Total(runs))
  BY <1>5, <1>6
<1> DEFINE s == Total(runs)
<1>8. s[0] = 0 /\ \A n \in 1 .. N : s[n] = s[n - 1] + runs[n].num
  BY <1>7, <1>1
<1>9. \A n \in 0 .. N : s[n] \in Nat
  <2> DEFINE S == {n \in 0 .. N : s[n] \in Nat}
  <2>1. 0 \in S /\ \A k \in 1 .. N : k - 1 \in S => k \in S
    BY <1>1, <1>8
  <2> HIDE DEF S
  <2>2. \A k \in 0 .. N : k \in S
    BY <1>1, <2>1, UpTo
  <2> QED
    BY <2>2 DEF S
<1> QED
  BY <1>8, <1>9

(* The runs before another leave it no more ids than lie before it.        *)
LEMMA RowsBetween ==
    ASSUME NEW runs \in Seq(IdRuns), Ascending(runs),
           NEW m \in 1 .. Len(runs), NEW j \in 1 .. Len(runs), m < j
    PROVE  /\ Total(runs)[m] <= Total(runs)[j - 1]
           /\ Total(runs)[j - 1] - Total(runs)[m]
                 <= runs[j].first - (runs[m].first + runs[m].num)
<1> DEFINE N == Len(runs)
           s == Total(runs)
           upto == runs[m].first + runs[m].num
           S == {n \in 0 .. N : m < n => /\ s[m] <= s[n - 1]
                                         /\ s[n - 1] - s[m] <= runs[n].first - upto}
<1>1. /\ N \in Nat /\ \A n \in 1 .. N : runs[n].first \in Nat /\ runs[n].num \in Nat
      /\ \A n \in 0 .. N : s[n] \in Nat
      /\ \A n \in 1 .. N : s[n] = s[n - 1] + runs[n].num
  BY RunTypes, TotalIs
<1>2. \A k, n \in 1 .. N : k < n => runs[k].first + runs[k].num <= runs[n].first
  BY RunTypes DEF Ascending
<1> HIDE DEF s, N
<1>3. 0 \in S
  BY <1>1 DEF N
<1>4. ASSUME NEW n \in 1 .. N, n - 1 \in S, m < n
      PROVE  n \in S
  <2>1. upto <= runs[n].first /\ upto \in Nat /\ n - 1 \in 0 .. N /\ n \in 0 .. N
    BY <1>1, <1>2, <1>4 DEF N
  <2>2. CASE m = n - 1
    <3>1. s[m] \in Nat /\ s[n - 1] = s[m]
      BY <1>1, <2>1, <2>2
    <3>2. s[n - 1] - s[m] = 0
      BY <3>1
    <3> DEFINE first == runs[n].first
    <3>3. first \in Nat /\ upto \in Nat /\ upto <= first
      BY <1>1, <2>1
    <3> HIDE DEF upto, first
    <3>4. 0 <= first - upto
      BY <3>3
    <3> QED
      BY <2>1, <3>1, <3>2, <3>4 DEF first
  <2>3. CASE m # n - 1
    <3>1. n - 1 \in 1 .. N /\ n - 2 \in 0 .. N /\ m < n - 1 /\ m \in 0 .. N
      BY <1>1, <1>4, <2>3 DEF N
    <3>2. s[m] <= s[(n - 1) - 1] /\ s[(n - 1) - 1] - s[m] <= runs[n - 1].first - upto
      BY <1>4, <3>1
    <3>3. (n - 1) - 1 = n - 2
      BY <3>1
    <3>4. s[n - 1] = s[n - 2] + runs[n - 1].num
      BY <1>1, <3>1, <3>3
    <3>5. runs[n - 1].first + runs[n - 1].num <= runs[n].first
      BY <1>2, <3>1
    <3> DEFINE a == s[m]
               b == s[n - 1]
               c == s[n - 2]
               u == runs[n - 1].first
               v == runs[n - 1].num
               w == runs[n].first
               e == upto
    <3>6. a \in Nat /\ b \in Nat /\ c \in Nat /\ u \in Nat /\ v \in Nat /\ w \in Nat /\ e \in Nat
      BY <1>1, <2>1, <3>1
    <3>7. a <= c /\ c - a <= u - e /\ b = c + v /\ u + v <= w
      BY <3>2, <3>3, <3>4, <3>5
    <3> HIDE DEF a, b, c, u, v, w, e
    <3>8. a <= b /\ b - a <= w - e
      BY <3>6, <3>7
    <3> QED
      BY <2>1, <3>8 DEF a, b, w, e
  <2> QED
    BY <2>2, <2>3
<1>5. \A n \in 1 .. N : n - 1 \in S => n \in S
  <2> SUFFICES ASSUME NEW n \in 1 .. N, n - 1 \in S
               PROVE  n \in S
    OBVIOUS
  <2>1. CASE m < n
    BY <1>4, <2>1
  <2>2. CASE ~(m < n)
    BY <1>1, <2>2
  <2> QED
    BY <2>1, <2>2
<1> HIDE DEF S
<1>6. j \in S
  <2>1. \A n \in 0 .. N : n \in S
    BY <1>1, <1>3, <1>5, UpTo
  <2> QED
    BY <1>1, <2>1 DEF N
<1> QED
  BY <1>6 DEF S, s

(* The k-th id is one of its run's, at the row behind the earlier runs'.   *)
PlaceOf(runs, k, i) ==
    \E j \in 1 .. Len(runs), d \in Nat :
       /\ d < runs[j].num
       /\ i = runs[j].first + d
       /\ k = Total(runs)[j - 1] + d + 1

CopiedSoFar(runs, n, ids) ==
    /\ ids \in Seq(Nat)
    /\ Len(ids) = Total(runs)[n]
    /\ \A k \in 1 .. Len(ids) : PlaceOf(runs, k, ids[k])

LEMMA CopyRun ==
    ASSUME NEW runs \in Seq(IdRuns), NEW n \in 1 .. Len(runs),
           NEW ids, CopiedSoFar(runs, n - 1, ids)
    PROVE  CopiedSoFar(runs, n, ids \o IdsOfRun(runs[n]))
<1> DEFINE more == IdsOfRun(runs[n])
           a == runs[n].first
           c == runs[n].num
           before == Total(runs)[n - 1]
<1>1. a \in Nat /\ c \in Nat /\ before \in Nat /\ Total(runs)[n] = before + c
  <2>1. n - 1 \in 0 .. Len(runs) /\ Len(runs) \in Nat
    BY RunTypes
  <2> QED
    BY <2>1, RunTypes, TotalIs
<1>2. ids \in Seq(Nat) /\ Len(ids) = before
  BY DEF CopiedSoFar
<1>3. more = [k \in 1 .. c |-> a + k - 1]
  BY DEF IdsOfRun
<1> HIDE DEF a, c, before, more
<1>4. more \in Seq(Nat) /\ Len(more) = c /\ \A k \in 1 .. c : more[k] = a + k - 1
  <2>1. \A k \in 1 .. c : a + k - 1 \in Nat
    BY <1>1
  <2> QED
    BY <1>1, <1>3, <2>1
<1>5. ids \o more \in Seq(Nat) /\ Len(ids \o more) = before + c
  BY <1>1, <1>2, <1>4, ConcatProperties
<1>6. ASSUME NEW k \in 1 .. before + c
      PROVE  PlaceOf(runs, k, (ids \o more)[k])
  <2>1. CASE k <= before
    <3>1. k \in 1 .. Len(ids) /\ (ids \o more)[k] = ids[k]
      BY <1>1, <1>2, <1>4, <2>1
    <3> QED
      BY <3>1 DEF CopiedSoFar
  <2>2. CASE k > before
    <3> DEFINE d == k - before - 1
    <3>1. d \in Nat /\ d < c /\ k = before + d + 1 /\ k - before \in 1 .. c
      BY <1>1, <2>2
    <3>2. (ids \o more)[k] = more[k - before]
      BY <1>1, <1>2, <1>4, <1>5, <2>2, ConcatProperties
    <3>3. (ids \o more)[k] = a + d
      BY <1>1, <1>4, <3>1, <3>2
    <3> HIDE DEF d
    <3> QED
      BY <3>1, <3>3 DEF PlaceOf, a, c, before
  <2>3. k <= before \/ k > before
    BY <1>1
  <2> QED
    BY <2>1, <2>2, <2>3
<1> QED
  BY <1>1, <1>5, <1>6 DEF CopiedSoFar, before, more

LEMMA CopiedIs ==
    ASSUME NEW runs \in Seq(IdRuns), NEW n \in 0 .. Len(runs)
    PROVE  CopiedSoFar(runs, n, Copied(runs)[n])
<1> DEFINE N == Len(runs)
           step == [m \in 1 .. N |-> [x \in Seq(Nat) |-> x \o IdsOfRun(runs[m])]]
           F(g) == [m \in 0 .. N |-> IF m = 0 THEN <<>> ELSE g[m - 1] \o IdsOfRun(runs[m])]
<1>1. N \in Nat /\ \A m \in 1 .. N : IdsOfRun(runs[m]) \in Seq(Nat)
  <2>1. ASSUME NEW m \in 1 .. N
        PROVE  IdsOfRun(runs[m]) \in Seq(Nat)
    <3>1. runs[m].first \in Nat /\ runs[m].num \in Nat
      BY RunTypes
    <3> DEFINE a == runs[m].first
               c == runs[m].num
    <3>2. a \in Nat /\ c \in Nat
      BY <3>1
    <3> HIDE DEF a, c
    <3>3. [k \in 1 .. c |-> a + k - 1] \in Seq(Nat)
      <4>1. \A k \in 1 .. c : a + k - 1 \in Nat
        BY <3>2
      <4> QED
        BY <3>2, <4>1
    <3> QED
      BY <3>3 DEF IdsOfRun, a, c
  <2> QED
    BY <2>1, RunTypes
<1>2. step \in [1 .. N -> [Seq(Nat) -> Seq(Nat)]]
  BY <1>1
<1>3. PICK g : Computes(g, N, Seq(Nat), <<>>, step)
  <2>1. Steps(N, Seq(Nat), <<>>, step)
    BY <1>1, <1>2 DEF Steps
  <2> HIDE DEF step, N
  <2> QED
    BY <2>1, Computed
<1>4. /\ g \in [0 .. N -> Seq(Nat)] /\ g[0] = <<>>
      /\ \A k \in 1 .. N : g[k] = g[k - 1] \o IdsOfRun(runs[k])
  <2>1. ASSUME NEW k \in 1 .. N
        PROVE  g[k] = g[k - 1] \o IdsOfRun(runs[k])
    <3>1. k - 1 \in 0 .. N
      BY <1>1
    <3>2. g[k - 1] \in Seq(Nat)
      BY <1>3, <3>1 DEF Computes
    <3> QED
      BY <1>3, <3>2 DEF Computes
  <2> QED
    BY <1>3, <2>1 DEF Computes
<1>5. Copied(runs) = CHOOSE h : h = F(h)
  BY DEF Copied
<1> DEFINE app(x, k) == x \o IdsOfRun(runs[k])
           none == <<>>
           G(h) == [m \in 0 .. N |-> IF m = 0 THEN none ELSE app(h[m - 1], m)]
<1>6. \A h : F(h) = G(h)
  OBVIOUS
<1>7. g \in [0 .. N -> Seq(Nat)] /\ g[0] = none /\ \A k \in 1 .. N : g[k] = app(g[k - 1], k)
  BY <1>4
<1> DEFINE s == Copied(runs)
           S == {k \in 0 .. N : CopiedSoFar(runs, k, s[k])}
<1>8. s[0] = <<>> /\ \A k \in 1 .. N : s[k] = s[k - 1] \o IdsOfRun(runs[k])
  <2> HIDE DEF app, none, F
  <2>1. g = G(g)
    BY <1>1, <1>7
  <2>2. s = G(s)
    <3> HIDE DEF G
    <3> QED
      BY <2>1, <1>5, <1>6
  <2> HIDE DEF s
  <2>3. 0 \in 0 .. N /\ \A k \in 1 .. N : k \in 0 .. N /\ k # 0
    BY <1>1
  <2>4. s[0] = none
    BY <2>2, <2>3
  <2>5. ASSUME NEW k \in 1 .. N
        PROVE  s[k] = app(s[k - 1], k)
    BY <2>2, <2>3, Zenon
  <2> QED
    BY <2>4, <2>5 DEF none, app
<1> HIDE DEF s
<1>9. 0 \in S
  <2>1. CopiedSoFar(runs, 0, <<>>)
    BY TotalIs DEF CopiedSoFar
  <2> QED
    BY <1>1, <1>8, <2>1
<1>10. \A k \in 1 .. N : k - 1 \in S => k \in S
  <2> SUFFICES ASSUME NEW k \in 1 .. N, k - 1 \in S
               PROVE  k \in S
    OBVIOUS
  <2>1. CopiedSoFar(runs, k, s[k - 1] \o IdsOfRun(runs[k]))
    BY CopyRun
  <2>2. s[k] = s[k - 1] \o IdsOfRun(runs[k])
    BY <1>8, Zenon
  <2>3. CopiedSoFar(runs, k, s[k])
    BY <2>1, <2>2, Zenon
  <2>4. k \in 0 .. N
    BY <1>1
  <2> QED
    BY <2>3, <2>4
<1> HIDE DEF S
<1>11. n \in S
  <2>1. \A k \in 0 .. N : k \in S
    BY <1>1, <1>9, <1>10, UpTo
  <2> QED
    BY <2>1
<1> QED
  BY <1>11 DEF S, s

------------------------------------------------------------------------------
(* The lookup takes the first run that may hold the id.  This may be one   *)
(* that ends where the id's run begins, because of the <= in gff.c:395; no *)
(* ids lie between the two then, and the row is the same.                  *)
LEMMA MinIs ==
    ASSUME NEW S, S \subseteq Nat, S # {}
    PROVE  Min(S) \in S /\ \A y \in S : Min(S) <= y
<1>1. \E x \in S : \A y \in S : x <= y
  BY LeastNatural
<1> QED
  BY <1>1 DEF Min

LEMMA RowFound ==
    ASSUME NEW runs \in Seq(IdRuns), Ascending(runs),
           NEW j \in 1 .. Len(runs), NEW d \in Nat, d < runs[j].num,
           NEW i, i = runs[j].first + d
    PROVE  /\ RunOf(runs, i) # 0
           /\ RowsBefore(runs, RunOf(runs, i)) + (i - runs[RunOf(runs, i)].first) + 1
                 = Total(runs)[j - 1] + d + 1
<1> DEFINE holding == {k \in DOMAIN runs : /\ runs[k].first <= i
                                           /\ i <= runs[k].first + runs[k].num}
           m == Min(holding)
<1>1. /\ Len(runs) \in Nat /\ DOMAIN runs = 1 .. Len(runs)
      /\ \A k \in 1 .. Len(runs) : runs[k].first \in Nat /\ runs[k].num \in Nat
  BY RunTypes
<1>2. j \in holding /\ holding \subseteq Nat
  BY <1>1
<1> HIDE DEF holding
<1>3. m \in holding /\ m <= j
  BY <1>2, MinIs
<1>4. RunOf(runs, i) = m
  BY <1>2 DEF RunOf, holding
<1> HIDE DEF m
<1>5. /\ m \in 1 .. Len(runs) /\ m # 0
      /\ runs[m].first <= i /\ i <= runs[m].first + runs[m].num
  BY <1>1, <1>3 DEF holding
<1> DEFINE before == Total(runs)[m - 1]
           behind == Total(runs)[m]
           rows == Total(runs)[j - 1]
           first == runs[m].first
           num == runs[m].num
           next == runs[j].first
<1>6. /\ before \in Nat /\ behind \in Nat /\ rows \in Nat
      /\ first \in Nat /\ num \in Nat /\ next \in Nat /\ behind = before + num
  <2>1. m - 1 \in 0 .. Len(runs) /\ m \in 0 .. Len(runs) /\ j - 1 \in 0 .. Len(runs)
    BY <1>1, <1>5
  <2> QED
    BY <1>1, <1>5, <2>1, TotalIs
<1>7. CASE m = j
  <2>1. before = rows /\ first = next
    BY <1>7
  <2> HIDE DEF before, behind, rows, first, num, next
  <2>2. i = next + d
    BY DEF next
  <2>3. before + (i - first) + 1 = rows + d + 1
    BY <1>6, <2>1, <2>2
  <2> QED
    BY <1>4, <1>5, <2>3 DEF RowsBefore, before, rows, first
<1>8. CASE m < j
  <2>1. behind <= rows /\ rows - behind <= next - (first + num)
    BY <1>5, <1>8, RowsBetween
  <2>2. first <= i /\ i <= first + num /\ i = next + d
    BY <1>5
  <2>3. first + num <= next
    BY <1>1, <1>5, <1>8 DEF Ascending
  <2> HIDE DEF before, behind, rows, first, num, next
  <2>4. before + (i - first) + 1 = rows + d + 1
    <3>1. d = 0 /\ next = first + num
      BY <1>6, <2>2, <2>3
    <3>2. rows = behind
      BY <1>6, <2>1, <3>1
    <3> QED
      BY <1>6, <2>2, <3>1, <3>2
  <2> QED
    BY <1>4, <1>5, <2>4 DEF RowsBefore, before, rows, first
<1> QED
  BY <1>3, <1>5, <1>7, <1>8

(* What is said of a directory.                                            *)
LEMMA OfDirectory ==
    ASSUME WellFormed(f)
    PROVE  /\ f \in Directory
           /\ \A t \in Segmented :
                 /\ f.runs[t] \in Seq(IdRuns) /\ Ascending(f.runs[t])
                 /\ f.gffi[f.table[t]] \in Seq(TableRows)
                 /\ Total(f.runs[t])[Len(f.runs[t])] = Len(f.gffi[f.table[t]])
           /\ \A t \in Ordinary :
                 /\ f.chunks[t] \in Seq(Headers)
                 /\ \A j, k \in DOMAIN f.chunks[t] :
                       f.chunks[t][j].id = f.chunks[t][k].id => j = k
<1>1. f \in Directory
  BY DEF WellFormed
<1>2. /\ f.gffi \in Seq(Seq(TableRows)) /\ f.runs \in [Segmented -> Seq(IdRuns)]
      /\ f.chunks \in [Ordinary -> Seq(Headers)]
  BY <1>1 DEF Directory
<1>3. ASSUME NEW t \in Segmented
      PROVE  /\ f.runs[t] \in Seq(IdRuns) /\ Ascending(f.runs[t])
             /\ f.gffi[f.table[t]] \in Seq(TableRows)
             /\ Total(f.runs[t])[Len(f.runs[t])] = Len(f.gffi[f.table[t]])
  <2>1. f.table[t] \in DOMAIN f.gffi
    BY DEF WellFormed
  <2>2. f.gffi[f.table[t]] \in Seq(TableRows)
    BY <1>2, <2>1
  <2> QED
    BY <1>2, <2>2 DEF WellFormed
<1>4. ASSUME NEW t \in Ordinary
      PROVE  /\ f.chunks[t] \in Seq(Headers)
             /\ \A j, k \in DOMAIN f.chunks[t] :
                   f.chunks[t][j].id = f.chunks[t][k].id => j = k
  <2>1. IsInjective([k \in DOMAIN f.chunks[t] |-> f.chunks[t][k].id])
    BY DEF WellFormed
  <2> QED
    BY <1>2, <2>1 DEF IsInjective
<1> QED
  BY <1>1, <1>3, <1>4

(* The ids of a segmented type and their rows.                             *)
LEMMA SegmentedIds ==
    ASSUME WellFormed(f), NEW t \in Segmented \cap f.types
    PROVE  /\ Ids(t) \in Seq(Nat) /\ Len(Ids(t)) = Length(t) /\ Length(t) \in Nat
           /\ \A k \in DOMAIN Ids(t) :
                 LET row == f.gffi[f.table[t]][k]
                 IN  /\ row \in TableRows
                     /\ Find(t, Ids(t)[k]) = [id |-> Ids(t)[k], location |-> row.location,
                                              length |-> row.length]
<1> DEFINE runs == f.runs[t]
           rows == f.gffi[f.table[t]]
           n == Len(runs)
<1>1. /\ runs \in Seq(IdRuns) /\ Ascending(runs)
      /\ rows \in Seq(TableRows) /\ Total(runs)[n] = Len(rows)
  BY OfDirectory
<1>2. Ids(t) = Copied(runs)[n] /\ Length(t) = Total(runs)[n]
  BY DEF Ids, Length
<1>3. \A i : Find(t, i) = FindInRuns(t, i)
  BY DEF Find
<1> HIDE DEF rows, n
<1>4. n \in 0 .. Len(runs) /\ Total(runs)[n] \in Nat
  BY <1>1, RunTypes, TotalIs DEF n
<1>5. CopiedSoFar(runs, n, Ids(t))
  BY <1>1, <1>2, <1>4, CopiedIs
<1>6. Ids(t) \in Seq(Nat) /\ Len(Ids(t)) = Length(t) /\ Length(t) \in Nat
  BY <1>2, <1>4, <1>5 DEF CopiedSoFar
<1>7. ASSUME NEW k \in DOMAIN Ids(t)
      PROVE  /\ rows[k] \in TableRows
             /\ Find(t, Ids(t)[k]) = [id |-> Ids(t)[k], location |-> rows[k].location,
                                      length |-> rows[k].length]
  <2>1. k \in 1 .. Len(Ids(t)) /\ k \in DOMAIN rows /\ rows[k] \in TableRows
    BY <1>1, <1>2, <1>6
  <2> DEFINE i == Ids(t)[k]
  <2>2. PlaceOf(runs, k, i)
    BY <1>5, <2>1 DEF CopiedSoFar
  <2>3. PICK j \in 1 .. Len(runs), d \in Nat :
           d < runs[j].num /\ i = runs[j].first + d /\ k = Total(runs)[j - 1] + d + 1
    BY <2>2 DEF PlaceOf
  <2> DEFINE m == RunOf(runs, i)
             d1 == Total(runs)[j - 1] + d + 1
  <2> HIDE DEF i, runs
  <2>4. m # 0 /\ RowsBefore(runs, m) + (i - runs[m].first) + 1 = d1
    <3> HIDE DEF d1
    <3>1. RunOf(runs, i) # 0
      BY <1>1, <2>3, RowFound
    <3>2. RowsBefore(runs, RunOf(runs, i)) + (i - runs[RunOf(runs, i)].first) + 1 = d1
      BY <1>1, <2>3, RowFound DEF d1
    <3> QED
      BY <3>1, <3>2
  <2>5. m # 0 /\ RowsBefore(runs, m) + (i - runs[m].first) + 1 = k
    BY <2>3, <2>4
  <2>6. FindInRuns(t, i) = [id |-> i, location |-> rows[k].location, length |-> rows[k].length]
    BY <2>1, <2>5 DEF FindInRuns, rows, runs
  <2> QED
    BY <1>3, <2>1, <2>6 DEF i
<1> QED
  BY <1>6, <1>7 DEF rows

(* In an ordinary type the first header of an id is the only one, and it   *)
(* stays the first when others are appended.                               *)
LEMMA OrdinaryIds ==
    ASSUME WellFormed(f), NEW t \in f.types, t \notin Segmented
    PROVE  /\ Ids(t) \in Seq(Nat) /\ Len(Ids(t)) = Length(t) /\ Length(t) \in Nat
           /\ \A k \in DOMAIN Ids(t) : Find(t, Ids(t)[k]) \in Headers
<1> DEFINE s == f.chunks[t]
<1>1. t \in Ordinary
  BY OfDirectory DEF Directory
<1>2. s \in Seq(Headers)
  BY <1>1, OfDirectory
<1>3. Ids(t) = [k \in DOMAIN s |-> s[k].id] /\ Length(t) = Len(s)
  BY DEF Ids, Length
<1>4. \A i : Find(t, i) = FindInChunks(t, i)
  BY DEF Find
<1>5. \A i : FindInChunks(t, i) =
         IF {k \in DOMAIN s : s[k].id = i} = {} THEN NotFound
         ELSE s[Min({k \in DOMAIN s : s[k].id = i})]
  BY DEF FindInChunks
<1> HIDE DEF s
<1>6. Len(s) \in Nat /\ DOMAIN s = 1 .. Len(s) /\ \A k \in 1 .. Len(s) : s[k] \in Headers
  BY <1>2
<1>7. \A k \in 1 .. Len(s) : s[k].id \in Nat
  BY <1>6 DEF Headers
<1>8. Ids(t) \in Seq(Nat) /\ Len(Ids(t)) = Len(s)
  BY <1>3, <1>6, <1>7
<1>9. ASSUME NEW k \in DOMAIN Ids(t)
      PROVE  Find(t, Ids(t)[k]) \in Headers
  <2> DEFINE i == Ids(t)[k]
             at == {j \in DOMAIN s : s[j].id = i}
  <2>1. k \in at /\ at \subseteq Nat
    BY <1>3, <1>6
  <2>2. Min(at) \in at
    <3> HIDE DEF at
    <3> QED
      BY <2>1, MinIs
  <2>3. Find(t, i) = s[Min(at)]
    BY <1>4, <1>5, <2>1
  <2> QED
    BY <1>6, <2>2, <2>3
<1> QED
  BY <1>3, <1>6, <1>8, <1>9

LEMMA RowIsHeader ==
    ASSUME NEW row \in TableRows, NEW i \in Nat
    PROVE  [id |-> i, location |-> row.location, length |-> row.length] \in Headers
  BY DEF TableRows, Headers

(* What an id list holds when it is made.                                  *)
LEMMA AllIds ==
    ASSUME WellFormed(f), NEW t
    PROVE  /\ Ids(t) \in Seq(Nat) /\ Len(Ids(t)) = Length(t) /\ Length(t) \in Nat
           /\ \A k \in DOMAIN Ids(t) : Find(t, Ids(t)[k]) \in Headers
<1>1. CASE t \notin f.types
  <2>1. Ids(t) = <<>> /\ Length(t) = 0
    BY <1>1 DEF Ids, Length
  <2> QED
    BY <2>1
<1>2. CASE t \in f.types /\ t \notin Segmented
  BY <1>2, OrdinaryIds
<1>3. CASE t \in f.types /\ t \in Segmented
  <2>1. /\ Ids(t) \in Seq(Nat) /\ Len(Ids(t)) = Length(t) /\ Length(t) \in Nat
        /\ \A k \in DOMAIN Ids(t) :
              /\ f.gffi[f.table[t]][k] \in TableRows
              /\ Find(t, Ids(t)[k]) = [id |-> Ids(t)[k],
                                       location |-> f.gffi[f.table[t]][k].location,
                                       length |-> f.gffi[f.table[t]][k].length]
    BY <1>3, SegmentedIds
  <2>2. ASSUME NEW k \in DOMAIN Ids(t)
        PROVE  Find(t, Ids(t)[k]) \in Headers
    <3> DEFINE i == Ids(t)[k]
               row == f.gffi[f.table[t]][k]
    <3>1. i \in Nat /\ row \in TableRows
      BY <2>1
    <3>2. Find(t, i) = [id |-> i, location |-> row.location, length |-> row.length]
      BY <2>1
    <3> HIDE DEF i, row
    <3>3. Find(t, i) \in Headers
      BY <3>1, <3>2, RowIsHeader
    <3> QED
      BY <3>3 DEF i
  <2> QED
    BY <2>1, <2>2
<1> QED
  BY <1>1, <1>2, <1>3

(* The scan for an id over the headers of an ordinary type.                *)
First(s, i) ==
    LET at == {k \in DOMAIN s : s[k].id = i}
    IN  IF at = {} THEN NotFound ELSE s[Min(at)]

LEMMA FirstIs ==
    ASSUME NEW s \in Seq(Headers), NEW i
    PROVE  /\ First(s, i) \in Headers \cup {NotFound}
           /\ First(s, i) = NotFound => \A k \in DOMAIN s : s[k].id # i
<1> DEFINE at == {k \in DOMAIN s : s[k].id = i}
<1>1. DOMAIN s \subseteq Nat /\ \A k \in DOMAIN s : s[k] \in Headers
  OBVIOUS
<1>2. at \subseteq Nat /\ at \subseteq DOMAIN s
  BY <1>1
<1>3. First(s, i) = IF at = {} THEN NotFound ELSE s[Min(at)]
  BY DEF First
<1>4. at = {} => \A k \in DOMAIN s : s[k].id # i
  OBVIOUS
<1> HIDE DEF at
<1>5. CASE at = {}
  BY <1>3, <1>4, <1>5
<1>6. CASE at # {}
  <2>1. Min(at) \in DOMAIN s
    BY <1>2, <1>6, MinIs
  <2>2. First(s, i) \in Headers
    BY <1>1, <1>3, <1>6, <2>1, Zenon
  <2> QED
    BY <2>2
<1> QED
  BY <1>5, <1>6

LEMMA AnswerTypes ==
    ASSUME WellFormed(f), NEW t, NEW i \in Nat
    PROVE  Find(t, i) \in Headers \cup {NotFound, Garbage}
<1>1. CASE t \notin f.types
  BY <1>1 DEF Find
<1>2. CASE t \in f.types /\ t \in Segmented
  <2>1. f.gffi[f.table[t]] \in Seq(TableRows)
    BY <1>2, OfDirectory
  <2> DEFINE rows == f.gffi[f.table[t]]
  <2>2. \A k \in DOMAIN rows : rows[k] \in TableRows
    BY <2>1
  <2> HIDE DEF rows
  <2>3. \A k \in DOMAIN rows :
           [id |-> i, location |-> rows[k].location, length |-> rows[k].length] \in Headers
    BY <2>2, RowIsHeader
  <2>4. FindInRuns(t, i) \in Headers \cup {NotFound, Garbage}
    BY <2>3 DEF FindInRuns, rows
  <2> QED
    BY <1>2, <2>4 DEF Find
<1>3. CASE t \in f.types /\ t \notin Segmented
  <2>1. f.chunks[t] \in Seq(Headers)
    BY <1>3, OfDirectory DEF Directory
  <2>2. Find(t, i) = First(f.chunks[t], i)
    BY <1>3 DEF Find, FindInChunks, First
  <2> QED
    BY <2>1, <2>2, FirstIs
<1> QED
  BY <1>1, <1>2, <1>3

(* Appending a header of an id that has none keeps what is found.          *)
LEMMA FirstStays ==
    ASSUME NEW s \in Seq(Headers), NEW h, NEW i, First(s, i) # NotFound
    PROVE  First(Append(s, h), i) = First(s, i)
<1> DEFINE e == Append(s, h)
           at == {k \in DOMAIN s : s[k].id = i}
           bt == {k \in DOMAIN e : e[k].id = i}
           n == Len(s)
<1>1. /\ n \in Nat /\ DOMAIN s = 1 .. n /\ DOMAIN e = 1 .. n + 1
      /\ \A k \in 1 .. n : e[k] = s[k]
  OBVIOUS
<1> HIDE DEF e, n
<1>2. at # {} /\ at \subseteq Nat /\ bt \subseteq Nat /\ at \subseteq bt
  BY <1>1 DEF First
<1>3. \A k \in bt : k \in at \/ k = n + 1
  BY <1>1
<1>4. at \subseteq 1 .. n
  BY <1>1
<1> HIDE DEF at, bt
<1>5. /\ Min(at) \in at /\ \A y \in at : Min(at) <= y
      /\ Min(bt) \in bt /\ \A y \in bt : Min(bt) <= y
  BY <1>2, MinIs
<1>6. Min(bt) = Min(at)
  <2> DEFINE a == Min(at)
             b == Min(bt)
  <2>1. /\ a \in at /\ b \in bt /\ a \in 1 .. n /\ b <= a /\ b \in Nat
        /\ \A y \in at : a <= y
    BY <1>2, <1>4, <1>5
  <2> HIDE DEF a, b
  <2>2. b # n + 1
    BY <1>1, <2>1
  <2>3. a <= b
    BY <1>3, <2>1, <2>2
  <2>4. a = b
    BY <2>1, <2>3
  <2> QED
    BY <2>4 DEF a, b
<1>7. First(s, i) = s[Min(at)] /\ First(e, i) = e[Min(bt)]
  BY <1>2 DEF First, at, bt
<1>8. e[Min(bt)] = s[Min(at)]
  BY <1>1, <1>4, <1>5, <1>6
<1> QED
  BY <1>7, <1>8 DEF e

LEMMA FoundStays ==
    ASSUME WellFormed(f), NEW t, NEW i \in Nat, gff_add_chunk(t, i), Writable
    PROVE  /\ WellFormed(f')
           /\ \A u, x : Find(u, x) # NotFound => Find(u, x)' = Find(u, x)
<1> DEFINE s == f.chunks[t]
           h == NewHeader(t, i)
<1>1. /\ t \in f.types /\ t \in Ordinary /\ FindInChunks(t, i) = NotFound
      /\ f' = [f EXCEPT !.chunks = [f.chunks EXCEPT ![t] = Append(f.chunks[t], NewHeader(t, i))]]
  BY DEF gff_add_chunk, publishes
<1>2. f \in Directory /\ s \in Seq(Headers)
  BY <1>1, OfDirectory
<1>3. h \in Headers /\ h.id = i
  <2>1. Len(s) \in Nat
    BY <1>2
  <2> QED
    BY <2>1 DEF NewHeader, Headers
<1>4. f.chunks \in [Ordinary -> Seq(Headers)]
  BY <1>2 DEF Directory
<1>5. /\ f'.types = f.types /\ f'.runs = f.runs /\ f'.table = f.table /\ f'.gffi = f.gffi
      /\ f'.chunks = [f.chunks EXCEPT ![t] = Append(s, h)]
      /\ f' = [types |-> f'.types, chunks |-> f'.chunks, runs |-> f'.runs,
               table |-> f'.table, gffi |-> f'.gffi]
  BY <1>1, <1>2 DEF Directory
<1> HIDE DEF h
<1>6. Append(s, h) \in Seq(Headers)
  BY <1>2, <1>3
<1>7. f'.chunks \in [Ordinary -> Seq(Headers)]
  BY <1>4, <1>5, <1>6
<1>8. f' \in Directory
  BY <1>2, <1>5, <1>7 DEF Directory
<1>9. \A k \in DOMAIN s : s[k].id # i
  <2>1. FindInChunks(t, i) = First(s, i)
    BY DEF FindInChunks, First
  <2> HIDE DEF s
  <2> QED
    BY <1>1, <1>2, <2>1, FirstIs
<1>10. ASSUME NEW u \in Ordinary
       PROVE  IsInjective([k \in DOMAIN f'.chunks[u] |-> f'.chunks[u][k].id])
  <2>1. CASE u # t
    <3>1. f'.chunks[u] = f.chunks[u]
      BY <1>4, <1>5, <2>1
    <3> QED
      BY <3>1 DEF WellFormed
  <2>2. CASE u = t
    <3> DEFINE e == Append(s, h)
    <3>1. f'.chunks[u] = e
      BY <1>4, <1>5, <2>2
    <3>2. \A j, k \in DOMAIN s : s[j].id = s[k].id => j = k
      BY <1>1, OfDirectory
    <3> HIDE DEF s
    <3>3. /\ Len(s) \in Nat /\ DOMAIN s = 1 .. Len(s) /\ DOMAIN e = 1 .. Len(s) + 1
          /\ \A k \in 1 .. Len(s) : e[k] = s[k]
          /\ e[Len(s) + 1] = h
      BY <1>2
    <3> HIDE DEF e
    <3>4. \A j, k \in DOMAIN e : e[j].id = e[k].id => j = k
      BY <1>3, <1>9, <3>2, <3>3
    <3> QED
      BY <3>1, <3>4 DEF IsInjective
  <2> QED
    BY <2>1, <2>2
<1>11. WellFormed(f')
  BY <1>5, <1>8, <1>10 DEF WellFormed
<1>12. ASSUME NEW u, NEW x, Find(u, x) # NotFound
       PROVE  Find(u, x)' = Find(u, x)
  <2>1. CASE u \in Segmented \/ u \notin f.types
    <3>1. FindInRuns(u, x)' = FindInRuns(u, x)
      <4>1. (f.runs)' = f.runs /\ (f.gffi)' = f.gffi /\ (f.table)' = f.table
        BY <1>5
      <4> QED
        BY <4>1 DEF FindInRuns
    <3>2. (f.types)' = f.types
      BY <1>5
    <3> QED
      BY <2>1, <3>1, <3>2 DEF Find
  <2>2. CASE u \notin Segmented /\ u \in f.types
    <3>1. u \in Ordinary /\ f.chunks[u] \in Seq(Headers)
      BY <1>2, <1>4, <2>2 DEF Directory
    <3>2. Find(u, x) = First(f.chunks[u], x) /\ Find(u, x)' = First(f'.chunks[u], x)
      BY <1>5, <2>2 DEF Find, FindInChunks, First
    <3>3. CASE u # t
      BY <1>4, <1>5, <3>1, <3>2, <3>3
    <3>4. CASE u = t
      <4>1. f'.chunks[u] = Append(s, h)
        BY <1>4, <1>5, <3>1, <3>4
      <4>2. First(s, x) # NotFound
        BY <1>12, <3>2, <3>4
      <4>3. First(Append(s, h), x) = First(s, x)
        BY <1>2, <4>2, FirstStays
      <4> QED
        BY <3>2, <3>4, <4>1, <4>3
    <3> QED
      BY <3>3, <3>4
  <2> QED
    BY <2>1, <2>2
<1> QED
  BY <1>11, <1>12

------------------------------------------------------------------------------
(* The steps.                                                              *)
ListGood ==
    list # None =>
        /\ list.ids \in Seq(Nat) /\ list.len \in Nat
        /\ list.headers \in Seq(Headers \cup {NotFound, Garbage})
        /\ Len(list.ids) = list.len
        /\ \A k \in DOMAIN list.ids :
              /\ list.headers[k] \in Headers
              /\ Find(list.type, list.ids[k]) = list.headers[k]

FoundGood ==
    found # None =>
        /\ found.is \in Headers \cup {NotFound, Garbage}
        /\ found.is # NotFound => Find(found.type, found.id) = found.is

Inv == WellFormed(f) /\ ListGood /\ FoundGood

LEMMA SameAnswers ==
    ASSUME f' = f, NEW u, NEW x
    PROVE  Find(u, x)' = Find(u, x)
<1>1. FindInRuns(u, x)' = FindInRuns(u, x)
  BY DEF FindInRuns
<1>2. FindInChunks(u, x)' = FindInChunks(u, x)
  BY DEF FindInChunks
<1> QED
  BY <1>1, <1>2 DEF Find

LEMMA InvInit == Init => Inv
  BY FilesAssumption DEF Init, Inv, ListGood, FoundGood

LEMMA LoadIds ==
    ASSUME Inv, NEW t, gff_load_id_list(t)
    PROVE  Inv'
<1> DEFINE ids == Ids(t)
           heads == [k \in DOMAIN Ids(t) |-> Find(t, Ids(t)[k])]
<1>1. /\ list' = [type |-> t, len |-> Length(t), ids |-> ids, headers |-> heads]
      /\ f' = f /\ found' = found
  BY DEF gff_load_id_list
<1>2. /\ ids \in Seq(Nat) /\ Len(ids) = Length(t) /\ Length(t) \in Nat
      /\ \A k \in DOMAIN ids : Find(t, ids[k]) \in Headers
  BY AllIds DEF Inv
<1>3. /\ DOMAIN heads = DOMAIN ids
      /\ \A k \in DOMAIN ids : heads[k] = Find(t, ids[k])
      /\ heads = [k \in DOMAIN ids |-> heads[k]]
  OBVIOUS
<1>4. \A u, x : Find(u, x)' = Find(u, x)
  BY <1>1, SameAnswers
<1> HIDE DEF ids, heads
<1>5. heads \in Seq(Headers)
  <2>1. DOMAIN ids = 1 .. Len(ids) /\ Len(ids) \in Nat
    BY <1>2
  <2>2. \A k \in 1 .. Len(ids) : heads[k] \in Headers
    BY <1>2, <1>3, <2>1
  <2> QED
    BY <1>3, <2>1, <2>2
<1>6. heads \in Seq(Headers \cup {NotFound, Garbage})
  BY <1>5
<1>7. ListGood'
  <2>1. list'.ids = ids /\ list'.len = Length(t) /\ list'.headers = heads /\ list'.type = t
    BY <1>1
  <2> QED
    BY <1>2, <1>3, <1>4, <1>6, <2>1 DEF ListGood
<1>8. FoundGood'
  BY <1>1, <1>4 DEF Inv, FoundGood
<1> QED
  BY <1>1, <1>7, <1>8 DEF Inv

LEMMA FindHeader ==
    ASSUME Inv, NEW t, NEW i \in Nat, gff_find_chunk_header(t, i)
    PROVE  Inv'
<1>1. found' = [type |-> t, id |-> i, is |-> Find(t, i)] /\ f' = f /\ list' = list
  BY DEF gff_find_chunk_header
<1>2. \A u, x : Find(u, x)' = Find(u, x)
  BY <1>1, SameAnswers
<1>3. ListGood'
  BY <1>1, <1>2 DEF Inv, ListGood
<1>4. FoundGood'
  BY <1>1, <1>2, AnswerTypes DEF Inv, FoundGood
<1> QED
  BY <1>1, <1>3, <1>4 DEF Inv

LEMMA AddChunk ==
    ASSUME Inv, NEW t, NEW i \in Nat, gff_add_chunk(t, i)
    PROVE  Inv'
<1>1. list' = list /\ found' = found
  BY DEF gff_add_chunk
<1>2. WellFormed(f') /\ \A u, x : Find(u, x) # NotFound => Find(u, x)' = Find(u, x)
  <2>1. CASE Writable
    BY <2>1, FoundStays DEF Inv
  <2>2. CASE ~Writable
    <3>1. f' = f
      BY <2>2 DEF gff_add_chunk, publishes
    <3>2. \A u, x : Find(u, x)' = Find(u, x)
      BY <3>1, SameAnswers
    <3> QED
      BY <3>1, <3>2 DEF Inv
  <2> QED
    BY <2>1, <2>2
<1>3. ListGood'
  BY <1>1, <1>2 DEF Inv, ListGood
<1>4. FoundGood'
  BY <1>1, <1>2 DEF Inv, FoundGood
<1> QED
  BY <1>2, <1>3, <1>4 DEF Inv

LEMMA InvNext == Inv /\ [Next]_vars => Inv'
<1> SUFFICES ASSUME Inv, [Next]_vars
             PROVE  Inv'
  OBVIOUS
<1>1. ASSUME NEW t \in Asked, gff_load_id_list(t)
      PROVE  Inv'
  BY <1>1, LoadIds
<1>2. ASSUME NEW t \in Asked, NEW i \in Tried(t), gff_find_chunk_header(t, i)
      PROVE  Inv'
  BY <1>2, FindHeader DEF Tried
<1>3. ASSUME NEW t \in Asked, NEW i \in NewId, gff_add_chunk(t, i)
      PROVE  Inv'
  BY <1>3, AddChunk
<1>4. CASE UNCHANGED vars
  <2>1. f' = f /\ list' = list /\ found' = found
    BY <1>4 DEF vars
  <2>2. \A u, x : Find(u, x)' = Find(u, x)
    BY <2>1, SameAnswers
  <2> QED
    BY <2>1, <2>2 DEF Inv, ListGood, FoundGood
<1> QED
  BY <1>1, <1>2, <1>3, <1>4 DEF Next

(* The invariant of the lookup.                                            *)
THEOREM LookupInductive == Spec => []Inv
  BY InvInit, InvNext, PTL DEF Spec

(* gff_get_resource_ids copies run behind run and gff_find_chunk_header    *)
(* searches them, each counting rows by itself: the k-th id that is listed *)
(* is looked up in the k-th row of the table, for all runs that ascend,    *)
(* adjacent or with gaps, empty ones among them, and in spite of the <= in *)
(* the search.                                                             *)
THEOREM ListAndLookupAgree == Spec => []ListedIdHasItsRow
<1>1. Inv => ListedIdHasItsRow
  BY SegmentedIds DEF Inv, ListedIdHasItsRow
<1> QED
  BY <1>1, LookupInductive, PTL

(* An id list fills the buffer that gff_get_resource_length counted, and   *)
(* it and a header a caller keeps stay good while gff_add_chunk adds to    *)
(* the directory, as it can where no type is segmented.                    *)
THEOREM KeptListStaysGood == Spec => []ListStaysGood
<1>1. Inv => ListStaysGood
  BY DEF Inv, ListGood, FoundGood, ListStaysGood, TypeOK
<1> QED
  BY <1>1, LookupInductive, PTL

(* A sequence, whatever its elements.                                      *)
IsSeq(s) == \E V : s \in Seq(V)

LEMMA SeqIs ==
    ASSUME NEW s, IsSeq(s)
    PROVE  Len(s) \in Nat /\ DOMAIN s = 1 .. Len(s) /\ s \in Seq({s[k] : k \in DOMAIN s})
<1>1. PICK V : s \in Seq(V)
  BY DEF IsSeq
<1> QED
  BY <1>1

LEMMA AppendIs ==
    ASSUME NEW s, IsSeq(s), NEW e
    PROVE  /\ IsSeq(Append(s, e)) /\ Len(Append(s, e)) = Len(s) + 1
           /\ \A k \in 1 .. Len(s) : Append(s, e)[k] = s[k]
           /\ Append(s, e)[Len(s) + 1] = e
<1>1. PICK V : s \in Seq(V)
  BY DEF IsSeq
<1>2. s \in Seq(V \cup {e}) /\ e \in V \cup {e}
  BY <1>1
<1>3. Append(s, e) \in Seq(V \cup {e})
  BY <1>2
<1> QED
  BY <1>2, <1>3 DEF IsSeq

LEMMA ConcatIs ==
    ASSUME NEW s, IsSeq(s), NEW t, IsSeq(t)
    PROVE  /\ IsSeq(s \o t) /\ Len(s \o t) = Len(s) + Len(t)
           /\ \A k \in 1 .. Len(s) : (s \o t)[k] = s[k]
           /\ \A k \in 1 .. Len(t) : (s \o t)[Len(s) + k] = t[k]
           /\ \A k \in DOMAIN (s \o t) :
                 k \in DOMAIN s \/ (k > Len(s) /\ k - Len(s) \in DOMAIN t)
<1>1. PICK V, W : s \in Seq(V) /\ t \in Seq(W)
  BY DEF IsSeq
<1>2. s \in Seq(V \cup W) /\ t \in Seq(V \cup W)
  BY <1>1
<1>3. s \o t \in Seq(V \cup W)
  BY <1>2
<1> QED
  BY <1>2, <1>3 DEF IsSeq

LEMMA TailIs ==
    ASSUME NEW s, IsSeq(s), s # <<>>
    PROVE  /\ IsSeq(Tail(s)) /\ Len(Tail(s)) = Len(s) - 1 /\ Len(s) \in Nat \ {0}
           /\ Head(s) = s[1] /\ 1 \in DOMAIN s
           /\ \A k \in DOMAIN Tail(s) : k + 1 \in DOMAIN s /\ Tail(s)[k] = s[k + 1]
<1>1. PICK V : s \in Seq(V)
  BY DEF IsSeq
<1>2. Tail(s) \in Seq(V)
  BY <1>1
<1> QED
  BY <1>1, <1>2 DEF IsSeq

LEMMA MadeIs ==
    ASSUME NEW n \in Nat, NEW s, DOMAIN s = 1 .. n, s = [k \in 1 .. n |-> s[k]]
    PROVE  IsSeq(s) /\ Len(s) = n
<1>1. s \in [1 .. n -> {s[k] : k \in 1 .. n}]
  OBVIOUS
<1>2. s \in Seq({s[k] : k \in 1 .. n})
  BY <1>1, SeqDef
<1>3. DOMAIN s = 1 .. Len(s) /\ Len(s) \in Nat
  BY <1>2
<1>4. Len(s) = n
  BY <1>3
<1> QED
  BY <1>2, <1>4 DEF IsSeq

LEMMA NoneIs == IsSeq(<<>>) /\ Len(<<>>) = 0 /\ DOMAIN <<>> = {}
<1>1. <<>> \in Seq({})
  OBVIOUS
<1> QED
  BY <1>1 DEF IsSeq

LEMMA OneIs ==
    ASSUME NEW e
    PROVE  IsSeq(<<e>>) /\ Len(<<e>>) = 1 /\ DOMAIN <<e>> = {1} /\ <<e>>[1] = e
<1>1. <<e>> \in Seq({e})
  OBVIOUS
<1>2. Len(<<e>>) = 1 /\ DOMAIN <<e>> = {1} /\ <<e>>[1] = e
  OBVIOUS
<1> QED
  BY <1>1, <1>2 DEF IsSeq

------------------------------------------------------------------------------
(* FlattenSeq, as the sequences of its rounds.                             *)
Rounds(ss, g) ==
    /\ g[0] = <<>>
    /\ \A k \in 1 .. Len(ss) : IsSeq(g[k - 1]) /\ IsSeq(g[k]) /\ g[k] = g[k - 1] \o ss[k]
    /\ IsSeq(g[0]) /\ FlattenSeq(ss) = g[Len(ss)]

LEMMA FlattenIs ==
    ASSUME NEW ss, IsSeq(ss), \A k \in DOMAIN ss : IsSeq(ss[k])
    PROVE  \E g : Rounds(ss, g)
<1> DEFINE N == Len(ss)
           V == UNION {{ss[k][i] : i \in DOMAIN ss[k]} : k \in DOMAIN ss}
           step == [n \in 1 .. N |-> [x \in Seq(V) |-> x \o ss[n]]]
<1>1. N \in Nat /\ DOMAIN ss = 1 .. N
  BY SeqIs
<1>2. ASSUME NEW k \in 1 .. N
      PROVE  ss[k] \in Seq(V)
  <2>1. IsSeq(ss[k])
    BY <1>1
  <2>2. PICK W : ss[k] \in Seq(W)
    BY <2>1 DEF IsSeq
  <2> DEFINE W1 == {ss[k][i] : i \in DOMAIN ss[k]}
  <2>3. \A i \in DOMAIN ss[k] : ss[k][i] \in V
    BY <1>1
  <2> HIDE DEF V
  <2> DEFINE s == ss[k]
  <2>4. s \in Seq(W) /\ \A i \in DOMAIN s : s[i] \in V
    BY <2>2, <2>3
  <2> HIDE DEF s
  <2>5. Len(s) \in Nat /\ s \in [1 .. Len(s) -> V]
    BY <2>4
  <2>6. s \in Seq(V)
    BY <2>5, SeqDef
  <2> QED
    BY <2>6 DEF s
<1> HIDE DEF V
<1>3. ASSUME NEW x \in Seq(V), NEW n \in 1 .. N
      PROVE  x \o ss[n] \in Seq(V)
  BY <1>2
<1>4. step \in [1 .. N -> [Seq(V) -> Seq(V)]]
  BY <1>3
<1>5. Steps(N, Seq(V), <<>>, step)
  <2> HIDE DEF step, N
  <2> QED
    BY <1>1, <1>4 DEF Steps
<1>6. PICK g : Computes(g, N, Seq(V), <<>>, step)
  <2> HIDE DEF step, N
  <2> QED
    BY <1>5, Computed
<1>7. g \in [0 .. N -> Seq(V)] /\ g[0] = <<>>
  BY <1>6 DEF Computes
<1>8. ASSUME NEW k \in 1 .. N
      PROVE  /\ g[k - 1] \in Seq(V) /\ g[k] \in Seq(V) /\ g[k] = g[k - 1] \o ss[k]
  <2>1. k - 1 \in 0 .. N /\ k \in 0 .. N
    BY <1>1
  <2>2. g[k - 1] \in Seq(V) /\ g[k] \in Seq(V)
    BY <1>7, <2>1
  <2>3. g[k] = step[k][g[k - 1]]
    BY <1>6 DEF Computes
  <2> QED
    BY <2>2, <2>3
<1>9. FlattenSeq(ss) = g[N]
  <2>1. CASE N = 0
    BY <1>1, <1>7, <2>1 DEF FlattenSeq
  <2>2. CASE N # 0
    <3> DEFINE F(h) == [i \in 1 .. Len(ss) |-> IF i = 1 THEN ss[i] ELSE h[i - 1] \o ss[i]]
               h0 == [i \in 1 .. N |-> g[i]]
    <3>1. h0 = F(h0)
      <4>1. ASSUME NEW i \in 1 .. N
            PROVE  h0[i] = IF i = 1 THEN ss[i] ELSE h0[i - 1] \o ss[i]
        <5>1. CASE i = 1
          <6>1. g[i] = g[i - 1] \o ss[i]
            BY <1>8
          <6>2. i - 1 = 0
            BY <5>1
          <6>3. <<>> \o ss[i] = ss[i]
            BY <1>2
          <6>4. g[i] = ss[i]
            BY <1>7, <6>1, <6>2, <6>3, Zenon
          <6> QED
            BY <5>1, <6>4
        <5>2. CASE i # 1
          <6>1. i - 1 \in 1 .. N
            BY <1>1, <5>2
          <6> QED
            BY <1>8, <5>2, <6>1
        <5> QED
          BY <5>1, <5>2
      <4> QED
        BY <4>1
    <3>2. FlattenSeq(ss) = (CHOOSE h : h = F(h))[N]
      BY <2>2 DEF FlattenSeq
    <3>3. (CHOOSE h : h = F(h)) = F(CHOOSE h : h = F(h))
      <4> HIDE DEF F, h0
      <4> QED
        BY <3>1
    <3> DEFINE h1 == CHOOSE h : h = F(h)
    <3>4. h1 = F(h1)
      BY <3>3
    <3> HIDE DEF h1
    <3> DEFINE S == {k \in 0 .. N : k = 0 \/ h1[k] = g[k]}
    <3>5. 0 \in S
      BY <1>1
    <3>6. ASSUME NEW k \in 1 .. N, k - 1 \in S
          PROVE  k \in S
      <4>1. h1[k] = IF k = 1 THEN ss[k] ELSE h1[k - 1] \o ss[k]
        BY <3>4
      <4>2. CASE k = 1
        <5>1. g[k] = g[k - 1] \o ss[k]
          BY <1>8
        <5>2. k - 1 = 0
          BY <4>2
        <5>3. <<>> \o ss[k] = ss[k]
          BY <1>2
        <5>4. h1[k] = g[k]
          BY <1>7, <4>1, <4>2, <5>1, <5>2, <5>3, Zenon
        <5> QED
          BY <1>1, <5>4
      <4>3. CASE k # 1
        <5>1. h1[k - 1] = g[k - 1]
          BY <1>1, <3>6, <4>3
        <5>2. g[k] = g[k - 1] \o ss[k]
          BY <1>8
        <5>3. h1[k] = g[k]
          BY <4>1, <4>3, <5>1, <5>2, Zenon
        <5> QED
          BY <1>1, <5>3
      <4> QED
        BY <4>2, <4>3
    <3> HIDE DEF S
    <3>7. \A k \in 0 .. N : k \in S
      BY <1>1, <3>5, <3>6, UpTo
    <3>8. h1[N] = g[N]
      BY <1>1, <2>2, <3>7 DEF S
    <3> QED
      BY <3>2, <3>8 DEF h1
  <2> QED
    BY <2>1, <2>2
<1>10. \A x \in Seq(V) : IsSeq(x)
  BY DEF IsSeq
<1>11. g[0] \in Seq(V)
  BY <1>1, <1>7
<1> QED
  BY <1>7, <1>8, <1>9, <1>10, <1>11 DEF Rounds

(* What the flattened sequence holds, after n rounds: what these rounds    *)
(* brought, and each of it once if they bring nothing twice.               *)
Apart(ss) ==
    \A a, b \in DOMAIN ss : \A x \in DOMAIN ss[a], y \in DOMAIN ss[b] :
       ss[a][x] = ss[b][y] => a = b /\ x = y
FlatSoFar(ss, n, s) ==
    /\ IsSeq(s)
    /\ \A k \in DOMAIN s : \E j \in 1 .. n : \E i \in DOMAIN ss[j] : s[k] = ss[j][i]
    /\ \A j \in 1 .. n : \A i \in DOMAIN ss[j] : \E k \in DOMAIN s : s[k] = ss[j][i]
    /\ Apart(ss) => \A k, l \in DOMAIN s : s[k] = s[l] => k = l

LEMMA FlatRound ==
    ASSUME NEW ss, IsSeq(ss), NEW n \in 1 .. Len(ss), IsSeq(ss[n]),
           NEW s, FlatSoFar(ss, n - 1, s)
    PROVE  FlatSoFar(ss, n, s \o ss[n])
<1> DEFINE t == ss[n]
           st == s \o t
<1>0. n \in Nat /\ DOMAIN ss = 1 .. Len(ss) /\ Len(ss) \in Nat /\ n \in DOMAIN ss
  BY SeqIs
<1>1. IsSeq(s) /\ IsSeq(t)
  BY DEF FlatSoFar
<1>2. /\ IsSeq(st) /\ Len(st) = Len(s) + Len(t)
      /\ \A k \in 1 .. Len(s) : st[k] = s[k]
      /\ \A k \in 1 .. Len(t) : st[Len(s) + k] = t[k]
      /\ \A k \in DOMAIN st : k \in DOMAIN s \/ (k > Len(s) /\ k - Len(s) \in DOMAIN t)
  BY <1>1, ConcatIs
<1>3. /\ Len(s) \in Nat /\ DOMAIN s = 1 .. Len(s) /\ Len(t) \in Nat /\ DOMAIN t = 1 .. Len(t)
      /\ Len(st) \in Nat /\ DOMAIN st = 1 .. Len(st)
  BY <1>1, <1>2, SeqIs
<1> HIDE DEF st
<1>4. ASSUME NEW k \in DOMAIN st
      PROVE  \/ k \in DOMAIN s /\ st[k] = s[k]
             \/ /\ k > Len(s) /\ k - Len(s) \in DOMAIN t /\ st[k] = t[k - Len(s)]
  <2>1. CASE k \in DOMAIN s
    BY <1>2, <1>3, <2>1
  <2>2. CASE k > Len(s) /\ k - Len(s) \in DOMAIN t
    <3>1. Len(s) + (k - Len(s)) = k
      BY <1>3
    <3> QED
      BY <1>2, <1>3, <2>2, <3>1
  <2> QED
    BY <1>2, <2>1, <2>2
<1>5. ASSUME NEW k \in DOMAIN st
      PROVE  \E j \in 1 .. n : \E i \in DOMAIN ss[j] : st[k] = ss[j][i]
  <2>1. CASE k \in DOMAIN s /\ st[k] = s[k]
    <3>1. PICK j \in 1 .. n - 1 : \E i \in DOMAIN ss[j] : s[k] = ss[j][i]
      BY <2>1 DEF FlatSoFar
    <3>2. j \in 1 .. n
      BY <1>0
    <3> QED
      BY <2>1, <3>1, <3>2
  <2>2. CASE k - Len(s) \in DOMAIN t /\ st[k] = t[k - Len(s)]
    BY <1>0, <2>2
  <2> QED
    BY <1>4, <2>1, <2>2
<1>6. ASSUME NEW j \in 1 .. n, NEW i \in DOMAIN ss[j]
      PROVE  \E k \in DOMAIN st : st[k] = ss[j][i]
  <2>1. CASE j = n
    <3>1. i \in 1 .. Len(t) /\ st[Len(s) + i] = t[i] /\ Len(s) + i \in DOMAIN st
      BY <1>2, <1>3, <2>1
    <3> QED
      BY <2>1, <3>1
  <2>2. CASE j # n
    <3>1. j \in 1 .. n - 1
      BY <1>0, <2>2
    <3>2. PICK k \in DOMAIN s : s[k] = ss[j][i]
      BY <3>1 DEF FlatSoFar
    <3>3. k \in DOMAIN st /\ st[k] = s[k]
      BY <1>2, <1>3
    <3> QED
      BY <3>2, <3>3
  <2> QED
    BY <2>1, <2>2
<1>7. ASSUME Apart(ss), NEW k \in DOMAIN st, NEW l \in DOMAIN st, st[k] = st[l]
      PROVE  k = l
  <2>1. CASE k \in DOMAIN s /\ st[k] = s[k] /\ l \in DOMAIN s /\ st[l] = s[l]
    BY <1>7, <2>1 DEF FlatSoFar
  <2>2. ASSUME NEW a \in DOMAIN s, NEW b \in DOMAIN t
        PROVE  s[a] # t[b]
    <3>1. PICK j \in 1 .. n - 1 : \E i \in DOMAIN ss[j] : s[a] = ss[j][i]
      BY DEF FlatSoFar
    <3>2. PICK i \in DOMAIN ss[j] : s[a] = ss[j][i]
      BY <3>1
    <3>3. j # n /\ j \in DOMAIN ss
      BY <1>0
    <3> QED
      BY <1>0, <1>7, <3>2, <3>3 DEF Apart
  <2>3. CASE /\ k > Len(s) /\ k - Len(s) \in DOMAIN t /\ st[k] = t[k - Len(s)]
             /\ l > Len(s) /\ l - Len(s) \in DOMAIN t /\ st[l] = t[l - Len(s)]
    <3>0. \A x, y \in DOMAIN t : t[x] = t[y] => x = y
      BY <1>0, <1>7 DEF Apart
    <3>1. k - Len(s) = l - Len(s)
      <4> DEFINE x == k - Len(s)
                 y == l - Len(s)
      <4>1. x \in DOMAIN t /\ y \in DOMAIN t /\ t[x] = t[y]
        BY <1>7, <2>3
      <4> HIDE DEF x, y
      <4>2. x = y
        BY <3>0, <4>1
      <4> QED
        BY <4>2 DEF x, y
    <3> QED
      BY <1>3, <3>1
  <2> QED
    BY <1>4, <1>7, <2>1, <2>2, <2>3
<1> QED
  BY <1>2, <1>5, <1>6, <1>7 DEF FlatSoFar, st, t

LEMMA FlattenHas ==
    ASSUME NEW ss, IsSeq(ss), \A k \in DOMAIN ss : IsSeq(ss[k])
    PROVE  FlatSoFar(ss, Len(ss), FlattenSeq(ss))
<1>1. PICK g : Rounds(ss, g)
  BY FlattenIs
<1> DEFINE N == Len(ss)
           S == {k \in 0 .. N : FlatSoFar(ss, k, g[k])}
<1>2. N \in Nat /\ DOMAIN ss = 1 .. N
  BY SeqIs
<1>3. 0 \in S
  <2>1. g[0] = <<>>
    BY <1>1 DEF Rounds
  <2>2. FlatSoFar(ss, 0, <<>>)
    BY NoneIs DEF FlatSoFar
  <2> QED
    BY <1>2, <2>1, <2>2
<1>4. ASSUME NEW k \in 1 .. N, k - 1 \in S
      PROVE  k \in S
  <2>1. g[k] = g[k - 1] \o ss[k]
    BY <1>1 DEF Rounds
  <2>2. FlatSoFar(ss, k - 1, g[k - 1]) /\ IsSeq(ss[k])
    BY <1>2, <1>4
  <2>3. FlatSoFar(ss, k, g[k - 1] \o ss[k])
    BY <2>2, FlatRound
  <2>4. FlatSoFar(ss, k, g[k])
    BY <2>1, <2>3, Zenon
  <2> QED
    BY <1>2, <2>4
<1> HIDE DEF S
<1>5. \A k \in 0 .. N : k \in S
  BY <1>2, <1>3, <1>4, UpTo
<1>6. FlatSoFar(ss, N, g[N])
  BY <1>2, <1>5 DEF S
<1> QED
  BY <1>1, <1>6 DEF Rounds

------------------------------------------------------------------------------
(* The indentation: what is to be printed next is, with indent at a, at    *)
(* the depth that a says, and behind all of it indent is at b.             *)
Climbs(s, l) ==
    \A k \in 1 .. Len(s) :
       IF s[k].type = "indent" THEN l[k] = l[k - 1] + s[k].by
       ELSE l[k] = l[k - 1] /\ l[k] = 4 * s[k].depth
Level(s, a, b) ==
    \E l \in [0 .. Len(s) -> Int] : l[0] = a /\ l[Len(s)] = b /\ Climbs(s, l)

LEMMA LevelEven ==
    ASSUME NEW s, IsSeq(s), NEW a \in Int,
           \A k \in DOMAIN s : IF s[k].type = "indent" THEN s[k].by = 0 ELSE 4 * s[k].depth = a
    PROVE  Level(s, a, a)
<1> DEFINE l == [k \in 0 .. Len(s) |-> a]
<1>1. Len(s) \in Nat /\ DOMAIN s = 1 .. Len(s)
  BY SeqIs
<1>2. l \in [0 .. Len(s) -> Int] /\ l[0] = a /\ l[Len(s)] = a
  BY <1>1
<1>3. \A k \in 1 .. Len(s) : l[k] = a /\ l[k - 1] = a
  BY <1>1
<1> HIDE DEF l
<1>4. Climbs(s, l)
  BY <1>1, <1>3 DEF Climbs
<1> QED
  BY <1>2, <1>4 DEF Level

LEMMA LevelNone == ASSUME NEW a \in Int PROVE Level(<<>>, a, a)
  BY NoneIs, LevelEven

LEMMA LevelTail ==
    ASSUME NEW s, IsSeq(s), s # <<>>, NEW a, NEW b, Level(s, a, b)
    PROVE  /\ Head(s).type = "indent" => Level(Tail(s), a + Head(s).by, b)
           /\ Head(s).type # "indent" => a = 4 * Head(s).depth /\ Level(Tail(s), a, b)
<1>1. PICK l \in [0 .. Len(s) -> Int] : l[0] = a /\ l[Len(s)] = b /\ Climbs(s, l)
  BY DEF Level
<1> DEFINE t == Tail(s)
           m == [k \in 0 .. Len(t) |-> l[k + 1]]
<1>2. /\ IsSeq(t) /\ Len(t) = Len(s) - 1 /\ Len(s) \in Nat \ {0} /\ Head(s) = s[1]
      /\ \A k \in DOMAIN t : t[k] = s[k + 1]
  BY TailIs
<1>3. DOMAIN t = 1 .. Len(t)
  BY <1>2, SeqIs
<1> HIDE DEF t
<1>4. m \in [0 .. Len(t) -> Int] /\ m[0] = l[1] /\ m[Len(t)] = b
  BY <1>1, <1>2
<1>5. \A k \in 1 .. Len(t) : m[k] = l[k + 1] /\ m[k - 1] = l[k]
  BY <1>2
<1> HIDE DEF m
<1>6. ASSUME NEW k \in 1 .. Len(t)
      PROVE  IF t[k].type = "indent" THEN m[k] = m[k - 1] + t[k].by
             ELSE m[k] = m[k - 1] /\ m[k] = 4 * t[k].depth
  <2> DEFINE j == k + 1
  <2>3. t[k] = s[k + 1] /\ m[k] = l[k + 1] /\ m[k - 1] = l[k]
    BY <1>2, <1>3, <1>5
  <2>4. k + 1 \in 1 .. Len(s) /\ (k + 1) - 1 = k
    <3>1. Len(t) = Len(s) - 1 /\ Len(s) \in Nat
      BY <1>2
    <3> QED
      BY <3>1
  <2>1. j \in 1 .. Len(s) /\ t[k] = s[j] /\ m[k] = l[j] /\ m[k - 1] = l[j - 1]
    BY <2>3, <2>4
  <2> HIDE DEF j
  <2>2. IF s[j].type = "indent" THEN l[j] = l[j - 1] + s[j].by
        ELSE l[j] = l[j - 1] /\ l[j] = 4 * s[j].depth
    BY <1>1, <2>1 DEF Climbs
  <2> QED
    BY <2>1, <2>2
<1>7. Level(t, l[1], b)
  BY <1>4, <1>6 DEF Level, Climbs
<1>8. IF s[1].type = "indent" THEN l[1] = a + s[1].by ELSE l[1] = a /\ a = 4 * s[1].depth
  <2>1. 1 \in 1 .. Len(s) /\ 1 - 1 = 0
    BY <1>2
  <2> DEFINE one == 1
  <2> HIDE DEF one
  <2>2. one \in 1 .. Len(s) /\ l[one - 1] = a
    BY <1>1, <2>1 DEF one
  <2>3. IF s[one].type = "indent" THEN l[one] = l[one - 1] + s[one].by
        ELSE l[one] = l[one - 1] /\ l[one] = 4 * s[one].depth
    BY <1>1, <2>2 DEF Climbs
  <2> QED
    BY <2>2, <2>3 DEF one
<1> QED
  BY <1>2, <1>7, <1>8 DEF t

LEMMA LevelConcat ==
    ASSUME NEW s, IsSeq(s), NEW t, IsSeq(t), NEW a, NEW b, NEW c, Level(s, a, b), Level(t, b, c)
    PROVE  Level(s \o t, a, c)
<1>1. PICK l \in [0 .. Len(s) -> Int] : l[0] = a /\ l[Len(s)] = b /\ Climbs(s, l)
  BY DEF Level
<1>2. PICK m \in [0 .. Len(t) -> Int] : m[0] = b /\ m[Len(t)] = c /\ Climbs(t, m)
  BY DEF Level
<1> DEFINE st == s \o t
           n == Len(s)
           h == [k \in 0 .. Len(st) |-> IF k <= n THEN l[k] ELSE m[k - n]]
<1>3. /\ IsSeq(st) /\ Len(st) = Len(s) + Len(t)
      /\ \A k \in 1 .. Len(s) : st[k] = s[k]
      /\ \A k \in 1 .. Len(t) : st[Len(s) + k] = t[k]
  BY ConcatIs
<1>4. n \in Nat /\ Len(t) \in Nat
  BY SeqIs
<1> HIDE DEF st
<1>5. h \in [0 .. Len(st) -> Int] /\ h[0] = a /\ h[Len(st)] = c
  BY <1>1, <1>2, <1>3, <1>4
<1>6. \A k \in 0 .. Len(st) : h[k] = IF k <= n THEN l[k] ELSE m[k - n]
  OBVIOUS
<1> HIDE DEF h
<1>7. ASSUME NEW k \in 1 .. Len(st)
      PROVE  IF st[k].type = "indent" THEN h[k] = h[k - 1] + st[k].by
             ELSE h[k] = h[k - 1] /\ h[k] = 4 * st[k].depth
  <2>1. CASE k <= n
    <3>1. k \in 1 .. Len(s) /\ st[k] = s[k] /\ h[k] = l[k] /\ h[k - 1] = l[k - 1]
      BY <1>3, <1>4, <1>6, <2>1
    <3>2. IF s[k].type = "indent" THEN l[k] = l[k - 1] + s[k].by
          ELSE l[k] = l[k - 1] /\ l[k] = 4 * s[k].depth
      BY <1>1, <3>1 DEF Climbs
    <3> QED
      BY <3>1, <3>2
  <2>2. CASE ~(k <= n)
    <3> DEFINE j == k - n
    <3>1. j \in 1 .. Len(t) /\ n + j = k
      BY <1>3, <1>4, <2>2
    <3>2. st[k] = t[j]
      BY <1>3, <3>1
    <3>3. h[k] = m[j]
      BY <1>3, <1>4, <1>6, <2>2
    <3>4. h[k - 1] = m[j - 1]
      <4>1. CASE k - 1 <= n
        <5>1. k - 1 = n /\ j - 1 = 0
          BY <1>4, <2>2, <4>1
        <5>2. n \in 0 .. Len(st) /\ n <= n
          BY <1>3, <1>4
        <5>3. h[n] = l[n]
          BY <1>6, <5>2
        <5> QED
          BY <1>1, <1>2, <5>1, <5>3
      <4>2. CASE ~(k - 1 <= n)
        <5>1. (k - 1) - n = j - 1 /\ k - 1 \in 0 .. Len(st)
          BY <1>3, <1>4
        <5> QED
          BY <1>6, <4>2, <5>1
      <4> QED
        BY <4>1, <4>2
    <3>5. IF t[j].type = "indent" THEN m[j] = m[j - 1] + t[j].by
          ELSE m[j] = m[j - 1] /\ m[j] = 4 * t[j].depth
      BY <1>2, <3>1 DEF Climbs
    <3> HIDE DEF j
    <3> QED
      BY <3>2, <3>3, <3>4, <3>5
  <2> QED
    BY <2>1, <2>2
<1> QED
  BY <1>5, <1>7 DEF Level, Climbs, st

LEMMA LevelFlatten ==
    ASSUME NEW ss, IsSeq(ss), NEW a \in Int,
           \A k \in DOMAIN ss : IsSeq(ss[k]) /\ Level(ss[k], a, a)
    PROVE  Level(FlattenSeq(ss), a, a)
<1>1. PICK g : Rounds(ss, g)
  BY FlattenIs
<1> DEFINE N == Len(ss)
           S == {k \in 0 .. N : Level(g[k], a, a)}
<1>2. N \in Nat /\ DOMAIN ss = 1 .. N
  BY SeqIs
<1>3. 0 \in S
  <2>1. g[0] = <<>>
    BY <1>1 DEF Rounds
  <2>2. Level(g[0], a, a)
    BY <2>1, LevelNone
  <2> QED
    BY <1>2, <2>2
<1>4. ASSUME NEW k \in 1 .. N, k - 1 \in S
      PROVE  k \in S
  <2>1. g[k] = g[k - 1] \o ss[k] /\ IsSeq(g[k - 1])
    BY <1>1 DEF Rounds
  <2>2. Level(g[k - 1], a, a) /\ IsSeq(ss[k]) /\ Level(ss[k], a, a)
    BY <1>2, <1>4
  <2>3. Level(g[k - 1] \o ss[k], a, a)
    BY <2>1, <2>2, LevelConcat
  <2>4. Level(g[k], a, a)
    BY <2>1, <2>3, Zenon
  <2> QED
    BY <1>2, <2>4
<1> HIDE DEF S
<1>5. \A k \in 0 .. N : k \in S
  BY <1>2, <1>3, <1>4, UpTo
<1>6. Level(g[N], a, a)
  BY <1>2, <1>5 DEF S
<1> QED
  BY <1>1, <1>6 DEF Rounds

LEMMA LevelShift ==
    ASSUME NEW n \in Int, NEW a \in Int
    PROVE  /\ IsSeq(<<Shift(n)>>) /\ Level(<<Shift(n)>>, a, a + n)
<1> DEFINE s == <<Shift(n)>>
           l == [k \in 0 .. 1 |-> IF k = 0 THEN a ELSE a + n]
<1>1. IsSeq(s) /\ Len(s) = 1 /\ s[1] = Shift(n)
  BY OneIs
<1>2. Shift(n).type = "indent" /\ Shift(n).by = n
  BY DEF Shift, Call
<1>3. l \in [0 .. 1 -> Int] /\ l[0] = a /\ l[1] = a + n
  OBVIOUS
<1> HIDE DEF s, l
<1>4. \A k \in 1 .. 1 : k = 1 /\ k - 1 = 0
  OBVIOUS
<1>5. Climbs(s, l)
  BY <1>1, <1>2, <1>3, <1>4 DEF Climbs
<1>6. Level(s, a, a + n)
  BY <1>1, <1>3, <1>5 DEF Level
<1> QED
  BY <1>1, <1>6 DEF s

LEMMA LevelNested ==
    ASSUME NEW calls, IsSeq(calls), NEW d \in Nat,
           \A k \in DOMAIN calls : calls[k].type # "indent" /\ calls[k].depth = d + 1
    PROVE  IsSeq(Nested(calls)) /\ Level(Nested(calls), 4 * d, 4 * d)
<1> DEFINE a == 4 * d
           b == 4 * (d + 1)
           up == <<Shift(4)>>
           down == <<Shift(-4)>>
<1>1. a \in Int /\ b \in Int /\ b = a + 4 /\ a = b + (-4) /\ -4 \in Int
  OBVIOUS
<1>2. Level(calls, b, b)
  <2>1. \A k \in DOMAIN calls :
           IF calls[k].type = "indent" THEN calls[k].by = 0 ELSE 4 * calls[k].depth = b
    OBVIOUS
  <2> HIDE DEF b
  <2> QED
    BY <1>1, <2>1, LevelEven
<1> HIDE DEF a, b
<1>3. IsSeq(up) /\ Level(up, a, b)
  BY <1>1, LevelShift
<1>4. IsSeq(down) /\ Level(down, b, a)
  BY <1>1, LevelShift
<1> HIDE DEF up, down
<1>5. IsSeq(up \o calls) /\ Level(up \o calls, a, b)
  BY <1>2, <1>3, ConcatIs, LevelConcat
<1>6. IsSeq((up \o calls) \o down) /\ Level((up \o calls) \o down, a, a)
  BY <1>4, <1>5, ConcatIs, LevelConcat
<1>7. Nested(calls) = (up \o calls) \o down
  BY DEF Nested, up, down
<1> QED
  BY <1>6, <1>7 DEF a

------------------------------------------------------------------------------
(* No id is listed twice.                                                  *)
LEMMA IdsDiffer ==
    ASSUME WellFormed(f), NEW t, NEW j \in DOMAIN Ids(t), NEW k \in DOMAIN Ids(t),
           Ids(t)[j] = Ids(t)[k]
    PROVE  j = k
<1>1. CASE t \notin f.types
  BY <1>1 DEF Ids
<1>2. CASE t \in f.types /\ t \notin Segmented
  <2>1. t \in Ordinary
    BY <1>2, OfDirectory DEF Directory
  <2>2. Ids(t) = [n \in DOMAIN f.chunks[t] |-> f.chunks[t][n].id]
    BY <1>2 DEF Ids
  <2>3. \A m, n \in DOMAIN f.chunks[t] : f.chunks[t][m].id = f.chunks[t][n].id => m = n
    BY <2>1, OfDirectory
  <2> QED
    BY <2>2, <2>3
<1>3. CASE t \in f.types /\ t \in Segmented
  <2> DEFINE runs == f.runs[t]
  <2>1. runs \in Seq(IdRuns) /\ Ascending(runs)
    BY <1>3, OfDirectory
  <2>2. Ids(t) = Copied(runs)[Len(runs)]
    BY <1>3 DEF Ids
  <2>3. Len(runs) \in 0 .. Len(runs)
    BY <2>1
  <2>4. CopiedSoFar(runs, Len(runs), Ids(t))
    BY <2>1, <2>2, <2>3, CopiedIs
  <2> DEFINE i == Ids(t)[j]
             row == RowsBefore(runs, RunOf(runs, i)) + (i - runs[RunOf(runs, i)].first) + 1
  <2>5. ASSUME NEW n \in DOMAIN Ids(t), Ids(t)[n] = i
        PROVE  row = n
    <3>1. PlaceOf(runs, n, i)
      BY <2>4, <2>5 DEF CopiedSoFar
    <3>2. PICK r \in 1 .. Len(runs), d \in Nat :
             d < runs[r].num /\ i = runs[r].first + d /\ n = Total(runs)[r - 1] + d + 1
      BY <3>1 DEF PlaceOf
    <3> HIDE DEF i, runs
    <3>3. RowsBefore(runs, RunOf(runs, i)) + (i - runs[RunOf(runs, i)].first) + 1
             = Total(runs)[r - 1] + d + 1
      BY <2>1, <3>2, RowFound
    <3> QED
      BY <3>2, <3>3
  <2> HIDE DEF row
  <2>6. row = j
    BY <2>5
  <2>7. row = k
    BY <2>5
  <2> QED
    BY <2>6, <2>7
<1> QED
  BY <1>1, <1>2, <1>3

(* The file of a job.                                                      *)
Working == job \in Jobs /\ f = job.dir

LEMMA FileIs ==
    ASSUME Working
    PROVE  /\ WellFormed(f) /\ 0 \notin job.cut
           /\ Len(job.order) \in Nat /\ DOMAIN job.order = 1 .. Len(job.order)
           /\ \A k \in DOMAIN job.order : job.order[k] \in f.types
           /\ \A t \in f.types : \E k \in DOMAIN job.order : job.order[k] = t
           /\ \A j, k \in DOMAIN job.order : job.order[j] = job.order[k] => j = k
           /\ \A t \in Ordinary : \A k \in DOMAIN f.chunks[t] :
                 f.chunks[t][k].location \in Place(job)
           /\ \A n \in DOMAIN f.gffi : \A k \in DOMAIN f.gffi[n] :
                 f.gffi[n][k].location \in Place(job)
  BY JobsAssumption DEF Working, Sequence, ToSet, IsInjective

(* What a listed id is found at.                                           *)
LEMMA IdIsPlaced ==
    ASSUME Working, NEW t, NEW k \in DOMAIN Ids(t)
    PROVE  /\ t \in f.types /\ Ids(t)[k] \in Nat
           /\ Find(t, Ids(t)[k]) \in Headers
           /\ Find(t, Ids(t)[k]).location \in Place(job)
<1>0. WellFormed(f)
  BY FileIs
<1>1. t \in f.types
  BY DEF Ids
<1>2. /\ Ids(t) \in Seq(Nat) /\ \A n \in DOMAIN Ids(t) : Find(t, Ids(t)[n]) \in Headers
  BY <1>0, AllIds
<1>3. CASE t \in Segmented
  <2> DEFINE n == f.table[t]
  <2>1. n \in DOMAIN f.gffi
    BY <1>0, <1>3 DEF WellFormed
  <2>2. /\ Len(Ids(t)) = Total(f.runs[t])[Len(f.runs[t])]
        /\ Find(t, Ids(t)[k]) = [id |-> Ids(t)[k], location |-> f.gffi[n][k].location,
                                 length |-> f.gffi[n][k].length]
    BY <1>0, <1>1, <1>3, SegmentedIds DEF Length
  <2>3. f.gffi[n] \in Seq(TableRows) /\ Total(f.runs[t])[Len(f.runs[t])] = Len(f.gffi[n])
    BY <1>0, <1>3, OfDirectory
  <2>4. k \in DOMAIN f.gffi[n]
    BY <1>2, <2>2, <2>3
  <2>5. f.gffi[n][k].location \in Place(job)
    BY <2>1, <2>4, FileIs
  <2> QED
    BY <1>1, <1>2, <2>2, <2>5
<1>4. CASE t \notin Segmented
  <2> DEFINE s == f.chunks[t]
             i == Ids(t)[k]
  <2>1. t \in Ordinary
    BY <1>0, <1>1, <1>4, OfDirectory DEF Directory
  <2>2. s \in Seq(Headers)
    BY <1>0, <2>1, OfDirectory
  <2>3. Find(t, i) = First(s, i) /\ Ids(t) = [n \in DOMAIN s |-> s[n].id]
    BY <1>1, <1>4 DEF Find, FindInChunks, First, Ids
  <2> DEFINE at == {n \in DOMAIN s : s[n].id = i}
  <2>4. k \in at /\ at \subseteq Nat
    BY <2>2, <2>3
  <2>5. Min(at) \in at
    <3> HIDE DEF at
    <3> QED
      BY <2>4, MinIs
  <2>6. Find(t, i) = s[Min(at)]
    BY <2>3, <2>4 DEF First
  <2>7. \A n \in DOMAIN s : s[n].location \in Place(job)
    BY <2>1, FileIs
  <2>8. s[Min(at)].location \in Place(job)
    BY <2>5, <2>7
  <2> QED
    BY <1>1, <1>2, <2>6, <2>8
<1> QED
  BY <1>3, <1>4

LEMMA ListedIs ==
    ASSUME Working, NEW types, NEW c \in Listed(types)
    PROVE  /\ c.type \in f.types \cap types /\ c.depth = 0 /\ c.file = "input" /\ c.by = 0
           /\ c = Call(c.type, c.id, "input", 0)
           /\ \E k \in DOMAIN Ids(c.type) : c.id = Ids(c.type)[k]
           /\ c.id \in Nat /\ Header(c) \in Headers /\ Header(c) # NotFound
           /\ Header(c).location \in Place(job)
           /\ At(Header(c)) = Header(c).location
<1>1. PICK t \in f.types \cap types : c \in {Call(t, Ids(t)[k], "input", 0) : k \in DOMAIN Ids(t)}
  BY DEF Listed
<1>2. PICK k \in DOMAIN Ids(t) : c = Call(t, Ids(t)[k], "input", 0)
  BY <1>1
<1>3. c.type = t /\ c.id = Ids(t)[k] /\ c.depth = 0 /\ c.file = "input" /\ c.by = 0
  BY <1>2 DEF Call
<1>4. /\ c.id \in Nat /\ Header(c) \in Headers /\ Header(c).location \in Place(job)
  BY <1>3, IdIsPlaced DEF Header
<1>5. Header(c) # NotFound
  BY <1>4, MarksAssumption
<1> QED
  BY <1>2, <1>3, <1>4, <1>5 DEF At

LEMMA ListedBy ==
    ASSUME NEW types, NEW t \in f.types \cap types, NEW k \in DOMAIN Ids(t)
    PROVE  Call(t, Ids(t)[k], "input", 0) \in Listed(types)
  BY DEF Listed

LEMMA ListedAmong ==
    ASSUME Working, NEW types, NEW c \in Listed(types), NEW more, c.type \in more
    PROVE  c \in Listed(more)
<1>1. c.type \in f.types /\ c = Call(c.type, c.id, "input", 0)
  BY ListedIs
<1>2. PICK k \in DOMAIN Ids(c.type) : c.id = Ids(c.type)[k]
  BY ListedIs
<1>3. Call(c.type, Ids(c.type)[k], "input", 0) \in Listed(more)
  BY <1>1, ListedBy
<1> QED
  BY <1>1, <1>2, <1>3

------------------------------------------------------------------------------
(* What the printing of one chunk comes to: a line of the chunk and what   *)
(* is printed inside it, nothing, when that may be, or one of the bad ends.*)
Inner == {"ACCL", "APFM", "BUTN", "EBOX", "OJFF", "BMP", "SCMD"}
Known(c) == c.type = "ACCL" => c.file = "input" /\ c.id \in ControlIds
Printable(c) ==
    \/ c.type \in Inner /\ c.depth \in Nat /\ Known(c)
    \/ c \in Listed(Printers)

InnerCall(c) ==
    \/ c.type = "indent" /\ c.by \in Int
    \/ c.type \in Inner /\ c.depth \in Nat \ {0} /\ Known(c)
InnerCalls(c, calls) ==
    /\ IsSeq(calls) /\ \A k \in DOMAIN calls : InnerCall(calls[k])
    /\ Level(calls, 4 * c.depth, 4 * c.depth)
    /\ c.type = "RDFF" => calls = <<>>

Line(c, is, at) ==
    /\ c.type \in ShownById => at = At(FindIn(c.file, c.type, c.id))
    /\ is = "chunk" => at \notin job.cut
Shows(c) ==
    \E is, at, parts, nested :
       Show(c, is, at, parts, nested) /\ Line(c, is, at) /\ InnerCalls(c, nested)
MustShow(c) ==
    c \in Listed(Printers) /\ (c.type \in AlwaysShown \/ Readable(c.type, c.id))
EndOf(c, why) ==
    \/ why = "freed twice" /\ c \in Listed({"MONR", "WIND"}) /\ Cut(Header(c))
    \/ why = "behind" /\ c \in Listed({"GFFI"}) /\ c.id >= Len(job.order)
    \/ why = "behind" /\ c \in Listed({"MONR", "WIND"}) /\ Header(c).length < StructSize
    \/ why = "behind" /\ c.type \in {"FONT", "CHAR", "ACCL"} /\ Overstated
    \/ why = "endless" /\ c \in Listed({"CHAR"}) /\ GoesBack(Header(c))
    \/ why = "unset number" /\ c.type = "NAME" /\ ~NamesRead
Outcome(c) ==
    \/ Shows(c)
    \/ ShowsNothing /\ ~MustShow(c)
    \/ \E why : Ends(why) /\ EndOf(c, why)

LEMMA PrintableDepth ==
    ASSUME Working, NEW c, Printable(c)
    PROVE  c.depth \in Nat /\ c.type \in Printers /\ c.type # "indent"
  BY ListedIs DEF Printable, Inner, Printers

LEMMA LineOnly ==
    ASSUME NEW c, c.depth \in Nat, NEW is, NEW at, NEW parts,
           Show(c, is, at, parts, <<>>), Line(c, is, at)
    PROVE  Outcome(c)
<1>1. Level(<<>>, 4 * c.depth, 4 * c.depth)
  BY LevelNone
<1>2. InnerCalls(c, <<>>)
  BY <1>1, NoneIs DEF InnerCalls
<1>3. Shows(c)
  BY <1>2 DEF Shows
<1> QED
  BY <1>3 DEF Outcome

LEMMA NotCut ==
    ASSUME NEW h, h # NotFound, ~Cut(h)
    PROVE  At(h) \notin job.cut
  BY DEF At, Cut

LEMMA FoundOfListed ==
    ASSUME Working, NEW types, NEW c \in Listed(types)
    PROVE  FindIn(c.file, c.type, c.id) = Header(c)
<1>1. c.file = "input"
  BY ListedIs
<1> QED
  BY <1>1 DEF FindIn, Header

(* What a chunk that must be shown is like.                                *)
LEMMA MustShowIs ==
    ASSUME Working, NEW c, MustShow(c), c.type \notin AlwaysShown
    PROVE  LET h == FindIn(c.file, c.type, c.id)
           IN  /\ h # NotFound /\ h.length = StructSize /\ ~Cut(h) /\ h.length > 0
               /\ Loads(h) /\ Reads(h, StructSize)
<1>1. FindIn(c.file, c.type, c.id) = Find(c.type, c.id) /\ Find(c.type, c.id) # NotFound
  BY FoundOfListed, ListedIs DEF MustShow, Header
<1>2. Find(c.type, c.id).length = StructSize /\ ~Cut(Find(c.type, c.id))
  BY DEF MustShow, Readable
<1>3. StructSize > 0 /\ StructSize \in Nat
  BY SizesAssumption
<1> QED
  BY <1>1, <1>2, <1>3 DEF Loads, Reads

LEMMA AnywayOutcome ==
    ASSUME Working, NEW c, Printable(c), NEW t, c.type \in {t, "RDAT"}, NEW least, NEW room,
           shows_anyway(c, t, least, room)
    PROVE  Outcome(c)
<1> DEFINE h == FindIn(c.file, t, c.id)
           is == IF Reads(h, room) /\ h.length >= least THEN "chunk" ELSE "unset"
<1>1. Show(c, is, At(h), <<>>, <<>>)
  BY DEF shows_anyway
<1>2. Line(c, is, At(h))
  <2>1. is = "chunk" => At(h) \notin job.cut
    BY NotCut DEF Reads, Loads
  <2>2. c.type \in ShownById => c.type = t
    BY DEF ShownById
  <2> QED
    BY <2>1, <2>2 DEF Line
<1> HIDE DEF is, h
<1> QED
  BY <1>1, <1>2, PrintableDepth, LineOnly

LEMMA PowersOutcome ==
    ASSUME Working, NEW c, Printable(c), print_powers(c, c.type)
    PROVE  Outcome(c)
<1> DEFINE h == FindIn(c.file, c.type, c.id)
           powers == Content(h).items
           named == IF job.resource = None THEN powers ELSE Latest(powers, job.resource)
<1>1. CASE Reads(h, StructSize)
  <2>1. Show(c, "chunk", At(h), named, <<>>)
    BY <1>1 DEF print_powers
  <2>2. Line(c, "chunk", At(h))
    BY <1>1, NotCut DEF Line, Reads, Loads
  <2> HIDE DEF h, named
  <2> QED
    BY <2>1, <2>2, PrintableDepth, LineOnly
<1>2. CASE ~Reads(h, StructSize)
  <2>1. Show(c, "unset", At(h), <<>>, <<>>)
    BY <1>2 DEF print_powers
  <2>2. Line(c, "unset", At(h))
    BY DEF Line
  <2> HIDE DEF h
  <2> QED
    BY <2>1, <2>2, PrintableDepth, LineOnly
<1> QED
  BY <1>1, <1>2

LEMMA NameOutcome ==
    ASSUME Working, NEW c, Printable(c), c.type = "NAME", print_name(c)
    PROVE  Outcome(c)
<1> DEFINE h == Find("NAME", 1)
           names == Numbers(h.length \div NameSize)
<1>0. "NAME" \notin ShownById
  BY DEF ShownById
<1>1. CASE NamesRead
  <2>1. Show(c, "chunk", At(h), names, <<>>)
    BY <1>1 DEF print_name
  <2>2. h # NotFound /\ ~Cut(h)
    BY <1>1 DEF NamesRead
  <2> HIDE DEF h, names
  <2>3. Line(c, "chunk", At(h))
    BY <1>0, <2>2, NotCut DEF Line
  <2> QED
    BY <2>1, <2>3, PrintableDepth, LineOnly
<1>2. CASE ~NamesRead /\ Show(c, "unset", 0, <<>>, <<>>)
  <2>1. Line(c, "unset", 0)
    BY <1>0 DEF Line
  <2> QED
    BY <1>2, <2>1, PrintableDepth, LineOnly
<1>3. CASE ~NamesRead /\ Ends("unset number")
  BY <1>3 DEF Outcome, EndOf
<1> QED
  BY <1>1, <1>2, <1>3 DEF print_name

LEMMA RowsOutcome ==
    ASSUME Working, NEW c, Printable(c), c.type = "IT1R", print_it1r(c)
    PROVE  Outcome(c)
<1> DEFINE h == Find("IT1R", 1)
           names == Find("NAME", 1)
           good == Loads(h) /\ h.length % RowSize = 0 /\ (names # NotFound => ~Cut(names))
           rows == Numbers(h.length \div RowSize)
           is == IF NamesRead THEN "chunk" ELSE "unset"
<1>1. CASE good
  <2>1. Show(c, is, At(h), rows, <<>>)
    BY <1>1 DEF print_it1r
  <2>2. h # NotFound /\ ~Cut(h)
    BY <1>1 DEF Loads
  <2> HIDE DEF h, rows, is
  <2>3. Line(c, is, At(h))
    BY <2>2, NotCut DEF Line, ShownById
  <2> QED
    BY <2>1, <2>3, PrintableDepth, LineOnly
<1>2. CASE ~good
  <2>1. ShowsNothing
    BY <1>2 DEF print_it1r
  <2>2. ~MustShow(c)
    <3> SUFFICES ASSUME MustShow(c)
                 PROVE  good
      BY <1>2
    <3>1. c.type \notin AlwaysShown
      BY DEF AlwaysShown
    <3>2. Readable(c.type, c.id)
      BY <3>1 DEF MustShow
    <3>3. c.id = 1 /\ StructSize % RowSize = 0 /\ At(names) \notin job.cut
      BY <3>2 DEF Readable
    <3>4. FindIn(c.file, c.type, c.id) = h
      <4>1. FindIn(c.file, c.type, c.id) = Header(c)
        BY FoundOfListed DEF MustShow
      <4> QED
        BY <3>3, <4>1 DEF Header
    <3>5. Loads(h) /\ h.length = StructSize
      BY <3>1, <3>4, MustShowIs
    <3>6. names # NotFound => ~Cut(names)
      BY <3>3 DEF At, Cut
    <3> QED
      BY <3>3, <3>5, <3>6
  <2> QED
    BY <2>1, <2>2 DEF Outcome
<1> QED
  BY <1>1, <1>2

LEMMA ReadOutcome ==
    ASSUME Working, NEW c, Printable(c), c.type \notin AlwaysShown,
           NEW least, least \in {1, StructSize}, shows_read(c, c.type, least, StructSize)
    PROVE  Outcome(c)
<1> DEFINE h == FindIn(c.file, c.type, c.id)
<1>1. CASE Reads(h, StructSize) /\ h.length >= least
  <2>1. Show(c, "chunk", At(h), <<>>, <<>>)
    BY <1>1 DEF shows_read
  <2>2. Line(c, "chunk", At(h))
    BY <1>1, NotCut DEF Line, Reads, Loads
  <2> HIDE DEF h
  <2> QED
    BY <2>1, <2>2, PrintableDepth, LineOnly
<1>2. CASE ~(Reads(h, StructSize) /\ h.length >= least)
  <2>1. ShowsNothing
    BY <1>2 DEF shows_read
  <2>2. MustShow(c) => Reads(h, StructSize) /\ h.length >= least
    <3>1. MustShow(c) => Reads(h, StructSize) /\ h.length = StructSize
      BY MustShowIs
    <3> QED
      BY <3>1, SizesAssumption
  <2> QED
    BY <1>2, <2>1, <2>2 DEF Outcome
<1> QED
  BY <1>1, <1>2

(* A block, as the listing prints it and as it is printed by its number.   *)
LEMMA BlockOutcome ==
    ASSUME Working, NEW c, c.type = "RDFF", c.depth \in Nat,
           NEW h, h = FindIn(c.file, "RDFF", c.id), NEW is, NEW printed \in BOOLEAN,
           Readable(c.type, c.id) /\ h = Find(c.type, c.id) => printed,
           IF Reads(h, StructSize) /\ printed THEN Show(c, is, At(h), <<>>, <<>>)
                                             ELSE ShowsNothing
    PROVE  Outcome(c)
<1>0. c.type \notin AlwaysShown
  BY DEF AlwaysShown
<1>1. CASE Reads(h, StructSize) /\ printed
  <2>1. Show(c, is, At(h), <<>>, <<>>)
    BY <1>1
  <2>2. Line(c, is, At(h))
    BY <1>1, NotCut DEF Line, Reads, Loads
  <2> QED
    BY <2>1, <2>2, LineOnly
<1>2. CASE ~(Reads(h, StructSize) /\ printed)
  <2>1. ShowsNothing
    BY <1>2
  <2>2. MustShow(c) => Reads(h, StructSize) /\ printed
    <3> SUFFICES ASSUME MustShow(c)
                 PROVE  Reads(h, StructSize) /\ printed
      OBVIOUS
    <3>1. Reads(h, StructSize)
      BY <1>0, MustShowIs
    <3>2. c \in Listed(Printers) /\ Readable(c.type, c.id)
      BY <1>0 DEF MustShow
    <3>3. h = Find(c.type, c.id)
      BY <3>2, FoundOfListed DEF Header
    <3> QED
      BY <3>1, <3>2, <3>3
  <2> QED
    BY <1>2, <2>1, <2>2 DEF Outcome
<1> QED
  BY <1>1, <1>2

LEMMA RdffOutcome ==
    ASSUME Working, NEW c, c.type = "RDFF", c.depth \in Nat,
           print_rdff(c) \/ gffmod_print_rdff(c)
    PROVE  Outcome(c)
<1> DEFINE h == FindIn(c.file, "RDFF", c.id)
<1>1. CASE print_rdff(c)
  <2> DEFINE is == IF Action(h) = RDFF_OBJECT /\ h.length < RdffType THEN "unset" ELSE "chunk"
             printed == Action(h) \in RdffActions
  <2>1. IF Reads(h, StructSize) /\ printed THEN Show(c, is, At(h), <<>>, <<>>) ELSE ShowsNothing
    BY <1>1 DEF print_rdff
  <2>2. Readable(c.type, c.id) /\ h = Find(c.type, c.id) => printed
    BY DEF Readable
  <2>3. printed \in BOOLEAN
    OBVIOUS
  <2> HIDE DEF is, printed
  <2> QED
    BY <2>1, <2>2, <2>3, BlockOutcome
<1>2. CASE gffmod_print_rdff(c)
  <2> DEFINE is == IF h.length < Content(h).items[2] THEN "unset" ELSE "chunk"
  <2>1. IF Reads(h, StructSize) /\ TRUE THEN Show(c, is, At(h), <<>>, <<>>) ELSE ShowsNothing
    BY <1>2 DEF gffmod_print_rdff
  <2> HIDE DEF is
  <2> QED
    BY <2>1, BlockOutcome
<1> QED
  BY <1>1, <1>2

LEMMA FlagsOutcome ==
    ASSUME Working, NEW c, Printable(c), c.type \in {"GMAP", "RMAP"}, print_flags(c, c.type)
    PROVE  Outcome(c)
<1> DEFINE h == FindIn(c.file, c.type, c.id)
           good == h.length \in 1 .. FlagsRoom /\ (Cut(h) => h.length > 1)
           is == IF Cut(h) THEN "part" ELSE "chunk"
<1>0. c \in Listed(Printers) /\ h # NotFound
  <2>1. c \in Listed(Printers)
    BY DEF Printable, Inner
  <2> QED
    BY <2>1, FoundOfListed, ListedIs
<1>1. CASE good
  <2>1. Show(c, is, At(h), <<>>, <<>>)
    BY <1>1 DEF print_flags
  <2>2. Line(c, is, At(h))
    BY <1>0, NotCut DEF Line
  <2> HIDE DEF h, is
  <2> QED
    BY <2>1, <2>2, PrintableDepth, LineOnly
<1>2. CASE ~good
  <2>1. ShowsNothing
    BY <1>2 DEF print_flags
  <2>2. MustShow(c) => good
    <3>1. MustShow(c) => ~Cut(h) /\ h.length = StructSize
      BY MustShowIs DEF AlwaysShown
    <3> QED
      BY <3>1, SizesAssumption
  <2> QED
    BY <1>2, <2>1, <2>2 DEF Outcome
<1> QED
  BY <1>1, <1>2

LEMMA LoadedOutcome ==
    ASSUME Working, NEW c, Printable(c), c.type \notin AlwaysShown, shows_loaded(c, c.type)
    PROVE  Outcome(c)
<1> DEFINE h == FindIn(c.file, c.type, c.id)
           parts == Numbers(Len(Content(h).items))
<1>1. CASE Loads(h)
  <2>1. Show(c, "chunk", At(h), parts, <<>>)
    BY <1>1 DEF shows_loaded
  <2>2. Line(c, "chunk", At(h))
    BY <1>1, NotCut DEF Line, Loads
  <2> HIDE DEF h, parts
  <2> QED
    BY <2>1, <2>2, PrintableDepth, LineOnly
<1>2. CASE ~Loads(h)
  <2>1. ShowsNothing
    BY <1>2 DEF shows_loaded
  <2>2. ~MustShow(c)
    BY <1>2, MustShowIs
  <2> QED
    BY <2>1, <2>2 DEF Outcome
<1> QED
  BY <1>1, <1>2

LEMMA HeaderOutcome ==
    ASSUME Working, NEW c, Printable(c), print_header(c, c.type)
    PROVE  Outcome(c)
<1> DEFINE at == At(FindIn(c.file, c.type, c.id))
<1>1. Show(c, "header", at, <<>>, <<>>)
  BY DEF print_header
<1>2. Line(c, "header", at)
  BY DEF Line
<1> HIDE DEF at
<1> QED
  BY <1>1, <1>2, PrintableDepth, LineOnly

LEMMA MustFind ==
    ASSUME Working, NEW c, MustShow(c)
    PROVE  FindIn(c.file, c.type, c.id) # NotFound
<1>1. c \in Listed(Printers)
  BY DEF MustShow
<1> QED
  BY <1>1, FoundOfListed, ListedIs

LEMMA OnlyListed ==
    ASSUME Working, NEW c, Printable(c), c.type \notin Inner
    PROVE  /\ c \in Listed(Printers) /\ c \in Listed({c.type})
           /\ FindIn(c.file, c.type, c.id) = Header(c) /\ Header(c) # NotFound
           /\ c.depth = 0 /\ Header(c) \in Headers /\ Header(c).location \in Place(job)
<1>1. c \in Listed(Printers)
  BY DEF Printable
<1> QED
  BY <1>1, ListedIs, ListedAmong, FoundOfListed

(* A block that does not hold what it says of itself is shown as what lies *)
(* behind it, or ends the process.                                         *)
LEMMA UncheckedOutcome ==
    ASSUME Working, NEW c, Printable(c), c.type \in {"FONT", "ACCL", "CHAR"},
           NEW h, h = FindIn(c.file, c.type, c.id), h # NotFound, ~Cut(h),
           ~Fits(c.type, h) => Overstated, shows_unchecked(c, c.type)
    PROVE  Outcome(c)
<1> DEFINE parts == Numbers(Len(Content(h).items))
<1>1. \/ Show(c, "chunk", At(h), parts, <<>>)
      \/ Show(c, "unset", At(h), <<>>, <<>>)
      \/ Ends("behind") /\ Overstated
  BY DEF shows_unchecked
<1>2. Line(c, "chunk", At(h)) /\ Line(c, "unset", At(h))
  BY NotCut DEF Line
<1> HIDE DEF parts
<1>3. CASE Show(c, "chunk", At(h), parts, <<>>)
  BY <1>2, <1>3, PrintableDepth, LineOnly
<1>4. CASE Show(c, "unset", At(h), <<>>, <<>>)
  BY <1>2, <1>4, PrintableDepth, LineOnly
<1>5. CASE Ends("behind") /\ Overstated
  BY <1>5 DEF Outcome, EndOf
<1> QED
  BY <1>1, <1>3, <1>4, <1>5

LEMMA FontOutcome ==
    ASSUME Working, NEW c, Printable(c), c.type \in {"FONT", "CHAR"},
           (print_font(c) /\ c.type = "FONT") \/ (print_char(c) /\ c.type = "CHAR")
    PROVE  Outcome(c)
<1> DEFINE h == FindIn(c.file, c.type, c.id)
<1>0. c \in Listed({c.type}) /\ h = Header(c) /\ c.type \notin AlwaysShown
  BY OnlyListed DEF Inner, AlwaysShown
<1>1. CASE ~Loads(h)
  <2>1. ShowsNothing
    BY <1>1 DEF print_font, print_char
  <2>2. ~MustShow(c)
    BY <1>0, <1>1, MustShowIs
  <2> QED
    BY <2>1, <2>2 DEF Outcome
<1>2. CASE Loads(h)
  <2>0. h # NotFound /\ ~Cut(h)
    BY <1>2 DEF Loads
  <2>1. \/ shows_unchecked(c, c.type)
        \/ Ends("endless") /\ c.type = "CHAR" /\ GoesBack(h)
    BY <1>2 DEF print_font, print_char
  <2>2. ~Fits(c.type, h) => Overstated
    <3>1. c \in WholeOf({"FONT", "CHAR"})
      BY <1>0, <2>0, ListedAmong DEF WholeOf
    <3> QED
      BY <1>0, <3>1 DEF Overstated
  <2>3. CASE shows_unchecked(c, c.type)
    <3> HIDE DEF h
    <3> QED
      BY <2>0, <2>2, <2>3, UncheckedOutcome DEF h
  <2>4. CASE Ends("endless") /\ c.type = "CHAR" /\ GoesBack(h)
    BY <1>0, <2>4 DEF Outcome, EndOf
  <2> QED
    BY <2>1, <2>3, <2>4
<1> QED
  BY <1>1, <1>2

LEMMA ControlOutcome ==
    ASSUME Working, NEW c, Printable(c), c.type = "ACCL", print_accl(c)
    PROVE  Outcome(c)
<1> DEFINE h == FindIn(c.file, "ACCL", c.id)
<1>1. CASE h = NotFound
  <2>1. ShowsNothing
    BY <1>1 DEF print_accl
  <2>2. ~MustShow(c)
    BY <1>1, MustFind
  <2> QED
    BY <2>1, <2>2 DEF Outcome
<1>2. CASE h # NotFound /\ Cut(h)
  <2>1. Show(c, "header", At(h), <<>>, <<>>)
    BY <1>2 DEF print_accl
  <2>2. Line(c, "header", At(h))
    BY DEF Line
  <2> HIDE DEF h
  <2> QED
    BY <2>1, <2>2, PrintableDepth, LineOnly
<1>3. CASE h # NotFound /\ ~Cut(h)
  <2>1. shows_unchecked(c, "ACCL")
    BY <1>3 DEF print_accl
  <2>2. c.file = "input" /\ c.id \in ControlIds
    <3>1. CASE c \in Listed(Printers)
      <4>1. c \in Listed({"ACCL"}) /\ c.file = "input"
        BY <3>1, ListedAmong, ListedIs
      <4> QED
        BY <4>1 DEF ControlIds
    <3> QED
      BY <3>1 DEF Printable, Known
  <2>3. h = Find("ACCL", c.id)
    BY <2>2 DEF FindIn
  <2>4. ~Fits("ACCL", h) => Overstated
    BY <1>3, <2>2, <2>3 DEF Overstated
  <2> HIDE DEF h
  <2> QED
    BY <1>3, <2>1, <2>4, UncheckedOutcome DEF h
<1> QED
  BY <1>1, <1>2, <1>3

LEMMA ScriptOutcome ==
    ASSUME Working, NEW c, Printable(c), c.type = "SCMD", print_scmd(c)
    PROVE  Outcome(c)
<1> DEFINE h == FindIn(c.file, "SCMD", c.id)
           marks == {k \in DOMAIN Content(h).items : Content(h).items[k] = 1}
           parts == Numbers(IF marks = {} THEN Len(Content(h).items) ELSE Min(marks))
           good == c.id \in 1 .. ScmdMax - 1 /\ h # NotFound /\ h.length <= ScmdMax /\ ~Cut(h)
<1>1. CASE good
  <2>1. Show(c, "chunk", At(h), parts, <<>>)
    BY <1>1 DEF print_scmd
  <2>2. Line(c, "chunk", At(h))
    BY <1>1, NotCut DEF Line
  <2> HIDE DEF h, parts
  <2> QED
    BY <2>1, <2>2, PrintableDepth, LineOnly
<1>2. CASE ~good
  <2>1. ShowsNothing
    BY <1>2 DEF print_scmd
  <2>2. MustShow(c) => good
    <3>1. MustShow(c) => /\ ~Cut(h) /\ h.length = StructSize /\ h # NotFound
      BY MustShowIs DEF AlwaysShown
    <3>2. MustShow(c) => c.id \in 1 .. ScmdMax - 1
      BY DEF MustShow, Readable, AlwaysShown
    <3> QED
      BY <3>1, <3>2, SizesAssumption
  <2> QED
    BY <1>2, <2>1, <2>2 DEF Outcome
<1> QED
  BY <1>1, <1>2

LEMMA FramesOutcome ==
    ASSUME Working, NEW c, Printable(c), print_frames(c, c.type)
    PROVE  Outcome(c)
<1> DEFINE h == FindIn(c.file, c.type, c.id)
           frames == Content(h).frames
           sized == {k \in DOMAIN frames : frames[k].sized}
           good == h # NotFound /\ h.length >= HeadSize /\ (Cut(h) => h.length > HeadSize)
           is == IF Cut(h) \/ h.length > ImageRoom THEN "part" ELSE "chunk"
           sizes == Latest(Numbers(Len(frames)), sized)
<1>1. CASE good
  <2>1. Show(c, is, At(h), sizes, <<>>)
    BY <1>1 DEF print_frames
  <2>2. Line(c, is, At(h))
    BY <1>1, NotCut DEF Line
  <2> HIDE DEF h, is, sizes
  <2> QED
    BY <2>1, <2>2, PrintableDepth, LineOnly
<1>2. CASE ~good
  <2>1. Show(c, "none", At(h), <<>>, <<>>)
    BY <1>2 DEF print_frames
  <2>2. Line(c, "none", At(h))
    BY DEF Line
  <2> HIDE DEF h
  <2> QED
    BY <2>1, <2>2, PrintableDepth, LineOnly
<1> QED
  BY <1>1, <1>2

LEMMA MonstersOutcome ==
    ASSUME Working, NEW c, Printable(c), c.type = "MONR", print_monr(c)
    PROVE  Outcome(c)
<1> DEFINE h == FindIn(c.file, "MONR", c.id)
           parts == Numbers(IF h.length = 0 THEN 0 ELSE RegionsOf(h.length))
<1>0. c \in Listed({"MONR", "WIND"}) /\ h = Header(c) /\ h # NotFound
  <2>1. c \in Listed({c.type}) /\ h = Header(c) /\ h # NotFound
    BY OnlyListed DEF Inner
  <2> QED
    BY <2>1, ListedAmong
<1>1. CASE Cut(h)
  <2>1. Ends("freed twice")
    BY <1>1 DEF print_monr
  <2> QED
    BY <1>0, <1>1, <2>1 DEF Outcome, EndOf
<1>2. CASE ~Cut(h) /\ h.length = 1
  <2>1. Ends("behind")
    BY <1>2 DEF print_monr
  <2>2. Header(c).length < StructSize
    BY <1>0, <1>2, SizesAssumption
  <2> QED
    BY <1>0, <2>1, <2>2 DEF Outcome, EndOf
<1>3. CASE ~Cut(h) /\ h.length # 1
  <2>1. Show(c, "chunk", At(h), parts, <<>>)
    BY <1>3 DEF print_monr
  <2>2. Line(c, "chunk", At(h))
    BY <1>0, <1>3, NotCut DEF Line
  <2> HIDE DEF h, parts
  <2> QED
    BY <2>1, <2>2, PrintableDepth, LineOnly
<1> QED
  BY <1>1, <1>2, <1>3

LEMMA DirectoryOutcome ==
    ASSUME Working, NEW c, Printable(c), c.type = "GFFI", print_gffi(c)
    PROVE  Outcome(c)
<1>0. c \in Listed({"GFFI"})
  BY OnlyListed DEF Inner
<1>1. c.id \in Nat /\ Len(job.order) \in Nat
  BY <1>0, ListedIs, FileIs
<1>2. CASE c.id < Len(job.order)
  <2> DEFINE parts == <<c.id>>
  <2>1. Show(c, "entry", 0, parts, <<>>)
    BY <1>2 DEF print_gffi
  <2>2. Line(c, "entry", 0)
    BY DEF Line, ShownById
  <2> HIDE DEF parts
  <2> QED
    BY <2>1, <2>2, PrintableDepth, LineOnly
<1>3. CASE ~(c.id < Len(job.order))
  <2>1. Ends("behind")
    BY <1>3 DEF print_gffi
  <2>2. c.id >= Len(job.order)
    BY <1>1, <1>3
  <2> QED
    BY <1>0, <2>1, <2>2 DEF Outcome, EndOf
<1> QED
  BY <1>2, <1>3

------------------------------------------------------------------------------
(* What is printed inside another chunk leaves the indentation as it was.  *)
InnerAt(d, calls) ==
    /\ IsSeq(calls) /\ \A k \in DOMAIN calls : InnerCall(calls[k])
    /\ Level(calls, 4 * d, 4 * d)

LEMMA InnerNone == ASSUME NEW d \in Nat PROVE InnerAt(d, <<>>)
<1>1. Level(<<>>, 4 * d, 4 * d)
  BY LevelNone
<1> QED
  BY <1>1, NoneIs DEF InnerAt

LEMMA EachOfBoth ==
    ASSUME NEW s, IsSeq(s), NEW t, IsSeq(t), NEW T,
           \A k \in DOMAIN s : s[k] \in T, \A k \in DOMAIN t : t[k] \in T
    PROVE  IsSeq(s \o t) /\ \A k \in DOMAIN (s \o t) : (s \o t)[k] \in T
<1> DEFINE st == s \o t
<1>1. /\ IsSeq(st) /\ Len(st) = Len(s) + Len(t)
      /\ \A k \in 1 .. Len(s) : st[k] = s[k]
      /\ \A k \in 1 .. Len(t) : st[Len(s) + k] = t[k]
      /\ \A k \in DOMAIN st : k \in DOMAIN s \/ (k > Len(s) /\ k - Len(s) \in DOMAIN t)
  BY ConcatIs
<1>2. /\ Len(s) \in Nat /\ DOMAIN s = 1 .. Len(s) /\ Len(t) \in Nat /\ DOMAIN t = 1 .. Len(t)
      /\ Len(st) \in Nat /\ DOMAIN st = 1 .. Len(st)
  BY <1>1, SeqIs
<1> HIDE DEF st
<1>3. ASSUME NEW k \in DOMAIN st
      PROVE  st[k] \in T
  <2>1. CASE k \in DOMAIN s
    BY <1>1, <1>2, <2>1
  <2>2. CASE k > Len(s) /\ k - Len(s) \in DOMAIN t
    <3>1. Len(s) + (k - Len(s)) = k
      BY <1>2
    <3>2. st[k] = t[k - Len(s)]
      BY <1>1, <1>2, <2>2, <3>1
    <3> QED
      BY <2>2, <3>2
  <2> QED
    BY <1>1, <2>1, <2>2
<1> QED
  BY <1>1, <1>3 DEF st

LEMMA InnerConcat ==
    ASSUME NEW d \in Nat, NEW s, InnerAt(d, s), NEW t, InnerAt(d, t)
    PROVE  InnerAt(d, s \o t)
<1>1. IsSeq(s) /\ IsSeq(t) /\ Level(s, 4 * d, 4 * d) /\ Level(t, 4 * d, 4 * d)
  BY DEF InnerAt
<1>2. Level(s \o t, 4 * d, 4 * d)
  BY <1>1, LevelConcat
<1> DEFINE T == {e \in {s[k] : k \in DOMAIN s} \cup {t[k] : k \in DOMAIN t} : InnerCall(e)}
<1>3. (\A k \in DOMAIN s : s[k] \in T) /\ (\A k \in DOMAIN t : t[k] \in T)
  BY DEF InnerAt
<1>4. \A e \in T : InnerCall(e)
  OBVIOUS
<1> HIDE DEF T
<1>5. IsSeq(s \o t) /\ \A k \in DOMAIN (s \o t) : (s \o t)[k] \in T
  BY <1>1, <1>3, EachOfBoth
<1> QED
  BY <1>2, <1>4, <1>5 DEF InnerAt

LEMMA InnerNested ==
    ASSUME NEW d \in Nat, NEW calls, IsSeq(calls),
           \A k \in DOMAIN calls :
              calls[k].type \in Inner /\ calls[k].depth = d + 1 /\ Known(calls[k])
    PROVE  InnerAt(d, Nested(calls))
<1>0. \A k \in DOMAIN calls : calls[k].type # "indent"
  BY DEF Inner
<1>1. IsSeq(Nested(calls)) /\ Level(Nested(calls), 4 * d, 4 * d)
  BY <1>0, LevelNested
<1> DEFINE T == {e \in {calls[k] : k \in DOMAIN calls} \cup {Shift(4), Shift(-4)} : InnerCall(e)}
           up == <<Shift(4)>>
           down == <<Shift(-4)>>
<1>2. Shift(4).type = "indent" /\ Shift(4).by = 4 /\ Shift(-4).type = "indent" /\ Shift(-4).by = -4
  BY DEF Shift, Call
<1>3. Shift(4) \in T /\ Shift(-4) \in T
  BY <1>2 DEF InnerCall
<1>4. \A k \in DOMAIN calls : calls[k] \in T
  <2>1. d + 1 \in Nat \ {0}
    OBVIOUS
  <2> QED
    BY <2>1 DEF InnerCall
<1>5. \A e \in T : InnerCall(e)
  OBVIOUS
<1> HIDE DEF T
<1>6. /\ IsSeq(up) /\ IsSeq(down)
      /\ (\A k \in DOMAIN up : up[k] \in T) /\ (\A k \in DOMAIN down : down[k] \in T)
  BY <1>3, OneIs
<1>7. Nested(calls) = (up \o calls) \o down
  BY DEF Nested
<1> HIDE DEF up, down
<1>8. IsSeq(up \o calls) /\ \A k \in DOMAIN (up \o calls) : (up \o calls)[k] \in T
  BY <1>4, <1>6, EachOfBoth
<1>9. \A k \in DOMAIN ((up \o calls) \o down) : ((up \o calls) \o down)[k] \in T
  BY <1>6, <1>8, EachOfBoth
<1> QED
  BY <1>1, <1>5, <1>7, <1>9 DEF InnerAt

LEMMA InnerFlatten ==
    ASSUME NEW d \in Nat, NEW ss, IsSeq(ss), \A k \in DOMAIN ss : InnerAt(d, ss[k])
    PROVE  InnerAt(d, FlattenSeq(ss))
<1>1. \A k \in DOMAIN ss : IsSeq(ss[k]) /\ Level(ss[k], 4 * d, 4 * d)
  BY DEF InnerAt
<1>2. Level(FlattenSeq(ss), 4 * d, 4 * d)
  BY <1>1, LevelFlatten
<1>3. FlatSoFar(ss, Len(ss), FlattenSeq(ss)) /\ DOMAIN ss = 1 .. Len(ss)
  BY <1>1, FlattenHas, SeqIs
<1> QED
  BY <1>2, <1>3 DEF InnerAt, FlatSoFar

(* A chunk that is shown with others inside it.                            *)
LEMMA LineAndInner ==
    ASSUME NEW c, c.depth \in Nat, NEW is, NEW at, NEW parts, NEW nested,
           Show(c, is, at, parts, nested), Line(c, is, at), InnerAt(c.depth, nested),
           c.type # "RDFF"
    PROVE  Outcome(c)
<1>1. InnerCalls(c, nested)
  BY DEF InnerCalls, InnerAt
<1>2. Shows(c)
  BY <1>1 DEF Shows
<1> QED
  BY <1>2 DEF Outcome

LEMMA CallIs ==
    ASSUME NEW t, NEW i, NEW file, NEW depth
    PROVE  /\ Call(t, i, file, depth).type = t /\ Call(t, i, file, depth).id = i
           /\ Call(t, i, file, depth).file = file /\ Call(t, i, file, depth).depth = depth
           /\ Call(t, i, file, depth).by = 0
  BY DEF Call

LEMMA OneNested ==
    ASSUME NEW d \in Nat, NEW t \in Inner \ {"ACCL"}, NEW i, NEW file
    PROVE  InnerAt(d, Nested(<<Call(t, i, file, d + 1)>>))
<1> DEFINE c == Call(t, i, file, d + 1)
<1>1. c.type = t /\ c.depth = d + 1
  BY CallIs
<1> HIDE DEF c
<1>2. /\ IsSeq(<<c>>)
      /\ \A k \in DOMAIN <<c>> : /\ <<c>>[k].type \in Inner /\ <<c>>[k].depth = d + 1
                                /\ Known(<<c>>[k])
  BY <1>1, OneIs DEF Known
<1>3. InnerAt(d, Nested(<<c>>))
  BY <1>2, InnerNested
<1> QED
  BY <1>3 DEF c

LEMMA WindowOutcome ==
    ASSUME Working, NEW c, Printable(c), c.type = "WIND", print_window(c)
    PROVE  Outcome(c)
<1> DEFINE h == FindIn(c.file, "WIND", c.id)
           parts == Content(h).items
           Kinds == {"ACCL", "APFM", "BUTN", "EBOX"}
           Of(k) == IF parts[k].type \in Kinds
                    THEN <<Call(parts[k].type, parts[k].id, c.file, c.depth + 1)>> ELSE <<>>
           ss == [k \in DOMAIN parts |-> Of(k)]
<1>0. /\ c \in Listed({"MONR", "WIND"}) /\ h = Header(c) /\ h # NotFound /\ c.depth \in Nat
      /\ h.location \in Place(job)
  <2>1. /\ c \in Listed({c.type}) /\ h = Header(c) /\ h # NotFound
        /\ h.location \in Place(job)
    BY OnlyListed DEF Inner
  <2> QED
    BY <2>1, ListedAmong, PrintableDepth
<1>1. CASE Cut(h)
  <2>1. Ends("freed twice")
    BY <1>1 DEF print_window
  <2> QED
    BY <1>0, <1>1, <2>1 DEF Outcome, EndOf
<1>2. CASE ~Cut(h) /\ h.length < StructSize
  <2>1. Ends("behind")
    BY <1>2 DEF print_window
  <2> QED
    BY <1>0, <1>2, <2>1 DEF Outcome, EndOf
<1>3. CASE ~Cut(h) /\ ~(h.length < StructSize)
  <2>1. Show(c, "chunk", At(h), Numbers(Len(parts)), Nested(FlattenSeq(ss)))
    BY <1>3 DEF print_window
  <2>2. Line(c, "chunk", At(h))
    BY <1>0, <1>3, NotCut DEF Line
  <2>3. Len(parts) \in Nat /\ DOMAIN parts = 1 .. Len(parts)
    BY <1>0 DEF Place, Sequence, Content
  <2> DEFINE d == c.depth
             all == Numbers(Len(parts))
  <2>4. ASSUME NEW k \in DOMAIN parts
        PROVE  /\ IsSeq(Of(k))
               /\ \A i \in DOMAIN Of(k) :
                     Of(k)[i].type \in Inner /\ Of(k)[i].depth = d + 1 /\ Known(Of(k)[i])
    <3> DEFINE one == Call(parts[k].type, parts[k].id, c.file, d + 1)
    <3>1. /\ one.type = parts[k].type /\ one.depth = d + 1
          /\ one.id = parts[k].id /\ one.file = c.file
      BY CallIs
    <3> HIDE DEF one
    <3>4. Known(one)
      <4> SUFFICES ASSUME one.type = "ACCL"
                   PROVE  one.file = "input" /\ one.id \in ControlIds
        BY DEF Known
      <4>1. parts[k] \in ToSet(Content(Header(c)).items) /\ parts[k].type = "ACCL"
        BY <1>0, <3>1 DEF ToSet
      <4>2. c \in Listed({"WIND"}) /\ c.file = "input"
        BY <1>0, ListedAmong, ListedIs
      <4> DEFINE held(w) == {p.id : p \in {p \in ToSet(Content(Header(w)).items) : p.type = "ACCL"}}
      <4>3. parts[k].id \in held(c)
        BY <4>1
      <4>4. parts[k].id \in UNION {held(w) : w \in Listed({"WIND"})}
        <5> HIDE DEF held
        <5> QED
          BY <4>2, <4>3
      <4> QED
        BY <3>1, <4>2, <4>4 DEF ControlIds
    <3>2. CASE parts[k].type \in Kinds
      <4>1. Of(k) = <<one>> /\ one.type \in Inner
        BY <3>1, <3>2 DEF one, Inner
      <4>2. IsSeq(<<one>>) /\ \A i \in DOMAIN <<one>> : <<one>>[i] = one
        BY OneIs
      <4> HIDE DEF Of
      <4>3. IsSeq(Of(k)) /\ \A i \in DOMAIN Of(k) : Of(k)[i] = one
        BY <4>1, <4>2
      <4> QED
        BY <3>1, <3>4, <4>1, <4>3
    <3>3. CASE parts[k].type \notin Kinds
      BY <3>3, NoneIs
    <3> QED
      BY <3>2, <3>3
  <2>5. \A k \in DOMAIN parts : ss[k] = Of(k)
    OBVIOUS
  <2>6. DOMAIN ss = DOMAIN parts /\ ss = [k \in 1 .. Len(parts) |-> ss[k]]
    BY <2>3
  <2> HIDE DEF ss, Of
  <2>7. IsSeq(ss) /\ \A k \in DOMAIN ss : IsSeq(ss[k])
    BY <2>3, <2>4, <2>5, <2>6, MadeIs
  <2>8. FlatSoFar(ss, Len(ss), FlattenSeq(ss)) /\ DOMAIN ss = 1 .. Len(ss)
    BY <2>7, FlattenHas, SeqIs
  <2> DEFINE calls == FlattenSeq(ss)
  <2>9. IsSeq(calls)
    BY <2>8 DEF FlatSoFar
  <2>10. \A k \in DOMAIN calls :
            calls[k].type \in Inner /\ calls[k].depth = d + 1 /\ Known(calls[k])
    <3> SUFFICES ASSUME NEW k \in DOMAIN calls
                 PROVE  calls[k].type \in Inner /\ calls[k].depth = d + 1 /\ Known(calls[k])
      OBVIOUS
    <3>1. PICK j \in 1 .. Len(ss) : \E i \in DOMAIN ss[j] : calls[k] = ss[j][i]
      BY <2>8 DEF FlatSoFar
    <3>2. PICK i \in DOMAIN ss[j] : calls[k] = ss[j][i]
      BY <3>1
    <3>3. j \in DOMAIN parts /\ ss[j] = Of(j)
      BY <2>5, <2>6, <2>8
    <3> QED
      BY <2>4, <3>2, <3>3
  <2> HIDE DEF calls, d
  <2>11. InnerAt(d, Nested(calls))
    BY <1>0, <2>9, <2>10, InnerNested DEF d
  <2>12. Show(c, "chunk", At(h), all, Nested(calls))
    BY <2>1 DEF calls
  <2> HIDE DEF all, h
  <2> QED
    BY <1>0, <2>2, <2>11, <2>12, LineAndInner DEF d
<1> QED
  BY <1>1, <1>2, <1>3

LEMMA MapOutcome ==
    ASSUME Working, NEW c, Printable(c), c.type = "ETAB", print_etab(c)
    PROVE  Outcome(c)
<1> DEFINE h == FindIn(c.file, "ETAB", c.id)
           n == h.length \div EntrySize
           is == IF Cut(h) THEN "part" ELSE "chunk"
<1>0. h # NotFound /\ c.depth \in Nat /\ h.length \in Nat
  <2>1. h # NotFound /\ h \in Headers
    BY OnlyListed DEF Inner
  <2> QED
    BY <2>1, PrintableDepth DEF Headers
<1>1. n \in Nat
  <2>1. \A a \in Nat, b \in Nat \ {0} : a \div b \in Nat
    OBVIOUS
  <2> QED
    BY <1>0, <2>1, SizesAssumption
<1> DEFINE all == Content(h).items
           Object(any, k) == IF Cut(h) /\ k = n THEN any ELSE all[k]
<1>2. PICK any \in IF Cut(h) THEN ObjectIds ELSE {0} :
         LET objects == [k \in 1 .. n |-> Object(any, k)]
         IN  Show(c, is, At(h), Numbers(n),
                  IF job.segobjex = None THEN <<>>
                  ELSE FlattenSeq([k \in 1 .. n |->
                         Nested(<<Call("OJFF", objects[k], "segobjex", c.depth + 1)>>)]))
  BY DEF print_etab
<1> DEFINE objects == [k \in 1 .. n |-> Object(any, k)]
           ss == [k \in 1 .. n |-> Nested(<<Call("OJFF", objects[k], "segobjex", c.depth + 1)>>)]
           nested == IF job.segobjex = None THEN <<>> ELSE FlattenSeq(ss)
           numbers == Numbers(n)
<1>3. Show(c, is, At(h), numbers, nested)
  BY <1>2
<1>4. Line(c, is, At(h))
  BY <1>0, NotCut DEF Line
<1> HIDE DEF objects, n
<1>5. DOMAIN ss = 1 .. n /\ ss = [k \in 1 .. n |-> ss[k]]
  OBVIOUS
<1>6. \A k \in 1 .. n : InnerAt(c.depth, ss[k])
  BY <1>0, OneNested DEF Inner
<1> HIDE DEF ss
<1>7. IsSeq(ss)
  BY <1>1, <1>5, MadeIs
<1>8. InnerAt(c.depth, nested)
  BY <1>0, <1>5, <1>6, <1>7, InnerFlatten, InnerNone
<1> HIDE DEF nested, is, h, numbers
<1> QED
  BY <1>0, <1>3, <1>4, <1>8, LineAndInner

LEMMA ObjectOutcome ==
    ASSUME Working, NEW c, Printable(c), c.type = "OJFF", print_ojff(c)
    PROVE  Outcome(c)
<1> DEFINE h == FindIn(c.file, "OJFF", c.id)
           o == Content(h).items
           Linked(t, i) == IF i > 0 THEN Nested(<<Call(t, i, c.file, c.depth + 1)>>) ELSE <<>>
           good == Reads(h, StructSize) /\ h.length = StructSize
<1>0. c.depth \in Nat
  BY PrintableDepth
<1>1. CASE good
  <2> DEFINE a == Linked("BMP", o[1])
             b == Linked("SCMD", o[2])
  <2>1. Show(c, "chunk", At(h), <<>>, a \o b)
    BY <1>1 DEF print_ojff
  <2>2. Line(c, "chunk", At(h))
    BY <1>1, NotCut DEF Line, Reads, Loads
  <2>3. InnerAt(c.depth, a)
    <3> DEFINE i == o[1]
    <3> HIDE DEF i
    <3>1. InnerAt(c.depth, Linked("BMP", i))
      BY <1>0, OneNested, InnerNone DEF Inner
    <3> QED
      BY <3>1 DEF i
  <2>4. InnerAt(c.depth, b)
    <3> DEFINE i == o[2]
    <3> HIDE DEF i
    <3>1. InnerAt(c.depth, Linked("SCMD", i))
      BY <1>0, OneNested, InnerNone DEF Inner
    <3> QED
      BY <3>1 DEF i
  <2> HIDE DEF a, b, h
  <2>5. InnerAt(c.depth, a \o b)
    BY <1>0, <2>3, <2>4, InnerConcat
  <2> QED
    BY <1>0, <2>1, <2>2, <2>5, LineAndInner
<1>2. CASE ~good
  <2>1. ShowsNothing
    BY <1>2 DEF print_ojff
  <2>2. ~MustShow(c)
    BY <1>2, MustShowIs DEF AlwaysShown
  <2> QED
    BY <2>1, <2>2 DEF Outcome
<1> QED
  BY <1>1, <1>2

LEMMA PrintOutcome ==
    ASSUME Working, NEW c, Printable(c), print_func(c)
    PROVE  Outcome(c)
<1>0. c.type \in Printers
  BY PrintableDepth
<1>1. CASE c.type \in {"TEXT", "ETME", "SPIN", "RDAT", "MERR", "PSIN", "BUTN"}
  <2>1. \/ c.type = "TEXT" /\ shows_anyway(c, "TEXT", 1, TextRoom)
        \/ c.type = "ETME" /\ shows_anyway(c, "ETME", 1, TextRoom)
        \/ c.type \in {"SPIN", "RDAT"} /\ shows_anyway(c, "SPIN", 1, TextRoom)
        \/ c.type = "MERR" /\ shows_anyway(c, "MERR", 1, TextRoom)
        \/ c.type = "PSIN" /\ shows_anyway(c, "PSIN", 1, StructSize)
        \/ c.type = "BUTN" /\ shows_anyway(c, "BUTN", ButtonSize, StructSize)
    BY <1>1 DEF print_func, print_text, print_etme, print_spin, print_rdat, print_merr,
         print_psin, print_button_item
  <2> QED
    BY <2>1, AnywayOutcome
<1>2. CASE c.type \in {"PSST", "SPST"}
  <2>1. print_powers(c, c.type)
    BY <1>2 DEF print_func, print_psst, print_spst
  <2> QED
    BY <2>1, PowersOutcome
<1>3. CASE c.type \in {"EBOX", "APFM"}
  <2>1. \E least \in {1, StructSize} : shows_read(c, c.type, least, StructSize)
    BY <1>3 DEF print_func, print_ebox, print_frame
  <2>2. c.type \notin AlwaysShown
    BY <1>3 DEF AlwaysShown
  <2> QED
    BY <2>1, <2>2, ReadOutcome
<1>4. CASE c.type \in {"GMAP", "RMAP"}
  <2>1. print_flags(c, c.type)
    BY <1>4 DEF print_func, print_gmap, print_rmap
  <2> QED
    BY <1>4, <2>1, FlagsOutcome
<1>5. CASE c.type \in {"MAS", "GPL", "GPLX"}
  <2>1. shows_loaded(c, c.type)
    BY <1>5 DEF print_func, print_mas, print_gpl, print_gplx
  <2>2. c.type \notin AlwaysShown
    BY <1>5 DEF AlwaysShown
  <2> QED
    BY <2>1, <2>2, LoadedOutcome
<1>6. CASE c.type \in {"CSEQ", "GSEQ", "PSEQ", "LSEQ", "BVOC"}
  <2>1. print_header(c, c.type)
    BY <1>6 DEF print_func, print_cseq, print_gseq, print_pseq, print_lseq, print_bvoc
  <2> QED
    BY <2>1, HeaderOutcome
<1>7. CASE c.type \in {"ICON", "PORT", "WALL", "BMP", "TILE"}
  <2>1. print_frames(c, c.type)
    BY <1>7 DEF print_func, print_icon, print_port, print_wall, print_bmp, print_tile
  <2> QED
    BY <2>1, FramesOutcome
<1>8. CASE c.type \in {"NAME", "IT1R", "ACCL", "SCMD", "MONR"}
  <2>1. \/ c.type = "NAME" /\ print_name(c)
        \/ c.type = "IT1R" /\ print_it1r(c)
        \/ c.type = "ACCL" /\ print_accl(c)
        \/ c.type = "SCMD" /\ print_scmd(c)
        \/ c.type = "MONR" /\ print_monr(c)
    BY <1>8 DEF print_func
  <2> QED
    BY <2>1, NameOutcome, RowsOutcome, ControlOutcome, ScriptOutcome, MonstersOutcome
<1>9. CASE c.type \in {"GFFI", "WIND", "ETAB", "OJFF"}
  <2>1. \/ c.type = "GFFI" /\ print_gffi(c)
        \/ c.type = "WIND" /\ print_window(c)
        \/ c.type = "ETAB" /\ print_etab(c)
        \/ c.type = "OJFF" /\ print_ojff(c)
    BY <1>9 DEF print_func
  <2> QED
    BY <2>1, DirectoryOutcome, WindowOutcome, MapOutcome, ObjectOutcome
<1>10. CASE c.type \in {"FONT", "CHAR", "RDFF"}
  <2>1. \/ c.type = "FONT" /\ print_font(c)
        \/ c.type = "CHAR" /\ print_char(c)
        \/ c.type = "RDFF" /\ print_rdff(c)
    BY <1>10 DEF print_func
  <2>2. c.depth \in Nat
    BY PrintableDepth
  <2>3. CASE c.type = "RDFF"
    BY <2>1, <2>2, <2>3, RdffOutcome
  <2>4. CASE c.type \in {"FONT", "CHAR"}
    <3>1. (print_font(c) /\ c.type = "FONT") \/ (print_char(c) /\ c.type = "CHAR")
      BY <2>1, <2>4
    <3>2. (print_font(c) /\ c.type = "FONT") => Outcome(c)
      BY FontOutcome
    <3>3. (print_char(c) /\ c.type = "CHAR") => Outcome(c)
      BY FontOutcome
    <3> QED
      BY <3>1, <3>2, <3>3
  <2> QED
    BY <1>10, <2>3, <2>4
<1> QED
  BY <1>0, <1>1, <1>2, <1>3, <1>4, <1>5, <1>6, <1>7, <1>8, <1>9, <1>10 DEF Printers

------------------------------------------------------------------------------
(* The inductive invariant.  What is still to be done is of what is being  *)
(* done; the indentation is that of the next chunk and comes back to 0;    *)
(* what was listed comes before what is still to be, and what was written  *)
(* is all but what still is to be.                                         *)
Left(m) == \E k \in DOMAIN mods : mods[k] = m
ModsInv ==
    /\ IsSeq(mods) /\ mod \in Modes \cup {None} /\ (mod \in Modes => Asks(mod))
    /\ \A k \in DOMAIN mods :
          /\ mods[k] \in Modes /\ Asks(mods[k]) /\ mods[k] # mod
          /\ mods[k] = "entry" => k = 1 /\ shown = <<>> /\ mod = None
    /\ \A j, k \in DOMAIN mods : mods[j] = mods[k] => j = k

CallOf(m, c) ==
    \/ m = "entry" /\ (InnerCall(c) \/ (c \in Listed({EntryType}) /\ EntryType \in Printers))
    \/ m = "rdff" /\ c.type = "RDFF" /\ c.depth = 0
    \/ m \in Writers /\ c \in Listed(f.types)
TodoInv ==
    /\ IsSeq(todo) /\ indent \in Int /\ Level(todo, indent, 0)
    /\ \A k \in DOMAIN todo : CallOf(mod, todo[k])

GoodLine(s) ==
    /\ s.indent = 4 * s.depth
    /\ s.type \in ShownById /\ s.is # "entry" => s.at = At(FindIn(s.file, s.type, s.id))
    /\ s.is = "chunk" => s.at \notin job.cut
LinesInv == IsSeq(shown) /\ \A k \in DOMAIN shown : GoodLine(shown[k])

(* The chunks asked for, not those printed inside them: each line comes in *)
(* the order of the ids, and every id has its line or has it still to come.*)
Top(c) == c.type # "indent" /\ c.depth = 0
Tops(lines) == {k \in DOMAIN lines : lines[k].depth = 0}
Firsts(calls) == {k \in DOMAIN calls : Top(calls[k])}
Started ==
    Asks("entry") /\ job.entry # None /\ ~Asks("rdff") /\ ~Left("entry") /\ end # "exit"
Must(i) == EntryType \in AlwaysShown \/ Readable(EntryType, i)
Later(i, j) == InIdOrder(EntryType, i, j)
EntryId(i) == i \in ToSet(Ids(EntryType))
Ordered(lines, calls) ==
    /\ \A j, k \in Tops(lines) : j < k => Later(lines[j].id, lines[k].id)
    /\ \A k \in Tops(lines) : EntryId(lines[k].id)
    /\ \A j, k \in Firsts(calls) : j < k => Later(calls[j].id, calls[k].id)
    /\ \A j \in Tops(lines), k \in Firsts(calls) : Later(lines[j].id, calls[k].id)
    /\ \A k \in Firsts(calls) : EntryId(calls[k].id)
    /\ \A i : EntryId(i) /\ Must(i) =>
          (\E k \in Tops(lines) : lines[k].id = i) \/ (\E k \in Firsts(calls) : calls[k].id = i)
OrderInv == Started => Ordered(shown, IF mod = "entry" THEN todo ELSE <<>>)

Empty(m, c, as) ==
    \/ m = "dump" /\ ~Loads(Header(c))
    \/ m = "images" /\ as \in Undrawn(Content(Header(c)).frames)
GoodFile(w) ==
    /\ \E c \in Listed(f.types) :
          /\ Named(w, c) /\ w.as \in Due(w.mod, c)
          /\ w.at = At(Header(c)) \/ (w.at = 0 /\ Empty(w.mod, c, w.as))
    /\ w.at \notin job.cut
FilesInv ==
    /\ IsSeq(files)
    /\ \A k \in DOMAIN files :
          /\ GoodFile(files[k]) /\ files[k].mod \in Writers /\ ~Left(files[k].mod)
          /\ \A j \in 1 .. k - 1 : files[j] # files[k]
    /\ mod \in Writers /\ end = None =>
          /\ \A j, k \in DOMAIN todo : todo[j] = todo[k] => j = k
          /\ \A j \in DOMAIN files, k \in DOMAIN todo :
                files[j].mod = mod => ~Named(files[j], todo[k])
NotEmpty(w) == w.at = 0 => w.mod = "dump"
EmptyInv == \A k \in DOMAIN files : NotEmpty(files[k]) \/ end = "no picture"
WrittenInv ==
    end \in {None, "done"} /\ job.there =>
       \A m \in Writers : Asks(m) /\ ~Left(m) =>
          \A c \in Listed(f.types) : \A as \in Due(m, c) :
             \/ HasFile(m, c, as)
             \/ LeftOut(m, c, as)
             \/ m = mod /\ \E k \in DOMAIN todo : todo[k] = c

(* The causes of a bad end.                                                *)
Returns == \E c \in Listed({"CHAR"}) : GoesBack(Header(c))
CutOne == \E c \in Listed({"MONR", "WIND"}) : Cut(Header(c))
NoPlace == \E c \in Listed({"GFFI"}) : c.id >= Len(job.order)
TooShort ==
    \E c \in Listed({"MONR", "WIND", "BMP", "ICON", "PORT"}) : Header(c).length < StructSize
Nowhere == ~job.there
NoNames == ~NamesRead
NoPicture ==
    job.pals /\ \E c \in WholeOf({"BMP", "ICON", "PORT"}) : Undrawn(Content(Header(c)).frames) # {}
TooMany == \E t \in f.types : Len(Ids(t)) > IdsRoom
NoEntry == EntryIndex(job.entry) \in 0 .. Len(job.order) - 1 => EntryType \notin Printers
Cause(why, m) ==
    \/ why = "exit" /\ m = "entry" /\ NoEntry
    \/ why = "freed twice" /\ CutOne
    \/ why = "behind" /\ (NoPlace \/ TooShort \/ Overstated)
    \/ why = "endless" /\ Returns
    \/ why = "unset number" /\ m = "entry" /\ NoNames
    \/ why = "no file" /\ Nowhere /\ m # "dump"
    \/ why = "no picture" /\ NoPicture
    \/ why = "overflow" /\ TooMany
EndInv ==
    /\ end \notin {None, "done"} => Cause(end, mod)
    /\ end = "exit" => shown = <<>>
    /\ end = "done" => todo = <<>> /\ mods = <<>>

ToolInv ==
    /\ ModsInv /\ TodoInv /\ LinesInv /\ OrderInv /\ FilesInv /\ EmptyInv /\ WrittenInv /\ EndInv

(* The file and the job stay as they are, and all that is said of them.    *)
LEMMA SameFile ==
    ASSUME f' = f, job' = job
    PROVE  /\ Working' <=> Working
           /\ EntryType' = EntryType
           /\ \A m : Asks(m)' <=> Asks(m)
           /\ \A m, c : CallOf(m, c)' <=> CallOf(m, c)
           /\ \A s : GoodLine(s)' <=> GoodLine(s)
           /\ \A i : Must(i)' <=> Must(i)
           /\ \A i, j : Later(i, j)' <=> Later(i, j)
           /\ \A i : EntryId(i)' <=> EntryId(i)
           /\ \A lines, calls : Ordered(lines, calls)' <=> Ordered(lines, calls)
           /\ \A w : GoodFile(w)' <=> GoodFile(w)
           /\ \A m, c : Due(m, c)' = Due(m, c)
           /\ Listed(f.types)' = Listed(f.types)
           /\ \A m, c, as : LeftOut(m, c, as)' <=> LeftOut(m, c, as)
           /\ \A why, m : Cause(why, m)' <=> Cause(why, m)
<1>1. \A t, i : Find(t, i)' = Find(t, i)
  BY SameAnswers
<1>2. \A t : Ids(t)' = Ids(t)
  BY DEF Ids
<1>3. \A h : (Cut(h)' <=> Cut(h)) /\ Content(h)' = Content(h)
  BY DEF Cut, Content
<1>4. \A t, i : Segobjex!Find(t, i)' = Segobjex!Find(t, i)
  BY DEF Segobjex!Find, Segobjex!FindInRuns, Segobjex!FindInChunks
<1>5. \A file, t, i : FindIn(file, t, i)' = FindIn(file, t, i)
  BY <1>1, <1>4 DEF FindIn
<1>6. \A T : Listed(T)' = Listed(T)
  BY <1>2 DEF Listed
<1>7. \A c : Header(c)' = Header(c)
  BY <1>1 DEF Header
<1>8. \A T : WholeOf(T)' = WholeOf(T)
  BY <1>3, <1>6, <1>7 DEF WholeOf
<1>9. EntryType' = EntryType /\ EntryIndex(job.entry)' = EntryIndex(job.entry)
  BY DEF EntryType, EntryIndex
<1>10. \A m, c : Due(m, c)' = Due(m, c)
  BY <1>3, <1>7 DEF Due
<1>32. ControlIds' = ControlIds
  BY <1>3, <1>6, <1>7 DEF ControlIds
<1>33. \A t, h : (Fits(t, h)' <=> Fits(t, h)) /\ (GoesBack(h)' <=> GoesBack(h))
  BY <1>3 DEF Fits, GoesBack
<1>34. (Overstated' <=> Overstated) /\ (Returns' <=> Returns)
  BY <1>1, <1>6, <1>7, <1>8, <1>32, <1>33 DEF Overstated, Returns
<1>35. \A c : InnerCall(c)' <=> InnerCall(c)
  BY <1>32 DEF InnerCall, Known
<1>11. \A t, i : Readable(t, i)' <=> Readable(t, i)
  BY <1>1, <1>3 DEF Readable, Action
<1>12. \A t, i, j : InIdOrder(t, i, j)' <=> InIdOrder(t, i, j)
  BY <1>2 DEF InIdOrder
<1>13. NamesRead' <=> NamesRead
  BY <1>1, <1>3 DEF NamesRead
<1>14. Working' <=> Working
  BY DEF Working
<1>15. \A m : Asks(m)' <=> Asks(m)
  BY DEF Asks
<1>16. \A m, c : CallOf(m, c)' <=> CallOf(m, c)
  BY <1>6, <1>9, <1>35 DEF CallOf
<1>17. \A s : GoodLine(s)' <=> GoodLine(s)
  BY <1>5 DEF GoodLine
<1>18. \A i : Must(i)' <=> Must(i)
  BY <1>9, <1>11 DEF Must
<1>19. \A i, j : Later(i, j)' <=> Later(i, j)
  BY <1>9, <1>12 DEF Later
<1>20. \A i : EntryId(i)' <=> EntryId(i)
  BY <1>2, <1>9 DEF EntryId
<1>36. \A m, c, as : Empty(m, c, as)' <=> Empty(m, c, as)
  BY <1>3, <1>7 DEF Empty, Loads, Undrawn
<1>21. \A w : GoodFile(w)' <=> GoodFile(w)
  BY <1>6, <1>7, <1>10, <1>36 DEF GoodFile, At
<1>22. \A m, c, as : LeftOut(m, c, as)' <=> LeftOut(m, c, as)
  BY <1>3, <1>6, <1>7, <1>8 DEF LeftOut
<1>23. Listed(f.types)' = Listed(f.types)
  BY <1>6
<1>24. \A fr : Undrawn(fr)' = Undrawn(fr)
  BY DEF Undrawn
<1>25. (CutOne' <=> CutOne) /\ (NoPlace' <=> NoPlace) /\ (TooShort' <=> TooShort)
  BY <1>3, <1>6, <1>7 DEF CutOne, NoPlace, TooShort
<1>26. NoPicture' <=> NoPicture
  BY <1>3, <1>7, <1>8, <1>24 DEF NoPicture
<1>30. (Nowhere' <=> Nowhere) /\ (NoNames' <=> NoNames)
  BY <1>13 DEF Nowhere, NoNames
<1>27. TooMany' <=> TooMany
  BY <1>2 DEF TooMany
<1>28. NoEntry' <=> NoEntry
  BY <1>9 DEF NoEntry
<1>29. ASSUME NEW why, NEW m PROVE Cause(why, m)' <=> Cause(why, m)
  BY Zenon, <1>25, <1>26, <1>27, <1>28, <1>30, <1>34 DEF Cause
<1>31. ASSUME NEW lines, NEW calls PROVE Ordered(lines, calls)' <=> Ordered(lines, calls)
  BY Zenon, <1>18, <1>19, <1>20 DEF Ordered, Tops, Firsts, Top
<1> QED
  BY <1>9, <1>10, <1>14, <1>15, <1>16, <1>17, <1>18, <1>19, <1>20, <1>21, <1>22, <1>23, <1>29, <1>31

------------------------------------------------------------------------------
(* The first of s makes way for all of t.                                  *)
Moved(s, t, u) ==
    /\ IsSeq(u)
    /\ \A k \in DOMAIN u :
          \/ k \in DOMAIN t /\ u[k] = t[k]
          \/ \E n \in DOMAIN s : n > 1 /\ k = Len(t) + n - 1 /\ u[k] = s[n]
    /\ \A n \in DOMAIN s : n > 1 => Len(t) + n - 1 \in DOMAIN u /\ u[Len(t) + n - 1] = s[n]

LEMMA Moves ==
    ASSUME NEW s, IsSeq(s), s # <<>>, NEW t, IsSeq(t)
    PROVE  Moved(s, t, t \o Tail(s))
<1> DEFINE r == Tail(s)
           u == t \o r
<1>1. /\ IsSeq(r) /\ Len(r) = Len(s) - 1 /\ Len(s) \in Nat \ {0}
      /\ \A k \in DOMAIN r : k + 1 \in DOMAIN s /\ r[k] = s[k + 1]
  BY TailIs
<1>2. /\ IsSeq(u) /\ Len(u) = Len(t) + Len(r)
      /\ \A k \in 1 .. Len(t) : u[k] = t[k]
      /\ \A k \in 1 .. Len(r) : u[Len(t) + k] = r[k]
      /\ \A k \in DOMAIN u : k \in DOMAIN t \/ (k > Len(t) /\ k - Len(t) \in DOMAIN r)
  BY <1>1, ConcatIs
<1>3. /\ Len(s) \in Nat /\ DOMAIN s = 1 .. Len(s) /\ Len(t) \in Nat /\ DOMAIN t = 1 .. Len(t)
      /\ Len(r) \in Nat /\ DOMAIN r = 1 .. Len(r) /\ Len(u) \in Nat /\ DOMAIN u = 1 .. Len(u)
  BY <1>1, <1>2, SeqIs
<1> HIDE DEF r, u
<1>4. ASSUME NEW k \in DOMAIN u, k \notin DOMAIN t
      PROVE  \E n \in DOMAIN s : n > 1 /\ k = Len(t) + n - 1 /\ u[k] = s[n]
  <2>1. k - Len(t) \in DOMAIN r /\ k \in Int
    BY <1>2, <1>3, <1>4
  <2>2. PICK m \in DOMAIN r : m = k - Len(t) /\ m \in Nat /\ m >= 1 /\ k = Len(t) + m
    BY <1>3, <2>1
  <2>3. m + 1 \in DOMAIN s /\ u[k] = s[m + 1] /\ m + 1 > 1 /\ k = Len(t) + (m + 1) - 1
    BY <1>1, <1>2, <1>3, <2>2
  <2> QED
    BY <2>3
<1>5. ASSUME NEW n \in DOMAIN s, n > 1
      PROVE  Len(t) + n - 1 \in DOMAIN u /\ u[Len(t) + n - 1] = s[n]
  <2>1. PICK m \in DOMAIN r : n = m + 1
    <3>1. n - 1 \in DOMAIN r /\ n = (n - 1) + 1
      BY <1>1, <1>3, <1>5
    <3> QED
      BY <3>1
  <2>2. Len(t) + n - 1 = Len(t) + m /\ r[m] = s[n] /\ Len(t) + m \in DOMAIN u
    BY <1>1, <1>2, <1>3, <2>1
  <2> QED
    BY <1>2, <1>3, <2>2
<1>6. Moved(s, t, u)
  BY <1>2, <1>4, <1>5 DEF Moved
<1> QED
  BY <1>6 DEF u, r

(* A line more, or none.                                                   *)
LEMMA OneMore ==
    ASSUME NEW lines, IsSeq(lines), NEW line
    PROVE  /\ IsSeq(Append(lines, line))
           /\ \A k \in DOMAIN lines : k \in DOMAIN Append(lines, line) /\ Append(lines, line)[k] = lines[k]
           /\ Len(lines) + 1 \in DOMAIN Append(lines, line)
           /\ Append(lines, line)[Len(lines) + 1] = line
           /\ \A k \in DOMAIN Append(lines, line) : k \in DOMAIN lines \/ k = Len(lines) + 1
           /\ \A k \in DOMAIN lines : k < Len(lines) + 1
<1> DEFINE u == Append(lines, line)
<1>1. /\ IsSeq(u) /\ Len(u) = Len(lines) + 1
      /\ \A k \in 1 .. Len(lines) : u[k] = lines[k]
      /\ u[Len(lines) + 1] = line
  BY AppendIs
<1>2. /\ Len(lines) \in Nat /\ DOMAIN lines = 1 .. Len(lines)
      /\ Len(u) \in Nat /\ DOMAIN u = 1 .. Len(u)
  BY <1>1, SeqIs
<1> HIDE DEF u
<1>3. /\ \A k \in DOMAIN lines : k \in DOMAIN u /\ u[k] = lines[k] /\ k < Len(lines) + 1
      /\ Len(lines) + 1 \in DOMAIN u
      /\ \A k \in DOMAIN u : k \in DOMAIN lines \/ k = Len(lines) + 1
  BY <1>1, <1>2
<1> QED
  BY <1>1, <1>3 DEF u

(* What comes of the order when the first call is done.                    *)
LEMMA OrderMoves ==
    ASSUME NEW lines, IsSeq(lines), NEW calls, IsSeq(calls), calls # <<>>,
           Ordered(lines, calls),
           NEW nested, IsSeq(nested), \A k \in DOMAIN nested : ~Top(nested[k]),
           Top(calls[1]) => ~Must(calls[1].id)
    PROVE  Ordered(lines, nested \o Tail(calls))
<1> DEFINE u == nested \o Tail(calls)
<1>1. Moved(calls, nested, u)
  BY Moves
<1>2. DOMAIN calls = 1 .. Len(calls) /\ Len(calls) \in Nat /\ Len(nested) \in Nat
  BY SeqIs
<1> HIDE DEF u
<1>3. ASSUME NEW k \in Firsts(u)
      PROVE  \E n \in Firsts(calls) : n > 1 /\ k = Len(nested) + n - 1 /\ u[k] = calls[n]
  <2>1. k \in DOMAIN u /\ Top(u[k])
    BY DEF Firsts
  <2>2. PICK n \in DOMAIN calls : n > 1 /\ k = Len(nested) + n - 1 /\ u[k] = calls[n]
    BY <1>1, <2>1 DEF Moved
  <2> QED
    BY <2>1, <2>2 DEF Firsts
<1>4. ASSUME NEW n \in Firsts(calls), n > 1
      PROVE  \E k \in Firsts(u) : u[k] = calls[n]
  <2>1. n \in DOMAIN calls /\ Top(calls[n])
    BY DEF Firsts
  <2>2. Len(nested) + n - 1 \in DOMAIN u /\ u[Len(nested) + n - 1] = calls[n]
    BY <1>1, <1>4, <2>1 DEF Moved
  <2> QED
    BY <2>1, <2>2 DEF Firsts
<1>5. ASSUME NEW j \in Firsts(u), NEW k \in Firsts(u), j < k
      PROVE  Later(u[j].id, u[k].id)
  <2>1. PICK m \in Firsts(calls) : m > 1 /\ j = Len(nested) + m - 1 /\ u[j] = calls[m]
    BY <1>3
  <2>2. PICK n \in Firsts(calls) : n > 1 /\ k = Len(nested) + n - 1 /\ u[k] = calls[n]
    BY <1>3
  <2>3. m < n
    <3>1. m \in Nat /\ n \in Nat
      BY <1>2 DEF Firsts
    <3> QED
      BY <1>2, <1>5, <2>1, <2>2, <3>1
  <2> QED
    BY <2>1, <2>2, <2>3 DEF Ordered
<1>6. ASSUME NEW i, EntryId(i), Must(i)
      PROVE  (\E k \in Tops(lines) : lines[k].id = i) \/ (\E k \in Firsts(u) : u[k].id = i)
  <2>1. CASE \E k \in Tops(lines) : lines[k].id = i
    BY <2>1
  <2>2. CASE \E n \in Firsts(calls) : calls[n].id = i
    <3>1. PICK n \in Firsts(calls) : calls[n].id = i
      BY <2>2
    <3>2. n # 1
      BY <1>6, <3>1 DEF Firsts
    <3>3. n > 1
      BY <1>2, <3>2 DEF Firsts
    <3> QED
      BY <1>4, <3>1, <3>3
  <2> QED
    BY <1>6, <2>1, <2>2 DEF Ordered
<1>7. /\ \A j, k \in Tops(lines) : j < k => Later(lines[j].id, lines[k].id)
      /\ \A k \in Tops(lines) : EntryId(lines[k].id)
      /\ \A j \in Tops(lines), k \in Firsts(u) : Later(lines[j].id, u[k].id)
      /\ \A k \in Firsts(u) : EntryId(u[k].id)
  BY <1>3 DEF Ordered
<1>8. Ordered(lines, u)
  BY <1>5, <1>6, <1>7 DEF Ordered
<1> QED
  BY <1>8 DEF u

LEMMA OrderShows ==
    ASSUME NEW lines, IsSeq(lines), NEW calls, IsSeq(calls), calls # <<>>,
           Ordered(lines, calls), calls[1].type # "indent",
           NEW line, line.id = calls[1].id, line.depth = calls[1].depth,
           NEW nested, IsSeq(nested), \A k \in DOMAIN nested : ~Top(nested[k])
    PROVE  Ordered(Append(lines, line), nested \o Tail(calls))
<1> DEFINE u == nested \o Tail(calls)
           v == Append(lines, line)
           last == Len(lines) + 1
<1>1. Moved(calls, nested, u)
  BY Moves
<1>2. DOMAIN calls = 1 .. Len(calls) /\ Len(calls) \in Nat /\ Len(nested) \in Nat
  BY SeqIs
<1>0. 1 \in DOMAIN calls
  BY TailIs
<1>3. /\ \A k \in DOMAIN lines : k \in DOMAIN v /\ v[k] = lines[k]
      /\ last \in DOMAIN v /\ v[last] = line
      /\ \A k \in DOMAIN v : k \in DOMAIN lines \/ k = last
      /\ \A k \in DOMAIN lines : k < last
      /\ DOMAIN lines \subseteq Nat /\ last \in Nat
  <2>1. Len(lines) \in Nat /\ DOMAIN lines = 1 .. Len(lines)
    BY SeqIs
  <2> QED
    BY <2>1, OneMore
<1> HIDE DEF u, v, last
<1>4. ASSUME NEW k \in Firsts(u)
      PROVE  \E n \in Firsts(calls) : n > 1 /\ k = Len(nested) + n - 1 /\ u[k] = calls[n]
  <2>1. k \in DOMAIN u /\ Top(u[k])
    BY DEF Firsts
  <2>2. PICK n \in DOMAIN calls : n > 1 /\ k = Len(nested) + n - 1 /\ u[k] = calls[n]
    BY <1>1, <2>1 DEF Moved
  <2> QED
    BY <2>1, <2>2 DEF Firsts
<1>5. ASSUME NEW n \in Firsts(calls), n > 1
      PROVE  \E k \in Firsts(u) : u[k] = calls[n]
  <2>1. n \in DOMAIN calls /\ Top(calls[n])
    BY DEF Firsts
  <2>2. Len(nested) + n - 1 \in DOMAIN u /\ u[Len(nested) + n - 1] = calls[n]
    BY <1>1, <1>5, <2>1 DEF Moved
  <2> QED
    BY <2>1, <2>2 DEF Firsts
<1>6. \A k \in Tops(lines) : k \in Tops(v) /\ v[k] = lines[k]
  BY <1>3 DEF Tops
<1>7. ASSUME NEW k \in Tops(v)
      PROVE  \/ k \in Tops(lines) /\ v[k] = lines[k]
             \/ k = last /\ v[k].id = calls[1].id /\ 1 \in Firsts(calls)
  BY <1>0, <1>3 DEF Tops, Firsts, Top
<1>8. 1 \in Firsts(calls) => last \in Tops(v) /\ v[last].id = calls[1].id
  BY <1>3 DEF Tops, Firsts, Top
<1>9. ASSUME NEW j \in Firsts(u), NEW k \in Firsts(u), j < k
      PROVE  Later(u[j].id, u[k].id)
  <2>1. PICK m \in Firsts(calls) : m > 1 /\ j = Len(nested) + m - 1 /\ u[j] = calls[m]
    BY <1>4
  <2>2. PICK n \in Firsts(calls) : n > 1 /\ k = Len(nested) + n - 1 /\ u[k] = calls[n]
    BY <1>4
  <2>3. m < n
    <3>1. m \in Nat /\ n \in Nat
      BY <1>2 DEF Firsts
    <3> QED
      BY <1>2, <1>9, <2>1, <2>2, <3>1
  <2> QED
    BY <2>1, <2>2, <2>3 DEF Ordered
<1>10. ASSUME NEW j \in Tops(v), NEW k \in Firsts(u)
       PROVE  Later(v[j].id, u[k].id)
  <2>1. PICK n \in Firsts(calls) : n > 1 /\ u[k] = calls[n]
    BY <1>4
  <2>2. CASE j \in Tops(lines) /\ v[j] = lines[j]
    BY <2>1, <2>2 DEF Ordered
  <2>3. CASE v[j].id = calls[1].id /\ 1 \in Firsts(calls)
    BY <2>1, <2>3 DEF Ordered
  <2> QED
    BY <1>7, <2>2, <2>3
<1>11. ASSUME NEW j \in Tops(v), NEW k \in Tops(v), j < k
       PROVE  Later(v[j].id, v[k].id)
  <2>1. j \in Tops(lines) /\ v[j] = lines[j]
    <3>1. j # last
      BY <1>3, <1>7, <1>11 DEF Tops
    <3> QED
      BY <1>7, <3>1
  <2>2. CASE k \in Tops(lines) /\ v[k] = lines[k]
    BY <1>11, <2>1, <2>2 DEF Ordered
  <2>3. CASE v[k].id = calls[1].id /\ 1 \in Firsts(calls)
    BY <2>1, <2>3 DEF Ordered
  <2> QED
    BY <1>7, <2>2, <2>3
<1>12. /\ \A k \in Tops(v) : EntryId(v[k].id)
       /\ \A k \in Firsts(u) : EntryId(u[k].id)
  BY <1>4, <1>7 DEF Ordered
<1>13. ASSUME NEW i, EntryId(i), Must(i)
       PROVE  (\E k \in Tops(v) : v[k].id = i) \/ (\E k \in Firsts(u) : u[k].id = i)
  <2>1. CASE \E k \in Tops(lines) : lines[k].id = i
    BY <1>6, <2>1
  <2>2. CASE \E n \in Firsts(calls) : calls[n].id = i
    <3>1. PICK n \in Firsts(calls) : calls[n].id = i
      BY <2>2
    <3>2. CASE n = 1
      BY <1>8, <3>1, <3>2
    <3>3. CASE n # 1
      <4>1. n > 1
        BY <1>2, <3>3 DEF Firsts
      <4> QED
        BY <1>5, <3>1, <4>1
    <3> QED
      BY <3>2, <3>3
  <2> QED
    BY <1>13, <2>1, <2>2 DEF Ordered
<1>14. Ordered(v, u)
  BY <1>9, <1>10, <1>11, <1>12, <1>13 DEF Ordered
<1> QED
  BY <1>14 DEF u, v

------------------------------------------------------------------------------
(* One step of printing: the first call makes way for those inside it,     *)
(* with a line of its own or without, or the process comes to a bad end.   *)
Goes(nested) ==
    /\ IsSeq(nested) /\ \A k \in DOMAIN nested : InnerCall(nested[k])
    /\ mod = "rdff" => nested = <<>>
    /\ todo' = nested \o Tail(todo) /\ Level(nested \o Tail(todo), indent', 0) /\ indent' \in Int
Says(line) ==
    /\ shown' = Append(shown, line) /\ GoodLine(line)
    /\ line.id = Head(todo).id /\ line.depth = Head(todo).depth /\ Head(todo).type # "indent"
SaysNothing == shown' = shown /\ (mod = "entry" /\ Top(Head(todo)) => ~Must(Head(todo).id))
Fails ==
    /\ UNCHANGED <<todo, indent, shown>> /\ end' \in BadEnds \ {"exit"} /\ Cause(end', mod)
PrintStep ==
    \/ \E nested : Goes(nested) /\ SaysNothing /\ end' = end
    \/ \E nested : Goes(nested) /\ (\E line : Says(line)) /\ end' = end
    \/ Fails

LEMMA EmptyFirst ==
    ASSUME NEW s, IsSeq(s)
    PROVE  <<>> \o s = s
<1>1. PICK V : s \in Seq(V)
  BY DEF IsSeq
<1> QED
  BY <1>1, ConcatEmptySeq

LEMMA CauseOfEnd ==
    ASSUME Working, NEW c, CallOf(mod, c), mod \in {"entry", "rdff"}, NEW why, EndOf(c, why)
    PROVE  why \in BadEnds \ {"exit"} /\ Cause(why, mod)
<1>1. CASE why = "freed twice" /\ c \in Listed({"MONR", "WIND"}) /\ Cut(Header(c))
  BY <1>1 DEF Cause, CutOne, BadEnds
<1>2. CASE why = "behind" /\ c \in Listed({"GFFI"}) /\ c.id >= Len(job.order)
  BY <1>2 DEF Cause, NoPlace, BadEnds
<1>3. CASE why = "behind" /\ c \in Listed({"MONR", "WIND"}) /\ Header(c).length < StructSize
  <2>1. c.type \in {"MONR", "WIND", "BMP", "ICON", "PORT"}
    BY <1>3, ListedIs
  <2>2. c \in Listed({"MONR", "WIND", "BMP", "ICON", "PORT"})
    BY <1>3, <2>1, ListedAmong
  <2> QED
    BY <1>3, <2>2 DEF Cause, TooShort, BadEnds
<1>4. CASE why = "unset number" /\ c.type = "NAME" /\ ~NamesRead
  <2>1. mod = "entry"
    BY <1>4 DEF CallOf, Writers
  <2> QED
    BY <1>4, <2>1 DEF Cause, NoNames, BadEnds
<1>5. CASE why = "behind" /\ Overstated
  BY <1>5 DEF Cause, BadEnds
<1>6. CASE why = "endless" /\ c \in Listed({"CHAR"}) /\ GoesBack(Header(c))
  BY <1>6 DEF Cause, Returns, BadEnds
<1> QED
  BY <1>1, <1>2, <1>3, <1>4, <1>5, <1>6 DEF EndOf

LEMMA PrintSteps ==
    ASSUME Working, TodoInv, todo # <<>>,
           (mod = "entry" /\ print) \/ (mod = "rdff" /\ gffmod_print_rdff(Head(todo)))
    PROVE  PrintStep
<1> DEFINE c == Head(todo)
<1>0. IsSeq(todo) /\ indent \in Int /\ todo # <<>> /\ Level(todo, indent, 0)
  BY DEF TodoInv
<1>1. IsSeq(Tail(todo)) /\ c = todo[1] /\ 1 \in DOMAIN todo
  BY <1>0, TailIs
<1>2. CallOf(mod, c)
  BY <1>1 DEF TodoInv
<1>3. /\ c.type = "indent" => Level(Tail(todo), indent + c.by, 0)
      /\ c.type # "indent" => indent = 4 * c.depth /\ Level(Tail(todo), indent, 0)
  BY <1>0, LevelTail
<1>4. IsSeq(<<>>) /\ DOMAIN <<>> = {} /\ <<>> \o Tail(todo) = Tail(todo)
  BY <1>1, NoneIs, EmptyFirst
<1> HIDE DEF c
<1>5. CASE c.type = "indent"
  <2>1. indent' = indent + c.by /\ todo' = Tail(todo) /\ shown' = shown /\ end' = end
    <3>1. mod = "entry" /\ print
      BY <1>2, <1>5 DEF CallOf, Writers, c
    <3> QED
      BY <1>5, <3>1 DEF print, shift, c
  <2>2. c.by \in Int /\ ~Top(c)
    <3>1. c \notin Listed({EntryType}) \/ EntryType \notin Printers
      BY <1>5, ListedIs DEF Printers
    <3>2. InnerCall(c) /\ c.type \notin Inner
      BY <1>2, <1>5, <3>1 DEF CallOf, Inner, Writers
    <3> QED
      BY <1>5, <3>2 DEF InnerCall, Top
  <2>3. Goes(<<>>)
    BY <1>0, <1>3, <1>4, <1>5, <2>1, <2>2 DEF Goes
  <2>4. SaysNothing
    BY <2>1, <2>2 DEF SaysNothing, c
  <2> QED
    BY <2>1, <2>3, <2>4 DEF PrintStep
<1>6. CASE c.type # "indent"
  <2>1. ASSUME mod = "entry", print
        PROVE  Outcome(c)
    <3>1. print_func(c)
      BY <1>6, <2>1 DEF print, c
    <3>2. Printable(c)
      <4>1. CASE InnerCall(c)
        BY <1>6, <4>1 DEF InnerCall, Printable
      <4>2. CASE c \in Listed({EntryType}) /\ EntryType \in Printers
        <5>1. c.type \in Printers
          BY <4>2, ListedIs
        <5> QED
          BY <4>2, <5>1, ListedAmong DEF Printable
      <4> QED
        BY <1>2, <2>1, <4>1, <4>2 DEF CallOf, Writers
    <3> QED
      BY <3>1, <3>2, PrintOutcome
  <2>2. ASSUME mod = "rdff", gffmod_print_rdff(c)
        PROVE  Outcome(c)
    <3>1. c.type = "RDFF" /\ c.depth \in Nat
      BY <1>2, <2>2 DEF CallOf, Writers
    <3> QED
      BY <2>2, <3>1, RdffOutcome
  <2>3. Outcome(c)
    <3>1. (mod = "entry" /\ print) \/ (mod = "rdff" /\ gffmod_print_rdff(c))
      BY DEF c
    <3> QED
      BY <2>1, <2>2, <3>1
  <2>4. CASE Shows(c)
    <3>1. PICK is, at, parts, nested : Show(c, is, at, parts, nested) /\ Line(c, is, at) /\ InnerCalls(c, nested)
      BY <2>4 DEF Shows
    <3> DEFINE line == [type |-> c.type, id |-> c.id, file |-> c.file,
                        depth |-> c.depth, indent |-> indent,
                        is |-> is, at |-> at, parts |-> parts]
    <3>2. /\ shown' = Append(shown, line) /\ todo' = nested \o Tail(todo)
          /\ indent' = indent /\ end' = end
      BY <3>1 DEF Show
    <3>3. /\ line.type = c.type /\ line.id = c.id /\ line.file = c.file /\ line.depth = c.depth
          /\ line.indent = indent /\ line.is = is /\ line.at = at
      OBVIOUS
    <3> HIDE DEF line
    <3>4. GoodLine(line)
      BY <1>3, <1>6, <3>1, <3>3 DEF GoodLine, Line
    <3>5. Says(line)
      BY <1>6, <3>2, <3>3, <3>4 DEF Says, c
    <3>6. Level(nested \o Tail(todo), indent, 0)
      <4>1. IsSeq(nested) /\ Level(nested, indent, indent)
        BY <1>3, <1>6, <3>1 DEF InnerCalls
      <4> QED
        BY <1>1, <1>3, <1>6, <4>1, LevelConcat
    <3>7. mod = "rdff" => nested = <<>>
      BY <1>2, <3>1 DEF CallOf, InnerCalls, Writers
    <3>8. Goes(nested)
      BY <1>0, <3>1, <3>2, <3>6, <3>7 DEF Goes, InnerCalls
    <3> QED
      BY <3>2, <3>5, <3>8 DEF PrintStep
  <2>5. CASE ShowsNothing /\ ~MustShow(c)
    <3>1. todo' = Tail(todo) /\ shown' = shown /\ indent' = indent /\ end' = end
      BY <2>5 DEF ShowsNothing
    <3>2. Goes(<<>>)
      BY <1>0, <1>3, <1>4, <1>6, <3>1 DEF Goes
    <3>3. ASSUME mod = "entry", Top(c)
          PROVE  ~Must(c.id)
      <4>1. c \in Listed({EntryType}) /\ EntryType \in Printers
        BY <1>2, <3>3 DEF CallOf, InnerCall, Top, Writers
      <4>2. c.type = EntryType /\ c \in Listed(Printers)
        BY <4>1, ListedIs, ListedAmong
      <4> QED
        BY <2>5, <4>2 DEF MustShow, Must
    <3>4. SaysNothing
      BY <3>1, <3>3 DEF SaysNothing, c
    <3> QED
      BY <3>1, <3>2, <3>4 DEF PrintStep
  <2>6. CASE \E why : Ends(why) /\ EndOf(c, why)
    <3>1. PICK why : Ends(why) /\ EndOf(c, why)
      BY <2>6
    <3>2. why \in BadEnds \ {"exit"} /\ Cause(why, mod)
      BY <1>2, <3>1, CauseOfEnd
    <3>3. Fails
      BY <3>1, <3>2 DEF Fails, Ends
    <3> QED
      BY <3>3 DEF PrintStep
  <2> QED
    BY <2>3, <2>4, <2>5, <2>6 DEF Outcome
<1> QED
  BY <1>5, <1>6

LEMMA Printed ==
    ASSUME Working, ToolInv, f' = f, printing
    PROVE  ToolInv'
<1>1. /\ mod \in {"entry", "rdff"} /\ end = None /\ todo # <<>>
      /\ (mod = "entry" /\ print) \/ (mod = "rdff" /\ gffmod_print_rdff(Head(todo)))
      /\ job' = job /\ mods' = mods /\ mod' = mod /\ files' = files
  BY DEF printing
<1>2. /\ ModsInv /\ TodoInv /\ LinesInv /\ OrderInv /\ FilesInv /\ EmptyInv /\ WrittenInv /\ EndInv
  BY DEF ToolInv
<1>3. PrintStep
  BY <1>1, <1>2, PrintSteps
<1>4. /\ \A m : Asks(m)' <=> Asks(m)
      /\ \A m, c : CallOf(m, c)' <=> CallOf(m, c)
      /\ \A s : GoodLine(s)' <=> GoodLine(s)
      /\ \A w : GoodFile(w)' <=> GoodFile(w)
      /\ \A m, c : Due(m, c)' = Due(m, c)
      /\ Listed(f.types)' = Listed(f.types)
      /\ \A m, c, as : LeftOut(m, c, as)' <=> LeftOut(m, c, as)
      /\ \A lines, calls : Ordered(lines, calls)' <=> Ordered(lines, calls)
      /\ \A why, m : Cause(why, m)' <=> Cause(why, m)
  BY <1>1, SameFile
<1>5. IsSeq(todo) /\ IsSeq(shown) /\ Head(todo) = todo[1] /\ 1 \in DOMAIN todo
  BY <1>1, <1>2, TailIs DEF TodoInv, LinesInv
<1>6. mod \in Modes /\ mod # None /\ mod \notin Writers
  BY <1>1, NoneAssumption DEF Modes, Writers
<1>7. \A m : Left(m)' <=> Left(m)
  BY <1>1 DEF Left
<1>8. ModsInv'
  BY <1>1, <1>2, <1>4, <1>6 DEF ModsInv
<1>9. FilesInv'
  BY <1>1, <1>2, <1>4, <1>6, <1>7 DEF FilesInv
<1>10. WrittenInv'
  <2>1. \A m, c, as : HasFile(m, c, as)' <=> HasFile(m, c, as)
    BY <1>1 DEF HasFile
  <2>2. (job.there)' = job.there
    BY <1>1
  <2>3. ASSUME end' \in {None, "done"}, job.there, NEW m \in Writers, Asks(m), ~Left(m),
               NEW c \in Listed(f.types), NEW as \in Due(m, c)
        PROVE  HasFile(m, c, as) \/ LeftOut(m, c, as)
    BY <1>1, <1>2, <1>6, <2>3 DEF WrittenInv
  <2> QED
    BY <1>1, <1>4, <1>7, <2>1, <2>2, <2>3 DEF WrittenInv
<1>11. TodoInv' /\ LinesInv'
  <2>1. CASE Fails
    BY <1>1, <1>2, <1>4, <2>1 DEF Fails, TodoInv, LinesInv
  <2>2. CASE \E nested : Goes(nested)
    <3>1. PICK nested : Goes(nested)
      BY <2>2
    <3>2. Moved(todo, nested, todo')
      BY <1>1, <1>5, <3>1, Moves DEF Goes
    <3>3. \A k \in DOMAIN nested : CallOf(mod, nested[k])
      BY <1>1, <3>1, NoneIs DEF Goes, CallOf
    <3>4. IsSeq(todo') /\ \A k \in DOMAIN todo' : CallOf(mod, todo'[k])
      BY <1>2, <3>2, <3>3 DEF Moved, TodoInv
    <3> QED
      <4>1. TodoInv'
        BY <1>1, <1>4, <3>1, <3>4 DEF Goes, TodoInv
      <4>2. LinesInv'
        <5>1. CASE shown' = shown
          BY <1>2, <1>4, <5>1 DEF LinesInv
        <5>2. CASE \E line : Says(line)
          <6>1. PICK line : Says(line)
            BY <5>2
          <6>2. IsSeq(shown') /\ \A k \in DOMAIN shown' : GoodLine(shown'[k])
            BY <1>2, <6>1, OneMore DEF Says, LinesInv
          <6> QED
            BY <1>4, <6>2 DEF LinesInv
        <5> QED
          BY <1>3, <5>1, <5>2 DEF PrintStep, SaysNothing, Fails
      <4> QED
        BY <4>1, <4>2
  <2> QED
    BY <1>3, <2>1, <2>2 DEF PrintStep
<1>12. EndInv'
  <2>1. CASE end' = end
    <3>1. end' = None /\ end' \notin BadEnds \cup {"done"}
      BY <1>1, <2>1, NoneAssumption
    <3> QED
      BY <3>1 DEF EndInv, BadEnds
  <2>2. CASE Fails
    BY <1>1, <1>4, <2>2 DEF Fails, EndInv, BadEnds
  <2> QED
    BY <1>3, <2>1, <2>2 DEF PrintStep
<1>13. OrderInv'
  <2> SUFFICES ASSUME Started'
               PROVE  Ordered(shown', IF mod = "entry" THEN todo' ELSE <<>>)
    BY <1>1, <1>4 DEF OrderInv
  <2>1. mod = "entry" /\ Started
    <3>1. end # "exit"
      BY <1>1, NoneAssumption DEF BadEnds
    <3>2. Started
      BY <1>1, <1>4, <1>7, <3>1 DEF Started
    <3>3. mod # "rdff"
      BY <1>2, <3>2 DEF Started, ModsInv, Modes
    <3> QED
      BY <1>1, <3>2, <3>3
  <2>2. Ordered(shown, todo)
    BY <1>2, <2>1 DEF OrderInv
  <2>3. CASE Fails
    BY <2>1, <2>2, <2>3 DEF Fails
  <2>4. ASSUME NEW nested, Goes(nested), NEW k \in DOMAIN nested
        PROVE  ~Top(nested[k])
    BY <2>4 DEF Goes, InnerCall, Top, Inner
  <2>5. ASSUME NEW nested, Goes(nested), SaysNothing
        PROVE  Ordered(shown', todo')
    <3>1. Ordered(shown, nested \o Tail(todo))
      BY <1>1, <1>5, <2>1, <2>2, <2>4, <2>5, OrderMoves DEF Goes, SaysNothing
    <3> QED
      BY <2>5, <3>1 DEF Goes, SaysNothing
  <2>6. ASSUME NEW nested, Goes(nested), NEW line, Says(line)
        PROVE  Ordered(shown', todo')
    <3>1. Ordered(Append(shown, line), nested \o Tail(todo))
      BY <1>1, <1>5, <2>2, <2>4, <2>6, OrderShows DEF Goes, Says
    <3> QED
      BY <2>6, <3>1 DEF Goes, Says
  <2> QED
    BY <1>3, <2>1, <2>3, <2>5, <2>6 DEF PrintStep
<1>14. EmptyInv'
  BY <1>1, <1>2, NoneAssumption DEF EmptyInv, NotEmpty, BadEnds
<1> QED
  BY <1>8, <1>9, <1>10, <1>11, <1>12, <1>13, <1>14 DEF ToolInv

------------------------------------------------------------------------------
(* One step of writing: all files that are due of the chunk, or no more of *)
(* the voices, or a bad end.                                               *)
NewFiles(c, new) ==
    /\ IsSeq(new)
    /\ \A k \in DOMAIN new : GoodFile(new[k]) /\ new[k].mod = mod /\ Named(new[k], c)
    /\ \A j, k \in DOMAIN new : new[j] = new[k] => j = k
AllDue(c, new) ==
    \A as \in Due(mod, c) : LeftOut(mod, c, as) \/ \E k \in DOMAIN new : new[k].as = as
NoneEmpty(new) == \A k \in DOMAIN new : NotEmpty(new[k])
GivesAll(c) == \E new : Writes(new) /\ NewFiles(c, new) /\ NoneEmpty(new) /\ AllDue(c, new)
CutVoice == Listed({"BVOC"}) # WholeOf({"BVOC"})
GivesUp(c) == mod = "voices" /\ c.type = "BVOC" /\ CutVoice /\ todo' = <<>> /\ UNCHANGED <<files, end>>
GoesDown(c) ==
    \E new, why : /\ Dies(new, why) /\ NewFiles(c, new)
                  /\ NoneEmpty(new) \/ why = "no picture"
                  /\ why \in BadEnds \ {"exit"} /\ Cause(why, mod)
WriteStep(c) == GivesAll(c) \/ GivesUp(c) \/ GoesDown(c)

(* The chunk that is to be written.                                        *)
Writing(c) == Working /\ mod \in Writers /\ c \in Listed(f.types)
Forms(c) == <<"xmi">> \o (IF Content(Header(c)).midi THEN Conversions ELSE <<>>)

LEMMA WrittenIs ==
    ASSUME NEW c, NEW as, NEW at
    PROVE  /\ Named(Written(c, as, at), c) /\ Written(c, as, at).mod = mod
           /\ Written(c, as, at).as = as /\ Written(c, as, at).at = at
  BY DEF Written, Named

LEMMA WrittenGood ==
    ASSUME NEW c, Writing(c), NEW as \in Due(mod, c), NEW at,
           \/ at = At(Header(c)) /\ ~Cut(Header(c))
           \/ at = 0 /\ Empty(mod, c, as)
    PROVE  GoodFile(Written(c, as, at))
<1>1. Working /\ c \in Listed(f.types)
  BY DEF Writing
<1>2. at \notin job.cut
  <2>1. 0 \notin job.cut /\ Header(c) # NotFound
    BY <1>1, FileIs, ListedIs
  <2>2. CASE at = At(Header(c)) /\ ~Cut(Header(c))
    BY <2>1, <2>2 DEF At, Cut
  <2>3. CASE at = 0
    BY <2>1, <2>3
  <2> QED
    BY <2>2, <2>3
<1> DEFINE w == Written(c, as, at)
<1>3. Named(w, c) /\ w.as = as /\ w.mod = mod /\ w.at = at
  BY DEF Written, Named
<1> HIDE DEF w
<1>4. w.at = At(Header(c)) \/ (w.at = 0 /\ Empty(w.mod, c, w.as))
  BY <1>3
<1>5. GoodFile(w)
  BY <1>1, <1>2, <1>3, <1>4 DEF GoodFile
<1> QED
  BY <1>5 DEF w

LEMMA WrittenWhole ==
    ASSUME NEW c, Writing(c), ~Cut(Header(c))
    PROVE  /\ \A as \in Due(mod, c) : GoodFile(Written(c, as, At(Header(c))))
           /\ \A as : NotEmpty(Written(c, as, At(Header(c))))
<1>1. At(Header(c)) # 0
  BY ListedIs DEF Writing, Place
<1>2. \A as : NotEmpty(Written(c, as, At(Header(c))))
  <2> DEFINE at == At(Header(c))
  <2> HIDE DEF at
  <2>1. at # 0
    BY <1>1 DEF at
  <2>2. \A as : NotEmpty(Written(c, as, at))
    BY <2>1 DEF NotEmpty, Written
  <2> QED
    BY <2>2 DEF at
<1> QED
  BY <1>2, WrittenGood

LEMMA NoFiles == ASSUME NEW c PROVE NewFiles(c, <<>>) /\ NoneEmpty(<<>>)
  BY NoneIs DEF NewFiles, NoneEmpty

LEMMA OneFile ==
    ASSUME NEW c, NEW as, NEW at, GoodFile(Written(c, as, at)), NotEmpty(Written(c, as, at))
    PROVE  NewFiles(c, <<Written(c, as, at)>>) /\ NoneEmpty(<<Written(c, as, at)>>)
<1> DEFINE w == Written(c, as, at)
           s == <<w>>
<1>1. IsSeq(s) /\ DOMAIN s = {1} /\ s[1] = w
  BY OneIs
<1>2. Named(w, c) /\ w.mod = mod
  BY DEF Named, Written
<1>3. GoodFile(w) /\ NotEmpty(w)
  OBVIOUS
<1> HIDE DEF s, w
<1>4. NewFiles(c, s) /\ NoneEmpty(s)
  BY <1>1, <1>2, <1>3 DEF NewFiles, NoneEmpty
<1> QED
  BY <1>4 DEF s, w

MadeFrom(c, n, forms, at, new) == new = [k \in 1 .. n |-> Written(c, forms[k], at[k])]
LEMMA ManyFiles ==
    ASSUME NEW c, NEW n \in Nat, NEW forms, NEW at,
           \A j, k \in 1 .. n : forms[j] = forms[k] => j = k,
           \A k \in 1 .. n : GoodFile(Written(c, forms[k], at[k])),
           NEW new, MadeFrom(c, n, forms, at, new)
    PROVE  /\ NewFiles(c, new)
           /\ (\A k \in 1 .. n : NotEmpty(Written(c, forms[k], at[k]))) => NoneEmpty(new)
<1>1. DOMAIN new = 1 .. n /\ \A k \in 1 .. n : new[k] = Written(c, forms[k], at[k])
  BY DEF MadeFrom
<1>2. IsSeq(new)
  <2>1. new = [k \in 1 .. n |-> new[k]]
    BY DEF MadeFrom
  <2> QED
    BY <1>1, <2>1, MadeIs
<1>3. \A k \in 1 .. n : Named(new[k], c) /\ new[k].mod = mod /\ new[k].as = forms[k]
  BY <1>1, WrittenIs
<1>4. \A j, k \in 1 .. n : new[j] = new[k] => j = k
  BY <1>3
<1> QED
  BY <1>1, <1>2, <1>3, <1>4 DEF NewFiles, NoneEmpty

LEMMA Skipped ==
    ASSUME NEW c, Skips, \A as \in Due(mod, c) : LeftOut(mod, c, as)
    PROVE  WriteStep(c)
<1>1. AllDue(c, <<>>)
  BY DEF AllDue
<1> QED
  BY <1>1, NoFiles DEF WriteStep, GivesAll, Skips

LEMMA DumpStep ==
    ASSUME NEW c, Writing(c), mod = "dump", dump_entry(c)
    PROVE  WriteStep(c)
<1> DEFINE at == IF Loads(Header(c)) THEN At(Header(c)) ELSE 0
           w == Written(c, "raw", at)
<1>1. Due(mod, c) = {"raw"}
  BY DEF Due
<1>2. GoodFile(w) /\ NotEmpty(w)
  <2>1. \/ at = At(Header(c)) /\ ~Cut(Header(c))
        \/ at = 0 /\ Empty(mod, c, "raw")
    BY DEF Loads, Empty
  <2> HIDE DEF at
  <2>2. GoodFile(w)
    BY <1>1, <2>1, WrittenGood
  <2>3. NotEmpty(w)
    BY WrittenIs DEF NotEmpty
  <2> QED
    BY <2>2, <2>3
<1>3. NewFiles(c, <<w>>) /\ NoneEmpty(<<w>>)
  BY <1>2, OneFile
<1>4. AllDue(c, <<w>>)
  <2>1. DOMAIN <<w>> = {1} /\ <<w>>[1] = w
    BY OneIs
  <2>2. w.as = "raw"
    BY WrittenIs
  <2> HIDE DEF w
  <2> QED
    BY <1>1, <2>1, <2>2 DEF AllDue
<1>5. Writes(<<w>>)
  BY DEF dump_entry
<1> QED
  BY <1>3, <1>4, <1>5 DEF WriteStep, GivesAll

LEMMA WholeIs ==
    ASSUME NEW c, Writing(c), NEW types
    PROVE  /\ c \in Listed(types) <=> c.type \in types
           /\ c \in WholeOf(types) <=> (c.type \in types /\ ~Cut(Header(c)))
<1>1. c \in Listed(types) <=> c.type \in types
  BY ListedIs, ListedAmong DEF Writing
<1> QED
  BY <1>1 DEF WholeOf

(* A directory that is not there.                                          *)
LEMMA NowhereStep ==
    ASSUME NEW c, ~job.there, mod # "dump", Dies(<<>>, "no file")
    PROVE  WriteStep(c)
<1>1. Cause("no file", mod)
  BY DEF Cause, Nowhere
<1> QED
  BY <1>1, NoFiles DEF WriteStep, GoesDown, BadEnds

LEMMA ImageStep ==
    ASSUME NEW c, Writing(c), mod = "images", gffmod_write_image(c)
    PROVE  WriteStep(c)
<1> DEFINE h == Header(c)
           frames == Content(h).frames
           bad == Undrawn(frames)
           Drawable == {"BMP", "ICON", "PORT"}
           good == c.type \in Drawable /\ ~Cut(h) /\ job.pals /\ h.length >= HeadSize
<1>1. /\ c \in Listed(Drawable) <=> c.type \in Drawable
      /\ c \in WholeOf(Drawable) <=> (c.type \in Drawable /\ ~Cut(h))
  BY WholeIs
<1>2. /\ c.type \in Drawable => Due(mod, c) = DOMAIN frames
      /\ Due(mod, c) # {} => c.type \in Drawable \cup {"TILE", "WALL"}
  BY DEF Due, Pictures
<1>9. \/ c.type \notin Drawable \/ ~job.pals \/ Cut(h)
      \/ h.length < HeadSize
      => \A as \in Due(mod, c) : LeftOut(mod, c, as)
  BY <1>2 DEF LeftOut
<1>3. h.length \in Nat /\ HeadSize \in Nat /\ StructSize \in Nat /\ HeadSize <= StructSize
  BY ListedIs, SizesAssumption DEF Writing, Headers
<1>4. Len(frames) \in Nat /\ DOMAIN frames = 1 .. Len(frames)
  BY ListedIs DEF Writing, Place, Content, Sequence
<1>5. bad \subseteq DOMAIN frames
  BY DEF Undrawn
<1>6. CASE c.type \notin Drawable \/ ~job.pals \/ Cut(h)
  <2>1. Skips
    BY <1>6 DEF gffmod_write_image
  <2> QED
    BY <1>6, <1>9, <2>1, Skipped
<1>7. CASE c.type \in Drawable /\ job.pals /\ ~Cut(h) /\ h.length < HeadSize
  <2>1. Skips \/ Dies(<<>>, "behind")
    BY <1>7 DEF gffmod_write_image
  <2>2. \A as \in Due(mod, c) : LeftOut(mod, c, as)
    BY <1>7, <1>9
  <2>3. Cause("behind", mod)
    <3>1. c \in Listed({"MONR", "WIND", "BMP", "ICON", "PORT"})
      BY <1>7, WholeIs
    <3>2. TooShort
      BY <1>3, <1>7, <3>1 DEF TooShort
    <3> QED
      BY <3>2 DEF Cause
  <2> QED
    BY <2>1, <2>2, <2>3, Skipped, NoFiles DEF WriteStep, GoesDown, BadEnds
<1>8. CASE good
  <2>1. ~(h.length < HeadSize)
    BY <1>3, <1>8
  <2>2. CASE frames = <<>>
    <3>1. Skips
      BY <1>8, <2>1, <2>2 DEF gffmod_write_image
    <3>2. \A as \in Due(mod, c) : LeftOut(mod, c, as)
      BY <1>2, <1>8, <2>2, NoneIs
    <3> QED
      BY <3>1, <3>2, Skipped
  <2>3. CASE frames # <<>> /\ ~job.there
    <3>1. Dies(<<>>, "no file")
      BY <1>8, <2>1, <2>3 DEF gffmod_write_image
    <3> QED
      BY <2>3, <3>1, NowhereStep
  <2>4. ASSUME NEW n \in Nat, n <= Len(frames),
               NEW at, \A k \in 1 .. n : at[k] = At(h) \/ (at[k] = 0 /\ k \in bad)
        PROVE  /\ NewFiles(c, [k \in 1 .. n |-> Written(c, k, at[k])])
               /\ (\A k \in 1 .. n : at[k] = At(h)) =>
                     NoneEmpty([k \in 1 .. n |-> Written(c, k, at[k])])
    <3> DEFINE forms == [k \in 1 .. n |-> k]
               new == [k \in 1 .. n |-> Written(c, k, at[k])]
    <3>1. \A k \in 1 .. n : k \in Due(mod, c)
      BY <1>2, <1>4, <1>8, <2>4
    <3>2. ASSUME NEW k \in 1 .. n
          PROVE  GoodFile(Written(c, k, at[k]))
      <4>1. \/ at[k] = At(h) /\ ~Cut(h)
            \/ at[k] = 0 /\ Empty(mod, c, k)
        BY <1>8, <2>4 DEF Empty
      <4> DEFINE ak == at[k]
      <4> HIDE DEF ak
      <4>2. GoodFile(Written(c, k, ak))
        BY <3>1, <4>1, WrittenGood DEF ak
      <4> QED
        BY <4>2 DEF ak
    <3>7. ASSUME \A k \in 1 .. n : at[k] = At(h), NEW k \in 1 .. n
          PROVE  NotEmpty(Written(c, k, at[k]))
      <4>1. NotEmpty(Written(c, k, At(h))) /\ at[k] = At(h)
        BY <1>8, <3>7, WrittenWhole
      <4> QED
        BY <4>1
    <3>3. \A k \in 1 .. n : forms[k] = k
      OBVIOUS
    <3>4. MadeFrom(c, n, forms, at, new)
      BY <3>3 DEF MadeFrom
    <3> HIDE DEF forms, new, h, bad
    <3>5. /\ \A j, k \in 1 .. n : forms[j] = forms[k] => j = k
          /\ \A k \in 1 .. n : GoodFile(Written(c, forms[k], at[k]))
          /\ (\A k \in 1 .. n : at[k] = At(h)) =>
                \A k \in 1 .. n : NotEmpty(Written(c, forms[k], at[k]))
      BY <3>2, <3>3, <3>7
    <3>6. NewFiles(c, new) /\ ((\A k \in 1 .. n : at[k] = At(h)) => NoneEmpty(new))
      BY <3>4, <3>5, ManyFiles
    <3> QED
      BY <3>6 DEF new, h
  <2>5. CASE frames # <<>> /\ job.there /\ bad # {}
    <3> DEFINE n == Min(bad)
               at == [k \in 1 .. n |-> IF k \in bad THEN 0 ELSE At(h)]
               new == [k \in 1 .. n |-> Written(c, k, at[k])]
    <3>1. Dies([k \in 1 .. n |-> IF k \in bad THEN Written(c, k, 0) ELSE Written(c, k, At(h))],
               "no picture")
      BY <1>8, <2>1, <2>5 DEF gffmod_write_image
    <3>2. n \in bad
      BY <1>4, <1>5, <2>5, MinIs
    <3> HIDE DEF bad, h, n
    <3>6. Dies(new, "no picture")
      <4>1. \A k \in 1 .. n : new[k] = IF k \in bad THEN Written(c, k, 0) ELSE Written(c, k, At(h))
        OBVIOUS
      <4>2. new = [k \in 1 .. n |-> IF k \in bad THEN Written(c, k, 0) ELSE Written(c, k, At(h))]
        BY <4>1
      <4> QED
        BY <3>1, <4>2
    <3>3. n \in Nat /\ n <= Len(frames)
      <4> HIDE DEF frames
      <4> QED
        BY <1>4, <1>5, <3>2
    <3>4. Cause("no picture", mod)
      <4>1. NoPicture
        BY <1>1, <1>8, <2>5 DEF NoPicture, bad, h
      <4> QED
        BY <4>1 DEF Cause
    <3>7. \A k \in 1 .. n : at[k] = At(h) \/ (at[k] = 0 /\ k \in bad)
      OBVIOUS
    <3> HIDE DEF at
    <3>5. NewFiles(c, new)
      BY <2>4, <3>3, <3>7
    <3> HIDE DEF new
    <3> QED
      BY <3>4, <3>5, <3>6 DEF WriteStep, GoesDown, BadEnds
  <2>6. CASE frames # <<>> /\ job.there /\ bad = {}
    <3> DEFINE at == [k \in 1 .. Len(frames) |-> At(h)]
               new == [k \in 1 .. Len(frames) |-> Written(c, k, at[k])]
    <3>1. Writes([k \in DOMAIN frames |-> Written(c, k, At(h))])
      BY <1>8, <2>1, <2>6 DEF gffmod_write_image
    <3>2. Writes(new)
      <4>1. [k \in DOMAIN frames |-> Written(c, k, At(h))] = new
        <5> HIDE DEF h, frames
        <5> QED
          BY <1>4
      <4> QED
        BY <3>1, <4>1
    <3>5. \A k \in 1 .. Len(frames) : at[k] = At(h)
      OBVIOUS
    <3>6. Len(frames) \in Nat /\ Len(frames) <= Len(frames)
      BY <1>4
    <3> HIDE DEF at
    <3>3. NewFiles(c, new) /\ NoneEmpty(new)
      <4> HIDE DEF h, frames, bad
      <4> QED
        BY <2>4, <3>5, <3>6
    <3>4. AllDue(c, new)
      <4>1. \A k \in 1 .. Len(frames) : new[k].as = k
        BY WrittenIs
      <4>2. DOMAIN new = 1 .. Len(frames)
        OBVIOUS
      <4> HIDE DEF new
      <4> QED
        BY <1>2, <1>4, <1>8, <4>1, <4>2 DEF AllDue
    <3> HIDE DEF new
    <3> QED
      BY <3>2, <3>3, <3>4 DEF WriteStep, GivesAll
  <2> QED
    BY <2>2, <2>3, <2>5, <2>6
<1> QED
  BY <1>3, <1>6, <1>7, <1>8

LEMMA OneAndThree ==
    ASSUME NEW x, IsSeq(x), NEW s, IsSeq(s)
    PROVE  Len(x) = 1 /\ Len(s) = 3 =>
           /\ IsSeq(x \o s) /\ Len(x \o s) = 4 /\ (x \o s)[1] = x[1]
           /\ (x \o s)[2] = s[1] /\ (x \o s)[3] = s[2] /\ (x \o s)[4] = s[3]
<1> DEFINE both == x \o s
<1>1. /\ IsSeq(both) /\ Len(both) = Len(x) + Len(s)
      /\ \A k \in 1 .. Len(x) : both[k] = x[k]
      /\ \A k \in 1 .. Len(s) : both[Len(x) + k] = s[k]
  BY ConcatIs
<1> HIDE DEF both
<1> SUFFICES ASSUME Len(x) = 1, Len(s) = 3
             PROVE  /\ IsSeq(both) /\ Len(both) = 4 /\ both[1] = x[1]
                    /\ both[2] = s[1] /\ both[3] = s[2] /\ both[4] = s[3]
  BY DEF both
<1>2. both[1] = x[1] /\ both[1 + 1] = s[1] /\ both[1 + 2] = s[2] /\ both[1 + 3] = s[3]
  BY <1>1
<1> QED
  BY <1>1, <1>2

LEMMA FormsAre ==
    ASSUME NEW c
    PROVE  \E n \in Nat :
             /\ DOMAIN Forms(c) = 1 .. n
             /\ \A j, k \in 1 .. n : Forms(c)[j] = Forms(c)[k] => j = k
             /\ {Forms(c)[k] : k \in 1 .. n} =
                   {"xmi"} \cup (IF Content(Header(c)).midi THEN ToSet(Conversions) ELSE {})
<1> DEFINE x == <<"xmi">>
           s == Conversions
           both == x \o s
<1>1. IsSeq(x) /\ Len(x) = 1 /\ x[1] = "xmi" /\ DOMAIN x = {1}
  BY OneIs
<1>2. IsSeq(s) /\ Len(s) = 3 /\ s[1] = "midi" /\ s[2] = "gm" /\ s[3] = "gs"
  <2>1. Conversions \in Seq({"midi", "gm", "gs"})
    BY DEF Conversions
  <2> QED
    BY <2>1 DEF Conversions, IsSeq
<1>3. DOMAIN s = 1 .. 3
  BY <1>2, SeqIs
<1> HIDE DEF x, s
<1>4. /\ Len(both) = 4 /\ IsSeq(both)
      /\ both[1] = "xmi" /\ both[2] = "midi" /\ both[3] = "gm" /\ both[4] = "gs"
  BY <1>1, <1>2, OneAndThree
<1>5. DOMAIN both = 1 .. 4
  BY <1>4, SeqIs
<1>6. ToSet(s) = {"midi", "gm", "gs"}
  BY <1>2, <1>3 DEF ToSet
<1>7. CASE Content(Header(c)).midi
  <2>1. Forms(c) = both
    BY <1>7 DEF Forms, both, x, s
  <2> HIDE DEF both
  <2>2. \A j, k \in 1 .. 4 : both[j] = both[k] => j = k
    BY <1>4
  <2>3. {both[k] : k \in 1 .. 4} = {"xmi", "midi", "gm", "gs"}
    BY <1>4
  <2>4. {"xmi"} \cup ToSet(Conversions) = {"xmi", "midi", "gm", "gs"}
    BY <1>6 DEF s
  <2> QED
    BY <1>5, <1>7, <2>1, <2>2, <2>3, <2>4
<1>8. CASE ~Content(Header(c)).midi
  <2>1. Forms(c) = x
    <3>1. Forms(c) = x \o <<>>
      BY <1>8 DEF Forms, x
    <3>2. PICK V : x \in Seq(V)
      BY <1>1 DEF IsSeq
    <3> QED
      BY <3>1, <3>2, ConcatEmptySeq
  <2>2. DOMAIN x = 1 .. 1 /\ {x[k] : k \in 1 .. 1} = {"xmi"} /\ \A j, k \in 1 .. 1 : j = k
    BY <1>1
  <2> QED
    BY <1>8, <2>1, <2>2
<1> QED
  BY <1>7, <1>8

LEMMA SongStep ==
    ASSUME NEW c, Writing(c), mod = "songs",
           IF c.type \in {"CSEQ", "GSEQ", "PSEQ", "LSEQ"} THEN gffmod_write_xmis(c) ELSE Skips
    PROVE  WriteStep(c)
<1> DEFINE h == Header(c)
           Songs == {"CSEQ", "GSEQ", "PSEQ", "LSEQ"}
           good == c.type \in Songs \ {"LSEQ"} /\ ~Cut(h)
           forms == Forms(c)
<1>2. PICK n \in Nat :
         /\ DOMAIN forms = 1 .. n
         /\ \A j, k \in 1 .. n : forms[j] = forms[k] => j = k
         /\ {forms[k] : k \in 1 .. n} =
               {"xmi"} \cup (IF Content(h).midi THEN ToSet(Conversions) ELSE {})
  BY FormsAre
<1>3. /\ c.type \notin Songs => Due(mod, c) = {}
      /\ c.type \in Songs => /\ \A k \in 1 .. n : forms[k] \in Due(mod, c)
                             /\ \A as \in Due(mod, c) :
                                   as = "gs127" \/ \E k \in 1 .. n : forms[k] = as
  BY <1>2 DEF Due
<1>7. ~good => \A as \in Due(mod, c) : LeftOut(mod, c, as)
  BY <1>3 DEF LeftOut
<1>4. CASE ~good
  <2>1. Skips
    BY <1>4 DEF gffmod_write_xmis
  <2> QED
    BY <1>4, <1>7, <2>1, Skipped
<1>5. CASE good /\ ~job.there
  <2>1. Dies(<<>>, "no file")
    BY <1>5 DEF gffmod_write_xmis
  <2> QED
    BY <1>5, <2>1, NowhereStep
<1>6. CASE good /\ job.there
  <2> DEFINE at == [k \in 1 .. n |-> At(h)]
             new == [k \in 1 .. n |-> Written(c, forms[k], at[k])]
  <2>1. Writes(new)
    <3>1. Writes([k \in DOMAIN forms |-> Written(c, forms[k], At(h))])
      BY <1>6 DEF gffmod_write_xmis, Forms
    <3>2. [k \in DOMAIN forms |-> Written(c, forms[k], At(h))] = new
      <4> HIDE DEF h, forms
      <4> QED
        BY <1>2
    <3> QED
      BY <3>1, <3>2
  <2>2. \A k \in 1 .. n : forms[k] \in Due(mod, c)
    BY <1>3, <1>6
  <2>3. \A k \in 1 .. n : /\ GoodFile(Written(c, forms[k], At(h)))
                          /\ NotEmpty(Written(c, forms[k], At(h)))
    BY <1>6, <2>2, WrittenWhole
  <2>9. \A k \in 1 .. n : at[k] = At(h)
    OBVIOUS
  <2> HIDE DEF at
  <2>4. \A k \in 1 .. n : new[k].as = forms[k]
    BY WrittenIs
  <2>5. DOMAIN new = 1 .. n
    OBVIOUS
  <2>8. MadeFrom(c, n, forms, at, new)
    BY DEF MadeFrom
  <2> HIDE DEF forms, h, new
  <2>10. \A k \in 1 .. n : /\ GoodFile(Written(c, forms[k], at[k]))
                           /\ NotEmpty(Written(c, forms[k], at[k]))
    BY <2>3, <2>9
  <2>11. n \in Nat /\ \A j, k \in 1 .. n : forms[j] = forms[k] => j = k
    BY <1>2
  <2>6. NewFiles(c, new) /\ NoneEmpty(new)
    BY <2>8, <2>10, <2>11, ManyFiles
  <2>7. AllDue(c, new)
    <3>1. ASSUME NEW as \in Due(mod, c), as # "gs127"
          PROVE  \E k \in DOMAIN new : new[k].as = as
      <4>1. c.type \in Songs
        BY <1>6
      <4>2. PICK k \in 1 .. n : forms[k] = as
        BY <1>3, <3>1, <4>1
      <4> QED
        BY <2>4, <2>5, <4>2
    <3>2. LeftOut(mod, c, "gs127")
      BY DEF LeftOut
    <3> QED
      BY <3>1, <3>2 DEF AllDue
  <2> QED
    BY <2>1, <2>6, <2>7 DEF WriteStep, GivesAll
<1> QED
  BY <1>4, <1>5, <1>6

LEMMA VoiceStep ==
    ASSUME NEW c, Writing(c), mod = "voices",
           IF c.type = "BVOC" THEN extract_bvoc(c) ELSE Skips
    PROVE  WriteStep(c)
<1> DEFINE h == Header(c)
           good == c.type = "BVOC" /\ ~Cut(h)
<1>1. /\ c \in WholeOf({"BVOC"}) <=> good
      /\ c \in Listed({"BVOC"}) <=> c.type = "BVOC"
  BY WholeIs
<1>2. Due(mod, c) = IF c.type = "BVOC" THEN {"bvoc"} ELSE {}
  BY DEF Due
<1>3. CASE c.type # "BVOC"
  BY <1>2, <1>3, Skipped
<1>4. CASE c.type = "BVOC" /\ Cut(h)
  <2>1. todo' = <<>> /\ UNCHANGED <<files, end>>
    BY <1>4 DEF extract_bvoc
  <2>2. CutVoice
    BY <1>1, <1>4 DEF CutVoice
  <2> QED
    BY <1>4, <2>1, <2>2 DEF WriteStep, GivesUp
<1>5. CASE good /\ ~job.there
  <2>1. Dies(<<>>, "no file")
    BY <1>5 DEF extract_bvoc
  <2> QED
    BY <1>5, <2>1, NowhereStep
<1>6. CASE good /\ job.there
  <2> DEFINE w == Written(c, "bvoc", At(h))
  <2>1. Writes(<<w>>)
    BY <1>6 DEF extract_bvoc
  <2>2. GoodFile(w) /\ NotEmpty(w)
    BY <1>2, <1>6, WrittenWhole
  <2>3. NewFiles(c, <<w>>) /\ NoneEmpty(<<w>>)
    BY <2>2, OneFile
  <2>4. AllDue(c, <<w>>)
    <3>1. DOMAIN <<w>> = {1} /\ <<w>>[1] = w
      BY OneIs
    <3>2. w.as = "bvoc"
      BY WrittenIs
    <3> HIDE DEF w
    <3> QED
      BY <1>2, <1>6, <3>1, <3>2 DEF AllDue
  <2> QED
    BY <2>1, <2>3, <2>4 DEF WriteStep, GivesAll
<1> QED
  BY <1>3, <1>4, <1>5, <1>6

LEMMA WriteSteps ==
    ASSUME NEW c, Writing(c), write(c)
    PROVE  WriteStep(c)
<1>1. CASE mod # "dump" /\ Len(Ids(c.type)) > IdsRoom
  <2>1. Dies(<<>>, "overflow")
    BY <1>1 DEF write
  <2>2. TooMany
    BY <1>1, ListedIs DEF Writing, TooMany
  <2>3. Cause("overflow", mod)
    BY <2>2 DEF Cause
  <2> QED
    BY <2>1, <2>3, NoFiles DEF WriteStep, GoesDown, BadEnds
<1>2. CASE ~(mod # "dump" /\ Len(Ids(c.type)) > IdsRoom)
  <2>1. CASE mod = "dump"
    BY <1>2, <2>1, DumpStep DEF write
  <2>2. CASE mod = "images"
    BY <1>2, <2>2, ImageStep DEF write
  <2>3. CASE mod = "songs"
    BY <1>2, <2>3, SongStep DEF write
  <2>4. CASE mod = "voices"
    BY <1>2, <2>4, VoiceStep DEF write
  <2> QED
    BY <2>1, <2>2, <2>3, <2>4 DEF Writing, Writers
<1> QED
  BY <1>1, <1>2

------------------------------------------------------------------------------
(* What the files of one chunk add to those before.                        *)
GoodFiles(fs) ==
    /\ IsSeq(fs)
    /\ \A k \in DOMAIN fs :
          /\ GoodFile(fs[k]) /\ fs[k].mod \in Writers /\ ~Left(fs[k].mod)
          /\ \A j \in 1 .. k - 1 : fs[j] # fs[k]
Unwritten(fs, c) == \A j \in DOMAIN fs : fs[j].mod = mod => ~Named(fs[j], c)

Joins(fs, c, new, u) ==
    /\ GoodFiles(u)
    /\ \A d : Unwritten(fs, d) /\ ~(c.type = d.type /\ c.id = d.id) => Unwritten(u, d)
    /\ \A k \in DOMAIN fs : \E l \in DOMAIN u : u[l] = fs[k]
    /\ \A k \in DOMAIN new : \E l \in DOMAIN u : u[l] = new[k]
    /\ \A k \in DOMAIN u :
          (\E l \in DOMAIN fs : u[k] = fs[l]) \/ (\E l \in DOMAIN new : u[k] = new[l])

LEMMA MoreFiles ==
    ASSUME NEW fs, GoodFiles(fs), NEW c, Unwritten(fs, c), NEW new, NewFiles(c, new),
           mod \in Writers, ~Left(mod)
    PROVE  Joins(fs, c, new, fs \o new)
<1> DEFINE u == fs \o new
<1>1. IsSeq(fs) /\ IsSeq(new)
  BY DEF GoodFiles, NewFiles
<1>2. /\ IsSeq(u) /\ Len(u) = Len(fs) + Len(new)
      /\ \A k \in 1 .. Len(fs) : u[k] = fs[k]
      /\ \A k \in 1 .. Len(new) : u[Len(fs) + k] = new[k]
      /\ \A k \in DOMAIN u : k \in DOMAIN fs \/ (k > Len(fs) /\ k - Len(fs) \in DOMAIN new)
  BY <1>1, ConcatIs
<1>3. /\ Len(fs) \in Nat /\ DOMAIN fs = 1 .. Len(fs) /\ Len(new) \in Nat /\ DOMAIN new = 1 .. Len(new)
      /\ Len(u) \in Nat /\ DOMAIN u = 1 .. Len(u)
  BY <1>1, <1>2, SeqIs
<1> HIDE DEF u
<1>4. ASSUME NEW k \in DOMAIN u
      PROVE  \/ k \in DOMAIN fs /\ u[k] = fs[k]
             \/ \E l \in DOMAIN new : k = Len(fs) + l /\ u[k] = new[l]
  <2>1. CASE k \in DOMAIN fs
    BY <1>2, <1>3, <2>1
  <2>2. CASE k - Len(fs) \in DOMAIN new
    <3>1. PICK l \in DOMAIN new : l = k - Len(fs)
      BY <2>2
    <3>2. k = Len(fs) + l
      BY <1>3, <3>1
    <3> QED
      BY <1>2, <1>3, <3>2
  <2> QED
    BY <1>2, <2>1, <2>2
<1>5. ASSUME NEW k \in DOMAIN u
      PROVE  GoodFile(u[k]) /\ u[k].mod \in Writers /\ ~Left(u[k].mod)
  BY <1>4 DEF GoodFiles, NewFiles
<1>6. ASSUME NEW k \in DOMAIN u, NEW j \in 1 .. k - 1
      PROVE  u[j] # u[k]
  <2>0. j \in DOMAIN u /\ j \in Nat /\ k \in Nat /\ j < k
    BY <1>3
  <2>1. CASE k \in DOMAIN fs /\ u[k] = fs[k]
    <3>1. j \in DOMAIN fs
      BY <1>3, <2>0, <2>1
    <3> QED
      BY <1>2, <1>3, <2>1, <3>1 DEF GoodFiles
  <2>2. ASSUME NEW l \in DOMAIN new, k = Len(fs) + l, u[k] = new[l]
        PROVE  u[j] # u[k]
    <3>1. CASE j \in DOMAIN fs /\ u[j] = fs[j]
      BY <2>2, <3>1 DEF NewFiles, Unwritten
    <3>2. ASSUME NEW n \in DOMAIN new, j = Len(fs) + n, u[j] = new[n]
          PROVE  u[j] # u[k]
      <4>1. n # l
        BY <1>3, <2>0, <2>2, <3>2
      <4> QED
        BY <2>2, <3>2, <4>1 DEF NewFiles
    <3> QED
      BY <1>4, <2>0, <3>1, <3>2
  <2> QED
    BY <1>4, <2>1, <2>2
<1>7. GoodFiles(u)
  BY <1>2, <1>5, <1>6 DEF GoodFiles
<1>8. ASSUME NEW d, Unwritten(fs, d), ~(c.type = d.type /\ c.id = d.id)
      PROVE  Unwritten(u, d)
  <2>1. \A l \in DOMAIN new : ~Named(new[l], d)
    BY <1>8 DEF NewFiles, Named
  <2> QED
    BY <1>4, <1>8, <2>1 DEF Unwritten
<1>9. /\ \A k \in DOMAIN fs : k \in DOMAIN u /\ u[k] = fs[k]
      /\ \A k \in DOMAIN new : Len(fs) + k \in DOMAIN u /\ u[Len(fs) + k] = new[k]
  BY <1>2, <1>3
<1>10. /\ \A k \in DOMAIN fs : \E l \in DOMAIN u : u[l] = fs[k]
       /\ \A k \in DOMAIN new : \E l \in DOMAIN u : u[l] = new[k]
  BY <1>9
<1>11. \A k \in DOMAIN u : (\E l \in DOMAIN fs : u[k] = fs[l]) \/ (\E l \in DOMAIN new : u[k] = new[l])
  BY <1>4
<1>12. Joins(fs, c, new, u)
  BY <1>7, <1>8, <1>10, <1>11 DEF Joins
<1> QED
  BY <1>12 DEF u

LEMMA Wrote ==
    ASSUME Working, ToolInv, f' = f, writing
    PROVE  ToolInv'
<1> DEFINE c == todo[1]
<1>1. /\ mod \in Writers /\ end = None /\ todo # <<>> /\ write(Head(todo))
      /\ job' = job /\ indent' = indent /\ shown' = shown /\ mods' = mods /\ mod' = mod
  BY DEF writing
<1>2. /\ ModsInv /\ TodoInv /\ LinesInv /\ OrderInv /\ FilesInv /\ EmptyInv /\ WrittenInv /\ EndInv
  BY DEF ToolInv
<1>3. /\ IsSeq(todo) /\ 1 \in DOMAIN todo /\ Head(todo) = c
      /\ IsSeq(Tail(todo)) /\ Len(Tail(todo)) = Len(todo) - 1 /\ Len(todo) \in Nat \ {0}
      /\ \A k \in DOMAIN Tail(todo) : k + 1 \in DOMAIN todo /\ Tail(todo)[k] = todo[k + 1]
  BY <1>1, <1>2, TailIs DEF TodoInv
<1>4. /\ DOMAIN todo = 1 .. Len(todo) /\ DOMAIN Tail(todo) = 1 .. Len(Tail(todo))
      /\ Len(Tail(todo)) \in Nat
  BY <1>3, SeqIs
<1>5. mod \in Modes /\ mod # None /\ mod \notin {"entry", "rdff"} /\ ~Left(mod)
  BY <1>1, <1>2, NoneAssumption DEF Modes, Writers, ModsInv, Left
<1>6. \A k \in DOMAIN todo : todo[k] \in Listed(f.types)
  BY <1>2, <1>5 DEF TodoInv, CallOf
<1>7. Writing(c)
  BY <1>1, <1>3, <1>6 DEF Writing
<1>8. WriteStep(c)
  BY <1>1, <1>3, <1>7, WriteSteps
<1>9. /\ \A m : Asks(m)' <=> Asks(m)
      /\ \A m, d : CallOf(m, d)' <=> CallOf(m, d)
      /\ \A s : GoodLine(s)' <=> GoodLine(s)
      /\ \A w : GoodFile(w)' <=> GoodFile(w)
      /\ \A m, d : Due(m, d)' = Due(m, d)
      /\ Listed(f.types)' = Listed(f.types)
      /\ \A m, d, as : LeftOut(m, d, as)' <=> LeftOut(m, d, as)
      /\ \A lines, calls : Ordered(lines, calls)' <=> Ordered(lines, calls)
      /\ \A why, m : Cause(why, m)' <=> Cause(why, m)
  BY <1>1, SameFile
<1>10. \A m : Left(m)' <=> Left(m)
  BY <1>1 DEF Left
<1>11. ModsInv' /\ LinesInv'
  BY <1>1, <1>2, <1>9 DEF ModsInv, LinesInv
<1>12. OrderInv'
  <2>1. end # "exit"
    BY <1>1, NoneAssumption DEF BadEnds
  <2>2. Started' => Started
    BY <1>1, <1>9, <1>10, <2>1 DEF Started
  <2> QED
    BY <1>1, <1>2, <1>5, <1>9, <2>2 DEF OrderInv
<1>13. TodoInv'
  <2>1. CASE UNCHANGED todo
    BY <1>1, <1>2, <1>9, <2>1 DEF TodoInv
  <2>2. CASE todo' = Tail(todo)
    <3>1. Level(Tail(todo), indent, 0)
      <4>1. c.by = 0
        BY <1>7, ListedIs DEF Writing
      <4>2. indent + c.by = indent
        BY <1>2, <4>1 DEF TodoInv
      <4>3. /\ c.type = "indent" => Level(Tail(todo), indent + c.by, 0)
            /\ c.type # "indent" => Level(Tail(todo), indent, 0)
        BY <1>1, <1>2, <1>3, LevelTail DEF TodoInv
      <4> HIDE DEF c
      <4> QED
        BY <4>2, <4>3
    <3>2. \A k \in DOMAIN Tail(todo) : CallOf(mod, Tail(todo)[k])
      BY <1>2, <1>3 DEF TodoInv
    <3> QED
      BY <1>1, <1>2, <1>3, <1>9, <2>2, <3>1, <3>2 DEF TodoInv
  <2>3. CASE GivesUp(c)
    <3>1. indent = 0
      <4>1. c.type # "indent" /\ c.depth = 0
        BY <1>7, <2>3, ListedIs DEF Writing, GivesUp
      <4>2. indent = 4 * c.depth
        BY <1>1, <1>2, <1>3, <4>1, LevelTail DEF TodoInv
      <4> QED
        BY <4>1, <4>2
    <3>2. Level(<<>>, 0, 0)
      BY LevelNone
    <3> QED
      BY <1>1, <2>3, <3>1, <3>2, NoneIs DEF TodoInv, GivesUp
  <2> QED
    BY <1>8, <2>1, <2>2, <2>3 DEF WriteStep, GivesAll, GoesDown, Writes, Dies
<1>14. GoodFiles(files) /\ \A k \in DOMAIN todo : Unwritten(files, todo[k])
  BY <1>1, <1>2 DEF FilesInv, GoodFiles, Unwritten
<1>15. \A j, k \in DOMAIN todo : todo[j] = todo[k] => j = k
  BY <1>1, <1>2 DEF FilesInv
<1>16. ASSUME NEW new, NewFiles(c, new), files' = files \o new
       PROVE  Joins(files, c, new, files')
  <2>1. Unwritten(files, c)
    BY <1>3, <1>14
  <2> HIDE DEF c
  <2>2. Joins(files, c, new, files \o new)
    BY <1>1, <1>5, <1>14, <1>16, <2>1, MoreFiles
  <2> QED
    BY <1>16, <2>2
<1>17. ASSUME GoodFiles(files'),
              end' = None => /\ \A j, k \in DOMAIN todo' : todo'[j] = todo'[k] => j = k
                             /\ \A k \in DOMAIN todo' : Unwritten(files', todo'[k])
       PROVE  FilesInv'
  BY <1>1, <1>9, <1>10, <1>17 DEF FilesInv, GoodFiles, Unwritten, Named
<1>18. FilesInv'
  <2>1. CASE GivesAll(c)
    <3>1. PICK new : Writes(new) /\ NewFiles(c, new)
      BY <2>1 DEF GivesAll
    <3>2. todo' = Tail(todo) /\ files' = files \o new
      BY <3>1 DEF Writes
    <3>5. Joins(files, c, new, files')
      BY <1>16, <3>1, <3>2
    <3>3. \A j, k \in DOMAIN Tail(todo) : Tail(todo)[j] = Tail(todo)[k] => j = k
      <4>1. ASSUME NEW j \in DOMAIN Tail(todo), NEW k \in DOMAIN Tail(todo),
                   Tail(todo)[j] = Tail(todo)[k]
            PROVE  j = k
        <5>1. j + 1 = k + 1
          BY <1>3, <1>15, <4>1
        <5> QED
          BY <1>4, <5>1
      <4> QED
        BY <4>1
    <3>4. ASSUME NEW k \in DOMAIN Tail(todo)
          PROVE  Unwritten(files', Tail(todo)[k])
      <4> DEFINE d == todo[k + 1]
      <4>1. k + 1 \in DOMAIN todo /\ Tail(todo)[k] = d /\ k + 1 # 1
        BY <1>3, <1>4
      <4>2. c # d
        BY <1>3, <1>15, <4>1
      <4>3. c = Call(c.type, c.id, "input", 0) /\ d = Call(d.type, d.id, "input", 0)
        BY <1>3, <1>6, <1>7, <4>1, ListedIs DEF Writing
      <4>4. Unwritten(files, d)
        BY <1>14, <4>1
      <4> HIDE DEF c, d
      <4>5. ~(c.type = d.type /\ c.id = d.id)
        BY <4>2, <4>3
      <4> QED
        BY <3>5, <4>1, <4>4, <4>5 DEF Joins
    <3> QED
      BY <1>17, <3>2, <3>3, <3>4, <3>5 DEF Joins
  <2>2. CASE GivesUp(c)
    BY <1>1, <1>14, <1>17, <2>2, NoneIs DEF GivesUp
  <2>3. CASE GoesDown(c)
    <3>1. PICK new, why : Dies(new, why) /\ NewFiles(c, new) /\ why \in BadEnds
      BY <2>3 DEF GoesDown
    <3>2. files' = files \o new /\ end' # None
      BY <3>1, NoneAssumption DEF Dies
    <3>3. Joins(files, c, new, files')
      BY <1>16, <3>1, <3>2
    <3> QED
      BY <1>17, <3>2, <3>3 DEF Joins
  <2> QED
    BY <1>8, <2>1, <2>2, <2>3 DEF WriteStep
<1>19. EndInv'
  <2>1. CASE end' = end
    <3>1. end' = None /\ end' \notin BadEnds \cup {"done"}
      BY <1>1, <2>1, NoneAssumption
    <3> QED
      BY <3>1 DEF EndInv, BadEnds
  <2>2. CASE GoesDown(c)
    <3>1. end' \in BadEnds \ {"exit"} /\ Cause(end', mod)
      BY <2>2 DEF GoesDown, Dies
    <3> QED
      BY <1>1, <1>9, <3>1 DEF EndInv, BadEnds
  <2> QED
    BY <1>8, <2>1, <2>2 DEF WriteStep, GivesAll, GivesUp, Writes
<1>20. WrittenInv'
  <2> SUFFICES ASSUME end' \in {None, "done"}, job.there, NEW m \in Writers, Asks(m), ~Left(m),
                      NEW d \in Listed(f.types), NEW as \in Due(m, d)
               PROVE  \/ HasFile(m, d, as)'
                      \/ LeftOut(m, d, as)
                      \/ m = mod /\ \E k \in DOMAIN todo' : todo'[k] = d
    <3>1. (job.there)' = job.there
      BY <1>1
    <3> QED
      BY <1>1, <1>9, <1>10, <3>1 DEF WrittenInv
  <2>1. CASE GivesAll(c)
    <3>1. PICK new : Writes(new) /\ NewFiles(c, new) /\ AllDue(c, new)
      BY <2>1 DEF GivesAll
    <3>2. todo' = Tail(todo) /\ files' = files \o new
      BY <3>1 DEF Writes
    <3>8. Joins(files, c, new, files')
      BY <1>16, <3>1, <3>2
    <3>3. CASE HasFile(m, d, as)
      <4>1. PICK k \in DOMAIN files : files[k].mod = m /\ Named(files[k], d) /\ files[k].as = as
        BY <3>3 DEF HasFile
      <4>2. PICK l \in DOMAIN files' : files'[l] = files[k]
        BY <3>8 DEF Joins
      <4> QED
        BY <4>1, <4>2 DEF HasFile, Named
    <3>4. CASE m = mod /\ d = c
      <4>0. SUFFICES ASSUME ~LeftOut(m, d, as)
                     PROVE  HasFile(m, d, as)'
        OBVIOUS
      <4>1. PICK k \in DOMAIN new : new[k].as = as /\ new[k].mod = m /\ Named(new[k], d)
        BY <3>1, <3>4, <4>0 DEF AllDue, NewFiles
      <4>2. PICK l \in DOMAIN files' : files'[l] = new[k]
        BY <3>8 DEF Joins
      <4> QED
        BY <4>1, <4>2 DEF HasFile, Named
    <3>5. ASSUME m = mod, NEW k \in DOMAIN todo, todo[k] = d, k # 1
          PROVE  \E l \in DOMAIN todo' : todo'[l] = d
      <4>1. k - 1 \in DOMAIN Tail(todo) /\ (k - 1) + 1 = k
        BY <1>3, <1>4, <3>5
      <4>2. Tail(todo)[k - 1] = todo[k]
        BY <1>3, <4>1
      <4> QED
        BY <3>2, <3>5, <4>1, <4>2
    <3>6. CASE LeftOut(m, d, as)
      BY <3>6
    <3>7. \/ HasFile(m, d, as)
          \/ LeftOut(m, d, as)
          \/ m = mod /\ \E k \in DOMAIN todo : todo[k] = d
      BY <1>1, <1>2 DEF WrittenInv
    <3> QED
      BY <3>2, <3>3, <3>4, <3>5, <3>6, <3>7
  <2>2. CASE GivesUp(c)
    <3>1. CASE HasFile(m, d, as)
      BY <2>2, <3>1 DEF HasFile, GivesUp, Named
    <3>2. m = mod => LeftOut(m, d, as)
      BY <2>2 DEF GivesUp, CutVoice, LeftOut
    <3> QED
      BY <1>1, <1>2, <3>1, <3>2 DEF WrittenInv
  <2>3. CASE GoesDown(c)
    BY <2>3, NoneAssumption DEF GoesDown, Dies, BadEnds
  <2> QED
    BY <1>8, <2>1, <2>2, <2>3 DEF WriteStep
<1>21. EmptyInv'
  <2>1. \A k \in DOMAIN files : NotEmpty(files[k])
    BY <1>1, <1>2, NoneAssumption DEF EmptyInv, BadEnds
  <2>2. CASE GivesAll(c)
    <3>1. PICK new : Writes(new) /\ NewFiles(c, new) /\ NoneEmpty(new)
      BY <2>2 DEF GivesAll
    <3>3. Joins(files, c, new, files')
      BY <1>16, <3>1 DEF Writes
    <3>2. \A k \in DOMAIN files' : NotEmpty(files'[k])
      BY <2>1, <3>1, <3>3 DEF Joins, NoneEmpty
    <3> QED
      BY <3>2 DEF EmptyInv, NotEmpty
  <2>3. CASE GivesUp(c)
    BY <2>1, <2>3 DEF GivesUp, EmptyInv, NotEmpty
  <2>4. CASE GoesDown(c)
    <3>1. PICK new, why : Dies(new, why) /\ NewFiles(c, new) /\ (NoneEmpty(new) \/ why = "no picture")
      BY <2>4 DEF GoesDown
    <3>2. files' = files \o new /\ end' = why
      BY <3>1 DEF Dies
    <3>3. CASE why = "no picture"
      BY <3>2, <3>3 DEF EmptyInv
    <3>4. CASE NoneEmpty(new)
      <4>2. Joins(files, c, new, files')
        BY <1>16, <3>1, <3>2
      <4>1. \A k \in DOMAIN files' : NotEmpty(files'[k])
        BY <2>1, <3>4, <4>2 DEF Joins, NoneEmpty
      <4> QED
        BY <4>1 DEF EmptyInv, NotEmpty
    <3> QED
      BY <3>1, <3>3, <3>4
  <2> QED
    BY <1>8, <2>2, <2>3, <2>4 DEF WriteStep
<1> QED
  BY <1>11, <1>12, <1>13, <1>18, <1>19, <1>20, <1>21 DEF ToolInv

------------------------------------------------------------------------------
(* What there is to do at first, and when something else is begun.         *)
LEMMA IdsAreSeq ==
    ASSUME Working, NEW t
    PROVE  IsSeq(Ids(t))
  BY FileIs, AllIds DEF IsSeq

LEMMA ChunksOfType ==
    ASSUME Working, NEW t \in f.types
    PROVE  LET s == [k \in DOMAIN Ids(t) |-> Call(t, Ids(t)[k], "input", 0)]
           IN  /\ IsSeq(s) /\ DOMAIN s = DOMAIN Ids(t)
               /\ \A k \in DOMAIN s : s[k] \in Listed({t}) /\ s[k].type = t /\ s[k].id = Ids(t)[k]
<1> DEFINE s == [k \in DOMAIN Ids(t) |-> Call(t, Ids(t)[k], "input", 0)]
<1>1. Len(Ids(t)) \in Nat /\ DOMAIN Ids(t) = 1 .. Len(Ids(t))
  BY IdsAreSeq, SeqIs
<1>2. DOMAIN s = 1 .. Len(Ids(t)) /\ s = [k \in 1 .. Len(Ids(t)) |-> s[k]]
  BY <1>1
<1>3. IsSeq(s)
  <2> HIDE DEF s
  <2> QED
    BY <1>1, <1>2, MadeIs
<1>4. \A k \in DOMAIN Ids(t) : s[k] = Call(t, Ids(t)[k], "input", 0)
  OBVIOUS
<1> HIDE DEF s
<1>5. \A k \in DOMAIN Ids(t) : s[k] \in Listed({t})
  BY <1>4, ListedBy
<1>6. ASSUME NEW k \in DOMAIN Ids(t)
      PROVE  s[k].type = t /\ s[k].id = Ids(t)[k]
  <2>1. s[k] = Call(t, Ids(t)[k], "input", 0)
    BY <1>4
  <2> QED
    BY <2>1 DEF Call
<1>7. /\ IsSeq(s) /\ DOMAIN s = DOMAIN Ids(t)
      /\ \A k \in DOMAIN s : s[k] \in Listed({t}) /\ s[k].type = t /\ s[k].id = Ids(t)[k]
  BY <1>1, <1>2, <1>3, <1>5, <1>6
<1> QED
  BY <1>7 DEF s

LEMMA AllChunksAre ==
    ASSUME Working
    PROVE  /\ IsSeq(AllChunks)
           /\ \A k \in DOMAIN AllChunks : AllChunks[k] \in Listed(f.types)
           /\ \A c \in Listed(f.types) : \E k \in DOMAIN AllChunks : AllChunks[k] = c
           /\ \A j, k \in DOMAIN AllChunks : AllChunks[j] = AllChunks[k] => j = k
<1> DEFINE N == Len(job.order)
           Of(t) == [k \in DOMAIN Ids(t) |-> Call(t, Ids(t)[k], "input", 0)]
           ss == [j \in 1 .. N |-> Of(job.order[j])]
<1>1. /\ N \in Nat /\ DOMAIN job.order = 1 .. N
      /\ \A j \in 1 .. N : job.order[j] \in f.types
      /\ \A t \in f.types : \E j \in 1 .. N : job.order[j] = t
      /\ \A j, k \in 1 .. N : job.order[j] = job.order[k] => j = k
      /\ WellFormed(f)
  BY FileIs
<1>2. AllChunks = FlattenSeq(ss)
  BY DEF AllChunks, ChunksOfTypes
<1>3. ASSUME NEW t \in f.types
      PROVE  /\ IsSeq(Of(t)) /\ DOMAIN Of(t) = DOMAIN Ids(t)
             /\ \A k \in DOMAIN Of(t) : Of(t)[k] \in Listed({t}) /\ Of(t)[k].type = t
                                        /\ Of(t)[k].id = Ids(t)[k]
  BY ChunksOfType
<1>4. DOMAIN ss = 1 .. N /\ ss = [j \in 1 .. N |-> ss[j]] /\ \A j \in 1 .. N : ss[j] = Of(job.order[j])
  OBVIOUS
<1> HIDE DEF Of, ss, N
<1>5. IsSeq(ss) /\ Len(ss) = N
  BY <1>1, <1>4, MadeIs
<1>10. ASSUME NEW j \in 1 .. N
       PROVE  /\ IsSeq(ss[j]) /\ DOMAIN ss[j] = DOMAIN Ids(job.order[j]) /\ job.order[j] \in f.types
              /\ \A k \in DOMAIN ss[j] : /\ ss[j][k] \in Listed({job.order[j]})
                                        /\ ss[j][k].type = job.order[j]
                                        /\ ss[j][k].id = Ids(job.order[j])[k]
  <2> DEFINE t == job.order[j]
  <2>1. ss[j] = Of(t) /\ t \in f.types
    BY <1>1, <1>4
  <2> HIDE DEF t
  <2>2. /\ IsSeq(Of(t)) /\ DOMAIN Of(t) = DOMAIN Ids(t)
        /\ \A k \in DOMAIN Of(t) : Of(t)[k] \in Listed({t}) /\ Of(t)[k].type = t
                                   /\ Of(t)[k].id = Ids(t)[k]
    BY <1>3, <2>1
  <2>3. /\ IsSeq(ss[j]) /\ DOMAIN ss[j] = DOMAIN Ids(t) /\ t \in f.types
        /\ \A k \in DOMAIN ss[j] : ss[j][k] \in Listed({t}) /\ ss[j][k].type = t
                                   /\ ss[j][k].id = Ids(t)[k]
    BY <2>1, <2>2
  <2> QED
    BY <2>3 DEF t
<1>6. FlatSoFar(ss, N, AllChunks)
  <2>1. \A k \in DOMAIN ss : IsSeq(ss[k])
    BY <1>4, <1>10
  <2>2. FlatSoFar(ss, Len(ss), FlattenSeq(ss))
    BY <1>5, <2>1, FlattenHas
  <2> QED
    BY <1>2, <1>5, <2>2
<1>7. Apart(ss)
  <2> SUFFICES ASSUME NEW a \in 1 .. N, NEW b \in 1 .. N, NEW x \in DOMAIN ss[a], NEW y \in DOMAIN ss[b],
                      ss[a][x] = ss[b][y]
               PROVE  a = b /\ x = y
    BY <1>4 DEF Apart
  <2>1. /\ ss[a][x].type = job.order[a] /\ ss[b][y].type = job.order[b]
        /\ ss[a][x].id = Ids(job.order[a])[x] /\ ss[b][y].id = Ids(job.order[b])[y]
        /\ x \in DOMAIN Ids(job.order[a]) /\ y \in DOMAIN Ids(job.order[b])
    BY <1>10
  <2>2. job.order[a] = job.order[b]
    BY <2>1
  <2>3. a = b
    BY <1>1, <2>2
  <2>4. x = y
    BY <1>1, <2>1, <2>2, IdsDiffer
  <2> QED
    BY <2>3, <2>4
<1>8. ASSUME NEW k \in DOMAIN AllChunks
      PROVE  AllChunks[k] \in Listed(f.types)
  <2>1. PICK j \in 1 .. N : \E i \in DOMAIN ss[j] : AllChunks[k] = ss[j][i]
    BY <1>6 DEF FlatSoFar
  <2>2. PICK i \in DOMAIN ss[j] : AllChunks[k] = ss[j][i]
    BY <2>1
  <2>3. job.order[j] \in f.types /\ ss[j][i] \in Listed({job.order[j]}) /\ ss[j][i].type = job.order[j]
    BY <1>10
  <2> QED
    BY <2>2, <2>3, ListedAmong
<1>9. ASSUME NEW c \in Listed(f.types)
      PROVE  \E k \in DOMAIN AllChunks : AllChunks[k] = c
  <2>1. c.type \in f.types /\ c = Call(c.type, c.id, "input", 0)
    BY ListedIs
  <2>2. PICK i \in DOMAIN Ids(c.type) : c.id = Ids(c.type)[i]
    BY ListedIs
  <2>3. PICK j \in 1 .. N : job.order[j] = c.type
    BY <1>1, <2>1
  <2>4. i \in DOMAIN ss[j] /\ ss[j][i] = c
    <3>1. i \in DOMAIN Of(c.type) /\ Of(c.type)[i] = Call(c.type, Ids(c.type)[i], "input", 0)
      BY DEF Of
    <3> QED
      BY <1>4, <2>1, <2>2, <2>3, <3>1
  <2> QED
    BY <1>6, <2>4 DEF FlatSoFar
<1> QED
  BY <1>6, <1>7, <1>8, <1>9 DEF FlatSoFar

LEMMA LevelEmpty ==
    ASSUME NEW a, NEW b, Level(<<>>, a, b)
    PROVE  a = b
<1>1. Len(<<>>) = 0
  BY NoneIs
<1> QED
  BY <1>1 DEF Level

(* All that a type holds is at depth 0.                                    *)
LEMMA ListedLevel ==
    ASSUME Working, NEW s, IsSeq(s), NEW types, \A k \in DOMAIN s : s[k] \in Listed(types)
    PROVE  Level(s, 0, 0)
<1>1. \A k \in DOMAIN s : s[k].by = 0 /\ s[k].depth = 0
  BY ListedIs
<1>2. \A k \in DOMAIN s : IF s[k].type = "indent" THEN s[k].by = 0 ELSE 4 * s[k].depth = 0
  BY <1>1
<1> QED
  BY <1>2, LevelEven

(* The ids of an entry, in their order.                                    *)
LEMMA EntryOrdered ==
    ASSUME Working, EntryType \in f.types, EntryType \in Printers,
           NEW calls,
           calls = [k \in DOMAIN Ids(EntryType) |-> Call(EntryType, Ids(EntryType)[k], "input", 0)]
    PROVE  /\ IsSeq(calls) /\ \A k \in DOMAIN calls : calls[k] \in Listed({EntryType})
           /\ Ordered(<<>>, calls)
<1> DEFINE t == EntryType
<1>1. /\ IsSeq(calls) /\ DOMAIN calls = DOMAIN Ids(t)
      /\ \A k \in DOMAIN calls : calls[k] \in Listed({t}) /\ calls[k].type = t /\ calls[k].id = Ids(t)[k]
  BY ChunksOfType
<1>2. \A k \in DOMAIN calls : Top(calls[k])
  <2>1. t # "indent"
    BY DEF Printers
  <2> QED
    BY <1>1, <2>1, ListedIs DEF Top
<1>3. Firsts(calls) = DOMAIN Ids(t) /\ Tops(<<>>) = {}
  BY <1>1, <1>2, NoneIs DEF Firsts, Tops
<1>4. \A k \in DOMAIN Ids(t) : EntryId(Ids(t)[k])
  BY DEF EntryId, ToSet
<1>5. \A i : EntryId(i) => \E k \in DOMAIN Ids(t) : Ids(t)[k] = i
  BY DEF EntryId, ToSet
<1>6. \A j, k \in DOMAIN Ids(t) : j < k => Later(Ids(t)[j], Ids(t)[k])
  BY DEF Later, InIdOrder
<1>7. Ordered(<<>>, calls)
  <2> HIDE DEF t
  <2> QED
    BY <1>1, <1>3, <1>4, <1>5, <1>6 DEF Ordered
<1> QED
  BY <1>1, <1>7

------------------------------------------------------------------------------
(* The next thing is begun, and what it starts with.                       *)
Starts ==
    \/ /\ mod' = "entry" /\ job.entry = None /\ todo' = todo /\ end' = end
       /\ IsSeq(shown') /\ \A k \in DOMAIN shown' : GoodLine(shown'[k])
    \/ /\ mod' = "entry" /\ job.entry # None /\ end' = end /\ shown' = shown
       /\ IsSeq(todo') /\ \A k \in DOMAIN todo' : todo'[k] \in Listed({EntryType})
       /\ EntryType \in Printers /\ Ordered(<<>>, todo')
    \/ mod' = "entry" /\ end' = "exit" /\ NoEntry /\ todo' = todo /\ shown' = shown
    \/ /\ mod' = "rdff" /\ end' = end /\ shown' = shown
       /\ IsSeq(todo') /\ \A k \in DOMAIN todo' :
             todo'[k].type = "RDFF" /\ todo'[k].depth = 0 /\ todo'[k].by = 0
    \/ /\ mod' \in Writers /\ end' = end /\ shown' = shown
       /\ todo' = IF mod' # "dump" \/ job.there THEN AllChunks ELSE <<>>

LEMMA EntryStarts ==
    ASSUME Working, todo = <<>>, shown = <<>>, end = None, mod' = "entry", job.entry # None,
           gffmod_print_entry
    PROVE  Starts
<1> DEFINE index == EntryIndex(job.entry)
           t == job.order[index + 1]
           ids == Ids(t)
<1>1. t = EntryType
  BY DEF EntryType
<1>2. \A k \in DOMAIN ids : Find(t, ids[k]) # NotFound
  BY IdIsPlaced, MarksAssumption
<1>3. CASE index \in 0 .. Len(job.order) - 1 /\ t \in Printers
  <2>1. /\ todo' = [k \in DOMAIN ids |-> Call(t, ids[k], "input", 0)]
        /\ shown' = shown /\ end' = end
    BY <1>2, <1>3 DEF gffmod_print_entry
  <2>2. index + 1 \in DOMAIN job.order
    <3>1. Len(job.order) \in Nat /\ DOMAIN job.order = 1 .. Len(job.order)
      BY FileIs
    <3> HIDE DEF index
    <3> QED
      BY <1>3, <3>1
  <2>3. t \in f.types
    BY <2>2, FileIs
  <2>4. todo' = [k \in DOMAIN Ids(EntryType) |-> Call(EntryType, Ids(EntryType)[k], "input", 0)]
    BY <1>1, <2>1
  <2>5. EntryType \in f.types /\ EntryType \in Printers
    BY <1>1, <1>3, <2>3
  <2>6. /\ IsSeq(todo') /\ \A k \in DOMAIN todo' : todo'[k] \in Listed({EntryType})
        /\ Ordered(<<>>, todo')
    <3> HIDE DEF t, ids, index
    <3> QED
      BY <2>4, <2>5, EntryOrdered
  <2> QED
    BY <2>1, <2>5, <2>6 DEF Starts
<1>4. CASE ~(index \in 0 .. Len(job.order) - 1 /\ t \in Printers)
  <2>1. Ends("exit")
    BY <1>4 DEF gffmod_print_entry
  <2>2. NoEntry
    BY <1>1, <1>4 DEF NoEntry
  <2> QED
    BY <2>1, <2>2 DEF Starts, Ends
<1> QED
  BY <1>3, <1>4

LEMMA TableStarts ==
    ASSUME Working, LinesInv, end = None, mod' = "entry", job.entry = None, print_table_of_contents
    PROVE  Starts
<1> DEFINE new == [k \in DOMAIN job.order |->
                     [type |-> job.order[k], id |-> k - 1, file |-> "input", depth |-> 0,
                      indent |-> 0, is |-> "entry", at |-> 0, parts |-> <<>>]]
           u == shown \o new
<1>1. shown' = u /\ todo' = todo /\ end' = end
  BY DEF print_table_of_contents
<1>2. Len(job.order) \in Nat /\ DOMAIN job.order = 1 .. Len(job.order)
  BY FileIs
<1>3. DOMAIN new = 1 .. Len(job.order) /\ new = [k \in 1 .. Len(job.order) |-> new[k]]
  BY <1>2
<1>4. \A k \in DOMAIN new : new[k].indent = 0 /\ new[k].depth = 0 /\ new[k].is = "entry"
  OBVIOUS
<1> HIDE DEF new
<1>5. IsSeq(new) /\ IsSeq(shown)
  BY <1>2, <1>3, MadeIs DEF LinesInv
<1>6. \A k \in DOMAIN new : GoodLine(new[k])
  BY <1>4 DEF GoodLine
<1>7. /\ IsSeq(u)
      /\ \A k \in 1 .. Len(shown) : u[k] = shown[k]
      /\ \A k \in 1 .. Len(new) : u[Len(shown) + k] = new[k]
      /\ \A k \in DOMAIN u : k \in DOMAIN shown \/ (k > Len(shown) /\ k - Len(shown) \in DOMAIN new)
  BY <1>5, ConcatIs
<1>8. /\ Len(shown) \in Nat /\ DOMAIN shown = 1 .. Len(shown) /\ Len(new) \in Nat /\ DOMAIN new = 1 .. Len(new)
      /\ Len(u) \in Nat /\ DOMAIN u = 1 .. Len(u)
  BY <1>5, <1>7, SeqIs
<1> HIDE DEF u
<1>9. ASSUME NEW k \in DOMAIN u
      PROVE  GoodLine(u[k])
  <2>1. CASE k \in DOMAIN shown
    BY <1>7, <1>8, <2>1 DEF LinesInv
  <2>2. CASE k - Len(shown) \in DOMAIN new
    <3>1. PICK l \in DOMAIN new : l = k - Len(shown)
      BY <2>2
    <3>2. k = Len(shown) + l
      BY <1>8, <3>1
    <3> QED
      BY <1>6, <1>7, <1>8, <3>2
  <2> QED
    BY <1>7, <2>1, <2>2
<1> QED
  BY <1>1, <1>7, <1>9 DEF Starts

LEMMA ModStarts ==
    ASSUME Working, ToolInv, do_mods, mods # <<>>
    PROVE  /\ Starts /\ mod' = Head(mods) /\ mods' = Tail(mods) /\ indent' = indent
           /\ end = None /\ todo = <<>> /\ job' = job /\ files' = files
<1>1. /\ mod' = Head(mods) /\ mods' = Tail(mods) /\ end = None /\ todo = <<>>
      /\ job' = job /\ files' = files
  BY DEF do_mods
<1>2. CASE mod' = "entry" /\ job.entry = None
  <2>1. print_table_of_contents
    BY <1>2 DEF do_mods
  <2> QED
    BY <1>1, <1>2, <2>1, TableStarts DEF ToolInv, print_table_of_contents
<1>3. CASE mod' = "entry" /\ job.entry # None
  <2>1. gffmod_print_entry
    BY <1>3 DEF do_mods
  <2>2. shown = <<>>
    <3>1. 1 \in DOMAIN mods /\ mods[1] = "entry"
      BY <1>1, <1>3, TailIs DEF ToolInv, ModsInv
    <3> QED
      BY <3>1 DEF ToolInv, ModsInv
  <2>3. indent' = indent
    BY <2>1 DEF gffmod_print_entry, Ends
  <2> QED
    BY <1>1, <1>3, <2>1, <2>2, <2>3, EntryStarts
<1>4. CASE mod' = "rdff"
  <2> DEFINE c == Call("RDFF", job.rdff, "input", 0)
  <2>1. todo' = <<c>> /\ indent' = indent /\ shown' = shown /\ end' = end
    BY <1>4 DEF do_mods
  <2>2. IsSeq(<<c>>) /\ DOMAIN <<c>> = {1} /\ <<c>>[1] = c
    BY OneIs
  <2>3. c.type = "RDFF" /\ c.depth = 0 /\ c.by = 0
    BY DEF Call
  <2> HIDE DEF c
  <2> QED
    BY <1>1, <1>4, <2>1, <2>2, <2>3 DEF Starts
<1>5. CASE mod' \in Writers
  <2>1. todo' = IF mod' # "dump" \/ job.there THEN AllChunks ELSE <<>>
    BY <1>5 DEF do_mods, Writers
  <2>2. indent' = indent /\ shown' = shown /\ end' = end
    BY <1>5 DEF do_mods, Writers
  <2> QED
    BY <1>1, <1>5, <2>1, <2>2 DEF Starts
<1>6. mod' \in Modes
  <2>1. 1 \in DOMAIN mods /\ Head(mods) = mods[1]
    BY TailIs DEF ToolInv, ModsInv
  <2> QED
    BY <1>1, <2>1 DEF ToolInv, ModsInv
<1> QED
  BY <1>2, <1>3, <1>4, <1>5, <1>6 DEF Modes

LEMMA Begun ==
    ASSUME Working, ToolInv, f' = f, do_mods, mods # <<>>
    PROVE  ToolInv'
<1>1. /\ Starts /\ mod' = Head(mods) /\ mods' = Tail(mods) /\ indent' = indent
      /\ end = None /\ todo = <<>> /\ job' = job /\ files' = files
  BY ModStarts
<1>2. /\ ModsInv /\ TodoInv /\ LinesInv /\ OrderInv /\ FilesInv /\ EmptyInv /\ WrittenInv /\ EndInv
  BY DEF ToolInv
<1>3. /\ mod' = mods[1] /\ 1 \in DOMAIN mods /\ IsSeq(mods') /\ Len(mods') = Len(mods) - 1
      /\ \A k \in DOMAIN mods' : k + 1 \in DOMAIN mods /\ mods'[k] = mods[k + 1]
  BY <1>1, <1>2, TailIs DEF ModsInv
<1>4. DOMAIN mods = 1 .. Len(mods) /\ DOMAIN mods' = 1 .. Len(mods') /\ Len(mods) \in Nat /\ Len(mods') \in Nat
  BY <1>2, <1>3, SeqIs DEF ModsInv
<1>5. /\ \A m : Asks(m)' <=> Asks(m)
      /\ \A m, c : CallOf(m, c)' <=> CallOf(m, c)
      /\ \A s : GoodLine(s)' <=> GoodLine(s)
      /\ \A w : GoodFile(w)' <=> GoodFile(w)
      /\ \A m, c : Due(m, c)' = Due(m, c)
      /\ Listed(f.types)' = Listed(f.types)
      /\ \A m, c, as : LeftOut(m, c, as)' <=> LeftOut(m, c, as)
      /\ \A lines, calls : Ordered(lines, calls)' <=> Ordered(lines, calls)
      /\ \A why, m : Cause(why, m)' <=> Cause(why, m)
  BY <1>1, SameFile
<1>6. mod' \in Modes /\ Asks(mod') /\ Left(mod')
  BY <1>2, <1>3 DEF ModsInv, Left
<1>7. ASSUME NEW k \in DOMAIN mods'
      PROVE  /\ mods'[k] \in Modes /\ Asks(mods'[k]) /\ mods'[k] # mod' /\ mods'[k] # "entry"
  <2>1. k + 1 # 1
    BY <1>4
  <2> QED
    BY <1>2, <1>3, <2>1 DEF ModsInv
<1>8. ASSUME NEW j \in DOMAIN mods', NEW k \in DOMAIN mods', mods'[j] = mods'[k]
      PROVE  j = k
  <2>1. j + 1 = k + 1
    BY <1>2, <1>3, <1>8 DEF ModsInv
  <2> QED
    BY <1>4, <2>1
<1>9. ModsInv'
  BY <1>3, <1>5, <1>6, <1>7, <1>8 DEF ModsInv
<1>10. ASSUME NEW m
       PROVE  /\ Left(m)' => Left(m) /\ m # mod' /\ m # "entry"
              /\ Left(m) => Left(m)' \/ m = mod'
  <2>1. Left(m)' => Left(m)
    BY <1>3 DEF Left
  <2>2. ASSUME NEW k \in DOMAIN mods, mods[k] = m, k # 1
        PROVE  Left(m)'
    <3>1. k - 1 \in DOMAIN mods' /\ (k - 1) + 1 = k
      BY <1>3, <1>4, <2>2
    <3>2. mods'[k - 1] = mods[k]
      BY <1>3, <3>1
    <3> QED
      BY <2>2, <3>1, <3>2 DEF Left
  <2>3. Left(m) => Left(m)' \/ m = mod'
    BY <1>3, <2>2 DEF Left
  <2>4. Left(m)' => m # mod' /\ m # "entry"
    BY <1>7 DEF Left
  <2> QED
    BY <2>1, <2>3, <2>4
<1>12. indent = 0
  BY <1>1, <1>2, LevelEmpty DEF TodoInv
<1>13. TodoInv'
  <2>1. ASSUME IsSeq(todo'), Level(todo', 0, 0), \A k \in DOMAIN todo' : CallOf(mod', todo'[k])
        PROVE  TodoInv'
    BY <1>1, <1>5, <1>12, <2>1 DEF TodoInv
  <2>2. CASE todo' = <<>>
    BY <2>1, <2>2, NoneIs, LevelNone
  <2>3. CASE /\ IsSeq(todo') /\ \A k \in DOMAIN todo' : todo'[k] \in Listed({EntryType})
             /\ EntryType \in Printers /\ mod' = "entry"
    BY <2>1, <2>3, ListedLevel DEF CallOf
  <2>4. CASE mod' \in Writers /\ todo' = AllChunks
    BY <2>1, <2>4, AllChunksAre, ListedLevel DEF CallOf
  <2>5. CASE /\ mod' = "rdff" /\ IsSeq(todo')
             /\ \A k \in DOMAIN todo' : todo'[k].type = "RDFF" /\ todo'[k].depth = 0 /\ todo'[k].by = 0
    <3>1. \A k \in DOMAIN todo' : IF todo'[k].type = "indent" THEN todo'[k].by = 0 ELSE 4 * todo'[k].depth = 0
      BY <2>5
    <3>2. Level(todo', 0, 0)
      BY <2>5, <3>1, LevelEven
    <3> QED
      BY <2>1, <2>5, <3>2 DEF CallOf
  <2> QED
    BY <1>1, <2>2, <2>3, <2>4, <2>5 DEF Starts
<1>14. LinesInv'
  BY <1>1, <1>2, <1>5 DEF Starts, LinesInv
<1>15. OrderInv'
  <2> SUFFICES ASSUME Started'
               PROVE  Ordered(shown', IF mod' = "entry" THEN todo' ELSE <<>>)
    BY <1>5 DEF OrderInv
  <2>1. end' # "exit" /\ job.entry # None /\ Asks("entry") /\ ~Asks("rdff")
    BY <1>1, <1>5 DEF Started
  <2>2. mod' # "rdff"
    BY <1>6, <2>1
  <2>3. CASE mod' = "entry"
    <3>1. shown = <<>>
      BY <1>2, <1>3, <2>3 DEF ModsInv
    <3> QED
      BY <1>1, <2>1, <2>3, <3>1 DEF Starts, Writers
  <2>4. CASE mod' \in Writers
    <3>1. mod' # "entry" /\ ~Left("entry")
      BY <1>10, <2>4 DEF Writers
    <3>2. end # "exit"
      BY <1>1, NoneAssumption DEF BadEnds
    <3>3. Started
      BY <2>1, <3>1, <3>2 DEF Started
    <3>4. shown' = shown
      BY <1>1, <2>4 DEF Starts, Writers
    <3>5. Ordered(shown, <<>>)
      BY <1>1, <1>2, <3>3 DEF OrderInv
    <3> QED
      BY <3>1, <3>4, <3>5
  <2> QED
    BY <1>6, <2>2, <2>3, <2>4 DEF Modes
<1>16. mod' \in Writers => todo' = <<>> \/ todo' = AllChunks
  BY <1>1 DEF Starts, Writers
<1>17. FilesInv'
  <2>1. \A k \in DOMAIN files : files[k].mod # mod'
    BY <1>2, <1>6 DEF FilesInv
  <2>2. mod' \in Writers => \A j, k \in DOMAIN todo' : todo'[j] = todo'[k] => j = k
    BY <1>16, AllChunksAre, NoneIs
  <2>3. ASSUME NEW k \in DOMAIN files'
        PROVE  /\ GoodFile(files[k])' /\ files'[k].mod \in Writers /\ ~Left(files[k].mod)'
               /\ \A j \in 1 .. k - 1 : files'[j] # files'[k]
    <3>1. ~Left(files[k].mod) /\ files'[k] = files[k]
      BY <1>1, <1>2 DEF FilesInv
    <3>2. ~Left(files[k].mod)'
      BY <1>10, <3>1
    <3> QED
      BY <1>1, <1>2, <1>5, <3>2 DEF FilesInv
  <2>4. \A j \in DOMAIN files' : files'[j].mod # mod'
    BY <1>1, <2>1
  <2> QED
    BY <1>1, <1>2, <2>2, <2>3, <2>4 DEF FilesInv
<1>18. WrittenInv'
  <2>1. \A m, c, as : HasFile(m, c, as)' <=> HasFile(m, c, as)
    BY <1>1 DEF HasFile
  <2>2. (job.there)' = job.there
    BY <1>1
  <2>3. ASSUME job.there, NEW m \in Writers, Asks(m), ~Left(m)',
               NEW c \in Listed(f.types), NEW as \in Due(m, c)
        PROVE  \/ HasFile(m, c, as)
               \/ LeftOut(m, c, as)
               \/ m = mod' /\ \E k \in DOMAIN todo' : todo'[k] = c
    <3>1. CASE m = mod'
      <4>1. todo' = AllChunks
        BY <1>1, <2>3, <3>1 DEF Starts, Writers
      <4> QED
        BY <2>3, <3>1, <4>1, AllChunksAre
    <3>2. CASE ~Left(m)
      BY <1>1, <1>2, <2>3, <3>2, NoneIs DEF WrittenInv
    <3> QED
      BY <1>10, <2>3, <3>1, <3>2
  <2> QED
    BY <1>5, <2>1, <2>2, <2>3 DEF WrittenInv
<1>19. EndInv'
  <2>1. CASE end' = end
    <3>1. end' = None /\ end' \notin BadEnds \cup {"done"}
      BY <1>1, <2>1, NoneAssumption
    <3> QED
      BY <3>1 DEF EndInv, BadEnds
  <2>2. CASE mod' = "entry" /\ end' = "exit" /\ NoEntry /\ shown' = shown
    <3>1. shown = <<>>
      BY <1>2, <1>3, <2>2 DEF ModsInv
    <3>2. Cause(end', mod')
      BY <2>2 DEF Cause
    <3> QED
      BY <1>5, <2>2, <3>1, <3>2 DEF EndInv
  <2> QED
    BY <1>1, <2>1, <2>2 DEF Starts
<1>20. EmptyInv'
  <2>1. \A k \in DOMAIN files : NotEmpty(files[k])
    BY <1>1, <1>2, NoneAssumption DEF EmptyInv, BadEnds
  <2> QED
    BY <1>1, <2>1 DEF EmptyInv, NotEmpty
<1> QED
  BY <1>9, <1>13, <1>14, <1>15, <1>17, <1>18, <1>19, <1>20 DEF ToolInv

LEMMA Done ==
    ASSUME Working, ToolInv, f' = f, do_mods, mods = <<>>
    PROVE  ToolInv'
<1>1. /\ end' = "done" /\ end = None /\ todo = <<>>
      /\ todo' = todo /\ indent' = indent /\ shown' = shown /\ mods' = mods /\ mod' = mod
      /\ job' = job /\ files' = files
  BY DEF do_mods
<1>2. /\ ModsInv /\ TodoInv /\ LinesInv /\ OrderInv /\ FilesInv /\ EmptyInv /\ WrittenInv /\ EndInv
  BY DEF ToolInv
<1>3. /\ \A m : Asks(m)' <=> Asks(m)
      /\ \A m, c : CallOf(m, c)' <=> CallOf(m, c)
      /\ \A s : GoodLine(s)' <=> GoodLine(s)
      /\ \A w : GoodFile(w)' <=> GoodFile(w)
      /\ \A m, c : Due(m, c)' = Due(m, c)
      /\ Listed(f.types)' = Listed(f.types)
      /\ \A m, c, as : LeftOut(m, c, as)' <=> LeftOut(m, c, as)
      /\ \A lines, calls : Ordered(lines, calls)' <=> Ordered(lines, calls)
      /\ \A m : Left(m)' <=> Left(m)
      /\ \A m, c, as : HasFile(m, c, as)' <=> HasFile(m, c, as)
      /\ (job.there)' = job.there
  BY <1>1, SameFile DEF Left, HasFile
<1>4. ModsInv' /\ TodoInv' /\ LinesInv'
  BY <1>1, <1>2, <1>3 DEF ModsInv, TodoInv, LinesInv
<1>5. OrderInv'
  <2>1. end # "exit"
    BY <1>1, NoneAssumption DEF BadEnds
  <2>2. Started' => Started
    BY <1>1, <1>3, <2>1 DEF Started
  <2> QED
    BY <1>1, <1>2, <1>3, <2>2 DEF OrderInv
<1>6. FilesInv'
  BY <1>1, <1>2, <1>3, NoneIs DEF FilesInv
<1>7. WrittenInv'
  <2>1. ASSUME job.there, NEW m \in Writers, Asks(m), ~Left(m),
               NEW c \in Listed(f.types), NEW as \in Due(m, c)
        PROVE  HasFile(m, c, as) \/ LeftOut(m, c, as)
    BY <1>1, <1>2, <2>1, NoneIs DEF WrittenInv
  <2> QED
    BY <1>3, <2>1 DEF WrittenInv
<1>8. EndInv'
  BY <1>1, mods = <<>> DEF EndInv
<1>9. EmptyInv'
  <2>1. \A k \in DOMAIN files : NotEmpty(files[k])
    BY <1>1, <1>2, NoneAssumption DEF EmptyInv, BadEnds
  <2> QED
    BY <1>1, <2>1 DEF EmptyInv, NotEmpty
<1> QED
  BY <1>4, <1>5, <1>6, <1>7, <1>8, <1>9 DEF ToolInv

------------------------------------------------------------------------------
(* What was asked for, once each.                                          *)
ListOf(s, S) ==
    /\ IsSeq(s) /\ \A k \in DOMAIN s : s[k] \in S /\ Asks(s[k]) /\ (s[k] = "entry" => k = 1)
    /\ \A j, k \in DOMAIN s : s[j] = s[k] => j = k
    /\ \A m \in S : Asks(m) => \E k \in DOMAIN s : s[k] = m

LEMMA AskedFirst == ListOf(IfAsked("entry"), {"entry"})
<1>1. CASE Asks("entry")
  <2> DEFINE s == <<"entry">>
  <2>1. IsSeq(s) /\ DOMAIN s = {1} /\ s[1] = "entry"
    BY OneIs
  <2>2. IfAsked("entry") = s
    BY <1>1 DEF IfAsked
  <2> HIDE DEF s
  <2> QED
    BY <1>1, <2>1, <2>2 DEF ListOf
<1>2. CASE ~Asks("entry")
  BY <1>2, NoneIs DEF ListOf, IfAsked
<1> QED
  BY <1>1, <1>2

LEMMA AskedNext ==
    ASSUME NEW s, NEW S, ListOf(s, S), NEW m, m \notin S, m # "entry"
    PROVE  ListOf(s \o IfAsked(m), S \cup {m})
<1>1. CASE Asks(m)
  <2> DEFINE t == <<m>>
             u == s \o t
  <2>1. IsSeq(t) /\ Len(t) = 1 /\ DOMAIN t = {1} /\ t[1] = m
    BY OneIs
  <2>2. IsSeq(s)
    BY DEF ListOf
  <2>3. /\ IsSeq(u) /\ \A k \in 1 .. Len(s) : u[k] = s[k]
        /\ \A k \in 1 .. Len(t) : u[Len(s) + k] = t[k]
        /\ \A k \in DOMAIN u : k \in DOMAIN s \/ (k > Len(s) /\ k - Len(s) \in DOMAIN t)
        /\ Len(u) = Len(s) + Len(t)
    <3> HIDE DEF t
    <3>1. IsSeq(t)
      BY <2>1
    <3> QED
      BY <2>2, <3>1, ConcatIs
  <2> HIDE DEF t, u
  <2>4. /\ Len(s) \in Nat /\ DOMAIN s = 1 .. Len(s) /\ Len(u) \in Nat /\ DOMAIN u = 1 .. Len(u)
    BY <2>2, <2>3, SeqIs
  <2>5. /\ \A k \in DOMAIN s : k \in DOMAIN u /\ u[k] = s[k] /\ k # Len(s) + 1
        /\ Len(s) + 1 \in DOMAIN u /\ u[Len(s) + 1] = m
        /\ \A k \in DOMAIN u : k \in DOMAIN s \/ k = Len(s) + 1
    BY <2>1, <2>3, <2>4
  <2> DEFINE last == Len(s) + 1
  <2>8. /\ \A k \in DOMAIN s : k \in DOMAIN u /\ u[k] = s[k]
        /\ last \in DOMAIN u /\ u[last] = m
        /\ \A k \in DOMAIN u : (k \in DOMAIN s /\ u[k] = s[k]) \/ (k = last /\ u[k] = m)
    BY <2>5
  <2> HIDE DEF last
  <2>9. \A k \in DOMAIN u : u[k] \in S \cup {m} /\ Asks(u[k]) /\ (u[k] = "entry" => k = 1)
    BY <1>1, <2>8 DEF ListOf
  <2>10. \A j, k \in DOMAIN u : u[j] = u[k] => j = k
    BY <2>8 DEF ListOf
  <2>11. \A n \in S \cup {m} : Asks(n) => \E k \in DOMAIN u : u[k] = n
    BY <2>8 DEF ListOf
  <2>6. ListOf(u, S \cup {m})
    BY <2>3, <2>9, <2>10, <2>11 DEF ListOf
  <2>7. IfAsked(m) = t
    BY <1>1 DEF IfAsked, t
  <2> QED
    BY <2>6, <2>7 DEF u
<1>2. CASE ~Asks(m)
  <2>1. IfAsked(m) = <<>>
    BY <1>2 DEF IfAsked
  <2>2. PICK V : s \in Seq(V)
    BY DEF ListOf, IsSeq
  <2>3. s \o IfAsked(m) = s
    BY <2>1, <2>2, ConcatEmptySeq
  <2>4. ListOf(s, S \cup {m})
    BY <1>2 DEF ListOf
  <2> QED
    BY <2>3, <2>4
<1> QED
  BY <1>1, <1>2

LEMMA AskedAll ==
    ListOf(IfAsked("entry") \o IfAsked("dump") \o IfAsked("images")
           \o IfAsked("songs") \o IfAsked("voices") \o IfAsked("rdff"), Modes)
<1> DEFINE a == IfAsked("entry")
           b == a \o IfAsked("dump")
           c == b \o IfAsked("images")
           d == c \o IfAsked("songs")
           e == d \o IfAsked("voices")
           g == e \o IfAsked("rdff")
<1>1. ListOf(a, {"entry"})
  BY AskedFirst
<1> HIDE DEF a
<1>2. ListOf(b, {"entry"} \cup {"dump"})
  BY <1>1, AskedNext
<1> HIDE DEF b
<1>3. ListOf(c, ({"entry"} \cup {"dump"}) \cup {"images"})
  BY <1>2, AskedNext
<1> HIDE DEF c
<1>4. ListOf(d, (({"entry"} \cup {"dump"}) \cup {"images"}) \cup {"songs"})
  BY <1>3, AskedNext
<1> HIDE DEF d
<1>5. ListOf(e, ((({"entry"} \cup {"dump"}) \cup {"images"}) \cup {"songs"}) \cup {"voices"})
  BY <1>4, AskedNext
<1> HIDE DEF e
<1>6. ListOf(g, (((({"entry"} \cup {"dump"}) \cup {"images"}) \cup {"songs"}) \cup {"voices"}) \cup {"rdff"})
  BY <1>5, AskedNext
<1>7. (((({"entry"} \cup {"dump"}) \cup {"images"}) \cup {"songs"}) \cup {"voices"}) \cup {"rdff"} = Modes
  BY DEF Modes, Writers
<1> HIDE DEF g
<1>8. ListOf(g, Modes)
  BY <1>6, <1>7
<1> QED
  BY <1>8 DEF a, b, c, d, e, g

ToolIInv == job # NoJob => Working /\ ToolInv

LEMMA ToolStart == ToolInit => ToolIInv
<1> SUFFICES ASSUME ToolInit, job # NoJob
             PROVE  Working /\ ToolInv
  BY DEF ToolIInv
<1>1. Working
  BY DEF ToolInit, Working
<1>2. todo = <<>> /\ indent = 0 /\ shown = <<>> /\ end = None /\ mod = None /\ files = <<>>
  BY DEF ToolInit
<1>3. ListOf(mods, Modes)
  BY AskedAll DEF ToolInit
<1>4. None \notin Modes /\ None \notin Writers /\ None \notin BadEnds \cup {"done"}
  BY NoneAssumption DEF Modes
<1>5. ModsInv
  BY <1>2, <1>3, <1>4 DEF ModsInv, ListOf
<1>6. \A m \in Modes : Asks(m) => Left(m)
  BY <1>3 DEF ListOf, Left
<1>7. TodoInv
  BY <1>2, NoneIs, LevelNone DEF TodoInv
<1>8. LinesInv
  BY <1>2, NoneIs DEF LinesInv
<1>9. OrderInv
  BY <1>6 DEF OrderInv, Started, Modes
<1>10. FilesInv
  BY <1>2, <1>4, NoneIs DEF FilesInv
<1>11. WrittenInv
  BY <1>6 DEF WrittenInv, Modes
<1>12. EndInv
  BY <1>2, <1>4 DEF EndInv, BadEnds
<1>13. EmptyInv
  BY <1>2, NoneIs DEF EmptyInv
<1> QED
  BY <1>1, <1>5, <1>7, <1>8, <1>9, <1>10, <1>11, <1>12, <1>13 DEF ToolInv

LEMMA ToolSame ==
    ASSUME ToolIInv, UNCHANGED <<vars, toolVars>>
    PROVE  ToolIInv'
<1>1. /\ f' = f /\ job' = job /\ todo' = todo /\ indent' = indent /\ shown' = shown /\ end' = end
      /\ mods' = mods /\ mod' = mod /\ files' = files
  BY DEF vars, toolVars
<1> SUFFICES ASSUME job # NoJob
             PROVE  Working' /\ ToolInv'
  BY <1>1 DEF ToolIInv
<1>2. Working /\ ModsInv /\ TodoInv /\ LinesInv /\ OrderInv /\ FilesInv /\ EmptyInv /\ WrittenInv /\ EndInv
  BY DEF ToolIInv, ToolInv
<1>3. /\ \A m : Asks(m)' <=> Asks(m)
      /\ \A m, c : CallOf(m, c)' <=> CallOf(m, c)
      /\ \A s : GoodLine(s)' <=> GoodLine(s)
      /\ \A w : GoodFile(w)' <=> GoodFile(w)
      /\ \A m, c : Due(m, c)' = Due(m, c)
      /\ Listed(f.types)' = Listed(f.types)
      /\ \A m, c, as : LeftOut(m, c, as)' <=> LeftOut(m, c, as)
      /\ \A lines, calls : Ordered(lines, calls)' <=> Ordered(lines, calls)
      /\ \A why, m : Cause(why, m)' <=> Cause(why, m)
      /\ Working' <=> Working
      /\ \A m : Left(m)' <=> Left(m)
      /\ \A m, c, as : HasFile(m, c, as)' <=> HasFile(m, c, as)
      /\ (job.there)' = job.there
  BY <1>1, SameFile DEF Left, HasFile
<1>4. ModsInv' /\ TodoInv' /\ LinesInv'
  BY <1>1, <1>2, <1>3 DEF ModsInv, TodoInv, LinesInv
<1>5. Started' => Started
  BY <1>1, <1>3 DEF Started
<1>6. OrderInv'
  BY <1>1, <1>2, <1>3, <1>5 DEF OrderInv
<1>7. FilesInv'
  BY <1>1, <1>2, <1>3 DEF FilesInv
<1>8. WrittenInv'
  <2>1. ASSUME end \in {None, "done"}, job.there, NEW m \in Writers, Asks(m), ~Left(m),
               NEW c \in Listed(f.types), NEW as \in Due(m, c)
        PROVE  HasFile(m, c, as) \/ LeftOut(m, c, as)
               \/ (m = mod /\ \E k \in DOMAIN todo : todo[k] = c)
    BY <1>2, <2>1 DEF WrittenInv
  <2> QED
    BY <1>1, <1>3, <2>1 DEF WrittenInv
<1>9. EndInv'
  BY <1>1, <1>2, <1>3 DEF EndInv
<1>10. EmptyInv'
  BY <1>1, <1>2 DEF EmptyInv, NotEmpty
<1> QED
  BY <1>2, <1>3, <1>4, <1>6, <1>7, <1>8, <1>9, <1>10 DEF ToolInv

LEMMA ToolSteps == ToolIInv /\ [ToolNext]_<<vars, toolVars>> => ToolIInv'
<1> SUFFICES ASSUME ToolIInv, [ToolNext]_<<vars, toolVars>>
             PROVE  ToolIInv'
  OBVIOUS
<1>1. CASE job = NoJob /\ UNCHANGED toolVars
  BY <1>1 DEF ToolIInv, toolVars
<1>2. CASE job # NoJob /\ tool /\ UNCHANGED vars
  <2>1. Working /\ ToolInv /\ f' = f
    BY <1>2 DEF ToolIInv, vars
  <2>2. ToolInv'
    BY <1>2, <2>1, Begun, Done, Printed, Wrote DEF tool
  <2>3. job' = job
    BY <1>2 DEF tool, do_mods, printing, writing
  <2>4. Working'
    BY <2>1, <2>3 DEF Working
  <2> QED
    BY <2>2, <2>4 DEF ToolIInv
<1>3. CASE UNCHANGED <<vars, toolVars>>
  BY <1>3, ToolSame
<1> QED
  BY <1>1, <1>2, <1>3 DEF ToolNext

(* The invariant of gfftool.                                               *)
THEOREM ToolInductive == ToolSpec => []ToolIInv
  BY ToolStart, ToolSteps, PTL DEF ToolSpec

(* gfftool -t: every line is of the chunk that was asked for and indented  *)
(* by the depth at which print_func met it, however windows, maps and      *)
(* objects nest; nothing that was cut off is taken for a chunk; and what   *)
(* print_gff_entry lists is every id that can be read, once and in order.  *)
THEOREM ListingShowsTheChunks == ToolSpec => []ShowsItsChunk
<1>1. ToolIInv => ShowsItsChunk
  <2> SUFFICES ASSUME ToolIInv, job # NoJob
               PROVE  /\ \A k \in DOMAIN shown : GoodLine(shown[k])
                      /\ end = "done" /\ Asks("entry") /\ job.entry # None /\ ~Asks("rdff") =>
                            Ordered(shown, <<>>)
    <3>1. ASSUME \A k \in DOMAIN shown : GoodLine(shown[k])
          PROVE  \A k \in DOMAIN shown :
                    LET s == shown[k]
                    IN  /\ s.indent = 4 * s.depth
                        /\ s.type \in ShownById /\ s.is # "entry" =>
                              s.at = At(FindIn(s.file, s.type, s.id))
                        /\ s.is = "chunk" => s.at \notin job.cut
      BY <3>1 DEF GoodLine
    <3>2. ASSUME Ordered(shown, <<>>)
          PROVE  LET t == EntryType
                     top == {k \in DOMAIN shown : shown[k].depth = 0}
                 IN  /\ \A j, k \in top : j < k => InIdOrder(t, shown[j].id, shown[k].id)
                     /\ {shown[k].id : k \in top} \subseteq ToSet(Ids(t))
                     /\ \A i \in ToSet(Ids(t)) :
                           t \in AlwaysShown \/ Readable(t, i) => \E k \in top : shown[k].id = i
      <4>1. Firsts(<<>>) = {}
        BY NoneIs DEF Firsts
      <4> QED
        BY <3>2, <4>1 DEF Ordered, Tops, Later, EntryId, Must
    <3> QED
      BY <3>1, <3>2 DEF ShowsItsChunk
  <2>1. Working /\ ModsInv /\ LinesInv /\ OrderInv /\ EndInv
    BY DEF ToolIInv, ToolInv
  <2>2. ASSUME end = "done", Asks("entry"), job.entry # None, ~Asks("rdff")
        PROVE  Ordered(shown, <<>>)
    <3>1. todo = <<>> /\ ~Left("entry")
      BY <2>1, <2>2, NoneIs DEF EndInv, Left
    <3>2. Started
      BY <2>2, <3>1 DEF Started
    <3> QED
      BY <2>1, <3>1, <3>2 DEF OrderInv
  <2> QED
    BY <2>1, <2>2 DEF LinesInv
<1> QED
  BY <1>1, ToolInductive, PTL

(* gfftool -e and the writers of pictures, songs and voices: every file is *)
(* due of a chunk the directory lists, has the bytes of that chunk and is  *)
(* written once; and when do_mods has come to its end no file is missing   *)
(* of those README.md:309-312 promises, except the ones LeftOut names.     *)
THEOREM ToolExtractsTheFile == ToolSpec => []ExtractsTheFile
<1>1. ToolIInv => ExtractsTheFile
  <2> SUFFICES ASSUME ToolIInv, job # NoJob
               PROVE  /\ \A k \in DOMAIN files :
                            /\ GoodFile(files[k]) /\ (NotEmpty(files[k]) \/ end = "no picture")
                            /\ \A j \in 1 .. k - 1 : files[j] # files[k]
                      /\ end = "done" /\ job.there =>
                            \A m \in Writers : Asks(m) =>
                               \A c \in Listed(f.types) : \A as \in Due(m, c) :
                                  HasFile(m, c, as) \/ LeftOut(m, c, as)
    <3>1. ASSUME NEW w, GoodFile(w), NotEmpty(w) \/ end = "no picture"
          PROVE  /\ \E c \in Listed(f.types) : /\ Named(w, c) /\ w.as \in Due(w.mod, c)
                                                /\ Filled(w, c)
                 /\ w.at \notin job.cut
      <4>1. PICK c \in Listed(f.types) :
               /\ Named(w, c) /\ w.as \in Due(w.mod, c)
               /\ w.at = At(Header(c)) \/ (w.at = 0 /\ Empty(w.mod, c, w.as))
        BY <3>1 DEF GoodFile
      <4>2. Filled(w, c)
        BY <3>1, <4>1 DEF Filled, Empty, NotEmpty
      <4> QED
        BY <3>1, <4>1, <4>2 DEF GoodFile
    <3> QED
      BY <3>1 DEF ExtractsTheFile
  <2>1. FilesInv /\ EmptyInv /\ WrittenInv /\ EndInv
    BY DEF ToolIInv, ToolInv
  <2>2. ASSUME end = "done", job.there, NEW m \in Writers, Asks(m),
               NEW c \in Listed(f.types), NEW as \in Due(m, c)
        PROVE  HasFile(m, c, as) \/ LeftOut(m, c, as)
    <3>1. todo = <<>> /\ ~Left(m)
      BY <2>1, <2>2, NoneIs DEF EndInv, Left
    <3> QED
      BY <2>1, <2>2, <3>1, NoneIs DEF WrittenInv
  <2> QED
    BY <2>1, <2>2 DEF FilesInv, EmptyInv
<1> QED
  BY <1>1, ToolInductive, PTL

(* gfftool comes to a bad end for a cause in the file or the arguments.    *)
THEOREM ToolDiesForACause == ToolSpec => []DiesForACause
<1>1. ToolIInv => DiesForACause
  <2> SUFFICES ASSUME ToolIInv, job # NoJob, end \notin {None, "done"}
               PROVE  /\ end = "exit" => shown = <<>>
                      /\ Cause(end, mod)
    BY DEF DiesForACause, Cause, NoEntry, CutOne, NoPlace, TooShort, Returns, NoNames, Nowhere,
           NoPicture, TooMany
  <2> QED
    BY DEF ToolIInv, ToolInv, EndInv
<1> QED
  BY <1>1, ToolInductive, PTL

(* What gfftool and any other application ask of the lookup is answered    *)
(* alike: the two properties of the lookup hold in every run of the tool.  *)
THEOREM ToolLookupInductive == ToolSpec => []Inv
<1>1. ToolInit => Inv
  BY FilesAssumption, JobsAssumption DEF ToolInit, Inv, ListGood, FoundGood
<1>2. Inv /\ [ToolNext]_<<vars, toolVars>> => Inv'
  BY InvNext DEF ToolNext, vars
<1> QED
  BY <1>1, <1>2, PTL DEF ToolSpec

THEOREM ToolListAndLookupAgree == ToolSpec => [](ListedIdHasItsRow /\ ListStaysGood)
<1>1. Inv => ListedIdHasItsRow
  BY SegmentedIds DEF Inv, ListedIdHasItsRow
<1>2. Inv => ListStaysGood
  BY DEF Inv, ListGood, FoundGood, ListStaysGood, TypeOK
<1> QED
  BY <1>1, <1>2, ToolLookupInductive, PTL
==============================================================================
