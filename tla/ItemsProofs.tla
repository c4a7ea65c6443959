----------------------------- MODULE ItemsProofs -----------------------------
(***************************************************************************)
(* What Items checks on three blocks and until something is lost holds for *)
(* any memory and goes on holding after blocks are lost: what a caller     *)
(* holds is whole and its own, memory is lost for a cause, reads stay in   *)
(* their buffer, and a row or a name comes from the manager's own table.   *)
(* And what is worked out from a chunk is right for chunks of any length:  *)
(* the delay of a script, the object of an RDFF chunk, the sheet of a font *)
(***************************************************************************)
EXTENDS Items, SequenceTheorems, WellFoundedInduction, TLAPS

------------------------------------------------------------------------------
(* Induction, stated of sets: no fact here takes an operator, so each can  *)
(* be cited of a set that is defined where it is needed.                   *)

(* A set of naturals that is not empty has a least element.                *)
LEMMA LeastNatural ==
    ASSUME NEW T, T \subseteq Nat, T # {}
    PROVE  \E x \in T : \A y \in T : x <= y
<1> DEFINE Below == OpToRel(<, Nat)
<1>1. Below = {p \in Nat \X Nat : p[1] < p[2]}
  BY DEF OpToRel
<1>2. IsWellFoundedOn(Below, Nat)
  BY NatLessThanWellFounded
<1> HIDE DEF Below
<1>3. PICK x \in T : \A y \in T : <<y, x>> \notin Below
  BY <1>2, WFMin
<1>4. ASSUME NEW y \in T
      PROVE  x <= y
  <2>1. y \in Nat /\ x \in Nat /\ <<y, x>> \notin {p \in Nat \X Nat : p[1] < p[2]}
    BY <1>1, <1>3
  <2> QED
    BY <2>1
<1> QED
  BY <1>4

(* A set of the numbers up to n that has 0, and each number whose          *)
(* predecessor it has, has them all.                                       *)
LEMMA UpTo ==
    ASSUME NEW n \in Nat, NEW U, 0 \in U, \A k \in 1 .. n : k - 1 \in U => k \in U
    PROVE  \A k \in 0 .. n : k \in U
<1> DEFINE T == {k \in 0 .. n : k \notin U}
<1> SUFFICES ASSUME T # {}
             PROVE  FALSE
  OBVIOUS
<1>0. T \subseteq Nat
  OBVIOUS
<1>1. PICK m \in T : \A y \in T : m <= y
  BY <1>0, LeastNatural
<1>2. m \in 1 .. n /\ m - 1 \in 0 .. n /\ m - 1 \notin T
  BY <1>1
<1> QED
  BY <1>1, <1>2

(* What is computed in n steps from a first value is a function.           *)
Steps(n, V, base, step) == n \in Nat /\ base \in V /\ step \in [1 .. n -> [V -> V]]
Computes(g, n, V, base, step) ==
    /\ g \in [0 .. n -> V]
    /\ g[0] = base
    /\ \A k \in 1 .. n : g[k] = step[k][g[k - 1]]

LEMMA Computed ==
    ASSUME NEW n, NEW V, NEW base, NEW step, Steps(n, V, base, step)
    PROVE  \E g : Computes(g, n, V, base, step)
<1> USE DEF Steps
<1> DEFINE Does(g, m) == g[0] = base /\ \A k \in 1 .. m : g[k] = step[k][g[k - 1]]
           U == {m \in 0 .. n : \E g \in [0 .. m -> V] : Does(g, m)}
<1>1. 0 \in U
  <2> DEFINE first == [x \in 0 .. 0 |-> base]
  <2>1. first \in [0 .. 0 -> V] /\ first[0] = base
    OBVIOUS
  <2> HIDE DEF first
  <2>2. Does(first, 0)
    BY <2>1
  <2> HIDE DEF Does
  <2> QED
    BY <2>1, <2>2
<1>2. ASSUME NEW m \in 1 .. n, m - 1 \in U
      PROVE  m \in U
  <2>1. PICK g \in [0 .. m - 1 -> V] : Does(g, m - 1)
    BY <1>2
  <2> DEFINE h == [k \in 0 .. m |-> IF k = m THEN step[m][g[m - 1]] ELSE g[k]]
  <2>2. g[m - 1] \in V /\ step[m][g[m - 1]] \in V
    OBVIOUS
  <2>3. h \in [0 .. m -> V]
    BY <2>2
  <2>4. h[0] = base
    BY <2>1
  <2>5. ASSUME NEW k \in 1 .. m
        PROVE  h[k] = step[k][h[k - 1]]
    <3> m \in Nat /\ k \in Nat
      OBVIOUS
    <3>1. k - 1 \in 0 .. m - 1 /\ h[k - 1] = g[k - 1]
      OBVIOUS
    <3>2. k # m => k \in 1 .. m - 1 /\ h[k] = g[k]
      OBVIOUS
    <3>3. k = m => h[k] = step[k][g[k - 1]]
      OBVIOUS
    <3> QED
      BY <2>1, <3>1, <3>2, <3>3
  <2> HIDE DEF h
  <2>6. Does(h, m)
    BY <2>4, <2>5
  <2> HIDE DEF Does
  <2> QED
    BY <2>3, <2>6
<1> HIDE DEF U
<1>3. n \in U
  <2>1. \A k \in 1 .. n : k - 1 \in U => k \in U
    BY <1>2
  <2>2. \A k \in 0 .. n : k \in U
    BY <1>1, <2>1, UpTo
  <2> QED
    BY <2>2
<1> QED
  BY <1>3 DEF U, Computes

------------------------------------------------------------------------------
(* Scripts of frames.  Waiting and playing go from frame to frame alike up *)
(* to the first that has a mark.                                           *)
ScriptAt(fs, pos) ==
    /\ fs \in Seq(S!Frames) /\ fs # <<>>
    /\ fs[Len(fs)].last \/ fs[Len(fs)].jump
    /\ pos \in 0 .. Len(fs) - 1

Marked(f) == f.last \/ f.jump
WaitStep(fs, s) ==
    IF Marked(fs[s.at + 1]) THEN s
    ELSE [at |-> s.at + 1, sum |-> s.sum + fs[s.at + 1].delay]
PlayStep(fs, f) ==
    [at |-> S!gff_scmd_next_pos(fs, f.at), passed |-> f.passed + fs[f.at + 1].delay]

LEMMA FrameOf ==
    ASSUME NEW fs, NEW pos, ScriptAt(fs, pos), NEW a \in 0 .. Len(fs) - 1
    PROVE  /\ Len(fs) \in Nat \ {0}
           /\ fs[a + 1] \in S!Frames /\ fs[a + 1].delay \in Nat
           /\ ~Marked(fs[a + 1]) => a + 1 \in 0 .. Len(fs) - 1
<1>1. Len(fs) \in Nat \ {0} /\ a + 1 \in 1 .. Len(fs)
  BY DEF ScriptAt
<1>2. fs[a + 1] \in S!Frames
  BY <1>1 DEF ScriptAt
<1>3. a + 1 = Len(fs) => Marked(fs[a + 1])
  BY DEF ScriptAt, Marked
<1> QED
  BY <1>1, <1>2, <1>3 DEF S!Frames

LEMMA WaitsInSteps ==
    ASSUME NEW fs, NEW pos, ScriptAt(fs, pos)
    PROVE  /\ S!Waited(fs, pos)[0] = [at |-> pos, sum |-> 0]
           /\ \A n \in 1 .. Len(fs) :
                 S!Waited(fs, pos)[n] = WaitStep(fs, S!Waited(fs, pos)[n - 1])
<1> DEFINE N == Len(fs)
           V == [at : 0 .. N - 1, sum : Nat]
           base == [at |-> pos, sum |-> 0]
           step == [n \in 1 .. N |-> [s \in V |-> WaitStep(fs, s)]]
           Loop(h) == [n \in 0 .. N |-> IF n = 0 THEN base ELSE WaitStep(fs, h[n - 1])]
<1>1. N \in Nat /\ base \in V
  BY DEF ScriptAt
<1>2. ASSUME NEW s \in V
      PROVE  WaitStep(fs, s) \in V
  <2>1. s.at \in 0 .. N - 1 /\ s.sum \in Nat
    OBVIOUS
  <2>2. fs[s.at + 1].delay \in Nat /\ (~Marked(fs[s.at + 1]) => s.at + 1 \in 0 .. N - 1)
    BY <2>1, FrameOf
  <2> QED
    BY <2>1, <2>2 DEF WaitStep
<1>3. Steps(N, V, base, step)
  BY <1>1, <1>2 DEF Steps
<1>4. PICK g : Computes(g, N, V, base, step)
  BY <1>3, Computed
<1>5. g = Loop(g)
  <2>1. g \in [0 .. N -> V] /\ g[0] = base /\ \A k \in 1 .. N : g[k] = step[k][g[k - 1]]
    BY <1>4 DEF Computes
  <2>2. \A k \in 1 .. N : g[k - 1] \in V
    BY <1>1, <2>1
  <2>3. \A k \in 1 .. N : g[k] = WaitStep(fs, g[k - 1])
    BY <2>1, <2>2
  <2> HIDE DEF base
  <2> QED
    BY <1>1, <2>1, <2>3
<1>6. S!Waited(fs, pos) = CHOOSE h : h = Loop(h)
  BY DEF S!Waited, WaitStep, Marked
<1> DEFINE h == S!Waited(fs, pos)
<1>7. h = Loop(h)
  <2> HIDE DEF Loop
  <2> QED
    BY <1>5, <1>6
<1> HIDE DEF h
<1>8. h[0] = base /\ \A n \in 1 .. N : h[n] = WaitStep(fs, h[n - 1])
  BY <1>1, <1>7
<1> QED
  BY <1>8 DEF h

LEMMA PlaysInSteps ==
    ASSUME NEW fs, NEW pos, ScriptAt(fs, pos), NEW m \in Nat
    PROVE  /\ S!Played(fs, pos, m)[0] = [at |-> pos, passed |-> 0]
           /\ \A n \in 1 .. m :
                 S!Played(fs, pos, m)[n] = PlayStep(fs, S!Played(fs, pos, m)[n - 1])
<1> DEFINE N == Len(fs)
           V == [at : 0 .. N - 1, passed : Nat]
           base == [at |-> pos, passed |-> 0]
           step == [n \in 1 .. m |-> [s \in V |-> PlayStep(fs, s)]]
           Loop(h) == [n \in 0 .. m |-> IF n = 0 THEN base ELSE PlayStep(fs, h[n - 1])]
<1>1. N \in Nat /\ base \in V
  BY DEF ScriptAt
<1>2. ASSUME NEW s \in V
      PROVE  PlayStep(fs, s) \in V
  <2>1. s.at \in 0 .. N - 1 /\ s.passed \in Nat
    OBVIOUS
  <2>2. fs[s.at + 1].delay \in Nat /\ (~Marked(fs[s.at + 1]) => s.at + 1 \in 0 .. N - 1)
    BY <2>1, FrameOf
  <2>3. S!gff_scmd_next_pos(fs, s.at) \in 0 .. N - 1
    BY <1>1, <2>1, <2>2 DEF S!gff_scmd_next_pos, Marked
  <2> QED
    BY <2>1, <2>2, <2>3 DEF PlayStep
<1>3. Steps(m, V, base, step)
  BY <1>1, <1>2 DEF Steps
<1>4. PICK g : Computes(g, m, V, base, step)
  BY <1>3, Computed
<1>5. g = Loop(g)
  <2>1. g \in [0 .. m -> V] /\ g[0] = base /\ \A k \in 1 .. m : g[k] = step[k][g[k - 1]]
    BY <1>4 DEF Computes
  <2>2. \A k \in 1 .. m : g[k - 1] \in V
    BY <1>1, <2>1
  <2>3. \A k \in 1 .. m : g[k] = PlayStep(fs, g[k - 1])
    BY <2>1, <2>2
  <2> HIDE DEF base
  <2> QED
    BY <1>1, <2>1, <2>3
<1>6. S!Played(fs, pos, m) = CHOOSE h : h = Loop(h)
  BY DEF S!Played, PlayStep
<1> DEFINE h == S!Played(fs, pos, m)
<1>7. h = Loop(h)
  <2> HIDE DEF Loop
  <2> QED
    BY <1>5, <1>6
<1> HIDE DEF h
<1>8. h[0] = base /\ \A n \in 1 .. m : h[n] = PlayStep(fs, h[n - 1])
  BY <1>1, <1>7
<1> QED
  BY <1>8 DEF h

(* The first frame from pos on that has a mark.                            *)
FirstMark(fs, pos, s) ==
    /\ s \in pos .. Len(fs) - 1
    /\ Marked(fs[s + 1])
    /\ \A a \in pos .. s - 1 : ~Marked(fs[a + 1])

LEMMA SomeFrameIsMarked ==
    ASSUME NEW fs, NEW pos, ScriptAt(fs, pos)
    PROVE  \E s : FirstMark(fs, pos, s)
<1> DEFINE T == {a \in pos .. Len(fs) - 1 : Marked(fs[a + 1])}
<1>1. Len(fs) \in Nat \ {0} /\ pos \in Nat /\ pos <= Len(fs) - 1
  BY DEF ScriptAt
<1>2. Len(fs) - 1 + 1 = Len(fs)
  BY <1>1
<1>3. Len(fs) - 1 \in T
  BY <1>1, <1>2 DEF ScriptAt, Marked
<1>4. T \subseteq Nat
  BY <1>1
<1>5. PICK s \in T : \A a \in T : s <= a
  <2> HIDE DEF T
  <2> QED
    BY <1>3, <1>4, LeastNatural
<1>6. \A a \in pos .. s - 1 : ~Marked(fs[a + 1])
  BY <1>1, <1>5
<1> QED
  BY <1>5, <1>6 DEF FirstMark

LEMMA WaitsAsItPlays ==
    ASSUME NEW fs, NEW pos, ScriptAt(fs, pos), NEW s, FirstMark(fs, pos, s), NEW m \in Nat,
           s - pos <= m
    PROVE  \A k \in 0 .. s - pos :
              /\ S!Waited(fs, pos)[k].at = pos + k
              /\ S!Played(fs, pos, m)[k].at = pos + k
              /\ S!Waited(fs, pos)[k].sum = S!Played(fs, pos, m)[k].passed
<1> DEFINE h == S!Waited(fs, pos)
           p == S!Played(fs, pos, m)
           Same(k) == /\ h[k].at = pos + k /\ p[k].at = pos + k
                      /\ h[k].sum = p[k].passed
           Alike == {k \in 0 .. s - pos : Same(k)}
<1>1. /\ pos \in Nat /\ s \in Nat /\ pos <= s /\ s <= Len(fs) - 1 /\ Len(fs) \in Nat
  BY DEF ScriptAt, FirstMark
<1>2. h[0] = [at |-> pos, sum |-> 0] /\ p[0] = [at |-> pos, passed |-> 0]
  BY WaitsInSteps, PlaysInSteps
<1>3. 0 \in Alike
  BY <1>1, <1>2
<1>4. ASSUME NEW k \in 1 .. s - pos, k - 1 \in Alike
      PROVE  k \in Alike
  <2>1. k \in 1 .. Len(fs) /\ k \in 1 .. m /\ pos + (k - 1) \in pos .. s - 1
    BY <1>1
  <2>2. h[k] = WaitStep(fs, h[k - 1]) /\ p[k] = PlayStep(fs, p[k - 1])
    BY <2>1, WaitsInSteps, PlaysInSteps
  <2>3. h[k - 1].at = pos + (k - 1) /\ p[k - 1].at = pos + (k - 1)
        /\ h[k - 1].sum = p[k - 1].passed
    BY <1>4
  <2> HIDE DEF h, p
  <2>4. ~Marked(fs[pos + (k - 1) + 1])
    BY <2>1 DEF FirstMark
  <2>5. h[k] = [at |-> pos + (k - 1) + 1,
                sum |-> h[k - 1].sum + fs[pos + (k - 1) + 1].delay]
    BY <2>2, <2>3, <2>4 DEF WaitStep
  <2>6. S!gff_scmd_next_pos(fs, pos + (k - 1)) = pos + (k - 1) + 1
    BY <2>4 DEF S!gff_scmd_next_pos, Marked
  <2>7. p[k] = [at |-> pos + (k - 1) + 1,
                passed |-> p[k - 1].passed + fs[pos + (k - 1) + 1].delay]
    BY <2>2, <2>3, <2>6 DEF PlayStep
  <2>8. pos + (k - 1) + 1 = pos + k
    BY <1>1
  <2> QED
    BY <2>3, <2>5, <2>7, <2>8
<1>5. s - pos \in Nat
  BY <1>1
<1>6. \A k \in 0 .. s - pos : k \in Alike
  <2> HIDE DEF Alike
  <2> QED
    BY <1>3, <1>4, <1>5, UpTo
<1> QED
  BY <1>6

(* What gff_scmd_total_delay says.                                         *)
LEMMA TotalIsPlayed ==
    ASSUME NEW fs, NEW pos, ScriptAt(fs, pos), NEW s, FirstMark(fs, pos, s), NEW m \in Nat,
           s - pos <= m
    PROVE  S!gff_scmd_total_delay(fs, pos)
             = IF fs[s + 1].jump THEN -1
               ELSE S!Played(fs, pos, m)[s - pos].passed + fs[s + 1].delay
<1> DEFINE h == S!Waited(fs, pos)
           N == Len(fs)
           d == s - pos
           Stays == {k \in 0 .. N - d : h[d + k] = h[d]}
<1>1. /\ pos \in Nat /\ s \in Nat /\ pos <= s /\ s <= N - 1 /\ N \in Nat
      /\ d \in 0 .. N
  BY DEF ScriptAt, FirstMark
<1>2. h[d].at = s /\ h[d].sum = S!Played(fs, pos, m)[d].passed
  BY <1>1, WaitsAsItPlays
<1>3. 0 \in Stays
  BY <1>1
<1>4. ASSUME NEW k \in 1 .. N - d, k - 1 \in Stays
      PROVE  k \in Stays
  <2>1. d + k \in 1 .. N /\ d + k - 1 = d + (k - 1)
    BY <1>1
  <2>2. h[d + k] = WaitStep(fs, h[d + (k - 1)])
    <3> DEFINE j == d + k
    <3>1. j \in 1 .. N
      BY <2>1
    <3> HIDE DEF j
    <3>2. h[j] = WaitStep(fs, h[j - 1])
      BY <3>1, WaitsInSteps
    <3>3. j = d + k /\ j - 1 = d + (k - 1)
      BY <1>1 DEF j
    <3> HIDE DEF h, d
    <3> QED
      BY ONLY <3>2, <3>3, Zenon
  <2>3. h[d + (k - 1)] = h[d]
    BY <1>4
  <2> HIDE DEF h, d
  <2>4. h[d + k] = h[d]
    BY <1>2, <2>2, <2>3 DEF WaitStep, FirstMark
  <2> QED
    BY <2>4
<1>5. N - d \in Nat
  BY <1>1
<1>6. \A k \in 0 .. N - d : k \in Stays
  <2> HIDE DEF Stays
  <2> QED
    BY <1>3, <1>4, <1>5, UpTo
<1>7. h[N] = h[d]
  <2>1. N - d \in 0 .. N - d
    BY <1>5
  <2>2. N - d \in Stays
    BY <1>6, <2>1
  <2>3. h[d + (N - d)] = h[d]
    BY <2>2
  <2> HIDE DEF h, d
  <2>4. d + (N - d) = N
    BY <1>1
  <2> QED
    BY <2>3, <2>4
<1> HIDE DEF d
<1> QED
  BY <1>2, <1>7 DEF S!gff_scmd_total_delay, d

LEMMA DelaysAgree ==
    ASSUME answer.kind = "delay",
           ScriptAt(answer.frames, answer.pos),
           answer.sum = S!gff_scmd_total_delay(answer.frames, answer.pos)
    PROVE  DelayAsPlayed
<1> DEFINE fs == answer.frames
           pos == answer.pos
           n == 2 * Len(fs)
           play == S!Played(fs, pos, n)
           Ends(k) == fs[play[k].at + 1].last
           E == {k \in 0 .. n : Ends(k)}
<1>1. PICK s : FirstMark(fs, pos, s)
  BY SomeFrameIsMarked
<1> DEFINE d == s - pos
<1>2. /\ pos \in Nat /\ s \in Nat /\ pos <= s /\ s <= Len(fs) - 1 /\ Len(fs) \in Nat
      /\ n \in Nat /\ d \in 0 .. n
  BY <1>1 DEF ScriptAt, FirstMark
<1>3. \A k \in 0 .. d : play[k].at = pos + k
  BY <1>1, <1>2, WaitsAsItPlays
<1>4. answer.sum = IF fs[s + 1].jump THEN -1 ELSE play[d].passed + fs[s + 1].delay
  BY <1>1, <1>2, TotalIsPlayed
<1> HIDE DEF play, n
<1>5. \A k \in 0 .. d - 1 : ~Ends(k) /\ ~fs[play[k].at + 1].jump
  <2> TAKE k \in 0 .. d - 1
  <2>1. play[k].at = pos + k /\ pos + k \in pos .. s - 1
    BY <1>2, <1>3
  <2> QED
    BY <1>1, <2>1 DEF FirstMark, Marked
<1>6. play[d].at = s
  BY <1>2, <1>3
<1>7. CASE E = {}
  <2>1. ~Ends(d) /\ fs[s + 1].jump
    BY <1>1, <1>2, <1>6, <1>7 DEF FirstMark, Marked
  <2>2. answer.sum = -1 /\ ~\E k \in 0 .. n : Ends(k)
    BY <1>4, <1>7, <2>1
  <2> QED
    BY <2>2 DEF DelayAsPlayed, play, n
<1>8. CASE E # {}
  <2>1. E \subseteq Nat
    BY <1>2
  <2>2. PICK l \in E : \A a \in E : l <= a
    <3> HIDE DEF E
    <3> QED
      BY <1>8, <2>1, LeastNatural
  <2> DEFINE First(j) == Ends(j) /\ \A i \in 0 .. j - 1 : ~Ends(i)
             k == CHOOSE j \in 0 .. n : First(j)
  <2>3. l \in 0 .. n /\ First(l)
    BY <1>2, <2>2
  <2> HIDE DEF E
  <2>4. k \in 0 .. n /\ First(k)
    <3> HIDE DEF First
    <3> QED
      BY <2>3
  <2> HIDE DEF k
  <2>5. d <= k
    <3>1. k \notin 0 .. d - 1
      BY <1>5, <2>4
    <3> HIDE DEF d
    <3> QED
      BY <1>2, <2>4, <3>1
  <2>6. fs[s + 1].last => k = d
    <3>1. fs[s + 1].last => d \notin 0 .. k - 1
      BY <1>6, <2>4
    <3> HIDE DEF d
    <3> QED
      BY <1>2, <2>4, <2>5, <3>1
  <2>7. \E j \in 0 .. n : Ends(j)
    BY <2>3
  <2> DEFINE f == fs[play[k].at + 1]
             Jumped == \E i \in 0 .. k - 1 : fs[play[i].at + 1].jump
  <2>8. answer.sum = IF f.jump \/ Jumped THEN -1 ELSE play[k].passed + f.delay
    <3>1. CASE fs[s + 1].last
      <4>1. k = d /\ f = fs[s + 1] /\ ~Jumped
        BY <1>5, <1>6, <2>6, <3>1
      <4> HIDE DEF f, Jumped
      <4> QED
        BY <1>4, <4>1
    <3>2. CASE ~fs[s + 1].last
      <4>1. fs[s + 1].jump
        BY <1>1, <3>2 DEF FirstMark, Marked
      <4>2. k # d
        BY <1>6, <2>4, <3>2
      <4>3. d \in 0 .. k - 1
        <5> HIDE DEF d
        <5> QED
          BY <1>2, <2>4, <2>5, <4>2
      <4>4. Jumped
        BY <1>6, <4>1, <4>3
      <4> HIDE DEF Jumped
      <4> QED
        BY <1>4, <4>1, <4>4
    <3> QED
      BY <3>1, <3>2
  <2> QED
    BY <2>7, <2>8 DEF DelayAsPlayed, play, n, k
<1> QED
  BY <1>7, <1>8

------------------------------------------------------------------------------
(* Blocks of an RDFF chunk.  The header of block n is the cell behind those*)
(* of the blocks in front of it, which is where the walk comes to.         *)
Cell(bs) == [block : DOMAIN bs, header : BOOLEAN]
LaidStep(bs, n, cells) ==
    Append(cells, [block |-> n, header |-> TRUE])
      \o [k \in 1 .. bs[n].len |-> [block |-> n, header |-> FALSE]]
Header(bs, n) == Len(R!Laid(bs)[n - 1]) + 1

LEMMA BlockOf ==
    ASSUME NEW bs \in Seq(R!ChunkBlocks)
    PROVE  /\ Len(bs) \in Nat /\ DOMAIN bs = 1 .. Len(bs)
           /\ \A n \in 1 .. Len(bs) :
                 /\ bs[n].len \in Nat /\ bs[n].load_action \in R!Actions
                 /\ bs[n].type \in R!Types
<1>1. Len(bs) \in Nat /\ \A n \in 1 .. Len(bs) : bs[n] \in R!ChunkBlocks
  OBVIOUS
<1> QED
  BY <1>1 DEF R!ChunkBlocks

LaidBehind(bs, n, cells, new) ==
    /\ new \in Seq(Cell(bs))
    /\ Len(cells) \in Nat
    /\ Len(new) = Len(cells) + 1 + bs[n].len
    /\ \A k \in 1 .. Len(cells) : new[k] = cells[k]
    /\ new[Len(cells) + 1] = [block |-> n, header |-> TRUE]
    /\ \A k \in Len(cells) + 2 .. Len(new) : new[k] = [block |-> n, header |-> FALSE]

LEMMA OneLaid ==
    ASSUME NEW bs \in Seq(R!ChunkBlocks), NEW n \in 1 .. Len(bs), NEW cells \in Seq(Cell(bs))
    PROVE  LaidBehind(bs, n, cells, LaidStep(bs, n, cells))
<1> DEFINE head == [block |-> n, header |-> TRUE]
           data == [k \in 1 .. bs[n].len |-> [block |-> n, header |-> FALSE]]
           front == Append(cells, head)
<1>1. bs[n].len \in Nat /\ n \in DOMAIN bs
  BY BlockOf
<1>2. head \in Cell(bs) /\ [block |-> n, header |-> FALSE] \in Cell(bs)
  BY <1>1 DEF Cell
<1>3. /\ data \in Seq(Cell(bs)) /\ Len(data) = bs[n].len
      /\ \A k \in 1 .. Len(data) : data[k] = [block |-> n, header |-> FALSE]
  <2> DEFINE x == [block |-> n, header |-> FALSE]
             l == bs[n].len
             C == Cell(bs)
  <2>1. x \in C /\ l \in Nat
    BY <1>1, <1>2
  <2> HIDE DEF x, l, C
  <2>2. /\ [k \in 1 .. l |-> x] \in Seq(C) /\ Len([k \in 1 .. l |-> x]) = l
        /\ \A k \in 1 .. l : [j \in 1 .. l |-> x][k] = x
    BY <2>1
  <2> QED
    BY <2>2 DEF x, l, C
<1> HIDE DEF head, data
<1>4. /\ front \in Seq(Cell(bs)) /\ Len(front) = Len(cells) + 1 /\ Len(cells) \in Nat
      /\ \A k \in 1 .. Len(cells) : front[k] = cells[k]
      /\ front[Len(cells) + 1] = head
  BY <1>2
<1> HIDE DEF front
<1>5. /\ front \o data \in Seq(Cell(bs))
      /\ Len(front \o data) = Len(front) + Len(data)
      /\ \A k \in 1 .. Len(front) : (front \o data)[k] = front[k]
      /\ \A k \in Len(front) + 1 .. Len(front) + Len(data) :
            (front \o data)[k] = [block |-> n, header |-> FALSE]
  <2>1. /\ front \o data \in Seq(Cell(bs))
        /\ Len(front \o data) = Len(front) + Len(data)
    BY <1>3, <1>4, ConcatProperties
  <2>2. Len(front) \in Nat /\ Len(data) \in Nat
    BY <1>3, <1>4
  <2>3. \A k \in 1 .. Len(front) + Len(data) :
           (front \o data)[k] = IF k <= Len(front) THEN front[k] ELSE data[k - Len(front)]
    BY <1>3, <1>4, ConcatProperties
  <2>4. ASSUME NEW k \in Len(front) + 1 .. Len(front) + Len(data)
        PROVE  (front \o data)[k] = [block |-> n, header |-> FALSE]
    <3>1. k \in 1 .. Len(front) + Len(data) /\ ~(k <= Len(front))
          /\ k - Len(front) \in 1 .. Len(data)
      BY <2>2
    <3> QED
      BY <1>3, <2>3, <3>1
  <2>5. ASSUME NEW k \in 1 .. Len(front)
        PROVE  (front \o data)[k] = front[k]
    <3>1. k \in 1 .. Len(front) + Len(data) /\ k <= Len(front)
      BY <2>2
    <3> QED
      BY <2>3, <3>1
  <2> QED
    BY <2>1, <2>4, <2>5
<1> DEFINE new == front \o data
<1>6. LaidStep(bs, n, cells) = new
  BY DEF LaidStep, front, data, head
<1>7. /\ new \in Seq(Cell(bs)) /\ Len(new) = Len(cells) + 1 + bs[n].len
      /\ \A k \in 1 .. Len(cells) + 1 : new[k] = front[k]
      /\ \A k \in Len(cells) + 2 .. Len(new) : new[k] = [block |-> n, header |-> FALSE]
  <2>1. Len(front) = Len(cells) + 1 /\ Len(front) + 1 = Len(cells) + 2
        /\ Len(data) = bs[n].len
    BY <1>3, <1>4
  <2> QED
    BY <1>5, <2>1
<1> HIDE DEF new
<1>8. (\A k \in 1 .. Len(cells) : new[k] = cells[k]) /\ new[Len(cells) + 1] = head
  <2>1. Len(cells) + 1 \in 1 .. Len(cells) + 1
        /\ \A k \in 1 .. Len(cells) : k \in 1 .. Len(cells) + 1
    BY <1>4
  <2> QED
    BY <1>4, <1>7, <2>1
<1>9. LaidBehind(bs, n, cells, new)
  BY <1>4, <1>7, <1>8 DEF LaidBehind, head
<1> QED
  BY <1>6, <1>9

LEMMA LaidInSteps ==
    ASSUME NEW bs \in Seq(R!ChunkBlocks)
    PROVE  /\ R!Laid(bs)[0] = <<>>
           /\ \A n \in 1 .. Len(bs) :
                 LaidBehind(bs, n, R!Laid(bs)[n - 1], R!Laid(bs)[n])
           /\ \A n \in 0 .. Len(bs) : R!Laid(bs)[n] \in Seq(Cell(bs))
<1> DEFINE N == Len(bs)
           V == Seq(Cell(bs))
           step == [n \in 1 .. N |-> [c \in V |-> LaidStep(bs, n, c)]]
           Loop(h) == [n \in 0 .. N |-> IF n = 0 THEN <<>> ELSE LaidStep(bs, n, h[n - 1])]
<1>1. N \in Nat /\ <<>> \in V
  BY BlockOf
<1>2. \A n \in 1 .. N : \A c \in V : LaidStep(bs, n, c) \in V
  BY OneLaid DEF LaidBehind
<1>3. Steps(N, V, <<>>, step)
  BY <1>1, <1>2 DEF Steps
<1>4. PICK g : Computes(g, N, V, <<>>, step)
  <2> HIDE DEF step, V, N
  <2> QED
    BY <1>3, Computed
<1>5. g \in [0 .. N -> V] /\ g[0] = <<>> /\ \A k \in 1 .. N : g[k] = step[k][g[k - 1]]
  BY <1>4 DEF Computes
<1> HIDE DEF V
<1>6. \A k \in 1 .. N : g[k - 1] \in V
  BY <1>1, <1>5
<1>7. \A k \in 1 .. N : g[k] = LaidStep(bs, k, g[k - 1])
  BY <1>5, <1>6
<1>8. g = Loop(g)
  BY <1>1, <1>5, <1>7
<1>9. R!Laid(bs) = CHOOSE h : h = Loop(h)
  BY DEF R!Laid, LaidStep
<1> DEFINE h == R!Laid(bs)
<1>10. h = Loop(h)
  <2> HIDE DEF Loop
  <2> QED
    BY <1>8, <1>9
<1> HIDE DEF h
<1>11. h[0] = <<>> /\ \A n \in 1 .. N : h[n] = LaidStep(bs, n, h[n - 1])
  BY <1>1, <1>10
<1> DEFINE T == {n \in 0 .. N : h[n] \in V}
<1>12. 0 \in T
  BY <1>1, <1>11
<1>13. \A n \in 1 .. N : n - 1 \in T => n \in T
  BY <1>1, <1>2, <1>11
<1>14. \A n \in 0 .. N : n \in T
  <2> HIDE DEF T
  <2> QED
    BY <1>1, <1>12, <1>13, UpTo
<1>15. ASSUME NEW n \in 1 .. N
       PROVE  LaidBehind(bs, n, h[n - 1], h[n])
  <2>1. n - 1 \in 0 .. N
    BY <1>1
  <2>2. h[n - 1] \in V
    BY <1>14, <2>1
  <2>3. LaidBehind(bs, n, h[n - 1], LaidStep(bs, n, h[n - 1]))
    BY <2>2, OneLaid DEF V
  <2> QED
    BY <1>11, <2>3
<1> QED
  BY <1>11, <1>14, <1>15 DEF h, V

(* Blocks that are laid down stay where they are, behind n headers at      *)
(* least.                                                                  *)
LEMMA LaidStays ==
    ASSUME NEW bs \in Seq(R!ChunkBlocks), NEW n \in 0 .. Len(bs)
    PROVE  LET cells == R!Cells(bs)
               laid == R!Laid(bs)[n]
           IN  /\ cells \in Seq(Cell(bs)) /\ Len(cells) \in Nat /\ Len(laid) \in Nat
               /\ n <= Len(laid) /\ Len(laid) <= Len(cells)
               /\ \A k \in 1 .. Len(laid) : cells[k] = laid[k]
<1> DEFINE N == Len(bs)
           h == R!Laid(bs)
           Long == {m \in 0 .. N : m <= Len(h[m])}
           Stays(m) == /\ Len(h[n]) <= Len(h[m])
                       /\ \A k \in 1 .. Len(h[n]) : h[m][k] = h[n][k]
           Kept == {m \in 0 .. N - n : Stays(n + m)}
<1>0. N \in Nat /\ n \in Nat /\ N - n \in Nat
  BY BlockOf
<1>1. \A m \in 0 .. N : h[m] \in Seq(Cell(bs)) /\ Len(h[m]) \in Nat
  BY LaidInSteps
<1>2. ASSUME NEW m \in 1 .. N
      PROVE  /\ Len(h[m]) = Len(h[m - 1]) + 1 + bs[m].len
             /\ \A k \in 1 .. Len(h[m - 1]) : h[m][k] = h[m - 1][k]
             /\ bs[m].len \in Nat /\ Len(h[m - 1]) \in Nat /\ m - 1 \in 0 .. N
  <2>1. m - 1 \in 0 .. N
    BY <1>0
  <2>2. LaidBehind(bs, m, h[m - 1], h[m])
    BY LaidInSteps
  <2> HIDE DEF h
  <2> QED
    BY <2>1, <2>2, BlockOf DEF LaidBehind
<1> HIDE DEF h
<1>3. \A m \in 0 .. N : m \in Long
  <2>1. 0 \in Long
    BY <1>0, <1>1
  <2>2. ASSUME NEW m \in 1 .. N, m - 1 \in Long
        PROVE  m \in Long
    <3>1. m - 1 <= Len(h[m - 1]) /\ Len(h[m - 1]) \in Nat /\ bs[m].len \in Nat
          /\ Len(h[m]) = Len(h[m - 1]) + 1 + bs[m].len
      BY <1>2, <2>2
    <3> HIDE DEF N
    <3>2. m <= Len(h[m])
      BY <1>0, <3>1
    <3> QED
      BY <3>2
  <2> HIDE DEF Long
  <2> QED
    BY <1>0, <2>1, <2>2, UpTo
<1>4. \A m \in 0 .. N - n : m \in Kept
  <2>1. 0 \in Kept
    BY <1>0, <1>1
  <2>2. ASSUME NEW m \in 1 .. N - n, m - 1 \in Kept
        PROVE  m \in Kept
    <3>1. n + m \in 1 .. N /\ (n + m) - 1 = n + (m - 1) /\ n + (m - 1) \in 0 .. N
      BY <1>0
    <3>2. /\ Len(h[n + m]) = Len(h[n + (m - 1)]) + 1 + bs[n + m].len
          /\ \A k \in 1 .. Len(h[n + (m - 1)]) : h[n + m][k] = h[n + (m - 1)][k]
          /\ bs[n + m].len \in Nat
      BY <3>1, <1>2
    <3>3. Stays(n + (m - 1)) /\ Len(h[n]) \in Nat /\ Len(h[n + (m - 1)]) \in Nat
      BY <2>2, <3>1, <1>1
    <3> DEFINE i == n + (m - 1)
               j == n + m
    <3>4. /\ Len(h[j]) = Len(h[i]) + 1 + bs[j].len
          /\ \A k \in 1 .. Len(h[i]) : h[j][k] = h[i][k]
          /\ bs[j].len \in Nat /\ Len(h[i]) \in Nat /\ Len(h[n]) \in Nat
          /\ Stays(i)
      BY <3>2, <3>3
    <3> HIDE DEF i, j
    <3>5. Len(h[n]) <= Len(h[j])
      BY <3>4
    <3>6. ASSUME NEW k \in 1 .. Len(h[n])
          PROVE  h[j][k] = h[n][k]
      <4>1. k \in 1 .. Len(h[i])
        BY <3>4
      <4> QED
        BY <3>4, <4>1
    <3>7. Stays(j)
      BY <3>5, <3>6
    <3> QED
      BY <3>7 DEF j
  <2> HIDE DEF Kept
  <2> QED
    BY <1>0, <2>1, <2>2, UpTo
<1>5. Stays(N)
  <2>1. N - n \in Kept /\ n + (N - n) = N
    BY <1>0, <1>4
  <2> HIDE DEF Stays
  <2> QED
    BY <2>1
<1>6. R!Cells(bs) = h[N]
  BY DEF R!Cells, h
<1> QED
  BY <1>0, <1>1, <1>3, <1>5, <1>6 DEF h

(* What stands at the header of a block, and behind the last one.          *)
LEMMA HeadersStand ==
    ASSUME NEW bs \in Seq(R!ChunkBlocks)
    PROVE  LET cells == R!Cells(bs) IN
           /\ \A n \in 1 .. Len(bs) :
                 /\ Header(bs, n) \in DOMAIN cells
                 /\ cells[Header(bs, n)] = [block |-> n, header |-> TRUE]
                 /\ R!ActionAt(bs, cells, Header(bs, n)) = bs[n].load_action
                 /\ R!NextHeader(bs, cells, Header(bs, n)) = Header(bs, n + 1)
           /\ R!ActionAt(bs, cells, Header(bs, Len(bs) + 1)) = "beyond"
           /\ Header(bs, 1) = 1
<1> DEFINE N == Len(bs)
           h == R!Laid(bs)
           cells == R!Cells(bs)
<1>0. N \in Nat
  BY BlockOf
<1>1. \A n \in 0 .. N : /\ h[n] \in Seq(Cell(bs)) /\ Len(h[n]) \in Nat
                        /\ Len(h[n]) <= Len(cells)
                        /\ \A k \in 1 .. Len(h[n]) : cells[k] = h[n][k]
  BY LaidStays, LaidInSteps
<1>2. cells \in Seq(Cell(bs)) /\ Len(cells) \in Nat /\ DOMAIN cells = 1 .. Len(cells)
  <2>1. cells \in Seq(Cell(bs))
    BY <1>0, LaidStays
  <2> HIDE DEF cells
  <2> QED
    BY <2>1
<1>3. ASSUME NEW n \in 1 .. N
      PROVE  /\ Header(bs, n) \in DOMAIN cells
             /\ cells[Header(bs, n)] = [block |-> n, header |-> TRUE]
             /\ R!NextHeader(bs, cells, Header(bs, n)) = Header(bs, n + 1)
  <2>1. n - 1 \in 0 .. N /\ n + 1 - 1 = n /\ n \in 0 .. N /\ bs[n].len \in Nat
    BY <1>0, BlockOf
  <2>2. LaidBehind(bs, n, h[n - 1], h[n])
    BY LaidInSteps
  <2> DEFINE q == Len(h[n - 1])
             p == q + 1
  <2>3. Len(h[n]) = p + bs[n].len /\ h[n][p] = [block |-> n, header |-> TRUE]
    <3> HIDE DEF h
    <3> QED
      BY <2>1, <2>2 DEF LaidBehind
  <2>4. Header(bs, n) = p /\ Header(bs, n + 1) = Len(h[n]) + 1
    BY <2>1 DEF Header
  <2>9. q \in Nat
    BY <1>1, <2>1
  <2> HIDE DEF cells, h, q
  <2>5. p \in 1 .. Len(h[n])
    BY <2>1, <2>3, <2>9
  <2>6. p \in DOMAIN cells /\ cells[p] = [block |-> n, header |-> TRUE]
    BY <1>1, <1>2, <2>1, <2>3, <2>5
  <2>7. R!NextHeader(bs, cells, p) = p + 1 + bs[n].len
    BY <2>6 DEF R!NextHeader
  <2> HIDE DEF p
  <2>8. p + 1 + bs[n].len = p + bs[n].len + 1
    BY <2>1, <2>5, <2>9
  <2> QED
    BY <2>3, <2>4, <2>6, <2>7, <2>8
<1>4. R!ActionAt(bs, cells, Header(bs, N + 1)) = "beyond"
  <2>1. Header(bs, N + 1) = Len(cells) + 1
    <3>1. N + 1 - 1 = N
      BY <1>0
    <3> QED
      BY <3>1 DEF Header, R!Cells
  <2> HIDE DEF cells
  <2>2. Header(bs, N + 1) \notin DOMAIN cells
    BY <1>2, <2>1
  <2> QED
    BY <2>2 DEF R!ActionAt
<1>5. Header(bs, 1) = 1
  BY LaidInSteps DEF Header
<1> HIDE DEF cells
<1>6. ASSUME NEW n \in 1 .. N
      PROVE  R!ActionAt(bs, cells, Header(bs, n)) = bs[n].load_action
  <2>1. /\ Header(bs, n) \in DOMAIN cells
        /\ cells[Header(bs, n)] = [block |-> n, header |-> TRUE]
    BY <1>3
  <2> QED
    BY <2>1 DEF R!ActionAt
<1> QED
  BY <1>3, <1>4, <1>5, <1>6 DEF cells

(* The walk, from header to header.                                        *)
Stop == {"OBJECT", "END", "beyond"}
WalkStep(bs, cells, e) ==
    IF R!ActionAt(bs, cells, e) \in Stop THEN e ELSE R!NextHeader(bs, cells, e)

LEMMA WalksInSteps ==
    ASSUME NEW bs \in Seq(R!ChunkBlocks)
    PROVE  LET cells == R!Cells(bs)
               entry == R!Walk(bs, cells)
           IN  /\ entry[0] = 1
               /\ \A n \in 1 .. Len(cells) : entry[n] = WalkStep(bs, cells, entry[n - 1])
<1> DEFINE cells == R!Cells(bs)
           N == Len(cells)
           step == [n \in 1 .. N |-> [e \in Nat |-> WalkStep(bs, cells, e)]]
           Loop(h) == [n \in 0 .. N |-> IF n = 0 THEN 1 ELSE WalkStep(bs, cells, h[n - 1])]
<1>1. cells \in Seq(Cell(bs)) /\ N \in Nat
  <2>1. 0 \in 0 .. Len(bs)
    BY BlockOf
  <2> QED
    BY <2>1, LaidStays
<1>2. R!Walk(bs, cells) = CHOOSE h : h = Loop(h)
  BY DEF R!Walk, WalkStep, Stop
<1> HIDE DEF cells, N
<1>3. ASSUME NEW e \in Nat
      PROVE  WalkStep(bs, cells, e) \in Nat
  <2>1. CASE R!ActionAt(bs, cells, e) \in Stop
    BY <2>1 DEF WalkStep
  <2>2. CASE R!ActionAt(bs, cells, e) \notin Stop
    <3>1. e \in DOMAIN cells
      BY <2>2 DEF R!ActionAt, Stop
    <3>2. cells[e] \in Cell(bs)
      BY <1>1, <3>1
    <3>3. bs[cells[e].block].len \in Nat
      BY <3>2, BlockOf DEF Cell
    <3> QED
      BY <2>2, <3>3 DEF WalkStep, R!NextHeader
  <2> QED
    BY <2>1, <2>2
<1>4. Steps(N, Nat, 1, step)
  BY <1>1, <1>3 DEF Steps
<1>5. PICK g : Computes(g, N, Nat, 1, step)
  <2> HIDE DEF step
  <2> QED
    BY <1>4, Computed
<1>6. g \in [0 .. N -> Nat] /\ g[0] = 1 /\ \A k \in 1 .. N : g[k] = step[k][g[k - 1]]
  BY <1>5 DEF Computes
<1>7. \A k \in 1 .. N : g[k - 1] \in Nat
  BY <1>1, <1>6
<1>8. \A k \in 1 .. N : g[k] = WalkStep(bs, cells, g[k - 1])
  BY <1>6, <1>7
<1>9. g = Loop(g)
  BY <1>1, <1>6, <1>8
<1> DEFINE h == R!Walk(bs, cells)
<1>10. h = Loop(h)
  <2> HIDE DEF Loop
  <2> QED
    BY <1>2, <1>9
<1> HIDE DEF h
<1>11. h[0] = 1 /\ \A n \in 1 .. N : h[n] = WalkStep(bs, cells, h[n - 1])
  BY <1>1, <1>10
<1> QED
  BY <1>11 DEF h, cells, N

(* The first block that stops the walk, or the end.                        *)
Stops(bs, n) == bs[n].load_action \in {"OBJECT", "END"}
FirstStop(bs, f) ==
    /\ f \in 1 .. Len(bs) + 1
    /\ f <= Len(bs) => Stops(bs, f)
    /\ \A n \in 1 .. f - 1 : ~Stops(bs, n)

LEMMA SomeStop ==
    ASSUME NEW bs \in Seq(R!ChunkBlocks)
    PROVE  \E f : FirstStop(bs, f)
<1> DEFINE T == {n \in 1 .. Len(bs) + 1 : n <= Len(bs) => Stops(bs, n)}
<1>1. Len(bs) \in Nat
  BY BlockOf
<1>2. Len(bs) + 1 \in T /\ T \subseteq Nat
  BY <1>1
<1>3. PICK f \in T : \A n \in T : f <= n
  <2> HIDE DEF T
  <2> QED
    BY <1>2, LeastNatural
<1>4. \A n \in 1 .. f - 1 : ~Stops(bs, n)
  BY <1>1, <1>3
<1> QED
  BY <1>3, <1>4 DEF FirstStop

(* It ends there.                                                          *)
LEMMA WalkEndsAt ==
    ASSUME NEW bs \in Seq(R!ChunkBlocks), NEW f, FirstStop(bs, f)
    PROVE  LET cells == R!Cells(bs)
           IN  R!Walk(bs, cells)[Len(cells)] = Header(bs, f)
<1> DEFINE cells == R!Cells(bs)
           entry == R!Walk(bs, cells)
           N == Len(cells)
           Walked == {n \in 0 .. f - 1 : entry[n] = Header(bs, n + 1)}
           Stopped == {n \in 0 .. N - (f - 1) : entry[f - 1 + n] = Header(bs, f)}
<1>0. /\ Len(bs) \in Nat /\ f \in 1 .. Len(bs) + 1 /\ N \in Nat /\ Len(bs) <= N
      /\ f - 1 \in Nat /\ N - (f - 1) \in Nat
  <2>1. Len(bs) \in Nat /\ f \in 1 .. Len(bs) + 1
    BY BlockOf DEF FirstStop
  <2>2. N \in Nat /\ Len(bs) <= N
    <3>1. Len(bs) \in 0 .. Len(bs)
      BY <2>1
    <3>2. Len(bs) <= Len(R!Laid(bs)[Len(bs)]) /\ Len(R!Laid(bs)[Len(bs)]) <= N /\ N \in Nat
          /\ Len(R!Laid(bs)[Len(bs)]) \in Nat
      BY <3>1, LaidStays
    <3> HIDE DEF N
    <3> QED
      BY <2>1, <3>2
  <2> HIDE DEF N
  <2> QED
    BY <2>1, <2>2
<1>1. entry[0] = 1 /\ \A n \in 1 .. N : entry[n] = WalkStep(bs, cells, entry[n - 1])
  BY WalksInSteps
<1>2. /\ \A n \in 1 .. Len(bs) :
            /\ R!ActionAt(bs, cells, Header(bs, n)) = bs[n].load_action
            /\ R!NextHeader(bs, cells, Header(bs, n)) = Header(bs, n + 1)
      /\ R!ActionAt(bs, cells, Header(bs, Len(bs) + 1)) = "beyond"
      /\ Header(bs, 1) = 1
  BY HeadersStand
<1> HIDE DEF entry, cells, N
<1>3. \A n \in 0 .. f - 1 : n \in Walked
  <2>1. 0 \in Walked
    BY <1>0, <1>1, <1>2
  <2>2. ASSUME NEW n \in 1 .. f - 1, n - 1 \in Walked
        PROVE  n \in Walked
    <3>1. n \in 1 .. N /\ n \in 1 .. Len(bs) /\ n - 1 + 1 = n
      BY <1>0
    <3>2. entry[n - 1] = Header(bs, n)
      BY <2>2, <3>1
    <3>3. bs[n].load_action \in R!Actions /\ bs[n].load_action \notin {"OBJECT", "END"}
      BY <3>1, BlockOf DEF FirstStop, Stops
    <3>4. R!ActionAt(bs, cells, Header(bs, n)) \notin Stop
      BY <1>2, <3>1, <3>3 DEF R!Actions, Stop
    <3>5. entry[n] = R!NextHeader(bs, cells, Header(bs, n))
      BY <1>1, <3>1, <3>2, <3>4 DEF WalkStep
    <3>6. entry[n] = Header(bs, n + 1)
      BY <1>2, <3>1, <3>5
    <3> QED
      BY <3>6
  <2> HIDE DEF Walked
  <2> QED
    BY <1>0, <2>1, <2>2, UpTo
<1>4. R!ActionAt(bs, cells, Header(bs, f)) \in Stop
  <2>1. CASE f \in 1 .. Len(bs)
    BY <1>2, <2>1 DEF FirstStop, Stops, Stop
  <2>2. CASE f = Len(bs) + 1
    BY <1>2, <2>2 DEF Stop
  <2> QED
    BY <1>0, <2>1, <2>2
<1>5. \A n \in 0 .. N - (f - 1) : n \in Stopped
  <2>1. 0 \in Stopped
    <3>1. f - 1 \in 0 .. f - 1 /\ f - 1 + 1 = f /\ f - 1 + 0 = f - 1
      BY <1>0
    <3>2. entry[f - 1] = Header(bs, f - 1 + 1)
      BY <1>3, <3>1
    <3>3. entry[f - 1 + 0] = Header(bs, f)
      BY <3>1, <3>2
    <3> QED
      BY <1>0, <3>3
  <2>2. ASSUME NEW n \in 1 .. N - (f - 1), n - 1 \in Stopped
        PROVE  n \in Stopped
    <3> DEFINE j == f - 1 + n
    <3>1. j \in 1 .. N /\ j - 1 = f - 1 + (n - 1)
      BY <1>0
    <3> HIDE DEF j
    <3>2. entry[j - 1] = Header(bs, f)
      BY <2>2, <3>1
    <3>3. entry[j] = WalkStep(bs, cells, Header(bs, f))
      BY <1>1, <3>1, <3>2
    <3>4. entry[j] = Header(bs, f)
      BY <1>4, <3>3 DEF WalkStep
    <3> QED
      BY <3>4 DEF j
  <2> HIDE DEF Stopped
  <2> QED
    BY <1>0, <2>1, <2>2, UpTo
<1>6. N - (f - 1) \in Stopped
  <2>1. N - (f - 1) \in 0 .. N - (f - 1)
    BY <1>0
  <2> HIDE DEF Stopped
  <2> QED
    BY <1>5, <2>1
<1>7. f - 1 + (N - (f - 1)) = N
  BY <1>0
<1>8. entry[N] = Header(bs, f)
  <2>1. entry[f - 1 + (N - (f - 1))] = Header(bs, f)
    BY <1>6
  <2> QED
    BY <1>7, <2>1, Zenon
<1> QED
  BY <1>8 DEF entry, cells, N

(* Behind the first header stands its block's data, if it has any.         *)
LEMMA FirstData ==
    ASSUME NEW bs \in Seq(R!ChunkBlocks), bs # <<>>, bs[1].len > 0
    PROVE  LET cells == R!Cells(bs)
           IN  Len(cells) > 1 /\ cells[2].block = 1
<1> DEFINE cells == R!Cells(bs)
           first == R!Laid(bs)[1]
<1>1. 1 \in 1 .. Len(bs) /\ 1 \in 0 .. Len(bs) /\ bs[1].len \in Nat /\ 1 - 1 = 0
  BY BlockOf
<1>2. LaidBehind(bs, 1, <<>>, first)
  BY <1>1, LaidInSteps
<1>3. Len(first) = 1 + bs[1].len /\ \A k \in 2 .. Len(first) : first[k].block = 1
  BY <1>2 DEF LaidBehind
<1>4. Len(first) <= Len(cells) /\ (\A k \in 1 .. Len(first) : cells[k] = first[k])
      /\ Len(cells) \in Nat /\ Len(first) \in Nat
  BY <1>1, LaidStays
<1> HIDE DEF cells, first
<1>5. Len(cells) > 1 /\ 2 \in 2 .. Len(first) /\ 2 \in 1 .. Len(first)
  BY <1>1, <1>3, <1>4
<1> QED
  BY <1>3, <1>4, <1>5 DEF cells

LEMMA ObjectsAgree ==
    ASSUME answer.kind = "object", answer.blocks \in Seq(R!ChunkBlocks),
           answer.result = R!gff_rdff_to_object(answer.blocks)
    PROVE  ObjectOfItsBlock
<1> DEFINE bs == answer.blocks
           cells == R!Cells(bs)
           entry == R!Walk(bs, cells)[Len(cells)]
           r == answer.result
           data == IF Len(cells) > 1 THEN cells[2].block ELSE 0
<1>1. PICK f : FirstStop(bs, f)
  BY SomeStop
<1>2. entry = Header(bs, f)
  BY <1>1, WalkEndsAt
<1>3. Len(bs) \in Nat /\ DOMAIN bs = 1 .. Len(bs) /\ f \in 1 .. Len(bs) + 1
  BY <1>1, BlockOf DEF FirstStop
<1>4. CASE f = Len(bs) + 1
  <2>1. R!ActionAt(bs, cells, entry) = "beyond"
    BY <1>2, <1>4, HeadersStand
  <2>2. r.status = "beyond"
    BY <2>1 DEF R!gff_rdff_to_object
  <2>3. \A n \in DOMAIN bs : ~Stops(bs, n)
    BY <1>1, <1>3, <1>4 DEF FirstStop
  <2> HIDE DEF bs, r
  <2> QED
    BY <2>2, <2>3 DEF ObjectOfItsBlock, Stops, bs, r
<1>5. CASE f \in 1 .. Len(bs)
  <2>1. /\ R!ActionAt(bs, cells, entry) = bs[f].load_action
        /\ cells[entry].block = f
    <3>1. /\ cells[Header(bs, f)] = [block |-> f, header |-> TRUE]
          /\ R!ActionAt(bs, cells, Header(bs, f)) = bs[f].load_action
      BY <1>5, HeadersStand
    <3> HIDE DEF entry, cells, bs
    <3> QED
      BY <1>2, <3>1
  <2>2. Stops(bs, f) /\ \A n \in 1 .. f - 1 : ~Stops(bs, n)
    BY <1>1, <1>5 DEF FirstStop
  <2>3. \A n \in DOMAIN bs : Stops(bs, n) /\ (\A j \in 1 .. n - 1 : ~Stops(bs, j)) => n = f
    BY <1>3, <1>5, <2>2
  <2>4. CASE bs[f].load_action = "END"
    <3>1. r.status = "failure"
      BY <2>1, <2>4 DEF R!gff_rdff_to_object
    <3> HIDE DEF bs, r
    <3> QED
      BY <1>3, <1>5, <2>2, <2>3, <2>4, <3>1 DEF ObjectOfItsBlock, Stops, bs, r
  <2>5. CASE bs[f].load_action = "OBJECT"
    <3>1. r = [status |-> R!fill_object(bs[f].type), type |-> bs[f].type, from |-> data]
      BY <2>1, <2>5 DEF R!gff_rdff_to_object
    <3>2. bs[f].type \in R!Types
      BY <1>5, BlockOf
    <3> DEFINE s == R!fill_object(bs[f].type)
    <3>3. s # "beyond" /\ (s = "success" <=> bs[f].type \in {"ITEM", "COMBAT"})
      BY <3>2 DEF R!fill_object, R!Types
    <3>4. f = 1 /\ bs[f].len > 0 => data = f
      <4>1. bs # <<>>
        BY <1>5
      <4> QED
        BY <4>1, FirstData
    <3> HIDE DEF bs, r, s, data
    <3>5. r.status = s /\ r.type = bs[f].type /\ r.from = data
      BY <3>1 DEF s
    <3> QED
      BY <1>3, <1>5, <2>2, <2>3, <2>5, <3>3, <3>4, <3>5 DEF ObjectOfItsBlock, Stops, bs, r
  <2> QED
    BY <2>2, <2>4, <2>5 DEF Stops
<1> QED
  BY <1>3, <1>4, <1>5

------------------------------------------------------------------------------
(* The sheet of a font.  Rows of a width and what is left of it.           *)
LEMMA InRow ==
    ASSUME NEW W \in Nat, NEW H \in Nat, NEW r \in 0 .. H - 1, NEW u \in 0 .. W - 1
    PROVE  W * r + u \in 0 .. W * H - 1
<1> DEFINE q == H - 1 - r
<1>1. q \in Nat /\ r \in Nat /\ H = r + 1 + q
  OBVIOUS
<1> HIDE DEF q
<1>2. W * H = W * r + W + W * q
  <2>1. W * H = W * (r + 1 + q)
    BY <1>1
  <2>2. W * (r + 1 + q) = W * r + W + W * q
    BY <1>1
  <2> QED
    BY <2>1, <2>2
<1> DEFINE a == W * r
           b == W * q
           c == W * H
<1>3. a \in Nat /\ b \in Nat /\ c \in Nat
  BY <1>1
<1>4. c = a + W + b
  BY <1>2
<1> HIDE DEF a, b, c
<1>5. a + u \in 0 .. c - 1
  BY <1>3, <1>4
<1> QED
  BY <1>5 DEF a, c

LEMMA OneRow ==
    ASSUME NEW W \in Nat, NEW r \in Nat, NEW s \in Nat,
           NEW u \in 0 .. W - 1, NEW v \in 0 .. W - 1, W * r + u = W * s + v, r <= s
    PROVE  u = v /\ r = s
<1> DEFINE q == s - r
           a == W * r
           b == W * q
<1>1. q \in Nat /\ s = r + q
  OBVIOUS
<1> HIDE DEF q
<1>2. W * s = W * r + W * q
  <2>1. W * s = W * (r + q)
    BY <1>1
  <2>2. W * (r + q) = W * r + W * q
    BY <1>1
  <2> QED
    BY <2>1, <2>2
<1>3. a \in Nat /\ b \in Nat /\ a + u = a + b + v
  BY <1>1, <1>2
<1>4. q # 0 => b >= W
  <2> SUFFICES ASSUME q # 0
               PROVE  b >= W
    OBVIOUS
  <2>1. PICK d \in Nat : q = 1 + d
    <3>1. q - 1 \in Nat /\ q = 1 + (q - 1)
      BY <1>1
    <3> QED
      BY <3>1
  <2>2. W * q = W * (1 + d)
    BY <2>1
  <2>3. W * (1 + d) = W + W * d /\ W * d \in Nat
    OBVIOUS
  <2> QED
    BY <2>2, <2>3
<1>5. q = 0 => b = 0
  OBVIOUS
<1> HIDE DEF a, b
<1> QED
  BY <1>1, <1>3, <1>4, <1>5

(* Widths add up.                                                          *)
FontIs(font) ==
    font.height \in Nat /\ font.chars \in Seq([width : Nat, data : Seq(Nat)])

LEMMA CharOf ==
    ASSUME NEW font, FontIs(font)
    PROVE  /\ Len(font.chars) \in Nat /\ DOMAIN font.chars = 1 .. Len(font.chars)
           /\ \A n \in 1 .. Len(font.chars) : font.chars[n].width \in Nat
<1> DEFINE q == font.chars
           C == [width : Nat, data : Seq(Nat)]
<1>1. q \in Seq(C)
  BY DEF FontIs
<1>2. \A x \in C : x.width \in Nat
  OBVIOUS
<1> HIDE DEF q, C
<1>3. Len(q) \in Nat /\ DOMAIN q = 1 .. Len(q) /\ \A n \in 1 .. Len(q) : q[n] \in C
  BY <1>1
<1> QED
  BY <1>2, <1>3 DEF q

LEMMA WidthsAdd ==
    ASSUME NEW font, FontIs(font)
    PROVE  /\ F!Widths(font)[0] = 0
           /\ \A n \in 1 .. Len(font.chars) :
                 F!Widths(font)[n] = F!Widths(font)[n - 1] + font.chars[n].width
           /\ \A n \in 0 .. Len(font.chars) : F!Widths(font)[n] \in Nat
<1> DEFINE N == Len(font.chars)
           step == [n \in 1 .. N |-> [w \in Nat |-> w + font.chars[n].width]]
           Loop(h) == [n \in 0 .. N |-> IF n = 0 THEN 0 ELSE h[n - 1] + font.chars[n].width]
<1>1. N \in Nat /\ \A n \in 1 .. N : font.chars[n].width \in Nat
  BY CharOf
<1>2. F!Widths(font) = CHOOSE h : h = Loop(h)
  BY DEF F!Widths
<1> HIDE DEF N
<1>3. Steps(N, Nat, 0, step)
  BY <1>1 DEF Steps
<1>4. PICK g : Computes(g, N, Nat, 0, step)
  <2> HIDE DEF step
  <2> QED
    BY <1>3, Computed
<1>5. g \in [0 .. N -> Nat] /\ g[0] = 0 /\ \A k \in 1 .. N : g[k] = step[k][g[k - 1]]
  BY <1>4 DEF Computes
<1>6. \A k \in 1 .. N : g[k - 1] \in Nat
  BY <1>1, <1>5
<1>7. \A k \in 1 .. N : g[k] = g[k - 1] + font.chars[k].width
  BY <1>5, <1>6
<1>8. g = Loop(g)
  BY <1>1, <1>5, <1>7
<1> DEFINE h == F!Widths(font)
<1>9. h = Loop(h)
  <2> HIDE DEF Loop
  <2> QED
    BY <1>2, <1>8
<1> HIDE DEF h
<1>10. h[0] = 0 /\ \A n \in 1 .. N : h[n] = h[n - 1] + font.chars[n].width
  BY <1>1, <1>9
<1> DEFINE T == {n \in 0 .. N : h[n] \in Nat}
<1>11. \A n \in 0 .. N : n \in T
  <2>1. 0 \in T
    BY <1>1, <1>10
  <2>2. \A n \in 1 .. N : n - 1 \in T => n \in T
    BY <1>1, <1>10
  <2> HIDE DEF T
  <2> QED
    BY <1>1, <2>1, <2>2, UpTo
<1> QED
  BY <1>10, <1>11 DEF h, N

LEMMA WidthsGrow ==
    ASSUME NEW font, FontIs(font), NEW n \in 0 .. Len(font.chars),
           NEW m \in n .. Len(font.chars)
    PROVE  F!Widths(font)[n] <= F!Widths(font)[m]
<1> DEFINE w == F!Widths(font)
           N == Len(font.chars)
           T == {k \in 0 .. N - n : w[n] <= w[n + k]}
<1>1. N \in Nat /\ \A k \in 1 .. N : font.chars[k].width \in Nat
  BY CharOf
<1>2. /\ \A k \in 1 .. N : w[k] = w[k - 1] + font.chars[k].width
      /\ \A k \in 0 .. N : w[k] \in Nat
  BY WidthsAdd
<1> HIDE DEF w, N
<1>3. n \in 0 .. N /\ N - n \in Nat /\ m - n \in 0 .. N - n /\ n + (m - n) = m
  BY <1>1 DEF N
<1>4. 0 \in T
  <2>1. n + 0 = n /\ w[n] \in Nat
    BY <1>2, <1>3
  <2> QED
    BY <1>3, <2>1
<1>5. ASSUME NEW k \in 1 .. N - n, k - 1 \in T
      PROVE  k \in T
  <2> DEFINE j == n + k
  <2>1. j \in 1 .. N /\ j - 1 = n + (k - 1) /\ j - 1 \in 0 .. N
    BY <1>1, <1>3
  <2> HIDE DEF j
  <2>2. w[n] <= w[j - 1]
    BY <1>5, <2>1
  <2>3. w[j] = w[j - 1] + font.chars[j].width /\ font.chars[j].width \in Nat
        /\ w[j - 1] \in Nat /\ w[n] \in Nat
    BY <1>1, <1>2, <1>3, <2>1
  <2>4. w[n] <= w[j]
    BY <2>2, <2>3
  <2> QED
    BY <2>4 DEF j
<1>6. \A k \in 0 .. N - n : k \in T
  <2> HIDE DEF T
  <2> QED
    BY <1>3, <1>4, <1>5, UpTo
<1>7. w[n] <= w[n + (m - n)]
  BY <1>3, <1>6
<1>8. w[n] <= w[m]
  BY <1>3, <1>7
<1> QED
  BY <1>8 DEF w

(* Where pixel y of row x of character n is drawn: in a row of the sheet,  *)
(* and nowhere another character's is.                                     *)
Cells(font, n) == (0 .. font.height - 1) \X (0 .. font.chars[n].width - 1)
Place(font, n, c) == F!CurrentColumn(font, F!Widths(font)[n - 1], c[1]) + c[2]
Area(font) == 0 .. F!TotalWidth(font) * font.height - 1

LEMMA PlaceIs ==
    ASSUME NEW font, FontIs(font), NEW n \in 1 .. Len(font.chars), NEW c \in Cells(font, n)
    PROVE  LET W == F!TotalWidth(font)
               w == F!Widths(font)
               r == font.height - 1 - c[1]
               u == w[n - 1] + c[2]
           IN  /\ W \in Nat /\ r \in 0 .. font.height - 1
               /\ u \in 0 .. W - 1 /\ w[n - 1] <= u /\ u < w[n]
               /\ Place(font, n, c) = W * r + u
               /\ Place(font, n, c) \in Area(font)
<1> DEFINE W == F!TotalWidth(font)
           w == F!Widths(font)
           N == Len(font.chars)
           H == font.height
           r == H - 1 - c[1]
           u == w[n - 1] + c[2]
<1>1. N \in Nat /\ H \in Nat /\ font.chars[n].width \in Nat
  BY CharOf DEF FontIs
<1>2. n - 1 \in 0 .. N /\ n \in 0 .. N /\ N \in n .. N
  BY <1>1
<1>3. /\ w[n] = w[n - 1] + font.chars[n].width
      /\ w[n - 1] \in Nat /\ w[n] \in Nat /\ W \in Nat /\ w[n] <= W
  <2>1. w[n] = w[n - 1] + font.chars[n].width /\ w[n - 1] \in Nat /\ w[n] \in Nat
    BY <1>1, <1>2, WidthsAdd
  <2>2. W = w[N] /\ w[N] \in Nat
    BY <1>1, WidthsAdd DEF F!TotalWidth
  <2>3. w[n] <= w[N]
    BY <1>2, WidthsGrow
  <2> QED
    BY <2>1, <2>2, <2>3
<1>4. c[1] \in 0 .. H - 1 /\ c[2] \in 0 .. font.chars[n].width - 1
  BY DEF Cells
<1>5. Place(font, n, c) = (w[n - 1] + W * r) + c[2]
  BY DEF Place, F!CurrentColumn
<1>6. r \in 0 .. H - 1
  <2> HIDE DEF H
  <2> QED
    BY <1>1, <1>4
<1> HIDE DEF W, w, r, H
<1>7. u \in 0 .. W - 1 /\ w[n - 1] <= u /\ u < w[n]
  <2> DEFINE a == w[n - 1]
             b == w[n]
             l == font.chars[n].width
  <2>1. a \in Nat /\ b = a + l /\ l \in Nat /\ b <= W /\ W \in Nat /\ c[2] \in 0 .. l - 1
    BY <1>1, <1>3, <1>4
  <2> HIDE DEF a, b, l
  <2>2. a + c[2] \in 0 .. W - 1 /\ a <= a + c[2] /\ a + c[2] < b
    BY <2>1
  <2> QED
    BY <2>2 DEF a, b
<1>8. W * r \in Int
  BY <1>1, <1>3, <1>6
<1>9. (w[n - 1] + W * r) + c[2] = W * r + u
  <2> DEFINE a == W * r
  <2>1. a \in Int
    BY <1>8
  <2> HIDE DEF a
  <2>2. (w[n - 1] + a) + c[2] = a + u
    BY <1>1, <1>3, <1>4, <2>1
  <2> QED
    BY <2>2 DEF a
<1> HIDE DEF u
<1>10. W * r + u \in 0 .. W * H - 1
  BY <1>1, <1>3, <1>6, <1>7, InRow
<1>11. Area(font) = 0 .. W * H - 1
  BY DEF Area, W, H
<1> QED
  BY <1>3, <1>5, <1>6, <1>7, <1>9, <1>10, <1>11 DEF W, w, r, H, u

LEMMA PlacesDiffer ==
    ASSUME NEW font, FontIs(font),
           NEW n \in 1 .. Len(font.chars), NEW m \in n .. Len(font.chars),
           NEW c \in Cells(font, n), NEW d \in Cells(font, m),
           Place(font, n, c) = Place(font, m, d)
    PROVE  n = m /\ c = d
<1> DEFINE W == F!TotalWidth(font)
           w == F!Widths(font)
           H == font.height
           r == H - 1 - c[1]
           s == H - 1 - d[1]
           u == w[n - 1] + c[2]
           v == w[m - 1] + d[2]
<1>1. Len(font.chars) \in Nat /\ H \in Nat /\ m \in 1 .. Len(font.chars)
  BY CharOf DEF FontIs
<1>2. /\ W \in Nat /\ r \in 0 .. H - 1 /\ u \in 0 .. W - 1 /\ u < w[n]
      /\ Place(font, n, c) = W * r + u
  BY PlaceIs
<1>3. /\ s \in 0 .. H - 1 /\ v \in 0 .. W - 1 /\ w[m - 1] <= v
      /\ Place(font, m, d) = W * s + v
  BY <1>1, PlaceIs
<1>4. n < m => w[n] <= w[m - 1]
  BY <1>1, WidthsGrow
<1>5. w[n] \in Nat /\ w[n - 1] \in Nat /\ w[m - 1] \in Nat
  <2>1. n \in 0 .. Len(font.chars) /\ n - 1 \in 0 .. Len(font.chars)
        /\ m - 1 \in 0 .. Len(font.chars)
    BY <1>1
  <2> QED
    BY <2>1, WidthsAdd
<1>6. c[1] \in 0 .. H - 1 /\ d[1] \in 0 .. H - 1 /\ c[2] \in Nat /\ d[2] \in Nat
      /\ c = <<c[1], c[2]>> /\ d = <<d[1], d[2]>>
  <2>1. font.chars[n].width \in Nat /\ font.chars[m].width \in Nat
    BY <1>1, CharOf
  <2> QED
    BY <1>1, <2>1 DEF Cells
<1>7. u = v /\ r = s
  <2> HIDE DEF W, r, s, u, v, H
  <2>1. r \in Nat /\ s \in Nat
    BY <1>1, <1>2, <1>3
  <2>3. W * r + u = W * s + v
    BY <1>2, <1>3, Zenon
  <2>2. r <= s \/ s <= r
    BY <2>1
  <2> QED
    BY <1>2, <1>3, <2>1, <2>2, <2>3, OneRow
<1>8. n = m
  <2> HIDE DEF u, v, w
  <2> QED
    <3>1. u \in Nat /\ v \in Nat /\ u < w[n] /\ w[m - 1] <= v
      BY <1>2, <1>3
    <3> QED
      BY <1>1, <1>4, <1>5, <1>7, <3>1
<1>9. c[2] = d[2] /\ c[1] = d[1]
  <2> DEFINE a == w[n - 1]
             x == c[2]
             y == d[2]
  <2>1. a + x = a + y /\ H - 1 - c[1] = H - 1 - d[1]
    BY <1>7, <1>8
  <2>2. a \in Nat /\ x \in Nat /\ y \in Nat
    BY <1>5, <1>6
  <2> HIDE DEF a, x, y, H
  <2>3. x = y /\ c[1] = d[1]
    BY <1>1, <1>6, <2>1, <2>2
  <2> QED
    BY <2>3 DEF x, y
<1> QED
  BY <1>6, <1>8, <1>9

(* What drawing one character does.                                        *)
Colors(font) ==
    {F!Clear} \cup {F!Pixel(font, font.chars[n].data[k]) : n \in DOMAIN font.chars, k \in Int}
Shown(font, n, c) ==
    F!Pixel(font, font.chars[n].data[c[1] * font.chars[n].width + c[2] + 1])
DrawnOver(font, n, old, new) ==
    /\ new \in [Area(font) -> Colors(font)]
    /\ \A c \in Cells(font, n) : new[Place(font, n, c)] = Shown(font, n, c)
    /\ \A k \in Area(font) : (\A c \in Cells(font, n) : k # Place(font, n, c)) => new[k] = old[k]

LEMMA DrawnIs ==
    ASSUME NEW font, FontIs(font), NEW n \in 1 .. Len(font.chars),
           NEW old \in [Area(font) -> Colors(font)]
    PROVE  DrawnOver(font, n, old, F!Drawn(font, old, n))
<1> DEFINE C == Cells(font, n)
           A == Area(font)
           new == F!Drawn(font, old, n)
<1>1. Len(font.chars) \in Nat /\ DOMAIN font.chars = 1 .. Len(font.chars)
      /\ font.chars[n].width \in Nat /\ n \in n .. Len(font.chars)
  BY CharOf
<1>2. \A c \in C : Place(font, n, c) \in A
  BY PlaceIs
<1>3. \A c, d \in C : Place(font, n, c) = Place(font, n, d) => c = d
  BY <1>1, PlacesDiffer
<1>4. \A c \in C : Shown(font, n, c) \in Colors(font)
  <2> TAKE c \in C
  <2>1. c[1] \in Int /\ c[2] \in Int
    BY <1>1 DEF Cells
  <2> DEFINE k == c[1] * font.chars[n].width + c[2] + 1
  <2>2. k \in Int
    BY <1>1, <2>1
  <2> HIDE DEF k
  <2>3. F!Pixel(font, font.chars[n].data[k]) \in Colors(font)
    BY <1>1, <2>2 DEF Colors
  <2> QED
    BY <2>3 DEF Shown, k
<1>5. new = [k \in DOMAIN old \cup {Place(font, n, c) : c \in C} |->
               IF \E c \in C : k = Place(font, n, c)
               THEN Shown(font, n, CHOOSE d \in C : k = Place(font, n, d))
               ELSE old[k]]
  BY DEF F!Drawn, Place, Cells, Shown
<1> HIDE DEF C, A, new
<1>6. DOMAIN old \cup {Place(font, n, c) : c \in C} = A
  BY <1>2 DEF A
<1>7. new = [k \in A |->
               IF \E c \in C : k = Place(font, n, c)
               THEN Shown(font, n, CHOOSE d \in C : k = Place(font, n, d))
               ELSE old[k]]
  BY <1>5, <1>6
<1>8. ASSUME NEW c \in C
      PROVE  new[Place(font, n, c)] = Shown(font, n, c)
  <2> DEFINE p == Place(font, n, c)
             chosen == CHOOSE d \in C : p = Place(font, n, d)
  <2>1. chosen \in C /\ p = Place(font, n, chosen)
    OBVIOUS
  <2>2. chosen = c
    BY <1>3, <2>1
  <2>3. p \in A
    BY <1>2
  <2>4. new[p] = Shown(font, n, chosen)
    BY <1>7, <2>3
  <2> QED
    BY <2>2, <2>4
<1>9. ASSUME NEW k \in A, \A c \in C : k # Place(font, n, c)
      PROVE  new[k] = old[k]
  BY <1>7, <1>9
<1>10. new \in [A -> Colors(font)]
  <2>1. ASSUME NEW k \in A
        PROVE  new[k] \in Colors(font)
    <3>1. CASE \E c \in C : k = Place(font, n, c)
      BY <1>4, <1>8, <3>1
    <3>2. CASE \A c \in C : k # Place(font, n, c)
      <4>1. old[k] \in Colors(font)
        BY DEF A
      <4> QED
        BY <1>9, <3>2, <4>1
    <3> QED
      BY <3>1, <3>2
  <2>2. new = [k \in A |-> new[k]]
    BY <1>7
  <2> QED
    BY <2>1, <2>2
<1> QED
  BY <1>8, <1>9, <1>10 DEF DrawnOver, A, C, new

(* All characters, one after the other.                                    *)
Img(font) ==
    LET img[n \in 0 .. Len(font.chars)] ==
          IF n = 0 THEN [k \in 0 .. F!TotalWidth(font) * font.height - 1 |-> F!Clear]
          ELSE F!Drawn(font, img[n - 1], n)
    IN  img

LEMMA SheetInSteps ==
    ASSUME NEW font, FontIs(font)
    PROVE  /\ F!Sheet(font) = [w |-> F!TotalWidth(font), h |-> font.height,
                               pixels |-> Img(font)[Len(font.chars)]]
           /\ \A n \in 0 .. Len(font.chars) : Img(font)[n] \in [Area(font) -> Colors(font)]
           /\ \A n \in 1 .. Len(font.chars) :
                 DrawnOver(font, n, Img(font)[n - 1], Img(font)[n])
<1> DEFINE N == Len(font.chars)
           V == [Area(font) -> Colors(font)]
           base == [k \in Area(font) |-> F!Clear]
           step == [n \in 1 .. N |-> [p \in V |-> F!Drawn(font, p, n)]]
           Loop(h) == [n \in 0 .. N |-> IF n = 0 THEN base ELSE F!Drawn(font, h[n - 1], n)]
<1>1. N \in Nat /\ base \in V
  BY CharOf DEF Colors
<1>2. \A n \in 1 .. N : \A p \in V : DrawnOver(font, n, p, F!Drawn(font, p, n))
  BY DrawnIs
<1>3. \A n \in 1 .. N : \A p \in V : F!Drawn(font, p, n) \in V
  BY <1>2 DEF DrawnOver
<1>4. Img(font) = CHOOSE h : h = Loop(h)
  BY DEF Img, Area
<1>5. F!Sheet(font) = [w |-> F!TotalWidth(font), h |-> font.height, pixels |-> Img(font)[N]]
  BY DEF F!Sheet, Img
<1> HIDE DEF N, V, base
<1>6. Steps(N, V, base, step)
  BY <1>1, <1>3 DEF Steps
<1>7. PICK g : Computes(g, N, V, base, step)
  <2> HIDE DEF step
  <2> QED
    BY <1>6, Computed
<1>8. g \in [0 .. N -> V] /\ g[0] = base /\ \A k \in 1 .. N : g[k] = step[k][g[k - 1]]
  BY <1>7 DEF Computes
<1>9. \A k \in 1 .. N : g[k - 1] \in V
  BY <1>1, <1>8
<1>10. \A k \in 1 .. N : g[k] = F!Drawn(font, g[k - 1], k)
  BY <1>8, <1>9
<1>11. g = Loop(g)
  BY <1>1, <1>8, <1>10
<1> DEFINE h == Img(font)
<1>12. h = Loop(h)
  <2> HIDE DEF Loop
  <2> QED
    BY <1>4, <1>11
<1> HIDE DEF h
<1>13. h[0] = base /\ \A n \in 1 .. N : h[n] = F!Drawn(font, h[n - 1], n)
  BY <1>1, <1>12
<1> DEFINE T == {n \in 0 .. N : h[n] \in V}
<1>14. \A n \in 0 .. N : n \in T
  <2>1. 0 \in T
    BY <1>1, <1>13
  <2>2. \A n \in 1 .. N : n - 1 \in T => n \in T
    BY <1>1, <1>3, <1>13
  <2> HIDE DEF T
  <2> QED
    BY <1>1, <2>1, <2>2, UpTo
<1>15. ASSUME NEW n \in 1 .. N
       PROVE  DrawnOver(font, n, h[n - 1], h[n])
  <2>1. n - 1 \in 0 .. N
    BY <1>1
  <2>2. h[n - 1] \in V
    BY <1>14, <2>1
  <2> QED
    BY <1>2, <1>13, <2>2
<1> QED
  BY <1>5, <1>14, <1>15 DEF h, N, V

(* A character that is drawn stays as it is.                               *)
LEMMA CharactersStay ==
    ASSUME NEW font, FontIs(font), NEW n \in 1 .. Len(font.chars), NEW c \in Cells(font, n)
    PROVE  Img(font)[Len(font.chars)][Place(font, n, c)] = Shown(font, n, c)
<1> DEFINE N == Len(font.chars)
           img == Img(font)
           p == Place(font, n, c)
           T == {k \in 0 .. N - n : img[n + k][p] = Shown(font, n, c)}
<1>1. N \in Nat /\ N - n \in Nat /\ n + 0 = n /\ n + (N - n) = N
  BY CharOf
<1>2. p \in Area(font)
  BY PlaceIs
<1>3. \A m \in 1 .. N : DrawnOver(font, m, img[m - 1], img[m])
  BY SheetInSteps
<1> HIDE DEF img
<1>4. 0 \in T
  <2>1. img[n][p] = Shown(font, n, c)
    BY <1>3 DEF DrawnOver
  <2> HIDE DEF p
  <2> QED
    BY <1>1, <2>1
<1>5. ASSUME NEW k \in 1 .. N - n, k - 1 \in T
      PROVE  k \in T
  <2> DEFINE m == n + k
  <2>1. m \in 1 .. N /\ m \in n .. N /\ m # n /\ m - 1 = n + (k - 1)
    BY <1>1
  <2> HIDE DEF m
  <2>2. \A d \in Cells(font, m) : p # Place(font, m, d)
    BY <2>1, PlacesDiffer
  <2>3. img[m][p] = img[m - 1][p]
    BY <1>2, <1>3, <2>1, <2>2 DEF DrawnOver
  <2> HIDE DEF p
  <2>4. img[m - 1][p] = Shown(font, n, c)
    BY <1>5, <2>1
  <2> QED
    BY <2>3, <2>4 DEF m
<1>6. N - n \in T
  <2> HIDE DEF T
  <2>1. \A k \in 0 .. N - n : k \in T
    BY <1>1, <1>4, <1>5, UpTo
  <2> QED
    BY <1>1, <2>1
<1>7. img[n + (N - n)][p] = Shown(font, n, c)
  BY <1>6
<1> HIDE DEF p
<1> QED
  BY <1>1, <1>7 DEF img, p

LEMMA SheetsAgree ==
    ASSUME answer.kind = "sheet", FontIs(answer.font), answer.sheet = F!Sheet(answer.font)
    PROVE  SheetShowsCharacters
<1> DEFINE font == answer.font
           sheet == answer.sheet
           W == F!TotalWidth(font)
           H == font.height
           N == Len(font.chars)
<1>1. sheet = [w |-> W, h |-> H, pixels |-> Img(font)[N]]
  BY SheetInSteps
<1>2. N \in Nat /\ DOMAIN font.chars = 1 .. N /\ H \in Nat
  BY CharOf DEF FontIs
<1>3. DOMAIN sheet.pixels = 0 .. sheet.w * sheet.h - 1
  <2>1. N \in 0 .. N
    BY <1>2
  <2>2. Img(font)[N] \in [Area(font) -> Colors(font)]
    BY <2>1, SheetInSteps
  <2> HIDE DEF sheet, font
  <2> QED
    BY <1>1, <2>2 DEF Area
<1>4. ASSUME NEW n \in 1 .. N,
             NEW x \in 0 .. font.height - 1, NEW y \in 0 .. font.chars[n].width - 1
      PROVE  sheet.pixels[(sheet.h - 1 - x) * sheet.w + F!Widths(font)[n - 1] + y]
               = F!CharImage(font, n - 1)[x * font.chars[n].width + y]
  <2> DEFINE c == <<x, y>>
             l == font.chars[n].width
             i == x * l + y
             w == F!Widths(font)[n - 1]
  <2>1. c \in Cells(font, n) /\ c[1] = x /\ c[2] = y
    BY DEF Cells
  <2>2. Img(font)[N][Place(font, n, c)] = Shown(font, n, c)
    BY <2>1, CharactersStay
  <2>3. l \in Nat /\ W \in Nat /\ w \in Nat
    <3>1. n - 1 \in 0 .. N /\ N \in 0 .. N
      BY <1>2
    <3> QED
      BY <1>2, <3>1, CharOf, WidthsAdd DEF F!TotalWidth
  <2>4. Place(font, n, c) = (H - 1 - x) * W + w + y
    <3>1. Place(font, n, c) = (w + W * (H - 1 - x)) + y
      BY DEF Place, F!CurrentColumn
    <3> HIDE DEF W, w, H
    <3>2. (w + W * (H - 1 - x)) + y = (H - 1 - x) * W + w + y
      <4> DEFINE r == H - 1 - x
      <4>1. r \in Int /\ y \in Int
        BY <1>2, <2>3
      <4> HIDE DEF r
      <4>2. (w + W * r) + y = r * W + w + y
        BY <2>3, <4>1
      <4> QED
        BY <4>2 DEF r
    <3> QED
      BY <3>1, <3>2
  <2>5. F!CharImage(font, n - 1)
          = [k \in 0 .. l * H - 1 |-> F!Pixel(font, font.chars[n].data[k + 1])]
    <3>1. n - 1 + 1 = n /\ ~(n - 1 < 0) /\ ~(n - 1 >= N)
      BY <1>2
    <3>2. ~(H <= 0) /\ ~(l <= 0)
      <4>1. x \in 0 .. H - 1 /\ y \in 0 .. l - 1 /\ H \in Nat /\ l \in Nat
        BY <1>2, <2>3
      <4> HIDE DEF H, l
      <4> QED
        BY <4>1
    <3> HIDE DEF font
    <3> QED
      BY <3>1, <3>2 DEF F!CharImage
  <2>6. i \in 0 .. l * H - 1
    <3>1. l * x + y \in 0 .. l * H - 1
      BY <1>2, <2>3, InRow
    <3>2. l * x + y = x * l + y
      BY <1>2, <2>3
    <3> QED
      BY <3>1, <3>2
  <2>7. Shown(font, n, c) = F!Pixel(font, font.chars[n].data[i + 1])
    BY <2>1 DEF Shown
  <2> HIDE DEF i
  <2>8. F!CharImage(font, n - 1)[i] = F!Pixel(font, font.chars[n].data[i + 1])
    BY <2>5, <2>6
  <2>9. sheet.pixels[(sheet.h - 1 - x) * sheet.w + w + y] = Img(font)[N][Place(font, n, c)]
    <3>1. sheet.pixels = Img(font)[N] /\ sheet.h = H /\ sheet.w = W
      BY <1>1
    <3> HIDE DEF sheet, W, H, w, N
    <3> QED
      BY <2>4, <3>1
  <2> QED
    BY <2>2, <2>7, <2>8, <2>9 DEF i
<1> QED
  BY <1>2, <1>3, <1>4 DEF SheetShowsCharacters

------------------------------------------------------------------------------
(* An answer that was worked out from a chunk is what the code makes of    *)
(* that chunk, and the chunk is one a file may hold.                       *)
AnswerInv ==
    /\ answer.kind = "object" =>
          /\ answer.blocks \in Seq(R!ChunkBlocks)
          /\ answer.result = R!gff_rdff_to_object(answer.blocks)
    /\ answer.kind = "delay" =>
          /\ ScriptAt(answer.frames, answer.pos)
          /\ answer.sum = S!gff_scmd_total_delay(answer.frames, answer.pos)
    /\ answer.kind = "sheet" =>
          /\ FontIs(answer.font)
          /\ answer.sheet = F!Sheet(answer.font)

LEMMA OtherAnswers ==
    ASSUME answer'.kind \notin {"object", "delay", "sheet"}
    PROVE  AnswerInv'
BY DEF AnswerInv

LEMMA StepKeepsAnswer == AnswerInv /\ [Next]_allvars => AnswerInv'
<1> SUFFICES ASSUME AnswerInv, [Next]_allvars
             PROVE  AnswerInv'
  OBVIOUS
<1>1. CASE answer' = NoAnswer
  BY <1>1, OtherAnswers DEF NoAnswer
<1>2. ASSUME NEW m \in Managers, NEW i \in Indices,
             \/ gff_manager_get_item1r(m, i) \/ gff_manager_get_name(m, i)
             \/ gff_manager_ds1_read_item1r(m, i) \/ gff_manager_ds1_read_name(m, i)
      PROVE  AnswerInv'
  <2>1. answer'.kind \in {"none", "row", "name"}
    BY <1>2 DEF gff_manager_get_item1r, gff_manager_get_name, Asked,
                gff_manager_ds1_read_item1r, gff_manager_ds1_read_name, ReadAlone, NoAnswer
  <2> QED
    BY <2>1, OtherAnswers
<1>3. ASSUME NEW blocks \in RdffChunks, gff_rdff_to_object(blocks)
      PROVE  AnswerInv'
  <2>1. blocks \in Seq(R!ChunkBlocks)
    BY ChunksAssumption
  <2>2. answer' = [kind |-> "object", blocks |-> blocks,
                   result |-> R!gff_rdff_to_object(blocks)]
    BY <1>3 DEF gff_rdff_to_object
  <2> QED
    BY <2>1, <2>2 DEF AnswerInv
<1>4. ASSUME NEW font \in FontChunks, gff_manager_font_load(font)
      PROVE  AnswerInv'
  <2>1. FontIs(font)
    BY ChunksAssumption DEF FontIs
  <2>2. answer' = [kind |-> "sheet", font |-> font, sheet |-> F!Sheet(font)]
    BY <1>4 DEF gff_manager_font_load
  <2> QED
    BY <2>1, <2>2 DEF AnswerInv
<1>5. ASSUME NEW frames \in Scripts, NEW pos \in 0 .. Len(frames) - 1,
             gff_scmd_total_delay(frames, pos)
      PROVE  AnswerInv'
  <2>1. ScriptAt(frames, pos)
    BY ChunksAssumption DEF ScriptAt
  <2>2. answer' = [kind |-> "delay", frames |-> frames, pos |-> pos,
                   sum |-> S!gff_scmd_total_delay(frames, pos)]
    BY <1>5 DEF gff_scmd_total_delay
  <2> QED
    BY <2>1, <2>2 DEF AnswerInv
<1>6. CASE UNCHANGED allvars
  BY <1>6 DEF allvars, AnswerInv
<1>7. CASE ResourceStep
  BY <1>1, <1>7 DEF ResourceStep, Rest
<1>8. ASSUME NEW m \in Managers, NEW p \in Pointers, gff_read_it1r(p, m)
      PROVE  AnswerInv'
  BY <1>1, <1>8 DEF gff_read_it1r
<1>9. ASSUME NEW c \in Chunks \cup {None},
             \/ \E type \in R!Types : item_read(c, type)
             \/ gff_manager_item_load(c)
             \/ \E size \in Sizes : gff_name_get_random(c, size)
      PROVE  AnswerInv'
  BY <1>1, <1>9 DEF item_read, gff_manager_item_load, gff_name_get_random, Rest
<1> QED
  BY <1>2, <1>3, <1>4, <1>5, <1>6, <1>7, <1>8, <1>9 DEF Next

LEMMA AnswersWorkedOut == Spec => []AnswerInv
<1>1. Init => AnswerInv
  BY DEF Init, NoAnswer, AnswerInv
<1> QED
  BY <1>1, StepKeepsAnswer, PTL DEF Spec

------------------------------------------------------------------------------
(* Memory: of the callers, of the tables, and lost.                        *)
PtrFields == [at : Blocks \cup {None}, ok : BOOLEAN, count : Nat]
TableFields ==
    [rows : Blocks \cup {None}, num_item1rs : Nat, names : Blocks \cup {None}, num_names : Nat]

MemType ==
    /\ heap \in [Blocks -> BlockFields \cup {None}]
    /\ ptr \in [Pointers -> PtrFields]
    /\ file \in [Managers -> ItemFiles]
    /\ table \in TableFields

(* What a block holds that a load handed over with a count.                *)
WholeBlock(b, count) ==
    /\ b.kind # "etab" => b.read = b.length
    /\ ~(b.kind = "monsters" /\ b.length = 1) => count = Entries(b)

(* Why a block that nobody holds was lost.                                 *)
Cause(b) ==
    \/ b.kind \in {"export", "sheet", "rows", "names"}
    \/ b.kind = "seq" /\ b.read < b.length
    \/ b.kind = "spin" /\ b.length = 2
    \/ b.kind # "midi" /\ b.length = 0

(* The static tables are in blocks of their own, as long as their numbers, *)
(* which no caller holds and so none frees.                                *)
RowsAre(m, b, n) == m[b] # None /\ m[b].kind = "rows" /\ n * RowSize <= m[b].length
NamesAre(m, b, n) == m[b] # None /\ m[b].kind = "names" /\ n * NameSize <= m[b].length

TableInv ==
    /\ table.rows # None => RowsAre(heap, table.rows, table.num_item1rs)
    /\ table.names # None => NamesAre(heap, table.names, table.num_names)
    /\ \A p \in Pointers : ptr[p].ok /\ ptr[p].at # None =>
          ptr[p].at # table.rows /\ ptr[p].at # table.names

MemInv == MemType /\ HeldIsWhole /\ LostForCause /\ TableInv

Inv == MemInv /\ ReadIsWhole /\ AnswersOwnTable

USE LengthsAssumption, SizesAssumption, NoneAssumption, ItemsAssumption

------------------------------------------------------------------------------
(* Numbers of entries.                                                     *)
LEMMA Quotients ==
    ASSUME NEW n \in Nat, NEW d \in Nat \ {0}
    PROVE  /\ n \div d \in Nat
           /\ (n \div d) * d <= n
           /\ \A i \in Nat : i < n \div d => (i + 1) * d <= n
<1>1. n \div d \in Nat /\ d * (n \div d) + (n % d) = n /\ n % d \in 0 .. d - 1
  OBVIOUS
<1> DEFINE q == n \div d
<1> HIDE DEF q
<1>2. q \in Nat /\ q * d <= n
  BY <1>1 DEF q
<1>3. ASSUME NEW i \in Nat, i < q
      PROVE  (i + 1) * d <= n
  <2>1. (i + 1) * d <= q * d
    <3>1. PICK j \in Nat : q = i + 1 + j
      <4>1. q - (i + 1) \in Nat /\ q = i + 1 + (q - (i + 1))
        BY <1>2, <1>3
      <4> QED BY <4>1
    <3>2. q * d = (i + 1) * d + j * d
      BY <3>1
    <3>3. j * d \in Nat
      BY <3>1
    <3> QED BY <3>2, <3>3
  <2> QED BY <1>2, <2>1
<1> QED BY <1>2, <1>3 DEF q

(* No entry is below a number of entries that is not positive.             *)
LEMMA InsideTable ==
    ASSUME NEW i \in Int, NEW n \in Nat, NEW d \in Nat \ {0}, NEW length \in Nat,
           n * d <= length, 0 <= i, i < n
    PROVE  (i + 1) * d <= length
<1>1. PICK j \in Nat : n = i + 1 + j
  <2>1. n - (i + 1) \in Nat /\ n = i + 1 + (n - (i + 1))
    OBVIOUS
  <2> QED BY <2>1
<1>2. n * d = (i + 1) * d + j * d
  BY <1>1
<1>3. j * d \in Nat
  BY <1>1
<1> QED BY <1>2, <1>3

LEMMA ChunkFields ==
    ASSUME NEW c \in Chunks
    PROVE  /\ c # None /\ c.length \in Lengths /\ c.length \in Nat /\ c.length < SizeMax
           /\ c.there \in Nat /\ c.there <= c.length
           /\ Length(c) = c.length /\ Length(c) \in Nat
<1>1. /\ c \in [length : Lengths, there : Lengths \cup {n - 1 : n \in Lengths}]
      /\ c.there >= 0 /\ c.there \in {c.length, c.length - 1}
  BY DEF Chunks
<1>2. c.length \in Lengths /\ c.length \in Nat /\ c.length < SizeMax
  BY <1>1
<1>3. c.there \in Nat /\ c.there <= c.length
  BY <1>1, <1>2
<1>4. c # None
  OBVIOUS
<1> QED BY <1>2, <1>3, <1>4 DEF Length

LEMMA NoChunk == Length(None) = 0 /\ ~Whole(None)
BY DEF Length, Whole

LEMMA BlockOfChunk ==
    ASSUME NEW kind \in Kinds, NEW c, c.length \in Nat, c.there \in Nat
    PROVE  /\ Block(kind, c) \in BlockFields /\ Block(kind, c) # None
           /\ Block(kind, c).kind = kind /\ Block(kind, c).length = c.length
           /\ Block(kind, c).read = c.there
BY DEF Block, BlockFields

(* The monsters of a chunk are what is in it behind the region's number.   *)
LEMMA MonstersAreEntries ==
    ASSUME NEW n \in Nat
    PROVE  Monsters(n) \in Nat /\ (n >= 2 /\ n < SizeMax => Monsters(n) = (n - 2) \div EntrySize)
<1>1. SizeMax + 1 \in Nat \ {0} /\ n - 2 \in Int
  OBVIOUS
<1>2. (n - 2) % (SizeMax + 1) \in Nat
  BY <1>1
<1>3. n >= 2 /\ n < SizeMax => (n - 2) % (SizeMax + 1) = n - 2
  OBVIOUS
<1>4. Monsters(n) \in Nat
  <2> DEFINE m == (n - 2) % (SizeMax + 1)
  <2>1. m \in Nat /\ EntrySize \in Nat \ {0}
    BY <1>2
  <2> HIDE DEF m
  <2>2. m \div EntrySize \in Nat
    BY <2>1, Quotients
  <2> QED BY <2>2 DEF Monsters, m
<1> QED BY <1>3, <1>4 DEF Monsters

------------------------------------------------------------------------------
(* A step that allocates, and gives what it allocates to one pointer that  *)
(* had nothing or to the tables, or loses it for a cause.                  *)
LEMMA Allocates ==
    ASSUME MemInv, MemType', NEW p,
           \A b \in Blocks : heap[b] # None => heap'[b] = heap[b],
           \A q \in Pointers \ {p} : ptr'[q] = ptr[q],
           p \in Pointers => \/ ptr'[p] = ptr[p]
                             \/ ~ptr[p].ok,
           p \in Pointers /\ ptr'[p].ok /\ ~ptr[p].ok =>
              \/ /\ ptr'[p].at \in Blocks /\ heap[ptr'[p].at] = None
                 /\ heap'[ptr'[p].at] # None
                 /\ WholeBlock(heap'[ptr'[p].at], ptr'[p].count)
                 /\ ptr'[p].at # table'.rows /\ ptr'[p].at # table'.names
              \/ ptr'[p].at = None /\ ptr'[p].count = 2,
           \A b \in Blocks : heap[b] = None /\ heap'[b] # None =>
              \/ p \in Pointers /\ ptr'[p].ok /\ ptr'[p].at = b
              \/ Cause(heap'[b]),
           table'.rows # None =>
              /\ RowsAre(heap', table'.rows, table'.num_item1rs)
              /\ table'.rows = table.rows \/ heap[table'.rows] = None,
           table'.names # None =>
              /\ NamesAre(heap', table'.names, table'.num_names)
              /\ table'.names = table.names \/ heap[table'.names] = None
    PROVE  MemInv'
<1>1. \A q \in Pointers : ptr[q].ok /\ ptr[q].at # None => ptr[q].at \in Blocks /\ heap[ptr[q].at] # None
  BY DEF MemInv, MemType, PtrFields, HeldIsWhole
<1>2. \A q \in Pointers : ptr[q].ok => ptr'[q] = ptr[q]
  OBVIOUS
<1>3. \A q \in Pointers : ptr'[q].ok => ptr'[q] = ptr[q] \/ q = p
  OBVIOUS
<1>4. \A q \in Pointers : ptr'[q].ok /\ ptr'[q].at # None => ptr'[q].at \in Blocks
  BY DEF MemType, PtrFields
<1>5. HeldIsWhole'
  <2> SUFFICES ASSUME NEW q \in Pointers, ptr'[q].ok
               PROVE  \/ /\ ptr'[q].at # None
                         /\ heap'[ptr'[q].at] # None
                         /\ \A r \in Pointers \ {q} : ptr'[r].ok => ptr'[r].at # ptr'[q].at
                         /\ WholeBlock(heap'[ptr'[q].at], ptr'[q].count)
                      \/ ptr'[q].at = None /\ ptr'[q].count = 2
    BY DEF HeldIsWhole, WholeBlock
  <2>1. CASE ptr[q].ok
    <3>1. ptr'[q] = ptr[q]
      BY <1>2, <2>1
    <3>2. CASE ptr[q].at = None
      BY <2>1, <3>1, <3>2 DEF MemInv, HeldIsWhole
    <3>3. CASE ptr[q].at # None
      <4>1. /\ ptr[q].at \in Blocks /\ heap[ptr[q].at] # None
            /\ heap'[ptr[q].at] = heap[ptr[q].at]
        BY <1>1, <2>1, <3>3
      <4>2. /\ \A r \in Pointers \ {q} : ptr[r].ok => ptr[r].at # ptr[q].at
            /\ WholeBlock(heap[ptr[q].at], ptr[q].count)
        BY <2>1, <3>3 DEF MemInv, HeldIsWhole, WholeBlock
      <4>3. ASSUME NEW r \in Pointers \ {q}, ptr'[r].ok
            PROVE  ptr'[r].at # ptr[q].at
        <5>1. CASE ptr[r].ok
          BY <1>2, <4>2, <5>1
        <5>2. CASE ~ptr[r].ok
          <6>1. r = p
            BY <1>3, <4>3, <5>2
          <6>2. ptr'[r].at = None \/ heap[ptr'[r].at] = None
            BY <4>3, <5>2, <6>1
          <6> QED BY <3>3, <4>1, <6>2
        <5> QED BY <5>1, <5>2
      <4> QED BY <3>1, <3>3, <4>1, <4>2, <4>3
    <3> QED BY <3>2, <3>3
  <2>2. CASE ~ptr[q].ok
    <3>1. q = p
      BY <1>3, <2>2
    <3>2. CASE ptr'[q].at = None
      BY <2>2, <3>1, <3>2
    <3>3. CASE ptr'[q].at # None
      <4>1. /\ ptr'[q].at \in Blocks /\ heap[ptr'[q].at] = None
            /\ heap'[ptr'[q].at] # None
            /\ WholeBlock(heap'[ptr'[q].at], ptr'[q].count)
        BY <2>2, <3>1, <3>3
      <4>2. ASSUME NEW r \in Pointers \ {q}, ptr'[r].ok
            PROVE  ptr'[r].at # ptr'[q].at
        <5>1. ptr'[r] = ptr[r]
          BY <3>1, <4>2
        <5> QED BY <1>1, <3>3, <4>1, <4>2, <5>1
      <4> QED BY <3>3, <4>1, <4>2
    <3> QED BY <3>2, <3>3
  <2> QED BY <2>1, <2>2
<1>6. LostForCause'
  <2> SUFFICES ASSUME NEW b \in Blocks, heap'[b] # None, ~Held(b)'
               PROVE  Cause(heap'[b])
    BY DEF LostForCause, Cause
  <2>1. CASE heap[b] = None
    BY <2>1 DEF Held
  <2>2. CASE heap[b] # None
    <3>1. heap'[b] = heap[b]
      BY <2>2
    <3>2. \A q \in Pointers : ~(ptr[q].ok /\ ptr[q].at = b)
      BY <1>2 DEF Held
    <3>3. CASE Held(b)
      <4>1. \/ table.rows = b /\ heap[b].kind = "rows"
            \/ table.names = b /\ heap[b].kind = "names"
        BY <3>2, <3>3 DEF Held, MemInv, TableInv, RowsAre, NamesAre
      <4> QED BY <3>1, <4>1 DEF Cause
    <3>4. CASE ~Held(b)
      BY <2>2, <3>1, <3>4 DEF MemInv, LostForCause, Cause
    <3> QED BY <3>3, <3>4
  <2> QED BY <2>1, <2>2
<1>7. TableInv'
  <2> SUFFICES ASSUME NEW q \in Pointers, ptr'[q].ok, ptr'[q].at # None
               PROVE  ptr'[q].at # table'.rows /\ ptr'[q].at # table'.names
    BY DEF TableInv
  <2>1. CASE ptr[q].ok
    <3>1. ptr'[q] = ptr[q] /\ heap[ptr[q].at] # None
      BY <1>1, <1>2, <2>1
    <3>2. ptr[q].at # table.rows /\ ptr[q].at # table.names
      BY <2>1, <3>1 DEF MemInv, TableInv
    <3> QED BY <3>1, <3>2
  <2>2. CASE ~ptr[q].ok
    BY <1>3, <2>2
  <2> QED BY <2>1, <2>2
<1> QED BY <1>5, <1>6, <1>7 DEF MemInv

(* A step that leaves the tables.                                          *)
LEMMA TablesStay ==
    ASSUME MemInv, table' = table, \A b \in Blocks : heap[b] # None => heap'[b] = heap[b]
    PROVE  /\ table'.rows # None =>
                 /\ RowsAre(heap', table'.rows, table'.num_item1rs)
                 /\ table'.rows = table.rows /\ heap[table'.rows] # None
           /\ table'.names # None =>
                 /\ NamesAre(heap', table'.names, table'.num_names)
                 /\ table'.names = table.names /\ heap[table'.names] # None
BY DEF MemInv, MemType, TableFields, TableInv, RowsAre, NamesAre

------------------------------------------------------------------------------
(* The calls of Resources.                                                 *)

LEMMA FreeKeeps ==
    ASSUME MemInv, NEW p \in Pointers, free(p), UNCHANGED <<file, table>>
    PROVE  MemInv'
<1> DEFINE at == ptr[p].at
<1>1. /\ ptr[p].ok /\ ptr' = [ptr EXCEPT ![p].ok = FALSE]
      /\ heap' = [b \in Blocks |-> IF b = at THEN None ELSE heap[b]]
  BY DEF free
<1>2. /\ ptr \in [Pointers -> PtrFields] /\ heap \in [Blocks -> BlockFields \cup {None}]
  BY DEF MemInv, MemType
<1>3. /\ ptr' \in [Pointers -> PtrFields] /\ ~ptr'[p].ok
      /\ \A q \in Pointers \ {p} : ptr'[q] = ptr[q]
  BY <1>1, <1>2 DEF PtrFields
<1>4. /\ heap' \in [Blocks -> BlockFields \cup {None}]
      /\ \A b \in Blocks : b # at => heap'[b] = heap[b]
      /\ \A b \in Blocks : b = at => heap'[b] = None
  BY <1>1, <1>2
<1>5. MemType'
  BY <1>3, <1>4 DEF MemInv, MemType
<1>6. \A q \in Pointers \ {p} : ptr[q].ok /\ ptr[q].at # None => ptr[q].at # at /\ ptr[q].at \in Blocks
  BY <1>1, <1>2 DEF MemInv, HeldIsWhole, PtrFields
<1> HIDE DEF at
<1>7. HeldIsWhole'
  <2> SUFFICES ASSUME NEW q \in Pointers, ptr'[q].ok
               PROVE  \/ /\ ptr'[q].at # None
                         /\ heap'[ptr'[q].at] # None
                         /\ \A r \in Pointers \ {q} : ptr'[r].ok => ptr'[r].at # ptr'[q].at
                         /\ WholeBlock(heap'[ptr'[q].at], ptr'[q].count)
                      \/ ptr'[q].at = None /\ ptr'[q].count = 2
    BY DEF HeldIsWhole, WholeBlock
  <2>1. q \in Pointers \ {p} /\ ptr'[q] = ptr[q] /\ ptr[q].ok
    BY <1>3
  <2>2. CASE ptr[q].at = None
    BY <2>1, <2>2 DEF MemInv, HeldIsWhole
  <2>3. CASE ptr[q].at # None
    <3>1. heap'[ptr[q].at] = heap[ptr[q].at]
      BY <1>4, <1>6, <2>1, <2>3
    <3>2. /\ heap[ptr[q].at] # None
          /\ \A r \in Pointers \ {q} : ptr[r].ok => ptr[r].at # ptr[q].at
          /\ WholeBlock(heap[ptr[q].at], ptr[q].count)
      BY <2>1, <2>3 DEF MemInv, HeldIsWhole, WholeBlock
    <3> QED BY <1>3, <2>1, <2>3, <3>1, <3>2
  <2> QED BY <2>2, <2>3
<1>8. LostForCause'
  <2> SUFFICES ASSUME NEW b \in Blocks, heap'[b] # None, ~Held(b)'
               PROVE  Cause(heap'[b])
    BY DEF LostForCause, Cause
  <2>1. b # at /\ heap'[b] = heap[b]
    BY <1>4
  <2>2. ~Held(b)
    BY <1>3, <2>1 DEF Held, at
  <2> QED BY <2>1, <2>2 DEF MemInv, LostForCause, Cause
<1>9. TableInv'
  <2>1. at # None => at # table.rows /\ at # table.names
    BY <1>1 DEF MemInv, TableInv, at
  <2>2. table.rows \in Blocks \cup {None} /\ table.names \in Blocks \cup {None}
    BY DEF MemInv, MemType, TableFields
  <2>3. /\ table.rows # None => heap'[table.rows] = heap[table.rows]
        /\ table.names # None => heap'[table.names] = heap[table.names]
    BY <1>4, <2>1, <2>2
  <2> QED BY <1>3, <2>3 DEF MemInv, TableInv, RowsAre, NamesAre
<1> QED BY <1>5, <1>7, <1>8, <1>9 DEF MemInv

(* One block is malloced, or none, and one pointer may get it.             *)
LEMMA OneBlock ==
    ASSUME MemInv, NEW p \in Pointers, ~ptr[p].ok, UNCHANGED <<file, table>>,
           NEW b \in Free, NEW block \in BlockFields \cup {None},
           heap' = [heap EXCEPT ![b] = block],
           NEW x \in PtrFields, ptr' = [ptr EXCEPT ![p] = x],
           x.ok => \/ x.at = b /\ block # None /\ WholeBlock(block, x.count)
                   \/ x.at = None /\ x.count = 2,
           block # None => (x.ok /\ x.at = b) \/ Cause(block)
    PROVE  MemInv'
<1>1. /\ ptr \in [Pointers -> PtrFields] /\ heap \in [Blocks -> BlockFields \cup {None}]
      /\ b \in Blocks /\ heap[b] = None
  BY DEF MemInv, MemType, Free
<1>2. /\ ptr' \in [Pointers -> PtrFields] /\ ptr'[p] = x
      /\ \A q \in Pointers \ {p} : ptr'[q] = ptr[q]
  BY <1>1
<1>3. /\ heap' \in [Blocks -> BlockFields \cup {None}] /\ heap'[b] = block
      /\ \A a \in Blocks : a # b => heap'[a] = heap[a]
  BY <1>1
<1>4. MemType'
  BY <1>2, <1>3 DEF MemInv, MemType
<1>5. \A a \in Blocks : heap[a] # None => heap'[a] = heap[a]
  BY <1>1, <1>3
<1>6. /\ table'.rows # None =>
            /\ RowsAre(heap', table'.rows, table'.num_item1rs)
            /\ table'.rows = table.rows /\ heap[table'.rows] # None
      /\ table'.names # None =>
            /\ NamesAre(heap', table'.names, table'.num_names)
            /\ table'.names = table.names /\ heap[table'.names] # None
  BY <1>5, TablesStay
<1>7. b # None /\ table'.rows # b /\ table'.names # b
  BY <1>1, <1>6
<1>8. ptr'[p].ok /\ ~ptr[p].ok =>
         \/ /\ ptr'[p].at \in Blocks /\ heap[ptr'[p].at] = None
            /\ heap'[ptr'[p].at] # None
            /\ WholeBlock(heap'[ptr'[p].at], ptr'[p].count)
            /\ ptr'[p].at # table'.rows /\ ptr'[p].at # table'.names
         \/ ptr'[p].at = None /\ ptr'[p].count = 2
  BY <1>1, <1>2, <1>3, <1>7
<1>9. \A a \in Blocks : heap[a] = None /\ heap'[a] # None =>
         \/ ptr'[p].ok /\ ptr'[p].at = a
         \/ Cause(heap'[a])
  BY <1>2, <1>3
<1> QED BY <1>2, <1>4, <1>5, <1>6, <1>8, <1>9, Allocates

(* Nothing is malloced, and nothing handed over.                           *)
LEMMA NoBlock ==
    ASSUME MemInv, UNCHANGED <<heap, file, table>>,
           ptr' = ptr \/ (\E p \in Pointers : \E x \in PtrFields :
                             ~ptr[p].ok /\ ~x.ok /\ ptr' = [ptr EXCEPT ![p] = x])
    PROVE  MemInv'
<1>1. ptr \in [Pointers -> PtrFields]
  BY DEF MemInv, MemType
<1>2. CASE ptr' = ptr
  BY <1>2 DEF MemInv, MemType, HeldIsWhole, LostForCause, TableInv, Held, RowsAre, NamesAre
<1>3. ASSUME NEW p \in Pointers, NEW x \in PtrFields,
             ~ptr[p].ok, ~x.ok, ptr' = [ptr EXCEPT ![p] = x]
      PROVE  MemInv'
  <2>1. ptr' \in [Pointers -> PtrFields]
    BY <1>1, <1>3
  <2>2. \A q \in Pointers : ptr'[q].ok => q # p /\ ptr'[q] = ptr[q]
    BY <1>1, <1>3
  <2>3. \A q \in Pointers : ptr[q].ok => ptr'[q] = ptr[q]
    BY <1>1, <1>3
  <2>4. MemType'
    BY <2>1 DEF MemInv, MemType
  <2>5. HeldIsWhole'
    BY <2>2, <2>3 DEF MemInv, HeldIsWhole
  <2>6. LostForCause'
    BY <2>3 DEF MemInv, LostForCause, Held
  <2>7. TableInv'
    BY <2>2, <2>3 DEF MemInv, TableInv
  <2> QED BY <2>4, <2>5, <2>6, <2>7 DEF MemInv
<1> QED BY <1>2, <1>3

(* A block that nobody gets, for a cause.                                  *)
LEMMA LostBlock ==
    ASSUME MemInv, UNCHANGED <<ptr, file, table>>,
           NEW b \in Free, NEW block \in BlockFields, Cause(block),
           heap' = [heap EXCEPT ![b] = block]
    PROVE  MemInv'
<1>1. /\ heap \in [Blocks -> BlockFields \cup {None}] /\ b \in Blocks /\ heap[b] = None
  BY DEF MemInv, MemType, Free
<1>2. /\ heap' \in [Blocks -> BlockFields \cup {None}] /\ heap'[b] = block
      /\ \A a \in Blocks : a # b => heap'[a] = heap[a]
  BY <1>1
<1>3. MemType'
  BY <1>2 DEF MemInv, MemType
<1>4. \A a \in Blocks : heap[a] # None => heap'[a] = heap[a]
  BY <1>1, <1>2
<1>5. /\ table'.rows # None =>
            /\ RowsAre(heap', table'.rows, table'.num_item1rs) /\ table'.rows = table.rows
      /\ table'.names # None =>
            /\ NamesAre(heap', table'.names, table'.num_names) /\ table'.names = table.names
  BY <1>4, TablesStay
<1>6. \A a \in Blocks : heap[a] = None /\ heap'[a] # None => Cause(heap'[a])
  BY <1>2
<1>7. \A q \in Pointers : ptr'[q] = ptr[q]
  OBVIOUS
<1> QED BY <1>3, <1>4, <1>5, <1>6, <1>7, Allocates

LEMMA LoadRawKeeps ==
    ASSUME MemInv, NEW p \in Pointers, NEW c \in Chunks \cup {None},
           NEW kind \in {"raw", "monsters", "spin"}, NEW count \in Nat,
           Whole(c) /\ c.length > 0 /\ ~(kind = "monsters" /\ c.length = 1) =>
              count = Entries(Block(kind, c)),
           load_raw(kind, p, c, count), UNCHANGED <<file, table>>
    PROVE  MemInv'
<1>1. CASE c = None
  BY <1>1, NoBlock DEF load_raw, mem
<1>2. CASE c # None
  <2> DEFINE block == IF Whole(c) THEN Block(kind, c) ELSE None
  <2>1. /\ c \in Chunks /\ ~ptr[p].ok
        /\ c.length \in Nat /\ c.there \in Nat /\ c.there <= c.length
    BY <1>2, ChunkFields DEF load_raw
  <2>2. PICK b \in Free :
           /\ heap' = Loaded(kind, c, b)
           /\ ptr' = [ptr EXCEPT ![p] =
                [at |-> b, ok |-> Whole(c) /\ c.length > 0,
                 count |-> IF Whole(c) THEN count ELSE 0]]
    BY <1>2 DEF load_raw
  <2> DEFINE x == [at |-> b, ok |-> Whole(c) /\ c.length > 0,
                   count |-> IF Whole(c) THEN count ELSE 0]
  <2>3. heap \in [Blocks -> BlockFields \cup {None}] /\ b \in Blocks /\ heap[b] = None
    BY DEF MemInv, MemType, Free
  <2>4. x \in PtrFields
    BY <2>3 DEF PtrFields, Whole
  <2>5. heap' = [heap EXCEPT ![b] = block]
    BY <2>2, <2>3 DEF Loaded
  <2>6. Whole(c) => /\ block \in BlockFields /\ block # None
                    /\ block.kind = kind /\ block.length = c.length /\ block.read = c.length
                    /\ block = Block(kind, c)
    <3>1. kind \in Kinds
      BY DEF Kinds
    <3> QED BY <2>1, <3>1, BlockOfChunk DEF Whole
  <2>7. block \in BlockFields \cup {None}
    BY <2>6
  <2>8. x.ok => x.at = b /\ block # None /\ WholeBlock(block, x.count)
    BY <2>6 DEF WholeBlock
  <2>9. block # None => (x.ok /\ x.at = b) \/ Cause(block)
    <3>1. CASE Whole(c) /\ c.length = 0
      BY <2>6, <3>1 DEF Cause
    <3>2. CASE Whole(c) /\ c.length > 0
      BY <3>2
    <3>3. CASE ~Whole(c)
      BY <3>3
    <3> QED BY <2>1, <3>1, <3>2, <3>3
  <2>10. ptr' = [ptr EXCEPT ![p] = x]
    BY <2>2
  <2> HIDE DEF x, block
  <2> QED BY <2>1, <2>4, <2>5, <2>7, <2>8, <2>9, <2>10, OneBlock
<1> QED BY <1>1, <1>2

(* The loads that hand a chunk over as it is.                              *)
LEMMA LoadWholeKeeps ==
    ASSUME MemInv, NEW p \in Pointers, NEW c \in Chunks \cup {None},
           NEW kind \in {"raw", "spin"},
           load_raw(kind, p, c, Length(c)), UNCHANGED <<file, table>>
    PROVE  MemInv'
<1>1. Length(c) \in Nat
  BY ChunkFields, NoChunk
<1>2. c # None => Entries(Block(kind, c)) = Length(c)
  BY DEF Entries, Block, Length
<1>3. Whole(c) => c # None
  BY DEF Whole
<1> QED BY <1>1, <1>2, <1>3, LoadRawKeeps

LEMMA MonsterListKeeps ==
    ASSUME MemInv, NEW p \in Pointers, NEW c \in Chunks \cup {None},
           gff_load_monster_list(p, c), UNCHANGED <<file, table>>
    PROVE  MemInv'
<1> DEFINE count == Monsters(Length(c))
<1>1. Length(c) \in Nat /\ (c # None => Length(c) < SizeMax)
  BY ChunkFields, NoChunk
<1>2. count \in Nat /\ (c # None /\ Length(c) >= 2 => count = (Length(c) - 2) \div EntrySize)
  BY <1>1, MonstersAreEntries
<1>3. ASSUME Whole(c), c.length > 0, c.length # 1
      PROVE  count = Entries(Block("monsters", c))
  <2>1. c # None /\ Length(c) = c.length /\ c.length \in Nat
    BY <1>3, ChunkFields DEF Whole
  <2>2. Block("monsters", c).kind = "monsters" /\ Block("monsters", c).length = c.length
    BY DEF Block
  <2> QED BY <1>2, <1>3, <2>1, <2>2 DEF Entries
<1>4. load_raw("monsters", p, c, count)
  BY DEF gff_load_monster_list
<1> HIDE DEF count
<1> QED BY <1>2, <1>3, <1>4, LoadRawKeeps

LEMMA SpinKeeps ==
    ASSUME MemInv, NEW p \in Pointers, NEW c \in Chunks \cup {None},
           gff_load_spin(p, c), UNCHANGED <<file, table>>
    PROVE  MemInv'
<1>1. CASE ~Whole(c) \/ Length(c) = 0
  BY <1>1, LoadWholeKeeps DEF gff_load_spin
<1>3. CASE Whole(c) /\ Length(c) = 1
  <2>1. UNCHANGED mem
    BY <1>3 DEF gff_load_spin, Whole, Length
  <2> QED BY <2>1, NoBlock DEF mem
<1>2. CASE Whole(c) /\ Length(c) \notin {0, 1}
  <2>0. c.length # 1
    BY <1>2 DEF Whole, Length
  <2>1. /\ c \in Chunks /\ c.length \in Nat /\ c.there = c.length /\ ~ptr[p].ok
    BY <1>2, <2>0, ChunkFields DEF gff_load_spin, Whole
  <2>2. PICK b \in Free :
           /\ heap' = Loaded("spin", c, b)
           /\ ptr' = [ptr EXCEPT ![p] =
                [at |-> IF c.length = 2 THEN None ELSE b, ok |-> TRUE, count |-> c.length]]
    BY <1>2, <2>0 DEF gff_load_spin
  <2> DEFINE x == [at |-> IF c.length = 2 THEN None ELSE b, ok |-> TRUE, count |-> c.length]
             block == Block("spin", c)
  <2>3. b \in Blocks
    BY DEF Free
  <2>4. x \in PtrFields
    BY <2>1, <2>3 DEF PtrFields
  <2>5. heap' = [heap EXCEPT ![b] = block]
    BY <1>2, <2>2 DEF Loaded
  <2>6. /\ block \in BlockFields /\ block # None
        /\ block.kind = "spin" /\ block.length = c.length /\ block.read = c.length
    BY <2>1, BlockOfChunk DEF Kinds
  <2>7. WholeBlock(block, c.length)
    BY <2>6 DEF WholeBlock, Entries
  <2>8. x.ok => \/ x.at = b /\ block # None /\ WholeBlock(block, x.count)
                \/ x.at = None /\ x.count = 2
    BY <2>6, <2>7
  <2>9. block # None => (x.ok /\ x.at = b) \/ Cause(block)
    BY <2>6 DEF Cause
  <2>10. ptr' = [ptr EXCEPT ![p] = x]
    BY <2>2
  <2> HIDE DEF x, block
  <2> QED BY <2>1, <2>4, <2>5, <2>6, <2>8, <2>9, <2>10, OneBlock
<1> QED BY <1>1, <1>2, <1>3

LEMMA EtabKeeps ==
    ASSUME MemInv, NEW p \in Pointers, NEW c \in Chunks \cup {None},
           gff_load_etab(p, c), UNCHANGED <<file, table>>
    PROVE  MemInv'
<1>1. CASE c = None
  BY <1>1, NoBlock DEF gff_load_etab, mem
<1>2. CASE c # None
  <2>1. /\ c \in Chunks /\ c.length \in Nat /\ c.there \in Nat /\ ~ptr[p].ok
    BY <1>2, ChunkFields DEF gff_load_etab
  <2>2. PICK b \in Free :
           /\ heap' = [heap EXCEPT ![b] = Block("etab", c)]
           /\ ptr' = [ptr EXCEPT ![p] =
                [at |-> b, ok |-> TRUE, count |-> c.length \div EntrySize]]
    BY <1>2 DEF gff_load_etab
  <2> DEFINE x == [at |-> b, ok |-> TRUE, count |-> c.length \div EntrySize]
             block == Block("etab", c)
  <2>3. b \in Blocks /\ c.length \div EntrySize \in Nat
    BY <2>1, Quotients DEF Free
  <2>4. x \in PtrFields
    BY <2>3 DEF PtrFields
  <2>5. /\ block \in BlockFields /\ block # None
        /\ block.kind = "etab" /\ block.length = c.length
    BY <2>1, BlockOfChunk DEF Kinds
  <2>6. WholeBlock(block, c.length \div EntrySize)
    BY <2>5 DEF WholeBlock, Entries
  <2>7. x.ok /\ x.at = b /\ block # None /\ WholeBlock(block, x.count)
    BY <2>5, <2>6
  <2>8. heap' = [heap EXCEPT ![b] = block] /\ ptr' = [ptr EXCEPT ![p] = x]
    BY <2>2
  <2> HIDE DEF x, block
  <2> QED BY <2>1, <2>4, <2>5, <2>7, <2>8, OneBlock
<1> QED BY <1>1, <1>2

(* A song that is cut off is lost; a whole one is handed over as a MIDI    *)
(* file, and the block it was read into is free again.                     *)
LEMMA SeqKeeps ==
    ASSUME MemInv, NEW p \in Pointers, NEW c \in Chunks \cup {None},
           load_seq(p, c), UNCHANGED <<file, table>>
    PROVE  MemInv'
<1>0. ~ptr[p].ok /\ ptr \in [Pointers -> PtrFields] /\ ptr[p] \in PtrFields
  BY DEF load_seq, MemInv, MemType
<1>1. CASE UNCHANGED mem
  BY <1>1, NoBlock DEF mem
<1>2. ASSUME c # None, ~Whole(c), NEW b \in Free,
             heap' = [heap EXCEPT ![b] = Block("seq", c)],
             ptr' = [ptr EXCEPT ![p].at = b]
      PROVE  MemInv'
  <2> DEFINE x == [ptr[p] EXCEPT !.at = b]
             block == Block("seq", c)
  <2>1. /\ c \in Chunks /\ c.length \in Nat /\ c.there \in Nat /\ c.there <= c.length
        /\ c.there < c.length /\ b \in Blocks
    BY <1>2, ChunkFields DEF Whole, Free
  <2>2. x \in PtrFields /\ ~x.ok
    BY <1>0, <2>1 DEF PtrFields
  <2>3. /\ block \in BlockFields /\ block # None
        /\ block.kind = "seq" /\ block.length = c.length /\ block.read = c.there
    BY <2>1, BlockOfChunk DEF Kinds
  <2>4. Cause(block)
    BY <2>1, <2>3 DEF Cause
  <2>5. heap' = [heap EXCEPT ![b] = block] /\ ptr' = [ptr EXCEPT ![p] = x]
    BY <1>0, <1>2
  <2> HIDE DEF x, block
  <2> QED BY <1>0, <2>2, <2>3, <2>4, <2>5, OneBlock
<1>3. CASE ptr' = [ptr EXCEPT ![p].at = None] /\ UNCHANGED heap
  <2> DEFINE x == [ptr[p] EXCEPT !.at = None]
  <2>1. x \in PtrFields /\ ~x.ok /\ ptr' = [ptr EXCEPT ![p] = x]
    BY <1>0, <1>3 DEF PtrFields
  <2> HIDE DEF x
  <2> QED BY <1>0, <1>3, <2>1, NoBlock
<1>4. ASSUME Whole(c), c.length > 0, NEW b \in Free, NEW m \in Free,
             heap' = Converted(c, b, m),
             ptr' = [ptr EXCEPT ![p] = [at |-> m, ok |-> TRUE, count |-> c.length]]
      PROVE  MemInv'
  <2> DEFINE x == [at |-> m, ok |-> TRUE, count |-> c.length]
             block == Block("midi", c)
  <2>1. c \in Chunks /\ c.length \in Nat /\ c.there = c.length /\ m \in Blocks
    BY <1>4, ChunkFields DEF Whole, Free
  <2>2. x \in PtrFields
    BY <2>1 DEF PtrFields
  <2>3. /\ block \in BlockFields /\ block # None
        /\ block.kind = "midi" /\ block.length = c.length /\ block.read = c.length
    BY <2>1, BlockOfChunk DEF Kinds
  <2>4. x.ok /\ x.at = m /\ WholeBlock(block, x.count)
    BY <2>3 DEF WholeBlock, Entries
  <2>5. heap' = [heap EXCEPT ![m] = block] /\ ptr' = [ptr EXCEPT ![p] = x]
    BY <1>4 DEF Converted
  <2> HIDE DEF x, block
  <2> QED BY <1>0, <2>2, <2>3, <2>4, <2>5, OneBlock
<1> QED BY <1>1, <1>2, <1>3, <1>4 DEF load_seq

LEMMA ExportKeeps ==
    ASSUME MemInv, NEW c \in Chunks \cup {None}, gff_write_raw_bytes(c), UNCHANGED <<file, table>>
    PROVE  MemInv'
<1> DEFINE d == IF c = None THEN [length |-> 0, there |-> 0] ELSE c
<1>1. d.length \in Nat /\ d.there \in Nat
  BY ChunkFields
<1>2. PICK b \in Free : heap' = [heap EXCEPT ![b] = Block("export", d)] /\ ptr' = ptr
  BY DEF gff_write_raw_bytes
<1> HIDE DEF d
<1>3. Block("export", d) \in BlockFields /\ Block("export", d).kind = "export"
  BY <1>1, BlockOfChunk DEF Kinds
<1>4. Cause(Block("export", d))
  BY <1>3 DEF Cause
<1> QED BY <1>2, <1>3, <1>4, LostBlock

LEMMA LoadKeeps ==
    ASSUME MemInv, NEW p \in Pointers, NEW c \in Chunks \cup {None},
           Load(p, c), UNCHANGED <<file, table>>
    PROVE  MemInv'
<1>1. CASE load_raw("raw", p, c, Length(c))
  BY <1>1, LoadWholeKeeps
<1>2. CASE gff_load_monster_list(p, c)
  BY <1>2, MonsterListKeeps
<1>3. CASE gff_load_spin(p, c)
  BY <1>3, SpinKeeps
<1>4. CASE gff_load_etab(p, c)
  BY <1>4, EtabKeeps
<1>5. CASE gff_load_gseq(p, c)
  BY <1>5, SeqKeeps DEF gff_load_gseq
<1> QED BY <1>1, <1>2, <1>3, <1>4, <1>5
        DEF Load, gff_load_raw, gff_load_mas, gff_load_gpl, gff_load_gplx, gff_load_char,
            gff_load_voc, gff_load_rdff, gff_load_font, gff_load_window

------------------------------------------------------------------------------
(* Reads leave the memory alone, and stay in their buffer.                 *)

LEMMA ReadRawIsWhole ==
    ASSUME NEW c \in Chunks \cup {None}, NEW room \in Nat
    PROVE  /\ gff_read_chunk(c, room) \in Nat /\ gff_read_chunk(c, room) <= room
           /\ gff_read_raw(c, room) \in Nat
           /\ gff_read_raw(c, room) > 0 =>
                 /\ c # None /\ gff_read_chunk(c, room) = c.length
                 /\ gff_read_raw(c, room) = c.length /\ c.length <= room
<1>1. CASE c = None
  BY <1>1 DEF gff_read_chunk, gff_read_raw, Fits
<1>2. CASE c # None
  <2>1. c \in Chunks /\ c.length \in Nat /\ c.there \in Nat /\ c.there <= c.length
    BY <1>2, ChunkFields
  <2> QED BY <1>2, <2>1 DEF gff_read_chunk, gff_read_raw, Fits, Whole
<1> QED BY <1>1, <1>2

(* What a call reads, and what it says of that.                            *)
AsRead(a, c, size, room, kind) ==
    /\ a.kind = kind /\ a.chunk = c /\ a.size = size
    /\ a.read = gff_read_chunk(c, room)

(* The room that a caller's buffer is: all of it, or for an RDAT one byte  *)
(* less, and everything if there is none.                                  *)
LEMMA ReadsStay ==
    ASSUME NEW c \in Chunks \cup {None}, NEW size \in Nat, NEW room \in Nat, NEW kind,
           AsRead(call', c, size, room, kind),
           room <= size \/ (kind = "rdat" /\ size = 0),
           call'.ok /\ kind \notin {"flags", "piece", "random", "item_load"} =>
              gff_read_chunk(c, room) = c.length,
           kind = "random" /\ call'.ok => gff_read_chunk(c, room) = 0,
           call'.nul # None => \/ call'.nul >= 0 /\ call'.nul < size
                               \/ c.length = 1 \/ size = 0
    PROVE  ReadIsWhole'
<1> DEFINE n == gff_read_chunk(c, room)
<1>1. n \in Nat /\ n <= room
  BY ReadRawIsWhole
<1>2. call'.kind = kind /\ call'.chunk = c /\ call'.size = size /\ call'.read = n
  BY DEF AsRead
<1> HIDE DEF n
<1>3. n <= size \/ (kind = "rdat" /\ size = 0)
  BY <1>1
<1> QED BY <1>2, <1>3 DEF ReadIsWhole, n

LEMMA TextStays ==
    ASSUME NEW c \in Chunks \cup {None}, NEW size \in Nat, NEW room \in Nat,
           NEW kind \in {"text", "rdat"}, read_text(kind, c, size, room),
           room <= size \/ (kind = "rdat" /\ size = 0)
    PROVE  ReadIsWhole'
<1> DEFINE n == gff_read_raw(c, room)
<1>1. /\ n \in Nat
      /\ n > 0 => c # None /\ gff_read_chunk(c, room) = c.length /\ n = c.length /\ n <= room
  BY ReadRawIsWhole
<1>2. call' = [kind |-> kind, chunk |-> c, size |-> size, ok |-> n > 0,
               nul |-> IF n > 0 THEN EndOfText(n) ELSE None,
               read |-> gff_read_chunk(c, room)]
  BY DEF read_text, Reads
<1> HIDE DEF n
<1>3. /\ AsRead(call', c, size, room, kind)
      /\ call'.ok => n > 0
      /\ call'.nul # None => n > 0 /\ call'.nul = EndOfText(n)
  BY <1>2 DEF AsRead
<1>4. call'.nul # None => \/ call'.nul >= 0 /\ call'.nul < size
                          \/ c.length = 1 \/ size = 0
  BY <1>1, <1>3 DEF EndOfText
<1>5. kind # "random" /\ (call'.ok => gff_read_chunk(c, room) = c.length)
  BY <1>1, <1>3
<1> QED BY <1>3, <1>4, <1>5, ReadsStay

LEMMA ReadKeeps ==
    ASSUME NEW c \in Chunks \cup {None}, NEW size \in Sizes, Read(c, size)
    PROVE  ReadIsWhole' /\ UNCHANGED mem
<1>0. size \in Nat /\ SizeMax + 1 \in Nat \ {0} /\ size < SizeMax
  OBVIOUS
<1>1. CASE read_text("text", c, size, size)
  <2>1. ReadIsWhole'
    BY <1>0, <1>1, TextStays
  <2> QED BY <1>1, <2>1 DEF read_text, Reads
<1>2. CASE gff_read_rdat(c, size)
  <2> DEFINE room == (size - 1) % (SizeMax + 1)
  <2>1. room \in Nat /\ (size # 0 => room = size - 1)
    BY <1>0
  <2>2. read_text("rdat", c, size, room)
    BY <1>2 DEF gff_read_rdat
  <2> HIDE DEF room
  <2>3. room <= size \/ size = 0
    BY <1>0, <2>1
  <2>4. ReadIsWhole'
    BY <1>0, <2>1, <2>2, <2>3, TextStays
  <2> QED BY <2>2, <2>4 DEF read_text, Reads
<1>3. ASSUME AsRead(call', c, size, size, "raw"), call'.nul = None,
             call'.ok => gff_read_chunk(c, size) = c.length
      PROVE  ReadIsWhole'
  <2>1. "raw" # "random" /\ size <= size
    BY <1>0
  <2> QED BY <1>0, <1>3, <2>1, ReadsStay
<1>4. CASE gff_read_mas(c, size)
  <2>1. /\ AsRead(call', c, size, size, "raw") /\ call'.nul = None /\ UNCHANGED mem
        /\ call'.ok => gff_read_raw(c, size) > 0
    BY <1>4 DEF gff_read_mas, Reads, AsRead
  <2>2. gff_read_raw(c, size) > 0 => gff_read_chunk(c, size) = c.length
    BY <1>0, ReadRawIsWhole
  <2> QED BY <1>3, <2>1, <2>2
<1>5. CASE gff_read_raw_bytes(c, size)
  <2>1. /\ AsRead(call', c, size, size, "raw") /\ call'.nul = None /\ UNCHANGED mem
        /\ call'.ok => gff_read_chunk(c, size) = c.length
    BY <1>5 DEF gff_read_raw_bytes, Reads, AsRead
  <2> QED BY <1>3, <2>1
<1>6. CASE gff_read_names(c, size)
  <2>1. /\ AsRead(call', c, size, size, "raw") /\ call'.nul = None /\ UNCHANGED mem
        /\ call'.ok => Fits(c, size) /\ Whole(c)
    BY <1>6 DEF gff_read_names, Reads, AsRead
  <2>2. Fits(c, size) /\ Whole(c) => gff_read_chunk(c, size) = c.length
    BY DEF gff_read_chunk, Whole
  <2> QED BY <1>3, <2>1, <2>2
<1>7. CASE gff_read_chunk_piece(c, size)
  <2>1. /\ call' = [NoCall EXCEPT !.kind = "piece", !.chunk = c, !.ok = TRUE, !.size = size,
                      !.read = IF c.there <= size THEN c.there ELSE size]
        /\ c \in Chunks /\ UNCHANGED mem
    BY <1>7 DEF gff_read_chunk_piece
  <2>2. c.there \in Nat
    BY <2>1, ChunkFields
  <2>3. /\ call'.kind = "piece" /\ call'.size = size /\ call'.nul = None
        /\ call'.read = IF c.there <= size THEN c.there ELSE size
    BY <2>1 DEF NoCall
  <2>4. ReadIsWhole'
    BY <1>0, <2>2, <2>3 DEF ReadIsWhole
  <2> QED BY <2>1, <2>4
<1> QED BY <1>1, <1>2, <1>4, <1>5, <1>6, <1>7
        DEF Read, gff_read_text, gff_read_etme, gff_read_spin, gff_read_merr

LEMMA ReadFixedKeeps ==
    ASSUME NEW c \in Chunks \cup {None}, ReadFixed(c)
    PROVE  ReadIsWhole' /\ UNCHANGED mem
<1>1. ASSUME NEW least, read_struct(c, least)
      PROVE  ReadIsWhole' /\ UNCHANGED mem
  <2>1. /\ AsRead(call', c, StructSize, StructSize, "struct") /\ call'.nul = None /\ UNCHANGED mem
        /\ call'.ok => gff_read_raw(c, StructSize) > 0
    BY <1>1 DEF read_struct, Reads, AsRead
  <2>2. /\ gff_read_raw(c, StructSize) > 0 => gff_read_chunk(c, StructSize) = c.length
        /\ StructSize <= StructSize /\ "struct" # "random"
    BY ReadRawIsWhole
  <2>3. ReadIsWhole'
    BY <2>1, <2>2, ReadsStay
  <2> QED BY <2>1, <2>3
<1>2. CASE read_flags(c)
  <2>1. /\ AsRead(call', c, StructSize, StructSize, "flags") /\ call'.nul = None /\ UNCHANGED mem
    BY <1>2 DEF read_flags, Reads, AsRead
  <2>2. "flags" # "random" /\ StructSize <= StructSize
    OBVIOUS
  <2>3. ReadIsWhole'
    BY <2>1, <2>2, ReadsStay
  <2> QED BY <2>1, <2>3
<1> QED BY <1>1, <1>2
        DEF ReadFixed, gff_read_psin, gff_read_psst, gff_read_spst, gff_read_rdff, gff_read_ebox,
            gff_read_button, gff_read_frame, gff_read_raw_pal, gff_read_global_flags,
            gff_read_region_flags

(* The reads of Items: an item, and a name picked at random.               *)
LEMMA ItemReadKeeps ==
    ASSUME NEW c \in Chunks \cup {None}, NEW type, item_read(c, type)
    PROVE  ReadIsWhole' /\ UNCHANGED mem /\ Rest
<1>1. /\ AsRead(call', c, StructSize, StructSize, "item") /\ call'.nul = None
      /\ UNCHANGED mem /\ Rest
      /\ call'.ok => gff_read_raw(c, StructSize) > 0
  BY DEF item_read, Reads, AsRead, R!gff_item_read
<1>2. /\ gff_read_raw(c, StructSize) > 0 => gff_read_chunk(c, StructSize) = c.length
      /\ StructSize <= StructSize /\ "item" # "random"
  BY ReadRawIsWhole
<1>3. ReadIsWhole'
  BY <1>1, <1>2, ReadsStay
<1> QED BY <1>1, <1>3

LEMMA ItemLoadKeeps ==
    ASSUME NEW c \in Chunks \cup {None}, gff_manager_item_load(c)
    PROVE  ReadIsWhole' /\ UNCHANGED mem /\ Rest
<1>1. /\ AsRead(call', c, StructSize, StructSize, "item_load") /\ call'.nul = None
      /\ UNCHANGED mem /\ Rest
  BY DEF gff_manager_item_load, Reads, AsRead
<1>2. "item_load" # "random" /\ StructSize <= StructSize
  OBVIOUS
<1>3. ReadIsWhole'
  BY <1>1, <1>2, ReadsStay
<1> QED BY <1>1, <1>3

LEMMA RandomKeeps ==
    ASSUME NEW c \in Chunks \cup {None}, NEW size \in Sizes, gff_name_get_random(c, size)
    PROVE  ReadIsWhole' /\ UNCHANGED mem /\ Rest
<1>1. /\ AsRead(call', c, size, size, "random") /\ call'.nul = None
      /\ UNCHANGED mem /\ Rest
      /\ call'.ok => gff_read_chunk(c, size) = 0
  BY DEF gff_name_get_random, Reads, AsRead
<1>2. size \in Nat /\ size <= size
  OBVIOUS
<1>3. ReadIsWhole'
  BY <1>1, <1>2, ReadsStay
<1> QED BY <1>1, <1>3

------------------------------------------------------------------------------
(* The tables of items.                                                    *)

LEMMA OwnedBlock ==
    ASSUME NEW kind \in Kinds, NEW c, c.length \in Nat, c.there \in Nat, NEW m \in Managers
    PROVE  /\ Owned(kind, c, m) \in BlockFields /\ Owned(kind, c, m) # None
           /\ Owned(kind, c, m).kind = kind /\ Owned(kind, c, m).length = c.length
           /\ Owned(kind, c, m).read = c.there /\ Owned(kind, c, m).of = m
<1>1. Block(kind, c) \in BlockFields /\ Block(kind, c).kind = kind
      /\ Block(kind, c).length = c.length /\ Block(kind, c).read = c.there
  BY BlockOfChunk
<1> QED BY <1>1 DEF Owned, BlockFields

LEMMA NamesOfFile ==
    ASSUME MemInv, NEW m \in Managers
    PROVE  /\ NameOf(m).length \in Nat /\ NameOf(m).there \in Nat
           /\ file[m].it1r \in Chunks \cup {None} /\ file[m].name \in Chunks \cup {None}
<1>1. file[m] \in ItemFiles
  BY DEF MemInv, MemType
<1>2. file[m].it1r \in Chunks \cup {None} /\ file[m].name \in Chunks \cup {None}
  BY <1>1
<1>3. CASE file[m].name = None
  BY <1>2, <1>3 DEF NameOf
<1>4. CASE file[m].name # None
  BY <1>2, <1>4, ChunkFields DEF NameOf
<1> QED BY <1>2, <1>3, <1>4

(* What gff_read_it1r did: rows and names in new blocks, or the old ones.  *)
NewRows(t, m) ==
    /\ t.rows \in Blocks /\ heap[t.rows] = None
    /\ RowsAre(t.heap, t.rows, t.count)
    /\ WholeBlock(t.heap[t.rows], t.count) /\ t.heap[t.rows].of = m

NewNames(t, m) ==
    /\ t.names \in Blocks /\ heap[t.names] = None /\ t.names # t.rows
    /\ NamesAre(t.heap, t.names, t.num_names) /\ t.heap[t.names].of = m

LEMMA It1rReads ==
    ASSUME MemInv, NEW m \in Managers, NEW rows \in Blocks \cup {None}, NEW count \in Nat,
           NEW t \in it1r_reads(m, rows, count)
    PROVE  /\ t.heap \in [Blocks -> BlockFields \cup {None}]
           /\ \A b \in Blocks : heap[b] # None => t.heap[b] = heap[b]
           /\ \A b \in Blocks : heap[b] = None /\ t.heap[b] # None => Cause(t.heap[b])
           /\ t.rows \in Blocks \cup {None} /\ t.count \in Nat
           /\ t.names \in Blocks \cup {None} /\ t.num_names \in Nat /\ t.ok \in BOOLEAN
           /\ \/ t.rows = rows /\ t.count = count
              \/ t.rows = None
              \/ NewRows(t, m)
           /\ \/ t.names = table.names /\ t.num_names = table.num_names
              \/ NewNames(t, m)
           /\ t.ok => NewRows(t, m)
           /\ Readable(m) => NewRows(t, m) /\ NewNames(t, m)
<1> DEFINE c == file[m].it1r
           d == NameOf(m)
<1>1. /\ d.length \in Nat /\ d.there \in Nat /\ c \in Chunks \cup {None}
      /\ heap \in [Blocks -> BlockFields \cup {None}]
      /\ table.names \in Blocks \cup {None} /\ table.num_names \in Nat
  BY NamesOfFile DEF MemInv, MemType, TableFields
<1>2. CASE RowsRefused(c)
  <2>1. t = [heap |-> heap, rows |-> rows, count |-> count, ok |-> FALSE,
             names |-> table.names, num_names |-> table.num_names]
    BY <1>2 DEF it1r_reads
  <2>2. ~Readable(m)
    BY <1>2 DEF Readable
  <2> QED BY <1>1, <2>1, <2>2
<1>3. CASE ~RowsRefused(c)
  <2>1. c \in Chunks /\ c.length \in Nat /\ c.there \in Nat
    <3>1. c # None
      BY <1>3, NoChunk DEF RowsRefused
    <3> QED BY <1>1, <3>1, ChunkFields
  <2>2. /\ c.length \div RowSize \in Nat /\ (c.length \div RowSize) * RowSize <= c.length
        /\ d.length \div NameSize \in Nat /\ (d.length \div NameSize) * NameSize <= d.length
    BY <1>1, <2>1, Quotients
  <2>3. CASE ~Whole(c)
    <3>1. t = [heap |-> heap, rows |-> None, count |-> c.length \div RowSize, ok |-> FALSE,
               names |-> table.names, num_names |-> table.num_names]
      BY <1>3, <2>3 DEF it1r_reads
    <3>2. ~Readable(m)
      BY <2>3 DEF Readable
    <3> QED BY <1>1, <2>2, <3>1, <3>2
  <2>4. CASE Whole(c)
    <3> DEFINE R1 == Owned("rows", c, m)
               N1 == Owned("names", d, m)
               Q == c.length \div RowSize
               P == d.length \div NameSize
    <3>1. PICK bn \in Free \X Free :
             /\ bn[1] # bn[2]
             /\ t = [heap |-> [b \in Blocks |->
                                 IF b = bn[2] THEN N1
                                 ELSE IF b = bn[1] /\ Whole(d) THEN R1
                                 ELSE heap[b]],
                     rows |-> IF Whole(d) THEN bn[1] ELSE None,
                     count |-> Q, ok |-> Whole(d),
                     names |-> bn[2], num_names |-> P]
      BY <1>3, <2>4 DEF it1r_reads
    <3>2. /\ R1 \in BlockFields /\ R1 # None /\ R1.kind = "rows" /\ R1.length = c.length
          /\ R1.read = c.length /\ R1.of = m
      BY <2>1, <2>4, OwnedBlock DEF Kinds, Whole
    <3>3. /\ N1 \in BlockFields /\ N1 # None /\ N1.kind = "names" /\ N1.length = d.length
          /\ N1.of = m
      BY <1>1, OwnedBlock DEF Kinds
    <3>4. Cause(R1) /\ Cause(N1)
      BY <3>2, <3>3 DEF Cause
    <3>5. WholeBlock(R1, Q)
      BY <3>2 DEF WholeBlock, Entries
    <3>6. Q \in Nat /\ P \in Nat /\ Q * RowSize <= R1.length /\ P * NameSize <= N1.length
      BY <2>2, <3>2, <3>3
    <3>7. /\ bn[1] \in Blocks /\ bn[2] \in Blocks /\ heap[bn[1]] = None /\ heap[bn[2]] = None
          /\ bn[1] # bn[2]
      BY <3>1 DEF Free
    <3> HIDE DEF R1, N1, Q, P, c, d
    <3> DEFINE b1 == bn[1]
               b2 == bn[2]
    <3>8. /\ t.rows = (IF Whole(d) THEN b1 ELSE None) /\ t.count = Q
          /\ t.ok = Whole(d) /\ t.names = b2 /\ t.num_names = P
          /\ t.heap = [b \in Blocks |-> IF b = b2 THEN N1
                                        ELSE IF b = b1 /\ Whole(d) THEN R1 ELSE heap[b]]
      BY <3>1
    <3>9. b1 \in Blocks /\ b2 \in Blocks /\ heap[b1] = None /\ heap[b2] = None /\ b1 # b2
      BY <3>7
    <3> HIDE DEF b1, b2
    <3>10. /\ t.heap \in [Blocks -> BlockFields \cup {None}]
           /\ t.heap[b2] = N1 /\ (Whole(d) => t.heap[b1] = R1)
           /\ \A b \in Blocks : b # b2 /\ ~(b = b1 /\ Whole(d)) => t.heap[b] = heap[b]
      BY <1>1, <3>2, <3>3, <3>8, <3>9
    <3>11. NewNames(t, m)
      BY <3>3, <3>6, <3>8, <3>9, <3>10 DEF NewNames, NamesAre
    <3>12. Whole(d) => NewRows(t, m)
      BY <3>2, <3>5, <3>6, <3>8, <3>9, <3>10 DEF NewRows, RowsAre
    <3>13. /\ \A b \in Blocks : heap[b] # None => t.heap[b] = heap[b]
           /\ \A b \in Blocks : heap[b] = None /\ t.heap[b] # None => Cause(t.heap[b])
      BY <3>4, <3>9, <3>10
    <3>14. t.ok \in BOOLEAN /\ (t.ok => Whole(d))
      BY <3>8 DEF Whole
    <3>15. Readable(m) => Whole(d)
      BY DEF Readable, d
    <3> QED BY <3>6, <3>8, <3>9, <3>10, <3>11, <3>12, <3>13, <3>14, <3>15
  <2> QED BY <2>3, <2>4
<1> QED BY <1>2, <1>3

LEMMA It1rKeeps ==
    ASSUME MemInv, NEW p \in Pointers, NEW m \in Managers, gff_read_it1r(p, m)
    PROVE  MemInv'
<1>1. ptr \in [Pointers -> PtrFields] /\ ptr[p] \in PtrFields /\ table \in TableFields
  BY DEF MemInv, MemType
<1>2. ptr[p].at \in Blocks \cup {None} /\ ptr[p].count \in Nat
  BY <1>1 DEF PtrFields
<1>3. PICK t \in it1r_reads(m, ptr[p].at, ptr[p].count) :
         /\ heap' = t.heap
         /\ ptr' = [ptr EXCEPT ![p] = [at |-> t.rows, ok |-> t.ok, count |-> t.count]]
         /\ table' = [table EXCEPT !.names = t.names, !.num_names = t.num_names]
  BY DEF gff_read_it1r
<1>4. ~ptr[p].ok /\ file' = file
  BY DEF gff_read_it1r
<1>5. /\ t.heap \in [Blocks -> BlockFields \cup {None}]
      /\ \A b \in Blocks : heap[b] # None => t.heap[b] = heap[b]
      /\ \A b \in Blocks : heap[b] = None /\ t.heap[b] # None => Cause(t.heap[b])
      /\ t.rows \in Blocks \cup {None} /\ t.count \in Nat
      /\ t.names \in Blocks \cup {None} /\ t.num_names \in Nat /\ t.ok \in BOOLEAN
      /\ \/ t.names = table.names /\ t.num_names = table.num_names
         \/ NewNames(t, m)
      /\ t.ok => NewRows(t, m)
  BY <1>2, It1rReads
<1> DEFINE x == [at |-> t.rows, ok |-> t.ok, count |-> t.count]
<1>6. x \in PtrFields /\ x.at = t.rows /\ x.ok = t.ok /\ x.count = t.count
  BY <1>5 DEF PtrFields
<1> HIDE DEF x
<1>7. /\ ptr' \in [Pointers -> PtrFields] /\ ptr'[p] = x
      /\ \A q \in Pointers \ {p} : ptr'[q] = ptr[q]
  BY <1>1, <1>3, <1>6 DEF x
<1>8. /\ table' \in TableFields
      /\ table'.rows = table.rows /\ table'.num_item1rs = table.num_item1rs
      /\ table'.names = t.names /\ table'.num_names = t.num_names
  BY <1>1, <1>3, <1>5 DEF TableFields
<1>9. MemType'
  BY <1>3, <1>4, <1>5, <1>7, <1>8 DEF MemInv, MemType
<1>10. table.rows # None => table.rows \in Blocks /\ heap[table.rows] # None
  BY <1>1 DEF TableFields, MemInv, TableInv, RowsAre
<1>11. table.names # None => table.names \in Blocks /\ heap[table.names] # None
  BY <1>1 DEF TableFields, MemInv, TableInv, NamesAre
<1>12. table'.rows # None =>
         /\ RowsAre(heap', table'.rows, table'.num_item1rs)
         /\ table'.rows = table.rows
  BY <1>3, <1>5, <1>8, <1>10 DEF MemInv, TableInv, RowsAre
<1>13. table'.names # None =>
         /\ NamesAre(heap', table'.names, table'.num_names)
         /\ table'.names = table.names \/ heap[table'.names] = None
  <2>1. CASE NewNames(t, m)
    BY <1>3, <1>8, <2>1 DEF NewNames
  <2>2. CASE t.names = table.names /\ t.num_names = table.num_names
    BY <1>3, <1>5, <1>8, <1>11, <2>2 DEF MemInv, TableInv, NamesAre
  <2> QED BY <1>5, <2>1, <2>2
<1>14. ptr'[p].ok /\ ~ptr[p].ok =>
         /\ ptr'[p].at \in Blocks /\ heap[ptr'[p].at] = None
         /\ heap'[ptr'[p].at] # None
         /\ WholeBlock(heap'[ptr'[p].at], ptr'[p].count)
         /\ ptr'[p].at # table'.rows /\ ptr'[p].at # table'.names
  <2> SUFFICES ASSUME t.ok
               PROVE  /\ t.rows \in Blocks /\ heap[t.rows] = None
                      /\ t.heap[t.rows] # None
                      /\ WholeBlock(t.heap[t.rows], t.count)
                      /\ t.rows # table.rows /\ t.rows # t.names
    BY <1>3, <1>6, <1>7, <1>8
  <2>1. /\ t.rows \in Blocks /\ heap[t.rows] = None
        /\ t.heap[t.rows] # None /\ WholeBlock(t.heap[t.rows], t.count)
    BY <1>5 DEF NewRows, RowsAre
  <2>2. t.rows # None /\ t.rows # table.rows
    BY <1>10, <2>1
  <2>3. t.rows # t.names
    BY <1>5, <1>11, <2>1, <2>2 DEF NewNames
  <2> QED BY <2>1, <2>2, <2>3
<1>15. /\ \A b \in Blocks : heap[b] # None => heap'[b] = heap[b]
       /\ \A b \in Blocks : heap[b] = None /\ heap'[b] # None => Cause(heap'[b])
  BY <1>3, <1>5
<1> QED BY <1>4, <1>7, <1>9, <1>12, <1>13, <1>14, <1>15, Allocates

(* A question of a manager: the tables after reading them, and what they   *)
(* are if the manager's file can be read.                                  *)
LEMMA TablesAsked ==
    ASSUME MemInv, NEW m \in Managers, NEW t \in get_item1rs(m), heap' = t.heap,
           table' = [rows |-> t.rows, num_item1rs |-> t.count, names |-> t.names,
                     num_names |-> t.num_names],
           UNCHANGED <<ptr, file>>
    PROVE  /\ MemInv'
           /\ t.rows # None =>
                /\ t.rows \in Blocks /\ t.count * RowSize <= t.heap[t.rows].length
                /\ t.heap[t.rows].length \in Nat
           /\ t.names # None =>
                /\ t.names \in Blocks /\ t.num_names * NameSize <= t.heap[t.names].length
                /\ t.heap[t.names].length \in Nat
           /\ t.count \in Nat /\ t.num_names \in Nat
           /\ Readable(m) => /\ t.rows # None /\ t.heap[t.rows].of = m
                             /\ t.names # None /\ t.heap[t.names].of = m
<1>1. table \in TableFields
  BY DEF MemInv, MemType
<1>2. /\ table.rows \in Blocks \cup {None} /\ table.num_item1rs \in Nat
      /\ table.rows # None => RowsAre(heap, table.rows, table.num_item1rs)
      /\ table.names # None => NamesAre(heap, table.names, table.num_names)
  BY <1>1 DEF TableFields, MemInv, TableInv
<1>3. /\ t.heap \in [Blocks -> BlockFields \cup {None}]
      /\ \A b \in Blocks : heap[b] # None => t.heap[b] = heap[b]
      /\ \A b \in Blocks : heap[b] = None /\ t.heap[b] # None => Cause(t.heap[b])
      /\ t.rows \in Blocks \cup {None} /\ t.count \in Nat
      /\ t.names \in Blocks \cup {None} /\ t.num_names \in Nat
      /\ \/ t.rows = table.rows /\ t.count = table.num_item1rs
         \/ t.rows = None
         \/ NewRows(t, m)
      /\ \/ t.names = table.names /\ t.num_names = table.num_names
         \/ NewNames(t, m)
      /\ Readable(m) => NewRows(t, m) /\ NewNames(t, m)
  BY <1>2, It1rReads DEF get_item1rs
<1>4. /\ table' \in TableFields
      /\ table'.rows = t.rows /\ table'.num_item1rs = t.count
      /\ table'.names = t.names /\ table'.num_names = t.num_names
  BY <1>3 DEF TableFields
<1>5. MemType'
  BY <1>3, <1>4 DEF MemInv, MemType
<1>6. t.rows # None => /\ RowsAre(t.heap, t.rows, t.count)
                       /\ t.rows = table.rows \/ heap[t.rows] = None
  <2>1. CASE NewRows(t, m)
    BY <2>1 DEF NewRows
  <2>2. CASE t.rows = table.rows /\ t.count = table.num_item1rs
    BY <1>2, <1>3, <2>2 DEF RowsAre
  <2> QED BY <1>3, <2>1, <2>2
<1>7. t.names # None => /\ NamesAre(t.heap, t.names, t.num_names)
                        /\ t.names = table.names \/ heap[t.names] = None
  <2>1. CASE NewNames(t, m)
    BY <2>1 DEF NewNames
  <2>2. CASE t.names = table.names /\ t.num_names = table.num_names
    BY <1>2, <1>3, <2>2 DEF NamesAre
  <2> QED BY <1>3, <2>1, <2>2
<1>8. MemInv'
  <2>1. /\ \A b \in Blocks : heap[b] # None => heap'[b] = heap[b]
        /\ \A b \in Blocks : heap[b] = None /\ heap'[b] # None => Cause(heap'[b])
    BY <1>3
  <2>2. \A q \in Pointers : ptr'[q] = ptr[q]
    OBVIOUS
  <2>3. /\ table'.rows # None =>
              /\ RowsAre(heap', table'.rows, table'.num_item1rs)
              /\ table'.rows = table.rows \/ heap[table'.rows] = None
        /\ table'.names # None =>
              /\ NamesAre(heap', table'.names, table'.num_names)
              /\ table'.names = table.names \/ heap[table'.names] = None
    BY <1>4, <1>6, <1>7
  <2> QED BY <1>5, <2>1, <2>2, <2>3, Allocates
<1>9. /\ t.rows # None => t.rows \in Blocks /\ t.heap[t.rows] \in BlockFields
      /\ t.names # None => t.names \in Blocks /\ t.heap[t.names] \in BlockFields
  BY <1>3, <1>6, <1>7 DEF RowsAre, NamesAre
<1>10. Readable(m) => /\ t.rows # None /\ t.heap[t.rows].of = m
                      /\ t.names # None /\ t.heap[t.names].of = m
  BY <1>3 DEF NewRows, NewNames
<1> QED BY <1>3, <1>6, <1>7, <1>8, <1>9, <1>10 DEF RowsAre, NamesAre, BlockFields

(* What is said of a question's answer.                                    *)
LEMMA AnswerStays ==
    ASSUME NEW kind \in {"row", "name"}, NEW m, NEW from, NEW inside,
           UNCHANGED file,
           \/ answer' = NoAnswer
           \/ /\ answer' = [kind |-> kind, ok |-> TRUE, of |-> m, from |-> from,
                            inside |-> inside]
              /\ inside /\ (Readable(m) => from = m)
    PROVE  AnswersOwnTable'
<1>1. CASE answer' = NoAnswer
  <2>1. answer'.kind = "none"
    BY <1>1 DEF NoAnswer
  <2> QED BY <2>1 DEF AnswersOwnTable
<1>2. CASE answer' # NoAnswer
  <2>1. /\ answer'.of = m /\ answer'.from = from /\ answer'.inside = inside
        /\ inside /\ (Readable(m) => from = m)
    BY <1>2
  <2>2. Readable(answer.of)' => Readable(m)
    BY <2>1 DEF Readable, RowsRefused, NameOf
  <2> QED BY <2>1, <2>2 DEF AnswersOwnTable
<1> QED BY <1>1, <1>2

LEMMA RowAsked ==
    ASSUME MemInv, NEW m \in Managers, NEW i \in Indices, gff_manager_get_item1r(m, i)
    PROVE  MemInv' /\ AnswersOwnTable'
<1>1. PICK t \in get_item1rs(m) :
         /\ heap' = t.heap
         /\ table' = [rows |-> t.rows, num_item1rs |-> t.count, names |-> t.names,
                      num_names |-> t.num_names]
         /\ answer' = IF i < 0 \/ i >= t.count THEN NoAnswer
                      ELSE [kind |-> "row", ok |-> TRUE, of |-> m,
                            from |-> IF t.rows = None THEN None ELSE t.heap[t.rows].of,
                            inside |-> t.rows # None =>
                                          (i + 1) * RowSize <= t.heap[t.rows].length]
  BY DEF gff_manager_get_item1r, Asked
<1>2. UNCHANGED <<ptr, file>> /\ i \in Int
  BY DEF gff_manager_get_item1r, Asked
<1>3. /\ MemInv'
      /\ t.rows # None => /\ t.count * RowSize <= t.heap[t.rows].length
                          /\ t.heap[t.rows].length \in Nat
      /\ t.count \in Nat
      /\ Readable(m) => t.rows # None /\ t.heap[t.rows].of = m
  BY <1>1, <1>2, TablesAsked
<1> DEFINE from == IF t.rows = None THEN None ELSE t.heap[t.rows].of
           inside == t.rows # None => (i + 1) * RowSize <= t.heap[t.rows].length
<1>4. CASE i < 0 \/ i >= t.count
  BY <1>1, <1>2, <1>3, <1>4, AnswerStays
<1>5. CASE 0 <= i /\ i < t.count
  <2>1. inside
    BY <1>2, <1>3, <1>5, InsideTable
  <2>2. Readable(m) => from = m
    BY <1>3
  <2>3. answer' = [kind |-> "row", ok |-> TRUE, of |-> m, from |-> from, inside |-> inside]
    BY <1>1, <1>2, <1>3, <1>5
  <2> HIDE DEF from, inside
  <2> QED BY <1>2, <1>3, <2>1, <2>2, <2>3, AnswerStays
<1> QED BY <1>2, <1>3, <1>4, <1>5

LEMMA NameAsked ==
    ASSUME MemInv, NEW m \in Managers, NEW i \in Indices, gff_manager_get_name(m, i)
    PROVE  MemInv' /\ AnswersOwnTable'
<1>1. PICK t \in get_item1rs(m) :
         /\ heap' = t.heap
         /\ table' = [rows |-> t.rows, num_item1rs |-> t.count, names |-> t.names,
                      num_names |-> t.num_names]
         /\ answer' = IF i < 0 \/ i >= t.num_names THEN NoAnswer
                      ELSE [kind |-> "name", ok |-> TRUE, of |-> m,
                            from |-> IF t.names = None THEN None ELSE t.heap[t.names].of,
                            inside |-> t.names # None =>
                                          (i + 1) * NameSize <= t.heap[t.names].length]
  BY DEF gff_manager_get_name, Asked
<1>2. UNCHANGED <<ptr, file>> /\ i \in Int
  BY DEF gff_manager_get_name, Asked
<1>3. /\ MemInv'
      /\ t.names # None => /\ t.num_names * NameSize <= t.heap[t.names].length
                           /\ t.heap[t.names].length \in Nat
      /\ t.num_names \in Nat
      /\ Readable(m) => t.names # None /\ t.heap[t.names].of = m
  BY <1>1, <1>2, TablesAsked
<1> DEFINE from == IF t.names = None THEN None ELSE t.heap[t.names].of
           inside == t.names # None => (i + 1) * NameSize <= t.heap[t.names].length
<1>4. CASE i < 0 \/ i >= t.num_names
  BY <1>1, <1>2, <1>3, <1>4, AnswerStays
<1>5. CASE 0 <= i /\ i < t.num_names
  <2>1. inside
    BY <1>2, <1>3, <1>5, InsideTable
  <2>2. Readable(m) => from = m
    BY <1>3
  <2>3. answer' = [kind |-> "name", ok |-> TRUE, of |-> m, from |-> from, inside |-> inside]
    BY <1>1, <1>2, <1>3, <1>5
  <2> HIDE DEF from, inside
  <2> QED BY <1>2, <1>3, <2>1, <2>2, <2>3, AnswerStays
<1> QED BY <1>2, <1>3, <1>4, <1>5

LEMMA ReadAloneKeeps ==
    ASSUME MemInv, NEW m \in Managers, NEW i \in Indices, NEW kind \in {"row", "name"},
           NEW c \in Chunks \cup {None}, NEW size \in Nat \ {0}, NEW refused \in BOOLEAN,
           ReadAlone(kind, m, c, i, size, refused)
    PROVE  MemInv' /\ AnswersOwnTable'
<1>1. UNCHANGED <<heap, ptr, file, table>> /\ i \in Int
  BY DEF ReadAlone
<1>2. MemInv'
  BY <1>1, NoBlock
<1>3. CASE refused \/ ~Whole(c) \/ i < 0 \/ i >= c.length \div size
  <2>1. answer' = NoAnswer
    BY <1>3 DEF ReadAlone
  <2> QED BY <1>1, <1>2, <2>1, AnswerStays
<1>4. CASE ~(refused \/ ~Whole(c) \/ i < 0 \/ i >= c.length \div size)
  <2>1. c \in Chunks /\ c.length \in Nat
    BY <1>4, NoChunk, ChunkFields
  <2>2. c.length \div size \in Nat /\ i \in Nat /\ i < c.length \div size
    BY <1>1, <1>4, <2>1, Quotients
  <2>3. (i + 1) * size <= c.length
    BY <2>1, <2>2, Quotients
  <2>4. answer' = [kind |-> kind, ok |-> TRUE, of |-> m, from |-> m,
                   inside |-> (i + 1) * size <= c.length]
    BY <1>4 DEF ReadAlone
  <2> QED BY <1>1, <1>2, <2>3, <2>4, AnswerStays
<1> QED BY <1>3, <1>4

------------------------------------------------------------------------------
(* Every step.                                                             *)

(* What reads nothing into a caller's buffer.                              *)
LEMMA NothingRead ==
    ASSUME call'.kind \in {"none", "spin", "fault"}
    PROVE  ReadIsWhole'
BY DEF ReadIsWhole

LEMMA NothingAsked ==
    ASSUME answer'.kind \notin {"row", "name"}
    PROVE  AnswersOwnTable'
BY DEF AnswersOwnTable

LEMMA NoCallReads == call' = NoCall => ReadIsWhole'
BY NothingRead DEF NoCall

LEMMA RestAnswers == Rest => AnswersOwnTable'
BY NothingAsked DEF Rest, NoAnswer

LEMMA LoadReads ==
    ASSUME NEW p \in Pointers, NEW c, Load(p, c)
    PROVE  ReadIsWhole'
<1>1. CASE gff_load_spin(p, c)
  <2>1. CASE call' = NoCall
    BY <2>1, NoCallReads
  <2>2. CASE call' = [NoCall EXCEPT !.kind = "spin", !.chunk = c, !.ok = TRUE]
    <3>1. call'.kind = "spin"
      BY <2>2 DEF NoCall
    <3> QED BY <3>1, NothingRead
  <2>3. CASE call' = [NoCall EXCEPT !.kind = "fault", !.chunk = c]
    <3>1. call'.kind = "fault"
      BY <2>3 DEF NoCall
    <3> QED BY <3>1, NothingRead
  <2> QED BY <1>1, <2>1, <2>2, <2>3 DEF gff_load_spin, load_raw
<1>2. CASE ~gff_load_spin(p, c)
  <2>1. call' = NoCall
    BY <1>2 DEF Load, gff_load_raw, gff_load_mas, gff_load_gpl, gff_load_gplx, gff_load_char,
                gff_load_voc, gff_load_rdff, gff_load_font, gff_load_window,
                gff_load_monster_list, gff_load_etab, gff_load_gseq, load_raw, load_seq
  <2> QED BY <2>1, NoCallReads
<1> QED BY <1>1, <1>2

LEMMA ResourceStepKeeps ==
    ASSUME Inv, ResourceStep
    PROVE  Inv'
<1>1. MemInv /\ Rest /\ UNCHANGED <<file, table>> /\ ResourcesNext
  BY DEF Inv, ResourceStep, Rest
<1>2. AnswersOwnTable'
  BY <1>1, RestAnswers
<1>3. ASSUME NEW p \in Pointers, free(p)
      PROVE  MemInv' /\ ReadIsWhole'
  <2>1. call' = NoCall
    BY <1>3 DEF free
  <2> QED BY <1>1, <1>3, <2>1, FreeKeeps, NoCallReads
<1>4. ASSUME NEW c \in Chunks \cup {None}, NEW p \in Pointers, Load(p, c)
      PROVE  MemInv' /\ ReadIsWhole'
  BY <1>1, <1>4, LoadKeeps, LoadReads
<1>5. ASSUME NEW c \in Chunks \cup {None}, gff_write_raw_bytes(c)
      PROVE  MemInv' /\ ReadIsWhole'
  <2>1. call' = NoCall
    BY <1>5 DEF gff_write_raw_bytes
  <2> QED BY <1>1, <1>5, <2>1, ExportKeeps, NoCallReads
<1>6. ASSUME NEW c \in Chunks \cup {None}, NEW size \in Sizes, Read(c, size)
      PROVE  MemInv' /\ ReadIsWhole'
  <2>1. ReadIsWhole' /\ UNCHANGED mem
    BY <1>6, ReadKeeps
  <2> QED BY <1>1, <2>1, NoBlock DEF mem
<1>7. ASSUME NEW c \in Chunks \cup {None}, ReadFixed(c)
      PROVE  MemInv' /\ ReadIsWhole'
  <2>1. ReadIsWhole' /\ UNCHANGED mem
    BY <1>7, ReadFixedKeeps
  <2> QED BY <1>1, <2>1, NoBlock DEF mem
<1>8. MemInv' /\ ReadIsWhole'
  BY <1>1, <1>3, <1>4, <1>5, <1>6, <1>7 DEF ResourcesNext
<1> QED BY <1>2, <1>8 DEF Inv

LEMMA ReadStepKeeps ==
    ASSUME Inv, ReadIsWhole', UNCHANGED mem, Rest
    PROVE  Inv'
<1>1. MemInv'
  BY NoBlock DEF Inv, mem, Rest
<1> QED BY <1>1, RestAnswers DEF Inv

LEMMA FontKeeps ==
    ASSUME Inv, NEW font, gff_manager_font_load(font)
    PROVE  Inv'
<1> DEFINE c == [length |-> 1, there |-> 1]
<1>1. PICK b \in Free : heap' = [heap EXCEPT ![b] = Block("sheet", c)]
  BY DEF gff_manager_font_load
<1>2. c.length \in Nat /\ c.there \in Nat
  OBVIOUS
<1>3. /\ UNCHANGED <<ptr, file, table>> /\ call' = NoCall
      /\ answer' = [kind |-> "sheet", font |-> font, sheet |-> F!Sheet(font)]
  BY DEF gff_manager_font_load
<1> HIDE DEF c
<1>4. Block("sheet", c) \in BlockFields /\ Block("sheet", c).kind = "sheet"
  BY <1>2, BlockOfChunk DEF Kinds
<1>5. Cause(Block("sheet", c))
  BY <1>4 DEF Cause
<1>6. MemInv'
  BY <1>1, <1>3, <1>4, <1>5, LostBlock DEF Inv
<1>7. answer'.kind = "sheet"
  BY <1>3
<1> QED BY <1>3, <1>6, <1>7, NoCallReads, NothingAsked DEF Inv

(* The questions that look at no memory.                                   *)
LEMMA AloneKeeps ==
    ASSUME Inv, UNCHANGED <<heap, ptr, file, table>>, call' = NoCall,
           answer'.kind \notin {"row", "name"}
    PROVE  Inv'
<1>1. MemInv'
  BY NoBlock DEF Inv
<1> QED BY <1>1, NoCallReads, NothingAsked DEF Inv

LEMMA StepKeepsInv == Inv /\ [Next]_allvars => Inv'
<1> SUFFICES ASSUME Inv, [Next]_allvars
             PROVE  Inv'
  OBVIOUS
<1>0. MemInv
  BY DEF Inv
<1>1. CASE ResourceStep
  BY <1>1, ResourceStepKeeps
<1>2. ASSUME NEW m \in Managers, NEW p \in Pointers, gff_read_it1r(p, m)
      PROVE  Inv'
  <2>1. call' = NoCall /\ answer' = NoAnswer /\ answer'.kind = "none"
    BY <1>2 DEF gff_read_it1r, NoAnswer
  <2> QED BY <1>0, <1>2, <2>1, It1rKeeps, NoCallReads, NothingAsked DEF Inv
<1>3. ASSUME NEW m \in Managers, NEW i \in Indices, gff_manager_get_item1r(m, i)
      PROVE  Inv'
  <2>1. call' = NoCall
    BY <1>3 DEF gff_manager_get_item1r, Asked
  <2> QED BY <1>0, <1>3, <2>1, RowAsked, NoCallReads DEF Inv
<1>4. ASSUME NEW m \in Managers, NEW i \in Indices, gff_manager_get_name(m, i)
      PROVE  Inv'
  <2>1. call' = NoCall
    BY <1>4 DEF gff_manager_get_name, Asked
  <2> QED BY <1>0, <1>4, <2>1, NameAsked, NoCallReads DEF Inv
<1>5. ASSUME NEW m \in Managers, NEW i \in Indices, gff_manager_ds1_read_item1r(m, i)
      PROVE  Inv'
  <2>1. /\ ReadAlone("row", m, file[m].it1r, i, RowSize, RowsRefused(file[m].it1r))
        /\ RowsRefused(file[m].it1r) \in BOOLEAN
    BY <1>5 DEF gff_manager_ds1_read_item1r, RowsRefused
  <2>2. call' = NoCall
    BY <2>1 DEF ReadAlone
  <2>3. file[m].it1r \in Chunks \cup {None}
    BY <1>0, NamesOfFile
  <2> QED BY <1>0, <2>1, <2>2, <2>3, ReadAloneKeeps, NoCallReads DEF Inv
<1>6. ASSUME NEW m \in Managers, NEW i \in Indices, gff_manager_ds1_read_name(m, i)
      PROVE  Inv'
  <2>1. ReadAlone("name", m, file[m].name, i, NameSize, FALSE)
    BY <1>6 DEF gff_manager_ds1_read_name
  <2>2. call' = NoCall
    BY <2>1 DEF ReadAlone
  <2>3. file[m].name \in Chunks \cup {None}
    BY <1>0, NamesOfFile
  <2> QED BY <1>0, <2>1, <2>2, <2>3, ReadAloneKeeps, NoCallReads DEF Inv
<1>7. ASSUME NEW c \in Chunks \cup {None}, NEW type \in R!Types, item_read(c, type)
      PROVE  Inv'
  BY <1>7, ItemReadKeeps, ReadStepKeeps
<1>8. ASSUME NEW c \in Chunks \cup {None}, gff_manager_item_load(c)
      PROVE  Inv'
  BY <1>8, ItemLoadKeeps, ReadStepKeeps
<1>9. ASSUME NEW c \in Chunks \cup {None}, NEW size \in Sizes, gff_name_get_random(c, size)
      PROVE  Inv'
  BY <1>9, RandomKeeps, ReadStepKeeps
<1>10. ASSUME NEW blocks \in RdffChunks, gff_rdff_to_object(blocks)
       PROVE  Inv'
  <2>1. /\ UNCHANGED <<heap, ptr, file, table>> /\ call' = NoCall
        /\ answer'.kind = "object"
    BY <1>10 DEF gff_rdff_to_object
  <2> QED BY <2>1, AloneKeeps
<1>11. ASSUME NEW font \in FontChunks, gff_manager_font_load(font)
       PROVE  Inv'
  BY <1>11, FontKeeps
<1>12. ASSUME NEW frames \in Scripts, NEW pos \in 0 .. Len(frames) - 1,
              gff_scmd_total_delay(frames, pos)
       PROVE  Inv'
  <2>1. /\ UNCHANGED <<heap, ptr, file, table>> /\ call' = NoCall
        /\ answer'.kind = "delay"
    BY <1>12 DEF gff_scmd_total_delay
  <2> QED BY <2>1, AloneKeeps
<1>13. CASE UNCHANGED allvars
  <2>1. MemInv'
    BY <1>0, <1>13, NoBlock DEF allvars
  <2> QED BY <1>13, <2>1
          DEF Inv, allvars, ReadIsWhole, AnswersOwnTable, Readable, RowsRefused, NameOf
<1> QED BY <1>1, <1>2, <1>3, <1>4, <1>5, <1>6, <1>7, <1>8, <1>9, <1>10, <1>11, <1>12, <1>13
        DEF Next

LEMMA InitInv == Init => Inv
<1> SUFFICES ASSUME Init
             PROVE  Inv
  OBVIOUS
<1>1. /\ heap = [b \in Blocks |-> None] /\ call = NoCall
      /\ ptr = [p \in Pointers |-> [at |-> None, ok |-> FALSE, count |-> 0]]
      /\ file \in [Managers -> ItemFiles]
      /\ table = [rows |-> None, num_item1rs |-> 0, names |-> None, num_names |-> 0]
      /\ answer = NoAnswer
  BY DEF Init, ResourcesInit, Fresh, NoMemory, NothingLoaded
<1>2. MemType
  BY <1>1 DEF MemType, PtrFields, TableFields
<1>3. \A p \in Pointers : ~ptr[p].ok
  BY <1>1
<1>4. HeldIsWhole /\ LostForCause /\ TableInv
  BY <1>1, <1>3 DEF HeldIsWhole, LostForCause, TableInv
<1>5. call.kind = "none" /\ answer.kind = "none"
  BY <1>1 DEF NoCall, NoAnswer
<1> QED BY <1>2, <1>4, <1>5 DEF Inv, MemInv, ReadIsWhole, AnswersOwnTable

(* The memory of the resources and of the tables is accounted for after    *)
(* every sequence of loads, reads, questions and frees, also after blocks  *)
(* are lost, however many variables, managers and blocks there are.        *)
THEOREM ItemsInductive == Spec => []Inv
<1> QED BY InitInv, StepKeepsInv, PTL DEF Spec

(* What a load that succeeded hands over is allocated, whole, and of no    *)
(* other variable, so that the caller may free it: gff_load_... in gff.c,  *)
(* spin.c, xmi.c, and gff_read_it1r with its tables.                       *)
THEOREM LoadsHandOverWhole == Spec => []HeldIsWhole
<1>1. Inv => HeldIsWhole
  BY DEF Inv, MemInv
<1> QED BY <1>1, ItemsInductive, PTL

(* What gff_read_... reads stays in the caller's buffer, its end mark too, *)
(* and is the whole chunk where the call says so.                          *)
THEOREM ReadsStayInside == Spec => []ReadIsWhole
<1>1. Inv => ReadIsWhole
  BY DEF Inv
<1> QED BY <1>1, ItemsInductive, PTL

(* Every block that is allocated and that nobody holds was lost in one of  *)
(* the ways the code has.                                                  *)
THEOREM NothingElseIsLost == Spec => []LostForCause
<1>1. Inv => LostForCause
  BY DEF Inv, MemInv
<1> QED BY <1>1, ItemsInductive, PTL

(* A row or a name a manager answers with lies inside the table, and is    *)
(* its own file's wherever that can be read: the static variables of       *)
(* item.c, which all managers share, are read again by each question.      *)
THEOREM AnswersComeFromOwnTable == Spec => []AnswersOwnTable
<1>1. Inv => AnswersOwnTable
  BY DEF Inv
<1> QED BY <1>1, ItemsInductive, PTL

(* gff_scmd_total_delay says of a script of any length, from any frame of  *)
(* it, what gff_scmd_next_pos plays: the delays in front of the first mark *)
(* and that frame's own, or -1 for a script that leads back.               *)
THEOREM DelayIsWhatPlays == Spec => []DelayAsPlayed
<1>1. AnswerInv => DelayAsPlayed
  <2>1. CASE answer.kind = "delay"
    BY <2>1, DelaysAgree DEF AnswerInv
  <2>2. CASE answer.kind # "delay"
    BY <2>2 DEF DelayAsPlayed
  <2> QED
    BY <2>1, <2>2
<1> QED
  BY <1>1, AnswersWorkedOut, PTL

(* gff_rdff_to_object makes of any list of blocks the object of the first  *)
(* OBJECT block in front of the end mark, or fails, or leaves the list.    *)
THEOREM ObjectsComeFromTheirBlock == Spec => []ObjectOfItsBlock
<1>1. AnswerInv => ObjectOfItsBlock
  <2>1. CASE answer.kind = "object"
    BY <2>1, ObjectsAgree DEF AnswerInv
  <2>2. CASE answer.kind # "object"
    BY <2>2 DEF ObjectOfItsBlock
  <2> QED
    BY <2>1, <2>2
<1> QED
  BY <1>1, AnswersWorkedOut, PTL

(* The sheet gff_manager_font_load makes of a font of any height and any   *)
(* widths shows each character as gff_create_font_rgba draws it, and none  *)
(* writes over another or outside.                                         *)
THEOREM SheetsShowTheirCharacters == Spec => []SheetShowsCharacters
<1>1. AnswerInv => SheetShowsCharacters
  <2>1. CASE answer.kind = "sheet"
    BY <2>1, SheetsAgree DEF AnswerInv
  <2>2. CASE answer.kind # "sheet"
    BY <2>2 DEF SheetShowsCharacters
  <2> QED
    BY <2>1, <2>2
<1> QED
  BY <1>1, AnswersWorkedOut, PTL
===============================================================================
