------------------------------ MODULE XmiProofs ------------------------------
(***************************************************************************)
(* The lists of Xmi are sorted, for every file, whole or broken, and every *)
(* conversion.  CreateNewEvent does not search from the head of its list   *)
(* but from the cursor, so the invariant needs what the cursor's event is: *)
(* never later than the clock.  The times of events are naturals, because  *)
(* delays and durations are made of bytes.                                 *)
(***************************************************************************)
EXTENDS Xmi, FiniteSetTheorems, SequenceTheorems, WellFoundedInduction, TLAPS

(* A sequence of events with times; with a cursor that is in it and not    *)
(* later than t.                                                           *)
Timed(l) ==
    /\ l \in Seq({l[k] : k \in DOMAIN l})
    /\ \A k \in DOMAIN l : l[k].time \in Nat
InOrder(l) == Timed(l) /\ Sorted(l)
CursorBy(l, t) ==
    l.list # <<>> => /\ l.current \in DOMAIN l.list
                     /\ l.list[l.current].time <= t

Ready(l, t) == InOrder(l.list) /\ CursorBy(l, t)

(* Where the bytes are read from is somewhere: an event, inside the file.  *)
Somewhere ==
    /\ file \in Files
    /\ pos \in Int /\ next \in Int
    /\ dir \in [start : Int, len : Int, i : Int]

IInv ==
    /\ Somewhere
    /\ clock.time \in Nat
    /\ Ready(line, clock.time)
    /\ lists \in Seq({lists[n] : n \in DOMAIN lists})
    /\ \A n \in DOMAIN lists : Sorted(lists[n])

------------------------------------------------------------------------------
(* A set of naturals that is not empty has a least element.                *)
LEMMA LeastNatural ==
    ASSUME NEW T, T \subseteq Nat, T # {}
    PROVE  \E x \in T : \A y \in T : x <= y
<1> DEFINE Below == OpToRel(<, Nat)
<1>1. Below = {p \in Nat \X Nat : p[1] < p[2]}
  BY DEF OpToRel
<1>2. IsWellFoundedOn(Below, Nat)
  BY NatLessThanWellFounded
<1> HIDE DEF Below
<1>3. PICK x \in T : \A y \in T : <<y, x>> \notin Below
  BY <1>2, WFMin
<1>4. ASSUME NEW y \in T
      PROVE  x <= y
  <2>1. y \in Nat /\ x \in Nat /\ <<y, x>> \notin {p \in Nat \X Nat : p[1] < p[2]}
    BY <1>1, <1>3
  <2> QED
    BY <2>1
<1> QED
  BY <1>4

LEMMA MinIsLeast ==
    ASSUME NEW T, T \subseteq Nat, T # {}
    PROVE  Min(T) \in T /\ \A y \in T : Min(T) <= y
<1>1. \E x \in T : \A y \in T : x <= y
  BY LeastNatural
<1> QED
  BY <1>1 DEF Min

(* The search from a cursor that is not later than t ends at the last of   *)
(* the events from there that are followed by none or by a later one.      *)
LEMMA BehindIsNotLater ==
    ASSUME NEW l, NEW t \in Nat, Ready(l, t), l.list # <<>>
    PROVE  /\ Behind(l, t) \in DOMAIN l.list
           /\ l.current <= Behind(l, t)
           /\ l.list[Behind(l, t)].time <= t
           /\ Behind(l, t) # Len(l.list) => l.list[Behind(l, t) + 1].time > t
<1> DEFINE n == Len(l.list)
           q == l.current
           T == {k \in q .. n : k = n \/ l.list[k + 1].time > t}
           m == Min(T)
<1>1. /\ n \in Nat /\ DOMAIN l.list = 1 .. n
      /\ q \in 1 .. n /\ l.list[q].time <= t
      /\ \A k \in 1 .. n : l.list[k].time \in Nat
  BY DEF Ready, InOrder, Timed, CursorBy
<1>2. Behind(l, t) = m
  <2>1. ~(l.list[q].time > t)
    BY <1>1
  <2> QED
    BY <2>1, Zenon DEF Behind
<1>3. T \subseteq Nat /\ n \in T
  BY <1>1
<1>4. m \in T /\ \A y \in T : m <= y
  <2> HIDE DEF T
  <2> QED
    BY <1>3, MinIsLeast
<1> HIDE DEF n, q, m
<1>5. m \in q .. n /\ (m = n \/ l.list[m + 1].time > t)
  BY <1>4
<1>6. l.list[m].time <= t
  <2>1. CASE m = q
    BY <2>1, <1>1
  <2>2. CASE m # q
    <3>1. m - 1 \in q .. n
      BY <2>2, <1>1, <1>5
    <3>2. m - 1 \notin T
      BY <1>1, <1>4, <1>5
    <3>3. ~(l.list[(m - 1) + 1].time > t)
      BY <3>1, <3>2
    <3>4. (m - 1) + 1 = m /\ l.list[m].time \in Nat
      BY <1>1, <1>5
    <3> QED
      BY <3>3, <3>4
  <2> QED
    BY <2>1, <2>2
<1> QED
  BY <1>1, <1>2, <1>5, <1>6 DEF n, q

(* CreateNewEvent keeps the order, and the new event is at the cursor,     *)
(* behind where the cursor was: the events up to there stay.               *)
LEMMA CreateKeepsOrder ==
    ASSUME NEW l, NEW t \in Nat, NEW msg, Ready(l, t)
    PROVE  LET m == CreateNewEvent(l, Event(t, msg))
           IN  /\ InOrder(m.list) /\ m.list # <<>>
               /\ m.current \in DOMAIN m.list
               /\ m.list[m.current].time = t
               /\ l.list # <<>> =>
                     \A k \in 1 .. l.current :
                        k \in DOMAIN m.list /\ m.list[k] = l.list[k]
<1> DEFINE e == Event(t, msg)
           m == CreateNewEvent(l, e)
<1>0. e.time = t
  BY DEF Event
<1>1. CASE l.list = <<>>
  <2>1. m = [list |-> <<e>>, current |-> 1]
    BY <1>1 DEF CreateNewEvent
  <2>2. m.list = <<e>> /\ DOMAIN m.list = {1} /\ m.list[1] = e /\ m.current = 1
    BY <2>1
  <2>3. <<e>> \in Seq({m.list[k] : k \in DOMAIN m.list})
    BY <2>2
  <2> QED
    BY <2>2, <2>3, <1>0, <1>1 DEF InOrder, Timed, Sorted
<1>2. CASE l.list # <<>>
  <2> DEFINE b == Behind(l, t)
             n == Len(l.list)
             g == [k \in 1 .. n + 1 |-> IF k < b + 1 THEN l.list[k]
                                        ELSE IF k = b + 1 THEN e ELSE l.list[k - 1]]
  <2>1. m.list = g /\ m.current = b + 1
    BY <1>0, <1>2 DEF CreateNewEvent
  <2>2. /\ b \in DOMAIN l.list /\ l.current <= b
        /\ l.list[b].time <= t
        /\ b # n => l.list[b + 1].time > t
    BY <1>2, BehindIsNotLater
  <2>3. /\ n \in Nat /\ DOMAIN l.list = 1 .. n
        /\ \A k \in 1 .. n : l.list[k].time \in Nat
        /\ \A j, k \in 1 .. n : j < k => l.list[j].time <= l.list[k].time
        /\ l.current \in 1 .. n
    <3>1. Timed(l.list) /\ Sorted(l.list) /\ CursorBy(l, t)
      BY DEF Ready, InOrder
    <3>2. /\ n \in Nat /\ DOMAIN l.list = 1 .. n
          /\ \A k \in 1 .. n : l.list[k].time \in Nat
      BY <3>1 DEF Timed
    <3> QED
      BY <1>2, <3>1, <3>2 DEF Sorted, CursorBy
  <2> HIDE DEF b, n
  <2>4. \A k \in 1 .. n + 1 : g[k].time \in Nat
    BY <2>2, <2>3, <1>0
  <2>5. \A j, k \in 1 .. n + 1 : j < k => g[j].time <= g[k].time
    <3> TAKE j, k \in 1 .. n + 1
    <3> HAVE j < k
    <3>1. CASE k <= b
      BY <3>1, <2>2, <2>3
    <3>2. CASE k = b + 1
      <4>1. l.list[j].time <= l.list[b].time
        <5>1. j \in 1 .. n /\ b \in 1 .. n
          BY <3>2, <2>2, <2>3
        <5>2. CASE j = b
          BY <5>1, <5>2, <2>3
        <5>3. CASE j # b
          <6>1. j < b
            BY <3>2, <5>1, <5>3, <2>3
          <6> QED
            BY <5>1, <6>1, <2>3
        <5> QED
          BY <5>2, <5>3
      <4> QED
        BY <3>2, <4>1, <2>2, <2>3, <1>0
    <3>3. CASE k > b + 1 /\ j <= b
      <4>0. j \in 1 .. n /\ k - 1 \in 1 .. n /\ j < k - 1
        BY <3>3, <2>2, <2>3
      <4>1. l.list[j].time <= l.list[k - 1].time
        BY <4>0, <2>3
      <4> QED
        BY <3>3, <4>1, <2>2, <2>3
    <3>4. CASE k > b + 1 /\ j = b + 1
      <4>1. l.list[b + 1].time <= l.list[k - 1].time
        <5>1. b + 1 \in 1 .. n /\ k - 1 \in 1 .. n
          BY <3>4, <2>2, <2>3
        <5>2. CASE b + 1 = k - 1
          BY <5>1, <5>2, <2>3
        <5>3. CASE b + 1 # k - 1
          <6>1. b + 1 < k - 1
            BY <3>4, <5>1, <5>3, <2>3
          <6> QED
            BY <5>1, <6>1, <2>3
        <5> QED
          BY <5>2, <5>3
      <4>2. l.list[b + 1].time > t /\ l.list[b + 1].time \in Nat
        BY <3>4, <2>2, <2>3
      <4>3. k - 1 \in 1 .. n /\ l.list[k - 1].time \in Nat
        BY <3>4, <2>2, <2>3
      <4>4. t <= l.list[k - 1].time
        BY <4>1, <4>2, <4>3
      <4>5. g[j].time = t /\ g[k] = l.list[k - 1]
        BY <3>4, <2>2, <2>3, <1>0
      <4> QED
        BY <4>4, <4>5
    <3>5. CASE k > b + 1 /\ j > b + 1
      <4>1. j - 1 \in 1 .. n /\ k - 1 \in 1 .. n /\ j - 1 < k - 1
        BY <3>5, <2>2, <2>3
      <4>2. l.list[j - 1].time <= l.list[k - 1].time
        BY <4>1, <2>3
      <4> QED
        BY <3>5, <4>2, <2>2, <2>3
    <3> QED
      BY <3>1, <3>2, <3>3, <3>4, <3>5, <2>2, <2>3
  <2>6. DOMAIN g = 1 .. n + 1 /\ n + 1 \in Nat
    BY <2>3
  <2>7. g \in Seq({g[k] : k \in DOMAIN g})
    BY <2>6
  <2>8. InOrder(g) /\ g # <<>>
    <3>1. 1 \in DOMAIN g
      BY <2>3, <2>6
    <3> HIDE DEF g
    <3> QED
      BY <3>1, <2>4, <2>5, <2>6, <2>7 DEF InOrder, Timed, Sorted
  <2>9. b + 1 \in DOMAIN g /\ g[b + 1].time = t
    BY <2>2, <2>3, <1>0
  <2>10. \A k \in 1 .. l.current : k \in DOMAIN g /\ g[k] = l.list[k]
    BY <2>2, <2>3
  <2> QED
    BY <2>1, <2>8, <2>9, <2>10
<1> QED
  BY <1>1, <1>2

------------------------------------------------------------------------------
(* What is read from the file is numbers.                                  *)
LEMMA AtIsByte ==
    ASSUME file \in Files, NEW p \in Int
    PROVE  At(p) \in Byte
<1>1. src \in Seq(Byte)
  BY FilesAssumption DEF src
<1>2. p \in 0 .. Len(src) - 1 => src[p + 1] \in Byte
  BY <1>1
<1>3. 0 \in Byte
  BY DEF Byte
<1> QED
  BY <1>2, <1>3 DEF At

LEMMA SumsAreNumbers ==
    ASSUME NEW a \in Int, NEW b \in Int
    PROVE  Add(a, b) \in Int
BY DEF Add, MaxInt

LEMMA NumbersAreRead ==
    ASSUME file \in Files, NEW p \in Int
    PROVE  read4(p) \in Int
<1>1. \A k \in Int : At(k) \in Int
  BY AtIsByte DEF Byte
<1> DEFINE high == IF At(p) > 127 THEN At(p) - 256 ELSE At(p)
<1>2. high \in Int /\ At(p + 1) \in Int /\ At(p + 2) \in Int /\ At(p + 3) \in Int
  BY <1>1
<1>3. read4(p) = 16777216 * high + 65536 * At(p + 1) + 256 * At(p + 2) + At(p + 3)
  BY DEF read4
<1> HIDE DEF high
<1> QED
  BY <1>2, <1>3

LEMMA AlignedIsNumber ==
    ASSUME NEW n \in Int
    PROVE  Aligned(n) \in Int
<1>1. Add(n, 1) \in Int
  BY SumsAreNumbers
<1> QED
  BY <1>1 DEF Aligned

LEMMA QuantitiesAreNatural ==
    ASSUME file \in Files, NEW p \in Nat
    PROVE  VlqLen(p) \in 1 .. 4 /\ Vlq(p) \in Nat
<1> DEFINE T == {k \in 1 .. 4 : At(p + k - 1) < 128} \cup {4}
<1>1. T \subseteq 1 .. 4 /\ T \subseteq Nat /\ T # {}
  OBVIOUS
<1>2. Min(T) \in T
  <2> HIDE DEF T
  <2> QED
    BY <1>1, MinIsLeast
<1>3. VlqLen(p) \in 1 .. 4
  BY <1>1, <1>2 DEF VlqLen
<1>4. \A k \in 1 .. 4 : At(p + k - 1) % 128 \in Nat
  <2> TAKE k \in 1 .. 4
  <2>1. p + k - 1 \in Nat
    OBVIOUS
  <2>2. At(p + k - 1) \in Nat
    BY <2>1, AtIsByte DEF Byte
  <2> QED
    BY <2>2
<1> DEFINE b(k) == At(p + k - 1) % 128
<1>5. b(1) \in Nat /\ b(2) \in Nat /\ b(3) \in Nat /\ b(4) \in Nat
  BY <1>4
<1> HIDE DEF b
<1>6. Vlq(p) \in {b(1), 128 * b(1) + b(2), 16384 * b(1) + 128 * b(2) + b(3),
                 2097152 * b(1) + 16384 * b(2) + 128 * b(3) + b(4)}
  BY <1>3 DEF Vlq, b
<1> QED
  BY <1>3, <1>5, <1>6

LEMMA LengthsAreNatural ==
    ASSUME file \in Files, NEW p \in Nat, NEW status
    PROVE  SystemLen(status, p) \in Nat
<1>1. /\ VlqLen(p) \in Nat /\ Vlq(p) \in Nat
      /\ VlqLen(p + 1) \in Nat /\ Vlq(p + 1) \in Nat
  BY QuantitiesAreNatural
<1> QED
  BY <1>1 DEF SystemLen, MetaLen

------------------------------------------------------------------------------
(* A message is put into the list at the clock's time, the end of a note   *)
(* behind it, and the cursor is left on an event of that time.             *)
LEMMA EventsKeepOrder ==
    ASSUME NEW l, NEW t \in Nat, NEW msg, Ready(l, t)
    PROVE  Ready(CreateNewEvent(l, Event(t, msg)), t)
<1> DEFINE m == CreateNewEvent(l, Event(t, msg))
<1>1. InOrder(m.list) /\ m.current \in DOMAIN m.list /\ m.list[m.current].time = t
  BY CreateKeepsOrder
<1> HIDE DEF m
<1>2. Ready(m, t)
  BY <1>1 DEF Ready, CursorBy
<1> QED
  BY <1>2 DEF m

LEMMA NotesKeepOrder ==
    ASSUME NEW l, NEW t \in Nat, NEW msg, NEW len \in Nat, Ready(l, t)
    PROVE  LET on == CreateNewEvent(l, Event(t, msg))
           IN  Ready([list |-> CreateNewEvent(on, Release(t + 3 * len, msg)).list,
                      current |-> on.current], t)
<1> DEFINE on == CreateNewEvent(l, Event(t, msg))
           off == CreateNewEvent(on, Release(t + 3 * len, msg))
           both == [list |-> off.list, current |-> on.current]
<1>1. /\ InOrder(on.list) /\ on.list # <<>>
      /\ on.current \in DOMAIN on.list /\ on.list[on.current].time = t
  BY CreateKeepsOrder
<1>2. t + 3 * len \in Nat /\ t <= t + 3 * len
  OBVIOUS
<1>3. Ready(on, t + 3 * len)
  BY <1>1, <1>2 DEF Ready, CursorBy
<1>4. /\ InOrder(off.list) /\ off.list # <<>>
      /\ \A k \in 1 .. on.current :
            k \in DOMAIN off.list /\ off.list[k] = on.list[k]
  <2> HIDE DEF on
  <2> QED
    BY <1>1, <1>2, <1>3, CreateKeepsOrder DEF Release
<1>5. on.current \in 1 .. on.current
  <2>1. on.list \in Seq({on.list[k] : k \in DOMAIN on.list})
    BY <1>1 DEF InOrder, Timed
  <2> HIDE DEF on
  <2>2. on.current \in 1 .. Len(on.list) /\ Len(on.list) \in Nat
    BY <1>1, <2>1
  <2> QED
    BY <2>2
<1>6. Ready(both, t)
  <2> HIDE DEF on, off
  <2>1. both.list = off.list /\ both.current = on.current
    OBVIOUS
  <2> HIDE DEF both
  <2> QED
    BY <1>1, <1>4, <1>5, <2>1 DEF Ready, CursorBy
<1> QED
  BY <1>6

(* A later clock does not disturb the list, nor does another list.         *)
LEMMA LaterIsReady ==
    ASSUME NEW l, NEW t \in Nat, NEW u \in Nat, t <= u, Ready(l, t)
    PROVE  Ready(l, u)
<1>1. \A k \in DOMAIN l.list : l.list[k].time \in Nat
  BY DEF Ready, InOrder, Timed
<1> QED
  BY <1>1 DEF Ready, CursorBy

LEMMA EmptyIsReady ==
    ASSUME NEW t \in Nat
    PROVE  Ready(NoEvents, t)
<1>1. NoEvents.list = <<>> /\ DOMAIN NoEvents.list = {}
  BY DEF NoEvents
<1>2. <<>> \in Seq({})
  OBVIOUS
<1> QED
  BY <1>1, <1>2 DEF Ready, InOrder, CursorBy, Timed, Sorted

------------------------------------------------------------------------------
(* A sequence is one of what it holds.                                     *)
LEMMA SequenceOfItsOwn ==
    ASSUME NEW S, NEW s \in Seq(S)
    PROVE  s \in Seq({s[n] : n \in DOMAIN s})
<1> DEFINE R == {s[n] : n \in DOMAIN s}
<1>1. Len(s) \in Nat /\ s \in [1 .. Len(s) -> S] /\ DOMAIN s = 1 .. Len(s)
  BY LenProperties
<1>2. \A n \in 1 .. Len(s) : s[n] \in R
  BY <1>1
<1> HIDE DEF R
<1>3. s \in [1 .. Len(s) -> R]
  BY <1>1, <1>2
<1>4. s \in Seq(R)
  BY <1>1, <1>3, SeqDef
<1> QED
  BY <1>4 DEF R

(* The list of a track that is finished joins the lists.                   *)
LEMMA AppendKeepsLists ==
    ASSUME NEW ls, ls \in Seq({ls[n] : n \in DOMAIN ls}), \A n \in DOMAIN ls : Sorted(ls[n]),
           NEW l, Sorted(l), NEW ms, ms = Append(ls, l)
    PROVE  /\ ms \in Seq({ms[n] : n \in DOMAIN ms})
           /\ \A n \in DOMAIN ms : Sorted(ms[n])
<1> DEFINE R == {ls[n] : n \in DOMAIN ls}
           S == R \cup {l}
           k == Len(ls)
<1>1. ls \in Seq(S)
  <2>1. R \subseteq S
    OBVIOUS
  <2> HIDE DEF S
  <2> QED
    BY <2>1, SeqMonotonic
<1>2. l \in S
  OBVIOUS
<1> HIDE DEF R, S
<1>3. /\ k \in Nat /\ DOMAIN ls = 1 .. k
      /\ ms \in Seq(S) /\ DOMAIN ms = 1 .. k + 1
      /\ ms[k + 1] = l /\ \A n \in 1 .. k : ms[n] = ls[n]
  BY <1>1, <1>2
<1> HIDE DEF k
<1>4. \A n \in 1 .. k + 1 : Sorted(ms[n])
  <2> TAKE n \in 1 .. k + 1
  <2>1. CASE n = k + 1
    BY <2>1, <1>3
  <2>2. CASE n # k + 1
    <3>1. n \in DOMAIN ls /\ ms[n] = ls[n]
      BY <2>2, <1>3
    <3> QED
      BY <3>1
  <2> QED
    BY <2>1, <2>2
<1> QED
  BY <1>3, <1>4, SequenceOfItsOwn

LEMMA InitInOrder == Init => IInv
<1> SUFFICES ASSUME Init
             PROVE  IInv
  OBVIOUS
<1>1. Somewhere
  BY DEF Init, Somewhere
<1>2. clock.time = 0 /\ Ready(line, 0)
  BY EmptyIsReady DEF Init
<1>3. lists = <<>> /\ DOMAIN lists = {}
  BY DEF Init
<1>4. lists \in Seq({lists[n] : n \in DOMAIN lists})
  BY <1>3
<1> QED
  BY <1>1, <1>2, <1>3, <1>4 DEF IInv

(* Steps that read no event.                                               *)
LEMMA WalkKeepsOrder ==
    ASSUME IInv,
           ReadForm \/ ReadXdir \/ ReadCat
    PROVE  IInv'
<1> USE DEF IInv
<1>1. UNCHANGED <<file, next, line, clock, lists>>
  BY DEF ReadForm, ReadXdir, ReadCat, Refuse, ToCat, reading
<1>2. Somewhere'
  <2>1. read4(pos + 4) \in Int /\ read4(4) \in Int
    <3>1. pos + 4 \in Int /\ 4 \in Int
      BY DEF Somewhere
    <3> QED
      BY <3>1, NumbersAreRead DEF Somewhere
  <2>2. Aligned(read4(pos + 4)) \in Int /\ Aligned(dir.len) \in Int
    BY <2>1, AlignedIsNumber DEF Somewhere
  <2>3. CASE ReadForm
    BY <1>1, <2>1, <2>3 DEF ReadForm, Refuse, Somewhere
  <2>4. CASE ReadXdir
    <3> DEFINE skip == Aligned(read4(pos + 4))
               on == Add(pos + 8, skip)
               i == Add(dir.i, Add(9, skip))
               cat == Add(dir.start, Aligned(dir.len))
    <3>1. skip \in Int /\ pos \in Int /\ pos + 8 \in Int
      BY <2>2 DEF Somewhere
    <3>2. Add(9, skip) \in Int
      BY <3>1, SumsAreNumbers
    <3>3. on \in Int /\ i \in Int /\ cat \in Int
      BY <2>2, <3>1, <3>2, SumsAreNumbers DEF Somewhere
    <3>4. \/ pos' = on /\ dir' = [dir EXCEPT !.i = i]
          \/ pos' \in {pos, cat} /\ dir' = dir
      BY <2>4 DEF ReadXdir, ToCat, Refuse
    <3> HIDE DEF on, i, cat
    <3>5. pos' \in Int /\ dir' \in [start : Int, len : Int, i : Int]
      BY <3>1, <3>3, <3>4 DEF Somewhere
    <3> QED
      BY <1>1, <3>5 DEF Somewhere
  <2>5. CASE ReadCat
    BY <1>1, <2>5 DEF ReadCat, Refuse, Somewhere
  <2> QED
    BY <2>3, <2>4, <2>5
<1> QED
  BY <1>1, <1>2

LEMMA ChunkKeepsOrder ==
    ASSUME IInv, ReadChunk
    PROVE  IInv'
<1> DEFINE p == ChunkAt
<1>1. file' = file /\ file \in Files /\ dir' = dir /\ lists' = lists
  BY DEF ReadChunk, StartTrack, IInv, Somewhere
<1>2. p \in Int /\ p + 4 \in Int /\ p + 8 \in Int
  BY DEF IInv, Somewhere, ChunkAt
<1>3. read4(p + 4) \in Int
  BY <1>1, <1>2, NumbersAreRead
<1>4. Aligned(read4(p + 4)) \in Int
  BY <1>3, AlignedIsNumber
<1>5. Add(p + 8, Aligned(read4(p + 4))) \in Int
  BY <1>2, <1>4, SumsAreNumbers
<1>6. \/ StartTrack(p + 8, read4(p + 4))
      \/ pos' = Skip(p) /\ UNCHANGED <<next, line, clock>>
  BY DEF ReadChunk, reading
<1> HIDE DEF p
<1>7. CASE StartTrack(p + 8, read4(p + 4))
  <2>1. pos' \in Int /\ next' \in Int /\ line' = NoEvents /\ clock'.time = 0
    BY <1>2, <1>5, <1>7 DEF StartTrack
  <2>2. Ready(line', 0)
    BY <2>1, EmptyIsReady
  <2> QED
    BY <1>1, <2>1, <2>2 DEF IInv, Somewhere
<1>8. CASE pos' = Skip(p) /\ UNCHANGED <<next, line, clock>>
  <2>1. pos' \in Int
    BY <1>5, <1>8 DEF Skip
  <2> QED
    BY <1>1, <1>8, <2>1 DEF IInv, Somewhere
<1> QED
  BY <1>6, <1>7, <1>8

(* Steps that read a part of an event.                                     *)
LEMMA EventKeepsOrder ==
    ASSUME IInv, ReadDelay \/ ReadNote \/ ReadMessage \/ ReadSystem
    PROVE  IInv'
<1>1. /\ UNCHANGED <<file, next, dir, lists>>
      /\ pos \in Nat /\ file \in Files /\ clock.time \in Nat
      /\ Ready(line, clock.time)
  BY DEF IInv, Somewhere, ReadDelay, ReadNote, ReadMessage, ReadSystem, EventRead,
         IsEvent, MoreEvents, Inside
<1>2. SUFFICES /\ pos' \in Nat /\ clock'.time \in Nat
               /\ Ready(line', clock'.time)
  BY <1>1, <1>2 DEF IInv, Somewhere
<1>3. CASE ReadDelay
  <2>1. At(pos) \in Nat
    BY <1>1, AtIsByte DEF Byte
  <2>2. /\ clock'.time = clock.time + 3 * At(pos)
        /\ line' = line /\ pos' = pos + 1
    BY <1>3 DEF ReadDelay, EventRead
  <2>3. clock'.time \in Nat /\ clock.time <= clock'.time
    BY <1>1, <2>1, <2>2
  <2> QED
    BY <1>1, <2>2, <2>3, LaterIsReady
<1>4. CASE ReadNote
  <2>1. /\ Data + 2 \in Nat
        /\ VlqLen(Data + 2) \in Nat /\ Vlq(Data + 2) \in Nat
    <3>1. Data + 2 \in Nat
      BY <1>1 DEF Data
    <3> QED
      BY <1>1, <3>1, QuantitiesAreNatural
  <2>2. /\ ConvertNote(clock.time, <<Status, At(Data), At(Data + 1)>>, Vlq(Data + 2))
        /\ clock' = clock
        /\ pos' = Data + 2 + VlqLen(Data + 2)
    BY <1>4 DEF ReadNote, EventRead
  <2>3. Ready(line', clock.time)
    BY <1>1, <2>1, <2>2, NotesKeepOrder DEF ConvertNote
  <2> QED
    BY <1>1, <2>1, <2>2, <2>3
<1>5. CASE ReadMessage
  <2>1. PICK n \in {1, 2} :
          /\ ConvertEvent(clock.time, <<Status>> \o Bytes(Data, n))
          /\ clock' = clock /\ pos' = Data + n
    BY <1>5 DEF ReadMessage, EventRead
  <2>2. \A msg : ConvertEvent(clock.time, msg) => Ready(line', clock.time)
    <3> TAKE msg
    <3> HAVE ConvertEvent(clock.time, msg)
    <3>1. Ready(Named(line, clock.time, msg), clock.time)
      BY <1>1, EventsKeepOrder DEF Named
    <3>2. \/ line' = line
          \/ line' = CreateNewEvent(Named(line, clock.time, msg),
                                    Event(clock.time, Converted(msg)))
      BY DEF ConvertEvent
    <3> QED
      BY <1>1, <3>1, <3>2, EventsKeepOrder
  <2>3. pos' \in Nat
    BY <1>1, <2>1 DEF Data
  <2> QED
    BY <1>1, <2>1, <2>2, <2>3
<1>6. CASE ReadSystem
  <2>1. Data \in Nat
    BY <1>1 DEF Data
  <2>2. SystemLen(Status, Data) \in Nat
    BY <1>1, <2>1, LengthsAreNatural
  <2>3. pos' \in Nat /\ clock'.time = clock.time
    BY <1>6, <2>1, <2>2 DEF ReadSystem, EventRead, ClockAfter
  <2>4. \/ line' = line
        \/ line' = CreateNewEvent(line, Event(clock.time, SystemMessage(Status, Data)))
    BY <1>6 DEF ReadSystem
  <2>5. Ready(line', clock.time)
    BY <1>1, <2>4, EventsKeepOrder
  <2> QED
    BY <1>1, <2>3, <2>5
<1> QED
  BY <1>3, <1>4, <1>5, <1>6

LEMMA TrackKeepsOrder ==
    ASSUME IInv, EndTrack
    PROVE  IInv'
<1>1. UNCHANGED <<file, next, dir, line, clock>>
  BY DEF EndTrack, Refuse, reading
<1>2. pos' \in {pos, next}
  BY DEF EndTrack, Refuse
<1>3. lists' = lists \/ lists' = Append(lists, line.list)
  BY DEF EndTrack, Refuse
<1>4. Sorted(line.list)
  BY DEF IInv, Ready, InOrder
<1>5. /\ lists' \in Seq({lists'[n] : n \in DOMAIN lists'})
      /\ \A n \in DOMAIN lists' : Sorted(lists'[n])
  BY <1>3, <1>4, AppendKeepsLists DEF IInv
<1> QED
  BY <1>1, <1>2, <1>5 DEF IInv, Somewhere

(* Steps that write, and the one that reads outside.                       *)
LEMMA WritingKeepsOrder ==
    ASSUME IInv,
           \/ GoOutside \/ WriteHeader \/ StartMTrk \/ WriteEvent \/ EndMTrk \/ Finish
           \/ UNCHANGED vars
    PROVE  IInv'
<1>1. UNCHANGED <<file, pos, next, dir, line, clock, lists>>
  BY DEF GoOutside, ReadOutside, WriteHeader, StartMTrk, WriteEvent, EndMTrk, Finish,
         Refuse, Written, reading, vars
<1> QED
  BY <1>1 DEF IInv, Somewhere

(* CreateNewEvent does not search its list from the head, and goes back to *)
(* a note after it has put the note's end far behind it.  For every file,  *)
(* whole or broken, the events of every track are in the order of their    *)
(* times, at every step.                                                   *)
THEOREM EventsStaySorted == Spec => []ListInOrder
<1>1. Init => IInv
  BY InitInOrder
<1>2. IInv /\ [Next]_vars => IInv'
  BY WalkKeepsOrder, ChunkKeepsOrder, EventKeepsOrder, TrackKeepsOrder, WritingKeepsOrder
     DEF Next
<1>3. IInv => ListInOrder
  BY DEF IInv, Ready, InOrder, CursorBy, ListInOrder
<1> QED
  BY <1>1, <1>2, <1>3, PTL DEF Spec
==============================================================================
