-------------------------- MODULE DeviceHistoryProofs --------------------------
(***************************************************************************)
(* The saved devices survive what tabs, connections and removals do to     *)
(* them, for any number of tabs, devices and passwords and any length of   *)
(* the list.                                                               *)
(***************************************************************************)
EXTENDS DeviceHistory, FiniteSetTheorems, SequenceTheorems, TLAPS

Event == [op: {"save"}, device: Devices, password: Passwords] \cup [op: {"remove"}, device: Devices]

\* p leads from each place of the list to the save it stands for: the latest comes
\* first, and nothing remembered is missing.
Traces(p, l, h) ==
    /\ p \in [1 .. Len(h) -> 1 .. Len(l)]
    /\ \A x, y \in 1 .. Len(h) : x < y => p[x] > p[y]
    /\ Remembered(l) = {p[x] : x \in 1 .. Len(h)}
    /\ \A x \in 1 .. Len(h) : Saved(h[x]) = l[p[x]]

Tracked(l, h) == l \in Seq(Event) /\ \E p : Traces(p, l, h)

------------------------------------------------------------------------------
(* Sets in order.                                                           *)

\* An enumeration without repetition counts its set.
LEMMA EnumerationCounts ==
    ASSUME NEW m \in Nat, NEW T, NEW e \in [1 .. m -> T],
           \A x, y \in 1 .. m : x # y => e[x] # e[y],
           \A t \in T : \E x \in 1 .. m : t = e[x]
    PROVE  IsFiniteSet(T) /\ Cardinality(T) = m
  <1>1. e \in Bijection(1 .. m, T)
    <2>1. e \in Injection(1 .. m, T)
      BY DEF Injection, IsInjective
    <2>2. e \in Surjection(1 .. m, T)
      BY DEF Surjection
    <2>3. QED
      BY <2>1, <2>2 DEF Bijection
  <1>2. ExistsBijection(1 .. m, T)
    BY <1>1 DEF ExistsBijection
  <1>3. IsFiniteSet(T)
    BY <1>2, FS_NatBijection
  <1>4. Cardinality(T) = m
    BY <1>2, FS_CountingElements
  <1>5. QED
    BY <1>3, <1>4

\* The first q of them count to q.
LEMMA FirstOfEnumeration ==
    ASSUME NEW m \in Nat, NEW e, NEW q \in 0 .. m,
           \A x, y \in 1 .. m : x # y => e[x] # e[y]
    PROVE  Cardinality({e[x] : x \in 1 .. q}) = q
  <1> DEFINE T == {e[x] : x \in 1 .. q}
             f == [x \in 1 .. q |-> e[x]]
  <1>1. f \in [1 .. q -> T]
    OBVIOUS
  <1>2. \A x, y \in 1 .. q : x # y => f[x] # f[y]
    OBVIOUS
  <1>3. \A t \in T : \E x \in 1 .. q : t = f[x]
    OBVIOUS
  <1>4. q \in Nat
    OBVIOUS
  <1> HIDE DEF T, f
  <1>5. Cardinality(T) = q
    BY <1>1, <1>2, <1>3, <1>4, EnumerationCounts
  <1>6. QED
    BY <1>5 DEF T

------------------------------------------------------------------------------
(* filter.                                                                  *)

\* f picks the entries of other devices than d, in their order.
PicksOthers(f, m, l, d) ==
    /\ f \in [1 .. m -> 1 .. Len(l)]
    /\ \A x, y \in 1 .. m : x < y => f[x] < f[y]
    /\ \A x \in 1 .. m : l[f[x]].device # d
    /\ \A i \in 1 .. Len(l) : l[i].device # d => \E x \in 1 .. m : i = f[x]

\* Without keeps the other entries in their order: it reads the list along an
\* increasing enumeration of their places.
LEMMA WithoutAlong ==
    ASSUME NEW l, NEW d, Len(l) \in Nat, DOMAIN l = 1 .. Len(l), NEW m \in Nat,
           NEW f, PicksOthers(f, m, l, d)
    PROVE  Without(l, d) = [x \in 1 .. m |-> l[f[x]]]
  <1> DEFINE n == Len(l)
  <1>a. /\ n \in Nat /\ DOMAIN l = 1 .. n /\ f \in [1 .. m -> 1 .. n]
        /\ \A x, y \in 1 .. m : x < y => f[x] < f[y]
        /\ \A x \in 1 .. m : l[f[x]].device # d
        /\ \A i \in 1 .. n : l[i].device # d => \E x \in 1 .. m : i = f[x]
    BY DEF PicksOthers
  <1> HIDE DEF n
  <1> DEFINE kept == {i \in DOMAIN l : l[i].device # d}
             nth(q) == CHOOSE i \in kept : Cardinality({j \in kept : j <= i}) = q
  <1>1. f \in [1 .. m -> kept] /\ \A i \in kept : \E x \in 1 .. m : i = f[x]
    BY <1>a
  <1>2. \A x, y \in 1 .. m : x # y => f[x] # f[y]
    <2> SUFFICES ASSUME NEW x \in 1 .. m, NEW y \in 1 .. m, x # y PROVE f[x] # f[y]
      OBVIOUS
    <2>1. f[x] \in Int /\ f[y] \in Int
      BY <1>a
    <2>2. CASE x < y
      BY <1>a, <2>1, <2>2
    <2>3. CASE y < x
      BY <1>a, <2>1, <2>3
    <2>4. QED
      BY <2>2, <2>3
  <1>3. Cardinality(kept) = m
    BY <1>1, <1>2, EnumerationCounts
  <1>4. ASSUME NEW q \in 1 .. m PROVE Cardinality({j \in kept : j <= f[q]}) = q
    <2>1. ASSUME NEW j \in kept, j <= f[q] PROVE \E x \in 1 .. q : j = f[x]
      <3>1. PICK x \in 1 .. m : j = f[x]
        BY <1>1
      <3>2. ~(q < x)
        <4>1. f[x] \in Int /\ f[q] \in Int
          BY <1>a
        <4>2. QED
          BY <1>a, <2>1, <3>1, <4>1
      <3>3. QED
        BY <3>1, <3>2
    <2>2. ASSUME NEW x \in 1 .. q PROVE f[x] \in kept /\ f[x] <= f[q]
      <3>1. x \in 1 .. m /\ f[x] \in Int /\ f[q] \in Int
        BY <1>a
      <3>2. x < q \/ x = q
        OBVIOUS
      <3>3. QED
        BY <1>a, <1>1, <3>1, <3>2
    <2>3. {j \in kept : j <= f[q]} = {f[x] : x \in 1 .. q}
      BY <2>1, <2>2
    <2>4. q \in 0 .. m
      OBVIOUS
    <2>5. QED
      BY <1>2, <2>3, <2>4, FirstOfEnumeration
  <1> HIDE DEF kept
  <1>5. ASSUME NEW q \in 1 .. m PROVE nth(q) = f[q]
    <2>1. f[q] \in kept /\ Cardinality({j \in kept : j <= f[q]}) = q
      BY <1>1, <1>4
    <2>2. nth(q) \in kept /\ Cardinality({j \in kept : j <= nth(q)}) = q
      BY <2>1
    <2>3. PICK x \in 1 .. m : nth(q) = f[x]
      BY <1>1, <2>2
    <2>4. Cardinality({j \in kept : j <= f[x]}) = x
      BY <1>4
    <2>5. QED
      BY <2>2, <2>3, <2>4
  <1>6. Without(l, d) = [x \in 1 .. Cardinality(kept) |-> l[nth(x)]]
    BY DEF Without, kept
  <1> HIDE DEF nth
  <1>7. QED
    BY <1>3, <1>5, <1>6
OnePerDevice(l) == \A x, y \in 1 .. Len(l) : x # y => l[x].device # l[y].device

\* A list with one entry per device loses at most one.
LEMMA WithoutPicks ==
    ASSUME NEW l \in Seq(Entry), OnePerDevice(l), NEW d
    PROVE  \E m \in 0 .. Len(l) : \E f : PicksOthers(f, m, l, d) /\ Without(l, d) = [x \in 1 .. m |-> l[f[x]]]
  <1> DEFINE n == Len(l)
  <1>1. n \in Nat /\ DOMAIN l = 1 .. n
    OBVIOUS
  <1>2. ASSUME NEW m \in 0 .. n, NEW f, PicksOthers(f, m, l, d)
        PROVE  Without(l, d) = [x \in 1 .. m |-> l[f[x]]]
    <2>1. m \in Nat
      OBVIOUS
    <2>2. QED
      BY <1>1, <1>2, <2>1, WithoutAlong
  <1>3. CASE \A i \in 1 .. n : l[i].device # d
    <2> DEFINE f == [x \in 1 .. n |-> x]
    <2>1. PicksOthers(f, n, l, d)
      BY <1>3 DEF PicksOthers
    <2>2. n \in 0 .. n
      BY <1>1
    <2> HIDE DEF f, n
    <2>3. QED
      BY <1>2, <2>1, <2>2 DEF n
  <1>4. ASSUME NEW k \in 1 .. n, l[k].device = d
        PROVE  \E m \in 0 .. n : \E f : PicksOthers(f, m, l, d) /\ Without(l, d) = [x \in 1 .. m |-> l[f[x]]]
    <2> DEFINE f == [x \in 1 .. n - 1 |-> IF x < k THEN x ELSE x + 1]
    <2> HIDE DEF n
    <2>1. n - 1 \in 0 .. n
      BY <1>1
    <2>2. \A x \in 1 .. n - 1 : f[x] \in 1 .. n /\ f[x] # k
      BY <1>1
    <2>3. \A x, y \in 1 .. n - 1 : x < y => f[x] < f[y]
      BY <1>1
    <2>4. \A i \in 1 .. n : i # k => l[i].device # d
      BY <1>4 DEF OnePerDevice, n
    <2>5. ASSUME NEW i \in 1 .. n, i # k PROVE \E x \in 1 .. n - 1 : i = f[x]
      <3>1. CASE i < k
        <4>1. i \in 1 .. n - 1 /\ f[i] = i
          BY <1>1, <3>1
        <4>2. QED
          BY <4>1
      <3>2. CASE i > k
        <4>1. i - 1 \in 1 .. n - 1 /\ f[i - 1] = i
          BY <1>1, <3>2
        <4>2. QED
          BY <4>1
      <3>3. QED
        BY <2>5, <3>1, <3>2
    <2>6. f \in [1 .. n - 1 -> 1 .. n]
      BY <2>2
    <2> HIDE DEF f
    <2>7. PicksOthers(f, n - 1, l, d)
      BY <1>4, <2>2, <2>3, <2>4, <2>5, <2>6 DEF PicksOthers, n
    <2>8. QED
      BY <1>2, <2>1, <2>7
  <1>5. QED
    BY <1>3, <1>4

------------------------------------------------------------------------------
(* What is remembered after one more event.                                 *)

\* An event at the end changes nothing about those before it.
LEMMA AliveBefore ==
    ASSUME NEW l \in Seq(Event), NEW ev \in Event, NEW i \in 1 .. Len(l), NEW j \in 1 .. Len(l)
    PROVE  Alive(Append(l, ev), i, j) <=> Alive(l, i, j)
  <1>1. \A k \in 1 .. Len(l) : Append(l, ev)[k] = l[k]
    OBVIOUS
  <1>2. \A k \in i + 1 .. j : k \in 1 .. Len(l)
    OBVIOUS
  <1>3. QED
    BY <1>1, <1>2 DEF Alive

\* The event ends the saves of its device and no other.
LEMMA AliveAfter ==
    ASSUME NEW l \in Seq(Event), NEW ev \in Event, NEW i \in 1 .. Len(l)
    PROVE  Alive(Append(l, ev), i, Len(l) + 1) <=> Alive(l, i, Len(l)) /\ ev.device # l[i].device
  <1> DEFINE n == Len(l)
             r == Append(l, ev)
  <1>1. n \in Nat /\ (\A k \in 1 .. n : r[k] = l[k]) /\ r[n + 1] = ev /\ i \in 1 .. n
    OBVIOUS
  <1> HIDE DEF n, r
  <1>2. (\A k \in i + 1 .. n + 1 : r[k].device # r[i].device)
          <=> (\A k \in i + 1 .. n : l[k].device # l[i].device) /\ ev.device # l[i].device
    <2>1. \A k \in i + 1 .. n + 1 : k \in i + 1 .. n \/ k = n + 1
      BY <1>1
    <2>2. \A k \in i + 1 .. n : k \in i + 1 .. n + 1 /\ r[k] = l[k]
      BY <1>1
    <2>3. n + 1 \in i + 1 .. n + 1
      BY <1>1
    <2>4. QED
      BY <1>1, <2>1, <2>2, <2>3
  <1>3. i <= n /\ i <= n + 1 /\ r[i] = l[i]
    BY <1>1
  <1>4. Alive(r, i, n + 1) <=> Alive(l, i, n) /\ ev.device # l[i].device
    BY <1>2, <1>3 DEF Alive
  <1>5. QED
    BY <1>4 DEF n, r

\* Of two saves that count, the devices differ.
LEMMA AliveDiffer ==
    ASSUME NEW l, NEW n \in Nat, NEW i \in 1 .. n, NEW j \in 1 .. n, i # j, Alive(l, i, n), Alive(l, j, n)
    PROVE  l[i].device # l[j].device
  <1>1. CASE i < j
    <2>1. j \in i + 1 .. n
      BY <1>1
    <2>2. QED
      BY <2>1 DEF Alive
  <1>2. CASE j < i
    <2>1. i \in j + 1 .. n
      BY <1>2
    <2>2. QED
      BY <2>1 DEF Alive
  <1>3. QED
    BY <1>1, <1>2

\* Those that count after i at the time k, a finite set.
Later(l, i, k) == {m \in i + 1 .. k : Alive(l, m, k)}

\* They can be counted.
LEMMA LaterFinite ==
    ASSUME NEW l, NEW i \in Int, NEW k \in Int
    PROVE  IsFiniteSet(Later(l, i, k)) /\ Cardinality(Later(l, i, k)) \in Nat
  <1>1. IsFiniteSet(i + 1 .. k)
    BY FS_Interval
  <1>2. Later(l, i, k) \in SUBSET (i + 1 .. k)
    BY DEF Later
  <1>3. QED
    BY <1>1, <1>2, FS_Subset, FS_CardinalityType

\* What pushes a save out pushes out those before it.
LEMMA PushedOutBefore ==
    ASSUME NEW l, NEW n \in Nat, NEW i \in 1 .. n, NEW m \in 1 .. n, i <= m, PushedOut(l, m, n)
    PROVE  PushedOut(l, i, n)
  <1>1. PICK k \in m .. n : Cardinality(Later(l, m, k)) >= MaxHistory
    BY DEF PushedOut, Later
  <1>2. Later(l, m, k) \in SUBSET Later(l, i, k)
    BY DEF Later
  <1>3. Cardinality(Later(l, m, k)) <= Cardinality(Later(l, i, k))
    BY <1>2, LaterFinite, FS_Subset
  <1>4. k \in i .. n /\ Cardinality(Later(l, i, k)) >= MaxHistory
    <2>1. Cardinality(Later(l, m, k)) \in Nat /\ Cardinality(Later(l, i, k)) \in Nat /\ MaxHistory \in Nat
      BY LaterFinite, BoundsAssumption
    <2>2. QED
      BY <1>1, <1>3, <2>1
  <1>5. QED
    BY <1>4 DEF PushedOut, Later

\* A save is pushed out after the event if it was before, or if now enough others count.
LEMMA PushedOutAfter ==
    ASSUME NEW l \in Seq(Event), NEW ev \in Event, NEW i \in 1 .. Len(l)
    PROVE  PushedOut(Append(l, ev), i, Len(l) + 1)
             <=> PushedOut(l, i, Len(l)) \/ Cardinality(Later(Append(l, ev), i, Len(l) + 1)) >= MaxHistory
  <1> DEFINE n == Len(l)
             r == Append(l, ev)
  <1>1. n \in Nat /\ i \in 1 .. n
    OBVIOUS
  <1>2. ASSUME NEW k \in i .. n PROVE Later(r, i, k) = Later(l, i, k)
    <2>1. \A m \in i + 1 .. k : m \in 1 .. n /\ k \in 1 .. n
      OBVIOUS
    <2>2. \A m \in i + 1 .. k : Alive(r, m, k) <=> Alive(l, m, k)
      BY <2>1, AliveBefore
    <2>3. QED
      BY <2>2 DEF Later
  <1> HIDE DEF n, r
  <1>3. PushedOut(r, i, n + 1) <=> \E k \in i .. n + 1 : Cardinality(Later(r, i, k)) >= MaxHistory
    BY DEF PushedOut, Later
  <1>4. PushedOut(l, i, n) <=> \E k \in i .. n : Cardinality(Later(l, i, k)) >= MaxHistory
    BY DEF PushedOut, Later
  <1>5. (\A k \in i .. n + 1 : k \in i .. n \/ k = n + 1) /\ (\A k \in i .. n : k \in i .. n + 1) /\ n + 1 \in i .. n + 1
    BY <1>1
  <1>6. PushedOut(r, i, n + 1) <=> PushedOut(l, i, n) \/ Cardinality(Later(r, i, n + 1)) >= MaxHistory
    BY <1>2, <1>3, <1>4, <1>5
  <1>7. QED
    BY <1>6 DEF n, r

------------------------------------------------------------------------------
(* The list follows what the tab did.                                       *)

\* No device is listed twice.
LEMMA TrackedOnce ==
    ASSUME NEW l, NEW h \in Seq(Entry), Tracked(l, h)
    PROVE  OnePerDevice(h)
  <1> SUFFICES ASSUME NEW x \in 1 .. Len(h), NEW y \in 1 .. Len(h), x # y
               PROVE  h[x].device # h[y].device
    BY DEF OnePerDevice
  <1>1. PICK p : Traces(p, l, h)
    BY DEF Tracked
  <1>2. /\ p[x] \in Remembered(l) /\ p[y] \in Remembered(l)
        /\ Saved(h[x]) = l[p[x]] /\ Saved(h[y]) = l[p[y]]
    BY <1>1 DEF Traces
  <1>3. Len(l) \in Nat
    BY DEF Tracked
  <1>4. p[x] # p[y]
    <2>1. p[x] \in 1 .. Len(l) /\ p[y] \in 1 .. Len(l) /\ (x < y \/ y < x)
      BY <1>1 DEF Traces
    <2>2. (x < y => p[x] > p[y]) /\ (y < x => p[y] > p[x])
      BY <1>1 DEF Traces
    <2>3. QED
      BY <1>3, <2>1, <2>2
  <1>5. /\ p[x] \in 1 .. Len(l) /\ Alive(l, p[x], Len(l))
        /\ p[y] \in 1 .. Len(l) /\ Alive(l, p[y], Len(l))
    BY <1>2 DEF Remembered
  <1>6. l[p[x]].device # l[p[y]].device
    BY <1>3, <1>4, <1>5, AliveDiffer
  <1>7. QED
    BY <1>2, <1>6 DEF Saved

\* What is traced is what ListIsWhatTheTabDid says: as many, and each in its place.
LEMMA TracedIsListed ==
    ASSUME NEW l, NEW h \in Seq(Entry), Tracked(l, h)
    PROVE  /\ Len(h) = Cardinality(Remembered(l))
           /\ \A i \in Remembered(l) :
                LET n == Cardinality({j \in Remembered(l) : j >= i})
                IN  Saved(h[n]) = l[i]
  <1> DEFINE r == Remembered(l)
             m == Len(h)
  <1>1. PICK p : Traces(p, l, h)
    BY DEF Tracked
  <1>2. m \in Nat /\ Len(l) \in Nat
    BY DEF Tracked
  <1>3. /\ p \in [1 .. m -> 1 .. Len(l)]
        /\ \A x, y \in 1 .. m : x < y => p[x] > p[y]
        /\ r = {p[x] : x \in 1 .. m}
        /\ \A x \in 1 .. m : Saved(h[x]) = l[p[x]]
    BY <1>1 DEF Traces
  <1> HIDE DEF m, r
  <1>4. \A x, y \in 1 .. m : x # y => p[x] # p[y]
    <2> SUFFICES ASSUME NEW x \in 1 .. m, NEW y \in 1 .. m, x # y PROVE p[x] # p[y]
      OBVIOUS
    <2>1. p[x] \in Int /\ p[y] \in Int /\ (x < y \/ y < x)
      BY <1>2, <1>3
    <2>2. (x < y => p[x] > p[y]) /\ (y < x => p[y] > p[x])
      BY <1>3
    <2>3. QED
      BY <2>1, <2>2
  <1>5. Cardinality(r) = m
    <2>1. m \in 0 .. m
      BY <1>2
    <2>2. QED
      BY <1>2, <1>3, <1>4, <2>1, FirstOfEnumeration
  <1>6. ASSUME NEW q \in 1 .. m PROVE Cardinality({j \in r : j >= p[q]}) = q
    <2>1. ASSUME NEW j \in r, j >= p[q] PROVE \E x \in 1 .. q : j = p[x]
      <3>1. PICK x \in 1 .. m : j = p[x]
        BY <1>3
      <3>2. p[x] \in Int /\ p[q] \in Int
        BY <1>3
      <3>3. ~(q < x)
        BY <1>3, <2>1, <3>1, <3>2
      <3>4. x \in 1 .. q
        BY <1>2, <3>3
      <3>5. QED
        BY <3>1, <3>4
    <2>2. ASSUME NEW x \in 1 .. q PROVE p[x] \in r /\ p[x] >= p[q]
      <3>1. x \in 1 .. m /\ (x < q \/ x = q)
        BY <1>2
      <3>2. p[x] \in Int /\ p[q] \in Int
        BY <1>3, <3>1
      <3>3. QED
        BY <1>3, <3>1, <3>2
    <2>3. {j \in r : j >= p[q]} = {p[x] : x \in 1 .. q}
      BY <2>1, <2>2
    <2>4. q \in 0 .. m
      BY <1>2
    <2>5. QED
      BY <1>2, <1>4, <2>3, <2>4, FirstOfEnumeration
  <1>7. ASSUME NEW i \in r PROVE Saved(h[Cardinality({j \in r : j >= i})]) = l[i]
    <2>1. PICK q \in 1 .. m : i = p[q]
      BY <1>3
    <2>2. QED
      BY <1>3, <1>6, <2>1
  <1>8. QED
    BY <1>5, <1>7 DEF m, r

\* A new tab has done nothing and lists nothing.
LEMMA EmptyTracked == Tracked(<<>>, <<>>)
  <1> DEFINE p == [x \in 1 .. 0 |-> x]
  <1>1. <<>> \in Seq(Event)
    OBVIOUS
  <1>2. Len(<<>>) = 0
    OBVIOUS
  <1>3. Remembered(<<>>) = {} /\ {p[x] : x \in 1 .. 0} = {}
    BY <1>2 DEF Remembered
  <1>4. Traces(p, <<>>, <<>>)
    BY <1>2, <1>3 DEF Traces
  <1>5. QED
    BY <1>1, <1>4 DEF Tracked

\* The remembered saves of the other devices, and the list without the device.
OthersTraced(g, m, l, h, d) ==
    /\ g \in [1 .. m -> 1 .. Len(l)]
    /\ \A x, y \in 1 .. m : x < y => g[x] > g[y]
    /\ \A x \in 1 .. m : g[x] \in Remembered(l) /\ l[g[x]].device # d
    /\ \A i \in Remembered(l) : l[i].device # d => \E x \in 1 .. m : i = g[x]
    /\ Without(h, d) \in Seq(Entry) /\ Len(Without(h, d)) = m
    /\ \A x \in 1 .. m : Saved(Without(h, d)[x]) = l[g[x]]

\* They are traced, at most as many as were listed.
LEMMA OthersAreTraced ==
    ASSUME NEW l, NEW h \in Seq(Entry), Tracked(l, h), NEW d
    PROVE  \E m \in 0 .. Len(h) : \E g : OthersTraced(g, m, l, h, d)
  <1> DEFINE n == Len(h)
             W == Without(h, d)
  <1>1. PICK p : Traces(p, l, h)
    BY DEF Tracked
  <1>2. n \in Nat /\ Len(l) \in Nat /\ \A x \in 1 .. n : h[x] \in Entry
    BY DEF Tracked
  <1>3. /\ p \in [1 .. n -> 1 .. Len(l)]
        /\ \A x, y \in 1 .. n : x < y => p[x] > p[y]
        /\ Remembered(l) = {p[x] : x \in 1 .. n}
        /\ \A x \in 1 .. n : Saved(h[x]) = l[p[x]]
    BY <1>1 DEF Traces
  <1>o. OnePerDevice(h)
    BY TrackedOnce
  <1>w. \E m \in 0 .. Len(h) : \E f : PicksOthers(f, m, h, d) /\ Without(h, d) = [x \in 1 .. m |-> h[f[x]]]
    BY <1>o, <1>2, WithoutPicks
  <1>4. PICK m \in 0 .. n : \E f : PicksOthers(f, m, h, d) /\ W = [x \in 1 .. m |-> h[f[x]]]
    BY <1>w
  <1>5. PICK f : PicksOthers(f, m, h, d) /\ W = [x \in 1 .. m |-> h[f[x]]]
    BY <1>4
  <1>6. /\ f \in [1 .. m -> 1 .. n]
        /\ \A x, y \in 1 .. m : x < y => f[x] < f[y]
        /\ \A x \in 1 .. m : h[f[x]].device # d
        /\ \A i \in 1 .. n : h[i].device # d => \E x \in 1 .. m : i = f[x]
    BY <1>5 DEF PicksOthers
  <1> DEFINE g == [x \in 1 .. m |-> p[f[x]]]
  <1> HIDE DEF n, W
  <1>7. g \in [1 .. m -> 1 .. Len(l)]
    BY <1>3, <1>6
  <1>8. \A x, y \in 1 .. m : x < y => g[x] > g[y]
    BY <1>3, <1>6
  <1>9. \A x \in 1 .. n : l[p[x]].device = h[x].device
    <2>1. \A x \in 1 .. n : Saved(h[x]).device = h[x].device
      BY DEF Saved
    <2>2. QED
      BY <1>3, <2>1
  <1>10. \A x \in 1 .. m : g[x] \in Remembered(l) /\ l[g[x]].device # d
    BY <1>3, <1>6, <1>9
  <1>11. ASSUME NEW i \in Remembered(l), l[i].device # d PROVE \E x \in 1 .. m : i = g[x]
    <2>1. PICK y \in 1 .. n : i = p[y]
      BY <1>3
    <2>2. PICK x \in 1 .. m : y = f[x]
      BY <1>6, <1>9, <1>11, <2>1
    <2>3. QED
      BY <2>1, <2>2
  <1>12. m \in Nat /\ W \in [1 .. m -> Entry]
    BY <1>2, <1>5, <1>6
  <1>13. W \in Seq(Entry) /\ Len(W) = m
    BY <1>12
  <1>14. \A x \in 1 .. m : Saved(W[x]) = l[g[x]]
    BY <1>3, <1>5, <1>6
  <1> HIDE DEF g
  <1>15. OthersTraced(g, m, l, h, d)
    BY <1>7, <1>8, <1>10, <1>11, <1>13, <1>14 DEF OthersTraced, W
  <1>16. QED
    BY <1>15 DEF n

\* A removal: nothing is pushed out by it.
LEMMA RemoveTracked ==
    ASSUME NEW l, NEW h \in Seq(Entry), Tracked(l, h), NEW d \in Devices
    PROVE  Tracked(Append(l, Removed(d)), Without(h, d))
  <1> DEFINE n == Len(l)
             r == Append(l, Removed(d))
             W == Without(h, d)
  <1>1. l \in Seq(Event) /\ n \in Nat
    BY DEF Tracked
  <1>2. Removed(d) \in Event /\ Removed(d).op = "remove" /\ Removed(d).device = d
    BY DEF Removed, Event
  <1>3. r \in Seq(Event) /\ Len(r) = n + 1 /\ r[n + 1] = Removed(d) /\ \A i \in 1 .. n : r[i] = l[i]
    BY <1>1, <1>2
  <1>4. PICK m \in 0 .. Len(h) : \E g : OthersTraced(g, m, l, h, d)
    BY OthersAreTraced
  <1>5. PICK g : OthersTraced(g, m, l, h, d)
    BY <1>4
  <1>6. ASSUME NEW i \in 1 .. n, Alive(l, i, n), ~ PushedOut(l, i, n)
        PROVE  ~ (Cardinality(Later(r, i, n + 1)) >= MaxHistory)
    <2>1. ASSUME NEW j \in Later(r, i, n + 1) PROVE j \in Later(l, i, n)
      <3>1. j \in i + 1 .. n + 1 /\ Alive(r, j, n + 1)
        BY <2>1 DEF Later
      <3>2. j # n + 1
        BY <1>2, <1>3, <3>1 DEF Alive
      <3>3. j \in 1 .. n /\ j \in i + 1 .. n
        BY <1>1, <3>1, <3>2
      <3>4. Alive(l, j, n)
        BY <1>1, <1>2, <3>1, <3>3, AliveAfter
      <3>5. QED
        BY <3>3, <3>4 DEF Later
    <2>2. Later(r, i, n + 1) \in SUBSET Later(l, i, n)
      BY <2>1
    <2>3. IsFiniteSet(Later(l, i, n)) /\ Cardinality(Later(l, i, n)) \in Nat
          /\ Cardinality(Later(r, i, n + 1)) \in Nat
      BY <1>1, LaterFinite
    <2>4. Cardinality(Later(r, i, n + 1)) <= Cardinality(Later(l, i, n))
      BY <2>2, <2>3, FS_Subset
    <2>5. ~ (Cardinality(Later(l, i, n)) >= MaxHistory)
      <3>1. n \in i .. n
        BY <1>1
      <3>2. QED
        BY <1>6, <3>1 DEF PushedOut, Later
    <2>6. QED
      BY <2>3, <2>4, <2>5, BoundsAssumption
  <1>7. ASSUME NEW i \in 1 .. n
        PROVE  i \in Remembered(r) <=> i \in Remembered(l) /\ l[i].device # d
    <2>1. i \in Remembered(r) <=> Alive(r, i, n + 1) /\ ~ PushedOut(r, i, n + 1)
      BY <1>1, <1>3 DEF Remembered
    <2>2. i \in Remembered(l) <=> Alive(l, i, n) /\ ~ PushedOut(l, i, n)
      BY DEF Remembered
    <2>3. Alive(r, i, n + 1) <=> Alive(l, i, n) /\ l[i].device # d
      BY <1>1, <1>2, AliveAfter
    <2>4. PushedOut(r, i, n + 1)
            <=> PushedOut(l, i, n) \/ Cardinality(Later(r, i, n + 1)) >= MaxHistory
      BY <1>1, <1>2, PushedOutAfter
    <2>5. QED
      BY <1>6, <2>1, <2>2, <2>3, <2>4
  <1>8. n + 1 \notin Remembered(r)
    BY <1>2, <1>3 DEF Remembered, Alive
  <1>9. Remembered(r) \subseteq 1 .. n
    BY <1>1, <1>3, <1>8 DEF Remembered
  <1>10. Remembered(l) \subseteq 1 .. n
    BY DEF Remembered
  <1>m. m \in Nat
    OBVIOUS
  <1> HIDE DEF n, r, W
  <1>11. /\ g \in [1 .. m -> 1 .. n]
         /\ \A x, y \in 1 .. m : x < y => g[x] > g[y]
         /\ \A x \in 1 .. m : g[x] \in Remembered(l) /\ l[g[x]].device # d
         /\ \A i \in Remembered(l) : l[i].device # d => \E x \in 1 .. m : i = g[x]
         /\ Len(W) = m
         /\ \A x \in 1 .. m : Saved(W[x]) = l[g[x]]
    BY <1>5 DEF OthersTraced, n, W
  <1>12. Remembered(r) = {g[x] : x \in 1 .. m}
    BY <1>7, <1>9, <1>10, <1>11
  <1>13. \A x \in 1 .. m : Saved(W[x]) = r[g[x]]
    BY <1>3, <1>11
  <1>14. g \in [1 .. m -> 1 .. n + 1]
    BY <1>1, <1>11
  <1>15. Traces(g, r, W)
    BY <1>3, <1>11, <1>12, <1>13, <1>14 DEF Traces
  <1>16. QED
    BY <1>3, <1>15 DEF Tracked, r, W

\* saveHistory puts the entry first, the others behind it, and cuts the end.
LEMMA SavedList ==
    ASSUME NEW h, NEW e \in Entry, NEW m \in Nat, Without(h, e.device) \in Seq(Entry),
           Len(Without(h, e.device)) = m
    PROVE  \E c \in 1 .. MaxHistory :
             /\ c <= m + 1 /\ (c < MaxHistory => c = m + 1)
             /\ SaveHistory(h, e) \in Seq(Entry) /\ Len(SaveHistory(h, e)) = c
             /\ SaveHistory(h, e)[1] = e
             /\ \A x \in 1 .. c : x # 1 => SaveHistory(h, e)[x] = Without(h, e.device)[x - 1]
  <1> DEFINE W == Without(h, e.device)
             u == <<e>> \o W
             c == IF Len(u) > MaxHistory THEN MaxHistory ELSE Len(u)
             S == SubSeq(u, 1, c)
  <1>1. SaveHistory(h, e) = S
    BY DEF SaveHistory
  <1> HIDE DEF W
  <1>2. W \in Seq(Entry) /\ Len(W) = m
    BY DEF W
  <1>3. u \in Seq(Entry) /\ Len(u) = m + 1 /\ u[1] = e /\ \A x \in 2 .. m + 1 : u[x] = W[x - 1]
    BY <1>2
  <1> HIDE DEF u
  <1>4. c \in 1 .. MaxHistory /\ c <= m + 1 /\ (c < MaxHistory => c = m + 1)
    BY <1>3, BoundsAssumption
  <1> HIDE DEF c
  <1>5. c \in Nat /\ \A x \in 1 .. c : x \in 1 .. Len(u)
    BY <1>3, <1>4, BoundsAssumption
  <1>6. S \in Seq(Entry) /\ Len(S) = c /\ \A x \in 1 .. c : S[x] = u[x]
    BY <1>3, <1>5, SubSeqProperties
  <1> HIDE DEF S
  <1>7. S[1] = e
    BY <1>3, <1>4, <1>6, BoundsAssumption
  <1>8. ASSUME NEW x \in 1 .. c, x # 1 PROVE S[x] = W[x - 1]
    <2>1. x \in 2 .. m + 1
      BY <1>4, <1>5, <1>8
    <2>2. QED
      BY <1>3, <1>6, <2>1
  <1>9. QED
    BY <1>1, <1>4, <1>6, <1>7, <1>8 DEF W

\* The saves that count after the x-th remembered one, once e is saved, are e's and
\* the x - 1 others before it in the list.
LEMMA LaterAfterSave ==
    ASSUME NEW l \in Seq(Event), NEW h, NEW e \in Entry, NEW m \in Nat, NEW g,
           OthersTraced(g, m, l, h, e.device), NEW x \in 1 .. m
    PROVE  Cardinality(Later(Append(l, Saved(e)), g[x], Len(l) + 1)) = x
  <1> DEFINE n == Len(l)
             r == Append(l, Saved(e))
             q == [y \in 1 .. m + 1 |-> IF y = 1 THEN n + 1 ELSE g[y - 1]]
             T == Later(r, g[x], n + 1)
  <1>1. n \in Nat /\ \A i \in 1 .. n : l[i] \in Event
    OBVIOUS
  <1>2. Saved(e) \in Event /\ Saved(e).op = "save" /\ Saved(e).device = e.device
    BY DEF Saved, Event, Entry
  <1>3. r \in Seq(Event) /\ Len(r) = n + 1 /\ r[n + 1] = Saved(e) /\ \A i \in 1 .. n : r[i] = l[i]
    BY <1>1, <1>2
  <1>4. \A i \in 1 .. n : Alive(r, i, n + 1) <=> Alive(l, i, n) /\ e.device # l[i].device
    BY <1>2, AliveAfter
  <1>5. /\ g \in [1 .. m -> 1 .. n]
        /\ \A y, z \in 1 .. m : y < z => g[y] > g[z]
        /\ \A y \in 1 .. m : g[y] \in Remembered(l) /\ l[g[y]].device # e.device
        /\ \A i \in Remembered(l) : l[i].device # e.device => \E y \in 1 .. m : i = g[y]
    BY DEF OthersTraced
  <1>6. \A i \in 1 .. n : i \in Remembered(l) <=> Alive(l, i, n) /\ ~ PushedOut(l, i, n)
    BY DEF Remembered
  <1> HIDE DEF n, r
  <1>7. Alive(r, n + 1, n + 1)
    <2>1. n + 1 <= n + 1 /\ \A k \in n + 1 + 1 .. n + 1 : FALSE
      BY <1>1
    <2>2. QED
      BY <1>2, <1>3, <2>1 DEF Alive
  <1>8. \A y \in 1 .. m + 1 : y = 1 \/ y - 1 \in 1 .. m
    OBVIOUS
  <1>9. \A y, z \in 1 .. m + 1 : y < z => q[y] > q[z]
    <2> SUFFICES ASSUME NEW y \in 1 .. m + 1, NEW z \in 1 .. m + 1, y < z PROVE q[y] > q[z]
      OBVIOUS
    <2>1. z - 1 \in 1 .. m /\ q[z] = g[z - 1] /\ q[z] \in 1 .. n
      BY <1>5
    <2>2. CASE y = 1
      BY <1>1, <2>1, <2>2
    <2>3. CASE y # 1
      <3>1. y - 1 \in 1 .. m /\ q[y] = g[y - 1] /\ y - 1 < z - 1
        BY <2>3
      <3>2. QED
        BY <1>5, <2>1, <3>1
    <2>4. QED
      BY <2>2, <2>3
  <1>10. \A y \in 1 .. m + 1 : q[y] \in 1 .. n + 1
    BY <1>1, <1>5, <1>8
  <1>11. \A y, z \in 1 .. m + 1 : y # z => q[y] # q[z]
    <2> SUFFICES ASSUME NEW y \in 1 .. m + 1, NEW z \in 1 .. m + 1, y # z PROVE q[y] # q[z]
      OBVIOUS
    <2>1. q[y] \in Int /\ q[z] \in Int /\ (y < z \/ z < y)
      BY <1>10
    <2>2. (y < z => q[y] > q[z]) /\ (z < y => q[z] > q[y])
      BY <1>9
    <2>3. QED
      BY <2>1, <2>2
  <1>12. q[1] = n + 1 /\ \A y \in 1 .. m : y + 1 \in 1 .. m + 1 /\ q[y + 1] = g[y]
    OBVIOUS
  <1>13. g[x] \in 1 .. n /\ g[x] \in Remembered(l) /\ g[x] \in Int
    BY <1>5
  <1> HIDE DEF q
  <1>14. ASSUME NEW y \in 1 .. x PROVE q[y] \in T
    <2>1. q[x + 1] = g[x] /\ x + 1 \in 1 .. m + 1 /\ y \in 1 .. m + 1 /\ y < x + 1
      BY <1>12
    <2>2. q[y] > g[x] /\ q[y] \in 1 .. n + 1
      BY <1>9, <1>10, <2>1
    <2>3. q[y] \in g[x] + 1 .. n + 1
      BY <1>1, <1>13, <2>2
    <2>4. CASE y = 1
      BY <1>7, <1>12, <2>3, <2>4 DEF Later
    <2>5. CASE y # 1
      <3>1. y - 1 \in 1 .. m /\ (y - 1) + 1 = y
        BY <2>5
      <3>2. q[y] = g[y - 1]
        BY <1>12, <3>1
      <3>3. q[y] \in 1 .. n /\ q[y] \in Remembered(l) /\ l[q[y]].device # e.device
        BY <1>5, <3>1, <3>2
      <3>4. Alive(r, q[y], n + 1)
        BY <1>4, <1>6, <3>3
      <3>5. QED
        BY <2>3, <3>4 DEF Later
    <2>6. QED
      BY <2>4, <2>5
  <1>15. ASSUME NEW j \in T PROVE \E y \in 1 .. x : j = q[y]
    <2>1. j \in g[x] + 1 .. n + 1 /\ Alive(r, j, n + 1)
      BY DEF Later
    <2>2. CASE j = n + 1
      BY <1>12, <2>2
    <2>3. CASE j # n + 1
      <3>1. j \in 1 .. n /\ g[x] <= j /\ g[x] < j
        BY <1>1, <1>13, <2>1, <2>3
      <3>2. Alive(l, j, n) /\ l[j].device # e.device
        BY <1>4, <2>1, <3>1
      <3>3. ~ PushedOut(l, j, n)
        BY <1>1, <1>6, <1>13, <3>1, PushedOutBefore
      <3>4. j \in Remembered(l)
        BY <1>6, <3>1, <3>2, <3>3
      <3>5. PICK y \in 1 .. m : j = g[y]
        BY <1>5, <3>2, <3>4
      <3>6. ~ (x < y) /\ x # y
        BY <1>5, <1>13, <3>1, <3>5
      <3>7. y + 1 \in 1 .. x /\ j = q[y + 1]
        BY <1>12, <3>5, <3>6
      <3>8. QED
        BY <3>7
    <2>4. QED
      BY <2>2, <2>3
  <1>16. T = {q[y] : y \in 1 .. x}
    BY <1>14, <1>15
  <1>17. m + 1 \in Nat /\ x \in 0 .. m + 1
    OBVIOUS
  <1>18. Cardinality(T) = x
    BY <1>11, <1>16, <1>17, FirstOfEnumeration
  <1>19. QED
    BY <1>18 DEF n, r

\* A connection: what saveHistory cuts off is what the new save pushes out.
LEMMA SaveTracked ==
    ASSUME NEW l, NEW h \in Seq(Entry), Tracked(l, h), NEW e \in Entry
    PROVE  Tracked(Append(l, Saved(e)), SaveHistory(h, e))
  <1> DEFINE n == Len(l)
             r == Append(l, Saved(e))
             W == Without(h, e.device)
             S == SaveHistory(h, e)
  <1>1. l \in Seq(Event) /\ n \in Nat
    BY DEF Tracked
  <1>2. Saved(e) \in Event /\ Saved(e).op = "save" /\ Saved(e).device = e.device
    BY DEF Saved, Event, Entry
  <1>3. r \in Seq(Event) /\ Len(r) = n + 1 /\ r[n + 1] = Saved(e) /\ \A i \in 1 .. n : r[i] = l[i]
    BY <1>1, <1>2
  <1>4. PICK m \in 0 .. Len(h) : \E g : OthersTraced(g, m, l, h, e.device)
    BY OthersAreTraced
  <1>5. PICK g : OthersTraced(g, m, l, h, e.device)
    BY <1>4
  <1>6. m \in Nat /\ MaxHistory \in Nat
    BY BoundsAssumption
  <1>7. \A x \in 1 .. m : Cardinality(Later(r, g[x], n + 1)) = x
    BY <1>1, <1>5, <1>6, LaterAfterSave
  <1>8. /\ g \in [1 .. m -> 1 .. n]
        /\ \A x, y \in 1 .. m : x < y => g[x] > g[y]
        /\ \A x \in 1 .. m : g[x] \in Remembered(l) /\ l[g[x]].device # e.device
        /\ \A i \in Remembered(l) : l[i].device # e.device => \E x \in 1 .. m : i = g[x]
        /\ W \in Seq(Entry) /\ Len(W) = m
        /\ \A x \in 1 .. m : Saved(W[x]) = l[g[x]]
    BY <1>5 DEF OthersTraced
  <1>9. PICK c \in 1 .. MaxHistory :
             /\ c <= m + 1 /\ (c < MaxHistory => c = m + 1)
             /\ S \in Seq(Entry) /\ Len(S) = c
             /\ S[1] = e
             /\ \A x \in 1 .. c : x # 1 => S[x] = W[x - 1]
    <2>1. Without(h, e.device) \in Seq(Entry) /\ Len(Without(h, e.device)) = m
      BY <1>8
    <2>2. \E c \in 1 .. MaxHistory :
             /\ c <= m + 1 /\ (c < MaxHistory => c = m + 1)
             /\ SaveHistory(h, e) \in Seq(Entry) /\ Len(SaveHistory(h, e)) = c
             /\ SaveHistory(h, e)[1] = e
             /\ \A x \in 1 .. c : x # 1 => SaveHistory(h, e)[x] = Without(h, e.device)[x - 1]
      BY <1>6, <2>1, SavedList
    <2>3. QED
      BY <2>2
  <1>10. \A i \in 1 .. n : i \in Remembered(l) <=> Alive(l, i, n) /\ ~ PushedOut(l, i, n)
    BY DEF Remembered
  <1>11. \A i \in 1 .. n + 1 : i \in Remembered(r) <=> Alive(r, i, n + 1) /\ ~ PushedOut(r, i, n + 1)
    BY <1>1, <1>3 DEF Remembered
  <1>12. Remembered(r) \subseteq 1 .. n + 1
    BY <1>3 DEF Remembered
  <1>13. \A i \in 1 .. n : Alive(r, i, n + 1) <=> Alive(l, i, n) /\ e.device # l[i].device
    BY <1>1, <1>2, AliveAfter
  <1>14. \A i \in 1 .. n : PushedOut(r, i, n + 1)
            <=> PushedOut(l, i, n) \/ Cardinality(Later(r, i, n + 1)) >= MaxHistory
    BY <1>1, <1>2, PushedOutAfter
  <1> HIDE DEF n, r, W, S
  <1>15. n + 1 \in Remembered(r)
    <2>1. Alive(r, n + 1, n + 1)
      <3>1. n + 1 <= n + 1 /\ \A k \in n + 1 + 1 .. n + 1 : FALSE
        BY <1>1
      <3>2. QED
        BY <1>2, <1>3, <3>1 DEF Alive
    <2>2. ASSUME NEW k \in n + 1 .. n + 1 PROVE ~ (Cardinality(Later(r, n + 1, k)) >= MaxHistory)
      <3>1. n + 1 + 1 .. k = {}
        BY <1>1
      <3>2. Later(r, n + 1, k) = {}
        BY <3>1 DEF Later
      <3>3. Cardinality(Later(r, n + 1, k)) = 0
        BY <3>2, FS_EmptySet
      <3>4. QED
        BY <3>3, BoundsAssumption
    <2>3. ~ PushedOut(r, n + 1, n + 1)
      BY <2>2 DEF PushedOut, Later
    <2>4. QED
      BY <1>1, <1>11, <2>1, <2>3
  <1>16. \A x \in 1 .. m : g[x] \in Remembered(r) <=> x < MaxHistory
    <2> SUFFICES ASSUME NEW x \in 1 .. m PROVE g[x] \in Remembered(r) <=> x < MaxHistory
      OBVIOUS
    <2>1. g[x] \in 1 .. n /\ g[x] \in 1 .. n + 1 /\ g[x] \in Remembered(l) /\ l[g[x]].device # e.device
      BY <1>1, <1>8
    <2>2. x \in Nat /\ (x < MaxHistory <=> ~ (x >= MaxHistory))
      BY <1>6
    <2>3. Alive(r, g[x], n + 1)
      BY <1>10, <1>13, <2>1
    <2>4. ~ PushedOut(l, g[x], n)
      BY <1>10, <2>1
    <2>5. PushedOut(r, g[x], n + 1) <=> x >= MaxHistory
      BY <1>7, <1>14, <2>1, <2>4
    <2>6. QED
      BY <1>11, <2>1, <2>2, <2>3, <2>5
  <1> DEFINE q == [x \in 1 .. c |-> IF x = 1 THEN n + 1 ELSE g[x - 1]]
  <1>17. c \in Nat /\ 1 \in 1 .. c /\ q[1] = n + 1
    BY <1>6
  <1>18. \A x \in 1 .. c : x # 1 => x - 1 \in 1 .. m /\ x - 1 < MaxHistory /\ q[x] = g[x - 1]
    BY <1>6, <1>9
  <1> HIDE DEF q
  <1>19. ASSUME NEW x \in 1 .. c
         PROVE  q[x] \in 1 .. n + 1 /\ q[x] \in Remembered(r) /\ Saved(S[x]) = r[q[x]]
    <2>1. CASE x = 1
      BY <1>1, <1>3, <1>9, <1>15, <1>17, <2>1
    <2>2. CASE x # 1
      <3>1. x - 1 \in 1 .. m /\ x - 1 < MaxHistory /\ q[x] = g[x - 1]
        BY <1>18, <2>2
      <3>2. q[x] \in 1 .. n /\ q[x] \in Remembered(r)
        BY <1>8, <1>16, <3>1
      <3>3. Saved(S[x]) = l[q[x]]
        BY <1>8, <1>9, <2>2, <3>1
      <3>4. QED
        BY <1>1, <1>3, <3>2, <3>3
    <2>3. QED
      BY <2>1, <2>2
  <1>20. \A x, y \in 1 .. c : x < y => q[x] > q[y]
    <2> SUFFICES ASSUME NEW x \in 1 .. c, NEW y \in 1 .. c, x < y PROVE q[x] > q[y]
      OBVIOUS
    <2>0. x \in Int /\ y \in Int /\ 1 <= x
      OBVIOUS
    <2>1. y - 1 \in 1 .. m /\ q[y] = g[y - 1] /\ q[y] \in 1 .. n
      BY <1>8, <1>18, <2>0
    <2>2. CASE x = 1
      BY <1>1, <1>17, <2>1, <2>2
    <2>3. CASE x # 1
      <3>1. x - 1 \in 1 .. m /\ q[x] = g[x - 1] /\ x - 1 < y - 1
        BY <1>18, <2>0, <2>3
      <3>2. QED
        BY <1>8, <2>1, <3>1
    <2>4. QED
      BY <2>2, <2>3
  <1>21. ASSUME NEW i \in Remembered(r) PROVE \E x \in 1 .. c : i = q[x]
    <2>1. CASE i = n + 1
      BY <1>17, <2>1
    <2>2. CASE i # n + 1
      <3>1. i \in 1 .. n /\ i \in 1 .. n + 1
        BY <1>1, <1>12, <2>2
      <3>2. i \in Remembered(l) /\ l[i].device # e.device
        BY <1>10, <1>11, <1>13, <1>14, <3>1
      <3>3. PICK x \in 1 .. m : i = g[x]
        BY <1>8, <3>2
      <3>4. x < MaxHistory
        BY <1>16, <3>3
      <3>5. x + 1 \in 1 .. c /\ x + 1 # 1 /\ (x + 1) - 1 = x
        BY <1>6, <1>9, <1>17, <3>4
      <3>6. i = q[x + 1]
        BY <1>18, <3>3, <3>5
      <3>7. QED
        BY <3>5, <3>6
    <2>3. QED
      BY <2>1, <2>2
  <1>22. Remembered(r) = {q[x] : x \in 1 .. c}
    BY <1>19, <1>21
  <1>23. q \in [1 .. c -> 1 .. n + 1]
    <2>1. q = [x \in 1 .. c |-> q[x]]
      BY DEF q
    <2>2. QED
      BY <1>19, <2>1
  <1>24. Traces(q, r, S)
    BY <1>3, <1>9, <1>19, <1>20, <1>22, <1>23 DEF Traces
  <1>25. QED
    BY <1>3, <1>24 DEF Tracked, r, S

\* A list read from localStorage is what saving its entries, oldest first, leaves.
LEMMA RebuildTracked ==
    ASSUME NEW h \in Seq(Entry), OnePerDevice(h), Len(h) <= MaxHistory
    PROVE  Tracked(Rebuild(h), h)
  <1> DEFINE n == Len(h)
             r == Rebuild(h)
             p == [x \in 1 .. n |-> n + 1 - x]
  <1>1. n \in Nat /\ n <= MaxHistory /\ MaxHistory \in Nat /\ \A x \in 1 .. n : h[x] \in Entry
    BY BoundsAssumption
  <1>2. r = [i \in 1 .. n |-> Saved(h[n + 1 - i])]
    BY DEF Rebuild
  <1>3. \A x, y \in 1 .. n : x # y => h[x].device # h[y].device
    BY DEF OnePerDevice
  <1> HIDE DEF n, r
  <1>4. \A i \in 1 .. n : n + 1 - i \in 1 .. n /\ n + 1 - (n + 1 - i) = i
    BY <1>1
  <1>5. \A x \in 1 .. n : Saved(h[x]) \in Event /\ Saved(h[x]).op = "save" /\ Saved(h[x]).device = h[x].device
    BY <1>1 DEF Saved, Event, Entry
  <1>6. r \in Seq(Event) /\ Len(r) = n
    <2>1. r \in [1 .. n -> Event]
      BY <1>2, <1>4, <1>5
    <2>2. QED
      BY <1>1, <2>1
  <1>7. \A i \in 1 .. n : r[i].op = "save" /\ r[i].device = h[n + 1 - i].device
    BY <1>2, <1>4, <1>5
  <1>8. ASSUME NEW i \in 1 .. n PROVE Alive(r, i, n)
    <2>1. ASSUME NEW k \in i + 1 .. n PROVE r[k].device # r[i].device
      <3>1. k \in 1 .. n /\ n + 1 - k # n + 1 - i
        BY <1>1
      <3>2. QED
        BY <1>3, <1>4, <1>7, <3>1
    <2>2. i <= n
      OBVIOUS
    <2>3. QED
      BY <1>7, <2>1, <2>2 DEF Alive
  <1>9. ASSUME NEW i \in 1 .. n, NEW k \in i .. n PROVE ~ (Cardinality(Later(r, i, k)) >= MaxHistory)
    <2>1. IsFiniteSet(i + 1 .. k) /\ Cardinality(i + 1 .. k) = k - i
      <3>1. i + 1 \in Int /\ k \in Int /\ (i + 1 <= k \/ k = i)
        BY <1>1
      <3>2. IsFiniteSet(i + 1 .. k) /\ Cardinality(i + 1 .. k) = IF i + 1 > k THEN 0 ELSE k - (i + 1) + 1
        BY <3>1, FS_Interval
      <3>3. QED
        BY <3>1, <3>2
    <2>2. Later(r, i, k) \in SUBSET (i + 1 .. k)
      BY DEF Later
    <2>3. Cardinality(Later(r, i, k)) <= k - i
      BY <2>1, <2>2, FS_Subset
    <2>4. Cardinality(Later(r, i, k)) \in Nat
      BY LaterFinite
    <2>5. k - i < MaxHistory /\ k - i \in Int
      BY <1>1
    <2>6. QED
      BY <1>1, <2>3, <2>4, <2>5
  <1>10. Remembered(r) = 1 .. n
    <2>1. \A i \in 1 .. n : ~ PushedOut(r, i, n)
      BY <1>9 DEF PushedOut, Later
    <2>2. QED
      BY <1>6, <1>8, <2>1 DEF Remembered
  <1>11. p \in [1 .. n -> 1 .. n] /\ \A i \in 1 .. n : p[i] \in 1 .. n /\ p[p[i]] = i
    BY <1>4
  <1>12. \A x, y \in 1 .. n : x < y => p[x] > p[y]
    BY <1>1
  <1>13. \A x \in 1 .. n : Saved(h[x]) = r[p[x]]
    BY <1>2, <1>4
  <1> HIDE DEF p
  <1>14. Remembered(r) = {p[x] : x \in 1 .. n}
    BY <1>10, <1>11
  <1>15. Traces(p, r, h)
    BY <1>6, <1>11, <1>12, <1>13, <1>14 DEF Traces, n
  <1>16. QED
    BY <1>6, <1>15 DEF Tracked, r

------------------------------------------------------------------------------
(* The lists in memory and in localStorage.                                 *)

\* A list is a sequence of at most MaxHistory entries.
LEMMA ListsAreSequences ==
    ASSUME NEW h PROVE h \in Lists <=> h \in Seq(Entry) /\ Len(h) <= MaxHistory
  <1>1. ASSUME h \in Lists PROVE h \in Seq(Entry) /\ Len(h) <= MaxHistory
    <2>1. PICK n \in 0 .. MaxHistory : h \in [1 .. n -> Entry]
      BY <1>1 DEF Lists
    <2>2. n \in Nat /\ n <= MaxHistory
      OBVIOUS
    <2>3. h \in Seq(Entry) /\ Len(h) = n
      BY <2>1, <2>2
    <2>4. QED
      BY <2>2, <2>3
  <1>2. ASSUME h \in Seq(Entry), Len(h) <= MaxHistory PROVE h \in Lists
    <2>1. Len(h) \in 0 .. MaxHistory /\ h \in [1 .. Len(h) -> Entry]
      BY <1>2, BoundsAssumption
    <2>2. QED
      BY <2>1 DEF Lists
  <1>3. QED
    BY <1>1, <1>2

\* A removal leaves a list, and it is what the tab did.
LEMMA RemovedList ==
    ASSUME NEW l, NEW h \in Lists, Tracked(l, h), NEW d \in Devices
    PROVE  Without(h, d) \in Lists /\ Tracked(Append(l, Removed(d)), Without(h, d))
  <1>1. h \in Seq(Entry) /\ Len(h) <= MaxHistory
    BY ListsAreSequences
  <1>2. PICK m \in 0 .. Len(h) : \E g : OthersTraced(g, m, l, h, d)
    BY <1>1, OthersAreTraced
  <1>3. Without(h, d) \in Seq(Entry) /\ Len(Without(h, d)) = m
    BY <1>2 DEF OthersTraced
  <1>4. m <= MaxHistory
    BY <1>1, BoundsAssumption
  <1>5. Without(h, d) \in Lists
    BY <1>3, <1>4, ListsAreSequences
  <1>6. QED
    BY <1>1, <1>5, RemoveTracked

\* A connection leaves a list with its device in front, and it is what the tab did.
LEMMA ConnectedList ==
    ASSUME NEW l, NEW h \in Lists, Tracked(l, h), NEW e \in Entry
    PROVE  /\ SaveHistory(h, e) \in Lists /\ Tracked(Append(l, Saved(e)), SaveHistory(h, e))
           /\ SaveHistory(h, e) # <<>> /\ SaveHistory(h, e)[1] = e
  <1>1. h \in Seq(Entry)
    BY ListsAreSequences
  <1>2. PICK m \in 0 .. Len(h) : \E g : OthersTraced(g, m, l, h, e.device)
    BY <1>1, OthersAreTraced
  <1>3. Without(h, e.device) \in Seq(Entry) /\ Len(Without(h, e.device)) = m /\ m \in Nat
    BY <1>1, <1>2 DEF OthersTraced
  <1>4. PICK c \in 1 .. MaxHistory :
          /\ SaveHistory(h, e) \in Seq(Entry) /\ Len(SaveHistory(h, e)) = c
          /\ SaveHistory(h, e)[1] = e
    BY <1>3, SavedList
  <1>5. c <= MaxHistory /\ c # 0
    OBVIOUS
  <1>6. SaveHistory(h, e) \in Lists
    BY <1>4, <1>5, ListsAreSequences
  <1>7. SaveHistory(h, e) # <<>>
    BY <1>4, <1>5
  <1>8. QED
    BY <1>1, <1>4, <1>6, <1>7, SaveTracked

------------------------------------------------------------------------------
(* The invariant.                                                           *)

ListsFollow == \A t \in Tabs : Tracked(log[t], history[t])
LogTyped == DOMAIN log = Tabs /\ log = [t \in Tabs |-> log[t]]

HistoryInv == TypeOK /\ LogTyped /\ StoreIsOneList /\ ShownDeviceIsListed /\ ListsFollow

\* Writing a list that follows keeps the lists right.
LEMMA WriteFollows ==
    ASSUME TypeOK, LogTyped, ListsFollow, NEW t \in Tabs, NEW l \in Lists, NEW event,
           Tracked(Append(log[t], event), l), Write(t, l, event)
    PROVE  /\ store' \in Lists /\ history' \in [Tabs -> Lists] /\ writes' \in 0 .. MaxWrites
           /\ history'[t] = l /\ \A u \in Tabs : u # t => history'[u] = history[u]
           /\ LogTyped' /\ StoreIsOneList' /\ ListsFollow'
  <1>1. history \in [Tabs -> Lists] /\ writes \in 0 .. MaxWrites
    BY DEF TypeOK
  <1>2. /\ history' = [history EXCEPT ![t] = l] /\ store' = l
        /\ log' = [log EXCEPT ![t] = Append(@, event)]
    BY DEF Write
  <1>3. history' \in [Tabs -> Lists] /\ history'[t] = l /\ \A u \in Tabs : u # t => history'[u] = history[u]
    BY <1>1, <1>2
  <1>4. LogTyped' /\ log'[t] = Append(log[t], event) /\ \A u \in Tabs : u # t => log'[u] = log[u]
    BY <1>2 DEF LogTyped
  <1>5. writes' \in 0 .. MaxWrites
    BY <1>1, BoundsAssumption DEF Write
  <1>6. ListsFollow'
    BY <1>3, <1>4 DEF ListsFollow
  <1>7. StoreIsOneList'
    BY <1>2, <1>3 DEF StoreIsOneList
  <1>8. QED
    BY <1>2, <1>3, <1>4, <1>5, <1>6, <1>7

\* Only a write or a reload touches the lists.
LEMMA UnwrittenFollow ==
    ASSUME LogTyped, StoreIsOneList, ListsFollow, UNCHANGED listVars
    PROVE  LogTyped' /\ StoreIsOneList' /\ ListsFollow'
  BY DEF LogTyped, StoreIsOneList, ListsFollow, listVars

\* The pages start empty.
LEMMA HistoryInit == Init => HistoryInv
  <1> SUFFICES ASSUME Init PROVE HistoryInv
    OBVIOUS
  <1>1. <<>> \in Lists
    <2>1. <<>> \in Seq(Entry) /\ Len(<<>>) <= MaxHistory
      BY BoundsAssumption
    <2>2. QED
      BY <2>1, ListsAreSequences
  <1>2. TypeOK
    BY <1>1, BoundsAssumption DEF Init, TypeOK
  <1>3. LogTyped
    BY DEF Init, LogTyped
  <1>4. StoreIsOneList
    BY TabsAssumption DEF Init, StoreIsOneList
  <1>5. ShownDeviceIsListed
    BY DEF Init, ShownDeviceIsListed
  <1>6. ListsFollow
    BY EmptyTracked DEF Init, ListsFollow
  <1>7. QED
    BY <1>2, <1>3, <1>4, <1>5, <1>6 DEF HistoryInv

\* The form and the dialog leave the lists and the device on the screen alone.
LEMMA PanelStep ==
    ASSUME HistoryInv, NEW t \in Tabs,
           \/ OpenForm(t) \/ CancelForm(t) \/ KeepDevice(t)
           \/ \E d \in Devices : AskRemove(t, d) \/ \E p \in Passwords : Submit(t, d, p)
    PROVE  HistoryInv'
  <1>1. TypeOK /\ LogTyped /\ StoreIsOneList /\ ShownDeviceIsListed /\ ListsFollow
    BY DEF HistoryInv
  <1>2. UNCHANGED listVars
    BY DEF OpenForm, CancelForm, KeepDevice, AskRemove, Submit
  <1>3. LogTyped' /\ StoreIsOneList' /\ ListsFollow'
    BY <1>1, <1>2, UnwrittenFollow
  <1>4. TypeOK'
    <2>1. store' \in Lists /\ history' \in [Tabs -> Lists] /\ writes' \in 0 .. MaxWrites
      BY <1>1, <1>2 DEF TypeOK, listVars
    <2>2. CASE OpenForm(t) \/ CancelForm(t) \/ KeepDevice(t)
      BY <1>1, <2>1, <2>2 DEF TypeOK, OpenForm, CancelForm, KeepDevice
    <2>3. CASE \E d \in Devices : AskRemove(t, d)
      BY <1>1, <2>1, <2>3 DEF TypeOK, AskRemove
    <2>4. CASE \E d \in Devices : \E p \in Passwords : Submit(t, d, p)
      <3>1. PICK d \in Devices, p \in Passwords : Submit(t, d, p)
        BY <2>4
      <3>2. [device |-> d, password |-> p] \in Entry
        BY DEF Entry
      <3>3. QED
        BY <1>1, <2>1, <3>1, <3>2 DEF TypeOK, Submit
    <2>5. QED
      BY <2>2, <2>3, <2>4
  <1>5. ShownDeviceIsListed'
    <2>1. history' = history
      BY <1>2 DEF listVars
    <2>2. CASE OpenForm(t) \/ CancelForm(t) \/ KeepDevice(t) \/ \E d \in Devices : AskRemove(t, d)
      <3>1. session' = session /\ lastAttempt' = lastAttempt
        BY <2>2 DEF OpenForm, CancelForm, KeepDevice, AskRemove
      <3>2. QED
        BY <1>1, <2>1, <3>1 DEF ShownDeviceIsListed
    <2>3. CASE \E d \in Devices : \E p \in Passwords : Submit(t, d, p)
      <3>1. PICK d \in Devices, p \in Passwords : Submit(t, d, p)
        BY <2>3
      <3>2. session'[t] = "connecting" /\ \A u \in Tabs : u # t => session'[u] = session[u] /\ lastAttempt'[u] = lastAttempt[u]
        BY <1>1, <3>1 DEF TypeOK, Submit
      <3>3. QED
        BY <1>1, <2>1, <3>2 DEF ShownDeviceIsListed
    <2>4. QED
      BY <2>2, <2>3
  <1>6. QED
    BY <1>3, <1>4, <1>5 DEF HistoryInv

\* The dialog's removal: only a tab that shows no device removes one.
LEMMA RemoveStep ==
    ASSUME HistoryInv, NEW t \in Tabs, RemoveDevice(t)
    PROVE  HistoryInv'
  <1>1. TypeOK /\ LogTyped /\ StoreIsOneList /\ ShownDeviceIsListed /\ ListsFollow
    BY DEF HistoryInv
  <1>2. PICK d \in Devices : d = pendingRemove[t]
    BY <1>1 DEF TypeOK, RemoveDevice, DialogShown
  <1>3. history[t] \in Lists /\ Tracked(log[t], history[t])
    BY <1>1 DEF TypeOK, ListsFollow
  <1>4. Without(history[t], d) \in Lists /\ Tracked(Append(log[t], Removed(d)), Without(history[t], d))
    BY <1>3, RemovedList
  <1>5. Write(t, Without(history[t], d), Removed(d))
    BY <1>2 DEF RemoveDevice
  <1>6. /\ store' \in Lists /\ history' \in [Tabs -> Lists] /\ writes' \in 0 .. MaxWrites
        /\ \A u \in Tabs : u # t => history'[u] = history[u]
        /\ LogTyped' /\ StoreIsOneList' /\ ListsFollow'
    BY <1>1, <1>4, <1>5, WriteFollows
  <1>7. TypeOK'
    BY <1>1, <1>6 DEF TypeOK, RemoveDevice
  <1>8. session' = session /\ lastAttempt' = lastAttempt /\ session[t] # "connected"
    BY DEF RemoveDevice, DialogShown, PanelShown
  <1>9. ShownDeviceIsListed'
    BY <1>1, <1>6, <1>8 DEF ShownDeviceIsListed
  <1>10. QED
    BY <1>6, <1>7, <1>9 DEF HistoryInv

\* A connection: its device is in front of the list it is shown with.
LEMMA ConnectedStep ==
    ASSUME HistoryInv, NEW t \in Tabs, Connected(t)
    PROVE  HistoryInv'
  <1>1. TypeOK /\ LogTyped /\ StoreIsOneList /\ ShownDeviceIsListed /\ ListsFollow
    BY DEF HistoryInv
  <1>2. PICK e \in Entry : e = lastAttempt[t]
    BY <1>1 DEF TypeOK, Connected
  <1>3. history[t] \in Lists /\ Tracked(log[t], history[t])
    BY <1>1 DEF TypeOK, ListsFollow
  <1>4. /\ SaveHistory(history[t], e) \in Lists
        /\ Tracked(Append(log[t], Saved(e)), SaveHistory(history[t], e))
        /\ SaveHistory(history[t], e) # <<>> /\ SaveHistory(history[t], e)[1] = e
    BY <1>3, ConnectedList
  <1>5. Write(t, SaveHistory(history[t], e), Saved(e))
    BY <1>2 DEF Connected
  <1>6. /\ store' \in Lists /\ history' \in [Tabs -> Lists] /\ writes' \in 0 .. MaxWrites
        /\ history'[t] = SaveHistory(history[t], e)
        /\ \A u \in Tabs : u # t => history'[u] = history[u]
        /\ LogTyped' /\ StoreIsOneList' /\ ListsFollow'
    BY <1>1, <1>4, <1>5, WriteFollows
  <1>7. TypeOK'
    BY <1>1, <1>6 DEF TypeOK, Connected
  <1>8. /\ lastAttempt' = lastAttempt
        /\ \A u \in Tabs : u # t => session'[u] = session[u]
    BY <1>1 DEF TypeOK, Connected
  <1>9. ShownDeviceIsListed'
    <2> SUFFICES ASSUME NEW u \in Tabs, session'[u] = "connected"
                 PROVE  history'[u] # <<>> /\ history'[u][1] = lastAttempt'[u]
      BY DEF ShownDeviceIsListed
    <2>1. CASE u = t
      BY <1>2, <1>4, <1>6, <1>8, <2>1
    <2>2. CASE u # t
      BY <1>1, <1>6, <1>8, <2>2 DEF ShownDeviceIsListed
    <2>3. QED
      BY <2>1, <2>2
  <1>10. QED
    BY <1>6, <1>7, <1>9 DEF HistoryInv

\* An error or a disconnect takes the device off the screen.
LEMMA SessionStep ==
    ASSUME HistoryInv, NEW t \in Tabs, SessionFails(t) \/ Disconnect(t)
    PROVE  HistoryInv'
  <1>1. TypeOK /\ LogTyped /\ StoreIsOneList /\ ShownDeviceIsListed /\ ListsFollow
    BY DEF HistoryInv
  <1>2. UNCHANGED <<lastAttempt, panel, pendingRemove, listVars>>
    BY DEF SessionFails, Disconnect
  <1>3. LogTyped' /\ StoreIsOneList' /\ ListsFollow'
    BY <1>1, <1>2, UnwrittenFollow
  <1>4. /\ session' \in [Tabs -> {"idle", "connecting", "connected", "error"}]
        /\ session'[t] # "connected" /\ \A u \in Tabs : u # t => session'[u] = session[u]
    BY <1>1 DEF TypeOK, SessionFails, Disconnect
  <1>5. TypeOK'
    BY <1>1, <1>2, <1>4 DEF TypeOK, listVars
  <1>6. ShownDeviceIsListed'
    BY <1>1, <1>2, <1>4 DEF ShownDeviceIsListed, listVars
  <1>7. QED
    BY <1>3, <1>5, <1>6 DEF HistoryInv

\* A reload takes the list of the last writer, which has one entry per device.
LEMMA ReloadStep ==
    ASSUME HistoryInv, NEW t \in Tabs, Reload(t)
    PROVE  HistoryInv'
  <1>1. TypeOK /\ LogTyped /\ StoreIsOneList /\ ShownDeviceIsListed /\ ListsFollow
    BY DEF HistoryInv
  <1>2. PICK u \in Tabs : store = history[u]
    BY <1>1 DEF StoreIsOneList
  <1>3. store \in Lists /\ Tracked(log[u], store)
    BY <1>1, <1>2 DEF TypeOK, ListsFollow
  <1>4. store \in Seq(Entry) /\ Len(store) <= MaxHistory
    BY <1>3, ListsAreSequences
  <1>5. OnePerDevice(store)
    BY <1>3, <1>4, TrackedOnce
  <1>6. Tracked(Rebuild(store), store)
    BY <1>4, <1>5, RebuildTracked
  <1>7. /\ history' = [history EXCEPT ![t] = store] /\ log' = [log EXCEPT ![t] = Rebuild(store)]
        /\ store' = store
    BY DEF Reload
  <1>8. /\ history' \in [Tabs -> Lists] /\ history'[t] = store
        /\ \A v \in Tabs : v # t => history'[v] = history[v]
    BY <1>1, <1>3, <1>7 DEF TypeOK
  <1>9. LogTyped' /\ log'[t] = Rebuild(store) /\ \A v \in Tabs : v # t => log'[v] = log[v]
    BY <1>1, <1>7 DEF LogTyped
  <1>10. ListsFollow'
    BY <1>1, <1>6, <1>8, <1>9 DEF ListsFollow
  <1>11. StoreIsOneList'
    BY <1>7, <1>8 DEF StoreIsOneList
  <1>12. TypeOK'
    BY <1>1, <1>8 DEF TypeOK, Reload
  <1>13. /\ session'[t] # "connected"
         /\ \A v \in Tabs : v # t => session'[v] = session[v] /\ lastAttempt'[v] = lastAttempt[v]
    BY <1>1 DEF TypeOK, Reload
  <1>14. ShownDeviceIsListed'
    BY <1>1, <1>8, <1>13 DEF ShownDeviceIsListed
  <1>15. QED
    BY <1>9, <1>10, <1>11, <1>12, <1>14 DEF HistoryInv

\* Every step of every tab keeps the invariant.
LEMMA HistoryStep == HistoryInv /\ [Next]_vars => HistoryInv'
  <1> SUFFICES ASSUME HistoryInv, [Next]_vars PROVE HistoryInv'
    OBVIOUS
  <1>1. CASE UNCHANGED vars
    BY <1>1 DEF HistoryInv, TypeOK, LogTyped, StoreIsOneList, ShownDeviceIsListed, ListsFollow, vars
  <1>2. ASSUME NEW t \in Tabs,
               \/ OpenForm(t) \/ CancelForm(t) \/ KeepDevice(t)
               \/ \E d \in Devices : AskRemove(t, d) \/ \E p \in Passwords : Submit(t, d, p)
        PROVE  HistoryInv'
    BY <1>2, PanelStep
  <1>3. ASSUME NEW t \in Tabs, RemoveDevice(t) PROVE HistoryInv'
    BY <1>3, RemoveStep
  <1>4. ASSUME NEW t \in Tabs, Connected(t) PROVE HistoryInv'
    BY <1>4, ConnectedStep
  <1>5. ASSUME NEW t \in Tabs, SessionFails(t) \/ Disconnect(t) PROVE HistoryInv'
    BY <1>5, SessionStep
  <1>6. ASSUME NEW t \in Tabs, Reload(t) PROVE HistoryInv'
    BY <1>6, ReloadStep
  <1>7. CASE Next
    BY <1>2, <1>3, <1>4, <1>5, <1>6, <1>7 DEF Next
  <1>8. QED
    BY <1>1, <1>7

\* What holds in every state of the pages.
LEMMA HistoryHolds == Spec => []HistoryInv
  BY HistoryInit, HistoryStep, PTL DEF Spec

------------------------------------------------------------------------------
\* The lists stay lists of entries, at most MaxHistory long, in memory and in
\* localStorage, and so do the pages' other states (ControlPage, ConnectPanel).
THEOREM HistoryTypes == Spec => []TypeOK
  <1>1. HistoryInv => TypeOK
    BY DEF HistoryInv
  <1>2. QED
    BY <1>1, HistoryHolds, PTL

\* The saved devices survive what tabs, connections and removals do to the list
\* (saveHistory and handleRemoveDevice of ControlPage): each tab's is the one its own
\* connections and removals describe, localStorage holds one of them, and the device
\* on the screen is in it.
THEOREM SavedDevicesAreKept == Spec => []HistoryIsKept
  <1>1. ASSUME HistoryInv PROVE ListIsWhatTheTabDid
    <2> SUFFICES ASSUME NEW t \in Tabs
                 PROVE  /\ Len(history[t]) = Cardinality(Remembered(log[t]))
                        /\ \A i \in Remembered(log[t]) :
                             LET n == Cardinality({j \in Remembered(log[t]) : j >= i})
                             IN  Saved(history[t][n]) = log[t][i]
      BY DEF ListIsWhatTheTabDid
    <2>1. history[t] \in Lists /\ Tracked(log[t], history[t])
      BY <1>1 DEF HistoryInv, TypeOK, ListsFollow
    <2>2. history[t] \in Seq(Entry)
      BY <2>1, ListsAreSequences
    <2>3. QED
      BY <2>1, <2>2, TracedIsListed
  <1>2. HistoryInv => HistoryIsKept
    BY <1>1 DEF HistoryInv, HistoryIsKept
  <1>3. QED
    BY <1>2, HistoryHolds, PTL
==============================================================================
