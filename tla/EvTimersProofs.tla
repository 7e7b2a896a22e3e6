---------------------------- MODULE EvTimersProofs -----------------------------
(***************************************************************************)
(* Proofs about the heaps of ev.c, for any number of watchers, and about the *)
(* timers and periodics of a loop: the heaps are sound after every call, the *)
(* loop does not wait past anybody's time, and who is earlier is called      *)
(* first.                                                                   *)
(***************************************************************************)
EXTENDS EvTimers, FiniteSetTheorems, WellFoundedInduction, TLAPS

-------------------------------------------------------------------------------
(* Loops as recursive functions *)

\* Induction, for a set instead of a predicate
LEMMA SetInduction ==
  ASSUME NEW S, 0 \in S, \A n \in Nat : n \in S => n + 1 \in S
  PROVE  \A n \in Nat : n \in S
<1>. DEFINE T == Nat \ S
<1>. SUFFICES ASSUME T # {} PROVE FALSE
  OBVIOUS
<1>1. \E x \in T : \A y \in T : ~(<<y, x>> \in OpToRel(<, Nat))
  BY NatLessThanWellFounded, WFMin
<1>2. \A x, y \in Nat : <<y, x>> \in OpToRel(<, Nat) <=> y < x
  BY DEF OpToRel
<1>3. \E x \in T : \A y \in T : ~(y < x)
  BY <1>1, <1>2
<1>. QED
  BY <1>3

\* What each turn keeps holds after all of them; I[i] is what holds after i.
LEMMA LoopKeeps ==
  ASSUME NEW n \in Nat, NEW t, NEW I, t[0] \in I[0],
         \A i \in 1 .. n : t[i - 1] \in I[i - 1] => t[i] \in I[i]
  PROVE  t[n] \in I[n]
<1>. DEFINE S == {i \in Nat : i <= n => t[i] \in I[i]}
<1>1. 0 \in S
  OBVIOUS
<1>2. ASSUME NEW i \in Nat, i \in S
      PROVE  i + 1 \in S
  <2>1. i + 1 <= n => i + 1 \in 1 .. n /\ (i + 1) - 1 = i
    OBVIOUS
  <2>. QED
    BY <1>2, <2>1
<1>. HIDE DEF S
<1>3. n \in S
  BY <1>1, <1>2, SetInduction
<1>. QED
  BY <1>3 DEF S

-------------------------------------------------------------------------------
(* The tree in the array *)

LEMMA ParentFacts ==
  ASSUME NEW D \in {2, 4}, NEW c \in Nat, c >= 2
  PROVE  Parent(D, c) \in 1 .. c - 1
<1>1. CASE D = 2
  BY <1>1 DEF Parent
<1>2. CASE D = 4
  BY <1>2 DEF Parent
<1>. QED
  BY <1>1, <1>2

LEMMA ChildrenFacts ==
  ASSUME NEW D \in {2, 4}, NEW n \in Nat, NEW k \in Nat \ {0}
  PROVE  Children(D, n, k) = {c \in 2 .. n : Parent(D, c) = k}
<1>1. CASE D = 2
  BY <1>1 DEF Parent, Children
<1>2. CASE D = 4
  BY <1>2 DEF Parent, Children
<1>. QED
  BY <1>1, <1>2

-------------------------------------------------------------------------------
(* What a heap is *)

Nodes(W) == [w : W, at : Int]
Heaps(W) == [heap : Seq(Nodes(W)), active : [W -> Nat]]
Size(h) == Len(h.heap)
Entries(h) == {h.heap[k] : k \in 1 .. Size(h)}
AtPlace(D, k) == k + HEAP0(D) - 1

\* Everybody on the heap knows its place, so nobody has two.
InPlace(D, h) == \A k \in 1 .. Size(h) : h.active[h.heap[k].w] = AtPlace(D, k)

\* Among the first n no parent is later than its child.
Ordered(D, h, n) == \A c \in 2 .. n : h.heap[Parent(D, c)].at <= h.heap[c].at

Shape(D, W, h) ==
  /\ h \in Heaps(W) /\ InPlace(D, h) /\ Ordered(D, h, Size(h))
  /\ \A w \in W : h.active[w] # 0 => \E e \in Entries(h) : e.w = w

\* Ordered but for the one in place k, which may be earlier than its parent
UpToDo(D, h, k, n) ==
  /\ \A c \in 2 .. n : c # k => h.heap[Parent(D, c)].at <= h.heap[c].at
  /\ k > 1 => \A c \in 2 .. n : Parent(D, c) = k => h.heap[Parent(D, k)].at <= h.heap[c].at

\* Ordered but for the one in place k, which may be later than its children
DownToDo(D, h, k) ==
  /\ \A c \in 2 .. Size(h) : Parent(D, c) # k => h.heap[Parent(D, c)].at <= h.heap[c].at
  /\ k > 1 => \A c \in 2 .. Size(h) : Parent(D, c) = k => h.heap[Parent(D, k)].at <= h.heap[c].at

\* m has what h has, elsewhere
Shuffled(D, W, h, m) ==
  /\ m \in Heaps(W) /\ InPlace(D, m) /\ Size(m) = Size(h) /\ Entries(m) = Entries(h)
  /\ \A w \in W : (\A e \in Entries(h) : e.w # w) => m.active[w] = h.active[w]

LEMMA HeapFields ==
  ASSUME NEW W, NEW h \in Heaps(W)
  PROVE  /\ h.heap \in Seq(Nodes(W)) /\ h.active \in [W -> Nat] /\ Size(h) \in Nat
         /\ DOMAIN h.heap = 1 .. Size(h)
         /\ \A k \in 1 .. Size(h) : h.heap[k] \in Nodes(W) /\ h.heap[k].w \in W /\ h.heap[k].at \in Int
<1>1. h.heap \in Seq(Nodes(W)) /\ h.active \in [W -> Nat]
  BY DEF Heaps
<1>2. Size(h) \in Nat /\ DOMAIN h.heap = 1 .. Size(h) /\ \A k \in 1 .. Size(h) : h.heap[k] \in Nodes(W)
  BY <1>1 DEF Size
<1>3. \A e \in Nodes(W) : e.w \in W /\ e.at \in Int
  BY DEF Nodes
<1>. QED
  BY <1>1, <1>2, <1>3

\* Two different places are changed for each other.
LEMMA SwappedFacts ==
  ASSUME NEW D \in {2, 4}, NEW W, NEW h \in Heaps(W), InPlace(D, h),
         NEW k \in 1 .. Size(h), NEW p \in 1 .. Size(h), k # p,
         NEW m, m = Swapped(D, h, k, p)
  PROVE  /\ Shuffled(D, W, h, m)
         /\ \A j \in 1 .. Size(h) : m.heap[j] = IF j = k THEN h.heap[p] ELSE IF j = p THEN h.heap[k] ELSE h.heap[j]
<1>1. /\ h.heap \in Seq(Nodes(W)) /\ h.active \in [W -> Nat] /\ Size(h) \in Nat
      /\ \A j \in 1 .. Size(h) : h.heap[j] \in Nodes(W) /\ h.heap[j].w \in W
  BY HeapFields
<1>. PICK a : a = h.heap[k]
  OBVIOUS
<1>. PICK b : b = h.heap[p]
  OBVIOUS
<1>2. a \in Nodes(W) /\ b \in Nodes(W) /\ a.w \in W /\ b.w \in W
  BY <1>1
<1>3. AtPlace(D, k) \in Nat /\ AtPlace(D, p) \in Nat /\ AtPlace(D, k) # AtPlace(D, p)
  BY DEF AtPlace, HEAP0, Size
<1>4. a.w # b.w
  BY <1>3 DEF InPlace
<1>5. /\ m.heap = [[h.heap EXCEPT ![k] = b] EXCEPT ![p] = a]
      /\ m.active = [[h.active EXCEPT ![b.w] = AtPlace(D, k)] EXCEPT ![a.w] = AtPlace(D, p)]
      /\ m = [heap |-> m.heap, active |-> m.active]
  BY DEF Swapped, Placed, AtPlace
<1>6. m.heap \in Seq(Nodes(W)) /\ Len(m.heap) = Size(h) /\ m.active \in [W -> Nat]
  <2>1. m.heap \in Seq(Nodes(W)) /\ Len(m.heap) = Size(h)
    BY <1>1, <1>2, <1>5 DEF Size
  <2>2. m.active \in [W -> Nat]
    BY <1>1, <1>2, <1>3, <1>5, ZenonT(60)
  <2>. QED
    BY <2>1, <2>2
<1>7. \A j \in 1 .. Size(h) : m.heap[j] = IF j = k THEN b ELSE IF j = p THEN a ELSE h.heap[j]
  BY <1>1, <1>5 DEF Size
<1>8. \A w \in W : m.active[w] = IF w = a.w THEN AtPlace(D, p) ELSE IF w = b.w THEN AtPlace(D, k) ELSE h.active[w]
  BY <1>1, <1>2, <1>5
<1>9. m \in Heaps(W) /\ Size(m) = Size(h)
  BY <1>5, <1>6 DEF Heaps, Size
<1>10. InPlace(D, m)
  <2>. SUFFICES ASSUME NEW j \in 1 .. Size(h) PROVE m.active[m.heap[j].w] = AtPlace(D, j)
    BY <1>9 DEF InPlace
  <2>1. CASE j = k
    BY <1>2, <1>4, <1>7, <1>8, <2>1
  <2>2. CASE j = p
    BY <1>2, <1>4, <1>7, <1>8, <2>2
  <2>3. CASE j # k /\ j # p
    <3>1. h.active[h.heap[j].w] = AtPlace(D, j) /\ AtPlace(D, j) # AtPlace(D, k) /\ AtPlace(D, j) # AtPlace(D, p)
      BY <2>3, SMTT(60) DEF InPlace, AtPlace, HEAP0, Size
    <3>2. h.heap[j].w # a.w /\ h.heap[j].w # b.w
      BY <3>1 DEF InPlace
    <3>. QED
      BY <1>1, <1>7, <1>8, <2>3, <3>1, <3>2, ZenonT(60)
  <2>. QED
    BY <2>1, <2>2, <2>3
<1>11. Entries(m) = Entries(h)
  <2>1. \A j \in 1 .. Size(h) : m.heap[j] \in Entries(h)
    BY <1>7 DEF Entries
  <2>2. \A j \in 1 .. Size(h) : h.heap[j] \in Entries(m)
    BY <1>7, <1>9 DEF Entries
  <2>. QED
    BY <1>9, <2>1, <2>2 DEF Entries
<1>12. ASSUME NEW w \in W, \A e \in Entries(h) : e.w # w
       PROVE  m.active[w] = h.active[w]
  <2>1. a \in Entries(h) /\ b \in Entries(h)
    BY DEF Entries
  <2>. QED
    BY <1>8, <1>12, <2>1
<1>. QED
  BY <1>7, <1>9, <1>10, <1>11, <1>12 DEF Shuffled

\* The turns of the loop of upheap
LEMMA UpHeapRuns ==
  ASSUME NEW D, NEW h, NEW k, Len(h.heap) \in Nat
  PROVE  \E turn : /\ turn[0] = [h |-> Placed(D, h, h.heap[k], k), k |-> k]
                  /\ \A i \in 1 .. Len(h.heap) : turn[i] = UpTurn(D, turn[i - 1])
                  /\ UpHeap(D, h, k) = turn[Len(h.heap)].h
<1>. DEFINE Is(f, m) == f = [i \in 0 .. m |-> IF i = 0 THEN [h |-> Placed(D, h, h.heap[k], k), k |-> k] ELSE UpTurn(D, f[i - 1])]
            S == {m \in Nat : \E f : Is(f, m)}
<1>1. 0 \in S
  <2>1. Is([i \in 0 .. 0 |-> [h |-> Placed(D, h, h.heap[k], k), k |-> k]], 0)
    OBVIOUS
  <2>. QED
    BY <2>1
<1>2. ASSUME NEW m \in Nat, m \in S
      PROVE  m + 1 \in S
  <2>1. PICK f : Is(f, m)
    BY <1>2
  <2>. DEFINE g == [i \in 0 .. m + 1 |-> IF i = m + 1 THEN UpTurn(D, f[m]) ELSE f[i]]
  <2>2. \A i \in 0 .. m + 1 : g[i] = IF i = 0 THEN [h |-> Placed(D, h, h.heap[k], k), k |-> k] ELSE UpTurn(D, g[i - 1])
    BY <2>1
  <2>3. Is(g, m + 1)
    BY <2>2
  <2>. HIDE DEF Is, g
  <2>. QED
    BY <2>3
<1>3. Len(h.heap) \in S
  <2>. HIDE DEF S
  <2>. QED
    BY <1>1, <1>2, SetInduction
<1>. DEFINE turn == CHOOSE f : Is(f, Len(h.heap))
<1>4. Is(turn, Len(h.heap))
  BY <1>3, Zenon
<1>5. UpHeap(D, h, k) = turn[Len(h.heap)].h
  BY Zenon DEF UpHeap
<1>. HIDE DEF turn
<1>6. turn[0] = [h |-> Placed(D, h, h.heap[k], k), k |-> k] /\ \A i \in 1 .. Len(h.heap) : turn[i] = UpTurn(D, turn[i - 1])
  BY <1>4
<1>. QED
  BY <1>5, <1>6

\* The turns of the loop of downheap
LEMMA DownHeapRuns ==
  ASSUME NEW D, NEW h, NEW k, Len(h.heap) \in Nat
  PROVE  \E turn : /\ turn[0] = [h |-> Placed(D, h, h.heap[k], k), k |-> k]
                  /\ \A i \in 1 .. Len(h.heap) : turn[i] = DownTurn(D, turn[i - 1])
                  /\ DownHeap(D, h, k) = turn[Len(h.heap)].h
<1>. DEFINE Is(f, m) == f = [i \in 0 .. m |-> IF i = 0 THEN [h |-> Placed(D, h, h.heap[k], k), k |-> k] ELSE DownTurn(D, f[i - 1])]
            S == {m \in Nat : \E f : Is(f, m)}
<1>1. 0 \in S
  <2>1. Is([i \in 0 .. 0 |-> [h |-> Placed(D, h, h.heap[k], k), k |-> k]], 0)
    OBVIOUS
  <2>. QED
    BY <2>1
<1>2. ASSUME NEW m \in Nat, m \in S
      PROVE  m + 1 \in S
  <2>1. PICK f : Is(f, m)
    BY <1>2
  <2>. DEFINE g == [i \in 0 .. m + 1 |-> IF i = m + 1 THEN DownTurn(D, f[m]) ELSE f[i]]
  <2>2. \A i \in 0 .. m + 1 : g[i] = IF i = 0 THEN [h |-> Placed(D, h, h.heap[k], k), k |-> k] ELSE DownTurn(D, g[i - 1])
    BY <2>1
  <2>3. Is(g, m + 1)
    BY <2>2
  <2>. HIDE DEF Is, g
  <2>. QED
    BY <2>3
<1>3. Len(h.heap) \in S
  <2>. HIDE DEF S
  <2>. QED
    BY <1>1, <1>2, SetInduction
<1>. DEFINE turn == CHOOSE f : Is(f, Len(h.heap))
<1>4. Is(turn, Len(h.heap))
  BY <1>3, Zenon
<1>5. DownHeap(D, h, k) = turn[Len(h.heap)].h
  BY Zenon DEF DownHeap
<1>. HIDE DEF turn
<1>6. turn[0] = [h |-> Placed(D, h, h.heap[k], k), k |-> k] /\ \A i \in 1 .. Len(h.heap) : turn[i] = DownTurn(D, turn[i - 1])
  BY <1>4
<1>. QED
  BY <1>5, <1>6

-------------------------------------------------------------------------------
(* upheap and downheap *)

\* The turns so far have kept g's entries and move up from k at the latest now.
UpState(D, W, g, n, k0, i) ==
  {s \in [h : Heaps(W), k : 1 .. Size(g)] :
     /\ Shuffled(D, W, g, s.h) /\ UpToDo(D, s.h, s.k, n) /\ s.k <= n
     /\ s.k + i <= k0 \/ Ordered(D, s.h, n)}

LEMMA UpTurnKeeps ==
  ASSUME NEW D \in {2, 4}, NEW W, NEW g \in Heaps(W), InPlace(D, g), NEW n \in 1 .. Size(g), NEW k0 \in 1 .. Size(g),
         NEW i \in Nat, NEW s \in UpState(D, W, g, n, k0, i)
  PROVE  UpTurn(D, s) \in UpState(D, W, g, n, k0, i + 1)
<1>. PICK h, k : h = s.h /\ k = s.k
  OBVIOUS
<1>1. /\ h \in Heaps(W) /\ k \in 1 .. Size(g) /\ Shuffled(D, W, g, h) /\ UpToDo(D, h, k, n) /\ k <= n
      /\ k + i <= k0 \/ Ordered(D, h, n)
      /\ s = [h |-> h, k |-> k]
  BY DEF UpState
<1>2. InPlace(D, h) /\ Size(h) = Size(g) /\ Entries(h) = Entries(g) /\ Size(g) \in Nat
  BY <1>1, HeapFields DEF Shuffled
<1>3. \A j \in 1 .. Size(g) : h.heap[j].at \in Int
  BY <1>1, <1>2, HeapFields
<1>. PICK p : p = Parent(D, k)
  OBVIOUS
<1>4. k # 1 => p \in 1 .. k - 1
  BY <1>1, ParentFacts
<1>5. \A c \in 2 .. n : Parent(D, c) \in 1 .. c - 1
  BY ParentFacts
<1>6. CASE k = 1 \/ h.heap[p].at <= h.heap[k].at
  <2>1. UpTurn(D, s) = s
    BY <1>1, <1>6 DEF UpTurn
  <2>2. Ordered(D, h, n)
    BY <1>1, <1>6 DEF UpToDo, Ordered
  <2>. QED
    BY <1>1, <2>1, <2>2 DEF UpState
<1>7. CASE ~(k = 1 \/ h.heap[p].at <= h.heap[k].at)
  <2>. PICK m : m = Swapped(D, h, k, p)
    OBVIOUS
  <2>1. UpTurn(D, s) = [h |-> m, k |-> p] /\ p \in 1 .. Size(g) /\ p < k /\ k > 1
    <3>1. UpTurn(D, s) = [h |-> m, k |-> p]
      BY <1>1, <1>7 DEF UpTurn
    <3>2. p \in 1 .. Size(g) /\ p < k /\ k > 1
      BY <1>1, <1>2, <1>4, <1>7
    <3>. QED
      BY <3>1, <3>2
  <2>2. /\ Shuffled(D, W, h, m)
        /\ \A j \in 1 .. Size(g) : m.heap[j] = IF j = k THEN h.heap[p] ELSE IF j = p THEN h.heap[k] ELSE h.heap[j]
    BY SMTT(60), <1>1, <1>2, <2>1, SwappedFacts
  <2>3. Shuffled(D, W, g, m) /\ m \in Heaps(W)
    BY <1>1, <1>2, <2>2 DEF Shuffled
  <2>4. h.heap[k].at < h.heap[p].at /\ m.heap[k] = h.heap[p] /\ m.heap[p] = h.heap[k]
    BY <1>1, <1>3, <1>7, <2>1, <2>2
  <2>5. ASSUME NEW c \in 2 .. n, c # p
        PROVE  m.heap[Parent(D, c)].at <= m.heap[c].at
    <3>. PICK q : q = Parent(D, c)
      OBVIOUS
    <3>1. q \in 1 .. c - 1 /\ c \in 1 .. Size(g) /\ q \in 1 .. Size(g)
      BY <1>2, <1>5
    <3>2. CASE c = k
      BY SMTT(60), <2>4, <3>2, <1>3, <2>1, <1>1
    <3>3. CASE c # k /\ q = k
      <4>a. UpToDo(D, h, k, n) /\ k > 1 /\ c \in 2 .. n /\ Parent(D, c) = k
        BY <1>1, <2>1, <3>3
      <4>1. h.heap[Parent(D, k)].at <= h.heap[c].at
        BY ONLY <4>a DEF UpToDo
      <4>. QED
        BY <2>2, <2>4, <2>5, <3>1, <3>3, <4>1
    <3>4. CASE c # k /\ q # k
      <4>1. h.heap[q].at <= h.heap[c].at /\ m.heap[c] = h.heap[c]
        BY <1>1, <2>2, <2>5, <3>1, <3>4 DEF UpToDo
      <4>2. CASE q = p
        BY <1>1, <1>3, <2>1, <2>4, <3>1, <4>1, <4>2
      <4>3. CASE q # p
        BY <2>2, <3>1, <3>4, <4>1, <4>3
      <4>. QED
        BY <4>2, <4>3
    <3>. QED
      BY <3>2, <3>3, <3>4
  <2>6. ASSUME p > 1, NEW c \in 2 .. n, Parent(D, c) = p
        PROVE  m.heap[Parent(D, p)].at <= m.heap[c].at
    <3>. PICK q : q = Parent(D, p)
      OBVIOUS
    <3>1. q \in 1 .. p - 1 /\ p \in 2 .. n /\ c \in 1 .. Size(g) /\ q \in 1 .. Size(g) /\ c > p
      BY <1>1, <1>2, <1>5, <2>1, <2>6
    <3>2. h.heap[q].at <= h.heap[p].at /\ m.heap[q] = h.heap[q]
      BY <1>1, <2>1, <2>2, <3>1 DEF UpToDo
    <3>3. CASE c = k
      BY <2>4, <3>2, <3>3
    <3>4. CASE c # k
      <4>1. h.heap[p].at <= h.heap[c].at /\ m.heap[c] = h.heap[c]
        BY <1>1, <2>2, <2>6, <3>1, <3>4 DEF UpToDo
      <4>. QED
        BY <1>3, <2>1, <3>1, <3>2, <4>1
    <3>. QED
      BY <3>3, <3>4
  <2>7. UpToDo(D, m, p, n)
    BY <2>5, <2>6 DEF UpToDo
  <2>8. p + (i + 1) <= k0 \/ Ordered(D, m, n)
    <3>1. CASE k + i <= k0
      BY <1>1, <2>1, <3>1
    <3>2. CASE Ordered(D, h, n)
      BY <1>1, <1>3, <1>7, <2>1, <3>2 DEF Ordered
    <3>. QED
      BY <1>1, <3>1, <3>2
  <2>. QED
    BY <1>1, <2>1, <2>3, <2>7, <2>8 DEF UpState
<1>. QED
  BY <1>6, <1>7

\* h is a heap whose watcher in place k may not know it.
LEMMA UpHeapFacts ==
  ASSUME NEW D \in {2, 4}, NEW W, NEW h, NEW k, NEW g \in Heaps(W), g = Placed(D, h, h.heap[k], k), Len(h.heap) = Size(g),
         InPlace(D, g), k \in 1 .. Size(g), NEW n \in k .. Size(g), UpToDo(D, g, k, n)
  PROVE  Shuffled(D, W, g, UpHeap(D, h, k)) /\ Ordered(D, UpHeap(D, h, k), n)
<1>1. Size(g) \in Nat /\ n \in 1 .. Size(g) /\ Len(h.heap) \in Nat
  BY HeapFields
<1>2. PICK turn : /\ turn[0] = [h |-> g, k |-> k]
                  /\ \A i \in 1 .. Size(g) : turn[i] = UpTurn(D, turn[i - 1])
                  /\ UpHeap(D, h, k) = turn[Size(g)].h
  BY <1>1, UpHeapRuns, SMTT(60)
<1>. DEFINE I == [i \in 0 .. Size(g) |-> UpState(D, W, g, n, k, i)]
<1>3. Shuffled(D, W, g, g)
  BY DEF Shuffled
<1>4. turn[0] \in I[0]
  BY <1>1, <1>2, <1>3 DEF UpState
<1>5. ASSUME NEW i \in 1 .. Size(g), turn[i - 1] \in I[i - 1]
      PROVE  turn[i] \in I[i]
  <2>1. i - 1 \in Nat /\ i - 1 \in 0 .. Size(g) /\ (i - 1) + 1 = i
    BY <1>1
  <2>2. turn[i - 1] \in UpState(D, W, g, n, k, i - 1) /\ turn[i] = UpTurn(D, turn[i - 1])
    BY <1>2, <1>5, <2>1
  <2>3. UpTurn(D, turn[i - 1]) \in UpState(D, W, g, n, k, i)
    BY <1>1, <2>1, <2>2, UpTurnKeeps
  <2>. QED
    BY <1>1, <2>2, <2>3
<1>. HIDE DEF I
<1>6. turn[Size(g)] \in I[Size(g)]
  BY <1>1, <1>4, <1>5, LoopKeeps
<1>7. turn[Size(g)] \in UpState(D, W, g, n, k, Size(g))
  BY <1>1, <1>6 DEF I
<1>. QED
  BY <1>1, <1>2, <1>7 DEF UpState

\* There is an earliest child when there is one.
LEMMA EarliestFacts ==
  ASSUME NEW D \in {2, 4}, NEW W, NEW h \in Heaps(W), NEW k \in 1 .. Size(h), Children(D, Size(h), k) # {}
  PROVE  /\ Earliest(D, h, k) \in Children(D, Size(h), k)
         /\ \A d \in Children(D, Size(h), k) : h.heap[Earliest(D, h, k)].at <= h.heap[d].at
<1>. PICK C : C = Children(D, Size(h), k)
  OBVIOUS
<1>1. Size(h) \in Nat /\ \A c \in 1 .. Size(h) : h.heap[c].at \in Int
  BY HeapFields
<1>2. C = {c \in 2 .. Size(h) : Parent(D, c) = k}
  BY <1>1, ChildrenFacts
<1>3. \A c \in C : c \in Nat /\ h.heap[c].at \in Int
  BY <1>1, <1>2
<1>. DEFINE First(c, d) == h.heap[c].at < h.heap[d].at \/ (h.heap[c].at = h.heap[d].at /\ c <= d)
            S == {m \in Nat : (\E c \in C : c <= m) => \E c \in C : c <= m /\ \A d \in C : d <= m => First(c, d)}
<1>4. 0 \in S
  BY <1>1, <1>2
<1>5. ASSUME NEW m \in Nat, m \in S
      PROVE  m + 1 \in S
  <2>1. SUFFICES ASSUME NEW e \in C, e <= m + 1
                 PROVE  \E c \in C : c <= m + 1 /\ \A d \in C : d <= m + 1 => First(c, d)
    OBVIOUS
  <2>2. \A d \in C : d <= m + 1 => d <= m \/ d = m + 1
    BY <1>3
  <2>3. CASE ~\E c \in C : c <= m
    <3>1. e = m + 1 /\ \A d \in C : d <= m + 1 => d = e
      BY <2>1, <2>2, <2>3
    <3>. QED
      BY <1>3, <3>1
  <2>4. CASE \E c \in C : c <= m
    <3>1. PICK c \in C : c <= m /\ \A d \in C : d <= m => First(c, d)
      BY <1>5, <2>4
    <3>2. CASE m + 1 \in C /\ h.heap[m + 1].at < h.heap[c].at
      <4>1. \A d \in C : d <= m => First(m + 1, d)
        BY <1>3, <3>1, <3>2
      <4>2. First(m + 1, m + 1)
        BY <1>3, <3>2
      <4>. QED
        BY <2>2, <3>2, <4>1, <4>2
    <3>3. CASE m + 1 \notin C \/ ~(h.heap[m + 1].at < h.heap[c].at)
      <4>1. ASSUME m + 1 \in C PROVE First(c, m + 1)
        BY <1>3, <3>1, <3>3, <4>1
      <4>2. c <= m + 1
        BY <1>3, <3>1
      <4>. HIDE DEF First
      <4>. QED
        BY <2>2, <3>1, <4>1, <4>2
    <3>. QED
      BY <3>2, <3>3
  <2>. QED
    BY <2>3, <2>4
<1>6. Size(h) \in S
  <2>. HIDE DEF S
  <2>. QED
    BY <1>1, <1>4, <1>5, SetInduction
<1>7. \E c \in C : \A d \in C : First(c, d)
  <2>1. \E c \in C : TRUE
    OBVIOUS
  <2>2. \A c \in C : c <= Size(h)
    BY <1>1, <1>2
  <2>. HIDE DEF First
  <2>. QED
    BY <1>6, <2>1, <2>2
<1>8. Earliest(D, h, k) = CHOOSE c \in C : \A d \in C : First(c, d)
  BY Zenon DEF Earliest, Size
<1>9. Earliest(D, h, k) \in C /\ \A d \in C : First(Earliest(D, h, k), d)
  <2>. HIDE DEF First
  <2>. QED
    BY <1>7, <1>8, Zenon
<1>. QED
  BY <1>3, <1>9

\* The turns so far have kept g's entries and move down from k at the earliest now.
DownState(D, W, g, k0, i) ==
  {s \in [h : Heaps(W), k : 1 .. Size(g)] :
     /\ Shuffled(D, W, g, s.h) /\ DownToDo(D, s.h, s.k)
     /\ k0 + i <= s.k \/ Ordered(D, s.h, Size(g))}

LEMMA DownTurnKeeps ==
  ASSUME NEW D \in {2, 4}, NEW W, NEW g \in Heaps(W), InPlace(D, g), NEW k0 \in 1 .. Size(g),
         NEW i \in Nat, NEW s \in DownState(D, W, g, k0, i)
  PROVE  DownTurn(D, s) \in DownState(D, W, g, k0, i + 1)
<1>. PICK h, k : h = s.h /\ k = s.k
  OBVIOUS
<1>. PICK n : n = Size(g)
  OBVIOUS
<1>1. /\ h \in Heaps(W) /\ k \in 1 .. n /\ Shuffled(D, W, g, h) /\ DownToDo(D, h, k)
      /\ k0 + i <= k \/ Ordered(D, h, n)
      /\ s = [h |-> h, k |-> k]
  BY DEF DownState
<1>2. InPlace(D, h) /\ Size(h) = n /\ Entries(h) = Entries(g) /\ n \in Nat
  BY <1>1, HeapFields DEF Shuffled
<1>3. \A j \in 1 .. n : h.heap[j].at \in Int
  BY <1>1, <1>2, HeapFields
<1>4. Children(D, n, k) = {c \in 2 .. n : Parent(D, c) = k}
  BY <1>1, <1>2, ChildrenFacts
<1>5. \A c \in 2 .. n : Parent(D, c) \in 1 .. c - 1
  BY ParentFacts
<1>. PICK c : c = Earliest(D, h, k)
  OBVIOUS
<1>6. DownTurn(D, s) = IF Children(D, n, k) = {} THEN s
                       ELSE IF h.heap[k].at <= h.heap[c].at THEN s ELSE [h |-> Swapped(D, h, k, c), k |-> c]
  BY <1>1, <1>2 DEF DownTurn, Size
<1>7. Children(D, n, k) # {} =>
        c \in 2 .. n /\ Parent(D, c) = k /\ \A d \in 2 .. n : Parent(D, d) = k => h.heap[c].at <= h.heap[d].at
  BY <1>1, <1>2, <1>4, EarliestFacts
<1>8. /\ \A d \in 2 .. n : Parent(D, d) # k => h.heap[Parent(D, d)].at <= h.heap[d].at
      /\ k > 1 => \A d \in 2 .. n : Parent(D, d) = k => h.heap[Parent(D, k)].at <= h.heap[d].at
  BY ONLY <1>1, <1>2 DEF DownToDo
<1>9. CASE Children(D, n, k) = {} \/ h.heap[k].at <= h.heap[c].at
  <2>1. DownTurn(D, s) = s
    BY <1>6, <1>9
  <2>2. ASSUME NEW d \in 2 .. n, Parent(D, d) = k PROVE h.heap[Parent(D, d)].at <= h.heap[d].at
    <3>1. c \in 1 .. n /\ d \in 1 .. n /\ h.heap[c].at <= h.heap[d].at /\ h.heap[k].at <= h.heap[c].at
      BY <1>2, <1>4, <1>7, <1>9, <2>2
    <3>. QED
      BY <1>1, <1>3, <2>2, <3>1
  <2>3. Ordered(D, h, n)
    BY <1>8, <2>2 DEF Ordered
  <2>. QED
    BY <1>1, <2>1, <2>3 DEF DownState
<1>10. CASE ~(Children(D, n, k) = {} \/ h.heap[k].at <= h.heap[c].at)
  <2>. PICK m : m = Swapped(D, h, k, c)
    OBVIOUS
  <2>1. DownTurn(D, s) = [h |-> m, k |-> c]
    BY <1>6, <1>10
  <2>2. /\ c \in 2 .. n /\ Parent(D, c) = k /\ c \in 1 .. n /\ k < c
        /\ \A d \in 2 .. n : Parent(D, d) = k => h.heap[c].at <= h.heap[d].at
    BY <1>1, <1>2, <1>5, <1>7, <1>10
  <2>3. /\ Shuffled(D, W, h, m)
        /\ \A j \in 1 .. n : m.heap[j] = IF j = k THEN h.heap[c] ELSE IF j = c THEN h.heap[k] ELSE h.heap[j]
    BY <1>1, <1>2, <2>2, SwappedFacts, SMTT(60)
  <2>4. Shuffled(D, W, g, m) /\ m \in Heaps(W) /\ Size(m) = n
    BY <1>1, <1>2, <2>3 DEF Shuffled
  <2>5. h.heap[c].at <= h.heap[k].at /\ m.heap[k] = h.heap[c] /\ m.heap[c] = h.heap[k]
    BY <1>1, <1>3, <1>10, <2>2, <2>3
  <2>6. ASSUME NEW d \in 2 .. n, Parent(D, d) # c
        PROVE  m.heap[Parent(D, d)].at <= m.heap[d].at
    <3>. PICK q : q = Parent(D, d)
      OBVIOUS
    <3>1. q \in 1 .. d - 1 /\ d \in 1 .. n /\ q \in 1 .. n
      BY <1>2, <1>5
    <3>2. CASE q = k /\ d = c
      BY <2>5, <3>2
    <3>3. CASE q = k /\ d # c
      <4>1. d # k /\ m.heap[d] = h.heap[d]
        BY <2>3, <3>1, <3>3
      <4>2. h.heap[c].at <= h.heap[d].at
        BY <2>2, <3>3
      <4>. QED
        BY <2>5, <3>3, <4>1, <4>2
    <3>4. CASE q # k /\ d = k
      <4>1. k > 1 /\ h.heap[q].at <= h.heap[c].at
        BY <1>8, <2>2, <3>1, <3>4
      <4>2. m.heap[q] = h.heap[q]
        BY <2>3, <2>6, <3>1, <3>4
      <4>. QED
        BY <2>5, <3>4, <4>1, <4>2
    <3>5. CASE q # k /\ d # k
      <4>1. h.heap[q].at <= h.heap[d].at /\ d # c
        BY <1>8, <2>2, <3>5
      <4>2. m.heap[q] = h.heap[q] /\ m.heap[d] = h.heap[d]
        BY <2>3, <2>6, <3>1, <3>5, <4>1
      <4>. QED
        BY <4>1, <4>2
    <3>. QED
      BY <3>2, <3>3, <3>4, <3>5
  <2>7. ASSUME NEW d \in 2 .. n, Parent(D, d) = c
        PROVE  m.heap[Parent(D, c)].at <= m.heap[d].at
    <3>1. d > c /\ d \in 1 .. n /\ h.heap[c].at <= h.heap[d].at
      BY <1>2, <1>5, <1>8, <2>2, <2>7
    <3>2. m.heap[d] = h.heap[d]
      BY <2>2, <2>3, <3>1
    <3>. QED
      BY <2>2, <2>5, <3>1, <3>2
  <2>8. DownToDo(D, m, c)
    BY <2>4, <2>6, <2>7 DEF DownToDo
  <2>9. k0 + (i + 1) <= c \/ Ordered(D, m, n)
    <3>1. CASE k0 + i <= k
      BY <1>1, <1>2, <2>2, <3>1
    <3>2. CASE Ordered(D, h, n)
      <4>1. h.heap[k].at <= h.heap[c].at
        BY <2>2, <3>2 DEF Ordered
      <4>. QED
        BY <1>10, <4>1
    <3>. QED
      BY <1>1, <3>1, <3>2
  <2>. QED
    BY <1>1, <2>1, <2>2, <2>4, <2>8, <2>9 DEF DownState
<1>. QED
  BY <1>9, <1>10

LEMMA DownHeapFacts ==
  ASSUME NEW D \in {2, 4}, NEW W, NEW h, NEW k, NEW g \in Heaps(W), g = Placed(D, h, h.heap[k], k), Len(h.heap) = Size(g),
         InPlace(D, g), k \in 1 .. Size(g), DownToDo(D, g, k)
  PROVE  Shuffled(D, W, g, DownHeap(D, h, k)) /\ Ordered(D, DownHeap(D, h, k), Size(g))
<1>1. Size(g) \in Nat /\ Len(h.heap) \in Nat
  BY HeapFields
<1>2. PICK turn : /\ turn[0] = [h |-> g, k |-> k]
                  /\ \A i \in 1 .. Size(g) : turn[i] = DownTurn(D, turn[i - 1])
                  /\ DownHeap(D, h, k) = turn[Size(g)].h
  BY <1>1, DownHeapRuns, SMTT(60)
<1>. DEFINE I == [i \in 0 .. Size(g) |-> DownState(D, W, g, k, i)]
<1>3. Shuffled(D, W, g, g)
  BY DEF Shuffled
<1>4. turn[0] \in I[0]
  BY <1>1, <1>2, <1>3 DEF DownState
<1>5. ASSUME NEW i \in 1 .. Size(g), turn[i - 1] \in I[i - 1]
      PROVE  turn[i] \in I[i]
  <2>1. i - 1 \in Nat /\ i - 1 \in 0 .. Size(g) /\ (i - 1) + 1 = i
    BY <1>1
  <2>2. turn[i - 1] \in DownState(D, W, g, k, i - 1) /\ turn[i] = DownTurn(D, turn[i - 1])
    BY <1>2, <1>5, <2>1
  <2>3. DownTurn(D, turn[i - 1]) \in DownState(D, W, g, k, i)
    BY <1>1, <2>1, <2>2, DownTurnKeeps
  <2>. QED
    BY <1>1, <2>2, <2>3
<1>. HIDE DEF I
<1>6. turn[Size(g)] \in I[Size(g)]
  BY <1>1, <1>4, <1>5, LoopKeeps
<1>7. turn[Size(g)] \in DownState(D, W, g, k, Size(g))
  BY <1>1, <1>6 DEF I
<1>. QED
  BY <1>1, <1>2, <1>7 DEF DownState

\* Ordered but for the one in place k, which may be anywhere between
NearlyOrdered(D, h, k) ==
  /\ \A c \in 2 .. Size(h) : c # k /\ Parent(D, c) # k => h.heap[Parent(D, c)].at <= h.heap[c].at
  /\ k > 1 => \A c \in 2 .. Size(h) : Parent(D, c) = k => h.heap[Parent(D, k)].at <= h.heap[c].at

LEMMA AdjustHeapFacts ==
  ASSUME NEW D \in {2, 4}, NEW W, NEW h, NEW k, NEW g \in Heaps(W), g = Placed(D, h, h.heap[k], k), g.heap = h.heap,
         InPlace(D, g), k \in 1 .. Size(g), NearlyOrdered(D, g, k)
  PROVE  Shuffled(D, W, g, AdjustHeap(D, h, k)) /\ Ordered(D, AdjustHeap(D, h, k), Size(g))
<1>1. Size(g) \in Nat /\ Len(h.heap) = Size(g) /\ \A c \in 1 .. Size(g) : g.heap[c].at \in Int
  BY HeapFields DEF Size
<1>2. \A c \in 2 .. Size(g) : Parent(D, c) \in 1 .. c - 1
  BY ParentFacts
<1>3. CASE k > 1 /\ h.heap[k].at <= h.heap[Parent(D, k)].at
  <2>1. Parent(D, k) \in 1 .. Size(g) /\ k \in 2 .. Size(g)
    BY <1>1, <1>2, <1>3
  <2>2. ASSUME NEW c \in 2 .. Size(g), c # k
        PROVE  g.heap[Parent(D, c)].at <= g.heap[c].at
    <3>1. CASE Parent(D, c) = k
      <4>1. g.heap[Parent(D, k)].at <= g.heap[c].at
        BY <1>3, <3>1 DEF NearlyOrdered
      <4>2. c \in 1 .. Size(g)
        BY <1>1
      <4>. QED
        BY <1>1, <1>3, <2>1, <3>1, <4>1, <4>2, SMTT(60)
    <3>. QED
      BY <2>2, <3>1 DEF NearlyOrdered
  <2>3. UpToDo(D, g, k, Size(g))
    BY <2>2 DEF UpToDo, NearlyOrdered
  <2>4. AdjustHeap(D, h, k) = UpHeap(D, h, k) /\ Size(g) \in k .. Size(g)
    BY <1>1, <1>3 DEF AdjustHeap
  <2>. QED
    BY <1>1, <2>3, <2>4, UpHeapFacts
<1>4. CASE ~(k > 1 /\ h.heap[k].at <= h.heap[Parent(D, k)].at)
  <2>1. ASSUME NEW c \in 2 .. Size(g), Parent(D, c) # k
        PROVE  g.heap[Parent(D, c)].at <= g.heap[c].at
    <3>1. CASE c = k
      <4>1. c \in 1 .. Size(g) /\ Parent(D, c) \in 1 .. Size(g) /\ k > 1
        BY <1>1, <1>2, <3>1
      <4>. QED
        BY <1>1, <1>4, <3>1, <4>1
    <3>. QED
      BY <2>1, <3>1 DEF NearlyOrdered
  <2>2. DownToDo(D, g, k)
    BY <2>1 DEF DownToDo, NearlyOrdered
  <2>3. AdjustHeap(D, h, k) = DownHeap(D, h, k)
    BY <1>4 DEF AdjustHeap
  <2>. QED
    BY <1>1, <2>2, <2>3, DownHeapFacts
<1>. QED
  BY <1>3, <1>4

-------------------------------------------------------------------------------
(* What the operations do to a heap *)

\* The first one is the earliest.
LEMMA TopIsEarliest ==
  ASSUME NEW D \in {2, 4}, NEW W, NEW h, Shape(D, W, h), NEW e \in Entries(h)
  PROVE  1 \in 1 .. Size(h) /\ Top(h) \in Entries(h) /\ Top(h).at <= e.at
<1>1. Size(h) \in Nat /\ \A j \in 1 .. Size(h) : h.heap[j].at \in Int
  BY HeapFields DEF Shape
<1>. PICK k \in 1 .. Size(h) : e = h.heap[k]
  BY DEF Entries
<1>2. 1 \in 1 .. Size(h)
  BY <1>1
<1>. DEFINE S == {m \in Nat : \A j \in 1 .. Size(h) : j <= m => h.heap[1].at <= h.heap[j].at}
<1>3. 0 \in S
  BY <1>1
<1>4. ASSUME NEW m \in Nat, m \in S
      PROVE  m + 1 \in S
  <2>1. SUFFICES ASSUME m + 1 \in 1 .. Size(h) PROVE h.heap[1].at <= h.heap[m + 1].at
    BY <1>4
  <2>2. CASE m = 0
    BY <1>1, <1>2, <2>2
  <2>3. CASE m > 0
    <3>. PICK q : q = Parent(D, m + 1)
      OBVIOUS
    <3>1. q \in 1 .. m /\ m + 1 \in 2 .. Size(h)
      BY <1>1, <2>1, <2>3, ParentFacts
    <3>2. h.heap[q].at <= h.heap[m + 1].at
      BY <3>1 DEF Shape, Ordered
    <3>3. q \in 1 .. Size(h) /\ h.heap[1].at <= h.heap[q].at
      BY <1>1, <1>4, <2>1, <3>1
    <3>. QED
      BY <1>1, <1>2, <2>1, <3>2, <3>3
  <2>. QED
    BY <2>2, <2>3
<1>5. k \in S
  <2>. HIDE DEF S
  <2>. QED
    BY <1>3, <1>4, SetInduction
<1>. QED
  BY <1>1, <1>2, <1>5 DEF Top, Entries

\* Who is on a heap, and where
LEMMA ShapeFacts ==
  ASSUME NEW D \in {2, 4}, NEW W, NEW h, Shape(D, W, h)
  PROVE  /\ \A e \in Entries(h) : e \in Nodes(W) /\ e.w \in W /\ e.at \in Int /\ h.active[e.w] # 0
         /\ \A e, f \in Entries(h) : e.w = f.w => e = f
         /\ \A w \in W : h.active[w] # 0 => /\ \E e \in Entries(h) : e.w = w
                                            /\ Place(D, h, w) \in 1 .. Size(h)
                                            /\ h.heap[Place(D, h, w)].w = w
         /\ \A k \in 1 .. Size(h) : Place(D, h, h.heap[k].w) = k
<1>1. h \in Heaps(W) /\ Size(h) \in Nat /\ InPlace(D, h)
  BY HeapFields DEF Shape
<1>2. \A k \in 1 .. Size(h) : h.heap[k] \in Nodes(W) /\ h.heap[k].w \in W /\ h.heap[k].at \in Int
  BY <1>1, HeapFields
<1>3. ASSUME NEW k \in 1 .. Size(h)
      PROVE  h.active[h.heap[k].w] = k + D - 2 /\ h.active[h.heap[k].w] # 0 /\ Place(D, h, h.heap[k].w) = k
  <2>1. h.active[h.heap[k].w] = k + (D - 1) - 1
    BY <1>1 DEF InPlace, AtPlace, HEAP0
  <2>. QED
    BY <1>1, <2>1 DEF Place, HEAP0
<1>4. \A e \in Entries(h) : e \in Nodes(W) /\ e.w \in W /\ e.at \in Int /\ h.active[e.w] # 0
  BY <1>2, <1>3 DEF Entries
<1>5. ASSUME NEW e \in Entries(h), NEW f \in Entries(h), e.w = f.w
      PROVE  e = f
  BY <1>3, <1>5 DEF Entries
<1>6. ASSUME NEW w \in W, h.active[w] # 0
      PROVE  /\ \E e \in Entries(h) : e.w = w
             /\ Place(D, h, w) \in 1 .. Size(h)
             /\ h.heap[Place(D, h, w)].w = w
  <2>1. PICK e \in Entries(h) : e.w = w
    BY <1>6 DEF Shape
  <2>2. PICK k \in 1 .. Size(h) : e = h.heap[k]
    BY DEF Entries
  <2>. QED
    BY <1>3, <2>1, <2>2
<1>. QED
  BY <1>3, <1>4, <1>5, <1>6

\* What is shuffled, with the rest of the watchers off the heap, has the shape again.
LEMMA ShuffledShape ==
  ASSUME NEW D, NEW W, NEW g, NEW m, Shuffled(D, W, g, m), Ordered(D, m, Size(g)),
         \A w \in W : g.active[w] # 0 => \E e \in Entries(g) : e.w = w
  PROVE  Shape(D, W, m) /\ Entries(m) = Entries(g)
BY DEF Shape, Shuffled

LEMMA InsertFacts ==
  ASSUME NEW D \in {2, 4}, NEW W, NEW h, Shape(D, W, h), NEW w \in W, h.active[w] = 0, NEW at \in Int
  PROVE  /\ Shape(D, W, Insert(D, h, w, at))
         /\ Entries(Insert(D, h, w, at)) = Entries(h) \cup {[w |-> w, at |-> at]}
<1>. PICK n : n = Size(h)
  OBVIOUS
<1>a. PICK e : e = [w |-> w, at |-> at]
  OBVIOUS
<1>b. PICK longer : longer = [h EXCEPT !.heap = Append(@, e)]
  OBVIOUS
<1>c. PICK g : g = Placed(D, longer, e, n + 1)
  OBVIOUS
<1>d. PICK row : row = Append(h.heap, e)
  OBVIOUS
<1>1. /\ h.heap \in Seq(Nodes(W)) /\ h.active \in [W -> Nat] /\ n \in Nat /\ h \in Heaps(W)
      /\ \A k \in 1 .. n : h.heap[k] \in Nodes(W) /\ h.heap[k].w \in W /\ h.heap[k].at \in Int
  BY HeapFields DEF Shape
<1>2. e \in Nodes(W) /\ e.w = w
  BY <1>a DEF Nodes
<1>3. AtPlace(D, n + 1) \in Nat
  BY <1>1 DEF AtPlace, HEAP0
<1>4. longer = [heap |-> row, active |-> h.active]
  BY <1>1, <1>b, <1>d DEF Heaps
<1>5. /\ row \in Seq(Nodes(W)) /\ Len(row) = n + 1 /\ row[n + 1] = e
      /\ \A k \in 1 .. n : row[k] = h.heap[k]
  BY <1>1, <1>2, <1>d DEF Size
<1>6. [row EXCEPT ![n + 1] = e] = row
  BY <1>1, <1>5
<1>7. g = [heap |-> row, active |-> [h.active EXCEPT ![w] = AtPlace(D, n + 1)]]
  BY <1>2, <1>4, <1>6, <1>c DEF Placed, AtPlace
<1>8. /\ g \in Heaps(W) /\ Size(g) = n + 1 /\ g.heap[n + 1] = e
      /\ \A k \in 1 .. n : g.heap[k] = h.heap[k]
      /\ \A v \in W : g.active[v] = IF v = w THEN AtPlace(D, n + 1) ELSE h.active[v]
  <2>1. g \in Heaps(W)
    BY <1>1, <1>3, <1>5, <1>7 DEF Heaps
  <2>2. Size(g) = n + 1 /\ g.heap[n + 1] = e
    BY <1>5, <1>7 DEF Size
  <2>3. \A k \in 1 .. n : g.heap[k] = h.heap[k]
    BY <1>5, <1>7
  <2>4. \A v \in W : g.active[v] = IF v = w THEN AtPlace(D, n + 1) ELSE h.active[v]
    BY <1>1, <1>7
  <2>. QED
    BY <2>1, <2>2, <2>3, <2>4
<1>9. \A k \in 1 .. n : h.heap[k].w # w
  BY ShapeFacts DEF Entries
<1>10. InPlace(D, g)
  <2>. SUFFICES ASSUME NEW k \in 1 .. n + 1 PROVE g.active[g.heap[k].w] = AtPlace(D, k)
    BY <1>8 DEF InPlace
  <2>1. CASE k = n + 1
    BY <1>2, <1>8, <2>1
  <2>2. CASE k \in 1 .. n
    <3>1. h.active[h.heap[k].w] = AtPlace(D, k)
      BY <2>2 DEF Shape, InPlace
    <3>. QED
      BY <1>1, <1>8, <1>9, <2>2, <3>1, SMTT(60)
  <2>. QED
    BY <1>1, <2>1, <2>2
<1>11. Placed(D, g, g.heap[n + 1], n + 1) = g
  <2>1. [row EXCEPT ![n + 1] = e] = g.heap
    BY <1>6, <1>7
  <2>2. [g.active EXCEPT ![w] = AtPlace(D, n + 1)] = g.active
    BY <1>1, <1>7
  <2>3. g = [heap |-> g.heap, active |-> g.active]
    BY <1>7
  <2>. QED
    BY <1>2, <1>7, <1>8, <2>1, <2>2, <2>3 DEF Placed, AtPlace
<1>12. UpToDo(D, g, n + 1, n + 1)
  <2>1. \A c \in 2 .. n + 1 : Parent(D, c) \in 1 .. c - 1
    BY ParentFacts
  <2>2. ASSUME NEW c \in 2 .. n + 1, c # n + 1
        PROVE  g.heap[Parent(D, c)].at <= g.heap[c].at
    <3>1. c \in 2 .. n /\ c \in 1 .. n /\ Parent(D, c) \in 1 .. n
      BY <1>1, <2>1, <2>2
    <3>. QED
      BY <1>8, <3>1 DEF Shape, Ordered
  <2>3. \A c \in 2 .. n + 1 : Parent(D, c) # n + 1
    BY <1>1, <2>1
  <2>. QED
    BY <2>2, <2>3 DEF UpToDo
<1>13. Insert(D, h, w, at) = UpHeap(D, g, n + 1)
  <2>1. Len(longer.heap) = n + 1
    BY <1>4, <1>5
  <2>. QED
    BY <2>1, <1>a, <1>b, <1>c DEF Insert
<1>14. Shuffled(D, W, g, Insert(D, h, w, at)) /\ Ordered(D, Insert(D, h, w, at), Size(g))
  <2>1. n + 1 \in 1 .. Size(g) /\ n + 1 \in n + 1 .. Size(g) /\ Len(g.heap) = Size(g) /\ Size(g) = n + 1
    BY <1>1, <1>8 DEF Size
  <2>. QED
    BY <1>8, <1>10, <1>11, <1>12, <1>13, <2>1, UpHeapFacts
<1>15. Entries(g) = Entries(h) \cup {e}
  <2>1. 1 .. n + 1 = (1 .. n) \cup {n + 1}
    BY <1>1
  <2>. QED
    BY <1>8, <2>1 DEF Entries
<1>16. ASSUME NEW v \in W, g.active[v] # 0
       PROVE  \E f \in Entries(g) : f.w = v
  <2>1. CASE v = w
    BY <1>2, <1>15, <2>1
  <2>2. CASE v # w
    BY <1>8, <1>15, <1>16, <2>2 DEF Shape
  <2>. QED
    BY <2>1, <2>2
<1>. QED
  BY <1>14, <1>15, <1>16, <1>a, ShuffledShape

\* The last one moves to the place of the one that leaves.
LEMMA DeleteFacts ==
  ASSUME NEW D \in {2, 4}, NEW W, NEW h, Shape(D, W, h), NEW w \in W, h.active[w] # 0
  PROVE  /\ Shape(D, W, Delete(D, h, w))
         /\ Entries(Delete(D, h, w)) = {e \in Entries(h) : e.w # w}
<1>. PICK n : n = Size(h)
  OBVIOUS
<1>. PICK k : k = Place(D, h, w)
  OBVIOUS
<1>1. /\ h.heap \in Seq(Nodes(W)) /\ h.active \in [W -> Nat] /\ n \in Nat /\ h \in Heaps(W)
      /\ \A i \in 1 .. n : h.heap[i] \in Nodes(W) /\ h.heap[i].w \in W /\ h.heap[i].at \in Int
  BY HeapFields DEF Shape
<1>2. k \in 1 .. n /\ h.heap[k].w = w /\ \A i \in 1 .. n : Place(D, h, h.heap[i].w) = i
  BY ShapeFacts
<1>3. \A i, j \in 1 .. n : i # j => h.heap[i].w # h.heap[j].w
  BY <1>2
<1>4. /\ \A i \in 1 .. n : h.active[h.heap[i].w] = AtPlace(D, i)
      /\ \A c \in 2 .. n : h.heap[Parent(D, c)].at <= h.heap[c].at
      /\ \A v \in W : h.active[v] # 0 => \E e \in Entries(h) : e.w = v
  BY DEF Shape, InPlace, Ordered
<1>a. PICK row : row = SubSeq(h.heap, 1, n - 1)
  OBVIOUS
<1>5. row \in Seq(Nodes(W)) /\ Len(row) = n - 1 /\ \A i \in 1 .. n - 1 : row[i] = h.heap[i]
  <2>1. n - 1 \in Nat /\ n = Len(h.heap)
    BY <1>1, <1>2 DEF Size
  <2>2. row = [i \in 1 .. n - 1 |-> h.heap[i]]
    BY <1>1, <1>a, <2>1
  <2>3. \A i \in 1 .. n - 1 : h.heap[i] \in Nodes(W)
    BY <1>1, <2>1
  <2>. QED
    BY <2>1, <2>2, <2>3
\* g is the heap before the loop, moved the one after it.
<1>b. PICK moved : moved = IF k < n THEN AdjustHeap(D, [h EXCEPT !.heap = [row EXCEPT ![k] = h.heap[n]]], k)
                           ELSE [h EXCEPT !.heap = row]
  OBVIOUS
<1>6. Delete(D, h, w) = [moved EXCEPT !.active[w] = 0]
  BY <1>a, <1>b DEF Delete, Place, Size
<1>7. \E g : /\ Shuffled(D, W, g, moved) /\ Ordered(D, moved, Size(g))
             /\ Entries(g) = {e \in Entries(h) : e.w # w}
             /\ \A v \in W : g.active[v] # 0 => v = w \/ \E e \in Entries(g) : e.w = v
  <2>1. CASE k < n
    <3>a. PICK short : short = [row EXCEPT ![k] = h.heap[n]]
      OBVIOUS
    <3>b. PICK u : u = [h EXCEPT !.heap = short]
      OBVIOUS
    <3>c. PICK g : g = Placed(D, u, u.heap[k], k)
      OBVIOUS
    <3>1. k \in 1 .. n - 1 /\ n \in 1 .. n /\ n - 1 \in Nat
      BY <1>1, <1>2, <2>1
    <3>2. /\ short \in Seq(Nodes(W)) /\ Len(short) = n - 1
          /\ \A i \in 1 .. n - 1 : short[i] = IF i = k THEN h.heap[n] ELSE h.heap[i]
      BY <1>1, <1>5, <3>1, <3>a
    <3>3. u = [heap |-> short, active |-> h.active]
      BY <1>1, <3>b DEF Heaps
    <3>4. [short EXCEPT ![k] = h.heap[n]] = short
      BY <3>1, <3>2
    <3>5. g = [heap |-> short, active |-> [h.active EXCEPT ![h.heap[n].w] = AtPlace(D, k)]]
      BY <3>1, <3>2, <3>3, <3>4, <3>c DEF Placed, AtPlace
    <3>6. /\ g \in Heaps(W) /\ Size(g) = n - 1 /\ g.heap = u.heap
          /\ \A i \in 1 .. n - 1 : g.heap[i] = IF i = k THEN h.heap[n] ELSE h.heap[i]
          /\ \A v \in W : g.active[v] = IF v = h.heap[n].w THEN AtPlace(D, k) ELSE h.active[v]
      <4>1. AtPlace(D, k) \in Nat
        BY <1>2 DEF AtPlace, HEAP0
      <4>2. g \in Heaps(W)
        BY <1>1, <3>1, <3>2, <3>5, <4>1 DEF Heaps
      <4>3. Size(g) = n - 1 /\ g.heap = u.heap /\ \A i \in 1 .. n - 1 : g.heap[i] = IF i = k THEN h.heap[n] ELSE h.heap[i]
        BY <3>2, <3>3, <3>5 DEF Size
      <4>4. \A v \in W : g.active[v] = IF v = h.heap[n].w THEN AtPlace(D, k) ELSE h.active[v]
        BY <1>1, <3>5
      <4>. QED
        BY <4>2, <4>3, <4>4
    <3>7. InPlace(D, g)
      <4>. SUFFICES ASSUME NEW i \in 1 .. n - 1 PROVE g.active[g.heap[i].w] = AtPlace(D, i)
        BY <3>6 DEF InPlace
      <4>1. CASE i = k
        BY <1>1, <3>1, <3>6, <4>1
      <4>2. CASE i # k
        <5>1. i \in 1 .. n /\ i # n
          BY <1>1
        <5>2. h.active[h.heap[i].w] = AtPlace(D, i) /\ g.heap[i] = h.heap[i]
          BY <1>4, <3>6, <4>2, <5>1
        <5>3. h.heap[i].w \in W /\ h.heap[i].w # h.heap[n].w
          BY <1>1, <1>3, <3>1, <5>1
        <5>. QED
          BY <3>6, <5>2, <5>3
      <4>. QED
        BY <4>1, <4>2
    <3>8. NearlyOrdered(D, g, k)
      <4>1. \A c \in 2 .. n : Parent(D, c) \in 1 .. c - 1
        BY ParentFacts
      <4>2. \A c \in 2 .. n - 1 : c \in 2 .. n /\ c \in 1 .. n - 1 /\ Parent(D, c) \in 1 .. n - 1
        BY <1>1, <4>1
      <4>3. ASSUME NEW c \in 2 .. n - 1, c # k, Parent(D, c) # k
            PROVE  g.heap[Parent(D, c)].at <= g.heap[c].at
        BY <1>4, <3>6, <4>2, <4>3
      <4>4. ASSUME k > 1, NEW c \in 2 .. n - 1, Parent(D, c) = k
            PROVE  g.heap[Parent(D, k)].at <= g.heap[c].at
        <5>. PICK q : q = Parent(D, k)
          OBVIOUS
        <5>1. k \in 2 .. n - 1 /\ k \in 1 .. n /\ q \in 1 .. n - 1 /\ q \in 1 .. n /\ c \in 1 .. n /\ q < k /\ k < c
          BY <1>1, <3>1, <4>1, <4>2, <4>4, SMTT(60)
        <5>2. h.heap[q].at <= h.heap[k].at /\ h.heap[k].at <= h.heap[c].at
          BY <1>4, <4>2, <4>4, <5>1
        <5>3. h.heap[q].at <= h.heap[c].at
          <6>1. h.heap[q].at \in Int /\ h.heap[k].at \in Int /\ h.heap[c].at \in Int
            BY <1>1, <5>1
          <6>. QED
            BY <5>2, <6>1
        <5>4. g.heap[q] = h.heap[q] /\ g.heap[c] = h.heap[c]
          BY <3>6, <4>2, <5>1
        <5>. QED
          BY <5>3, <5>4
      <4>. QED
        BY <3>6, <4>3, <4>4 DEF NearlyOrdered
    <3>9. Shuffled(D, W, g, moved) /\ Ordered(D, moved, Size(g))
      <4>1. moved = AdjustHeap(D, u, k)
        BY <1>b, <2>1, <3>a, <3>b
      <4>2. k \in 1 .. Size(g) /\ g = Placed(D, u, u.heap[k], k) /\ g.heap = u.heap /\ g \in Heaps(W)
        BY <3>1, <3>6, <3>c
      <4>. QED
        BY <3>7, <3>8, <4>1, <4>2, AdjustHeapFacts
    <3>10. Entries(g) = {e \in Entries(h) : e.w # w}
      <4>1. ASSUME NEW i \in 1 .. n - 1
            PROVE  g.heap[i] \in {e \in Entries(h) : e.w # w}
        <5>1. i \in 1 .. n /\ i # n
          BY <1>1
        <5>2. CASE i = k
          BY <1>2, <1>3, <3>1, <3>6, <5>2 DEF Entries
        <5>3. CASE i # k
          BY <1>2, <1>3, <3>6, <5>1, <5>3 DEF Entries
        <5>. QED
          BY <5>2, <5>3
      <4>2. ASSUME NEW i \in 1 .. n, h.heap[i].w # w
            PROVE  \E j \in 1 .. n - 1 : g.heap[j] = h.heap[i]
        <5>1. i # k
          BY <1>2, <4>2
        <5>2. CASE i = n
          BY <3>1, <3>6, <5>2
        <5>3. CASE i # n
          <6>1. i \in 1 .. n - 1
            BY <1>1, <5>3
          <6>. QED
            BY <3>6, <5>1, <6>1
        <5>. QED
          BY <5>2, <5>3
      <4>. QED
        BY <3>6, <4>1, <4>2 DEF Entries
    <3>11. ASSUME NEW v \in W, g.active[v] # 0, v # w
           PROVE  \E e \in Entries(g) : e.w = v
      <4>1. CASE v = h.heap[n].w
        <5>1. h.heap[n] \in Entries(h)
          BY <3>1 DEF Entries
        <5>. QED
          BY <3>10, <3>11, <4>1, <5>1
      <4>2. CASE v # h.heap[n].w
        BY <1>4, <3>6, <3>10, <3>11, <4>2
      <4>. QED
        BY <4>1, <4>2
    <3>. QED
      BY <3>9, <3>10, <3>11
  <2>2. CASE ~(k < n)
    <3>1. k = n /\ n - 1 \in Nat
      BY <1>1, <1>2, <2>2
    <3>2. moved = [heap |-> row, active |-> h.active]
      BY <1>1, <1>b, <2>2 DEF Heaps
    <3>3. moved \in Heaps(W) /\ Size(moved) = n - 1 /\ \A i \in 1 .. n - 1 : moved.heap[i] = h.heap[i] /\ i \in 1 .. n
      BY <1>1, <1>5, <3>2 DEF Heaps, Size
    <3>4. InPlace(D, moved)
      BY <1>4, <3>2, <3>3 DEF InPlace
    <3>5. Entries(moved) = {e \in Entries(h) : e.w # w}
      <4>1. \A i \in 1 .. n - 1 : i # n
        BY <1>1
      <4>2. \A i \in 1 .. n : h.heap[i].w # w => i \in 1 .. n - 1
        BY <1>1, <1>2, <3>1
      <4>3. \A i \in 1 .. n - 1 : h.heap[i].w # w
        BY <1>2, <1>3, <3>1, <3>3, <4>1
      <4>. QED
        BY <3>3, <4>2, <4>3 DEF Entries
    <3>6. Ordered(D, moved, Size(moved))
      <4>. SUFFICES ASSUME NEW c \in 2 .. n - 1 PROVE moved.heap[Parent(D, c)].at <= moved.heap[c].at
        BY <3>3 DEF Ordered
      <4>1. c \in 2 .. n /\ c \in 1 .. n - 1 /\ Parent(D, c) \in 1 .. n - 1
        <5>1. Parent(D, c) \in 1 .. c - 1
          BY ParentFacts
        <5>. QED
          BY <1>1, <5>1
      <4>. QED
        BY <1>4, <3>3, <4>1
    <3>7. Shuffled(D, W, moved, moved)
      BY <3>3, <3>4 DEF Shuffled
    <3>8. ASSUME NEW v \in W, moved.active[v] # 0, v # w
          PROVE  \E e \in Entries(moved) : e.w = v
      BY <1>4, <3>2, <3>5, <3>8
    <3>. QED
      BY <3>5, <3>6, <3>7, <3>8
  <2>. QED
    BY <2>1, <2>2
<1>8. PICK g : /\ Shuffled(D, W, g, moved) /\ Ordered(D, moved, Size(g))
               /\ Entries(g) = {e \in Entries(h) : e.w # w}
               /\ \A v \in W : g.active[v] # 0 => v = w \/ \E e \in Entries(g) : e.w = v
  BY <1>7
<1>. PICK m : m = Delete(D, h, w)
  OBVIOUS
<1>9. /\ moved \in Heaps(W) /\ InPlace(D, moved) /\ Size(moved) = Size(g) /\ Entries(moved) = Entries(g)
      /\ \A v \in W : (\A e \in Entries(g) : e.w # v) => moved.active[v] = g.active[v]
  BY <1>8 DEF Shuffled
<1>10. m = [heap |-> moved.heap, active |-> [moved.active EXCEPT ![w] = 0]] /\ moved.active \in [W -> Nat]
  BY <1>6, <1>9 DEF Heaps
<1>11. /\ m \in Heaps(W) /\ m.heap = moved.heap
       /\ \A v \in W : m.active[v] = IF v = w THEN 0 ELSE moved.active[v]
  BY <1>9, <1>10 DEF Heaps
<1>12. Size(m) = Size(g) /\ Entries(m) = Entries(g) /\ Ordered(D, m, Size(g))
  <2>1. Size(m) = Size(moved)
    BY <1>11 DEF Size
  <2>2. Entries(m) = Entries(moved)
    BY <1>11, <2>1 DEF Entries
  <2>3. Ordered(D, m, Size(g))
    BY <1>8, <1>11 DEF Ordered
  <2>. QED
    BY <1>9, <2>1, <2>2, <2>3
<1>13. InPlace(D, m)
  <2>. SUFFICES ASSUME NEW i \in 1 .. Size(m) PROVE m.active[m.heap[i].w] = AtPlace(D, i)
    BY DEF InPlace
  <2>1. m.heap[i] \in Entries(h) /\ m.heap[i].w # w
    BY <1>8, <1>12 DEF Entries
  <2>2. m.heap[i].w \in W
    BY <2>1, ShapeFacts
  <2>3. moved.active[moved.heap[i].w] = AtPlace(D, i)
    BY <1>9, <1>12 DEF InPlace
  <2>. QED
    BY <1>11, <2>1, <2>2, <2>3
<1>14. ASSUME NEW v \in W, m.active[v] # 0
       PROVE  \E e \in Entries(m) : e.w = v
  BY <1>8, <1>9, <1>11, <1>12, <1>14
<1>. QED
  BY <1>8, <1>11, <1>12, <1>13, <1>14 DEF Shape

\* Nothing happens to one that is written where it is.
LEMMA PlacedAgain ==
  ASSUME NEW D \in {2, 4}, NEW W, NEW h \in Heaps(W), InPlace(D, h), NEW k \in 1 .. Size(h)
  PROVE  Placed(D, h, h.heap[k], k) = h
<1>1. h.heap \in Seq(Nodes(W)) /\ h.active \in [W -> Nat] /\ h.heap[k].w \in W
  BY HeapFields
<1>2. h = [heap |-> h.heap, active |-> h.active]
  BY DEF Heaps
<1>3. h.active[h.heap[k].w] = AtPlace(D, k)
  BY DEF InPlace
<1>4. [h.heap EXCEPT ![k] = h.heap[k]] = h.heap /\ [h.active EXCEPT ![h.heap[k].w] = AtPlace(D, k)] = h.active
  BY <1>1, <1>3, SMTT(60)
<1>5. Placed(D, h, h.heap[k], k) = [heap |-> [h.heap EXCEPT ![k] = h.heap[k]], active |-> [h.active EXCEPT ![h.heap[k].w] = AtPlace(D, k)]]
  BY <1>2 DEF Placed, AtPlace
<1>. QED
  BY <1>2, <1>4, <1>5

\* The one whose time has changed is the only one out of order.
LEMMA CachedFacts ==
  ASSUME NEW D \in {2, 4}, NEW W, NEW h, Shape(D, W, h), NEW w \in W, h.active[w] # 0, NEW at \in Int,
         NEW u, u = Cached(D, h, w, at), NEW k, k = Place(D, h, w)
  PROVE  /\ u \in Heaps(W) /\ InPlace(D, u) /\ Size(u) = Size(h) /\ k \in 1 .. Size(u)
         /\ Placed(D, u, u.heap[k], k) = u /\ NearlyOrdered(D, u, k)
         /\ Entries(u) = {e \in Entries(h) : e.w # w} \cup {[w |-> w, at |-> at]}
         /\ \A v \in W : u.active[v] # 0 => \E e \in Entries(u) : e.w = v
<1>. PICK n : n = Size(h)
  OBVIOUS
<1>1. /\ h.heap \in Seq(Nodes(W)) /\ h.active \in [W -> Nat] /\ n \in Nat /\ h \in Heaps(W)
      /\ \A i \in 1 .. n : h.heap[i] \in Nodes(W) /\ h.heap[i].w \in W /\ h.heap[i].at \in Int
  BY HeapFields DEF Shape
<1>2. k \in 1 .. n /\ h.heap[k].w = w /\ \A i \in 1 .. n : Place(D, h, h.heap[i].w) = i
  BY ShapeFacts
<1>3. \A i \in 1 .. n : i # k => h.heap[i].w # w
  BY <1>2
<1>4. /\ \A i \in 1 .. n : h.active[h.heap[i].w] = AtPlace(D, i)
      /\ \A c \in 2 .. n : h.heap[Parent(D, c)].at <= h.heap[c].at
      /\ \A v \in W : h.active[v] # 0 => \E e \in Entries(h) : e.w = v
  BY DEF Shape, InPlace, Ordered
<1>a. PICK e : e = [w |-> w, at |-> at]
  OBVIOUS
<1>b. PICK row : row = [h.heap EXCEPT ![k] = e]
  OBVIOUS
<1>5. e \in Nodes(W) /\ e.w = w /\ e = [h.heap[k] EXCEPT !.at = at]
  <2>1. h.heap[k] = [w |-> w, at |-> h.heap[k].at]
    BY <1>1, <1>2 DEF Nodes
  <2>2. [h.heap[k] EXCEPT !.at = at] = [w |-> w, at |-> at]
    BY <2>1
  <2>. QED
    BY <1>a, <2>2 DEF Nodes
<1>6. row \in Seq(Nodes(W)) /\ Len(row) = n /\ \A i \in 1 .. n : row[i] = IF i = k THEN e ELSE h.heap[i]
  BY <1>1, <1>2, <1>5, <1>b DEF Size
<1>7. u = [heap |-> row, active |-> h.active]
  <2>1. u = [h EXCEPT !.heap = [h.heap EXCEPT ![k] = [h.heap[k] EXCEPT !.at = at]]]
    BY DEF Cached
  <2>2. u = [h EXCEPT !.heap = row]
    BY <1>5, <1>b, <2>1
  <2>. QED
    BY <1>1, <2>2 DEF Heaps
<1>8. u \in Heaps(W) /\ Size(u) = n /\ u.active = h.active /\ \A i \in 1 .. n : u.heap[i] = IF i = k THEN e ELSE h.heap[i]
  BY <1>1, <1>6, <1>7 DEF Heaps, Size
<1>9. InPlace(D, u)
  <2>1. \A i \in 1 .. n : u.heap[i].w = h.heap[i].w
    BY <1>2, <1>5, <1>8
  <2>. QED
    BY <1>4, <1>8, <2>1 DEF InPlace
<1>10. Placed(D, u, u.heap[k], k) = u
  BY <1>2, <1>8, <1>9, PlacedAgain
<1>11. NearlyOrdered(D, u, k)
  <2>1. \A c \in 2 .. n : Parent(D, c) \in 1 .. c - 1
    BY ParentFacts
  <2>2. \A c \in 2 .. n : c \in 1 .. n /\ Parent(D, c) \in 1 .. n
    BY <1>1, <2>1
  <2>3. ASSUME NEW c \in 2 .. n, c # k, Parent(D, c) # k
        PROVE  u.heap[Parent(D, c)].at <= u.heap[c].at
    BY <1>4, <1>8, <2>2, <2>3
  <2>4. ASSUME k > 1, NEW c \in 2 .. n, Parent(D, c) = k
        PROVE  u.heap[Parent(D, k)].at <= u.heap[c].at
    <3>. PICK q : q = Parent(D, k)
      OBVIOUS
    <3>1. k \in 2 .. n /\ k \in 1 .. n /\ q \in 1 .. n /\ c \in 1 .. n /\ q < k /\ k < c
      BY SMTT(60), <1>1, <1>2, <2>1, <2>2, <2>4
    <3>2. h.heap[q].at <= h.heap[k].at /\ h.heap[k].at <= h.heap[c].at
      BY <1>4, <2>4, <3>1
    <3>3. h.heap[q].at <= h.heap[c].at
      <4>1. h.heap[q].at \in Int /\ h.heap[k].at \in Int /\ h.heap[c].at \in Int
        BY <1>1, <3>1
      <4>. QED
        BY <3>2, <4>1
    <3>4. u.heap[q] = h.heap[q] /\ u.heap[c] = h.heap[c]
      BY <1>8, <3>1
    <3>. QED
      BY <3>3, <3>4
  <2>. QED
    BY <1>8, <2>3, <2>4 DEF NearlyOrdered
<1>12. Entries(u) = {f \in Entries(h) : f.w # w} \cup {e}
  <2>1. ASSUME NEW i \in 1 .. n
        PROVE  u.heap[i] \in {f \in Entries(h) : f.w # w} \cup {e}
    BY <1>3, <1>8 DEF Entries
  <2>2. e = u.heap[k]
    BY <1>2, <1>8
  <2>3. \A i \in 1 .. n : h.heap[i].w # w => h.heap[i] = u.heap[i]
    BY <1>2, <1>8
  <2>. QED
    BY <1>2, <1>8, <2>1, <2>2, <2>3 DEF Entries
<1>13. ASSUME NEW v \in W, u.active[v] # 0
       PROVE  \E f \in Entries(u) : f.w = v
  <2>1. PICK f \in Entries(h) : f.w = v
    BY <1>4, <1>8, <1>13
  <2>2. CASE v = w
    BY <1>5, <1>12, <2>2
  <2>3. CASE v # w
    BY <1>12, <2>1, <2>3
  <2>. QED
    BY <2>2, <2>3
<1>. QED
  BY <1>2, <1>8, <1>9, <1>10, <1>11, <1>12, <1>13, <1>a

LEMMA AdjustedFacts ==
  ASSUME NEW D \in {2, 4}, NEW W, NEW h, Shape(D, W, h), NEW w \in W, h.active[w] # 0, NEW at \in Int
  PROVE  /\ Shape(D, W, Adjusted(D, h, w, at))
         /\ Entries(Adjusted(D, h, w, at)) = {e \in Entries(h) : e.w # w} \cup {[w |-> w, at |-> at]}
<1>a. PICK u, k : u = Cached(D, h, w, at) /\ k = Place(D, h, w)
  OBVIOUS
<1>1. /\ u \in Heaps(W) /\ InPlace(D, u) /\ Size(u) = Size(h) /\ k \in 1 .. Size(u)
      /\ Placed(D, u, u.heap[k], k) = u /\ NearlyOrdered(D, u, k)
      /\ Entries(u) = {e \in Entries(h) : e.w # w} \cup {[w |-> w, at |-> at]}
      /\ \A v \in W : u.active[v] # 0 => \E e \in Entries(u) : e.w = v
  BY <1>a, CachedFacts
<1>2. Shuffled(D, W, u, AdjustHeap(D, u, k)) /\ Ordered(D, AdjustHeap(D, u, k), Size(u))
  BY <1>1, AdjustHeapFacts
<1>3. Adjusted(D, h, w, at) = AdjustHeap(D, u, k)
  BY <1>a DEF Adjusted
<1>. QED
  BY <1>1, <1>2, <1>3, ShuffledShape

\* The earliest has got another time.
LEMMA SunkFacts ==
  ASSUME NEW D \in {2, 4}, NEW W, NEW h, Shape(D, W, h), h.heap # <<>>, NEW w, w = Top(h).w, NEW at \in Int
  PROVE  /\ w \in W
         /\ Shape(D, W, Sunk(D, h, w, at))
         /\ Entries(Sunk(D, h, w, at)) = {e \in Entries(h) : e.w # w} \cup {[w |-> w, at |-> at]}
<1>a. PICK u, k : u = Cached(D, h, w, at) /\ k = Place(D, h, w)
  OBVIOUS
<1>1. 1 \in 1 .. Size(h)
  <2>1. h.heap \in Seq(Nodes(W)) /\ Size(h) \in Nat
    BY HeapFields DEF Shape
  <2>. QED
    BY <2>1 DEF Size
<1>2. w \in W /\ h.active[w] # 0 /\ k = 1
  BY <1>1, <1>a, ShapeFacts DEF Top, Entries
<1>3. /\ u \in Heaps(W) /\ InPlace(D, u) /\ Size(u) = Size(h) /\ k \in 1 .. Size(u)
      /\ Placed(D, u, u.heap[k], k) = u /\ NearlyOrdered(D, u, k)
      /\ Entries(u) = {e \in Entries(h) : e.w # w} \cup {[w |-> w, at |-> at]}
      /\ \A v \in W : u.active[v] # 0 => \E e \in Entries(u) : e.w = v
  BY <1>2, <1>a, CachedFacts
<1>4. DownToDo(D, u, k)
  BY <1>2, <1>3 DEF NearlyOrdered, DownToDo
<1>5. Shuffled(D, W, u, DownHeap(D, u, k)) /\ Ordered(D, DownHeap(D, u, k), Size(u))
  BY <1>3, <1>4, DownHeapFacts DEF Size
<1>6. Sunk(D, h, w, at) = DownHeap(D, u, k)
  BY <1>a DEF Sunk
<1>. QED
  BY <1>2, <1>3, <1>5, <1>6, ShuffledShape

\* All times are computed again; the places are as before.
LEMMA AllCachedFacts ==
  ASSUME NEW D \in {2, 4}, NEW W, NEW h \in Heaps(W), InPlace(D, h), NEW at, \A w \in W : at[w] \in Int,
         NEW u, u = AllCached(h, at)
  PROVE  /\ u \in Heaps(W) /\ InPlace(D, u) /\ Size(u) = Size(h) /\ u.active = h.active
         /\ \A k \in 1 .. Size(h) : u.heap[k] = [w |-> h.heap[k].w, at |-> at[h.heap[k].w]]
         /\ Entries(u) = {[w |-> e.w, at |-> at[e.w]] : e \in Entries(h)}
<1>. PICK n : n = Size(h)
  OBVIOUS
<1>1. /\ h.heap \in Seq(Nodes(W)) /\ h.active \in [W -> Nat] /\ n \in Nat
      /\ \A k \in 1 .. n : h.heap[k] \in Nodes(W) /\ h.heap[k].w \in W /\ h.heap[k].at \in Int
  BY HeapFields
<1>a. PICK row : row = [k \in 1 .. n |-> [h.heap[k] EXCEPT !.at = at[h.heap[k].w]]]
  OBVIOUS
<1>2. \A k \in 1 .. n : row[k] = [w |-> h.heap[k].w, at |-> at[h.heap[k].w]] /\ row[k] \in Nodes(W)
  <2>. SUFFICES ASSUME NEW k \in 1 .. n
                PROVE  row[k] = [w |-> h.heap[k].w, at |-> at[h.heap[k].w]] /\ row[k] \in Nodes(W)
    OBVIOUS
  <2>. PICK e : e = h.heap[k]
    OBVIOUS
  <2>1. row[k] = [e EXCEPT !.at = at[e.w]]
    BY <1>a
  <2>2. e = [w |-> e.w, at |-> e.at] /\ e.w \in W
    BY <1>1 DEF Nodes
  <2>. QED
    BY <2>1, <2>2 DEF Nodes
<1>3. row \in Seq(Nodes(W)) /\ Len(row) = n
  <2>1. row \in [1 .. n -> Nodes(W)]
    BY <1>2, <1>a
  <2>. QED
    BY <1>1, <2>1
<1>b. PICK all : all = SubSeq(row, 1, n)
  OBVIOUS
<1>4. all = row
  BY <1>1, <1>3, <1>a, <1>b
<1>5. u = [heap |-> row, active |-> h.active]
  <2>1. u = [h EXCEPT !.heap = all]
    BY <1>a, <1>b DEF AllCached, Size
  <2>. QED
    BY <1>4, <2>1 DEF Heaps
<1>6. u \in Heaps(W) /\ Size(u) = n /\ u.active = h.active /\ u.heap = row
  BY <1>1, <1>3, <1>5 DEF Heaps, Size
<1>7. InPlace(D, u)
  <2>1. ASSUME NEW k \in 1 .. n
        PROVE  u.heap[k].w = h.heap[k].w
    <3>1. u.heap[k] = [w |-> h.heap[k].w, at |-> at[h.heap[k].w]]
      BY <1>2, <1>6
    <3>. QED
      BY <3>1
  <2>. QED
    BY <1>6, <2>1 DEF InPlace
<1>8. Entries(u) = {[w |-> e.w, at |-> at[e.w]] : e \in Entries(h)}
  <2>1. \A k \in 1 .. n : u.heap[k] = [w |-> h.heap[k].w, at |-> at[h.heap[k].w]]
    BY <1>2, <1>6
  <2>2. Entries(u) = {u.heap[k] : k \in 1 .. n} /\ Entries(h) = {h.heap[k] : k \in 1 .. n}
    BY <1>6 DEF Entries
  <2>3. \A k \in 1 .. n : u.heap[k] \in {[w |-> e.w, at |-> at[e.w]] : e \in Entries(h)}
    BY <2>1, <2>2
  <2>4. \A k \in 1 .. n : [w |-> h.heap[k].w, at |-> at[h.heap[k].w]] \in Entries(u)
    BY <2>1, <2>2
  <2>. QED
    BY <2>2, <2>3, <2>4
<1>. QED
  BY <1>2, <1>6, <1>7, <1>8

\* The turns of the loop of reheap
ReheapTurns(D, h, turn) ==
  /\ turn[0] = h
  /\ \A i \in 1 .. Len(h.heap) : turn[i] = UpHeap(D, turn[i - 1], i)
  /\ Reheap(D, h) = turn[Len(h.heap)]

LEMMA ReheapRuns ==
  ASSUME NEW D, NEW h, Len(h.heap) \in Nat
  PROVE  \E turn : ReheapTurns(D, h, turn)
<1>. DEFINE Is(f, m) == f = [k \in 0 .. m |-> IF k = 0 THEN h ELSE UpHeap(D, f[k - 1], k)]
            S == {m \in Nat : \E f : Is(f, m)}
<1>1. 0 \in S
  <2>1. Is([k \in 0 .. 0 |-> h], 0)
    OBVIOUS
  <2>. QED
    BY <2>1
<1>2. ASSUME NEW m \in Nat, m \in S
      PROVE  m + 1 \in S
  <2>1. PICK f : Is(f, m)
    BY <1>2
  <2>. DEFINE g == [k \in 0 .. m + 1 |-> IF k = m + 1 THEN UpHeap(D, f[m], k) ELSE f[k]]
  <2>2. \A k \in 0 .. m + 1 : g[k] = IF k = 0 THEN h ELSE UpHeap(D, g[k - 1], k)
    BY <2>1
  <2>3. Is(g, m + 1)
    BY <2>2
  <2>. HIDE DEF Is, g
  <2>. QED
    BY <2>3
<1>3. Len(h.heap) \in S
  <2>. HIDE DEF S
  <2>. QED
    BY <1>1, <1>2, SetInduction
<1>. DEFINE turn == CHOOSE f : Is(f, Len(h.heap))
<1>4. Is(turn, Len(h.heap))
  BY <1>3, Zenon
<1>5. Reheap(D, h) = turn[Len(h.heap)]
  BY Zenon DEF Reheap
<1>. HIDE DEF turn
<1>6. turn[0] = h
  BY <1>4
<1>7. ASSUME NEW i \in 1 .. Len(h.heap)
      PROVE  turn[i] = UpHeap(D, turn[i - 1], i)
  <2>1. i \in 0 .. Len(h.heap) /\ i # 0
    OBVIOUS
  <2>. QED
    BY <1>4, <2>1, Zenon
<1>. QED
  BY <1>5, <1>6, <1>7 DEF ReheapTurns

\* Whatever the order of an array, reheap makes a heap of it.
LEMMA ReheapFacts ==
  ASSUME NEW D \in {2, 4}, NEW W, NEW h \in Heaps(W), InPlace(D, h)
  PROVE  Shuffled(D, W, h, Reheap(D, h)) /\ Ordered(D, Reheap(D, h), Size(h))
<1>. PICK n : n = Size(h)
  OBVIOUS
<1>1. n \in Nat /\ Len(h.heap) = n
  BY HeapFields DEF Size
<1>a. PICK turn : ReheapTurns(D, h, turn)
  BY <1>1, ReheapRuns
<1>2. /\ turn[0] = h
      /\ \A i \in 1 .. n : turn[i] = UpHeap(D, turn[i - 1], i)
      /\ Reheap(D, h) = turn[n]
  BY <1>1, <1>a DEF ReheapTurns
<1>. DEFINE J(i) == {m \in Heaps(W) : Shuffled(D, W, h, m) /\ Ordered(D, m, i)}
            I == [i \in 0 .. n |-> J(i)]
<1>3. turn[0] \in I[0]
  <2>1. Shuffled(D, W, h, h)
    BY DEF Shuffled
  <2>2. Ordered(D, h, 0)
    BY DEF Ordered
  <2>. QED
    BY <1>1, <1>2, <2>1, <2>2
<1>4. ASSUME NEW i \in 1 .. n, turn[i - 1] \in I[i - 1]
      PROVE  turn[i] \in I[i]
  <2>. PICK m : m = turn[i - 1]
    OBVIOUS
  <2>1. m \in Heaps(W) /\ Shuffled(D, W, h, m) /\ Ordered(D, m, i - 1)
    BY <1>1, <1>4
  <2>2. /\ InPlace(D, m) /\ Size(m) = n /\ Entries(m) = Entries(h)
        /\ \A w \in W : (\A e \in Entries(h) : e.w # w) => m.active[w] = h.active[w]
    BY <2>1 DEF Shuffled
  <2>3. Placed(D, m, m.heap[i], i) = m
    BY <2>1, <2>2, PlacedAgain
  <2>4. UpToDo(D, m, i, i)
    <3>1. \A c \in 2 .. i : Parent(D, c) \in 1 .. c - 1
      BY ParentFacts
    <3>2. \A c \in 2 .. i : c # i => c \in 2 .. i - 1
      OBVIOUS
    <3>3. \A c \in 2 .. i : Parent(D, c) # i
      BY <3>1
    <3>. QED
      BY <2>1, <3>2, <3>3 DEF UpToDo, Ordered
  <2>. PICK u : u = UpHeap(D, m, i)
    OBVIOUS
  <2>5. Shuffled(D, W, m, u) /\ Ordered(D, u, i)
    <3>1. i \in i .. Size(m) /\ i \in 1 .. Size(m) /\ Len(m.heap) = Size(m)
      BY <1>1, <2>2 DEF Size
    <3>. QED
      BY <2>1, <2>2, <2>3, <2>4, <3>1, UpHeapFacts
  <2>6. Shuffled(D, W, h, u) /\ u \in Heaps(W)
    BY <2>2, <2>5 DEF Shuffled
  <2>7. turn[i] = u /\ I[i] = J(i)
    BY <1>1, <1>2
  <2>. QED
    BY <2>5, <2>6, <2>7
<1>. HIDE DEF I
<1>5. turn[n] \in I[n]
  BY <1>1, <1>3, <1>4, LoopKeeps
<1>6. turn[n] \in J(n)
  BY <1>1, <1>5 DEF I
<1>. QED
  BY <1>1, <1>2, <1>6

\* The members of a finite set in some order
LEMMA InSomeOrderFacts ==
  ASSUME NEW S, IsFiniteSet(S), NEW f, f = InSomeOrder(S)
  PROVE  /\ Cardinality(S) \in Nat
         /\ \A i \in 1 .. Cardinality(S) : f[i] \in S
         /\ \A i, j \in 1 .. Cardinality(S) : f[i] = f[j] => i = j
         /\ \A x \in S : \E i \in 1 .. Cardinality(S) : f[i] = x
<1>. PICK n : n = Cardinality(S)
  OBVIOUS
<1>1. n \in Nat
  BY FS_CardinalityType
<1>. DEFINE Free(g, i) == CHOOSE w \in S : \A j \in 1 .. i - 1 : g[j] # w
            Is(g, m) == g = [i \in 1 .. m |-> Free(g, i)]
            M == {m \in Nat : \E g : Is(g, m)}
<1>2. 0 \in M
  <2>. DEFINE g == [i \in 1 .. 0 |-> n]
  <2>1. Is(g, 0)
    OBVIOUS
  <2>. QED
    BY <2>1
<1>3. ASSUME NEW m \in Nat, m \in M
      PROVE  m + 1 \in M
  <2>1. PICK g : Is(g, m)
    BY <1>3
  <2>. DEFINE h == [i \in 1 .. m + 1 |-> IF i = m + 1 THEN Free(g, m + 1) ELSE g[i]]
  <2>2. ASSUME NEW i \in 1 .. m + 1
        PROVE  Free(h, i) = Free(g, i)
    <3>1. \A j \in 1 .. i - 1 : h[j] = g[j]
      OBVIOUS
    <3>2. ASSUME NEW w PROVE (\A j \in 1 .. i - 1 : h[j] # w) <=> (\A j \in 1 .. i - 1 : g[j] # w)
      BY <3>1
    <3>. QED
      BY <3>2, Zenon
  <2>3. \A i \in 1 .. m : g[i] = Free(g, i)
    BY <2>1, Zenon
  <2>. HIDE DEF Free
  <2>4. h = [i \in 1 .. m + 1 |-> Free(h, i)]
    BY <2>2, <2>3
  <2>. HIDE DEF h
  <2>5. Is(h, m + 1)
    BY <2>4, Zenon
  <2>. QED
    BY <2>5
<1>4. n \in M
  <2>. HIDE DEF M
  <2>. QED
    BY <1>1, <1>2, <1>3, SetInduction
<1>5. Is(f, n)
  <2>1. f = CHOOSE g : Is(g, n)
    BY DEF InSomeOrder
  <2>2. \E g : Is(g, n)
    BY <1>4
  <2>. HIDE DEF Is
  <2>. QED
    BY <2>1, <2>2, Zenon
\* There is a member left for every place.
<1>6. ASSUME NEW i \in 1 .. n
      PROVE  f[i] \in S /\ \A j \in 1 .. i - 1 : f[j] # f[i]
  <2>. DEFINE before == {f[j] : j \in 1 .. i - 1}
  <2>1. IsFiniteSet(1 .. i - 1) /\ Cardinality(1 .. i - 1) < n
    <3>1. 1 \in Int /\ i - 1 \in Int /\ i - 1 < n
      BY <1>1
    <3>2. /\ IsFiniteSet(1 .. i - 1)
          /\ Cardinality(1 .. i - 1) = IF 1 > i - 1 THEN 0 ELSE (i - 1) - 1 + 1
      BY <3>1, FS_Interval, Zenon
    <3>. QED
      BY <1>1, <3>1, <3>2
  <2>2. IsFiniteSet(before) /\ Cardinality(before) <= Cardinality(1 .. i - 1)
    <3>. DEFINE g == [j \in 1 .. i - 1 |-> f[j]]
    <3>1. g \in Surjection(1 .. i - 1, before)
      BY DEF Surjection
    <3>. QED
      BY <2>1, <3>1, FS_Surjection
  <2>3. \E w \in S : w \notin before
    <3>1. SUFFICES ASSUME S \subseteq before PROVE FALSE
      BY Zenon
    <3>2. Cardinality(S) <= Cardinality(before)
      BY <2>2, <3>1, FS_Subset
    <3>. QED
      BY <1>1, <2>1, <2>2, <3>2, FS_CardinalityType
  <2>4. \E w \in S : \A j \in 1 .. i - 1 : f[j] # w
    BY <2>3
  <2>5. f[i] = Free(f, i)
    BY <1>5, Zenon
  <2>. QED
    BY <2>4, <2>5, Zenon
<1>7. f = [i \in 1 .. n |-> f[i]]
  BY <1>5
<1>8. f \in Injection(1 .. n, S)
  <2>1. f \in [1 .. n -> S]
    BY <1>6, <1>7
  <2>2. ASSUME NEW i \in 1 .. n, NEW j \in 1 .. n, f[i] = f[j]
        PROVE  i = j
    <3>1. ~(i < j) /\ ~(j < i)
      BY <1>6, <2>2, <1>1
    <3>. QED
      BY <3>1, <1>1
  <2>. QED
    BY <2>1, <2>2 DEF Injection, IsInjective
<1>9. IsFiniteSet(1 .. n) /\ Cardinality(1 .. n) = Cardinality(S)
  BY <1>1, FS_Interval
<1>10. f \in Surjection(1 .. n, S)
  BY <1>8, <1>9, FS_Injection
<1>. QED
  BY <1>1, <1>6, <1>8, <1>10 DEF Injection, IsInjective, Surjection

\* The turns of the starts, one after the other
StartedTurns(ws, at, turn) ==
  /\ turn[0] = [heap |-> <<>>, active |-> [w \in ws |-> 0]]
  /\ \A i \in 1 .. Cardinality(ws) :
       turn[i] = Insert(dheap, turn[i - 1], InSomeOrder(ws)[i], at[InSomeOrder(ws)[i]])
  /\ Started(ws, at) = turn[Cardinality(ws)]

LEMMA StartedRuns ==
  ASSUME NEW ws, NEW at, Cardinality(ws) \in Nat
  PROVE  \E turn : StartedTurns(ws, at, turn)
<1>. DEFINE none == [heap |-> <<>>, active |-> [w \in ws |-> 0]]
            order == InSomeOrder(ws)
            Is(f, m) == f = [i \in 0 .. m |-> IF i = 0 THEN none ELSE Insert(dheap, f[i - 1], order[i], at[order[i]])]
            S == {m \in Nat : \E f : Is(f, m)}
<1>1. 0 \in S
  <2>1. Is([i \in 0 .. 0 |-> none], 0)
    OBVIOUS
  <2>. QED
    BY <2>1
<1>2. ASSUME NEW m \in Nat, m \in S
      PROVE  m + 1 \in S
  <2>1. PICK f : Is(f, m)
    BY <1>2
  <2>. DEFINE g == [i \in 0 .. m + 1 |-> IF i = m + 1 THEN Insert(dheap, f[m], order[i], at[order[i]]) ELSE f[i]]
  <2>. HIDE DEF none, order
  <2>2. \A i \in 0 .. m + 1 : g[i] = IF i = 0 THEN none ELSE Insert(dheap, g[i - 1], order[i], at[order[i]])
    BY <2>1
  <2>3. Is(g, m + 1)
    BY <2>2
  <2>. HIDE DEF Is, g
  <2>. QED
    BY <2>3
<1>3. Cardinality(ws) \in S
  <2>. HIDE DEF S
  <2>. QED
    BY <1>1, <1>2, SetInduction
<1>. DEFINE turn == CHOOSE f : Is(f, Cardinality(ws))
<1>4. Is(turn, Cardinality(ws))
  BY <1>3, Zenon
<1>5. Started(ws, at) = turn[Cardinality(ws)]
  BY Zenon DEF Started
<1>. HIDE DEF turn, none, order
<1>6. turn[0] = none
  BY <1>4
<1>7. ASSUME NEW i \in 1 .. Cardinality(ws)
      PROVE  turn[i] = Insert(dheap, turn[i - 1], order[i], at[order[i]])
  <2>1. i \in 0 .. Cardinality(ws) /\ i # 0
    OBVIOUS
  <2>. QED
    BY <1>4, <2>1, Zenon
<1>. QED
  BY <1>5, <1>6, <1>7 DEF StartedTurns, none, order

\* All of them are on the heap then, each with its time.
LEMMA StartedFacts ==
  ASSUME dheap \in {2, 4}, NEW ws, IsFiniteSet(ws), NEW at, \A w \in ws : at[w] \in Int
  PROVE  /\ Shape(dheap, ws, Started(ws, at))
         /\ \A e \in Entries(Started(ws, at)) : e.w \in ws /\ e.at = at[e.w]
<1>. PICK n, order : n = Cardinality(ws) /\ order = InSomeOrder(ws)
  OBVIOUS
<1>1. /\ n \in Nat
      /\ \A i \in 1 .. n : order[i] \in ws
      /\ \A i, j \in 1 .. n : order[i] = order[j] => i = j
  BY InSomeOrderFacts
<1>a. PICK turn : StartedTurns(ws, at, turn)
  BY <1>1, StartedRuns
<1>2. /\ turn[0] = [heap |-> <<>>, active |-> [w \in ws |-> 0]]
      /\ \A i \in 1 .. n : turn[i] = Insert(dheap, turn[i - 1], order[i], at[order[i]])
      /\ Started(ws, at) = turn[n]
  BY <1>1, <1>a DEF StartedTurns
<1>. DEFINE J(i) == {h \in Heaps(ws) : /\ Shape(dheap, ws, h)
                                       /\ \A e \in Entries(h) : e.at = at[e.w] /\ \E j \in 1 .. i : e.w = order[j]}
            I == [i \in 0 .. n |-> J(i)]
<1>3. turn[0] \in I[0]
  <2>. PICK h : h = turn[0]
    OBVIOUS
  <2>1. h.heap = <<>> /\ h.active = [w \in ws |-> 0] /\ h \in Heaps(ws)
    BY <1>2 DEF Heaps
  <2>2. Size(h) = 0 /\ Entries(h) = {}
    BY <2>1 DEF Size, Entries
  <2>3. Shape(dheap, ws, h)
    BY <2>1, <2>2 DEF Shape, InPlace, Ordered
  <2>. QED
    BY <1>1, <2>1, <2>2, <2>3
<1>4. ASSUME NEW i \in 1 .. n, turn[i - 1] \in I[i - 1]
      PROVE  turn[i] \in I[i]
  <2>. PICK h, w, m : h = turn[i - 1] /\ w = order[i] /\ m = turn[i]
    OBVIOUS
  <2>1. h \in J(i - 1)
    BY <1>1, <1>4
  <2>2. w \in ws /\ at[w] \in Int /\ \A j \in 1 .. i - 1 : order[j] # w
    BY <1>1
  <2>3. h.active[w] = 0
    BY <2>1, <2>2 DEF Shape
  <2>4. Shape(dheap, ws, m) /\ Entries(m) = Entries(h) \cup {[w |-> w, at |-> at[w]]}
    BY <1>2, <2>1, <2>2, <2>3, InsertFacts
  <2>5. ASSUME NEW e \in Entries(m)
        PROVE  e.at = at[e.w] /\ \E j \in 1 .. i : e.w = order[j]
    <3>1. CASE e = [w |-> w, at |-> at[w]]
      BY <1>1, <3>1
    <3>2. CASE e \in Entries(h)
      <4>1. e.at = at[e.w] /\ \E j \in 1 .. i - 1 : e.w = order[j]
        BY <2>1, <3>2
      <4>. QED
        BY <4>1
    <3>. QED
      BY <2>4, <3>1, <3>2
  <2>6. m \in Heaps(ws)
    BY <2>4 DEF Shape
  <2>7. I[i] = J(i)
    BY <1>1, SMTT(60)
  <2>. QED
    BY <2>4, <2>5, <2>6, <2>7
<1>. HIDE DEF I
<1>5. turn[n] \in I[n]
  BY <1>1, <1>3, <1>4, LoopKeeps
<1>6. turn[n] \in J(n)
  BY <1>1, <1>5 DEF I
<1>. QED
  BY <1>1, <1>2, <1>6

-------------------------------------------------------------------------------
(* Who is due *)

\* The watchers whose time is before t
Due(W, h, t) == {w \in W : \E e \in Entries(h) : e.w = w /\ e.at < t}

\* Who was fed, and when it was due
Feeds(W) == [w : W, due : Int]

\* What has been fed is in order, and nobody who is left is earlier.
FedSoFar(W, h, rfeeds) ==
  /\ rfeeds \in Seq(Feeds(W))
  /\ \A i, j \in 1 .. Len(rfeeds) : i < j => rfeeds[i].due <= rfeeds[j].due
  /\ \A i \in 1 .. Len(rfeeds) : \A e \in Entries(h) : rfeeds[i].due <= e.at

\* Nobody is due when the earliest is not.
LEMMA NobodyDue ==
  ASSUME NEW D \in {2, 4}, NEW W, NEW h, Shape(D, W, h), NEW t \in Int, h.heap = <<>> \/ Top(h).at >= t
  PROVE  Due(W, h, t) = {}
<1>1. ASSUME NEW e \in Entries(h)
      PROVE  ~(e.at < t)
  <2>1. 1 \in 1 .. Size(h) /\ Top(h) \in Entries(h) /\ Top(h).at <= e.at /\ e.at \in Int /\ Top(h).at \in Int
    BY TopIsEarliest, ShapeFacts
  <2>2. h.heap # <<>>
    BY <2>1 DEF Size
  <2>. QED
    BY <2>1, <2>2
<1>. QED
  BY <1>1 DEF Due

\* A turn feeds the earliest, w, and m is what is left of h, w in it or not.
LEMMA NextFed ==
  ASSUME NEW D \in {2, 4}, NEW W, NEW h, Shape(D, W, h), h.heap # <<>>, NEW t \in Int, Top(h).at < t,
         NEW rfeeds, FedSoFar(W, h, rfeeds), NEW w, w = Top(h).w,
         NEW m, \A e \in Entries(m) : (e \in Entries(h) /\ e.w # w) \/ (e.w = w /\ e.at \in Int /\ e.at >= t)
  PROVE  /\ w \in W /\ h.active[w] # 0
         /\ FedSoFar(W, m, Append(rfeeds, [w |-> w, due |-> Top(h).at]))
         /\ w \in Due(W, h, t) /\ Due(W, m, t) \subseteq Due(W, h, t) \ {w}
<1>1. 1 \in 1 .. Size(h)
  <2>1. h.heap \in Seq(Nodes(W)) /\ Size(h) \in Nat
    BY HeapFields DEF Shape
  <2>. QED
    BY <2>1 DEF Size
<1>. PICK top, n : top = Top(h) /\ n = Len(rfeeds)
  OBVIOUS
<1>2. top \in Entries(h) /\ \A e \in Entries(h) : top.at <= e.at /\ e.at \in Int
  BY <1>1, TopIsEarliest, ShapeFacts DEF Entries, Top
<1>3. w \in W /\ h.active[w] # 0 /\ top.at \in Int /\ top.w = w /\ top.at < t
  BY <1>2, ShapeFacts
<1>4. w \in Due(W, h, t)
  BY <1>2, <1>3 DEF Due
<1>5. Due(W, m, t) \subseteq Due(W, h, t) \ {w}
  <2>1. \A e \in Entries(m) : e.at < t => e \in Entries(h) /\ e.w # w
    OBVIOUS
  <2>. QED
    BY <2>1 DEF Due
<1>6. /\ rfeeds \in Seq(Feeds(W)) /\ n \in Nat
      /\ \A i, j \in 1 .. n : i < j => rfeeds[i].due <= rfeeds[j].due
      /\ \A i \in 1 .. n : rfeeds[i].due \in Int /\ \A e \in Entries(h) : rfeeds[i].due <= e.at
  <2>1. rfeeds \in Seq(Feeds(W)) /\ n \in Nat
    BY DEF FedSoFar
  <2>2. \A i \in 1 .. n : rfeeds[i] \in Feeds(W)
    BY <2>1
  <2>3. \A i \in 1 .. n : rfeeds[i].due \in Int
    BY <2>2 DEF Feeds
  <2>. QED
    BY <2>1, <2>3 DEF FedSoFar
<1>a. PICK fed : fed = Append(rfeeds, [w |-> w, due |-> top.at])
  OBVIOUS
<1>7. /\ fed \in Seq(Feeds(W)) /\ Len(fed) = n + 1 /\ fed[n + 1].due = top.at
      /\ \A i \in 1 .. n : fed[i] = rfeeds[i]
  <2>1. [w |-> w, due |-> top.at] \in Feeds(W)
    BY <1>3 DEF Feeds
  <2>. QED
    BY <1>6, <1>a, <2>1
<1>8. \A i \in 1 .. n + 1 : i = n + 1 \/ i \in 1 .. n
  BY <1>6
<1>9. ASSUME NEW i \in 1 .. n + 1
      PROVE  fed[i].due \in Int /\ fed[i].due <= top.at
  BY <1>2, <1>3, <1>6, <1>7, <1>8
<1>10. ASSUME NEW i \in 1 .. n + 1, NEW j \in 1 .. n + 1, i < j
       PROVE  fed[i].due <= fed[j].due
  <2>1. CASE j = n + 1
    BY <1>7, <1>9, <2>1
  <2>2. CASE j \in 1 .. n
    <3>1. i \in 1 .. n
      BY <1>6, <1>10, <2>2
    <3>. QED
      BY <1>6, <1>7, <1>10, <2>2, <3>1
  <2>. QED
    BY <1>8, <2>1, <2>2
<1>11. ASSUME NEW i \in 1 .. n + 1, NEW e \in Entries(m)
       PROVE  fed[i].due <= e.at
  <2>1. e.at \in Int /\ top.at <= e.at
    <3>1. CASE e \in Entries(h)
      BY <1>2, <3>1
    <3>2. CASE e.at \in Int /\ e.at >= t
      BY <1>3, <3>2
    <3>. QED
      BY <3>1, <3>2
  <2>. QED
    BY <1>3, <1>9, <2>1
<1>12. FedSoFar(W, m, fed)
  BY <1>7, <1>10, <1>11 DEF FedSoFar
<1>. QED
  BY <1>3, <1>4, <1>5, <1>12, <1>a

\* One less is due then.
LEMMA FewerDue ==
  ASSUME NEW S, IsFiniteSet(S), NEW w \in S, NEW T, T \subseteq S \ {w}, NEW i \in Nat, NEW n \in Nat,
         Cardinality(S) + i <= n
  PROVE  IsFiniteSet(T) /\ Cardinality(T) + (i + 1) <= n
<1>1. IsFiniteSet(S \ {w}) /\ Cardinality(S \ {w}) = Cardinality(S) - 1 /\ Cardinality(S) \in Nat
  BY FS_RemoveElement, FS_CardinalityType
<1>2. IsFiniteSet(T) /\ Cardinality(T) <= Cardinality(S \ {w}) /\ Cardinality(T) \in Nat
  BY <1>1, FS_Subset, FS_CardinalityType
<1>. QED
  BY <1>1, <1>2

-------------------------------------------------------------------------------
(* timers_reify and periodics_reify *)

TimerFields == [at : Int, repeat : Nat]
PeriodicFields == [at : Int, kind : Kinds, offset : Nat, interval : Nat \ {0}]

\* The greater of two
LEMMA MaxOfTwo ==
  ASSUME NEW a \in Int, NEW b \in Int
  PROVE  Max({a, b}) = IF a <= b THEN b ELSE a
<1>. PICK m : m = IF a <= b THEN b ELSE a
  OBVIOUS
<1>1. m \in {a, b} /\ \A y \in {a, b} : m >= y
  OBVIOUS
<1>2. Max({a, b}) \in {a, b} /\ \A y \in {a, b} : Max({a, b}) >= y
  <2>1. Max({a, b}) = CHOOSE x \in {a, b} : \A y \in {a, b} : x >= y
    BY DEF Max
  <2>. QED
    BY <1>1, <2>1, Zenon
<1>. QED
  BY <1>2

\* The loop of timers_reify after i turns
TimerStates == [heap : Heaps(Timers), watcher : [Timers \cup Periodics -> TimerFields \cup PeriodicFields],
                rfeeds : Seq(Feeds(Timers)), mn : Int]

TimersSoFar(mn, i) ==
  {s \in TimerStates :
     /\ Shape(dheap, Timers, s.heap)
     /\ \A w \in Timers : s.watcher[w] \in TimerFields
     /\ \A e \in Entries(s.heap) : e.at = s.watcher[e.w].at
     /\ FedSoFar(Timers, s.heap, s.rfeeds) /\ s.mn = mn
     /\ \/ Due(Timers, s.heap, mn) = {}
        \/ Cardinality(Due(Timers, s.heap, mn)) + i <= Cardinality(Timers)}

LEMMA TimerTurnKeeps ==
  ASSUME dheap \in {2, 4}, NEW mn \in Int, NEW i \in Nat, NEW s \in TimersSoFar(mn, i)
  PROVE  TimerTurn(s) \in TimersSoFar(mn, i + 1)
<1>. PICK h, wt, rf : h = s.heap /\ wt = s.watcher /\ rf = s.rfeeds
  OBVIOUS
<1>1. /\ Shape(dheap, Timers, h) /\ \A w \in Timers : wt[w] \in TimerFields
      /\ \A e \in Entries(h) : e.at = wt[e.w].at
      /\ FedSoFar(Timers, h, rf)
      /\ wt \in [Timers \cup Periodics -> TimerFields \cup PeriodicFields]
      /\ s = [heap |-> h, watcher |-> wt, rfeeds |-> rf, mn |-> mn]
  BY DEF TimersSoFar, TimerStates
<1>2. Due(Timers, h, mn) = {} \/ Cardinality(Due(Timers, h, mn)) + i <= Cardinality(Timers)
  BY DEF TimersSoFar
<1>3. CASE h.heap = <<>> \/ Top(h).at >= mn
  <2>1. TimerTurn(s) = s
    BY <1>1, <1>3 DEF TimerTurn
  <2>2. Due(Timers, h, mn) = {}
    BY <1>1, <1>3, NobodyDue
  <2>. QED
    BY <2>1, <2>2, SMTT(60) DEF TimersSoFar
<1>4. CASE ~(h.heap = <<>> \/ Top(h).at >= mn)
  <2>. PICK w, top : w = Top(h).w /\ top = Top(h).at
    OBVIOUS
  <2>a. PICK fed : fed = Append(rf, [w |-> w, due |-> top])
    OBVIOUS
  <2>1. 1 \in 1 .. Size(h)
    <3>1. h.heap \in Seq(Nodes(Timers)) /\ Size(h) \in Nat
      BY <1>1, HeapFields DEF Shape
    <3>. QED
      BY <1>4, <3>1 DEF Size
  <2>2. Top(h) \in Entries(h)
    BY <2>1 DEF Top, Entries
  <2>3. w \in Timers /\ h.active[w] # 0 /\ top \in Int /\ top < mn
    BY <1>1, <1>4, <2>2, ShapeFacts
  <2>4. wt[w] \in TimerFields /\ wt[w].at \in Int /\ wt[w].repeat \in Nat
    BY <1>1, <2>3, SMTT(60) DEF TimerFields
  \* What a turn leaves, m the heap and x the time of w in it
  <2>5. ASSUME NEW m, Shape(dheap, Timers, m), NEW x \in Int,
               \A e \in Entries(m) : (e \in Entries(h) /\ e.w # w) \/ (e.w = w /\ e.at = x /\ x >= mn)
        PROVE  [heap |-> m, watcher |-> [wt EXCEPT ![w].at = x], rfeeds |-> fed, mn |-> mn] \in TimersSoFar(mn, i + 1)
    <3>. PICK wx : wx = [wt EXCEPT ![w].at = x]
      OBVIOUS
    <3>1. /\ FedSoFar(Timers, m, fed)
          /\ w \in Due(Timers, h, mn) /\ Due(Timers, m, mn) \subseteq Due(Timers, h, mn) \ {w}
      <4>1. \A e \in Entries(m) : (e \in Entries(h) /\ e.w # w) \/ (e.w = w /\ e.at \in Int /\ e.at >= mn)
        BY <2>5
      <4>2. h.heap # <<>> /\ Top(h).at < mn
        BY <1>4, <2>3
      <4>. QED
        BY <1>1, <2>a, <4>1, <4>2, NextFed, SMTT(60)
    <3>2. Cardinality(Due(Timers, m, mn)) + (i + 1) <= Cardinality(Timers)
      <4>1. Due(Timers, h, mn) # {}
        BY <3>1
      <4>2. IsFiniteSet(Due(Timers, h, mn)) /\ Cardinality(Timers) \in Nat
        <5>1. Due(Timers, h, mn) \in SUBSET Timers /\ IsFiniteSet(Timers)
          BY TimersAssumption DEF Due
        <5>. QED
          BY ONLY <5>1, FS_Subset, FS_CardinalityType
      <4>. QED
        BY <1>2, <3>1, <4>1, <4>2, FewerDue
    <3>3. /\ wx \in [Timers \cup Periodics -> TimerFields \cup PeriodicFields]
          /\ \A v \in Timers : wx[v] \in TimerFields /\ (v # w => wx[v] = wt[v])
          /\ wx[w].at = x
      <4>1. [wt[w] EXCEPT !.at = x] \in TimerFields /\ [wt[w] EXCEPT !.at = x].at = x
        BY <2>4 DEF TimerFields
      <4>2. wx = [wt EXCEPT ![w] = [wt[w] EXCEPT !.at = x]]
        OBVIOUS
      <4>. QED
        BY <1>1, <2>3, <4>1, <4>2
    <3>4. \A e \in Entries(m) : e.at = wx[e.w].at
      <4>1. \A e \in Entries(h) : e.w \in Timers
        BY <1>1, ShapeFacts
      <4>. QED
        BY <1>1, <2>5, <3>3, <4>1
    <3>. QED
      BY <2>5, <3>1, <3>2, <3>3, <3>4 DEF TimersSoFar, TimerStates, FedSoFar, Shape
  <2>6. CASE wt[w].repeat > 0
    <3>. PICK later, m : later = Max({wt[w].at + wt[w].repeat, mn}) /\ m = Sunk(dheap, h, w, later)
      OBVIOUS
    <3>1. later \in Int /\ later >= mn
      BY <2>4, MaxOfTwo
    <3>a. Shape(dheap, Timers, h) /\ h.heap # <<>> /\ w = Top(h).w
      BY <1>1, <1>4
    <3>b. m = Sunk(dheap, h, w, later)
      OBVIOUS
    <3>2. Shape(dheap, Timers, m) /\ Entries(m) = {e \in Entries(h) : e.w # w} \cup {[w |-> w, at |-> later]}
      BY ONLY dheap \in {2, 4}, <3>a, <3>b, <3>1, SunkFacts, SMTT(60)
    <3>3. TimerTurn(s) = [heap |-> m, watcher |-> [wt EXCEPT ![w].at = later], rfeeds |-> fed, mn |-> mn]
      <4>1. s.heap = h /\ s.watcher = wt /\ s.rfeeds = rf /\ s.mn = mn
        BY <1>1
      <4>. QED
        BY <1>4, <2>6, <2>a, <4>1 DEF TimerTurn
    <3>4. \A e \in Entries(m) : (e \in Entries(h) /\ e.w # w) \/ (e.w = w /\ e.at = later /\ later >= mn)
      <4>1. [w |-> w, at |-> later].w = w /\ [w |-> w, at |-> later].at = later
        OBVIOUS
      <4>. QED
        BY ONLY <3>1, <3>2, <4>1
    <3>. QED
      BY ONLY <2>5, <3>1, <3>2, <3>3, <3>4
  <2>7. CASE ~(wt[w].repeat > 0)
    <3>. PICK m : m = Delete(dheap, h, w)
      OBVIOUS
    <3>1. Shape(dheap, Timers, m) /\ Entries(m) = {e \in Entries(h) : e.w # w}
      BY <1>1, <2>3, DeleteFacts, SMTT(60)
    <3>2. TimerTurn(s) = [heap |-> m, watcher |-> [wt EXCEPT ![w].at = wt[w].at - mn], rfeeds |-> fed, mn |-> mn]
      <4>1. s.heap = h /\ s.watcher = wt /\ s.rfeeds = rf /\ s.mn = mn
        BY <1>1
      <4>. QED
        BY <1>4, <2>7, <2>a, <4>1 DEF TimerTurn
    <3>3. wt[w].at - mn \in Int
      BY <2>4
    <3>. QED
      BY <2>5, <3>1, <3>2, <3>3
  <2>. QED
    BY <2>6, <2>7
<1>. QED
  BY <1>3, <1>4

TimersDueTurns(s, turn) ==
  /\ turn[0] = s
  /\ \A i \in 1 .. Cardinality(Timers) : turn[i] = TimerTurn(turn[i - 1])
  /\ TimersDue(s) = turn[Cardinality(Timers)]

LEMMA TimersDueRuns ==
  ASSUME NEW s, Cardinality(Timers) \in Nat
  PROVE  \E turn : TimersDueTurns(s, turn)
<1>. DEFINE Is(f, m) == f = [i \in 0 .. m |-> IF i = 0 THEN s ELSE TimerTurn(f[i - 1])]
            S == {m \in Nat : \E f : Is(f, m)}
<1>1. 0 \in S
  <2>1. Is([i \in 0 .. 0 |-> s], 0)
    OBVIOUS
  <2>. QED
    BY <2>1
<1>2. ASSUME NEW m \in Nat, m \in S
      PROVE  m + 1 \in S
  <2>1. PICK f : Is(f, m)
    BY <1>2
  <2>. DEFINE g == [i \in 0 .. m + 1 |-> IF i = m + 1 THEN TimerTurn(f[m]) ELSE f[i]]
  <2>2. \A i \in 0 .. m + 1 : g[i] = IF i = 0 THEN s ELSE TimerTurn(g[i - 1])
    BY <2>1
  <2>3. Is(g, m + 1)
    BY <2>2
  <2>. HIDE DEF Is, g
  <2>. QED
    BY <2>3
<1>3. Cardinality(Timers) \in S
  <2>. HIDE DEF S
  <2>. QED
    BY <1>1, <1>2, SetInduction
<1>. DEFINE turn == CHOOSE f : Is(f, Cardinality(Timers))
<1>4. Is(turn, Cardinality(Timers))
  BY <1>3, Zenon
<1>5. TimersDue(s) = turn[Cardinality(Timers)]
  BY Zenon DEF TimersDue
<1>. HIDE DEF turn
<1>6. turn[0] = s /\ \A i \in 1 .. Cardinality(Timers) : turn[i] = TimerTurn(turn[i - 1])
  BY <1>4
<1>. QED
  BY <1>5, <1>6 DEF TimersDueTurns

\* After its turns no timer is due any more.
LEMMA TimersDueFacts ==
  ASSUME dheap \in {2, 4}, NEW mn \in Int, NEW s \in TimersSoFar(mn, 0)
  PROVE  /\ TimersDue(s) \in TimersSoFar(mn, Cardinality(Timers))
         /\ Due(Timers, TimersDue(s).heap, mn) = {}
<1>. PICK n : n = Cardinality(Timers)
  OBVIOUS
<1>1. IsFiniteSet(Timers) /\ n \in Nat
  BY TimersAssumption, FS_CardinalityType
<1>a. PICK turn : TimersDueTurns(s, turn)
  BY <1>1, TimersDueRuns
<1>2. /\ turn[0] = s
      /\ \A i \in 1 .. n : turn[i] = TimerTurn(turn[i - 1])
      /\ TimersDue(s) = turn[n]
  BY <1>1, <1>a DEF TimersDueTurns
<1>. DEFINE I == [i \in 0 .. n |-> TimersSoFar(mn, i)]
<1>3. turn[0] \in I[0]
  BY <1>1, <1>2
<1>4. ASSUME NEW i \in 1 .. n, turn[i - 1] \in I[i - 1]
      PROVE  turn[i] \in I[i]
  <2>1. i - 1 \in Nat /\ i - 1 \in 0 .. n /\ (i - 1) + 1 = i
    BY <1>1
  <2>2. turn[i - 1] \in TimersSoFar(mn, i - 1) /\ turn[i] = TimerTurn(turn[i - 1])
    BY <1>2, <1>4, <2>1
  <2>3. TimerTurn(turn[i - 1]) \in TimersSoFar(mn, i)
    BY <2>1, <2>2, TimerTurnKeeps
  <2>. QED
    BY <1>1, <2>2, <2>3
<1>. HIDE DEF I
<1>5. turn[n] \in I[n]
  BY <1>1, <1>3, <1>4, LoopKeeps
<1>6. TimersDue(s) \in TimersSoFar(mn, n)
  BY <1>1, <1>2, <1>5 DEF I
<1>7. Due(Timers, TimersDue(s).heap, mn) = {}
  <2>. PICK S : S = Due(Timers, TimersDue(s).heap, mn)
    OBVIOUS
  <2>1. S = {} \/ Cardinality(S) + n <= n
    BY <1>6 DEF TimersSoFar
  <2>2. IsFiniteSet(S) /\ Cardinality(S) \in Nat
    <3>1. S \in SUBSET Timers
      BY DEF Due
    <3>. QED
      BY ONLY <1>1, <3>1, FS_Subset, FS_CardinalityType
  <2>3. S = {} \/ Cardinality(S) = 0
    BY <1>1, <2>1, <2>2
  <2>. QED
    BY <2>2, <2>3, FS_EmptySet
<1>. QED
  BY <1>6, <1>7

\* A time that the offset and the interval of a periodic allow, as of rt the next of them
InReach(p, at, rt) ==
  /\ p.kind = "interval" => (at - p.offset) % p.interval = 0
  /\ p.kind # "once" => at <= rt + p.interval
  /\ p.kind = "once" => at = p.offset

LEMMA Division ==
  ASSUME NEW a \in Int, NEW b \in Nat \ {0}
  PROVE  a \div b \in Int /\ b * (a \div b) <= a /\ a < b * (a \div b) + b
OBVIOUS

LEMMA Multiples ==
  ASSUME NEW q \in Int, NEW b \in Nat \ {0}
  PROVE  (b * q) % b = 0
OBVIOUS

LEMMA NextAtFacts ==
  ASSUME NEW p, p.kind \in Kinds, p.offset \in Nat, p.interval \in Nat \ {0}, NEW rt \in Int
  PROVE  /\ NextAt(p, rt) \in Int /\ InReach(p, NextAt(p, rt), rt)
         /\ p.kind # "once" => NextAt(p, rt) > rt
<1>. PICK off, ivl, kind : off = p.offset /\ ivl = p.interval /\ kind = p.kind
  OBVIOUS
<1>1. CASE kind = "interval"
  <2>. PICK q : q = (rt - off) \div ivl
    OBVIOUS
  <2>1. q \in Int /\ ivl * q <= rt - off /\ rt - off < ivl * q + ivl
    <3>1. rt - off \in Int /\ ivl \in Nat \ {0}
      OBVIOUS
    <3>. QED
      BY ONLY <3>1, Division, q = (rt - off) \div ivl
  <2>2. NextAt(p, rt) = off + ivl * (q + 1)
    BY <1>1 DEF NextAt, Recalc
  <2>. PICK x : x = ivl * (q + 1)
    OBVIOUS
  <2>3. x \in Int /\ x = ivl * q + ivl
    BY <2>1
  <2>4. x % ivl = 0
    <3>1. q + 1 \in Int /\ ivl \in Nat \ {0}
      BY <2>1
    <3>. QED
      BY <3>1, Multiples
  <2>5. NextAt(p, rt) - off = x /\ NextAt(p, rt) \in Int
    BY <2>2, <2>3
  <2>6. NextAt(p, rt) > rt /\ NextAt(p, rt) <= rt + ivl
    <3>. PICK y : y = ivl * q
      OBVIOUS
    <3>1. y \in Int
      BY <2>1
    <3>. QED
      BY <2>1, <2>2, <2>3, <3>1
  <2>. QED
    BY <1>1, <2>4, <2>5, <2>6 DEF InReach
<1>2. CASE kind = "callback"
  BY <1>2 DEF NextAt, InReach
<1>3. CASE kind = "once"
  BY <1>3 DEF NextAt, InReach
<1>. QED
  BY <1>1, <1>2, <1>3 DEF Kinds

\* The loop of periodics_reify after i turns; start is what was on the heap.
PeriodicStates == [heap : Heaps(Periodics), at : [Timers \cup Periodics -> Int],
                   rfeeds : Seq(Feeds(Periodics)), rt : Int]

PeriodicsSoFar(start, rt, i) ==
  {s \in PeriodicStates :
     /\ Shape(dheap, Periodics, s.heap)
     /\ \A e \in Entries(s.heap) : e.at = s.at[e.w] /\ (e \in start \/ InReach(watcher[e.w], e.at, rt))
     /\ FedSoFar(Periodics, s.heap, s.rfeeds) /\ s.rt = rt
     /\ \/ Due(Periodics, s.heap, rt) = {}
        \/ Cardinality(Due(Periodics, s.heap, rt)) + i <= Cardinality(Periodics)}

LEMMA PeriodicTurnKeeps ==
  ASSUME dheap \in {2, 4}, \A w \in Periodics : watcher[w] \in PeriodicFields,
         NEW rt \in Int, NEW i \in Nat, NEW start, NEW s \in PeriodicsSoFar(start, rt, i)
  PROVE  PeriodicTurn(s) \in PeriodicsSoFar(start, rt, i + 1)
<1>. PICK h, times, rf : h = s.heap /\ times = s.at /\ rf = s.rfeeds
  OBVIOUS
<1>1. /\ Shape(dheap, Periodics, h)
      /\ \A e \in Entries(h) : e.at = times[e.w] /\ (e \in start \/ InReach(watcher[e.w], e.at, rt))
      /\ FedSoFar(Periodics, h, rf)
      /\ times \in [Timers \cup Periodics -> Int]
      /\ s = [heap |-> h, at |-> times, rfeeds |-> rf, rt |-> rt]
  BY DEF PeriodicsSoFar, PeriodicStates
<1>2. Due(Periodics, h, rt) = {} \/ Cardinality(Due(Periodics, h, rt)) + i <= Cardinality(Periodics)
  BY DEF PeriodicsSoFar
<1>3. CASE h.heap = <<>> \/ Top(h).at >= rt
  <2>1. PeriodicTurn(s) = s
    BY <1>1, <1>3 DEF PeriodicTurn
  <2>2. Due(Periodics, h, rt) = {}
    BY <1>1, <1>3, NobodyDue
  <2>. QED
    BY <2>1, <2>2 DEF PeriodicsSoFar
<1>4. CASE ~(h.heap = <<>> \/ Top(h).at >= rt)
  <2>. PICK w, top : w = Top(h).w /\ top = Top(h).at
    OBVIOUS
  <2>a. PICK fed : fed = Append(rf, [w |-> w, due |-> top])
    OBVIOUS
  <2>1. 1 \in 1 .. Size(h)
    <3>1. h.heap \in Seq(Nodes(Periodics)) /\ Size(h) \in Nat
      BY <1>1, HeapFields DEF Shape
    <3>. QED
      BY <1>4, <3>1 DEF Size
  <2>2. Top(h) \in Entries(h)
    BY <2>1 DEF Top, Entries
  <2>3. w \in Periodics /\ h.active[w] # 0 /\ top \in Int /\ top < rt
    BY <1>1, <1>4, <2>2, ShapeFacts
  <2>4. watcher[w].kind \in Kinds /\ watcher[w].offset \in Nat /\ watcher[w].interval \in Nat \ {0}
    BY <2>3 DEF PeriodicFields
  \* What a turn leaves, m the heap and x the times
  <2>5. ASSUME NEW m, Shape(dheap, Periodics, m), NEW x \in [Timers \cup Periodics -> Int],
               \A e \in Entries(h) : e.w # w => x[e.w] = times[e.w],
               \A e \in Entries(m) : \/ e \in Entries(h) /\ e.w # w
                                     \/ e.w = w /\ e.at = x[w] /\ x[w] >= rt /\ InReach(watcher[w], x[w], rt)
        PROVE  [heap |-> m, at |-> x, rfeeds |-> fed, rt |-> rt] \in PeriodicsSoFar(start, rt, i + 1)
    <3>1. /\ FedSoFar(Periodics, m, fed)
          /\ w \in Due(Periodics, h, rt) /\ Due(Periodics, m, rt) \subseteq Due(Periodics, h, rt) \ {w}
      <4>1. \A e \in Entries(m) : (e \in Entries(h) /\ e.w # w) \/ (e.w = w /\ e.at \in Int /\ e.at >= rt)
        BY <2>3, <2>5
      <4>2. h.heap # <<>> /\ Top(h).at < rt
        BY <1>4, <2>3
      <4>. QED
        BY <1>1, <2>a, <4>1, <4>2, NextFed, SMTT(60)
    <3>2. Cardinality(Due(Periodics, m, rt)) + (i + 1) <= Cardinality(Periodics)
      <4>1. Due(Periodics, h, rt) # {}
        BY <3>1
      <4>2. IsFiniteSet(Due(Periodics, h, rt)) /\ Cardinality(Periodics) \in Nat
        <5>1. Due(Periodics, h, rt) \in SUBSET Periodics /\ IsFiniteSet(Periodics)
          BY TimersAssumption DEF Due
        <5>. QED
          BY ONLY <5>1, FS_Subset, FS_CardinalityType
      <4>. QED
        BY <1>2, <3>1, <4>1, <4>2, FewerDue
    <3>3. \A e \in Entries(m) : e.at = x[e.w] /\ (e \in start \/ InReach(watcher[e.w], e.at, rt))
      BY <1>1, <2>5
    <3>. QED
      BY <2>5, <3>1, <3>2, <3>3 DEF PeriodicsSoFar, PeriodicStates, FedSoFar, Shape
  <2>6. CASE watcher[w].kind # "once"
    <3>. PICK at, m, x : at = NextAt(watcher[w], rt) /\ m = Sunk(dheap, h, w, at) /\ x = [times EXCEPT ![w] = at]
      OBVIOUS
    <3>1. at \in Int /\ at > rt /\ InReach(watcher[w], at, rt)
      BY <2>4, <2>6, NextAtFacts
    <3>a. Shape(dheap, Periodics, h) /\ h.heap # <<>> /\ w = Top(h).w
      BY <1>1, <1>4
    <3>b. m = Sunk(dheap, h, w, at)
      OBVIOUS
    <3>2. Shape(dheap, Periodics, m) /\ Entries(m) = {e \in Entries(h) : e.w # w} \cup {[w |-> w, at |-> at]}
      BY ONLY dheap \in {2, 4}, <3>a, <3>b, <3>1, SunkFacts
    <3>3. PeriodicTurn(s) = [heap |-> m, at |-> x, rfeeds |-> fed, rt |-> rt]
      <4>1. s.heap = h /\ s.at = times /\ s.rfeeds = rf /\ s.rt = rt
        BY <1>1
      <4>. QED
        BY <1>4, <2>6, <2>a, <4>1 DEF PeriodicTurn
    <3>4. x \in [Timers \cup Periodics -> Int] /\ x[w] = at /\ \A v \in Periodics : v # w => x[v] = times[v]
      BY <1>1, <2>3, <3>1
    <3>5. \A e \in Entries(h) : e.w \in Periodics
      BY <1>1, ShapeFacts
    <3>6. \A e \in Entries(m) : \/ e \in Entries(h) /\ e.w # w
                                \/ e.w = w /\ e.at = x[w] /\ x[w] >= rt /\ InReach(watcher[w], x[w], rt)
      <4>1. [w |-> w, at |-> at].w = w /\ [w |-> w, at |-> at].at = at /\ at >= rt
        BY <3>1
      <4>. QED
        BY ONLY <3>1, <3>2, <3>4, <4>1
    <3>7. \A e \in Entries(h) : e.w # w => x[e.w] = times[e.w]
      BY <3>4, <3>5
    <3>. QED
      BY ONLY <2>5, <3>2, <3>3, <3>4, <3>6, <3>7
  <2>7. CASE ~(watcher[w].kind # "once")
    <3>. PICK m : m = Delete(dheap, h, w)
      OBVIOUS
    <3>1. Shape(dheap, Periodics, m) /\ Entries(m) = {e \in Entries(h) : e.w # w}
      BY <1>1, <2>3, DeleteFacts
    <3>2. PeriodicTurn(s) = [heap |-> m, at |-> times, rfeeds |-> fed, rt |-> rt]
      <4>1. s.heap = h /\ s.at = times /\ s.rfeeds = rf /\ s.rt = rt
        BY <1>1
      <4>. QED
        BY <1>4, <2>7, <2>a, <4>1 DEF PeriodicTurn
    <3>3. /\ times \in [Timers \cup Periodics -> Int]
          /\ \A e \in Entries(h) : e.w # w => times[e.w] = times[e.w]
          /\ \A e \in Entries(m) : e \in Entries(h) /\ e.w # w
      BY <1>1, <3>1
    <3>. QED
      BY ONLY <2>5, <3>1, <3>2, <3>3
  <2>. QED
    BY <2>6, <2>7
<1>. QED
  BY <1>3, <1>4

PeriodicsDueTurns(s, turn) ==
  /\ turn[0] = s
  /\ \A i \in 1 .. Cardinality(Periodics) : turn[i] = PeriodicTurn(turn[i - 1])
  /\ PeriodicsDue(s) = turn[Cardinality(Periodics)]

LEMMA PeriodicsDueRuns ==
  ASSUME NEW s, Cardinality(Periodics) \in Nat
  PROVE  \E turn : PeriodicsDueTurns(s, turn)
<1>. DEFINE Is(f, m) == f = [i \in 0 .. m |-> IF i = 0 THEN s ELSE PeriodicTurn(f[i - 1])]
            S == {m \in Nat : \E f : Is(f, m)}
<1>1. 0 \in S
  <2>1. Is([i \in 0 .. 0 |-> s], 0)
    OBVIOUS
  <2>. QED
    BY <2>1
<1>2. ASSUME NEW m \in Nat, m \in S
      PROVE  m + 1 \in S
  <2>1. PICK f : Is(f, m)
    BY <1>2
  <2>. DEFINE g == [i \in 0 .. m + 1 |-> IF i = m + 1 THEN PeriodicTurn(f[m]) ELSE f[i]]
  <2>2. \A i \in 0 .. m + 1 : g[i] = IF i = 0 THEN s ELSE PeriodicTurn(g[i - 1])
    BY <2>1
  <2>3. Is(g, m + 1)
    BY <2>2
  <2>. HIDE DEF Is, g
  <2>. QED
    BY <2>3
<1>3. Cardinality(Periodics) \in S
  <2>. HIDE DEF S
  <2>. QED
    BY <1>1, <1>2, SetInduction
<1>. DEFINE turn == CHOOSE f : Is(f, Cardinality(Periodics))
<1>4. Is(turn, Cardinality(Periodics))
  BY <1>3, Zenon
<1>5. PeriodicsDue(s) = turn[Cardinality(Periodics)]
  BY Zenon DEF PeriodicsDue
<1>. HIDE DEF turn
<1>6. turn[0] = s /\ \A i \in 1 .. Cardinality(Periodics) : turn[i] = PeriodicTurn(turn[i - 1])
  BY <1>4
<1>. QED
  BY <1>5, <1>6 DEF PeriodicsDueTurns

\* After its turns no periodic is due any more.
LEMMA PeriodicsDueFacts ==
  ASSUME dheap \in {2, 4}, \A w \in Periodics : watcher[w] \in PeriodicFields,
         NEW rt \in Int, NEW start, NEW s \in PeriodicsSoFar(start, rt, 0)
  PROVE  /\ PeriodicsDue(s) \in PeriodicsSoFar(start, rt, Cardinality(Periodics))
         /\ Due(Periodics, PeriodicsDue(s).heap, rt) = {}
<1>. PICK n : n = Cardinality(Periodics)
  OBVIOUS
<1>1. IsFiniteSet(Periodics) /\ n \in Nat
  BY TimersAssumption, FS_CardinalityType
<1>a. PICK turn : PeriodicsDueTurns(s, turn)
  BY <1>1, PeriodicsDueRuns
<1>2. /\ turn[0] = s
      /\ \A i \in 1 .. n : turn[i] = PeriodicTurn(turn[i - 1])
      /\ PeriodicsDue(s) = turn[n]
  BY <1>1, <1>a DEF PeriodicsDueTurns
<1>. DEFINE I == [i \in 0 .. n |-> PeriodicsSoFar(start, rt, i)]
<1>3. turn[0] \in I[0]
  BY <1>1, <1>2
<1>4. ASSUME NEW i \in 1 .. n, turn[i - 1] \in I[i - 1]
      PROVE  turn[i] \in I[i]
  <2>1. i - 1 \in Nat /\ i - 1 \in 0 .. n /\ (i - 1) + 1 = i
    BY <1>1
  <2>2. turn[i - 1] \in PeriodicsSoFar(start, rt, i - 1) /\ turn[i] = PeriodicTurn(turn[i - 1])
    BY <1>2, <1>4, <2>1
  <2>3. PeriodicTurn(turn[i - 1]) \in PeriodicsSoFar(start, rt, i)
    BY <2>1, <2>2, PeriodicTurnKeeps
  <2>. QED
    BY <1>1, <2>2, <2>3
<1>. HIDE DEF I
<1>5. turn[n] \in I[n]
  BY <1>1, <1>3, <1>4, LoopKeeps
<1>6. PeriodicsDue(s) \in PeriodicsSoFar(start, rt, n)
  BY <1>1, <1>2, <1>5 DEF I
<1>7. Due(Periodics, PeriodicsDue(s).heap, rt) = {}
  <2>. PICK S : S = Due(Periodics, PeriodicsDue(s).heap, rt)
    OBVIOUS
  <2>1. S = {} \/ Cardinality(S) + n <= n
    BY <1>6 DEF PeriodicsSoFar
  <2>2. IsFiniteSet(S) /\ Cardinality(S) \in Nat
    <3>1. S \in SUBSET Periodics
      BY DEF Due
    <3>. QED
      BY ONLY <1>1, <3>1, FS_Subset, FS_CardinalityType
  <2>3. S = {} \/ Cardinality(S) = 0
    BY <1>1, <2>1, <2>2
  <2>. QED
    BY <2>2, <2>3, FS_EmptySet
<1>. QED
  BY <1>6, <1>7

-------------------------------------------------------------------------------
(* The watchers and their heaps *)

\* Both heaps are in order, with the times the watchers have.
Fits(D, wt, ts, ps) ==
  /\ wt \in [Timers \cup Periodics -> TimerFields \cup PeriodicFields]
  /\ \A w \in Timers : wt[w] \in TimerFields
  /\ \A w \in Periodics : wt[w] \in PeriodicFields
  /\ Shape(D, Timers, ts) /\ Shape(D, Periodics, ps)
  /\ \A e \in Entries(ts) \cup Entries(ps) : e.at = wt[e.w].at

LEMMA HeapWatchersFacts ==
  ASSUME NEW D \in {2, 4}, NEW W, NEW h, Shape(D, W, h)
  PROVE  /\ HeapWatchers(h) = {e.w : e \in Entries(h)} /\ HeapWatchers(h) \subseteq W
         /\ \A w \in W : w \in HeapWatchers(h) <=> h.active[w] # 0
<1>1. DOMAIN h.heap = 1 .. Size(h)
  BY HeapFields DEF Shape
<1>2. HeapWatchers(h) = {e.w : e \in Entries(h)}
  BY <1>1 DEF HeapWatchers, Entries
<1>3. /\ \A e \in Entries(h) : e.w \in W /\ h.active[e.w] # 0
      /\ \A w \in W : h.active[w] # 0 => \E e \in Entries(h) : e.w = w
  BY ShapeFacts
<1>. QED
  BY <1>2, <1>3

\* verify_heap passes.
LEMMA FitsIsSound ==
  ASSUME NEW D \in {2, 4}, NEW wt, NEW ts, NEW ps, Fits(D, wt, ts, ps), NEW at, at = [w \in Timers \cup Periodics |-> wt[w].at]
  PROVE  HeapSound(D, ts, at) /\ HeapSound(D, ps, at)
<1>1. ASSUME NEW W, NEW h, Shape(D, W, h), W \subseteq Timers \cup Periodics, \A e \in Entries(h) : e.at = wt[e.w].at
      PROVE  HeapSound(D, h, at)
  <2>1. DOMAIN h.heap = 1 .. Size(h) /\ Size(h) \in Nat /\ DOMAIN h.active = W
    <3>1. h \in Heaps(W)
      BY <1>1 DEF Shape
    <3>2. h.active \in [W -> Nat]
      BY <3>1 DEF Heaps
    <3>. QED
      BY <3>1, <3>2, HeapFields
  <2>2. ASSUME NEW k \in 1 .. Size(h)
        PROVE  /\ h.active[h.heap[k].w] = k + HEAP0(D) - 1
               /\ k > 1 => h.heap[Parent(D, k)].at <= h.heap[k].at
               /\ h.heap[k].at = at[h.heap[k].w]
    <3>1. h.active[h.heap[k].w] = k + HEAP0(D) - 1
      BY <1>1 DEF Shape, InPlace, AtPlace
    <3>2. k > 1 => h.heap[Parent(D, k)].at <= h.heap[k].at
      <4>1. k > 1 => k \in 2 .. Size(h)
        BY <2>1
      <4>. QED
        BY <1>1, <4>1 DEF Shape, Ordered
    <3>3. h.heap[k] \in Entries(h)
      BY DEF Entries
    <3>4. h.heap[k].at = at[h.heap[k].w]
      <4>1. h.heap[k].w \in W
        BY <1>1, <3>3, ShapeFacts
      <4>. QED
        BY <1>1, <3>3, <4>1
    <3>. QED
      BY <3>1, <3>2, <3>4
  <2>3. \A w \in DOMAIN h.active : (h.active[w] # 0) = (w \in HeapWatchers(h))
    BY <1>1, <2>1, HeapWatchersFacts
  <2>. QED
    BY <2>1, <2>2, <2>3 DEF HeapSound
<1>. QED
  BY <1>1 DEF Fits

\* ev_timer_start
LEMMA TimerStartFits ==
  ASSUME NEW D \in {2, 4}, NEW wt, NEW ts, NEW ps, Fits(D, wt, ts, ps),
         NEW w \in Timers, ts.active[w] = 0, NEW f \in TimerFields
  PROVE  Fits(D, [wt EXCEPT ![w] = f], Insert(D, ts, w, f.at), ps)
<1>. PICK m, x : m = Insert(D, ts, w, f.at) /\ x = [wt EXCEPT ![w] = f]
  OBVIOUS
<1>1. f.at \in Int /\ w \notin Periodics /\ Shape(D, Timers, ts) /\ Shape(D, Periodics, ps)
  BY TimersAssumption DEF TimerFields, Fits
<1>2. Shape(D, Timers, m) /\ Entries(m) = Entries(ts) \cup {[w |-> w, at |-> f.at]}
  BY <1>1, InsertFacts
<1>3. /\ x \in [Timers \cup Periodics -> TimerFields \cup PeriodicFields]
      /\ x[w] = f /\ \A v \in Timers \cup Periodics : v # w => x[v] = wt[v]
  BY DEF Fits
<1>4. /\ \A e \in Entries(ts) : e.w \in Timers /\ e.w # w
      /\ \A e \in Entries(ps) : e.w \in Periodics /\ e.w # w
  BY <1>1, ShapeFacts
<1>5. \A e \in Entries(m) \cup Entries(ps) : e.at = x[e.w].at
  <2>1. \A e \in Entries(ts) \cup Entries(ps) : e.at = x[e.w].at
    BY <1>3, <1>4 DEF Fits
  <2>2. [w |-> w, at |-> f.at].at = x[[w |-> w, at |-> f.at].w].at
    BY <1>3
  <2>. QED
    BY <1>2, <2>1, <2>2
<1>6. /\ \A v \in Timers : x[v] \in TimerFields
      /\ \A v \in Periodics : x[v] \in PeriodicFields
  BY <1>1, <1>3 DEF Fits
<1>. QED
  BY <1>1, <1>2, <1>3, <1>5, <1>6 DEF Fits

\* ev_timer_stop
LEMMA TimerStopFits ==
  ASSUME NEW D \in {2, 4}, NEW wt, NEW ts, NEW ps, Fits(D, wt, ts, ps),
         NEW w \in Timers, ts.active[w] # 0, NEW at \in Int
  PROVE  Fits(D, [wt EXCEPT ![w].at = at], Delete(D, ts, w), ps)
<1>. PICK m, x : m = Delete(D, ts, w) /\ x = [wt EXCEPT ![w].at = at]
  OBVIOUS
<1>1. w \notin Periodics /\ Shape(D, Timers, ts) /\ Shape(D, Periodics, ps) /\ wt[w] \in TimerFields
  BY TimersAssumption DEF Fits
<1>2. Shape(D, Timers, m) /\ Entries(m) = {e \in Entries(ts) : e.w # w}
  BY <1>1, DeleteFacts
<1>3. /\ x \in [Timers \cup Periodics -> TimerFields \cup PeriodicFields]
      /\ x[w] \in TimerFields /\ \A v \in Timers \cup Periodics : v # w => x[v] = wt[v]
  <2>1. [wt[w] EXCEPT !.at = at] \in TimerFields
    BY <1>1 DEF TimerFields
  <2>2. x = [wt EXCEPT ![w] = [wt[w] EXCEPT !.at = at]]
    OBVIOUS
  <2>. QED
    BY <2>1, <2>2 DEF Fits
<1>4. /\ \A e \in Entries(ts) : e.w \in Timers
      /\ \A e \in Entries(ps) : e.w \in Periodics /\ e.w # w
  BY <1>1, ShapeFacts
<1>5. \A e \in Entries(m) \cup Entries(ps) : e.at = x[e.w].at
  BY <1>2, <1>3, <1>4 DEF Fits
<1>6. /\ \A v \in Timers : x[v] \in TimerFields
      /\ \A v \in Periodics : x[v] \in PeriodicFields
  BY <1>1, <1>3 DEF Fits
<1>. QED
  BY <1>1, <1>2, <1>3, <1>5, <1>6 DEF Fits

\* ev_timer_again of a timer that is active
LEMMA TimerAgainFits ==
  ASSUME NEW D \in {2, 4}, NEW wt, NEW ts, NEW ps, Fits(D, wt, ts, ps),
         NEW w \in Timers, ts.active[w] # 0, NEW at \in Int
  PROVE  Fits(D, [wt EXCEPT ![w].at = at], Adjusted(D, ts, w, at), ps)
<1>. PICK m, x : m = Adjusted(D, ts, w, at) /\ x = [wt EXCEPT ![w].at = at]
  OBVIOUS
<1>1. w \notin Periodics /\ Shape(D, Timers, ts) /\ Shape(D, Periodics, ps) /\ wt[w] \in TimerFields
  BY TimersAssumption DEF Fits
<1>2. Shape(D, Timers, m) /\ Entries(m) = {e \in Entries(ts) : e.w # w} \cup {[w |-> w, at |-> at]}
  BY <1>1, AdjustedFacts
<1>3. /\ x \in [Timers \cup Periodics -> TimerFields \cup PeriodicFields]
      /\ x[w] \in TimerFields /\ x[w].at = at /\ \A v \in Timers \cup Periodics : v # w => x[v] = wt[v]
  <2>1. [wt[w] EXCEPT !.at = at] \in TimerFields /\ [wt[w] EXCEPT !.at = at].at = at
    BY <1>1 DEF TimerFields
  <2>2. x = [wt EXCEPT ![w] = [wt[w] EXCEPT !.at = at]]
    OBVIOUS
  <2>. QED
    BY <2>1, <2>2 DEF Fits
<1>4. /\ \A e \in Entries(ts) : e.w \in Timers
      /\ \A e \in Entries(ps) : e.w \in Periodics /\ e.w # w
  BY <1>1, ShapeFacts
<1>5. \A e \in Entries(m) \cup Entries(ps) : e.at = x[e.w].at
  <2>1. \A e \in {f \in Entries(ts) : f.w # w} \cup Entries(ps) : e.at = x[e.w].at
    BY <1>3, <1>4 DEF Fits
  <2>2. [w |-> w, at |-> at].at = x[[w |-> w, at |-> at].w].at
    BY <1>3
  <2>. QED
    BY <1>2, <2>1, <2>2
<1>6. /\ \A v \in Timers : x[v] \in TimerFields
      /\ \A v \in Periodics : x[v] \in PeriodicFields
  BY <1>1, <1>3 DEF Fits
<1>. QED
  BY <1>1, <1>2, <1>3, <1>5, <1>6 DEF Fits

\* ev_periodic_start
LEMMA PeriodicStartFits ==
  ASSUME NEW D \in {2, 4}, NEW wt, NEW ts, NEW ps, Fits(D, wt, ts, ps),
         NEW w \in Periodics, ps.active[w] = 0, NEW f \in PeriodicFields
  PROVE  /\ Fits(D, [wt EXCEPT ![w] = f], ts, Insert(D, ps, w, f.at))
         /\ Entries(Insert(D, ps, w, f.at)) = Entries(ps) \cup {[w |-> w, at |-> f.at]}
         /\ \A e \in Entries(ps) : e.w \in Periodics /\ e.w # w
<1>. PICK m, x : m = Insert(D, ps, w, f.at) /\ x = [wt EXCEPT ![w] = f]
  OBVIOUS
<1>1. f.at \in Int /\ w \notin Timers /\ Shape(D, Timers, ts) /\ Shape(D, Periodics, ps)
  BY TimersAssumption DEF PeriodicFields, Fits
<1>2. Shape(D, Periodics, m) /\ Entries(m) = Entries(ps) \cup {[w |-> w, at |-> f.at]}
  BY <1>1, InsertFacts
<1>3. /\ x \in [Timers \cup Periodics -> TimerFields \cup PeriodicFields]
      /\ x[w] = f /\ \A v \in Timers \cup Periodics : v # w => x[v] = wt[v]
  BY DEF Fits
<1>4. /\ \A e \in Entries(ts) : e.w \in Timers /\ e.w # w
      /\ \A e \in Entries(ps) : e.w \in Periodics /\ e.w # w
  BY <1>1, ShapeFacts
<1>5. \A e \in Entries(ts) \cup Entries(m) : e.at = x[e.w].at
  <2>1. \A e \in Entries(ts) \cup Entries(ps) : e.at = x[e.w].at
    BY <1>3, <1>4 DEF Fits
  <2>2. [w |-> w, at |-> f.at].at = x[[w |-> w, at |-> f.at].w].at
    BY <1>3
  <2>. QED
    BY <1>2, <2>1, <2>2
<1>6. /\ \A v \in Timers : x[v] \in TimerFields
      /\ \A v \in Periodics : x[v] \in PeriodicFields
  BY <1>1, <1>3 DEF Fits
<1>7. Fits(D, x, ts, m)
  BY <1>1, <1>2, <1>3, <1>5, <1>6 DEF Fits
<1>. QED
  BY <1>2, <1>4, <1>7

\* ev_periodic_stop
LEMMA PeriodicStopFits ==
  ASSUME NEW D \in {2, 4}, NEW wt, NEW ts, NEW ps, Fits(D, wt, ts, ps),
         NEW w \in Periodics, ps.active[w] # 0
  PROVE  /\ Fits(D, wt, ts, Delete(D, ps, w))
         /\ Entries(Delete(D, ps, w)) \subseteq Entries(ps)
         /\ Delete(D, ps, w).active[w] = 0
<1>. PICK m : m = Delete(D, ps, w)
  OBVIOUS
<1>1. Shape(D, Periodics, ps)
  BY DEF Fits
<1>2. Shape(D, Periodics, m) /\ Entries(m) = {e \in Entries(ps) : e.w # w}
  BY <1>1, DeleteFacts
<1>3. m.active[w] = 0
  BY <1>2, ShapeFacts
<1>4. Fits(D, wt, ts, m)
  BY <1>2 DEF Fits
<1>. QED
  BY <1>2, <1>3, <1>4

-------------------------------------------------------------------------------
(* The order of what is pending *)

Everybody == Timers \cup Periodics \cup {PendingW}

\* EarlierFirst, of any queue
FedEarlierFirst(q) ==
  /\ q \in Seq(Feeds(Everybody))
  /\ \A i, j \in 1 .. Len(q) : i < j /\ PendingW \notin {q[i].w, q[j].w} =>
       \/ q[i].w \in Timers /\ q[j].w \in Periodics
       \/ ((q[i].w \in Timers) = (q[j].w \in Timers)) /\ q[i].due >= q[j].due

LEMMA FedIsEarlierFirst ==
  ASSUME FedEarlierFirst(pendings)
  PROVE  EarlierFirst
<1>1. DOMAIN pendings = 1 .. Len(pendings)
  BY DEF FedEarlierFirst
<1>. QED
  BY <1>1 DEF FedEarlierFirst, EarlierFirst

\* The last one has been invoked.
LEMMA InvokedInOrder ==
  ASSUME NEW q, FedEarlierFirst(q), q # <<>>
  PROVE  FedEarlierFirst(SubSeq(q, 1, Len(q) - 1))
<1>. PICK n, m : n = Len(q) /\ m = SubSeq(q, 1, Len(q) - 1)
  OBVIOUS
<1>1. q \in Seq(Feeds(Everybody)) /\ n \in Nat /\ n - 1 \in Nat
  BY DEF FedEarlierFirst
<1>2. m \in Seq(Feeds(Everybody)) /\ Len(m) = n - 1 /\ \A i \in 1 .. n - 1 : m[i] = q[i]
  <2>1. m = [i \in 1 .. n - 1 |-> q[i]]
    BY <1>1
  <2>2. \A i \in 1 .. n - 1 : q[i] \in Feeds(Everybody)
    BY <1>1
  <2>. QED
    BY <1>1, <2>1, <2>2
<1>3. \A i \in 1 .. n - 1 : i \in 1 .. n
  BY <1>1
<1>. QED
  BY <1>1, <1>2, <1>3, ZenonT(60) DEF FedEarlierFirst

\* pending_w has taken the place of w.
LEMMA ClearedInOrder ==
  ASSUME FedEarlierFirst(pendings), NEW w
  PROVE  FedEarlierFirst(ClearPending(w))
<1>. PICK n, m : n = Len(pendings) /\ m = ClearPending(w)
  OBVIOUS
<1>1. pendings \in Seq(Feeds(Everybody)) /\ n \in Nat /\ \A i \in 1 .. n : pendings[i] \in Feeds(Everybody)
  BY DEF FedEarlierFirst
<1>2. m = [i \in 1 .. n |-> IF pendings[i].w = w THEN [pendings[i] EXCEPT !.w = PendingW] ELSE pendings[i]]
  BY DEF ClearPending
<1>3. ASSUME NEW f \in Feeds(Everybody)
      PROVE  [f EXCEPT !.w = PendingW] \in Feeds(Everybody) /\ [f EXCEPT !.w = PendingW].w = PendingW
  BY DEF Feeds, Everybody
<1>4. m \in Seq(Feeds(Everybody)) /\ Len(m) = n /\ \A i \in 1 .. n : m[i].w = PendingW \/ m[i] = pendings[i]
  <2>1. m \in [1 .. n -> Feeds(Everybody)]
    BY <1>1, <1>2, <1>3
  <2>2. m \in Seq(Feeds(Everybody)) /\ Len(m) = n
    BY <1>1, <2>1
  <2>3. \A i \in 1 .. n : m[i].w = PendingW \/ m[i] = pendings[i]
    BY <1>1, <1>2, <1>3
  <2>. QED
    BY <2>2, <2>3
<1>. QED
  BY <1>4 DEF FedEarlierFirst

LEMMA ReverseFacts ==
  ASSUME NEW W, NEW h, NEW rf, FedSoFar(W, h, rf), NEW q, q = FedReverse(rf)
  PROVE  /\ q \in Seq(Feeds(W)) /\ Len(q) \in Nat
         /\ \A i \in 1 .. Len(q) : q[i].w \in W /\ q[i].due \in Int
         /\ \A i, j \in 1 .. Len(q) : i < j => q[i].due >= q[j].due
<1>. PICK n : n = Len(rf)
  OBVIOUS
<1>1. /\ rf \in Seq(Feeds(W)) /\ n \in Nat /\ \A i \in 1 .. n : rf[i] \in Feeds(W)
      /\ \A i, j \in 1 .. n : i < j => rf[i].due <= rf[j].due
  BY DEF FedSoFar
<1>2. q = [i \in 1 .. n |-> rf[n + 1 - i]]
  BY DEF FedReverse
<1>3. \A i \in 1 .. n : n + 1 - i \in 1 .. n
  BY <1>1
<1>4. q \in Seq(Feeds(W)) /\ Len(q) = n /\ \A i \in 1 .. n : q[i] = rf[n + 1 - i] /\ q[i] \in Feeds(W)
  <2>1. q \in [1 .. n -> Feeds(W)]
    BY <1>1, <1>2, <1>3
  <2>2. q \in Seq(Feeds(W)) /\ Len(q) = n
    BY <1>1, <2>1
  <2>. QED
    BY <1>2, <2>1, <2>2
<1>5. \A i \in 1 .. n : q[i].w \in W /\ q[i].due \in Int
  BY <1>4 DEF Feeds
<1>6. ASSUME NEW i \in 1 .. n, NEW j \in 1 .. n, i < j
      PROVE  q[i].due >= q[j].due
  <2>1. n + 1 - j < n + 1 - i
    BY <1>1, <1>6
  <2>2. rf[n + 1 - j].due <= rf[n + 1 - i].due
    BY <1>1, <1>3, <2>1
  <2>. QED
    BY <1>4, <1>5, <2>2
<1>. QED
  BY <1>1, <1>4, <1>5, <1>6

\* Timers first, to be invoked last
LEMMA ReversedInOrder ==
  ASSUME NEW h, NEW rf, FedSoFar(Timers, h, rf), NEW g, NEW rp, FedSoFar(Periodics, g, rp)
  PROVE  FedEarlierFirst(FedReverse(rf) \o FedReverse(rp))
<1>. PICK s, t, n, m : s = FedReverse(rf) /\ t = FedReverse(rp) /\ n = Len(s) /\ m = Len(t)
  OBVIOUS
<1>1. /\ s \in Seq(Feeds(Timers)) /\ n \in Nat
      /\ \A i \in 1 .. n : s[i].w \in Timers /\ s[i].due \in Int
      /\ \A i, j \in 1 .. n : i < j => s[i].due >= s[j].due
  BY ReverseFacts
<1>2. /\ t \in Seq(Feeds(Periodics)) /\ m \in Nat
      /\ \A i \in 1 .. m : t[i].w \in Periodics /\ t[i].due \in Int
      /\ \A i, j \in 1 .. m : i < j => t[i].due >= t[j].due
  BY ReverseFacts
<1>. PICK q : q = s \o t
  OBVIOUS
<1>3. Feeds(Timers) \subseteq Feeds(Everybody) /\ Feeds(Periodics) \subseteq Feeds(Everybody)
  BY DEF Feeds, Everybody
<1>4. s \in Seq(Feeds(Everybody)) /\ t \in Seq(Feeds(Everybody))
  BY <1>1, <1>2, <1>3
<1>5. /\ q \in Seq(Feeds(Everybody)) /\ Len(q) = n + m
      /\ \A i \in 1 .. n + m : q[i] = IF i <= n THEN s[i] ELSE t[i - n]
  BY <1>1, <1>2, <1>4
<1>6. \A i \in 1 .. n + m : IF i <= n THEN i \in 1 .. n ELSE i - n \in 1 .. m
  BY <1>1, <1>2
<1>7. ASSUME NEW i \in 1 .. n + m, NEW j \in 1 .. n + m, i < j
      PROVE  \/ q[i].w \in Timers /\ q[j].w \in Periodics
             \/ ((q[i].w \in Timers) = (q[j].w \in Timers)) /\ q[i].due >= q[j].due
  <2>1. CASE j <= n
    <3>1. i \in 1 .. n /\ j \in 1 .. n /\ i <= n
      BY <1>1, <1>6, <1>7, <2>1
    <3>2. q[i] = s[i] /\ q[j] = s[j]
      BY <1>5, <2>1, <3>1
    <3>. QED
      BY <1>1, <1>7, <3>1, <3>2
  <2>2. CASE ~(j <= n) /\ i <= n
    <3>1. i \in 1 .. n /\ j - n \in 1 .. m
      BY <1>6, <2>2
    <3>2. q[i] = s[i] /\ q[j] = t[j - n]
      BY <1>5, <2>2
    <3>. QED
      BY <1>1, <1>2, <3>1, <3>2
  <2>3. CASE ~(j <= n) /\ ~(i <= n)
    <3>1. i - n \in 1 .. m /\ j - n \in 1 .. m /\ i - n < j - n
      BY <1>1, <1>6, <1>7, <2>3
    <3>2. q[i] = t[i - n] /\ q[j] = t[j - n]
      BY <1>5, <2>3
    <3>3. q[i].w \notin Timers /\ q[j].w \notin Timers
      BY <1>2, <3>1, <3>2, TimersAssumption
    <3>4. q[i].due >= q[j].due
      BY <1>2, <3>1, <3>2
    <3>. QED
      BY SMTT(60), <3>3, <3>4
  <2>. QED
    BY <1>1, <2>1, <2>2, <2>3
<1>. QED
  BY <1>5, <1>7 DEF FedEarlierFirst

-------------------------------------------------------------------------------
(* time_update *)

TypeInv ==
  /\ dheap \in {2, 4} /\ monotonic \in BOOLEAN
  /\ mn_now \in Int /\ ev_rt_now \in Int /\ now_floor \in Int /\ rtmn_diff \in Int
  /\ clock \in Nat /\ wall \in Int /\ wait \in Int
  /\ phase \in {"user", "blocked", "reify", "suspended"}

Updates == [mn : Int, rt : Int, floor : Int, diff : Int, adjust : Int, rescheduled : BOOLEAN]

LEMMA TimeUpdateFacts ==
  ASSUME TypeInv, NEW b \in Int, NEW u, u = TimeUpdate(b)
  PROVE  /\ u \in Updates
         /\ u.mn \in Int /\ u.rt \in Int /\ u.floor \in Int /\ u.diff \in Int /\ u.adjust \in Int /\ u.rescheduled \in BOOLEAN
         /\ monotonic => u.mn = clock /\ u.adjust = 0
<1>. PICK rt : rt = clock + wall
  OBVIOUS
<1>1. rt \in Int /\ clock \in Int /\ rt - clock \in Int /\ rt - mn_now \in Int /\ monotonic \in BOOLEAN
      /\ now_floor \in Int /\ rtmn_diff \in Int /\ rtmn_diff + clock \in Int
  BY DEF TypeInv
<1>2. CASE monotonic /\ ~(2 * (clock - now_floor) >= MinTimejump)
  <2>1. u = [mn |-> clock, rt |-> rtmn_diff + clock, floor |-> now_floor, diff |-> rtmn_diff,
             adjust |-> 0, rescheduled |-> FALSE]
    BY <1>2 DEF TimeUpdate
  <2>. QED
    BY <1>1, <1>2, <2>1 DEF Updates
<1>3. CASE monotonic /\ 2 * (clock - now_floor) >= MinTimejump
  <2>1. u = [mn |-> clock, rt |-> rt, floor |-> clock, diff |-> rt - clock,
             adjust |-> 0, rescheduled |-> Jumped(rt - clock)]
    BY <1>3 DEF TimeUpdate
  <2>2. Jumped(rt - clock) \in BOOLEAN
    BY DEF Jumped
  <2>. QED
    BY <1>1, <1>3, <2>1, <2>2 DEF Updates
<1>4. CASE ~monotonic
  <2>. PICK jumped : jumped = (mn_now > rt \/ rt > mn_now + b + MinTimejump)
    OBVIOUS
  <2>1. u = [mn |-> rt, rt |-> rt, floor |-> now_floor, diff |-> rtmn_diff,
             adjust |-> IF jumped THEN rt - mn_now ELSE 0, rescheduled |-> jumped]
    BY <1>4 DEF TimeUpdate
  <2>2. jumped \in BOOLEAN
    OBVIOUS
  <2>. QED
    BY <1>1, <1>4, <2>1, <2>2 DEF Updates
<1>. QED
  BY <1>1, <1>2, <1>3, <1>4

\* All timers move by the same time, and all periodics are computed again or none.
LEMMA RescheduledFacts ==
  ASSUME TypeInv, Fits(dheap, watcher, timers, periodics), NEW u, u.rt \in Int, NEW adjust \in Int, NEW again \in BOOLEAN,
         NEW r, r = Rescheduled(u, adjust, again)
  PROVE  /\ Fits(dheap, r.watcher, r.timers, r.periodics)
         /\ \A w \in HeapWatchers(timers) : r.watcher[w].at = watcher[w].at + adjust
         /\ \A w \in Periodics : /\ r.watcher[w].kind = watcher[w].kind
                                 /\ r.watcher[w].offset = watcher[w].offset
                                 /\ r.watcher[w].interval = watcher[w].interval
         /\ again => \A e \in Entries(r.periodics) : InReach(watcher[e.w], e.at, u.rt)
         /\ ~again => r.periodics = periodics
<1>0. dheap \in {2, 4}
  BY DEF TypeInv
<1>1. /\ watcher \in [Timers \cup Periodics -> TimerFields \cup PeriodicFields]
      /\ \A w \in Timers : watcher[w] \in TimerFields
      /\ \A w \in Periodics : watcher[w] \in PeriodicFields
      /\ Shape(dheap, Timers, timers) /\ Shape(dheap, Periodics, periodics)
      /\ \A e \in Entries(timers) \cup Entries(periodics) : e.at = watcher[e.w].at
  BY DEF Fits
<1>2. /\ HeapWatchers(timers) = {e.w : e \in Entries(timers)} /\ HeapWatchers(timers) \subseteq Timers
      /\ HeapWatchers(periodics) = {e.w : e \in Entries(periodics)} /\ HeapWatchers(periodics) \subseteq Periodics
  BY <1>0, <1>1, HeapWatchersFacts
<1>a. PICK at : at = [w \in Timers \cup Periodics |->
                        IF w \in HeapWatchers(timers) THEN At[w] + adjust
                        ELSE IF again /\ w \in HeapWatchers(periodics) THEN NextAt(watcher[w], u.rt) ELSE At[w]]
  OBVIOUS
<1>3. r = [watcher   |-> [w \in Timers \cup Periodics |-> [watcher[w] EXCEPT !.at = at[w]]],
           timers    |-> AllCached(timers, at),
           periodics |-> IF again THEN Reheap(dheap, AllCached(periodics, at)) ELSE periodics]
  BY <1>a DEF Rescheduled
<1>4. \A w \in Timers : watcher[w].at \in Int
  BY <1>1 DEF TimerFields
<1>5. \A w \in Periodics : /\ watcher[w].at \in Int /\ watcher[w].kind \in Kinds
                           /\ watcher[w].offset \in Nat /\ watcher[w].interval \in Nat \ {0}
  BY <1>1 DEF PeriodicFields
<1>6. \A w \in Timers \cup Periodics : At[w] = watcher[w].at /\ At[w] \in Int
  BY <1>4, <1>5 DEF At
<1>7. \A w \in HeapWatchers(timers) : at[w] = watcher[w].at + adjust
  BY <1>2, <1>6, <1>a
<1>8. again => \A w \in HeapWatchers(periodics) : at[w] = NextAt(watcher[w], u.rt)
  BY <1>2, <1>a, TimersAssumption
<1>9. ~again => \A w \in Periodics : at[w] = watcher[w].at
  BY <1>2, <1>6, <1>a, TimersAssumption
<1>10. \A w \in Timers \cup Periodics : at[w] \in Int
  <2>1. \A w \in Periodics : NextAt(watcher[w], u.rt) \in Int
    BY <1>5, NextAtFacts
  <2>2. \A w \in Timers \cup Periodics : At[w] + adjust \in Int
    BY <1>6
  <2>. QED
    BY <1>2, <1>6, <1>a, <2>1, <2>2
\* The watchers
<1>11. /\ r.watcher \in [Timers \cup Periodics -> TimerFields \cup PeriodicFields]
       /\ \A w \in Timers : r.watcher[w] \in TimerFields /\ r.watcher[w].at = at[w]
       /\ \A w \in Periodics : /\ r.watcher[w] \in PeriodicFields /\ r.watcher[w].at = at[w]
                               /\ r.watcher[w].kind = watcher[w].kind
                               /\ r.watcher[w].offset = watcher[w].offset
                               /\ r.watcher[w].interval = watcher[w].interval
  <2>1. r.watcher = [w \in Timers \cup Periodics |-> [watcher[w] EXCEPT !.at = at[w]]]
    BY <1>3
  <2>2. ASSUME NEW f \in TimerFields, NEW x \in Int
        PROVE  [f EXCEPT !.at = x] \in TimerFields /\ [f EXCEPT !.at = x].at = x
    BY DEF TimerFields
  <2>3. ASSUME NEW f \in PeriodicFields, NEW x \in Int
        PROVE  /\ [f EXCEPT !.at = x] \in PeriodicFields /\ [f EXCEPT !.at = x].at = x
               /\ [f EXCEPT !.at = x].kind = f.kind /\ [f EXCEPT !.at = x].offset = f.offset
               /\ [f EXCEPT !.at = x].interval = f.interval
    BY DEF PeriodicFields
  <2>4. ASSUME NEW w \in Timers
        PROVE  r.watcher[w] \in TimerFields /\ r.watcher[w].at = at[w]
    <3>1. r.watcher[w] = [watcher[w] EXCEPT !.at = at[w]] /\ watcher[w] \in TimerFields /\ at[w] \in Int
      BY <1>1, <1>10, <2>1
    <3>. QED
      BY <2>2, <3>1
  <2>5. ASSUME NEW w \in Periodics
        PROVE  /\ r.watcher[w] \in PeriodicFields /\ r.watcher[w].at = at[w]
               /\ r.watcher[w].kind = watcher[w].kind
               /\ r.watcher[w].offset = watcher[w].offset
               /\ r.watcher[w].interval = watcher[w].interval
    <3>1. r.watcher[w] = [watcher[w] EXCEPT !.at = at[w]] /\ watcher[w] \in PeriodicFields /\ at[w] \in Int
      BY <1>1, <1>10, <2>1
    <3>. QED
      BY <2>3, <3>1
  <2>. QED
    BY <2>1, <2>4, <2>5
\* The timers
<1>12. Shape(dheap, Timers, r.timers) /\ \A e \in Entries(r.timers) : e.at = r.watcher[e.w].at
  <2>. PICK m : m = r.timers
    OBVIOUS
  <2>1. m = AllCached(timers, at)
    BY <1>3
  <2>2. timers \in Heaps(Timers) /\ InPlace(dheap, timers) /\ Size(timers) \in Nat
    BY <1>1, HeapFields DEF Shape
  <2>3. /\ m \in Heaps(Timers) /\ InPlace(dheap, m) /\ Size(m) = Size(timers) /\ m.active = timers.active
        /\ \A k \in 1 .. Size(timers) : m.heap[k] = [w |-> timers.heap[k].w, at |-> at[timers.heap[k].w]]
        /\ Entries(m) = {[w |-> e.w, at |-> at[e.w]] : e \in Entries(timers)}
    BY <1>0, <1>10, <2>1, <2>2, AllCachedFacts
  <2>4. \A e \in Entries(timers) : e.w \in Timers /\ e.at \in Int /\ at[e.w] = e.at + adjust
    BY <1>0, <1>1, <1>2, <1>7, ShapeFacts
  <2>5. ASSUME NEW k \in 1 .. Size(timers)
        PROVE  m.heap[k].at = timers.heap[k].at + adjust /\ timers.heap[k].at \in Int
    <3>1. timers.heap[k] \in Entries(timers)
      BY DEF Entries
    <3>2. m.heap[k] = [w |-> timers.heap[k].w, at |-> at[timers.heap[k].w]]
      BY <2>3
    <3>3. m.heap[k].at = at[timers.heap[k].w]
      BY <3>2
    <3>. QED
      BY <2>4, <3>1, <3>3
  <2>6. Ordered(dheap, m, Size(m))
    <3>. SUFFICES ASSUME NEW c \in 2 .. Size(timers) PROVE m.heap[Parent(dheap, c)].at <= m.heap[c].at
      BY <2>3 DEF Ordered
    <3>1. Parent(dheap, c) \in 1 .. c - 1
      BY <1>0, ParentFacts
    <3>2. c \in 1 .. Size(timers) /\ Parent(dheap, c) \in 1 .. Size(timers)
      BY <2>2, <3>1
    <3>3. timers.heap[Parent(dheap, c)].at <= timers.heap[c].at
      BY <1>1 DEF Shape, Ordered
    <3>. QED
      BY <2>5, <3>2, <3>3
  <2>7. ASSUME NEW w \in Timers, m.active[w] # 0
        PROVE  \E e \in Entries(m) : e.w = w
    <3>1. PICK e \in Entries(timers) : e.w = w
      BY <1>1, <2>3, <2>7 DEF Shape
    <3>2. [w |-> e.w, at |-> at[e.w]] \in Entries(m)
      BY <2>3
    <3>3. [w |-> e.w, at |-> at[e.w]].w = w
      BY <3>1
    <3>. QED
      BY ONLY <3>2, <3>3
  <2>8. \A e \in Entries(m) : e.at = r.watcher[e.w].at
    BY <1>11, <2>3, <2>4
  <2>. QED
    BY <2>3, <2>6, <2>7, <2>8 DEF Shape
\* The periodics
<1>13. CASE again
  <2>. PICK g, m : g = AllCached(periodics, at) /\ m = r.periodics
    OBVIOUS
  <2>1. m = Reheap(dheap, g)
    BY <1>3, <1>13
  <2>2. periodics \in Heaps(Periodics) /\ InPlace(dheap, periodics)
    BY <1>1 DEF Shape
  <2>3. /\ g \in Heaps(Periodics) /\ InPlace(dheap, g) /\ g.active = periodics.active
        /\ Entries(g) = {[w |-> e.w, at |-> at[e.w]] : e \in Entries(periodics)}
    BY <1>0, <1>10, <2>2, AllCachedFacts
  <2>4. ASSUME NEW w \in Periodics, g.active[w] # 0
        PROVE  \E e \in Entries(g) : e.w = w
    <3>1. PICK e \in Entries(periodics) : e.w = w
      BY <1>1, <2>3, <2>4 DEF Shape
    <3>2. [w |-> e.w, at |-> at[e.w]] \in Entries(g)
      BY <2>3
    <3>3. [w |-> e.w, at |-> at[e.w]].w = w
      BY <3>1
    <3>. QED
      BY ONLY <3>2, <3>3
  <2>5. Shuffled(dheap, Periodics, g, m) /\ Ordered(dheap, m, Size(g))
    BY <1>0, <2>1, <2>3, ReheapFacts
  <2>6. Shape(dheap, Periodics, m) /\ Entries(m) = Entries(g)
    BY <2>4, <2>5, ShuffledShape
  <2>7. ASSUME NEW e \in Entries(m)
        PROVE  e.at = r.watcher[e.w].at /\ InReach(watcher[e.w], e.at, u.rt)
    <3>1. PICK f \in Entries(periodics) : e = [w |-> f.w, at |-> at[f.w]]
      BY <2>3, <2>6
    <3>2. f.w \in Periodics /\ f.w \in HeapWatchers(periodics) /\ e.w = f.w /\ e.at = at[f.w]
      BY <1>2, <3>1
    <3>3. at[f.w] = NextAt(watcher[f.w], u.rt)
      BY <1>8, <1>13, <3>2
    <3>4. InReach(watcher[f.w], NextAt(watcher[f.w], u.rt), u.rt)
      BY <1>5, <3>2, NextAtFacts
    <3>. QED
      BY <1>11, <3>2, <3>3, <3>4
  <2>. QED
    BY <1>7, <1>2, <1>11, <1>12, <1>13, <2>6, <2>7, ZenonT(60) DEF Fits
<1>14. CASE ~again
  <2>1. r.periodics = periodics
    BY <1>3, <1>14
  <2>2. \A e \in Entries(periodics) : e.at = r.watcher[e.w].at
    BY <1>1, <1>2, <1>9, <1>11, <1>14
  <2>. QED
    BY <1>1, <1>2, <1>7, <1>11, <1>12, <1>14, <2>1, <2>2 DEF Fits
<1>. QED
  BY <1>13, <1>14

-------------------------------------------------------------------------------
(* How long to wait *)

LEMMA MinOfThree ==
  ASSUME NEW a \in Int, NEW b \in Int, NEW c \in Int
  PROVE  Min({a, b, c}) \in Int /\ Min({a, b, c}) <= a /\ Min({a, b, c}) <= b /\ Min({a, b, c}) <= c
<1>. PICK m : m = IF a <= b /\ a <= c THEN a ELSE IF b <= c THEN b ELSE c
  OBVIOUS
<1>1. m \in {a, b, c} /\ \A y \in {a, b, c} : m <= y
  OBVIOUS
<1>2. Min({a, b, c}) \in {a, b, c} /\ \A y \in {a, b, c} : Min({a, b, c}) <= y
  <2>1. Min({a, b, c}) = CHOOSE x \in {a, b, c} : \A y \in {a, b, c} : x <= y
    BY DEF Min
  <2>. QED
    BY <1>1, <2>1, Zenon
<1>. QED
  BY <1>2

\* The earliest of a heap, or what stands for it when there is none
LEMMA WaitsFacts ==
  ASSUME NEW D \in {2, 4}, NEW W, NEW h, Shape(D, W, h), NEW t \in Int, NEW b \in Int
  PROVE  \E x \in Int : /\ {b} \cup Waits(h, t) = {b, x}
                        /\ \A e \in Entries(h) : x <= e.at - t
<1>1. h.heap \in Seq(Nodes(W)) /\ Size(h) \in Nat
  BY HeapFields DEF Shape
<1>2. CASE h.heap = <<>>
  <2>1. Waits(h, t) = {} /\ Entries(h) = {}
    BY <1>2 DEF Waits, Entries, Size
  <2>. QED
    BY <2>1
<1>3. CASE h.heap # <<>>
  <2>1. 1 \in 1 .. Size(h)
    BY <1>1, <1>3 DEF Size
  <2>2. Top(h) \in Entries(h)
    BY <2>1 DEF Top, Entries
  <2>3. Top(h).at \in Int /\ \A e \in Entries(h) : e.at \in Int /\ Top(h).at <= e.at
    BY <2>2, TopIsEarliest, ShapeFacts
  <2>. PICK x : x = Top(h).at - t
    OBVIOUS
  <2>4. x \in Int /\ \A e \in Entries(h) : x <= e.at - t
    BY <2>3
  <2>5. {b} \cup Waits(h, t) = {b, x}
    BY <1>3 DEF Waits
  <2>. QED
    BY <2>4, <2>5
<1>. QED
  BY <1>2, <1>3

\* waittime is over at the time of the earliest of both heaps, at the latest.
LEMMA WaittimeFacts ==
  ASSUME NEW D \in {2, 4}, NEW wt, NEW ts, NEW ps, Fits(D, wt, ts, ps), NEW mn \in Int, NEW rt \in Int,
         NEW wait_, wait_ = Max({Min({MaxBlocktime} \cup Waits(ts, mn) \cup Waits(ps, rt)), 0})
  PROVE  /\ wait_ \in Int
         /\ \A w \in HeapWatchers(ts) : wait_ <= Max({wt[w].at - mn, 0})
         /\ \A w \in HeapWatchers(ps) : wait_ <= Max({wt[w].at - rt, 0})
<1>. PICK b : b = MaxBlocktime
  OBVIOUS
<1>1. b \in Int /\ Shape(D, Timers, ts) /\ Shape(D, Periodics, ps)
  BY TimersAssumption DEF Fits
<1>2. PICK x \in Int : {b} \cup Waits(ts, mn) = {b, x} /\ \A e \in Entries(ts) : x <= e.at - mn
  BY <1>1, WaitsFacts
<1>3. PICK y \in Int : {b} \cup Waits(ps, rt) = {b, y} /\ \A e \in Entries(ps) : y <= e.at - rt
  BY <1>1, WaitsFacts
<1>. PICK m : m = Min({b, x, y})
  OBVIOUS
<1>4. m \in Int /\ m <= x /\ m <= y
  BY <1>1, MinOfThree
<1>5. {b} \cup Waits(ts, mn) \cup Waits(ps, rt) = {b, x, y}
  BY <1>2, <1>3
<1>6. wait_ = IF m <= 0 THEN 0 ELSE m
  BY <1>4, <1>5, MaxOfTwo
<1>7. ASSUME NEW z \in Int, m <= z
      PROVE  wait_ <= Max({z, 0})
  <2>1. Max({z, 0}) = IF z <= 0 THEN 0 ELSE z
    BY MaxOfTwo
  <2>. QED
    BY <1>4, <1>6, <1>7, <2>1
<1>8. ASSUME NEW w \in HeapWatchers(ts)
      PROVE  wait_ <= Max({wt[w].at - mn, 0})
  <2>1. PICK e \in Entries(ts) : e.w = w
    BY <1>1, HeapWatchersFacts
  <2>2. e.at \in Int /\ e.at = wt[w].at /\ x <= e.at - mn
    BY <1>1, <1>2, <2>1, ShapeFacts DEF Fits
  <2>3. wt[w].at - mn \in Int /\ m <= wt[w].at - mn
    BY <1>4, <2>2
  <2>. QED
    BY ONLY <1>7, <2>3
<1>9. ASSUME NEW w \in HeapWatchers(ps)
      PROVE  wait_ <= Max({wt[w].at - rt, 0})
  <2>1. PICK e \in Entries(ps) : e.w = w
    BY <1>1, HeapWatchersFacts
  <2>2. e.at \in Int /\ e.at = wt[w].at /\ y <= e.at - rt
    BY <1>1, <1>3, <2>1, ShapeFacts DEF Fits
  <2>3. wt[w].at - rt \in Int /\ m <= wt[w].at - rt
    BY <1>4, <2>2
  <2>. QED
    BY ONLY <1>7, <2>3
<1>10. wait_ \in Int
  BY <1>4, <1>6
<1>. QED
  BY ONLY <1>8, <1>9, <1>10

-------------------------------------------------------------------------------
(* The invariant *)

IndInv ==
  /\ TypeInv
  /\ Fits(dheap, watcher, timers, periodics)
  /\ FedEarlierFirst(pendings)
  /\ NobodyOverslept

LEMMA SetNowFacts ==
  ASSUME TypeInv, Fits(dheap, watcher, timers, periodics), NEW b \in Int, NEW u, u = TimeUpdate(b),
         NEW adjust \in Int, NEW again \in BOOLEAN, NEW r, r = Rescheduled(u, adjust, again), SetNow(u, r)
  PROVE  /\ mn_now' \in Int /\ ev_rt_now' \in Int /\ now_floor' \in Int /\ rtmn_diff' \in Int
         /\ Fits(dheap, watcher', timers', periodics')
<1>1. u.mn \in Int /\ u.rt \in Int /\ u.floor \in Int /\ u.diff \in Int
  BY TimeUpdateFacts
<1>2. Fits(dheap, r.watcher, r.timers, r.periodics)
  BY <1>1, RescheduledFacts
<1>. QED
  BY <1>1, <1>2 DEF SetNow

LEMMA UpdateFacts ==
  ASSUME TypeInv, Fits(dheap, watcher, timers, periodics), NEW b \in Int, Update(b)
  PROVE  /\ mn_now' \in Int /\ ev_rt_now' \in Int /\ now_floor' \in Int /\ rtmn_diff' \in Int
         /\ Fits(dheap, watcher', timers', periodics')
<1>. PICK u, r : u = TimeUpdate(b) /\ r = Rescheduled(u, u.adjust, u.rescheduled)
  OBVIOUS
<1>1. u.adjust \in Int /\ u.rescheduled \in BOOLEAN
  BY TimeUpdateFacts
<1>2. SetNow(u, r)
  BY DEF Update
<1>. QED
  BY <1>1, <1>2, SetNowFacts

\* What Init says of the watchers, at being the times they are started with
InitialFields(first, at) ==
  /\ first \in FirstFields
  /\ at = [w \in Timers \cup Periodics |->
             IF w \in Timers THEN first[w].after + mn_now ELSE NextAt(first[w], 3)]
  /\ watcher = [w \in Timers \cup Periodics |->
       IF w \in Timers THEN [at |-> at[w], repeat |-> first[w].repeat]
       ELSE [at |-> at[w], kind |-> first[w].kind, offset |-> first[w].offset, interval |-> first[w].interval]]
  /\ timers = Started(Timers, at) /\ periodics = Started(Periodics, at)

LEMMA InitialFieldsExist ==
  ASSUME Init
  PROVE  \E first, at : InitialFields(first, at)
<1>1. PICK first \in FirstFields :
        InitialFields(first, [w \in Timers \cup Periodics |->
                                IF w \in Timers THEN first[w].after + mn_now ELSE NextAt(first[w], 3)])
  BY DEF Init, InitialFields
<1>. QED
  BY <1>1

LEMMA InitInv ==
  Init => IndInv
<1>. SUFFICES ASSUME Init PROVE IndInv
  OBVIOUS
<1>1. TypeInv
  BY DEF Init, TypeInv
<1>2. FedEarlierFirst(pendings)
  BY DEF Init, FedEarlierFirst
<1>3. NobodyOverslept
  BY DEF Init, NobodyOverslept
<1>4. Fits(dheap, watcher, timers, periodics)
  <2>b. PICK first, at : InitialFields(first, at)
    BY InitialFieldsExist
  <2>a. /\ first \in FirstFields
        /\ at = [w \in Timers \cup Periodics |->
                   IF w \in Timers THEN first[w].after + mn_now ELSE NextAt(first[w], 3)]
        /\ watcher = [w \in Timers \cup Periodics |->
             IF w \in Timers THEN [at |-> at[w], repeat |-> first[w].repeat]
             ELSE [at |-> at[w], kind |-> first[w].kind, offset |-> first[w].offset, interval |-> first[w].interval]]
        /\ timers = Started(Timers, at) /\ periodics = Started(Periodics, at)
    BY <2>b DEF InitialFields
  <2>1. /\ \A w \in Timers : first[w].after \in Nat /\ first[w].repeat \in Nat
        /\ \A w \in Periodics : first[w].kind \in Kinds /\ first[w].offset \in Nat /\ first[w].interval \in Nat \ {0}
        /\ \A w \in Periodics : w \notin Timers
    BY <2>a, TimersAssumption
  <2>2. \A w \in Timers : at[w] \in Int
    BY <1>1, <2>1, <2>a DEF TypeInv
  <2>3. \A w \in Periodics : at[w] = NextAt(first[w], 3) /\ at[w] \in Int
    BY <2>1, <2>a, NextAtFacts
  <2>4. ASSUME NEW w \in Timers PROVE watcher[w] \in TimerFields /\ watcher[w].at = at[w]
    <3>1. watcher[w] = [at |-> at[w], repeat |-> first[w].repeat]
      BY <2>a
    <3>. QED
      BY <2>1, <2>2, <3>1 DEF TimerFields
  <2>5. ASSUME NEW w \in Periodics PROVE watcher[w] \in PeriodicFields /\ watcher[w].at = at[w]
    <3>1. watcher[w] = [at |-> at[w], kind |-> first[w].kind, offset |-> first[w].offset, interval |-> first[w].interval]
      BY <2>1, <2>a
    <3>. QED
      BY <2>1, <2>3, <3>1 DEF PeriodicFields
  <2>6. watcher \in [Timers \cup Periodics -> TimerFields \cup PeriodicFields]
    BY <2>4, <2>5, <2>a
  <2>7. /\ Shape(dheap, Timers, timers) /\ \A e \in Entries(timers) : e.w \in Timers /\ e.at = at[e.w]
        /\ Shape(dheap, Periodics, periodics) /\ \A e \in Entries(periodics) : e.w \in Periodics /\ e.at = at[e.w]
    <3>1. dheap \in {2, 4} /\ IsFiniteSet(Timers) /\ IsFiniteSet(Periodics)
      BY <1>1, TimersAssumption DEF TypeInv
    <3>. QED
      BY <2>2, <2>3, <2>a, <3>1, StartedFacts
  <2>. QED
    BY <2>4, <2>5, <2>6, <2>7 DEF Fits
<1>. QED
  BY <1>1, <1>2, <1>3, <1>4 DEF IndInv

\* Nobody waits when the step leaves the loop awake.
LEMMA AwakeInv ==
  ASSUME TypeInv, TypeInv', dheap' = dheap, Fits(dheap, watcher', timers', periodics'), FedEarlierFirst(pendings'),
         phase' # "blocked"
  PROVE  IndInv'
<1>1. NobodyOverslept'
  BY DEF NobodyOverslept
<1>. QED
  BY <1>1 DEF IndInv

LEMMA BlockKeepsInv ==
  ASSUME IndInv, Block
  PROVE  IndInv'
<1>. PICK u, r : u = TimeUpdate(Forever) /\ r = Rescheduled(u, u.adjust, u.rescheduled)
  OBVIOUS
<1>. PICK waittime : waittime = Max({Min({MaxBlocktime} \cup Waits(r.timers, u.mn) \cup Waits(r.periodics, u.rt)), 0})
  OBVIOUS
<1>1. /\ SetNow(u, r) /\ wait' = waittime /\ phase' = "blocked"
      /\ dheap' = dheap /\ monotonic' = monotonic /\ pendings' = pendings /\ clock' = clock /\ wall' = wall
  BY DEF Block, build
<1>2. TypeInv /\ Fits(dheap, watcher, timers, periodics) /\ FedEarlierFirst(pendings) /\ dheap \in {2, 4}
  BY DEF IndInv, TypeInv
<1>3. Forever \in Int
  BY DEF Forever
<1>4. u.adjust \in Int /\ u.rescheduled \in BOOLEAN /\ u.mn \in Int /\ u.rt \in Int
  BY <1>2, <1>3, TimeUpdateFacts
<1>5. /\ mn_now' \in Int /\ ev_rt_now' \in Int /\ now_floor' \in Int /\ rtmn_diff' \in Int
      /\ Fits(dheap, watcher', timers', periodics')
  BY <1>1, <1>2, <1>3, <1>4, SetNowFacts
<1>6. mn_now' = u.mn /\ ev_rt_now' = u.rt /\ watcher' = r.watcher /\ timers' = r.timers /\ periodics' = r.periodics
  BY <1>1 DEF SetNow
<1>7. /\ waittime \in Int
      /\ \A w \in HeapWatchers(r.timers) : waittime <= Max({r.watcher[w].at - u.mn, 0})
      /\ \A w \in HeapWatchers(r.periodics) : waittime <= Max({r.watcher[w].at - u.rt, 0})
  <2>1. Fits(dheap, r.watcher, r.timers, r.periodics) /\ dheap \in {2, 4} /\ u.mn \in Int /\ u.rt \in Int
    BY <1>2, <1>4, <1>5, <1>6
  <2>2. waittime = Max({Min({MaxBlocktime} \cup Waits(r.timers, u.mn) \cup Waits(r.periodics, u.rt)), 0})
    OBVIOUS
  <2>. QED
    BY ONLY <2>1, <2>2, WaittimeFacts
<1>8. TypeInv'
  BY <1>1, <1>2, <1>5, <1>7 DEF TypeInv
<1>9. NobodyOverslept'
  BY <1>1, <1>6, <1>7, ZenonT(60) DEF NobodyOverslept
<1>. QED
  BY <1>1, <1>2, <1>5, <1>8, <1>9 DEF IndInv

\* The steps that only bring the clocks of the loop up to date
LEMMA UpdateKeepsInv ==
  ASSUME IndInv, NEW b \in Int, Update(b), UNCHANGED <<build, pendings, wait, clock, wall>>,
         phase' \in {"user", "reify", "suspended"}
  PROVE  IndInv'
<1>1. TypeInv /\ Fits(dheap, watcher, timers, periodics) /\ FedEarlierFirst(pendings)
  BY DEF IndInv
<1>2. /\ mn_now' \in Int /\ ev_rt_now' \in Int /\ now_floor' \in Int /\ rtmn_diff' \in Int
      /\ Fits(dheap, watcher', timers', periodics')
  BY <1>1, UpdateFacts
<1>3. TypeInv' /\ dheap' = dheap /\ pendings' = pendings /\ phase' # "blocked"
  BY <1>1, <1>2 DEF TypeInv, build
<1>. QED
  BY <1>1, <1>2, <1>3, AwakeInv

LEMMA ResumeKeepsInv ==
  ASSUME IndInv, Resume
  PROVE  IndInv'
<1>. PICK u, r : u = TimeUpdate(Forever) /\ r = Rescheduled(u, u.adjust + Passed(u), TRUE)
  OBVIOUS
<1>1. SetNow(u, r) /\ phase' = "user" /\ UNCHANGED <<build, pendings, wait, clock, wall>>
  BY DEF Resume
<1>2. TypeInv /\ Fits(dheap, watcher, timers, periodics) /\ FedEarlierFirst(pendings)
  BY DEF IndInv
<1>3. Forever \in Int
  BY DEF Forever
<1>4. u.adjust \in Int /\ u.mn \in Int /\ mn_now \in Int
  BY <1>2, <1>3, TimeUpdateFacts DEF TypeInv
<1>5. u.adjust + Passed(u) \in Int
  BY <1>4 DEF Passed
<1>6. /\ mn_now' \in Int /\ ev_rt_now' \in Int /\ now_floor' \in Int /\ rtmn_diff' \in Int
      /\ Fits(dheap, watcher', timers', periodics')
  BY <1>1, <1>2, <1>3, <1>5, SetNowFacts
<1>7. TypeInv' /\ dheap' = dheap /\ pendings' = pendings /\ phase' # "blocked"
  BY <1>1, <1>2, <1>6 DEF TypeInv, build
<1>. QED
  BY <1>2, <1>6, <1>7, AwakeInv

\* What timers_reify and periodics_reify leave
LEMMA ReifyFacts ==
  ASSUME IndInv, Reify
  PROVE  /\ Fits(dheap, watcher', timers', periodics') /\ FedEarlierFirst(pendings')
         /\ Due(Timers, timers', mn_now) = {} /\ Due(Periodics, periodics', ev_rt_now) = {}
         /\ \A w \in Periodics : /\ watcher'[w].kind = watcher[w].kind /\ watcher'[w].offset = watcher[w].offset
                                 /\ watcher'[w].interval = watcher[w].interval
         /\ \A e \in Entries(periodics') : e \in Entries(periodics) \/ InReach(watcher[e.w], e.at, ev_rt_now)
<1>. PICK t, p : /\ t = TimersDue([heap |-> timers, watcher |-> watcher, rfeeds |-> <<>>, mn |-> mn_now])
                 /\ p = PeriodicsDue([heap |-> periodics, at |-> At, rfeeds |-> <<>>, rt |-> ev_rt_now])
  OBVIOUS
<1>1. /\ timers' = t.heap /\ periodics' = p.heap
      /\ watcher' = [w \in Timers \cup Periodics |->
           IF w \in Timers THEN t.watcher[w] ELSE [watcher[w] EXCEPT !.at = p.at[w]]]
      /\ pendings' = FedReverse(t.rfeeds) \o FedReverse(p.rfeeds)
  BY DEF Reify
<1>2. /\ dheap \in {2, 4} /\ mn_now \in Int /\ ev_rt_now \in Int
      /\ Fits(dheap, watcher, timers, periodics)
  BY DEF IndInv, TypeInv
<1>3. /\ watcher \in [Timers \cup Periodics -> TimerFields \cup PeriodicFields]
      /\ \A w \in Timers : watcher[w] \in TimerFields
      /\ \A w \in Periodics : watcher[w] \in PeriodicFields /\ w \notin Timers
      /\ Shape(dheap, Timers, timers) /\ Shape(dheap, Periodics, periodics)
      /\ \A e \in Entries(timers) \cup Entries(periodics) : e.at = watcher[e.w].at
  BY <1>2, TimersAssumption DEF Fits
<1>4. At \in [Timers \cup Periodics -> Int] /\ \A w \in Timers \cup Periodics : At[w] = watcher[w].at
  BY <1>3 DEF At, TimerFields, PeriodicFields
<1>5. ASSUME NEW W, NEW h, IsFiniteSet(W), NEW x
      PROVE  /\ FedSoFar(W, h, <<>>)
             /\ Due(W, h, x) = {} \/ Cardinality(Due(W, h, x)) + 0 <= Cardinality(W)
  <2>1. FedSoFar(W, h, <<>>)
    BY DEF FedSoFar
  <2>2. Due(W, h, x) \in SUBSET W
    BY DEF Due
  <2>3. Cardinality(Due(W, h, x)) <= Cardinality(W) /\ Cardinality(Due(W, h, x)) \in Nat
    BY ONLY <1>5, <2>2, FS_Subset, FS_CardinalityType
  <2>. QED
    BY <2>1, <2>3
<1>6. t \in TimersSoFar(mn_now, Cardinality(Timers)) /\ Due(Timers, t.heap, mn_now) = {}
  <2>. PICK s : s = [heap |-> timers, watcher |-> watcher, rfeeds |-> <<>>, mn |-> mn_now]
    OBVIOUS
  <2>1. /\ FedSoFar(Timers, timers, <<>>)
        /\ Due(Timers, timers, mn_now) = {} \/ Cardinality(Due(Timers, timers, mn_now)) + 0 <= Cardinality(Timers)
    BY <1>5, TimersAssumption
  <2>2. timers \in Heaps(Timers) /\ <<>> \in Seq(Feeds(Timers))
    BY <1>3 DEF Shape
  <2>3. s \in TimerStates
    BY <1>2, <1>3, <2>2 DEF TimerStates
  <2>4. s \in TimersSoFar(mn_now, 0)
    BY <1>3, <2>1, <2>3 DEF TimersSoFar
  <2>. QED
    BY <1>2, <2>4, TimersDueFacts
<1>7. p \in PeriodicsSoFar(Entries(periodics), ev_rt_now, Cardinality(Periodics)) /\ Due(Periodics, p.heap, ev_rt_now) = {}
  <2>. PICK s : s = [heap |-> periodics, at |-> At, rfeeds |-> <<>>, rt |-> ev_rt_now]
    OBVIOUS
  <2>1. /\ FedSoFar(Periodics, periodics, <<>>)
        /\ Due(Periodics, periodics, ev_rt_now) = {} \/ Cardinality(Due(Periodics, periodics, ev_rt_now)) + 0 <= Cardinality(Periodics)
    BY <1>5, TimersAssumption
  <2>2. periodics \in Heaps(Periodics) /\ <<>> \in Seq(Feeds(Periodics))
    BY <1>3 DEF Shape
  <2>3. s \in PeriodicStates
    BY <1>2, <1>4, <2>2 DEF PeriodicStates
  <2>4. \A e \in Entries(periodics) : e.w \in Periodics /\ e.at = At[e.w]
    BY <1>2, <1>3, <1>4, ShapeFacts
  <2>5. s \in PeriodicsSoFar(Entries(periodics), ev_rt_now, 0)
    BY <1>3, <2>1, <2>3, <2>4 DEF PeriodicsSoFar
  <2>. QED
    BY <1>2, <1>3, <2>5, PeriodicsDueFacts
<1>8. /\ Shape(dheap, Timers, t.heap) /\ \A w \in Timers : t.watcher[w] \in TimerFields
      /\ \A e \in Entries(t.heap) : e.at = t.watcher[e.w].at
      /\ FedSoFar(Timers, t.heap, t.rfeeds)
  BY <1>6 DEF TimersSoFar
<1>9. /\ Shape(dheap, Periodics, p.heap) /\ p.at \in [Timers \cup Periodics -> Int]
      /\ \A e \in Entries(p.heap) : e.at = p.at[e.w] /\ (e \in Entries(periodics) \/ InReach(watcher[e.w], e.at, ev_rt_now))
      /\ FedSoFar(Periodics, p.heap, p.rfeeds)
  BY <1>7 DEF PeriodicsSoFar, PeriodicStates
<1>10. FedEarlierFirst(pendings')
  BY <1>1, <1>8, <1>9, ReversedInOrder
<1>11. \A w \in Timers : watcher'[w] = t.watcher[w]
  BY <1>1
<1>12. ASSUME NEW w \in Periodics
       PROVE  /\ watcher'[w] \in PeriodicFields /\ watcher'[w].at = p.at[w]
              /\ watcher'[w].kind = watcher[w].kind /\ watcher'[w].offset = watcher[w].offset
              /\ watcher'[w].interval = watcher[w].interval
  <2>1. watcher'[w] = [watcher[w] EXCEPT !.at = p.at[w]] /\ watcher[w] \in PeriodicFields /\ p.at[w] \in Int
    BY <1>1, <1>3, <1>9
  <2>. QED
    BY <2>1 DEF PeriodicFields
<1>13. watcher' \in [Timers \cup Periodics -> TimerFields \cup PeriodicFields]
  BY <1>1, <1>8, <1>11, <1>12
<1>14. /\ \A e \in Entries(t.heap) : e.w \in Timers
       /\ \A e \in Entries(p.heap) : e.w \in Periodics
  BY <1>2, <1>8, <1>9, ShapeFacts
<1>15. Fits(dheap, watcher', timers', periodics')
  <2>1. \A e \in Entries(t.heap) : e.at = watcher'[e.w].at
    BY <1>8, <1>11, <1>14
  <2>2. \A e \in Entries(p.heap) : e.at = watcher'[e.w].at
    BY <1>9, <1>12, <1>14
  <2>3. /\ \A w \in Timers : watcher'[w] \in TimerFields
        /\ \A w \in Periodics : watcher'[w] \in PeriodicFields
    BY <1>8, <1>11, <1>12
  <2>. QED
    BY <1>1, <1>8, <1>9, <1>13, <2>1, <2>2, <2>3 DEF Fits
<1>. QED
  BY <1>1, <1>6, <1>7, <1>9, <1>10, <1>12, <1>15

\* The user's calls about timers
LEMMA TimerCallsKeepInv ==
  ASSUME IndInv, NEW w \in Timers, TimerStart(w) \/ TimerStop(w) \/ TimerAgain(w)
  PROVE  IndInv'
<1>1. TypeInv /\ Fits(dheap, watcher, timers, periodics) /\ FedEarlierFirst(pendings) /\ dheap \in {2, 4} /\ mn_now \in Int
  BY DEF IndInv, TypeInv
<1>2. watcher[w] \in TimerFields /\ watcher[w].at \in Int /\ watcher[w].repeat \in Nat
  BY <1>1 DEF Fits, TimerFields
<1>3. watcher[w] = [at |-> watcher[w].at, repeat |-> watcher[w].repeat]
  BY <1>2 DEF TimerFields
<1>4. /\ UNCHANGED <<build, periodics, now, run, clock, wall>> /\ phase = "user"
      /\ pendings' = pendings \/ pendings' = ClearPending(w)
  BY DEF TimerStart, TimerStop, TimerAgain, Acts
<1>5. TypeInv' /\ dheap' = dheap /\ phase' # "blocked" /\ periodics' = periodics
  BY <1>1, <1>4 DEF TypeInv, build, now, run
<1>6. FedEarlierFirst(pendings')
  BY <1>1, <1>4, ClearedInOrder
<1>7. Active(w) <=> timers.active[w] # 0
  BY DEF Active
<1>8. ASSUME NEW after \in Int, NEW repeat \in Nat, ~Active(w), TimerStarted(w, after, repeat)
      PROVE  Fits(dheap, watcher', timers', periodics)
  <2>. PICK f : f = [at |-> after + mn_now, repeat |-> repeat]
    OBVIOUS
  <2>1. f \in TimerFields /\ f.at = after + mn_now
    BY <1>1 DEF TimerFields
  <2>2. watcher' = [watcher EXCEPT ![w] = f] /\ timers' = Insert(dheap, timers, w, f.at)
    BY <1>8, <2>1 DEF TimerStarted
  <2>. QED
    BY <1>1, <1>7, <1>8, <2>1, <2>2, TimerStartFits
<1>9. ASSUME Active(w), TimerStopped(w)
      PROVE  Fits(dheap, watcher', timers', periodics)
  <2>1. /\ watcher' = [watcher EXCEPT ![w].at = watcher[w].at - mn_now] /\ timers' = Delete(dheap, timers, w)
        /\ watcher[w].at - mn_now \in Int
    BY <1>1, <1>2, <1>9 DEF TimerStopped
  <2>. QED
    BY <1>1, <1>7, <1>9, <2>1, TimerStopFits
<1>10. CASE TimerStart(w)
  <2>1. ~Active(w)
    BY <1>10 DEF TimerStart
  <2>2. CASE \E after \in Afters, repeat \in Repeats : TimerStarted(w, after, repeat)
    <3>1. PICK after \in Afters, repeat \in Repeats : TimerStarted(w, after, repeat)
      BY <2>2
    <3>2. after \in Int /\ repeat \in Nat
      BY TimersAssumption
    <3>. QED
      BY <1>1, <1>5, <1>6, <1>8, <2>1, <3>1, <3>2, AwakeInv
  <2>3. CASE TimerStarted(w, watcher[w].at, watcher[w].repeat)
    BY <1>1, <1>2, <1>5, <1>6, <1>8, <2>1, <2>3, AwakeInv
  <2>. QED
    BY <1>10, <2>2, <2>3 DEF TimerStart
<1>11. CASE TimerStop(w)
  <2>1. CASE Active(w)
    <3>1. TimerStopped(w)
      BY <1>11, <2>1 DEF TimerStop
    <3>. QED
      BY <1>1, <1>5, <1>6, <1>9, <2>1, <3>1, AwakeInv
  <2>2. CASE ~Active(w)
    <3>1. watcher' = watcher /\ timers' = timers
      BY <1>11, <2>2 DEF TimerStop
    <3>. QED
      BY <1>1, <1>5, <1>6, <3>1, AwakeInv
  <2>. QED
    BY <2>1, <2>2
<1>12. CASE TimerAgain(w)
  <2>. PICK repeat : repeat = watcher[w].repeat
    OBVIOUS
  <2>1. CASE /\ Active(w) /\ repeat > 0
             /\ watcher' = [watcher EXCEPT ![w].at = mn_now + repeat]
             /\ timers' = Adjusted(dheap, timers, w, mn_now + repeat)
    <3>1. mn_now + repeat \in Int
      BY <1>1, <1>2
    <3>2. Fits(dheap, watcher', timers', periodics)
      BY <1>1, <1>7, <2>1, <3>1, TimerAgainFits
    <3>. QED
      BY <1>1, <1>5, <1>6, <3>2, AwakeInv
  <2>2. CASE Active(w) /\ TimerStopped(w)
    BY <1>1, <1>5, <1>6, <1>9, <2>2, AwakeInv
  <2>3. CASE ~Active(w) /\ TimerStarted(w, repeat, repeat)
    <3>1. repeat \in Int /\ repeat \in Nat
      BY <1>2
    <3>. QED
      BY <1>1, <1>5, <1>6, <1>8, <2>3, <3>1, AwakeInv
  <2>4. CASE watcher' = watcher /\ timers' = timers
    BY <1>1, <1>5, <1>6, <2>4, AwakeInv
  <2>. QED
    BY <1>12, <2>1, <2>2, <2>3, <2>4 DEF TimerAgain
<1>. QED
  BY <1>10, <1>11, <1>12

\* What the calls about periodics leave: the one that is started is due at a time it allows.
LEMMA PeriodicCallsFacts ==
  ASSUME IndInv, NEW w \in Periodics, PeriodicStart(w) \/ PeriodicStop(w) \/ PeriodicAgain(w)
  PROVE  /\ Fits(dheap, watcher', timers', periodics')
         /\ \A e \in Entries(periodics') :
              \/ e \in Entries(periodics) /\ watcher'[e.w] = watcher[e.w]
              \/ InReach(watcher'[e.w], e.at, ev_rt_now)
<1>1. TypeInv /\ Fits(dheap, watcher, timers, periodics) /\ dheap \in {2, 4} /\ ev_rt_now \in Int
  BY DEF IndInv, TypeInv
<1>2. /\ watcher[w] \in PeriodicFields /\ watcher[w].kind \in Kinds /\ watcher[w].offset \in Nat
      /\ watcher[w].interval \in Nat \ {0} /\ w \notin Timers /\ w \in DOMAIN watcher
      /\ Shape(dheap, Periodics, periodics)
  BY <1>1, TimersAssumption DEF Fits, PeriodicFields
<1>3. (Active(w) <=> periodics.active[w] # 0) /\ timers' = timers
  BY <1>2 DEF Active, PeriodicStart, PeriodicStop, PeriodicAgain
\* It is started with the fields p, on the heap ps.
<1>4. ASSUME NEW ps, Fits(dheap, watcher, timers, ps), ps.active[w] = 0, Entries(ps) \subseteq Entries(periodics),
             NEW f \in PeriodicFields, InReach(f, f.at, ev_rt_now),
             watcher' = [watcher EXCEPT ![w] = f], periodics' = Insert(dheap, ps, w, f.at)
      PROVE  /\ Fits(dheap, watcher', timers', periodics')
             /\ \A e \in Entries(periodics') :
                  \/ e \in Entries(periodics) /\ watcher'[e.w] = watcher[e.w]
                  \/ InReach(watcher'[e.w], e.at, ev_rt_now)
  <2>1. /\ Fits(dheap, watcher', timers', periodics')
        /\ Entries(periodics') = Entries(ps) \cup {[w |-> w, at |-> f.at]}
        /\ \A e \in Entries(ps) : e.w \in Periodics /\ e.w # w
    <3>1. /\ Fits(dheap, [watcher EXCEPT ![w] = f], timers, Insert(dheap, ps, w, f.at))
          /\ Entries(Insert(dheap, ps, w, f.at)) = Entries(ps) \cup {[w |-> w, at |-> f.at]}
          /\ \A e \in Entries(ps) : e.w \in Periodics /\ e.w # w
      <4>1. /\ dheap \in {2, 4} /\ Fits(dheap, watcher, timers, ps)
            /\ w \in Periodics /\ ps.active[w] = 0 /\ f \in PeriodicFields
        BY <1>1, <1>4
      <4>. QED
        BY ONLY <4>1, PeriodicStartFits
    <3>. QED
      BY ONLY <1>3, <1>4, <3>1
  <2>2. watcher'[w] = f /\ \A v \in Periodics : v # w => watcher'[v] = watcher[v]
    BY <1>1, <1>2, <1>4 DEF Fits
  <2>3. \A e \in Entries(ps) : e \in Entries(periodics) /\ watcher'[e.w] = watcher[e.w]
    BY <1>4, <2>1, <2>2
  <2>4. ASSUME NEW e, e = [w |-> w, at |-> f.at]
        PROVE  InReach(watcher'[e.w], e.at, ev_rt_now)
    BY <1>4, <2>2, <2>4
  <2>. QED
    BY <2>1, <2>3, <2>4
<1>5. CASE PeriodicStart(w)
  <2>1. PICK kind, offset, interval, at :
          /\ kind \in Kinds /\ offset \in Afters /\ interval \in Repeats \ {0}
          /\ at = NextAt([kind |-> kind, offset |-> offset, interval |-> interval], ev_rt_now)
          /\ watcher' = [watcher EXCEPT ![w] = [at |-> at, kind |-> kind, offset |-> offset, interval |-> interval]]
          /\ periodics' = Insert(dheap, periodics, w, at)
    BY <1>5 DEF PeriodicStart
  <2>. PICK p, f : /\ p = [kind |-> kind, offset |-> offset, interval |-> interval]
                   /\ f = [at |-> at, kind |-> kind, offset |-> offset, interval |-> interval]
    OBVIOUS
  <2>2. kind \in Kinds /\ offset \in Nat /\ interval \in Nat \ {0}
    BY <2>1, TimersAssumption
  <2>3. at \in Int /\ InReach(p, at, ev_rt_now)
    <3>1. p.kind \in Kinds /\ p.offset \in Nat /\ p.interval \in Nat \ {0} /\ at = NextAt(p, ev_rt_now)
      BY <2>1, <2>2
    <3>. QED
      BY <1>1, <3>1, NextAtFacts
  <2>4. f \in PeriodicFields /\ f.at = at /\ InReach(f, f.at, ev_rt_now)
    BY <2>2, <2>3 DEF PeriodicFields, InReach
  <2>5. periodics.active[w] = 0
    BY <1>3, <1>5 DEF PeriodicStart
  <2>. QED
    BY <1>1, <1>4, <2>1, <2>4, <2>5
<1>6. CASE PeriodicStop(w)
  <2>1. watcher' = watcher /\ periodics' = IF Active(w) THEN Delete(dheap, periodics, w) ELSE periodics
    BY <1>6 DEF PeriodicStop
  <2>2. CASE Active(w)
    BY <1>1, <1>3, <2>1, <2>2, PeriodicStopFits
  <2>3. CASE ~Active(w)
    BY <1>1, <1>3, <2>1, <2>3
  <2>. QED
    BY <2>2, <2>3
<1>7. CASE PeriodicAgain(w)
  <2>. PICK stopped, at : /\ stopped = IF Active(w) THEN Delete(dheap, periodics, w) ELSE periodics
                          /\ at = NextAt(watcher[w], ev_rt_now)
    OBVIOUS
  <2>1. watcher' = [watcher EXCEPT ![w].at = at] /\ periodics' = Insert(dheap, stopped, w, at)
    BY <1>7 DEF PeriodicAgain
  <2>2. Fits(dheap, watcher, timers, stopped) /\ stopped.active[w] = 0 /\ Entries(stopped) \subseteq Entries(periodics)
    <3>1. CASE Active(w)
      BY <1>1, <1>3, <3>1, PeriodicStopFits
    <3>2. CASE ~Active(w)
      BY <1>1, <1>3, <3>2
    <3>. QED
      BY <3>1, <3>2
  <2>. PICK f : f = [watcher[w] EXCEPT !.at = at]
    OBVIOUS
  <2>3. at \in Int /\ InReach(watcher[w], at, ev_rt_now)
    BY <1>1, <1>2, NextAtFacts
  <2>4. f \in PeriodicFields /\ f.at = at /\ InReach(f, f.at, ev_rt_now)
    BY <1>2, <2>3 DEF PeriodicFields, InReach
  <2>5. watcher' = [watcher EXCEPT ![w] = f]
    BY <2>1
  <2>. QED
    BY <1>4, <2>1, <2>2, <2>4, <2>5
<1>. QED
  BY <1>5, <1>6, <1>7

LEMMA PeriodicCallsKeepInv ==
  ASSUME IndInv, NEW w \in Periodics, PeriodicStart(w) \/ PeriodicStop(w) \/ PeriodicAgain(w)
  PROVE  IndInv'
<1>1. TypeInv /\ FedEarlierFirst(pendings)
  BY DEF IndInv
<1>2. /\ UNCHANGED <<build, timers, now, run, clock, wall>> /\ phase = "user"
      /\ pendings' = pendings \/ pendings' = ClearPending(w)
  BY DEF PeriodicStart, PeriodicStop, PeriodicAgain, Acts
<1>3. TypeInv' /\ dheap' = dheap /\ phase' # "blocked"
  BY <1>1, <1>2 DEF TypeInv, build, now, run
<1>4. FedEarlierFirst(pendings')
  BY <1>1, <1>2, ClearedInOrder
<1>. QED
  BY <1>1, <1>3, <1>4, PeriodicCallsFacts, AwakeInv

LEMMA StepInv ==
  IndInv /\ [Next]_vars => IndInv'
<1>. SUFFICES ASSUME IndInv, [Next]_vars PROVE IndInv'
  OBVIOUS
<1>1. TypeInv /\ Fits(dheap, watcher, timers, periodics) /\ FedEarlierFirst(pendings) /\ NobodyOverslept
  BY DEF IndInv
<1>2. CASE Block
  BY <1>2, BlockKeepsInv
<1>3. CASE Wake
  <2>1. Update(wait) /\ wait \in Int /\ UNCHANGED <<build, pendings, wait, clock, wall>> /\ phase' = "reify"
    BY <1>1, <1>3 DEF Wake, TypeInv
  <2>. QED
    BY <2>1, UpdateKeepsInv
<1>4. CASE Reify
  <2>1. TypeInv' /\ dheap' = dheap /\ phase' # "blocked"
    BY <1>1, <1>4 DEF Reify, TypeInv, build, now
  <2>. QED
    BY <1>1, <1>4, <2>1, ReifyFacts, AwakeInv
<1>5. CASE Invoke
  <2>1. TypeInv' /\ dheap' = dheap /\ phase' # "blocked" /\ watcher' = watcher /\ timers' = timers /\ periodics' = periodics
    BY <1>1, <1>5 DEF Invoke, TypeInv, build, now, run, heaps
  <2>2. FedEarlierFirst(pendings')
    BY <1>1, <1>5, InvokedInOrder DEF Invoke
  <2>. QED
    BY <1>1, <2>1, <2>2, AwakeInv
<1>6. CASE Tick \/ SetClock \/ UNCHANGED vars
  <2>1. UNCHANGED <<build, heaps, pendings, now, run>> /\ clock' \in Nat /\ wall' \in Int
    <3>1. CASE Tick
      BY <1>1, <3>1 DEF Tick, TypeInv
    <3>2. CASE SetClock
      BY <1>1, <3>2, TimersAssumption DEF SetClock, TypeInv
    <3>3. CASE UNCHANGED vars
      BY <1>1, <3>3 DEF vars, TypeInv
    <3>. QED
      BY <1>6, <3>1, <3>2, <3>3
  <2>2. TypeInv'
    BY <1>1, <2>1 DEF TypeInv, build, now, run
  <2>3. Fits(dheap, watcher, timers, periodics)' /\ FedEarlierFirst(pendings)'
    BY <1>1, <2>1 DEF build, heaps
  <2>4. NobodyOverslept'
    BY <1>1, <2>1 DEF NobodyOverslept, heaps, now, run
  <2>. QED
    BY <2>2, <2>3, <2>4 DEF IndInv
<1>7. CASE \E w \in Timers : TimerStart(w) \/ TimerStop(w) \/ TimerAgain(w)
  BY <1>7, TimerCallsKeepInv
<1>8. CASE \E w \in Periodics : PeriodicStart(w) \/ PeriodicStop(w) \/ PeriodicAgain(w)
  BY <1>8, PeriodicCallsKeepInv
<1>9. CASE NowUpdate \/ Suspend
  <2>1. /\ Update(Forever) /\ Forever \in Int /\ UNCHANGED <<build, pendings, wait, clock, wall>>
        /\ phase' \in {"user", "reify", "suspended"}
    BY <1>9 DEF NowUpdate, Suspend, Acts, Forever, run
  <2>. QED
    BY <2>1, UpdateKeepsInv
<1>10. CASE Resume
  BY <1>10, ResumeKeepsInv
<1>. QED
  BY <1>2, <1>3, <1>4, <1>5, <1>6, <1>7, <1>8, <1>9, <1>10 DEF Next

-------------------------------------------------------------------------------
(* The theorems about every run *)

THEOREM IndInvHolds ==
  Spec => []IndInv
BY InitInv, StepInv, PTL DEF Spec

\* After every call of the user, every update of the times and every turn of
\* the loop both heaps pass verify_heap: in order, places and cached times right.
THEOREM HeapsAreSound ==
  Spec => []HeapsSound
<1>1. ASSUME IndInv PROVE HeapsSound
  <2>1. TypeInv /\ Fits(dheap, watcher, timers, periodics)
    BY <1>1 DEF IndInv
  <2>2. dheap \in {2, 4} /\ At = [w \in Timers \cup Periodics |-> watcher[w].at]
    BY <2>1 DEF TypeInv, At
  <2>3. HeapSound(dheap, timers, At) /\ HeapSound(dheap, periodics, At)
    BY <2>1, <2>2, FitsIsSound
  <2>. QED
    BY <2>1, <2>3 DEF TypeInv, HeapsSound
<1>. QED
  BY IndInvHolds, <1>1, PTL

\* Whatever was due at the same time, earlier is called first, periodics before
\* timers (feed_reverse, feed_reverse_done).
THEOREM EarlierAreFirst ==
  Spec => []EarlierFirst
<1>1. IndInv => EarlierFirst
  BY FedIsEarlierFirst DEF IndInv
<1>. QED
  BY IndInvHolds, <1>1, PTL

\* waittime, computed from the tops of the two heaps, ends before anybody's time.
THEOREM NobodyIsOverslept ==
  Spec => []NobodyOverslept
<1>1. IndInv => NobodyOverslept
  BY DEF IndInv
<1>. QED
  BY IndInvHolds, <1>1, PTL

\* timers_reify and periodics_reify leave nobody on a heap whose time has come.
NobodyLeftDue == [][Reify => Due(Timers, timers', mn_now) = {} /\ Due(Periodics, periodics', ev_rt_now) = {}]_vars
THEOREM NobodyIsLeftDue ==
  Spec => NobodyLeftDue
<1>1. IndInv /\ [Next]_vars => [Reify => Due(Timers, timers', mn_now) = {} /\ Due(Periodics, periodics', ev_rt_now) = {}]_vars
  BY ReifyFacts
<1>. QED
  BY IndInvHolds, <1>1, PTL DEF Spec, NobodyLeftDue

\* With a monotonic clock ev_resume gives every timer the time it had left at
\* ev_suspend, however long that was ago and wherever the real time clock was set.
THEOREM TimersOutliveTheSuspend ==
  Spec => TimersOutliveSuspend
<1>1. ASSUME IndInv, [Next]_vars, monotonic, phase = "suspended", NEW w \in HeapWatchers(timers),
             <<watcher, now>>' # <<watcher, now>>
      PROVE  (watcher[w].at - mn_now)' = watcher[w].at - mn_now
  <2>1. Resume
    BY <1>1 DEF Next, vars, Block, Wake, Reify, Invoke, Tick, SetClock, TimerStart, TimerStop, TimerAgain,
       PeriodicStart, PeriodicStop, PeriodicAgain, NowUpdate, Suspend, Acts, heaps, now
  <2>. PICK u, r : u = TimeUpdate(Forever) /\ r = Rescheduled(u, u.adjust + Passed(u), TRUE)
    OBVIOUS
  <2>2. mn_now' = u.mn /\ watcher' = r.watcher
    BY <2>1 DEF Resume, SetNow
  <2>3. TypeInv /\ Fits(dheap, watcher, timers, periodics) /\ mn_now \in Int /\ dheap \in {2, 4}
    BY <1>1 DEF IndInv, TypeInv
  <2>4. u.mn \in Int /\ u.rt \in Int /\ u.adjust = 0
    <3>1. Forever \in Int
      BY DEF Forever
    <3>. QED
      BY <1>1, <2>3, <3>1, TimeUpdateFacts
  <2>5. u.adjust + Passed(u) = u.mn - mn_now /\ u.mn - mn_now \in Int
    BY <2>3, <2>4 DEF Passed
  <2>6. r.watcher[w].at = watcher[w].at + (u.mn - mn_now)
    <3>. PICK by, again : by = u.adjust + Passed(u) /\ again = TRUE
      OBVIOUS
    <3>1. /\ TypeInv /\ Fits(dheap, watcher, timers, periodics) /\ u.rt \in Int
          /\ by \in Int /\ again \in BOOLEAN /\ r = Rescheduled(u, by, again)
      BY <2>3, <2>4, <2>5
    <3>2. \A v \in HeapWatchers(timers) : r.watcher[v].at = watcher[v].at + by
      BY ONLY <3>1, RescheduledFacts
    <3>. QED
      BY <2>5, <3>1, <3>2
  <2>7. watcher[w].at \in Int
    BY <1>1, <2>3, HeapWatchersFacts DEF Fits, TimerFields
  <2>. QED
    <3>1. watcher'[w].at = watcher[w].at + (u.mn - mn_now) /\ mn_now' = u.mn
      BY <2>2, <2>6
    <3>. QED
      BY ONLY <2>3, <2>4, <2>7, <3>1
<1>2. IndInv /\ [Next]_vars =>
        [monotonic /\ phase = "suspended" =>
           \A w \in HeapWatchers(timers) : (watcher[w].at - mn_now)' = watcher[w].at - mn_now]_<<watcher, now>>
  BY <1>1
<1>. QED
  BY IndInvHolds, <1>2, PTL DEF Spec, TimersOutliveSuspend

-------------------------------------------------------------------------------
(* Periodics and the jumps of the real time clock: when each jump is a      *)
(* multiple of one that is noticed, none goes unnoticed for good.           *)

\* Where jumps by multiples of u can bring a clock that said 3
Grid(u) == {3 + i * u : i \in Int}

LEMMA GridFacts ==
  ASSUME NEW u \in Nat, NEW x \in Grid(u)
  PROVE  /\ x \in Int
         /\ \A k \in Int : x + k * u \in Grid(u)
         /\ \A y \in Grid(u), t \in Nat : t <= u /\ Distance(x, y) < t => x = y
<1>1. PICK i \in Int : x = 3 + i * u
  BY DEF Grid
<1>2. x \in Int
  BY <1>1
<1>3. ASSUME NEW k \in Int PROVE x + k * u \in Grid(u)
  <2>1. x + k * u = 3 + (i + k) * u /\ i + k \in Int
    BY <1>1
  <2>. QED
    BY <2>1 DEF Grid
<1>4. ASSUME NEW y \in Grid(u), NEW t \in Nat, t <= u, Distance(x, y) < t PROVE x = y
  <2>1. PICK j \in Int : y = 3 + j * u
    BY <1>4 DEF Grid
  <2>. PICK a, b : a = i * u /\ b = j * u
    OBVIOUS
  <2>2. a \in Int /\ b \in Int /\ x = 3 + a /\ y = 3 + b
    BY <1>1, <2>1
  <2>3. a - b < t /\ b - a < t
    BY <1>4, <2>2 DEF Distance
  <2>4. i = j
    <3>1. i * u - j * u < t /\ j * u - i * u < t
      BY <2>3
    <3>. QED
      BY ONLY <1>4, <3>1, i \in Int, j \in Int, u \in Nat, t \in Nat, u \in Nat \ {0}
  <2>. QED
    BY <1>1, <2>1, <2>4
<1>. QED
  BY <1>2, <1>3, <1>4

\* What the clocks say: the loop's real time is its monotonic time and the
\* difference last noticed.
ClockInv(u) ==
  /\ wall \in Grid(u) /\ rtmn_diff \in Grid(u)
  /\ monotonic => mn_now <= clock /\ ev_rt_now = rtmn_diff + mn_now
  /\ ~monotonic => ev_rt_now = mn_now

ReachInv == \A e \in Entries(periodics) : InReach(watcher[e.w], e.at, ev_rt_now)

\* Real time that is not computed again did not go back.
LEMMA ClockFacts ==
  ASSUME NEW g \in Nat, MinTimejump <= g, TypeInv, ClockInv(g), NEW b \in Int, NEW u, u = TimeUpdate(b)
  PROVE  /\ u.diff \in Grid(g)
         /\ monotonic => u.mn = clock /\ u.rt = u.diff + u.mn
         /\ ~monotonic => u.rt = u.mn
         /\ ~u.rescheduled => u.rt >= ev_rt_now
<1>1. /\ wall \in Grid(g) /\ rtmn_diff \in Grid(g) /\ wall \in Int /\ rtmn_diff \in Int
      /\ clock \in Nat /\ mn_now \in Int /\ ev_rt_now \in Int /\ monotonic \in BOOLEAN
      /\ MinTimejump \in Nat
  BY TimersAssumption DEF TypeInv, ClockInv
<1>. PICK rt : rt = clock + wall
  OBVIOUS
<1>2. rt \in Int /\ rt - clock = wall /\ rt = wall + clock
  BY <1>1
<1>. PICK fresh : fresh = (2 * (clock - now_floor) >= MinTimejump)
  OBVIOUS
<1>3. CASE monotonic /\ ~fresh
  <2>1. u = [mn |-> clock, rt |-> rtmn_diff + clock, floor |-> now_floor, diff |-> rtmn_diff,
             adjust |-> 0, rescheduled |-> FALSE]
    BY <1>1, <1>3 DEF TimeUpdate
  <2>2. mn_now <= clock /\ ev_rt_now = rtmn_diff + mn_now
    BY <1>3 DEF ClockInv
  <2>. QED
    BY <1>1, <1>3, <2>1, <2>2
<1>4. CASE monotonic /\ fresh
  <2>1. u = [mn |-> clock, rt |-> rt, floor |-> clock, diff |-> wall, adjust |-> 0, rescheduled |-> Jumped(wall)]
    BY <1>1, <1>2, <1>4 DEF TimeUpdate
  <2>2. mn_now <= clock /\ ev_rt_now = rtmn_diff + mn_now
    BY <1>4 DEF ClockInv
  <2>3. ASSUME ~Jumped(wall) PROVE rt >= ev_rt_now
    <3>1. Distance(rtmn_diff, wall) < MinTimejump
      BY <1>1, <2>3 DEF Jumped, Distance
    <3>2. rtmn_diff = wall
      BY <1>1, <3>1, GridFacts
    <3>. QED
      BY <1>1, <1>2, <2>2, <3>2
  <2>. QED
    BY <1>1, <1>2, <1>4, <2>1, <2>3
<1>5. CASE ~monotonic
  <2>1. /\ u.mn = rt /\ u.rt = rt /\ u.diff = rtmn_diff
        /\ u.rescheduled = (mn_now > rt \/ rt > mn_now + b + MinTimejump)
    BY <1>1, <1>5 DEF TimeUpdate
  <2>2. ev_rt_now = mn_now
    BY <1>5 DEF ClockInv
  <2>3. ~u.rescheduled => ~(mn_now > rt)
    BY ONLY <2>1
  <2>. QED
    BY <1>1, <1>2, <1>5, <2>1, <2>2, <2>3
<1>. QED
  BY <1>1, <1>3, <1>4, <1>5

\* An update of the times, and the rescheduling that goes with it
LEMMA SetNowReaches ==
  ASSUME NEW g \in Nat, MinTimejump <= g, IndInv, ClockInv(g), ReachInv, NEW b \in Int, NEW u, u = TimeUpdate(b),
         NEW adjust \in Int, NEW again \in BOOLEAN, ~again => ~u.rescheduled,
         NEW r, r = Rescheduled(u, adjust, again), SetNow(u, r), UNCHANGED <<build, clock, wall>>
  PROVE  ClockInv(g)' /\ ReachInv'
<1>1. TypeInv /\ Fits(dheap, watcher, timers, periodics) /\ dheap \in {2, 4}
  BY DEF IndInv, TypeInv
<1>2. u.rt \in Int /\ u.rescheduled \in BOOLEAN /\ ev_rt_now \in Int
  BY <1>1, TimeUpdateFacts DEF TypeInv
<1>3. /\ mn_now' = u.mn /\ ev_rt_now' = u.rt /\ rtmn_diff' = u.diff
      /\ watcher' = r.watcher /\ periodics' = r.periodics
      /\ wall' = wall /\ clock' = clock /\ monotonic' = monotonic
  BY DEF SetNow, build
<1>4. /\ u.diff \in Grid(g)
      /\ monotonic => u.mn = clock /\ u.rt = u.diff + u.mn
      /\ ~monotonic => u.rt = u.mn
      /\ ~u.rescheduled => u.rt >= ev_rt_now
  BY <1>1, ClockFacts
<1>5. ClockInv(g)'
  <2>1. wall \in Grid(g) /\ clock \in Int
    BY <1>1 DEF ClockInv, TypeInv
  <2>. QED
    BY <1>3, <1>4, <2>1 DEF ClockInv
<1>6. /\ Fits(dheap, r.watcher, r.timers, r.periodics)
      /\ \A w \in Periodics : /\ r.watcher[w].kind = watcher[w].kind
                              /\ r.watcher[w].offset = watcher[w].offset
                              /\ r.watcher[w].interval = watcher[w].interval
      /\ again => \A e \in Entries(r.periodics) : InReach(watcher[e.w], e.at, u.rt)
      /\ ~again => r.periodics = periodics
  BY <1>1, <1>2, RescheduledFacts
<1>7. ASSUME NEW e \in Entries(r.periodics) PROVE InReach(r.watcher[e.w], e.at, u.rt)
  <2>1. e.w \in Periodics /\ e.at \in Int
    BY <1>1, <1>6, ShapeFacts DEF Fits
  <2>2. watcher[e.w].interval \in Nat
    BY <1>1, <2>1 DEF Fits, PeriodicFields
  <2>3. InReach(watcher[e.w], e.at, u.rt)
    <3>1. CASE again
      BY <1>6, <3>1
    <3>2. CASE ~again
      <4>1. InReach(watcher[e.w], e.at, ev_rt_now) /\ u.rt >= ev_rt_now
        BY <1>4, <1>6, <1>7, <3>2 DEF ReachInv
      <4>. QED
        BY <1>2, <2>1, <2>2, <4>1 DEF InReach
    <3>. QED
      BY <3>1, <3>2
  <2>. QED
    BY <1>6, <2>1, <2>3 DEF InReach
<1>. QED
  BY <1>3, <1>5, <1>7 DEF ReachInv

LEMMA InitReaches ==
  ASSUME NEW g \in Nat, Init
  PROVE  ClockInv(g) /\ ReachInv
<1>1. TypeInv /\ dheap \in {2, 4} /\ IsFiniteSet(Periodics)
  BY InitInv, TimersAssumption DEF IndInv, TypeInv
<1>2. ClockInv(g)
  <2>1. 3 \in Grid(g)
    <3>1. 3 = 3 + 0 * g
      OBVIOUS
    <3>. QED
      BY <3>1 DEF Grid
  <2>. QED
    BY <2>1 DEF Init, ClockInv
<1>3. ReachInv
  <2>b. PICK first, at : InitialFields(first, at)
    BY InitialFieldsExist
  <2>a. /\ first \in FirstFields
        /\ at = [w \in Timers \cup Periodics |->
                   IF w \in Timers THEN first[w].after + mn_now ELSE NextAt(first[w], 3)]
        /\ watcher = [w \in Timers \cup Periodics |->
             IF w \in Timers THEN [at |-> at[w], repeat |-> first[w].repeat]
             ELSE [at |-> at[w], kind |-> first[w].kind, offset |-> first[w].offset, interval |-> first[w].interval]]
        /\ timers = Started(Timers, at) /\ periodics = Started(Periodics, at)
    BY <2>b DEF InitialFields
  <2>1. \A w \in Periodics : /\ first[w].kind \in Kinds /\ first[w].offset \in Nat
                             /\ first[w].interval \in Nat \ {0} /\ w \notin Timers
    BY <2>a, TimersAssumption
  <2>2. \A w \in Periodics : at[w] = NextAt(first[w], 3) /\ at[w] \in Int /\ InReach(first[w], at[w], 3)
    BY <2>1, <2>a, NextAtFacts
  <2>3. \A w \in Periodics :
          /\ watcher[w].kind = first[w].kind /\ watcher[w].offset = first[w].offset
          /\ watcher[w].interval = first[w].interval
    BY <2>1, <2>a
  <2>4. ASSUME NEW e \in Entries(periodics) PROVE e.w \in Periodics /\ e.at = at[e.w]
    BY <1>1, <2>2, <2>4, <2>a, StartedFacts
  <2>5. ASSUME NEW e \in Entries(periodics) PROVE InReach(watcher[e.w], e.at, 3)
    BY <2>2, <2>3, <2>4 DEF InReach
  <2>6. ev_rt_now = 3
    BY DEF Init
  <2>. QED
    BY <2>5, <2>6 DEF ReachInv
<1>. QED
  BY <1>2, <1>3

\* Steps that leave the clocks of the loop alone
LEMMA NowStays ==
  ASSUME NEW g, ClockInv(g), TypeInv, UNCHANGED <<monotonic, now>>, wall' \in Grid(g), clock' \in Nat, clock' >= clock
  PROVE  ClockInv(g)'
BY DEF ClockInv, TypeInv, now

LEMMA TimerCallsReach ==
  ASSUME IndInv, ReachInv, NEW w \in Timers, TimerStart(w) \/ TimerStop(w) \/ TimerAgain(w)
  PROVE  ReachInv'
<1>1. Fits(dheap, watcher, timers, periodics) /\ dheap \in {2, 4}
  BY DEF IndInv, TypeInv
<1>2. ev_rt_now' = ev_rt_now /\ periodics' = periodics
  BY DEF TimerStart, TimerStop, TimerAgain, now
<1>3. \A v \in Periodics : watcher'[v] = watcher[v]
  <2>1. \A v \in Periodics : v # w
    BY TimersAssumption
  <2>2. \A f : watcher' = [watcher EXCEPT ![w] = f] => \A v \in Periodics : watcher'[v] = watcher[v]
    BY <1>1, <2>1 DEF Fits
  <2>3. watcher' = watcher \/ \E f : watcher' = [watcher EXCEPT ![w] = f]
    BY DEF TimerStart, TimerStop, TimerAgain, TimerStarted, TimerStopped
  <2>. QED
    BY <2>2, <2>3
<1>4. \A e \in Entries(periodics) : e.w \in Periodics
  BY <1>1, ShapeFacts DEF Fits
<1>. QED
  BY <1>2, <1>3, <1>4 DEF ReachInv

LEMMA StepReaches ==
  ASSUME NEW g \in Nat, MinTimejump <= g, \A j \in Jumps : \E i \in Int : j = i * g,
         IndInv, ClockInv(g), ReachInv, [Next]_vars
  PROVE  ClockInv(g)' /\ ReachInv'
<1>1. /\ TypeInv /\ Fits(dheap, watcher, timers, periodics) /\ wall \in Grid(g)
      /\ clock \in Nat /\ ev_rt_now \in Int /\ wait \in Int /\ Forever \in Int /\ dheap \in {2, 4}
  BY DEF IndInv, TypeInv, ClockInv, Forever
\* An update of the times after the wait b
<1>2. ASSUME NEW b \in Int, Update(b), UNCHANGED <<build, clock, wall>>
      PROVE  ClockInv(g)' /\ ReachInv'
  <2>. PICK u, r : u = TimeUpdate(b) /\ r = Rescheduled(u, u.adjust, u.rescheduled)
    OBVIOUS
  <2>1. u.adjust \in Int /\ u.rescheduled \in BOOLEAN
    BY <1>1, TimeUpdateFacts
  <2>2. SetNow(u, r)
    BY <1>2 DEF Update
  <2>. QED
    BY <1>2, <2>1, <2>2, SetNowReaches
<1>3. CASE Block
  <2>. PICK u, r : u = TimeUpdate(Forever) /\ r = Rescheduled(u, u.adjust, u.rescheduled)
    OBVIOUS
  <2>1. SetNow(u, r) /\ UNCHANGED <<build, clock, wall>>
    BY <1>3 DEF Block
  <2>2. Update(Forever)
    BY <2>1 DEF Update
  <2>. QED
    BY <1>1, <1>2, <2>1, <2>2
<1>4. CASE Wake \/ NowUpdate \/ Suspend
  <2>1. (Update(wait) \/ Update(Forever)) /\ UNCHANGED <<build, clock, wall>>
    BY <1>4 DEF Wake, NowUpdate, Suspend
  <2>. QED
    BY <1>1, <1>2, <2>1
<1>5. CASE Resume
  <2>. PICK u, adjust, again, r : /\ u = TimeUpdate(Forever) /\ adjust = u.adjust + Passed(u) /\ again = TRUE
                                  /\ r = Rescheduled(u, adjust, again)
    OBVIOUS
  <2>1. SetNow(u, r) /\ UNCHANGED <<build, clock, wall>>
    BY <1>5 DEF Resume
  <2>2. adjust \in Int
    <3>1. u.adjust \in Int /\ u.mn \in Int /\ mn_now \in Int
      BY <1>1, TimeUpdateFacts DEF TypeInv
    <3>. QED
      BY <3>1 DEF Passed
  <2>3. again \in BOOLEAN /\ (~again => ~u.rescheduled)
    OBVIOUS
  <2>. QED
    BY <1>1, <2>1, <2>2, <2>3, SetNowReaches
<1>6. CASE Reify
  <2>1. /\ UNCHANGED <<build, now, clock, wall>>
        /\ \A w \in Periodics : /\ watcher'[w].kind = watcher[w].kind /\ watcher'[w].offset = watcher[w].offset
                                /\ watcher'[w].interval = watcher[w].interval
        /\ \A e \in Entries(periodics') : e \in Entries(periodics) \/ InReach(watcher[e.w], e.at, ev_rt_now)
        /\ Shape(dheap, Periodics, periodics')
    BY <1>6, ReifyFacts DEF Reify, Fits
  <2>2. ClockInv(g)'
    BY <1>1, <2>1, NowStays DEF build
  <2>3. ASSUME NEW e \in Entries(periodics') PROVE InReach(watcher'[e.w], e.at, ev_rt_now)
    <3>1. InReach(watcher[e.w], e.at, ev_rt_now)
      BY <2>1, <2>3 DEF ReachInv
    <3>2. e.w \in Periodics
      BY <1>1, <2>1, <2>3, ShapeFacts
    <3>. QED
      BY <2>1, <3>1, <3>2 DEF InReach
  <2>4. ev_rt_now' = ev_rt_now
    BY <2>1 DEF now
  <2>. QED
    BY <2>2, <2>3, <2>4 DEF ReachInv
<1>7. CASE \E w \in Timers : TimerStart(w) \/ TimerStop(w) \/ TimerAgain(w)
  <2>1. PICK w \in Timers : TimerStart(w) \/ TimerStop(w) \/ TimerAgain(w)
    BY <1>7
  <2>2. UNCHANGED <<build, now, clock, wall>>
    BY <2>1 DEF TimerStart, TimerStop, TimerAgain
  <2>. QED
    BY <1>1, <2>1, <2>2, NowStays, TimerCallsReach DEF build
<1>8. CASE \E w \in Periodics : PeriodicStart(w) \/ PeriodicStop(w) \/ PeriodicAgain(w)
  <2>1. PICK w \in Periodics : PeriodicStart(w) \/ PeriodicStop(w) \/ PeriodicAgain(w)
    BY <1>8
  <2>2. UNCHANGED <<build, now, clock, wall>>
    BY <2>1 DEF PeriodicStart, PeriodicStop, PeriodicAgain
  <2>3. \A e \in Entries(periodics') :
          \/ e \in Entries(periodics) /\ watcher'[e.w] = watcher[e.w]
          \/ InReach(watcher'[e.w], e.at, ev_rt_now)
    BY <2>1, PeriodicCallsFacts
  <2>4. ev_rt_now' = ev_rt_now
    BY <2>2 DEF now
  <2>5. ReachInv'
    BY <2>3, <2>4 DEF ReachInv
  <2>. QED
    BY <1>1, <2>2, <2>5, NowStays DEF build
<1>9. CASE Tick \/ SetClock \/ Invoke \/ UNCHANGED vars
  <2>1. UNCHANGED <<build, heaps, now>> /\ clock' \in Nat /\ clock' >= clock
    BY <1>1, <1>9 DEF Tick, SetClock, Invoke, vars
  <2>2. wall' \in Grid(g)
    <3>1. wall' = wall \/ \E j \in Jumps : wall' = wall + j
      BY <1>9 DEF Tick, SetClock, Invoke, vars
    <3>. QED
      BY ZenonT(60), <1>1, <3>1, GridFacts
  <2>3. ReachInv'
    BY <2>1 DEF ReachInv, heaps, now
  <2>. QED
    BY <1>1, <2>1, <2>2, <2>3, NowStays DEF build
<1>. QED
  BY <1>3, <1>4, <1>5, <1>6, <1>7, <1>8, <1>9 DEF Next

\* However the real time clock is set, the next time of a periodic stays one its
\* offset and interval allow, and no further away than the interval, when every
\* jump is a multiple of one that time_update notices (MIN_TIMEJUMP).
THEOREM PeriodicsStayInReach ==
  ASSUME NEW g \in Nat, MinTimejump <= g, \A j \in Jumps : \E i \in Int : j = i * g
  PROVE  Spec => []PeriodicsInReach
<1>1. Init => ClockInv(g) /\ ReachInv
  BY InitReaches
<1>2. IndInv /\ ClockInv(g) /\ ReachInv /\ [Next]_vars => (ClockInv(g) /\ ReachInv)'
  BY StepReaches
<1>3. ASSUME IndInv, ReachInv PROVE PeriodicsInReach
  <2>1. Fits(dheap, watcher, timers, periodics) /\ dheap \in {2, 4}
    BY <1>3 DEF IndInv, TypeInv
  <2>2. ASSUME NEW w \in HeapWatchers(periodics) PROVE InReach(watcher[w], watcher[w].at, ev_rt_now)
    <3>1. PICK e \in Entries(periodics) : e.w = w
      BY <2>1, HeapWatchersFacts DEF Fits
    <3>2. e.at = watcher[w].at
      BY <2>1, <3>1 DEF Fits
    <3>. QED
      BY <1>3, <3>1, <3>2 DEF ReachInv
  <2>. QED
    BY <2>2 DEF PeriodicsInReach, InReach
<1>. QED
  BY IndInvHolds, <1>1, <1>2, <1>3, PTL DEF Spec
===============================================================================
