-------------------------------- MODULE EvHeap --------------------------------
(***************************************************************************)
(* The heaps of ev.c: an array of ANHE, each a watcher and a copy of its     *)
(* time.  The place of a watcher in the array is kept in its active field.  *)
(* D is DHEAP: 4, or 2 when EV_USE_4HEAP is off.  Places count from 1 here,   *)
(* and from HEAP0 in active, as in the code.                                *)
(***************************************************************************)
EXTENDS Integers, Sequences, FiniteSets

HEAP0(D) == D - 1
Parent(D, k) == (k - 2) \div D + 1
Children(D, n, k) == {c \in D * (k - 1) + 2 .. D * k + 1 : c <= n}

\* heap [k] = he, and ev_active
Placed(D, h, he, k) ==
  [heap |-> [h.heap EXCEPT ![k] = he], active |-> [h.active EXCEPT ![he.w] = k + HEAP0(D) - 1]]

\* The two in places k and p change them.  The loops of the code move the others
\* first and write he where it ends; nobody sees the heap in between.
Swapped(D, h, k, p) == Placed(D, Placed(D, h, h.heap[p], k), h.heap[k], p)

\* A turn towards the root: a parent that is later moves down
UpTurn(D, s) ==
  LET p == Parent(D, s.k)
  IN  IF s.k = 1 \/ s.h.heap[p].at <= s.h.heap[s.k].at THEN s ELSE [h |-> Swapped(D, s.h, s.k, p), k |-> p]

\* The earliest child, the first of several
Earliest(D, h, k) ==
  LET children == Children(D, Len(h.heap), k)
  IN  CHOOSE c \in children : \A d \in children :
        h.heap[c].at < h.heap[d].at \/ (h.heap[c].at = h.heap[d].at /\ c <= d)

\* A turn away from the root: it moves up
DownTurn(D, s) ==
  LET c == Earliest(D, s.h, s.k)
  IN  IF Children(D, Len(s.h.heap), s.k) = {} THEN s
      ELSE IF s.h.heap[s.k].at <= s.h.heap[c].at THEN s ELSE [h |-> Swapped(D, s.h, s.k, c), k |-> c]

\* Both loops end in at most as many turns as there are places.
UpHeap(D, h, k) ==
  LET turn[i \in 0 .. Len(h.heap)] ==
        IF i = 0 THEN [h |-> Placed(D, h, h.heap[k], k), k |-> k] ELSE UpTurn(D, turn[i - 1])
  IN  turn[Len(h.heap)].h

DownHeap(D, h, k) ==
  LET turn[i \in 0 .. Len(h.heap)] ==
        IF i = 0 THEN [h |-> Placed(D, h, h.heap[k], k), k |-> k] ELSE DownTurn(D, turn[i - 1])
  IN  turn[Len(h.heap)].h

AdjustDown(D, h, k) == DownHeap(D, h, k)                         \* mutant

AdjustHeap(D, h, k) ==
  IF k > 1 /\ h.heap[k].at <= h.heap[Parent(D, k)].at THEN UpHeap(D, h, k) ELSE DownHeap(D, h, k)

ReheapNothing(D, h) == h                                         \* mutant

Reheap(D, h) ==
  LET up[k \in 0 .. Len(h.heap)] == IF k = 0 THEN h ELSE UpHeap(D, up[k - 1], k)
  IN  up[Len(h.heap)]

\* The start of a timer or periodic: at the end of the array, then up
Insert(D, h, w, at) ==
  LET longer == [h EXCEPT !.heap = Append(@, [w |-> w, at |-> at])]
  IN  UpHeap(D, Placed(D, longer, [w |-> w, at |-> at], Len(longer.heap)), Len(longer.heap))

DeleteDown(D, h, w) ==                                            \* mutant
  LET k == h.active[w] - HEAP0(D) + 1
      n == Len(h.heap)
      shorter == [h EXCEPT !.heap = SubSeq(@, 1, n - 1), !.active[w] = 0]
  IN  IF k < n THEN DownHeap(D, [shorter EXCEPT !.heap[k] = h.heap[n]], k) ELSE shorter

\* The stop: the last one takes its place, and is moved to where it belongs
Delete(D, h, w) ==
  LET k == h.active[w] - HEAP0(D) + 1
      n == Len(h.heap)
      shorter == SubSeq(h.heap, 1, n - 1)
      moved == IF k < n THEN AdjustHeap(D, [h EXCEPT !.heap = [shorter EXCEPT ![k] = h.heap[n]]], k)
               ELSE [h EXCEPT !.heap = shorter]
  IN  [moved EXCEPT !.active[w] = 0]

\* The time of a watcher on the heap has changed: ANHE_at_cache, then to its place
Place(D, h, w) == h.active[w] - HEAP0(D) + 1
Cached(D, h, w, at) == [h EXCEPT !.heap[Place(D, h, w)].at = at]
Adjusted(D, h, w, at) == AdjustHeap(D, Cached(D, h, w, at), Place(D, h, w))
Sunk(D, h, w, at) == DownHeap(D, Cached(D, h, w, at), Place(D, h, w))
\* (SubSeq, of all places, has TLC compute the sequence at once.)
AllCached(h, at) ==
  LET cached == [k \in 1 .. Len(h.heap) |-> [h.heap[k] EXCEPT !.at = at[h.heap[k].w]]]
  IN  [h EXCEPT !.heap = SubSeq(cached, 1, Len(h.heap))]

Top(h) == h.heap[1]
HeapWatchers(h) == {h.heap[k].w : k \in DOMAIN h.heap}

\* verify_heap: places, order and cached times
HeapSound(D, h, at) ==
  /\ \A k \in DOMAIN h.heap :
       /\ h.active[h.heap[k].w] = k + HEAP0(D) - 1
       /\ k > 1 => h.heap[Parent(D, k)].at <= h.heap[k].at
       /\ h.heap[k].at = at[h.heap[k].w]
  /\ \A w \in DOMAIN h.active : (h.active[w] # 0) = (w \in HeapWatchers(h))
=============================================================================
