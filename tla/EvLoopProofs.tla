----------------------------- MODULE EvLoopProofs -----------------------------
(***************************************************************************)
(* Proofs about the core of libev with libevent's events, ev_once and        *)
(* ev_stat, for any watchers, priorities and programs.                      *)
(***************************************************************************)
EXTENDS EvPrograms, FiniteSetTheorems, FunctionTheorems, SequenceTheorems, WellFoundedInduction, TLAPS

-------------------------------------------------------------------------------
(* The invariant *)

Tables ==
  [pendings : [Pris -> Seq(Watchers \cup {Dummy})], pending : [Watchers -> Nat], pendingpri : Pris,
   refused : SUBSET Watchers, silenced : SUBSET Watchers, arrays : [Keys -> Seq(Watchers)],
   active : [Watchers -> Nat], activecnt : Int, idleall : Int]

\* A pending watcher is in the queue of its priority at its place, and a watcher
\* is in no queue twice; above pendingpri the queues are empty; what was silenced
\* is not pending.
QueuesSound(l) ==
  /\ \A w \in Watchers : l.pending[w] # 0 =>
       l.pending[w] \in 1 .. Len(l.pendings[Pri[w]]) /\ l.pendings[Pri[w]][l.pending[w]] = w
  /\ \A p \in Pris : \A i \in 1 .. Len(l.pendings[p]) :
       LET w == l.pendings[p][i] IN w # Dummy => Pri[w] = p /\ l.pending[w] = i
  /\ \A p \in Pris : p > l.pendingpri => l.pendings[p] = <<>>
  /\ \A w \in l.silenced : l.pending[w] = 0

\* An array has the active watchers of its kind, each at its place.
ArraysSound(l) ==
  /\ \A k \in Keys : \A i \in 1 .. Len(l.arrays[k]) : Key(l.arrays[k][i]) = k /\ l.active[l.arrays[k][i]] = i
  /\ \A w \in Watchers : Kind[w] \in Arrays /\ l.active[w] # 0 =>
       l.active[w] \in 1 .. Len(l.arrays[Key(w)]) /\ l.arrays[Key(w)][l.active[w]] = w
  /\ \A w \in Watchers : Kind[w] \notin Arrays => l.active[w] \in {0, 1}

Active(l) == {w \in Watchers : l.active[w] # 0}
Pending(l) == {w \in Watchers : l.pending[w] # 0}

Alive(l) == {w \in Active(l) : w \notin Unreferenced /\ KeepsAlive(w)}
Idling(l) == {w \in Active(l) : Kind[w] = "idle"}
CountsSound(l, n) ==
  l.activecnt = Cardinality(Alive(l)) + n /\ l.idleall = Cardinality(Idling(l))

Sound(l, n) == l \in Tables /\ QueuesSound(l) /\ ArraysSound(l) /\ CountsSound(l, n)

\* ev_run and ev_invoke_pending call each other and callbacks in turn.
Frames ==
  [at : {"run"}, pc : {"fork", "prepare", "decide", "loop_fork", "fd_reify", "poll", "tail"}, flags : EvRunFlags, w : {Dummy}]
  \cup [at : {"invoke"}, pc : {""}, flags : {""}, w : {Dummy}]
  \cup [at : {"call"}, pc : {"user", "library", "infy_wd"}, flags : {"", "error"}, w : Watchers]
  \cup [at : {"stat"}, pc : {"stat", "again", "add"}, flags : {"start", "cb", "wd"}, w : Stats]
  \cup [at : {"destroy", "destroyed"}, pc : {""}, flags : {""}, w : {Dummy}]

Callers == [run |-> {"call"}, invoke |-> {"run", "destroy"}, call |-> {"invoke"}, stat |-> {"call", "invoke"},
            destroy |-> {}, destroyed |-> {}]

\* Between its last test of loop_done and the end of its poll, ev_run calls nothing,
\* and infy_cb calls nothing but infy_wd.
Polling == {"loop_fork", "fd_reify", "poll"}
Calls(f, g) ==
  f.at \in Callers[g.at] /\ (f.at = "run" => f.pc \notin Polling) /\ (f.pc = "infy_wd" => g.at = "stat")

Nested(s) ==
  /\ s \in Seq(Frames)
  /\ \A i \in 1 .. Len(s) : i > 1 => Calls(s[i - 1], s[i])
  /\ Len(s) > 0 => s[1].at \in {"run", "stat", "destroy", "destroyed"}

\* An ev_stat that is being started is not active yet.
StackSound ==
  /\ Nested(stack)
  /\ \A i \in 1 .. Len(stack) : stack[i].at = "stat" /\ stack[i].flags = "start" => ~IsActive(stack[i].w)

\* Between two callbacks of ev_run nothing is pending but what fd_reify refused.
RunQuiet == TopIs("run") => \A w \in Watchers : pending[w] # 0 => Top.pc = "poll" /\ w \in refused

\* Who is to return is those whom the present value of loop_done is for, and
\* ev_run does not go past its test of it.
BreakSound ==
  /\ loop_done \in {"cancel", "one", "all"}
  /\ leave = Told(loop_done)
  /\ TopIs("run") /\ Top.pc \in Polling => loop_done = "cancel"

\* What event_del took back is neither active nor pending.
DeletedIsGone ==
  deleted \subseteq Events /\ \A e \in deleted : \A w \in {IoSig[e], To[e]} : ~IsActive(w) /\ pending[w] = 0

TypeOK ==
  /\ postfork \in BOOLEAN /\ refs \in Int /\ program \in Programs /\ ops \in Nat
  /\ once \in [Onces -> {"free", "user", "exit"}]
  /\ fs_fd \in {-2, -1, 1} /\ (fs_fd = 1 <=> IsActive(FsW))
  /\ infy.visit \subseteq Stats

IndInv ==
  /\ TypeOK /\ Sound(Ws, refs) /\ StackSound /\ RunQuiet /\ BreakSound
  /\ DeletedIsGone /\ FreedOnceIsGone

-------------------------------------------------------------------------------
(* What the operators on the tables do, field by field *)

LEMMA FedFields ==
  ASSUME NEW l \in Tables, NEW w \in Watchers
  PROVE  /\ Fed(l, w) \in Tables
         /\ Fed(l, w).pendings = [l.pendings EXCEPT ![Pri[w]] =
              IF l.pending[w] = 0 THEN Append(l.pendings[Pri[w]], w) ELSE l.pendings[Pri[w]]]
         /\ Fed(l, w).pending = [l.pending EXCEPT ![w] =
              IF l.pending[w] = 0 THEN Len(l.pendings[Pri[w]]) + 1 ELSE l.pending[w]]
         /\ Fed(l, w).pendingpri = NumPri - 1
         /\ Fed(l, w).silenced = l.silenced \ {w}
         /\ Fed(l, w).refused = l.refused /\ Fed(l, w).arrays = l.arrays /\ Fed(l, w).active = l.active
         /\ Fed(l, w).activecnt = l.activecnt /\ Fed(l, w).idleall = l.idleall
<1>. DEFINE q == [l.pendings EXCEPT ![Pri[w]] =
                    IF l.pending[w] = 0 THEN Append(l.pendings[Pri[w]], w) ELSE l.pendings[Pri[w]]]
            at == [l.pending EXCEPT ![w] =
                    IF l.pending[w] = 0 THEN Len(l.pendings[Pri[w]]) + 1 ELSE l.pending[w]]
<1>1. q \in [Pris -> Seq(Watchers \cup {Dummy})] /\ at \in [Watchers -> Nat] /\ NumPri - 1 \in Pris
  <2>1. /\ l.pendings \in [Pris -> Seq(Watchers \cup {Dummy})] /\ l.pending \in [Watchers -> Nat]
        /\ Pri[w] \in Pris /\ NumPri - 1 \in Pris
    BY SMTT(60), EvLoopAssumption DEF Tables, Pris
  <2>2. PICK s : s = l.pendings[Pri[w]]
    OBVIOUS
  <2>3. s \in Seq(Watchers \cup {Dummy})
    BY <2>1, <2>2
  <2>4. Append(s, w) \in Seq(Watchers \cup {Dummy}) /\ Len(s) + 1 \in Nat
    BY <2>3
  <2>. QED
    BY <2>1, <2>2, <2>3, <2>4
<1>2. Fed(l, w).pendings = q /\ Fed(l, w).pending = at
  BY DEF Fed, Tables, Raised
<1>3. /\ Fed(l, w).pendingpri = NumPri - 1 /\ Fed(l, w).silenced = l.silenced \ {w}
      /\ Fed(l, w).refused = l.refused /\ Fed(l, w).arrays = l.arrays /\ Fed(l, w).active = l.active
      /\ Fed(l, w).activecnt = l.activecnt /\ Fed(l, w).idleall = l.idleall
  BY DEF Fed, Tables, Raised
<1>. HIDE DEF q, at
<1>4. Fed(l, w) \in Tables
  BY <1>1, <1>2, <1>3 DEF Tables, Fed
<1>. QED
  BY <1>2, <1>3, <1>4 DEF q, at

LEMMA FedSound ==
  ASSUME NEW l, NEW n \in Int, Sound(l, n), NEW w \in Watchers
  PROVE  /\ Sound(Fed(l, w), n)
         /\ Active(Fed(l, w)) = Active(l) /\ Pending(Fed(l, w)) = Pending(l) \cup {w}
         /\ Fed(l, w).refused = l.refused /\ Fed(l, w).arrays = l.arrays
<1>. DEFINE m == Fed(l, w)
<1>1. l \in Tables /\ QueuesSound(l)
  BY DEF Sound
<1>2. /\ m \in Tables
      /\ m.pendings = [l.pendings EXCEPT ![Pri[w]] =
              IF l.pending[w] = 0 THEN Append(l.pendings[Pri[w]], w) ELSE l.pendings[Pri[w]]]
      /\ m.pending = [l.pending EXCEPT ![w] =
              IF l.pending[w] = 0 THEN Len(l.pendings[Pri[w]]) + 1 ELSE l.pending[w]]
      /\ m.pendingpri = NumPri - 1
      /\ m.silenced = l.silenced \ {w}
      /\ m.refused = l.refused /\ m.arrays = l.arrays /\ m.active = l.active
      /\ m.activecnt = l.activecnt /\ m.idleall = l.idleall
  BY <1>1, FedFields
<1>. HIDE DEF m
<1>3. Pri \in [Watchers -> Pris] /\ w # Dummy
  BY EvLoopAssumption DEF Pris
<1>4. /\ l.pendings \in [Pris -> Seq(Watchers \cup {Dummy})] /\ l.pending \in [Watchers -> Nat]
  BY <1>1 DEF Tables
<1>5. QueuesSound(m)
  <2>. PICK q : q = l.pendings[Pri[w]]
    OBVIOUS
  <2>1. CASE l.pending[w] # 0
    <3>1. m.pendings = l.pendings /\ m.pending = l.pending
      <4>1. /\ m.pendings = [l.pendings EXCEPT ![Pri[w]] = l.pendings[Pri[w]]]
            /\ m.pending = [l.pending EXCEPT ![w] = l.pending[w]]
        BY <1>2, <2>1
      <4>. QED
        BY <1>4, <4>1
    <3>2. \A v \in m.silenced : m.pending[v] = 0
      BY <1>1, <1>2, <3>1 DEF QueuesSound
    <3>3. \A p \in Pris : ~(p > m.pendingpri)
      BY <1>2, EvLoopAssumption DEF Pris
    <3>. QED
      BY <1>1, <3>1, <3>2, <3>3 DEF QueuesSound
  <2>2. CASE l.pending[w] = 0
    <3>1. q \in Seq(Watchers \cup {Dummy})
      BY <1>3, <1>4
    <3>2. PICK r : r = Append(q, w)
      OBVIOUS
    <3>3. /\ Len(q) \in Nat /\ Len(r) = Len(q) + 1
          /\ r[Len(q) + 1] = w /\ \A i \in 1 .. Len(q) : r[i] = q[i]
      BY SMTT(60), <3>1, <3>2
    <3>4. /\ \A p \in Pris : m.pendings[p] = IF p = Pri[w] THEN r ELSE l.pendings[p]
          /\ \A v \in Watchers : m.pending[v] = IF v = w THEN Len(q) + 1 ELSE l.pending[v]
      BY <1>2, <1>3, <1>4, <2>2, <3>2
    <3>5. ASSUME NEW v \in Watchers, m.pending[v] # 0
          PROVE  m.pending[v] \in 1 .. Len(m.pendings[Pri[v]]) /\ m.pendings[Pri[v]][m.pending[v]] = v
      <4>1. CASE v = w
        BY <1>3, <3>3, <3>4, <4>1
      <4>2. CASE v # w
        <5>1. l.pending[v] \in 1 .. Len(l.pendings[Pri[v]]) /\ l.pendings[Pri[v]][l.pending[v]] = v
          BY <1>1, <3>4, <3>5, <4>2 DEF QueuesSound
        <5>2. m.pending[v] = l.pending[v] /\ Pri[v] \in Pris
          BY <1>3, <3>4, <4>2
        <5>3. CASE Pri[v] = Pri[w]
          <6>1. m.pendings[Pri[v]] = r /\ l.pending[v] \in 1 .. Len(q) /\ q[l.pending[v]] = v
            BY <3>4, <5>1, <5>2, <5>3
          <6>. QED
            BY <3>3, <5>2, <6>1
        <5>4. CASE Pri[v] # Pri[w]
          BY <3>4, <5>1, <5>2, <5>4
        <5>. QED
          BY <5>3, <5>4
      <4>. QED
        BY <4>1, <4>2
    <3>6. ASSUME NEW p \in Pris, NEW i \in 1 .. Len(m.pendings[p]), m.pendings[p][i] # Dummy
          PROVE  Pri[m.pendings[p][i]] = p /\ m.pending[m.pendings[p][i]] = i
      <4>1. CASE p = Pri[w] /\ i = Len(q) + 1
        BY ZenonT(60), <3>3, <3>4, <4>1
      <4>2. CASE p # Pri[w] \/ i # Len(q) + 1
        <5>1. i \in 1 .. Len(l.pendings[p]) /\ m.pendings[p][i] = l.pendings[p][i]
          BY SMTT(60), <1>3, <3>3, <3>4, <3>6, <4>2
        <5>2. Pri[l.pendings[p][i]] = p /\ l.pending[l.pendings[p][i]] = i
          BY <1>1, <3>6, <5>1 DEF QueuesSound
        <5>3. l.pendings[p][i] \in Watchers /\ l.pendings[p][i] # w
          BY <1>4, <2>2, <3>6, <5>1, <5>2
        <5>. QED
          BY <3>4, <5>1, <5>2, <5>3
      <4>. QED
        BY <4>1, <4>2
    <3>7. /\ \A p \in Pris : ~(p > m.pendingpri)
          /\ \A v \in m.silenced : m.pending[v] = 0
      <4>1. \A v \in l.silenced \ {w} : l.pending[v] = 0 /\ v \in Watchers
        BY <1>1 DEF QueuesSound, Tables
      <4>. QED
        BY <1>2, <3>4, <4>1, EvLoopAssumption DEF Pris
    <3>. QED
      BY <3>5, <3>6, <3>7 DEF QueuesSound
  <2>. QED
    BY <2>1, <2>2
<1>6. Active(m) = Active(l) /\ Pending(m) = Pending(l) \cup {w}
  <2>1. Len(l.pendings[Pri[w]]) + 1 # 0
    BY <1>3, <1>4
  <2>. QED
    BY <1>2, <1>4, <2>1 DEF Active, Pending
<1>7. ArraysSound(m) /\ CountsSound(m, n)
  <2>1. ArraysSound(l) /\ CountsSound(l, n)
    BY DEF Sound
  <2>2. ArraysSound(m)
    BY <1>2, <2>1 DEF ArraysSound
  <2>3. Alive(m) = Alive(l) /\ Idling(m) = Idling(l)
    BY <1>6 DEF Alive, Idling
  <2>. QED
    BY <1>2, <2>1, <2>2, <2>3 DEF CountsSound
<1>. QED
  BY <1>2, <1>5, <1>6, <1>7 DEF m, Sound

-------------------------------------------------------------------------------
(* Sequences of calls *)

\* Induction, for a set instead of a predicate
LEMMA SetInduction ==
  ASSUME NEW S, 0 \in S, \A n \in Nat : n \in S => n + 1 \in S
  PROVE  \A n \in Nat : n \in S
<1>. DEFINE T == Nat \ S
<1>. SUFFICES ASSUME T # {} PROVE FALSE
  OBVIOUS
<1>1. \E x \in T : \A y \in T : ~(<<y, x>> \in OpToRel(<, Nat))
  BY NatLessThanWellFounded, WFMin
<1>2. \A x, y \in Nat : <<y, x>> \in OpToRel(<, Nat) <=> y < x
  BY DEF OpToRel
<1>3. \E x \in T : \A y \in T : ~(y < x)
  BY <1>1, <1>2
<1>. QED
  BY <1>3

LEMMA FedAllSteps ==
  ASSUME NEW l, NEW ws, Len(ws) \in Nat
  PROVE  \E fed : /\ fed[0] = l /\ \A i \in 1 .. Len(ws) : fed[i] = Fed(fed[i - 1], ws[i])
                  /\ FedAll(l, ws) = fed[Len(ws)]
<1>. DEFINE IsFed(f, n) == f = [i \in 0 .. n |-> IF i = 0 THEN l ELSE Fed(f[i - 1], ws[i])]
            S == {n \in Nat : \E f : IsFed(f, n)}
<1>1. 0 \in S
  <2>1. IsFed([i \in 0 .. 0 |-> l], 0)
    OBVIOUS
  <2>. QED
    BY <2>1
<1>2. ASSUME NEW n \in Nat, n \in S
      PROVE  n + 1 \in S
  <2>1. PICK f : IsFed(f, n)
    BY <1>2
  <2>. DEFINE g == [i \in 0 .. n + 1 |-> IF i = n + 1 THEN Fed(f[n], ws[n + 1]) ELSE f[i]]
  <2>2. \A i \in 0 .. n + 1 : g[i] = IF i = 0 THEN l ELSE Fed(g[i - 1], ws[i])
    BY <2>1
  <2>3. IsFed(g, n + 1)
    BY <2>2
  <2>. HIDE DEF IsFed, g
  <2>. QED
    BY <2>3
<1>3. Len(ws) \in S
  <2>. HIDE DEF S
  <2>. QED
    BY <1>1, <1>2, SetInduction
<1>. DEFINE fed == CHOOSE f : IsFed(f, Len(ws))
<1>4. IsFed(fed, Len(ws))
  BY <1>3, Zenon
<1>5. FedAll(l, ws) = fed[Len(ws)]
  BY Zenon DEF FedAll
<1>. HIDE DEF fed
<1>6. /\ fed[0] = l
      /\ \A i \in 1 .. Len(ws) : fed[i] = Fed(fed[i - 1], ws[i])
  BY <1>4
<1>. QED
  BY <1>5, <1>6

LEMMA FedAllSound ==
  ASSUME NEW l, NEW n \in Int, Sound(l, n), NEW ws \in Seq(Watchers)
  PROVE  /\ Sound(FedAll(l, ws), n)
         /\ Active(FedAll(l, ws)) = Active(l)
         /\ Pending(FedAll(l, ws)) = Pending(l) \cup {ws[i] : i \in 1 .. Len(ws)}
         /\ FedAll(l, ws).refused = l.refused /\ FedAll(l, ws).arrays = l.arrays
<1>1. PICK fed : /\ fed[0] = l /\ \A i \in 1 .. Len(ws) : fed[i] = Fed(fed[i - 1], ws[i])
                 /\ FedAll(l, ws) = fed[Len(ws)]
  BY SMTT(60), FedAllSteps
<1>. DEFINE P(k) == /\ Sound(fed[k], n)
                    /\ Active(fed[k]) = Active(l)
                    /\ Pending(fed[k]) = Pending(l) \cup {ws[i] : i \in 1 .. k}
                    /\ fed[k].refused = l.refused /\ fed[k].arrays = l.arrays
            S == {k \in Nat : k <= Len(ws) => P(k)}
<1>2. 0 \in S
  BY <1>1
<1>3. ASSUME NEW k \in Nat, k \in S
      PROVE  k + 1 \in S
  <2>. SUFFICES ASSUME k + 1 <= Len(ws) PROVE P(k + 1)
    OBVIOUS
  <2>1. P(k) /\ ws[k + 1] \in Watchers /\ fed[k + 1] = Fed(fed[k], ws[k + 1])
    BY <1>1, <1>3
  <2>2. /\ Sound(fed[k + 1], n)
        /\ Active(fed[k + 1]) = Active(fed[k]) /\ Pending(fed[k + 1]) = Pending(fed[k]) \cup {ws[k + 1]}
        /\ fed[k + 1].refused = fed[k].refused /\ fed[k + 1].arrays = fed[k].arrays
    BY <2>1, FedSound
  <2>3. {ws[i] : i \in 1 .. k + 1} = {ws[i] : i \in 1 .. k} \cup {ws[k + 1]}
    OBVIOUS
  <2>. QED
    BY <2>1, <2>2, <2>3
<1>4. Len(ws) \in S
  <2>. HIDE DEF S
  <2>. QED
    BY <1>2, <1>3, SetInduction
<1>. QED
  BY <1>1, <1>4

-------------------------------------------------------------------------------
(* clear_pending *)

LEMMA ClearedFields ==
  ASSUME NEW l \in Tables, NEW w \in Watchers
  PROVE  /\ Cleared(l, w) \in Tables
         /\ Cleared(l, w).pendings = [l.pendings EXCEPT ![Pri[w]] =
              IF l.pending[w] = 0 THEN l.pendings[Pri[w]]
              ELSE [l.pendings[Pri[w]] EXCEPT ![l.pending[w]] = Dummy]]
         /\ Cleared(l, w).pending = [l.pending EXCEPT ![w] = 0]
         /\ Cleared(l, w).pendingpri = l.pendingpri
         /\ Cleared(l, w).silenced = l.silenced \cup {w} /\ Cleared(l, w).refused = l.refused \ {w}
         /\ Cleared(l, w).arrays = l.arrays /\ Cleared(l, w).active = l.active
         /\ Cleared(l, w).activecnt = l.activecnt /\ Cleared(l, w).idleall = l.idleall
<1>. DEFINE q == [l.pendings EXCEPT ![Pri[w]] =
                    IF l.pending[w] = 0 THEN l.pendings[Pri[w]]
                    ELSE [l.pendings[Pri[w]] EXCEPT ![l.pending[w]] = Dummy]]
            at == [l.pending EXCEPT ![w] = 0]
<1>1. q \in [Pris -> Seq(Watchers \cup {Dummy})] /\ at \in [Watchers -> Nat]
  <2>1. Pri[w] \in Pris /\ l.pendings \in [Pris -> Seq(Watchers \cup {Dummy})] /\ l.pending \in [Watchers -> Nat]
    BY EvLoopAssumption DEF Tables, Pris
  <2>2. ASSUME NEW s \in Seq(Watchers \cup {Dummy}), NEW k \in Nat
        PROVE  [s EXCEPT ![k] = Dummy] \in Seq(Watchers \cup {Dummy})
    <3>. DEFINE A == Watchers \cup {Dummy}
    <3>1. PICK k1 \in Nat : s \in [1 .. k1 -> A]
      BY SeqDef
    <3>2. Dummy \in A
      OBVIOUS
    <3>. HIDE DEF A
    <3>3. [s EXCEPT ![k] = Dummy] \in [1 .. k1 -> A]
      BY <3>1, <3>2
    <3>. QED
      BY <3>1, <3>3, SeqDef
  <2>. QED
    BY <2>1, <2>2
<1>2. Cleared(l, w).pendings = q /\ Cleared(l, w).pending = at
  BY DEF Cleared, Tables
<1>3. /\ Cleared(l, w).pendingpri = l.pendingpri
      /\ Cleared(l, w).silenced = l.silenced \cup {w} /\ Cleared(l, w).refused = l.refused \ {w}
      /\ Cleared(l, w).arrays = l.arrays /\ Cleared(l, w).active = l.active
      /\ Cleared(l, w).activecnt = l.activecnt /\ Cleared(l, w).idleall = l.idleall
  BY DEF Cleared, Tables
<1>. HIDE DEF q, at
<1>4. Cleared(l, w) \in Tables
  BY <1>1, <1>2, <1>3 DEF Tables, Cleared
<1>. QED
  BY <1>2, <1>3, <1>4 DEF q, at

LEMMA ClearedSound ==
  ASSUME NEW l, NEW n \in Int, Sound(l, n), NEW w \in Watchers
  PROVE  /\ Sound(Cleared(l, w), n)
         /\ Active(Cleared(l, w)) = Active(l) /\ Pending(Cleared(l, w)) = Pending(l) \ {w}
         /\ Cleared(l, w).refused = l.refused \ {w} /\ Cleared(l, w).active = l.active
<1>. DEFINE m == Cleared(l, w)
<1>1. l \in Tables /\ QueuesSound(l)
  BY DEF Sound
<1>2. /\ m \in Tables
      /\ m.pendings = [l.pendings EXCEPT ![Pri[w]] =
              IF l.pending[w] = 0 THEN l.pendings[Pri[w]]
              ELSE [l.pendings[Pri[w]] EXCEPT ![l.pending[w]] = Dummy]]
      /\ m.pending = [l.pending EXCEPT ![w] = 0]
      /\ m.pendingpri = l.pendingpri
      /\ m.silenced = l.silenced \cup {w} /\ m.refused = l.refused \ {w}
      /\ m.arrays = l.arrays /\ m.active = l.active
      /\ m.activecnt = l.activecnt /\ m.idleall = l.idleall
  BY <1>1, ClearedFields
<1>. HIDE DEF m
<1>3. Pri \in [Watchers -> Pris] /\ w # Dummy
  BY EvLoopAssumption DEF Pris
<1>4. /\ l.pendings \in [Pris -> Seq(Watchers \cup {Dummy})] /\ l.pending \in [Watchers -> Nat]
  BY <1>1 DEF Tables
<1>5. QueuesSound(m)
  <2>1. \A v \in Watchers : m.pending[v] = IF v = w THEN 0 ELSE l.pending[v]
    BY <1>2, <1>4
  <2>2. \A p \in Pris : /\ Len(m.pendings[p]) = Len(l.pendings[p])
                        /\ \A i \in 1 .. Len(l.pendings[p]) :
                             m.pendings[p][i] = IF p = Pri[w] /\ i = l.pending[w] /\ l.pending[w] # 0
                                                THEN Dummy ELSE l.pendings[p][i]
    BY <1>2, <1>3, <1>4
  <2>3. ASSUME NEW v \in Watchers, m.pending[v] # 0
        PROVE  m.pending[v] \in 1 .. Len(m.pendings[Pri[v]]) /\ m.pendings[Pri[v]][m.pending[v]] = v
    <3>1. v # w /\ l.pending[v] # 0
      BY <2>1, <2>3
    <3>2. l.pending[v] \in 1 .. Len(l.pendings[Pri[v]]) /\ l.pendings[Pri[v]][l.pending[v]] = v
      BY <1>1, <3>1 DEF QueuesSound
    <3>3. l.pending[w] # 0 => l.pendings[Pri[w]][l.pending[w]] = w
      BY <1>1 DEF QueuesSound
    <3>. QED
      BY ZenonT(60), <1>3, <2>1, <2>2, <3>1, <3>2, <3>3
  <2>4. ASSUME NEW p \in Pris, NEW i \in 1 .. Len(m.pendings[p]), m.pendings[p][i] # Dummy
        PROVE  Pri[m.pendings[p][i]] = p /\ m.pending[m.pendings[p][i]] = i
    <3>1. i \in 1 .. Len(l.pendings[p]) /\ m.pendings[p][i] = l.pendings[p][i]
          /\ ~(p = Pri[w] /\ i = l.pending[w] /\ l.pending[w] # 0)
      BY <2>2, <2>4
    <3>2. Pri[l.pendings[p][i]] = p /\ l.pending[l.pendings[p][i]] = i
      BY <1>1, <2>4, <3>1 DEF QueuesSound
    <3>3. l.pendings[p][i] \in Watchers
      BY <1>4, <2>4, <3>1
    <3>. QED
      BY <2>1, <3>1, <3>2, <3>3
  <2>5. ASSUME NEW p \in Pris, p > m.pendingpri
        PROVE  m.pendings[p] = <<>>
    <3>1. l.pendings[p] = <<>>
      BY <1>1, <1>2, <2>5 DEF QueuesSound
    <3>2. m.pendings[p] \in Seq(Watchers \cup {Dummy}) /\ Len(m.pendings[p]) = 0
      BY <1>2, <2>2, <3>1 DEF Tables
    <3>. QED
      BY <3>2
  <2>6. \A v \in m.silenced : m.pending[v] = 0
    BY <1>1, <1>2, <2>1 DEF QueuesSound, Tables
  <2>. QED
    BY <2>3, <2>4, <2>5, <2>6 DEF QueuesSound
<1>6. Active(m) = Active(l) /\ Pending(m) = Pending(l) \ {w}
  BY <1>2, <1>4 DEF Active, Pending
<1>7. ArraysSound(m) /\ CountsSound(m, n)
  <2>1. ArraysSound(l) /\ CountsSound(l, n)
    BY DEF Sound
  <2>2. ArraysSound(m)
    BY <1>2, <2>1 DEF ArraysSound
  <2>3. Alive(m) = Alive(l) /\ Idling(m) = Idling(l)
    BY <1>6 DEF Alive, Idling
  <2>. QED
    BY <1>2, <2>1, <2>2, <2>3 DEF CountsSound
<1>. QED
  BY <1>2, <1>5, <1>6, <1>7 DEF m, Sound

-------------------------------------------------------------------------------
(* ev_xxx_start and ev_xxx_stop *)

LEMMA KeyFacts ==
  ASSUME NEW w \in Watchers, Kind[w] \in Arrays
  PROVE  Key(w) \in Keys
BY EvLoopAssumption DEF Key, Keys, Pris

\* The queues of two tables, and what else is in them
SameQueues(l, m) ==
  m.pendings = l.pendings /\ m.pending = l.pending /\ m.pendingpri = l.pendingpri
  /\ m.refused = l.refused /\ m.silenced = l.silenced

LEMMA SameQueuesSound ==
  ASSUME NEW l, NEW m, SameQueues(l, m), QueuesSound(l)
  PROVE  QueuesSound(m) /\ Pending(m) = Pending(l)
BY DEF SameQueues, QueuesSound, Pending

\* A record with the fields of the tables
IsTables(m) ==
  m = [pendings |-> m.pendings, pending |-> m.pending, pendingpri |-> m.pendingpri, refused |-> m.refused,
       silenced |-> m.silenced, arrays |-> m.arrays, active |-> m.active, activecnt |-> m.activecnt,
       idleall |-> m.idleall]

LEMMA SameQueuesTables ==
  ASSUME NEW l \in Tables, NEW m, IsTables(m), SameQueues(l, m),
         m.arrays \in [Keys -> Seq(Watchers)], m.active \in [Watchers -> Nat], m.activecnt \in Int, m.idleall \in Int
  PROVE  m \in Tables
BY DEF IsTables, SameQueues, Tables

LEMMA StartedFields ==
  ASSUME NEW l \in Tables, NEW w \in Watchers
  PROVE  /\ Started(l, w) \in Tables /\ SameQueues(l, Started(l, w))
         /\ Started(l, w).activecnt = IF KeepsAlive(w) THEN l.activecnt + 1 ELSE l.activecnt
         /\ Started(l, w).idleall = IF Kind[w] = "idle" THEN l.idleall + 1 ELSE l.idleall
         /\ Kind[w] \notin Arrays =>
              Started(l, w).arrays = l.arrays /\ Started(l, w).active = [l.active EXCEPT ![w] = 1]
         /\ Kind[w] \in Arrays =>
              /\ Started(l, w).arrays = [l.arrays EXCEPT ![Key(w)] = Append(l.arrays[Key(w)], w)]
              /\ Started(l, w).active = [l.active EXCEPT ![w] = Len(l.arrays[Key(w)]) + 1]
<1>1. SameQueues(l, Started(l, w))
  BY DEF Started, Counted, Tables, SameQueues
<1>2. Started(l, w).activecnt = IF KeepsAlive(w) THEN l.activecnt + 1 ELSE l.activecnt
  BY DEF Started, Counted, Tables
<1>3. Started(l, w).idleall = IF Kind[w] = "idle" THEN l.idleall + 1 ELSE l.idleall
  BY DEF Started, Counted, Tables
<1>4. IsTables(Started(l, w))
  <2>1. CASE Kind[w] \notin Arrays
    BY <2>1 DEF Started, Counted, Tables, IsTables
  <2>2. CASE Kind[w] \in Arrays
    BY <2>2 DEF Started, Counted, Tables, IsTables
  <2>. QED
    BY <2>1, <2>2
<1>5. Started(l, w).activecnt \in Int /\ Started(l, w).idleall \in Int
  BY <1>2, <1>3 DEF Tables
<1>6. ASSUME Kind[w] \notin Arrays
      PROVE  /\ Started(l, w).arrays = l.arrays /\ Started(l, w).active = [l.active EXCEPT ![w] = 1]
             /\ Started(l, w) \in Tables
  <2>1. Started(l, w).arrays = l.arrays /\ Started(l, w).active = [l.active EXCEPT ![w] = 1]
    BY <1>6 DEF Started, Counted, Tables
  <2>2. [l.active EXCEPT ![w] = 1] \in [Watchers -> Nat]
    BY DEF Tables
  <2>. QED
    BY <1>1, <1>2, <1>3, <1>4, <1>5, <1>6, <2>1, <2>2, SameQueuesTables DEF Tables
<1>7. ASSUME Kind[w] \in Arrays
      PROVE  /\ Started(l, w).arrays = [l.arrays EXCEPT ![Key(w)] = Append(l.arrays[Key(w)], w)]
             /\ Started(l, w).active = [l.active EXCEPT ![w] = Len(l.arrays[Key(w)]) + 1]
             /\ Started(l, w) \in Tables
  <2>. DEFINE as == [l.arrays EXCEPT ![Key(w)] = Append(l.arrays[Key(w)], w)]
              at == [l.active EXCEPT ![w] = Len(l.arrays[Key(w)]) + 1]
  <2>1. Started(l, w).arrays = as /\ Started(l, w).active = at
    BY <1>7 DEF Started, Counted, Tables
  <2>2. as \in [Keys -> Seq(Watchers)] /\ at \in [Watchers -> Nat]
    BY <1>7, KeyFacts DEF Tables
  <2>. HIDE DEF as, at
  <2>3. Started(l, w) \in Tables
    BY <1>1, <1>4, <1>5, <2>1, <2>2, SameQueuesTables
  <2>. QED
    BY <2>1, <2>3 DEF as, at
<1>. QED
  BY <1>1, <1>2, <1>3, <1>6, <1>7

LEMMA RemovedFields ==
  ASSUME NEW l \in Tables, NEW w \in Watchers, l.active[w] # 0, ArraysSound(l)
  PROVE  /\ Removed(l, w) \in Tables /\ SameQueues(l, Removed(l, w))
         /\ Removed(l, w).activecnt = IF KeepsAlive(w) THEN l.activecnt - 1 ELSE l.activecnt
         /\ Removed(l, w).idleall = IF Kind[w] = "idle" THEN l.idleall - 1 ELSE l.idleall
         /\ Kind[w] \notin Arrays =>
              Removed(l, w).arrays = l.arrays /\ Removed(l, w).active = [l.active EXCEPT ![w] = 0]
         /\ Kind[w] \in Arrays =>
              LET ws == l.arrays[Key(w)]
                  last == ws[Len(ws)]
              IN  /\ Removed(l, w).arrays = [l.arrays EXCEPT ![Key(w)] =
                        SubSeq([ws EXCEPT ![l.active[w]] = last], 1, Len(ws) - 1)]
                  /\ Removed(l, w).active =
                        [v \in Watchers |-> IF v = w THEN 0 ELSE IF v = last THEN l.active[w] ELSE l.active[v]]
<1>1. SameQueues(l, Removed(l, w))
  BY DEF Removed, Counted, Tables, SameQueues
<1>2. Removed(l, w).activecnt = IF KeepsAlive(w) THEN l.activecnt - 1 ELSE l.activecnt
  BY DEF Removed, Counted, Tables
<1>3. Removed(l, w).idleall = IF Kind[w] = "idle" THEN l.idleall - 1 ELSE l.idleall
  BY DEF Removed, Counted, Tables
<1>4. IsTables(Removed(l, w))
  <2>1. CASE Kind[w] \notin Arrays
    BY <2>1 DEF Removed, Counted, Tables, IsTables
  <2>2. CASE Kind[w] \in Arrays
    BY <2>2 DEF Removed, Counted, Tables, IsTables
  <2>. QED
    BY <2>1, <2>2
<1>5. Removed(l, w).activecnt \in Int /\ Removed(l, w).idleall \in Int
  BY <1>2, <1>3 DEF Tables
<1>6. ASSUME Kind[w] \notin Arrays
      PROVE  /\ Removed(l, w).arrays = l.arrays /\ Removed(l, w).active = [l.active EXCEPT ![w] = 0]
             /\ Removed(l, w) \in Tables
  <2>1. Removed(l, w).arrays = l.arrays /\ Removed(l, w).active = [l.active EXCEPT ![w] = 0]
    BY <1>6 DEF Removed, Counted, Tables
  <2>2. [l.active EXCEPT ![w] = 0] \in [Watchers -> Nat]
    BY DEF Tables
  <2>. QED
    BY <1>1, <1>2, <1>3, <1>4, <1>5, <1>6, <2>1, <2>2, SameQueuesTables DEF Tables
<1>7. ASSUME Kind[w] \in Arrays
      PROVE  LET ws == l.arrays[Key(w)]
                 last == ws[Len(ws)]
             IN  /\ Removed(l, w).arrays = [l.arrays EXCEPT ![Key(w)] =
                       SubSeq([ws EXCEPT ![l.active[w]] = last], 1, Len(ws) - 1)]
                 /\ Removed(l, w).active =
                       [v \in Watchers |-> IF v = w THEN 0 ELSE IF v = last THEN l.active[w] ELSE l.active[v]]
                 /\ Removed(l, w) \in Tables
  <2>1. PICK ws : ws = l.arrays[Key(w)]
    OBVIOUS
  <2>. DEFINE last == ws[Len(ws)]
              shorter == SubSeq([ws EXCEPT ![l.active[w]] = last], 1, Len(ws) - 1)
              as == [l.arrays EXCEPT ![Key(w)] = shorter]
              at == [v \in Watchers |-> IF v = w THEN 0 ELSE IF v = last THEN l.active[w] ELSE l.active[v]]
  <2>2. Removed(l, w).arrays = as /\ Removed(l, w).active = at
    BY <1>7, <2>1 DEF Removed, Counted, Moved, Tables
  <2>3. ws \in Seq(Watchers) /\ l.active[w] \in 1 .. Len(ws)
    BY <1>7, <2>1, KeyFacts DEF Tables, ArraysSound
  <2>4. shorter \in Seq(Watchers)
    <3>1. PICK k \in Nat : ws \in [1 .. k -> Watchers] /\ k = Len(ws) /\ k > 0
      BY <2>3, SeqDef
    <3>2. last \in Watchers /\ l.active[w] \in 1 .. k
      BY <2>3, <3>1
    <3>. HIDE DEF last
    <3>3. [ws EXCEPT ![l.active[w]] = last] \in [1 .. k -> Watchers]
      BY <3>1, <3>2
    <3>4. [ws EXCEPT ![l.active[w]] = last] \in Seq(Watchers) /\ k - 1 \in Nat
      BY <3>1, <3>3, SeqDef
    <3>5. shorter = [i \in 1 .. k - 1 |-> [ws EXCEPT ![l.active[w]] = last][i]]
      BY <3>1, <3>3, <3>4
    <3>6. \A f \in [1 .. k -> Watchers] : [i \in 1 .. k - 1 |-> f[i]] \in [1 .. k - 1 -> Watchers]
      BY <3>1
    <3>7. shorter \in [1 .. k - 1 -> Watchers]
      BY <3>3, <3>5, <3>6
    <3>. QED
      BY <3>4, <3>7, SeqDef
  <2>5. as \in [Keys -> Seq(Watchers)] /\ at \in [Watchers -> Nat]
    BY <1>7, <2>4, KeyFacts DEF Tables
  <2>. HIDE DEF as, at, shorter, last
  <2>6. Removed(l, w) \in Tables
    BY <1>1, <1>4, <1>5, <2>2, <2>5, SameQueuesTables
  <2>. QED
    BY <2>1, <2>2, <2>6 DEF as, at, shorter, last
<1>. QED
  BY <1>1, <1>2, <1>3, <1>6, <1>7

LEMMA StartedSound ==
  ASSUME NEW l, NEW n \in Int, Sound(l, n), NEW w \in Watchers, w \notin Active(l)
  PROVE  /\ Sound(Started(l, w), IF w \in Unreferenced /\ KeepsAlive(w) THEN n + 1 ELSE n)
         /\ Active(Started(l, w)) = Active(l) \cup {w} /\ Pending(Started(l, w)) = Pending(l)
         /\ Started(l, w).refused = l.refused /\ Started(l, w).active[w] # 0
<1>. DEFINE m == Started(l, w)
<1>1. l \in Tables /\ QueuesSound(l) /\ ArraysSound(l) /\ CountsSound(l, n) /\ l.active[w] = 0
  BY DEF Sound, Active
<1>2. /\ m \in Tables /\ SameQueues(l, m)
      /\ m.activecnt = IF KeepsAlive(w) THEN l.activecnt + 1 ELSE l.activecnt
      /\ m.idleall = IF Kind[w] = "idle" THEN l.idleall + 1 ELSE l.idleall
      /\ Kind[w] \notin Arrays => m.arrays = l.arrays /\ m.active = [l.active EXCEPT ![w] = 1]
      /\ Kind[w] \in Arrays =>
           /\ m.arrays = [l.arrays EXCEPT ![Key(w)] = Append(l.arrays[Key(w)], w)]
           /\ m.active = [l.active EXCEPT ![w] = Len(l.arrays[Key(w)]) + 1]
  BY <1>1, StartedFields
<1>. HIDE DEF m
<1>3. QueuesSound(m) /\ Pending(m) = Pending(l)
  BY <1>1, <1>2, SameQueuesSound
<1>4. l.active \in [Watchers -> Nat] /\ l.arrays \in [Keys -> Seq(Watchers)]
  BY <1>1 DEF Tables
<1>5. PICK ws : ws = l.arrays[Key(w)]
  OBVIOUS
<1>6. Kind[w] \in Arrays => Key(w) \in Keys /\ ws \in Seq(Watchers) /\ Len(ws) \in Nat
  BY <1>4, <1>5, KeyFacts
<1>7. \A v \in Watchers : v # w => m.active[v] = l.active[v]
  BY <1>2, <1>4
<1>8. m.active[w] # 0 /\ (Kind[w] \in Arrays => m.active[w] = Len(ws) + 1)
  BY <1>2, <1>4, <1>5, <1>6
<1>9. Active(m) = Active(l) \cup {w}
  BY <1>7, <1>8 DEF Active
<1>10. ArraysSound(m)
  <2>1. CASE Kind[w] \notin Arrays
    <3>1. \A k \in Keys : \A i \in 1 .. Len(l.arrays[k]) : l.arrays[k][i] \in Watchers /\ l.arrays[k][i] # w
      <4>1. \A k \in Keys : \A i \in 1 .. Len(l.arrays[k]) : l.arrays[k][i] \in Watchers
        BY <1>4
      <4>. QED
        BY <1>1, <4>1 DEF ArraysSound
    <3>2. m.active[w] = 1
      BY <1>2, <1>4, <2>1
    <3>. QED
      BY SMTT(60), <1>1, <1>2, <1>7, <2>1, <3>1, <3>2 DEF ArraysSound
  <2>2. CASE Kind[w] \in Arrays
    <3>1. PICK r : r = Append(ws, w)
      OBVIOUS
    <3>2. Len(r) = Len(ws) + 1 /\ r[Len(ws) + 1] = w /\ \A i \in 1 .. Len(ws) : r[i] = ws[i]
      BY <1>6, <2>2, <3>1
    <3>3. \A k \in Keys : m.arrays[k] = IF k = Key(w) THEN r ELSE l.arrays[k]
      BY <1>2, <1>4, <1>5, <1>6, <2>2, <3>1
    <3>4. \A k \in Keys : \A i \in 1 .. Len(l.arrays[k]) :
            l.arrays[k][i] \in Watchers /\ l.arrays[k][i] # w /\ Key(l.arrays[k][i]) = k
            /\ l.active[l.arrays[k][i]] = i
      <4>1. \A k \in Keys : \A i \in 1 .. Len(l.arrays[k]) : l.arrays[k][i] \in Watchers
        BY <1>4
      <4>. QED
        BY <1>1, <4>1 DEF ArraysSound
    <3>5. ASSUME NEW k \in Keys, NEW i \in 1 .. Len(m.arrays[k])
          PROVE  Key(m.arrays[k][i]) = k /\ m.active[m.arrays[k][i]] = i
      <4>1. CASE k = Key(w) /\ i = Len(ws) + 1
        BY <1>8, <2>2, <3>2, <3>3, <4>1
      <4>2. CASE ~(k = Key(w) /\ i = Len(ws) + 1)
        <5>1. i \in 1 .. Len(l.arrays[k]) /\ m.arrays[k][i] = l.arrays[k][i]
          BY SMTT(60), <1>5, <1>6, <2>2, <3>2, <3>3, <3>5, <4>2
        <5>. QED
          BY <1>7, <3>4, <5>1
      <4>. QED
        BY <4>1, <4>2
    <3>6. ASSUME NEW v \in Watchers, Kind[v] \in Arrays, m.active[v] # 0
          PROVE  m.active[v] \in 1 .. Len(m.arrays[Key(v)]) /\ m.arrays[Key(v)][m.active[v]] = v
      <4>1. CASE v = w
        BY <1>6, <1>8, <2>2, <3>2, <3>3, <4>1
      <4>2. CASE v # w
        <5>1. l.active[v] \in 1 .. Len(l.arrays[Key(v)]) /\ l.arrays[Key(v)][l.active[v]] = v
          BY <1>1, <1>7, <3>6, <4>2 DEF ArraysSound
        <5>2. Key(v) \in Keys
          BY <3>6, KeyFacts
        <5>3. CASE Key(v) = Key(w)
          <6>1. l.active[v] \in 1 .. Len(ws) /\ ws[l.active[v]] = v /\ m.arrays[Key(v)] = r
            BY <1>5, <3>3, <5>1, <5>2, <5>3
          <6>. QED
            BY <1>6, <1>7, <2>2, <3>2, <4>2, <6>1
        <5>4. CASE Key(v) # Key(w)
          BY <1>7, <3>3, <4>2, <5>1, <5>2, <5>4
        <5>. QED
          BY <5>3, <5>4
      <4>. QED
        BY <4>1, <4>2
    <3>7. \A v \in Watchers : Kind[v] \notin Arrays => m.active[v] \in {0, 1}
      BY <1>1, <1>7, <2>2 DEF ArraysSound
    <3>. QED
      BY <3>5, <3>6, <3>7 DEF ArraysSound
  <2>. QED
    BY <2>1, <2>2
<1>11. CountsSound(m, IF w \in Unreferenced /\ KeepsAlive(w) THEN n + 1 ELSE n)
  <2>1. IsFiniteSet(Alive(l)) /\ IsFiniteSet(Idling(l)) /\ w \notin Alive(l) /\ w \notin Idling(l)
    BY <1>1, FS_Subset, EvLoopAssumption DEF Alive, Idling, Active
  <2>2. Alive(m) = IF w \notin Unreferenced /\ KeepsAlive(w) THEN Alive(l) \cup {w} ELSE Alive(l)
    BY <1>9 DEF Alive
  <2>3. Idling(m) = IF Kind[w] = "idle" THEN Idling(l) \cup {w} ELSE Idling(l)
    BY <1>9 DEF Idling
  <2>4. Cardinality(Alive(l)) \in Nat /\ Cardinality(Idling(l)) \in Nat
    BY <2>1, FS_CardinalityType
  <2>5. Cardinality(Alive(l) \cup {w}) = Cardinality(Alive(l)) + 1
        /\ Cardinality(Idling(l) \cup {w}) = Cardinality(Idling(l)) + 1
    BY <2>1, FS_AddElement
  <2>6. l.activecnt = Cardinality(Alive(l)) + n /\ l.idleall = Cardinality(Idling(l))
    BY <1>1 DEF CountsSound
  <2>7. m.idleall = Cardinality(Idling(m))
    BY <1>2, <2>3, <2>5, <2>6
  <2>8. m.activecnt = Cardinality(Alive(m)) + (IF w \in Unreferenced /\ KeepsAlive(w) THEN n + 1 ELSE n)
    BY <1>2, <2>2, <2>4, <2>5, <2>6
  <2>. QED
    BY <2>7, <2>8 DEF CountsSound
<1>. QED
  BY <1>2, <1>3, <1>8, <1>9, <1>10, <1>11 DEF m, Sound, SameQueues

LEMMA RemovedSound ==
  ASSUME NEW l, NEW n \in Int, Sound(l, n), NEW w \in Active(l)
  PROVE  /\ Sound(Removed(l, w), IF w \in Unreferenced /\ KeepsAlive(w) THEN n - 1 ELSE n)
         /\ Active(Removed(l, w)) = Active(l) \ {w} /\ Pending(Removed(l, w)) = Pending(l)
         /\ Removed(l, w).refused = l.refused /\ Removed(l, w).active[w] = 0
<1>. DEFINE m == Removed(l, w)
<1>1. l \in Tables /\ QueuesSound(l) /\ ArraysSound(l) /\ CountsSound(l, n) /\ l.active[w] # 0 /\ w \in Watchers
  BY DEF Sound, Active
<1>2. /\ m \in Tables /\ SameQueues(l, m)
      /\ m.activecnt = IF KeepsAlive(w) THEN l.activecnt - 1 ELSE l.activecnt
      /\ m.idleall = IF Kind[w] = "idle" THEN l.idleall - 1 ELSE l.idleall
      /\ Kind[w] \notin Arrays => m.arrays = l.arrays /\ m.active = [l.active EXCEPT ![w] = 0]
  BY <1>1, RemovedFields
<1>3. PICK ws, last : ws = l.arrays[Key(w)] /\ last = ws[Len(ws)]
  OBVIOUS
<1>4. Kind[w] \in Arrays =>
        /\ m.arrays = [l.arrays EXCEPT ![Key(w)] = SubSeq([ws EXCEPT ![l.active[w]] = last], 1, Len(ws) - 1)]
        /\ m.active = [v \in Watchers |-> IF v = w THEN 0 ELSE IF v = last THEN l.active[w] ELSE l.active[v]]
  <2>1. ASSUME Kind[w] \in Arrays
        PROVE  LET us == l.arrays[Key(w)]
                   end == us[Len(us)]
               IN  /\ m.arrays = [l.arrays EXCEPT ![Key(w)] = SubSeq([us EXCEPT ![l.active[w]] = end], 1, Len(us) - 1)]
                   /\ m.active =
                        [v \in Watchers |-> IF v = w THEN 0 ELSE IF v = end THEN l.active[w] ELSE l.active[v]]
    BY <1>1, <2>1, RemovedFields
  <2>. QED
    BY <1>3, <2>1, Zenon
<1>. HIDE DEF m
<1>5. QueuesSound(m) /\ Pending(m) = Pending(l)
  BY <1>1, <1>2, SameQueuesSound
<1>6. l.active \in [Watchers -> Nat] /\ l.arrays \in [Keys -> Seq(Watchers)]
  BY <1>1 DEF Tables
<1>7. \A k \in Keys : \A i \in 1 .. Len(l.arrays[k]) :
        l.arrays[k][i] \in Watchers /\ Key(l.arrays[k][i]) = k /\ l.active[l.arrays[k][i]] = i
  <2>1. \A k \in Keys : \A i \in 1 .. Len(l.arrays[k]) : l.arrays[k][i] \in Watchers
    BY <1>6
  <2>. QED
    BY <1>1, <2>1 DEF ArraysSound
<1>8. ASSUME Kind[w] \notin Arrays
      PROVE  Active(m) = Active(l) \ {w} /\ ArraysSound(m) /\ m.active[w] = 0
  <2>1. \A v \in Watchers : m.active[v] = IF v = w THEN 0 ELSE l.active[v]
    BY <1>2, <1>6, <1>8
  <2>2. Active(m) = Active(l) \ {w}
    BY <2>1 DEF Active
  <2>3. Kind \in [Watchers -> Found \cup Arrays \cup {"stat"}]
    BY EvLoopAssumption
  <2>4. \A k \in Keys : \A i \in 1 .. Len(l.arrays[k]) : l.arrays[k][i] # w
    BY <1>7, <1>8 DEF Key, KeyOf, Keys, Arrays
  <2>5. ArraysSound(m)
    BY SMTT(60), <1>1, <1>2, <1>7, <1>8, <2>1, <2>4 DEF ArraysSound
  <2>. QED
    BY <1>1, <2>1, <2>2, <2>5
<1>9. ASSUME Kind[w] \in Arrays
      PROVE  Active(m) = Active(l) \ {w} /\ ArraysSound(m) /\ m.active[w] = 0
  <2>. DEFINE k == l.active[w]
  <2>1. Key(w) \in Keys /\ ws \in Seq(Watchers) /\ k \in 1 .. Len(ws) /\ ws[k] = w /\ Len(ws) \in Nat
    BY <1>1, <1>3, <1>6, <1>9, KeyFacts DEF ArraysSound
  <2>2. \A i \in 1 .. Len(ws) : ws[i] \in Watchers /\ Key(ws[i]) = Key(w) /\ l.active[ws[i]] = i
    BY <1>3, <1>7, <2>1
  <2>3. last \in Watchers /\ Key(last) = Key(w) /\ l.active[last] = Len(ws) /\ Len(ws) > 0
    BY SMTT(60), <1>3, <2>1, <2>2
  <2>4. PICK r : r = SubSeq([ws EXCEPT ![k] = last], 1, Len(ws) - 1)
    OBVIOUS
  <2>5. Len(r) = Len(ws) - 1 /\ \A i \in 1 .. Len(ws) - 1 : r[i] = IF i = k THEN last ELSE ws[i]
    <3>1. PICK c \in Nat : ws \in [1 .. c -> Watchers] /\ c = Len(ws) /\ c > 0
      BY <2>1, SeqDef
    <3>2. [ws EXCEPT ![k] = last] \in [1 .. c -> Watchers]
      BY <2>3, <3>1
    <3>3. [ws EXCEPT ![k] = last] \in Seq(Watchers) /\ c - 1 \in Nat
      BY <3>1, <3>2, SeqDef
    <3>4. r = [i \in 1 .. c - 1 |-> [ws EXCEPT ![k] = last][i]]
      BY <2>4, <3>1, <3>2, <3>3
    <3>. QED
      BY <3>1, <3>2, <3>4
  <2>6. \A j \in Keys : m.arrays[j] = IF j = Key(w) THEN r ELSE l.arrays[j]
    BY <1>4, <1>6, <1>9, <2>1, <2>4
  <2>7. \A v \in Watchers : m.active[v] = IF v = w THEN 0 ELSE IF v = last THEN k ELSE l.active[v]
    BY <1>4, <1>9
  <2>. HIDE DEF k
  <2>8. Active(m) = Active(l) \ {w}
    <3>1. k # 0 /\ l.active[last] # 0
      BY <2>1, <2>3
    <3>. QED
      BY <2>3, <2>7, <3>1 DEF Active
  <2>9. ASSUME NEW j \in Keys, NEW i \in 1 .. Len(m.arrays[j])
        PROVE  Key(m.arrays[j][i]) = j /\ m.active[m.arrays[j][i]] = i
    <3>1. CASE j = Key(w)
      <4>1. i \in 1 .. Len(ws) - 1 /\ m.arrays[j][i] = IF i = k THEN last ELSE ws[i]
        BY <2>1, <2>5, <2>6, <2>9, <3>1
      <4>2. CASE i = k
        BY <2>1, <2>2, <2>3, <2>7, <3>1, <4>1, <4>2
      <4>3. CASE i # k
        BY <2>1, <2>2, <2>3, <2>7, <3>1, <4>1, <4>3
      <4>. QED
        BY <4>2, <4>3
    <3>2. CASE j # Key(w)
      BY SMTT(60), <1>7, <2>3, <2>6, <2>7, <2>9, <3>2
    <3>. QED
      BY <3>1, <3>2
  <2>10. ASSUME NEW v \in Watchers, Kind[v] \in Arrays, m.active[v] # 0
         PROVE  m.active[v] \in 1 .. Len(m.arrays[Key(v)]) /\ m.arrays[Key(v)][m.active[v]] = v
    <3>1. v # w /\ Key(v) \in Keys
      BY <2>7, <2>10, KeyFacts
    <3>2. CASE v = last
      <4>1. k # Len(ws)
        BY <1>3, <2>1, <3>1, <3>2
      <4>2. m.active[v] = k /\ m.arrays[Key(v)] = r /\ k \in 1 .. Len(ws) - 1
        BY <2>1, <2>3, <2>6, <2>7, <3>1, <3>2, <4>1
      <4>. QED
        BY <2>5, <3>2, <4>2
    <3>3. CASE v # last
      <4>1. l.active[v] \in 1 .. Len(l.arrays[Key(v)]) /\ l.arrays[Key(v)][l.active[v]] = v
        BY <1>1, <2>7, <2>10, <3>1, <3>3 DEF ArraysSound
      <4>2. CASE Key(v) = Key(w)
        <5>1. l.active[v] \in 1 .. Len(ws) /\ ws[l.active[v]] = v /\ m.arrays[Key(v)] = r
          BY <1>3, <2>6, <3>1, <4>1, <4>2
        <5>2. l.active[v] # Len(ws) /\ l.active[v] # k
          BY <1>3, <2>1, <3>1, <3>3, <5>1
        <5>. QED
          BY <2>1, <2>5, <2>7, <3>1, <3>3, <5>1, <5>2
      <4>3. CASE Key(v) # Key(w)
        BY <2>6, <2>7, <3>1, <3>3, <4>1, <4>3
      <4>. QED
        BY <4>2, <4>3
    <3>. QED
      BY <3>2, <3>3
  <2>11. m.active[w] = 0
    BY <1>1, <2>7
  <2>. QED
    <3>1. Kind[last] \in Arrays
      BY <1>7, <1>9, <2>3 DEF Key, KeyOf
    <3>2. \A v \in Watchers : Kind[v] \notin Arrays => m.active[v] \in {0, 1}
      BY <1>1, <2>7, <3>1 DEF ArraysSound
    <3>. QED
      BY <2>8, <2>9, <2>10, <2>11, <3>2 DEF ArraysSound
<1>10. Active(m) = Active(l) \ {w} /\ ArraysSound(m) /\ m.active[w] = 0
  BY <1>1, <1>8, <1>9
<1>11. CountsSound(m, IF w \in Unreferenced /\ KeepsAlive(w) THEN n - 1 ELSE n)
  <2>1. IsFiniteSet(Alive(l)) /\ IsFiniteSet(Idling(l))
    BY <1>1, FS_Subset, EvLoopAssumption DEF Alive, Idling, Active
  <2>2. Alive(m) = IF w \notin Unreferenced /\ KeepsAlive(w) THEN Alive(l) \ {w} ELSE Alive(l)
    BY <1>10 DEF Alive
  <2>3. Idling(m) = IF Kind[w] = "idle" THEN Idling(l) \ {w} ELSE Idling(l)
    BY <1>10 DEF Idling
  <2>4. Cardinality(Alive(l)) \in Nat /\ Cardinality(Idling(l)) \in Nat
    BY <2>1, FS_CardinalityType
  <2>5. /\ w \notin Unreferenced /\ KeepsAlive(w) => Cardinality(Alive(l) \ {w}) = Cardinality(Alive(l)) - 1
        /\ Kind[w] = "idle" => Cardinality(Idling(l) \ {w}) = Cardinality(Idling(l)) - 1
    BY <2>1, FS_RemoveElement DEF Alive, Idling
  <2>6. l.activecnt = Cardinality(Alive(l)) + n /\ l.idleall = Cardinality(Idling(l))
    BY <1>1 DEF CountsSound
  <2>7. m.idleall = Cardinality(Idling(m))
    BY <1>2, <2>3, <2>5, <2>6
  <2>8. m.activecnt = Cardinality(Alive(m)) + (IF w \in Unreferenced /\ KeepsAlive(w) THEN n - 1 ELSE n)
    BY <1>2, <2>2, <2>4, <2>5, <2>6
  <2>. QED
    BY <2>7, <2>8 DEF CountsSound
<1>. QED
  BY <1>2, <1>5, <1>10, <1>11 DEF m, Sound, SameQueues

\* ev_ref and ev_unref of the library for a watcher of its own
Uncounted(l, w) == IF w \in Unreferenced /\ KeepsAlive(w) /\ w \in Active(l) THEN 1 ELSE 0

LEMMA StoppedSound ==
  ASSUME NEW l, NEW n \in Int, Sound(l, n), NEW w \in Watchers
  PROVE  /\ Sound(Stopped(l, w), n - Uncounted(l, w))
         /\ Active(Stopped(l, w)) = Active(l) \ {w} /\ Pending(Stopped(l, w)) = Pending(l) \ {w}
         /\ Stopped(l, w).refused = l.refused \ {w} /\ Stopped(l, w).active[w] = 0
<1>. DEFINE c == Cleared(l, w)
<1>1. /\ Sound(c, n) /\ Active(c) = Active(l) /\ Pending(c) = Pending(l) \ {w}
      /\ c.refused = l.refused \ {w} /\ c.active = l.active
  BY ClearedSound
<1>2. CASE w \notin Active(l)
  <2>1. Stopped(l, w) = c /\ l.active[w] = 0 /\ Uncounted(l, w) = 0
    BY <1>2 DEF Stopped, Active, Uncounted
  <2>. QED
    BY <1>1, <1>2, <2>1
<1>3. CASE w \in Active(l)
  <2>1. Stopped(l, w) = Removed(c, w)
    BY <1>3 DEF Stopped, Active
  <2>. HIDE DEF c
  <2>2. /\ Sound(Removed(c, w), IF w \in Unreferenced /\ KeepsAlive(w) THEN n - 1 ELSE n)
        /\ Active(Removed(c, w)) = Active(c) \ {w} /\ Pending(Removed(c, w)) = Pending(c)
        /\ Removed(c, w).refused = c.refused /\ Removed(c, w).active[w] = 0
    BY <1>1, <1>3, RemovedSound
  <2>3. (IF w \in Unreferenced /\ KeepsAlive(w) THEN n - 1 ELSE n) = n - Uncounted(l, w)
    BY <1>3 DEF Uncounted
  <2>. QED
    BY <1>1, <2>1, <2>2, <2>3
<1>. QED
  BY <1>2, <1>3

\* A watcher of the user or of libevent
LEMMA StoppedPlain ==
  ASSUME NEW l, NEW n \in Int, Sound(l, n), NEW w \in Watchers \ Unreferenced
  PROVE  /\ Sound(Stopped(l, w), n)
         /\ Active(Stopped(l, w)) = Active(l) \ {w} /\ Pending(Stopped(l, w)) = Pending(l) \ {w}
         /\ Stopped(l, w).refused = l.refused \ {w}
<1>1. n - Uncounted(l, w) = n
  BY DEF Uncounted
<1>. QED
  BY <1>1, StoppedSound

LEMMA StartedPlain ==
  ASSUME NEW l, NEW n \in Int, Sound(l, n), NEW w \in Watchers \ Unreferenced, w \notin Active(l)
  PROVE  /\ Sound(Started(l, w), n)
         /\ Active(Started(l, w)) = Active(l) \cup {w} /\ Pending(Started(l, w)) = Pending(l)
         /\ Started(l, w).refused = l.refused
BY StartedSound

LEMMA KilledSound ==
  ASSUME NEW l, NEW n \in Int, Sound(l, n), NEW w \in Watchers \ Unreferenced
  PROVE  /\ Sound(Killed(l, w), n)
         /\ Active(Killed(l, w)) = Active(l) \ {w} /\ Pending(Killed(l, w)) = Pending(l) \cup {w}
         /\ Killed(l, w).refused = l.refused \cup {w}
<1>. DEFINE f == Fed(Stopped(l, w), w)
<1>1. /\ Sound(f, n) /\ Active(f) = Active(l) \ {w} /\ Pending(f) = Pending(l) \cup {w}
      /\ f.refused = l.refused \ {w}
  BY StoppedPlain, FedSound
<1>2. Killed(l, w) = [f EXCEPT !.refused = f.refused \cup {w}]
  BY DEF Killed
<1>. HIDE DEF f
<1>. DEFINE k == [f EXCEPT !.refused = f.refused \cup {w}]
<1>3. /\ k \in Tables /\ k.refused = f.refused \cup {w}
      /\ k.pendings = f.pendings /\ k.pending = f.pending /\ k.pendingpri = f.pendingpri /\ k.silenced = f.silenced
      /\ k.arrays = f.arrays /\ k.active = f.active /\ k.activecnt = f.activecnt /\ k.idleall = f.idleall
  BY <1>1 DEF Sound, Tables
<1>. HIDE DEF k
<1>4. QueuesSound(k) /\ ArraysSound(k) /\ CountsSound(k, n) /\ Active(k) = Active(f) /\ Pending(k) = Pending(f)
  BY <1>1, <1>3 DEF Sound, QueuesSound, ArraysSound, CountsSound, Alive, Idling, Active, Pending
<1>. QED
  BY <1>1, <1>2, <1>3, <1>4 DEF k, Sound

-------------------------------------------------------------------------------
(* What is built from these *)

LEMMA ReferencedSound ==
  ASSUME NEW l, NEW n \in Int, Sound(l, n), NEW k \in Int
  PROVE  LET m == [l EXCEPT !.activecnt = l.activecnt + k]
         IN  Sound(m, n + k) /\ Active(m) = Active(l) /\ Pending(m) = Pending(l)
             /\ m.refused = l.refused /\ m.active = l.active
<1>. DEFINE m == [l EXCEPT !.activecnt = l.activecnt + k]
<1>1. /\ m \in Tables /\ m.activecnt = l.activecnt + k /\ l.activecnt \in Int
      /\ m.pendings = l.pendings /\ m.pending = l.pending /\ m.pendingpri = l.pendingpri
      /\ m.refused = l.refused /\ m.silenced = l.silenced
      /\ m.arrays = l.arrays /\ m.active = l.active /\ m.idleall = l.idleall
  <2>1. l \in Tables
    BY DEF Sound
  <2>2. l.activecnt \in Int /\ l.activecnt + k \in Int
    BY <2>1 DEF Tables
  <2>3. \A c \in Int : [l EXCEPT !.activecnt = c] \in Tables
    BY <2>1 DEF Tables
  <2>4. m \in Tables
    BY <2>2, <2>3
  <2>. QED
    BY <2>1, <2>2, <2>4 DEF Tables
<1>. HIDE DEF m
<1>2. QueuesSound(m) /\ ArraysSound(m) /\ Active(m) = Active(l) /\ Pending(m) = Pending(l)
      /\ Alive(m) = Alive(l) /\ Idling(m) = Idling(l)
  BY <1>1 DEF Sound, QueuesSound, ArraysSound, Alive, Idling, Active, Pending
<1>3. IsFiniteSet(Alive(l))
  BY FS_Subset, EvLoopAssumption DEF Alive, Active
<1>4. Cardinality(Alive(l)) \in Nat
  BY <1>3, FS_CardinalityType
<1>5. CountsSound(m, n + k)
  BY <1>1, <1>2, <1>4 DEF Sound, CountsSound
<1>. QED
  BY <1>1, <1>2, <1>5 DEF m, Sound

\* EV_INVOKE_PENDING begins with the highest priority.
LEMMA FromTopSound ==
  ASSUME NEW l, NEW n \in Int, Sound(l, n)
  PROVE  LET m == [l EXCEPT !.pendingpri = NumPri - 1]
         IN  Sound(m, n) /\ Active(m) = Active(l) /\ Pending(m) = Pending(l) /\ m.refused = l.refused
<1>. DEFINE m == [l EXCEPT !.pendingpri = NumPri - 1]
<1>1. /\ m \in Tables /\ m.pendingpri = NumPri - 1 /\ \A p \in Pris : ~(p > NumPri - 1)
      /\ m.pendings = l.pendings /\ m.pending = l.pending /\ m.activecnt = l.activecnt
      /\ m.refused = l.refused /\ m.silenced = l.silenced
      /\ m.arrays = l.arrays /\ m.active = l.active /\ m.idleall = l.idleall
  <2>1. l \in Tables /\ NumPri - 1 \in Pris /\ \A p \in Pris : ~(p > NumPri - 1)
    BY EvLoopAssumption DEF Sound, Pris
  <2>. QED
    BY <2>1 DEF Tables
<1>. HIDE DEF m
<1>2. ArraysSound(m) /\ Active(m) = Active(l) /\ Pending(m) = Pending(l)
      /\ Alive(m) = Alive(l) /\ Idling(m) = Idling(l)
  BY <1>1 DEF Sound, ArraysSound, Alive, Idling, Active, Pending
<1>3. QueuesSound(m)
  BY <1>1 DEF Sound, QueuesSound
<1>. QED
  BY <1>1, <1>2, <1>3 DEF m, Sound, CountsSound

\* Only active watchers are fed.
Feeds(l, m, n) ==
  /\ Sound(m, n) /\ Active(m) = Active(l) /\ m.refused = l.refused /\ m.arrays = l.arrays
  /\ Pending(l) \subseteq Pending(m) /\ Pending(m) \subseteq Pending(l) \cup Active(l)

LEMMA ArrayFed ==
  ASSUME NEW l, NEW n \in Int, Sound(l, n), NEW k \in Keys
  PROVE  Feeds(l, FedAll(l, l.arrays[k]), n) /\ l.arrays[k] \in Seq(Watchers)
<1>1. l.arrays[k] \in Seq(Watchers) /\ \A i \in 1 .. Len(l.arrays[k]) : l.arrays[k][i] \in Watchers
  BY DEF Sound, Tables
<1>2. {l.arrays[k][i] : i \in 1 .. Len(l.arrays[k])} \subseteq Active(l)
  BY <1>1 DEF Sound, ArraysSound, Active
<1>. QED
  BY <1>1, <1>2, FedAllSound DEF Feeds

LEMMA HighestExists ==
  ASSUME NEW n \in Nat, NEW some \in SUBSET (0 .. n), some # {}
  PROVE  \E p \in some : \A r \in some : r <= p
<1>. DEFINE T == {n - p : p \in some}
<1>1. T \subseteq Nat /\ T # {}
  <2>1. PICK z \in some : TRUE
    OBVIOUS
  <2>2. \A p \in some : p \in 0 .. n /\ n - p \in Nat
    OBVIOUS
  <2>. QED
    BY <2>1, <2>2
<1>. HIDE DEF T
<1>2. \E x \in T : \A y \in T : ~(<<y, x>> \in OpToRel(<, Nat))
  BY <1>1, NatLessThanWellFounded, WFMin
<1>3. \A x, y \in Nat : <<y, x>> \in OpToRel(<, Nat) <=> y < x
  BY DEF OpToRel
<1>4. \E x \in T : \A y \in T : ~(y < x)
  BY <1>1, <1>2, <1>3
<1>5. PICK p \in some : \A y \in T : ~(y < n - p)
  BY <1>4 DEF T
<1>6. ASSUME NEW r \in some
      PROVE  r <= p
  <2>1. n - r \in T
    BY DEF T
  <2>. QED
    BY <1>5, <2>1
<1>. QED
  BY <1>6

LEMMA IdleReifiedFeeds ==
  ASSUME NEW l, NEW n \in Int, Sound(l, n)
  PROVE  Feeds(l, IdleReified(l), n)
<1>. DEFINE quiet == {p \in Pris : \A r \in p .. NumPri - 1 : l.pendings[r] = <<>>}
            some == {p \in quiet : l.arrays[<<"idle", p>>] # <<>>}
            first == CHOOSE p \in some : \A r \in some : r <= p
<1>1. CASE l.idleall = 0 \/ some = {}
  BY <1>1 DEF IdleReified, Feeds
<1>2. CASE l.idleall # 0 /\ some # {}
  <2>1. IdleReified(l) = FedAll(l, l.arrays[<<"idle", first>>])
    BY <1>2 DEF IdleReified
  <2>2. first \in some
    <3>1. some \subseteq 0 .. NumPri - 1 /\ NumPri - 1 \in Nat
      BY EvLoopAssumption DEF Pris
    <3>. HIDE DEF some
    <3>. QED
      BY <1>2, <3>1, HighestExists
  <2>3. <<"idle", first>> \in Keys
    <3>1. first \in Pris /\ KeyOf("idle", first) = <<"idle", first>>
      BY <2>2 DEF KeyOf
    <3>. HIDE DEF first
    <3>. QED
      BY <3>1 DEF Keys, Arrays
  <2>. QED
    BY <2>1, <2>3, ArrayFed
<1>. QED
  BY <1>1, <1>2

LEMMA InSomeOrderFacts ==
  ASSUME NEW S, IsFiniteSet(S)
  PROVE  /\ InSomeOrder(S) \in [1 .. Cardinality(S) -> S] /\ InSomeOrder(S) \in Seq(S)
         /\ Cardinality(S) \in Nat /\ Len(InSomeOrder(S)) = Cardinality(S)
         /\ {InSomeOrder(S)[i] : i \in 1 .. Cardinality(S)} = S
         /\ \A i, j \in 1 .. Cardinality(S) : i # j => InSomeOrder(S)[i] # InSomeOrder(S)[j]
<1>1. Cardinality(S) \in Nat
  BY FS_CardinalityType
<1>2. PICK b \in Bijection(1 .. Cardinality(S), S) : TRUE
  BY FS_CardinalityType DEF ExistsBijection
<1>3. b \in [1 .. Cardinality(S) -> S] /\ {b[i] : i \in DOMAIN b} = S
  BY <1>2 DEF Bijection, Surjection
<1>. DEFINE f == InSomeOrder(S)
<1>4. f \in [1 .. Cardinality(S) -> S] /\ {f[i] : i \in DOMAIN f} = S
  BY <1>3 DEF InSomeOrder
<1>. HIDE DEF f
<1>5. f \in Surjection(1 .. Cardinality(S), S)
  BY <1>4 DEF Surjection
<1>6. IsFiniteSet(1 .. Cardinality(S)) /\ Cardinality(1 .. Cardinality(S)) = Cardinality(S)
  BY <1>1, FS_Interval
<1>7. f \in Injection(1 .. Cardinality(S), S)
  BY <1>5, <1>6, FS_SurjSameCardinalityImpliesInj
<1>8. \A i, j \in 1 .. Cardinality(S) : i # j => f[i] # f[j]
  BY <1>4, <1>7 DEF Injection, IsInjective
<1>9. f \in Seq(S) /\ Len(f) = Cardinality(S)
  BY <1>1, <1>4, SeqDef
<1>. QED
  BY <1>1, <1>4, <1>8, <1>9 DEF f

LEMMA WatchersOnSteps ==
  ASSUME NEW ws, IsFiniteSet(ws)
  PROVE  \E on : /\ on[0] = NoWatcher
                 /\ \A i \in 1 .. Cardinality(ws) : on[i] = Started(on[i - 1], InSomeOrder(ws)[i])
                 /\ WatchersOn(ws) = on[Cardinality(ws)]
<1>. DEFINE IsOn(f, n) == f = [i \in 0 .. n |-> IF i = 0 THEN NoWatcher ELSE Started(f[i - 1], InSomeOrder(ws)[i])]
            S == {n \in Nat : \E f : IsOn(f, n)}
<1>1. 0 \in S
  <2>1. IsOn([i \in 0 .. 0 |-> NoWatcher], 0)
    OBVIOUS
  <2>. QED
    BY <2>1
<1>2. ASSUME NEW n \in Nat, n \in S
      PROVE  n + 1 \in S
  <2>1. PICK f : IsOn(f, n)
    BY <1>2
  <2>. DEFINE g == [i \in 0 .. n + 1 |-> IF i = n + 1 THEN Started(f[n], InSomeOrder(ws)[n + 1]) ELSE f[i]]
  <2>2. \A i \in 0 .. n + 1 : g[i] = IF i = 0 THEN NoWatcher ELSE Started(g[i - 1], InSomeOrder(ws)[i])
    BY <2>1
  <2>3. IsOn(g, n + 1)
    BY <2>2
  <2>. HIDE DEF IsOn, g
  <2>. QED
    BY <2>3
<1>3. Len(InSomeOrder(ws)) = Cardinality(ws) /\ Cardinality(ws) \in Nat
  BY InSomeOrderFacts
<1>4. Cardinality(ws) \in S
  <2>. HIDE DEF S
  <2>. QED
    BY <1>1, <1>2, <1>3, SetInduction
<1>. DEFINE on == CHOOSE f : IsOn(f, Cardinality(ws))
<1>5. IsOn(on, Cardinality(ws))
  BY <1>4, Zenon
<1>6. WatchersOn(ws) = on[Cardinality(ws)]
  BY <1>3, Zenon DEF WatchersOn
<1>. HIDE DEF on
<1>7. /\ on[0] = NoWatcher
      /\ \A i \in 1 .. Cardinality(ws) : on[i] = Started(on[i - 1], InSomeOrder(ws)[i])
  BY <1>3, <1>5
<1>. QED
  BY <1>6, <1>7

LEMMA NoWatcherSound == Sound(NoWatcher, 0) /\ Active(NoWatcher) = {} /\ Pending(NoWatcher) = {}
<1>. DEFINE l == NoWatcher
<1>1. /\ l.pendings = [p \in Pris |-> <<>>] /\ l.pending = [w \in Watchers |-> 0] /\ l.pendingpri = 0
      /\ l.silenced = {} /\ l.arrays = [k \in Keys |-> <<>>] /\ l.active = [w \in Watchers |-> 0]
      /\ l.activecnt = 0 /\ l.idleall = 0
  BY DEF NoWatcher
<1>2. l \in Tables
  BY EvLoopAssumption DEF NoWatcher, Tables, Pris
<1>. HIDE DEF l
<1>3. QueuesSound(l) /\ ArraysSound(l) /\ Active(l) = {} /\ Pending(l) = {}
  BY <1>1 DEF QueuesSound, ArraysSound, Active, Pending
<1>4. Alive(l) = {} /\ Idling(l) = {}
  BY <1>3 DEF Alive, Idling
<1>5. CountsSound(l, 0)
  BY <1>1, <1>4, FS_EmptySet DEF CountsSound
<1>. QED
  BY <1>2, <1>3, <1>5 DEF l, Sound

LEMMA WatchersOnSound ==
  ASSUME NEW ws \in SUBSET (Watchers \ Unreferenced)
  PROVE  Sound(WatchersOn(ws), 0) /\ Active(WatchersOn(ws)) = ws /\ Pending(WatchersOn(ws)) = {}
<1>1. IsFiniteSet(ws)
  BY FS_Subset, EvLoopAssumption
<1>2. PICK on : /\ on[0] = NoWatcher
                /\ \A i \in 1 .. Cardinality(ws) : on[i] = Started(on[i - 1], InSomeOrder(ws)[i])
                /\ WatchersOn(ws) = on[Cardinality(ws)]
  BY <1>1, WatchersOnSteps
<1>3. PICK f : f = InSomeOrder(ws)
  OBVIOUS
<1>4. /\ f \in [1 .. Cardinality(ws) -> ws] /\ Cardinality(ws) \in Nat
      /\ {f[i] : i \in 1 .. Cardinality(ws)} = ws
      /\ \A i, j \in 1 .. Cardinality(ws) : i # j => f[i] # f[j]
  BY SMTT(60), <1>1, <1>3, InSomeOrderFacts
<1>. DEFINE P(k) == Sound(on[k], 0) /\ Active(on[k]) = {f[i] : i \in 1 .. k} /\ Pending(on[k]) = {}
            S == {k \in Nat : k <= Cardinality(ws) => P(k)}
<1>5. 0 \in S
  BY <1>2, NoWatcherSound
<1>6. ASSUME NEW k \in Nat, k \in S
      PROVE  k + 1 \in S
  <2>. SUFFICES ASSUME k + 1 <= Cardinality(ws) PROVE P(k + 1)
    OBVIOUS
  <2>1. P(k) /\ f[k + 1] \in Watchers \ Unreferenced /\ on[k + 1] = Started(on[k], f[k + 1])
    BY <1>2, <1>3, <1>4, <1>6
  <2>2. f[k + 1] \notin Active(on[k])
    BY <1>4, <2>1
  <2>3. /\ Sound(on[k + 1], 0) /\ Active(on[k + 1]) = Active(on[k]) \cup {f[k + 1]}
        /\ Pending(on[k + 1]) = Pending(on[k])
    BY <2>1, <2>2, StartedPlain
  <2>4. {f[i] : i \in 1 .. k + 1} = {f[i] : i \in 1 .. k} \cup {f[k + 1]}
    OBVIOUS
  <2>. QED
    BY <2>1, <2>3, <2>4
<1>7. Cardinality(ws) \in S
  <2>. HIDE DEF S
  <2>. QED
    BY <1>4, <1>5, <1>6, SetInduction
<1>8. P(Cardinality(ws))
  BY <1>4, <1>7
<1>. HIDE DEF S
<1>. QED
  BY <1>2, <1>4, <1>8

-------------------------------------------------------------------------------
(* The operators of LibEvent and EvStat *)

LEMMA StartedOnceSound ==
  ASSUME NEW l, NEW n \in Int, Sound(l, n), NEW w \in Watchers \ Unreferenced
  PROVE  /\ Sound(StartedOnce(l, w), n)
         /\ Active(StartedOnce(l, w)) = Active(l) \cup {w} /\ Pending(StartedOnce(l, w)) = Pending(l)
         /\ StartedOnce(l, w).refused = l.refused
<1>1. CASE l.active[w] = 0
  BY <1>1, StartedPlain DEF StartedOnce, Active
<1>2. CASE l.active[w] # 0
  BY <1>2 DEF StartedOnce, Active
<1>. QED
  BY <1>1, <1>2

LEMMA TimerAgainSound ==
  ASSUME NEW l, NEW n \in Int, Sound(l, n), NEW w \in Watchers \ Unreferenced, NEW repeat \in BOOLEAN
  PROVE  LET m == TimerAgain(l, w, repeat)
         IN  /\ Sound(m, n) /\ Active(m) \ {w} = Active(l) \ {w} /\ Pending(m) = Pending(l) \ {w}
             /\ m.refused = l.refused \ {w}
<1>1. CASE repeat
  BY <1>1, ClearedSound, StartedOnceSound DEF TimerAgain
<1>2. CASE ~repeat
  BY <1>2, StoppedPlain DEF TimerAgain
<1>. QED
  BY <1>1, <1>2

LEMMA DeletedSound ==
  ASSUME NEW l, NEW n \in Int, Sound(l, n), NEW e \in Events
  PROVE  LET m == Deleted(l, e)
         IN  /\ Sound(m, n) /\ Active(m) = Active(l) \ {IoSig[e], To[e]}
             /\ Pending(m) = Pending(l) \ ({IoSig[e]} \cup (Active(l) \cap {To[e]}))
             /\ m.refused \subseteq l.refused
<1>1. IoSig[e] \in Watchers \ Unreferenced /\ To[e] \in Watchers \ Unreferenced /\ IoSig[e] # To[e]
  BY EvLoopAssumption, LibEventAssumption
<1>2. PICK ios : ios = Stopped(l, IoSig[e])
  OBVIOUS
<1>3. /\ Sound(ios, n) /\ Active(ios) = Active(l) \ {IoSig[e]} /\ Pending(ios) = Pending(l) \ {IoSig[e]}
      /\ ios.refused = l.refused \ {IoSig[e]}
  BY <1>1, <1>2, StoppedPlain
<1>4. CASE l.active[To[e]] = 0
  BY <1>1, <1>2, <1>3, <1>4 DEF Deleted, Active
<1>5. CASE l.active[To[e]] # 0
  <2>1. Deleted(l, e) = Stopped(ios, To[e]) /\ To[e] \in Active(l)
    BY <1>1, <1>2, <1>5 DEF Deleted, Active
  <2>2. /\ Sound(Stopped(ios, To[e]), n) /\ Active(Stopped(ios, To[e])) = Active(ios) \ {To[e]}
        /\ Pending(Stopped(ios, To[e])) = Pending(ios) \ {To[e]}
        /\ Stopped(ios, To[e]).refused = ios.refused \ {To[e]}
    BY <1>1, <1>3, StoppedPlain
  <2>. QED
    BY <1>3, <2>1, <2>2
<1>. QED
  BY <1>4, <1>5

LEMMA OnceStoppedSound ==
  ASSUME NEW l, NEW n \in Int, Sound(l, n), NEW o \in Onces, NEW w
  PROVE  LET m == OnceStopped(l, o, w)
         IN  /\ Sound(m, n) /\ Active(m) = Active(l) \ {OnceIo[o], OnceTo[o]}
             /\ Pending(m) = Pending(l) \ {OnceIo[o], OnceTo[o]} /\ m.refused \subseteq l.refused
<1>1. OnceIo[o] \in Watchers \ Unreferenced /\ OnceTo[o] \in Watchers \ Unreferenced
  BY EvLoopAssumption, LibEventAssumption
<1>2. PICK io : io = Stopped(l, OnceIo[o])
  OBVIOUS
<1>3. /\ Sound(io, n) /\ Active(io) = Active(l) \ {OnceIo[o]} /\ Pending(io) = Pending(l) \ {OnceIo[o]}
      /\ io.refused = l.refused \ {OnceIo[o]}
  BY <1>1, <1>2, StoppedPlain
<1>4. OnceStopped(l, o, w) = Stopped(io, OnceTo[o])
  BY <1>2 DEF OnceStopped
<1>. QED
  BY <1>1, <1>3, <1>4, StoppedPlain

\* The library's own timer is started and stopped without counting.
LEMMA RearmedSound ==
  ASSUME NEW l, NEW n \in Int, Sound(l, n), NEW s \in Stats, NEW repeat \in BOOLEAN
  PROVE  LET m == Rearmed(l, s, repeat)
         IN  /\ Sound(m, n) /\ Pending(m) = Pending(l) \ {TimerOf[s]} /\ m.refused = l.refused \ {TimerOf[s]}
             /\ Active(m) = IF repeat THEN Active(l) \cup {TimerOf[s]} ELSE Active(l) \ {TimerOf[s]}
<1>. DEFINE w == TimerOf[s]
            again == IF ~repeat THEN Stopped(l, w)
                     ELSE IF l.active[w] = 0 THEN Started(Cleared(l, w), w) ELSE Cleared(l, w)
            d(m) == IF w \in Active(m) THEN 1 ELSE 0
<1>1. w \in Unreferenced /\ w \in Watchers /\ KeepsAlive(w) /\ Kind[w] \notin Arrays
  BY EvLoopAssumption, EvStatAssumption DEF KeepsAlive, Arrays
<1>2. \A m, k : Sound(m, k) => m.active[w] = d(m)
  BY <1>1 DEF Sound, ArraysSound, Active
<1>. HIDE DEF w
<1>3. /\ Sound(again, n + d(again) - d(l)) /\ Pending(again) = Pending(l) \ {w} /\ again.refused = l.refused \ {w}
      /\ Active(again) = IF repeat THEN Active(l) \cup {w} ELSE Active(l) \ {w}
  <2>1. CASE ~repeat
    <3>1. n - Uncounted(l, w) = n + d(again) - d(l)
      BY <1>1, <2>1, StoppedSound DEF Uncounted
    <3>. QED
      BY <1>1, <2>1, <3>1, StoppedSound
  <2>2. CASE repeat
    <3>1. /\ Sound(Cleared(l, w), n) /\ Active(Cleared(l, w)) = Active(l)
          /\ Pending(Cleared(l, w)) = Pending(l) \ {w} /\ Cleared(l, w).refused = l.refused \ {w}
      BY <1>1, ClearedSound
    <3>2. CASE w \in Active(l)
      <4>1. again = Cleared(l, w) /\ n + d(l) - d(l) = n
        BY <1>2, <2>2, <3>2
      <4>2. Active(again) = Active(l) \cup {w} /\ d(again) = d(l)
        BY <3>1, <3>2, <4>1
      <4>. QED
        BY <2>2, <3>1, <4>1, <4>2
    <3>3. CASE w \notin Active(l)
      <4>1. again = Started(Cleared(l, w), w)
        BY <1>2, <2>2, <3>3
      <4>2. /\ Sound(again, n + 1) /\ Active(again) = Active(l) \cup {w}
            /\ Pending(again) = Pending(l) \ {w} /\ again.refused = l.refused \ {w}
        BY <1>1, <3>1, <3>3, <4>1, StartedSound
      <4>3. n + d(again) - d(l) = n + 1
        BY <3>3, <4>2
      <4>. QED
        BY <2>2, <4>2, <4>3
    <3>. QED
      BY <3>2, <3>3
  <2>. QED
    BY <2>1, <2>2
<1>4. again.active[w] = d(again) /\ l.active[w] = d(l)
  BY <1>2, <1>3
<1>5. Rearmed(l, s, repeat) = NotCounted(again, w, l.active[w])
  BY DEF Rearmed, w
<1>. HIDE DEF again
<1>6. NotCounted(again, w, l.active[w]) = [again EXCEPT !.activecnt = again.activecnt + (d(l) - d(again))]
  <2>1. again \in Tables
    BY <1>3 DEF Sound
  <2>2. again.activecnt + d(l) - d(again) = again.activecnt + (d(l) - d(again))
    BY <2>1 DEF Tables
  <2>. QED
    BY <1>4, <2>2 DEF NotCounted
<1>7. n + d(again) - d(l) + (d(l) - d(again)) = n
  OBVIOUS
<1>8. n + d(again) - d(l) \in Int /\ d(l) - d(again) \in Int
  OBVIOUS
<1>9. PICK m : m = Rearmed(l, s, repeat)
  OBVIOUS
<1>10. PICK k, j : k = d(l) - d(again) /\ j = n + d(again) - d(l)
  OBVIOUS
<1>. HIDE DEF d
<1>11. m = [again EXCEPT !.activecnt = again.activecnt + k] /\ k \in Int /\ j \in Int /\ j + k = n /\ Sound(again, j)
  BY <1>3, <1>5, <1>6, <1>7, <1>8, <1>9, <1>10
<1>12. Sound(m, n) /\ Active(m) = Active(again) /\ Pending(m) = Pending(again) /\ m.refused = again.refused
  BY <1>11, ReferencedSound
<1>. QED
  BY <1>3, <1>9, <1>12 DEF w

\* What infy_fork does to the watchers of the library
Readies(l, m, n) ==
  /\ Sound(m, n) /\ m.refused \subseteq l.refused /\ Pending(m) \subseteq Pending(l)
  /\ Active(m) \ Unreferenced = Active(l) \ Unreferenced /\ (FsW \in Active(m) <=> FsW \in Active(l))

LEMMA RearmedReadies ==
  ASSUME NEW l, NEW n \in Int, Sound(l, n), NEW s \in Stats, NEW repeat \in BOOLEAN
  PROVE  Readies(l, Rearmed(l, s, repeat), n)
<1>1. PICK m : m = Rearmed(l, s, repeat)
  OBVIOUS
<1>2. /\ Sound(m, n) /\ Pending(m) = Pending(l) \ {TimerOf[s]} /\ m.refused = l.refused \ {TimerOf[s]}
      /\ Active(m) = IF repeat THEN Active(l) \cup {TimerOf[s]} ELSE Active(l) \ {TimerOf[s]}
  BY <1>1, RearmedSound
<1>3. TimerOf[s] \in Unreferenced /\ TimerOf[s] # FsW
  BY EvStatAssumption
<1>. QED
  BY <1>1, <1>2, <1>3 DEF Readies

LEMMA AddedAgainSteps ==
  ASSUME NEW both, NEW ss, NEW fd, Len(ss) \in Nat
  PROVE  \E added : /\ added[0] = both
                    /\ \A i \in 1 .. Len(ss) :
                         /\ added[i].k = IF fd = 1 THEN InfyAdded(added[i - 1].k, ss[i]) ELSE added[i - 1].k
                         /\ added[i].l = Rearmed(added[i - 1].l, ss[i], Polls(fd))
                    /\ AddedAgain(both, ss, fd) = added[Len(ss)]
<1>. DEFINE Next1(b, s) == [k |-> IF fd = 1 THEN InfyAdded(b.k, s) ELSE b.k, l |-> Rearmed(b.l, s, Polls(fd))]
            IsAdded(f, n) ==
              f = [i \in 0 .. n |-> IF i = 0 THEN both
                                    ELSE [k |-> IF fd = 1 THEN InfyAdded(f[i - 1].k, ss[i]) ELSE f[i - 1].k,
                                          l |-> Rearmed(f[i - 1].l, ss[i], Polls(fd))]]
            S == {n \in Nat : \E f : IsAdded(f, n)}
<1>1. 0 \in S
  <2>. DEFINE f == [i \in 0 .. 0 |-> both]
  <2>1. f = [i \in 0 .. 0 |-> IF i = 0 THEN both ELSE Next1(f[i - 1], ss[i])]
    <3>. HIDE DEF Next1
    <3>. QED
      OBVIOUS
  <2>. HIDE DEF f
  <2>2. IsAdded(f, 0)
    BY <2>1
  <2>. HIDE DEF IsAdded
  <2>. QED
    BY <2>2
<1>2. ASSUME NEW n \in Nat, n \in S
      PROVE  n + 1 \in S
  <2>1. PICK f : IsAdded(f, n)
    BY <1>2
  <2>2. f = [i \in 0 .. n |-> IF i = 0 THEN both ELSE Next1(f[i - 1], ss[i])]
    BY <2>1
  <2>. DEFINE g == [i \in 0 .. n + 1 |-> IF i = n + 1 THEN Next1(f[n], ss[n + 1]) ELSE f[i]]
  <2>. HIDE DEF Next1
  <2>3. \A i \in 0 .. n + 1 : g[i] = IF i = 0 THEN both ELSE Next1(g[i - 1], ss[i])
    BY <2>2
  <2>4. g = [i \in 0 .. n + 1 |-> IF i = 0 THEN both ELSE Next1(g[i - 1], ss[i])]
    BY <2>3
  <2>. HIDE DEF g
  <2>5. IsAdded(g, n + 1)
    BY <2>4 DEF Next1
  <2>. HIDE DEF IsAdded
  <2>. QED
    BY <2>5
<1>3. Len(ss) \in S
  <2>. HIDE DEF S
  <2>. QED
    BY <1>1, <1>2, SetInduction
<1>. DEFINE added == CHOOSE f : IsAdded(f, Len(ss))
<1>4. IsAdded(added, Len(ss))
  BY <1>3, Zenon
<1>5. AddedAgain(both, ss, fd) = added[Len(ss)]
  BY Zenon DEF AddedAgain
<1>. HIDE DEF added
<1>6. /\ added[0] = both
      /\ \A i \in 1 .. Len(ss) :
           /\ added[i].k = IF fd = 1 THEN InfyAdded(added[i - 1].k, ss[i]) ELSE added[i - 1].k
           /\ added[i].l = Rearmed(added[i - 1].l, ss[i], Polls(fd))
  <2>1. added[0] = both /\ \A i \in 1 .. Len(ss) : added[i] = Next1(added[i - 1], ss[i])
    <3>1. added = [i \in 0 .. Len(ss) |-> IF i = 0 THEN both ELSE Next1(added[i - 1], ss[i])]
      BY <1>4
    <3>. HIDE DEF Next1
    <3>. QED
      BY <3>1
  <2>2. \A b, s : /\ Next1(b, s).k = IF fd = 1 THEN InfyAdded(b.k, s) ELSE b.k
                  /\ Next1(b, s).l = Rearmed(b.l, s, Polls(fd))
    OBVIOUS
  <2>. HIDE DEF Next1
  <2>. QED
    BY <2>1, <2>2
<1>. QED
  BY <1>5, <1>6

LEMMA AddedAgainReadies ==
  ASSUME NEW both, NEW n \in Int, Sound(both.l, n), NEW ss \in Seq(Stats), NEW fd \in {-1, 1}
  PROVE  Readies(both.l, AddedAgain(both, ss, fd).l, n)
<1>1. PICK added : /\ added[0] = both
                   /\ \A i \in 1 .. Len(ss) : added[i].l = Rearmed(added[i - 1].l, ss[i], Polls(fd))
                   /\ AddedAgain(both, ss, fd) = added[Len(ss)]
  <2>1. Len(ss) \in Nat
    OBVIOUS
  <2>. QED
    BY <2>1, AddedAgainSteps
<1>. DEFINE S == {k \in Nat : k <= Len(ss) => Readies(both.l, added[k].l, n)}
<1>2. 0 \in S
  BY <1>1 DEF Readies
<1>3. ASSUME NEW k \in Nat, k \in S
      PROVE  k + 1 \in S
  <2>. SUFFICES ASSUME k + 1 <= Len(ss) PROVE Readies(both.l, added[k + 1].l, n)
    OBVIOUS
  <2>1. Readies(both.l, added[k].l, n) /\ ss[k + 1] \in Stats
        /\ added[k + 1].l = Rearmed(added[k].l, ss[k + 1], Polls(fd))
    BY <1>1, <1>3
  <2>2. PICK polls \in BOOLEAN : polls = Polls(fd)
    BY DEF Polls
  <2>3. PICK l, s : l = added[k].l /\ s = ss[k + 1] /\ s \in Stats
    BY <2>1
  <2>4. Sound(l, n)
    BY <2>1, <2>3 DEF Readies
  <2>5. Readies(l, Rearmed(l, s, polls), n)
    BY <2>3, <2>4, RearmedReadies
  <2>. QED
    BY <2>1, <2>2, <2>3, <2>5 DEF Readies
<1>4. Len(ss) \in S
  <2>. HIDE DEF S
  <2>. QED
    BY <1>2, <1>3, SetInduction
<1>. QED
  BY <1>1, <1>4

-------------------------------------------------------------------------------
(* The variables and the tables *)

LEMMA SetWsFacts ==
  ASSUME NEW l \in Tables, SetWs(l)
  PROVE  Ws' = l
BY DEF SetWs, Ws, Tables

LEMMA WsFacts ==
  /\ Ws.active = active /\ Ws.pending = pending /\ Ws.refused = refused /\ Ws.pendings = pendings
  /\ Ws.pendingpri = pendingpri /\ Ws.silenced = silenced /\ Ws.arrays = arrays
  /\ Ws.activecnt = activecnt /\ Ws.idleall = idleall
  /\ \A w \in Watchers : (w \in Active(Ws) <=> IsActive(w)) /\ (w \in Pending(Ws) <=> pending[w] # 0)
BY DEF Ws, Active, Pending, IsActive

LEMMA SameWs ==
  ASSUME UNCHANGED watchers
  PROVE  Ws' = Ws
BY DEF watchers, Ws

\* The watchers that no event of libevent and no ev_once has
Own == {w \in Watchers : w \notin Library \/ w \in Unreferenced}

\* What a step may do to the watchers, if it adds no event and frees no ev_once
Widens(l, m, n) ==
  Sound(m, n) /\ Active(m) \subseteq Active(l) \cup Own /\ Pending(m) \subseteq Pending(l) \cup Active(l) \cup Own
Grows(l, m, n) == Widens(l, m, n) /\ (FsW \in Active(m) <=> FsW \in Active(l))

\* infy_fork takes fs_w out and starts it again, if inotify still works.
FsWAgain(fd) ==
  LET fsw == Stopped([Ws EXCEPT !.activecnt = @ + 1], FsW)
  IN  IF fd = 1 THEN [Started(fsw, FsW) EXCEPT !.activecnt = @ - 1] ELSE fsw

LEMMA FsWAgainSound ==
  ASSUME NEW n \in Int, Sound(Ws, n), IsActive(FsW), NEW fd \in {-1, 1}, NEW g, g = FsWAgain(fd)
  PROVE  /\ Sound(g, n) /\ g.refused \subseteq Ws.refused /\ Pending(g) \subseteq Pending(Ws)
         /\ Active(g) \ {FsW} = Active(Ws) \ {FsW} /\ (FsW \in Active(g) <=> fd = 1)
<1>1. FsW \in Unreferenced /\ FsW \in Watchers /\ KeepsAlive(FsW)
  BY EvLoopAssumption, EvStatAssumption DEF KeepsAlive
<1>2. PICK referenced : referenced = [Ws EXCEPT !.activecnt = Ws.activecnt + 1]
  OBVIOUS
<1>3. PICK fsw : fsw = Stopped(referenced, FsW)
  OBVIOUS
<1>4. FsW \in Active(Ws)
  BY <1>1, WsFacts
<1>5. Sound(referenced, n + 1) /\ Active(referenced) = Active(Ws) /\ Pending(referenced) = Pending(Ws)
      /\ referenced.refused = Ws.refused
  BY <1>2, ReferencedSound
<1>6. Uncounted(referenced, FsW) = 1 /\ n + 1 - 1 = n
  BY <1>1, <1>4, <1>5 DEF Uncounted
<1>7. /\ Sound(fsw, n) /\ Active(fsw) = Active(Ws) \ {FsW} /\ Pending(fsw) = Pending(Ws) \ {FsW}
      /\ fsw.refused = Ws.refused \ {FsW}
  BY <1>1, <1>3, <1>5, <1>6, StoppedSound
<1>8. g = IF fd = 1 THEN [Started(fsw, FsW) EXCEPT !.activecnt = Started(fsw, FsW).activecnt - 1] ELSE fsw
  BY <1>2, <1>3 DEF FsWAgain
<1>9. CASE fd = 1
  <2>1. PICK h : h = Started(fsw, FsW)
    OBVIOUS
  <2>2. /\ Sound(h, n + 1) /\ Active(h) = Active(fsw) \cup {FsW} /\ Pending(h) = Pending(fsw)
        /\ h.refused = fsw.refused
    BY <1>1, <1>7, <2>1, StartedSound
  <2>3. g = [h EXCEPT !.activecnt = h.activecnt + (-1)]
    <3>1. h.activecnt \in Int
      BY <2>2 DEF Sound, Tables
    <3>. QED
      BY <1>8, <1>9, <2>1, <3>1
  <2>4. Sound(g, n + 1 + (-1)) /\ Active(g) = Active(h) /\ Pending(g) = Pending(h) /\ g.refused = h.refused
    BY <2>2, <2>3, ReferencedSound
  <2>5. n + 1 + (-1) = n
    OBVIOUS
  <2>. QED
    BY <1>1, <1>7, <1>9, <2>2, <2>4, <2>5
<1>10. CASE fd # 1
  BY <1>1, <1>7, <1>8, <1>10
<1>. QED
  BY <1>9, <1>10

\* The ev_stats with a watch, and the inotify state with the new descriptor
Kept == {s \in Stats : wd[s] >= 0}
Fresh == [wd |-> [s \in Stats |-> IF s \in Kept THEN -1 ELSE wd[s]], watch |-> <<>>, events |-> <<>>]
AddedToFresh(fd) == AddedAgain([k |-> Fresh, l |-> FsWAgain(fd)], InSomeOrder(Kept), fd)

LEMMA KeptFacts ==
  /\ InSomeOrder(Kept) \in Seq(Stats) /\ Kept \subseteq Stats
  /\ {InSomeOrder(Kept)[i] : i \in 1 .. Len(InSomeOrder(Kept))} = Kept
<1>1. IsFiniteSet(Kept) /\ Kept \subseteq Stats
  BY FS_Subset, EvLoopAssumption, EvStatAssumption DEF Kept
<1>2. PICK S : S = Kept /\ IsFiniteSet(S)
  BY <1>1
<1>3. /\ InSomeOrder(S) \in Seq(S) /\ Len(InSomeOrder(S)) = Cardinality(S)
      /\ {InSomeOrder(S)[i] : i \in 1 .. Cardinality(S)} = S
  <2>1. IsFiniteSet(S)
    BY <1>2
  <2>. QED
    BY <2>1, InSomeOrderFacts, Zenon
<1>. QED
  BY <1>1, <1>2, <1>3

LEMMA InfyForks ==
  ASSUME InfyFork, ~(fs_fd < 0)
  PROVE  \E fd \in {-1, 1} :
           /\ fs_fd' = fd /\ SetInfy(AddedToFresh(fd).k) /\ SetWs(AddedToFresh(fd).l)
           /\ missed' = (missed \ Kept) \cup {s \in Kept : ~IsSeen(s)}
           /\ UNCHANGED <<file, changes, attr, infy>>
BY DEF InfyFork, AddedToFresh, Fresh, FsWAgain, Kept

LEMMA InfyForkReadies ==
  ASSUME NEW n \in Int, Sound(Ws, n), fs_fd = 1 <=> IsActive(FsW), fs_fd \in {-2, -1, 1}, InfyFork
  PROVE  /\ Sound(Ws', n) /\ refused' \subseteq refused /\ Pending(Ws') \subseteq Pending(Ws)
         /\ Active(Ws') \ Unreferenced = Active(Ws) \ Unreferenced
         /\ fs_fd' \in {-2, -1, 1} /\ (fs_fd' = 1 <=> FsW \in Active(Ws')) /\ infy' = infy
<1>1. FsW \in Unreferenced /\ FsW \in Watchers
  BY EvLoopAssumption, EvStatAssumption
<1>2. CASE fs_fd < 0
  <2>1. UNCHANGED watchers /\ fs_fd' = fs_fd /\ infy' = infy
    BY <1>2 DEF InfyFork, evstat, inotify
  <2>2. Ws' = Ws /\ refused' = refused
    BY <2>1, SameWs DEF watchers
  <2>. QED
    BY <1>1, <1>2, <2>1, <2>2, WsFacts
<1>3. CASE ~(fs_fd < 0)
  <2>1. PICK fd \in {-1, 1} : fs_fd' = fd /\ infy' = infy /\ SetWs(AddedToFresh(fd).l)
    BY <1>3, InfyForks
  <2>2. PICK g, last : g = FsWAgain(fd) /\ last = AddedToFresh(fd).l
    OBVIOUS
  <2>3. /\ Sound(g, n) /\ g.refused \subseteq Ws.refused /\ Pending(g) \subseteq Pending(Ws)
        /\ Active(g) \ {FsW} = Active(Ws) \ {FsW} /\ (FsW \in Active(g) <=> fd = 1)
    BY <1>3, <2>2, FsWAgainSound
  <2>4. Readies(g, last, n)
    <3>1. PICK both : both = [k |-> Fresh, l |-> g]
      OBVIOUS
    <3>2. both.l = g /\ Sound(both.l, n) /\ last = AddedAgain(both, InSomeOrder(Kept), fd).l
      BY <2>2, <2>3, <3>1 DEF AddedToFresh
    <3>. QED
      BY <3>2, KeptFacts, AddedAgainReadies
  <2>5. Ws' = last
    BY <2>1, <2>2, <2>4, SetWsFacts DEF Readies, Sound
  <2>6. refused' = last.refused /\ refused = Ws.refused
    BY <2>5 DEF Ws
  <2>. QED
    BY <1>1, <2>1, <2>3, <2>4, <2>5, <2>6 DEF Readies
<1>. QED
  BY <1>2, <1>3

LEMMA InfyInitReadies ==
  ASSUME NEW n \in Int, Sound(Ws, n), fs_fd = 1 <=> IsActive(FsW), fs_fd \in {-2, -1, 1}, InfyInit
  PROVE  /\ Sound(Ws', n) /\ refused' = refused /\ Pending(Ws') = Pending(Ws)
         /\ Active(Ws') \ Unreferenced = Active(Ws) \ Unreferenced /\ Active(Ws') \ {FsW} = Active(Ws) \ {FsW}
         /\ fs_fd' \in {-2, -1, 1} /\ (fs_fd' = 1 <=> FsW \in Active(Ws'))
<1>1. FsW \in Unreferenced /\ FsW \in Watchers /\ KeepsAlive(FsW)
  BY EvLoopAssumption, EvStatAssumption DEF KeepsAlive
<1>2. CASE UNCHANGED watchers /\ fs_fd' # 1 /\ fs_fd # 1 /\ fs_fd' \in {-2, -1, 1}
  <2>1. Ws' = Ws /\ refused' = refused
    BY <1>2, SameWs DEF watchers
  <2>. QED
    BY <1>1, <1>2, <2>1, WsFacts
<1>3. CASE UNCHANGED <<watchers, fs_fd>>
  <2>1. Ws' = Ws /\ refused' = refused
    BY <1>3, SameWs DEF watchers
  <2>. QED
    BY <1>1, <1>3, <2>1, WsFacts
<1>4. CASE fs_fd = -2 /\ fs_fd' = 1 /\ SetWs([Started(Ws, FsW) EXCEPT !.activecnt = Started(Ws, FsW).activecnt - 1])
  <2>1. PICK h : h = Started(Ws, FsW)
    OBVIOUS
  <2>2. FsW \notin Active(Ws)
    BY <1>1, <1>4, WsFacts
  <2>3. /\ Sound(h, n + 1) /\ Active(h) = Active(Ws) \cup {FsW} /\ Pending(h) = Pending(Ws) /\ h.refused = Ws.refused
    BY <1>1, <2>1, <2>2, StartedSound
  <2>4. PICK g : g = [h EXCEPT !.activecnt = h.activecnt + (-1)]
    OBVIOUS
  <2>5. Sound(g, n + 1 + (-1)) /\ Active(g) = Active(h) /\ Pending(g) = Pending(h) /\ g.refused = h.refused
    BY <2>3, <2>4, ReferencedSound
  <2>6. n + 1 + (-1) = n /\ h.activecnt - 1 = h.activecnt + (-1)
    <3>1. h.activecnt \in Int
      BY <2>3 DEF Sound, Tables
    <3>. QED
      BY <3>1
  <2>7. SetWs(g)
    BY <1>4, <2>1, <2>4, <2>6
  <2>8. Ws' = g
    BY <2>5, <2>7, SetWsFacts DEF Sound
  <2>9. refused' = g.refused /\ refused = Ws.refused
    BY <2>8 DEF Ws
  <2>. QED
    BY <1>1, <1>4, <2>3, <2>5, <2>6, <2>8, <2>9
<1>. QED
  BY <1>2, <1>3, <1>4 DEF InfyInit

-------------------------------------------------------------------------------
(* The stack *)

Runs(s) == {i \in DOMAIN s : s[i].at = "run"}

LEMMA LastFrame ==
  ASSUME NEW s, Nested(s), s # <<>>
  PROVE  s[Len(s)] \in Frames /\ (s[Len(s)].pc = "infy_wd" => s[Len(s)].at = "call")
<1>1. s \in Seq(Frames) /\ Len(s) \in 1 .. Len(s)
  BY DEF Nested
<1>2. s[Len(s)] \in Frames
  BY <1>1
<1>3. \A f \in Frames : f.pc = "infy_wd" => f.at = "call"
  BY DEF Frames
<1>. QED
  BY <1>2, <1>3

LEMMA PushNested ==
  ASSUME NEW s, Nested(s), NEW f \in Frames,
         s = <<>> => f.at \in {"run", "stat", "destroy", "destroyed"}, s # <<>> => Calls(s[Len(s)], f)
  PROVE  LET t == Append(s, f)
         IN  /\ Nested(t) /\ t # <<>> /\ Len(t) = Len(s) + 1 /\ t[Len(t)] = f
             /\ \A i \in 1 .. Len(s) : t[i] = s[i]
             /\ Runs(t) = IF f.at = "run" THEN Runs(s) \cup {Len(t)} ELSE Runs(s)
<1>1. PICK t : t = Append(s, f)
  OBVIOUS
<1>2. /\ s \in Seq(Frames) /\ t \in Seq(Frames) /\ Len(s) \in Nat /\ Len(t) = Len(s) + 1 /\ t[Len(t)] = f
      /\ \A i \in 1 .. Len(s) : t[i] = s[i]
  BY <1>1 DEF Nested
<1>3. t # <<>> /\ DOMAIN t = 1 .. Len(t) /\ DOMAIN s = 1 .. Len(s) /\ (s = <<>> <=> Len(s) = 0)
  BY <1>2
<1>4. Nested(t)
  <2>1. ASSUME NEW i \in 1 .. Len(t), i > 1
        PROVE  Calls(t[i - 1], t[i])
    <3>1. CASE i = Len(t)
      BY <1>2, <1>3, <2>1, <3>1
    <3>2. CASE i # Len(t)
      <4>1. i \in 1 .. Len(s) /\ i - 1 \in 1 .. Len(s)
        BY <1>2, <2>1, <3>2
      <4>. QED
        BY <1>2, <2>1, <4>1 DEF Nested
    <3>. QED
      BY <3>1, <3>2
  <2>2. t[1].at \in {"run", "stat", "destroy", "destroyed"}
    <3>1. CASE Len(s) = 0
      BY <1>2, <1>3, <3>1
    <3>2. CASE Len(s) # 0
      <4>1. 1 \in 1 .. Len(s) /\ Len(s) > 0
        BY <1>2, <3>2
      <4>. QED
        BY <1>2, <4>1 DEF Nested
    <3>. QED
      BY <3>1, <3>2
  <2>. QED
    BY <1>2, <2>1, <2>2 DEF Nested
<1>5. Runs(t) = IF f.at = "run" THEN Runs(s) \cup {Len(t)} ELSE Runs(s)
  BY <1>2, <1>3 DEF Runs
<1>. QED
  BY <1>1, <1>2, <1>3, <1>4, <1>5

LEMMA ShorterFacts ==
  ASSUME NEW F, NEW s \in Seq(F), Len(s) \in Nat, Len(s) # 0
  PROVE  LET t == SubSeq(s, 1, Len(s) - 1)
         IN  t \in Seq(F) /\ Len(t) = Len(s) - 1 /\ \A i \in 1 .. Len(t) : t[i] = s[i]
<1>1. PICK t : t = SubSeq(s, 1, Len(s) - 1)
  OBVIOUS
<1>2. t \in Seq(F) /\ Len(t) = Len(s) - 1
  <2>1. PICK n \in Int : n = Len(s) - 1 /\ n >= 0
    OBVIOUS
  <2>2. \A i \in 1 .. n : s[i] \in F
    BY <2>1
  <2>3. t \in Seq(F) /\ Len(t) = IF 1 <= n THEN n - 1 + 1 ELSE 0
    BY <1>1, <2>1, <2>2, SubSeqProperties
  <2>. QED
    BY <2>1, <2>3
<1>3. \A i \in 1 .. Len(s) - 1 : t[i] = s[i]
  BY <1>1
<1>4. \A i \in 1 .. Len(t) : t[i] = s[i]
  BY <1>2, <1>3
<1>. QED
  BY <1>1, <1>2, <1>4

LEMMA PopNested ==
  ASSUME NEW s, Nested(s), s # <<>>
  PROVE  LET t == SubSeq(s, 1, Len(s) - 1)
         IN  /\ Nested(t) /\ Len(t) = Len(s) - 1 /\ Runs(t) = Runs(s) \ {Len(s)}
             /\ \A i \in 1 .. Len(t) : t[i] = s[i]
             /\ s[Len(s)] \in Frames /\ Len(s) \in Nat
             /\ IF t = <<>> THEN s[Len(s)].at \in {"run", "stat", "destroy", "destroyed"}
                ELSE Calls(t[Len(t)], s[Len(s)])
<1>1. PICK t : t = SubSeq(s, 1, Len(s) - 1)
  OBVIOUS
<1>2. /\ s \in Seq(Frames) /\ Len(s) \in Nat /\ Len(s) > 0 /\ t \in Seq(Frames) /\ Len(t) = Len(s) - 1
      /\ \A i \in 1 .. Len(t) : t[i] = s[i]
  <2>1. s \in Seq(Frames)
    BY DEF Nested
  <2>2. Len(s) \in Nat /\ Len(s) # 0
    BY <2>1
  <2>. QED
    BY <1>1, <2>1, <2>2, ShorterFacts
<1>3. DOMAIN t = 1 .. Len(t) /\ DOMAIN s = 1 .. Len(s) /\ (t = <<>> <=> Len(t) = 0) /\ s[Len(s)] \in Frames
  BY <1>2
<1>4. Nested(t)
  <2>1. \A i \in 1 .. Len(t) : t[i] = s[i] /\ i \in 1 .. Len(s) /\ (i > 1 => i - 1 \in 1 .. Len(t))
    BY <1>2
  <2>2. \A i \in 1 .. Len(s) : i > 1 => Calls(s[i - 1], s[i])
    BY DEF Nested
  <2>3. \A i \in 1 .. Len(t) : i > 1 => Calls(t[i - 1], t[i])
    BY <2>1, <2>2
  <2>4. Len(t) > 0 => t[1].at \in {"run", "stat", "destroy", "destroyed"}
    BY <1>2 DEF Nested
  <2>. QED
    BY <1>2, <2>3, <2>4 DEF Nested
<1>5. Runs(t) = Runs(s) \ {Len(s)}
  BY <1>2, <1>3 DEF Runs
<1>6. IF t = <<>> THEN s[Len(s)].at \in {"run", "stat", "destroy", "destroyed"}
      ELSE Calls(t[Len(t)], s[Len(s)])
  BY <1>2, <1>3 DEF Nested
<1>. QED
  BY <1>1, <1>2, <1>3, <1>4, <1>5, <1>6

LEMMA GotoNested ==
  ASSUME NEW s, Nested(s), s # <<>>, NEW pc, [s[Len(s)] EXCEPT !.pc = pc] \in Frames
  PROVE  LET t == [s EXCEPT ![Len(s)].pc = pc]
         IN  /\ Nested(t) /\ t # <<>> /\ Len(t) = Len(s) /\ Len(s) \in Nat \ {0} /\ Runs(t) = Runs(s)
             /\ \A i \in 1 .. Len(s) : t[i].at = s[i].at /\ (i # Len(s) => t[i] = s[i])
             /\ t[Len(s)] = [s[Len(s)] EXCEPT !.pc = pc]
<1>1. PICK t, f : t = [s EXCEPT ![Len(s)] = f] /\ f = [s[Len(s)] EXCEPT !.pc = pc]
  OBVIOUS
<1>2. t = [s EXCEPT ![Len(s)].pc = pc]
  BY <1>1
<1>3. s \in Seq(Frames) /\ f \in Frames /\ Len(s) \in Nat \ {0} /\ DOMAIN s = 1 .. Len(s) /\ s[Len(s)] \in Frames
  BY <1>1 DEF Nested
<1>4. t \in Seq(Frames) /\ Len(t) = Len(s)
  <2>1. s \in [1 .. Len(s) -> Frames]
    BY <1>3
  <2>2. t \in [1 .. Len(s) -> Frames]
    BY <1>1, <1>3, <2>1
  <2>. QED
    BY <1>3, <2>2, SeqDef
<1>5. /\ t[Len(s)] = f /\ f.at = s[Len(s)].at
      /\ \A i \in 1 .. Len(s) : t[i].at = s[i].at /\ (i # Len(s) => t[i] = s[i])
  <2>1. f.at = s[Len(s)].at
    BY <1>1, <1>3 DEF Frames
  <2>. QED
    BY <1>1, <1>3, <2>1
<1>6. Nested(t)
  <2>1. ASSUME NEW i \in 1 .. Len(t), i > 1
        PROVE  Calls(t[i - 1], t[i])
    <3>1. i - 1 \in 1 .. Len(s) /\ i - 1 # Len(s) /\ i \in 1 .. Len(s)
      BY <1>3, <1>4, <2>1
    <3>2. Calls(s[i - 1], s[i])
      BY <2>1, <3>1 DEF Nested
    <3>. QED
      BY <1>5, <3>1, <3>2 DEF Calls
  <2>2. Len(t) > 0 => t[1].at \in {"run", "stat", "destroy", "destroyed"}
    BY <1>3, <1>4, <1>5 DEF Nested
  <2>. QED
    BY <1>4, <2>1, <2>2 DEF Nested
<1>7. Runs(t) = Runs(s) /\ t # <<>>
  <2>1. DOMAIN t = 1 .. Len(s)
    BY <1>3, <1>4
  <2>. QED
    BY <1>3, <1>5, <2>1 DEF Runs
<1>. QED
  BY <1>1, <1>2, <1>3, <1>4, <1>5, <1>6, <1>7

-------------------------------------------------------------------------------
(* ev_invoke_pending on the tables *)

\* The last entry of a queue is taken, and the watcher it has is called.
Popped(l, p) == [l EXCEPT !.pendings[p] = SubSeq(@, 1, Len(@) - 1), !.pendingpri = p]
Called(m, w) == [m EXCEPT !.pending[w] = 0, !.refused = @ \ {w}]

LEMMA PoppedSound ==
  ASSUME NEW l, NEW n \in Int, Sound(l, n), NEW p \in Pris, l.pendings[p] # <<>>, p <= l.pendingpri,
         \A r \in Pris : r > p => l.pendings[r] = <<>>,
         NEW w, w = l.pendings[p][Len(l.pendings[p])],
         NEW m, m = Popped(l, p), NEW called, called = Called(m, w)
  PROVE  /\ w = Dummy => Sound(m, n) /\ Active(m) = Active(l) /\ Pending(m) = Pending(l)
         /\ w # Dummy => /\ w \in Pending(l) /\ w \in Watchers
                         /\ Sound(called, n) /\ Active(called) = Active(l) /\ Pending(called) = Pending(l) \ {w}
<1>1. PICK q : q = l.pendings[p] /\ w = q[Len(q)]
  OBVIOUS
<1>2. PICK r : r = SubSeq(q, 1, Len(q) - 1)
  OBVIOUS
<1>3. m = [l EXCEPT !.pendings = [l.pendings EXCEPT ![p] = r], !.pendingpri = p]
  BY <1>1, <1>2 DEF Popped
<1>4. called = [m EXCEPT !.pending = [m.pending EXCEPT ![w] = 0], !.refused = m.refused \ {w}]
  BY DEF Called
<1>5. l \in Tables /\ QueuesSound(l) /\ ArraysSound(l) /\ CountsSound(l, n)
  BY DEF Sound
<1>6. /\ q \in Seq(Watchers \cup {Dummy}) /\ Len(q) \in Nat \ {0} /\ w \in Watchers \cup {Dummy}
      /\ r \in Seq(Watchers \cup {Dummy}) /\ Len(r) = Len(q) - 1 /\ \A i \in 1 .. Len(q) - 1 : r[i] = q[i]
  <2>1. q \in Seq(Watchers \cup {Dummy}) /\ q # <<>>
    BY <1>1, <1>5 DEF Tables
  <2>. QED
    BY <1>1, <1>2, <2>1
<1>7. /\ m \in Tables /\ m.pendingpri = p /\ m.pending = l.pending /\ m.refused = l.refused /\ m.silenced = l.silenced
      /\ m.pendings = [l.pendings EXCEPT ![p] = r]
      /\ m.arrays = l.arrays /\ m.active = l.active /\ m.activecnt = l.activecnt /\ m.idleall = l.idleall
  <2>1. /\ m.pendingpri = p /\ m.pending = l.pending /\ m.refused = l.refused /\ m.silenced = l.silenced
        /\ m.pendings = [l.pendings EXCEPT ![p] = r]
        /\ m.arrays = l.arrays /\ m.active = l.active /\ m.activecnt = l.activecnt /\ m.idleall = l.idleall
        /\ IsTables(m)
    BY <1>3, <1>5 DEF Tables, IsTables
  <2>2. m.pendings \in [Pris -> Seq(Watchers \cup {Dummy})]
    BY SMTT(60), <1>5, <1>6, <2>1 DEF Tables
  <2>3. m \in Tables
    BY <1>5, <2>1, <2>2 DEF Tables, IsTables
  <2>. QED
    BY <2>1, <2>3
<1>8. \A k \in Pris : m.pendings[k] = IF k = p THEN r ELSE l.pendings[k]
  BY <1>5, <1>7 DEF Tables
<1>9. \A k \in Pris : k > p => m.pendings[k] = <<>>
  BY <1>8
<1>10. Dummy \notin Watchers /\ Pri \in [Watchers -> Pris] /\ l.pending \in [Watchers -> Nat]
  BY <1>5, EvLoopAssumption DEF Tables, Pris
<1>11. ASSUME NEW v \in Watchers, v # w, l.pending[v] # 0
       PROVE  l.pending[v] \in 1 .. Len(m.pendings[Pri[v]]) /\ m.pendings[Pri[v]][l.pending[v]] = v
  <2>1. l.pending[v] \in 1 .. Len(l.pendings[Pri[v]]) /\ l.pendings[Pri[v]][l.pending[v]] = v /\ Pri[v] \in Pris
    BY <1>5, <1>10, <1>11 DEF QueuesSound
  <2>2. CASE Pri[v] = p
    <3>1. l.pending[v] \in 1 .. Len(q) /\ q[l.pending[v]] = v /\ l.pending[v] # Len(q)
      BY <1>1, <1>11, <2>1, <2>2
    <3>. QED
      BY SMTT(60), <1>6, <1>8, <2>2, <3>1
  <2>3. CASE Pri[v] # p
    BY <1>8, <2>1, <2>3
  <2>. QED
    BY <2>2, <2>3
<1>12. ASSUME NEW k \in Pris, NEW i \in 1 .. Len(m.pendings[k]), m.pendings[k][i] # Dummy
       PROVE  /\ Pri[m.pendings[k][i]] = k /\ l.pending[m.pendings[k][i]] = i
              /\ m.pendings[k][i] # w /\ m.pendings[k][i] \in Watchers
  <2>1. i \in 1 .. Len(l.pendings[k]) /\ m.pendings[k][i] = l.pendings[k][i] /\ (k = p => i < Len(q))
    BY SMTT(60), <1>1, <1>6, <1>8, <1>12
  <2>2. Pri[l.pendings[k][i]] = k /\ l.pending[l.pendings[k][i]] = i
    BY <1>5, <1>12, <2>1 DEF QueuesSound
  <2>3. w # Dummy => Pri[w] = p /\ l.pending[w] = Len(q)
    <3>1. Len(q) \in 1 .. Len(l.pendings[p]) /\ w = l.pendings[p][Len(q)]
      BY <1>1, <1>6
    <3>. QED
      BY <1>5, <3>1 DEF QueuesSound
  <2>4. l.pendings[k][i] # w
    BY SMTT(60), <1>6, <1>12, <2>1, <2>2, <2>3
  <2>5. l.pendings[k][i] \in Watchers
    <3>1. l.pendings[k] \in Seq(Watchers \cup {Dummy})
      BY <1>5 DEF Tables
    <3>. QED
      BY <1>12, <2>1, <3>1
  <2>. QED
    BY <2>1, <2>2, <2>4, <2>5
<1>13. ASSUME w = Dummy
       PROVE  Sound(m, n) /\ Active(m) = Active(l) /\ Pending(m) = Pending(l)
  <2>1. QueuesSound(m)
    <3>1. \A v \in Watchers : m.pending[v] # 0 =>
            m.pending[v] \in 1 .. Len(m.pendings[Pri[v]]) /\ m.pendings[Pri[v]][m.pending[v]] = v
      BY <1>7, <1>10, <1>11, <1>13
    <3>2. \A k \in Pris : \A i \in 1 .. Len(m.pendings[k]) :
            m.pendings[k][i] # Dummy => Pri[m.pendings[k][i]] = k /\ m.pending[m.pendings[k][i]] = i
      BY <1>7, <1>12
    <3>3. \A v \in m.silenced : m.pending[v] = 0
      BY <1>5, <1>7 DEF QueuesSound
    <3>. QED
      BY <1>7, <1>9, <3>1, <3>2, <3>3 DEF QueuesSound
  <2>2. ArraysSound(m) /\ CountsSound(m, n) /\ Active(m) = Active(l) /\ Pending(m) = Pending(l)
    BY <1>5, <1>7 DEF ArraysSound, CountsSound, Alive, Idling, Active, Pending
  <2>. QED
    BY <1>7, <2>1, <2>2 DEF Sound
<1>14. ASSUME w # Dummy
       PROVE  /\ w \in Pending(l) /\ w \in Watchers
              /\ Sound(called, n) /\ Active(called) = Active(l) /\ Pending(called) = Pending(l) \ {w}
  <2>1. w \in Watchers /\ w \in Pending(l)
    <3>1. Len(q) \in 1 .. Len(l.pendings[p]) /\ w = l.pendings[p][Len(q)]
      BY <1>1, <1>6
    <3>2. l.pending[w] = Len(q)
      BY <1>5, <1>14, <3>1 DEF QueuesSound
    <3>. QED
      BY <1>6, <1>14, <3>2 DEF Pending
  <2>2. /\ called \in Tables /\ called.pendingpri = p /\ called.pending = [l.pending EXCEPT ![w] = 0]
        /\ called.silenced = l.silenced /\ called.pendings = m.pendings
        /\ called.arrays = l.arrays /\ called.active = l.active
        /\ called.activecnt = l.activecnt /\ called.idleall = l.idleall
    <3>1. /\ called.pendingpri = p /\ called.pending = [l.pending EXCEPT ![w] = 0]
          /\ called.silenced = l.silenced /\ called.pendings = m.pendings
          /\ called.refused = l.refused \ {w} /\ called.arrays = l.arrays /\ called.active = l.active
          /\ called.activecnt = l.activecnt /\ called.idleall = l.idleall /\ IsTables(called)
      <4>1. PICK at, bad : at = [m.pending EXCEPT ![w] = 0] /\ bad = m.refused \ {w}
        OBVIOUS
      <4>2. called = [m EXCEPT !.pending = at, !.refused = bad]
        BY <1>4, <4>1
      <4>3. /\ called.pendingpri = m.pendingpri /\ called.pending = at
            /\ called.silenced = m.silenced /\ called.pendings = m.pendings
            /\ called.refused = bad /\ called.arrays = m.arrays /\ called.active = m.active
            /\ called.activecnt = m.activecnt /\ called.idleall = m.idleall /\ IsTables(called)
        BY <1>7, <4>2 DEF Tables, IsTables
      <4>. QED
        BY <1>7, <4>1, <4>3
    <3>2. called.pending \in [Watchers -> Nat] /\ called.refused \subseteq Watchers
      <4>1. l.refused \subseteq Watchers
        BY <1>5 DEF Tables
      <4>2. called.pending \in [Watchers -> Nat]
        BY SMTT(60), <1>10, <2>1, <3>1
      <4>. QED
        BY <3>1, <4>1, <4>2
    <3>3. called \in Tables
      BY <1>5, <1>7, <3>1, <3>2 DEF Tables, IsTables
    <3>. QED
      BY <3>1, <3>3
  <2>3. \A v \in Watchers : called.pending[v] = IF v = w THEN 0 ELSE l.pending[v]
    BY SMTT(60), <1>10, <2>2
  <2>4. QueuesSound(called)
    <3>1. \A v \in Watchers : called.pending[v] # 0 =>
            called.pending[v] \in 1 .. Len(called.pendings[Pri[v]]) /\ called.pendings[Pri[v]][called.pending[v]] = v
      BY <1>11, <2>2, <2>3
    <3>2. \A k \in Pris : \A i \in 1 .. Len(called.pendings[k]) :
            called.pendings[k][i] # Dummy =>
              Pri[called.pendings[k][i]] = k /\ called.pending[called.pendings[k][i]] = i
      BY SMTT(60), <1>12, <2>2, <2>3
    <3>3. \A v \in called.silenced : called.pending[v] = 0
      BY SMTT(60), <1>5, <2>2, <2>3 DEF QueuesSound, Tables
    <3>4. \A k \in Pris : k > called.pendingpri => called.pendings[k] = <<>>
      BY SMTT(60), <1>9, <2>2
    <3>. QED
      BY <3>1, <3>2, <3>3, <3>4 DEF QueuesSound
  <2>5. ArraysSound(called) /\ CountsSound(called, n) /\ Active(called) = Active(l)
    BY <1>5, <2>2 DEF ArraysSound, CountsSound, Alive, Idling, Active
  <2>6. Pending(called) = Pending(l) \ {w}
    BY <2>3 DEF Pending
  <2>. QED
    BY <2>1, <2>2, <2>4, <2>5, <2>6 DEF Sound
<1>. QED
  BY <1>13, <1>14

LEMMA AllPopped ==
  ASSUME NEW l, NEW n \in Int, Sound(l, n), \A p \in Pris : l.pendings[p] = <<>>
  PROVE  LET m == [l EXCEPT !.pendingpri = 0]
         IN  Sound(m, n) /\ Active(m) = Active(l) /\ Pending(m) = {} /\ Pending(l) = {} /\ m.refused = l.refused
<1>1. PICK m : m = [l EXCEPT !.pendingpri = 0]
  OBVIOUS
<1>2. l \in Tables /\ QueuesSound(l) /\ ArraysSound(l) /\ CountsSound(l, n)
  BY DEF Sound
<1>. PICK none \in Pris : none = 0
  BY EvLoopAssumption DEF Pris
<1>3. /\ m \in Tables /\ m.pendingpri = 0 /\ m.pendings = l.pendings /\ m.pending = l.pending
      /\ m.activecnt = l.activecnt /\ m.refused = l.refused /\ m.silenced = l.silenced
      /\ m.arrays = l.arrays /\ m.active = l.active /\ m.idleall = l.idleall
  BY <1>1, <1>2 DEF Tables
<1>4. Pending(l) = {}
  <2>1. ASSUME NEW w \in Watchers, l.pending[w] # 0
        PROVE  FALSE
    <3>1. l.pending[w] \in 1 .. Len(l.pendings[Pri[w]]) /\ Pri[w] \in Pris
      BY <1>2, <2>1, EvLoopAssumption DEF QueuesSound, Pris
    <3>2. Len(l.pendings[Pri[w]]) = 0
      <4>1. l.pendings[Pri[w]] = <<>>
        BY <3>1
      <4>. QED
        BY <4>1
    <3>. QED
      BY <3>1, <3>2
  <2>. QED
    BY <2>1 DEF Pending
<1>5. QueuesSound(m)
  <2>1. \A p \in Pris : m.pendings[p] = <<>> /\ Len(m.pendings[p]) = 0
    BY <1>3
  <2>2. (\A w \in Watchers : m.pending[w] = 0) /\ m.silenced \subseteq Watchers
    BY <1>2, <1>3, <1>4 DEF Pending, Tables
  <2>. QED
    BY <2>1, <2>2 DEF QueuesSound
<1>6. ArraysSound(m) /\ CountsSound(m, n) /\ Active(m) = Active(l) /\ Pending(m) = Pending(l)
  BY <1>2, <1>3 DEF ArraysSound, CountsSound, Alive, Idling, Active, Pending
<1>. QED
  BY <1>1, <1>3, <1>4, <1>5, <1>6 DEF Sound

-------------------------------------------------------------------------------
(* What a step keeps, put together *)

\* Below the top of the stack no ev_stat is in the middle of its system calls.
LEMMA StackKept ==
  ASSUME Nested(stack'), stack' # <<>> => ~(Top'.at = "stat" /\ Top'.flags = "start")
  PROVE  StackSound'
<1>1. PICK s : s = stack'
  OBVIOUS
<1>2. s \in Seq(Frames) /\ Len(s) \in Nat
  BY <1>1 DEF Nested
<1>3. ASSUME NEW i \in 1 .. Len(s), s[i].at = "stat", s[i].flags = "start"
      PROVE  FALSE
  <2>1. CASE i = Len(s)
    <3>1. s # <<>>
      BY <1>2, <1>3
    <3>. QED
      BY <1>1, <1>3, <2>1, <3>1 DEF Top
  <2>2. CASE i # Len(s)
    <3>1. i + 1 \in 1 .. Len(s) /\ i + 1 > 1 /\ i + 1 - 1 = i
      BY <1>2, <2>2
    <3>2. s[i].at \in Callers[s[i + 1].at] /\ s[i + 1] \in Frames
      BY <1>1, <1>2, <3>1 DEF Nested, Calls
    <3>3. s[i].at # "stat"
      <4>1. s[i + 1].at \in {"run", "invoke", "call", "stat", "destroy", "destroyed"}
        BY <3>2 DEF Frames
      <4>. QED
        BY <3>2, <4>1 DEF Callers
    <3>. QED
      BY <1>3, <3>3
  <2>. QED
    BY <2>1, <2>2
<1>. QED
  BY <1>1, <1>3 DEF StackSound

LEMMA GoneKept ==
  ASSUME DeletedIsGone, FreedOnceIsGone, UNCHANGED <<deleted, once>>, NEW n, Widens(Ws, Ws', n)
  PROVE  DeletedIsGone' /\ FreedOnceIsGone'
<1>1. ASSUME NEW w \in Library \ Unreferenced, ~IsActive(w), pending[w] = 0
      PROVE  ~IsActive(w)' /\ pending'[w] = 0
  <2>1. w \in Watchers /\ w \notin Own
    BY <1>1, EvLoopAssumption DEF Own
  <2>2. w \notin Active(Ws) /\ w \notin Pending(Ws)
    BY <1>1, <2>1, WsFacts
  <2>3. w \notin Active(Ws)' /\ w \notin Pending(Ws)'
    BY <2>1, <2>2 DEF Grows, Widens, Active, Pending
  <2>. QED
    BY <2>1, <2>3 DEF Active, Pending, Ws, IsActive
<1>2. DeletedIsGone'
  <2>1. ASSUME NEW e \in deleted, NEW w \in {IoSig[e], To[e]}
        PROVE  ~IsActive(w)' /\ pending'[w] = 0
    <3>1. w \in Library \ Unreferenced /\ ~IsActive(w) /\ pending[w] = 0
      BY LibEventAssumption DEF DeletedIsGone
    <3>. QED
      BY <1>1, <3>1
  <2>. QED
    BY <2>1 DEF DeletedIsGone
<1>3. FreedOnceIsGone'
  <2>1. ASSUME NEW o \in Onces, once[o] = "free", NEW w \in {OnceIo[o], OnceTo[o]}
        PROVE  ~IsActive(w)' /\ pending'[w] = 0
    <3>1. w \in Library \ Unreferenced /\ ~IsActive(w) /\ pending[w] = 0
      BY <2>1, LibEventAssumption DEF FreedOnceIsGone
    <3>. QED
      BY <1>1, <3>1
  <2>. QED
    BY <2>1 DEF FreedOnceIsGone
<1>. QED
  BY <1>2, <1>3

\* A step that makes no event's watchers due and starts no ev_stat
LEMMA GeneralStep ==
  ASSUME IndInv, UNCHANGED <<once, deleted, program>>, fs_fd' \in {-2, -1, 1}, fs_fd' = 1 <=> FsW \in Active(Ws'),
         infy'.visit \subseteq Stats, postfork' \in BOOLEAN, refs' \in Int, ops' \in Nat, Widens(Ws, Ws', refs'),
         StackSound', RunQuiet', BreakSound'
  PROVE  IndInv'
<1>1. DeletedIsGone' /\ FreedOnceIsGone'
  BY GoneKept DEF IndInv
<1>2. TypeOK'
  <2>1. FsW \in Watchers
    BY EvLoopAssumption, EvStatAssumption
  <2>2. IsActive(FsW)' <=> fs_fd' = 1
    BY <2>1 DEF Active, Ws, IsActive
  <2>. QED
    BY <2>2 DEF IndInv, TypeOK
<1>3. Sound(Ws, refs)'
  <2>1. Sound(Ws', refs')
    BY DEF Widens
  <2>. QED
    BY <2>1 DEF Sound, QueuesSound, ArraysSound, CountsSound, Alive, Idling, Active
<1>. QED
  BY <1>1, <1>2, <1>3 DEF IndInv

LEMMA PlainStep ==
  ASSUME IndInv, UNCHANGED <<once, deleted, fs_fd, program>>,
         infy'.visit \subseteq Stats, postfork' \in BOOLEAN, refs' \in Int, ops' \in Nat, Grows(Ws, Ws', refs'),
         Nested(stack'), stack' # <<>> => ~(Top'.at = "stat" /\ Top'.flags = "start"), RunQuiet', BreakSound'
  PROVE  IndInv'
<1>1. StackSound'
  BY StackKept
<1>2. fs_fd' \in {-2, -1, 1} /\ (fs_fd' = 1 <=> FsW \in Active(Ws'))
  <2>1. FsW \in Watchers
    BY EvLoopAssumption, EvStatAssumption
  <2>. QED
    BY <2>1, WsFacts DEF IndInv, TypeOK, Grows
<1>. QED
  BY <1>1, <1>2, GeneralStep DEF Grows

LEMMA BreakKept ==
  ASSUME BreakSound, UNCHANGED <<loop_done, leave>>, Runs(stack') = Runs(stack),
         stack' # <<>> /\ Top'.at = "run" /\ Top'.pc \in Polling => loop_done = "cancel"
  PROVE  BreakSound'
<1>1. RunDepths' = RunDepths
  BY DEF RunDepths, Runs
<1>2. Told(loop_done)' = Told(loop_done)
  BY <1>1 DEF Told
<1>. QED
  BY <1>2 DEF BreakSound, TopIs, Top

LEMMA GrowsSame ==
  ASSUME IndInv
  PROVE  Grows(Ws, Ws, refs) /\ refs \in Int /\ infy.visit \subseteq Stats /\ postfork \in BOOLEAN /\ ops \in Nat
BY DEF IndInv, TypeOK, Grows, Widens

LEMMA TopFacts ==
  ASSUME IndInv, stack # <<>>
  PROVE  /\ Nested(stack) /\ Top \in Frames /\ Depth \in Nat \ {0} /\ DOMAIN stack = 1 .. Depth
         /\ Nested(Return) /\ Runs(Return) = Runs(stack) \ {Depth} /\ Len(Return) = Depth - 1
         /\ IF Return = <<>> THEN Top.at \in {"run", "stat", "destroy", "destroyed"}
            ELSE Calls(Return[Len(Return)], Top) /\ Return[Len(Return)] \in Frames
<1>1. Nested(stack) /\ stack \in Seq(Frames)
  BY DEF IndInv, StackSound, Nested
<1>2. PICK t : t = Return
  OBVIOUS
<1>3. /\ Nested(t) /\ Len(t) = Depth - 1 /\ Runs(t) = Runs(stack) \ {Depth}
      /\ Top \in Frames /\ Depth \in Nat
      /\ IF t = <<>> THEN Top.at \in {"run", "stat", "destroy", "destroyed"}
         ELSE Calls(t[Len(t)], Top)
  BY <1>1, <1>2, PopNested DEF Return, Depth, Top
<1>4. t \in Seq(Frames)
  BY <1>3 DEF Nested
<1>5. t # <<>> => t[Len(t)] \in Frames
  BY <1>4
<1>. QED
  BY <1>1, <1>2, <1>3, <1>5 DEF Depth

RunPcs == {"fork", "prepare", "decide", "loop_fork", "fd_reify", "poll", "tail"}

LEMMA TopGoto ==
  ASSUME Nested(stack), stack # <<>>, NEW pc, NEW f, f = [Top EXCEPT !.pc = pc], f \in Frames
  PROVE  LET t == Goto(pc)
         IN  Nested(t) /\ t # <<>> /\ Runs(t) = Runs(stack) /\ Len(t) = Len(stack) /\ t[Len(t)] = f
<1>1. PICK t : t = Goto(pc)
  OBVIOUS
<1>2. Nested(t) /\ t # <<>> /\ Runs(t) = Runs(stack) /\ Len(t) = Len(stack) /\ t[Len(stack)] = f
  BY <1>1, GotoNested DEF Goto, Depth, Top
<1>. QED
  BY <1>1, <1>2

LEMMA RunGoto ==
  ASSUME IndInv, TopIs("run"), NEW pc \in RunPcs
  PROVE  LET t == Goto(pc)
         IN  Nested(t) /\ t # <<>> /\ Runs(t) = Runs(stack) /\ t[Len(t)].at = "run" /\ t[Len(t)].pc = pc
<1>1. Nested(stack) /\ Top \in Frames /\ stack # <<>>
  BY TopFacts DEF TopIs
<1>2. [Top EXCEPT !.pc = pc] \in Frames /\ [Top EXCEPT !.pc = pc].at = "run" /\ [Top EXCEPT !.pc = pc].pc = pc
  BY <1>1 DEF TopIs, Frames, RunPcs
<1>. QED
  BY <1>1, <1>2, TopGoto

\* ev_run goes from one part to the next.
LEMMA GotoStep ==
  ASSUME IndInv, TopIs("run"), NEW pc \in RunPcs, stack' = Goto(pc),
         UNCHANGED <<loop_done, history, program, ops, libevent, fs_fd, infy>>, postfork' \in BOOLEAN, Grows(Ws, Ws', refs),
         pc \in Polling => loop_done = "cancel",
         \A w \in Pending(Ws') : pc = "poll" /\ w \in refused'
  PROVE  IndInv'
<1>1. Nested(stack') /\ stack' # <<>> /\ Runs(stack') = Runs(stack) /\ Top'.at = "run" /\ Top'.pc = pc
  BY RunGoto DEF Top
<1>2. BreakSound'
  BY <1>1, BreakKept DEF IndInv, history
<1>3. RunQuiet'
  <2>1. \A w \in Watchers : pending'[w] # 0 => w \in Pending(Ws')
    BY DEF Pending, Ws
  <2>. QED
    BY <1>1, <2>1 DEF RunQuiet
<1>. QED
  BY <1>1, <1>2, <1>3, GrowsSame, PlainStep DEF history, libevent

LEMMA QuietPoint ==
  ASSUME IndInv, TopIs("run"), Top.pc # "poll"
  PROVE  Pending(Ws) = {}
BY DEF IndInv, RunQuiet, Pending, Ws

\* EV_INVOKE_PENDING, after active watchers were fed
LEMMA InvokingStep ==
  ASSUME IndInv, NEW s, Nested(s), s # <<>>, s[Len(s)].at \in {"run", "destroy"}, s[Len(s)].pc \notin Polling, Runs(s) = Runs(stack),
         NEW l, Feeds(Ws, l, refs), Invoking(s, l),
         UNCHANGED <<loop_done, postfork, history, program, ops, libevent, fs_fd, infy>>
  PROVE  IndInv'
<1>1. PICK m : m = [l EXCEPT !.pendingpri = NumPri - 1]
  OBVIOUS
<1>2. Sound(m, refs) /\ Active(m) = Active(l) /\ Pending(m) = Pending(l)
  BY <1>1, GrowsSame, FromTopSound DEF Feeds
<1>3. Ws' = m
  BY <1>1, <1>2, SetWsFacts DEF Invoking, Sound
<1>4. Grows(Ws, Ws', refs')
  BY <1>2, <1>3 DEF Feeds, Grows, Widens, history
<1>5. InvokeFrame \in Frames /\ InvokeFrame.at = "invoke" /\ Callers["invoke"] = {"run", "destroy"}
  BY DEF InvokeFrame, Frame, Frames, Callers
<1>6. stack' = Append(s, InvokeFrame)
  BY DEF Invoking
<1>. HIDE DEF InvokeFrame
<1>7. Nested(stack') /\ stack' # <<>> /\ Top' = InvokeFrame /\ Runs(stack') = Runs(stack)
  BY <1>5, <1>6, LastFrame, PushNested DEF Top, Calls
<1>8. BreakSound' /\ RunQuiet'
  <2>1. BreakSound'
    BY <1>5, <1>7, BreakKept DEF IndInv, history
  <2>2. RunQuiet'
    BY <1>5, <1>7 DEF RunQuiet, TopIs
  <2>. QED
    BY <2>1, <2>2
<1>. QED
  BY <1>4, <1>5, <1>7, <1>8, GrowsSame, PlainStep DEF history, libevent

-------------------------------------------------------------------------------
(* The steps of the loop *)

\* A callback, or ev_invoke_pending when its queues are empty, comes back.
LEMMA ReturnStep ==
  ASSUME IndInv, stack # <<>>, Top.at \in {"invoke", "call"}, stack' = Return, Grows(Ws, Ws', refs),
         Top.at = "invoke" => Pending(Ws') = {},
         UNCHANGED <<loop_done, postfork, history, program, ops, libevent, fs_fd>>, infy'.visit \subseteq Stats
  PROVE  IndInv'
<1>1. /\ Nested(stack') /\ Runs(stack') = Runs(stack) \ {Depth}
      /\ stack' # <<>> /\ Top' \in Frames /\ Calls(Top', Top)
  BY TopFacts DEF Top
<1>2. Runs(stack') = Runs(stack)
  BY <1>1 DEF Runs, Top, Depth
<1>3. Callers["invoke"] = {"run", "destroy"} /\ Callers["call"] = {"invoke"}
  BY DEF Callers
<1>4. /\ Top'.at \in {"run", "destroy", "invoke"} /\ (Top'.at = "run" => Top'.pc \notin Polling)
      /\ (Top.at = "call" => Top'.at = "invoke")
  BY <1>1, <1>3 DEF Calls
<1>5. BreakSound'
  BY <1>1, <1>2, <1>4, BreakKept DEF IndInv, history
<1>6. RunQuiet'
  <2>1. CASE Top.at = "call"
    BY <1>4, <2>1 DEF RunQuiet, TopIs
  <2>2. CASE Top.at = "invoke"
    <3>1. \A w \in Watchers : pending'[w] = 0
      BY <2>2 DEF Pending, Ws
    <3>. QED
      BY <3>1 DEF RunQuiet
  <2>. QED
    BY <2>1, <2>2
<1>. QED
  BY <1>1, <1>4, <1>5, <1>6, GrowsSame, PlainStep DEF history, libevent

\* The queue that ev_invoke_pending takes the next watcher from
LEMMA HighestWaiting ==
  ASSUME IndInv, Waiting # {}, NEW p, p = CHOOSE n \in Waiting : \A m \in Waiting : m <= n
  PROVE  p \in Waiting /\ \A m \in Waiting : m <= p
<1>1. pendingpri \in Nat
  BY EvLoopAssumption DEF IndInv, Sound, Tables, Ws, Pris
<1>2. Waiting \in SUBSET (0 .. pendingpri)
  BY DEF Waiting
<1>3. \E n \in Waiting : \A m \in Waiting : m <= n
  <2>. HIDE DEF Waiting
  <2>. QED
    BY <1>1, <1>2, HighestExists
<1>. QED
  BY <1>3

LEMMA InvokePendingStep ==
  ASSUME IndInv, InvokePending, UNCHANGED <<libevent, evstat>>
  PROVE  IndInv'
<1>. DEFINE p == CHOOSE n \in Waiting : \A m \in Waiting : m <= n
<1>1. Sound(Ws, refs) /\ refs \in Int /\ pendingpri \in Nat /\ pendingpri \in Pris
  BY EvLoopAssumption DEF IndInv, TypeOK, Sound, Tables, Ws, Pris
<1>2. p \in Waiting /\ \A m \in Waiting : m <= p
  BY HighestWaiting DEF InvokePending
<1>. HIDE DEF p
<1>3. /\ p \in Pris /\ Ws.pendings[p] # <<>> /\ p <= Ws.pendingpri
      /\ \A r \in Pris : r > p => Ws.pendings[r] = <<>>
  <2>1. p \in Pris /\ p \in 0 .. pendingpri /\ pendings[p] # <<>>
    BY <1>1, <1>2, EvLoopAssumption DEF Waiting, Pris
  <2>2. ASSUME NEW r \in Pris, r > p
        PROVE  pendings[r] = <<>>
    <3>1. CASE r > pendingpri
      BY <1>1, <3>1 DEF Sound, QueuesSound, Ws
    <3>2. CASE ~(r > pendingpri)
      <4>1. r \in 0 .. pendingpri /\ ~(r <= p)
        BY <1>1, <2>1, <2>2, <3>2 DEF Pris
      <4>. QED
        BY <1>2, <4>1 DEF Waiting
    <3>. QED
      BY <3>1, <3>2
  <2>3. p <= pendingpri
    BY <1>1, <2>1
  <2>. QED
    BY <2>1, <2>2, <2>3, WsFacts
<1>4. PICK w : w = pendings[p][Len(pendings[p])]
  OBVIOUS
<1>5. PICK m : m = Popped(Ws, p)
  OBVIOUS
<1>6. PICK called : called = Called(m, w)
  OBVIOUS
<1>7. /\ w = Dummy => Sound(m, refs) /\ Active(m) = Active(Ws) /\ Pending(m) = Pending(Ws)
      /\ w # Dummy => /\ w \in Watchers /\ Sound(called, refs)
                      /\ Active(called) = Active(Ws) /\ Pending(called) = Pending(Ws) \ {w}
  <2>1. w = Ws.pendings[p][Len(Ws.pendings[p])]
    BY <1>4, WsFacts
  <2>. QED
    BY <1>1, <1>3, <1>5, <1>6, <2>1, PoppedSound
<1>8. /\ TopIs("invoke") /\ UNCHANGED <<loop_done, postfork, history, program, ops>>
      /\ IF w = Dummy THEN SetWs(m) /\ UNCHANGED stack
         ELSE SetWs(called) /\ stack' = Append(stack, CallFrame(w))
  <2>. QED
    BY <1>4, <1>5, <1>6 DEF InvokePending, Popped, Called, p
<1>9. Nested(stack) /\ stack # <<>> /\ Top.at = "invoke"
  BY <1>8, TopFacts DEF TopIs
<1>10. BreakSound /\ infy' = infy /\ fs_fd' = fs_fd
  BY DEF IndInv, evstat, inotify
<1>11. CASE w = Dummy
  <2>1. Ws' = m
    BY <1>7, <1>8, <1>11, SetWsFacts DEF Sound
  <2>2. Grows(Ws, Ws', refs')
    BY <1>7, <1>8, <1>11, <2>1 DEF Grows, Widens, history
  <2>3. stack' = stack /\ Top' = Top
    BY <1>8, <1>11 DEF Top
  <2>4. BreakSound' /\ RunQuiet'
    BY <1>8, <1>9, <1>10, <2>3, BreakKept DEF RunQuiet, TopIs, history
  <2>. QED
    BY <1>8, <1>9, <1>10, <2>2, <2>3, <2>4, GrowsSame, PlainStep DEF history, libevent
<1>12. CASE w # Dummy
  <2>1. Ws' = called
    BY <1>7, <1>8, <1>12, SetWsFacts DEF Sound
  <2>2. Grows(Ws, Ws', refs')
    BY <1>7, <1>8, <1>12, <2>1 DEF Grows, Widens, history
  <2>3. PICK f : f = CallFrame(w)
    OBVIOUS
  <2>4. f \in Frames /\ f.at = "call"
    BY <1>7, <1>12, <2>3 DEF CallFrame, Frame, Frames
  <2>5. Calls(stack[Len(stack)], f)
    BY <1>9, <2>4, LastFrame DEF Calls, Callers, Top, Depth
  <2>6. Nested(stack') /\ stack' # <<>> /\ Top' = f /\ Runs(stack') = Runs(stack)
    <3>1. stack' = Append(stack, f)
      BY <1>8, <1>12, <2>3
    <3>. QED
      BY <1>9, <2>4, <2>5, <3>1, PushNested DEF Top
  <2>7. BreakSound' /\ RunQuiet'
    BY <1>8, <1>10, <2>4, <2>6, BreakKept DEF RunQuiet, TopIs, history
  <2>. QED
    BY <1>8, <1>10, <2>2, <2>4, <2>6, <2>7, GrowsSame, PlainStep DEF history, libevent
<1>. QED
  BY <1>11, <1>12

LEMMA EvStatSame ==
  ASSUME UNCHANGED evstat
  PROVE  infy' = infy /\ fs_fd' = fs_fd
BY DEF evstat, inotify

LEMMA InvokeReturnsStep ==
  ASSUME IndInv, InvokeReturns, UNCHANGED <<libevent, evstat>>
  PROVE  IndInv'
<1>1. Sound(Ws, refs) /\ refs \in Int /\ pendingpri \in Pris
  BY DEF IndInv, TypeOK, Sound, Tables, Ws
<1>2. \A p \in Pris : Ws.pendings[p] = <<>>
  <2>1. ASSUME NEW p \in Pris
        PROVE  pendings[p] = <<>>
    <3>1. CASE p > pendingpri
      BY <1>1, <3>1 DEF Sound, QueuesSound, Ws
    <3>2. CASE ~(p > pendingpri)
      <4>1. p \in 0 .. pendingpri
        BY <1>1, <3>2, EvLoopAssumption DEF Pris
      <4>. QED
        BY <4>1 DEF InvokeReturns, Waiting
    <3>. QED
      BY <3>1, <3>2
  <2>. QED
    BY <2>1, WsFacts
<1>3. PICK m : m = [Ws EXCEPT !.pendingpri = 0]
  OBVIOUS
<1>4. Sound(m, refs) /\ Active(m) = Active(Ws) /\ Pending(m) = {}
  BY <1>1, <1>2, <1>3, AllPopped
<1>5. Ws' = m
  <2>1. SetWs(m)
    BY <1>3 DEF InvokeReturns
  <2>. QED
    BY <1>4, <2>1, SetWsFacts DEF Sound
<1>6. Grows(Ws, Ws', refs)
  BY <1>4, <1>5 DEF Grows, Widens
<1>. QED
  BY <1>4, <1>5, <1>6, GrowsSame, ReturnStep, EvStatSame DEF InvokeReturns, TopIs

LEMMA CallReturnsStep ==
  ASSUME IndInv, CallReturns, UNCHANGED <<libevent, evstat>>
  PROVE  IndInv'
<1>1. Ws' = Ws
  BY SameWs DEF CallReturns
<1>. QED
  BY <1>1, GrowsSame, ReturnStep, EvStatSame DEF CallReturns, InUser, TopIs

LEMMA KeysOfLoop ==
  \A k \in {"fork", "prepare", "check", "cleanup"} : <<k, 0>> \in Keys
<1>1. ASSUME NEW k \in {"fork", "prepare", "check", "cleanup"}
      PROVE  <<k, 0>> \in Keys
  <2>1. 0 \in Pris /\ k \in Arrays /\ KeyOf(k, 0) = <<k, 0>>
    BY EvLoopAssumption DEF Pris, Arrays, KeyOf
  <2>. QED
    BY <2>1 DEF Keys
<1>. QED
  BY <1>1

LEMMA QueueForksStep ==
  ASSUME IndInv, QueueForks, UNCHANGED <<libevent, evstat>>
  PROVE  IndInv'
<1>1. TopIs("run") /\ Top.pc # "poll" /\ UNCHANGED <<loop_done, postfork, history, program, ops>>
  BY DEF QueueForks, InRun
<1>2. PICK s, l : s = Goto("prepare") /\ l = FedAll(Ws, Ws.arrays[<<"fork", 0>>])
  OBVIOUS
<1>3. Nested(s) /\ s # <<>> /\ Runs(s) = Runs(stack) /\ s[Len(s)].at = "run" /\ s[Len(s)].pc \notin Polling
  BY <1>1, <1>2, RunGoto DEF RunPcs, Polling
<1>4. Feeds(Ws, l, refs)
  BY <1>2, GrowsSame, KeysOfLoop, ArrayFed DEF Grows, Widens
<1>5. CASE Invoking(s, l)
  BY <1>1, <1>3, <1>4, <1>5, EvStatSame, InvokingStep
<1>6. CASE stack' = Goto("prepare") /\ UNCHANGED watchers
  BY <1>1, <1>6, SameWs, QuietPoint, GrowsSame, EvStatSame, GotoStep DEF RunPcs, Polling
<1>. QED
  BY <1>2, <1>5, <1>6, WsFacts DEF QueueForks

LEMMA QueuePreparesStep ==
  ASSUME IndInv, QueuePrepares, UNCHANGED <<libevent, evstat>>
  PROVE  IndInv'
<1>1. TopIs("run") /\ Top.pc # "poll" /\ UNCHANGED <<loop_done, postfork, history, program, ops>>
  BY DEF QueuePrepares, InRun
<1>2. PICK s, l : s = Goto("decide") /\ l = FedAll(Ws, Ws.arrays[<<"prepare", 0>>])
  OBVIOUS
<1>3. Nested(s) /\ s # <<>> /\ Runs(s) = Runs(stack) /\ s[Len(s)].at = "run" /\ s[Len(s)].pc \notin Polling
  BY <1>1, <1>2, RunGoto DEF RunPcs, Polling
<1>4. Feeds(Ws, l, refs)
  BY <1>2, GrowsSame, KeysOfLoop, ArrayFed DEF Grows, Widens
<1>5. CASE Invoking(s, l)
  BY <1>1, <1>3, <1>4, <1>5, EvStatSame, InvokingStep
<1>6. CASE stack' = Goto("decide") /\ UNCHANGED watchers
  BY <1>1, <1>6, SameWs, QuietPoint, GrowsSame, EvStatSame, GotoStep DEF RunPcs, Polling
<1>. QED
  BY <1>2, <1>5, <1>6, WsFacts DEF QueuePrepares

\* Idle watchers are queued after what happened, and check watchers after them.
LEMMA PollFeeds ==
  ASSUME IndInv, NEW happened \in SUBSET MayHappen,
         NEW l, l = FedAll(IdleReified(FedAll(Ws, InSomeOrder(happened))), arrays[<<"check", 0>>])
  PROVE  Feeds(Ws, l, refs)
<1>1. Sound(Ws, refs) /\ refs \in Int
  BY GrowsSame DEF Grows, Widens
<1>2. PICK events1 : events1 = FedAll(Ws, InSomeOrder(happened))
  OBVIOUS
<1>3. PICK idles : idles = IdleReified(events1)
  OBVIOUS
<1>4. l = FedAll(idles, arrays[<<"check", 0>>])
  BY <1>2, <1>3
<1>5. Feeds(Ws, events1, refs)
  <2>1. happened \subseteq Active(Ws) /\ happened \subseteq Watchers
    BY DEF MayHappen, Active, IsActive, Ws
  <2>2. IsFiniteSet(happened)
    BY <2>1, FS_Subset, EvLoopAssumption
  <2>3. PICK ws : ws = InSomeOrder(happened)
    OBVIOUS
  <2>4. ws \in Seq(happened) /\ {ws[i] : i \in 1 .. Len(ws)} \subseteq happened
    BY <2>2, <2>3, InSomeOrderFacts
  <2>5. ws \in Seq(Watchers)
    <3>. HIDE DEF MayHappen
    <3>. QED
      BY <2>1, <2>4
  <2>. QED
    BY <1>1, <1>2, <2>1, <2>3, <2>4, <2>5, FedAllSound DEF Feeds
<1>6. Feeds(events1, idles, refs)
  BY <1>1, <1>3, <1>5, IdleReifiedFeeds DEF Feeds
<1>7. Feeds(idles, l, refs)
  <2>1. idles.arrays = arrays
    BY <1>5, <1>6, WsFacts DEF Feeds
  <2>2. Sound(idles, refs)
    BY <1>6 DEF Feeds
  <2>. QED
    BY <1>1, <1>4, <2>1, <2>2, KeysOfLoop, ArrayFed
<1>. QED
  BY <1>5, <1>6, <1>7 DEF Feeds

LEMMA PollStep ==
  ASSUME IndInv, NEW happened \in SUBSET MayHappen, Poll(happened), UNCHANGED <<libevent, evstat>>
  PROVE  IndInv'
<1>1. TopIs("run") /\ UNCHANGED <<loop_done, postfork, history, program, ops>>
  BY DEF Poll, InRun
<1>2. PICK s, l : /\ s = Goto("tail")
                  /\ l = FedAll(IdleReified(FedAll(Ws, InSomeOrder(happened))), arrays[<<"check", 0>>])
  OBVIOUS
<1>3. Nested(s) /\ s # <<>> /\ Runs(s) = Runs(stack) /\ s[Len(s)].at = "run" /\ s[Len(s)].pc \notin Polling
  BY <1>1, <1>2, RunGoto DEF RunPcs, Polling
<1>4. Feeds(Ws, l, refs)
  BY <1>2, PollFeeds
<1>5. Invoking(s, l)
  BY <1>2 DEF Poll
<1>. QED
  BY <1>1, <1>3, <1>4, <1>5, EvStatSame, InvokingStep

LEMMA LeaveStep ==
  ASSUME IndInv, TopIs("run"), Leave, UNCHANGED <<libevent, evstat>>
  PROVE  IndInv'
<1>1. stack # <<>> /\ Top.at = "run" /\ Depth \in Nat \ {0} /\ DOMAIN stack = 1 .. Depth
  BY TopFacts DEF TopIs
<1>2. /\ Nested(stack') /\ Runs(stack') = Runs(stack) \ {Depth}
      /\ stack' # <<>> => Calls(Top', Top)
  BY <1>1, TopFacts DEF Leave, Top
<1>3. stack' # <<>> => Top'.at = "call"
  BY <1>1, <1>2 DEF Calls, Callers
<1>4. RunDepths' = RunDepths \ {Depth} /\ Depth \in RunDepths /\ \A i \in RunDepths : i <= Depth
  BY <1>1, <1>2 DEF Runs, RunDepths, Top, Depth
<1>5. leave' = leave \ {Depth} /\ loop_done' = AfterRun /\ leave = Told(loop_done) /\ loop_done \in {"cancel", "one", "all"}
  BY DEF IndInv, BreakSound, Leave
<1>6. BreakSound'
  <2>1. leave' = Told(loop_done)'
    <3>1. CASE loop_done = "cancel"
      BY <1>5, <3>1 DEF Told, AfterRun
    <3>2. CASE loop_done = "one"
      <4>1. leave \subseteq {Depth}
        BY <1>1, <1>4, <1>5, <3>2 DEF Told, RunDepths
      <4>. QED
        BY <1>5, <3>2, <4>1 DEF Told, AfterRun
    <3>3. CASE loop_done = "all"
      BY <1>4, <1>5, <3>3 DEF Told, AfterRun
    <3>. QED
      BY <1>5, <3>1, <3>2, <3>3
  <2>2. loop_done' \in {"cancel", "one", "all"}
    BY <1>5 DEF AfterRun
  <2>. QED
    BY <1>3, <2>1, <2>2 DEF BreakSound, TopIs
<1>7. RunQuiet'
  BY <1>3 DEF RunQuiet, TopIs
<1>8. Ws' = Ws
  BY SameWs DEF Leave
<1>. QED
  BY <1>2, <1>3, <1>6, <1>7, <1>8, GrowsSame, EvStatSame, PlainStep DEF Leave, libevent

LEMMA GoOnStep ==
  ASSUME IndInv, GoOn, UNCHANGED <<libevent, evstat>>
  PROVE  IndInv'
<1>1. TopIs("run") /\ Top.pc # "poll" /\ loop_done = "cancel" /\ UNCHANGED <<watchers, loop_done, postfork, history, program, ops>>
  BY DEF GoOn, InRun
<1>2. PICK pc \in RunPcs : stack' = Goto(pc)
  BY DEF GoOn, RunPcs
<1>. QED
  BY <1>1, <1>2, SameWs, QuietPoint, GrowsSame, EvStatSame, GotoStep

LEMMA NextIterationStep ==
  ASSUME IndInv, NextIteration, UNCHANGED <<libevent, evstat>>
  PROVE  IndInv'
<1>1. TopIs("run") /\ Top.pc # "poll" /\ UNCHANGED <<watchers, loop_done, postfork, history, program, ops>>
  BY DEF NextIteration, InRun
<1>2. stack' = Goto("fork")
  BY DEF NextIteration
<1>. QED
  BY <1>1, <1>2, SameWs, QuietPoint, GrowsSame, EvStatSame, GotoStep DEF RunPcs, Polling

\* fd_reify leaves the event of the watcher it kills for after the poll.
LEMMA FdReifyStep ==
  ASSUME IndInv, FdReify, UNCHANGED <<libevent, evstat>>
  PROVE  IndInv'
<1>1. /\ TopIs("run") /\ Top.pc = "fd_reify" /\ stack' = Goto("poll")
      /\ UNCHANGED <<loop_done, postfork, history, program, ops>>
  BY DEF FdReify, InRun
<1>2. loop_done = "cancel" /\ Pending(Ws) = {}
  BY <1>1, QuietPoint DEF IndInv, BreakSound, Polling
<1>3. Sound(Ws, refs) /\ refs \in Int
  BY GrowsSame DEF Grows, Widens
<1>4. CASE UNCHANGED watchers
  BY <1>1, <1>2, <1>4, SameWs, GrowsSame, EvStatSame, GotoStep DEF RunPcs
<1>5. ASSUME NEW w \in Watchers \ Unreferenced, IsActive(w), SetWs(Killed(Ws, w))
      PROVE  IndInv'
  <2>1. PICK m : m = Killed(Ws, w)
    OBVIOUS
  <2>2. /\ Sound(m, refs) /\ Active(m) = Active(Ws) \ {w} /\ Pending(m) = Pending(Ws) \cup {w}
        /\ m.refused = Ws.refused \cup {w}
    BY <1>3, <2>1, KilledSound
  <2>3. Ws' = m
    BY <1>5, <2>1, <2>2, SetWsFacts DEF Sound
  <2>4. refused' = m.refused
    BY <2>3 DEF Ws
  <2>5. w \in Active(Ws) /\ w # FsW
    BY <1>5, WsFacts, EvStatAssumption
  <2>6. Grows(Ws, Ws', refs)
    BY <2>2, <2>3, <2>5 DEF Grows, Widens
  <2>7. \A v \in Pending(Ws') : v \in refused'
    BY <1>2, <2>2, <2>3, <2>4
  <2>. QED
    BY <1>1, <1>2, <2>6, <2>7, GrowsSame, EvStatSame, GotoStep DEF RunPcs
<1>. QED
  BY <1>4, <1>5 DEF FdReify

LEMMA EmptyNested == Nested(<<>>) /\ Runs(<<>>) = {}
BY DEF Nested, Runs

LEMMA DestroyedStep ==
  ASSUME IndInv, Destroyed, UNCHANGED <<libevent, evstat>>
  PROVE  IndInv'
<1>1. stack # <<>> /\ Top.at = "destroy"
  BY DEF Destroyed, TopIs
<1>2. Return = <<>> /\ Len(Return) = Depth - 1 /\ Depth \in Nat /\ DOMAIN stack = 1 .. Depth
  <2>1. Return # <<>> => Calls(Return[Len(Return)], Top)
    BY <1>1, TopFacts
  <2>2. Return = <<>>
    BY <1>1, <2>1 DEF Calls, Callers
  <2>. QED
    BY <1>1, <2>2, TopFacts
<1>3. Runs(stack) = {}
  <2>1. Len(Return) = 0
    BY <1>2
  <2>2. DOMAIN stack = {1} /\ Depth = 1
    BY <1>2, <2>1
  <2>. QED
    BY <1>1, <2>2 DEF Runs, Top, Depth
<1>4. PICK f : f = Frame("destroyed", "", "", Dummy)
  OBVIOUS
<1>5. f \in Frames /\ f.at = "destroyed" /\ stack' = Append(<<>>, f)
  <2>1. f \in Frames /\ f.at = "destroyed"
    BY <1>4 DEF Frame, Frames
  <2>2. stack' = <<f>>
    BY <1>4 DEF Destroyed
  <2>. QED
    BY <2>1, <2>2
<1>6. Nested(stack') /\ stack' # <<>> /\ Top' = f /\ Runs(stack') = Runs(stack)
  BY <1>3, <1>5, EmptyNested, PushNested DEF Top
<1>7. BreakSound' /\ RunQuiet'
  BY <1>5, <1>6, BreakKept DEF IndInv, RunQuiet, TopIs, Destroyed, history
<1>8. Ws' = Ws
  BY SameWs DEF Destroyed
<1>. QED
  BY <1>5, <1>6, <1>7, <1>8, GrowsSame, EvStatSame, PlainStep DEF Destroyed, libevent, history

LEMMA LoopStepKeeps ==
  ASSUME IndInv, LoopStep, UNCHANGED <<libevent, evstat>>
  PROVE  IndInv'
<1>1. CASE BreakOff \/ RunReturns
  BY <1>1, LeaveStep DEF BreakOff, RunReturns, InRun
<1>. QED
  BY <1>1, InvokePendingStep, InvokeReturnsStep, CallReturnsStep, QueueForksStep, QueuePreparesStep, GoOnStep,
     FdReifyStep, NextIterationStep, DestroyedStep DEF LoopStep

\* What infy_fork changes is the library's own.
LEMMA LoopForkStep ==
  ASSUME IndInv, LoopFork, InfyFork, UNCHANGED libevent
  PROVE  IndInv'
<1>1. /\ TopIs("run") /\ Top.pc = "loop_fork" /\ stack' = Goto("fd_reify") /\ postfork' = FALSE
      /\ UNCHANGED <<loop_done, history, program, ops>>
  BY DEF LoopFork, InRun
<1>2. loop_done = "cancel" /\ Pending(Ws) = {}
  BY <1>1, QuietPoint DEF IndInv, BreakSound, Polling
<1>3. /\ Sound(Ws', refs) /\ Pending(Ws') \subseteq Pending(Ws)
      /\ Active(Ws') \ Unreferenced = Active(Ws) \ Unreferenced
      /\ fs_fd' \in {-2, -1, 1} /\ (fs_fd' = 1 <=> FsW \in Active(Ws')) /\ infy' = infy
  BY InfyForkReadies DEF IndInv, TypeOK
<1>4. Widens(Ws, Ws', refs)
  <2>1. Active(Ws') \subseteq Watchers
    BY DEF Active
  <2>. QED
    BY <1>3, <2>1 DEF Widens, Own
<1>5. Nested(stack') /\ stack' # <<>> /\ Runs(stack') = Runs(stack) /\ Top'.at = "run"
  BY <1>1, RunGoto DEF RunPcs, Top
<1>6. StackSound'
  BY <1>5, StackKept
<1>7. BreakSound'
  BY <1>1, <1>2, <1>5, BreakKept DEF IndInv, history
<1>8. RunQuiet'
  <2>1. \A w \in Watchers : pending'[w] = 0
    BY <1>2, <1>3 DEF Pending, Ws
  <2>. QED
    BY <2>1 DEF RunQuiet
<1>. QED
  BY <1>1, <1>3, <1>4, <1>6, <1>7, <1>8, GrowsSame, GeneralStep DEF history, libevent

-------------------------------------------------------------------------------
(* The calls of the user *)

LEMMA ActsFacts ==
  ASSUME IndInv, stack = <<>> \/ InUser
  PROVE  /\ ~TopIs("run") /\ Nested(stack) /\ program \in Programs /\ program.has \subseteq Watchers
         /\ \A w \in Mine : w \in Watchers \ Unreferenced /\ w \in Own /\ w # FsW
<1>1. ~TopIs("run") /\ Nested(stack)
  BY DEF InUser, TopIs, IndInv, StackSound
<1>2. program \in Programs /\ program.has \subseteq Watchers
  BY EvLoopAssumption DEF IndInv, TypeOK
<1>3. FsW \in Library
  BY EvLoopAssumption, EvStatAssumption
<1>. QED
  BY <1>1, <1>2, <1>3, EvLoopAssumption DEF Mine, Own

LEMMA SameStack ==
  ASSUME IndInv, stack = <<>> \/ InUser, UNCHANGED <<stack, loop_done, leave>>
  PROVE  /\ StackSound' /\ BreakSound' /\ RunQuiet' /\ Nested(stack')
         /\ stack' # <<>> => ~(Top'.at = "stat" /\ Top'.flags = "start")
<1>1. ~TopIs("run") /\ Nested(stack) /\ (stack # <<>> => Top.at = "call")
  BY ActsFacts DEF InUser, TopIs
<1>2. stack' = stack /\ Top' = Top /\ Runs(stack') = Runs(stack)
  BY DEF Top
<1>3. StackSound'
  BY <1>1, <1>2, StackKept
<1>4. BreakSound' /\ RunQuiet'
  BY <1>1, <1>2, BreakKept DEF IndInv, TopIs, RunQuiet
<1>. QED
  BY <1>1, <1>2, <1>3, <1>4

\* A call that only changes the watchers of the user
LEMMA UserWatchers ==
  ASSUME IndInv, stack = <<>> \/ InUser, NEW m, SetWs(m), Grows(Ws, m, refs), ops' = ops + 1,
         UNCHANGED <<loop_done, postfork, stack, history, program, libevent, evstat>>
  PROVE  IndInv'
<1>1. Ws' = m
  BY SetWsFacts DEF Grows, Widens, Sound
<1>. QED
  BY <1>1, SameStack, GrowsSame, EvStatSame, PlainStep DEF history, libevent

LEMMA StartStep ==
  ASSUME IndInv, NEW w \in Mine, Start(w), UNCHANGED <<libevent, evstat>>
  PROVE  IndInv'
<1>1. w \in Watchers \ Unreferenced /\ w \in Own /\ w # FsW
  BY ActsFacts DEF Start, Acts
<1>2. PICK m : m = Started(Ws, w)
  OBVIOUS
<1>3. w \notin Active(Ws)
  BY <1>1, WsFacts DEF Start
<1>4. Sound(m, refs) /\ Active(m) = Active(Ws) \cup {w} /\ Pending(m) = Pending(Ws)
  BY <1>1, <1>2, <1>3, GrowsSame, StartedPlain DEF Grows, Widens
<1>5. Grows(Ws, m, refs)
  BY <1>1, <1>4 DEF Grows, Widens
<1>. QED
  BY <1>2, <1>5, UserWatchers DEF Start, Acts

LEMMA StopStep ==
  ASSUME IndInv, NEW w \in Mine, Stop(w), UNCHANGED <<libevent, evstat>>
  PROVE  IndInv'
<1>1. w \in Watchers \ Unreferenced /\ w \in Own /\ w # FsW
  BY ActsFacts DEF Stop, Acts
<1>2. PICK m : m = Stopped(Ws, w)
  OBVIOUS
<1>3. Sound(m, refs) /\ Active(m) = Active(Ws) \ {w} /\ Pending(m) = Pending(Ws) \ {w}
  BY <1>1, <1>2, GrowsSame, StoppedPlain DEF Grows, Widens
<1>4. Grows(Ws, m, refs)
  BY <1>1, <1>3 DEF Grows, Widens
<1>. QED
  BY <1>2, <1>4, UserWatchers DEF Stop, Acts

LEMMA FeedStep ==
  ASSUME IndInv, NEW w \in Mine, Feed(w), UNCHANGED <<libevent, evstat>>
  PROVE  IndInv'
<1>1. w \in Watchers \ Unreferenced /\ w \in Own /\ w # FsW
  BY ActsFacts DEF Feed, Acts
<1>2. PICK m : m = Fed(Ws, w)
  OBVIOUS
<1>3. Sound(m, refs) /\ Active(m) = Active(Ws) /\ Pending(m) = Pending(Ws) \cup {w}
  BY <1>1, <1>2, GrowsSame, FedSound DEF Grows, Widens
<1>4. Grows(Ws, m, refs)
  BY <1>1, <1>3 DEF Grows, Widens
<1>. QED
  BY <1>2, <1>4, UserWatchers DEF Feed, Acts

LEMMA ClearPendingStep ==
  ASSUME IndInv, NEW w \in Mine, ClearPending(w), UNCHANGED <<libevent, evstat>>
  PROVE  IndInv'
<1>1. w \in Watchers \ Unreferenced /\ w \in Own /\ w # FsW
  BY ActsFacts DEF ClearPending, Acts
<1>2. PICK m : m = Cleared(Ws, w)
  OBVIOUS
<1>3. Sound(m, refs) /\ Active(m) = Active(Ws) /\ Pending(m) = Pending(Ws) \ {w}
  BY <1>1, <1>2, GrowsSame, ClearedSound DEF Grows, Widens
<1>4. Grows(Ws, m, refs)
  BY <1>1, <1>3 DEF Grows, Widens
<1>. QED
  BY <1>2, <1>4, UserWatchers DEF ClearPending, Acts

LEMMA RefStep ==
  ASSUME IndInv, Ref \/ Unref, UNCHANGED <<libevent, evstat>>
  PROVE  IndInv'
<1>1. /\ stack = <<>> \/ InUser
      /\ ops' = ops + 1 /\ UNCHANGED <<loop_done, postfork, stack, leave, program>>
  BY DEF Ref, Unref, Acts
<1>2. PICK k \in Int : activecnt' = activecnt + k /\ refs' = refs + k
  <2>1. activecnt \in Int /\ refs \in Int
    BY GrowsSame DEF Grows, Widens, Sound, Tables, Ws
  <2>2. CASE Ref
    BY <2>2 DEF Ref
  <2>3. CASE Unref
    <3>1. activecnt' = activecnt + (-1) /\ refs' = refs + (-1)
      BY <2>1, <2>3 DEF Unref
    <3>. QED
      BY <3>1
  <2>. QED
    BY <2>2, <2>3
<1>3. Ws' = [Ws EXCEPT !.activecnt = Ws.activecnt + k]
  BY <1>2 DEF Ws, Ref, Unref
<1>4. Sound(Ws', refs') /\ Active(Ws') = Active(Ws) /\ Pending(Ws') = Pending(Ws) /\ refs' \in Int
  BY <1>2, <1>3, GrowsSame, ReferencedSound DEF Grows, Widens
<1>5. Grows(Ws, Ws', refs')
  BY <1>4 DEF Grows, Widens
<1>. QED
  BY <1>1, <1>4, <1>5, SameStack, GrowsSame, EvStatSame, PlainStep DEF libevent

LEMMA ForkStep ==
  ASSUME IndInv, Fork, UNCHANGED <<libevent, evstat>>
  PROVE  IndInv'
<1>1. Ws' = Ws
  BY SameWs DEF Fork
<1>. QED
  BY <1>1, SameStack, GrowsSame, EvStatSame, PlainStep DEF Fork, Acts, history, libevent

LEMMA BreakStep ==
  ASSUME IndInv, NEW how \in {"one", "all", "cancel"}, Break(how), UNCHANGED <<libevent, evstat>>
  PROVE  IndInv'
<1>1. /\ stack = <<>> \/ InUser
      /\ ops' = ops + 1 /\ UNCHANGED <<watchers, postfork, stack, refs, program>>
      /\ loop_done' = how /\ leave' = Told(how)
  BY DEF Break, Acts
<1>2. Ws' = Ws
  BY <1>1, SameWs
<1>3. ~TopIs("run") /\ Nested(stack) /\ (stack # <<>> => Top.at = "call")
  BY <1>1, ActsFacts DEF InUser, TopIs
<1>4. stack' = stack /\ Top' = Top
  BY <1>1 DEF Top
<1>5. BreakSound'
  <2>1. RunDepths' = RunDepths
    BY <1>1 DEF RunDepths
  <2>2. Told(loop_done)' = Told(how)
    BY <1>1, <2>1 DEF Told
  <2>. QED
    BY <1>1, <1>3, <1>4, <2>2 DEF BreakSound, TopIs
<1>6. RunQuiet'
  BY <1>3, <1>4 DEF RunQuiet, TopIs
<1>. QED
  BY <1>1, <1>2, <1>3, <1>4, <1>5, <1>6, GrowsSame, EvStatSame, PlainStep DEF libevent

\* A new ev_run is told nothing yet.
LEMMA RunStep ==
  ASSUME IndInv, NEW flags \in EvRunFlags, Run(flags), UNCHANGED <<libevent, evstat>>
  PROVE  IndInv'
<1>1. PICK f : f = Frame("run", "fork", flags, Dummy)
  OBVIOUS
<1>2. PICK s : s = Append(stack, f)
  OBVIOUS
<1>3. /\ stack = <<>> \/ InUser
      /\ ops' = ops + 1 /\ UNCHANGED <<postfork, refs, program>>
      /\ loop_done' = "cancel" /\ leave' = {} /\ Invoking(s, Ws)
  BY <1>1, <1>2 DEF Run, Acts
<1>4. f \in Frames /\ f.at = "run" /\ f.pc = "fork"
  BY <1>1 DEF Frame, Frames
<1>5. Nested(stack) /\ (stack # <<>> => Calls(stack[Len(stack)], f))
  <2>1. stack # <<>> => stack[Len(stack)].at = "call" /\ stack[Len(stack)].pc = "user"
    BY <1>3 DEF InUser, TopIs, Top
  <2>. QED
    BY <1>3, <1>4, <2>1, ActsFacts DEF Calls, Callers
<1>6. Nested(s) /\ s # <<>> /\ s[Len(s)] = f
  BY <1>2, <1>4, <1>5, PushNested
<1>7. PICK g : g = InvokeFrame
  OBVIOUS
<1>8. g \in Frames /\ g.at = "invoke" /\ Calls(s[Len(s)], g) /\ stack' = Append(s, g)
  <2>1. g \in Frames /\ g.at = "invoke"
    BY <1>7 DEF InvokeFrame, Frame, Frames
  <2>. QED
    BY <1>3, <1>4, <1>6, <1>7, <2>1 DEF Calls, Callers, Polling, Invoking
<1>9. Nested(stack') /\ stack' # <<>> /\ Top' = g
  BY <1>6, <1>8, PushNested DEF Top
<1>10. Grows(Ws, Ws', refs')
  <2>1. PICK m : m = [Ws EXCEPT !.pendingpri = NumPri - 1]
    OBVIOUS
  <2>2. Sound(m, refs) /\ Active(m) = Active(Ws) /\ Pending(m) = Pending(Ws)
    BY <2>1, GrowsSame, FromTopSound DEF Grows, Widens
  <2>3. Ws' = m
    BY <1>3, <2>1, <2>2, SetWsFacts DEF Invoking, Sound
  <2>. QED
    BY <1>3, <2>2, <2>3 DEF Grows, Widens
<1>11. BreakSound' /\ RunQuiet'
  <2>1. Told(loop_done)' = {}
    BY <1>3 DEF Told
  <2>. QED
    BY <1>3, <1>8, <1>9, <2>1 DEF BreakSound, RunQuiet, TopIs
<1>. QED
  BY <1>3, <1>8, <1>9, <1>10, <1>11, GrowsSame, EvStatSame, PlainStep DEF libevent

LEMMA DestroyStep ==
  ASSUME IndInv, Destroy, UNCHANGED <<libevent, evstat>>
  PROVE  IndInv'
<1>1. PICK f : f = Frame("destroy", "", "", Dummy)
  OBVIOUS
<1>2. PICK s : s = <<f>>
  OBVIOUS
<1>3. PICK l : l = FedAll(Ws, Ws.arrays[<<"cleanup", 0>>])
  OBVIOUS
<1>4. /\ stack = <<>> /\ UNCHANGED <<loop_done, postfork, history, program, ops>>
      /\ Invoking(s, l) \/ (stack' = s /\ UNCHANGED watchers)
  BY <1>1, <1>2, <1>3, WsFacts DEF Destroy
<1>5. f \in Frames /\ f.at = "destroy" /\ f.pc = ""
  BY <1>1 DEF Frame, Frames
<1>6. Nested(s) /\ s # <<>> /\ Runs(s) = Runs(stack) /\ s[Len(s)] = f
  <2>1. s = Append(<<>>, f)
    BY <1>2
  <2>. QED
    BY <1>4, <1>5, <2>1, EmptyNested, PushNested
<1>7. CASE Invoking(s, l)
  <2>1. Feeds(Ws, l, refs)
    BY <1>3, GrowsSame, KeysOfLoop, ArrayFed DEF Grows, Widens
  <2>. QED
    BY <1>4, <1>5, <1>6, <1>7, <2>1, EvStatSame, InvokingStep DEF Polling
<1>8. CASE stack' = s /\ UNCHANGED watchers
  <2>1. Ws' = Ws
    BY <1>8, SameWs
  <2>2. Nested(stack') /\ stack' # <<>> /\ Top' = f /\ Runs(stack') = Runs(stack)
    BY <1>6, <1>8 DEF Top
  <2>3. BreakSound' /\ RunQuiet'
    BY <1>4, <1>5, <2>2, BreakKept DEF IndInv, RunQuiet, TopIs, history
  <2>. QED
    BY <1>4, <1>5, <2>1, <2>2, <2>3, GrowsSame, EvStatSame, PlainStep DEF history, libevent
<1>. QED
  BY <1>4, <1>7, <1>8

LEMMA UserStepKeeps ==
  ASSUME IndInv, UserStep, UNCHANGED <<libevent, evstat>>
  PROVE  IndInv'
<1>1. Startable \subseteq Mine
  BY DEF Startable
<1>. QED
  BY <1>1, StartStep, StopStep, FeedStep, ClearPendingStep, RefStep, ForkStep, BreakStep, RunStep, DestroyStep DEF UserStep

-------------------------------------------------------------------------------
(* libevent and ev_once *)

Of(e) == {IoSig[e], To[e]}
OfOnce(o) == {OnceIo[o], OnceTo[o]}

LEMMA DistinctWatchers ==
  /\ \A e \in Events : Of(e) \subseteq Watchers \ Unreferenced /\ FsW \notin Of(e)
  /\ \A o \in Onces : OfOnce(o) \subseteq Watchers \ Unreferenced /\ FsW \notin OfOnce(o)
  /\ \A e, f \in Events : e # f => Of(e) \cap Of(f) = {}
  /\ \A o, n \in Onces : o # n => OfOnce(o) \cap OfOnce(n) = {}
  /\ \A e \in Events, o \in Onces : Of(e) \cap OfOnce(o) = {}
  /\ \A e \in Events : IoSig[e] # To[e]
  /\ \A o \in Onces : OnceIo[o] # OnceTo[o]
<1>1. /\ \A e \in Events : IoSig[e] \in Library \ Unreferenced /\ To[e] \in Library \ Unreferenced
      /\ \A o \in Onces : OnceIo[o] \in Library \ Unreferenced /\ OnceTo[o] \in Library \ Unreferenced
      /\ FsW \in Unreferenced /\ Library \subseteq Watchers
  BY EvLoopAssumption, LibEventAssumption, EvStatAssumption
<1>2. /\ \A e \in Events : Kind[IoSig[e]] # "timer" /\ Kind[To[e]] = "timer"
      /\ \A o \in Onces : Kind[OnceIo[o]] # "timer" /\ Kind[OnceTo[o]] = "timer"
  BY LibEventAssumption
<1>. QED
  BY <1>1, <1>2, LibEventAssumption DEF Of, OfOnce

\* What was deleted, and an ev_once that is free, on the tables
LEMMA GoneFacts ==
  ASSUME IndInv
  PROVE  /\ deleted \subseteq Events /\ once \in [Onces -> {"free", "user", "exit"}]
         /\ \A e \in deleted : Of(e) \cap (Active(Ws) \cup Pending(Ws)) = {}
         /\ \A o \in Onces : once[o] = "free" => OfOnce(o) \cap (Active(Ws) \cup Pending(Ws)) = {}
BY WsFacts DEF IndInv, TypeOK, DeletedIsGone, FreedOnceIsGone, Of, OfOnce, Active, Pending

LEMMA LibraryStep ==
  ASSUME IndInv, NEW m, SetWs(m), Sound(m, refs), FsW \in Active(m) <=> FsW \in Active(Ws),
         UNCHANGED <<postfork, refs, program, evstat>>, ops' \in Nat, StackSound', RunQuiet', BreakSound',
         deleted' \subseteq Events, once' \in [Onces -> {"free", "user", "exit"}],
         \A e \in deleted' : Of(e) \cap (Active(m) \cup Pending(m)) = {},
         \A o \in Onces : once'[o] = "free" => OfOnce(o) \cap (Active(m) \cup Pending(m)) = {}
  PROVE  IndInv'
<1>1. Ws' = m
  BY SetWsFacts DEF Sound
<1>2. \A w \in Watchers : (IsActive(w)' <=> w \in Active(m)) /\ (pending'[w] # 0 <=> w \in Pending(m))
  BY <1>1 DEF Ws, Active, Pending, IsActive
<1>3. DeletedIsGone' /\ FreedOnceIsGone'
  <2>1. /\ \A e \in Events : IoSig[e] \in Watchers /\ To[e] \in Watchers
        /\ \A o \in Onces : OnceIo[o] \in Watchers /\ OnceTo[o] \in Watchers
    BY EvLoopAssumption, LibEventAssumption
  <2>. QED
    BY <1>2, <2>1 DEF DeletedIsGone, FreedOnceIsGone, Of, OfOnce
<1>4. TypeOK'
  <2>1. FsW \in Watchers
    BY EvLoopAssumption, EvStatAssumption
  <2>2. IsActive(FsW)' <=> IsActive(FsW)
    BY SMTT(60), <1>2, <2>1, WsFacts
  <2>. QED
    BY <2>2, EvStatSame DEF IndInv, TypeOK
<1>5. Sound(Ws, refs)'
  <2>1. Sound(Ws', refs')
    BY <1>1
  <2>. QED
    BY <2>1 DEF Sound, QueuesSound, ArraysSound, CountsSound, Alive, Idling, Active
<1>. QED
  BY <1>3, <1>4, <1>5 DEF IndInv

\* A step of one event leaves the others, and the ev_onces, as they are.
LEMMA EventStep ==
  ASSUME IndInv, NEW e \in Events, NEW m, SetWs(m), Sound(m, refs), UNCHANGED <<once, postfork, refs, program, evstat>>,
         Active(m) \subseteq Active(Ws) \cup Of(e), Pending(m) \subseteq Pending(Ws) \cup Of(e),
         Active(Ws) \subseteq Active(m) \cup Of(e),
         deleted' \subseteq deleted \cup {e}, e \in deleted' => Of(e) \cap (Active(m) \cup Pending(m)) = {},
         ops' \in Nat, StackSound', RunQuiet', BreakSound'
  PROVE  IndInv'
<1>1. FsW \in Active(m) <=> FsW \in Active(Ws)
  BY DistinctWatchers
<1>2. \A f \in deleted' : Of(f) \cap (Active(m) \cup Pending(m)) = {}
  <2>1. ASSUME NEW f \in deleted', f # e
        PROVE  Of(f) \cap (Active(m) \cup Pending(m)) = {}
    <3>1. f \in deleted /\ f \in Events
      BY <2>1, GoneFacts
    <3>2. Of(f) \cap Of(e) = {} /\ Of(f) \cap (Active(Ws) \cup Pending(Ws)) = {}
      BY <2>1, <3>1, GoneFacts, DistinctWatchers
    <3>. QED
      BY <3>2
  <2>. QED
    BY <2>1
<1>3. \A o \in Onces : once'[o] = "free" => OfOnce(o) \cap (Active(m) \cup Pending(m)) = {}
  <2>1. ASSUME NEW o \in Onces, once[o] = "free"
        PROVE  OfOnce(o) \cap (Active(m) \cup Pending(m)) = {}
    <3>1. OfOnce(o) \cap Of(e) = {} /\ OfOnce(o) \cap (Active(Ws) \cup Pending(Ws)) = {}
      BY <2>1, GoneFacts, DistinctWatchers
    <3>. QED
      BY <3>1
  <2>. QED
    BY <2>1
<1>. QED
  BY <1>1, <1>2, <1>3, GoneFacts, LibraryStep

LEMMA EventAddStep ==
  ASSUME IndInv, NEW e \in Events, NEW tv \in BOOLEAN, EventAdd(e, tv), UNCHANGED evstat
  PROVE  IndInv'
<1>1. Sound(Ws, refs) /\ refs \in Int /\ IoSig[e] \in Watchers \ Unreferenced /\ To[e] \in Watchers \ Unreferenced
  BY GrowsSame, DistinctWatchers DEF Grows, Widens, Of
<1>2. PICK l, m : l = StartedOnce(Ws, IoSig[e]) /\ m = TimerAgain(l, To[e], tv)
  OBVIOUS
<1>3. Sound(l, refs) /\ Active(l) = Active(Ws) \cup {IoSig[e]} /\ Pending(l) = Pending(Ws)
  BY <1>1, <1>2, StartedOnceSound
<1>4. Sound(m, refs) /\ Active(m) \ {To[e]} = Active(l) \ {To[e]} /\ Pending(m) = Pending(l) \ {To[e]}
  BY <1>1, <1>2, <1>3, TimerAgainSound
<1>5. /\ stack = <<>> \/ InUser
      /\ ops' = ops + 1 /\ SetWs(m) /\ deleted' = deleted \ {e}
      /\ UNCHANGED <<loop_done, postfork, stack, history, program, once>>
  BY <1>2 DEF EventAdd, Acts
<1>6. /\ Active(m) \subseteq Active(Ws) \cup Of(e) /\ Pending(m) \subseteq Pending(Ws) \cup Of(e)
      /\ Active(Ws) \subseteq Active(m) \cup Of(e)
  BY <1>3, <1>4 DEF Of
<1>7. StackSound' /\ RunQuiet' /\ BreakSound'
  BY <1>5, SameStack DEF history
<1>. QED
  BY <1>4, <1>5, <1>6, <1>7, GrowsSame, EventStep DEF history

\* event_del, of an event whose timer's EV_TIMEOUT may stay pending
LEMMA DeletedForgets ==
  ASSUME IndInv, NEW e \in Events, NEW m, m = Deleted(Ws, e)
  PROVE  /\ Sound(m, refs) /\ Active(m) \subseteq Active(Ws) \cup Of(e) /\ Pending(m) \subseteq Pending(Ws) \cup Of(e)
         /\ Active(Ws) \subseteq Active(m) \cup Of(e)
         /\ e \in deleted \cup Forgets(e) => Of(e) \cap (Active(m) \cup Pending(m)) = {}
<1>1. /\ Sound(m, refs) /\ Active(m) = Active(Ws) \ {IoSig[e], To[e]}
      /\ Pending(m) = Pending(Ws) \ ({IoSig[e]} \cup (Active(Ws) \cap {To[e]}))
  BY GrowsSame, DeletedSound DEF Grows, Widens
<1>2. e \in deleted => To[e] \notin Pending(Ws)
  BY GoneFacts DEF Of
<1>3. e \in Forgets(e) => To[e] \notin Pending(Ws) \/ To[e] \in Active(Ws)
  <2>1. To[e] \in Watchers
    BY DistinctWatchers DEF Of
  <2>. QED
    BY <2>1, WsFacts DEF Forgets
<1>. QED
  BY <1>1, <1>2, <1>3 DEF Of

LEMMA EventDelStep ==
  ASSUME IndInv, NEW e \in Events, EventDel(e), UNCHANGED evstat
  PROVE  IndInv'
<1>1. PICK m : m = Deleted(Ws, e)
  OBVIOUS
<1>2. /\ stack = <<>> \/ InUser
      /\ ops' = ops + 1 /\ SetWs(m) /\ deleted' = deleted \cup Forgets(e)
      /\ UNCHANGED <<loop_done, postfork, stack, history, program, once>>
  BY <1>1 DEF EventDel, Acts
<1>3. StackSound' /\ RunQuiet' /\ BreakSound'
  BY <1>2, SameStack DEF history
<1>4. Forgets(e) \subseteq {e}
  BY DEF Forgets
<1>. QED
  BY <1>1, <1>2, <1>3, <1>4, DeletedForgets, GrowsSame, EventStep DEF history

LEMMA EventActiveStep ==
  ASSUME IndInv, NEW e \in Events, NEW w, EventActive(e, w), UNCHANGED evstat
  PROVE  IndInv'
<1>1. PICK m : m = Fed(Ws, w)
  OBVIOUS
<1>2. /\ stack = <<>> \/ InUser
      /\ ops' = ops + 1 /\ SetWs(m) /\ deleted' = deleted \ {e} /\ w \in Of(e)
      /\ UNCHANGED <<loop_done, postfork, stack, history, program, once>>
  BY <1>1 DEF EventActive, Acts, Of
<1>3. w \in Watchers
  BY <1>2, DistinctWatchers
<1>4. Sound(m, refs) /\ Active(m) = Active(Ws) /\ Pending(m) = Pending(Ws) \cup {w}
  BY <1>1, <1>3, GrowsSame, FedSound DEF Grows, Widens
<1>5. StackSound' /\ RunQuiet' /\ BreakSound'
  BY <1>2, SameStack DEF history
<1>. QED
  BY <1>2, <1>4, <1>5, GrowsSame, EventStep DEF history

\* A callback of the library goes on to that of the user.
LEMMA CallGoto ==
  ASSUME IndInv, TopIs("call"), NEW pc \in {"user", "infy_wd"}, stack' = Goto(pc), UNCHANGED <<loop_done, leave>>
  PROVE  /\ Nested(stack') /\ stack' # <<>> /\ Runs(stack') = Runs(stack) /\ Top'.at = "call"
         /\ StackSound' /\ RunQuiet' /\ BreakSound'
<1>1. Nested(stack) /\ Top \in Frames /\ stack # <<>> /\ Top.at = "call"
  BY TopFacts DEF TopIs
<1>2. [Top EXCEPT !.pc = pc] \in Frames /\ [Top EXCEPT !.pc = pc].at = "call"
  BY <1>1 DEF Frames
<1>3. Nested(stack') /\ stack' # <<>> /\ Runs(stack') = Runs(stack) /\ Top' = [Top EXCEPT !.pc = pc]
  BY <1>1, <1>2, TopGoto DEF Top
<1>4. StackSound'
  BY <1>2, <1>3, StackKept
<1>5. RunQuiet' /\ BreakSound'
  BY <1>2, <1>3, BreakKept DEF RunQuiet, TopIs, IndInv
<1>. QED
  BY <1>2, <1>3, <1>4, <1>5

LEMMA EvXCbIoSigStep ==
  ASSUME IndInv, NEW e \in Events, EvXCbIoSig(e), UNCHANGED evstat
  PROVE  IndInv'
<1>1. TopIs("call") /\ stack' = Goto("user") /\ UNCHANGED <<loop_done, postfork, history, program, ops, once>>
  BY DEF EvXCbIoSig, InLibrary, EvXCb
<1>2. StackSound' /\ RunQuiet' /\ BreakSound'
  BY <1>1, CallGoto DEF history
<1>3. CASE SetWs(Deleted(Ws, e)) /\ deleted' = deleted \cup Forgets(e)
  <2>1. PICK m : m = Deleted(Ws, e)
    OBVIOUS
  <2>2. Forgets(e) \subseteq {e}
    BY DEF Forgets
  <2>. QED
    BY <1>1, <1>2, <1>3, <2>1, <2>2, DeletedForgets, GrowsSame, EventStep DEF history
<1>4. CASE UNCHANGED <<watchers, deleted>>
  <2>1. Ws' = Ws /\ fs_fd' = fs_fd /\ infy' = infy
    BY <1>4, SameWs, EvStatSame
  <2>2. fs_fd \in {-2, -1, 1} /\ (fs_fd = 1 <=> FsW \in Active(Ws))
    <3>1. FsW \in Watchers
      BY EvLoopAssumption, EvStatAssumption
    <3>. QED
      BY <3>1, WsFacts DEF IndInv, TypeOK
  <2>. QED
    BY <1>1, <1>2, <1>4, <2>1, <2>2, GrowsSame, GeneralStep DEF history, Grows
<1>. QED
  BY <1>3, <1>4 DEF EvXCbIoSig

LEMMA EvXCbToStep ==
  ASSUME IndInv, NEW e \in Events, EvXCbTo(e), UNCHANGED evstat
  PROVE  IndInv'
<1>1. TopIs("call") /\ stack' = Goto("user") /\ UNCHANGED <<loop_done, postfork, history, program, ops, once>>
  BY DEF EvXCbTo, InLibrary, EvXCb
<1>2. StackSound' /\ RunQuiet' /\ BreakSound'
  BY <1>1, CallGoto DEF history
<1>3. PICK m : m = Deleted(Ws, e)
  OBVIOUS
<1>4. Forgets(e) \subseteq {e} /\ SetWs(m) /\ deleted' = deleted \cup Forgets(e)
  BY <1>3 DEF Forgets, EvXCbTo
<1>. QED
  BY <1>1, <1>2, <1>3, <1>4, DeletedForgets, GrowsSame, EventStep DEF history

\* A step of one ev_once, as EventStep for one event
LEMMA OnceStep ==
  ASSUME IndInv, NEW o \in Onces, NEW m, SetWs(m), Sound(m, refs), UNCHANGED <<deleted, postfork, refs, program, evstat>>,
         Active(m) \subseteq Active(Ws) \cup OfOnce(o), Pending(m) \subseteq Pending(Ws) \cup OfOnce(o),
         Active(Ws) \subseteq Active(m) \cup OfOnce(o),
         NEW state \in {"free", "user", "exit"}, once' = [once EXCEPT ![o] = state],
         state = "free" => OfOnce(o) \cap (Active(m) \cup Pending(m)) = {},
         ops' \in Nat, StackSound', RunQuiet', BreakSound'
  PROVE  IndInv'
<1>1. FsW \in Active(m) <=> FsW \in Active(Ws)
  BY DistinctWatchers
<1>2. \A e \in deleted' : Of(e) \cap (Active(m) \cup Pending(m)) = {}
  <2>1. ASSUME NEW e \in deleted
        PROVE  Of(e) \cap (Active(m) \cup Pending(m)) = {}
    <3>1. OfOnce(o) \cap Of(e) = {} /\ Of(e) \cap (Active(Ws) \cup Pending(Ws)) = {}
      BY <2>1, GoneFacts, DistinctWatchers
    <3>. QED
      BY <3>1
  <2>. QED
    BY <2>1
<1>3. /\ once' \in [Onces -> {"free", "user", "exit"}]
      /\ \A n \in Onces : once'[n] = IF n = o THEN state ELSE once[n]
  BY GoneFacts
<1>4. \A n \in Onces : once'[n] = "free" => OfOnce(n) \cap (Active(m) \cup Pending(m)) = {}
  <2>1. ASSUME NEW n \in Onces, n # o, once[n] = "free"
        PROVE  OfOnce(n) \cap (Active(m) \cup Pending(m)) = {}
    <3>1. OfOnce(n) \cap OfOnce(o) = {} /\ OfOnce(n) \cap (Active(Ws) \cup Pending(Ws)) = {}
      BY <2>1, GoneFacts, DistinctWatchers
    <3>. QED
      BY <3>1
  <2>. QED
    BY <1>3, <2>1
<1>. QED
  BY <1>1, <1>2, <1>3, <1>4, GoneFacts, LibraryStep

LEMMA OnceCallStep ==
  ASSUME IndInv, NEW o \in Onces, NEW cb \in {"user", "exit"}, NEW ws, Once(o, cb, ws), UNCHANGED evstat
  PROVE  IndInv'
<1>. DEFINE io == IF OnceIo[o] \in ws THEN Started(Ws, OnceIo[o]) ELSE Ws
            to == IF OnceTo[o] \in ws THEN Started(io, OnceTo[o]) ELSE io
<1>1. PICK l, m : l = io /\ m = to
  OBVIOUS
<1>2. /\ stack = <<>> \/ InUser
      /\ ops' = ops + 1 /\ SetWs(m) /\ once' = [once EXCEPT ![o] = cb] /\ once[o] = "free"
      /\ UNCHANGED <<loop_done, postfork, stack, history, program, deleted>>
  BY <1>1 DEF Once, Acts
<1>3. /\ Sound(Ws, refs) /\ refs \in Int /\ OnceIo[o] \in Watchers \ Unreferenced /\ OnceTo[o] \in Watchers \ Unreferenced
      /\ OnceIo[o] # OnceTo[o] /\ OnceIo[o] \notin Active(Ws) /\ OnceTo[o] \notin Active(Ws)
  BY <1>2, GrowsSame, DistinctWatchers, GoneFacts DEF Grows, Widens, OfOnce
<1>4. /\ Sound(l, refs) /\ Active(l) \subseteq Active(Ws) \cup {OnceIo[o]} /\ Pending(l) = Pending(Ws)
      /\ Active(Ws) \subseteq Active(l)
  BY <1>1, <1>3, StartedPlain
<1>5. /\ Sound(m, refs) /\ Active(m) \subseteq Active(l) \cup {OnceTo[o]} /\ Pending(m) = Pending(l)
      /\ Active(l) \subseteq Active(m)
  BY <1>1, <1>3, <1>4, StartedPlain
<1>6. StackSound' /\ RunQuiet' /\ BreakSound'
  BY <1>2, SameStack DEF history
<1>7. /\ Active(m) \subseteq Active(Ws) \cup OfOnce(o) /\ Pending(m) \subseteq Pending(Ws) \cup OfOnce(o)
      /\ Active(Ws) \subseteq Active(m) \cup OfOnce(o)
  BY <1>4, <1>5 DEF OfOnce
<1>. HIDE DEF io, to
<1>8. cb \in {"free", "user", "exit"} /\ cb # "free" /\ ops' \in Nat /\ refs' = refs
  BY <1>2, GrowsSame DEF history
<1>. QED
  BY <1>2, <1>5, <1>6, <1>7, <1>8, OnceStep

\* once_cb frees the ev_once before its callback; that of event_base_loopexit
\* breaks the innermost ev_run.
LEMMA OnceCbStep ==
  ASSUME IndInv, NEW o \in Onces, NEW w, OnceCb(o, w), UNCHANGED evstat
  PROVE  IndInv'
<1>1. PICK m : m = OnceStopped(Ws, o, w)
  OBVIOUS
<1>2. /\ TopIs("call") /\ SetWs(m) /\ once' = [once EXCEPT ![o] = "free"]
      /\ UNCHANGED <<postfork, refs, program, ops, deleted>>
      /\ \/ loop_done' = "one" /\ leave' = Told("one") /\ stack' = Return
         \/ stack' = Goto("user") /\ UNCHANGED <<loop_done, leave>>
  BY <1>1 DEF OnceCb, InLibrary, EvXCb
<1>3. /\ Sound(m, refs) /\ Active(m) = Active(Ws) \ OfOnce(o) /\ Pending(m) = Pending(Ws) \ OfOnce(o)
  BY <1>1, GrowsSame, OnceStoppedSound DEF Grows, Widens, OfOnce
<1>4. StackSound' /\ RunQuiet' /\ BreakSound'
  <2>1. CASE loop_done' = "one" /\ leave' = Told("one") /\ stack' = Return
    <3>1. stack # <<>> /\ Top.at = "call"
      BY <1>2 DEF TopIs
    <3>2. /\ Nested(stack') /\ Runs(stack') = Runs(stack) \ {Depth}
          /\ stack' # <<>> /\ Calls(Top', Top)
      BY <2>1, <3>1, TopFacts DEF Top
    <3>3. Top'.at = "invoke"
      BY <3>1, <3>2 DEF Calls, Callers
    <3>4. RunDepths' = RunDepths
      BY <3>1, <3>2 DEF Runs, RunDepths, Top, Depth
    <3>5. Told(loop_done)' = Told("one")
      BY <2>1, <3>4 DEF Told
    <3>6. StackSound'
      BY <3>2, <3>3, StackKept
    <3>. QED
      BY <2>1, <3>3, <3>5, <3>6 DEF RunQuiet, BreakSound, TopIs
  <2>2. CASE stack' = Goto("user") /\ UNCHANGED <<loop_done, leave>>
    BY <1>2, <2>2, CallGoto
  <2>. QED
    BY <1>2, <2>1, <2>2
<1>. QED
  BY <1>2, <1>3, <1>4, GrowsSame, OnceStep

LEMMA LibEventKeeps ==
  ASSUME IndInv, LibEventCallbacks \/ LibEventCalls, UNCHANGED evstat
  PROVE  IndInv'
<1>1. CASE LibEventCallbacks
  BY <1>1, EvXCbIoSigStep, EvXCbToStep, OnceCbStep DEF LibEventCallbacks
<1>2. CASE LibEventCalls
  <2>1. MyEvents \subseteq Events /\ MyOnces \subseteq Onces
    BY DEF MyEvents, MyOnces
  <2>2. ASSUME NEW o \in Onces, EventBaseOnce(o) \/ EventBaseLoopexit(o)
        PROVE  IndInv'
    BY <2>2, OnceCallStep DEF EventBaseOnce, EventBaseLoopexit
  <2>. QED
    BY <1>2, <2>1, <2>2, EventAddStep, EventDelStep, EventActiveStep DEF LibEventCalls
<1>. QED
  BY <1>1, <1>2

-------------------------------------------------------------------------------
(* ev_stat *)

LEMMA StatWatchers ==
  ASSUME NEW s \in Stats
  PROVE  /\ s \in Watchers \ Unreferenced /\ s \in Own /\ s # FsW /\ s \notin Library
         /\ TimerOf[s] \in Own /\ TimerOf[s] \in Unreferenced /\ TimerOf[s] # FsW
BY EvLoopAssumption, EvStatAssumption DEF Own

\* What ev_timer_again does to the timer of an ev_stat is of no event.
LEMMA ReadiesGrows ==
  ASSUME NEW l, NEW m, NEW n, Readies(l, m, n)
  PROVE  Grows(l, m, n)
BY DEF Readies, Grows, Widens, Own, Active

LEMMA FedGrows ==
  ASSUME NEW n \in Int, Sound(Ws, n), NEW w \in Own, SetWs(Fed(Ws, w))
  PROVE  Grows(Ws, Ws', n)
<1>1. w \in Watchers
  BY DEF Own
<1>2. PICK m : m = Fed(Ws, w)
  OBVIOUS
<1>3. Sound(m, n) /\ Active(m) = Active(Ws) /\ Pending(m) = Pending(Ws) \cup {w}
  BY <1>1, <1>2, FedSound
<1>4. Ws' = m
  BY <1>2, <1>3, SetWsFacts DEF Sound
<1>. QED
  BY <1>3, <1>4 DEF Grows, Widens

\* The end of ev_stat_start, stat_timer_cb or infy_wd
LEMMA StatReturns ==
  ASSUME IndInv, TopIs("stat"), stack' = Return, Grows(Ws, Ws', refs),
         UNCHANGED <<loop_done, postfork, history, program, ops, libevent, fs_fd>>, infy' = infy
  PROVE  IndInv'
<1>1. stack # <<>> /\ Top.at = "stat"
  BY DEF TopIs
<1>2. /\ Nested(stack') /\ Runs(stack') = Runs(stack) \ {Depth}
      /\ stack' # <<>> => Calls(Top', Top)
  BY <1>1, TopFacts DEF Top
<1>3. Runs(stack') = Runs(stack)
  BY <1>1, <1>2 DEF Runs, Top, Depth
<1>4. stack' # <<>> => Top'.at \in {"call", "invoke"}
  BY <1>1, <1>2 DEF Calls, Callers
<1>5. BreakSound' /\ RunQuiet'
  BY <1>3, <1>4, BreakKept DEF IndInv, RunQuiet, TopIs, history
<1>. QED
  BY <1>2, <1>4, <1>5, GrowsSame, PlainStep DEF history, libevent

\* stat_timer_cb or infy_wd goes on.
LEMMA StatGoto ==
  ASSUME IndInv, TopIs("stat"), Top.flags # "start", NEW pc \in {"stat", "again", "add"}, stack' = Goto(pc),
         Grows(Ws, Ws', refs), UNCHANGED <<loop_done, postfork, history, program, ops, libevent, fs_fd>>, infy' = infy
  PROVE  IndInv'
<1>1. Nested(stack) /\ Top \in Frames /\ stack # <<>> /\ Top.at = "stat"
  BY TopFacts DEF TopIs
<1>2. PICK f : f = [Top EXCEPT !.pc = pc]
  OBVIOUS
<1>3. f \in Frames /\ f.at = "stat" /\ f.flags # "start"
  BY <1>1, <1>2 DEF Frames
<1>4. Nested(stack') /\ stack' # <<>> /\ Runs(stack') = Runs(stack) /\ Top' = f
  BY <1>1, <1>2, <1>3, TopGoto DEF Top
<1>5. BreakSound' /\ RunQuiet'
  BY <1>3, <1>4, BreakKept DEF IndInv, RunQuiet, TopIs, history
<1>. QED
  BY <1>3, <1>4, <1>5, GrowsSame, PlainStep DEF history, libevent

\* infy_wd or stat_timer_cb begins, in the callback of inotify's watcher or in
\* place of what was on the top of the stack.
LEMMA StatBegins ==
  ASSUME IndInv, NEW t, Nested(t), t # <<>> => t[Len(t)].at \in {"call", "invoke"}, Runs(t) = Runs(stack),
         NEW f, f \in Frames, f.at = "stat", f.flags # "start", stack' = Append(t, f),
         Grows(Ws, Ws', refs), UNCHANGED <<loop_done, postfork, history, program, ops, libevent, fs_fd>>, infy'.visit \subseteq Stats
  PROVE  IndInv'
<1>1. t # <<>> => Calls(t[Len(t)], f)
  BY DEF Calls, Callers
<1>2. Nested(stack') /\ stack' # <<>> /\ Top' = f /\ Runs(stack') = Runs(stack)
  BY <1>1, PushNested DEF Top
<1>3. BreakSound' /\ RunQuiet'
  BY <1>2, BreakKept DEF IndInv, RunQuiet, TopIs, history
<1>. QED
  BY <1>2, <1>3, GrowsSame, PlainStep DEF history, libevent

LEMMA StatInstead ==
  ASSUME IndInv, stack # <<>>, Top.at \in {"call", "stat"}, NEW s \in Stats, NEW pc \in {"stat", "add"},
         stack' = Append(Return, StatFrame(s, pc, "cb")),
         Grows(Ws, Ws', refs), UNCHANGED <<loop_done, postfork, history, program, ops, libevent, fs_fd>>, infy' = infy
  PROVE  IndInv'
<1>1. PICK t, f : t = Return /\ f = StatFrame(s, pc, "cb")
  OBVIOUS
<1>2. f \in Frames /\ f.at = "stat" /\ f.flags # "start"
  BY <1>1 DEF StatFrame, Frame, Frames
<1>3. Nested(t) /\ Runs(t) = Runs(stack) \ {Depth} /\ (t # <<>> => Calls(t[Len(t)], Top))
  BY <1>1, TopFacts
<1>4. Runs(t) = Runs(stack)
  BY <1>3 DEF Runs, Top, Depth
<1>5. t # <<>> => t[Len(t)].at \in {"call", "invoke"}
  BY <1>3 DEF Calls, Callers
<1>. QED
  BY <1>1, <1>2, <1>3, <1>4, <1>5, GrowsSame, StatBegins

\* What is read of inotify, and what the file and the kernel do, is nothing to the loop.
LEMMA LoopSame ==
  ASSUME IndInv, UNCHANGED <<loopvars, libevent, fs_fd>>, infy'.visit \subseteq Stats
  PROVE  IndInv'
<1>1. /\ UNCHANGED <<watchers, loop_done, postfork, stack, history, program, ops>>
      /\ UNCHANGED <<refs, leave, active, pending, refused, once, deleted>>
  BY DEF loopvars, history, libevent, watchers
<1>2. Ws' = Ws
  BY <1>1, SameWs
<1>3. TypeOK'
  BY <1>1 DEF IndInv, TypeOK, IsActive
<1>4. Sound(Ws, refs)'
  BY <1>1, <1>2 DEF IndInv, Sound, QueuesSound, ArraysSound, CountsSound, Alive, Idling, Active
<1>5. StackSound' /\ RunQuiet'
  BY <1>1 DEF IndInv, StackSound, Nested, IsActive, RunQuiet, TopIs, Top
<1>6. BreakSound'
  BY <1>1 DEF IndInv, BreakSound, Told, RunDepths, TopIs, Top
<1>7. DeletedIsGone' /\ FreedOnceIsGone'
  BY <1>1 DEF IndInv, DeletedIsGone, FreedOnceIsGone, IsActive
<1>. QED
  BY <1>3, <1>4, <1>5, <1>6, <1>7 DEF IndInv

LEMMA StatTop ==
  ASSUME IndInv, TopIs("stat")
  PROVE  /\ stack # <<>> /\ Top.at = "stat" /\ Top.w \in Stats /\ Top.flags \in {"start", "cb", "wd"}
         /\ Top.flags = "start" => ~IsActive(Top.w)
<1>1. stack # <<>> /\ Top.at = "stat" /\ Top \in Frames /\ Depth \in Nat \ {0}
  BY TopFacts DEF TopIs
<1>2. Top.w \in Stats /\ Top.flags \in {"start", "cb", "wd"}
  BY <1>1 DEF Frames
<1>3. Depth \in 1 .. Len(stack)
  BY <1>1 DEF Depth
<1>. QED
  BY <1>1, <1>2, <1>3 DEF IndInv, StackSound, Top, Depth

LEMMA StatTimerCbStep ==
  ASSUME IndInv, StatTimerCb, UNCHANGED libevent
  PROVE  IndInv'
<1>1. TopIs("stat") /\ UNCHANGED <<loop_done, postfork, history, program, ops>> /\ infy' = infy
  BY DEF StatTimerCb, InStat
<1>2. PICK s \in Stats : s = Top.w
  BY <1>1, StatTop
<1>3. CASE stack' = Return /\ UNCHANGED <<watchers, inotify>>
  <2>1. Ws' = Ws /\ fs_fd' = fs_fd
    BY <1>3, SameWs DEF inotify
  <2>. QED
    BY <1>1, <1>3, <2>1, GrowsSame, StatReturns
<1>4. CASE stack' = Append(Return, StatFrame(s, "add", "cb")) /\ UNCHANGED <<watchers, fs_fd>>
  <2>1. Ws' = Ws
    BY <1>4, SameWs
  <2>2. stack # <<>> /\ Top.at = "stat"
    BY <1>1 DEF TopIs
  <2>. QED
    BY <1>1, <1>4, <2>1, <2>2, GrowsSame, StatInstead
<1>5. CASE SetWs(Fed(Ws, s)) /\ stack' = Return /\ UNCHANGED inotify
  <2>1. fs_fd' = fs_fd
    BY <1>5 DEF inotify
  <2>2. Grows(Ws, Ws', refs)
    BY <1>5, GrowsSame, StatWatchers, FedGrows DEF Grows, Widens
  <2>. QED
    BY <1>1, <1>5, <2>1, <2>2, StatReturns
<1>. QED
  BY <1>2, <1>3, <1>4, <1>5 DEF StatTimerCb

LEMMA StatAgainStep ==
  ASSUME IndInv, StatAgain, UNCHANGED libevent
  PROVE  IndInv'
<1>1. /\ TopIs("stat") /\ stack' = Return /\ SetWs(Fed(Ws, Top.w))
      /\ UNCHANGED <<loop_done, postfork, history, program, ops, fs_fd>> /\ infy' = infy
  BY DEF StatAgain, InStat, inotify
<1>2. Top.w \in Own
  BY <1>1, StatTop, StatWatchers
<1>3. Grows(Ws, Ws', refs)
  BY <1>1, <1>2, GrowsSame, FedGrows DEF Grows, Widens
<1>. QED
  BY <1>1, <1>3, StatReturns

LEMMA InfyAddStep ==
  ASSUME IndInv, InfyAdd, UNCHANGED libevent
  PROVE  IndInv'
<1>1. PICK s, l, repeat : s = Top.w /\ repeat = Polls(fs_fd) /\ l = Rearmed(Ws, s, repeat)
  OBVIOUS
<1>2. /\ TopIs("stat") /\ UNCHANGED <<loop_done, postfork, history, program, ops, fs_fd>> /\ infy' = infy
      /\ SetWs(IF Top.flags = "start" THEN Started(l, s) ELSE l)
      /\ stack' = CASE Top.flags = "start" -> Return [] Top.flags = "cb" -> Goto("again") [] Top.flags = "wd" -> Goto("stat")
  BY <1>1 DEF InfyAdd, InStat
<1>3. s \in Stats /\ Top.flags \in {"start", "cb", "wd"} /\ (Top.flags = "start" => ~IsActive(s))
  BY <1>1, <1>2, StatTop
<1>4. repeat \in BOOLEAN
  BY <1>1 DEF Polls
<1>5. Sound(Ws, refs) /\ refs \in Int
  BY GrowsSame DEF Grows, Widens
<1>6. Readies(Ws, l, refs)
  BY <1>1, <1>3, <1>4, <1>5, RearmedReadies
<1>7. s \in Watchers \ Unreferenced /\ s \in Own /\ s # FsW
  BY <1>3, StatWatchers
<1>8. CASE Top.flags = "start"
  <2>1. s \notin Active(l)
    BY <1>3, <1>6, <1>7, <1>8, WsFacts DEF Readies
  <2>2. PICK m : m = Started(l, s)
    OBVIOUS
  <2>3. Sound(m, refs) /\ Active(m) = Active(l) \cup {s} /\ Pending(m) = Pending(l)
    BY <1>5, <1>6, <1>7, <2>1, <2>2, StartedPlain DEF Readies
  <2>4. Grows(Ws, l, refs)
    BY <1>6, ReadiesGrows
  <2>5. Grows(Ws, m, refs)
    BY <1>7, <2>3, <2>4 DEF Grows, Widens
  <2>6. Ws' = m
    BY <1>2, <1>8, <2>2, <2>3, SetWsFacts DEF Sound
  <2>7. stack' = Return
    BY <1>2, <1>8
  <2>. QED
    BY <1>2, <2>5, <2>6, <2>7, StatReturns
<1>9. CASE Top.flags # "start"
  <2>1. Ws' = l
    BY <1>2, <1>6, <1>9, SetWsFacts DEF Readies, Sound
  <2>2. Grows(Ws, Ws', refs)
    BY <1>6, <2>1, ReadiesGrows
  <2>3. stack' = Goto("again") \/ stack' = Goto("stat")
    BY <1>2, <1>3, <1>9
  <2>. QED
    BY <1>2, <1>9, <2>2, <2>3, StatGoto
<1>. QED
  BY <1>8, <1>9

LEMMA InfyCbStep ==
  ASSUME IndInv, InfyCb, UNCHANGED libevent
  PROVE  IndInv'
<1>1. /\ TopIs("call") /\ stack' = Goto("infy_wd") /\ infy'.visit = {}
      /\ UNCHANGED <<watchers, loop_done, postfork, history, program, ops, fs_fd>>
  BY DEF InfyCb, InInfy, NoInfy
<1>2. /\ Nested(stack') /\ stack' # <<>> /\ Top'.at = "call"
      /\ RunQuiet' /\ BreakSound'
  BY <1>1, CallGoto DEF history
<1>3. Ws' = Ws
  BY <1>1, SameWs
<1>. QED
  BY <1>1, <1>2, <1>3, GrowsSame, PlainStep DEF history, libevent

LEMMA NextEventStep ==
  ASSUME IndInv, NextEvent, UNCHANGED libevent
  PROVE  IndInv'
<1>1. UNCHANGED <<loopvars, fs_fd>> /\ infy'.visit \subseteq Stats
  BY DEF NextEvent, inotify
<1>. QED
  BY <1>1, LoopSame

LEMMA InfyWdStep ==
  ASSUME IndInv, InfyWd, UNCHANGED libevent
  PROVE  IndInv'
<1>1. PICK s, f : s = (CHOOSE v \in infy.visit : TRUE) /\ f = StatFrame(s, ReAdded(infy.gone), "wd")
  OBVIOUS
<1>2. /\ TopIs("call") /\ infy.visit # {} /\ infy'.visit = infy.visit \ {s} /\ stack' = Append(stack, f)
      /\ UNCHANGED <<watchers, loop_done, postfork, history, program, ops, fs_fd>>
  BY <1>1 DEF InfyWd, InInfy
<1>3. s \in Stats /\ infy'.visit \subseteq Stats
  BY <1>1, <1>2, GrowsSame
<1>4. f \in Frames /\ f.at = "stat" /\ f.flags # "start"
  BY <1>1, <1>3 DEF StatFrame, Frame, Frames, ReAdded
<1>5. Nested(stack) /\ stack[Len(stack)].at \in {"call", "invoke"}
  BY <1>2, TopFacts DEF TopIs, Top
<1>6. Ws' = Ws
  BY <1>2, SameWs
<1>. QED
  BY <1>2, <1>3, <1>4, <1>5, <1>6, GrowsSame, StatBegins

LEMMA InfyCbReturnsStep ==
  ASSUME IndInv, InfyCbReturns, UNCHANGED libevent
  PROVE  IndInv'
<1>1. /\ stack # <<>> /\ Top.at = "call" /\ stack' = Return
      /\ UNCHANGED <<watchers, loop_done, postfork, history, program, ops, evstat>>
  BY DEF InfyCbReturns, InInfy, TopIs
<1>2. Ws' = Ws
  BY <1>1, SameWs
<1>. QED
  BY <1>1, <1>2, GrowsSame, EvStatSame, ReturnStep

LEMMA StatTimerDueStep ==
  ASSUME IndInv, NEW s \in Stats, StatTimerDue(s), UNCHANGED libevent
  PROVE  IndInv'
<1>1. /\ stack # <<>> /\ Top.at = "call" /\ stack' = Append(Return, StatFrame(s, "stat", "cb"))
      /\ UNCHANGED <<watchers, loop_done, postfork, history, program, ops, evstat>>
  BY DEF StatTimerDue, TopIs
<1>2. Ws' = Ws
  BY <1>1, SameWs
<1>. QED
  BY <1>1, <1>2, GrowsSame, EvStatSame, StatInstead

LEMMA EvStatStartStep ==
  ASSUME IndInv, NEW s \in Stats, EvStatStart(s), UNCHANGED libevent
  PROVE  IndInv'
<1>1. PICK f : f = StatFrame(s, "add", "start")
  OBVIOUS
<1>2. /\ stack = <<>> \/ InUser
      /\ ~IsActive(s) /\ InfyInit /\ stack' = Append(stack, f) /\ ops' = ops + 1 /\ infy' = infy
      /\ UNCHANGED <<loop_done, postfork, history, program>>
  BY <1>1 DEF EvStatStart, Acts
<1>3. f \in Frames /\ f.at = "stat" /\ f.w = s
  BY <1>1 DEF StatFrame, Frame, Frames
<1>4. Sound(Ws, refs) /\ refs \in Int /\ fs_fd \in {-2, -1, 1} /\ (fs_fd = 1 <=> IsActive(FsW))
  BY DEF IndInv, TypeOK
<1>5. /\ Sound(Ws', refs) /\ Pending(Ws') = Pending(Ws)
      /\ Active(Ws') \ Unreferenced = Active(Ws) \ Unreferenced
      /\ fs_fd' \in {-2, -1, 1} /\ (fs_fd' = 1 <=> FsW \in Active(Ws'))
  BY <1>2, <1>4, InfyInitReadies
<1>6. Widens(Ws, Ws', refs)
  BY <1>5 DEF Widens, Own, Active
<1>7. Nested(stack) /\ (stack # <<>> => Calls(stack[Len(stack)], f))
  <2>1. stack # <<>> => stack[Len(stack)].at = "call"
    BY <1>2 DEF InUser, TopIs, Top
  <2>. QED
    BY <1>2, <1>3, <2>1, ActsFacts DEF Calls, Callers
<1>8. /\ Nested(stack') /\ stack' # <<>> /\ Top' = f /\ Runs(stack') = Runs(stack) /\ Len(stack') = Len(stack) + 1
      /\ \A i \in 1 .. Len(stack) : stack'[i] = stack[i]
  BY <1>2, <1>3, <1>7, PushNested DEF Top
<1>9. BreakSound' /\ RunQuiet'
  BY <1>2, <1>3, <1>8, BreakKept DEF IndInv, RunQuiet, TopIs, history
<1>10. StackSound'
  <2>1. ASSUME NEW v \in Stats, ~IsActive(v)
        PROVE  ~IsActive(v)'
    <3>1. v \in Watchers \ Unreferenced /\ v \notin Active(Ws)
      BY <2>1, StatWatchers, WsFacts
    <3>2. v \notin Active(Ws)'
      BY <1>5, <3>1
    <3>. QED
      BY <3>1, <3>2 DEF Active, Ws, IsActive
  <2>2. stack \in Seq(Frames) /\ Len(stack) \in Nat /\ stack'[Len(stack')] = f
    BY <1>7, <1>8 DEF Nested, Top
  <2>3. ASSUME NEW i \in 1 .. Len(stack'), stack'[i].at = "stat", stack'[i].flags = "start"
        PROVE  active'[stack'[i].w] = 0
    <3>1. CASE i \in 1 .. Len(stack)
      <4>1. stack'[i] = stack[i] /\ stack[i] \in Frames
        BY <1>8, <2>2, <3>1
      <4>2. ~IsActive(stack[i].w)
        BY <2>3, <3>1, <4>1 DEF IndInv, StackSound
      <4>3. stack[i].w \in Stats
        BY <2>3, <4>1 DEF Frames
      <4>4. PICK v \in Stats : v = stack[i].w
        BY <4>3
      <4>5. ~IsActive(v)'
        BY <2>1, <4>2, <4>4
      <4>6. stack'[i].w = v
        BY <4>1, <4>4
      <4>. QED
        BY <4>5, <4>6 DEF IsActive
    <3>2. CASE i = Len(stack')
      <4>1. ~IsActive(s)' /\ stack'[i].w = s
        BY <1>2, <1>3, <2>1, <2>2, <3>2
      <4>. QED
        BY <4>1 DEF IsActive
    <3>. QED
      BY <1>8, <2>2, <3>1, <3>2
  <2>. QED
    BY <1>8, <2>3 DEF StackSound, IsActive
<1>. QED
  BY <1>2, <1>5, <1>6, <1>9, <1>10, GrowsSame, GeneralStep DEF history, libevent

LEMMA EvStatStopStep ==
  ASSUME IndInv, NEW s \in Stats, EvStatStop(s), UNCHANGED libevent
  PROVE  IndInv'
<1>1. PICK l, m : l = Rearmed(Ws, s, FALSE) /\ m = Stopped(l, s)
  OBVIOUS
<1>2. /\ stack = <<>> \/ InUser
      /\ SetWs(m) /\ ops' = ops + 1 /\ infy' = infy
      /\ UNCHANGED <<loop_done, postfork, stack, history, program, fs_fd>>
  BY <1>1 DEF EvStatStop, Acts
<1>3. Sound(Ws, refs) /\ refs \in Int
  BY GrowsSame DEF Grows, Widens
<1>4. Readies(Ws, l, refs)
  BY <1>1, <1>3, RearmedReadies
<1>5. s \in Watchers \ Unreferenced /\ s \in Own /\ s # FsW
  BY StatWatchers
<1>6. Sound(m, refs) /\ Active(m) = Active(l) \ {s} /\ Pending(m) = Pending(l) \ {s}
  BY <1>1, <1>3, <1>4, <1>5, StoppedPlain DEF Readies
<1>7. Ws' = m
  BY <1>2, <1>6, SetWsFacts DEF Sound
<1>8. Grows(Ws, m, refs)
  <2>1. Grows(Ws, l, refs)
    BY <1>4, ReadiesGrows
  <2>. QED
    BY <1>5, <1>6, <2>1 DEF Grows, Widens
<1>. QED
  BY <1>2, <1>7, <1>8, SameStack, GrowsSame, PlainStep DEF history, libevent

LEMMA EvStatKeeps ==
  ASSUME IndInv, EvStatCallbacks \/ EvStatCalls, UNCHANGED libevent
  PROVE  IndInv'
<1>1. CASE EvStatCallbacks
  BY <1>1, StatTimerCbStep, StatAgainStep, InfyAddStep, InfyCbStep, NextEventStep, InfyWdStep, InfyCbReturnsStep, StatTimerDueStep
     DEF EvStatCallbacks
<1>2. CASE EvStatCalls
  BY <1>2, EvStatStartStep, EvStatStopStep DEF EvStatCalls
<1>. QED
  BY <1>1, <1>2

LEMMA FileChangesStep ==
  ASSUME IndInv, FileChanges, UNCHANGED <<loopvars, libevent>>
  PROVE  IndInv'
<1>1. fs_fd' = fs_fd /\ infy' = infy
  BY DEF FileChanges
<1>. QED
  BY <1>1, GrowsSame, LoopSame

-------------------------------------------------------------------------------
(* The theorems *)

LEMMA InitHolds == Init => IndInv
<1>. SUFFICES ASSUME Init PROVE IndInv
  OBVIOUS
<1>1. PICK l : l = WatchersOn(program.on)
  OBVIOUS
<1>2. program \in Programs
  BY DEF Init, LoopInit
<1>3. program.on \subseteq Watchers \ Library
  BY <1>2, EvLoopAssumption
<1>4. Sound(l, 0) /\ Active(l) = program.on /\ Pending(l) = {}
  BY <1>1, <1>3, EvLoopAssumption, WatchersOnSound
<1>5. Ws = l
  <2>1. /\ pendings = l.pendings /\ pending = l.pending /\ pendingpri = l.pendingpri
        /\ refused = l.refused /\ silenced = l.silenced
        /\ arrays = l.arrays /\ active = l.active /\ activecnt = l.activecnt /\ idleall = l.idleall
    BY <1>1 DEF Init, LoopInit
  <2>2. l \in Tables
    BY <1>4 DEF Sound
  <2>. QED
    BY <2>1, <2>2 DEF Ws, Tables
<1>6. \A w \in Library : ~IsActive(w) /\ pending[w] = 0
  <2>1. \A w \in Library : w \in Watchers /\ w \notin Active(Ws) /\ w \notin Pending(Ws)
    BY <1>3, <1>4, <1>5, EvLoopAssumption
  <2>. QED
    BY <2>1, WsFacts
<1>7. /\ loop_done = "cancel" /\ postfork = FALSE /\ stack = <<>> /\ refs = 0 /\ leave = {} /\ ops = 0
      /\ once = [o \in Onces |-> "free"] /\ deleted = {} /\ fs_fd = -2 /\ infy.visit = {}
  BY DEF Init, LoopInit, LibEventInit, EvStatInit, NoInfy
<1>8. TypeOK
  <2>1. FsW \in Library
    BY EvLoopAssumption, EvStatAssumption
  <2>2. postfork \in BOOLEAN
    BY <1>7
  <2>3. once \in [Onces -> {"free", "user", "exit"}]
    BY <1>7
  <2>. QED
    BY <1>2, <1>6, <1>7, <2>1, <2>2, <2>3 DEF TypeOK
<1>9. StackSound /\ RunQuiet
  BY <1>7, EmptyNested DEF StackSound, RunQuiet, TopIs
<1>10. BreakSound
  BY <1>7 DEF BreakSound, Told, TopIs
<1>11. DeletedIsGone /\ FreedOnceIsGone
  <2>1. \A o \in Onces : OnceIo[o] \in Library /\ OnceTo[o] \in Library
    BY LibEventAssumption
  <2>. QED
    BY <1>6, <1>7, <2>1 DEF DeletedIsGone, FreedOnceIsGone
<1>. QED
  BY <1>4, <1>5, <1>7, <1>8, <1>9, <1>10, <1>11 DEF IndInv

LEMMA StepKeeps == IndInv /\ [Next]_vars => IndInv'
<1>. SUFFICES ASSUME IndInv, [Next]_vars PROVE IndInv'
  OBVIOUS
<1>1. CASE LoopStep /\ UNCHANGED <<libevent, evstat>>
  BY <1>1, LoopStepKeeps
<1>2. CASE (\E happened \in SUBSET MayHappen : Happens(happened) /\ Poll(happened)) /\ UNCHANGED <<libevent, evstat>>
  BY <1>2, PollStep
<1>3. CASE UserStep /\ UNCHANGED <<libevent, evstat>>
  BY <1>3, UserStepKeeps
<1>4. CASE LoopFork /\ InfyFork /\ UNCHANGED libevent
  BY <1>4, LoopForkStep
<1>5. CASE (LibEventCallbacks \/ LibEventCalls) /\ UNCHANGED evstat
  BY <1>5, LibEventKeeps
<1>6. CASE (EvStatCallbacks \/ EvStatCalls) /\ UNCHANGED libevent
  BY <1>6, EvStatKeeps
<1>7. CASE FileChanges /\ UNCHANGED <<loopvars, libevent>>
  BY <1>7, FileChangesStep
<1>8. CASE UNCHANGED vars
  <2>1. UNCHANGED <<loopvars, libevent, fs_fd, infy>>
    BY <1>8 DEF vars, evstat, inotify
  <2>. QED
    BY <2>1, GrowsSame, LoopSame
<1>. QED
  BY <1>1, <1>2, <1>3, <1>4, <1>5, <1>6, <1>7, <1>8 DEF Next

\* The queues, the arrays, the counts and the stack of calls stay sound through
\* every callback and every call.
THEOREM Invariance == Spec => []IndInv
BY InitHolds, StepKeeps, PTL DEF Spec

\* The tables are what ev_verify asserts, and activecnt and idleall are the counts.
THEOREM TablesAreSound == Spec => []LoopSound
<1>1. IndInv => LoopSound
  <2>. SUFFICES ASSUME IndInv PROVE LoopSound
    OBVIOUS
  <2>1. Sound(Ws, refs)
    BY DEF IndInv
  <2>2. Ws.pendings \in [Pris -> Seq(Watchers \cup {Dummy})] /\ Ws.arrays \in [Keys -> Seq(Watchers)]
    BY <2>1 DEF Sound, Tables
  <2>3. /\ \A k \in Keys : DOMAIN arrays[k] = 1 .. Len(arrays[k])
        /\ \A p \in Pris : DOMAIN pendings[p] = 1 .. Len(pendings[p])
    BY <2>2 DEF Ws
  <2>4. \A k \in Keys : \A i \in DOMAIN arrays[k] : Key(arrays[k][i]) = k /\ active[arrays[k][i]] = i
    BY <2>1, <2>3, WsFacts DEF Sound, ArraysSound
  <2>5. \A w \in Watchers : IsActive(w) /\ Kind[w] \in Arrays => \E i \in DOMAIN arrays[Key(w)] : arrays[Key(w)][i] = w
    BY <2>1, <2>3, KeyFacts, WsFacts DEF Sound, ArraysSound, IsActive
  <2>6. \A w \in Watchers : pending[w] # 0 => pending[w] <= Len(pendings[Pri[w]]) /\ pendings[Pri[w]][pending[w]] = w
    BY <2>1, WsFacts DEF Sound, QueuesSound
  <2>7. \A p \in Pris : \A i \in DOMAIN pendings[p] : pendings[p][i] # Dummy => pending[pendings[p][i]] = i
    BY <2>1, <2>3, WsFacts DEF Sound, QueuesSound
  <2>8. Alive(Ws) = {w \in Watchers \ Unreferenced : IsActive(w) /\ KeepsAlive(w)}
    BY DEF Alive, Active, Ws, IsActive
  <2>9. Idling(Ws) = {w \in Watchers : IsActive(w) /\ Kind[w] = "idle"}
    BY DEF Idling, Active, Ws, IsActive
  <2>. QED
    BY <2>1, <2>4, <2>5, <2>6, <2>7, <2>8, <2>9, WsFacts DEF LoopSound, Sound, CountsSound
<1>. QED
  BY <1>1, Invariance, PTL

\* ev_run does not wait while a callback is due or an idle watcher is active.
THEOREM WaitsOnlyWhenQuiet == Spec => []WaitsWhenQuiet
<1>1. IndInv => WaitsWhenQuiet
  <2>. SUFFICES ASSUME IndInv, InRun("poll"), Blocks, NEW w \in Watchers
                PROVE  (pending[w] = 0 \/ w \in refused) /\ (Kind[w] = "idle" => ~IsActive(w))
    BY DEF WaitsWhenQuiet
  <2>1. pending[w] = 0 \/ w \in refused
    BY DEF IndInv, RunQuiet, InRun
  <2>2. Cardinality(Idling(Ws)) = 0
    BY WsFacts DEF Blocks, IndInv, Sound, CountsSound
  <2>3. IsFiniteSet(Idling(Ws))
    <3>1. Idling(Ws) \subseteq Watchers
      BY DEF Idling, Active
    <3>. QED
      BY <3>1, FS_Subset, EvLoopAssumption
  <2>4. Idling(Ws) = {}
    BY <2>2, <2>3, FS_EmptySet
  <2>5. Kind[w] = "idle" => ~IsActive(w)
    BY <2>4, WsFacts DEF Idling
  <2>. QED
    BY <2>1, <2>5
<1>. QED
  BY <1>1, Invariance, PTL

\* libev is done with the watchers of an ev_once before its callback runs.
THEOREM OnceIsFreedOnce == Spec => []FreedOnceIsGone
<1>1. IndInv => FreedOnceIsGone
  BY DEF IndInv
<1>. QED
  BY <1>1, Invariance, PTL

\* Only ev_invoke_pending adds a frame to its own, for a watcher that is pending.
LEMMA CalledIsPending ==
  ASSUME IndInv, [Next]_vars, TopIs("invoke"), Depth' > Depth
  PROVE  Top'.w \in Pending(Ws)
<1>1. Depth \in Nat \ {0} /\ stack # <<>> /\ Top.at = "invoke" /\ Len(Return) = Depth - 1 /\ Nested(stack)
  BY TopFacts DEF TopIs
<1>2. stack' # stack /\ stack' # Return
  BY <1>1 DEF Depth
<1>3. ~UNCHANGED loopvars
  BY <1>2 DEF loopvars
<1>4. InvokePending
  <2>1. ~InvokeReturns
    BY <1>2 DEF InvokeReturns
  <2>2. ~UserStep
    BY <1>1 DEF UserStep, Acts, InUser, TopIs, Run, Start, Stop, Feed, ClearPending, Break, Ref, Unref, Fork, Destroy
  <2>3. ~LibEventCallbacks /\ ~LibEventCalls
    BY <1>1 DEF LibEventCallbacks, LibEventCalls, EvXCbIoSig, EvXCbTo, OnceCb, InLibrary, TopIs, EventAdd, EventDel,
                EventActive, EventBaseOnce, EventBaseLoopexit, Once, Acts, InUser
  <2>4. ~NextEvent
    BY <1>3 DEF NextEvent
  <2>5. ~EvStatCallbacks
    BY <1>1, <2>4 DEF EvStatCallbacks, StatTimerCb, StatAgain, InfyAdd, InStat, InfyCb, InfyWd, InfyCbReturns, InInfy, StatTimerDue,
                      TopIs
  <2>6. ~EvStatCalls
    BY <1>1 DEF EvStatCalls, EvStatStart, EvStatStop, Acts, InUser, TopIs
  <2>7. ~LoopFork /\ ~\E happened \in SUBSET MayHappen : Happens(happened) /\ Poll(happened)
    BY <1>1 DEF LoopFork, Poll, InRun, TopIs
  <2>8. LoopStep => InvokePending
    BY <1>1, <2>1 DEF LoopStep, CallReturns, InUser, QueueForks, QueuePrepares, BreakOff, GoOn, FdReify, NextIteration, RunReturns,
                      Destroyed, InRun, TopIs
  <2>9. ~UNCHANGED vars
    BY <1>3 DEF vars
  <2>. QED
    BY <1>3, <2>2, <2>3, <2>5, <2>6, <2>7, <2>8, <2>9 DEF Next
<1>5. PICK p : p = CHOOSE n \in Waiting : \A m \in Waiting : m <= n
  OBVIOUS
<1>6. PICK q, w : q = pendings[p] /\ w = q[Len(q)]
  OBVIOUS
<1>7. w # Dummy /\ stack' = Append(stack, CallFrame(w))
  BY <1>2, <1>4, <1>5, <1>6 DEF InvokePending
<1>8. p \in Waiting
  BY <1>4, <1>5, HighestWaiting DEF InvokePending
<1>9. p \in Pris /\ q # <<>> /\ q \in Seq(Watchers \cup {Dummy})
  BY <1>6, <1>8, EvLoopAssumption DEF Waiting, IndInv, Sound, Tables, Ws, Pris
<1>10. Len(q) \in 1 .. Len(q) /\ w \in Watchers
  BY <1>6, <1>7, <1>9
<1>11. pending[w] = Len(q) /\ Len(q) # 0
  BY <1>6, <1>7, <1>9, <1>10 DEF IndInv, Sound, QueuesSound, Ws
<1>12. w \in Pending(Ws)
  BY <1>10, <1>11, WsFacts
<1>13. Top' = CallFrame(w)
  BY <1>1, <1>7 DEF Top, Nested
<1>. QED
  BY <1>12, <1>13 DEF CallFrame, Frame

\* clear_pending and the ev_xxx_stop take back what was pending.
THEOREM SilencedStaysSilent == Spec => SilencedIsNotCalled
<1>1. IndInv /\ [Next]_vars => [TopIs("invoke") /\ Depth' > Depth => Top'.w \notin silenced]_loopvars
  <2>. SUFFICES ASSUME IndInv, [Next]_vars, TopIs("invoke"), Depth' > Depth PROVE Top'.w \notin silenced
    OBVIOUS
  <2>1. Top'.w \in Pending(Ws)
    BY CalledIsPending
  <2>. QED
    BY <2>1, WsFacts DEF IndInv, Sound, QueuesSound, Pending
<1>. QED
  BY <1>1, Invariance, PTL DEF Spec, SilencedIsNotCalled

\* event_del takes back both watchers of the event.
THEOREM DeletedStaysDeleted == Spec => DeletedIsNotCalled
<1>1. IndInv /\ [Next]_vars =>
        [TopIs("invoke") /\ Depth' > Depth =>
           \A e \in Events : Top'.w \in {IoSig[e], To[e]} => e \notin deleted]_<<loopvars, libevent>>
  <2>. SUFFICES ASSUME IndInv, [Next]_vars, TopIs("invoke"), Depth' > Depth,
                       NEW e \in Events, Top'.w \in {IoSig[e], To[e]}
                PROVE  e \notin deleted
    OBVIOUS
  <2>1. Top'.w \in Pending(Ws)
    BY CalledIsPending
  <2>. QED
    BY <2>1, GoneFacts DEF Of
<1>. QED
  BY <1>1, Invariance, PTL DEF Spec, DeletedIsNotCalled

\* ev_run returns at its test of loop_done and nowhere else.
LEMMA OnlyLeaves ==
  ASSUME IndInv, [Next]_vars, TopIs("run"), Depth' < Depth
  PROVE  BreakOff \/ RunReturns
<1>1. Nested(stack) /\ Top \in Frames /\ Depth \in Nat \ {0} /\ stack # <<>> /\ Top.at = "run"
  BY TopFacts DEF TopIs
<1>2. ~UNCHANGED stack
  BY <1>1 DEF Depth
<1>3. ASSUME NEW pc \in RunPcs
      PROVE  stack' # Goto(pc) /\ \A l : ~Invoking(Goto(pc), l)
  <2>1. PICK t : t = Goto(pc)
    OBVIOUS
  <2>2. Nested(t) /\ Len(t) = Len(stack)
    <3>1. PICK f : f = [Top EXCEPT !.pc = pc]
      OBVIOUS
    <3>2. f \in Frames
      BY <1>1, <3>1 DEF Frames, RunPcs
    <3>. QED
      BY <1>1, <2>1, <3>1, <3>2, TopGoto
  <2>3. Len(Append(t, InvokeFrame)) = Len(t) + 1
    <3>1. t \in Seq(Frames) /\ InvokeFrame \in Frames
      BY <2>2 DEF Nested, InvokeFrame, Frame, Frames
    <3>. QED
      BY <3>1
  <2>. QED
    BY <1>1, <2>1, <2>2, <2>3 DEF Invoking, Depth
<1>4. LoopStep => BreakOff \/ RunReturns
  <2>1. ~QueueForks /\ ~QueuePrepares /\ ~GoOn /\ ~FdReify /\ ~NextIteration
    BY <1>3 DEF QueueForks, QueuePrepares, GoOn, FdReify, NextIteration, RunPcs
  <2>2. ~InvokePending /\ ~InvokeReturns /\ ~CallReturns /\ ~Destroyed
    BY <1>1 DEF InvokePending, InvokeReturns, CallReturns, Destroyed, InUser, TopIs
  <2>. QED
    BY <2>1, <2>2 DEF LoopStep
<1>5. ~LoopFork /\ ~\E happened \in SUBSET MayHappen : Happens(happened) /\ Poll(happened)
  BY <1>3 DEF LoopFork, Poll, RunPcs
<1>6. ~UserStep
  BY <1>1 DEF UserStep, Acts, InUser, TopIs, Run, Start, Stop, Feed, ClearPending, Break, Ref, Unref, Fork, Destroy
<1>7. ~LibEventCallbacks /\ ~LibEventCalls
  BY <1>1 DEF LibEventCallbacks, LibEventCalls, EvXCbIoSig, EvXCbTo, OnceCb, InLibrary, TopIs, EventAdd, EventDel,
              EventActive, EventBaseOnce, EventBaseLoopexit, Once, Acts, InUser
<1>8. ~EvStatCallbacks /\ ~EvStatCalls
  BY <1>1 DEF EvStatCallbacks, StatTimerCb, StatAgain, InfyAdd, InStat, InfyCb, NextEvent, InfyWd, InfyCbReturns, InInfy,
              StatTimerDue, TopIs, EvStatCalls, EvStatStart, EvStatStop, Acts, InUser
<1>9. ~UNCHANGED vars /\ ~UNCHANGED loopvars
  BY <1>2 DEF vars, loopvars
<1>. QED
  BY <1>4, <1>5, <1>6, <1>7, <1>8, <1>9 DEF Next

\* ev_break ends the ev_runs it is meant for, at once, and no other.
THEOREM BreaksAreHeard == Spec => BreaksAsTold
<1>1. IndInv /\ [Next]_vars =>
        [/\ InRun("poll") => Depth \notin leave
         /\ InRun("tail") /\ Depth' < Depth => Depth \in leave \/ activecnt = 0 \/ Top.flags # ""
         /\ InRun("decide") /\ Depth' < Depth => Depth \in leave]_loopvars
  <2>. SUFFICES ASSUME IndInv, [Next]_vars
                PROVE  /\ InRun("poll") => Depth \notin leave
                       /\ InRun("tail") /\ Depth' < Depth => Depth \in leave \/ activecnt = 0 \/ Top.flags # ""
                       /\ InRun("decide") /\ Depth' < Depth => Depth \in leave
    OBVIOUS
  <2>1. ASSUME InRun("poll")
        PROVE  Depth \notin leave
    <3>1. leave = Told("cancel")
      BY <2>1 DEF IndInv, BreakSound, InRun, Polling
    <3>. QED
      BY <3>1 DEF Told
  <2>2. ASSUME TopIs("run"), loop_done # "cancel"
        PROVE  Depth \in leave
    <3>1. leave = Told(loop_done) /\ loop_done \in {"one", "all"}
      BY <2>2 DEF IndInv, BreakSound
    <3>2. Depth \in RunDepths /\ \A i \in RunDepths : i <= Depth
      BY <2>2, TopFacts DEF TopIs, RunDepths, Top, Depth
    <3>. QED
      BY <3>1, <3>2 DEF Told
  <2>3. ASSUME InRun("tail"), Depth' < Depth
        PROVE  Depth \in leave \/ activecnt = 0 \/ Top.flags # ""
    <3>1. TopIs("run") /\ ~GoesOn
      BY <2>3, OnlyLeaves DEF InRun, BreakOff, RunReturns
    <3>. QED
      BY <2>2, <3>1 DEF GoesOn
  <2>4. ASSUME InRun("decide"), Depth' < Depth
        PROVE  Depth \in leave
    <3>1. TopIs("run") /\ loop_done # "cancel"
      BY <2>4, OnlyLeaves DEF InRun, BreakOff, RunReturns
    <3>. QED
      BY <2>2, <3>1
  <2>. QED
    BY <2>1, <2>3, <2>4
<1>. QED
  BY <1>1, Invariance, PTL DEF Spec, BreaksAsTold

-------------------------------------------------------------------------------
(* ev_stat: why a change is noticed *)

EventsOf(q) == {q[i] : i \in 1 .. Len(q)}
AllEvents == EventsOf(events) \cup EventsOf(infy.read)
InotifyEvents == [wd : Int, gone : BOOLEAN]

\* infy_wd is to add the watch of s again, or something is to make s look.
IsGone(s) == Event(wd[s], TRUE) \in AllEvents \/ (s \in infy.visit /\ infy.gone)
IsToldOf(s) == (\E e \in AllEvents : e.wd = wd[s]) \/ s \in infy.visit

OnFile(s) == wd[s] \in 1 .. Len(watch) /\ watch[wd[s]] = file.ino /\ file.ino # 0
Differs(s) == attr[s].ino # 0 /\ ~IsSeen(s)

\* The next look of s at the file ends with a watch of the file: its watch is added
\* again, it is the right one already, or stat_timer_cb sees a difference.
Right(s) == IsGone(s) \/ (OnFile(s) /\ attr[s].ino # 0) \/ Differs(s)

Looks(s) == TopIs("stat") /\ Top.w = s
At(s, pc, from) == Looks(s) /\ Top.pc = pc /\ Top.flags = from

\* An active ev_stat that depends on inotify
Depends(s) == IsActive(s) /\ ~IsActive(TimerOf[s]) /\ s \notin missed

Watched(s) ==
  /\ fs_fd = 1
  /\ ~Looks(s) => wd[s] > 0 /\ Right(s) /\ (IsSeen(s) \/ IsToldOf(s))
  /\ At(s, "stat", "cb") => wd[s] > 0 /\ Right(s)
  /\ At(s, "stat", "wd") => wd[s] > 0 /\ (IsGone(s) \/ OnFile(s) \/ Differs(s))
  /\ At(s, "again", "cb") => wd[s] > 0 /\ (IsGone(s) \/ OnFile(s))

\* While infy_cb reads and infy_wd looks at the watchers, its call is on the stack.
Reading == \E i \in 1 .. Len(stack) : stack[i].pc = "infy_wd"

StatTypes ==
  /\ changes \in Nat /\ file \in [ino : Nat, stamp : 0 .. changes]
  /\ attr \in [Stats -> [ino : Nat, stamp : 0 .. changes]]
  /\ watch \in Seq(Int) /\ wd \in [Stats -> {-2, -1} \cup 1 .. Len(watch)]
  /\ events \in Seq(InotifyEvents)
  /\ infy \in [read : Seq(InotifyEvents), gone : BOOLEAN, visit : SUBSET Stats]

StatFrames ==
  /\ infy.read # <<>> \/ infy.visit # {} => Reading
  /\ TopIs("stat") => (Top.flags = "start" => Top.pc = "add") /\ (Top.pc = "again" => Top.flags = "cb")

StatInv ==
  /\ StatTypes /\ StatFrames
  /\ \A s \in Stats : Depends(s) => Watched(s)
  /\ \A s \in Stats : At(s, "add", "start") => IsSeen(s) \/ s \in missed

-------------------------------------------------------------------------------
(* Events and the stack *)

LEMMA EventsJoined ==
  ASSUME NEW p \in Seq(InotifyEvents), NEW q \in Seq(InotifyEvents)
  PROVE  p \o q \in Seq(InotifyEvents) /\ EventsOf(p \o q) = EventsOf(p) \cup EventsOf(q)
<1>1. PICK r : r = p \o q
  OBVIOUS
<1>2. /\ r \in Seq(InotifyEvents) /\ Len(r) = Len(p) + Len(q) /\ Len(p) \in Nat /\ Len(q) \in Nat
      /\ \A i \in 1 .. Len(p) : r[i] = p[i]
      /\ \A i \in 1 .. Len(q) : r[Len(p) + i] = q[i]
  BY <1>1
<1>3. ASSUME NEW i \in 1 .. Len(r)
      PROVE  r[i] \in EventsOf(p) \cup EventsOf(q)
  <2>1. CASE i \in 1 .. Len(p)
    BY <1>2, <2>1 DEF EventsOf
  <2>2. CASE i \notin 1 .. Len(p)
    <3>1. PICK j \in 1 .. Len(q) : i = Len(p) + j
      <4>1. i - Len(p) \in 1 .. Len(q) /\ i = Len(p) + (i - Len(p))
        BY <1>2, <2>2
      <4>. QED
        BY <4>1
    <3>2. r[i] = q[j]
      BY <1>2, <3>1
    <3>. QED
      BY <3>2 DEF EventsOf
  <2>. QED
    BY <2>1, <2>2
<1>4. ASSUME NEW i \in 1 .. Len(p)
      PROVE  p[i] \in EventsOf(r)
  <2>1. i \in 1 .. Len(r) /\ r[i] = p[i]
    BY <1>2
  <2>. QED
    BY <2>1 DEF EventsOf
<1>5. ASSUME NEW i \in 1 .. Len(q)
      PROVE  q[i] \in EventsOf(r)
  <2>1. Len(p) + i \in 1 .. Len(r) /\ r[Len(p) + i] = q[i]
    BY <1>2
  <2>. QED
    BY <2>1 DEF EventsOf
<1>6. EventsOf(r) \subseteq EventsOf(p) \cup EventsOf(q)
  BY <1>3 DEF EventsOf
<1>7. EventsOf(p) \subseteq EventsOf(r) /\ EventsOf(q) \subseteq EventsOf(r)
  BY <1>4, <1>5 DEF EventsOf
<1>. QED
  BY <1>1, <1>2, <1>6, <1>7

LEMMA EventsAppended ==
  ASSUME NEW q \in Seq(InotifyEvents), NEW e \in InotifyEvents
  PROVE  Append(q, e) \in Seq(InotifyEvents) /\ EventsOf(Append(q, e)) = EventsOf(q) \cup {e}
<1>1. PICK r : r = Append(q, e)
  OBVIOUS
<1>2. /\ r \in Seq(InotifyEvents) /\ Len(r) = Len(q) + 1 /\ Len(q) \in Nat /\ r[Len(r)] = e
      /\ \A i \in 1 .. Len(q) : r[i] = q[i]
  BY <1>1
<1>3. 1 .. Len(r) = (1 .. Len(q)) \cup {Len(r)}
  BY <1>2
<1>. QED
  BY <1>1, <1>2, <1>3 DEF EventsOf

LEMMA EventsSplit ==
  ASSUME NEW q \in Seq(InotifyEvents), NEW n \in 0 .. Len(q)
  PROVE  /\ SubSeq(q, 1, n) \in Seq(InotifyEvents) /\ SubSeq(q, n + 1, Len(q)) \in Seq(InotifyEvents)
         /\ EventsOf(q) = EventsOf(SubSeq(q, 1, n)) \cup EventsOf(SubSeq(q, n + 1, Len(q)))
<1>1. PICK a, b : a = SubSeq(q, 1, n) /\ b = SubSeq(q, n + 1, Len(q))
  OBVIOUS
<1>2. Len(q) \in Nat /\ n \in Int /\ 1 - 1 = 0
  OBVIOUS
<1>3. a \in Seq(InotifyEvents) /\ Len(a) = n /\ \A i \in 1 .. n : a[i] = q[i]
  BY <1>1, <1>2
<1>4. b \in Seq(InotifyEvents) /\ Len(b) = Len(q) - n /\ \A i \in 1 .. Len(q) - n : b[i] = q[n + i]
  BY <1>1, <1>2
<1>5. ASSUME NEW i \in 1 .. Len(q)
      PROVE  q[i] \in EventsOf(a) \cup EventsOf(b)
  <2>1. CASE i <= n
    BY <1>3, <2>1 DEF EventsOf
  <2>2. CASE ~(i <= n)
    <3>1. PICK j \in 1 .. Len(b) : n + j = i
      <4>1. i - n \in 1 .. Len(b) /\ n + (i - n) = i
        BY <1>2, <1>4, <2>2
      <4>. QED
        BY <4>1
    <3>2. b[j] = q[i]
      BY <1>4, <3>1
    <3>. QED
      BY <3>2 DEF EventsOf
  <2>. QED
    BY <2>1, <2>2
<1>6. ASSUME NEW i \in 1 .. Len(b)
      PROVE  b[i] \in EventsOf(q)
  <2>1. PICK j \in 1 .. Len(q) : j = n + i
    <3>1. n + i \in 1 .. Len(q)
      BY <1>2, <1>4
    <3>. QED
      BY <3>1
  <2>2. b[i] = q[j]
    BY <1>4, <2>1
  <2>. QED
    BY <2>2 DEF EventsOf
<1>7. ASSUME NEW i \in 1 .. Len(a)
      PROVE  a[i] \in EventsOf(q)
  <2>1. i \in 1 .. Len(q) /\ a[i] = q[i]
    BY <1>2, <1>3
  <2>. QED
    BY <2>1 DEF EventsOf
<1>8. EventsOf(q) \subseteq EventsOf(a) \cup EventsOf(b)
  BY <1>5 DEF EventsOf
<1>9. EventsOf(a) \subseteq EventsOf(q) /\ EventsOf(b) \subseteq EventsOf(q)
  BY <1>6, <1>7 DEF EventsOf
<1>. QED
  BY <1>1, <1>3, <1>4, <1>8, <1>9

LEMMA EventsTold ==
  ASSUME NEW ds \in SUBSET Int, IsFiniteSet(ds), NEW gone \in BOOLEAN
  PROVE  TellAll(ds, gone) \in Seq(InotifyEvents) /\ EventsOf(TellAll(ds, gone)) = {Event(d, gone) : d \in ds}
<1>1. PICK f, n : f = InSomeOrder(ds) /\ n = Cardinality(ds)
  OBVIOUS
<1>2. n \in Nat /\ f \in [1 .. n -> ds] /\ {f[i] : i \in 1 .. n} = ds
  <2>1. PICK S : S = ds /\ IsFiniteSet(S)
    OBVIOUS
  <2>2. /\ InSomeOrder(S) \in [1 .. Cardinality(S) -> S] /\ Cardinality(S) \in Nat
        /\ {InSomeOrder(S)[i] : i \in 1 .. Cardinality(S)} = S
    <3>1. IsFiniteSet(S)
      BY <2>1
    <3>. QED
      BY <3>1, InSomeOrderFacts, Zenon
  <2>. QED
    BY <1>1, <2>1, <2>2
<1>3. PICK t : t = TellAll(ds, gone)
  OBVIOUS
<1>4. t = [i \in 1 .. n |-> Event(f[i], gone)]
  BY <1>1, <1>3 DEF TellAll
<1>5. \A d \in Int : Event(d, gone) \in InotifyEvents
  BY DEF Event, InotifyEvents
<1>6. \A i \in 1 .. n : f[i] \in Int
  BY <1>2
<1>7. t \in [1 .. n -> InotifyEvents]
  BY <1>4, <1>5, <1>6
<1>8. t \in Seq(InotifyEvents) /\ Len(t) = n
  BY <1>2, <1>7, SeqDef
<1>9. \A i \in 1 .. n : t[i] = Event(f[i], gone)
  BY <1>4
<1>10. ASSUME NEW d \in ds
       PROVE  Event(d, gone) \in EventsOf(t)
  <2>1. PICK i \in 1 .. n : f[i] = d
    BY <1>2
  <2>. QED
    BY <1>8, <1>9, <2>1 DEF EventsOf
<1>11. ASSUME NEW i \in 1 .. n
       PROVE  t[i] \in {Event(d, gone) : d \in ds}
  BY <1>2, <1>9, <1>11
<1>. QED
  BY <1>3, <1>8, <1>10, <1>11 DEF EventsOf

\* Where neither infy_cb nor one of its infy_wds is on the top, there is none.
LEMMA NotReading ==
  ASSUME Nested(stack), ~TopIs("stat"), stack # <<>> => Top.pc # "infy_wd"
  PROVE  ~Reading
<1>1. stack \in Seq(Frames) /\ Len(stack) \in Nat
  BY DEF Nested
<1>2. ASSUME NEW i \in 1 .. Len(stack), stack[i].pc = "infy_wd"
      PROVE  FALSE
  <2>1. stack # <<>> /\ i # Len(stack)
    BY <1>1, <1>2 DEF Top
  <2>2. i + 1 \in 1 .. Len(stack) /\ i + 1 > 1 /\ i + 1 - 1 = i
    BY <1>1, <2>1
  <2>3. stack[i + 1].at = "stat"
    BY <1>2, <2>2 DEF Nested, Calls
  <2>4. i + 1 # Len(stack)
    BY <2>1, <2>3 DEF TopIs, Top
  <2>5. i + 2 \in 1 .. Len(stack) /\ i + 2 > 1 /\ i + 2 - 1 = i + 1
    BY <1>1, <2>2, <2>4
  <2>6. stack[i + 1].at \in Callers[stack[i + 2].at] /\ stack[i + 2] \in Frames
    BY <1>1, <2>5 DEF Nested, Calls
  <2>7. stack[i + 2].at \in {"run", "invoke", "call", "stat", "destroy", "destroyed"}
    BY <2>6 DEF Frames
  <2>. QED
    BY <2>3, <2>6, <2>7 DEF Callers
<1>. QED
  BY <1>2 DEF Reading

LEMMA StillReading ==
  ASSUME Nested(stack), TopIs("stat"), Top.pc # "infy_wd", Reading,
         \A i \in 1 .. Len(stack) - 1 : i \in 1 .. Len(stack') /\ stack'[i] = stack[i]
  PROVE  Reading'
<1>1. PICK i \in 1 .. Len(stack) : stack[i].pc = "infy_wd"
  BY DEF Reading
<1>2. i # Len(stack)
  BY <1>1 DEF Top
<1>3. Len(stack) \in Nat
  BY DEF Nested
<1>4. i \in 1 .. Len(stack) - 1
  BY <1>2, <1>3
<1>5. i \in 1 .. Len(stack') /\ stack'[i].pc = "infy_wd"
  BY <1>1, <1>4
<1>. QED
  BY <1>5 DEF Reading

LEMMA StatPc ==
  ASSUME IndInv, TopIs("stat")
  PROVE  /\ Nested(stack) /\ stack # <<>> /\ Top \in Frames /\ Top.at = "stat" /\ Top.w \in Stats /\ Top.pc \in {"stat", "again", "add"}
         /\ Top.flags \in {"start", "cb", "wd"} /\ (Top.flags = "start" => ~IsActive(Top.w))
<1>1. Nested(stack) /\ stack # <<>> /\ Top \in Frames /\ Top.at = "stat"
  BY TopFacts DEF TopIs
<1>2. Top.pc \in {"stat", "again", "add"}
  BY <1>1 DEF Frames
<1>. QED
  BY <1>1, <1>2, StatTop

LEMMA ReturnFromStat ==
  ASSUME IndInv, TopIs("stat"), stack' = Return
  PROVE  ~TopIs("stat")' /\ (Reading => Reading')
<1>1. Nested(stack) /\ stack # <<>> /\ Top.at = "stat" /\ Top.pc # "infy_wd"
  BY StatPc
<1>2. PICK t : t = SubSeq(stack, 1, Len(stack) - 1)
  OBVIOUS
<1>3. /\ Len(t) = Len(stack) - 1 /\ Len(stack) \in Nat /\ \A i \in 1 .. Len(t) : t[i] = stack[i]
      /\ t # <<>> => Calls(t[Len(t)], Top)
  BY <1>1, <1>2, PopNested DEF Top
<1>4. stack' = t
  BY <1>2 DEF Return, Depth
<1>5. \A i \in 1 .. Len(stack) - 1 : i \in 1 .. Len(stack') /\ stack'[i] = stack[i]
  BY <1>3, <1>4
<1>6. Reading => Reading'
  BY <1>1, <1>5, StillReading
<1>7. t # <<>> => t[Len(t)].at \in {"call", "invoke"}
  BY <1>1, <1>3 DEF Calls, Callers
<1>. QED
  BY <1>4, <1>6, <1>7 DEF TopIs, Top

LEMMA GotoInStat ==
  ASSUME IndInv, TopIs("stat"), NEW pc \in {"stat", "again", "add"}, stack' = Goto(pc)
  PROVE  /\ TopIs("stat")' /\ Top'.w = Top.w /\ Top'.flags = Top.flags /\ Top'.pc = pc
         /\ Reading => Reading'
<1>1. Nested(stack) /\ stack # <<>> /\ Top \in Frames /\ Top.at = "stat" /\ Top.pc # "infy_wd"
  BY StatPc
<1>2. PICK f : f = [Top EXCEPT !.pc = pc]
  OBVIOUS
<1>3. f \in Frames /\ f.at = "stat" /\ f.w = Top.w /\ f.flags = Top.flags /\ f.pc = pc
  BY <1>1, <1>2 DEF Frames
<1>4. PICK t : t = [stack EXCEPT ![Len(stack)].pc = pc]
  OBVIOUS
<1>5. /\ t # <<>> /\ Len(t) = Len(stack) /\ Len(stack) \in Nat \ {0} /\ t[Len(stack)] = f
      /\ \A i \in 1 .. Len(stack) : i # Len(stack) => t[i] = stack[i]
  BY <1>1, <1>2, <1>3, <1>4, GotoNested DEF Top
<1>6. stack' = t
  BY <1>4 DEF Goto, Depth
<1>7. \A i \in 1 .. Len(stack) - 1 : i \in 1 .. Len(stack') /\ stack'[i] = stack[i]
  BY <1>5, <1>6
<1>8. Reading => Reading'
  BY <1>1, <1>7, StillReading
<1>. QED
  BY <1>3, <1>5, <1>6, <1>8 DEF TopIs, Top

LEMMA OtherStat ==
  ASSUME IndInv, TopIs("stat"), NEW f \in Frames, f.at = "stat", stack' = Append(Return, f)
  PROVE  TopIs("stat")' /\ Top' = f /\ (Reading => Reading')
<1>1. Nested(stack) /\ stack # <<>> /\ Top \in Frames /\ Top.at = "stat" /\ Top.pc # "infy_wd"
  BY StatPc
<1>2. PICK t : t = SubSeq(stack, 1, Len(stack) - 1)
  OBVIOUS
<1>3. /\ Nested(t) /\ Len(t) = Len(stack) - 1 /\ Len(stack) \in Nat /\ \A i \in 1 .. Len(t) : t[i] = stack[i]
      /\ IF t = <<>> THEN Top.at \in {"run", "stat", "destroy", "destroyed"} ELSE Calls(t[Len(t)], Top)
  BY <1>1, <1>2, PopNested DEF Top
<1>4. t = Return
  BY <1>2 DEF Return, Depth
<1>5. t # <<>> => Calls(t[Len(t)], f)
  BY <1>1, <1>3 DEF Calls
<1>6. /\ stack' # <<>> /\ Len(stack') = Len(t) + 1 /\ stack'[Len(stack')] = f
      /\ \A i \in 1 .. Len(t) : stack'[i] = t[i]
  BY <1>3, <1>4, <1>5, PushNested
<1>7. \A i \in 1 .. Len(stack) - 1 : i \in 1 .. Len(stack') /\ stack'[i] = stack[i]
  BY <1>3, <1>6
<1>8. Reading => Reading'
  BY <1>1, <1>7, StillReading
<1>. QED
  BY <1>6, <1>8 DEF TopIs, Top

-------------------------------------------------------------------------------
(* The inotify state *)

\* The inode or directory that infy_add watches
What == IF file.ino = 0 THEN Dir ELSE file.ino

Within(w, n) == \A s \in Stats : w[s] \in {-2, -1} \cup 1 .. n
InfyTables ==
  {k \in [wd : [Stats -> Int], watch : Seq(Int), events : Seq(InotifyEvents)] :
     Within(k.wd, Len(k.watch))}

LEMMA InfyTable ==
  ASSUME NEW w \in [Stats -> Int], NEW q \in Seq(Int), NEW p \in Seq(InotifyEvents),
         Within(w, Len(q))
  PROVE  [wd |-> w, watch |-> q, events |-> p] \in InfyTables
BY DEF InfyTables, Within

LEMMA InfyAddedFacts ==
  ASSUME NEW k \in InfyTables, NEW s \in Stats, What \in Int, NEW m, m = InfyAdded(k, s)
  PROVE  /\ m \in InfyTables /\ m.events = k.events
         /\ \A t \in Stats \ {s} : m.wd[t] = k.wd[t]
         /\ m.wd[s] \in 1 .. Len(m.watch) /\ m.watch[m.wd[s]] = What
         /\ Len(k.watch) <= Len(m.watch) /\ \A d \in 1 .. Len(k.watch) : m.watch[d] = k.watch[d]
<1>1. /\ k.wd \in [Stats -> Int] /\ k.watch \in Seq(Int) /\ k.events \in Seq(InotifyEvents) /\ Len(k.watch) \in Nat
      /\ DOMAIN k.watch = 1 .. Len(k.watch) /\ \A t \in Stats : k.wd[t] \in {-2, -1} \cup 1 .. Len(k.watch)
      /\ k = [wd |-> k.wd, watch |-> k.watch, events |-> k.events]
  BY DEF InfyTables, Within
<1>2. PICK old : old = {d \in DOMAIN k.watch : k.watch[d] = What}
  OBVIOUS
<1>3. CASE old # {}
  <2>1. PICK d : d = CHOOSE e \in old : TRUE
    OBVIOUS
  <2>2. d \in 1 .. Len(k.watch) /\ k.watch[d] = What
    BY <1>1, <1>2, <1>3, <2>1
  <2>3. PICK w : w = [k.wd EXCEPT ![s] = d]
    OBVIOUS
  <2>4. w \in [Stats -> Int] /\ \A t \in Stats : w[t] = IF t = s THEN d ELSE k.wd[t]
    BY <1>1, <2>2, <2>3
  <2>5. m = [wd |-> w, watch |-> k.watch, events |-> k.events]
    BY <1>1, <1>2, <1>3, <2>1, <2>3 DEF InfyAdded, What
  <2>6. m \in InfyTables /\ m.wd = w /\ m.watch = k.watch /\ m.events = k.events
    <3>1. Within(w, Len(k.watch))
      BY <1>1, <2>2, <2>4 DEF Within
    <3>. QED
      BY SMTT(60), <1>1, <2>4, <2>5, <3>1, InfyTable
  <2>. QED
    BY <1>1, <2>2, <2>4, <2>6
<1>4. CASE old = {}
  <2>1. PICK d, q : d = Len(k.watch) + 1 /\ q = Append(k.watch, What)
    OBVIOUS
  <2>2. q \in Seq(Int) /\ Len(q) = d /\ q[d] = What /\ d \in 1 .. Len(q) /\ \A i \in 1 .. Len(k.watch) : q[i] = k.watch[i]
    BY <1>1, <2>1
  <2>3. PICK w : w = [k.wd EXCEPT ![s] = d]
    OBVIOUS
  <2>4. w \in [Stats -> Int] /\ \A t \in Stats : w[t] = IF t = s THEN d ELSE k.wd[t]
    BY <1>1, <2>2, <2>3
  <2>5. m = [wd |-> w, watch |-> q, events |-> k.events]
    BY <1>1, <1>2, <1>4, <2>1, <2>3 DEF InfyAdded, What
  <2>6. 1 .. Len(k.watch) \subseteq 1 .. Len(q) /\ Len(k.watch) <= Len(q)
    BY <1>1, <2>1, <2>2
  <2>7. Within(w, Len(q))
    BY <1>1, <2>2, <2>4, <2>6 DEF Within
  <2>8. m \in InfyTables /\ m.wd = w /\ m.watch = q /\ m.events = k.events
    <3>1. [wd |-> w, watch |-> q, events |-> k.events] \in InfyTables
      BY <1>1, <2>2, <2>4, <2>7, InfyTable
    <3>. QED
      BY <2>5, <3>1
  <2>. QED
    BY <1>1, <2>2, <2>4, <2>6, <2>8
<1>. QED
  BY <1>3, <1>4

LEMMA InfyDeletedFacts ==
  ASSUME NEW k \in InfyTables, NEW s \in Stats, NEW m, m = InfyDeleted(k, s)
  PROVE  /\ m \in InfyTables /\ Len(m.watch) = Len(k.watch)
         /\ EventsOf(k.events) \subseteq EventsOf(m.events)
         /\ \A t \in Stats \ {s} : m.wd[t] = k.wd[t]
         /\ m.wd[s] < 0
         /\ \A d \in 1 .. Len(k.watch) : m.watch[d] = k.watch[d] \/ Event(d, TRUE) \in EventsOf(m.events)
<1>1. /\ k.wd \in [Stats -> Int] /\ k.watch \in Seq(Int) /\ k.events \in Seq(InotifyEvents) /\ Len(k.watch) \in Nat
      /\ DOMAIN k.watch = 1 .. Len(k.watch) /\ \A t \in Stats : k.wd[t] \in {-2, -1} \cup 1 .. Len(k.watch)
      /\ k = [wd |-> k.wd, watch |-> k.watch, events |-> k.events]
  BY DEF InfyTables, Within
<1>2. PICK d : d = k.wd[s]
  OBVIOUS
<1>3. CASE d < 0
  <2>1. m = k
    BY <1>2, <1>3 DEF InfyDeleted
  <2>. QED
    BY <1>2, <1>3, <2>1
<1>4. CASE ~(d < 0) /\ k.watch[d] = None
  <2>1. PICK w : w = [k.wd EXCEPT ![s] = -2]
    OBVIOUS
  <2>2. w \in [Stats -> Int] /\ \A t \in Stats : w[t] = IF t = s THEN -2 ELSE k.wd[t]
    BY <1>1, <2>1
  <2>3. m = [wd |-> w, watch |-> k.watch, events |-> k.events]
    BY <1>1, <1>2, <1>4, <2>1 DEF InfyDeleted
  <2>4. m \in InfyTables /\ m.wd = w /\ m.watch = k.watch /\ m.events = k.events
    <3>1. Within(w, Len(k.watch))
      BY <1>1, <2>2 DEF Within
    <3>2. [wd |-> w, watch |-> k.watch, events |-> k.events] \in InfyTables
      BY <1>1, <2>2, <3>1, InfyTable
    <3>. QED
      BY <2>3, <3>2
  <2>. QED
    BY <1>1, <2>2, <2>4
<1>5. CASE ~(d < 0) /\ k.watch[d] # None
  <2>1. d \in 1 .. Len(k.watch)
    BY SMTT(60), <1>1, <1>2, <1>5
  <2>2. PICK q, e, p : q = [k.watch EXCEPT ![d] = None] /\ e = Event(d, TRUE) /\ p = Append(k.events, e)
    OBVIOUS
  <2>3. q \in Seq(Int) /\ Len(q) = Len(k.watch) /\ \A i \in 1 .. Len(q) : i # d => q[i] = k.watch[i]
    BY <1>1, <2>1, <2>2 DEF None
  <2>4. e \in InotifyEvents
    BY <2>1, <2>2 DEF Event, InotifyEvents
  <2>5. p \in Seq(InotifyEvents) /\ EventsOf(p) = EventsOf(k.events) \cup {e}
    BY <1>1, <2>2, <2>4, EventsAppended
  <2>6. PICK w : w = [k.wd EXCEPT ![s] = -2]
    OBVIOUS
  <2>7. w \in [Stats -> Int] /\ \A t \in Stats : w[t] = IF t = s THEN -2 ELSE k.wd[t]
    BY <1>1, <2>6
  <2>8. m = [wd |-> w, watch |-> q, events |-> p]
    BY <1>1, <1>2, <1>5, <2>2, <2>6 DEF InfyDeleted
  <2>9. m \in InfyTables /\ m.wd = w /\ m.watch = q /\ m.events = p
    <3>1. Within(w, Len(q))
      BY <1>1, <2>3, <2>7 DEF Within
    <3>. QED
      BY <2>3, <2>5, <2>7, <2>8, <3>1, InfyTable
  <2>10. \A i \in 1 .. Len(k.watch) : q[i] = k.watch[i] \/ Event(i, TRUE) \in EventsOf(p)
    BY <2>2, <2>3, <2>5
  <2>11. m.wd[s] < 0 /\ \A t \in Stats \ {s} : m.wd[t] = k.wd[t]
    BY <2>7, <2>9
  <2>12. \A i \in 1 .. Len(k.watch) : m.watch[i] = k.watch[i] \/ Event(i, TRUE) \in EventsOf(m.events)
    BY <2>9, <2>10
  <2>. QED
    BY <2>3, <2>5, <2>9, <2>11, <2>12
<1>. QED
  BY <1>3, <1>4, <1>5

LEMMA InfyFacts ==
  ASSUME StatTypes
  PROVE  /\ Infy \in InfyTables /\ Infy.wd = wd /\ Infy.watch = watch /\ Infy.events = events /\ What \in Int
         /\ Len(watch) \in Nat /\ Wds = 1 .. Len(watch)
<1>1. \A s \in Stats : wd[s] \in {-2, -1} \cup 1 .. Len(watch)
  BY DEF StatTypes
<1>2. Len(watch) \in Nat /\ DOMAIN watch = 1 .. Len(watch)
  BY DEF StatTypes
<1>3. wd \in [Stats -> Int] /\ file.ino \in Int
  BY SMTT(60), <1>1, <1>2 DEF StatTypes
<1>. QED
  BY <1>1, <1>2, <1>3 DEF StatTypes, Infy, InfyTables, Within, What, Dir, Wds

-------------------------------------------------------------------------------
(* What a step keeps *)

LEMMA LstatType ==
  ASSUME StatTypes, NEW s \in Stats
  PROVE  /\ attr[s] \in [ino : Nat, stamp : 0 .. changes]
         /\ Lstat(s) \in [ino : Nat, stamp : 0 .. changes] /\ Lstat(s).ino = file.ino
BY DEF StatTypes, Lstat

\* After an lstat the attributes are those of the file.
LEMMA LstatSees ==
  ASSUME StatTypes, NEW s \in Stats, EvStatStat(s), file' = file, changes' = changes
  PROVE  /\ IsSeen(s)' /\ attr'[s].ino = file.ino
         /\ attr' \in [Stats -> [ino : Nat, stamp : 0 .. changes']] /\ \A t \in Stats \ {s} : attr'[t] = attr[t]
         /\ IsSeen(s) => attr' = attr
<1>1. /\ attr \in [Stats -> [ino : Nat, stamp : 0 .. changes]] /\ attr' = [attr EXCEPT ![s] = Lstat(s)]
      /\ attr[s] \in [ino : Nat, stamp : 0 .. changes]
  BY LstatType DEF StatTypes, EvStatStat
<1>2. Lstat(s) \in [ino : Nat, stamp : 0 .. changes] /\ Lstat(s).ino = file.ino
  BY LstatType
<1>3. attr'[s] = Lstat(s)
  BY <1>1
<1>4. Lstat(s)' = Lstat(s)
  <2>1. CASE file.ino = 0
    <3>1. Lstat(s) = [attr[s] EXCEPT !.ino = 0] /\ Lstat(s)' = [attr'[s] EXCEPT !.ino = 0]
      BY <2>1 DEF Lstat
    <3>. QED
      BY <1>1, <1>3, <3>1
  <2>2. CASE file.ino # 0
    BY <2>2 DEF Lstat
  <2>. QED
    BY <2>1, <2>2
<1>5. IsSeen(s)'
  BY <1>3, <1>4 DEF IsSeen
<1>6. attr' \in [Stats -> [ino : Nat, stamp : 0 .. changes']]
  BY <1>1, <1>2
<1>7. IsSeen(s) => attr' = attr
  BY <1>1 DEF IsSeen
<1>. QED
  BY <1>1, <1>2, <1>3, <1>5, <1>6, <1>7

LEMMA SameFile ==
  ASSUME NEW s \in Stats, attr'[s] = attr[s], file' = file
  PROVE  (IsSeen(s)' <=> IsSeen(s)) /\ (Differs(s)' <=> Differs(s))
BY DEF IsSeen, Lstat, Differs

LEMMA StillWatched ==
  ASSUME NEW s \in Stats, Watched(s), ~Looks(s), ~Looks(s)', fs_fd' = 1, wd'[s] = wd[s], attr'[s] = attr[s], file' = file,
         IsGone(s) => IsGone(s)', IsToldOf(s) => IsToldOf(s)', OnFile(s) => OnFile(s)' \/ (IsGone(s)' /\ IsToldOf(s)')
  PROVE  Watched(s)'
<1>1. wd[s] > 0 /\ Right(s) /\ (IsSeen(s) \/ IsToldOf(s))
  BY DEF Watched
<1>2. (IsSeen(s)' <=> IsSeen(s)) /\ (Differs(s)' <=> Differs(s))
  BY SameFile
<1>3. Right(s)'
  BY <1>1, <1>2 DEF Right
<1>4. wd'[s] > 0 /\ (IsSeen(s)' \/ IsToldOf(s)')
  BY <1>1, <1>2
<1>. QED
  BY <1>3, <1>4 DEF Watched, At

\* What a step leaves of the state of an ev_stat that it is not about
Untouched(t) ==
  /\ (IsActive(t)' <=> IsActive(t)) /\ (IsActive(TimerOf[t])' <=> IsActive(TimerOf[t]))
  /\ wd'[t] = wd[t] /\ attr'[t] = attr[t] /\ ~Looks(t) /\ ~Looks(t)'
  /\ t \in missed => t \in missed'
  /\ t \in infy.visit => t \in infy'.visit

\* Who loses a watch is told.
KernelTells ==
  /\ EventsOf(events) \subseteq EventsOf(events') /\ infy'.read = infy.read /\ infy'.gone = infy.gone
  /\ \A d \in 1 .. Len(watch) : d \in 1 .. Len(watch') /\ (watch'[d] = watch[d] \/ Event(d, TRUE) \in EventsOf(events'))

LEMMA UntouchedWatched ==
  ASSUME NEW t \in Stats, Untouched(t), KernelTells, file' = file, fs_fd = 1 => fs_fd' = 1,
         Depends(t) => Watched(t), Depends(t)'
  PROVE  Watched(t)'
<1>1. Depends(t)
  BY DEF Untouched, Depends
<1>2. Watched(t) /\ fs_fd' = 1
  BY <1>1 DEF Watched
<1>3. AllEvents \subseteq AllEvents' /\ wd'[t] = wd[t]
  BY DEF KernelTells, Untouched, AllEvents
<1>4. IsGone(t) => IsGone(t)'
  BY <1>3 DEF IsGone, KernelTells, Untouched
<1>5. IsToldOf(t) => IsToldOf(t)'
  BY <1>3 DEF IsToldOf, KernelTells, Untouched
<1>6. OnFile(t) => OnFile(t)' \/ (IsGone(t)' /\ IsToldOf(t)')
  <2>. SUFFICES ASSUME OnFile(t), ~OnFile(t)' PROVE IsGone(t)' /\ IsToldOf(t)'
    OBVIOUS
  <2>1. wd[t] \in 1 .. Len(watch) /\ watch[wd[t]] = file.ino /\ file.ino # 0
    BY DEF OnFile
  <2>2. Event(wd[t], TRUE) \in EventsOf(events')
    BY <1>3, <2>1 DEF KernelTells, OnFile
  <2>3. Event(wd[t], TRUE) \in AllEvents' /\ Event(wd[t], TRUE).wd = wd[t]
    BY <2>2 DEF AllEvents, Event
  <2>. QED
    BY <1>3, <2>3 DEF IsGone, IsToldOf
<1>. QED
  BY <1>2, <1>4, <1>5, <1>6, StillWatched DEF Untouched

LEMMA StatStep ==
  ASSUME StatInv, StatTypes', StatFrames', KernelTells, file' = file, fs_fd = 1 => fs_fd' = 1,
         NEW s \in Stats, \A t \in Stats \ {s} : Untouched(t),
         Depends(s)' => Watched(s)', At(s, "add", "start")' => IsSeen(s)' \/ s \in missed'
  PROVE  StatInv'
<1>1. ASSUME NEW t \in Stats, Depends(t)'
      PROVE  Watched(t)'
  <2>1. CASE t = s
    BY <1>1, <2>1
  <2>2. CASE t # s
    <3>1. Untouched(t) /\ (Depends(t) => Watched(t))
      BY <2>2 DEF StatInv
    <3>. QED
      BY <1>1, <3>1, UntouchedWatched
  <2>. QED
    BY <2>1, <2>2
<1>2. ASSUME NEW t \in Stats, At(t, "add", "start")'
      PROVE  IsSeen(t)' \/ t \in missed'
  <2>1. CASE t = s
    BY <1>2, <2>1
  <2>2. CASE t # s
    BY <1>2, <2>2 DEF Untouched, At
  <2>. QED
    BY <2>1, <2>2
<1>. QED
  BY <1>1, <1>2 DEF StatInv

LEMMA NothingRead ==
  ASSUME IndInv, StatInv, ~TopIs("stat"), stack # <<>> => Top.pc # "infy_wd"
  PROVE  infy.read = <<>> /\ infy.visit = {}
BY NotReading DEF IndInv, StackSound, StatInv, StatFrames

\* A step that leaves ev_stat and the watchers active that it has
LEMMA OtherStep ==
  ASSUME StatInv, UNCHANGED evstat, ~TopIs("stat"), infy.read = <<>> /\ infy.visit = {}, ~TopIs("stat")',
         \A s \in Stats : (IsActive(s)' <=> IsActive(s)) /\ (IsActive(TimerOf[s])' <=> IsActive(TimerOf[s]))
  PROVE  StatInv'
<1>1. UNCHANGED <<file, changes, attr, wd, fs_fd, watch, events, infy, missed>>
  BY DEF evstat, inotify
<1>2. StatTypes'
  BY <1>1 DEF StatInv, StatTypes
<1>3. StatFrames'
  BY <1>1 DEF StatFrames
<1>4. \A t \in Stats : Untouched(t)
  BY <1>1 DEF Untouched, Looks
<1>5. KernelTells
  BY <1>1 DEF KernelTells
<1>6. ASSUME NEW t \in Stats, Depends(t)'
      PROVE  Watched(t)'
  BY <1>1, <1>4, <1>5, <1>6, UntouchedWatched DEF StatInv
<1>7. \A t \in Stats : ~At(t, "add", "start")'
  BY DEF At, Looks
<1>. QED
  BY <1>2, <1>3, <1>6, <1>7 DEF StatInv

LEMMA StatsDiffer ==
  ASSUME NEW s \in Stats, NEW t \in Stats \ {s}
  PROVE  /\ TimerOf[t] # TimerOf[s] /\ TimerOf[t] # s /\ TimerOf[s] # t /\ TimerOf[s] # s
         /\ s \in Watchers /\ t \in Watchers /\ TimerOf[s] \in Watchers /\ TimerOf[t] \in Watchers
         /\ s # FsW /\ t # FsW /\ TimerOf[s] # FsW /\ TimerOf[t] # FsW
BY EvLoopAssumption, EvStatAssumption

LEMMA ActiveFacts ==
  \A w \in Watchers : (w \in Active(Ws) <=> IsActive(w)) /\ (w \in Active(Ws)' <=> IsActive(w)')
<1>1. Ws.active = active /\ Ws'.active = active'
  BY DEF Ws
<1>. QED
  BY <1>1 DEF Active, IsActive

-------------------------------------------------------------------------------
(* The steps of ev_stat *)

LEMMA StatFramesKept ==
  ASSUME StatInv, infy' = infy, Reading => Reading',
         TopIs("stat")' => (Top'.flags = "start" => Top'.pc = "add") /\ (Top'.pc = "again" => Top'.flags = "cb")
  PROVE  StatFrames'
BY DEF StatInv, StatFrames

LEMMA TypesKept ==
  ASSUME StatInv, file' = file, changes' = changes, infy' = infy, NEW k \in InfyTables, SetInfy(k),
         attr' \in [Stats -> [ino : Nat, stamp : 0 .. changes']]
  PROVE  StatTypes'
<1>1. /\ k.wd \in [Stats -> Int] /\ k.watch \in Seq(Int) /\ k.events \in Seq(InotifyEvents)
      /\ \A s \in Stats : k.wd[s] \in {-2, -1} \cup 1 .. Len(k.watch)
  BY DEF InfyTables, Within
<1>2. k.wd \in [Stats -> {-2, -1} \cup 1 .. Len(k.watch)]
  BY <1>1
<1>3. wd' = k.wd /\ watch' = k.watch /\ events' = k.events
  BY DEF SetInfy
<1>. QED
  BY <1>1, <1>2, <1>3 DEF StatInv, StatTypes

LEMMA InfyDeletedTells ==
  ASSUME StatTypes, NEW s \in Stats, NEW k, k = InfyDeleted(Infy, s), SetInfy(k), infy' = infy
  PROVE  k \in InfyTables /\ KernelTells /\ \A t \in Stats \ {s} : wd'[t] = wd[t]
<1>1. Infy \in InfyTables /\ Infy.wd = wd /\ Infy.watch = watch /\ Infy.events = events /\ Len(watch) \in Nat
  BY InfyFacts
<1>2. /\ k \in InfyTables /\ Len(k.watch) = Len(watch)
      /\ EventsOf(events) \subseteq EventsOf(k.events)
      /\ \A t \in Stats \ {s} : k.wd[t] = wd[t]
      /\ \A d \in 1 .. Len(watch) : k.watch[d] = watch[d] \/ Event(d, TRUE) \in EventsOf(k.events)
  <2>1. PICK b \in InfyTables : b = Infy
    BY <1>1
  <2>2. k = InfyDeleted(b, s)
    BY <2>1
  <2>3. /\ k \in InfyTables /\ Len(k.watch) = Len(b.watch)
        /\ EventsOf(b.events) \subseteq EventsOf(k.events)
        /\ \A t \in Stats \ {s} : k.wd[t] = b.wd[t]
        /\ \A d \in 1 .. Len(b.watch) : k.watch[d] = b.watch[d] \/ Event(d, TRUE) \in EventsOf(k.events)
    BY ZenonT(60), <2>2, InfyDeletedFacts
  <2>. QED
    BY <1>1, <2>1, <2>3
<1>3. wd' = k.wd /\ watch' = k.watch /\ events' = k.events
  BY DEF SetInfy
<1>. QED
  BY <1>2, <1>3 DEF KernelTells

LEMMA InfyAddedTells ==
  ASSUME StatTypes, NEW s \in Stats, NEW k, k = InfyAdded(Infy, s), SetInfy(k), infy' = infy
  PROVE  /\ k \in InfyTables /\ KernelTells /\ \A t \in Stats \ {s} : wd'[t] = wd[t]
         /\ wd'[s] \in 1 .. Len(watch') /\ watch'[wd'[s]] = What
<1>1. Infy \in InfyTables /\ Infy.wd = wd /\ Infy.watch = watch /\ Infy.events = events /\ Len(watch) \in Nat /\ What \in Int
  BY InfyFacts
<1>2. /\ k \in InfyTables /\ k.events = events
      /\ \A t \in Stats \ {s} : k.wd[t] = wd[t]
      /\ k.wd[s] \in 1 .. Len(k.watch) /\ k.watch[k.wd[s]] = What
      /\ Len(watch) <= Len(k.watch) /\ \A d \in 1 .. Len(watch) : k.watch[d] = watch[d]
  BY SMTT(60), <1>1, InfyAddedFacts
<1>3. wd' = k.wd /\ watch' = k.watch /\ events' = k.events
  BY DEF SetInfy
<1>4. k.watch \in Seq(Int)
  BY <1>2 DEF InfyTables
<1>5. \A d \in 1 .. Len(watch) : d \in 1 .. Len(watch')
  <2>1. Len(k.watch) \in Nat
    BY <1>4
  <2>2. \A d \in 1 .. Len(watch) : d \in 1 .. Len(k.watch)
    BY <1>1, <1>2, <2>1
  <2>. QED
    BY <1>3, <2>2
<1>. QED
  BY <1>2, <1>3, <1>5 DEF KernelTells

LEMMA NothingTold ==
  ASSUME StatTypes, UNCHANGED <<wd, watch, events, infy>>
  PROVE  KernelTells /\ Infy \in InfyTables /\ SetInfy(Infy)
BY InfyFacts DEF KernelTells, SetInfy, StatTypes, Infy

LEMMA FedKeepsActive ==
  ASSUME IndInv, NEW w \in Watchers, SetWs(Fed(Ws, w))
  PROVE  \A v \in Watchers : IsActive(v)' <=> IsActive(v)
<1>1. PICK m : m = Fed(Ws, w)
  OBVIOUS
<1>2. Sound(Ws, refs) /\ refs \in Int
  BY DEF IndInv, TypeOK
<1>3. Sound(m, refs) /\ Active(m) = Active(Ws)
  BY <1>1, <1>2, FedSound
<1>4. Ws' = m
  BY <1>1, <1>3, SetWsFacts DEF Sound
<1>. QED
  BY <1>3, <1>4, ActiveFacts

\* What was true of s in the middle of stat_timer_cb
LEMMA StatWatched ==
  ASSUME StatInv, IndInv, NEW s \in Stats, Looks(s), Depends(s)
  PROVE  /\ fs_fd = 1
         /\ Top.pc = "stat" => wd[s] > 0 /\ (IsGone(s) \/ OnFile(s) \/ Differs(s))
         /\ Top.pc = "again" => wd[s] > 0 /\ (IsGone(s) \/ OnFile(s))
<1>1. Watched(s)
  BY DEF StatInv
<1>2. TopIs("stat") /\ Top.w = s
  BY DEF Looks
<1>3. /\ Top.flags \in {"start", "cb", "wd"} /\ (Top.flags = "start" => Top.pc = "add") /\ (Top.pc = "again" => Top.flags = "cb")
  BY <1>2, StatPc DEF StatInv, StatFrames
<1>4. Right(s) => IsGone(s) \/ OnFile(s) \/ Differs(s)
  BY DEF Right
<1>. QED
  BY <1>1, <1>3, <1>4 DEF Watched, At

\* Nothing is different, and the watch is the one of the file.
LEMMA StillRight ==
  ASSUME StatTypes, NEW s \in Stats, Looks(s), ~Looks(s)', fs_fd' = 1, wd[s] > 0, wd'[s] = wd[s],
         watch' = watch, events' = events, infy' = infy, file' = file,
         IsGone(s) \/ OnFile(s), IsSeen(s)', attr'[s].ino = file.ino
  PROVE  Watched(s)'
<1>1. IsGone(s)' <=> IsGone(s)
  BY DEF IsGone, AllEvents
<1>2. OnFile(s)' <=> OnFile(s)
  BY DEF OnFile
<1>3. OnFile(s) => attr'[s].ino # 0
  BY DEF OnFile
<1>. QED
  BY <1>1, <1>2, <1>3 DEF Watched, Right, At

LEMMA StatTimerCbWatches ==
  ASSUME IndInv, StatInv, StatTimerCb
  PROVE  StatInv'
<1>1. /\ TopIs("stat") /\ Top.pc = "stat" /\ infy' = infy /\ file' = file /\ changes' = changes /\ missed' = missed
  BY DEF StatTimerCb, InStat
<1>2. PICK s \in Stats : s = Top.w
  BY <1>1, StatPc
<1>3. /\ EvStatStat(s) /\ Looks(s)
  BY <1>1, <1>2 DEF StatTimerCb, Looks
<1>4. /\ IsSeen(s)' /\ attr'[s].ino = file.ino
      /\ attr' \in [Stats -> [ino : Nat, stamp : 0 .. changes']] /\ \A t \in Stats \ {s} : attr'[t] = attr[t]
      /\ IsSeen(s) => attr' = attr
  BY <1>1, <1>3, LstatSees DEF StatInv
<1>5. StatTypes
  BY DEF StatInv
<1>6. \A t \in Stats \ {s} : ~Looks(t)
  BY <1>2 DEF Looks
<1>7. CASE IsSeen(s) /\ stack' = Return /\ UNCHANGED <<watchers, inotify>>
  <2>1. UNCHANGED <<wd, fs_fd, watch, events, active>>
    BY <1>7 DEF inotify, watchers
  <2>2. KernelTells /\ Infy \in InfyTables /\ SetInfy(Infy)
    BY <1>1, <1>5, <2>1, NothingTold
  <2>3. StatTypes'
    BY <1>1, <1>4, <2>2, TypesKept
  <2>4. ~TopIs("stat")' /\ (Reading => Reading')
    BY <1>1, <1>7, ReturnFromStat
  <2>5. StatFrames'
    BY <1>1, <2>4, StatFramesKept
  <2>6. \A t \in Stats : ~Looks(t)' /\ ~At(t, "add", "start")'
    BY <2>4 DEF Looks, At
  <2>7. \A t \in Stats \ {s} : Untouched(t)
    BY <1>1, <1>4, <1>6, <2>1, <2>6 DEF Untouched, IsActive
  <2>8. ASSUME Depends(s)'
        PROVE  Watched(s)'
    <3>1. Depends(s)
      BY <1>1, <2>1, <2>8 DEF Depends, IsActive
    <3>2. fs_fd = 1 /\ wd[s] > 0 /\ (IsGone(s) \/ OnFile(s) \/ Differs(s))
      BY <1>1, <1>3, <3>1, StatWatched
    <3>3. IsGone(s) \/ OnFile(s)
      BY <1>7, <3>2 DEF Differs
    <3>. QED
      BY <1>1, <1>3, <1>4, <1>5, <2>1, <2>6, <3>2, <3>3, StillRight
  <2>. QED
    BY <1>1, <2>1, <2>2, <2>3, <2>5, <2>6, <2>7, <2>8, StatStep
<1>8. CASE ~IsSeen(s) /\ fs_fd >= 0 /\ SetInfy(InfyDeleted(Infy, s)) /\ UNCHANGED <<watchers, fs_fd>>
           /\ stack' = Append(Return, StatFrame(s, "add", "cb"))
  <2>1. PICK k, f : k = InfyDeleted(Infy, s) /\ f = StatFrame(s, "add", "cb")
    OBVIOUS
  <2>2. k \in InfyTables /\ KernelTells /\ SetInfy(k) /\ \A t \in Stats \ {s} : wd'[t] = wd[t]
    BY <1>1, <1>5, <1>8, <2>1, InfyDeletedTells
  <2>3. StatTypes'
    BY <1>1, <1>4, <2>2, TypesKept
  <2>4. f \in Frames /\ f.at = "stat" /\ f.pc = "add" /\ f.flags = "cb" /\ f.w = s
    BY <2>1 DEF StatFrame, Frame, Frames
  <2>5. TopIs("stat")' /\ Top' = f /\ (Reading => Reading')
    BY <1>1, <1>8, <2>1, <2>4, OtherStat
  <2>6. StatFrames'
    BY <1>1, <2>4, <2>5, StatFramesKept
  <2>7. active' = active
    BY <1>8 DEF watchers
  <2>8. \A t \in Stats \ {s} : ~Looks(t)'
    BY <2>4, <2>5 DEF Looks
  <2>9. \A t \in Stats \ {s} : Untouched(t)
    BY <1>1, <1>4, <1>6, <2>2, <2>7, <2>8 DEF Untouched, IsActive
  <2>10. fs_fd = 1 /\ fs_fd' = 1
    BY <1>8 DEF IndInv, TypeOK
  <2>11. Watched(s)' /\ ~At(s, "add", "start")'
    BY <2>4, <2>5, <2>10 DEF Watched, At, Looks
  <2>. QED
    BY <1>1, <2>2, <2>3, <2>6, <2>9, <2>10, <2>11, StatStep
<1>9. CASE ~IsSeen(s) /\ ~(fs_fd >= 0) /\ SetWs(Fed(Ws, s)) /\ stack' = Return /\ UNCHANGED inotify
  <2>1. UNCHANGED <<wd, fs_fd, watch, events>>
    BY <1>9 DEF inotify
  <2>2. KernelTells /\ Infy \in InfyTables /\ SetInfy(Infy)
    BY <1>1, <1>5, <2>1, NothingTold
  <2>3. StatTypes'
    BY <1>1, <1>4, <2>2, TypesKept
  <2>4. ~TopIs("stat")' /\ (Reading => Reading')
    BY <1>1, <1>9, ReturnFromStat
  <2>5. StatFrames'
    BY <1>1, <2>4, StatFramesKept
  <2>6. \A t \in Stats : ~Looks(t)' /\ ~At(t, "add", "start")'
    BY <2>4 DEF Looks, At
  <2>7. \A v \in Watchers : IsActive(v)' <=> IsActive(v)
    <3>1. s \in Watchers
      BY EvStatAssumption, EvLoopAssumption
    <3>. QED
      BY <1>9, <3>1, FedKeepsActive
  <2>8. \A t \in Stats : (IsActive(t)' <=> IsActive(t)) /\ (IsActive(TimerOf[t])' <=> IsActive(TimerOf[t]))
    BY <2>7, EvStatAssumption, EvLoopAssumption
  <2>9. \A t \in Stats \ {s} : Untouched(t)
    BY <1>1, <1>4, <1>6, <2>1, <2>6, <2>8 DEF Untouched
  <2>10. ~Depends(s)'
    <3>1. Depends(s) => fs_fd = 1
      BY <1>3, StatWatched
    <3>. QED
      BY <1>1, <1>9, <2>8, <3>1 DEF Depends
  <2>. QED
    BY <1>1, <2>1, <2>2, <2>3, <2>5, <2>6, <2>9, <2>10, StatStep
<1>. QED
  BY <1>2, <1>7, <1>8, <1>9 DEF StatTimerCb

LEMMA StatAgainWatches ==
  ASSUME IndInv, StatInv, StatAgain
  PROVE  StatInv'
<1>1. /\ TopIs("stat") /\ Top.pc = "again" /\ infy' = infy /\ file' = file /\ changes' = changes /\ missed' = missed
      /\ UNCHANGED <<wd, fs_fd, watch, events>> /\ stack' = Return
  BY DEF StatAgain, InStat, inotify
<1>2. PICK s \in Stats : s = Top.w
  BY <1>1, StatPc
<1>3. EvStatStat(s) /\ Looks(s) /\ SetWs(Fed(Ws, s))
  BY <1>1, <1>2 DEF StatAgain, StatedAgain, Looks
<1>4. /\ IsSeen(s)' /\ attr'[s].ino = file.ino
      /\ attr' \in [Stats -> [ino : Nat, stamp : 0 .. changes']] /\ \A t \in Stats \ {s} : attr'[t] = attr[t]
  BY <1>1, <1>3, LstatSees DEF StatInv
<1>5. StatTypes
  BY DEF StatInv
<1>6. KernelTells /\ Infy \in InfyTables /\ SetInfy(Infy)
  BY <1>1, <1>5, NothingTold
<1>7. StatTypes'
  BY <1>1, <1>4, <1>6, TypesKept
<1>8. ~TopIs("stat")' /\ (Reading => Reading')
  BY <1>1, ReturnFromStat
<1>9. StatFrames'
  BY <1>1, <1>8, StatFramesKept
<1>10. \A t \in Stats : ~Looks(t)' /\ ~At(t, "add", "start")' /\ (t # s => ~Looks(t))
  BY <1>2, <1>8 DEF Looks, At
<1>11. \A t \in Stats : (IsActive(t)' <=> IsActive(t)) /\ (IsActive(TimerOf[t])' <=> IsActive(TimerOf[t]))
  <2>1. s \in Watchers /\ \A t \in Stats : t \in Watchers /\ TimerOf[t] \in Watchers
    BY EvStatAssumption, EvLoopAssumption
  <2>2. \A v \in Watchers : IsActive(v)' <=> IsActive(v)
    BY <1>3, <2>1, FedKeepsActive
  <2>. QED
    BY <2>1, <2>2
<1>12. \A t \in Stats \ {s} : Untouched(t)
  BY <1>1, <1>4, <1>10, <1>11 DEF Untouched
<1>13. ASSUME Depends(s)'
       PROVE  Watched(s)'
  <2>1. Depends(s)
    BY <1>1, <1>11, <1>13 DEF Depends
  <2>2. fs_fd = 1 /\ wd[s] > 0 /\ (IsGone(s) \/ OnFile(s))
    BY <1>1, <1>3, <2>1, StatWatched
  <2>. QED
    BY <1>1, <1>3, <1>4, <1>5, <1>10, <2>2, StillRight
<1>. QED
  BY <1>1, <1>6, <1>7, <1>9, <1>10, <1>12, <1>13, StatStep

\* After infy_add the watch of s is the one of the file, unless s polls.
LEMMA AddedOnFile ==
  ASSUME StatTypes, NEW s \in Stats, fs_fd \in {-2, -1, 1},
         NEW k, k = (IF fs_fd >= 0 THEN InfyAdded(Infy, s) ELSE Infy), SetInfy(k), infy' = infy
  PROVE  /\ k \in InfyTables /\ KernelTells /\ \A t \in Stats \ {s} : wd'[t] = wd[t]
         /\ ~Polls(fs_fd) => fs_fd = 1 /\ file.ino # 0 /\ wd'[s] \in 1 .. Len(watch') /\ watch'[wd'[s]] = file.ino
<1>1. CASE fs_fd >= 0
  <2>1. k = InfyAdded(Infy, s)
    BY <1>1
  <2>2. /\ k \in InfyTables /\ KernelTells /\ \A t \in Stats \ {s} : wd'[t] = wd[t]
        /\ wd'[s] \in 1 .. Len(watch') /\ watch'[wd'[s]] = What
    BY <2>1, InfyAddedTells
  <2>. QED
    BY <1>1, <2>2 DEF Polls, What
<1>2. CASE ~(fs_fd >= 0)
  <2>1. k = Infy
    BY <1>2
  <2>2. UNCHANGED <<wd, watch, events>>
    BY <2>1 DEF SetInfy, Infy
  <2>. QED
    BY <1>2, <2>1, <2>2, NothingTold DEF Polls
<1>. QED
  BY <1>1, <1>2

LEMMA InfyAddWatches ==
  ASSUME IndInv, StatInv, InfyAdd
  PROVE  StatInv'
<1>1. PICK s, repeat : s = Top.w /\ repeat = Polls(fs_fd)
  OBVIOUS
<1>2. PICK l : l = Rearmed(Ws, s, repeat)
  OBVIOUS
<1>3. PICK k : k = (IF fs_fd >= 0 THEN InfyAdded(Infy, s) ELSE Infy)
  OBVIOUS
<1>4. /\ TopIs("stat") /\ Top.pc = "add" /\ SetInfy(k) /\ UNCHANGED <<file, changes, attr, fs_fd, infy>>
      /\ SetWs(IF Top.flags = "start" THEN Started(l, s) ELSE l)
      /\ stack' = CASE Top.flags = "start" -> Return [] Top.flags = "cb" -> Goto("again") [] Top.flags = "wd" -> Goto("stat")
      /\ missed' = IF Top.flags = "start" THEN missed ELSE missed \ {s}
  BY <1>1, <1>2, <1>3 DEF InfyAdd, InStat
<1>5. s \in Stats /\ Top.flags \in {"start", "cb", "wd"} /\ (Top.flags = "start" => ~IsActive(s)) /\ Looks(s)
  BY <1>1, <1>4, StatPc DEF Looks
<1>6. StatTypes /\ fs_fd \in {-2, -1, 1} /\ Sound(Ws, refs) /\ refs \in Int /\ repeat \in BOOLEAN
  BY <1>1 DEF StatInv, IndInv, TypeOK, Polls
<1>7. /\ k \in InfyTables /\ KernelTells /\ \A t \in Stats \ {s} : wd'[t] = wd[t]
      /\ ~repeat => fs_fd = 1 /\ file.ino # 0 /\ wd'[s] \in 1 .. Len(watch') /\ watch'[wd'[s]] = file.ino
  BY <1>1, <1>3, <1>4, <1>5, <1>6, AddedOnFile
<1>8. StatTypes'
  <2>1. attr' \in [Stats -> [ino : Nat, stamp : 0 .. changes']]
    BY <1>4, <1>6 DEF StatTypes
  <2>. QED
    BY <1>4, <1>7, <2>1, TypesKept
<1>9. /\ Sound(l, refs) /\ l.active \in [Watchers -> Nat]
      /\ Active(l) = IF repeat THEN Active(Ws) \cup {TimerOf[s]} ELSE Active(Ws) \ {TimerOf[s]}
  <2>1. Sound(l, refs) /\ Active(l) = IF repeat THEN Active(Ws) \cup {TimerOf[s]} ELSE Active(Ws) \ {TimerOf[s]}
    BY <1>2, <1>5, <1>6, RearmedSound
  <2>. QED
    BY <2>1 DEF Sound, Tables
<1>10. /\ Active(Ws') \ {s, TimerOf[s]} = Active(Ws) \ {s, TimerOf[s]}
       /\ TimerOf[s] \in Active(Ws)' <=> repeat
  <2>1. s \in Watchers \ Unreferenced /\ TimerOf[s] \in Watchers /\ s # TimerOf[s]
    BY <1>5, StatWatchers, EvLoopAssumption, EvStatAssumption
  <2>2. CASE Top.flags = "start"
    <3>1. PICK m : m = Started(l, s)
      OBVIOUS
    <3>2. s \notin Active(l)
      BY <1>5, <1>9, <2>1, <2>2, WsFacts
    <3>3. Sound(m, refs) /\ Active(m) = Active(l) \cup {s}
      BY <1>6, <1>9, <2>1, <3>1, <3>2, StartedPlain
    <3>4. Ws' = m
      BY <1>4, <2>2, <3>1, <3>3, SetWsFacts DEF Sound
    <3>. QED
      BY <1>9, <2>1, <3>3, <3>4
  <2>3. CASE Top.flags # "start"
    <3>1. Ws' = l
      BY <1>4, <1>9, <2>3, SetWsFacts DEF Sound
    <3>. QED
      BY <1>9, <2>1, <3>1
  <2>. QED
    BY <2>2, <2>3
<1>11. IsActive(TimerOf[s])' <=> repeat
  <2>1. TimerOf[s] \in Watchers
    BY <1>5, EvLoopAssumption, EvStatAssumption
  <2>. QED
    BY <1>10, <2>1, ActiveFacts
<1>12. \A t \in Stats \ {s} : (IsActive(t)' <=> IsActive(t)) /\ (IsActive(TimerOf[t])' <=> IsActive(TimerOf[t]))
  <2>. SUFFICES ASSUME NEW t \in Stats \ {s}
                PROVE  (IsActive(t)' <=> IsActive(t)) /\ (IsActive(TimerOf[t])' <=> IsActive(TimerOf[t]))
    OBVIOUS
  <2>1. TimerOf[t] \notin {s, TimerOf[s]} /\ t \notin {s, TimerOf[s]} /\ t \in Watchers /\ TimerOf[t] \in Watchers
    BY <1>5, StatsDiffer
  <2>2. \A v \in Watchers \ {s, TimerOf[s]} : v \in Active(Ws)' <=> v \in Active(Ws)
    BY <1>10
  <2>. QED
    BY <2>1, <2>2, ActiveFacts
<1>13. ~repeat => OnFile(s)' /\ fs_fd' = 1
  BY <1>4, <1>7 DEF OnFile
<1>14. \A t \in Stats \ {s} : t \in missed => t \in missed'
  BY <1>4
<1>15. CASE Top.flags = "start"
  <2>1. stack' = Return /\ missed' = missed
    BY <1>4, <1>15
  <2>2. ~TopIs("stat")' /\ (Reading => Reading')
    BY <1>4, <2>1, ReturnFromStat
  <2>3. StatFrames'
    BY <1>4, <2>2, StatFramesKept
  <2>4. \A t \in Stats : ~Looks(t)' /\ ~At(t, "add", "start")' /\ (t # s => ~Looks(t))
    BY <1>1, <2>2 DEF Looks, At
  <2>5. \A t \in Stats \ {s} : Untouched(t)
    BY <1>4, <1>7, <1>12, <1>14, <2>4 DEF Untouched
  <2>6. ASSUME Depends(s)'
        PROVE  Watched(s)'
    <3>1. ~repeat /\ s \notin missed
      BY <1>11, <2>1, <2>6 DEF Depends
    <3>2. IsSeen(s)
      BY <1>1, <1>4, <1>5, <1>15, <3>1 DEF StatInv, At
    <3>3. IsSeen(s)' /\ attr'[s].ino = file.ino /\ attr'[s].ino # 0
      <4>1. IsSeen(s)'
        BY <1>4, <1>5, <3>2, SameFile
      <4>2. attr'[s].ino = file.ino
        BY <1>4, <1>5, <1>6, <3>2, LstatType DEF IsSeen
      <4>. QED
        BY <1>7, <3>1, <4>1, <4>2
    <3>4. wd'[s] > 0
      <4>1. Len(watch') \in Nat
        BY <1>8 DEF StatTypes
      <4>. QED
        BY <1>7, <3>1, <4>1
    <3>. QED
      BY <1>13, <2>4, <3>1, <3>3, <3>4 DEF Watched, Right, At
  <2>. QED
    BY <1>4, <1>5, <1>7, <1>8, <2>3, <2>4, <2>5, <2>6, StatStep
<1>16. CASE Top.flags # "start"
  <2>1. PICK pc \in {"stat", "again", "add"} : stack' = Goto(pc) /\ (pc = "again" => Top.flags = "cb") /\ (pc = "stat" => Top.flags = "wd") /\ pc # "add"
    BY <1>4, <1>5, <1>16
  <2>2. TopIs("stat")' /\ Top'.w = s /\ Top'.flags = Top.flags /\ Top'.pc = pc /\ (Reading => Reading')
    BY <1>1, <1>4, <2>1, GotoInStat
  <2>3. StatFrames'
    BY <1>4, <1>16, <2>1, <2>2, StatFramesKept
  <2>4. \A t \in Stats \ {s} : ~Looks(t)' /\ ~Looks(t)
    BY <1>1, <2>2 DEF Looks
  <2>5. \A t \in Stats \ {s} : Untouched(t)
    BY <1>4, <1>7, <1>12, <1>14, <2>4 DEF Untouched
  <2>6. ASSUME Depends(s)'
        PROVE  Watched(s)'
    <3>1. ~repeat
      BY <1>11, <2>6 DEF Depends
    <3>2. OnFile(s)' /\ fs_fd' = 1 /\ wd'[s] > 0
      <4>1. Len(watch') \in Nat
        BY <1>8 DEF StatTypes
      <4>. QED
        BY <1>7, <1>13, <3>1, <4>1
    <3>. QED
      BY <2>1, <2>2, <3>2 DEF Watched, At, Looks
  <2>7. ~At(s, "add", "start")'
    BY <1>16, <2>2 DEF At
  <2>. QED
    BY <1>4, <1>5, <1>7, <1>8, <2>3, <2>5, <2>6, <2>7, StatStep
<1>. QED
  BY <1>15, <1>16

LEMMA StatTimerDueWatches ==
  ASSUME IndInv, StatInv, NEW s \in Stats, StatTimerDue(s)
  PROVE  StatInv'
<1>1. PICK f : f = StatFrame(s, "stat", "cb")
  OBVIOUS
<1>2. /\ stack # <<>> /\ Top.at = "call" /\ Top.pc = "library" /\ stack' = Append(Return, f)
      /\ UNCHANGED <<watchers, file, changes, attr, wd, fs_fd, watch, events, infy, missed>>
  BY <1>1 DEF StatTimerDue, TopIs, evstat, inotify
<1>3. f.at = "stat" /\ f.pc = "stat" /\ f.flags = "cb" /\ f.w = s /\ f \in Frames
  BY <1>1 DEF StatFrame, Frame, Frames
<1>4. Nested(Return) /\ Return \in Seq(Frames)
  BY <1>2, TopFacts DEF Nested
<1>5. TopIs("stat")' /\ Top' = f
  BY <1>2, <1>3, <1>4 DEF TopIs, Top
<1>6. infy.read = <<>> /\ infy.visit = {}
  BY <1>2, NothingRead DEF TopIs
<1>7. StatTypes /\ StatTypes'
  BY <1>2 DEF StatInv, StatTypes
<1>8. StatFrames'
  BY <1>2, <1>3, <1>5, <1>6 DEF StatFrames
<1>9. KernelTells
  BY <1>2, <1>7, NothingTold
<1>10. \A t \in Stats : ~Looks(t) /\ (Looks(t)' <=> t = s) /\ (IsActive(t)' <=> IsActive(t)) /\ (IsActive(TimerOf[t])' <=> IsActive(TimerOf[t]))
  BY <1>2, <1>3, <1>5 DEF Looks, TopIs, IsActive, watchers
<1>11. \A t \in Stats \ {s} : Untouched(t)
  BY <1>2, <1>10 DEF Untouched
<1>12. ASSUME Depends(s)'
       PROVE  Watched(s)'
  <2>1. Depends(s)
    BY <1>2, <1>10, <1>12 DEF Depends
  <2>2. fs_fd = 1 /\ wd[s] > 0 /\ Right(s)
    BY <1>10, <2>1 DEF StatInv, Watched
  <2>3. Right(s)' <=> Right(s)
    BY <1>2 DEF Right, IsGone, OnFile, Differs, IsSeen, Lstat, AllEvents
  <2>. QED
    BY <1>2, <1>3, <1>5, <2>2, <2>3 DEF Watched, At, Looks
<1>13. ~At(s, "add", "start")'
  BY <1>3, <1>5 DEF At
<1>. QED
  BY <1>2, <1>7, <1>8, <1>9, <1>11, <1>12, <1>13, StatStep

LEMMA InfyWdWatches ==
  ASSUME IndInv, StatInv, InfyWd
  PROVE  StatInv'
<1>1. PICK s, f : s = (CHOOSE v \in infy.visit : TRUE) /\ f = StatFrame(s, ReAdded(infy.gone), "wd")
  OBVIOUS
<1>2. /\ stack # <<>> /\ Top.at = "call" /\ Top.pc = "infy_wd" /\ stack' = Append(stack, f)
      /\ infy.visit # {} /\ infy' = [infy EXCEPT !.visit = infy.visit \ {s}]
      /\ wd' = IF infy.gone THEN [wd EXCEPT ![s] = -1] ELSE wd
      /\ UNCHANGED <<watchers, file, changes, attr, fs_fd, watch, events, missed>>
  BY <1>1 DEF InfyWd, InInfy, TopIs
<1>3. StatTypes /\ infy.gone \in BOOLEAN
  BY DEF StatInv, StatTypes
<1>4. s \in Stats /\ s \in infy.visit
  BY <1>1, <1>2, <1>3 DEF StatTypes
<1>5. /\ f.at = "stat" /\ f.pc = (IF infy.gone THEN "add" ELSE "stat") /\ f.flags = "wd" /\ f.w = s /\ f \in Frames
  BY <1>1, <1>4 DEF StatFrame, Frame, Frames, ReAdded
<1>6. stack \in Seq(Frames) /\ Nested(stack)
  BY <1>2, TopFacts DEF Nested
<1>7. TopIs("stat")' /\ Top' = f /\ Reading'
  <2>1. /\ stack' # <<>> /\ Len(stack') = Len(stack) + 1 /\ stack'[Len(stack')] = f /\ Len(stack) \in Nat \ {0}
        /\ stack'[Len(stack)] = stack[Len(stack)]
    BY <1>2, <1>5, <1>6
  <2>2. Len(stack) \in 1 .. Len(stack')
    BY <2>1
  <2>. QED
    BY <1>2, <1>5, <2>1, <2>2 DEF TopIs, Top, Reading
<1>8. infy'.read = infy.read /\ infy'.gone = infy.gone /\ infy'.visit = infy.visit \ {s}
  BY <1>2, <1>3 DEF StatTypes
<1>9. wd' \in [Stats -> {-2, -1} \cup 1 .. Len(watch)] /\ \A t \in Stats \ {s} : wd'[t] = wd[t]
  BY <1>2, <1>3 DEF StatTypes
<1>10. StatTypes'
  BY <1>2, <1>3, <1>8, <1>9 DEF StatTypes
<1>11. StatFrames'
  BY <1>5, <1>7 DEF StatFrames
<1>12. KernelTells
  BY <1>2, <1>8 DEF KernelTells
<1>13. \A t \in Stats : ~Looks(t) /\ (Looks(t)' <=> t = s) /\ (IsActive(t)' <=> IsActive(t)) /\ (IsActive(TimerOf[t])' <=> IsActive(TimerOf[t]))
  BY <1>2, <1>5, <1>7 DEF Looks, TopIs, IsActive, watchers
<1>14. \A t \in Stats \ {s} : Untouched(t)
  BY <1>2, <1>8, <1>9, <1>13 DEF Untouched
<1>15. ASSUME Depends(s)'
       PROVE  Watched(s)'
  <2>1. Depends(s)
    BY <1>2, <1>4, <1>13, <1>15 DEF Depends
  <2>2. fs_fd = 1 /\ wd[s] > 0 /\ Right(s)
    BY <1>4, <1>13, <2>1 DEF StatInv, Watched
  <2>3. ~infy.gone => wd'[s] = wd[s] /\ (IsGone(s)' \/ OnFile(s)' \/ Differs(s)')
    BY <1>2, <1>8, <2>2 DEF Right, IsGone, OnFile, Differs, IsSeen, Lstat, AllEvents
  <2>. QED
    BY <1>2, <1>3, <1>5, <1>7, <2>2, <2>3 DEF Watched, At, Looks
<1>16. ~At(s, "add", "start")'
  BY <1>5, <1>7 DEF At
<1>. QED
  BY <1>2, <1>4, <1>10, <1>11, <1>12, <1>14, <1>15, <1>16, StatStep

LEMMA EvStatStartWatches ==
  ASSUME IndInv, StatInv, NEW s \in Stats, EvStatStart(s)
  PROVE  StatInv'
<1>1. PICK f : f = StatFrame(s, "add", "start")
  OBVIOUS
<1>2. /\ stack = <<>> \/ InUser
      /\ ~IsActive(s) /\ EvStatStat(s) /\ missed' = missed \ {s} /\ InfyInit /\ stack' = Append(stack, f)
      /\ UNCHANGED <<file, changes, wd, watch, events, infy>>
  BY <1>1 DEF EvStatStart, Acts
<1>3. f.at = "stat" /\ f.pc = "add" /\ f.flags = "start" /\ f.w = s /\ f \in Frames
  BY <1>1 DEF StatFrame, Frame, Frames
<1>4. ~TopIs("stat") /\ (stack # <<>> => Top.pc # "infy_wd") /\ stack \in Seq(Frames)
  BY <1>2, ActsFacts DEF InUser, TopIs, Nested
<1>5. infy.read = <<>> /\ infy.visit = {}
  BY <1>4, NothingRead
<1>6. TopIs("stat")' /\ Top' = f
  BY <1>2, <1>3, <1>4 DEF TopIs, Top
<1>7. StatFrames'
  BY <1>2, <1>3, <1>5, <1>6 DEF StatFrames
<1>8. StatTypes
  BY DEF StatInv
<1>9. /\ IsSeen(s)' /\ attr' \in [Stats -> [ino : Nat, stamp : 0 .. changes']]
      /\ \A t \in Stats \ {s} : attr'[t] = attr[t]
  BY <1>2, <1>8, LstatSees
<1>10. KernelTells /\ Infy \in InfyTables /\ SetInfy(Infy)
  BY <1>2, <1>8, NothingTold
<1>11. StatTypes'
  BY <1>2, <1>9, <1>10, TypesKept
<1>12. \A v \in Watchers \ {FsW} : IsActive(v)' <=> IsActive(v)
  <2>1. Active(Ws') \ {FsW} = Active(Ws) \ {FsW}
    BY <1>2, InfyInitReadies DEF IndInv, TypeOK
  <2>2. Active(Ws') = Active(Ws)'
    BY DEF Active
  <2>. QED
    BY <2>1, <2>2, ActiveFacts
<1>13. \A t \in Stats : (IsActive(t)' <=> IsActive(t)) /\ (IsActive(TimerOf[t])' <=> IsActive(TimerOf[t]))
  <2>1. \A t \in Stats : t \in Watchers \ {FsW} /\ TimerOf[t] \in Watchers \ {FsW}
    BY StatWatchers, EvLoopAssumption
  <2>. QED
    BY <1>12, <2>1
<1>14. fs_fd = 1 => fs_fd' = 1
  BY <1>2 DEF InfyInit
<1>15. \A t \in Stats \ {s} : ~Looks(t) /\ ~Looks(t)'
  BY <1>3, <1>4, <1>6 DEF Looks
<1>16. \A t \in Stats \ {s} : Untouched(t)
  BY <1>2, <1>9, <1>13, <1>15 DEF Untouched
<1>17. ~Depends(s)'
  BY <1>2, <1>13 DEF Depends
<1>. QED
  BY <1>2, <1>7, <1>9, <1>10, <1>11, <1>14, <1>16, <1>17, StatStep

LEMMA EvStatStopWatches ==
  ASSUME IndInv, StatInv, NEW s \in Stats, EvStatStop(s)
  PROVE  StatInv'
<1>1. PICK l, m : l = Rearmed(Ws, s, FALSE) /\ m = Stopped(l, s)
  OBVIOUS
<1>2. PICK k : k = (IF fs_fd >= 0 THEN InfyDeleted(Infy, s) ELSE Infy)
  OBVIOUS
<1>3. /\ stack = <<>> \/ InUser
      /\ SetInfy(k) /\ SetWs(m) /\ UNCHANGED <<stack, file, changes, attr, fs_fd, infy, missed>>
  BY <1>1, <1>2 DEF EvStatStop, Acts
<1>4. ~TopIs("stat") /\ (stack # <<>> => Top.pc # "infy_wd")
  BY <1>3, ActsFacts DEF InUser, TopIs
<1>5. infy.read = <<>> /\ infy.visit = {}
  BY <1>4, NothingRead
<1>6. ~TopIs("stat")'
  BY <1>3, <1>4 DEF TopIs, Top
<1>7. StatFrames'
  BY <1>3, <1>5, <1>6 DEF StatFrames
<1>8. StatTypes
  BY DEF StatInv
<1>9. k \in InfyTables /\ KernelTells /\ \A t \in Stats \ {s} : wd'[t] = wd[t]
  <2>1. CASE fs_fd >= 0
    <3>1. k = InfyDeleted(Infy, s)
      BY <1>2, <2>1
    <3>. QED
      BY <1>3, <1>8, <3>1, InfyDeletedTells
  <2>2. CASE ~(fs_fd >= 0)
    <3>1. k = Infy
      BY <1>2, <2>2
    <3>2. UNCHANGED <<wd, watch, events>>
      BY <1>3, <3>1 DEF SetInfy, Infy
    <3>. QED
      BY <1>3, <1>8, <3>1, <3>2, NothingTold
  <2>. QED
    BY <2>1, <2>2
<1>10. StatTypes'
  <2>1. attr' \in [Stats -> [ino : Nat, stamp : 0 .. changes']]
    BY <1>3, <1>8 DEF StatTypes
  <2>. QED
    BY <1>3, <1>9, <2>1, TypesKept
<1>11. Active(Ws') = Active(Ws) \ {s, TimerOf[s]}
  <2>1. Sound(Ws, refs) /\ refs \in Int
    BY DEF IndInv, TypeOK
  <2>2. Sound(l, refs) /\ Active(l) = Active(Ws) \ {TimerOf[s]}
    BY <1>1, <2>1, RearmedSound
  <2>3. Sound(m, refs) /\ Active(m) = Active(l) \ {s}
    BY <1>1, <2>1, <2>2, StatWatchers, StoppedPlain
  <2>4. Ws' = m
    BY <1>3, <2>3, SetWsFacts DEF Sound
  <2>. QED
    BY <2>2, <2>3, <2>4
<1>12. \A t \in Stats \ {s} : (IsActive(t)' <=> IsActive(t)) /\ (IsActive(TimerOf[t])' <=> IsActive(TimerOf[t]))
  <2>. SUFFICES ASSUME NEW t \in Stats \ {s}
                PROVE  (IsActive(t)' <=> IsActive(t)) /\ (IsActive(TimerOf[t])' <=> IsActive(TimerOf[t]))
    OBVIOUS
  <2>1. TimerOf[t] \notin {s, TimerOf[s]} /\ t \notin {s, TimerOf[s]} /\ t \in Watchers /\ TimerOf[t] \in Watchers
    BY StatsDiffer
  <2>2. \A v \in Watchers \ {s, TimerOf[s]} : v \in Active(Ws)' <=> v \in Active(Ws)
    BY <1>11
  <2>. QED
    BY <2>1, <2>2, ActiveFacts
<1>13. ~Depends(s)'
  <2>1. s \in Watchers /\ s \notin Active(Ws)'
    BY <1>11, StatWatchers
  <2>. QED
    BY <2>1, ActiveFacts DEF Depends
<1>14. \A t \in Stats : ~Looks(t) /\ ~Looks(t)' /\ ~At(t, "add", "start")'
  BY <1>4, <1>6 DEF Looks, At
<1>15. \A t \in Stats \ {s} : Untouched(t)
  BY <1>3, <1>9, <1>12, <1>14 DEF Untouched
<1>. QED
  BY <1>3, <1>7, <1>9, <1>10, <1>13, <1>14, <1>15, StatStep

\* A step that moves events on to infy_cb or infy_wd, or a call of infy_cb that returns
LEMMA ReadStep ==
  ASSUME StatInv, StatTypes', StatFrames', ~TopIs("stat"), ~TopIs("stat")',
         UNCHANGED <<active, file, changes, attr, wd, fs_fd, watch, missed>>,
         \A s \in Stats : (IsGone(s) => IsGone(s)') /\ (IsToldOf(s) => IsToldOf(s)')
  PROVE  StatInv'
<1>1. ASSUME NEW t \in Stats, Depends(t)'
      PROVE  Watched(t)'
  <2>1. ~Looks(t) /\ ~Looks(t)'
    BY DEF Looks
  <2>2. Depends(t) /\ Watched(t)
    BY <1>1 DEF Depends, IsActive, StatInv
  <2>3. fs_fd' = 1 /\ wd'[t] = wd[t] /\ attr'[t] = attr[t] /\ (OnFile(t)' <=> OnFile(t))
    BY <2>1, <2>2 DEF Watched, OnFile
  <2>. QED
    BY <2>1, <2>2, <2>3, StillWatched
<1>2. \A t \in Stats : ~At(t, "add", "start")'
  BY DEF At, Looks
<1>. QED
  BY <1>1, <1>2 DEF StatInv

LEMMA InfyCbWatches ==
  ASSUME IndInv, StatInv, InfyCb
  PROVE  StatInv'
<1>1. PICK n \in 0 .. Len(events) :
        /\ infy' = [NoInfy EXCEPT !.read = SubSeq(events, 1, n)] /\ events' = SubSeq(events, n + 1, Len(events))
  BY DEF InfyCb
<1>2. /\ stack # <<>> /\ Top.at = "call" /\ Top.pc = "library" /\ stack' = Goto("infy_wd")
      /\ UNCHANGED <<active, file, changes, attr, wd, fs_fd, watch, missed>>
  BY DEF InfyCb, InInfy, TopIs, watchers
<1>3. infy.read = <<>> /\ infy.visit = {}
  BY <1>2, NothingRead DEF TopIs
<1>4. events \in Seq(InotifyEvents) /\ StatTypes
  BY DEF StatInv, StatTypes
<1>5. /\ infy'.read \in Seq(InotifyEvents) /\ events' \in Seq(InotifyEvents)
      /\ EventsOf(events) = EventsOf(infy'.read) \cup EventsOf(events')
      /\ infy'.gone = FALSE /\ infy'.visit = {} /\ infy' = [read |-> infy'.read, gone |-> FALSE, visit |-> {}]
  BY <1>1, <1>4, EventsSplit DEF NoInfy
<1>6. AllEvents' = AllEvents
  <2>1. EventsOf(infy.read) = {}
    BY <1>3 DEF EventsOf
  <2>. QED
    BY <1>5, <2>1 DEF AllEvents, EventsOf
<1>7. /\ stack' # <<>> /\ Top'.at = "call" /\ Top'.pc = "infy_wd" /\ Reading'
  <2>1. PICK t, f : t = Goto("infy_wd") /\ f = [Top EXCEPT !.pc = "infy_wd"]
    OBVIOUS
  <2>2. Nested(stack) /\ Top \in Frames
    BY <1>2, TopFacts
  <2>3. f \in Frames /\ f.at = "call" /\ f.pc = "infy_wd"
    BY <1>2, <2>1, <2>2 DEF Frames
  <2>4. Nested(t) /\ t # <<>> /\ t[Len(t)] = f
    BY <1>2, <2>1, <2>2, <2>3, TopGoto
  <2>5. Len(t) \in 1 .. Len(t)
    BY <2>4 DEF Nested
  <2>. QED
    BY <1>2, <2>1, <2>3, <2>4, <2>5 DEF Top, Reading
<1>8. StatTypes'
  BY <1>2, <1>4, <1>5 DEF StatTypes
<1>9. StatFrames' /\ ~TopIs("stat") /\ ~TopIs("stat")'
  BY <1>2, <1>7 DEF StatFrames, TopIs
<1>10. \A s \in Stats : (IsGone(s) => IsGone(s)') /\ (IsToldOf(s) => IsToldOf(s)')
  BY <1>2, <1>3, <1>6 DEF IsGone, IsToldOf
<1>. QED
  BY <1>2, <1>8, <1>9, <1>10, ReadStep

LEMMA NextEventWatches ==
  ASSUME IndInv, StatInv, NextEvent
  PROVE  StatInv'
<1>1. PICK e : e = infy.read[1]
  OBVIOUS
<1>2. /\ TopIs("call") /\ Top.pc = "infy_wd" /\ infy.visit = {} /\ infy.read # <<>>
      /\ infy' = [read |-> SubSeq(infy.read, 2, Len(infy.read)), gone |-> e.gone, visit |-> {s \in Stats : wd[s] = e.wd}]
      /\ UNCHANGED <<stack, active, file, changes, attr, wd, fs_fd, watch, events, missed>>
  BY <1>1 DEF NextEvent, InInfy, loopvars, watchers, inotify
<1>3. StatTypes /\ infy.read \in Seq(InotifyEvents)
  BY DEF StatInv, StatTypes
<1>4. PICK r : r = SubSeq(infy.read, 2, Len(infy.read))
  OBVIOUS
<1>5. e \in InotifyEvents /\ r \in Seq(InotifyEvents) /\ EventsOf(infy.read) = {e} \cup EventsOf(r)
  <2>1. 1 \in 0 .. Len(infy.read) /\ 1 + 1 = 2
    BY <1>2, <1>3
  <2>2. PICK a : a = SubSeq(infy.read, 1, 1)
    OBVIOUS
  <2>3. r \in Seq(InotifyEvents) /\ EventsOf(infy.read) = EventsOf(a) \cup EventsOf(r)
    BY <1>3, <1>4, <2>1, <2>2, EventsSplit
  <2>4. Len(a) = 1 /\ a[1] = e /\ e \in InotifyEvents
    BY <1>1, <1>3, <2>1, <2>2
  <2>5. EventsOf(a) = {e}
    BY <2>4 DEF EventsOf
  <2>. QED
    BY <2>3, <2>4, <2>5
<1>6. infy'.read = r /\ infy'.gone = e.gone /\ infy'.visit = {s \in Stats : wd[s] = e.wd} /\ e.gone \in BOOLEAN
  BY <1>2, <1>4, <1>5 DEF InotifyEvents
<1>7. AllEvents = AllEvents' \cup {e}
  <2>1. AllEvents' = EventsOf(events) \cup EventsOf(r)
    BY <1>2, <1>6 DEF AllEvents, EventsOf
  <2>. QED
    BY <1>5, <2>1 DEF AllEvents
<1>8. StatTypes'
  BY <1>2, <1>3, <1>4, <1>5, <1>6 DEF StatTypes
<1>9. StatFrames' /\ ~TopIs("stat") /\ ~TopIs("stat")'
  <2>1. Nested(stack) /\ stack # <<>>
    BY <1>2 DEF IndInv, StackSound, TopIs
  <2>2. Len(stack) \in 1 .. Len(stack)
    BY <2>1 DEF Nested
  <2>3. Reading'
    BY <1>2, <2>2 DEF Reading, Top
  <2>. QED
    BY <1>2, <2>3 DEF StatFrames, TopIs, Top
<1>10. ASSUME NEW s \in Stats
       PROVE  (IsGone(s) => IsGone(s)') /\ (IsToldOf(s) => IsToldOf(s)')
  <2>1. IsGone(s) => IsGone(s)'
    <3>1. Event(wd[s], TRUE) = e => s \in infy'.visit /\ infy'.gone
      BY <1>6 DEF Event
    <3>. QED
      BY <1>2, <1>7, <3>1 DEF IsGone
  <2>2. IsToldOf(s) => IsToldOf(s)'
    BY <1>2, <1>6, <1>7 DEF IsToldOf
  <2>. QED
    BY <2>1, <2>2
<1>. QED
  BY <1>2, <1>8, <1>9, <1>10, ReadStep

LEMMA InfyCbReturnsWatches ==
  ASSUME IndInv, StatInv, InfyCbReturns
  PROVE  StatInv'
<1>1. /\ stack # <<>> /\ Top.at = "call" /\ stack' = Return /\ infy.visit = {} /\ infy.read = <<>>
      /\ active' = active /\ UNCHANGED evstat
  BY DEF InfyCbReturns, InInfy, TopIs, watchers
<1>2. ~TopIs("stat") /\ ~TopIs("stat")'
  <2>1. Return # <<>> => Calls(Return[Len(Return)], Top)
    BY <1>1, TopFacts
  <2>2. Return # <<>> => Return[Len(Return)].at = "invoke"
    BY <1>1, <2>1 DEF Calls, Callers
  <2>. QED
    BY <1>1, <2>2 DEF TopIs, Top
<1>. QED
  BY <1>1, <1>2, OtherStep DEF IsActive

\* Who watches the file is told of the change, and then its watch is gone or still
\* that of the file, unless the file was moved away.
LEMMA FileChangesFacts ==
  ASSUME StatTypes, FileChanges
  PROVE  /\ UNCHANGED <<attr, wd, fs_fd, infy>>
         /\ changes' = changes + 1 /\ file' \in [ino : Nat, stamp : {changes + 1}]
         /\ events' \in Seq(InotifyEvents) /\ watch' \in Seq(Int) /\ Len(watch') = Len(watch)
         /\ EventsOf(events) \subseteq EventsOf(events')
         /\ \E moved \in BOOLEAN :
              /\ missed' = missed \cup PassedBy(moved)
              /\ \A d \in 1 .. Len(watch) : watch[d] = file.ino /\ file.ino # 0 =>
                   /\ \E e \in EventsOf(events') : e.wd = d
                   /\ moved \/ Event(d, TRUE) \in EventsOf(events') \/ (watch'[d] = file'.ino /\ file'.ino # 0)
<1>1. changes' = changes + 1 /\ UNCHANGED <<attr, wd, fs_fd, infy>>
  BY DEF FileChanges
<1>2. /\ changes \in Nat /\ file \in [ino : Nat, stamp : 0 .. changes] /\ watch \in Seq(Int) /\ events \in Seq(InotifyEvents)
      /\ Len(watch) \in Nat /\ Wds = 1 .. Len(watch)
  BY DEF StatTypes, Wds
<1>3. ASSUME NEW what
      PROVE  WatchesOf(what) \in SUBSET Int /\ IsFiniteSet(WatchesOf(what))
  <2>1. WatchesOf(what) \subseteq 1 .. Len(watch)
    BY <1>2 DEF WatchesOf
  <2>2. IsFiniteSet(1 .. Len(watch))
    BY <1>2, FS_Interval
  <2>. QED
    BY <2>1, <2>2, FS_Subset
<1>4. \A d, gone : Event(d, gone).wd = d
  BY DEF Event
<1>5. CASE /\ file.ino # 0 /\ file' = [file EXCEPT !.stamp = changes + 1]
           /\ events' = events \o TellAll(WatchesOf(file.ino), FALSE) /\ UNCHANGED watch
           /\ missed' = missed \cup PassedBy(FALSE)
  <2>1. PICK q, ds : q = TellAll(WatchesOf(file.ino), FALSE) /\ ds = WatchesOf(file.ino)
    OBVIOUS
  <2>2. q \in Seq(InotifyEvents) /\ EventsOf(q) = {Event(d, FALSE) : d \in ds}
    BY <1>3, <2>1, EventsTold
  <2>3. events' \in Seq(InotifyEvents) /\ EventsOf(events') = EventsOf(events) \cup EventsOf(q)
    <3>1. events' = events \o q
      BY <1>5, <2>1
    <3>2. events \o q \in Seq(InotifyEvents) /\ EventsOf(events \o q) = EventsOf(events) \cup EventsOf(q)
      BY <1>2, <2>2, EventsJoined
    <3>. QED
      BY <3>1, <3>2
  <2>4. file' \in [ino : Nat, stamp : {changes + 1}] /\ file'.ino = file.ino
    BY <1>2, <1>5
  <2>5. \A d \in 1 .. Len(watch) : watch[d] = file.ino => Event(d, FALSE) \in EventsOf(events')
    BY <1>2, <1>5, <2>1, <2>2, <2>3 DEF WatchesOf, None
  <2>. QED
    BY <1>1, <1>2, <1>4, <1>5, <2>3, <2>4, <2>5
<1>6. ASSUME NEW ino \in {0, changes + 2}, NEW moved \in BOOLEAN,
             /\ file.ino # ino /\ file' = [ino |-> ino, stamp |-> changes + 1]
             /\ file.ino = 0 => ~moved
             /\ events' = events \o TellAll(WatchesOf(file.ino), ~moved)
                                 \o TellAll(IF ino = 0 THEN {} ELSE WatchesOf(Dir), FALSE)
             /\ watch' = IF moved THEN watch ELSE [d \in Wds |-> IF watch[d] = file.ino THEN None ELSE watch[d]]
             /\ missed' = missed \cup PassedBy(moved)
      PROVE  /\ events' \in Seq(InotifyEvents) /\ watch' \in Seq(Int) /\ Len(watch') = Len(watch)
             /\ EventsOf(events) \subseteq EventsOf(events') /\ file' \in [ino : Nat, stamp : {changes + 1}]
             /\ \A d \in 1 .. Len(watch) : watch[d] = file.ino /\ file.ino # 0 => Event(d, ~moved) \in EventsOf(events')
  <2>1. PICK ds, es : ds = WatchesOf(file.ino) /\ es = (IF ino = 0 THEN {} ELSE WatchesOf(Dir))
    OBVIOUS
  <2>2. PICK q, r : q = TellAll(ds, ~moved) /\ r = TellAll(es, FALSE)
    OBVIOUS
  <2>3. ds \in SUBSET Int /\ IsFiniteSet(ds) /\ es \in SUBSET Int /\ IsFiniteSet(es)
    BY <1>3, <2>1, FS_EmptySet
  <2>4. q \in Seq(InotifyEvents) /\ EventsOf(q) = {Event(d, ~moved) : d \in ds}
    <3>1. \A b \in BOOLEAN : \E c \in BOOLEAN : c = ~b
      BY Zenon
    <3>2. PICK gone \in BOOLEAN : gone = ~moved
      BY <3>1, Zenon
    <3>3. TellAll(ds, gone) \in Seq(InotifyEvents) /\ EventsOf(TellAll(ds, gone)) = {Event(d, gone) : d \in ds}
      BY <2>3, EventsTold
    <3>. QED
      BY <2>2, <3>2, <3>3
  <2>5. r \in Seq(InotifyEvents)
    BY <2>2, <2>3, EventsTold
  <2>6. PICK a : a = events \o q
    OBVIOUS
  <2>7. a \in Seq(InotifyEvents) /\ EventsOf(a) = EventsOf(events) \cup EventsOf(q)
    BY <1>2, <2>4, <2>6, EventsJoined
  <2>8. a \o r \in Seq(InotifyEvents) /\ EventsOf(a \o r) = EventsOf(a) \cup EventsOf(r)
    BY <2>5, <2>7, EventsJoined
  <2>9. events' = a \o r
    BY <1>6, <2>1, <2>2, <2>6
  <2>10. \A d \in 1 .. Len(watch) : watch[d] = file.ino /\ file.ino # 0 => d \in ds
    BY <1>2, <2>1 DEF WatchesOf, None
  <2>11. watch' \in Seq(Int) /\ Len(watch') = Len(watch)
    <3>1. CASE moved
      BY <1>2, <1>6, <3>1
    <3>2. CASE ~moved
      <4>1. watch' = [d \in 1 .. Len(watch) |-> IF watch[d] = file.ino THEN None ELSE watch[d]]
        BY <1>2, <1>6, <3>2
      <4>2. watch' \in [1 .. Len(watch) -> Int]
        BY <1>2, <4>1 DEF None
      <4>. QED
        BY SMTT(60), <1>2, <4>2, SeqDef
    <3>. QED
      BY <3>1, <3>2
  <2>12. file' \in [ino : Nat, stamp : {changes + 1}]
    BY <1>2, <1>6
  <2>. QED
    BY <2>4, <2>7, <2>8, <2>9, <2>10, <2>11, <2>12
<1>7. CASE \E ino \in {0, changes + 2}, moved \in BOOLEAN :
             /\ file.ino # ino /\ file' = [ino |-> ino, stamp |-> changes + 1]
             /\ file.ino = 0 => ~moved
             /\ events' = events \o TellAll(WatchesOf(file.ino), ~moved)
                                 \o TellAll(IF ino = 0 THEN {} ELSE WatchesOf(Dir), FALSE)
             /\ watch' = IF moved THEN watch ELSE [d \in Wds |-> IF watch[d] = file.ino THEN None ELSE watch[d]]
             /\ missed' = missed \cup PassedBy(moved)
  <2>1. PICK ino \in {0, changes + 2}, moved \in BOOLEAN :
             /\ file.ino # ino /\ file' = [ino |-> ino, stamp |-> changes + 1]
             /\ file.ino = 0 => ~moved
             /\ events' = events \o TellAll(WatchesOf(file.ino), ~moved)
                                 \o TellAll(IF ino = 0 THEN {} ELSE WatchesOf(Dir), FALSE)
             /\ watch' = IF moved THEN watch ELSE [d \in Wds |-> IF watch[d] = file.ino THEN None ELSE watch[d]]
             /\ missed' = missed \cup PassedBy(moved)
    BY <1>7
  <2>2. /\ events' \in Seq(InotifyEvents) /\ watch' \in Seq(Int) /\ Len(watch') = Len(watch)
        /\ EventsOf(events) \subseteq EventsOf(events') /\ file' \in [ino : Nat, stamp : {changes + 1}]
        /\ \A d \in 1 .. Len(watch) : watch[d] = file.ino /\ file.ino # 0 => Event(d, ~moved) \in EventsOf(events')
    BY <1>6, <2>1
  <2>3. \A d \in 1 .. Len(watch) : watch[d] = file.ino /\ file.ino # 0 =>
          /\ \E e \in EventsOf(events') : e.wd = d
          /\ moved \/ Event(d, TRUE) \in EventsOf(events')
    BY <1>4, <2>2
  <2>4. missed' = missed \cup PassedBy(moved)
    BY <2>1
  <2>. QED
    BY <1>1, <2>2, <2>3, <2>4
<1>. QED
  BY <1>5, <1>7 DEF FileChanges

LEMMA FileChangesWatches ==
  ASSUME IndInv, StatInv, FileChanges, UNCHANGED loopvars
  PROVE  StatInv'
<1>1. UNCHANGED <<stack, active>> /\ StatTypes
  BY DEF loopvars, watchers, StatInv
<1>2. /\ UNCHANGED <<attr, wd, fs_fd, infy>>
      /\ changes' = changes + 1 /\ file' \in [ino : Nat, stamp : {changes + 1}]
      /\ events' \in Seq(InotifyEvents) /\ watch' \in Seq(Int) /\ Len(watch') = Len(watch)
      /\ EventsOf(events) \subseteq EventsOf(events')
  BY <1>1, FileChangesFacts
<1>3. PICK moved \in BOOLEAN :
        /\ missed' = missed \cup PassedBy(moved)
        /\ \A d \in 1 .. Len(watch) : watch[d] = file.ino /\ file.ino # 0 =>
             /\ \E e \in EventsOf(events') : e.wd = d
             /\ moved \/ Event(d, TRUE) \in EventsOf(events') \/ (watch'[d] = file'.ino /\ file'.ino # 0)
  BY <1>1, FileChangesFacts
<1>4. StatTypes'
  <2>1. changes \in Nat /\ 0 .. changes \subseteq 0 .. changes + 1 /\ changes + 1 \in 0 .. changes + 1
    BY <1>1 DEF StatTypes
  <2>2. file' \in [ino : Nat, stamp : 0 .. changes']
    BY <1>2, <2>1
  <2>3. attr' \in [Stats -> [ino : Nat, stamp : 0 .. changes']]
    BY <1>1, <1>2, <2>1 DEF StatTypes
  <2>. QED
    BY <1>1, <1>2, <2>1, <2>2, <2>3 DEF StatTypes
<1>5. StatFrames'
  BY <1>1, <1>2 DEF StatInv, StatFrames, Reading, TopIs, Top
<1>6. ASSUME NEW t \in Stats
      PROVE  /\ Looks(t)' <=> Looks(t)
             /\ \A pc, from : At(t, pc, from)' <=> At(t, pc, from)
             /\ Depends(t)' => Depends(t) /\ t \notin PassedBy(moved)
  BY <1>1, <1>2, <1>3 DEF Looks, At, TopIs, Top, Depends, IsActive
<1>7. ASSUME NEW t \in Stats
      PROVE  /\ IsGone(t) => IsGone(t)' /\ IsToldOf(t)
             /\ IsToldOf(t) => IsToldOf(t)'
             /\ OnFile(t) => IsToldOf(t)' /\ (moved \/ IsGone(t)' \/ OnFile(t)')
             /\ attr[t].ino # 0 => Differs(t)'
  <2>1. AllEvents \subseteq AllEvents' /\ EventsOf(events') \subseteq AllEvents'
    BY <1>2 DEF AllEvents, EventsOf
  <2>2. IsGone(t) => IsGone(t)' /\ IsToldOf(t)
    BY <1>2, <2>1 DEF IsGone, IsToldOf, Event
  <2>3. IsToldOf(t) => IsToldOf(t)'
    BY <1>2, <2>1 DEF IsToldOf
  <2>4. ASSUME OnFile(t)
        PROVE  IsToldOf(t)' /\ (moved \/ IsGone(t)' \/ OnFile(t)')
    <3>1. wd[t] \in 1 .. Len(watch) /\ watch[wd[t]] = file.ino /\ file.ino # 0
      BY <2>4 DEF OnFile
    <3>2. (\E e \in EventsOf(events') : e.wd = wd[t])
          /\ (moved \/ Event(wd[t], TRUE) \in EventsOf(events') \/ (watch'[wd[t]] = file'.ino /\ file'.ino # 0))
      BY <1>3, <3>1
    <3>. QED
      BY <1>2, <2>1, <3>1, <3>2 DEF IsToldOf, IsGone, OnFile
  <2>5. ASSUME attr[t].ino # 0
        PROVE  Differs(t)'
    <3>1. attr[t] \in [ino : Nat, stamp : 0 .. changes] /\ changes \in Nat
      BY <1>1 DEF StatTypes
    <3>2. attr'[t] = attr[t] /\ file'.stamp = changes + 1
      BY <1>2
    <3>3. attr[t].stamp # changes + 1
      BY <3>1
    <3>4. Lstat(t)' # attr[t]
      <4>1. CASE file'.ino = 0
        <5>1. Lstat(t)' = [attr[t] EXCEPT !.ino = 0]
          BY <3>2, <4>1 DEF Lstat
        <5>2. Lstat(t)'.ino = 0
          BY <3>1, <5>1
        <5>. QED
          BY <2>5, <5>2
      <4>2. CASE file'.ino # 0
        <5>1. Lstat(t)' = file'
          BY <4>2 DEF Lstat
        <5>. QED
          BY <3>2, <3>3, <5>1
      <4>. QED
        BY <4>1, <4>2
    <3>. QED
      BY <2>5, <3>2, <3>4 DEF Differs, IsSeen
  <2>. QED
    BY <2>2, <2>3, <2>4, <2>5
<1>8. ASSUME NEW t \in Stats, Depends(t)'
      PROVE  Watched(t)'
  <2>1. Depends(t) /\ t \notin PassedBy(moved) /\ Watched(t)
    BY <1>6, <1>8 DEF StatInv
  <2>2. fs_fd' = 1 /\ wd'[t] = wd[t]
    BY <1>2, <2>1 DEF Watched
  <2>3. Right(t) => Right(t)'
    BY <1>7 DEF Right, Differs
  <2>4. Right(t) /\ (IsSeen(t) \/ IsToldOf(t)) => IsToldOf(t)'
    BY <1>7 DEF Right, Differs
  <2>5. At(t, "stat", "wd") \/ At(t, "again", "cb") => ~moved
    BY <2>1 DEF PassedBy, At, Looks
  <2>6. ~moved /\ (IsGone(t) \/ OnFile(t)) => IsGone(t)' \/ OnFile(t)'
    BY <1>7
  <2>7. Differs(t) => Differs(t)'
    BY <1>7 DEF Differs
  <2>8. ~Looks(t)' => wd'[t] > 0 /\ Right(t)' /\ (IsSeen(t)' \/ IsToldOf(t)')
    BY <1>6, <2>1, <2>2, <2>3, <2>4 DEF Watched
  <2>9. At(t, "stat", "cb")' => wd'[t] > 0 /\ Right(t)'
    BY <1>6, <2>1, <2>2, <2>3 DEF Watched
  <2>10. At(t, "stat", "wd")' => wd'[t] > 0 /\ (IsGone(t)' \/ OnFile(t)' \/ Differs(t)')
    BY <1>6, <2>1, <2>2, <2>5, <2>6, <2>7 DEF Watched
  <2>11. At(t, "again", "cb")' => wd'[t] > 0 /\ (IsGone(t)' \/ OnFile(t)')
    BY <1>6, <2>1, <2>2, <2>5, <2>6 DEF Watched
  <2>. QED
    BY <2>2, <2>8, <2>9, <2>10, <2>11 DEF Watched
<1>9. ASSUME NEW t \in Stats, At(t, "add", "start")'
      PROVE  t \in missed'
  <2>1. At(t, "add", "start")
    BY <1>6, <1>9
  <2>2. t \in PassedBy(moved)
    BY <2>1 DEF At, Looks, PassedBy
  <2>. QED
    BY <1>3, <2>2
<1>. QED
  BY <1>4, <1>5, <1>8, <1>9 DEF StatInv

\* What infy_add, for the ev_stats of S, makes of the inotify state and the watchers
AddedFor(b, c, S, fd, n) ==
  /\ c.k \in InfyTables /\ Sound(c.l, n)
  /\ fd = 1 => \A s \in S : c.k.wd[s] \in 1 .. Len(c.k.watch) /\ c.k.watch[c.k.wd[s]] = What
  /\ \A v \in Watchers : v \in Active(c.l) <=>
       IF \E s \in S : v = TimerOf[s] THEN Polls(fd) ELSE v \in Active(b.l)

LEMMA AddedForOne ==
  ASSUME NEW b, NEW c, NEW S \in SUBSET Stats, NEW fd, NEW n \in Int, AddedFor(b, c, S, fd, n), What \in Int,
         NEW s \in Stats, NEW d,
         d.k = IF fd = 1 THEN InfyAdded(c.k, s) ELSE c.k, d.l = Rearmed(c.l, s, Polls(fd))
  PROVE  AddedFor(b, d, S \cup {s}, fd, n)
<1>1. PICK k, l, repeat : k = c.k /\ l = c.l /\ repeat = Polls(fd)
  OBVIOUS
<1>2. PICK q, m : q = d.k /\ m = d.l
  OBVIOUS
<1>3. k \in InfyTables /\ Sound(l, n) /\ repeat \in BOOLEAN
  BY <1>1 DEF AddedFor, Polls
<1>4. m = Rearmed(l, s, repeat)
  BY <1>1, <1>2
<1>5. Sound(m, n) /\ Active(m) = IF repeat THEN Active(l) \cup {TimerOf[s]} ELSE Active(l) \ {TimerOf[s]}
  BY <1>3, <1>4, RearmedSound
<1>6. /\ q \in InfyTables
      /\ fd = 1 => \A t \in S \cup {s} : q.wd[t] \in 1 .. Len(q.watch) /\ q.watch[q.wd[t]] = What
  <2>1. CASE fd = 1
    <3>1. q = InfyAdded(k, s)
      BY <1>1, <1>2, <2>1
    <3>2. /\ q \in InfyTables
          /\ \A t \in Stats \ {s} : q.wd[t] = k.wd[t]
          /\ q.wd[s] \in 1 .. Len(q.watch) /\ q.watch[q.wd[s]] = What
          /\ Len(k.watch) <= Len(q.watch) /\ \A e \in 1 .. Len(k.watch) : q.watch[e] = k.watch[e]
      BY <1>3, <3>1, InfyAddedFacts
    <3>3. Len(k.watch) \in Nat /\ Len(q.watch) \in Nat
      BY <1>3, <3>2 DEF InfyTables
    <3>4. ASSUME NEW t \in S \ {s}
          PROVE  q.wd[t] \in 1 .. Len(q.watch) /\ q.watch[q.wd[t]] = What
      <4>1. k.wd[t] \in 1 .. Len(k.watch) /\ k.watch[k.wd[t]] = What /\ q.wd[t] = k.wd[t]
        BY <1>1, <2>1, <3>2 DEF AddedFor
      <4>. QED
        BY <3>2, <3>3, <4>1
    <3>. QED
      BY <3>2, <3>4
  <2>2. CASE fd # 1
    BY <1>1, <1>2, <1>3, <2>2
  <2>. QED
    BY <2>1, <2>2
<1>7. ASSUME NEW v \in Watchers
      PROVE  v \in Active(m) <=> IF \E t \in S \cup {s} : v = TimerOf[t] THEN repeat ELSE v \in Active(b.l)
  <2>1. v \in Active(l) <=> IF \E t \in S : v = TimerOf[t] THEN repeat ELSE v \in Active(b.l)
    BY <1>1 DEF AddedFor
  <2>. QED
    BY <1>3, <1>5, <2>1
<1>. QED
  BY <1>1, <1>2, <1>5, <1>6, <1>7 DEF AddedFor

LEMMA AddedForAll ==
  ASSUME NEW both, NEW n \in Int, both.k \in InfyTables, Sound(both.l, n), What \in Int, NEW ss \in Seq(Stats), NEW fd
  PROVE  AddedFor(both, AddedAgain(both, ss, fd), {ss[i] : i \in 1 .. Len(ss)}, fd, n)
<1>1. PICK added : /\ added[0] = both
                   /\ \A i \in 1 .. Len(ss) :
                        /\ added[i].k = IF fd = 1 THEN InfyAdded(added[i - 1].k, ss[i]) ELSE added[i - 1].k
                        /\ added[i].l = Rearmed(added[i - 1].l, ss[i], Polls(fd))
                   /\ AddedAgain(both, ss, fd) = added[Len(ss)]
  <2>1. Len(ss) \in Nat
    OBVIOUS
  <2>. QED
    BY <2>1, AddedAgainSteps
<1>. DEFINE First(i) == {ss[j] : j \in 1 .. i}
            N == {i \in Nat : i <= Len(ss) => AddedFor(both, added[i], First(i), fd, n)}
<1>2. 0 \in N
  <2>1. First(0) = {}
    OBVIOUS
  <2>. HIDE DEF First
  <2>2. AddedFor(both, added[0], First(0), fd, n)
    BY <1>1, <2>1 DEF AddedFor
  <2>. QED
    BY <2>2
<1>3. ASSUME NEW i \in Nat, i \in N
      PROVE  i + 1 \in N
  <2>. SUFFICES ASSUME i + 1 <= Len(ss) PROVE AddedFor(both, added[i + 1], First(i + 1), fd, n)
    OBVIOUS
  <2>1. i + 1 \in 1 .. Len(ss) /\ i + 1 - 1 = i /\ ss[i + 1] \in Stats /\ AddedFor(both, added[i], First(i), fd, n)
    BY <1>3
  <2>2. First(i + 1) = First(i) \cup {ss[i + 1]} /\ First(i) \in SUBSET Stats
    <3>1. 1 .. i + 1 = (1 .. i) \cup {i + 1} /\ \A j \in 1 .. i : ss[j] \in Stats
      BY <2>1
    <3>. QED
      BY <3>1
  <2>. HIDE DEF First, N
  <2>3. PICK c, d, s, S : c = added[i] /\ d = added[i + 1] /\ s = ss[i + 1] /\ S = First(i)
    OBVIOUS
  <2>4. s \in Stats /\ S \in SUBSET Stats /\ AddedFor(both, c, S, fd, n)
    BY <2>1, <2>2, <2>3
  <2>5. d.k = (IF fd = 1 THEN InfyAdded(c.k, s) ELSE c.k) /\ d.l = Rearmed(c.l, s, Polls(fd))
    <3>1. /\ added[i + 1].k = IF fd = 1 THEN InfyAdded(added[i + 1 - 1].k, ss[i + 1]) ELSE added[i + 1 - 1].k
          /\ added[i + 1].l = Rearmed(added[i + 1 - 1].l, ss[i + 1], Polls(fd))
      BY <1>1, <2>1
    <3>. QED
      BY <2>1, <2>3, <3>1
  <2>6. AddedFor(both, d, S \cup {s}, fd, n)
    BY <2>4, <2>5, AddedForOne
  <2>. QED
    BY <2>2, <2>3, <2>6
<1>4. Len(ss) \in N
  <2>. HIDE DEF N
  <2>. QED
    BY <1>2, <1>3, SetInduction
<1>. QED
  BY <1>1, <1>4

LEMMA FreshTables ==
  ASSUME StatTypes
  PROVE  Fresh \in InfyTables
<1>1. PICK w : w = [s \in Stats |-> IF s \in Kept THEN -1 ELSE wd[s]]
  OBVIOUS
<1>2. \A s \in Stats : w[s] \in {-2, -1}
  <2>1. \A s \in Stats : wd[s] \in {-2, -1} \cup 1 .. Len(watch)
    BY DEF StatTypes
  <2>. QED
    BY <1>1, <2>1 DEF Kept
<1>3. <<>> \in Seq(Int) /\ <<>> \in Seq(InotifyEvents)
  OBVIOUS
<1>4. PICK q, p : q = <<>> /\ p = <<>>
  OBVIOUS
<1>5. q \in Seq(Int) /\ p \in Seq(InotifyEvents)
  BY <1>3, <1>4, Zenon
<1>6. w \in [Stats -> Int] /\ Within(w, Len(q))
  BY <1>1, <1>2 DEF Within
<1>7. [wd |-> w, watch |-> q, events |-> p] \in InfyTables
  BY <1>5, <1>6, InfyTable
<1>. QED
  BY <1>1, <1>4, <1>7, Zenon DEF Fresh

LEMMA LoopForkWatches ==
  ASSUME IndInv, StatInv, LoopFork, InfyFork
  PROVE  StatInv'
<1>1. /\ TopIs("run") /\ stack # <<>> /\ Top.at = "run" /\ Top.pc = "loop_fork" /\ stack' = Goto("fd_reify")
  BY DEF LoopFork, InRun, TopIs
<1>2. ~TopIs("stat") /\ ~TopIs("stat")'
  <2>1. Top'.at = "run"
    BY <1>1, RunGoto DEF RunPcs, Top
  <2>. QED
    BY <1>1, <2>1 DEF TopIs
<1>3. infy.read = <<>> /\ infy.visit = {}
  BY <1>1, <1>2, NothingRead
<1>4. CASE fs_fd < 0
  <2>1. active' = active /\ UNCHANGED evstat
    BY <1>4 DEF InfyFork, watchers
  <2>. QED
    BY <1>2, <1>3, <2>1, OtherStep DEF IsActive
<1>5. CASE ~(fs_fd < 0)
  <2>1. PICK fd \in {-1, 1} :
          /\ fs_fd' = fd /\ SetInfy(AddedToFresh(fd).k) /\ SetWs(AddedToFresh(fd).l)
          /\ missed' = (missed \ Kept) \cup {s \in Kept : ~IsSeen(s)}
          /\ UNCHANGED <<file, changes, attr, infy>>
    BY <1>5, InfyForks
  <2>2. StatTypes /\ What \in Int /\ Fresh \in InfyTables
    BY InfyFacts, FreshTables DEF StatInv
  <2>3. PICK g, b, c : g = FsWAgain(fd) /\ b = [k |-> Fresh, l |-> g] /\ c = AddedToFresh(fd)
    OBVIOUS
  <2>4. Sound(g, refs) /\ Active(g) \ {FsW} = Active(Ws) \ {FsW} /\ refs \in Int
    <3>1. Sound(Ws, refs) /\ refs \in Int /\ IsActive(FsW)
      BY <1>5 DEF IndInv, TypeOK
    <3>. QED
      BY <2>3, <3>1, FsWAgainSound
  <2>5. AddedFor(b, c, Kept, fd, refs)
    <3>1. PICK ss : ss = InSomeOrder(Kept)
      OBVIOUS
    <3>2. ss \in Seq(Stats) /\ {ss[i] : i \in 1 .. Len(ss)} = Kept
      BY <3>1, KeptFacts
    <3>3. b.k \in InfyTables /\ Sound(b.l, refs)
      BY <2>2, <2>3, <2>4
    <3>4. c = AddedAgain(b, ss, fd)
      BY <2>3, <3>1 DEF AddedToFresh
    <3>5. AddedFor(b, AddedAgain(b, ss, fd), {ss[i] : i \in 1 .. Len(ss)}, fd, refs)
      BY <2>2, <2>4, <3>2, <3>3, AddedForAll
    <3>. QED
      BY <3>2, <3>4, <3>5
  <2>6. Ws' = c.l
    BY <2>1, <2>3, <2>5, SetWsFacts DEF AddedFor, Sound
  <2>7. wd' = c.k.wd /\ watch' = c.k.watch
    BY <2>1, <2>3 DEF SetInfy
  <2>8. StatTypes'
    <3>1. c.k \in InfyTables /\ SetInfy(c.k)
      BY <2>1, <2>3, <2>5 DEF AddedFor
    <3>2. attr' \in [Stats -> [ino : Nat, stamp : 0 .. changes']]
      BY <2>1, <2>2 DEF StatTypes
    <3>. QED
      BY <2>1, <3>1, <3>2, TypesKept
  <2>9. StatFrames'
    BY <1>2, <1>3, <2>1 DEF StatFrames
  <2>10. \A v \in Watchers : IsActive(v)' <=> IF \E s \in Kept : v = TimerOf[s] THEN Polls(fd) ELSE v \in Active(g)
    <3>1. \A v \in Watchers : v \in Active(Ws)' <=> IF \E s \in Kept : v = TimerOf[s] THEN Polls(fd) ELSE v \in Active(g)
      BY <2>3, <2>5, <2>6 DEF AddedFor, Active
    <3>. QED
      BY <3>1, ActiveFacts
  <2>11. ASSUME NEW t \in Stats, Depends(t)'
         PROVE  Watched(t)'
    <3>1. IsActive(t)' /\ ~IsActive(TimerOf[t])' /\ t \notin missed'
      BY <2>11 DEF Depends
    <3>2. t \in Watchers \ {FsW} /\ TimerOf[t] \in Watchers \ {FsW} /\ \A s \in Stats : t # TimerOf[s] /\ (s # t => TimerOf[s] # TimerOf[t])
      BY StatWatchers, EvLoopAssumption, EvStatAssumption
    <3>3. \A v \in Watchers \ {FsW} : v \in Active(g) <=> IsActive(v)
      BY <2>4, ActiveFacts
    <3>4. Kept \subseteq Stats
      BY DEF Kept
    <3>5. t \in Kept
      <4>. SUFFICES ASSUME t \notin Kept PROVE FALSE
        OBVIOUS
      <4>1. IsActive(t) /\ ~IsActive(TimerOf[t])
        BY <2>10, <3>1, <3>2, <3>3, <3>4
      <4>2. Depends(t)
        BY <2>1, <3>1, <4>1 DEF Depends
      <4>3. wd[t] > 0
        BY <1>2, <4>2 DEF StatInv, Watched, Looks
      <4>4. wd[t] \in Int
        BY <2>2, InfyFacts DEF InfyTables
      <4>. QED
        BY <4>3, <4>4 DEF Kept
    <3>6. ~Polls(fd)
      BY <2>10, <3>1, <3>2, <3>5
    <3>7. fd = 1 /\ file.ino # 0
      BY <3>6 DEF Polls
    <3>8. wd'[t] \in 1 .. Len(watch') /\ watch'[wd'[t]] = file.ino /\ Len(watch') \in Nat
      BY <2>5, <2>7, <2>8, <3>5, <3>7 DEF AddedFor, What, StatTypes
    <3>9. IsSeen(t)
      BY <2>1, <3>1, <3>5
    <3>10. IsSeen(t)'
      BY <2>1, <3>9, SameFile
    <3>11. attr'[t].ino # 0
      BY <2>1, <2>2, <3>7, <3>9, LstatType DEF IsSeen
    <3>12. OnFile(t)' /\ wd'[t] > 0
      BY <2>1, <3>7, <3>8 DEF OnFile
    <3>. QED
      BY <1>2, <2>1, <3>7, <3>10, <3>11, <3>12 DEF Watched, Right, At, Looks
  <2>12. \A t \in Stats : ~At(t, "add", "start")'
    BY <1>2 DEF At, Looks
  <2>. QED
    BY <2>8, <2>9, <2>11, <2>12 DEF StatInv
<1>. QED
  BY <1>4, <1>5

-------------------------------------------------------------------------------
(* The other steps *)

\* The watchers of ev_stat, but that of inotify's descriptor
StatsOwn == Stats \cup {TimerOf[s] : s \in Stats}

\* The call on the top is neither one of ev_stat nor infy_cb amid its events.
Elsewhere == stack # <<>> => Top.at # "stat" /\ (Top.at = "call" => Top.pc # "infy_wd")

LEMMA ElsewhereStep ==
  ASSUME IndInv, StatInv, UNCHANGED evstat, Elsewhere, ~TopIs("stat")',
         NEW X, X \cap StatsOwn = {}, Active(Ws') \ X = Active(Ws) \ X
  PROVE  StatInv'
<1>1. stack # <<>> => Top.pc # "infy_wd"
  <2>. SUFFICES ASSUME stack # <<>> PROVE Top.pc # "infy_wd"
    OBVIOUS
  <2>1. Top \in Frames
    BY TopFacts
  <2>2. Top.at # "call" => Top.pc # "infy_wd"
    BY <2>1 DEF Frames
  <2>. QED
    BY <2>2 DEF Elsewhere
<1>2. ~TopIs("stat")
  BY DEF Elsewhere, TopIs
<1>3. infy.read = <<>> /\ infy.visit = {}
  BY <1>1, <1>2, NothingRead
<1>4. ASSUME NEW w \in Watchers, w \in StatsOwn
      PROVE  IsActive(w)' <=> IsActive(w)
  <2>1. w \notin X
    BY <1>4
  <2>2. w \in Active(Ws') <=> w \in Active(Ws)
    BY <2>1
  <2>. QED
    BY <2>2, ActiveFacts DEF Active
<1>5. ASSUME NEW s \in Stats
      PROVE  (IsActive(s)' <=> IsActive(s)) /\ (IsActive(TimerOf[s])' <=> IsActive(TimerOf[s]))
  <2>1. s \in Watchers /\ TimerOf[s] \in Watchers
    BY EvLoopAssumption, EvStatAssumption
  <2>2. s \in StatsOwn /\ TimerOf[s] \in StatsOwn
    BY DEF StatsOwn
  <2>. QED
    BY <1>4, <2>1, <2>2
<1>. QED
  BY <1>2, <1>3, <1>5, OtherStep

LEMMA SameActive ==
  ASSUME IndInv, StatInv, UNCHANGED evstat, Elsewhere, ~TopIs("stat")', Active(Ws') = Active(Ws)
  PROVE  StatInv'
<1>1. PICK X : X = {}
  OBVIOUS
<1>2. X \cap StatsOwn = {} /\ Active(Ws') \ X = Active(Ws) \ X
  BY <1>1
<1>. QED
  BY <1>2, ElsewhereStep

LEMMA NotByReturn ==
  ASSUME IndInv, stack # <<>>, stack' = Return
  PROVE  ~TopIs("stat")'
<1>1. Top \in Frames /\ (Return # <<>> => Calls(Return[Len(Return)], Top))
  BY TopFacts
<1>2. Top.at \in {"run", "invoke", "call", "stat", "destroy", "destroyed"}
  BY <1>1 DEF Frames
<1>3. Return # <<>> => Return[Len(Return)].at # "stat"
  BY <1>1, <1>2 DEF Calls, Callers
<1>. QED
  BY <1>3 DEF TopIs, Top

LEMMA NotByCall ==
  ASSUME NEW s, Nested(s), NEW f \in Frames, f.at # "stat", stack' = Append(s, f)
  PROVE  ~TopIs("stat")'
<1>1. s \in Seq(Frames)
  BY DEF Nested
<1>2. PICK t : t = Append(s, f)
  OBVIOUS
<1>3. t[Len(t)] = f
  BY <1>1, <1>2
<1>. QED
  BY <1>2, <1>3 DEF TopIs, Top

LEMMA NotByGoto ==
  ASSUME IndInv, TopIs("run"), NEW pc \in RunPcs, stack' = Goto(pc)
  PROVE  ~TopIs("stat")'
<1>1. stack'[Len(stack')].at = "run"
  BY RunGoto
<1>. QED
  BY <1>1 DEF TopIs, Top

LEMMA FeedsActive ==
  ASSUME IndInv, NEW s, NEW l, Nested(s), Feeds(Ws, l, refs), Invoking(s, l)
  PROVE  ~TopIs("stat")' /\ Active(Ws') = Active(Ws)
<1>1. PICK m : m = [l EXCEPT !.pendingpri = NumPri - 1]
  OBVIOUS
<1>2. Sound(m, refs) /\ Active(m) = Active(l)
  BY <1>1, GrowsSame, FromTopSound DEF Feeds
<1>3. Ws' = m
  BY <1>1, <1>2, SetWsFacts DEF Invoking, Sound
<1>4. PICK f : f = InvokeFrame
  OBVIOUS
<1>5. f \in Frames /\ f.at # "stat" /\ stack' = Append(s, f)
  BY <1>4 DEF InvokeFrame, Frame, Frames, Invoking
<1>. QED
  BY <1>2, <1>3, <1>5, NotByCall DEF Feeds

LEMMA InvokePendingWatches ==
  ASSUME IndInv, StatInv, InvokePending, UNCHANGED evstat
  PROVE  StatInv'
<1>1. Active(Ws') = Active(Ws)
  <2>1. active' = active
    BY DEF InvokePending, SetWs, Ws
  <2>. QED
    BY <2>1 DEF Active, Ws
<1>2. TopIs("invoke") /\ Elsewhere /\ stack # <<>> /\ Nested(stack)
  BY TopFacts DEF InvokePending, TopIs, Elsewhere
<1>3. PICK w : stack' = stack \/ (stack' = Append(stack, CallFrame(w)))
  BY DEF InvokePending
<1>4. ~TopIs("stat")'
  <2>1. CASE stack' = stack
    BY <1>2, <2>1 DEF TopIs, Top
  <2>2. CASE stack' = Append(stack, CallFrame(w))
    <3>1. PICK f, t : f = CallFrame(w) /\ t = Append(stack, f)
      OBVIOUS
    <3>2. f.at = "call"
      BY <3>1 DEF CallFrame, Frame
    <3>3. stack \in Seq(Frames)
      BY <1>2 DEF Nested
    <3>4. t[Len(t)] = f
      <4>1. stack \in Seq(Frames \cup {f})
        BY <3>3, SeqDef
      <4>. QED
        BY <3>1, <4>1
    <3>. QED
      BY <2>2, <3>1, <3>2, <3>4 DEF TopIs, Top
  <2>. QED
    BY <1>3, <2>1, <2>2
<1>. QED
  BY <1>1, <1>2, <1>4, SameActive

LEMMA LoopStepWatches ==
  ASSUME IndInv, StatInv, LoopStep, UNCHANGED <<libevent, evstat>>
  PROVE  StatInv'
<1>. USE DEF InRun
<1>1. CASE InvokePending
  BY <1>1, InvokePendingWatches
<1>2. CASE InvokeReturns
  <2>1. active' = active
    BY <1>2 DEF InvokeReturns, SetWs, Ws
  <2>2. Active(Ws') = Active(Ws)
    BY <2>1 DEF Active, Ws
  <2>3. Elsewhere /\ stack # <<>> /\ stack' = Return
    BY <1>2 DEF InvokeReturns, TopIs, Elsewhere
  <2>. QED
    BY <2>2, <2>3, NotByReturn, SameActive
<1>3. CASE CallReturns
  <2>1. Elsewhere /\ stack # <<>> /\ stack' = Return
    BY <1>3 DEF CallReturns, InUser, TopIs, Elsewhere
  <2>2. Ws' = Ws
    BY <1>3, SameWs DEF CallReturns
  <2>. QED
    BY <2>1, <2>2, NotByReturn, SameActive
<1>4. CASE QueueForks \/ QueuePrepares
  <2>1. TopIs("run") /\ Elsewhere
    BY <1>4 DEF QueueForks, QueuePrepares, TopIs, Elsewhere
  <2>2. PICK pc \in RunPcs, k \in {"fork", "prepare"} :
          Invoking(Goto(pc), FedAll(Ws, arrays[<<k, 0>>])) \/ (stack' = Goto(pc) /\ UNCHANGED watchers)
    BY <1>4 DEF QueueForks, QueuePrepares, RunPcs
  <2>3. CASE Invoking(Goto(pc), FedAll(Ws, arrays[<<k, 0>>]))
    <3>1. PICK s, l : s = Goto(pc) /\ l = FedAll(Ws, Ws.arrays[<<k, 0>>])
      OBVIOUS
    <3>2. Nested(s)
      BY <2>1, <3>1, RunGoto
    <3>3. Feeds(Ws, l, refs)
      BY <3>1, GrowsSame, KeysOfLoop, ArrayFed DEF Grows, Widens
    <3>4. Invoking(s, l)
      BY <2>3, <3>1, WsFacts
    <3>. QED
      BY <2>1, <3>2, <3>3, <3>4, FeedsActive, SameActive
  <2>4. CASE stack' = Goto(pc) /\ UNCHANGED watchers
    BY <2>1, <2>4, NotByGoto, SameWs, SameActive
  <2>. QED
    BY <2>2, <2>3, <2>4
<1>5. CASE BreakOff \/ RunReturns
  <2>1. Elsewhere /\ stack # <<>> /\ stack' = Return
    BY <1>5 DEF BreakOff, RunReturns, Leave, TopIs, Elsewhere
  <2>2. Ws' = Ws
    BY <1>5, SameWs DEF BreakOff, RunReturns, Leave
  <2>. QED
    BY <2>1, <2>2, NotByReturn, SameActive
<1>6. CASE GoOn \/ NextIteration
  <2>1. TopIs("run") /\ Elsewhere
    BY <1>6 DEF GoOn, NextIteration, TopIs, Elsewhere
  <2>2. PICK pc \in RunPcs : stack' = Goto(pc)
    BY <1>6 DEF GoOn, NextIteration, RunPcs
  <2>3. Ws' = Ws
    BY <1>6, SameWs DEF GoOn, NextIteration
  <2>. QED
    BY <2>1, <2>2, <2>3, NotByGoto, SameActive
<1>7. CASE FdReify
  <2>1. TopIs("run") /\ Elsewhere /\ stack' = Goto("poll")
    BY <1>7 DEF FdReify, TopIs, Elsewhere
  <2>2. ~TopIs("stat")'
    BY <2>1, NotByGoto DEF RunPcs
  <2>3. CASE UNCHANGED watchers
    BY <2>1, <2>2, <2>3, SameWs, SameActive
  <2>4. ASSUME NEW w \in Watchers \ Unreferenced, Kind[w] = "io", SetWs(Killed(Ws, w))
        PROVE  StatInv'
    <3>1. PICK m : m = Killed(Ws, w)
      OBVIOUS
    <3>2. Sound(m, refs) /\ Active(m) = Active(Ws) \ {w}
      BY <3>1, GrowsSame, KilledSound DEF Grows, Widens
    <3>3. Ws' = m
      BY <2>4, <3>1, <3>2, SetWsFacts DEF Sound
    <3>4. PICK X : X = {w}
      OBVIOUS
    <3>5. X \cap StatsOwn = {} /\ Active(Ws') \ X = Active(Ws) \ X
      BY <2>4, <3>2, <3>3, <3>4, EvStatAssumption DEF StatsOwn
    <3>. QED
      BY <2>1, <2>2, <3>5, ElsewhereStep
  <2>. QED
    BY <1>7, <2>3, <2>4 DEF FdReify
<1>8. CASE Destroyed
  <2>1. Elsewhere
    BY <1>8 DEF Destroyed, TopIs, Elsewhere
  <2>2. ~TopIs("stat")'
    BY <1>8 DEF Destroyed, Frame, TopIs, Top
  <2>3. Ws' = Ws
    BY <1>8, SameWs DEF Destroyed
  <2>. QED
    BY <2>1, <2>2, <2>3, SameActive
<1>. QED
  BY <1>1, <1>2, <1>3, <1>4, <1>5, <1>6, <1>7, <1>8 DEF LoopStep

LEMMA PollWatches ==
  ASSUME IndInv, StatInv, NEW happened \in SUBSET MayHappen, Poll(happened), UNCHANGED <<libevent, evstat>>
  PROVE  StatInv'
<1>1. TopIs("run") /\ Elsewhere
  BY DEF Poll, InRun, TopIs, Elsewhere
<1>2. PICK s, l : /\ s = Goto("tail")
                  /\ l = FedAll(IdleReified(FedAll(Ws, InSomeOrder(happened))), arrays[<<"check", 0>>])
  OBVIOUS
<1>3. Nested(s)
  BY <1>1, <1>2, RunGoto DEF RunPcs
<1>4. Feeds(Ws, l, refs)
  BY <1>2, PollFeeds
<1>5. Invoking(s, l)
  BY <1>2 DEF Poll
<1>. QED
  BY <1>1, <1>3, <1>4, <1>5, FeedsActive, SameActive

\* A call of the user changes but the watchers it is about.
LEMMA UserWatches ==
  ASSUME IndInv, StatInv, UNCHANGED evstat, stack = <<>> \/ InUser, UNCHANGED stack,
         NEW m, SetWs(m), Sound(m, refs), NEW X, X \cap StatsOwn = {}, Active(m) \ X = Active(Ws) \ X
  PROVE  StatInv'
<1>1. Elsewhere /\ ~TopIs("stat")
  BY DEF InUser, TopIs, Elsewhere
<1>2. ~TopIs("stat")'
  BY <1>1 DEF TopIs, Top
<1>3. Ws' = m
  BY SetWsFacts DEF Sound
<1>. QED
  BY <1>1, <1>2, <1>3, ElsewhereStep

LEMMA UserStepWatches ==
  ASSUME IndInv, StatInv, UserStep, UNCHANGED <<libevent, evstat>>
  PROVE  StatInv'
<1>1. Sound(Ws, refs) /\ refs \in Int
  BY GrowsSame DEF Grows, Widens
<1>2. (stack = <<>> \/ InUser) => Elsewhere /\ ~TopIs("stat") /\ Nested(stack)
  BY ActsFacts DEF InUser, TopIs, Elsewhere
<1>3. ASSUME NEW flags \in EvRunFlags, Run(flags)
      PROVE  StatInv'
  <2>1. PICK f, s : f = Frame("run", "fork", flags, Dummy) /\ s = Append(stack, f)
    OBVIOUS
  <2>2. (stack = <<>> \/ InUser) /\ Invoking(s, Ws)
    BY <1>3, <2>1 DEF Run, Acts
  <2>3. f \in Frames /\ f.at = "run" /\ f.pc = "fork"
    BY <2>1 DEF Frame, Frames
  <2>4. stack # <<>> => Calls(stack[Len(stack)], f)
    <3>1. stack # <<>> => stack[Len(stack)].at = "call" /\ stack[Len(stack)].pc = "user"
      BY <2>2 DEF InUser, TopIs, Top
    <3>. QED
      BY <2>2, <2>3, <3>1, ActsFacts DEF Calls, Callers
  <2>5. Nested(s)
    BY <1>2, <2>1, <2>2, <2>3, <2>4, PushNested
  <2>6. Feeds(Ws, Ws, refs)
    BY <1>1 DEF Feeds
  <2>. QED
    BY <1>2, <2>2, <2>5, <2>6, FeedsActive, SameActive
<1>4. ASSUME NEW w \in Startable, Start(w)
      PROVE  StatInv'
  <2>1. PICK m, X : m = Started(Ws, w) /\ X = {w}
    OBVIOUS
  <2>2. (stack = <<>> \/ InUser) /\ SetWs(m) /\ UNCHANGED stack /\ ~IsActive(w)
    BY <1>4, <2>1 DEF Start, Acts
  <2>3. w \in Watchers \ Unreferenced /\ w \notin Active(Ws) /\ X \cap StatsOwn = {}
    <3>1. w \in Mine /\ Kind[w] # "stat"
      BY DEF Startable
    <3>. QED
      BY <2>1, <2>2, <3>1, ActsFacts, ActiveFacts, EvStatAssumption DEF StatsOwn
  <2>4. Sound(m, refs) /\ Active(m) = Active(Ws) \cup {w}
    BY <1>1, <2>1, <2>3, StartedPlain
  <2>5. Active(m) \ X = Active(Ws) \ X
    BY <2>1, <2>4
  <2>. QED
    BY <2>2, <2>3, <2>4, <2>5, UserWatches
<1>5. ASSUME NEW w \in Startable, Stop(w)
      PROVE  StatInv'
  <2>1. PICK m, X : m = Stopped(Ws, w) /\ X = {w}
    OBVIOUS
  <2>2. (stack = <<>> \/ InUser) /\ SetWs(m) /\ UNCHANGED stack
    BY <1>5, <2>1 DEF Stop, Acts
  <2>3. w \in Watchers \ Unreferenced /\ X \cap StatsOwn = {}
    <3>1. w \in Mine /\ Kind[w] # "stat"
      BY DEF Startable
    <3>. QED
      BY <2>1, <2>2, <3>1, ActsFacts, EvStatAssumption DEF StatsOwn
  <2>4. Sound(m, refs) /\ Active(m) = Active(Ws) \ {w}
    BY <1>1, <2>1, <2>3, StoppedPlain
  <2>5. Active(m) \ X = Active(Ws) \ X
    BY <2>1, <2>4
  <2>. QED
    BY <2>2, <2>3, <2>4, <2>5, UserWatches
<1>6. ASSUME NEW w \in Mine, Feed(w) \/ ClearPending(w)
      PROVE  StatInv'
  <2>1. PICK l, m : l = Fed(Ws, w) /\ m = Cleared(Ws, w)
    OBVIOUS
  <2>2. (stack = <<>> \/ InUser) /\ (SetWs(l) \/ SetWs(m)) /\ UNCHANGED stack
    BY <1>6, <2>1 DEF Feed, ClearPending, Acts
  <2>3. w \in Watchers
    BY <2>2, ActsFacts
  <2>4. Sound(l, refs) /\ Active(l) = Active(Ws)
    BY <1>1, <2>1, <2>3, FedSound
  <2>5. Sound(m, refs) /\ Active(m) = Active(Ws)
    BY <1>1, <2>1, <2>3, ClearedSound
  <2>6. PICK X : X = {}
    OBVIOUS
  <2>7. X \cap StatsOwn = {} /\ Active(l) \ X = Active(Ws) \ X /\ Active(m) \ X = Active(Ws) \ X
    BY <2>4, <2>5, <2>6
  <2>. QED
    BY <2>2, <2>4, <2>5, <2>7, UserWatches
<1>7. ASSUME (\E how \in {"one", "all", "cancel"} : Break(how)) \/ Ref \/ Unref \/ Fork
      PROVE  StatInv'
  <2>1. (stack = <<>> \/ InUser) /\ UNCHANGED <<stack, active>>
    BY <1>7 DEF Break, Ref, Unref, Fork, Acts, watchers
  <2>2. ~TopIs("stat")' /\ Active(Ws') = Active(Ws)
    BY <1>2, <2>1 DEF TopIs, Top, Active, Ws
  <2>. QED
    BY <1>2, <2>1, <2>2, SameActive
<1>8. CASE Destroy
  <2>1. PICK f : f = Frame("destroy", "", "", Dummy)
    OBVIOUS
  <2>2. PICK s : s = <<f>>
    OBVIOUS
  <2>3. PICK l : l = FedAll(Ws, Ws.arrays[<<"cleanup", 0>>])
    OBVIOUS
  <2>4. stack = <<>> /\ (Invoking(s, l) \/ (stack' = s /\ UNCHANGED watchers))
    BY <1>8, <2>1, <2>2, <2>3, WsFacts DEF Destroy
  <2>5. f \in Frames /\ f.at = "destroy"
    BY <2>1 DEF Frame, Frames
  <2>6. Nested(s)
    <3>1. s = Append(<<>>, f)
      BY <2>2
    <3>. QED
      BY <2>5, <3>1, EmptyNested, PushNested
  <2>7. Feeds(Ws, l, refs)
    BY <1>1, <2>3, KeysOfLoop, ArrayFed
  <2>8. CASE Invoking(s, l)
    BY <1>2, <2>4, <2>6, <2>7, <2>8, FeedsActive, SameActive
  <2>9. CASE stack' = s /\ UNCHANGED watchers
    <3>1. ~TopIs("stat")'
      BY <2>2, <2>5, <2>9 DEF TopIs, Top
    <3>. QED
      BY <1>2, <2>4, <2>9, <3>1, SameWs, SameActive
  <2>. QED
    BY <2>4, <2>8, <2>9
<1>. QED
  BY <1>3, <1>4, <1>5, <1>6, <1>7, <1>8 DEF UserStep

\* libevent and ev_once have watchers of their own.
LEMMA LibraryWatchers ==
  /\ \A e \in Events : Of(e) \cap StatsOwn = {} /\ IoSig[e] \in Watchers \ Unreferenced /\ To[e] \in Watchers \ Unreferenced
  /\ \A o \in Onces : OfOnce(o) \cap StatsOwn = {} /\ OnceIo[o] \in Watchers \ Unreferenced /\ OnceTo[o] \in Watchers \ Unreferenced
<1>1. /\ \A e \in Events : IoSig[e] \in Library \ Unreferenced /\ To[e] \in Library \ Unreferenced
      /\ \A o \in Onces : OnceIo[o] \in Library \ Unreferenced /\ OnceTo[o] \in Library \ Unreferenced
      /\ Library \subseteq Watchers
  BY EvLoopAssumption, LibEventAssumption
<1>2. \A s \in Stats : s \notin Library /\ TimerOf[s] \in Unreferenced
  BY EvStatAssumption
<1>. QED
  BY <1>1, <1>2 DEF Of, OfOnce, StatsOwn

LEMMA LibraryCallWatches ==
  ASSUME IndInv, StatInv, UNCHANGED evstat, TopIs("call"), Top.pc = "library", ~TopIs("stat")',
         NEW m, SetWs(m), Sound(m, refs), NEW X, X \cap StatsOwn = {}, Active(m) \ X = Active(Ws) \ X
  PROVE  StatInv'
<1>1. Elsewhere
  BY DEF TopIs, Elsewhere
<1>2. Ws' = m
  BY SetWsFacts DEF Sound
<1>. QED
  BY <1>1, <1>2, ElsewhereStep

LEMMA NotByUser ==
  ASSUME IndInv, TopIs("call"), stack' = Goto("user")
  PROVE  ~TopIs("stat")'
<1>1. Nested(stack) /\ Top \in Frames /\ stack # <<>> /\ Top.at = "call"
  BY TopFacts DEF TopIs
<1>2. [Top EXCEPT !.pc = "user"] \in Frames /\ [Top EXCEPT !.pc = "user"].at = "call"
  BY <1>1 DEF Frames
<1>3. Top' = [Top EXCEPT !.pc = "user"]
  BY <1>1, <1>2, TopGoto DEF Top
<1>. QED
  BY <1>2, <1>3 DEF TopIs

LEMMA LibEventWatches ==
  ASSUME IndInv, StatInv, LibEventCallbacks \/ LibEventCalls, UNCHANGED evstat
  PROVE  StatInv'
<1>1. Sound(Ws, refs) /\ refs \in Int
  BY GrowsSame DEF Grows, Widens
<1>2. ASSUME NEW e \in Events
      PROVE  /\ Sound(Deleted(Ws, e), refs) /\ Active(Deleted(Ws, e)) \ Of(e) = Active(Ws) \ Of(e)
             /\ Of(e) \cap StatsOwn = {}
  BY <1>1, DeletedSound, LibraryWatchers DEF Of
<1>3. ASSUME NEW e \in Events, EvXCbIoSig(e) \/ EvXCbTo(e)
      PROVE  StatInv'
  <2>1. /\ TopIs("call") /\ Top.pc = "library" /\ stack' = Goto("user")
        /\ SetWs(Deleted(Ws, e)) \/ UNCHANGED watchers
    BY <1>3 DEF EvXCbIoSig, EvXCbTo, InLibrary, EvXCb
  <2>2. ~TopIs("stat")' /\ Elsewhere
    BY <2>1, NotByUser DEF TopIs, Elsewhere
  <2>3. CASE SetWs(Deleted(Ws, e))
    BY <1>2, <2>1, <2>2, <2>3, LibraryCallWatches
  <2>4. CASE UNCHANGED watchers
    BY <2>2, <2>4, SameWs, SameActive
  <2>. QED
    BY <2>1, <2>3, <2>4
<1>4. ASSUME NEW o \in Onces, NEW w, OnceCb(o, w)
      PROVE  StatInv'
  <2>1. PICK m : m = OnceStopped(Ws, o, w)
    OBVIOUS
  <2>2. /\ TopIs("call") /\ Top.pc = "library" /\ (stack' = Goto("user") \/ stack' = Return)
        /\ SetWs(m)
    BY <1>4, <2>1 DEF OnceCb, InLibrary, EvXCb
  <2>3. ~TopIs("stat")'
    BY <2>2, NotByUser, NotByReturn DEF TopIs
  <2>4. Sound(m, refs) /\ Active(m) \ OfOnce(o) = Active(Ws) \ OfOnce(o)
    BY <1>1, <2>1, OnceStoppedSound DEF OfOnce
  <2>. QED
    BY <2>2, <2>3, <2>4, LibraryWatchers, LibraryCallWatches
<1>5. ASSUME NEW e \in Events, NEW tv \in BOOLEAN, EventAdd(e, tv)
      PROVE  StatInv'
  <2>1. PICK l, m : l = StartedOnce(Ws, IoSig[e]) /\ m = TimerAgain(l, To[e], tv)
    OBVIOUS
  <2>2. (stack = <<>> \/ InUser) /\ UNCHANGED stack /\ SetWs(m)
    BY <1>5, <2>1 DEF EventAdd, Acts
  <2>3. IoSig[e] \in Watchers \ Unreferenced /\ To[e] \in Watchers \ Unreferenced /\ Of(e) \cap StatsOwn = {}
    BY LibraryWatchers
  <2>4. Sound(l, refs) /\ Active(l) = Active(Ws) \cup {IoSig[e]}
    BY <1>1, <2>1, <2>3, StartedOnceSound
  <2>5. Sound(m, refs) /\ Active(m) \ {To[e]} = Active(l) \ {To[e]}
    BY <1>1, <2>1, <2>3, <2>4, TimerAgainSound
  <2>6. Active(m) \ Of(e) = Active(Ws) \ Of(e)
    BY <2>4, <2>5 DEF Of
  <2>. QED
    BY <2>2, <2>3, <2>5, <2>6, UserWatches
<1>6. ASSUME NEW e \in Events, EventDel(e)
      PROVE  StatInv'
  <2>1. (stack = <<>> \/ InUser) /\ UNCHANGED stack /\ SetWs(Deleted(Ws, e))
    BY <1>6 DEF EventDel, Acts
  <2>. QED
    BY <1>2, <2>1, UserWatches
<1>7. ASSUME NEW e \in Events, NEW w, EventActive(e, w)
      PROVE  StatInv'
  <2>1. PICK m, X : m = Fed(Ws, w) /\ X = {}
    OBVIOUS
  <2>2. (stack = <<>> \/ InUser) /\ UNCHANGED stack /\ SetWs(m) /\ w \in Watchers
    BY <1>7, <2>1, LibraryWatchers DEF EventActive, Acts
  <2>3. Sound(m, refs) /\ Active(m) = Active(Ws)
    BY <1>1, <2>1, <2>2, FedSound
  <2>4. X \cap StatsOwn = {} /\ Active(m) \ X = Active(Ws) \ X
    BY <2>1, <2>3
  <2>. QED
    BY <2>2, <2>3, <2>4, UserWatches
<1>8. ASSUME NEW o \in Onces, NEW cb \in {"user", "exit"}, NEW ws, Once(o, cb, ws)
      PROVE  StatInv'
  <2>. DEFINE io == IF OnceIo[o] \in ws THEN Started(Ws, OnceIo[o]) ELSE Ws
              to == IF OnceTo[o] \in ws THEN Started(io, OnceTo[o]) ELSE io
  <2>1. PICK l, m : l = io /\ m = to
    OBVIOUS
  <2>2. (stack = <<>> \/ InUser) /\ UNCHANGED stack /\ SetWs(m) /\ once[o] = "free"
    BY <1>8, <2>1 DEF Once, Acts
  <2>3. /\ OnceIo[o] \in Watchers \ Unreferenced /\ OnceTo[o] \in Watchers \ Unreferenced
        /\ OnceIo[o] # OnceTo[o] /\ OnceIo[o] \notin Active(Ws) /\ OnceTo[o] \notin Active(Ws)
    BY <2>2, DistinctWatchers, GoneFacts DEF OfOnce
  <2>4. Sound(l, refs) /\ Active(l) \ {OnceIo[o]} = Active(Ws) \ {OnceIo[o]} /\ OnceTo[o] \notin Active(l)
    BY <1>1, <2>1, <2>3, StartedPlain
  <2>5. Sound(m, refs) /\ Active(m) \ {OnceTo[o]} = Active(l) \ {OnceTo[o]}
    BY <1>1, <2>1, <2>3, <2>4, StartedPlain
  <2>6. Active(m) \ OfOnce(o) = Active(Ws) \ OfOnce(o)
    BY <2>4, <2>5 DEF OfOnce
  <2>. HIDE DEF io, to
  <2>. QED
    BY <2>2, <2>5, <2>6, LibraryWatchers, UserWatches
<1>9. CASE LibEventCallbacks
  BY <1>3, <1>4, <1>9 DEF LibEventCallbacks
<1>10. CASE LibEventCalls
  <2>1. MyEvents \subseteq Events /\ MyOnces \subseteq Onces
    BY DEF MyEvents, MyOnces
  <2>2. ASSUME NEW o \in Onces, EventBaseOnce(o) \/ EventBaseLoopexit(o)
        PROVE  StatInv'
    BY <1>8, <2>2 DEF EventBaseOnce, EventBaseLoopexit
  <2>. QED
    BY <1>5, <1>6, <1>7, <1>10, <2>1, <2>2 DEF LibEventCalls
<1>. QED
  BY <1>9, <1>10

LEMMA StatSame ==
  ASSUME IndInv, StatInv, UNCHANGED vars
  PROVE  StatInv'
<1>1. UNCHANGED <<stack, active, file, changes, attr, wd, fs_fd, watch, events, infy, missed>>
  BY DEF vars, loopvars, watchers, evstat, inotify
<1>2. StatTypes'
  BY <1>1 DEF StatInv, StatTypes
<1>3. StatFrames'
  BY <1>1 DEF StatInv, StatFrames, Reading, TopIs, Top
<1>4. ASSUME NEW s \in Stats
      PROVE  /\ (Depends(s)' <=> Depends(s)) /\ (Watched(s)' <=> Watched(s)) /\ (IsSeen(s)' <=> IsSeen(s))
             /\ (At(s, "add", "start")' <=> At(s, "add", "start"))
  <2>1. AllEvents' = AllEvents
    BY <1>1 DEF AllEvents, EventsOf
  <2>2. (IsSeen(s)' <=> IsSeen(s)) /\ (Differs(s)' <=> Differs(s))
    BY <1>1, SameFile
  <2>3. Depends(s)' <=> Depends(s)
    BY <1>1 DEF Depends, IsActive
  <2>4. /\ (IsGone(s)' <=> IsGone(s)) /\ (IsToldOf(s)' <=> IsToldOf(s)) /\ (OnFile(s)' <=> OnFile(s))
    BY <1>1, <2>1 DEF IsGone, IsToldOf, OnFile
  <2>5. (Looks(s)' <=> Looks(s)) /\ Top' = Top
    BY <1>1 DEF Looks, TopIs, Top
  <2>6. Watched(s)' <=> Watched(s)
    BY <1>1, <2>2, <2>4, <2>5 DEF Watched, Right, At
  <2>. QED
    BY <2>2, <2>3, <2>5, <2>6 DEF At
<1>. QED
  BY <1>1, <1>2, <1>3, <1>4 DEF StatInv

LEMMA StatInit == Init => StatInv
<1>. SUFFICES ASSUME Init PROVE StatInv
  OBVIOUS
<1>1. /\ stack = <<>> /\ changes = 0 /\ attr = [s \in Stats |-> [ino |-> 0, stamp |-> 0]] /\ wd = [s \in Stats |-> -2]
      /\ watch = <<>> /\ events = <<>> /\ infy = [read |-> <<>>, gone |-> FALSE, visit |-> {}]
  BY DEF Init, LoopInit, EvStatInit, NoInfy
<1>2. file \in [ino : Nat, stamp : 0 .. changes]
  <2>1. PICK ino \in Nat : file = [ino |-> ino, stamp |-> 0]
    BY DEF Init, EvStatInit
  <2>. QED
    BY <1>1, <2>1
<1>3. StatTypes
  <2>1. attr \in [Stats -> [ino : Nat, stamp : 0 .. changes]]
    BY <1>1
  <2>2. wd \in [Stats -> {-2, -1} \cup 1 .. Len(watch)]
    BY <1>1
  <2>3. watch \in Seq(Int) /\ events \in Seq(InotifyEvents) /\ changes \in Nat
    BY <1>1
  <2>4. infy.read \in Seq(InotifyEvents)
    BY <1>1
  <2>5. infy \in [read : Seq(InotifyEvents), gone : BOOLEAN, visit : SUBSET Stats]
    BY <1>1, <2>4
  <2>. QED
    BY <1>2, <2>1, <2>2, <2>3, <2>5 DEF StatTypes
<1>4. StatFrames /\ \A s \in Stats : ~Looks(s)
  BY <1>1 DEF StatFrames, TopIs, Looks
<1>5. \A s \in Stats : ~IsActive(s)
  <2>1. PICK l : l = WatchersOn(program.on)
    OBVIOUS
  <2>2. program \in Programs
    BY DEF Init, LoopInit
  <2>3. program.on \subseteq Watchers \ Library /\ \A w \in program.on : Kind[w] # "stat"
    BY <2>2, EvLoopAssumption
  <2>4. Active(l) = program.on
    BY <2>1, <2>3, EvLoopAssumption, WatchersOnSound
  <2>5. active = l.active
    BY <2>1 DEF Init, LoopInit
  <2>6. ASSUME NEW s \in Stats
        PROVE  ~IsActive(s)
    <3>1. s \in Watchers /\ Kind[s] = "stat"
      BY EvStatAssumption
    <3>2. s \notin Active(l)
      BY <2>3, <2>4, <3>1
    <3>. QED
      BY <2>5, <3>1, <3>2 DEF Active, IsActive
  <2>. QED
    BY <2>6
<1>. QED
  BY <1>3, <1>4, <1>5 DEF StatInv, Depends, At

LEMMA StatKeeps == IndInv /\ StatInv /\ [Next]_vars => StatInv'
<1>. SUFFICES ASSUME IndInv, StatInv, [Next]_vars PROVE StatInv'
  OBVIOUS
<1>1. CASE LoopStep /\ UNCHANGED <<libevent, evstat>>
  BY <1>1, LoopStepWatches
<1>2. CASE (\E happened \in SUBSET MayHappen : Happens(happened) /\ Poll(happened)) /\ UNCHANGED <<libevent, evstat>>
  BY <1>2, PollWatches
<1>3. CASE UserStep /\ UNCHANGED <<libevent, evstat>>
  BY <1>3, UserStepWatches
<1>4. CASE LoopFork /\ InfyFork /\ UNCHANGED libevent
  BY <1>4, LoopForkWatches
<1>5. CASE (LibEventCallbacks \/ LibEventCalls) /\ UNCHANGED evstat
  BY <1>5, LibEventWatches
<1>6. CASE EvStatCallbacks /\ UNCHANGED libevent
  BY <1>6, StatTimerCbWatches, StatAgainWatches, InfyAddWatches, InfyCbWatches, NextEventWatches, InfyWdWatches,
     InfyCbReturnsWatches, StatTimerDueWatches DEF EvStatCallbacks
<1>7. CASE EvStatCalls /\ UNCHANGED libevent
  BY <1>7, EvStatStartWatches, EvStatStopWatches DEF EvStatCalls
<1>8. CASE FileChanges /\ UNCHANGED <<loopvars, libevent>>
  BY <1>8, FileChangesWatches
<1>9. CASE UNCHANGED vars
  BY <1>9, StatSame
<1>. QED
  BY <1>1, <1>2, <1>3, <1>4, <1>5, <1>6, <1>7, <1>8, <1>9 DEF Next

\* An active ev_stat whose attributes are old will look, whatever the order of the
\* changes, the events, the callbacks and the forks, but for the gaps named there.
THEOREM ChangesAreNoticed == Spec => []ChangeIsNoticed
<1>1. IndInv /\ StatInv => ChangeIsNoticed
  <2>. SUFFICES ASSUME IndInv, StatInv, NEW s \in Stats, IsActive(s), ~IsSeen(s), ~IsActive(TimerOf[s]), s \notin missed
                PROVE  \/ IsTold(wd[s]) \/ s \in infy.visit
                       \/ \E i \in DOMAIN stack : stack[i].at = "stat" /\ stack[i].w = s
    BY DEF ChangeIsNoticed
  <2>1. Watched(s)
    BY DEF StatInv, Depends
  <2>2. CASE Looks(s)
    <3>1. stack # <<>> /\ Top.at = "stat" /\ Top.w = s
      BY <2>2 DEF Looks, TopIs
    <3>2. Len(stack) \in DOMAIN stack
      BY <3>1, TopFacts DEF Depth
    <3>. QED
      BY <3>1, <3>2 DEF Top
  <2>3. CASE ~Looks(s)
    <3>1. IsToldOf(s)
      BY <2>1, <2>3 DEF Watched
    <3>2. events \in Seq(InotifyEvents) /\ infy.read \in Seq(InotifyEvents)
      BY DEF StatInv, StatTypes
    <3>3. DOMAIN events = 1 .. Len(events) /\ DOMAIN infy.read = 1 .. Len(infy.read)
      BY <3>2
    <3>. QED
      BY <3>1, <3>3 DEF IsToldOf, AllEvents, EventsOf, IsTold
  <2>. QED
    BY <2>2, <2>3
<1>2. Init => StatInv
  BY StatInit
<1>3. IndInv /\ StatInv /\ [Next]_vars => StatInv'
  BY StatKeeps
<1>. QED
  BY <1>1, <1>2, <1>3, Invariance, PTL DEF Spec
=============================================================================
