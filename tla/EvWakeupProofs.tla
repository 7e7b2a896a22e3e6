---------------------------- MODULE EvWakeupProofs ----------------------------
(***************************************************************************)
(* Proofs about EvWakeup for any number of senders and watchers: the loop   *)
(* never waits with something flagged that nobody will wake it for, and     *)
(* child_reap overwrites no status that has yet to be told.                 *)
(***************************************************************************)
EXTENDS EvWakeup, SequenceTheorems, FiniteSetTheorems, TLAPS

\* What may be in the queue of EV_MAXPRI, and in that of priority 0
MaxPri == {PipeW, PendingW, Chld} \cup ChildWatchers
LowPri == {PendingW, Usr} \cup Asyncs
Queues == [max : Seq(MaxPri), low : Seq(LowPri)]

\* The places of ev_run around the poll, and those of pipecb
BeforePoll == {"want", "decide", "poll"}
AroundPoll == BeforePoll \cup {"unwant", "skipped"}
InPipeCb == {"unskip", "signals", "signal", "asyncs", "async"}
Steps == {"idle", "test", "flag", "skip", "wanted", "unskip", "write"}

TypeOK ==
  /\ pipe_write_wanted \in BOOLEAN /\ pipe_write_skipped \in BOOLEAN
  /\ sig_pending \in BOOLEAN /\ async_pending \in BOOLEAN /\ evpipe \in BOOLEAN
  /\ blocking \in BOOLEAN /\ postfork \in BOOLEAN
  /\ active \subseteq Users \cup {Chld}
  /\ pendings \in Queues
  /\ pc \in {"invoke"} \cup AroundPoll \cup InPipeCb
  /\ sender \in [Senders -> [at : Steps, what : Users \cup {Chld, NoOne}]]
  /\ scan \subseteq Asyncs \cup Signals
  /\ pc = "signal" => scan \subseteq Signals
  /\ pc = "async" => scan \subseteq Asyncs
  /\ status \in [Pids -> Statuses \cup {"none"}]

Some(at) == \E t \in Senders : sender[t].at \in at

\* What a sender has flagged, the loop finds: it is woken, or about to be, or has
\* pipe_write_skipped to look at, or pipecb will come to the flag.
Noticed ==
  /\ sig_pending =>
       \/ evpipe \/ pipe_write_skipped \/ postfork \/ IsPending(pendings, PipeW)
       \/ Some({"skip", "unskip", "write"}) \/ pc \in {"unskip", "signals"}
  /\ async_pending =>
       \/ evpipe \/ pipe_write_skipped \/ postfork \/ IsPending(pendings, PipeW)
       \/ Some({"skip", "unskip", "write"}) \/ pc \in {"unskip", "signals", "signal", "asyncs"}

\* While the poll may wait, pipe_write_skipped is set only by a sender that has
\* yet to test pipe_write_wanted, or has found it set.
SkippedIsUnderWay ==
  /\ pc \in {"decide", "poll", "unwant"} => pipe_write_wanted
  /\ pc \in AroundPoll => ~postfork
  /\ pc = "poll" /\ blocking /\ pipe_write_skipped => Some({"wanted", "unskip"})

\* pipe_w is alone in its queue, and when childcb is called no child watcher is
\* pending: SIGCHLD is never above one.
QueueInv ==
  /\ pc \in AroundPoll => pendings.max \in {<<>>, <<PipeW>>}
  /\ \A i \in DOMAIN pendings.max : pendings.max[i] = PipeW => pendings.max = <<PipeW>>
  /\ pc \in InPipeCb => \A i \in DOMAIN pendings.max : pendings.max[i] = Chld
  /\ \A i, j \in DOMAIN pendings.max :
       i < j /\ pendings.max[i] \in ChildWatchers => pendings.max[j] # Chld

IndInv == TypeOK /\ Noticed /\ SkippedIsUnderWay /\ QueueInv

-------------------------------------------------------------------------------
(* The queues *)

\* The order FedAll feeds a finite set of watchers in has each of them.
LEMMA ListedFacts ==
  ASSUME NEW S, IsFiniteSet(S)
  PROVE  /\ Listed(S) \in Seq(S)
         /\ Listed(S) \in [1 .. Cardinality(S) -> S]
<1>1. PICK f \in Bijection(1 .. Cardinality(S), S) : TRUE
  BY FS_CardinalityType DEF ExistsBijection
<1>2. f \in [1 .. Cardinality(S) -> S] /\ \A w \in S : \E i \in DOMAIN f : f[i] = w
  BY <1>1 DEF Bijection, Surjection
<1>3. Listed(S) \in [1 .. Cardinality(S) -> S]
  BY <1>2 DEF Listed
<1>. QED
  BY <1>3, FS_CardinalityType, SeqDef

\* ev_feed_event appends a watcher that is not pending yet.
LEMMA FedFacts ==
  ASSUME NEW q \in Queues, NEW w \in MaxPri
  PROVE  /\ Fed(q, "max", w) \in Queues
         /\ IsPending(q, w) => Fed(q, "max", w) = q
         /\ ~IsPending(q, w) => Fed(q, "max", w).max = Append(q.max, w)
         /\ IsPending(Fed(q, "max", w), w)
<1>1. CASE IsPending(q, w)
  BY <1>1 DEF Fed
<1>2. CASE ~IsPending(q, w)
  <2>1. Fed(q, "max", w) = [q EXCEPT !.max = Append(q.max, w)]
    BY <1>2 DEF Fed, Queues
  <2>2. Append(q.max, w) \in Seq(MaxPri) /\ Append(q.max, w)[Len(q.max) + 1] = w
        /\ Len(q.max) + 1 \in DOMAIN Append(q.max, w)
    BY DEF Queues
  <2>. QED
    BY <1>2, <2>1, <2>2 DEF Queues, IsPending
<1>. QED
  BY <1>1, <1>2

LEMMA FedLowFacts ==
  ASSUME NEW q \in Queues, NEW w \in LowPri
  PROVE  Fed(q, "low", w) \in Queues /\ Fed(q, "low", w).max = q.max
BY DEF Queues, Fed

\* ev_invoke_pending takes the last entry of the queue it looks at.
LEMMA PoppedFacts ==
  ASSUME pendings \in Queues, ~Quiet
  PROVE  /\ Popped \in Queues
         /\ pendings.max = <<>> => Popped.max = <<>>
         /\ pendings.max # <<>> =>
              /\ Last = pendings.max[Len(pendings.max)] /\ Len(pendings.max) > 0
              /\ Popped.max = SubSeq(pendings.max, 1, Len(pendings.max) - 1)
              /\ Popped.low = pendings.low
              /\ DOMAIN Popped.max = 1 .. Len(pendings.max) - 1
              /\ \A i \in DOMAIN Popped.max : Popped.max[i] = pendings.max[i]
<1>1. pendings.max \in Seq(MaxPri) /\ pendings.low \in Seq(LowPri)
  BY DEF Queues
<1>2. ASSUME NEW S, NEW s \in Seq(S), s # <<>>
      PROVE  /\ SubSeq(s, 1, Len(s) - 1) \in Seq(S) /\ Len(s) > 0
             /\ DOMAIN SubSeq(s, 1, Len(s) - 1) = 1 .. Len(s) - 1
             /\ \A i \in 1 .. Len(s) - 1 : SubSeq(s, 1, Len(s) - 1)[i] = s[i]
  BY <1>2
<1>3. CASE pendings.max = <<>>
  BY <1>1, <1>2, <1>3 DEF Popped, NextPri, Quiet, Queues
<1>4. CASE pendings.max # <<>>
  <2>1. Popped = [pendings EXCEPT !.max = SubSeq(pendings.max, 1, Len(pendings.max) - 1)]
    BY <1>4 DEF Popped, NextPri, Queues
  <2>2. Last = pendings.max[Len(pendings.max)]
    BY <1>4 DEF Last, NextPri
  <2>3. /\ SubSeq(pendings.max, 1, Len(pendings.max) - 1) \in Seq(MaxPri) /\ Len(pendings.max) > 0
        /\ DOMAIN SubSeq(pendings.max, 1, Len(pendings.max) - 1) = 1 .. Len(pendings.max) - 1
        /\ \A i \in 1 .. Len(pendings.max) - 1 :
             SubSeq(pendings.max, 1, Len(pendings.max) - 1)[i] = pendings.max[i]
    BY <1>1, <1>2, <1>4
  <2>4. /\ Popped.max = SubSeq(pendings.max, 1, Len(pendings.max) - 1)
        /\ Popped.low = pendings.low /\ Popped \in Queues
    BY <1>1, <2>1, <2>3 DEF Queues
  <2>. QED
    BY <1>4, <2>2, <2>3, <2>4
<1>. QED
  BY <1>3, <1>4

\* clear_pending leaves everything else in its place.
LEMMA ClearedFacts ==
  ASSUME NEW q \in Queues, NEW w
  PROVE  /\ Cleared(q, w) \in Queues
         /\ DOMAIN Cleared(q, w).max = DOMAIN q.max
         /\ \A i \in DOMAIN q.max :
              Cleared(q, w).max[i] = IF q.max[i] = w THEN PendingW ELSE q.max[i]
<1>1. ASSUME NEW S, NEW s \in Seq(S), PendingW \in S
      PROVE  Dummied(s, w) \in Seq(S) /\ DOMAIN Dummied(s, w) = DOMAIN s
  <2>1. Dummied(s, w) \in [1 .. Len(s) -> S]
    BY <1>1 DEF Dummied
  <2>. QED
    BY <1>1, <2>1, SeqDef DEF Dummied
<1>. QED
  BY <1>1 DEF Cleared, Queues, MaxPri, LowPri, Dummied

\* What is pending stays so when something else is fed.
LEMMA FedKeeps ==
  ASSUME NEW q \in Queues, NEW pri \in {"max", "low"}, NEW w, NEW v, IsPending(q, v),
         Fed(q, pri, w) \in Queues
  PROVE  IsPending(Fed(q, pri, w), v)
<1>1. CASE IsPending(q, w)
  BY <1>1 DEF Fed
<1>2. CASE ~IsPending(q, w)
  <2>1. PICK p \in {"max", "low"} : \E i \in DOMAIN q[p] : q[p][i] = v
    BY DEF IsPending
  <2>2. PICK i \in DOMAIN q[p] : q[p][i] = v
    BY <2>1
  <2>3. Fed(q, pri, w)[p] = IF p = pri THEN Append(q[p], w) ELSE q[p]
    BY <1>2 DEF Fed, Queues
  <2>4. \E S : q[p] \in Seq(S)
    BY <2>1 DEF Queues
  <2>5. i \in DOMAIN Append(q[p], w) /\ Append(q[p], w)[i] = v
    BY <2>2, <2>4
  <2>. QED
    BY <2>1, <2>2, <2>3, <2>5 DEF IsPending
<1>. QED
  BY <1>1, <1>2

\* clear_pending of a watcher of the user leaves pipe_w pending, and adds none.
LEMMA ClearedKeeps ==
  ASSUME NEW q \in Queues, NEW w \in Users
  PROVE  IsPending(Cleared(q, w), PipeW) <=> IsPending(q, PipeW)
<1>1. PipeW # w /\ PipeW # PendingW
  BY EvWakeupAssumption
<1>2. ASSUME NEW ws PROVE (\E i \in DOMAIN Dummied(ws, w) : Dummied(ws, w)[i] = PipeW)
                          <=> (\E i \in DOMAIN ws : ws[i] = PipeW)
  BY <1>1 DEF Dummied
<1>3. \A ws : (\E i \in DOMAIN Dummied(ws, w) : Dummied(ws, w)[i] = PipeW)
              <=> (\E i \in DOMAIN ws : ws[i] = PipeW)
  BY <1>2
<1>4. Cleared(q, w).max = Dummied(q.max, w) /\ Cleared(q, w).low = Dummied(q.low, w)
  BY DEF Cleared
<1>. QED
  BY <1>3, <1>4 DEF IsPending

\* No queue of the other priority holds pipe_w, SIGCHLD or a child watcher.
LEMMA PriorityFacts ==
  /\ PipeW \in MaxPri /\ Chld \in MaxPri /\ PipeW # Chld
  /\ PipeW \notin LowPri /\ Chld \notin LowPri /\ PipeW \notin ChildWatchers /\ Chld \notin ChildWatchers
  /\ LowPri \cap ChildWatchers = {}
  /\ Chld # PendingW /\ PipeW # PendingW /\ PendingW \notin ChildWatchers /\ Usr \in LowPri
BY EvWakeupAssumption DEF MaxPri, LowPri, Users

\* pipe_w is pending only in the queue of EV_MAXPRI.
LEMMA PipeWIsMax ==
  ASSUME NEW q \in Queues
  PROVE  IsPending(q, PipeW) <=> \E i \in DOMAIN q.max : q.max[i] = PipeW
<1>1. \A i \in DOMAIN q.low : q.low[i] # PipeW
  BY PriorityFacts DEF Queues
<1>. QED
  BY <1>1 DEF IsPending

\* childcb leaves SIGCHLD below the child watchers it feeds.
LEMMA FedToReapFacts ==
  ASSUME NEW q \in Queues, NEW ws \in SUBSET ChildWatchers,
         \A i \in DOMAIN q.max : q.max[i] \notin ChildWatchers \cup {PipeW}
  PROVE  /\ FedToReap(q, ws) \in Queues
         /\ \A i \in DOMAIN FedToReap(q, ws).max : FedToReap(q, ws).max[i] # PipeW
         /\ \A i, j \in DOMAIN FedToReap(q, ws).max :
              i < j /\ FedToReap(q, ws).max[i] \in ChildWatchers => FedToReap(q, ws).max[j] # Chld
<1>. DEFINE b == Fed(q, "max", Chld)
            new == {w \in ws : ~IsPending(b, w)}
            l == Listed(new)
<1>1. b \in Queues /\ b.max \in Seq(MaxPri)
  BY FedFacts, PriorityFacts DEF Queues
<1>2. \A i \in DOMAIN b.max : b.max[i] \notin ChildWatchers \cup {PipeW}
  <2>1. CASE IsPending(q, Chld)
    BY <2>1, FedFacts, PriorityFacts
  <2>2. CASE ~IsPending(q, Chld)
    <3>1. q.max \in Seq(MaxPri) /\ b.max = Append(q.max, Chld)
      BY <2>2, FedFacts, PriorityFacts DEF Queues
    <3>2. ASSUME NEW i \in DOMAIN b.max
          PROVE  b.max[i] = Chld \/ (i \in DOMAIN q.max /\ b.max[i] = q.max[i])
      BY SMTT(60), <3>1
    <3>. QED
      BY <3>2, PriorityFacts
  <2>. QED
    BY <2>1, <2>2
<1>3. l \in Seq(new) /\ l \in Seq(MaxPri)
  <2>1. IsFiniteSet(new)
    BY EvWakeupAssumption, FS_Subset
  <2>2. l \in Seq(new)
    BY <2>1, ListedFacts
  <2>3. new \subseteq MaxPri
    BY DEF MaxPri
  <2>. QED
    BY <2>2, <2>3, SeqDef
<1>4. FedToReap(q, ws) = [b EXCEPT !.max = b.max \o l]
  BY <1>1 DEF FedToReap, FedAll, Queues
<1>. HIDE DEF b, l, new
<1>5. b.max \o l \in Seq(MaxPri)
  BY <1>1, <1>3
<1>6. FedToReap(q, ws) \in Queues /\ FedToReap(q, ws).max = b.max \o l
  BY <1>1, <1>4, <1>5 DEF Queues
<1>7. \A i \in DOMAIN (b.max \o l) :
        IF i <= Len(b.max) THEN i \in DOMAIN b.max /\ (b.max \o l)[i] = b.max[i]
        ELSE (b.max \o l)[i] \in new
  BY <1>1, <1>3
<1>8. new \subseteq ChildWatchers
  BY DEF new
<1>9. Len(b.max) \in Nat /\ DOMAIN (b.max \o l) \subseteq Nat
  BY <1>1, <1>5
<1>. QED
  BY <1>2, <1>6, <1>7, <1>8, <1>9, PriorityFacts

-------------------------------------------------------------------------------
(* The steps of the senders *)

LEMMA InitHolds == Init => IndInv
<1>. SUFFICES ASSUME Init PROVE IndInv
  OBVIOUS
<1>1. pendings = [max |-> <<>>, low |-> <<>>] /\ pendings.max = <<>> /\ pc = "invoke"
  BY DEF Init
<1>2. pendings \in Queues
  BY <1>1 DEF Queues
<1>3. TypeOK
  BY <1>2 DEF Init, TypeOK, Steps, Idle, Users
<1>4. Noticed /\ SkippedIsUnderWay
  BY DEF Init, Noticed, SkippedIsUnderWay
<1>5. QueueInv
  BY <1>1 DEF QueueInv, AroundPoll, BeforePoll, InPipeCb
<1>. QED
  BY <1>3, <1>4, <1>5 DEF IndInv

\* Whatever sender t does, the others stay where they are.
LEMMA OthersStay ==
  ASSUME NEW t \in Senders, NEW r, sender' = [sender EXCEPT ![t] = r], TypeOK
  PROVE  /\ sender[t].at \notin {"wanted", "unskip"} /\ Some({"wanted", "unskip"}) => Some({"wanted", "unskip"})'
         /\ sender[t].at \notin {"skip", "unskip", "write"} /\ Some({"skip", "unskip", "write"}) =>
              Some({"skip", "unskip", "write"})'
<1>1. ASSUME NEW at, sender[t].at \notin at, Some(at) PROVE Some(at)'
  BY <1>1 DEF Some, TypeOK
<1>. QED
  BY <1>1

\* Where it goes, it is.
LEMMA GoesThere ==
  ASSUME NEW t \in Senders, NEW at \in Steps \ {"idle"}, Goto(t, at), TypeOK
  PROVE  /\ sender' = [sender EXCEPT ![t] = [sender[t] EXCEPT !.at = at]]
         /\ \A s : at \in s => Some(s)'
         /\ sender' \in [Senders -> [at : Steps, what : Users \cup {Chld, NoOne}]]
BY DEF Goto, TypeOK, Some

\* A sender leaves the queues and the loop alone.
LEMMA SenderStep ==
  ASSUME IndInv, NEW t \in Senders,
         EvpipeWrite(t) \/ (\E w \in Asyncs : Send(t, w)) \/ (\E s \in Signals : Handle(t, s))
  PROVE  IndInv'
<1>. USE DEF IndInv, flags, marks, queue, loop, processes
<1>1. QueueInv' /\ UNCHANGED <<pendings, pc, blocking, postfork, pipe_write_wanted>>
  BY DEF QueueInv, EvpipeWrite, TestFlag, SetFlag, Skip, TestWanted, Unskip, Write, Send, Handle
<1>2. ASSUME NEW w \in Users \cup {Chld}, At(t, "idle"), UNCHANGED flags,
             sender' = [sender EXCEPT ![t] = [at |-> "test", what |-> w]]
      PROVE  Noticed' /\ SkippedIsUnderWay'
  <2>1. /\ Some({"wanted", "unskip"}) => Some({"wanted", "unskip"})'
        /\ Some({"skip", "unskip", "write"}) => Some({"skip", "unskip", "write"})'
    BY <1>2, OthersStay DEF At
  <2>. QED
    BY <1>1, <1>2, <2>1 DEF Noticed, SkippedIsUnderWay
<1>3. CASE \E w \in Asyncs : Send(t, w)
  <2>1. TypeOK'
    BY <1>3 DEF Send, TypeOK, Users, Steps
  <2>. QED
    BY <1>1, <1>2, <1>3, <2>1 DEF Send, Users
<1>4. CASE \E s \in Signals : Handle(t, s)
  <2>1. TypeOK'
    BY <1>4 DEF Handle, TypeOK, Users, Steps, Signals
  <2>2. Noticed' /\ SkippedIsUnderWay'
    <3>1. CASE UNCHANGED sender
      BY <1>1, <1>4, <3>1 DEF Handle, Noticed, SkippedIsUnderWay, Some
    <3>2. CASE ~UNCHANGED sender
      BY <1>2, <1>4, <3>2 DEF Handle, Users, Signals
    <3>. QED
      BY <3>1, <3>2
  <2>. QED
    BY <1>1, <2>1, <2>2
<1>5. CASE TestFlag(t)
  <2>1. TypeOK'
    BY <1>5 DEF TestFlag, Goto, TypeOK, Steps, Idle
  <2>2. PICK r : sender' = [sender EXCEPT ![t] = r]
    BY <1>5 DEF TestFlag, Goto
  <2>3. Noticed' /\ SkippedIsUnderWay'
    <3>1. /\ Some({"wanted", "unskip"}) => Some({"wanted", "unskip"})'
          /\ Some({"skip", "unskip", "write"}) => Some({"skip", "unskip", "write"})'
      BY <1>5, <2>2, OthersStay DEF TestFlag, At
    <3>. QED
      BY <1>1, <1>5, <3>1 DEF TestFlag, Noticed, SkippedIsUnderWay
  <2>. QED
    BY <1>1, <2>1, <2>3
<1>6. CASE SetFlag(t)
  <2>1. Some({"skip", "unskip", "write"})'
    BY <1>6, GoesThere DEF SetFlag, Steps
  <2>2. SkippedIsUnderWay'
    <3>1. PICK r : sender' = [sender EXCEPT ![t] = r]
      BY <1>6 DEF SetFlag, Goto
    <3>2. Some({"wanted", "unskip"}) => Some({"wanted", "unskip"})'
      BY <1>6, <3>1, OthersStay DEF SetFlag, At
    <3>. QED
      BY <1>1, <1>6, <3>2 DEF SetFlag, SkippedIsUnderWay
  <2>3. TypeOK'
    BY ZenonT(60), <1>6, GoesThere DEF SetFlag, Steps, TypeOK
  <2>. QED
    BY <1>1, <2>1, <2>2, <2>3 DEF Noticed
<1>7. CASE Skip(t)
  <2>1. Some({"wanted", "unskip"})'
    BY <1>7, GoesThere DEF Skip, Steps
  <2>2. TypeOK'
    BY <1>7, GoesThere DEF Skip, Steps, TypeOK
  <2>. QED
    BY <1>1, <1>7, <2>1, <2>2 DEF Skip, Noticed, SkippedIsUnderWay
<1>8. CASE TestWanted(t)
  <2>1. TypeOK'
    BY <1>8 DEF TestWanted, Goto, TypeOK, Steps, Idle
  <2>2. Noticed'
    <3>1. PICK r : sender' = [sender EXCEPT ![t] = r]
      BY <1>8 DEF TestWanted, Goto
    <3>2. Some({"skip", "unskip", "write"}) => Some({"skip", "unskip", "write"})'
      BY <1>8, <3>1, OthersStay DEF TestWanted, At
    <3>. QED
      BY <1>1, <1>8, <3>2 DEF TestWanted, Noticed
  <2>3. pipe_write_wanted => Some({"wanted", "unskip"})'
    BY <1>8, GoesThere DEF TestWanted, Steps
  <2>. QED
    BY <1>1, <1>8, <2>1, <2>2, <2>3 DEF TestWanted, SkippedIsUnderWay
<1>9. CASE Unskip(t)
  <2>1. Some({"skip", "unskip", "write"})'
    BY <1>9, GoesThere DEF Unskip, Steps
  <2>2. TypeOK'
    BY ZenonT(60), <1>9, GoesThere DEF Unskip, Steps, TypeOK
  <2>. QED
    BY <1>1, <1>9, <2>1, <2>2 DEF Unskip, Noticed, SkippedIsUnderWay
<1>10. CASE Write(t)
  <2>1. TypeOK'
    BY <1>10 DEF Write, TypeOK, Steps, Idle
  <2>2. SkippedIsUnderWay'
    <3>1. Some({"wanted", "unskip"}) => Some({"wanted", "unskip"})'
      BY <1>10, OthersStay DEF Write, At
    <3>. QED
      BY <1>1, <1>10, <3>1 DEF Write, SkippedIsUnderWay
  <2>. QED
    BY <1>1, <1>10, <2>1, <2>2 DEF Write, Noticed
<1>. QED
  BY <1>3, <1>4, <1>5, <1>6, <1>7, <1>8, <1>9, <1>10 DEF EvpipeWrite

-------------------------------------------------------------------------------
(* The steps of ev_run around the poll *)

\* Around the poll only pipe_w is pending: feeding it again changes nothing.
LEMMA FedAlone ==
  ASSUME TypeOK, pendings.max \in {<<>>, <<PipeW>>}
  PROVE  LET q == Fed(pendings, "max", PipeW)
         IN  q \in Queues /\ q.max = <<PipeW>> /\ IsPending(q, PipeW)
<1>1. pendings \in Queues /\ PipeW \in MaxPri
  BY DEF TypeOK, MaxPri
<1>2. IsPending(pendings, PipeW) <=> pendings.max = <<PipeW>>
  BY <1>1, PipeWIsMax
<1>3. CASE pendings.max = <<PipeW>>
  BY <1>1, <1>2, <1>3, FedFacts
<1>4. CASE pendings.max = <<>>
  <2>1. ~IsPending(pendings, PipeW)
    BY <1>2, <1>4
  <2>2. Append(<<>>, PipeW) = <<PipeW>>
    OBVIOUS
  <2>. QED
    BY <1>1, <1>4, <2>1, <2>2, FedFacts
<1>. QED
  BY <1>3, <1>4

LEMMA PollStep ==
  ASSUME IndInv,
         LoopFork \/ NoFork \/ Want \/ Decide \/ (\E ready \in BOOLEAN : Poll(ready)) \/ Unwant \/ FeedSkipped
  PROVE  IndInv'
<1>. USE DEF IndInv, flags, marks, queue, loop, processes, AroundPoll, BeforePoll, InPipeCb
<1>. DEFINE q == Fed(pendings, "max", PipeW)
<1>1. pendings.max \in {<<>>, <<PipeW>>} /\ UNCHANGED <<sender, sig_pending, async_pending>>
  BY DEF LoopFork, NoFork, Want, Decide, Poll, Unwant, FeedSkipped, Quiet, QueueInv
<1>2. /\ pendings' \in {pendings, q} /\ q \in Queues /\ q.max = <<PipeW>> /\ IsPending(q, PipeW)
      /\ UNCHANGED sender
  BY <1>1, FedAlone DEF LoopFork, NoFork, Want, Decide, Poll, Unwant, FeedSkipped
<1>. HIDE DEF q
<1>3. QueueInv'
  <2>1. pendings'.max \in {<<>>, <<PipeW>>}
    BY <1>1, <1>2
  <2>2. pc' \notin InPipeCb
    BY DEF LoopFork, NoFork, Want, Decide, Poll, Unwant, FeedSkipped
  <2>3. \A i \in DOMAIN pendings'.max : i = 1 /\ pendings'.max = <<PipeW>> /\ pendings'.max[i] = PipeW
    BY <2>1
  <2>. QED
    BY <2>1, <2>2, <2>3, PriorityFacts DEF QueueInv
<1>4. \A at : Some(at)' <=> Some(at)
  BY <1>1 DEF Some
<1>5. IsPending(pendings, PipeW) => IsPending(pendings', PipeW)
  BY <1>2
<1>6. TypeOK'
  BY ZenonT(60), <1>2 DEF TypeOK, LoopFork, NoFork, Want, Decide, Decides, Poll, Unwant, FeedSkipped
<1>7. CASE LoopFork
  <2>1. pendings' = q
    BY <1>7 DEF LoopFork, q
  <2>. QED
    BY <1>2, <1>3, <1>6, <1>7, <2>1 DEF LoopFork, Noticed, SkippedIsUnderWay
<1>8. CASE NoFork
  BY <1>3, <1>4, <1>5, <1>6, <1>8 DEF NoFork, Noticed, SkippedIsUnderWay
<1>9. CASE Want
  BY <1>3, <1>4, <1>5, <1>6, <1>9 DEF Want, Noticed, SkippedIsUnderWay
<1>10. CASE Decide
  BY <1>3, <1>4, <1>5, <1>6, <1>10 DEF Decide, Decides, Noticed, SkippedIsUnderWay
<1>11. CASE \E ready \in BOOLEAN : Poll(ready)
  BY <1>3, <1>4, <1>5, <1>6, <1>11 DEF Poll, Noticed, SkippedIsUnderWay
<1>12. CASE Unwant
  BY <1>3, <1>4, <1>5, <1>6, <1>12 DEF Unwant, Noticed, SkippedIsUnderWay
<1>13. CASE FeedSkipped
  BY <1>3, <1>4, <1>5, <1>6, <1>13 DEF FeedSkipped, Noticed, SkippedIsUnderWay
<1>. QED
  BY <1>7, <1>8, <1>9, <1>10, <1>11, <1>12, <1>13

-------------------------------------------------------------------------------
(* The callbacks *)

\* A callback other than pipecb is called only while pipe_w is not pending.
LEMMA LastFacts ==
  ASSUME IndInv, NEW w, Invokes(w)
  PROVE  /\ Popped \in Queues
         /\ w = PipeW => Popped.max = <<>>
         /\ w # PipeW => ~IsPending(pendings, PipeW)
         /\ w = Chld => \A i \in DOMAIN Popped.max : Popped.max[i] \notin ChildWatchers \cup {PipeW}
         /\ \A i \in DOMAIN Popped.max : i \in DOMAIN pendings.max /\ Popped.max[i] = pendings.max[i]
         /\ w \in {PipeW, Chld} => pendings.max # <<>>
<1>. USE DEF IndInv
<1>1. pendings \in Queues /\ ~Quiet /\ Last = w
  BY DEF Invokes, TypeOK
<1>2. pendings.max \in Seq(MaxPri) /\ pendings.low \in Seq(LowPri)
  BY <1>1 DEF Queues
<1>3. pendings.max = <<>> => w \in LowPri
  <2>1. ASSUME pendings.max = <<>> PROVE pendings.low # <<>> /\ Last = pendings.low[Len(pendings.low)]
    BY <1>1, <2>1 DEF Quiet, Last, NextPri
  <2>. QED
    BY <1>1, <1>2, <2>1
<1>4. CASE pendings.max = <<>>
  <2>1. Popped.max = <<>> /\ Popped \in Queues
    BY <1>1, <1>4, PoppedFacts
  <2>2. ~IsPending(pendings, PipeW)
    BY <1>1, <1>4, PipeWIsMax
  <2>. QED
    BY <1>3, <1>4, <2>1, <2>2, PriorityFacts
<1>5. CASE pendings.max # <<>>
  <2>1. /\ Popped \in Queues /\ w = pendings.max[Len(pendings.max)] /\ Len(pendings.max) > 0
        /\ Popped.max = SubSeq(pendings.max, 1, Len(pendings.max) - 1)
        /\ DOMAIN Popped.max = 1 .. Len(pendings.max) - 1
        /\ \A i \in DOMAIN Popped.max : Popped.max[i] = pendings.max[i]
    BY <1>1, <1>5, PoppedFacts
  <2>2. Len(pendings.max) \in DOMAIN pendings.max /\ DOMAIN pendings.max = 1 .. Len(pendings.max)
        /\ Len(pendings.max) \in Nat
    BY <1>2, <2>1
  <2>3. w # PipeW => \A i \in DOMAIN pendings.max : pendings.max[i] # PipeW
    <3>1. ASSUME pendings.max = <<PipeW>> PROVE w = PipeW
      BY <2>1, <3>1
    <3>2. ASSUME NEW i \in DOMAIN pendings.max, pendings.max[i] = PipeW
          PROVE  pendings.max = <<PipeW>>
      BY <3>2 DEF QueueInv
    <3>. QED
      BY <3>1, <3>2
  <2>4. ASSUME w = PipeW PROVE Popped.max = <<>>
    <3>1. pendings.max = <<PipeW>>
      BY <2>1, <2>2, <2>4 DEF QueueInv
    <3>2. Len(pendings.max) - 1 = 0
      BY <3>1
    <3>3. Popped.max = SubSeq(pendings.max, 1, 0)
      BY <2>1, <3>2
    <3>4. SubSeq(pendings.max, 1, 0) = <<>>
      BY <1>2
    <3>. QED
      BY <3>3, <3>4
  <2>5. w # PipeW => ~IsPending(pendings, PipeW)
    BY <1>1, <2>3, PipeWIsMax
  <2>6. ASSUME w = Chld, NEW i \in DOMAIN Popped.max
        PROVE  Popped.max[i] \notin ChildWatchers \cup {PipeW}
    <3>1. i \in DOMAIN pendings.max /\ i < Len(pendings.max) /\ Popped.max[i] = pendings.max[i]
      BY <2>1, <2>2
    <3>2. pendings.max[i] \notin ChildWatchers
      BY <2>1, <2>2, <2>6, <3>1 DEF QueueInv
    <3>. QED
      BY <2>3, <2>6, <3>1, <3>2, PriorityFacts
  <2>. QED
    BY <1>5, <2>1, <2>2, <2>4, <2>5, <2>6
<1>. QED
  BY <1>4, <1>5

LEMMA CallbackStep ==
  ASSUME IndInv, PipeCb \/ UserCb \/ ChildCb
  PROVE  IndInv'
<1>. USE DEF IndInv, flags, marks, queue, loop, processes
<1>1. pc = "invoke"
  BY DEF PipeCb, UserCb, ChildCb, Invokes
<1>2. /\ pipe_write_skipped' = pipe_write_skipped /\ pipe_write_wanted' = pipe_write_wanted
      /\ UNCHANGED <<sig_pending, async_pending, active, sender, scan, blocking, postfork>>
  BY DEF PipeCb, UserCb, ChildCb
<1>3. \A at : Some(at)' <=> Some(at)
  BY <1>2 DEF Some
<1>4. CASE PipeCb
  <2>1. Invokes(PipeW) /\ pendings' = Popped /\ pc' = "unskip" /\ evpipe' \in {evpipe, FALSE}
    BY <1>4 DEF PipeCb
  <2>2. pendings' \in Queues /\ pendings'.max = <<>>
    BY <2>1, LastFacts
  <2>3. TypeOK'
    BY <1>2, <1>4, <2>1, <2>2 DEF PipeCb, TypeOK, InPipeCb
  <2>4. DOMAIN pendings'.max = {}
    BY <2>2
  <2>5. QueueInv'
    BY <2>1, <2>4 DEF QueueInv, AroundPoll, BeforePoll
  <2>. QED
    BY <2>1, <2>3, <2>5 DEF Noticed, SkippedIsUnderWay, AroundPoll, BeforePoll
<1>5. CASE UserCb
  <2>1. PICK w \in Users \cup {PendingW} : Invokes(w)
    BY <1>5 DEF UserCb
  <2>2. w # PipeW
    BY EvWakeupAssumption
  <2>3. pendings' = Popped /\ evpipe' = evpipe /\ pc' = pc /\ status' = status
    BY <1>5 DEF UserCb
  <2>4. /\ pendings' \in Queues
        /\ \A i \in DOMAIN pendings'.max : i \in DOMAIN pendings.max /\ pendings'.max[i] = pendings.max[i]
        /\ ~IsPending(pendings, PipeW)
    BY <2>1, <2>2, <2>3, LastFacts
  <2>5. \A i \in DOMAIN pendings.max : pendings.max[i] # PipeW
    BY <2>4, PipeWIsMax DEF TypeOK
  <2>6. QueueInv'
    BY <1>1, <2>3, <2>4, <2>5 DEF QueueInv, InPipeCb, AroundPoll, BeforePoll
  <2>7. TypeOK'
    BY <1>2, <2>3, <2>4 DEF TypeOK
  <2>. QED
    BY <1>1, <1>2, <1>3, <2>3, <2>4, <2>6, <2>7 DEF Noticed, SkippedIsUnderWay, AroundPoll, BeforePoll
<1>6. CASE ChildCb
  <2>1. Invokes(Chld) /\ evpipe' = evpipe /\ pc' = pc
    BY <1>6 DEF ChildCb
  <2>2. /\ Popped \in Queues
        /\ \A i \in DOMAIN Popped.max : Popped.max[i] \notin ChildWatchers \cup {PipeW}
        /\ ~IsPending(pendings, PipeW)
    BY <2>1, LastFacts, PriorityFacts
  <2>3. /\ pendings' \in Queues
        /\ \A i \in DOMAIN pendings'.max : pendings'.max[i] # PipeW
        /\ \A i, j \in DOMAIN pendings'.max :
             i < j /\ pendings'.max[i] \in ChildWatchers => pendings'.max[j] # Chld
    <3>1. CASE pendings' = Popped
      BY <2>2, <3>1
    <3>2. CASE \E ws \in SUBSET ChildWatchers : pendings' = FedToReap(Popped, ws)
      BY <2>2, <3>2, FedToReapFacts
    <3>. QED
      BY <1>6, <3>1, <3>2 DEF ChildCb
  <2>4. QueueInv'
    BY <1>1, <2>1, <2>3 DEF QueueInv, InPipeCb, AroundPoll, BeforePoll
  <2>5. status' \in [Pids -> Statuses \cup {"none"}]
    BY <1>6 DEF ChildCb, TypeOK
  <2>6. TypeOK'
    BY <1>2, <2>1, <2>3, <2>5 DEF TypeOK
  <2>. QED
    BY <1>1, <1>2, <1>3, <2>1, <2>2, <2>4, <2>6 DEF Noticed, SkippedIsUnderWay, AroundPoll, BeforePoll
<1>. QED
  BY <1>4, <1>5, <1>6

\* The rest of pipecb: every flag it resets it looks at afterwards.
LEMMA PipeCbStep ==
  ASSUME IndInv, PipeCbGoesOn
  PROVE  IndInv'
<1>. USE DEF IndInv, flags, marks, queue, loop, processes, InPipeCb
<1>1. /\ pc \in InPipeCb /\ \A i \in DOMAIN pendings.max : pendings.max[i] = Chld
      /\ UNCHANGED <<pipe_write_wanted, evpipe, active, sender, blocking, postfork, status>>
  BY DEF PipeCbGoesOn, UnskipInCb, ScanSignals, LookAtSignal, SignalsSeen, ScanAsyncs, LookAtAsync,
         AsyncsSeen, QueueInv
<1>2. \A at : Some(at)' <=> Some(at)
  BY <1>1 DEF Some
<1>3. /\ pendings' \in Queues
      /\ \A i \in DOMAIN pendings'.max : pendings'.max[i] = Chld
      /\ IsPending(pendings, PipeW) => IsPending(pendings', PipeW)
  <2>1. pendings \in Queues /\ pendings.max \in Seq(MaxPri)
    BY DEF TypeOK, Queues
  <2>2. CASE UNCHANGED pendings
    BY <1>1, <2>1, <2>2
  <2>3. CASE \E w \in LowPri : pendings' = Fed(pendings, "low", w)
    BY <1>1, <2>1, <2>3, FedLowFacts, FedKeeps
  <2>4. CASE pendings' = Fed(pendings, "max", Chld)
    <3>1. \A i \in DOMAIN Append(pendings.max, Chld) : Append(pendings.max, Chld)[i] = Chld
      BY <1>1, <2>1
    <3>. QED
      BY <1>1, <2>1, <2>4, <3>1, FedFacts, FedKeeps, PriorityFacts
  <2>5. ASSUME LookAtSignal PROVE UNCHANGED pendings \/ pendings' = Fed(pendings, "max", Chld)
                                  \/ pendings' = Fed(pendings, "low", Usr)
    <3>1. (CHOOSE v \in scan : TRUE) \in {Usr, Chld}
      BY <2>5 DEF LookAtSignal, TypeOK, Signals
    <3>. QED
      BY <2>5, <3>1, EvWakeupAssumption DEF LookAtSignal
  <2>6. ASSUME LookAtAsync PROVE UNCHANGED pendings \/ \E w \in LowPri : pendings' = Fed(pendings, "low", w)
    <3>1. (CHOOSE v \in scan : TRUE) \in Asyncs
      BY <2>6 DEF LookAtAsync, TypeOK
    <3>. QED
      BY <2>6, <3>1 DEF LookAtAsync, LowPri
  <2>7. UNCHANGED pendings \/ LookAtSignal \/ LookAtAsync
    BY DEF PipeCbGoesOn, UnskipInCb, ScanSignals, SignalsSeen, ScanAsyncs, AsyncsSeen
  <2>. QED
    BY <2>2, <2>3, <2>4, <2>5, <2>6, <2>7, PriorityFacts
<1>4. pc' \notin AroundPoll
  BY DEF PipeCbGoesOn, UnskipInCb, ScanSignals, LookAtSignal, SignalsSeen, ScanAsyncs, LookAtAsync,
         AsyncsSeen, AroundPoll, BeforePoll
<1>5. QueueInv'
  BY <1>3, <1>4, PriorityFacts DEF QueueInv
<1>6. SkippedIsUnderWay'
  BY <1>4 DEF SkippedIsUnderWay, AroundPoll, BeforePoll
<1>7. Noticed'
  BY <1>1, <1>2, <1>3 DEF PipeCbGoesOn, UnskipInCb, ScanSignals, LookAtSignal, SignalsSeen, ScanAsyncs,
     LookAtAsync, AsyncsSeen, Kept, Noticed
<1>8. TypeOK'
  BY ZenonT(60), <1>1, <1>3 DEF PipeCbGoesOn, UnskipInCb, ScanSignals, LookAtSignal, SignalsSeen, ScanAsyncs,
     LookAtAsync, AsyncsSeen, Kept, TypeOK
<1>. QED
  BY <1>5, <1>6, <1>7, <1>8

-------------------------------------------------------------------------------
(* The user and the processes *)

LEMMA UserStep ==
  ASSUME IndInv,
         \/ \E w \in Users : \/ AsyncStop(w) \/ SignalStop(w) \/ ChildStop(w)
                             \/ AsyncStart(w) \/ SignalStart(w) \/ ChildStart(w)
         \/ Fork \/ Raise(Usr) \/ \E p \in Pids, how \in Statuses : ProcessChanges(p, how)
  PROVE  IndInv'
<1>. USE DEF IndInv, flags, marks, queue, loop, processes
<1>1. /\ UNCHANGED <<flags, pc, scan, blocking>> /\ postfork' \in {TRUE, postfork}
      /\ (postfork' = postfork => UNCHANGED sender) /\ (pc \in AroundPoll => postfork' = postfork)
      /\ sender' \in [Senders -> [at : Steps, what : Users \cup {Chld, NoOne}]]
      /\ active' \subseteq Users \cup {Chld} /\ status' \in [Pids -> Statuses \cup {"none"}]
  <2>1. CASE \E w \in Users : \/ AsyncStop(w) \/ SignalStop(w) \/ ChildStop(w)
                              \/ AsyncStart(w) \/ SignalStart(w) \/ ChildStart(w)
    <3>1. PICK w \in Users : active' \in {active \ {w}, active \cup {w}} /\ UNCHANGED <<flags, loop, sender, processes>>
      BY <2>1 DEF AsyncStop, SignalStop, ChildStop, Stopped, AsyncStart, SignalStart, ChildStart, Started
    <3>2. active' \subseteq Users \cup {Chld}
      BY <3>1 DEF TypeOK
    <3>. QED
      BY <3>1, <3>2 DEF TypeOK
  <2>2. CASE Fork
    BY <2>2 DEF Fork, Acts, TypeOK, Idle, Steps, AroundPoll, BeforePoll
  <2>3. CASE Raise(Usr) \/ \E p \in Pids, how \in Statuses : ProcessChanges(p, how)
    <3>1. UNCHANGED <<flags, loop, sender, active>>
      BY <2>3 DEF Raise, ProcessChanges
    <3>2. status' \in [Pids -> Statuses \cup {"none"}]
      BY <2>3 DEF Raise, ProcessChanges, TypeOK
    <3>. QED
      BY <3>1, <3>2 DEF TypeOK
  <2>. QED
    BY <2>1, <2>2, <2>3
<1>2. UNCHANGED pendings \/ \E w \in Users : pc = "invoke" /\ pendings' = Cleared(pendings, w)
  BY DEF AsyncStop, SignalStop, ChildStop, Stopped, AsyncStart, SignalStart, ChildStart, Started, Fork,
         Raise, ProcessChanges, Acts
<1>3. pendings' \in Queues /\ QueueInv' /\ (IsPending(pendings, PipeW) => IsPending(pendings', PipeW))
  <2>1. CASE UNCHANGED pendings
    BY <1>1, <2>1 DEF QueueInv, TypeOK
  <2>2. ASSUME NEW w \in Users, pc = "invoke", pendings' = Cleared(pendings, w)
        PROVE  pendings' \in Queues /\ QueueInv' /\ (IsPending(pendings, PipeW) => IsPending(pendings', PipeW))
    <3>1. /\ pendings' \in Queues /\ pendings'.max \in Seq(MaxPri) /\ pendings.max \in Seq(MaxPri)
          /\ DOMAIN pendings'.max = DOMAIN pendings.max
          /\ \A i \in DOMAIN pendings.max :
               pendings'.max[i] = IF pendings.max[i] = w THEN PendingW ELSE pendings.max[i]
      BY <2>2, ClearedFacts DEF TypeOK, Queues
    <3>5. IsPending(pendings', PipeW) <=> IsPending(pendings, PipeW)
      BY <2>2, ClearedKeeps DEF TypeOK
    <3>2. ASSUME NEW i \in DOMAIN pendings'.max, pendings'.max[i] = PipeW
          PROVE  pendings'.max = <<PipeW>>
      <4>1. pendings.max[i] = PipeW
        BY <3>1, <3>2, PriorityFacts
      <4>2. pendings.max = <<PipeW>>
        BY <3>1, <3>2, <4>1 DEF QueueInv
      <4>3. Len(pendings.max) = 1
        BY <4>2
      <4>4. Len(pendings'.max) = 1 /\ i = 1
        BY <3>1, <3>2, <4>3
      <4>. QED
        BY <3>1, <3>2, <4>4
    <3>3. ASSUME NEW i \in DOMAIN pendings'.max, NEW j \in DOMAIN pendings'.max, i < j,
                 pendings'.max[i] \in ChildWatchers
          PROVE  pendings'.max[j] # Chld
      BY <3>1, <3>3, PriorityFacts DEF QueueInv
    <3>4. pc' \notin AroundPoll \cup InPipeCb
      BY <1>1, <2>2 DEF AroundPoll, BeforePoll, InPipeCb
    <3>. QED
      BY <3>1, <3>2, <3>3, <3>4, <3>5 DEF QueueInv
  <2>. QED
    BY <1>2, <2>1, <2>2
<1>4. TypeOK'
  BY ZenonT(60), <1>1, <1>3 DEF TypeOK
<1>5. UNCHANGED sender => \A at : Some(at)' <=> Some(at)
  BY DEF Some
<1>6. Noticed' /\ SkippedIsUnderWay'
  <2>1. CASE postfork' = postfork
    BY <1>1, <1>3, <1>5, <2>1 DEF Noticed, SkippedIsUnderWay
  <2>2. CASE postfork' # postfork
    BY <1>1, <2>2 DEF Noticed, SkippedIsUnderWay, AroundPoll, BeforePoll
  <2>. QED
    BY <2>1, <2>2
<1>. QED
  BY <1>3, <1>4, <1>6

LEMMA StutterStep == IndInv /\ UNCHANGED vars => IndInv'
<1>. SUFFICES ASSUME IndInv, UNCHANGED vars PROVE IndInv'
  OBVIOUS
<1>1. \A at : Some(at)' <=> Some(at)
  BY DEF vars, Some
<1>. QED
  BY <1>1 DEF IndInv, TypeOK, Noticed, SkippedIsUnderWay, QueueInv, vars, flags, marks, queue, loop, processes

-------------------------------------------------------------------------------
(* The theorems *)

\* Every state ev_run, pipecb, the senders and the user reach satisfies the
\* invariant.
THEOREM Invariance == Spec => []IndInv
<1>1. IndInv /\ [Next]_vars => IndInv'
  BY SenderStep, PollStep, CallbackStep, PipeCbStep, UserStep, StutterStep DEF Next, LoopNext
<1>. QED
  BY <1>1, InitHolds, PTL DEF Spec

\* The loop never waits in the poll for its whole time while evpipe_write has
\* flagged a signal or an ev_async that nothing is about to wake it for.
THEOREM NoWakeupLost == Spec => []NoLostWakeup
<1>1. IndInv => NoLostWakeup
  <2>. SUFFICES ASSUME IndInv, pc = "poll", blocking, sig_pending \/ async_pending
                PROVE  evpipe \/ IsPending(pendings, PipeW) \/ Some({"skip", "wanted", "unskip", "write"})
    BY DEF NoLostWakeup, Some
  <2>1. evpipe \/ pipe_write_skipped \/ IsPending(pendings, PipeW) \/ Some({"skip", "unskip", "write"})
    BY DEF IndInv, Noticed, SkippedIsUnderWay, AroundPoll, BeforePoll
  <2>2. pipe_write_skipped => Some({"wanted", "unskip"})
    BY DEF IndInv, SkippedIsUnderWay
  <2>. QED
    BY <2>1, <2>2 DEF Some
<1>. QED
  BY <1>1, Invariance, PTL

\* childcb waits for a process only when no child watcher is pending: none that
\* it will tell loses a status it has not been called for.
THEOREM StatusesAreTold == Spec => EachStatusIsTold
<1>. DEFINE Told == \A p \in Pids : status[p] # "none" /\ status'[p] = "none" /\ postfork' = postfork =>
                      \A w \in ChildWatchers : Reaps(p, w) => ~IsPending(pendings, w)
<1>1. IndInv /\ [Next]_vars => [Told]_vars
  <2>. SUFFICES ASSUME IndInv, Next, NEW p \in Pids, status[p] # "none", status'[p] = "none", postfork' = postfork,
                       NEW w \in ChildWatchers
                PROVE  ~IsPending(pendings, w)
    OBVIOUS
  <2>1. ChildCb
    BY DEF IndInv, TypeOK, Next, LoopNext, LoopFork, NoFork, Want, Decide, Poll, Unwant, FeedSkipped, PipeCb,
       UserCb, PipeCbGoesOn, UnskipInCb, ScanSignals, LookAtSignal, SignalsSeen, ScanAsyncs, LookAtAsync,
       AsyncsSeen, EvpipeWrite, TestFlag, SetFlag, Skip, TestWanted, Unskip, Write, Send, Handle,
       AsyncStop, SignalStop, ChildStop, Stopped, AsyncStart, SignalStart, ChildStart, Started, Fork, Raise,
       ProcessChanges, Statuses, processes, loop
  <2>2. Invokes(Chld) /\ pendings \in Queues /\ pendings.max # <<>> /\ ~Quiet
    BY <2>1, LastFacts DEF ChildCb, IndInv, TypeOK, Invokes
  <2>3. Last = Chld /\ Last = pendings.max[Len(pendings.max)] /\ Len(pendings.max) > 0
    BY <2>2, PoppedFacts DEF Invokes
  <2>4. pendings.max \in Seq(MaxPri) /\ pendings.low \in Seq(LowPri)
    BY <2>2 DEF Queues
  <2>5. \A i \in DOMAIN pendings.max : pendings.max[i] # w
    <3>1. ASSUME NEW i \in DOMAIN pendings.max, pendings.max[i] = w PROVE FALSE
      <4>1. i \in 1 .. Len(pendings.max) /\ Len(pendings.max) \in DOMAIN pendings.max
        BY <2>3, <2>4
      <4>2. i # Len(pendings.max)
        BY <2>3, <3>1, PriorityFacts
      <4>. QED
        BY <2>3, <2>4, <3>1, <4>1, <4>2 DEF IndInv, QueueInv
    <3>. QED
      BY <3>1
  <2>6. \A i \in DOMAIN pendings.low : pendings.low[i] # w
    BY <2>4, PriorityFacts
  <2>. QED
    BY <2>5, <2>6 DEF IsPending
<1>2. EachStatusIsTold <=> [][Told]_vars
  BY DEF EachStatusIsTold
<1>. QED
  BY <1>1, <1>2, Invariance, PTL DEF Spec
===============================================================================
