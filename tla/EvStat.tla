-------------------------------- MODULE EvStat --------------------------------
(***************************************************************************)
(* ev_stat: a watcher of a path.  It calls lstat when its timer expires, and *)
(* when inotify tells something of the file, or of the directory where there *)
(* is no file.  Watchers may share the path, and then the watch descriptor.  *)
(*                                                                          *)
(* Other processes change the file between any two system calls.  A change  *)
(* shows in the attributes; those are a pair of inode and a count of changes, *)
(* inode 0 if st_nlink is 0.  The directory always exists.                   *)
(***************************************************************************)
EXTENDS EvLoop

CONSTANTS
  Stats, TimerOf,    \* ev_stat watchers, and their timers (w->timer)
  FsW,               \* fs_w
  Local              \* fs_2625, and the file system is one that infy_add knows as local

ASSUME EvStatAssumption ==
  /\ Stats \subseteq Watchers \ Library /\ TimerOf \in [Stats -> Unreferenced] /\ FsW \in Unreferenced
  /\ \A s \in Stats : Kind[s] = "stat" /\ Kind[TimerOf[s]] = "timer" /\ Pri[TimerOf[s]] = Pri[s]
  /\ \A s, t \in Stats : s # t => TimerOf[s] # TimerOf[t]
  /\ Kind[FsW] = "io" /\ Pri[FsW] = NumPri - 1 /\ Local \in BOOLEAN

VARIABLES
  file,     \* its attributes
  changes,
  attr,     \* of each ev_stat
  wd,       \* of each, 0 or less if it has none
  fs_fd,    \* -2 before infy_init, -1 without inotify, else 1
  watch,    \* inotify: of each watch descriptor, the inode it is for, Dir, or None
  events,   \* events to read, of the descriptor wd; gone: IN_IGNORED or IN_DELETE_SELF
  infy,     \* infy_cb: events read, whether the present one is gone, watchers to look at
  missed    \* history: watchers that changes may pass by unseen (see ChangeIsNoticed)

inotify == <<wd, fs_fd, watch, events>>
evstat == <<file, changes, attr, inotify, infy, missed>>

None == 0
Dir == -1
Wds == DOMAIN watch
Event(d, gone) == [wd |-> d, gone |-> gone]
NoInfy == [read |-> <<>>, gone |-> FALSE, visit |-> {}]

EvStatInit ==
  /\ \E ino \in IF FsW \in program.has THEN {0, 1} ELSE {0} : file = [ino |-> ino, stamp |-> 0]
  /\ changes = 0
  /\ attr = [s \in Stats |-> [ino |-> 0, stamp |-> 0]] /\ wd = [s \in Stats |-> -2]
  /\ fs_fd = -2 /\ watch = <<>> /\ events = <<>> /\ infy = NoInfy /\ missed = {}

-------------------------------------------------------------------------------
(* The file and the kernel *)

WatchesOf(what) == {d \in Wds : what # None /\ watch[d] = what}
TellAll(ds, gone) == [i \in 1 .. Cardinality(ds) |-> Event(InSomeOrder(ds)[i], gone)]

\* Where the next step may look at the file or its events, or the poll waits.  A
\* change elsewhere is as good as one there: the steps between do not see it.
MayMatter == stack = <<>> \/ TopIs("stat") \/ TopIs("call") \/ InRun("poll") \/ InRun("loop_fork")

\* The watcher that a change passes by, see ChangeIsNoticed; moved: the old inode lives on
PassedBy(moved) ==
  {s \in Stats :
     /\ TopIs("stat") /\ Top.w = s
     /\ \/ Top.flags = "start"
        \/ moved /\ Top.pc = "again"
        \/ moved /\ Top.pc = "stat" /\ Top.flags = "wd"}

\* A write; an unlink, or a rename to another place, which leaves the watch on
\* the inode; a create, or a rename to this path, which may replace a file.
FileChanges ==
  /\ MayMatter /\ changes < program.changes /\ changes' = changes + 1
  /\ \/ /\ file.ino # 0 /\ file' = [file EXCEPT !.stamp = changes + 1]
        /\ events' = events \o TellAll(WatchesOf(file.ino), FALSE) /\ UNCHANGED watch
        /\ missed' = missed \cup PassedBy(FALSE)
     \/ \E ino \in {0, changes + 2}, moved \in BOOLEAN :
          /\ file.ino # ino /\ file' = [ino |-> ino, stamp |-> changes + 1]
          /\ file.ino = 0 => ~moved
          /\ events' = events \o TellAll(WatchesOf(file.ino), ~moved)
                              \o TellAll(IF ino = 0 THEN {} ELSE WatchesOf(Dir), FALSE)
          /\ watch' = IF moved THEN watch ELSE [d \in Wds |-> IF watch[d] = file.ino THEN None ELSE watch[d]]
          /\ missed' = missed \cup PassedBy(moved)
  /\ UNCHANGED <<attr, wd, fs_fd, infy>>

\* ev_stat_stat
Lstat(s) == IF file.ino = 0 THEN [attr[s] EXCEPT !.ino = 0] ELSE file
IsSeen(s) == attr[s] = Lstat(s)
EvStatStat(s) == attr' = [attr EXCEPT ![s] = Lstat(s)]

-------------------------------------------------------------------------------
(* infy_add and infy_del, on records of the inotify state *)

Infy == [wd |-> wd, watch |-> watch, events |-> events]
SetInfy(k) == wd' = k.wd /\ watch' = k.watch /\ events' = k.events

\* inotify_add_watch: the descriptor that the inode has already, or a new one.
\* Without a file the directory is watched for a hint.
InfyAdded(k, s) ==
  LET what == IF file.ino = 0 THEN Dir ELSE file.ino
      old == {d \in DOMAIN k.watch : k.watch[d] = what}
  IN  IF old # {} THEN [k EXCEPT !.wd[s] = CHOOSE d \in old : TRUE]
      ELSE [k EXCEPT !.wd[s] = Len(k.watch) + 1, !.watch = Append(@, what)]

\* inotify_rm_watch: other watchers with this descriptor are told by IN_IGNORED.
InfyDeleted(k, s) ==
  LET d == k.wd[s]
  IN  IF d < 0 THEN k
      ELSE IF k.watch[d] = None THEN [k EXCEPT !.wd[s] = -2]
      ELSE [k EXCEPT !.wd[s] = -2, !.watch[d] = None, !.events = Append(@, Event(d, TRUE))]

\* The timer polls, unless inotify tells of every change.
Polls(fd) == ~(fd >= 0 /\ Local /\ file.ino # 0)

NotUnrefed(l, w, before) == l                                    \* mutant

\* ev_ref and ev_unref around ev_timer_again: the timer does not count as active.
NotCounted(l, w, before) == [l EXCEPT !.activecnt = @ + before - l.active[w]]

Rearmed(l, s, repeat) ==
  LET w == TimerOf[s]
      again == IF ~repeat THEN Stopped(l, w) ELSE IF l.active[w] = 0 THEN Started(Cleared(l, w), w) ELSE Cleared(l, w)
  IN  NotCounted(again, w, l.active[w])

-------------------------------------------------------------------------------
(* stat_timer_cb and ev_stat_start, system call by system call, as a frame of  *)
(* the stack whose flags say who called: "start", "cb" or "wd" (infy_wd)      *)

InStat(pc) == TopIs("stat") /\ Top.pc = pc
StatFrame(s, pc, from) == Frame("stat", pc, from, s)

\* The first lstat, and whether something is different
StatTimerCb ==
  /\ InStat("stat")
  /\ LET s == Top.w
     IN  /\ EvStatStat(s)
         /\ IF IsSeen(s) THEN stack' = Return /\ UNCHANGED <<watchers, inotify>>
            ELSE IF fs_fd >= 0
            THEN /\ SetInfy(InfyDeleted(Infy, s)) /\ UNCHANGED <<watchers, fs_fd>>
                 /\ stack' = Append(Return, StatFrame(s, "add", "cb"))
            ELSE SetWs(Fed(Ws, s)) /\ stack' = Return /\ UNCHANGED inotify
  /\ UNCHANGED <<loop_done, postfork, history, program, ops, file, changes, infy, missed>>

StatedOnce(s) == UNCHANGED attr                                  \* mutant

\* "avoid race": a change between the lstat and infy_add
StatedAgain(s) == EvStatStat(s)

\* The second lstat
StatAgain ==
  /\ InStat("again")
  /\ StatedAgain(Top.w)
  /\ SetWs(Fed(Ws, Top.w)) /\ stack' = Return
  /\ UNCHANGED <<loop_done, postfork, history, program, ops, file, changes, inotify, infy, missed>>

InfyAdd ==
  /\ InStat("add")
  /\ LET s == Top.w
         l == Rearmed(Ws, s, Polls(fs_fd))
     IN  /\ SetInfy(IF fs_fd >= 0 THEN InfyAdded(Infy, s) ELSE Infy)
         /\ SetWs(IF Top.flags = "start" THEN Started(l, s) ELSE l)
         /\ stack' = CASE Top.flags = "start" -> Return
                       [] Top.flags = "cb" -> Goto("again")
                       [] Top.flags = "wd" -> Goto("stat")
         /\ missed' = IF Top.flags = "start" THEN missed ELSE missed \ {s}
  /\ UNCHANGED <<loop_done, postfork, history, program, ops, file, changes, attr, fs_fd, infy>>

\* infy_init: without a descriptor, ev_stat is left to its timers.
InfyInit ==
  IF fs_fd # -2 THEN UNCHANGED <<watchers, fs_fd>>
  ELSE \E fd \in {-1, 1} :
         fs_fd' = fd /\ IF fd = 1 THEN SetWs([Started(Ws, FsW) EXCEPT !.activecnt = @ - 1]) ELSE UNCHANGED watchers

EvStatStart(s) ==
  /\ Acts("stat") /\ ~IsActive(s)
  /\ EvStatStat(s) /\ missed' = missed \ {s}
  /\ InfyInit
  /\ stack' = Append(stack, StatFrame(s, "add", "start"))
  /\ UNCHANGED <<loop_done, postfork, history, file, changes, wd, watch, events, infy>>

EvStatStop(s) ==
  /\ Acts("stat") /\ IsActive(s)
  /\ SetInfy(IF fs_fd >= 0 THEN InfyDeleted(Infy, s) ELSE Infy)
  /\ SetWs(Stopped(Rearmed(Ws, s, FALSE), s))
  /\ UNCHANGED <<loop_done, postfork, stack, history, file, changes, attr, fs_fd, infy, missed>>

\* The timer is due.
StatTimerDue(s) ==
  /\ TopIs("call") /\ Top.pc = "library" /\ Top.w = TimerOf[s]
  /\ stack' = Append(Return, StatFrame(s, "stat", "cb"))
  /\ UNCHANGED <<watchers, loop_done, postfork, history, program, ops, evstat>>

-------------------------------------------------------------------------------
(* infy_cb and infy_wd *)

InInfy(pc) == TopIs("call") /\ Top.pc = pc /\ Top.w = FsW

\* One read, of some of the events
InfyCb ==
  /\ InInfy("library")
  /\ \E n \in 0 .. Len(events) :
       /\ n = 0 => events = <<>>
       /\ infy' = [NoInfy EXCEPT !.read = SubSeq(events, 1, n)] /\ events' = SubSeq(events, n + 1, Len(events))
  /\ stack' = Goto("infy_wd")
  /\ UNCHANGED <<watchers, loop_done, postfork, history, program, ops, file, changes, attr, wd, fs_fd, watch, missed>>

NextEvent ==
  /\ InInfy("infy_wd") /\ infy.visit = {} /\ infy.read # <<>>
  /\ LET e == infy.read[1]
     IN  infy' = [read |-> SubSeq(infy.read, 2, Len(infy.read)), gone |-> e.gone, visit |-> {s \in Stats : wd[s] = e.wd}]
  /\ UNCHANGED <<loopvars, file, changes, attr, inotify, missed>>

NotReAdded(gone) == "stat"                                       \* mutant

\* A watch that is gone is added again, "no matter what".
ReAdded(gone) == IF gone THEN "add" ELSE "stat"

InfyWd ==
  /\ InInfy("infy_wd") /\ infy.visit # {}
  /\ LET s == CHOOSE v \in infy.visit : TRUE
     IN  /\ infy' = [infy EXCEPT !.visit = @ \ {s}]
         /\ wd' = IF infy.gone THEN [wd EXCEPT ![s] = -1] ELSE wd
         /\ stack' = Append(stack, StatFrame(s, ReAdded(infy.gone), "wd"))
  /\ UNCHANGED <<watchers, loop_done, postfork, history, program, ops, file, changes, attr, fs_fd, watch, events, missed>>

InfyCbReturns ==
  /\ InInfy("infy_wd") /\ infy.visit = {} /\ infy.read = <<>>
  /\ stack' = Return
  /\ UNCHANGED <<watchers, loop_done, postfork, history, program, ops, evstat>>

\* infy_add for some watchers in turn, on the inotify state and the watchers
AddedAgain(both, ss, fd) ==
  LET added[n \in 0 .. Len(ss)] ==
        IF n = 0 THEN both
        ELSE [k |-> IF fd = 1 THEN InfyAdded(added[n - 1].k, ss[n]) ELSE added[n - 1].k,
              l |-> Rearmed(added[n - 1].l, ss[n], Polls(fd))]
  IN  added[Len(ss)]

\* infy_fork: a new inotify descriptor; what was to be read is lost.
InfyFork ==
  IF fs_fd < 0 THEN UNCHANGED <<watchers, evstat>>
  ELSE \E fd \in {-1, 1} :
         LET kept == {s \in Stats : wd[s] >= 0}
             fresh == [wd |-> [s \in Stats |-> IF s \in kept THEN -1 ELSE wd[s]], watch |-> <<>>, events |-> <<>>]
             fsw == Stopped([Ws EXCEPT !.activecnt = @ + 1], FsW)
             again == IF fd = 1 THEN [Started(fsw, FsW) EXCEPT !.activecnt = @ - 1] ELSE fsw
             last == AddedAgain([k |-> fresh, l |-> again], InSomeOrder(kept), fd)
         IN  /\ fs_fd' = fd /\ SetInfy(last.k) /\ SetWs(last.l)
             /\ missed' = (missed \ kept) \cup {s \in kept : ~IsSeen(s)}
             /\ UNCHANGED <<file, changes, attr, infy>>

EvStatCallbacks ==
  \/ StatTimerCb \/ StatAgain \/ InfyAdd \/ InfyCb \/ NextEvent \/ InfyWd \/ InfyCbReturns
  \/ \E s \in Stats : StatTimerDue(s)

EvStatCalls == \E s \in Stats \cap program.has : EvStatStart(s) \/ EvStatStop(s)

-------------------------------------------------------------------------------
(* Properties *)

IsTold(d) == (\E i \in DOMAIN events : events[i].wd = d) \/ (\E i \in DOMAIN infy.read : infy.read[i].wd = d)

\* Where the attributes of an active ev_stat are old, something will make it look:
\* its timer runs, an event of its descriptor is still to be read, or it is about
\* to look.  So too if its file was replaced, its descriptor was removed by
\* another ev_stat of the same path, or the change came between two system calls.
\* Not so, with inotify alone, for a change between the lstat and the infy_add of
\* ev_stat_start, for one whose event infy_fork drops, and for those after a move
\* between an infy_add and the lstat that follows it: see the README.
ChangeIsNoticed ==
  \A s \in Stats : IsActive(s) /\ ~IsSeen(s) =>
    \/ IsActive(TimerOf[s]) \/ IsTold(wd[s]) \/ s \in infy.visit \/ s \in missed
    \/ \E i \in DOMAIN stack : stack[i].at = "stat" /\ stack[i].w = s
=============================================================================
