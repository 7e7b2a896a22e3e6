# A verification of footprints-ev

footprints-ev is a small TCP server in C. On-board devices connect, send a
request framed by `BB` and `EE` in hexadecimal text, are answered `OK`, and the
request is decoded later by a pool of threads. The repository also carries the
event library it runs on, libev 4.15. This directory holds TLA+ models of the
server's parts and of libev, the TLC runs that check them, and theorems that
TLAPS checks. `PROJECT.json` lists components, runs, hazards, findings, theorems
and the source lines each definition translates.

## 1. The system

    clients --> event loop --> obd_mq --> dispatcher --> thread_pool --> workers
                (main thread)  (queue)    (one thread)   (ring of 8)     (8 threads)
                     |                                                      |
                     +--------------- obd_pool (free list) <----------------+

The event loop allocates an `OBD_t`, receives into it, takes the command from
the text, answers, and puts the `OBD_t` in the queue. The dispatcher polls the
queue (there is no wait: it spins) and adds each request to the thread pool. A
worker decodes it and frees it into `obd_pool`. SIGINT breaks the loop; main
then sets `mq_flag`, joins the dispatcher, destroys the thread pool (immediate),
destroys the memory pools and returns.

| part | source | its state | its operations | correct if |
|---|---|---|---|---|
| event loop and connections | `main-ev.c` | `libev_list`, watchers from `ev_pool`, descriptors | `accept_func_cb`, `read_func_cb`, `free_libev`, `ev_signal_cb` | table, watchers and descriptors agree; the end of a client is noticed |
| message queue | `OBD_mq.h` | circular list through the requests, `size`, `mq_mutex` | `mq_put`, `mq_get`, `mq_is_empty` | it is a FIFO; a call gives the mutex back |
| dispatcher | `main-ev.c:167` | `mq_flag`, the request in its hand | `thread_func_cb` | every request is handed on once; it ends |
| thread pool | `threadpool/` | ring, `head`, `tail`, `count`, `shutdown`, `started`, lock, condition variable | create, add, destroy, free, the worker loop | no task lost or run twice, no wake-up lost, freed when nobody uses it |
| memory pool | `FULMemoryPool/MemoryPool.*` | a free list inside the free blocks, no lock | `Malloc`, `Free`, create, destroy | a block has one user |
| codec | `OBD_struct.h`, `string_ops.h` | `data`, `data_length`, `hex` of one `OBD_t` | `OBD_get_cmd`, `OBD_filter_escape_and_transfer_to_hex` | a frame becomes the bytes it stands for; it ends |
| libev: descriptors | `ev.c`, `ev_{select,poll,epoll,port,kqueue}.c` | `anfds`, `fdchanges`, what the backend and the kernel keep of each descriptor | `ev_io_*`, `fd_reify`, `fd_kill`, `fd_rearm_all`, each backend's modify, poll, fork | a ready file is reported to its watcher, and to no other |
| libev: timers | `ev.c` | two heaps, two clocks, `rtmn_diff` | heap operations, `time_update`, `timers_reify`, `periodics_reify`, `ev_timer_*`, `ev_periodic_*`, suspend and resume | nobody is overslept, earlier comes first, clock jumps are absorbed |
| libev: loop core | `ev.c` | `pendings`, arrays of prepare, check, idle, fork and cleanup watchers, `activecnt`, `loop_done` | `ev_run`, `ev_invoke_pending`, `ev_feed_event`, `ev_break`, start and stop | a stopped watcher is not called; breaks end the right runs |
| libev: events and once | `event.c`, `ev.c:4610` | two watchers per event | `event_add`, `event_del`, `event_active`, `ev_once` | a deleted event or a freed `ev_once` is not called |
| libev: stat | `ev.c:3900` | attributes, watch descriptors, a timer | `ev_stat_*`, `infy_*` | every change is noticed |
| libev: wake-up, signals, children | `ev.c:2060-2400` | `pipe_write_wanted`, `pipe_write_skipped`, flags per signal and per async | `evpipe_write`, `pipecb`, `childcb`, `ev_async_*`, `ev_signal_*`, `ev_child_*` | nothing sent is slept over; every child is reaped |
| client | `client.c`, `OBD_network.h` | one socket | connect, send, recv | - |

The server's parts interact by calls and by shared memory: the queue and the
pool through the request's links and the ring, the memory pools through free
lists; libev calls back into `main-ev.c`, and `main-ev.c` starts and stops
watchers from the callbacks. Within libev the backends feed watchers that the
loop core invokes; callbacks may call any function of the library again, also
`ev_run`; other threads and signal handlers reach the loop through `evpipe` only.

The hard behaviours, each at its line under "hazards" in `PROJECT.json`:
lost wake-ups and the two kinds of shutdown of the thread pool; a creation that
fails half way; a mutex kept by a function that returned; pointer surgery on a
list with no or one element; an allocator without a lock used by nine threads;
links that live in user data; 8-bit counters against a 256 byte buffer; the
hand-over of a request through five owners; a ring that is full and a result that
is ignored; the order of the shutdown; descriptors and blocks that are reused
within one batch of callbacks; kernel interest sets that outlive a descriptor;
two clocks of which one may jump; queues that are changed while they are
walked; flags of two threads that test each other.

## 2. The modules

| module | what it is |
|---|---|
| `TaskPool` | abstract: a bounded FIFO of tasks, executors, graceful and immediate shutdown, as `threadpool.h` promises |
| `ThreadPool`, `ThreadPoolProofs` | `threadpool.c`, which implements `TaskPool`, and proofs |
| `MessageFifo` | abstract: an unbounded FIFO shared by threads |
| `MessageQueue`, `MessageQueueProofs` | `OBD_mq.h`, pointer by pointer, which implements `MessageFifo`, and proofs |
| `MemoryPool` | `FULMemoryPool`, one load or store per action; proofs for one thread in `ConnectionsProofs` |
| `ObdCodec`, `MCObdCodec` | a request from `recv` to the end of the decoder; proofs in `ServerProofs` |
| `Server`, `ServerProofs` | `main-ev.c`: `MessageQueue` and `ThreadPool` composed by INSTANCE with event loop, dispatcher, workers and shutdown, and proofs that use those of the two parts, and about `ObdCodec` |
| `Connections`, `ConnectionsProofs` | accept, end of connection, libev's lists, the epoll set, and proofs about them and about `ev_pool`, a `MemoryPool` with one thread |
| `EvFd` | libev's `anfds` and `fdchanges`, below every backend |
| `EvSelect`, `EvPoll`, `EvEpoll`, `EvPort`, `EvKqueue` | the five backends: init, modify, what the kernel reports, poll, fork |
| `EvBackends`, `MCEvBackends`, `EvBackendsProofs` | composes them with the user, the kernel, other processes and another thread, and proofs for each backend |
| `EvHeap` | the 4-heap and the 2-heap |
| `EvTimers`, `MCEvTimers`, `EvTimersProofs` | timers, periodics, the clocks, and proofs about the heaps and about them |
| `EvLoop` | `ev_run`, pending queues, watcher arrays, breaks, references |
| `LibEvent` | `event.c` and `ev_once`, on `EvLoop` |
| `EvStat` | `ev_stat` and inotify, on `EvLoop` |
| `EvPrograms`, `MCEvLoop`, `EvLoopProofs` | composes these three and drives them with small programs, and proofs for any programs |
| `EvWakeup`, `MCEvWakeup`, `EvWakeupProofs` | `evpipe`, `pipecb`, signals, children, load by load, and proofs |

The modules with no MC module have their constants in the `.cfg` of their name.

### How state and actions correspond to the code

*ThreadPool.* Between creation and release every access to the pool's fields is
made with `pool->lock` held, so one stretch from taking the lock to giving it up
(or to `pthread_cond_wait`) is one action. `threadpool_create` writes
`thread_count` and `started` without the lock, but nothing reads them until
`shutdown` is set, by the same thread. A worker at `"lock"` is at the top of its
loop or on its way out of a wait; both re-evaluate the condition of the `while`.
`CondSignal` wakes any one sleeper, and wake-ups may be spurious. `Add` requires
that its argument is not in the pool: the server adds each `OBD_t` once.

*MessageQueue.* Each call is one critical section, so one action, possible only
when the mutex is free. `mq_is_empty` leaves the mutex with its caller. `fifo` is
a history variable: it names the order of the puts.

*MemoryPool.* No lock, so every load and store of `pFirstAvailable` and of a link
is an action; the Makefile passes no `-O`, and each C expression is a separate
memory access in that build. A link that reads a user's data is `Wild`, and the pointer to no block `NoBlock`. A
dereference of no block is undefined behaviour: the action is not enabled there
and the run says nothing of what follows.

*ObdCodec.* Memory is one array of cells, since the decoder runs over the end of
`data` into `data_length` and `hex`. `BufSize` stands both for `BUF_SIZE` and for
2^8, which are the same number in the code (256), so the wrap of the `u8_t`
variables is kept. Characters are ASCII codes 1..127: a byte of 128 or more is a
negative `char` and is not considered. `asc2hex` is kept with its bounds
(`< 'Z'`, `< 'z'`) and with what it returns for other characters.

*Server.* A request is identified with its `OBD_t`; `obd_pool` is a set, its calls
atomic (its own run shows that they are not, see `memory_pool_obd`). `mq_flag` is
read without a lock; at `-O0` each turn of the loop reads it again. A request
that the decoder never finishes with is `overlong`: any request may be.
`pending` counts callbacks of the batch in which the signal was handled, which
libev still runs after `ev_break`. `answering` says that the callback is in the
`send` of its OK (`main-ev.c:105`), which may wait for the client (see *Connections*);
that SIGPIPE may end the process there is left to `Connections`.

*Connections.* One iteration of the loop is `Poll` (fd_reify, then epoll), and one
action per pending callback, in any order, two for a `read_func_cb` that answers.
`peer` is what `recv` would say. All sockets block: `accept` makes them so and nothing
changes it. A client that sends requests and never reads its answers lets the send
buffer of its socket fill up (`stalled`), and then the `send` of the next OK does not
return: `answering` is the watcher whose callback is in it, `Stuck` that it
cannot go on, and meanwhile nothing else is polled or called back. It goes on when the client
reads (`PeerReads`) or its connection is reset (`PeerResets`); a `send` after a reset
fails, or raises SIGPIPE and ends the process (`AnswerFails`). The
word behind `libev_list` is `ev_pool` in the object file gcc makes, which is not
NULL. A block that malloc cannot give ends the process
(`Free(ev_pool, NULL)` stores through NULL). It has libev as the server uses it;
`EvBackends` has libev itself.

*EvFd and the backends.* `loop` is the part of `struct ev_loop` that concerns
descriptors; each function of `ev.c` and of a backend that changes it is an
operator from one such record to the next, and `poller` is the backend's own
state together with what the kernel keeps (the interest set of epoll with its
entries per descriptor and file, the associations of an event port, the filters
of kqueue, poll's array with its index). A descriptor is not its file: a file can
stay open elsewhere, a descriptor can be closed and given to another file. The
poll is in steps: reify one descriptor, begin to wait, return, take the lock back
(`EV_ACQUIRE_CB`), handle one event, finish; another thread may call the library
while the loop waits and until it has the lock. epoll's generation counter is
kept as what it tells: whether an entry is the one of now. A descriptor comes
back with a file that left no trace (that a `dup` comes back to its old number is
what `ev.pod` excludes). Lists of watchers are sets; arrays do not grow.

*EvHeap and EvTimers.* The heaps are sequences with the cached time of each
element (`EV_HEAP_CACHE_AT`) and the watchers' `active` index; `DHEAP` is 4 or 2.
Time is counted in units. `clock` is the monotonic clock and `wall` its distance
from the real time; `SetClock` moves the latter. `have_monotonic` is chosen at
the start. `Block` is `ev_run` as far as the poll, `Wake` the `time_update` after
it, `Reify` both reify functions. Between them time passes and clocks are set.
Each loop of the code (`upheap`, `downheap`, `reheap`, the two reify functions) is a
recursive function of the number of turns made, one operator per turn (`UpTurn`,
`DownTurn`, `TimerTurn`, `PeriodicTurn`); a turn after the loop has ended changes nothing,
and as many turns are counted as can be needed. `upheap` moves the others first and
writes its own element at the end; `Swapped` writes it at each turn, and nobody sees
the difference. `PendingW` stands in for a watcher that `clear_pending` took out.

*EvLoop.* `stack` is the C stack as far as it matters: calls of `ev_run`, of
`ev_invoke_pending` and of callbacks, each with the place it is at. The user acts
in a callback or outside `ev_run`; any sequence of calls from `program.calls` may
be made there. `Poll(happened)` feeds any set of active watchers, as `EvBackends`,
`EvTimers` and `EvWakeup` may. `pendingpri` and the entries that clear_pending
leaves behind are kept. `refs`, `silenced` and `leave` are history.

*LibEvent.* The watchers of an event or an `ev_once` are watchers of `EvLoop` with a
callback of the library, which runs before the user's. `event_pending` changes
nothing and priorities of events are ignored by `event.c`.

*EvStat.* `stat_timer_cb`, `ev_stat_start` and `infy_wd` are cut at each system
call (lstat, `inotify_add_watch`, `inotify_rm_watch`, read), and the file may change
at each cut. `MayMatter` names the places where a change can be told from one a
little later; a change elsewhere is seen by no step in between, so nothing is
left out. A watch descriptor is an index that is not used again. `Local` is a file
system that inotify covers, where the timer does not run while inotify has the
file.

*EvWakeup.* Each load and each store of a variable that a sender shares with the
loop is an action. Memory is sequentially consistent: the code has a full fence
between the store and the load at both ends (`ev.c:2145`, `:3310`) and
release fences where the flags are reset, so each outcome of the program is one
of an interleaving. A signal handler is a sender of its own, and may run between
any two steps. After a fork the child is followed, without threads and children.

## 3. The runs

| run | instance | states | what it shows |
|---|---|---|---|
| `thread_pool` | 3 workers, 2 slots, 4 tasks | 25,789 | no lost wake-up, release when quiet, liveness, and that the pool implements `TaskPool`; the ring fills and wraps, all workers can sleep, create can fail at each worker |
| `message_queue` | 2 threads, 4 nodes | 2,275 | the list stays well formed and is a FIFO; lists of length 0, 1, 2 and more all occur |
| `message_queue_mutex` | 2 threads, 2 nodes | | *violation*: `mq_is_empty` keeps the mutex; its unlock at `OBD_mq.h:56` is unreachable |
| `memory_pool_ev` | 1 thread, 4 blocks | 2,864 | the pool is sound for one thread, as `ev_pool` is used |
| `memory_pool_obd` | 1 allocating and 1 freeing thread, 3 blocks | | *violation*: the same pool used as `obd_pool` is hands out a block twice |
| `codec` | buffer of 12, about 9000 texts | 43,755 | a frame is decoded to its bytes, with and without escapes, as far as its pairs lie in `data`, also if it begins too late; the decoder ends, but on texts of the one length `i` never reaches |
| `server` | 3 requests, 2 workers, 1 slot, batch of 2 | 380,121 | a request is in one place; the shutdown order is safe; SIGINT ends the server if no `send` lasts for ever, with the exceptions the property names |
| `connections` | table of 2, 4 descriptors, backlog 1, 3 watchers | 612,193 | tables, descriptors, watchers, epoll set and batch agree; the end of a client is noticed, if no other holds the loop in a `send` for ever |
| `ev_backends` | 2 descriptors, 2 watchers, 3 files, 4 operations, 5 backends | 1,472,799 | no watcher deaf or told of another file; what stays ready is reported |
| `ev_timers` | 10 timers, 2 periodics, clock to 3, 2 operations, both heaps, both clocks | 636,555 | heaps sound, also when the last element goes up in the place of one that is stopped; nobody overslept, order of calls, jumps of the clock, suspend |
| `ev_loop` | 8 programs | 390,474 | tables sound under callbacks that stop, feed, clear, break and run again; deleted and freed things are not called; file changes are noticed |
| `ev_wakeup` | 2 senders, 2 sends, 1 start or stop or fork, 2 asyncs, an async and a signal, or 2 children | 390,131 | no lost wake-up, delivery, every child reaped and each status told |

Every property of a passing run has a mutant in the same module (marked
`\* mutant`): the definition changed as a plausible bug would change it, under
which the run finds the property violated.

**Bounds.** They are the constants above, and:
`PeerSends` and `Connect` are bounded by one outstanding event per socket and
`MaxBacklog`; the loop leaves at most `MaxBatch` callbacks after `ev_break`;
in the `Ev` modules the calls of the user, the changes of files, the sends and
the ticks of the clock are bounded by `MaxOps`, `program.ops`, `program.changes`,
`MaxSends` and `MaxClock`, the depth of `ev_run` in `ev_run` by `program.depth`. What
the library does by itself is never bounded. They are enough in the sense that
each threshold is crossed: rings that are full, empty, and of size smaller than
the tasks in flight; more workers than slots; a table whose last entry, first
missing entry and a descriptor beyond it are all reached (`MaxFd` is
`MaxClient + 2`); texts of every length modulo the buffer size, also the full
buffer and the one before. The 12-cell buffer lets a frame begin late enough to
read `data_length` and into `hex`. Four operations on two descriptors are enough
to start a watcher, close and reopen its descriptor and start another, to fork
with a file held elsewhere and make the stale entry report, and to stop and
restart across a poll; two descriptors make the hole in poll's array be filled
from behind. Ten timers are the fewest with
which a stop in the 4-heap can make the last element rise, in a branch that is not its own
(six do in the 2-heap), and their times in `TwoBranches` are such that it must; the two
loops have three and four levels to go. Two senders are the
fewest for one to undo what the other skipped. The programs of `MCEvLoop` give
each kind of watcher a company it may disturb: two of one array, so that one
moves; two priorities; two runs, one in the other; three changes of a file, the fewest
that pass an `ev_stat` by unseen after a move. The theorems remove the bounds from
the safety properties of every run.

**Deadlock** checking is off in every run since each system may stop: a pool that
was destroyed, a server that has returned or has locked itself out
(`SelfDeadlock`, a real end of this code), a queue whose mutex is kept, a request
that is decoded, a process that died, a program that has made its last call. What
must not stop is stated as liveness.

**Fairness.** `ThreadPool`: some worker that can take the lock does (no promise
which: a pthread mutex is not fair), a running task returns, the owner goes on
with its loops; nobody has to add or destroy. `Server`: each thread that can run
does, a decode that can end does, and no request or signal has to come. `Answer`
has no fairness: that each `send` ends in time is the premise of `SignalEndsServer`.
`ObdCodec`: the decoding thread runs. `Connections`: the loop iterates and runs
the callbacks it has. No client has to do anything, not even to read, so a `send` may
not return; `PeerCloseIsSeen` is about the runs in which the loop is not `Stuck` for ever.
Without that premise TLC finds it violated. `EvBackends`: the thread that
calls `ev_run` goes on, and a wait ends (by a timeout at the latest); nobody has to
do anything else. `EvWakeup`: the loop goes on, a sender that is in `evpipe_write`
finishes, and a raised signal is handled. This is what a preemptive scheduler
gives to runnable threads; all of it is weak fairness.

## 4. What is proved

All theorems are for every value of the constants, under the named assumptions
of the modules, which TLC evaluates on every run. They say that the sets are
finite, the constants of their types and the watchers that the library keeps for
itself distinct (`PoolAssumption`, `QueueAssumption`, `MemoryAssumption`,
`ServerAssumption`, `ConnectionsAssumption`, `EvWakeupAssumption`, `TimersAssumption`,
`EvLoopAssumption`, `LibEventAssumption`, `EvStatAssumption`, `EvFdAssumption`,
`BackendsAssumption`). Each module has an inductive invariant (`IndInv`), one
lemma per action or per conjunct that says a step keeps it, and the properties as
its consequences. TLC has checked each of them on the states of the run first.

*ThreadPoolProofs.* `EachTaskOnce` is not inductive by itself: that
tail is where head and count say (`RingInv`) is needed to see that `Add` writes a
free slot and `Grab` a live one. `NoTaskWaitsForASleeper` counts: each add that
finds a sleeper wakes one, and a worker that goes to sleep found the ring empty.
`PoolReleasedWhenQuiet` needs that `started` is the number of workers that have
not exited (`PhaseInv`), so that `threadpool_free` is not refused after the joins.
`GracefulRunsEverything` follows from `PhaseInv`: a worker that has exited saw an
empty ring. `Refinement` maps the live slots, oldest first, to `pending`; adding
appends, grabbing takes the head, and everything else stutters or is a shutdown
step.

*MessageQueueProofs.* `IndInv` ties `next` and `prev` to the history `fifo`:
position i and i+1 point at each other, the sentinel at both ends. From it follow
the list's well-formedness, its types and `Refinement` (the queue implements
`MessageFifo`).

*ServerProofs.* The theorems of the queue and the pool are used through two
instances: `Constants` shows that the server's constants meet their assumptions, and
each step of the server is a step or a stutter of either, so their invariants
hold in it. To them come how far main, dispatcher and pool can be apart (`InStep`)
and `OnePlace` itself. An `OBD_t` leaves the queue when it enters the dispatcher's
hand because the queue's `Get` says which it takes, and enters the ring of the pool
once because `OnePlace` keeps a task that is there from being in the hand.
`ShutdownOrder` follows from `InStep` and the pool's `PhaseInv`.

The second half is about the codec. `Decoding` is what the first pairs of a frame
stand for, as a recursive function over `data` alone; that its recursion has a
solution is `DecodingIs` (by induction for a set, from the library's well-founded
`<`). The decoder works in place instead, with `u8_t` counters and reads that may
reach what it writes. `DecodedSoFar` ties the two together turn by turn while the pairs
read lie in `data` (there is `Room` for as many); it needs `CountersInStep` (`i` is even, goes up by two without
coming round, and `2 * j <= i`), which is true for all texts but the overlong ones, of
`BufSize - 1` characters. `FramesAreDecoded` and `CleanFramesAreDecoded` follow at the end,
where `i` has just passed the last pair. Of a frame that begins so late that pairs lie behind
`data` the first `Room` turns go the same way, and the others write behind what these wrote
(`DecodedBehind`): `hex` begins with the right bytes and is 0 from `j` on. What comes
between is not said; where it is read is (`ReadsStayInRequest`).
`EveryTurnAdvances` is the safety half of `DecodeEnds`, and `OverlongNeverEnds` is why
`Server` has requests that are `overlong`.

*ConnectionsProofs.* The three invariants of the run are inductive together, with
three more facts: an entry of `libev_list` is made for a descriptor the kernel gave,
accept is pending only while a client waits, and the watcher whose callback is in
`send` is still the entry of its descriptor (`AnswererIsThere`). A callback that comes too late
would need two pending watchers of one descriptor, which the first excludes.

The second half is about `ev_pool`: `MemoryPool` with one thread (`OneThread`, which is
the event loop), and any set of blocks. The free list is the history `stack`, every
block is in one place, and a call that is half done knows what it has
read. So no block has two users (`NoBlockShared`), no wild link is followed
(`NoWildLink`) and destroy leaks nothing that was freed (`DestroyLeaksNothing`).
`PoolIsASet` joins the two halves: the blocks nobody has change as the variable `pool`
of `Connections` does, one at a time, and who takes one takes it from there. Without
`OneThread`, as for `obd_pool`, the statements are false: see `memory_pool_obd`.

*EvWakeupProofs.* `Noticed` says where what a sender flagged is: the eventfd is
readable, `pipe_write_skipped` is set, a sender is between the flag and the write,
`pipe_w` is pending, or pipecb will come to that flag. `SkippedIsUnderWay` is
the two-flag argument: while the poll may wait, `pipe_write_wanted` is set, so
`pipe_write_skipped` was set by a sender that has yet to test it or found it set.
`NoLostWakeup` follows for any number of senders. `QueueInv` (SIGCHLD's
watcher is never above a pending child watcher) gives that no status is lost.

*EvLoopProofs.* `IndInv` covers the tables (`Sound`: queues, arrays and counts
of a record of all watchers), the stack (`Nested`: who may call whom, and that
nothing is called from between the test of `loop_done` and the end of the poll), what
is pending between two parts of `ev_run` (`RunQuiet`), whom `loop_done` is for
(`BreakSound`), and that what was deleted or freed is out of the tables. Each operator on the tables
(`Fed`, `Cleared`, `Started`, `Stopped`, `Killed` ...) has a lemma that it keeps `Sound`
and says what becomes of the sets of active and pending watchers; the steps
only use those. Loops over watchers (`queue_events`, `infy_fork`) are recursive
functions, about which `SetInduction` allows induction: it takes the set of the
numbers for which a fact holds, not the fact. `SilencedIsNotCalled` needs no history beyond
the tables: what is silenced is not pending. `BreaksAsTold` needs that `leave` is always
what the value of `loop_done` tells (`Told`).

`ChangesAreNoticed` (`ChangeIsNoticed`) has an invariant of its own, `StatInv`. An
`ev_stat` without a running timer depends on inotify, and then its watch is the
present file's, or an event that says the watch is gone is still to be read, or
its attributes differ from the file in a way that its next look will see (`Right`);
the three relax one by one as `stat_timer_cb` and `infy_wd` go through their
system calls (`Watched`). That several `ev_stat`s share a watch descriptor, and one
that stops removes it for all, is covered by the IN_IGNORED it causes
(`KernelTells`). The proof attempt found the race of section 5 that the model's
two changes of a file had been one too few to show.

*EvBackendsProofs.* `IndInv` says what the backend was told: where the descriptor is
open, some watcher of its present file was started and it is not marked for
EPOLL_CTL_ADD afresh (`Known`), select's sets, poll's array, epoll's entry and
mask, the port's association or kqueue's filters are those of `anfds[fd].events`
(`Told`, a conjunct per backend); `fdchanges` has exactly the marked descriptors
(`Marked`) and a change of events is marked (`Agree`). What the kernel returned
stays true of its file while another thread changes things before the lock is
taken back (`Returned`). `NobodyDeaf` and `ToldOfItsFile` follow, for any number of
descriptors, files and watchers. At the start each file has one descriptor
(`BackendsAssumption`), as every later one that the model opens has.

*EvTimersProofs.* The heaps first, for both values of `DHEAP` and any size. `Shape` is what
a heap is between two calls: places and `active` agree (`InPlace`), no watcher is on it
twice, a parent is not later than its children (`Ordered`). During `upheap` one pair may be
out of order, the element that rises and its parent, and the children of that element
are not earlier than that parent (`UpToDo`, `UpState`); for `downheap` the same towards the
leaves. Each turn keeps that (`UpTurnKeeps`, `DownTurnKeeps`), and as the place
falls or rises at each, the turns suffice: so `UpHeapFacts`, `DownHeapFacts`, and from them what
insert, delete, adjust and reheap return (`InsertFacts`, `DeleteFacts`, `AdjustedFacts`,
`ReheapFacts`): a heap again, with the entries one expects. `AdjustHeapFacts` is where a
stop in the middle is decided: either what replaces it is not later than its parent, or not
earlier, and in each case the one loop that is run is the one that was needed.
`TopIsEarliest` is the induction along parents that `NobodyOverslept` and
`timers_reify` rely on.

Then the loop. `IndInv` says that both heaps fit the watchers' times (`Fits`, from which
`HeapsSound`), that `pendings` is in order, and `NobodyOverslept`. For the reify functions
the number of watchers that are due falls at each turn (`FewerDue`), so that nobody
is left due (`NobodyIsLeftDue`), and each turn feeds one that is not earlier than those fed
before, since what is moved on goes to the present or later (`FedSoFar`); fed in reverse they
are called earlier first. `TimersOutliveSuspend` follows from `RescheduledFacts`.

`PeriodicsStayInReach` has a hypothesis of its own: every jump of the real time clock is a
multiple of one that is noticed (as in the run, whose jumps are 5 either way with a
`MIN_TIMEJUMP` of 4). It cannot do without one. `time_update` compares the difference of
the two clocks with the last one, not with the one the periodics were computed from
(`ev.c:3201-3209`): a real time clock that goes back by less than `MIN_TIMEJUMP` from one
update to the next (one jump of 9 back and one of 6 forth, or a clock that is slewed) is
not noticed however often that happens, and the periodics stay where they were. Under the
hypothesis both differences are on one grid (`ClockInv`), so what is not noticed is nothing.

Types of the first three modules, `EachTaskOnce`, `GracefulRunsEverything` and
`CleanFrameDecoded` are proved and not run again by TLC. Only model-checked are all
liveness, which is out of the prover's reach (`ReadyIsTold`, the end of the dispatcher,
of the server, of a client and so on), and everything that needs ENABLED.

## 5. Disagreements found

With a run:

1. `mq_is_empty` keeps `mq_mutex` (`OBD_mq.h:51` against `:56`). It is called only
   after `mq_flag` is set, when the event loop does not use the queue any more,
   but if the queue is not empty at that moment the dispatcher waits for itself
   and the server never ends (`SelfDeadlock`).
2. `obd_pool` is used by several threads without a lock, and `Malloc` may return
   a block in use (against `MemoryPool.h:96`); `mem_lock` exists and is never taken.

Seen while modelling, and excepted by name in a property or outside every run:

- `ev_epoll.c:125` asks the mask whether a descriptor is "already inside"
  `epoll_eperms` (comment at `:124`). A file epoll refuses that is stopped, taken
  off the list by a poll (`:222-232`) and started again is not put back, and is
  never reported from then on. `TakenOff` names the case; TLC confirms that it is
  the only one of its kind.
- `ev_stat_start` has no second lstat after `infy_add` (`ev.c:4206-4219`), as
  `stat_timer_cb` has: with inotify alone a change between the two is not noticed.
  `infy_fork` drops unread events. `missed` marks both.
- The second lstat (`ev.c:4192`) can make `attr` equal to `prev` again, against the
  comment at `:4182-4185`.
- A file that is moved away, or replaced while a link keeps its inode, between an
  `infy_add` and the lstat that follows it (`ev.c:4189-4192`, and `:4023-4031` for
  infy_wd's) leaves the watch on the old inode: the lstat has the attributes of
  the new file or of none, nothing compares them with what is watched, and the timer is off.
  Later changes are not noticed until something happens to the old
  inode. `PassedBy` names the moments, and the proof shows that there are no others.
- `event_del` leaves what `event_active(ev, EV_TIMEOUT)` made pending when the
  event has no timer running (`event.c:281`). `Forgets` excepts it.
- `loop_fork` feeds `pipe_w` right before the poll (`ev.c:2772`): what was sent
  before the fork waits for that poll to end. `NoLostWakeup` excepts it.
- A signal that is pending when its last watcher stops stays so (`ev.c:2289`), and
  is told to a watcher started later.
- `obd_pool` is destroyed while blocks are out (`main-ev.c:234` against
  `MemoryPool.h:86`).
- A second `threadpool_destroy` during the first would leave with the lock held
  (`threadpool.c:213`); the program makes one call.
- The comment at `threadpool.c:254` has the order of `threadpool_create` wrong:
  `threads` is allocated before the mutex is initialised, so a create that fails
  in between destroys what was not made.
- `send` at `main-ev.c:105` blocks: one client that sends requests and reads no answer
  stops the event loop for all others, and SIGINT with it (libev's handler is installed
  with `SA_RESTART`, `ev.c:3807`). `Stuck` and `answering` name it in the premises of
  `PeerCloseIsSeen` and `SignalEndsServer`. After a reset the same `send` may end the
  process by SIGPIPE (`crashed`).
- A request of 255 characters is decoded for ever and takes its worker with it; a
  request of 256 is dropped without an answer; descriptor 20480 is accepted and
  never served; a socket whose watcher libev killed stays open.

## 6. Not modelled

- `main.c` (does not compile), `OBD_server.h` and `mysqlpool/`: not built.
- `OBD_cmd_id.h` and `OBD_structs_new.h`: constants and layouts. `CProjectDfn.*`
  prints.
- The client: one request, one answer, the end of the process.
- libev: `ev_win32.c`, the IOCP backend and the growth of arrays; `ev_embed`, which
  nothing here uses; `ev++.h`, templates over the C interface; signalfd, which is
  off by default; the self-pipe that stands in for an eventfd; `ev_walk` and
  `ev_verify`, which change nothing (what `ev_verify` asserts is in `LoopSound`,
  `HeapsSound` and `TablesAgree`); an overflow of inotify's queue, which may swallow
  an IN_IGNORED; parent directories that come and go; a user's own `invoke_cb`;
  collect intervals, which are 0 by default.
- EPOLLHUP and EPOLLERR outside the mask (`ev_epoll.c:170`): they reach the same
  EPOLL_CTL_MOD as any other event nobody wants, which is modelled.
- The order in which one poll feeds what it found: `EvLoop.Poll` has one fixed order of the set
  of watchers, and any set. The order of timers is that of `EvTimers`.
- `backend_mintime`, which may lengthen a wait by a millisecond: `EvTimers` has 0.
- The allocations of `threadpool_create` and of `CreateMemoryPool`, and failures of
  the calls in `main` before the loop, which it ignores.

## 7. Plan

1. *Done*: thread pool, message queue, memory pool with their abstract
   specifications and proofs; codec; server; connections; libev's descriptors and
   backends, timers, loop core, libevent layer, `ev_stat`, wake-up.
2. *Done*: inductive invariants and proofs for the server (with the theorems of
   the thread pool and the queue used through INSTANCE), the connections, the
   wake-up, the loop core with libevent's events, `ev_once` and `ev_stat`, the five backends,
   and the timers.
3. *Done*: the heaps and `EvTimers` proved. Left: an abstract timer queue that
   `EvTimers` implements.
4. An abstract specification of a request's life (received, answered, decoded or
   lost) that `Server` implements, from `OnePlace`.
5. `Connections`: the request blocks and a failing `OBD_init`;
   `DestroyMemoryPool(&ev_pool)` with clients connected.
6. `MemoryPool` as `obd_pool` with `mem_lock` taken: what the unused lock would
   give, as a refinement of a set of blocks.
