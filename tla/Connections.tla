----------------------------- MODULE Connections ------------------------------
(***************************************************************************)
(* main-ev.c: the connections of the server, all handled by the event loop *)
(* thread.  A connection is a descriptor, an ev_io watcher from ev_pool and *)
(* an entry of libev_list; libev (ev.c, ev_epoll.c) and the kernel keep     *)
(* their own record of it.                                                  *)
(*                                                                          *)
(* An iteration of the loop brings the epoll set up to date, asks the      *)
(* kernel what is ready, and runs the callbacks of one batch.  A callback   *)
(* may close a descriptor and give up its watcher, and a later one of the   *)
(* same batch may be given the same number and the same block again.        *)
(*                                                                          *)
(* The sockets block.  read_func_cb answers each request with send, which    *)
(* waits, and every client with it, while the send buffer is full of        *)
(* answers that the client does not read.                                   *)
(*                                                                          *)
(* What is received is left out (ObdCodec and Server have it), and so are a *)
(* request block that malloc cannot give, more than 64 events in one batch  *)
(* (epoll then reports the rest in the next) and the signal watcher.        *)
(***************************************************************************)
EXTENDS Integers, FiniteSets

CONSTANTS
  MaxClient,   \* SOCKET_ALLOC_MAX_CLIENT: the entries of libev_list
  MaxFd,       \* how many descriptors the kernel lets the server have for clients
  MaxBacklog,  \* how many connections may wait to be accepted
  Watchers,    \* the ev_io blocks malloc can give
  Acceptor,    \* &socket_accept
  NULL

ASSUME ConnectionsAssumption ==
  /\ MaxClient \in Nat /\ MaxFd \in Nat /\ MaxBacklog \in Nat
  /\ Acceptor \notin Watchers
  /\ NULL \notin Watchers

VARIABLES
  backlog,     \* connections that wait for accept
  peer,        \* what recv on each descriptor would say; "none": not open
  stalled,     \* descriptors whose send buffer is full
  libevList,   \* libev_list
  wfd,         \* w->fd of each watcher
  pool,        \* the ev_io blocks in ev_pool, or never allocated
  active,      \* watchers that are started: the lists anfds[fd].head
  changed,     \* fdchanges
  wanted,      \* descriptors whose anfds[fd].events is not 0
  polled,      \* descriptors in the kernel's epoll set
  pending,     \* the callbacks of the batch not yet run, with their revents
  answering,   \* the watcher whose callback is in send, or NULL
  crashed      \* the process has died

client == <<peer, libevList, wfd, pool>>
libev == <<active, changed, wanted, polled, pending>>
sending == <<stalled, answering>>
vars == <<backlog, client, libev, sending, crashed>>

Fds == 0 .. MaxFd - 1
ListenFd == MaxFd                      \* server_socket
Listed == 0 .. MaxClient - 1

FdOf(w) == IF w = Acceptor THEN ListenFd ELSE wfd[w]
Watched(fd) == \E w \in active : FdOf(w) = fd
Ready(fd) == IF fd = ListenFd THEN backlog > 0 ELSE peer[fd] \notin {"none", "quiet"}

\* The connection was reset: recv gives what is left, fails once at most, and
\* then returns 0.
Cut == {"cutData", "reset", "cutEof"}

Init ==
  /\ backlog = 0
  /\ peer = [fd \in Fds |-> "none"]
  /\ libevList = [fd \in Listed |-> NULL]
  /\ wfd = [w \in Watchers |-> 0]
  /\ pool = Watchers
  /\ active = {Acceptor} /\ changed = {ListenFd}
  /\ wanted = {} /\ polled = {} /\ pending = {}
  /\ stalled = {} /\ answering = NULL
  /\ crashed = FALSE

-------------------------------------------------------------------------------
(* The clients. *)

Connect ==
  /\ ~crashed
  /\ backlog < MaxBacklog
  /\ backlog' = backlog + 1
  /\ UNCHANGED <<client, libev, sending, crashed>>

\* A client sends or closes.  A close behind data that recv has not given yet
\* cannot be told from one that comes later.
PeerSends(fd) ==
  /\ ~crashed
  /\ peer[fd] = "quiet"
  /\ \E what \in {"data", "eof"} : peer' = [peer EXCEPT ![fd] = what]
  /\ UNCHANGED <<backlog, libevList, wfd, pool, libev, sending, crashed>>

\* The connection is reset, by the client or because nothing is heard of it any
\* more.  What was to be sent is dropped.
PeerResets(fd) ==
  /\ ~crashed
  /\ \E was \in {<<"quiet", "reset">>, <<"data", "cutData">>, <<"eof", "cutEof">>} :
       peer[fd] = was[1] /\ peer' = [peer EXCEPT ![fd] = was[2]]
  /\ stalled' = stalled \ {fd}
  /\ UNCHANGED <<backlog, libevList, wfd, pool, libev, answering, crashed>>

\* A client takes answers, which makes room in the send buffer.
PeerReads(fd) ==
  /\ ~crashed
  /\ fd \in stalled
  /\ stalled' = stalled \ {fd}
  /\ UNCHANGED <<backlog, client, libev, answering, crashed>>

-------------------------------------------------------------------------------
(* libev: fd_reify, epoll_modify, epoll_poll *)

ModifiedWhenNew == {fd \in changed : Watched(fd) /\ fd \notin wanted}   \* mutant

\* The changed descriptors that are put in the epoll set: all that are watched,
\* since ev_io_init marks a new watcher with EV__IOFDSET.
Modified == {fd \in changed : Watched(fd)}

\* A descriptor epoll_ctl refuses is killed: its watcher is stopped and told.
Poll ==
  /\ ~crashed /\ pending = {} /\ answering = NULL
  /\ \E bad \in SUBSET Modified :
       LET killed == {w \in active : FdOf(w) \in bad}
           left == active \ killed
           now == polled \cup (Modified \ bad)
       IN  /\ active' = left
           /\ polled' = now
           /\ wanted' = {FdOf(w) : w \in left}
           /\ pending' = {<<w, "error">> : w \in killed} \cup
                {<<w, "read">> : w \in {v \in left : FdOf(v) \in now /\ Ready(FdOf(v))}}
           /\ changed' = {}
           /\ pending' # {} \/ changed # {}
  /\ UNCHANGED <<backlog, client, sending, crashed>>

-------------------------------------------------------------------------------
(* accept_func_cb *)

\* The kernel gives the lowest descriptor that is free.
NewFd(fd) == peer[fd] = "none" /\ \A lower \in 0 .. fd - 1 : peer[lower] # "none"

\* libev_list[fd]; the word behind the table is ev_pool, which is not NULL.
Taken(fd) == IF fd \in Listed THEN libevList[fd] # NULL ELSE TRUE

\* The callback is over; so is its place in the batch.
Done(w, revents) ==
  /\ ~crashed /\ answering = NULL
  /\ <<w, revents>> \in pending
  /\ pending' = pending \ {<<w, revents>>}

\* Malloc returned NULL, and Free(ev_pool, NULL) stores through it.
AcceptNoMemory ==
  /\ \E revents \in {"read", "error"} : Done(Acceptor, revents)
  /\ crashed' = TRUE
  /\ UNCHANGED <<backlog, client, active, changed, wanted, polled, sending>>

\* Malloc gave a block, and Free(ev_pool, w_client) takes it back: EV_ERROR; the
\* client is gone or no descriptor is left; the descriptor is beyond the limit;
\* its entry is taken, and then it stays open.
AcceptError ==
  /\ pool # {}
  /\ Done(Acceptor, "error")
  /\ UNCHANGED <<backlog, client, active, changed, wanted, polled, sending, crashed>>

AcceptFails ==
  /\ pool # {}
  /\ Done(Acceptor, "read")
  /\ \/ backlog' = backlog - 1
     \/ (\A fd \in Fds : peer[fd] # "none") /\ UNCHANGED backlog
  /\ UNCHANGED <<client, active, changed, wanted, polled, sending, crashed>>

OverLimitLeftOpen(fd) ==                                   \* mutant
  /\ pool # {}
  /\ Done(Acceptor, "read")
  /\ NewFd(fd) /\ fd > MaxClient
  /\ backlog' = backlog - 1
  /\ peer' = [peer EXCEPT ![fd] = "quiet"]
  /\ UNCHANGED <<libevList, wfd, pool, active, changed, wanted, polled, sending, crashed>>

AcceptOverLimit(fd) ==
  /\ pool # {}
  /\ Done(Acceptor, "read")
  /\ NewFd(fd) /\ fd > MaxClient
  /\ backlog' = backlog - 1
  /\ UNCHANGED <<client, active, changed, wanted, polled, sending, crashed>>

AcceptTaken(fd) ==
  /\ pool # {}
  /\ Done(Acceptor, "read")
  /\ NewFd(fd) /\ fd <= MaxClient /\ Taken(fd)
  /\ backlog' = backlog - 1
  /\ peer' = [peer EXCEPT ![fd] = "quiet"]
  /\ UNCHANGED <<libevList, wfd, pool, active, changed, wanted, polled, sending, crashed>>

AcceptStarts(w, fd) ==
  /\ Done(Acceptor, "read")
  /\ w \in pool
  /\ NewFd(fd) /\ fd <= MaxClient /\ ~Taken(fd)
  /\ backlog' = backlog - 1
  /\ peer' = [peer EXCEPT ![fd] = "quiet"]
  /\ pool' = pool \ {w}
  /\ wfd' = [wfd EXCEPT ![w] = fd]
  /\ active' = active \cup {w}
  /\ changed' = changed \cup {fd}
  /\ libevList' = [libevList EXCEPT ![fd] = w]
  /\ UNCHANGED <<wanted, polled, sending, crashed>>

-------------------------------------------------------------------------------
(* read_func_cb.  The sockets block: a recv with nothing to say never returns. *)

ReadError(w) ==
  /\ Done(w, "error")
  /\ UNCHANGED <<backlog, client, active, changed, wanted, polled, sending, crashed>>

\* recv returns a part or all of what was sent, and what is not empty is answered.
ReadSome(w) ==
  /\ Done(w, "read")
  /\ \E more \in CASE peer[wfd[w]] = "data" -> {"quiet", "data"}
                  [] peer[wfd[w]] = "cutData" -> {"cutData", "reset", "cutEof"}
                  [] OTHER -> {} :
       peer' = [peer EXCEPT ![wfd[w]] = more]
  /\ answering' \in {NULL, w}
  /\ UNCHANGED <<backlog, libevList, wfd, pool, active, changed, wanted, polled, stalled, crashed>>

\* recv fails, and will not fail again.
ReadFails(w) ==
  /\ Done(w, "read")
  /\ peer[wfd[w]] = "reset"
  /\ peer' = [peer EXCEPT ![wfd[w]] = "cutEof"]
  /\ UNCHANGED <<backlog, libevList, wfd, pool, active, changed, wanted, polled, sending, crashed>>

\* send finds room for its "OK", and may have filled it.
Answer(fd) ==
  /\ peer[fd] \notin Cut /\ fd \notin stalled
  /\ stalled' \in {stalled, stalled \cup {fd}}
  /\ UNCHANGED crashed

\* send finds the connection reset.  It fails, which the callback does not look
\* at, or SIGPIPE, which nobody ignores, ends the process.
AnswerFails(fd) ==
  /\ peer[fd] \in Cut
  /\ crashed' \in BOOLEAN
  /\ UNCHANGED stalled

\* The send that read_func_cb is in, if it does not wait.
Send ==
  /\ ~crashed /\ answering # NULL
  /\ Answer(wfd[answering]) \/ AnswerFails(wfd[answering])
  /\ answering' = NULL
  /\ UNCHANGED <<backlog, client, libev>>

StopForgotten(fd) ==                                       \* mutant
  /\ fd \in Listed /\ Taken(fd)
  /\ peer' = [peer EXCEPT ![fd] = "none"]
  /\ stalled' = stalled \ {fd}
  /\ polled' = polled \ {fd}
  /\ pool' = pool \cup {libevList[fd]}
  /\ libevList' = [libevList EXCEPT ![fd] = NULL]
  /\ UNCHANGED <<active, changed>>

ClearForgotten(fd) ==                                      \* mutant
  /\ fd \in Listed /\ Taken(fd)
  /\ peer' = [peer EXCEPT ![fd] = "none"]
  /\ stalled' = stalled \ {fd}
  /\ polled' = polled \ {fd}
  /\ active' = active \ {libevList[fd]}
  /\ changed' = changed \cup {fd}
  /\ pool' = pool \cup {libevList[fd]}
  /\ UNCHANGED libevList

\* free_libev: close, which takes the socket out of the epoll set; ev_io_stop;
\* Free.  Its two early returns are for a descriptor that accept_func_cb did not
\* list.
FreeLibev(fd) ==
  /\ fd \in Listed /\ Taken(fd)
  /\ peer' = [peer EXCEPT ![fd] = "none"]
  /\ stalled' = stalled \ {fd}
  /\ polled' = polled \ {fd}
  /\ active' = active \ {libevList[fd]}
  /\ changed' = changed \cup {fd}
  /\ pool' = pool \cup {libevList[fd]}
  /\ libevList' = [libevList EXCEPT ![fd] = NULL]

\* recv returns 0
ReadEnd(w) ==
  /\ Done(w, "read")
  /\ peer[wfd[w]] \in {"eof", "cutEof"}
  /\ FreeLibev(wfd[w])
  /\ UNCHANGED <<backlog, wfd, wanted, answering, crashed>>

Callback ==
  \/ AcceptNoMemory \/ AcceptError \/ AcceptFails
  \/ \E fd \in Fds : AcceptOverLimit(fd) \/ AcceptTaken(fd)
  \/ \E w \in Watchers, fd \in Fds : AcceptStarts(w, fd)
  \/ \E w \in Watchers : ReadError(w) \/ ReadSome(w) \/ ReadFails(w) \/ ReadEnd(w)
  \/ Send

Next ==
  \/ Connect
  \/ \E fd \in Fds : PeerSends(fd) \/ PeerResets(fd) \/ PeerReads(fd)
  \/ Poll
  \/ Callback

Spec == Init /\ [][Next]_vars

\* The event loop runs on, unless it waits in a send.  No client has to do
\* anything, not even to read its answers.
FairSpec == Spec /\ WF_vars(Poll) /\ WF_vars(Callback)

-------------------------------------------------------------------------------
(***************************************************************************)
(* Properties                                                              *)
(***************************************************************************)

\* A watcher outside ev_pool is the entry of one descriptor, the one it watches,
\* and that is open; one inside is not started.  So no way through accept_func_cb
\* or free_libev leaks a watcher, or gives back one that libev still has.
OneWatcherPerSocket ==
  /\ \A fd \in Listed : libevList[fd] # NULL =>
       /\ libevList[fd] \notin pool
       /\ wfd[libevList[fd]] = fd
       /\ peer[fd] # "none"
  /\ \A w \in Watchers \ pool : \E fd \in Listed : libevList[fd] = w
  /\ active \cap pool = {}

\* A client that was accepted has its entry, so that its end is noticed and its
\* descriptor closed: no "entry taken" return loses one, as entry and descriptor
\* are given up together.  Descriptor MaxClient itself passes the limit check and
\* finds what lies behind the table: a client that gets it is never served.
EveryClientHasEntry ==
  \A fd \in Fds \ {MaxClient} :
    peer[fd] # "none" => fd \in Listed /\ libevList[fd] # NULL

\* When its callback comes a watcher is still started and recv has something to
\* say: no callback of a batch was for a connection an earlier one closed, not
\* even if descriptor and block are in use again.  Otherwise the recv would block,
\* and with it every client.
PendingIsReady ==
  \A w \in Watchers : <<w, "read">> \in pending => w \in active /\ Ready(wfd[w])

\* One client that does not read its answers holds the event loop.
Stuck == answering # NULL /\ wfd[answering] \in stalled

\* The server notices that a client has closed, and closes too, unless epoll
\* refused the descriptor, the process has died, or another client that never
\* reads what it is sent holds the loop in a send for ever.
PeerCloseIsSeen ==
  []<>~Stuck =>
    \A fd \in Fds \cap Listed :
      peer[fd] \in {"eof", "reset", "cutEof"} ~>
        peer[fd] = "none" \/ libevList[fd] \notin active \/ crashed
===============================================================================
