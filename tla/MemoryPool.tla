------------------------------ MODULE MemoryPool ------------------------------
(***************************************************************************)
(* FULMemoryPool: equal blocks kept on a linked free list.  The link of a  *)
(* free block is in its first bytes, which belong to the user while the    *)
(* block is handed out.                                                    *)
(*                                                                         *)
(* Malloc and Free take no lock, so each load and store of the list is an  *)
(* action: that is the grain at which the threads of an unoptimised build  *)
(* interleave (the Makefile passes no -O).  ev_pool is used by the event   *)
(* loop alone; obd_pool by the event loop, which allocates and frees, and  *)
(* by the workers, which free.                                             *)
(***************************************************************************)
EXTENDS Integers, Sequences

CONSTANTS
  Threads,     \* who uses the pool
  Allocators,  \* those of them that call Malloc
  Blocks,      \* the blocks the C library can give
  NoBlock,     \* NULL
  Wild         \* what a block's link reads as after the user wrote the block

ASSUME MemoryAssumption ==
  /\ Allocators \subseteq Threads
  /\ NoBlock \notin Blocks
  /\ Wild \notin Blocks \cup {NoBlock}

VARIABLES
  available,   \* pPool->pFirstAvailable
  link,        \* pNext of each block
  system,      \* blocks the C library owns
  users,       \* how many callers hold each block
  pc,          \* the next load or store of each thread
  ptr,         \* pPtr of Malloc, pFreeNode of Free, pPreNode of DestroyMemoryPool
  loaded,      \* the pointer the thread loaded last
  state,       \* the pool: "alive", "destroying" or "gone" (its pointer is NULL)
  stack        \* history: the free blocks, the first available first

poolVars == <<available, link, system, users, pc, ptr, loaded, state, stack>>

Idle == \A t \in Threads : pc[t] = "idle"
InUse == {b \in Blocks : users[b] > 0}

\* CreateMemoryPool
PoolInit ==
  /\ available = NoBlock
  /\ link = [b \in Blocks |-> Wild]
  /\ system = Blocks
  /\ users = [b \in Blocks |-> 0]
  /\ pc = [t \in Threads |-> "idle"]
  /\ ptr = [t \in Threads |-> NoBlock]
  /\ loaded = [t \in Threads |-> NoBlock]
  /\ state = "alive"
  /\ stack = <<>>

Goto(t, label) == pc' = [pc EXCEPT ![t] = label]

\* A caller gets block b and may write all of it.
HandOut(b) ==
  /\ users' = [users EXCEPT ![b] = @ + 1]
  /\ link' = [link EXCEPT ![b] = Wild]

-------------------------------------------------------------------------------
(* Malloc *)

TestNothing(t) ==                                          \* mutant
  /\ pc[t] = "idle" /\ state = "alive"
  /\ Goto(t, "take")
  /\ UNCHANGED <<available, link, system, users, ptr, loaded, state, stack>>

\* if (NULL != pPool->pFirstAvailable)
Test(t) ==
  /\ pc[t] = "idle" /\ state = "alive"
  /\ Goto(t, IF available # NoBlock THEN "take" ELSE "system")
  /\ UNCHANGED <<available, link, system, users, ptr, loaded, state, stack>>

\* pPtr = &(pPool->pFirstAvailable->data);
Take(t) ==
  /\ pc[t] = "take"
  /\ ptr' = [ptr EXCEPT ![t] = available]
  /\ Goto(t, "first")
  /\ UNCHANGED <<available, link, system, users, loaded, state, stack>>

\* the second read of pFirstAvailable in the assignment that pops it
LoadFirst(t) ==
  /\ pc[t] = "first"
  /\ loaded' = [loaded EXCEPT ![t] = available]
  /\ Goto(t, "follow")
  /\ UNCHANGED <<available, link, system, users, ptr, state, stack>>

\* ->pNext; a pointer to no block is undefined behaviour, and nothing is said
\* of what follows.
Follow(t) ==
  /\ pc[t] = "follow"
  /\ loaded[t] \in Blocks
  /\ loaded' = [loaded EXCEPT ![t] = link[loaded[t]]]
  /\ Goto(t, "pop")
  /\ UNCHANGED <<available, link, system, users, ptr, state, stack>>

PopTwice(t) ==                                             \* mutant
  /\ pc[t] = "pop"
  /\ available' = ptr[t]
  /\ ptr[t] \in Blocks /\ HandOut(ptr[t])
  /\ stack' = SubSeq(stack, 2, Len(stack))
  /\ Goto(t, "idle")
  /\ UNCHANGED <<system, ptr, loaded, state>>

\* the store to pFirstAvailable, and the return
Pop(t) ==
  /\ pc[t] = "pop"
  /\ available' = loaded[t]
  /\ ptr[t] \in Blocks /\ HandOut(ptr[t])
  /\ stack' = SubSeq(stack, 2, Len(stack))
  /\ Goto(t, "idle")
  /\ UNCHANGED <<system, ptr, loaded, state>>

\* malloc(pPool->uBlockSize), which may fail: Malloc then returns NULL
AskSystem(t) ==
  /\ pc[t] = "system"
  /\ \/ \E b \in system : HandOut(b) /\ system' = system \ {b}
     \/ UNCHANGED <<users, link, system>>
  /\ Goto(t, "idle")
  /\ UNCHANGED <<available, ptr, loaded, state, stack>>

-------------------------------------------------------------------------------
(* Free *)

\* A caller gives up block b; the load of pFirstAvailable.
LoadForFree(t, b) ==
  /\ pc[t] = "idle" /\ state = "alive"
  /\ users[b] > 0
  /\ users' = [users EXCEPT ![b] = @ - 1]
  /\ ptr' = [ptr EXCEPT ![t] = b]
  /\ loaded' = [loaded EXCEPT ![t] = available]
  /\ Goto(t, "link")
  /\ UNCHANGED <<available, link, system, state, stack>>

\* pFreeNode->pNext = pPool->pFirstAvailable;
Link(t) ==
  /\ pc[t] = "link"
  /\ link' = [link EXCEPT ![ptr[t]] = loaded[t]]
  /\ Goto(t, "push")
  /\ UNCHANGED <<available, system, users, ptr, loaded, state, stack>>

\* pPool->pFirstAvailable = pFreeNode;
Push(t) ==
  /\ pc[t] = "push"
  /\ available' = ptr[t]
  /\ stack' = <<ptr[t]>> \o stack
  /\ Goto(t, "idle")
  /\ UNCHANGED <<link, system, users, ptr, loaded, state>>

\* The pool pointer is NULL after DestroyMemoryPool: the block goes to the system.
FreeWithoutPool(t, b) ==
  /\ pc[t] = "idle" /\ state = "gone"
  /\ users[b] > 0
  /\ users' = [users EXCEPT ![b] = @ - 1]
  /\ system' = system \cup {b}
  /\ UNCHANGED <<available, link, pc, ptr, loaded, state, stack>>

-------------------------------------------------------------------------------
(* DestroyMemoryPool, called when no other thread uses the pool any more. *)

BeginDestroy(t) ==
  /\ Idle /\ state = "alive"
  /\ state' = "destroying"
  /\ loaded' = [loaded EXCEPT ![t] = available]
  /\ Goto(t, "walk")
  /\ UNCHANGED <<available, link, system, users, ptr, stack>>

WalkFreesFirst(t) ==                                       \* mutant
  /\ pc[t] = "walk" /\ loaded[t] \in Blocks
  /\ loaded' = [loaded EXCEPT ![t] = NoBlock]
  /\ system' = system \cup {loaded[t]}
  /\ stack' = SubSeq(stack, 2, Len(stack))
  /\ UNCHANGED <<available, link, users, pc, ptr, state>>

\* one turn of the loop: step to the next node, then free the one before
Walk(t) ==
  /\ pc[t] = "walk" /\ loaded[t] \in Blocks
  /\ loaded' = [loaded EXCEPT ![t] = link[loaded[t]]]
  /\ system' = system \cup {loaded[t]}
  /\ stack' = SubSeq(stack, 2, Len(stack))
  /\ UNCHANGED <<available, link, users, pc, ptr, state>>

EndDestroy(t) ==
  /\ pc[t] = "walk" /\ loaded[t] = NoBlock
  /\ state' = "gone"
  /\ Goto(t, "idle")
  /\ UNCHANGED <<available, link, system, users, ptr, loaded, stack>>

PoolNext ==
  \/ \E t \in Allocators : Test(t)
  \/ \E t \in Threads :
       \/ Take(t) \/ LoadFirst(t) \/ Follow(t) \/ Pop(t) \/ AskSystem(t)
       \/ Link(t) \/ Push(t)
       \/ BeginDestroy(t) \/ Walk(t) \/ EndDestroy(t)
       \/ \E b \in Blocks : LoadForFree(t, b) \/ FreeWithoutPool(t, b)

PoolSpec == PoolInit /\ [][PoolNext]_poolVars

-------------------------------------------------------------------------------
(***************************************************************************)
(* Properties                                                              *)
(***************************************************************************)

(* The first four hold when one thread uses the pool, as the event loop    *)
(* does with ev_pool.                                                      *)

\* Types, where a pointer the pool works with is a block or NULL and never what
\* a user wrote over a link.
PoolTypeOK ==
  /\ available \in Blocks \cup {NoBlock}
  /\ link \in [Blocks -> Blocks \cup {NoBlock, Wild}]
  /\ system \subseteq Blocks
  /\ users \in [Blocks -> Nat]
  /\ pc \in [Threads -> {"idle", "take", "first", "follow", "pop", "system",
                         "link", "push", "walk"}]
  /\ ptr \in [Threads -> Blocks \cup {NoBlock}]
  /\ loaded \in [Threads -> Blocks \cup {NoBlock}]
  /\ state \in {"alive", "destroying", "gone"}
  /\ stack \in Seq(Blocks)

\* MemoryPool.h:96: Malloc returns the "address of not used memory block": no
\* block has two users.
OneUserPerBlock == \A b \in Blocks : users[b] <= 1

\* Malloc follows the link of a block that is still on the free list: not of
\* NULL, and not of a block whose first bytes hold a user's data.
FollowsFreeBlocks ==
  \A t \in Threads : pc[t] = "follow" =>
    loaded[t] \in Blocks /\ users[loaded[t]] = 0 /\ loaded[t] \notin system

\* DestroyMemoryPool gives every block on the free list back to the C library:
\* those still missing are those whose users have not freed them
\* (MemoryPool.h:86 asks that there be none).
DestroyReturnsAll == state = "gone" => system = Blocks \ InUse

\* The free list against its history.  StackAt(1) is the first free block.
Stacked == {stack[i] : i \in DOMAIN stack}
StackAt(i) == IF i \in DOMAIN stack THEN stack[i] ELSE NoBlock
InTransit == {ptr[t] : t \in {s \in Threads : pc[s] \in {"link", "push"}}}

\* The free list, followed from pFirstAvailable, is the blocks that were freed
\* and not taken since, the last one first, and ends in NULL.
FreeListInv ==
  /\ \A i, j \in DOMAIN stack : stack[i] = stack[j] => i = j
  /\ \A i \in DOMAIN stack : link[stack[i]] = StackAt(i + 1)
  /\ state = "alive" => available = StackAt(1)
  /\ state = "gone" => stack = <<>>

\* A block is with the C library, on the free list, with a user or on its way
\* back to the free list, and never in two of these places.
PlacesInv ==
  /\ Blocks = system \cup Stacked \cup InUse \cup InTransit
  /\ system \cap Stacked = {}
  /\ (system \cup Stacked) \cap InUse = {}
  /\ (system \cup Stacked \cup InUse) \cap InTransit = {}

\* What a thread in the middle of a call knows about the list.
LocalInv ==
  \A t \in Threads :
    /\ pc[t] \in {"take", "first", "follow", "pop"} => stack # <<>>
    /\ pc[t] \in {"first", "follow", "pop"} => ptr[t] = StackAt(1)
    /\ pc[t] = "follow" => loaded[t] = StackAt(1)
    /\ pc[t] = "pop" => loaded[t] = StackAt(2)
    /\ pc[t] \in {"link", "push"} => ptr[t] \in Blocks
    /\ pc[t] = "link" => loaded[t] = StackAt(1)
    /\ pc[t] = "push" => link[ptr[t]] = StackAt(1)
    /\ pc[t] = "walk" => loaded[t] = StackAt(1)
    /\ state = "destroying" <=> pc[t] = "walk"
    /\ state = "gone" => pc[t] = "idle"

\* What the proofs carry through every step.
PoolIndInv == PoolTypeOK /\ OneUserPerBlock /\ FreeListInv /\ PlacesInv /\ LocalInv
===============================================================================
