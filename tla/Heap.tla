-------------------------------- MODULE Heap --------------------------------
(***************************************************************************)
(* The small-memory heap of src/mem.c: blocks with a header that names the *)
(* next and the previous block, first fit from lfree, and merging of free  *)
(* neighbours.  Addresses and sizes count words of RT_ALIGN_SIZE; a block  *)
(* is named by the offset of its header from heap_ptr.  Every locked       *)
(* section holds heap_sem, a semaphore with one token that is never reset  *)
(* or detached, and is one step; rt_realloc to a larger size has three of  *)
(* them.                                                                   *)
(***************************************************************************)
EXTENDS Integers, FiniteSets, FiniteSetsExt

CONSTANTS
  User,               \* the threads that use the heap
  Request,            \* the sizes they ask for
  mem_size_aligned, SIZEOF_STRUCT_MEM, MIN_SIZE

ASSUME HeapAssumption ==
  /\ Request \subseteq Nat
  /\ SIZEOF_STRUCT_MEM \in Nat \ {0} /\ MIN_SIZE \in Nat \ {0}
  /\ mem_size_aligned \in Nat /\ mem_size_aligned >= MIN_SIZE

VARIABLES
  heap,    \* the headers in the chain, and lfree, "the lowest free block"
  used_mem,
  held,    \* the regions that callers have got and not freed
  moving   \* the rt_realloc of each thread that has released heap_sem: the
           \* block it leaves, the size it wants, the new block when it has
           \* one (else 0), and how much it will copy

heapVars == <<heap, used_mem, held, moving>>

heap_end == mem_size_aligned + SIZEOF_STRUCT_MEM
Offset   == 0..heap_end
Header   == [used : BOOLEAN, next : Offset, prev : Offset]
Region   == [at : Offset, len : Nat]
Move     == [from : Offset, to : Offset, want : Nat, len : Nat]
Still    == [from |-> 0, to |-> 0, want |-> 0, len |-> 0]

Chain    == DOMAIN heap.blocks
Data(b)  == b + SIZEOF_STRUCT_MEM
Room(b)  == heap.blocks[b].next - Data(b)
Size(b)  == heap.blocks[b].next - b
Free     == {b \in Chain : ~heap.blocks[b].used}

-----------------------------------------------------------------------------
(* Header b joins the block before it, a. *)
JoinLfreeKept(h, a, b) ==   \* mutant: lfree stays at the header that goes
  LET beyond == h.blocks[b].next IN
  [blocks |-> [x \in DOMAIN h.blocks \ {b} |->
                 LET mem == h.blocks[x] IN
                 [used |-> mem.used,
                  next |-> IF x = a THEN beyond ELSE mem.next,
                  prev |-> IF x = beyond THEN a ELSE mem.prev]],
   lfree  |-> h.lfree]

Join(h, a, b) ==
  LET beyond == h.blocks[b].next IN
  [blocks |-> [x \in DOMAIN h.blocks \ {b} |->
                 LET mem == h.blocks[x] IN
                 [used |-> mem.used,
                  next |-> IF x = a THEN beyond ELSE mem.next,
                  prev |-> IF x = beyond THEN a ELSE mem.prev]],
   lfree  |-> IF h.lfree = b THEN a ELSE h.lfree]

PlugForward(h, mem) ==
  LET nmem == h.blocks[mem].next IN
  IF nmem # heap_end /\ ~h.blocks[nmem].used THEN Join(h, mem, nmem) ELSE h

PlugBackward(h, mem) ==
  LET pmem == h.blocks[mem].prev IN
  IF pmem # mem /\ ~h.blocks[pmem].used THEN Join(h, pmem, mem) ELSE h

plug_holes(h, mem) == PlugBackward(PlugForward(h, mem), mem)

Mark(h, mem, used) ==
  [blocks |-> [h.blocks EXCEPT ![mem].used = used], lfree |-> h.lfree]

(* A free header behind the first size words of mem.  The header at the    *)
(* end of the heap does not learn of it.                                   *)
Split(h, mem, size) ==
  LET mem2   == mem + SIZEOF_STRUCT_MEM + size
      beyond == h.blocks[mem].next
  IN [blocks |->
        [x \in DOMAIN h.blocks \cup {mem2} |->
           IF x = mem2 THEN [used |-> FALSE, next |-> beyond, prev |-> mem]
           ELSE [used |-> h.blocks[x].used,
                 next |-> IF x = mem THEN mem2 ELSE h.blocks[x].next,
                 prev |-> IF x = beyond /\ x # heap_end THEN mem2
                                                        ELSE h.blocks[x].prev]],
      lfree |-> h.lfree]

-----------------------------------------------------------------------------
(***************************************************************************)
(* rt_malloc.                                                              *)
(***************************************************************************)
AtLeast(n) == IF n < MIN_SIZE THEN MIN_SIZE ELSE n

CandidatesBySize(size) ==   \* mutant: the header counts as room
  {b \in Free : /\ heap.lfree <= b /\ b < mem_size_aligned - size
                /\ Size(b) >= size}

Candidates(size) ==
  {b \in Free : /\ heap.lfree <= b /\ b < mem_size_aligned - size
                /\ Room(b) >= size}

CanServe(n) ==
  n \in 1..mem_size_aligned /\ Candidates(AtLeast(n)) # {}

FirstFit(size) == CHOOSE b \in Candidates(size) :
                    \A c \in Candidates(size) : b <= c

(* lfree walks to the next free block, or to the end. *)
NextFree(h, b) ==
  LET above == {c \in DOMAIN h.blocks : c >= b /\ ~h.blocks[c].used}
  IN CHOOSE c \in above \cup {heap_end} : \A d \in above : c <= d

ServeUnmarked(h, mem, size) ==   \* mutant: the block is not marked used
  IF Room(mem) >= size + SIZEOF_STRUCT_MEM + MIN_SIZE
    THEN Split(h, mem, size) ELSE h

Serve(h, mem, size) ==
  LET cut  == IF Room(mem) >= size + SIZEOF_STRUCT_MEM + MIN_SIZE
              THEN Split(h, mem, size) ELSE h
      done == Mark(cut, mem, TRUE)
  IN [blocks |-> done.blocks,
      lfree  |-> IF h.lfree = mem THEN NextFree(done, mem) ELSE h.lfree]

Take(n) ==
  LET mem == FirstFit(AtLeast(n))
      h   == Serve(heap, mem, AtLeast(n))
  IN /\ CanServe(n)
     /\ heap' = h
     /\ used_mem' = used_mem + h.blocks[mem].next - mem
     /\ held' = held \cup {[at |-> Data(mem), len |-> n]}

rt_malloc(t, n) ==
  /\ moving[t] = Still
  /\ Take(n)
  /\ UNCHANGED moving

(***************************************************************************)
(* rt_free, of a region that no rt_realloc is about to free.               *)
(***************************************************************************)
GiveUncounted(r) ==   \* mutant: used_mem goes down by the data only
  LET mem == r.at - SIZEOF_STRUCT_MEM
      h   == [blocks |-> Mark(heap, mem, FALSE).blocks,
              lfree  |-> IF mem < heap.lfree THEN mem ELSE heap.lfree]
  IN /\ heap' = plug_holes(h, mem)
     /\ used_mem' = used_mem - Room(mem)
     /\ held' = held \ {r}

Give(r) ==
  LET mem == r.at - SIZEOF_STRUCT_MEM
      h   == [blocks |-> Mark(heap, mem, FALSE).blocks,
              lfree  |-> IF mem < heap.lfree THEN mem ELSE heap.lfree]
  IN /\ heap' = plug_holes(h, mem)
     /\ used_mem' = used_mem - Size(mem)
     /\ held' = held \ {r}

Ends(t)    == {moving[t].from, moving[t].to} \ {0}
Settled(r) == \A t \in User : r.at \notin Ends(t)

rt_free(t, r) ==
  /\ moving[t] = Still /\ Settled(r)
  /\ Give(r)
  /\ UNCHANGED moving

(***************************************************************************)
(* rt_realloc.  A size that is too large for the heap changes nothing.     *)
(***************************************************************************)
Resized(r, n) == (held \ {r}) \cup {[at |-> r.at, len |-> n]}

Keep(t, r, n) ==
  /\ moving[t] = Still /\ Settled(r)
  /\ n = Room(r.at - SIZEOF_STRUCT_MEM)
  /\ held' = Resized(r, n)
  /\ UNCHANGED <<heap, used_mem, moving>>

Shrinks(n, room) == n + SIZEOF_STRUCT_MEM + MIN_SIZE < room

Shrink(t, r, n) ==
  LET mem == r.at - SIZEOF_STRUCT_MEM IN
  /\ moving[t] = Still /\ Settled(r)
  /\ Shrinks(n, Room(mem))
  /\ heap' = plug_holes(Split(heap, mem, n), Data(mem) + n)
  /\ used_mem' = used_mem - (Room(mem) - n)
  /\ held' = Resized(r, n)
  /\ UNCHANGED moving

(* heap_sem is released; what the old block can hold is remembered. *)
MoveBegins(t, r, n) ==
  LET room == Room(r.at - SIZEOF_STRUCT_MEM) IN
  /\ moving[t] = Still /\ Settled(r)
  /\ n <= mem_size_aligned /\ n # room /\ ~Shrinks(n, room)
  /\ moving' = [moving EXCEPT ![t] =
                  [from |-> r.at, to |-> 0, want |-> n,
                   len |-> IF room < n THEN room ELSE n]]
  /\ UNCHANGED <<heap, used_mem, held>>

MoveGets(t) ==
  /\ moving[t] # Still /\ moving[t].to = 0
  /\ Take(moving[t].want)
  /\ moving' = [moving EXCEPT ![t].to = Data(FirstFit(AtLeast(moving[t].want)))]

MoveFails(t) ==
  /\ moving[t] # Still /\ moving[t].to = 0
  /\ ~CanServe(moving[t].want)
  /\ moving' = [moving EXCEPT ![t] = Still]
  /\ UNCHANGED <<heap, used_mem, held>>

MoveEnds(t) ==
  /\ moving[t].to # 0
  /\ \E r \in held : r.at = moving[t].from /\ Give(r)
  /\ moving' = [moving EXCEPT ![t] = Still]

-----------------------------------------------------------------------------
(* rt_system_heap_init *)
HeapInit ==
  /\ heap = [blocks |-> [b \in {0, heap_end} |->
                           IF b = 0
                           THEN [used |-> FALSE, next |-> heap_end, prev |-> 0]
                           ELSE [used |-> TRUE, next |-> heap_end, prev |-> heap_end]],
             lfree |-> 0]
  /\ used_mem = 0
  /\ held = {}
  /\ moving = [t \in User |-> Still]

UserStep(t) ==
  \/ \E n \in Request : rt_malloc(t, n)
  \/ \E r \in held : \/ rt_free(t, r)
                      \/ \E n \in Request : Keep(t, r, n) \/ Shrink(t, r, n)
                                             \/ MoveBegins(t, r, n)
  \/ MoveGets(t) \/ MoveFails(t) \/ MoveEnds(t)

HeapNext == \E t \in User : UserStep(t)

HeapSpec == HeapInit /\ [][HeapNext]_heapVars

-----------------------------------------------------------------------------
HeapTypeOK ==
  /\ Chain \subseteq Offset
  /\ heap \in [blocks : [Chain -> Header], lfree : Offset]
  /\ used_mem \in Int
  /\ held \subseteq Region
  /\ moving \in [User -> Move]

(* The headers tile the heap: each one's next is the next header in memory *)
(* and names it as its prev, whatever was split and merged before, but the *)
(* header at the end, whose prev nobody reads.                             *)
ChainTiles ==
  /\ {0, heap_end} \subseteq Chain
  /\ heap.blocks[heap_end].used
  /\ heap.blocks[0].prev = 0
  /\ \A b \in Chain \ {heap_end} :
       LET n == heap.blocks[b].next IN
       /\ n \in Chain /\ Data(b) <= n
       /\ \A c \in Chain : c <= b \/ n <= c
       /\ n # heap_end => heap.blocks[n].prev = b
  /\ \A b \in Chain \ {0, heap_end} :
       LET p == heap.blocks[b].prev IN
       p \in Chain \ {heap_end} /\ heap.blocks[p].next = b

(* No two free blocks are neighbours: rt_malloc hands out a whole block    *)
(* because "mem->next will always be used at this point".                  *)
HolesPlugged ==
  \A b \in Free : heap.blocks[heap.blocks[b].next].used

(* lfree is a header of the chain, and a free one unless the heap is full  *)
(* from there on: no merge leaves it at a header that has gone.            *)
LfreeIsFree == heap.lfree \in Free \cup {heap_end}

(* lfree, the "pointer to the lowest free block": rt_malloc looks at no     *)
(* block before it.                                                        *)
LfreeIsLowest == \A b \in Free : heap.lfree <= b

(* The heap is well formed after any sequence of calls. *)
HeapSound == HeapTypeOK /\ ChainTiles /\ HolesPlugged /\ LfreeIsFree

(* A block is in use exactly when a caller holds it, and it is at least as *)
(* large as the caller asked: nothing is freed under a holder, and nothing *)
(* is lost.  A rt_realloc that moves, having released heap_sem, copies     *)
(* inside both blocks, which are still its own when it frees the old one.  *)
HeldIsUsed ==
  /\ {r.at - SIZEOF_STRUCT_MEM : r \in held} = (Chain \ Free) \ {heap_end}
  /\ \A r, q \in held : r.at = q.at => r = q
  /\ \A r \in held : r.len <= Room(r.at - SIZEOF_STRUCT_MEM)
  /\ \A t \in User : \A a \in Ends(t) :
       /\ \E r \in held : r.at = a /\ moving[t].len <= Room(a - SIZEOF_STRUCT_MEM)
       /\ \A u \in User \ {t} : a \notin Ends(u)
  /\ \A t \in User : moving[t].len <= moving[t].want

(* The statistics of RT_MEM_STATS are what the blocks in use occupy. *)
UsedMemCounted == used_mem = MapThenSumSet(Size, (Chain \ Free) \ {heap_end})

(* The callers see an allocator that grants memory no one else has, and    *)
(* takes back only what is freed.                                          *)
abs == INSTANCE Allocator WITH
         Arena <- SIZEOF_STRUCT_MEM..(heap_end - 1)
HeapPromise == abs!Spec

=============================================================================
