----------------------------- MODULE HeapProof -----------------------------
(***************************************************************************)
(* The heap is well formed and keeps what its callers hold, for every heap *)
(* size, header size, set of threads and set of request sizes.             *)
(***************************************************************************)
EXTENDS Heap, TLAPS, WellFoundedInduction, FiniteSetTheorems

(***************************************************************************)
(* The parts of a heap h, and what is true of it between two calls and     *)
(* within one.                                                             *)
(***************************************************************************)
D(h)    == DOMAIN h.blocks
U(h, b) == h.blocks[b].used
N(h, b) == h.blocks[b].next
P(h, b) == h.blocks[b].prev

Typed(h) == D(h) \subseteq Offset /\ h \in [blocks : [D(h) -> Header], lfree : Offset]

Tiles(h) ==
  /\ 0 \in D(h) /\ heap_end \in D(h)
  /\ U(h, heap_end)
  /\ P(h, 0) = 0
  /\ \A b \in D(h) \ {heap_end} :
       /\ N(h, b) \in D(h) /\ b + SIZEOF_STRUCT_MEM <= N(h, b)
       /\ \A c \in D(h) : c <= b \/ N(h, b) <= c
       /\ N(h, b) # heap_end => P(h, N(h, b)) = b
  /\ \A b \in D(h) \ {0, heap_end} : P(h, b) \in D(h) \ {heap_end} /\ N(h, P(h, b)) = b

Plugged(h) == \A b \in D(h) : ~U(h, b) => U(h, N(h, b))

(* Two free blocks may be neighbours if one of them is m, which is free;   *)
(* or only if the second is m.                                             *)
PluggedAround(h, m) ==
  \A b \in D(h) : ~U(h, b) /\ b # m /\ N(h, b) # m => U(h, N(h, b))

PluggedAfter(h, m) ==
  \A b \in D(h) : ~U(h, b) /\ N(h, b) # m => U(h, N(h, b))

LfreeFree(h) == h.lfree \in D(h) /\ (h.lfree = heap_end \/ ~U(h, h.lfree))

(* The blocks in use are the same in both, and as large. *)
SameUsed(h, g) ==
  \A b \in Offset :
    /\ b \in D(h) /\ U(h, b) <=> b \in D(g) /\ U(g, b)
    /\ b \in D(h) /\ U(h, b) /\ b # heap_end => N(h, b) = N(g, b)

-----------------------------------------------------------------------------
(* What the fields of a header may be. *)
LEMMA FieldTypes ==
  ASSUME NEW h, Typed(h), NEW x \in D(h)
  PROVE  U(h, x) \in BOOLEAN /\ N(h, x) \in Offset /\ P(h, x) \in Offset /\ x \in Offset
<1>1. h.blocks[x] \in Header /\ x \in Offset
  BY DEF Typed
<1> QED  BY <1>1 DEF U, N, P, Header

(* A heap is well typed when its fields are. *)
LEMMA HeapOfParts ==
  ASSUME NEW B, NEW l \in Offset, DOMAIN B \subseteq Offset,
         B = [x \in DOMAIN B |-> B[x]],
         \A x \in DOMAIN B : /\ B[x] = [used |-> B[x].used, next |-> B[x].next,
                                        prev |-> B[x].prev]
                            /\ B[x].used \in BOOLEAN
                            /\ B[x].next \in Offset /\ B[x].prev \in Offset
  PROVE  Typed([blocks |-> B, lfree |-> l])
<1>1. \A x \in DOMAIN B : B[x] \in Header
  BY DEF Header
<1>2. B \in [DOMAIN B -> Header]
  BY <1>1
<1> QED  BY <1>2 DEF Typed, D

(* What Join, Split and Mark do to the fields of the headers. *)
LEMMA JoinParts ==
  ASSUME NEW h, Typed(h), NEW a \in D(h), NEW b \in D(h),
         N(h, b) \in D(h), a # b, a # N(h, b)
  PROVE  LET j == Join(h, a, b) IN
         /\ Typed(j)
         /\ D(j) = D(h) \ {b}
         /\ j.lfree = IF h.lfree = b THEN a ELSE h.lfree
         /\ \A x \in D(j) : /\ U(j, x) = U(h, x)
                            /\ N(j, x) = IF x = a THEN N(h, b) ELSE N(h, x)
                            /\ P(j, x) = IF x = N(h, b) THEN a ELSE P(h, x)
<1> DEFINE j == Join(h, a, b)
<1>1. \A x \in D(h) : h.blocks[x] \in Header
  BY DEF Typed
<1>2. /\ D(j) = D(h) \ {b}
      /\ j.lfree = IF h.lfree = b THEN a ELSE h.lfree
      /\ j = [blocks |-> j.blocks, lfree |-> j.lfree]
  BY DEF Join, D
<1>3. \A x \in D(h) \ {b} :
        j.blocks[x] = [used |-> h.blocks[x].used,
                       next |-> IF x = a THEN N(h, b) ELSE h.blocks[x].next,
                       prev |-> IF x = N(h, b) THEN a ELSE h.blocks[x].prev]
  BY DEF Join, D, N
<1>4. ASSUME NEW x \in D(j)
      PROVE  /\ U(j, x) = U(h, x)
             /\ N(j, x) = IF x = a THEN N(h, b) ELSE N(h, x)
             /\ P(j, x) = IF x = N(h, b) THEN a ELSE P(h, x)
  <2>1. j.blocks[x] = [used |-> h.blocks[x].used,
                       next |-> IF x = a THEN N(h, b) ELSE h.blocks[x].next,
                       prev |-> IF x = N(h, b) THEN a ELSE h.blocks[x].prev]
    BY <1>2, <1>3
  <2>2. U(j, x) = U(h, x)
    BY <2>1 DEF U
  <2>3. N(j, x) = IF x = a THEN N(h, b) ELSE N(h, x)
    BY <2>1 DEF N
  <2>4. P(j, x) = IF x = N(h, b) THEN a ELSE P(h, x)
    BY <2>1 DEF P
  <2> QED  BY <2>2, <2>3, <2>4
<1>5. Typed(j)
  <2>1. ASSUME NEW x \in D(j)
        PROVE  j.blocks[x] \in Header
    <3>1. h.blocks[x] \in Header /\ a \in Offset /\ N(h, b) \in Offset
      BY <1>1, <1>2 DEF Typed
    <3>2. /\ h.blocks[x].used \in BOOLEAN /\ h.blocks[x].next \in Offset
          /\ h.blocks[x].prev \in Offset
      BY <3>1 DEF Header
    <3>3. j.blocks[x] = [used |-> h.blocks[x].used,
                         next |-> IF x = a THEN N(h, b) ELSE h.blocks[x].next,
                         prev |-> IF x = N(h, b) THEN a ELSE h.blocks[x].prev]
      BY <1>2, <1>3
    <3>4. /\ (IF x = a THEN N(h, b) ELSE h.blocks[x].next) \in Offset
          /\ (IF x = N(h, b) THEN a ELSE h.blocks[x].prev) \in Offset
      BY <3>1, <3>2
    <3> QED  BY <3>2, <3>3, <3>4 DEF Header
  <2>2. j.blocks \in [D(j) -> Header]
    BY <1>2, <2>1 DEF Join, D
  <2>3. j.lfree \in Offset
    BY <1>2 DEF Typed
  <2> QED  BY <1>2, <2>2, <2>3 DEF Typed
<1> QED  BY <1>2, <1>4, <1>5

LEMMA SplitParts ==
  ASSUME NEW h, Typed(h), NEW mem \in D(h), NEW size,
         mem + SIZEOF_STRUCT_MEM + size \in Offset \ D(h)
  PROVE  LET s    == Split(h, mem, size)
             mem2 == mem + SIZEOF_STRUCT_MEM + size IN
         /\ Typed(s)
         /\ D(s) = D(h) \cup {mem2}
         /\ s.lfree = h.lfree
         /\ ~U(s, mem2) /\ N(s, mem2) = N(h, mem) /\ P(s, mem2) = mem
         /\ \A x \in D(h) :
              /\ U(s, x) = U(h, x)
              /\ N(s, x) = IF x = mem THEN mem2 ELSE N(h, x)
              /\ P(s, x) = IF x = N(h, mem) /\ x # heap_end THEN mem2 ELSE P(h, x)
<1> DEFINE mem2 == mem + SIZEOF_STRUCT_MEM + size
           B    == Split(h, mem, size).blocks
<1>1. /\ DOMAIN B = D(h) \cup {mem2} /\ B = [x \in DOMAIN B |-> B[x]]
      /\ Split(h, mem, size) = [blocks |-> B, lfree |-> h.lfree]
      /\ B[mem2] = [used |-> FALSE, next |-> N(h, mem), prev |-> mem]
      /\ \A x \in D(h) :
           B[x] = [used |-> h.blocks[x].used,
                   next |-> IF x = mem THEN mem2 ELSE h.blocks[x].next,
                   prev |-> IF x = N(h, mem) /\ x # heap_end THEN mem2
                                                             ELSE h.blocks[x].prev]
  BY DEF Split, D, N
<1> HIDE DEF mem2, B
<1>2. mem \in Offset /\ N(h, mem) \in Offset /\ mem2 \in Offset /\ mem2 \notin D(h)
  BY FieldTypes DEF mem2
<1>3. /\ B[mem2].used = FALSE /\ B[mem2].next = N(h, mem) /\ B[mem2].prev = mem
      /\ B[mem2] = [used |-> B[mem2].used, next |-> B[mem2].next, prev |-> B[mem2].prev]
  BY <1>1
<1>4. ASSUME NEW x \in D(h)
      PROVE  /\ B[x].used = U(h, x)
             /\ B[x].next = IF x = mem THEN mem2 ELSE N(h, x)
             /\ B[x].prev = IF x = N(h, mem) /\ x # heap_end THEN mem2 ELSE P(h, x)
             /\ B[x] = [used |-> B[x].used, next |-> B[x].next, prev |-> B[x].prev]
  <2>1. B[x].used = U(h, x)
    BY <1>1 DEF U
  <2>2. B[x].next = IF x = mem THEN mem2 ELSE N(h, x)
    BY <1>1 DEF N
  <2>3. B[x].prev = IF x = N(h, mem) /\ x # heap_end THEN mem2 ELSE P(h, x)
    BY <1>1 DEF P
  <2>4. B[x] = [used |-> B[x].used, next |-> B[x].next, prev |-> B[x].prev]
    BY <1>1
  <2> QED  BY <2>1, <2>2, <2>3, <2>4
<1>5. \A x \in DOMAIN B : /\ B[x] = [used |-> B[x].used, next |-> B[x].next,
                                     prev |-> B[x].prev]
                         /\ B[x].used \in BOOLEAN
                         /\ B[x].next \in Offset /\ B[x].prev \in Offset
  <2> TAKE x \in DOMAIN B
  <2>1. CASE x = mem2
    BY <2>1, <1>2, <1>3
  <2>2. CASE x \in D(h)
    BY ZenonT(60), <2>2, <1>2, <1>4, FieldTypes
  <2> QED  BY <1>1, <2>1, <2>2
<1>6. Typed([blocks |-> B, lfree |-> h.lfree])
  <2>1. h.lfree \in Offset /\ DOMAIN B \subseteq Offset
    BY <1>1, <1>2 DEF Typed
  <2> QED  BY <1>1, <1>5, <2>1, HeapOfParts
<1>7. /\ D(Split(h, mem, size)) = D(h) \cup {mem2} /\ Split(h, mem, size).lfree = h.lfree
      /\ Split(h, mem, size).blocks = B
  BY <1>1 DEF D
<1> QED  BY <1>1, <1>3, <1>4, <1>6, <1>7 DEF U, N, P, mem2

LEMMA MarkParts ==
  ASSUME NEW h, Typed(h), NEW mem \in D(h), NEW u \in BOOLEAN
  PROVE  LET g == Mark(h, mem, u) IN
         /\ Typed(g)
         /\ D(g) = D(h) /\ g.lfree = h.lfree
         /\ U(g, mem) = u
         /\ \A x \in D(h) : /\ x # mem => U(g, x) = U(h, x)
                            /\ N(g, x) = N(h, x) /\ P(g, x) = P(h, x)
<1> DEFINE B == [h.blocks EXCEPT ![mem].used = u]
<1>1. h.blocks \in [D(h) -> Header] /\ h.lfree \in Offset /\ D(h) \subseteq Offset
  BY DEF Typed
<1>2. B \in [D(h) -> Header]
  BY <1>1 DEF Header
<1>3. Mark(h, mem, u) = [blocks |-> B, lfree |-> h.lfree]
  BY DEF Mark
<1>4. ASSUME NEW x \in D(h)
      PROVE  /\ B[x].used = IF x = mem THEN u ELSE U(h, x)
             /\ B[x].next = N(h, x) /\ B[x].prev = P(h, x)
  <2>1. h.blocks[x] \in Header
    BY <1>1
  <2> QED  BY <1>1, <2>1 DEF Header, U, N, P
<1> QED  BY <1>1, <1>2, <1>3, <1>4 DEF Typed, D, U, N, P

-----------------------------------------------------------------------------
(***************************************************************************)
(* Joining two neighbours and splitting a block leave the headers tiling   *)
(* the heap.                                                               *)
(***************************************************************************)
LEMMA EndIsInside ==
  /\ heap_end \in Nat /\ heap_end > 0 /\ SIZEOF_STRUCT_MEM \in Nat /\ SIZEOF_STRUCT_MEM > 0
  /\ Offset \subseteq Nat /\ \A x \in Nat : x \in Offset <=> x <= heap_end
  BY HeapAssumption DEF heap_end, Offset

LEMMA NextIsAbove ==
  ASSUME NEW h, Typed(h), Tiles(h), NEW b \in D(h) \ {heap_end}
  PROVE  /\ N(h, b) \in D(h) /\ b \in Nat /\ N(h, b) \in Nat
         /\ b + SIZEOF_STRUCT_MEM <= N(h, b) /\ b < N(h, b) /\ N(h, b) <= heap_end
         /\ \A c \in D(h) : c <= b \/ N(h, b) <= c
<1>1. /\ N(h, b) \in D(h) /\ b + SIZEOF_STRUCT_MEM <= N(h, b)
      /\ \A c \in D(h) : c <= b \/ N(h, b) <= c
  BY DEF Tiles
<1>2. b \in Nat /\ N(h, b) \in Nat /\ N(h, b) <= heap_end
  BY <1>1, FieldTypes, EndIsInside
<1> QED  BY <1>1, <1>2, EndIsInside

LEMMA JoinTiles ==
  ASSUME NEW h, Typed(h), Tiles(h), NEW a \in D(h) \ {heap_end}, N(h, a) # heap_end
  PROVE  LET b == N(h, a) IN
         /\ b \in D(h) /\ N(h, b) \in D(h) /\ a # b /\ a # N(h, b)
         /\ Tiles(Join(h, a, b))
<1> DEFINE b == N(h, a)
           j == Join(h, a, b)
<1>0. \A x \in D(h) : x \in Nat
  BY FieldTypes, EndIsInside
<1>1. b \in D(h) /\ N(h, b) \in D(h) /\ a < b /\ b < N(h, b)
  BY NextIsAbove
<1>2. /\ D(j) = D(h) \ {b}
      /\ \A x \in D(j) : /\ U(j, x) = U(h, x)
                         /\ N(j, x) = IF x = a THEN N(h, b) ELSE N(h, x)
                         /\ P(j, x) = IF x = N(h, b) THEN a ELSE P(h, x)
  BY <1>0, <1>1, JoinParts
<1> HIDE DEF j
<1>3. 0 \in D(j) /\ heap_end \in D(j) /\ U(j, heap_end) /\ P(j, 0) = 0
  BY <1>0, <1>1, <1>2 DEF Tiles
<1>4. ASSUME NEW x \in D(j) \ {heap_end}
      PROVE  /\ N(j, x) \in D(j) /\ x + SIZEOF_STRUCT_MEM <= N(j, x)
             /\ \A c \in D(j) : c <= x \/ N(j, x) <= c
             /\ N(j, x) # heap_end => P(j, N(j, x)) = x
  <2>1. CASE x = a
    <3>1. /\ a + SIZEOF_STRUCT_MEM <= b /\ N(j, x) = N(h, b) /\ N(h, b) \in D(j)
          /\ \A c \in D(h) : c <= a \/ b <= c
          /\ \A c \in D(h) : c <= b \/ N(h, b) <= c
      BY <2>1, <1>1, <1>2, NextIsAbove
    <3>2. x + SIZEOF_STRUCT_MEM <= N(j, x)
      BY <3>1, <2>1, <1>0, <1>1, EndIsInside
    <3>3. \A c \in D(j) : c <= x \/ N(j, x) <= c
      BY <3>1, <2>1, <1>0, <1>1, <1>2
    <3> QED  BY <3>1, <3>2, <3>3, <2>1, <1>1, <1>2
  <2>2. CASE x # a
    <3>1. x \in D(h) \ {heap_end} /\ x # b /\ N(j, x) = N(h, x)
      BY <2>2, <1>2
    <3>2. N(h, x) # b
      BY <3>1, <2>2, <1>1 DEF Tiles
    <3>3. N(h, x) # heap_end => N(h, x) # N(h, b)
      BY <3>1, <1>1 DEF Tiles
    <3> QED  BY <3>1, <3>2, <3>3, <1>2 DEF Tiles
  <2> QED  BY <2>1, <2>2
<1>5. ASSUME NEW x \in D(j) \ {0, heap_end}
      PROVE  P(j, x) \in D(j) \ {heap_end} /\ N(j, P(j, x)) = x
  <2>1. CASE x = N(h, b)
    BY <2>1, <1>0, <1>1, <1>2 DEF Tiles
  <2>2. CASE x # N(h, b)
    <3>1. x \in D(h) \ {0, heap_end} /\ x # b /\ P(j, x) = P(h, x)
      BY <2>2, <1>2
    <3>2. P(h, x) # b /\ P(h, x) # a
      BY <3>1, <2>2, <1>1 DEF Tiles
    <3> QED  BY <3>1, <3>2, <1>2 DEF Tiles
  <2> QED  BY <2>1, <2>2
<1>6. Tiles(j)
  BY <1>3, <1>4, <1>5 DEF Tiles
<1> QED  BY <1>0, <1>1, <1>6 DEF j

LEMMA SplitTiles ==
  ASSUME NEW h, Typed(h), Tiles(h), NEW mem \in D(h) \ {heap_end}, NEW size \in Nat,
         mem + SIZEOF_STRUCT_MEM + size + SIZEOF_STRUCT_MEM <= N(h, mem)
  PROVE  LET mem2 == mem + SIZEOF_STRUCT_MEM + size IN
         /\ mem2 \in Offset \ D(h) /\ mem2 # heap_end
         /\ Tiles(Split(h, mem, size))
<1> DEFINE mem2 == mem + SIZEOF_STRUCT_MEM + size
           s    == Split(h, mem, size)
<1>0. \A x \in D(h) : x \in Nat /\ x <= heap_end
  BY FieldTypes, EndIsInside
<1>1. /\ mem2 \in Offset \ D(h) /\ mem2 # heap_end /\ N(h, mem) \in D(h)
      /\ mem + SIZEOF_STRUCT_MEM <= mem2 /\ mem2 + SIZEOF_STRUCT_MEM <= N(h, mem)
  <2>1. N(h, mem) \in D(h) /\ mem \in D(h)
    BY DEF Tiles
  <2>2. /\ mem2 \in Nat /\ mem < mem2 /\ mem2 < N(h, mem) /\ mem2 < heap_end
        /\ mem + SIZEOF_STRUCT_MEM <= mem2 /\ mem2 + SIZEOF_STRUCT_MEM <= N(h, mem)
    BY <1>0, <2>1, EndIsInside
  <2>3. mem2 \notin D(h)
    BY <1>0, <2>2 DEF Tiles
  <2> QED  BY <2>1, <2>2, <2>3, EndIsInside
<1>2. /\ D(s) = D(h) \cup {mem2}
      /\ ~U(s, mem2) /\ N(s, mem2) = N(h, mem) /\ P(s, mem2) = mem
      /\ \A x \in D(h) :
           /\ U(s, x) = U(h, x)
           /\ N(s, x) = IF x = mem THEN mem2 ELSE N(h, x)
           /\ P(s, x) = IF x = N(h, mem) /\ x # heap_end THEN mem2 ELSE P(h, x)
  BY <1>1, SplitParts
<1> HIDE DEF s, mem2
<1>3. 0 \in D(s) /\ heap_end \in D(s) /\ U(s, heap_end) /\ P(s, 0) = 0
  BY <1>0, <1>1, <1>2, EndIsInside DEF Tiles
<1>4. ASSUME NEW x \in D(s) \ {heap_end}
      PROVE  /\ N(s, x) \in D(s) /\ x + SIZEOF_STRUCT_MEM <= N(s, x)
             /\ \A c \in D(s) : c <= x \/ N(s, x) <= c
             /\ N(s, x) # heap_end => P(s, N(s, x)) = x
  <2>0. \A c \in D(h) : c <= mem \/ N(h, mem) <= c
    BY NextIsAbove
  <2>1. CASE x = mem2
    <3>1. \A c \in D(s) : c <= x \/ N(s, x) <= c
      BY <2>0, <2>1, <1>0, <1>1, <1>2, EndIsInside
    <3> QED  BY <3>1, <2>1, <1>1, <1>2
  <2>2. CASE x = mem
    <3>1. \A c \in D(s) : c <= x \/ N(s, x) <= c
      BY <2>0, <2>2, <1>0, <1>1, <1>2, EndIsInside
    <3> QED  BY <3>1, <2>2, <1>1, <1>2
  <2>3. CASE x \in D(h) \ {mem}
    <3>1. x \in D(h) \ {heap_end} /\ N(s, x) = N(h, x) /\ N(h, x) \in D(h)
      BY <2>3, <1>2 DEF Tiles
    <3>2. N(h, x) # heap_end => N(h, x) # N(h, mem)
      BY <3>1, <2>3 DEF Tiles
    <3>3. mem2 <= x \/ N(h, x) <= mem2
      <4>1. /\ x <= mem \/ N(h, mem) <= x
            /\ mem <= x \/ N(h, x) <= mem
        BY <3>1, NextIsAbove
      <4> QED  BY <4>1, <3>1, <2>3, <1>0, <1>1, EndIsInside
    <3> QED  BY <3>1, <3>2, <3>3, <1>2 DEF Tiles
  <2> QED  BY <1>2, <2>1, <2>2, <2>3
<1>5. ASSUME NEW x \in D(s) \ {0, heap_end}
      PROVE  P(s, x) \in D(s) \ {heap_end} /\ N(s, P(s, x)) = x
  <2>1. CASE x = mem2
    BY <2>1, <1>1, <1>2
  <2>2. CASE x = N(h, mem)
    BY <2>2, <1>1, <1>2
  <2>3. CASE x \in D(h) \ {N(h, mem)}
    BY <2>3, <1>1, <1>2 DEF Tiles
  <2> QED  BY <1>2, <2>1, <2>2, <2>3
<1>6. Tiles(s)
  BY <1>3, <1>4, <1>5 DEF Tiles
<1> QED  BY <1>1, <1>6 DEF s, mem2

(***************************************************************************)
(* plug_holes mends a chain in which the block that has become free may    *)
(* have free neighbours, and touches no block in use.                      *)
(***************************************************************************)
LEMMA JoinFree ==
  ASSUME NEW h, Typed(h), Tiles(h), LfreeFree(h),
         NEW a \in D(h) \ {heap_end}, N(h, a) # heap_end, ~U(h, a), ~U(h, N(h, a))
  PROVE  LET j == Join(h, a, N(h, a)) IN
         /\ Typed(j) /\ Tiles(j) /\ LfreeFree(j) /\ SameUsed(h, j)
         /\ D(j) = D(h) \ {N(h, a)} /\ a \in D(j)
         /\ \A x \in D(j) : /\ U(j, x) = U(h, x)
                            /\ N(j, x) = IF x = a THEN N(h, N(h, a)) ELSE N(h, x)
<1> DEFINE b == N(h, a)
           j == Join(h, a, b)
<1>1. b \in D(h) /\ N(h, b) \in D(h) /\ a # b /\ a # N(h, b) /\ Tiles(j)
  BY JoinTiles
<1>2. /\ Typed(j) /\ D(j) = D(h) \ {b}
      /\ j.lfree = IF h.lfree = b THEN a ELSE h.lfree
      /\ \A x \in D(j) : U(j, x) = U(h, x) /\ N(j, x) = IF x = a THEN N(h, b) ELSE N(h, x)
  BY <1>1, JoinParts
<1> HIDE DEF j
<1>3. LfreeFree(j)
  BY <1>1, <1>2 DEF LfreeFree
<1>4. SameUsed(h, j)
  BY <1>1, <1>2 DEF SameUsed
<1> QED  BY <1>1, <1>2, <1>3, <1>4 DEF j

LEMMA PlugForwardKeeps ==
  ASSUME NEW h, Typed(h), Tiles(h), LfreeFree(h),
         NEW mem \in D(h) \ {heap_end}, ~U(h, mem), PluggedAround(h, mem)
  PROVE  LET g == PlugForward(h, mem) IN
         /\ Typed(g) /\ Tiles(g) /\ LfreeFree(g) /\ SameUsed(h, g)
         /\ mem \in D(g) /\ ~U(g, mem) /\ PluggedAfter(g, mem)
<1> DEFINE b == N(h, mem)
           g == PlugForward(h, mem)
<1>1. b \in D(h) /\ b # mem /\ (b # heap_end => N(h, b) \in D(h) /\ N(h, b) # mem /\ N(h, b) # b)
  <2>1. b \in D(h) /\ mem \in Nat /\ b \in Nat /\ mem < b
    BY NextIsAbove
  <2>2. b # heap_end => N(h, b) \in D(h) /\ N(h, b) \in Nat /\ b < N(h, b)
    BY <2>1, NextIsAbove
  <2> QED  BY <2>1, <2>2
<1>2. CASE b # heap_end /\ ~U(h, b)
  <2>1. g = Join(h, mem, b)
    BY <1>2 DEF PlugForward, N, U
  <2>2. /\ Typed(g) /\ Tiles(g) /\ LfreeFree(g) /\ SameUsed(h, g)
        /\ D(g) = D(h) \ {b} /\ mem \in D(g)
        /\ \A x \in D(g) : U(g, x) = U(h, x) /\ N(g, x) = IF x = mem THEN N(h, b) ELSE N(h, x)
    BY <2>1, <1>2, JoinFree
  <2>3. PluggedAfter(g, mem)
    <3>1. U(h, N(h, b))
      BY <1>1, <1>2 DEF PluggedAround
    <3>2. ASSUME NEW x \in D(g), ~U(g, x), N(g, x) # mem
          PROVE  U(g, N(g, x))
      <4>1. CASE x = mem
        BY <4>1, <3>1, <2>2, <1>1, <1>2
      <4>2. CASE x # mem
        <5>1. x \in D(h) \ {heap_end} /\ ~U(h, x) /\ N(g, x) = N(h, x) /\ N(h, x) # mem
          BY <4>2, <3>2, <2>2 DEF Tiles
        <5>2. U(h, N(h, x)) /\ N(h, x) \in D(h)
          BY <5>1, <4>2 DEF PluggedAround, Tiles
        <5>3. N(h, x) # b
          BY <5>2, <1>2
        <5> QED  BY <5>1, <5>2, <5>3, <2>2
      <4> QED  BY <4>1, <4>2
    <3> QED  BY <3>2 DEF PluggedAfter
  <2> QED  BY <2>2, <2>3
<1>3. CASE b = heap_end \/ U(h, b)
  <2>1. g = h
    BY <1>3 DEF PlugForward, N, U
  <2>2. U(h, b)
    BY <1>3 DEF Tiles
  <2>3. PluggedAfter(h, mem)
    BY <2>2 DEF PluggedAfter, PluggedAround
  <2>4. SameUsed(h, h)
    BY DEF SameUsed
  <2> QED  BY <2>1, <2>3, <2>4
<1> QED  BY <1>2, <1>3

LEMMA PlugBackwardKeeps ==
  ASSUME NEW h, Typed(h), Tiles(h), LfreeFree(h),
         NEW mem \in D(h) \ {heap_end}, ~U(h, mem), PluggedAfter(h, mem)
  PROVE  LET g == PlugBackward(h, mem) IN
         Typed(g) /\ Tiles(g) /\ LfreeFree(g) /\ SameUsed(h, g) /\ Plugged(g)
<1> DEFINE p == P(h, mem)
           g == PlugBackward(h, mem)
<1>0. SameUsed(h, h)
  BY DEF SameUsed
<1>1. CASE mem = 0
  <2>1. g = h
    BY <1>1 DEF PlugBackward, Tiles, P
  <2>2. \A x \in D(h) \ {heap_end} : N(h, x) # 0
    <3> TAKE x \in D(h) \ {heap_end}
    <3>1. x \in Nat /\ N(h, x) \in Nat /\ x < N(h, x)
      BY NextIsAbove
    <3> QED  BY <3>1
  <2>3. Plugged(h)
    BY <1>1, <2>2 DEF Plugged, PluggedAfter, Tiles
  <2> QED  BY <2>1, <2>3, <1>0
<1>2. CASE mem # 0
  <2>1. p \in D(h) \ {heap_end} /\ N(h, p) = mem
    BY <1>2 DEF Tiles
  <2>2. p # mem
    <3>1. p \in Nat /\ N(h, p) \in Nat /\ p < N(h, p)
      BY <2>1, NextIsAbove
    <3> QED  BY <3>1, <2>1
  <2>3. CASE U(h, p)
    <3>1. g = h
      BY <2>3 DEF PlugBackward, U, P
    <3>2. \A x \in D(h) \ {heap_end} : N(h, x) = mem => x = p
      BY <2>1 DEF Tiles
    <3>3. Plugged(h)
      BY <2>3, <3>2 DEF Plugged, PluggedAfter, Tiles
    <3> QED  BY <3>1, <3>3, <1>0
  <2>4. CASE ~U(h, p)
    <3>1. g = Join(h, p, mem)
      BY <2>2, <2>4 DEF PlugBackward, U, P
    <3>2. /\ Typed(g) /\ Tiles(g) /\ LfreeFree(g) /\ SameUsed(h, g)
          /\ D(g) = D(h) \ {mem}
          /\ \A x \in D(g) : U(g, x) = U(h, x) /\ N(g, x) = IF x = p THEN N(h, mem) ELSE N(h, x)
      BY <3>1, <2>1, <2>4, JoinFree
    <3>3. N(h, mem) # mem /\ N(h, mem) \in D(h)
      <4>1. mem \in Nat /\ N(h, mem) \in Nat /\ mem < N(h, mem) /\ N(h, mem) \in D(h)
        BY NextIsAbove
      <4> QED  BY <4>1
    <3>4. ASSUME NEW x \in D(g), ~U(g, x)
          PROVE  U(g, N(g, x))
      <4>1. CASE x = p
        BY <4>1, <3>2, <3>3 DEF PluggedAfter
      <4>2. CASE x # p
        <5>1. x \in D(h) \ {heap_end} /\ ~U(h, x) /\ N(g, x) = N(h, x)
          BY <4>2, <3>4, <3>2 DEF Tiles
        <5>2. N(h, x) # mem /\ N(h, x) \in D(h)
          BY <5>1, <4>2, <2>1 DEF Tiles
        <5> QED  BY <5>1, <5>2, <3>2 DEF PluggedAfter
      <4> QED  BY <4>1, <4>2
    <3> QED  BY <3>2, <3>4 DEF Plugged
  <2> QED  BY <2>3, <2>4
<1> QED  BY <1>1, <1>2

LEMMA PlugHoles ==
  ASSUME NEW h, Typed(h), Tiles(h), LfreeFree(h),
         NEW mem \in D(h) \ {heap_end}, ~U(h, mem), PluggedAround(h, mem)
  PROVE  LET g == plug_holes(h, mem) IN
         Typed(g) /\ Tiles(g) /\ LfreeFree(g) /\ SameUsed(h, g) /\ Plugged(g)
<1> DEFINE f == PlugForward(h, mem)
           g == PlugBackward(f, mem)
<1>1. /\ Typed(f) /\ Tiles(f) /\ LfreeFree(f) /\ SameUsed(h, f)
      /\ mem \in D(f) /\ ~U(f, mem) /\ PluggedAfter(f, mem)
  BY PlugForwardKeeps
<1>2. Typed(g) /\ Tiles(g) /\ LfreeFree(g) /\ SameUsed(f, g) /\ Plugged(g)
  BY <1>1, PlugBackwardKeeps
<1>3. SameUsed(h, g)
  BY <1>1, <1>2 DEF SameUsed
<1> QED  BY <1>2, <1>3 DEF plug_holes

-----------------------------------------------------------------------------
(***************************************************************************)
(* First fit and the walk of lfree find what they look for.                *)
(***************************************************************************)
LEMMA LeastExists ==
  ASSUME NEW S, S \subseteq Nat, S # {}
  PROVE  \E x \in S : \A y \in S : x <= y
<1> DEFINE R == OpToRel(<, Nat)
<1>1. IsWellFoundedOn(R, Nat)
  BY NatLessThanWellFounded
<1>2. PICK x \in S : \A y \in S : ~(<<y, x>> \in R)
  <2> HIDE DEF R
  <2> QED  BY <1>1, WFMin
<1>3. ASSUME NEW y \in S
      PROVE  x <= y
  <2>1. x \in Nat /\ y \in Nat
    BY <1>2
  <2>2. y < x => <<y, x>> \in R
    BY <2>1 DEF OpToRel
  <2> HIDE DEF R
  <2>3. ~(y < x)
    BY <1>2, <2>2
  <2> QED  BY <2>1, <2>3
<1> QED  BY <1>2, <1>3

(* The block that rt_malloc serves is free, large enough, and not the      *)
(* header at the end.                                                      *)
LEMMA FirstFitServes ==
  ASSUME Typed(heap), NEW n \in Nat, CanServe(n)
  PROVE  LET mem == FirstFit(AtLeast(n)) IN
         /\ AtLeast(n) \in Nat /\ n <= AtLeast(n)
         /\ mem \in D(heap) \ {heap_end} /\ ~U(heap, mem)
         /\ N(heap, mem) - (mem + SIZEOF_STRUCT_MEM) >= AtLeast(n)
<1> DEFINE size == AtLeast(n)
           mem  == FirstFit(size)
<1>1. size \in Nat /\ n <= size
  BY HeapAssumption DEF AtLeast
<1> HIDE DEF size
<1>2. Candidates(size) # {}
  BY DEF CanServe, size
<1>3. Candidates(size) \subseteq Free /\ Free \subseteq D(heap) /\ D(heap) \subseteq Nat
  BY EndIsInside DEF Candidates, Free, Chain, D, Typed
<1>4. \E b \in Candidates(size) : \A c \in Candidates(size) : b <= c
  BY <1>2, <1>3, LeastExists
<1>5. mem \in Candidates(size)
  BY <1>4 DEF FirstFit
<1> HIDE DEF mem
<1>6. mem \in D(heap) /\ ~U(heap, mem) /\ mem \in Nat
  BY <1>3, <1>5 DEF Candidates, Free, U
<1>7. mem < mem_size_aligned - size /\ Room(mem) >= size
  BY <1>5 DEF Candidates
<1>8. mem # heap_end
  BY <1>1, <1>6, <1>7, HeapAssumption DEF heap_end
<1>9. N(heap, mem) - (mem + SIZEOF_STRUCT_MEM) >= size
  BY <1>7 DEF Room, Data, N
<1> QED  BY <1>1, <1>6, <1>8, <1>9 DEF mem, size

LEMMA NextFreeIsFree ==
  ASSUME NEW h, Typed(h), heap_end \in D(h), NEW b
  PROVE  LET l == NextFree(h, b) IN l \in D(h) /\ (l = heap_end \/ ~U(h, l))
<1> DEFINE above == {c \in DOMAIN h.blocks : c >= b /\ ~h.blocks[c].used}
           Least(c) == \A d \in above : c <= d
<1>1. above \subseteq D(h) /\ D(h) \subseteq Nat /\ \A c \in above : ~U(h, c)
  BY EndIsInside DEF D, Typed, U
<1>2. \E c \in above \cup {heap_end} : Least(c)
  <2>1. CASE above = {}
    BY <2>1
  <2>2. CASE above # {}
    <3> HIDE DEF above
    <3> QED  BY <2>2, <1>1, LeastExists
  <2> QED  BY <2>1, <2>2
<1>3. NextFree(h, b) = CHOOSE c \in above \cup {heap_end} : Least(c)
  BY DEF NextFree
<1>4. NextFree(h, b) \in above \cup {heap_end}
  <2> HIDE DEF above, Least
  <2> QED  BY <1>2, <1>3
<1> QED  BY <1>1, <1>4

-----------------------------------------------------------------------------
(***************************************************************************)
(* The three ways a call changes the blocks in use: one more, one less,    *)
(* one smaller; the others stay where and as large as they were.           *)
(***************************************************************************)
Whole(h) == Typed(h) /\ Tiles(h) /\ Plugged(h) /\ LfreeFree(h)

InUse(h, b) == b \in D(h) \ {heap_end} /\ U(h, b)

SameBut(h, g, mem) ==
  \A b \in Offset \ {mem} :
    /\ InUse(h, b) <=> InUse(g, b)
    /\ InUse(h, b) => N(g, b) = N(h, b)

LEMMA MarkTiles ==
  ASSUME NEW h, Typed(h), Tiles(h), NEW mem \in D(h) \ {heap_end}, NEW u \in BOOLEAN
  PROVE  Tiles(Mark(h, mem, u))
<1> DEFINE g == Mark(h, mem, u)
<1>1. /\ D(g) = D(h)
      /\ \A x \in D(h) : /\ x # mem => U(g, x) = U(h, x)
                         /\ N(g, x) = N(h, x) /\ P(g, x) = P(h, x)
  BY MarkParts
<1> HIDE DEF g
<1>2. Tiles(g)
  BY <1>1 DEF Tiles
<1> QED  BY <1>2 DEF g

(* lfree may be moved to any free header. *)
LEMMA LfreeMoves ==
  ASSUME NEW h, Typed(h), NEW l \in Offset
  PROVE  LET g == [blocks |-> h.blocks, lfree |-> l] IN
         /\ Typed(g) /\ D(g) = D(h) /\ g.lfree = l
         /\ \A x : U(g, x) = U(h, x) /\ N(g, x) = N(h, x) /\ P(g, x) = P(h, x)
  BY DEF Typed, D, U, N, P

LEMMA LfreeTiles ==
  ASSUME NEW h, Typed(h), Tiles(h), NEW l \in Offset
  PROVE  Tiles([blocks |-> h.blocks, lfree |-> l])
  BY LfreeMoves DEF Tiles

(* rt_malloc splits the block, or hands it out whole, and marks it used. *)
LEMMA ServeKeeps ==
  ASSUME Whole(heap), NEW mem \in D(heap) \ {heap_end}, ~U(heap, mem), NEW size \in Nat,
         N(heap, mem) - (mem + SIZEOF_STRUCT_MEM) >= size
  PROVE  LET g == Serve(heap, mem, size) IN
         /\ Whole(g) /\ SameBut(heap, g, mem)
         /\ mem \in D(g) /\ U(g, mem) /\ mem + SIZEOF_STRUCT_MEM + size <= N(g, mem)
<1> DEFINE splits == Room(mem) >= size + SIZEOF_STRUCT_MEM + MIN_SIZE
           mem2   == mem + SIZEOF_STRUCT_MEM + size
           cut    == IF splits THEN Split(heap, mem, size) ELSE heap
           done   == Mark(cut, mem, TRUE)
           l      == IF heap.lfree = mem THEN NextFree(done, mem) ELSE heap.lfree
           g      == [blocks |-> done.blocks, lfree |-> l]
<1>1. /\ Typed(heap) /\ Tiles(heap) /\ Plugged(heap) /\ LfreeFree(heap)
      /\ mem \in Nat /\ N(heap, mem) \in Nat /\ mem < N(heap, mem) /\ N(heap, mem) \in D(heap)
      /\ U(heap, N(heap, mem)) /\ Room(mem) = N(heap, mem) - (mem + SIZEOF_STRUCT_MEM)
  <2>1. Typed(heap) /\ Tiles(heap) /\ Plugged(heap) /\ LfreeFree(heap)
    BY DEF Whole
  <2>2. U(heap, N(heap, mem))
    BY <2>1 DEF Plugged
  <2> QED  BY <2>1, <2>2, NextIsAbove DEF Room, Data, N
<1>2. splits => /\ mem2 \in Offset \ D(heap) /\ mem2 # heap_end /\ Tiles(cut)
                /\ Typed(cut) /\ D(cut) = D(heap) \cup {mem2} /\ cut.lfree = heap.lfree
                /\ ~U(cut, mem2) /\ N(cut, mem2) = N(heap, mem)
                /\ \A x \in D(heap) : /\ U(cut, x) = U(heap, x)
                                     /\ N(cut, x) = IF x = mem THEN mem2 ELSE N(heap, x)
  <2> HAVE splits
  <2>1. mem + SIZEOF_STRUCT_MEM + size + SIZEOF_STRUCT_MEM <= N(heap, mem)
    BY <1>1, HeapAssumption
  <2>2. cut = Split(heap, mem, size)
    OBVIOUS
  <2>3. mem2 \in Offset \ D(heap) /\ mem2 # heap_end /\ Tiles(cut)
    BY <1>1, <2>1, <2>2, SplitTiles
  <2> QED  BY <1>1, <2>2, <2>3, SplitParts
<1>3. ~splits => cut = heap
  OBVIOUS
<1> HIDE DEF splits, cut
<1>4. /\ Typed(cut) /\ Tiles(cut) /\ cut.lfree = heap.lfree /\ mem \in D(cut)
      /\ D(heap) \subseteq D(cut)
      /\ \A x \in D(heap) \ {mem} : U(cut, x) = U(heap, x) /\ N(cut, x) = N(heap, x)
      /\ \A x \in D(cut) \ D(heap) : ~U(cut, x) /\ N(cut, x) = N(heap, mem) /\ x # heap_end
  BY <1>1, <1>2, <1>3
<1>5. mem2 <= N(cut, mem)
  <2>1. CASE splits
    <3>1. N(cut, mem) = mem2 /\ mem2 \in Nat
      BY <2>1, <1>1, <1>2, EndIsInside
    <3> QED  BY <3>1
  <2>2. CASE ~splits
    BY <2>2, <1>1, <1>3, EndIsInside
  <2> QED  BY <2>1, <2>2
<1>6. /\ Typed(done) /\ Tiles(done) /\ D(done) = D(cut) /\ done.lfree = heap.lfree
      /\ U(done, mem)
      /\ \A x \in D(cut) : /\ x # mem => U(done, x) = U(cut, x)
                           /\ N(done, x) = N(cut, x)
  <2>1. Tiles(done)
    BY <1>4, MarkTiles
  <2>2. /\ Typed(done) /\ D(done) = D(cut) /\ done.lfree = cut.lfree
        /\ U(done, mem)
        /\ \A x \in D(cut) : /\ x # mem => U(done, x) = U(cut, x)
                             /\ N(done, x) = N(cut, x)
    <3>1. PICK u \in BOOLEAN : u = TRUE
      OBVIOUS
    <3>2. done = Mark(cut, mem, u)
      BY <3>1
    <3> HIDE DEF done
    <3>3. /\ Typed(done) /\ D(done) = D(cut) /\ done.lfree = cut.lfree
          /\ U(done, mem) = u
          /\ \A x \in D(cut) : /\ x # mem => U(done, x) = U(cut, x)
                               /\ N(done, x) = N(cut, x)
      BY <1>4, <3>2, MarkParts
    <3> QED  BY <3>1, <3>3
  <2> QED  BY <1>4, <2>1, <2>2
<1> HIDE DEF done
<1>7. l \in D(done) /\ (l = heap_end \/ ~U(done, l))
  <2>1. CASE heap.lfree = mem
    BY <2>1, <1>6, NextFreeIsFree DEF Tiles
  <2>2. CASE heap.lfree # mem
    BY <2>2, <1>1, <1>4, <1>6 DEF LfreeFree
  <2> QED  BY <2>1, <2>2
<1> HIDE DEF l
<1>8. /\ Typed(g) /\ Tiles(g) /\ D(g) = D(cut) /\ g.lfree = l
      /\ \A x \in D(cut) : U(g, x) = U(done, x) /\ N(g, x) = N(cut, x)
  <2>1. l \in Offset
    BY <1>6, <1>7 DEF Typed
  <2>2. Tiles(g)
    BY <2>1, <1>6, LfreeTiles
  <2>3. /\ Typed(g) /\ D(g) = D(done) /\ g.lfree = l
        /\ \A x : U(g, x) = U(done, x) /\ N(g, x) = N(done, x)
    BY <2>1, <1>6, LfreeMoves
  <2> HIDE DEF g
  <2> QED  BY <2>2, <2>3, <1>6
<1>9. g = Serve(heap, mem, size)
  BY DEF g, l, done, cut, splits, Serve
<1> HIDE DEF g
<1>10. LfreeFree(g)
  BY <1>6, <1>7, <1>8 DEF LfreeFree
<1>11. Plugged(g)
  <2>1. ASSUME NEW x \in D(g), ~U(g, x)
        PROVE  U(g, N(g, x))
    <3>0. x # mem
      BY <2>1, <1>6, <1>8
    <3>1. CASE x \in D(heap)
      <4>1. ~U(heap, x) /\ N(g, x) = N(heap, x)
        BY <3>0, <3>1, <2>1, <1>4, <1>6, <1>8
      <4>2. U(heap, N(heap, x)) /\ N(heap, x) \in D(heap)
        BY <4>1, <3>1, <1>1 DEF Plugged, Tiles
      <4>3. N(heap, x) # mem
        BY <4>2
      <4> QED  BY <4>1, <4>2, <4>3, <1>4, <1>6, <1>8
    <3>2. CASE x \notin D(heap)
      <4>1. N(g, x) = N(heap, mem) /\ N(heap, mem) # mem
        BY <3>2, <2>1, <1>1, <1>4, <1>8
      <4> QED  BY <4>1, <1>1, <1>4, <1>6, <1>8
    <3> QED  BY <3>1, <3>2
  <2> QED  BY <2>1 DEF Plugged
<1>12. SameBut(heap, g, mem)
  BY <1>4, <1>6, <1>8 DEF SameBut, InUse
<1>13. mem \in D(g) /\ U(g, mem) /\ mem2 <= N(g, mem)
  BY <1>4, <1>5, <1>6, <1>8
<1>14. Whole(g)
  BY <1>8, <1>10, <1>11 DEF Whole
<1> QED  BY <1>9, <1>12, <1>13, <1>14

LEMMA SameUsedIsSameBut ==
  ASSUME NEW h, Typed(h), NEW g, SameUsed(h, g), NEW m
  PROVE  SameBut(h, g, m)
  BY DEF SameUsed, SameBut, InUse

(* rt_free marks the block free, lowers lfree to it and mends the chain. *)
LEMMA GiveKeeps ==
  ASSUME Whole(heap), NEW mem, InUse(heap, mem)
  PROVE  LET h == [blocks |-> Mark(heap, mem, FALSE).blocks,
                   lfree  |-> IF mem < heap.lfree THEN mem ELSE heap.lfree]
             g == plug_holes(h, mem)
         IN Whole(g) /\ SameBut(heap, g, mem) /\ ~InUse(g, mem)
<1> DEFINE m == Mark(heap, mem, FALSE)
           l == IF mem < heap.lfree THEN mem ELSE heap.lfree
           h == [blocks |-> m.blocks, lfree |-> l]
           g == plug_holes(h, mem)
<1>1. /\ Typed(heap) /\ Tiles(heap) /\ Plugged(heap) /\ LfreeFree(heap)
      /\ mem \in D(heap) \ {heap_end} /\ U(heap, mem) /\ mem \in Offset
  BY DEF Whole, InUse, Typed
<1>2. /\ Typed(m) /\ Tiles(m) /\ D(m) = D(heap) /\ ~U(m, mem)
      /\ \A x \in D(heap) : /\ x # mem => U(m, x) = U(heap, x)
                            /\ N(m, x) = N(heap, x)
  <2>1. PICK u \in BOOLEAN : u = FALSE
    OBVIOUS
  <2>2. m = Mark(heap, mem, u)
    BY <2>1
  <2> HIDE DEF m
  <2>3. /\ Typed(m) /\ D(m) = D(heap) /\ U(m, mem) = u
        /\ \A x \in D(heap) : /\ x # mem => U(m, x) = U(heap, x)
                              /\ N(m, x) = N(heap, x)
    BY <1>1, <2>2, MarkParts
  <2>4. Tiles(m)
    BY <1>1, <2>2, MarkTiles
  <2> QED  BY <2>1, <2>3, <2>4
<1> HIDE DEF m
<1>3. l \in D(m) /\ l \in Offset /\ (l = heap_end \/ ~U(m, l))
  BY <1>1, <1>2 DEF LfreeFree, Typed
<1> HIDE DEF l
<1>4. /\ Typed(h) /\ Tiles(h) /\ D(h) = D(heap) /\ h.lfree = l
      /\ \A x : U(h, x) = U(m, x) /\ N(h, x) = N(m, x)
  <2>1. Tiles(h)
    BY <1>2, <1>3, LfreeTiles
  <2>2. /\ Typed(h) /\ D(h) = D(m) /\ h.lfree = l
        /\ \A x : U(h, x) = U(m, x) /\ N(h, x) = N(m, x)
    BY <1>2, <1>3, LfreeMoves
  <2> HIDE DEF h
  <2> QED  BY <1>2, <2>1, <2>2
<1> HIDE DEF h
<1>5. LfreeFree(h)
  BY <1>2, <1>3, <1>4 DEF LfreeFree
<1>6. PluggedAround(h, mem)
  <2>1. ASSUME NEW x \in D(h), ~U(h, x), x # mem, N(h, x) # mem
        PROVE  U(h, N(h, x))
    <3>1. ~U(heap, x) /\ N(h, x) = N(heap, x) /\ x \in D(heap)
      BY <2>1, <1>2, <1>4
    <3>2. U(heap, N(heap, x)) /\ N(heap, x) \in D(heap)
      BY <3>1, <1>1 DEF Plugged, Tiles
    <3> QED  BY <3>1, <3>2, <2>1, <1>2, <1>4
  <2> QED  BY <2>1 DEF PluggedAround
<1>7. ~U(h, mem)
  BY <1>2, <1>4
<1>8. Typed(g) /\ Tiles(g) /\ LfreeFree(g) /\ SameUsed(h, g) /\ Plugged(g)
  BY <1>1, <1>4, <1>5, <1>6, <1>7, PlugHoles
<1> HIDE DEF g
<1>9. SameBut(heap, h, mem) /\ ~InUse(h, mem)
  BY <1>1, <1>2, <1>4, <1>7 DEF SameBut, InUse
<1>10. SameBut(h, g, mem) /\ ~InUse(g, mem)
  <2>1. SameBut(h, g, mem)
    BY <1>4, <1>8, SameUsedIsSameBut
  <2>2. InUse(h, mem) <=> InUse(g, mem)
    BY <1>1, <1>8 DEF SameUsed, InUse
  <2> QED  BY <1>9, <2>1, <2>2
<1>11. SameBut(heap, g, mem)
  BY <1>9, <1>10 DEF SameBut
<1>12. Whole(g)
  BY <1>8 DEF Whole
<1> QED  BY <1>10, <1>11, <1>12 DEF g, h, l, m

(* A rt_realloc in place leaves a free header behind what it keeps. *)
LEMMA ShrinkKeeps ==
  ASSUME Whole(heap), NEW mem, InUse(heap, mem), NEW size \in Nat,
         mem + SIZEOF_STRUCT_MEM + size + SIZEOF_STRUCT_MEM <= N(heap, mem)
  PROVE  LET g == plug_holes(Split(heap, mem, size), mem + SIZEOF_STRUCT_MEM + size)
         IN /\ Whole(g) /\ SameBut(heap, g, mem)
            /\ InUse(g, mem) /\ N(g, mem) = mem + SIZEOF_STRUCT_MEM + size
<1> DEFINE mem2 == mem + SIZEOF_STRUCT_MEM + size
           h    == Split(heap, mem, size)
           g    == plug_holes(h, mem2)
<1>1. /\ Typed(heap) /\ Tiles(heap) /\ Plugged(heap) /\ LfreeFree(heap)
      /\ mem \in D(heap) \ {heap_end} /\ U(heap, mem) /\ mem \in Offset
  BY DEF Whole, InUse, Typed
<1>2. mem2 \in Offset \ D(heap) /\ mem2 # heap_end /\ Tiles(h)
  BY <1>1, SplitTiles
<1>3. /\ Typed(h) /\ D(h) = D(heap) \cup {mem2} /\ h.lfree = heap.lfree
      /\ ~U(h, mem2) /\ N(h, mem2) = N(heap, mem)
      /\ \A x \in D(heap) : /\ U(h, x) = U(heap, x)
                            /\ N(h, x) = IF x = mem THEN mem2 ELSE N(heap, x)
  BY <1>1, <1>2, SplitParts
<1> HIDE DEF h, mem2
<1>4. LfreeFree(h)
  BY <1>1, <1>3 DEF LfreeFree
<1>5. PluggedAround(h, mem2)
  <2>1. ASSUME NEW x \in D(h), ~U(h, x), x # mem2
        PROVE  U(h, N(h, x))
    <3>1. x \in D(heap) /\ ~U(heap, x) /\ N(h, x) = N(heap, x)
      BY <2>1, <1>1, <1>3
    <3>2. U(heap, N(heap, x)) /\ N(heap, x) \in D(heap)
      BY <3>1, <1>1 DEF Plugged, Tiles
    <3> QED  BY <3>1, <3>2, <1>3
  <2> QED  BY <2>1 DEF PluggedAround
<1>6. Typed(g) /\ Tiles(g) /\ LfreeFree(g) /\ SameUsed(h, g) /\ Plugged(g)
  BY <1>2, <1>3, <1>4, <1>5, PlugHoles
<1> HIDE DEF g
<1>7. SameBut(heap, h, mem) /\ InUse(h, mem) /\ N(h, mem) = mem2
  BY <1>1, <1>2, <1>3 DEF SameBut, InUse
<1>8. SameBut(h, g, mem) /\ InUse(g, mem) /\ N(g, mem) = mem2
  <2>1. SameBut(h, g, mem)
    BY <1>3, <1>6, SameUsedIsSameBut
  <2>2. (InUse(h, mem) <=> InUse(g, mem)) /\ (InUse(h, mem) => N(g, mem) = N(h, mem))
    BY <1>1, <1>6 DEF SameUsed, InUse
  <2> QED  BY <1>7, <2>1, <2>2
<1>9. SameBut(heap, g, mem)
  BY <1>7, <1>8 DEF SameBut
<1>10. Whole(g)
  BY <1>6 DEF Whole
<1> QED  BY <1>8, <1>9, <1>10 DEF g, h, mem2

-----------------------------------------------------------------------------
(***************************************************************************)
(* The regions R that callers hold are the data of the blocks in use of h. *)
(***************************************************************************)
Holding(h, R) ==
  /\ R \subseteq Region
  /\ \A b \in Offset : InUse(h, b) => \E r \in R : r.at = b + SIZEOF_STRUCT_MEM
  /\ \A r \in R : /\ InUse(h, r.at - SIZEOF_STRUCT_MEM)
                 /\ r.len <= N(h, r.at - SIZEOF_STRUCT_MEM) - r.at
  /\ \A r, q \in R : r.at = q.at => r = q

LEMMA HoldsAt ==
  ASSUME NEW h, Typed(h), NEW R, Holding(h, R), NEW r \in R
  PROVE  /\ r.at \in Offset /\ r.len \in Nat /\ r = [at |-> r.at, len |-> r.len]
         /\ r.at - SIZEOF_STRUCT_MEM \in Offset /\ InUse(h, r.at - SIZEOF_STRUCT_MEM)
         /\ r.at \in Nat /\ r.at # 0
         /\ r.len <= N(h, r.at - SIZEOF_STRUCT_MEM) - r.at
<1>1. r.at \in Offset /\ r.len \in Nat /\ r = [at |-> r.at, len |-> r.len]
  BY DEF Holding, Region
<1>2. /\ InUse(h, r.at - SIZEOF_STRUCT_MEM)
      /\ r.len <= N(h, r.at - SIZEOF_STRUCT_MEM) - r.at
  BY DEF Holding
<1>3. r.at - SIZEOF_STRUCT_MEM \in Offset
  BY <1>2 DEF InUse, Typed
<1>4. r.at \in Nat /\ r.at # 0
  BY <1>1, <1>3, EndIsInside
<1> QED  BY <1>1, <1>2, <1>3, <1>4

LEMMA HoldsMore ==
  ASSUME NEW h, Typed(h), NEW g, Typed(g), Tiles(g), NEW R, Holding(h, R), NEW mem,
         ~InUse(h, mem), InUse(g, mem), SameBut(h, g, mem),
         NEW n \in Nat, mem + SIZEOF_STRUCT_MEM + n <= N(g, mem)
  PROVE  LET r == [at |-> mem + SIZEOF_STRUCT_MEM, len |-> n] IN
         r \notin R /\ Holding(g, R \cup {r})
<1> DEFINE r == [at |-> mem + SIZEOF_STRUCT_MEM, len |-> n]
<1>1. mem \in D(g) \ {heap_end} /\ mem \in Offset /\ mem \in Nat
      /\ N(g, mem) \in Nat /\ N(g, mem) <= heap_end
      /\ mem + SIZEOF_STRUCT_MEM - SIZEOF_STRUCT_MEM = mem
  <2>1. mem \in D(g) \ {heap_end}
    BY DEF InUse
  <2> QED  BY <2>1, NextIsAbove, FieldTypes, EndIsInside
<1>2. mem + SIZEOF_STRUCT_MEM \in Offset
  BY <1>1, EndIsInside
<1>3. \A q \in R : /\ q.at # mem + SIZEOF_STRUCT_MEM
                  /\ InUse(g, q.at - SIZEOF_STRUCT_MEM)
                  /\ q.len <= N(g, q.at - SIZEOF_STRUCT_MEM) - q.at
  <2> TAKE q \in R
  <2>1. /\ q.at - SIZEOF_STRUCT_MEM \in Offset /\ InUse(h, q.at - SIZEOF_STRUCT_MEM)
        /\ q.at \in Nat /\ q.len <= N(h, q.at - SIZEOF_STRUCT_MEM) - q.at
    BY HoldsAt
  <2>2. q.at - SIZEOF_STRUCT_MEM # mem
    BY <2>1
  <2>3. q.at # mem + SIZEOF_STRUCT_MEM
    BY <2>1, <2>2, <1>1, EndIsInside
  <2> QED  BY <2>1, <2>2, <2>3 DEF SameBut
<1>4. r.at = mem + SIZEOF_STRUCT_MEM /\ r.len = n /\ r \in Region
  BY <1>2 DEF Region
<1> HIDE DEF r
<1>5. r \notin R
  BY <1>3, <1>4
<1>6. R \cup {r} \subseteq Region
  BY <1>4 DEF Holding
<1>7. \A q \in R \cup {r} : /\ InUse(g, q.at - SIZEOF_STRUCT_MEM)
                            /\ q.len <= N(g, q.at - SIZEOF_STRUCT_MEM) - q.at
  <2>1. r.len <= N(g, r.at - SIZEOF_STRUCT_MEM) - r.at
    BY <1>1, <1>4, EndIsInside
  <2>2. r.at - SIZEOF_STRUCT_MEM = mem
    BY <1>1, <1>4, EndIsInside
  <2>3. InUse(g, r.at - SIZEOF_STRUCT_MEM)
    BY <2>2
  <2> QED  BY <1>3, <2>1, <2>3
<1>8. \A p, q \in R \cup {r} : p.at = q.at => p = q
  BY <1>3, <1>4 DEF Holding
<1>9. \A b \in Offset : InUse(g, b) => \E q \in R \cup {r} : q.at = b + SIZEOF_STRUCT_MEM
  <2> TAKE b \in Offset
  <2>1. CASE b = mem
    BY <2>1, <1>4
  <2>2. CASE b # mem
    BY <2>2 DEF Holding, SameBut
  <2> QED  BY <2>1, <2>2
<1>10. Holding(g, R \cup {r})
  BY <1>6, <1>7, <1>8, <1>9 DEF Holding
<1> QED  BY <1>5, <1>10 DEF r

LEMMA HoldsLess ==
  ASSUME NEW h, Typed(h), NEW g, NEW R, Holding(h, R), NEW r \in R,
         ~InUse(g, r.at - SIZEOF_STRUCT_MEM), SameBut(h, g, r.at - SIZEOF_STRUCT_MEM)
  PROVE  Holding(g, R \ {r})
<1> DEFINE mem == r.at - SIZEOF_STRUCT_MEM
<1>1. mem \in Offset /\ r.at \in Nat
  BY HoldsAt
<1>2. \A q \in R \ {r} : /\ InUse(g, q.at - SIZEOF_STRUCT_MEM)
                         /\ q.len <= N(g, q.at - SIZEOF_STRUCT_MEM) - q.at
  <2> TAKE q \in R \ {r}
  <2>1. /\ q.at - SIZEOF_STRUCT_MEM \in Offset /\ InUse(h, q.at - SIZEOF_STRUCT_MEM)
        /\ q.at \in Nat /\ q.len <= N(h, q.at - SIZEOF_STRUCT_MEM) - q.at
    BY HoldsAt
  <2>2. q.at # r.at
    BY DEF Holding
  <2>3. q.at - SIZEOF_STRUCT_MEM # mem
    BY <2>1, <2>2, <1>1, EndIsInside
  <2> QED  BY <2>1, <2>3 DEF SameBut
<1>3. \A b \in Offset : InUse(g, b) => \E q \in R \ {r} : q.at = b + SIZEOF_STRUCT_MEM
  <2> SUFFICES ASSUME NEW b \in Offset, InUse(g, b)
               PROVE  \E q \in R \ {r} : q.at = b + SIZEOF_STRUCT_MEM
    OBVIOUS
  <2>1. b # mem /\ InUse(h, b)
    BY DEF SameBut
  <2>2. PICK q \in R : q.at = b + SIZEOF_STRUCT_MEM
    BY <2>1 DEF Holding
  <2>3. q # r
    BY <2>1, <2>2, <1>1, EndIsInside
  <2> QED  BY <2>2, <2>3
<1> QED  BY <1>2, <1>3 DEF Holding

LEMMA HoldsResized ==
  ASSUME NEW h, Typed(h), NEW g, Typed(g), NEW R, Holding(h, R), NEW r \in R,
         InUse(g, r.at - SIZEOF_STRUCT_MEM), SameBut(h, g, r.at - SIZEOF_STRUCT_MEM),
         NEW n \in Nat, n <= N(g, r.at - SIZEOF_STRUCT_MEM) - r.at
  PROVE  Holding(g, (R \ {r}) \cup {[at |-> r.at, len |-> n]})
<1> DEFINE mem == r.at - SIZEOF_STRUCT_MEM
           s   == [at |-> r.at, len |-> n]
<1>1. mem \in Offset /\ r.at \in Nat /\ r.at \in Offset
  BY HoldsAt
<1>2. \A q \in R \ {r} : /\ q.at # r.at /\ InUse(g, q.at - SIZEOF_STRUCT_MEM)
                         /\ q.len <= N(g, q.at - SIZEOF_STRUCT_MEM) - q.at
  <2> TAKE q \in R \ {r}
  <2>1. /\ q.at - SIZEOF_STRUCT_MEM \in Offset /\ InUse(h, q.at - SIZEOF_STRUCT_MEM)
        /\ q.at \in Nat /\ q.len <= N(h, q.at - SIZEOF_STRUCT_MEM) - q.at
    BY HoldsAt
  <2>2. q.at # r.at
    BY DEF Holding
  <2>3. q.at - SIZEOF_STRUCT_MEM # mem
    BY <2>1, <2>2, <1>1, EndIsInside
  <2> QED  BY <2>1, <2>2, <2>3 DEF SameBut
<1>3. s.at = r.at /\ s.len = n /\ s \in Region
  BY <1>1 DEF Region
<1> HIDE DEF s
<1>4. \A b \in Offset :
        InUse(g, b) => \E q \in (R \ {r}) \cup {s} : q.at = b + SIZEOF_STRUCT_MEM
  <2> SUFFICES ASSUME NEW b \in Offset, InUse(g, b)
               PROVE  \E q \in (R \ {r}) \cup {s} : q.at = b + SIZEOF_STRUCT_MEM
    OBVIOUS
  <2>1. CASE b = mem
    BY <2>1, <1>1, <1>3, EndIsInside
  <2>2. CASE b # mem
    <3>1. InUse(h, b)
      BY <2>2 DEF SameBut
    <3>2. PICK q \in R : q.at = b + SIZEOF_STRUCT_MEM
      BY <3>1 DEF Holding
    <3>3. q # r
      BY <3>2, <2>2, <1>1, EndIsInside
    <3> QED  BY <3>2, <3>3
  <2> QED  BY <2>1, <2>2
<1>5. \A q \in (R \ {r}) \cup {s} : /\ InUse(g, q.at - SIZEOF_STRUCT_MEM)
                                   /\ q.len <= N(g, q.at - SIZEOF_STRUCT_MEM) - q.at
  BY <1>2, <1>3
<1>6. \A p, q \in (R \ {r}) \cup {s} : p.at = q.at => p = q
  BY <1>2, <1>3 DEF Holding
<1>7. (R \ {r}) \cup {s} \subseteq Region
  BY <1>3 DEF Holding
<1>8. Holding(g, (R \ {r}) \cup {s})
  BY <1>4, <1>5, <1>6, <1>7 DEF Holding
<1> QED  BY <1>8 DEF s

-----------------------------------------------------------------------------
(***************************************************************************)
(* The blocks of every rt_realloc M[t] that has released heap_sem are held *)
(* and its own, and what it will copy fits in both.                        *)
(***************************************************************************)
EndsOf(m) == {m.from, m.to} \ {0}

Moves(h, R, M) ==
  /\ M \in [User -> Move]
  /\ \A t \in User : M[t].len <= M[t].want
  /\ \A t \in User : \A a \in EndsOf(M[t]) :
       /\ \E r \in R : r.at = a
       /\ M[t].len <= N(h, a - SIZEOF_STRUCT_MEM) - a
       /\ \A u \in User \ {t} : a \notin EndsOf(M[u])

(* One thread's rt_realloc goes on while the others' blocks stay.          *)
LEMMA MovesGoOn ==
  ASSUME NEW h, NEW R, NEW M, Moves(h, R, M), NEW g, NEW S, NEW t \in User,
         NEW W \in [User -> Move], \A u \in User \ {t} : W[u] = M[u],
         W[t].len <= W[t].want,
         \A a \in EndsOf(W[t]) : /\ \E r \in S : r.at = a
                                 /\ W[t].len <= N(g, a - SIZEOF_STRUCT_MEM) - a
                                 /\ \A u \in User \ {t} : a \notin EndsOf(M[u]),
         \A u \in User \ {t} : \A a \in EndsOf(M[u]) :
            /\ \E r \in S : r.at = a
            /\ N(g, a - SIZEOF_STRUCT_MEM) = N(h, a - SIZEOF_STRUCT_MEM)
  PROVE  Moves(g, S, W)
<1>1. ASSUME NEW u \in User
      PROVE  W[u].len <= W[u].want
  BY DEF Moves
<1>2. ASSUME NEW u \in User, NEW a \in EndsOf(W[u])
      PROVE  /\ \E r \in S : r.at = a
             /\ W[u].len <= N(g, a - SIZEOF_STRUCT_MEM) - a
             /\ \A v \in User \ {u} : a \notin EndsOf(W[v])
  <2>1. CASE u = t
    BY <1>2, <2>1
  <2>2. CASE u # t
    <3>1. /\ W[u] = M[u] /\ a \in EndsOf(M[u])
          /\ M[u].len <= N(h, a - SIZEOF_STRUCT_MEM) - a
          /\ \A v \in User \ {u} : a \notin EndsOf(M[v])
      BY <1>2, <2>2 DEF Moves
    <3>2. /\ \E r \in S : r.at = a
          /\ N(g, a - SIZEOF_STRUCT_MEM) = N(h, a - SIZEOF_STRUCT_MEM)
      BY <2>2, <3>1
    <3>3. a \notin EndsOf(W[t])
      BY <2>2, <3>1
    <3>4. \A v \in User \ {u} : a \notin EndsOf(W[v])
      BY <3>1, <3>3
    <3> QED  BY <3>1, <3>2, <3>4
  <2> QED  BY <2>1, <2>2
<1> QED  BY <1>1, <1>2 DEF Moves

-----------------------------------------------------------------------------
(***************************************************************************)
(* The inductive invariant.  That the blocks in use are the ones that are  *)
(* held is what makes rt_free and rt_realloc find a header.                *)
(***************************************************************************)
HeapInv ==
  /\ Whole(heap)
  /\ used_mem \in Int
  /\ Holding(heap, held)
  /\ Moves(heap, held, moving)

(* It is the conjunction of what the runs check. *)
LEMMA HeapInvIsSound ==
  ASSUME HeapInv
  PROVE  HeapSound /\ HeldIsUsed
<1>1. /\ Typed(heap) /\ Tiles(heap) /\ Plugged(heap) /\ LfreeFree(heap)
      /\ used_mem \in Int /\ Holding(heap, held) /\ Moves(heap, held, moving)
  BY DEF HeapInv, Whole
<1>2. HeapTypeOK
  BY <1>1 DEF HeapTypeOK, Typed, Holding, Moves, D, Chain
<1>3. ChainTiles
  BY <1>1 DEF ChainTiles, Tiles, Chain, D, U, N, P, Data
<1>4. HolesPlugged
  BY <1>1 DEF HolesPlugged, Plugged, Free, Chain, D, U, N
<1>5. LfreeIsFree
  BY <1>1 DEF LfreeIsFree, LfreeFree, Free, Chain, D, U
<1>6. HeldIsUsed
  <2>1. \A b : b \in (Chain \ Free) \ {heap_end} <=> InUse(heap, b)
    BY DEF InUse, Chain, Free, D, U
  <2>2. \A b : Room(b) = N(heap, b) - Data(b)
    BY DEF Room, N
  <2>3. \A r \in held : /\ r.at \in Nat /\ r.at - SIZEOF_STRUCT_MEM \in Offset
                       /\ InUse(heap, r.at - SIZEOF_STRUCT_MEM)
                       /\ r.len <= N(heap, r.at - SIZEOF_STRUCT_MEM) - r.at
    BY <1>1, HoldsAt
  <2>4. \A a \in Nat : Data(a - SIZEOF_STRUCT_MEM) = a
    BY EndIsInside DEF Data
  <2>5. {r.at - SIZEOF_STRUCT_MEM : r \in held} = (Chain \ Free) \ {heap_end}
    <3>1. ASSUME NEW b, InUse(heap, b)
          PROVE  \E r \in held : b = r.at - SIZEOF_STRUCT_MEM
      <4>1. b \in Offset /\ b \in Nat
        BY <1>1, <3>1, EndIsInside DEF InUse, Typed
      <4>2. PICK r \in held : r.at = b + SIZEOF_STRUCT_MEM
        BY <1>1, <3>1, <4>1 DEF Holding
      <4>3. b = r.at - SIZEOF_STRUCT_MEM
        BY <4>1, <4>2, EndIsInside
      <4> QED  BY <4>3
    <3> QED  BY <2>1, <2>3, <3>1
  <2>6. \A r, q \in held : r.at = q.at => r = q
    BY <1>1 DEF Holding
  <2>7. \A r \in held : r.len <= Room(r.at - SIZEOF_STRUCT_MEM)
    BY <2>2, <2>3, <2>4
  <2>8. \A t \in User : \A a \in Ends(t) :
          /\ \E r \in held : r.at = a /\ moving[t].len <= Room(a - SIZEOF_STRUCT_MEM)
          /\ \A u \in User \ {t} : a \notin Ends(u)
    <3>1. \A t : Ends(t) = EndsOf(moving[t])
      BY DEF Ends, EndsOf
    <3> TAKE t \in User
    <3> TAKE a \in Ends(t)
    <3>2. PICK r \in held : r.at = a
      BY <1>1, <3>1 DEF Moves
    <3>3. moving[t].len <= N(heap, a - SIZEOF_STRUCT_MEM) - a
      BY <1>1, <3>1 DEF Moves
    <3>4. \A u \in User \ {t} : a \notin Ends(u)
      BY <1>1, <3>1 DEF Moves
    <3> QED  BY <2>2, <2>3, <2>4, <3>2, <3>3, <3>4
  <2>9. \A t \in User : moving[t].len <= moving[t].want
    BY <1>1 DEF Moves
  <2> QED  BY <2>5, <2>6, <2>7, <2>8, <2>9 DEF HeldIsUsed
<1> QED  BY <1>2, <1>3, <1>4, <1>5, <1>6 DEF HeapSound

-----------------------------------------------------------------------------
(***************************************************************************)
(* What a locked section does to the blocks and to what is held.           *)
(***************************************************************************)
LEMMA TakeStep ==
  ASSUME HeapInv, NEW n \in Nat, Take(n)
  PROVE  LET mem == FirstFit(AtLeast(n))
             r   == [at |-> Data(mem), len |-> n] IN
         /\ Whole(heap') /\ used_mem' \in Int /\ Holding(heap', held')
         /\ r \notin held /\ held' = held \cup {r}
         /\ mem \in Offset /\ ~InUse(heap, mem) /\ SameBut(heap, heap', mem)
         /\ InUse(heap', mem) /\ used_mem' = used_mem + N(heap', mem) - mem
         /\ Data(mem) \in Offset /\ Data(mem) \in Nat
         /\ n <= N(heap', mem) - Data(mem) /\ Data(mem) - SIZEOF_STRUCT_MEM = mem
<1> DEFINE mem == FirstFit(AtLeast(n))
           r   == [at |-> mem + SIZEOF_STRUCT_MEM, len |-> n]
<1>1. /\ Whole(heap) /\ Typed(heap) /\ Holding(heap, held) /\ used_mem \in Int
  BY DEF HeapInv, Whole
<1>2. /\ AtLeast(n) \in Nat /\ n <= AtLeast(n)
      /\ mem \in D(heap) \ {heap_end} /\ ~U(heap, mem)
      /\ N(heap, mem) - (mem + SIZEOF_STRUCT_MEM) >= AtLeast(n)
  BY <1>1, FirstFitServes DEF Take
<1>3. /\ heap' = Serve(heap, mem, AtLeast(n))
      /\ used_mem' = used_mem + N(heap', mem) - mem
      /\ held' = held \cup {r}
  BY DEF Take, N, Data
<1> HIDE DEF mem
<1>4. /\ Whole(heap') /\ SameBut(heap, heap', mem) /\ mem \in D(heap') /\ U(heap', mem)
      /\ mem + SIZEOF_STRUCT_MEM + AtLeast(n) <= N(heap', mem)
  BY <1>1, <1>2, <1>3, ServeKeeps
<1>5. ~InUse(heap, mem) /\ InUse(heap', mem) /\ Typed(heap') /\ Tiles(heap')
  BY <1>2, <1>4 DEF InUse, Whole
<1>6. mem \in Offset /\ mem \in Nat /\ N(heap', mem) \in Nat /\ N(heap', mem) <= heap_end
  BY <1>2, <1>4, <1>5, FieldTypes, EndIsInside
<1>7. mem + SIZEOF_STRUCT_MEM + n <= N(heap', mem)
  BY <1>2, <1>4, <1>6, EndIsInside
<1>8. r \notin held /\ Holding(heap', held \cup {r})
  BY <1>1, <1>4, <1>5, <1>7, HoldsMore
<1>9. used_mem' \in Int
  BY <1>1, <1>3, <1>6
<1>10. /\ Data(mem) = mem + SIZEOF_STRUCT_MEM /\ Data(mem) \in Offset /\ Data(mem) \in Nat
       /\ n <= N(heap', mem) - Data(mem) /\ Data(mem) - SIZEOF_STRUCT_MEM = mem
  BY <1>6, <1>7, EndIsInside DEF Data
<1> QED  BY <1>3, <1>4, <1>5, <1>6, <1>8, <1>9, <1>10 DEF mem

LEMMA GiveStep ==
  ASSUME HeapInv, NEW r \in held, Give(r)
  PROVE  /\ Whole(heap') /\ used_mem' \in Int /\ Holding(heap', held')
         /\ held' = held \ {r} /\ SameBut(heap, heap', r.at - SIZEOF_STRUCT_MEM)
         /\ InUse(heap, r.at - SIZEOF_STRUCT_MEM) /\ ~InUse(heap', r.at - SIZEOF_STRUCT_MEM)
         /\ used_mem' = used_mem - (N(heap, r.at - SIZEOF_STRUCT_MEM) - (r.at - SIZEOF_STRUCT_MEM))
<1> DEFINE mem == r.at - SIZEOF_STRUCT_MEM
<1>1. /\ Whole(heap) /\ Typed(heap) /\ Tiles(heap) /\ Holding(heap, held) /\ used_mem \in Int
  BY DEF HeapInv, Whole
<1>2. InUse(heap, mem) /\ mem \in D(heap) /\ mem \in Nat /\ N(heap, mem) \in Nat
  <2>1. InUse(heap, mem)
    BY <1>1, HoldsAt
  <2> HIDE DEF mem
  <2>2. mem \in D(heap)
    BY <2>1 DEF InUse
  <2> QED  BY <1>1, <2>1, <2>2, FieldTypes, EndIsInside
<1>3. /\ heap' = plug_holes([blocks |-> Mark(heap, mem, FALSE).blocks,
                             lfree  |-> IF mem < heap.lfree THEN mem ELSE heap.lfree], mem)
      /\ used_mem' = used_mem - (N(heap, mem) - mem)
      /\ held' = held \ {r}
  BY DEF Give, Size, N
<1>4. Whole(heap') /\ SameBut(heap, heap', mem) /\ ~InUse(heap', mem)
  <2> HIDE DEF mem
  <2> QED  BY <1>1, <1>2, <1>3, GiveKeeps
<1>5. used_mem' \in Int
  BY <1>1, <1>2, <1>3
<1>6. Holding(heap', held \ {r})
  BY <1>1, <1>4, HoldsLess
<1> QED  BY <1>2, <1>3, <1>4, <1>5, <1>6

LEMMA ShrinkStep ==
  ASSUME HeapInv, NEW t \in User, NEW r \in held, NEW n \in Nat, Shrink(t, r, n)
  PROVE  /\ Whole(heap') /\ used_mem' \in Int /\ Holding(heap', held')
         /\ held' = (held \ {r}) \cup {[at |-> r.at, len |-> n]}
         /\ SameBut(heap, heap', r.at - SIZEOF_STRUCT_MEM)
         /\ n <= N(heap, r.at - SIZEOF_STRUCT_MEM) - r.at
         /\ InUse(heap, r.at - SIZEOF_STRUCT_MEM) /\ InUse(heap', r.at - SIZEOF_STRUCT_MEM)
         /\ used_mem' = used_mem - (N(heap, r.at - SIZEOF_STRUCT_MEM) - N(heap', r.at - SIZEOF_STRUCT_MEM))
<1> DEFINE mem == r.at - SIZEOF_STRUCT_MEM
<1>1. /\ Whole(heap) /\ Typed(heap) /\ Tiles(heap) /\ Holding(heap, held) /\ used_mem \in Int
  BY DEF HeapInv, Whole
<1>2. InUse(heap, mem) /\ r.at \in Nat
  BY <1>1, HoldsAt
<1>3. mem \in D(heap) /\ mem \in Nat /\ N(heap, mem) \in Nat /\ mem + SIZEOF_STRUCT_MEM = r.at
  <2>1. r.at = mem + SIZEOF_STRUCT_MEM
    BY <1>2, EndIsInside
  <2> HIDE DEF mem
  <2>2. mem \in D(heap)
    BY <1>2 DEF InUse
  <2> QED  BY <1>1, <2>1, <2>2, FieldTypes, EndIsInside
<1>4. /\ Room(mem) = N(heap, mem) - (mem + SIZEOF_STRUCT_MEM)
      /\ n + SIZEOF_STRUCT_MEM + MIN_SIZE < Room(mem)
      /\ heap' = plug_holes(Split(heap, mem, n), mem + SIZEOF_STRUCT_MEM + n)
      /\ used_mem' = used_mem - (Room(mem) - n)
      /\ held' = (held \ {r}) \cup {[at |-> r.at, len |-> n]}
  BY DEF Shrink, Shrinks, Resized, Data, Room, N
<1> HIDE DEF mem
<1>5. mem + SIZEOF_STRUCT_MEM + n + SIZEOF_STRUCT_MEM <= N(heap, mem)
  BY <1>3, <1>4, HeapAssumption
<1>6. /\ Whole(heap') /\ SameBut(heap, heap', mem) /\ InUse(heap', mem)
      /\ N(heap', mem) = mem + SIZEOF_STRUCT_MEM + n
  BY <1>1, <1>2, <1>4, <1>5, ShrinkKeeps
<1>7. used_mem' \in Int
  BY <1>1, <1>3, <1>4, EndIsInside
<1>8. n <= N(heap', mem) - r.at /\ n <= N(heap, mem) - r.at
  BY <1>3, <1>5, <1>6, EndIsInside
<1>9. Typed(heap')
  BY <1>6 DEF Whole
<1>10. Holding(heap', (held \ {r}) \cup {[at |-> r.at, len |-> n]})
  BY <1>1, <1>6, <1>8, <1>9, HoldsResized DEF mem
<1>11. used_mem' = used_mem - (N(heap, mem) - N(heap', mem))
  BY <1>3, <1>4, <1>6, EndIsInside
<1> QED  BY <1>2, <1>4, <1>6, <1>7, <1>8, <1>10, <1>11 DEF mem

-----------------------------------------------------------------------------
(***************************************************************************)
(* Every step keeps the invariant.                                         *)
(***************************************************************************)
(* A block that a rt_realloc is about to use is held, in use, and as large *)
(* after a change of another block.                                        *)
LEMMA EndStays ==
  ASSUME HeapInv, NEW u \in User, NEW a \in EndsOf(moving[u]), NEW g, NEW mem,
         SameBut(heap, g, mem), a - SIZEOF_STRUCT_MEM # mem
  PROVE  /\ \E r \in held : r.at = a
         /\ N(g, a - SIZEOF_STRUCT_MEM) = N(heap, a - SIZEOF_STRUCT_MEM)
<1>1. PICK r \in held : r.at = a
  BY DEF HeapInv, Moves
<1>2. InUse(heap, a - SIZEOF_STRUCT_MEM) /\ a - SIZEOF_STRUCT_MEM \in Offset
  BY <1>1, HoldsAt DEF HeapInv, Whole
<1> QED  BY <1>1, <1>2 DEF SameBut

LEMMA EndFacts ==
  ASSUME HeapInv, NEW u \in User, NEW a \in EndsOf(moving[u])
  PROVE  /\ a \in Nat /\ InUse(heap, a - SIZEOF_STRUCT_MEM)
         /\ \E r \in held : r.at = a
         /\ moving[u].len <= N(heap, a - SIZEOF_STRUCT_MEM) - a
         /\ \A v \in User \ {u} : a \notin EndsOf(moving[v])
<1>1. PICK r \in held : r.at = a
  BY DEF HeapInv, Moves
<1>2. a \in Nat /\ InUse(heap, a - SIZEOF_STRUCT_MEM)
  BY <1>1, HoldsAt DEF HeapInv, Whole
<1> QED  BY <1>1, <1>2 DEF HeapInv, Moves

LEMMA MallocKeeps ==
  ASSUME HeapInv, NEW t \in User, NEW n \in Nat, rt_malloc(t, n)
  PROVE  HeapInv'
<1> DEFINE mem == FirstFit(AtLeast(n))
           r   == [at |-> Data(mem), len |-> n]
<1>1. /\ Whole(heap') /\ used_mem' \in Int /\ Holding(heap', held')
      /\ held' = held \cup {r} /\ ~InUse(heap, mem) /\ SameBut(heap, heap', mem)
  BY TakeStep DEF rt_malloc
<1> HIDE DEF mem, r
<1>2. \A u \in User : \A a \in EndsOf(moving[u]) :
        /\ \E q \in held' : q.at = a
        /\ N(heap', a - SIZEOF_STRUCT_MEM) = N(heap, a - SIZEOF_STRUCT_MEM)
  <2> TAKE u \in User
  <2> TAKE a \in EndsOf(moving[u])
  <2>1. a - SIZEOF_STRUCT_MEM # mem
    BY <1>1, EndFacts
  <2> QED  BY <1>1, <2>1, EndStays
<1>3. \A a \in EndsOf(moving[t]) :
        /\ \E q \in held' : q.at = a
        /\ moving[t].len <= N(heap', a - SIZEOF_STRUCT_MEM) - a
        /\ \A u \in User \ {t} : a \notin EndsOf(moving[u])
  BY <1>2, EndFacts
<1>4. Moves(heap, held, moving) /\ moving' = moving
  BY DEF HeapInv, rt_malloc
<1>5. moving \in [User -> Move] /\ moving[t].len <= moving[t].want
  BY <1>4 DEF Moves
<1>6. Moves(heap', held', moving)
  BY <1>2, <1>3, <1>4, <1>5, MovesGoOn
<1> QED  BY <1>1, <1>4, <1>6 DEF HeapInv

(* The same for a change of a region that no rt_realloc is about to use.   *)
LEMMA SettledKeeps ==
  ASSUME HeapInv, NEW t \in User, NEW r \in held, Settled(r),
         \A q \in held \ {r} : q \in held',
         SameBut(heap, heap', r.at - SIZEOF_STRUCT_MEM)
  PROVE  Moves(heap', held', moving)
<1>1. r.at \in Nat
  BY HoldsAt DEF HeapInv, Whole
<1>2. \A u \in User : \A a \in EndsOf(moving[u]) :
        /\ \E q \in held' : q.at = a
        /\ N(heap', a - SIZEOF_STRUCT_MEM) = N(heap, a - SIZEOF_STRUCT_MEM)
  <2> TAKE u \in User
  <2> TAKE a \in EndsOf(moving[u])
  <2>1. a # r.at
    BY DEF Settled, Ends, EndsOf
  <2>2. a - SIZEOF_STRUCT_MEM # r.at - SIZEOF_STRUCT_MEM
    BY <1>1, <2>1, EndFacts, EndIsInside
  <2>3. PICK q \in held : q.at = a
    BY EndFacts
  <2> QED  BY <2>1, <2>2, <2>3, EndStays
<1>3. \A a \in EndsOf(moving[t]) :
        /\ \E q \in held' : q.at = a
        /\ moving[t].len <= N(heap', a - SIZEOF_STRUCT_MEM) - a
        /\ \A u \in User \ {t} : a \notin EndsOf(moving[u])
  BY <1>2, EndFacts
<1>4. /\ Moves(heap, held, moving) /\ moving \in [User -> Move]
      /\ moving[t].len <= moving[t].want
  BY DEF HeapInv, Moves
<1> QED  BY <1>2, <1>3, <1>4, MovesGoOn

LEMMA FreeKeeps ==
  ASSUME HeapInv, NEW t \in User, NEW r \in held, rt_free(t, r)
  PROVE  HeapInv'
<1>1. /\ Whole(heap') /\ used_mem' \in Int /\ Holding(heap', held')
      /\ held' = held \ {r} /\ SameBut(heap, heap', r.at - SIZEOF_STRUCT_MEM)
  BY GiveStep DEF rt_free
<1>2. Moves(heap', held', moving) /\ moving' = moving
  BY <1>1, SettledKeeps DEF rt_free
<1> QED  BY <1>1, <1>2 DEF HeapInv

LEMMA ShrinkStepKeeps ==
  ASSUME HeapInv, NEW t \in User, NEW r \in held, NEW n \in Nat, Shrink(t, r, n)
  PROVE  HeapInv'
<1>1. /\ Whole(heap') /\ used_mem' \in Int /\ Holding(heap', held')
      /\ held' = (held \ {r}) \cup {[at |-> r.at, len |-> n]}
      /\ SameBut(heap, heap', r.at - SIZEOF_STRUCT_MEM)
  BY ShrinkStep
<1>2. Moves(heap', held', moving) /\ moving' = moving
  BY <1>1, SettledKeeps DEF Shrink
<1> QED  BY <1>1, <1>2 DEF HeapInv

LEMMA KeepKeeps ==
  ASSUME HeapInv, NEW t \in User, NEW r \in held, NEW n \in Nat, Keep(t, r, n)
  PROVE  HeapInv'
<1> DEFINE mem == r.at - SIZEOF_STRUCT_MEM
<1>1. /\ Whole(heap) /\ Typed(heap) /\ Holding(heap, held) /\ used_mem \in Int
  BY DEF HeapInv, Whole
<1>2. InUse(heap, mem) /\ r.at \in Nat
  BY <1>1, HoldsAt
<1>3. /\ heap' = heap /\ used_mem' = used_mem /\ moving' = moving /\ Settled(r)
      /\ held' = (held \ {r}) \cup {[at |-> r.at, len |-> n]}
      /\ n = N(heap, mem) - Data(mem)
  BY DEF Keep, Resized, Room, N
<1>4. Data(mem) = r.at
  BY <1>2, EndIsInside DEF Data
<1>5. N(heap, mem) \in Nat
  <2> HIDE DEF mem
  <2>1. mem \in D(heap)
    BY <1>2 DEF InUse
  <2> QED  BY <1>1, <2>1, FieldTypes, EndIsInside
<1>6. n <= N(heap, mem) - r.at /\ SameBut(heap, heap, mem)
  BY <1>3, <1>4, <1>5 DEF SameBut
<1>7. Holding(heap, (held \ {r}) \cup {[at |-> r.at, len |-> n]})
  BY <1>1, <1>2, <1>6, HoldsResized
<1>8. Moves(heap', held', moving)
  BY <1>3, <1>6, SettledKeeps
<1> QED  BY <1>1, <1>3, <1>7, <1>8 DEF HeapInv

LEMMA MoveBeginsKeeps ==
  ASSUME HeapInv, NEW t \in User, NEW r \in held, NEW n \in Nat, MoveBegins(t, r, n)
  PROVE  HeapInv'
<1> DEFINE mem  == r.at - SIZEOF_STRUCT_MEM
           room == N(heap, mem) - Data(mem)
           len  == IF room < n THEN room ELSE n
           m    == [from |-> r.at, to |-> 0, want |-> n, len |-> len]
<1>1. /\ Whole(heap) /\ Typed(heap) /\ Tiles(heap) /\ Holding(heap, held) /\ used_mem \in Int
      /\ Moves(heap, held, moving)
  BY DEF HeapInv, Whole
<1>2. InUse(heap, mem) /\ r.at \in Nat /\ r.at \in Offset
  BY <1>1, HoldsAt
<1>3. Data(mem) = r.at
  BY <1>2, EndIsInside DEF Data
<1>4. room \in Nat /\ room = N(heap, mem) - r.at
  <2>0. mem + SIZEOF_STRUCT_MEM = r.at
    BY <1>3 DEF Data
  <2> HIDE DEF mem
  <2>1. mem \in D(heap) \ {heap_end}
    BY <1>2 DEF InUse
  <2>2. N(heap, mem) \in Nat /\ mem + SIZEOF_STRUCT_MEM <= N(heap, mem)
    BY <1>1, <2>1, NextIsAbove
  <2> QED  BY <1>2, <1>3, <2>0, <2>2
<1>5. len \in Nat /\ len <= n /\ len <= room
  BY <1>4
<1>6. /\ heap' = heap /\ used_mem' = used_mem /\ held' = held /\ Settled(r)
      /\ moving' = [moving EXCEPT ![t] = m]
  BY DEF MoveBegins, Room, N
<1> HIDE DEF room, len
<1>7. m \in Move /\ m.len <= m.want /\ m.len = len /\ EndsOf(m) \subseteq {r.at}
  BY <1>2, <1>5, EndIsInside DEF Move, EndsOf, Offset
<1> HIDE DEF m
<1>8. /\ moving' \in [User -> Move] /\ moving'[t] = m
      /\ \A u \in User \ {t} : moving'[u] = moving[u]
  BY <1>1, <1>6, <1>7 DEF Moves
<1>9. \A a \in EndsOf(moving'[t]) :
        /\ \E q \in held' : q.at = a
        /\ moving'[t].len <= N(heap', a - SIZEOF_STRUCT_MEM) - a
        /\ \A u \in User \ {t} : a \notin EndsOf(moving[u])
  <2> TAKE a \in EndsOf(moving'[t])
  <2>1. a = r.at
    BY <1>7, <1>8
  <2>2. \A u \in User \ {t} : a \notin EndsOf(moving[u])
    BY <1>6, <2>1 DEF Settled, Ends, EndsOf
  <2> QED  BY <1>4, <1>5, <1>6, <1>7, <1>8, <2>1, <2>2
<1>10. \A u \in User \ {t} : \A a \in EndsOf(moving[u]) :
         /\ \E q \in held' : q.at = a
         /\ N(heap', a - SIZEOF_STRUCT_MEM) = N(heap, a - SIZEOF_STRUCT_MEM)
  BY <1>6, EndFacts
<1>11. moving'[t].len <= moving'[t].want
  BY <1>7, <1>8
<1>12. Moves(heap', held', moving')
  BY <1>1, <1>8, <1>9, <1>10, <1>11, MovesGoOn
<1> QED  BY <1>1, <1>6, <1>12 DEF HeapInv

(* A rt_realloc that ends, with or without a new block, uses none any more. *)
LEMMA StillKeeps ==
  ASSUME HeapInv, NEW t \in User, moving' = [moving EXCEPT ![t] = Still],
         \A u \in User \ {t} : \A a \in EndsOf(moving[u]) :
           /\ \E q \in held' : q.at = a
           /\ N(heap', a - SIZEOF_STRUCT_MEM) = N(heap, a - SIZEOF_STRUCT_MEM)
  PROVE  Moves(heap', held', moving')
<1>1. Moves(heap, held, moving)
  BY DEF HeapInv
<1>2. Still \in Move /\ Still.len <= Still.want /\ EndsOf(Still) = {}
  BY EndIsInside DEF Still, Move, EndsOf, Offset
<1>3. /\ moving' \in [User -> Move] /\ moving'[t] = Still
      /\ \A u \in User \ {t} : moving'[u] = moving[u]
  BY <1>1, <1>2 DEF Moves
<1>4. EndsOf(moving'[t]) = {} /\ moving'[t].len <= moving'[t].want
  BY <1>2, <1>3
<1>5. \A a \in EndsOf(moving'[t]) :
        /\ \E r \in held' : r.at = a
        /\ moving'[t].len <= N(heap', a - SIZEOF_STRUCT_MEM) - a
        /\ \A u \in User \ {t} : a \notin EndsOf(moving[u])
  BY <1>4
<1>6. \A u \in User \ {t} : \A a \in EndsOf(moving[u]) :
        /\ \E r \in held' : r.at = a
        /\ N(heap', a - SIZEOF_STRUCT_MEM) = N(heap, a - SIZEOF_STRUCT_MEM)
  OBVIOUS
<1>7. t \in User
  OBVIOUS
<1> QED  BY ONLY <1>1, <1>3, <1>4, <1>5, <1>6, <1>7, MovesGoOn

LEMMA MoveFailsKeeps ==
  ASSUME HeapInv, NEW t \in User, MoveFails(t)
  PROVE  HeapInv'
<1>1. /\ heap' = heap /\ used_mem' = used_mem /\ held' = held
      /\ moving' = [moving EXCEPT ![t] = Still]
  BY DEF MoveFails
<1>2. Moves(heap', held', moving')
  BY <1>1, EndFacts, StillKeeps
<1> QED  BY <1>1, <1>2 DEF HeapInv

LEMMA MoveEndsKeeps ==
  ASSUME HeapInv, NEW t \in User, MoveEnds(t)
  PROVE  HeapInv'
<1>1. PICK r \in held : r.at = moving[t].from /\ Give(r)
  BY DEF MoveEnds
<1>2. /\ Whole(heap') /\ used_mem' \in Int /\ Holding(heap', held')
      /\ held' = held \ {r} /\ SameBut(heap, heap', r.at - SIZEOF_STRUCT_MEM)
  BY <1>1, GiveStep
<1>3. r.at \in Nat /\ r.at # 0
  BY HoldsAt DEF HeapInv, Whole
<1>4. r.at \in EndsOf(moving[t])
  BY <1>1, <1>3 DEF EndsOf
<1>5. \A u \in User \ {t} : \A a \in EndsOf(moving[u]) :
        /\ \E q \in held' : q.at = a
        /\ N(heap', a - SIZEOF_STRUCT_MEM) = N(heap, a - SIZEOF_STRUCT_MEM)
  <2> TAKE u \in User \ {t}
  <2> TAKE a \in EndsOf(moving[u])
  <2>1. a # r.at
    BY <1>4, EndFacts
  <2>2. a - SIZEOF_STRUCT_MEM # r.at - SIZEOF_STRUCT_MEM
    BY <1>3, <2>1, EndFacts, EndIsInside
  <2>3. PICK q \in held : q.at = a
    BY EndFacts
  <2> QED  BY <1>2, <2>1, <2>2, <2>3, EndStays
<1>6. moving' = [moving EXCEPT ![t] = Still]
  BY DEF MoveEnds
<1>7. Moves(heap', held', moving')
  BY <1>5, <1>6, StillKeeps
<1> QED  BY <1>2, <1>7 DEF HeapInv

LEMMA MoveGetsKeeps ==
  ASSUME HeapInv, NEW t \in User, MoveGets(t)
  PROVE  HeapInv'
<1> DEFINE n   == moving[t].want
           mem == FirstFit(AtLeast(n))
           to  == Data(mem)
           r   == [at |-> to, len |-> n]
           m   == [moving[t] EXCEPT !.to = to]
<1>1. /\ Moves(heap, held, moving) /\ moving \in [User -> Move] /\ moving[t] \in Move
      /\ n \in Nat /\ moving[t].len \in Nat /\ moving[t].len <= n
  BY DEF HeapInv, Moves, Move
<1>2. /\ Whole(heap') /\ used_mem' \in Int /\ Holding(heap', held')
      /\ held' = held \cup {r} /\ ~InUse(heap, mem) /\ SameBut(heap, heap', mem)
      /\ to \in Offset /\ to \in Nat /\ to - SIZEOF_STRUCT_MEM = mem
      /\ n <= N(heap', mem) - to
  BY <1>1, TakeStep DEF MoveGets
<1>3. moving' = [moving EXCEPT ![t] = m]
  BY DEF MoveGets
<1>4. m \in Move /\ m.want = n /\ m.len = moving[t].len /\ m.from = moving[t].from /\ m.to = to
  BY <1>1, <1>2 DEF Move
<1>5. r.at = to
  OBVIOUS
<1> HIDE DEF m, mem, n, r, to
<1>6. /\ moving' \in [User -> Move] /\ moving'[t] = m
      /\ \A u \in User \ {t} : moving'[u] = moving[u]
  BY <1>1, <1>3, <1>4
<1>7. \A u \in User : \A a \in EndsOf(moving[u]) :
        /\ \E q \in held' : q.at = a
        /\ N(heap', a - SIZEOF_STRUCT_MEM) = N(heap, a - SIZEOF_STRUCT_MEM)
        /\ a # to
  <2> TAKE u \in User
  <2> TAKE a \in EndsOf(moving[u])
  <2>1. a - SIZEOF_STRUCT_MEM # mem
    BY <1>2, EndFacts
  <2> QED  BY <1>2, <2>1, EndStays
<1>8. \A a \in EndsOf(moving'[t]) :
        /\ \E q \in held' : q.at = a
        /\ moving'[t].len <= N(heap', a - SIZEOF_STRUCT_MEM) - a
        /\ \A u \in User \ {t} : a \notin EndsOf(moving[u])
  <2> TAKE a \in EndsOf(moving'[t])
  <2>1. CASE a = to
    <3>1. \E q \in held' : q.at = a
      BY <1>2, <1>5, <2>1
    <3>2. \A u \in User \ {t} : a \notin EndsOf(moving[u])
      BY <1>7, <2>1
    <3>3. N(heap', mem) \in Nat
      <4>1. Typed(heap') /\ Tiles(heap') /\ Holding(heap', held')
        BY <1>2 DEF Whole
      <4>2. r \in held' /\ InUse(heap', mem)
        BY <1>2, <1>5, <4>1, HoldsAt
      <4>3. mem \in D(heap')
        BY <4>2 DEF InUse
      <4>4. N(heap', mem) \in Offset
        BY <4>1, <4>3, FieldTypes
      <4> QED  BY <4>4, EndIsInside
    <3>4. moving'[t].len <= N(heap', mem) - to
      BY <1>1, <1>2, <1>4, <1>6, <3>3
    <3> QED  BY <1>2, <2>1, <3>1, <3>2, <3>4
  <2>2. CASE a # to
    <3>1. a \in EndsOf(moving[t])
      BY <1>4, <1>6, <2>2 DEF EndsOf
    <3> QED  BY <1>4, <1>6, <1>7, <3>1, EndFacts
  <2> QED  BY <2>1, <2>2
<1>9. moving'[t].len <= moving'[t].want
  BY <1>1, <1>4, <1>6
<1>10. Moves(heap', held', moving')
  BY <1>1, <1>6, <1>7, <1>8, <1>9, MovesGoOn
<1> QED  BY <1>2, <1>10 DEF HeapInv

-----------------------------------------------------------------------------
(***************************************************************************)
(* The invariant holds at the start and is kept, whoever calls what.       *)
(***************************************************************************)
LEMMA HeapInitInv == HeapInit => HeapInv
<1> SUFFICES ASSUME HeapInit
             PROVE  HeapInv
  OBVIOUS
<1>1. /\ D(heap) = {0, heap_end} /\ heap.lfree = 0
      /\ ~U(heap, 0) /\ N(heap, 0) = heap_end /\ P(heap, 0) = 0
      /\ U(heap, heap_end) /\ N(heap, heap_end) = heap_end /\ P(heap, heap_end) = heap_end
  <2>1. D(heap) = {0, heap_end} /\ heap.lfree = 0
    BY DEF HeapInit, D
  <2>3. /\ heap.blocks[0] = [used |-> FALSE, next |-> heap_end, prev |-> 0]
        /\ heap.blocks[heap_end] = [used |-> TRUE, next |-> heap_end, prev |-> heap_end]
    BY EndIsInside DEF HeapInit
  <2>4. /\ ~U(heap, 0) /\ N(heap, 0) = heap_end /\ P(heap, 0) = 0
        /\ U(heap, heap_end) /\ N(heap, heap_end) = heap_end /\ P(heap, heap_end) = heap_end
    BY <2>3 DEF U, N, P
  <2> QED  BY <2>1, <2>4
<1>2. /\ 0 \in Offset /\ heap_end \in Offset /\ SIZEOF_STRUCT_MEM <= heap_end
  BY EndIsInside, HeapAssumption DEF heap_end
<1>3. Typed(heap)
  <2>1. heap = [blocks |-> heap.blocks, lfree |-> 0]
    BY DEF HeapInit
  <2>2. heap.blocks \in [{0, heap_end} -> Header]
    BY <1>2 DEF HeapInit, Header
  <2> QED  BY <1>1, <1>2, <2>1, <2>2 DEF Typed
<1>4. Tiles(heap)
  BY <1>1, <1>2, EndIsInside DEF Tiles
<1>5. Whole(heap)
  BY <1>1, <1>3, <1>4 DEF Whole, Plugged, LfreeFree
<1>6. Holding(heap, held)
  BY <1>1 DEF HeapInit, Holding, InUse
<1>7. Moves(heap, held, moving)
  <2>1. Still \in Move /\ Still.len <= Still.want /\ EndsOf(Still) = {}
    BY EndIsInside DEF Still, Move, EndsOf, Offset
  <2>2. moving \in [User -> Move] /\ \A t \in User : moving[t] = Still
    BY <2>1 DEF HeapInit
  <2> QED  BY <2>1, <2>2 DEF Moves
<1> QED  BY <1>5, <1>6, <1>7 DEF HeapInv, HeapInit

LEMMA HeapStepInv == HeapInv /\ [HeapNext]_heapVars => HeapInv'
<1> SUFFICES ASSUME HeapInv, [HeapNext]_heapVars
             PROVE  HeapInv'
  OBVIOUS
<1>1. Request \subseteq Nat
  BY HeapAssumption
<1>2. CASE UNCHANGED heapVars
  BY <1>2 DEF HeapInv, heapVars
<1>3. CASE HeapNext
  <2>1. PICK t \in User : UserStep(t)
    BY <1>3 DEF HeapNext
  <2>2. CASE \E n \in Request : rt_malloc(t, n)
    BY <1>1, <2>2, MallocKeeps
  <2>3. CASE \E r \in held : rt_free(t, r)
    BY <2>3, FreeKeeps
  <2>4. CASE \E r \in held : \E n \in Request : Keep(t, r, n)
    BY <1>1, <2>4, KeepKeeps
  <2>5. CASE \E r \in held : \E n \in Request : Shrink(t, r, n)
    BY <1>1, <2>5, ShrinkStepKeeps
  <2>6. CASE \E r \in held : \E n \in Request : MoveBegins(t, r, n)
    BY <1>1, <2>6, MoveBeginsKeeps
  <2>7. CASE MoveGets(t)
    BY <2>7, MoveGetsKeeps
  <2>8. CASE MoveFails(t)
    BY <2>8, MoveFailsKeeps
  <2>9. CASE MoveEnds(t)
    BY <2>9, MoveEndsKeeps
  <2> QED  BY <2>1, <2>2, <2>3, <2>4, <2>5, <2>6, <2>7, <2>8, <2>9 DEF UserStep
<1> QED  BY <1>2, <1>3

(* After any sequence of calls the headers tile the heap, no two free      *)
(* blocks are neighbours, and lfree is a free header (src/mem.c).          *)
THEOREM HeapStaysSound == HeapSpec => []HeapSound
<1>1. HeapInv => HeapSound
  BY HeapInvIsSound
<1> QED  BY <1>1, HeapInitInv, HeapStepInv, PTL DEF HeapSpec

(* A block is in use exactly when a caller holds it and is as large as it  *)
(* asked for, also while a rt_realloc has let heap_sem go (mem.c:452).     *)
THEOREM HeldStaysUsed == HeapSpec => []HeldIsUsed
<1>1. HeapInv => HeldIsUsed
  BY HeapInvIsSound
<1> QED  BY <1>1, HeapInitInv, HeapStepInv, PTL DEF HeapSpec

-----------------------------------------------------------------------------
(***************************************************************************)
(* Sums over a finite set, as MapThenSumSet adds them up: one element      *)
(* after another, in an order that nobody knows.                           *)
(***************************************************************************)
First(s) == CHOOSE x \in s : TRUE

Added(g, f, s) == IF s = {} THEN 0 ELSE f[First(s)] + g[s \ {First(s)}]

Sums(g, f, S) == g = [s \in SUBSET S |-> Added(g, f, s)]

LEMMA SmallerSet ==
  ASSUME NEW S, IsFiniteSet(S), NEW T \in SUBSET S
  PROVE  /\ Cardinality(T) \in Nat /\ Cardinality(T) <= Cardinality(S) /\ (Cardinality(T) = 0 <=> T = {})
         /\ \A x \in T : T \ {x} \in SUBSET S /\ Cardinality(T \ {x}) = Cardinality(T) - 1
         /\ T # {} => First(T) \in T
<1>1. IsFiniteSet(T) /\ Cardinality(T) <= Cardinality(S)
  BY FS_Subset
<1>2. Cardinality(T) \in Nat /\ (Cardinality(T) = 0 <=> T = {})
  BY <1>1, FS_CardinalityType, FS_EmptySet
<1>3. \A x \in T : Cardinality(T \ {x}) = Cardinality(T) - 1
  BY <1>1, FS_RemoveElement
<1> QED BY <1>1, <1>2, <1>3 DEF First

LEMMA SumExists ==
  ASSUME NEW S, IsFiniteSet(S), NEW f, \A x \in S : f[x] \in Int
  PROVE  \E g : Sums(g, f, S)
<1> DEFINE Upto(g, n) == \A s \in SUBSET S : Cardinality(s) <= n => g[s] = Added(g, f, s)
           Bad == {n \in Nat : ~\E g \in [SUBSET S -> Int] : Upto(g, n)}
<1>1. Bad = {}
  <2> SUFFICES ASSUME Bad # {} PROVE FALSE
    OBVIOUS
  <2>1. PICK n \in Bad : \A k \in Bad : n <= k
    BY LeastExists
  <2>2. n \in Nat /\ ~\E g \in [SUBSET S -> Int] : Upto(g, n)
    BY <2>1
  <2>3. n # 0
    <3> SUFFICES ASSUME n = 0 PROVE FALSE
      OBVIOUS
    <3> DEFINE g == [s \in SUBSET S |-> 0]
    <3>1. g \in [SUBSET S -> Int]
      OBVIOUS
    <3>2. ASSUME NEW s \in SUBSET S, Cardinality(s) <= 0 PROVE g[s] = Added(g, f, s)
      <4>1. s = {}
        BY <3>2, SmallerSet
      <4> QED BY <4>1 DEF Added
    <3> QED BY <2>2, <3>1, <3>2
  <2>4. n - 1 \in Nat /\ n - 1 \notin Bad
    <3>1. n - 1 \in Nat /\ ~(n <= n - 1)
      BY <2>2, <2>3
    <3> HIDE DEF Bad
    <3> QED BY <2>1, <3>1
  <2>5. PICK g \in [SUBSET S -> Int] : Upto(g, n - 1)
    BY <2>4
  <2> DEFINE h == [s \in SUBSET S |-> Added(g, f, s)]
  <2>6. \A s \in SUBSET S : s # {} => First(s) \in S /\ s \ {First(s)} \in SUBSET S
    BY SmallerSet
  <2>7. h \in [SUBSET S -> Int]
    <3> SUFFICES ASSUME NEW s \in SUBSET S PROVE Added(g, f, s) \in Int
      OBVIOUS
    <3> QED BY <2>6 DEF Added
  <2>8. ASSUME NEW s \in SUBSET S, Cardinality(s) <= n PROVE h[s] = Added(h, f, s)
    <3>1. CASE s = {}
      BY <3>1 DEF Added
    <3>2. CASE s # {}
      <4> DEFINE r == s \ {First(s)}
      <4>1. r \in SUBSET S /\ Cardinality(r) <= n - 1
        BY <2>2, <2>8, <3>2, SmallerSet
      <4> HIDE DEF r
      <4>2. h[r] = g[r]
        BY <2>5, <4>1
      <4>3. h[s] = f[First(s)] + g[r]
        BY <3>2 DEF Added, r
      <4> HIDE DEF h
      <4> QED BY <3>2, <4>2, <4>3 DEF Added, r
    <3> QED BY <3>1, <3>2
  <2> HIDE DEF h
  <2> QED BY <2>2, <2>7, <2>8
<1>2. Cardinality(S) \in Nat
  BY SmallerSet
<1>3. PICK g \in [SUBSET S -> Int] : Upto(g, Cardinality(S))
  BY <1>1, <1>2
<1>4. \A s \in SUBSET S : g[s] = Added(g, f, s)
  BY <1>3, SmallerSet
<1> QED BY <1>3, <1>4 DEF Sums

(* The order does not matter. *)
LEMMA SumStep ==
  ASSUME NEW S, IsFiniteSet(S), NEW f, \A x \in S : f[x] \in Int, NEW g, Sums(g, f, S),
         NEW V \in SUBSET S
  PROVE  g[V] \in Int /\ \A x \in V : g[V] = f[x] + g[V \ {x}]
<1> DEFINE Right(T) == g[T] \in Int /\ \A x \in T : g[T] = f[x] + g[T \ {x}]
           Bad == {Cardinality(T) : T \in {R \in SUBSET S : ~Right(R)}}
<1> SUFFICES ASSUME Bad # {} PROVE FALSE
  OBVIOUS
<1>0. Bad \subseteq Nat
  BY SmallerSet
<1>1. PICK n \in Bad : \A k \in Bad : n <= k
  BY <1>0, LeastExists
<1>2. PICK T \in SUBSET S : ~Right(T) /\ n = Cardinality(T)
  BY <1>1
<1>3. \A R \in SUBSET S : Cardinality(R) < Cardinality(T) => Right(R)
  <2> SUFFICES ASSUME NEW R \in SUBSET S, ~Right(R) PROVE ~(Cardinality(R) < Cardinality(T))
    OBVIOUS
  <2>1. Cardinality(R) \in Bad /\ Cardinality(R) \in Nat /\ Cardinality(T) \in Nat
    BY SmallerSet
  <2> QED BY <1>1, <1>2, <2>1
<1> HIDE DEF Bad
<1>4. g[T] = Added(g, f, T)
  BY DEF Sums
<1>5. T # {}
  BY <1>2, <1>4 DEF Added
<1>6. PICK c : c = First(T) /\ c \in T /\ g[T] = f[c] + g[T \ {c}]
  BY <1>4, <1>5, SmallerSet DEF Added
<1>7. \A x \in T : T \ {x} \in SUBSET S /\ Right(T \ {x})
  <2> SUFFICES ASSUME NEW x \in T PROVE T \ {x} \in SUBSET S /\ Right(T \ {x})
    OBVIOUS
  <2>1. T \ {x} \in SUBSET S /\ Cardinality(T \ {x}) < Cardinality(T)
    BY SmallerSet
  <2> HIDE DEF Right
  <2> QED BY <1>3, <2>1
<1>8. g[T] \in Int
  <2>1. g[T \ {c}] \in Int /\ f[c] \in Int
    BY <1>6, <1>7
  <2>2. PICK a, b : a = g[T \ {c}] /\ b = f[c] /\ g[T] = b + a
    BY <1>6
  <2>3. a \in Int /\ b \in Int
    BY <2>1, <2>2
  <2> QED BY ONLY <2>2, <2>3
<1>9. ASSUME NEW x \in T PROVE g[T] = f[x] + g[T \ {x}]
  <2>1. CASE x = c
    BY <1>6, <2>1
  <2>2. CASE x # c
    <3>1. g[T \ {c}] = f[x] + g[(T \ {c}) \ {x}] /\ g[T \ {c}] \in Int
      BY <1>6, <1>7, <2>2
    <3>2. g[T \ {x}] = f[c] + g[(T \ {x}) \ {c}] /\ g[T \ {x}] \in Int
      BY <1>6, <1>7, <2>2
    <3>3. (T \ {c}) \ {x} = (T \ {x}) \ {c}
      OBVIOUS
    <3>4. PICK a, b, u, v, w : a = g[T \ {c}] /\ b = g[T \ {x}] /\ u = g[(T \ {x}) \ {c}] /\ v = f[x] /\ w = f[c]
      OBVIOUS
    <3>5. a = v + u /\ b = w + u /\ g[T] = w + a /\ a \in Int /\ b \in Int /\ v \in Int /\ w \in Int
      BY <1>6, <3>1, <3>2, <3>3, <3>4
    <3>6. u \in Int
      <4>1. Right(T \ {c}) /\ (T \ {x}) \ {c} \in SUBSET S /\ Cardinality((T \ {x}) \ {c}) < Cardinality(T)
        <5>1. T \ {x} \in SUBSET S /\ c \in T \ {x} /\ Cardinality(T \ {x}) = Cardinality(T) - 1
              /\ Cardinality(T) \in Nat
          BY <1>6, <2>2, SmallerSet
        <5>2. Cardinality((T \ {x}) \ {c}) = Cardinality(T \ {x}) - 1
          <6>1. PICK Q \in SUBSET S : Q = T \ {x} /\ c \in Q
            BY <5>1
          <6>2. IsFiniteSet(S) /\ Q \in SUBSET S
            BY <6>1
          <6>3. \A y \in Q : Cardinality(Q \ {y}) = Cardinality(Q) - 1
            BY ONLY <6>2, SmallerSet
          <6>4. Cardinality(Q \ {c}) = Cardinality(Q) - 1
            BY ONLY <6>1, <6>3
          <6> QED BY ONLY <6>1, <6>4
        <5> HIDE DEF Right
        <5> QED BY <1>6, <1>7, <5>1, <5>2
      <4> QED BY <1>3, <3>4, <4>1
    <3>7. g[T] = v + b
      <4>1. v \in Int /\ w \in Int /\ u \in Int
        BY <3>5, <3>6
      <4>2. w + (v + u) = v + (w + u)
        BY ONLY <4>1
      <4> QED BY ONLY <3>5, <4>2
    <3> QED BY <3>4, <3>7
  <2> QED BY <2>1, <2>2
<1> QED BY <1>2, <1>8, <1>9

(* The sum over a set depends on its elements only. *)
LEMMA SumAgrees ==
  ASSUME NEW S, IsFiniteSet(S), NEW f, NEW g, Sums(g, f, S), NEW R, NEW e, NEW h, Sums(h, e, R),
         NEW V \in SUBSET S, V \in SUBSET R, \A x \in V : f[x] = e[x]
  PROVE  g[V] = h[V]
<1> DEFINE Bad == {Cardinality(T) : T \in {Q \in SUBSET V : g[Q] # h[Q]}}
<1> SUFFICES ASSUME Bad # {} PROVE FALSE
  OBVIOUS
<1>0. Bad \subseteq Nat
  BY SmallerSet
<1>1. PICK n \in Bad : \A k \in Bad : n <= k
  BY <1>0, LeastExists
<1>2. PICK T \in SUBSET V : g[T] # h[T] /\ n = Cardinality(T)
  BY <1>1
<1>3. g[T] = Added(g, f, T) /\ h[T] = Added(h, e, T)
  BY DEF Sums
<1>4. T # {}
  BY <1>2, <1>3 DEF Added
<1>5. PICK c : c = First(T)
  OBVIOUS
<1>6. c \in T /\ T \ {c} \in SUBSET V /\ Cardinality(T \ {c}) = Cardinality(T) - 1 /\ Cardinality(T) \in Nat
  BY <1>4, <1>5, SmallerSet
<1>7. g[T \ {c}] # h[T \ {c}]
  BY <1>2, <1>3, <1>4, <1>5, <1>6 DEF Added
<1>8. Cardinality(T \ {c}) \in Bad
  BY <1>6, <1>7
<1>9. n <= Cardinality(T \ {c})
  <2> HIDE DEF Bad
  <2> QED BY <1>1, <1>8
<1> QED BY <1>2, <1>6, <1>9

(***************************************************************************)
(* The blocks in use, and what they occupy.                                *)
(***************************************************************************)
InUseSet(h) == {b \in D(h) \ {heap_end} : U(h, b)}

SizesOf(h) == [b \in D(h) |-> N(h, b) - b]

Counted(h, n) == \E g : Sums(g, SizesOf(h), InUseSet(h)) /\ n = g[InUseSet(h)]

LEMMA InUseFinite ==
  ASSUME NEW h, Typed(h)
  PROVE  /\ IsFiniteSet(InUseSet(h)) /\ InUseSet(h) \subseteq Offset
         /\ \A b : b \in InUseSet(h) <=> InUse(h, b)
         /\ \A b \in InUseSet(h) : SizesOf(h)[b] = N(h, b) - b /\ SizesOf(h)[b] \in Int
<1>1. IsFiniteSet(Offset)
  BY EndIsInside, FS_Interval DEF Offset
<1>2. InUseSet(h) \subseteq Offset /\ InUseSet(h) \subseteq D(h)
  BY DEF InUseSet, Typed
<1>3. \A b : b \in InUseSet(h) <=> InUse(h, b)
  BY DEF InUseSet, InUse
<1>4. ASSUME NEW b \in InUseSet(h) PROVE SizesOf(h)[b] = N(h, b) - b /\ SizesOf(h)[b] \in Int
  <2>1. b \in D(h) /\ b \in Nat
    BY <1>2, EndIsInside
  <2>2. N(h, b) \in Nat
    BY <2>1, FieldTypes, EndIsInside
  <2> QED BY <2>1, <2>2 DEF SizesOf
<1> QED BY <1>1, <1>2, <1>3, <1>4, FS_Subset

(* The block m is given out, taken back or cut; all others stay.           *)
Space(h, m) == IF InUse(h, m) THEN N(h, m) - m ELSE 0

LEMMA CountChanges ==
  ASSUME NEW h, Typed(h), NEW g, Typed(g), NEW m \in Offset, SameBut(h, g, m), NEW n, Counted(h, n)
  PROVE  n \in Int /\ Counted(g, n - Space(h, m) + Space(g, m))
<1> DEFINE S == InUseSet(h)
           R == InUseSet(g)
           V == S \ {m}
           e == SizesOf(h)
           f == SizesOf(g)
<1>1. /\ IsFiniteSet(S) /\ S \subseteq Offset /\ (\A b : b \in S <=> InUse(h, b))
      /\ \A b \in S : e[b] = N(h, b) - b /\ e[b] \in Int
  BY InUseFinite
<1>2. /\ IsFiniteSet(R) /\ R \subseteq Offset /\ (\A b : b \in R <=> InUse(g, b))
      /\ \A b \in R : f[b] = N(g, b) - b /\ f[b] \in Int
  BY InUseFinite
<1>3. PICK a : Sums(a, e, S) /\ n = a[S]
  BY DEF Counted
<1>4. \E b : Sums(b, f, R)
  <2>1. \A x \in R : f[x] \in Int
    BY <1>2
  <2> HIDE DEF R, f
  <2> QED BY <1>2, <2>1, SumExists
<1>5. PICK b : Sums(b, f, R)
  BY <1>4
<1>6. V \in SUBSET S /\ V \in SUBSET R /\ V = R \ {m} /\ \A x \in V : e[x] = f[x]
  <2>1. ASSUME NEW x, x # m PROVE x \in S <=> x \in R
    BY <1>1, <1>2, <2>1 DEF SameBut
  <2>2. ASSUME NEW x \in V PROVE e[x] = f[x]
    <3>1. x \in S /\ x \in R /\ x \in Offset \ {m} /\ InUse(h, x)
      BY <1>1, <2>1
    <3>2. N(g, x) = N(h, x)
      BY <3>1 DEF SameBut
    <3>3. e[x] = N(h, x) - x /\ f[x] = N(g, x) - x
      BY <1>1, <1>2, <3>1
    <3> QED BY <3>2, <3>3
  <2> HIDE DEF S, R
  <2> QED BY <2>1, <2>2
<1> HIDE DEF S, R, V, e, f
<1>7. a[V] = b[V]
  BY <1>1, <1>3, <1>5, <1>6, SumAgrees
<1>8. a[V] \in Int /\ a[S] \in Int /\ a[S] = a[V] + Space(h, m)
  <2>1. \A x \in S : e[x] \in Int
    BY <1>1
  <2>2. /\ a[S] \in Int /\ \A x \in S : a[S] = e[x] + a[S \ {x}]
    <3>1. PICK T \in SUBSET S : T = S
      OBVIOUS
    <3>2. a[T] \in Int /\ \A x \in T : a[T] = e[x] + a[T \ {x}]
      BY ONLY <1>1, <1>3, <2>1, SumStep
    <3> QED BY <3>1, <3>2
  <2>3. a[V] \in Int
    BY <1>1, <1>3, <1>6, <2>1, SumStep
  <2>4. CASE m \in S
    <3>1. a[S] = e[m] + a[V] /\ e[m] = Space(h, m) /\ e[m] \in Int
      BY <1>1, <2>2, <2>4 DEF V, Space
    <3> QED BY <2>2, <2>3, <3>1
  <2>5. CASE m \notin S
    <3>1. V = S /\ Space(h, m) = 0
      BY <1>1, <2>5 DEF V, Space
    <3> QED BY <2>2, <3>1
  <2> QED BY <2>4, <2>5
<1>9. b[V] \in Int /\ b[R] \in Int /\ b[R] = b[V] + Space(g, m)
  <2>1. \A x \in R : f[x] \in Int
    BY <1>2
  <2>2. /\ b[R] \in Int /\ \A x \in R : b[R] = f[x] + b[R \ {x}]
    <3>1. PICK T \in SUBSET R : T = R
      OBVIOUS
    <3>2. b[T] \in Int /\ \A x \in T : b[T] = f[x] + b[T \ {x}]
      BY ONLY <1>2, <1>5, <2>1, SumStep
    <3> QED BY <3>1, <3>2
  <2>3. b[V] \in Int
    BY <1>2, <1>5, <1>6, <2>1, SumStep
  <2>4. CASE m \in R
    <3>1. b[R] = f[m] + b[V] /\ f[m] = Space(g, m) /\ f[m] \in Int
      BY <1>2, <1>6, <2>2, <2>4 DEF Space
    <3> QED BY <2>2, <2>3, <3>1
  <2>5. CASE m \notin R
    <3>1. V = R /\ Space(g, m) = 0
      BY <1>2, <1>6, <2>5 DEF Space
    <3> QED BY <2>2, <3>1
  <2> QED BY <2>4, <2>5
<1>10. Space(h, m) \in Int /\ Space(g, m) \in Int
  BY <1>1, <1>2 DEF Space
<1>11. n = a[V] + Space(h, m) /\ b[R] = a[V] + Space(g, m) /\ a[V] \in Int
  BY <1>3, <1>7, <1>8, <1>9
<1>12. n \in Int /\ b[R] = n - Space(h, m) + Space(g, m)
  BY ONLY <1>10, <1>11
<1> QED BY <1>5, <1>12 DEF Counted, R, f

(* used_mem is the sum that MapThenSumSet makes of the sizes.              *)
LEMMA CountedIsSum ==
  ASSUME Typed(heap), Counted(heap, used_mem)
  PROVE  UsedMemCounted
<1> DEFINE S == (Chain \ Free) \ {heap_end}
           Eq(g) == g = [s \in SUBSET S |-> IF s = {} THEN 0 ELSE Size(First(s)) + g[s \ {First(s)}]]
<1>1. S = InUseSet(heap)
  BY DEF Chain, Free, InUseSet, D, U
<1>2. IsFiniteSet(S) /\ \A x \in S : SizesOf(heap)[x] = Size(x) /\ SizesOf(heap)[x] \in Int
  <2>1. \A x : Size(x) = N(heap, x) - x
    BY DEF Size, N
  <2> QED BY <1>1, <2>1, InUseFinite
<1>3. PICK a : Sums(a, SizesOf(heap), S) /\ used_mem = a[S]
  BY <1>1 DEF Counted
<1>4. ASSUME NEW g PROVE Sums(g, SizesOf(heap), S) <=> Eq(g)
  <2>1. \A s \in SUBSET S : s # {} => First(s) \in S
    BY DEF First
  <2>2. \A s \in SUBSET S : Added(g, SizesOf(heap), s) = IF s = {} THEN 0 ELSE Size(First(s)) + g[s \ {First(s)}]
    BY <1>2, <2>1 DEF Added
  <2>3. [s \in SUBSET S |-> Added(g, SizesOf(heap), s)]
        = [s \in SUBSET S |-> IF s = {} THEN 0 ELSE Size(First(s)) + g[s \ {First(s)}]]
    BY <2>2
  <2> QED BY <2>3 DEF Sums
<1>5. PICK g : g = (CHOOSE h : Eq(h)) /\ Eq(g)
  BY ZenonT(60), <1>3, <1>4
<1>6. MapThenSumSet(Size, S) = g[S]
  BY <1>5 DEF MapThenSumSet, MapThenFoldSet, First
<1>7. Sums(g, SizesOf(heap), S)
  <2> HIDE DEF Eq, S
  <2> QED BY <1>4, <1>5
<1> HIDE DEF S
<1>8. g[S] = a[S]
  BY <1>2, <1>3, <1>7, SumAgrees
<1> QED BY <1>3, <1>6, <1>8 DEF UsedMemCounted, S

LEMMA InUseTypes ==
  ASSUME NEW h, Typed(h), NEW m, InUse(h, m)
  PROVE  m \in Offset /\ m \in Int /\ N(h, m) \in Int
<1>1. m \in D(h)
  BY DEF InUse
<1>2. m \in Offset /\ N(h, m) \in Offset
  BY <1>1, FieldTypes
<1>3. m \in Nat /\ N(h, m) \in Nat
  BY <1>2, EndIsInside
<1> QED BY <1>2, <1>3

(* What is counted is what rt_malloc takes, rt_free gives back and         *)
(* rt_realloc cuts off.                                                    *)
LEMMA TakeCounts ==
  ASSUME HeapInv, NEW n \in Nat, Take(n), Counted(heap, used_mem)
  PROVE  Counted(heap', used_mem')
<1>1. PICK m : m = FirstFit(AtLeast(n))
  OBVIOUS
<1>2. /\ Whole(heap') /\ m \in Offset /\ ~InUse(heap, m) /\ InUse(heap', m) /\ SameBut(heap, heap', m)
      /\ used_mem' = used_mem + N(heap', m) - m
  BY <1>1, TakeStep
<1>3. Typed(heap) /\ Typed(heap')
  BY <1>2 DEF HeapInv, Whole
<1>4. used_mem \in Int /\ Counted(heap', used_mem - Space(heap, m) + Space(heap', m))
  BY <1>2, <1>3, CountChanges
<1>5. Space(heap, m) = 0 /\ Space(heap', m) = N(heap', m) - m
  BY <1>2 DEF Space
<1>6. N(heap', m) \in Int /\ m \in Int
  BY <1>2, <1>3, InUseTypes
<1>7. used_mem - Space(heap, m) + Space(heap', m) = used_mem'
  BY <1>2, <1>4, <1>5, <1>6
<1> QED BY <1>4, <1>7

LEMMA GiveCounts ==
  ASSUME HeapInv, NEW r \in held, Give(r), Counted(heap, used_mem)
  PROVE  Counted(heap', used_mem')
<1>1. PICK m : m = r.at - SIZEOF_STRUCT_MEM
  OBVIOUS
<1>2. /\ Whole(heap') /\ InUse(heap, m) /\ ~InUse(heap', m) /\ SameBut(heap, heap', m)
      /\ used_mem' = used_mem - (N(heap, m) - m)
  BY <1>1, GiveStep
<1>3. Typed(heap) /\ Typed(heap')
  BY <1>2 DEF HeapInv, Whole
<1>4. m \in Offset /\ N(heap, m) \in Int /\ m \in Int
  BY <1>2, <1>3, InUseTypes
<1>5. used_mem \in Int /\ Counted(heap', used_mem - Space(heap, m) + Space(heap', m))
  BY <1>2, <1>3, <1>4, CountChanges
<1>6. Space(heap', m) = 0 /\ Space(heap, m) = N(heap, m) - m
  BY <1>2 DEF Space
<1>7. used_mem - Space(heap, m) + Space(heap', m) = used_mem'
  BY <1>2, <1>4, <1>5, <1>6
<1> QED BY <1>5, <1>7

LEMMA ShrinkCounts ==
  ASSUME HeapInv, NEW t \in User, NEW r \in held, NEW n \in Nat, Shrink(t, r, n), Counted(heap, used_mem)
  PROVE  Counted(heap', used_mem')
<1>1. PICK m : m = r.at - SIZEOF_STRUCT_MEM
  OBVIOUS
<1>2. /\ Whole(heap') /\ InUse(heap, m) /\ InUse(heap', m) /\ SameBut(heap, heap', m)
      /\ used_mem' = used_mem - (N(heap, m) - N(heap', m))
  BY <1>1, ShrinkStep
<1>3. Typed(heap) /\ Typed(heap')
  BY <1>2 DEF HeapInv, Whole
<1>4. m \in Offset /\ N(heap, m) \in Int /\ N(heap', m) \in Int /\ m \in Int
  BY <1>2, <1>3, InUseTypes
<1>5. used_mem \in Int /\ Counted(heap', used_mem - Space(heap, m) + Space(heap', m))
  BY <1>2, <1>3, <1>4, CountChanges
<1>6. Space(heap, m) = N(heap, m) - m /\ Space(heap', m) = N(heap', m) - m
  BY <1>2 DEF Space
<1>7. used_mem - Space(heap, m) + Space(heap', m) = used_mem'
  BY <1>2, <1>4, <1>5, <1>6
<1> QED BY <1>5, <1>7

LEMMA HeapStepCounts ==
  ASSUME HeapInv, [HeapNext]_heapVars, Counted(heap, used_mem)
  PROVE  Counted(heap', used_mem')
<1>1. Request \subseteq Nat
  BY HeapAssumption
<1>2. CASE heap' = heap /\ used_mem' = used_mem
  BY <1>2
<1>3. CASE HeapNext
  <2>1. PICK t \in User : UserStep(t)
    BY <1>3 DEF HeapNext
  <2>2. CASE \E n \in Request : rt_malloc(t, n)
    BY <1>1, <2>2, TakeCounts DEF rt_malloc
  <2>3. CASE \E r \in held : rt_free(t, r)
    BY <2>3, GiveCounts DEF rt_free
  <2>4. CASE \E r \in held : \E n \in Request : Keep(t, r, n) \/ MoveBegins(t, r, n)
    BY <1>2, <2>4 DEF Keep, MoveBegins
  <2>5. CASE \E r \in held : \E n \in Request : Shrink(t, r, n)
    BY <1>1, <2>5, ShrinkCounts
  <2>6. CASE MoveGets(t)
    <3>1. moving[t].want \in Nat
      BY DEF HeapInv, Moves, Move
    <3> QED BY <2>6, <3>1, TakeCounts DEF MoveGets
  <2>7. CASE MoveFails(t)
    BY <1>2, <2>7 DEF MoveFails
  <2>8. CASE MoveEnds(t)
    BY <2>8, GiveCounts DEF MoveEnds
  <2> QED  BY <2>1, <2>2, <2>3, <2>4, <2>5, <2>6, <2>7, <2>8 DEF UserStep
<1>4. CASE UNCHANGED heapVars
  BY <1>2, <1>4 DEF heapVars
<1> QED  BY <1>3, <1>4

LEMMA HeapInitCounts ==
  ASSUME HeapInit
  PROVE  Counted(heap, used_mem)
<1>1. Typed(heap)
  BY HeapInitInv DEF HeapInv, Whole
<1>2. D(heap) = {0, heap_end} /\ ~U(heap, 0) /\ used_mem = 0
  <2>1. heap.blocks[0] = [used |-> FALSE, next |-> heap_end, prev |-> 0]
    BY EndIsInside DEF HeapInit
  <2> QED BY <2>1 DEF HeapInit, D, U
<1>3. InUseSet(heap) = {}
  BY <1>2 DEF InUseSet
<1>4. PICK g : Sums(g, SizesOf(heap), InUseSet(heap))
  <2>1. IsFiniteSet(InUseSet(heap)) /\ \A x \in InUseSet(heap) : SizesOf(heap)[x] \in Int
    BY <1>1, InUseFinite
  <2> QED BY <2>1, SumExists
<1>5. g[InUseSet(heap)] = 0
  BY <1>3, <1>4 DEF Sums, Added
<1> QED BY <1>2, <1>4, <1>5 DEF Counted

(* The statistics of RT_MEM_STATS stay what the blocks in use occupy, their *)
(* headers included, through every split and merge.                        *)
THEOREM UsedMemStaysCounted == HeapSpec => []UsedMemCounted
<1>1. HeapInit => HeapInv /\ Counted(heap, used_mem)
  BY HeapInitInv, HeapInitCounts
<1>2. HeapInv /\ Counted(heap, used_mem) /\ [HeapNext]_heapVars => HeapInv' /\ Counted(heap, used_mem)'
  BY HeapStepInv, HeapStepCounts
<1>3. HeapInv /\ Counted(heap, used_mem) => UsedMemCounted
  BY CountedIsSum DEF HeapInv, Whole
<1> QED BY <1>1, <1>2, <1>3, PTL DEF HeapSpec

-----------------------------------------------------------------------------
(***************************************************************************)
(* The heap implements the allocator: what is held lies in the arena, and  *)
(* no two regions share a word.                                            *)
(***************************************************************************)
LEMMA HeldApart ==
  ASSUME NEW h, Typed(h), Tiles(h), NEW R, Holding(h, R), NEW r \in R
  PROVE  /\ abs!Cells(r) \subseteq SIZEOF_STRUCT_MEM..(heap_end - 1)
         /\ \A q \in R : q.at # r.at => abs!Cells(q) \cap abs!Cells(r) = {}
<1> DEFINE b(q) == q.at - SIZEOF_STRUCT_MEM
<1>1. \A q \in R : /\ b(q) \in D(h) \ {heap_end} /\ b(q) \in Nat /\ N(h, b(q)) \in Nat
                  /\ N(h, b(q)) <= heap_end
                  /\ q.at \in Nat /\ q.len \in Nat /\ q.at + q.len <= N(h, b(q))
                  /\ q.at = b(q) + SIZEOF_STRUCT_MEM
  <2> TAKE q \in R
  <2>1. /\ q.at \in Nat /\ q.len \in Nat /\ InUse(h, b(q)) /\ b(q) \in Offset
        /\ q.len <= N(h, b(q)) - q.at
    BY HoldsAt
  <2>2. q.at = b(q) + SIZEOF_STRUCT_MEM
    BY <2>1, EndIsInside
  <2> HIDE DEF b
  <2>3. b(q) \in D(h) \ {heap_end} /\ b(q) \in Nat
    BY <2>1, EndIsInside DEF InUse
  <2>4. N(h, b(q)) \in Nat /\ N(h, b(q)) <= heap_end
    BY <2>3, NextIsAbove
  <2>5. q.at + q.len <= N(h, b(q))
    BY <2>1, <2>4
  <2> QED  BY <2>1, <2>2, <2>3, <2>4, <2>5
<1> HIDE DEF b
<1>2. abs!Cells(r) \subseteq SIZEOF_STRUCT_MEM..(heap_end - 1)
  BY <1>1, EndIsInside DEF abs!Cells
<1>3. ASSUME NEW q \in R, q.at # r.at
      PROVE  abs!Cells(q) \cap abs!Cells(r) = {}
  <2>1. b(q) # b(r)
    BY <1>1, <1>3
  <2>2. /\ b(q) <= b(r) \/ N(h, b(r)) <= b(q)
        /\ b(r) <= b(q) \/ N(h, b(q)) <= b(r)
    BY <1>1, <1>3, NextIsAbove
  <2>3. N(h, b(r)) <= b(q) \/ N(h, b(q)) <= b(r)
    BY <1>1, <1>3, <2>1, <2>2
  <2>4. r.at + r.len <= q.at \/ q.at + q.len <= r.at
    BY <1>1, <1>3, <2>3, EndIsInside
  <2>5. r.at \in Nat /\ r.len \in Nat /\ q.at \in Nat /\ q.len \in Nat
    BY <1>1, <1>3
  <2> QED  BY <2>4, <2>5 DEF abs!Cells
<1> QED  BY <1>2, <1>3

LEMMA HeldFits ==
  ASSUME HeapInv', NEW r \in held', NEW R, R \subseteq held', \A q \in R : q.at # r.at
  PROVE  abs!Fits(r, R)
<1>1. Typed(heap') /\ Tiles(heap') /\ Holding(heap', held')
  BY DEF HeapInv, Whole
<1> QED  BY <1>1, HeldApart DEF abs!Fits

LEMMA ResizeRefines ==
  ASSUME HeapInv, HeapInv', NEW r \in held, NEW n \in Nat, held' = Resized(r, n)
  PROVE  abs!Next
<1> DEFINE q == [at |-> r.at, len |-> n]
<1>1. held' = (held \ {r}) \cup {q} /\ q \in held' /\ q.at = r.at
  BY DEF Resized
<1>2. \A p \in held \ {r} : p.at # q.at
  BY <1>1 DEF HeapInv, Holding
<1> HIDE DEF q
<1>3. abs!Fits(q, held \ {r})
  BY <1>1, <1>2, HeldFits
<1> QED  BY <1>1, <1>3 DEF abs!Next, abs!Resize

LEMMA TakeRefines ==
  ASSUME HeapInv, HeapInv', NEW n \in Nat, Take(n)
  PROVE  abs!Next
<1> DEFINE r == [at |-> Data(FirstFit(AtLeast(n))), len |-> n]
<1>1. r \notin held /\ held' = held \cup {r}
  BY TakeStep
<1> HIDE DEF r
<1>2. \A q \in held : q.at # r.at
  BY <1>1 DEF HeapInv, Holding
<1>3. abs!Fits(r, held)
  BY <1>1, <1>2, HeldFits
<1> QED  BY <1>1, <1>3 DEF abs!Next, abs!Grant

LEMMA HeapStepRefines ==
  HeapInv /\ HeapInv' /\ [HeapNext]_heapVars => [abs!Next]_held
<1> SUFFICES ASSUME HeapInv, HeapInv', [HeapNext]_heapVars, held' # held
             PROVE  abs!Next
  OBVIOUS
<1>1. Request \subseteq Nat
  BY HeapAssumption
<1>2. PICK t \in User : UserStep(t)
  BY DEF heapVars, HeapNext
<1>3. CASE \E n \in Request : rt_malloc(t, n)
  BY <1>1, <1>3, TakeRefines DEF rt_malloc
<1>4. CASE \E r \in held : rt_free(t, r)
  BY <1>4 DEF rt_free, Give, abs!Next, abs!Release
<1>5. CASE \E r \in held : \E n \in Request : Keep(t, r, n) \/ Shrink(t, r, n)
  BY <1>1, <1>5, ResizeRefines DEF Keep, Shrink
<1>6. CASE MoveGets(t)
  <2>1. moving[t].want \in Nat
    BY DEF HeapInv, Moves, Move
  <2> QED  BY <1>6, <2>1, TakeRefines DEF MoveGets
<1>7. CASE MoveEnds(t)
  BY <1>7 DEF MoveEnds, Give, abs!Next, abs!Release
<1>8. CASE MoveFails(t) \/ \E r \in held : \E n \in Request : MoveBegins(t, r, n)
  BY <1>8 DEF MoveFails, MoveBegins
<1> QED  BY <1>2, <1>3, <1>4, <1>5, <1>6, <1>7, <1>8 DEF UserStep

(* The memory that rt_malloc and rt_realloc hand out lies in the heap and  *)
(* is nobody else's until it is freed.                                     *)
THEOREM HeapKeepsItsPromise == HeapSpec => HeapPromise
<1>1. HeapInit => abs!Init
  BY DEF HeapInit, abs!Init
<1> QED  BY <1>1, HeapInitInv, HeapStepInv, HeapStepRefines, PTL
         DEF HeapSpec, HeapPromise, abs!Spec
=============================================================================
