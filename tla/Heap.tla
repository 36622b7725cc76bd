-------------------------------- MODULE Heap -------------------------------
(***************************************************************************)
(* malloc and free of user programs (umalloc.c): a circular list of free   *)
(* blocks in the order of their addresses, searched first fit from freep,  *)
(* split from the tail and joined with both neighbours on free.            *)
(*                                                                         *)
(* Addresses and sizes count units of one Header.  &base is address 0, the *)
(* heap starts at unit 1 (the break is above the data of the program).     *)
(* The operators take and return a record h of the memory; a header at     *)
(* address a is h.ptr[a], h.size[a].  The program may also move the break  *)
(* by itself, which leaves a hole that belongs to nobody.                  *)
(***************************************************************************)
EXTENDS Integers, Sequences, FiniteSetsExt

CONSTANTS
  Units,         \* the number of units that sbrk may give
  MinCore,       \* the least number of units that morecore asks for (4096)
  Requests,      \* the sizes, in units with the header, that are asked for
  MaxMallocs     \* bound on the calls of a behaviour

VARIABLES
  mem,           \* headers, freep and the break
  live,          \* history: the blocks that malloc gave out, with their sizes
  hole,          \* history: the units that the program took by itself
  heapCalls      \* calls that are still to be made

heapVars == <<mem, live, hole, heapCalls>>

Address == 0 .. Units + 1
NULL    == -1
Fresh   == [ptr |-> [a \in Address |-> NULL], size |-> [a \in Address |-> 0], freep |-> NULL, brk |-> 1]

\* Where free puts block bp: the block of the list that comes before it.
RECURSIVE PlaceFrom(_, _, _)
PlaceFrom(h, p, bp) ==
  LET next == h.ptr[p]
  IN  IF (bp > p /\ bp < next) \/ (p >= next /\ (bp > p \/ bp < next)) THEN p ELSE PlaceFrom(h, next, bp)

\* Link bp after p, and join it with the next block and with p where they meet.
Join(h, p, bp) ==
  LET next == h.ptr[p]
      h1   == IF bp + h.size[bp] = next
              THEN [h EXCEPT !.size[bp] = @ + h.size[next], !.ptr[bp] = h.ptr[next]]
              ELSE [h EXCEPT !.ptr[bp] = next]
  IN  IF p + h.size[p] = bp
      THEN [h1 EXCEPT !.size[p] = @ + h1.size[bp], !.ptr[p] = h1.ptr[bp], !.freep = p]
      ELSE [h1 EXCEPT !.ptr[p] = bp, !.freep = p]

FreeBlock(h, bp) == Join(h, PlaceFrom(h, h.freep, bp), bp)

\* sbrk, as a program sees it (sysproc.c).
Sbrk(h, n) == h.brk + n <= Units + 1

MorecoreUnits(nu) == IF nu < MinCore THEN MinCore ELSE nu

Morecore(h, nu) == FreeBlock([h EXCEPT !.brk = @ + nu, !.size[h.brk] = nu], h.brk)

TakeWrong(h, prevp, p, n) ==
  IF h.size[p] = n THEN [mem |-> [h EXCEPT !.ptr[prevp] = h.ptr[p], !.freep = prevp], block |-> p]
  ELSE LET q == p + h.size[p] - n
       IN  [mem |-> [h EXCEPT !.size[p] = @ - n + 1, !.size[q] = n, !.freep = prevp], block |-> q]

\* Take n units from block p: the whole block, or its tail.
Take(h, prevp, p, n) ==
  IF h.size[p] = n THEN [mem |-> [h EXCEPT !.ptr[prevp] = h.ptr[p], !.freep = prevp], block |-> p]
  ELSE LET q == p + h.size[p] - n
       IN  [mem |-> [[h EXCEPT !.size[p] = @ - n] EXCEPT !.size[q] = n, !.freep = prevp], block |-> q]

Fits(h, p, n) == h.size[p] >= n

\* The loop of malloc from prevp on.
RECURSIVE Search(_, _, _)
Search(h, prevp, n) ==
  LET p == h.ptr[prevp]
      k == MorecoreUnits(n)
  IN  IF Fits(h, p, n) THEN Take(h, prevp, p, n)
      ELSE IF p # h.freep THEN Search(h, p, n)
      ELSE IF ~Sbrk(h, k) THEN [mem |-> h, block |-> NULL]
      ELSE LET m == Morecore(h, k) IN Search(m, m.freep, n)

MallocOf(h, n) ==
  LET h0 == IF h.freep # NULL THEN h ELSE [h EXCEPT !.ptr[0] = 0, !.size[0] = 0, !.freep = 0]
  IN  Search(h0, h0.freep, n)

Malloc ==
  \E n \in Requests :
    LET m == MallocOf(mem, n)
    IN  /\ mem' = m.mem
        /\ live' = IF m.block = NULL THEN live ELSE live \cup {<<m.block, n>>}
        /\ UNCHANGED hole

FreeCall ==
  \E b \in live :
    /\ mem' = FreeBlock(mem, b[1])
    /\ live' = live \ {b}
    /\ UNCHANGED hole

ProgramSbrk ==
  /\ Sbrk(mem, 1)
  /\ mem' = [mem EXCEPT !.brk = @ + 1]
  /\ hole' = hole \cup {mem.brk}
  /\ UNCHANGED live

HeapInit == mem = Fresh /\ live = {} /\ hole = {} /\ heapCalls = MaxMallocs
HeapOff  == mem = Fresh /\ live = {} /\ hole = {} /\ heapCalls = 0

HeapNext == heapCalls > 0 /\ heapCalls' = heapCalls - 1 /\ (Malloc \/ FreeCall \/ ProgramSbrk)
-----------------------------------------------------------------------------
(* Properties *)

BlockUnits(b, n) == b .. b + n - 1

\* The free list, from &base around.
FreeList ==
  LET next[n \in Nat] == IF n = 0 THEN 0 ELSE mem.ptr[next[n - 1]]
  IN  {next[n] : n \in 0 .. Cardinality(Address)}

\* Every unit below the break is in exactly one block that is live or free, or
\* in a hole: malloc and free never give out a unit twice and never lose one,
\* and a block keeps the size that was asked for until it is freed.
HeapPartition ==
  mem.freep # NULL =>
    LET blocks == live \cup {<<a, mem.size[a]>> : a \in FreeList \ {0}}
    IN  /\ \A b \in live : mem.size[b[1]] = b[2] /\ b[1] \notin FreeList
        /\ \A b, c \in blocks : b # c => BlockUnits(b[1], b[2]) \cap BlockUnits(c[1], c[2]) = {}
        /\ UNION {BlockUnits(b[1], b[2]) : b \in blocks} = (1 .. mem.brk - 1) \ hole

\* The free list is a ring in the order of addresses through base and freep, with
\* no two blocks that meet: memory does not fall to pieces that free could join.
FreeListJoined ==
  mem.freep # NULL =>
    /\ mem.freep \in FreeList
    /\ \A a \in FreeList :
         /\ mem.ptr[a] = Min(LET above == {b \in FreeList : b > a} IN IF above = {} THEN FreeList ELSE above)
         /\ a # 0 => a + mem.size[a] \notin FreeList

\* malloc fails only if no free block is large enough and sbrk fails, too.
MallocComplete ==
  \A n \in Requests :
    (MallocOf(mem, n).block = NULL) =>
      /\ ~Sbrk(mem, MorecoreUnits(n))
      /\ mem.freep # NULL => \A a \in FreeList : mem.size[a] < n

\* The heap is sound: nothing is given out twice, lost, left in pieces or refused
\* while there is room.
HeapSound == HeapPartition /\ FreeListJoined /\ MallocComplete
=============================================================================
