--------------------------------- MODULE MM ---------------------------------
(***************************************************************************)
(* The allocator of src/assignment-2-malloclab-FreezeKickerz/mm.c.         *)
(*                                                                         *)
(* The heap is a function from word index to the word's value (a word is  *)
(* 8 bytes, size_t); word 0 is where mm_init's mm_sbrk began.  A block    *)
(* pointer is the index of its header word, and a Block's next_node and    *)
(* prev_node are the two words after it; NULL is 0, which is the prologue *)
(* and never a block.  Header flags: bit 0 allocated, bit 1 previous block *)
(* allocated.  size_t arithmetic is modulo 2^SIZE_WIDTH.                   *)
(*                                                                         *)
(* Each of malloc, free, realloc and calloc is a function from the heap    *)
(* (mem, brk, free_block_pointer) to the heap it leaves and the pointer it *)
(* returns; the client that calls them keeps the blocks it holds in held.  *)
(* The client's writes into payloads, memcpy and memset touch payload      *)
(* bytes only and are not modelled.                                        *)
(***************************************************************************)
EXTENDS Integers, FiniteSets, Sequences

CONSTANTS
    HEAP_INIT,    \* the free block mm_init creates (4096 bytes in mm.c)
    MAX_HEAP,     \* bytes mm_sbrk can supply before it fails (memlib)
    SIZE_WIDTH,   \* bits of size_t
    Sizes,        \* sizes the client passes to malloc and realloc
    CallocArgs,   \* <<nmemb, size>> pairs the client passes to calloc
    MaxHeld       \* blocks the client holds at most

ALIGNMENT == 16
WORD == 8
NULL == 0
SIZE_MAX == 2^SIZE_WIDTH - 1
Words == 0..(MAX_HEAP \div WORD - 1)

VARIABLES
    mem,    \* mem[w]: the heap word w
    brk,    \* heap size in words (mm_heap_hi() is byte WORD * brk - 1)
    fbp,    \* free_block_pointer
    held    \* the client's blocks: [p |-> payload word, n |-> bytes asked]

vars == <<mem, brk, fbp, held>>

\* The heap as one value, and the step that installs a new one.
H == [mem |-> mem, brk |-> brk, fbp |-> fbp]
SetHeap(h) == mem' = h.mem /\ brk' = h.brk /\ fbp' = h.fbp

\* Header fields, and the bit operations the code applies to them (on
\* values below 2^SIZE_WIDTH): x & ~3, x | 1, x ^= 2, x & ~1, x & ~2.
BlockSize(x) == x - (x % 4)
IsAlloc(x) == x % 2 = 1
PrevAlloc(x) == (x \div 2) % 2 = 1
SetAlloc(x) == IF IsAlloc(x) THEN x ELSE x + 1
TogglePrev(x) == IF PrevAlloc(x) THEN x - 2 ELSE x + 2
ClearAlloc(x) == IF IsAlloc(x) THEN x - 1 ELSE x
ClearPrev(x) == IF PrevAlloc(x) THEN x - 2 ELSE x

\* align
Align(x) == (ALIGNMENT * (((x + ALIGNMENT - 1) % 2^SIZE_WIDTH) \div ALIGNMENT)) % 2^SIZE_WIDTH

\* mm_sbrk: the word where the new space starts, or -1 (the heap unchanged).
SbrkFails(h, incr) == WORD * h.brk + incr > MAX_HEAP

\* Mutant: the next block keeps its prev_node.
RemoveFromFreeListNoBackLink(h, b) ==
    LET nx == h.mem[b + 1]
        pv == h.mem[b + 2]
        m1 == IF pv # NULL THEN [h.mem EXCEPT ![pv + 1] = nx] ELSE h.mem
        m2 == m1
    IN [h EXCEPT !.mem = m2, !.fbp = IF pv # NULL THEN h.fbp ELSE nx]

\* remove_from_free_list
RemoveFromFreeList(h, b) ==
    LET nx == h.mem[b + 1]
        pv == h.mem[b + 2]
        m1 == IF pv # NULL THEN [h.mem EXCEPT ![pv + 1] = nx] ELSE h.mem
        m2 == IF nx # NULL THEN [m1 EXCEPT ![nx + 2] = pv] ELSE m1
    IN [h EXCEPT !.mem = m2, !.fbp = IF pv # NULL THEN h.fbp ELSE nx]

\* add_to_free_list
AddToFreeList(h, b) ==
    LET m1 == [h.mem EXCEPT ![b + 2] = NULL, ![b + 1] = h.fbp]
        m2 == IF h.fbp # NULL THEN [m1 EXCEPT ![h.fbp + 2] = b] ELSE m1
    IN [h EXCEPT !.mem = m2, !.fbp = b]

\* mm_init
MMInit ==
    LET top == (HEAP_INIT + 16) \div WORD IN
    /\ brk = 0
    /\ ~SbrkFails(H, HEAP_INIT + 16)
    /\ brk' = top
    /\ mem' = [mem EXCEPT ![0] = 1,
                          ![1] = TogglePrev(HEAP_INIT), ![2] = NULL, ![3] = NULL,
                          ![top - 2] = HEAP_INIT,
                          ![top - 1] = 1]
    /\ fbp' = 1
    /\ UNCHANGED held

\* search: the first block of the free list of at least size bytes, or NULL.
\* Mutant: a free block of exactly the required size is passed over.
RECURSIVE SearchFromStrict(_, _, _, _)
SearchFromStrict(h, look, size, k) ==
    IF look = NULL \/ k = 0 THEN NULL
    ELSE IF BlockSize(h.mem[look]) > size THEN look
    ELSE SearchFromStrict(h, h.mem[look + 1], size, k - 1)

RECURSIVE SearchFrom(_, _, _, _)
SearchFrom(h, look, size, k) ==
    IF look = NULL \/ k = 0 THEN NULL
    ELSE IF BlockSize(h.mem[look]) >= size THEN look
    ELSE SearchFrom(h, h.mem[look + 1], size, k - 1)

Search(h, size) == SearchFrom(h, h.fbp, size, Cardinality(Words))
\* malloc's required_block_size: the payload plus the header, aligned, at
\* least the 32-byte minimum block.
RequiredBlockSize(size) ==
    LET r == Align(size + 8) IN IF r < 32 THEN 32 ELSE r

\* Mutant: a whole-block fit is left in the free list.
MallocFKeepsInList(h, size) ==
    LET req == RequiredBlockSize(size)
        block == Search(h, req)
        cur == BlockSize(h.mem[block])
        rest == cur - req
        nextHdr == block + cur \div WORD
        \* the whole block is used
        whole ==
            LET m1 == [h.mem EXCEPT ![block] = IF PrevAlloc(@) THEN TogglePrev(SetAlloc(cur)) ELSE SetAlloc(cur)]
                m2 == [m1 EXCEPT ![nextHdr] = TogglePrev(@)]
            IN [h EXCEPT !.mem = m2]
        \* the block is split: the front stays free, the back is allocated
        allocHdr == block + rest \div WORD
        split ==
            LET m1 == [h.mem EXCEPT ![block] = IF PrevAlloc(@) THEN TogglePrev(rest) ELSE rest]
                m2 == [m1 EXCEPT ![block + rest \div WORD - 1] = rest]
                m3 == [m2 EXCEPT ![allocHdr] = SetAlloc(req)]
            IN [h EXCEPT !.mem = [m3 EXCEPT ![nextHdr] = TogglePrev(@)]]
        \* the heap is extended: the old epilogue becomes the header
        newHdr == h.brk - 1
        top == h.brk + req \div WORD
        grown ==
            LET m1 == [h.mem EXCEPT ![newHdr] = IF PrevAlloc(@) THEN TogglePrev(SetAlloc(req)) ELSE SetAlloc(req)]
            IN [h EXCEPT !.mem = [m1 EXCEPT ![top - 1] = 3], !.brk = top]
    IN
    IF size = 0 THEN [h |-> h, ret |-> NULL]
    ELSE IF block # NULL
      THEN IF rest <= 32 \/ cur = req
             THEN [h |-> whole, ret |-> block + 1]
             ELSE [h |-> split, ret |-> allocHdr + 1]
    ELSE IF SbrkFails(h, req) THEN [h |-> h, ret |-> NULL]
    ELSE [h |-> grown, ret |-> h.brk]

\* Mutant: the heap-growth path returns the new end of the heap.
MallocFGrowReturnsEnd(h, size) ==
    LET req == RequiredBlockSize(size)
        block == Search(h, req)
        cur == BlockSize(h.mem[block])
        rest == cur - req
        nextHdr == block + cur \div WORD
        \* the whole block is used
        whole ==
            LET m1 == [h.mem EXCEPT ![block] = IF PrevAlloc(@) THEN TogglePrev(SetAlloc(cur)) ELSE SetAlloc(cur)]
                m2 == [m1 EXCEPT ![nextHdr] = TogglePrev(@)]
            IN RemoveFromFreeList([h EXCEPT !.mem = m2], block)
        \* the block is split: the front stays free, the back is allocated
        allocHdr == block + rest \div WORD
        split ==
            LET m1 == [h.mem EXCEPT ![block] = IF PrevAlloc(@) THEN TogglePrev(rest) ELSE rest]
                m2 == [m1 EXCEPT ![block + rest \div WORD - 1] = rest]
                m3 == [m2 EXCEPT ![allocHdr] = SetAlloc(req)]
            IN [h EXCEPT !.mem = [m3 EXCEPT ![nextHdr] = TogglePrev(@)]]
        \* the heap is extended: the old epilogue becomes the header
        newHdr == h.brk - 1
        top == h.brk + req \div WORD
        grown ==
            LET m1 == [h.mem EXCEPT ![newHdr] = IF PrevAlloc(@) THEN TogglePrev(SetAlloc(req)) ELSE SetAlloc(req)]
            IN [h EXCEPT !.mem = [m1 EXCEPT ![top - 1] = 3], !.brk = top]
    IN
    IF size = 0 THEN [h |-> h, ret |-> NULL]
    ELSE IF block # NULL
      THEN IF rest <= 32 \/ cur = req
             THEN [h |-> whole, ret |-> block + 1]
             ELSE [h |-> split, ret |-> allocHdr + 1]
    ELSE IF SbrkFails(h, req) THEN [h |-> h, ret |-> NULL]
    ELSE [h |-> grown, ret |-> top]

\* malloc(size): the heap it leaves and the payload word it returns.
MallocF(h, size) ==
    LET req == RequiredBlockSize(size)
        block == Search(h, req)
        cur == BlockSize(h.mem[block])
        rest == cur - req
        nextHdr == block + cur \div WORD
        \* the whole block is used
        whole ==
            LET m1 == [h.mem EXCEPT ![block] = IF PrevAlloc(@) THEN TogglePrev(SetAlloc(cur)) ELSE SetAlloc(cur)]
                m2 == [m1 EXCEPT ![nextHdr] = TogglePrev(@)]
            IN RemoveFromFreeList([h EXCEPT !.mem = m2], block)
        \* the block is split: the front stays free, the back is allocated
        allocHdr == block + rest \div WORD
        split ==
            LET m1 == [h.mem EXCEPT ![block] = IF PrevAlloc(@) THEN TogglePrev(rest) ELSE rest]
                m2 == [m1 EXCEPT ![block + rest \div WORD - 1] = rest]
                m3 == [m2 EXCEPT ![allocHdr] = SetAlloc(req)]
            IN [h EXCEPT !.mem = [m3 EXCEPT ![nextHdr] = TogglePrev(@)]]
        \* the heap is extended: the old epilogue becomes the header
        newHdr == h.brk - 1
        top == h.brk + req \div WORD
        grown ==
            LET m1 == [h.mem EXCEPT ![newHdr] = IF PrevAlloc(@) THEN TogglePrev(SetAlloc(req)) ELSE SetAlloc(req)]
            IN [h EXCEPT !.mem = [m1 EXCEPT ![top - 1] = 3], !.brk = top]
    IN
    IF size = 0 THEN [h |-> h, ret |-> NULL]
    ELSE IF block # NULL
      THEN IF rest <= 32 \/ cur = req
             THEN [h |-> whole, ret |-> block + 1]
             ELSE [h |-> split, ret |-> allocHdr + 1]
    ELSE IF SbrkFails(h, req) THEN [h |-> h, ret |-> NULL]
    ELSE [h |-> grown, ret |-> h.brk]

\* Bounds coalesce puts on a neighbour's header: at least one word past
\* mm_heap_lo(), and below (size_t*)mm_heap_hi() - 7, that is below the
\* byte address mm_heap_hi() - 56.
InCoalesceBounds(h, w) == w >= 1 /\ WORD * w < (WORD * h.brk - 1) - 7 * WORD

\* Mutant: the merged header loses its previous-allocated bit.
CoalesceNoPrevBit(h, block) ==
    LET cur == BlockSize(h.mem[block])
        prevFree == ~PrevAlloc(h.mem[block])
        prevHdr == block - BlockSize(h.mem[block - 1]) \div WORD
        mergePrev == prevFree /\ InCoalesceBounds(h, prevHdr)
        h1 == IF mergePrev THEN RemoveFromFreeList(h, prevHdr) ELSE h
        size1 == IF mergePrev THEN cur + BlockSize(h1.mem[prevHdr]) ELSE cur
        merged == IF mergePrev THEN prevHdr ELSE block
        nextHdr == block + cur \div WORD
        mergeNext == InCoalesceBounds(h1, nextHdr) /\ ~IsAlloc(h1.mem[nextHdr])
        h2 == IF mergeNext THEN RemoveFromFreeList(h1, nextHdr) ELSE h1
        size2 == IF mergeNext THEN size1 + BlockSize(h2.mem[nextHdr]) ELSE size1
        h3 == RemoveFromFreeList(h2, block)
        m4 == [h3.mem EXCEPT ![merged] = size2]
        m5 == [m4 EXCEPT ![merged + size2 \div WORD - 1] = size2]
    IN IF size2 # cur THEN AddToFreeList([h3 EXCEPT !.mem = m5], merged) ELSE h2

\* Mutant: the next neighbour is never merged.
CoalesceNoNextMerge(h, block) ==
    LET cur == BlockSize(h.mem[block])
        prevFree == ~PrevAlloc(h.mem[block])
        prevHdr == block - BlockSize(h.mem[block - 1]) \div WORD
        mergePrev == prevFree /\ InCoalesceBounds(h, prevHdr)
        h1 == IF mergePrev THEN RemoveFromFreeList(h, prevHdr) ELSE h
        size1 == IF mergePrev THEN cur + BlockSize(h1.mem[prevHdr]) ELSE cur
        merged == IF mergePrev THEN prevHdr ELSE block
        nextHdr == block + cur \div WORD
        mergeNext == FALSE
        h2 == IF mergeNext THEN RemoveFromFreeList(h1, nextHdr) ELSE h1
        size2 == IF mergeNext THEN size1 + BlockSize(h2.mem[nextHdr]) ELSE size1
        h3 == RemoveFromFreeList(h2, block)
        m4 == [h3.mem EXCEPT ![merged] = TogglePrev(size2)]
        m5 == [m4 EXCEPT ![merged + size2 \div WORD - 1] = size2]
    IN IF size2 # cur THEN AddToFreeList([h3 EXCEPT !.mem = m5], merged) ELSE h2

\* coalesce(block)
Coalesce(h, block) ==
    LET cur == BlockSize(h.mem[block])
        prevFree == ~PrevAlloc(h.mem[block])
        prevHdr == block - BlockSize(h.mem[block - 1]) \div WORD
        mergePrev == prevFree /\ InCoalesceBounds(h, prevHdr)
        h1 == IF mergePrev THEN RemoveFromFreeList(h, prevHdr) ELSE h
        size1 == IF mergePrev THEN cur + BlockSize(h1.mem[prevHdr]) ELSE cur
        merged == IF mergePrev THEN prevHdr ELSE block
        nextHdr == block + cur \div WORD
        mergeNext == InCoalesceBounds(h1, nextHdr) /\ ~IsAlloc(h1.mem[nextHdr])
        h2 == IF mergeNext THEN RemoveFromFreeList(h1, nextHdr) ELSE h1
        size2 == IF mergeNext THEN size1 + BlockSize(h2.mem[nextHdr]) ELSE size1
        h3 == RemoveFromFreeList(h2, block)
        m4 == [h3.mem EXCEPT ![merged] = TogglePrev(size2)]
        m5 == [m4 EXCEPT ![merged + size2 \div WORD - 1] = size2]
    IN IF size2 # cur THEN AddToFreeList([h3 EXCEPT !.mem = m5], merged) ELSE h2

\* free(ptr)
FreeF(h, ptr) ==
    LET block == ptr - 1
        m1 == [h.mem EXCEPT ![block] = ClearAlloc(@)]
        bsize == BlockSize(m1[block])
        m2 == [m1 EXCEPT ![block + bsize \div WORD - 1] = bsize]
        m3 == [m2 EXCEPT ![block + bsize \div WORD] = ClearPrev(@)]
    IN IF ptr = NULL THEN h
       ELSE Coalesce(AddToFreeList([h EXCEPT !.mem = m3], block), block)

\* realloc(oldptr, size), with copied the bytes its memcpy reads from
\* oldptr: the smaller of size and the old block's size, header included.
\* The old block is freed whether or not malloc succeeded.
ReallocF(h, oldptr, size) ==
    LET r == MallocF(h, size)
        copied == IF r.ret = NULL THEN 0
                  ELSE LET old == BlockSize(r.h.mem[oldptr - 1])
                       IN IF size > old THEN old ELSE size
    IN
    IF oldptr = NULL THEN [h |-> r.h, ret |-> r.ret, copied |-> 0]
    ELSE IF size = 0 THEN [h |-> FreeF(h, oldptr), ret |-> NULL, copied |-> 0]
    ELSE [h |-> FreeF(r.h, oldptr), ret |-> r.ret, copied |-> copied]

\* calloc(nmemb, size): the product wraps at the width of size_t.
CallocF(h, nmemb, size) == MallocF(h, (size * nmemb) % 2^SIZE_WIDTH)

-----------------------------------------------------------------------------
(* The client: it calls each function on a block it holds, or to get one.  *)
Ready == brk > 0

\* The client keeps what a call returns, unless it is NULL.
Keep(ret, n) == IF ret = NULL THEN {} ELSE {[p |-> ret, n |-> n]}

Malloc(n) ==
    /\ Ready /\ Cardinality(held) < MaxHeld
    /\ LET r == MallocF(H, n) IN SetHeap(r.h) /\ held' = held \cup Keep(r.ret, n)

Free(b) ==
    /\ Ready /\ b \in held
    /\ SetHeap(FreeF(H, b.p)) /\ held' = held \ {b}

Realloc(b, n) ==
    /\ Ready /\ b \in held
    /\ LET r == ReallocF(H, b.p, n) IN
       SetHeap(r.h) /\ held' = (held \ {b}) \cup Keep(r.ret, n)

Calloc(nmemb, size) ==
    /\ Ready /\ Cardinality(held) < MaxHeld
    /\ LET r == CallocF(H, nmemb, size) IN
       SetHeap(r.h) /\ held' = held \cup Keep(r.ret, nmemb * size)

Init ==
    /\ mem = [w \in Words |-> 0]
    /\ brk = 0 /\ fbp = NULL /\ held = {}

Next ==
    \/ MMInit
    \/ \E n \in Sizes : Malloc(n)
    \/ \E b \in held : Free(b)
    \/ \E b \in held, n \in Sizes : Realloc(b, n)
    \/ \E a \in CallocArgs : Calloc(a[1], a[2])

Spec == Init /\ [][Next]_vars
-----------------------------------------------------------------------------
(***************************************************************************)
(* The heap as mm_checkheap walks it.                                      *)
(***************************************************************************)
\* The headers from word w on, stepping by block size, up to the epilogue.
RECURSIVE BlocksFrom(_, _)
BlocksFrom(w, k) ==
    IF w >= brk - 1 \/ k = 0 THEN <<>>
    ELSE <<w>> \o BlocksFrom(w + BlockSize(mem[w]) \div WORD, k - 1)

Blocks == BlocksFrom(1, Cardinality(Words))
BlockSet == {Blocks[i] : i \in 1..Len(Blocks)}
FreeBlocks == {b \in BlockSet : ~IsAlloc(mem[b])}

\* The free list from free_block_pointer, following next_node.
RECURSIVE ListFrom(_, _)
ListFrom(b, k) == IF b = NULL \/ k = 0 THEN <<>> ELSE <<b>> \o ListFrom(mem[b + 1], k - 1)
FreeList == ListFrom(fbp, Cardinality(Words))

\* mm_checkheap built with DEBUG: TRUE when it prints no warning.  Every
\* block of the free list has its header and footer between the word after
\* the prologue and mm_heap_hi() - 7 (the epilogue word), and the walk of
\* the heap from that first word finds no free block missing from the list.
MmCheckheap ==
    /\ \A i \in 1..Len(FreeList) :
          LET hd == FreeList[i]
              ft == hd + BlockSize(mem[hd]) \div WORD - 1
          IN hd \in 1..(brk - 2) /\ ft \in 1..(brk - 2)
    /\ \A b \in FreeBlocks : \E i \in 1..Len(FreeList) : FreeList[i] = b

TypeOK ==
    /\ mem \in [Words -> 0..SIZE_MAX]
    /\ brk \in 0..Cardinality(Words)
    /\ fbp \in Words
    /\ held \subseteq [p : Words, n : Nat]

(* After any sequence of malloc, free, realloc and calloc the heap is what *)
(* mm_checkheap expects: blocks of aligned sizes of at least 32 bytes tile *)
(* it from the prologue to the epilogue, every free block's footer equals *)
(* its header's size, and every header's previous-allocated bit (the      *)
(* epilogue's included) tells the truth, although malloc and coalesce set *)
(* it by toggling (^= 2) rather than by assignment.                        *)
HeapWellFormed ==
    brk > 0 =>
    /\ mem[0] = 1 /\ IsAlloc(mem[brk - 1])
    /\ Len(Blocks) > 0
    /\ LET last == Blocks[Len(Blocks)] IN last + BlockSize(mem[last]) \div WORD = brk - 1
    /\ \A i \in 1..Len(Blocks) :
          LET b == Blocks[i] IN
          /\ BlockSize(mem[b]) >= 32 /\ BlockSize(mem[b]) % ALIGNMENT = 0
          /\ ~IsAlloc(mem[b]) => mem[b + BlockSize(mem[b]) \div WORD - 1] = BlockSize(mem[b])
          /\ PrevAlloc(mem[b]) = (i = 1 \/ IsAlloc(mem[Blocks[i - 1]]))
    /\ PrevAlloc(mem[brk - 1]) = IsAlloc(mem[Blocks[Len(Blocks)]])

(* The explicit free list is a well-formed doubly linked list holding      *)
(* exactly the free blocks of the heap, each once: remove_from_free_list   *)
(* and add_to_free_list, called up to four times in one free, never lose, *)
(* repeat or mislink a block, and mm_checkheap stays silent.               *)
FreeListMatchesHeap ==
    brk > 0 =>
    /\ MmCheckheap
    /\ Len(FreeList) = Cardinality(FreeBlocks)
    /\ {FreeList[i] : i \in 1..Len(FreeList)} = FreeBlocks
    /\ fbp # NULL => mem[fbp + 2] = NULL
    /\ \A i \in 1..(Len(FreeList) - 1) : mem[FreeList[i + 1] + 2] = FreeList[i]

(* Every block the client holds is an allocated block of the heap with     *)
(* room for the bytes it asked for, no two held pointers share a block,   *)
(* and every allocated block is held: malloc never hands out a block that *)
(* is in use or overlaps one, and free and realloc never lose one.         *)
AllocatedIsHeld ==
    brk > 0 =>
    /\ \A b \in held :
          /\ b.p - 1 \in BlockSet /\ IsAlloc(mem[b.p - 1])
          /\ BlockSize(mem[b.p - 1]) - WORD >= b.n
    /\ \A b, c \in held : b.p = c.p => b = c
    /\ \A a \in BlockSet \ FreeBlocks : \E b \in held : b.p = a + 1

(* malloc extends the heap only when no free block could hold the       *)
(* request: search walks the whole explicit free list, first fit, before  *)
(* mm_sbrk is called, and the free list holds every free block.  This     *)
(* holds for calls from malloc, calloc and realloc (which mallocs before  *)
(* it frees).  Adjacent free blocks left unmerged (the coalesce bound at   *)
(* lines 247 and 256) can still force growth, as each is too small.       *)
GrowsOnlyWhenNoFit ==
    [][brk > 0 /\ brk' > brk =>
         \A b \in held' \ held, f \in FreeBlocks :
             BlockSize(mem[f]) < RequiredBlockSize(b.n % 2^SIZE_WIDTH)]_vars

(* What the C standard promises of realloc and calloc, which mdriver's     *)
(* traces never exercise, for every call the client could make next: a    *)
(* realloc to a nonzero size that returns NULL leaves the old block        *)
(* allocated (mm.c frees it anyway), realloc's memcpy reads no more than   *)
(* the old payload (mm.c bounds it by the block size, header included),    *)
(* and a block calloc returns has room for nmemb * size bytes (mm.c lets   *)
(* the product wrap).                                                      *)
ReallocCallocContract ==
    brk > 0 =>
    /\ \A b \in held, n \in Sizes \ {0} :
          LET r == ReallocF(H, b.p, n) IN
          /\ r.ret = NULL => IsAlloc(r.h.mem[b.p - 1])
          /\ r.copied <= BlockSize(mem[b.p - 1]) - WORD
    /\ \A a \in CallocArgs :
          LET r == CallocF(H, a[1], a[2]) IN
          r.ret # NULL => BlockSize(r.h.mem[r.ret - 1]) - WORD >= a[1] * a[2]
=============================================================================
