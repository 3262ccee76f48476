------------------------------- MODULE Kheap -------------------------------
(***************************************************************************)
(* The kernel heap of terraOS (kheap.c): a first-fit allocator over one    *)
(* region of memory, cut into chunks that are linked in a list through     *)
(* their headers.  The loops of kalloc and coalesce_chunk are steps of     *)
(* their own with the loop variable cur ("chunk" in the code); a call is   *)
(* one step up to its loop.  Addresses and sizes are in bytes.             *)
(***************************************************************************)
EXTENDS Integers, FiniteSets

CONSTANTS
    HEAP_START,      \* heap_start
    AVAIL,           \* heap.avail, that is heap_end - heap_start
    WORD,            \* size_t counts modulo WORD
    Sizes            \* the sizes clients ask for

NULL == 0
ALIGN == 16
HDR == 32                            \* sizeof(struct heapchunk_t)
MIN_CHUNK_SIZE == HDR + 4
HEAP_END == HEAP_START + AVAIL

ASSUME HeapAssumption ==
    /\ HEAP_START \in Nat /\ HEAP_START >= ALIGN /\ HEAP_START % ALIGN = 0
    /\ AVAIL \in Nat /\ AVAIL >= HDR /\ AVAIL % ALIGN = 0
    /\ WORD \in Nat /\ WORD % ALIGN = 0 /\ HEAP_END + HDR < WORD
    /\ Sizes \subseteq 0 .. WORD - 1

(* Where a header may be.                                                  *)
Slots == {a \in HEAP_START .. HEAP_END - 1 : a % ALIGN = 0}

VARIABLES
    pc,        \* "boot", "idle", in a loop: "search" or "coalesce", or "fault"
    size,      \* size[a] and next[a]: fields of the header at a, for the
    next,      \*   headers in the list (outside it they are never read)
    inuse,     \* the headers whose inuse field is true
    cur,       \* the loop variable "chunk"
    call,      \* arguments of the kalloc that is searching
    live,      \* history: requested size of each block the clients own
    freed,     \* history: blocks freed, their headers not overwritten since
    leaked     \* history: bytes that left the heap for good

mem == <<size, next, inuse>>
vars == <<pc, mem, cur, call, live, freed, leaked>>

chunks == DOMAIN size
NoCall == [size |-> 0, want |-> 0, old |-> NULL]

Empty == [a \in {} |-> 0]

Init ==
    /\ pc = "boot"
    /\ size = Empty
    /\ next = Empty
    /\ inuse = {}
    /\ cur = NULL
    /\ call = NoCall
    /\ live = Empty
    /\ freed = {}
    /\ leaked = 0
-----------------------------------------------------------------------------
(* The sum or difference of two u64 values.                                *)
Wrap(x) == IF x >= WORD THEN x - WORD ELSE IF x < 0 THEN x + WORD ELSE x

(* Slips: sizes left as they are, and sizes rounded down.                  *)
RoundNot(n) == n
RoundDown(n) == n - (n % ALIGN)

(* (size + 15) & ~15                                                       *)
RoundUp(n) == LET t == Wrap(n + ALIGN - 1) IN t - (t % ALIGN)

Chunk(p) == p - HDR
Block(c) == c + HDR

(* Function f with one argument given a value, or taken out.               *)
With(f, a, v) == [b \in DOMAIN f \cup {a} |-> IF b = a THEN v ELSE f[b]]
Without(f, a) == [b \in DOMAIN f \ {a} |-> f[b]]

(* Freed blocks whose header keeps its contents when [lo, hi) is written   *)
(* by the heap or given to a client.                                       *)
Untouched(lo, hi) == {p \in freed : p <= lo \/ hi <= Chunk(p)}

(* kfree goes on past its checks.                                          *)
Freeable(p, used) == HEAP_START <= p /\ p < HEAP_END /\ Chunk(p) \in used

(* Slip: kfree coalesces but leaves the chunk marked.                      *)
FreeChunkMarked(p, used) ==
    /\ inuse' = used
    /\ pc' = IF Freeable(p, used) THEN "coalesce" ELSE "idle"
    /\ cur' = IF Freeable(p, used) THEN HEAP_START ELSE NULL

(* What kfree does to the in-use flags, and where it goes next.            *)
FreeChunk(p, used) ==
    IF Freeable(p, used)
    THEN /\ inuse' = used \ {Chunk(p)}
         /\ pc' = "coalesce"
         /\ cur' = HEAP_START
    ELSE /\ inuse' = used
         /\ pc' = "idle"
         /\ cur' = NULL

heap_init ==
    /\ pc = "boot"
    /\ size' = With(size, HEAP_START, AVAIL - HDR)
    /\ inuse' = inuse \ {HEAP_START}
    /\ next' = With(next, HEAP_START, NULL)
    /\ pc' = "idle"
    /\ UNCHANGED <<cur, call, live, freed, leaked>>
-----------------------------------------------------------------------------
(* Slip: the header of the new chunk is not taken off its size.            *)
SplitSizeWhole(sz, c, s) == With(With(sz, Block(c) + s, sz[c] - s), c, s)

(* The list after chunk c is cut in two, s bytes staying with it.          *)
SplitSize(sz, c, s) == With(With(sz, Block(c) + s, sz[c] - s - HDR), c, s)
(* Slip: the new chunk is not linked in.                                   *)
SplitNextLost(nx, c, s) == With(With(nx, Block(c) + s, nx[c]), c, NULL)
SplitNext(nx, c, s) == With(With(nx, Block(c) + s, nx[c]), c, Block(c) + s)

(* kalloc(n) up to its loop, for a client that wants "want" bytes and, in  *)
(* krealloc, is to give up the block "old".                                *)
StartSearch(n, want, old) ==
    /\ IF RoundUp(n) > AVAIL
       THEN UNCHANGED <<pc, cur, call>>
       ELSE /\ pc' = "search"
            /\ cur' = HEAP_START
            /\ call' = [size |-> RoundUp(n), want |-> want, old |-> old]
    /\ UNCHANGED <<mem, live, freed, leaked>>

kalloc(n) == pc = "idle" /\ StartSearch(n, n, NULL)

Fits(c, n) == c \notin inuse /\ size[c] >= n

SearchNext ==
    /\ pc = "search"
    /\ cur # NULL
    /\ ~Fits(cur, call.size)
    /\ cur' = next[cur]
    /\ UNCHANGED <<pc, mem, call, live, freed, leaked>>

SearchFail ==
    /\ pc = "search"
    /\ cur = NULL
    /\ call' = NoCall
    /\ pc' = "idle"
    /\ UNCHANGED <<mem, cur, live, freed, leaked>>

(* The chunk found is cut in two if what is left over can hold a header    *)
(* and more.  In krealloc the old block is then copied and freed.          *)
SearchTake ==
    LET leftover == size[cur] - call.size
        split == leftover > MIN_CHUNK_SIZE
        new_chunk == Block(cur) + call.size
        taken == (inuse \ IF split THEN {new_chunk} ELSE {}) \cup {cur}
    IN  /\ pc = "search"
        /\ cur # NULL
        /\ Fits(cur, call.size)
        /\ IF split
           THEN /\ size' = SplitSize(size, cur, call.size)
                /\ next' = SplitNext(next, cur, call.size)
           ELSE UNCHANGED <<size, next>>
        /\ call' = NoCall
        /\ live' = With(Without(live, call.old), Block(cur), call.want)
        /\ freed' = Untouched(cur, Block(cur) + size'[cur]
                                     + (IF split THEN HDR ELSE 0))
                      \cup IF Freeable(call.old, taken) THEN {call.old} ELSE {}
        /\ FreeChunk(call.old, taken)
        /\ UNCHANGED leaked
-----------------------------------------------------------------------------
(* kfree of a block of the client's, of one it has freed before, of NULL   *)
(* and of a pointer past the heap.                                         *)
kfree(p) ==
    /\ pc = "idle"
    /\ FreeChunk(p, inuse)
    /\ live' = Without(live, p)
    /\ freed' = IF Freeable(p, inuse) THEN freed \cup {p} ELSE freed
    /\ UNCHANGED <<size, next, call, leaked>>

(* Slip: the header of the merged chunk is forgotten.                      *)
MergeSizeShort(sz, c, m) == With(Without(sz, m), c, sz[c] + sz[m])

(* The list after chunk c takes in its successor m.                        *)
MergeSize(sz, c, m) == With(Without(sz, m), c, sz[c] + HDR + sz[m])
MergeNext(nx, c, m) == With(Without(nx, m), c, nx[m])

(* Slip: the loop moves on after a merge, as it does otherwise.            *)
CoalesceMergeOnce ==
    /\ pc = "coalesce"
    /\ cur # NULL
    /\ next[cur] # NULL
    /\ cur \notin inuse /\ next[cur] \notin inuse
    /\ size' = MergeSize(size, cur, next[cur])
    /\ next' = MergeNext(next, cur, next[cur])
    /\ cur' = IF next'[cur] = NULL THEN cur ELSE next'[cur]
    /\ UNCHANGED <<pc, inuse, call, live, freed, leaked>>

CoalesceMerge ==
    /\ pc = "coalesce"
    /\ cur # NULL
    /\ next[cur] # NULL
    /\ cur \notin inuse /\ next[cur] \notin inuse
    /\ size' = MergeSize(size, cur, next[cur])
    /\ next' = MergeNext(next, cur, next[cur])
    /\ UNCHANGED <<pc, inuse, cur, call, live, freed, leaked>>

(* Slip: the loop starts over instead of moving on.                        *)
CoalesceNextRestart ==
    /\ pc = "coalesce"
    /\ cur # NULL
    /\ next[cur] # NULL
    /\ cur \in inuse \/ next[cur] \in inuse
    /\ cur' = HEAP_START
    /\ UNCHANGED <<pc, mem, call, live, freed, leaked>>

CoalesceNext ==
    /\ pc = "coalesce"
    /\ cur # NULL
    /\ next[cur] # NULL
    /\ cur \in inuse \/ next[cur] \in inuse
    /\ cur' = next[cur]
    /\ UNCHANGED <<pc, mem, call, live, freed, leaked>>

CoalesceDone ==
    /\ pc = "coalesce"
    /\ cur = NULL \/ next[cur] = NULL
    /\ pc' = "idle"
    /\ cur' = NULL
    /\ UNCHANGED <<mem, call, live, freed, leaked>>
-----------------------------------------------------------------------------
(* krealloc(p, n) and its cases.  RoundUp is applied again by kalloc.      *)
krealloc_null(n) == pc = "idle" /\ StartSearch(RoundUp(n), n, NULL)

Grows(p, n) == pc = "idle" /\ size[Chunk(p)] < RoundUp(n)
Leftover(p, n) == size[Chunk(p)] - RoundUp(n)

(* Slip: the next chunk is not checked for being free.                     *)
CanExtendOver(p, n) ==
    size[next[Chunk(p)]] >= Wrap(RoundUp(n) - size[Chunk(p)] + HDR)

(* extendChunkInPlace: the condition, and the new chunk, which is put a    *)
(* header's length after the end of the extended one.                      *)
CanExtend(p, n) ==
    LET nxt == next[Chunk(p)]
        extra == RoundUp(n) - size[Chunk(p)]
    IN  /\ nxt \notin inuse
        /\ size[nxt] >= Wrap(extra + HDR)

(* The list after chunk c grows by x bytes and its successor m is replaced *)
(* by the chunk at s.                                                      *)
ExtendSize(sz, c, m, x, s) ==
    With(With(Without(sz, m), s, Wrap(sz[m] - x - HDR)), c, sz[c] + x)
ExtendNext(nx, c, m, s) == With(With(Without(nx, m), s, nx[m]), c, s)

extendChunkInPlace(p, n) ==
    LET old_chunk == Chunk(p)
        nxt == next[old_chunk]
        extra == RoundUp(n) - size[old_chunk]
        split == Wrap(nxt + HDR + extra)
    IN  /\ Grows(p, n)
        /\ next[old_chunk] # NULL
        /\ CanExtend(p, n)
        /\ size' = ExtendSize(size, old_chunk, nxt, extra, split)
        /\ next' = ExtendNext(next, old_chunk, nxt, split)
        /\ inuse' = inuse \ {split}
        /\ live' = With(live, p, n)
        /\ freed' = Untouched(old_chunk, split + HDR)
        /\ leaked' = leaked + HDR
        /\ UNCHANGED <<pc, cur, call>>

(* extendChunkInPlace reads old_chunk->next->inuse; for the last chunk of  *)
(* the list next is NULL, and nothing is mapped at address 0.              *)
krealloc_fault(p, n) ==
    /\ Grows(p, n)
    /\ next[Chunk(p)] = NULL
    /\ pc' = "fault"
    /\ UNCHANGED <<mem, cur, call, live, freed, leaked>>

krealloc_grow(p, n) ==
    /\ Grows(p, n)
    /\ next[Chunk(p)] # NULL
    /\ ~CanExtend(p, n)
    /\ StartSearch(RoundUp(n), n, p)

krealloc_shrink(p, n) ==
    LET old_chunk == Chunk(p)
        new_chunk == p + RoundUp(n)
    IN  /\ pc = "idle"
        /\ Leftover(p, n) > MIN_CHUNK_SIZE
        /\ size' = SplitSize(size, old_chunk, RoundUp(n))
        /\ next' = SplitNext(next, old_chunk, RoundUp(n))
        /\ inuse' = inuse \ {new_chunk}
        /\ pc' = "coalesce"
        /\ cur' = HEAP_START
        /\ live' = With(live, p, n)
        /\ UNCHANGED <<call, freed, leaked>>

krealloc_move(p, n) ==
    /\ pc = "idle"
    /\ 0 < Leftover(p, n)
    /\ Leftover(p, n) < MIN_CHUNK_SIZE
    /\ StartSearch(RoundUp(n), n, p)

krealloc_same(p, n) ==
    /\ pc = "idle"
    /\ Leftover(p, n) \in {0, MIN_CHUNK_SIZE}
    /\ live' = With(live, p, n)
    /\ UNCHANGED <<pc, mem, cur, call, chunks, freed, leaked>>

krealloc(p, n) ==
    \/ extendChunkInPlace(p, n)
    \/ krealloc_fault(p, n)
    \/ krealloc_grow(p, n)
    \/ krealloc_shrink(p, n)
    \/ krealloc_move(p, n)
    \/ krealloc_same(p, n)
-----------------------------------------------------------------------------
(* The client keeps to the interface, except that it may free twice.       *)
Client ==
    \/ \E n \in Sizes : kalloc(n) \/ krealloc_null(n)
    \/ \E p \in DOMAIN live : \E n \in Sizes : krealloc(p, n)
    \/ \E p \in DOMAIN live \cup freed \cup {NULL, HEAP_END} : kfree(p)

(* The steps the kernel takes by itself until the call returns.            *)
Loop ==
    \/ SearchNext \/ SearchFail \/ SearchTake
    \/ CoalesceMerge \/ CoalesceNext \/ CoalesceDone

Stopped == pc = "fault" /\ UNCHANGED vars

Next == heap_init \/ Client \/ Loop \/ Stopped

Spec == Init /\ [][Next]_vars /\ WF_vars(Loop)
-----------------------------------------------------------------------------
End(c) == Block(c) + size[c]

(* The variables have the shapes the C declarations give them, and every   *)
(* header written lies in the heap.                                        *)
TypeOK ==
    /\ pc \in {"boot", "idle", "search", "coalesce", "fault"}
    /\ chunks \subseteq Slots
    /\ size \in [chunks -> 0 .. WORD - 1]
    /\ next \in [chunks -> Slots \cup {NULL}]
    /\ inuse \subseteq Slots
    /\ cur \in Slots \cup {NULL}
    /\ call \in [size : 0 .. WORD - 1, want : 0 .. WORD - 1,
                 old : DOMAIN live \cup {NULL}]
    /\ DOMAIN live \subseteq Slots \cup {HEAP_END}
    /\ \A p \in DOMAIN live : live[p] \in Sizes
    /\ freed \subseteq Slots
    /\ leaked \in Nat

(* The headers with these sizes and links form a list in address order,    *)
(* its chunks disjoint and inside the heap, each next the nearest one.     *)
Linked(sz, nx) ==
    /\ HEAP_START \in DOMAIN sz
    /\ \A c \in DOMAIN sz :
          /\ Block(c) + sz[c] <= HEAP_END
          /\ nx[c] # NULL => nx[c] \in DOMAIN sz /\ Block(c) + sz[c] <= nx[c]
          /\ \A d \in DOMAIN sz : c < d => nx[c] # NULL /\ nx[c] <= d

(* The list the loops of kheap.c follow stays such a list: no step loses   *)
(* or duplicates a chunk, makes a cycle, or lets two chunks overlap.       *)
ListOK == pc # "boot" => Linked(size, next)

(* A block a client owns has the size asked for, lies in the heap, and     *)
(* shares no byte with another client's block or with any chunk header,    *)
(* in the middle of a call too (krealloc copies from it then).             *)
BlocksIntact ==
    \A p \in DOMAIN live :
        /\ HEAP_START <= Chunk(p) /\ p + live[p] <= HEAP_END
        /\ \A q \in DOMAIN live :
              q # p => p + live[p] <= Chunk(q) \/ q + live[q] <= Chunk(p)
        /\ \A c \in chunks :
              c # Chunk(p) => p + live[p] <= c \/ End(c) <= Chunk(p)

(* A chunk of the list is in use exactly when a client owns its block: no  *)
(* sequence of calls loses a chunk, or gives one back that is still used.  *)
(* The exception is an empty block at heap_end, which kfree turns down.    *)
InUseIffLive ==
    pc # "boot" =>
        /\ \A c \in chunks :
              c \in inuse => Block(c) \in DOMAIN live \/ Block(c) = HEAP_END
        /\ \A p \in DOMAIN live : Chunk(p) \in chunks \cap inuse

(* Between calls no two neighbours of the list are both free, although     *)
(* kalloc and extendChunkInPlace make free chunks without coalescing.      *)
NoAdjacentFree ==
    pc = "idle" =>
        \A c \in chunks : c \notin inuse /\ next[c] # NULL => next[c] \in inuse

(* kfree of a block that is already free changes nothing, as long as its   *)
(* memory was not used again: the header it reads says "not in use" even   *)
(* after coalesce_chunk dropped it from the list.                          *)
DoubleFreeIgnored == \A p \in freed : Chunk(p) \notin inuse

(* Every byte of the heap is in a chunk of the list, or was lost by        *)
(* extendChunkInPlace, which drops one header's length per extension.      *)
Outside(sz) ==
    {a \in HEAP_START .. HEAP_END - 1 :
        \A c \in DOMAIN sz : a < c \/ Block(c) + sz[c] <= a}
Accounting == pc # "boot" => Cardinality(Outside(size)) = leaked

(* When every block has been given back the heap is one free chunk again,  *)
(* but for the bytes leaked and the empty blocks at heap_end.              *)
EmptyHeapRestored ==
    pc = "idle" /\ DOMAIN live = {} /\ inuse = {}
        => /\ chunks = {HEAP_START}
           /\ size[HEAP_START] = AVAIL - HDR - leaked

(* The search of kalloc gives up only when no free chunk is large enough.  *)
FailsOnlyWhenNothingFits ==
    [][pc = "search" /\ pc' = "idle" /\ live' = live
         => \A c \in chunks : ~Fits(c, call.size)]_vars

(* Every call returns.                                                     *)
CallReturns == pc \in {"search", "coalesce"} ~> pc = "idle"

(* No call ends in a page fault.                                           *)
NoFault == pc # "fault"
=============================================================================
