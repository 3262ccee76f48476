---------------------------- MODULE KheapProofs ----------------------------
(***************************************************************************)
(* Proofs about the kernel heap, for every heap size and every set of      *)
(* request sizes that do not overflow size_t when they are rounded up.     *)
(***************************************************************************)
EXTENDS Kheap, FiniteSetTheorems, TLAPS

(* Rounding a request up and adding a header stays below WORD.             *)
NoWrap == \A n \in Sizes : n + ALIGN - 1 + HDR < WORD

(* Sizes and links of aligned headers inside the heap.                     *)
Shaped(sz, nx) ==
    /\ DOMAIN sz \subseteq Slots
    /\ DOMAIN nx = DOMAIN sz
    /\ \A c \in DOMAIN sz :
          /\ sz[c] \in Nat
          /\ sz[c] % ALIGN = 0
          /\ nx[c] \in Slots \cup {NULL}

(* No free chunk below lim has a free successor.                           *)
MergedBelow(lim) ==
    \A c \in chunks : c < lim /\ c \notin inuse /\ next[c] # NULL
                          => next[c] \in inuse

(* The part of the inductive invariant about memory.                       *)
MemInv ==
    /\ size = [c \in DOMAIN size |-> size[c]]
    /\ next = [c \in DOMAIN next |-> next[c]]
    /\ Shaped(size, next)
    /\ inuse \subseteq chunks
    /\ pc = "boot" => chunks = {} /\ DOMAIN live = {}
    /\ ListOK

(* The part about the clients' blocks.                                     *)
LiveInv ==
    /\ live = [p \in DOMAIN live |-> live[p]]
    /\ \A p \in DOMAIN live :
          /\ p \in Slots \cup {HEAP_END}
          /\ Chunk(p) \in inuse
          /\ live[p] \in Sizes
          /\ live[p] <= size[Chunk(p)]
    /\ \A c \in inuse : Block(c) \in DOMAIN live \/ Block(c) = HEAP_END
    /\ freed \subseteq Slots
    /\ DoubleFreeIgnored

(* The part about the call in progress: what the loops have established.   *)
CallInv ==
    /\ call.size \in Nat /\ call.want \in 0 .. WORD - 1
    /\ call = [size |-> call.size, want |-> call.want, old |-> call.old]
    /\ call.old \in DOMAIN live \cup {NULL}
    /\ pc = "search" => /\ call.size % ALIGN = 0
                        /\ call.size < WORD
                        /\ call.want \in Sizes
                        /\ call.want <= call.size
                        /\ cur \in chunks \cup {NULL}
                        /\ \A c \in chunks : cur = NULL \/ c < cur
                                               => ~Fits(c, call.size)
    /\ pc # "search" => call = NoCall
    /\ pc = "coalesce" => cur \in chunks /\ MergedBelow(cur)
    /\ pc \notin {"search", "coalesce"} => cur = NULL
    /\ pc \in {"idle", "search"} => MergedBelow(HEAP_END)

HeapInv ==
    /\ pc \in {"boot", "idle", "search", "coalesce", "fault"}
    /\ leaked \in Nat
    /\ MemInv
    /\ LiveInv
    /\ CallInv
-----------------------------------------------------------------------------
USE DEF ALIGN, HDR, NULL, MIN_CHUNK_SIZE, HEAP_END

(* A request is rounded up to a multiple of 16, once and for all.          *)
LEMMA RoundUpFacts ==
    ASSUME NoWrap, NEW n \in Sizes
    PROVE  /\ n \in Nat
           /\ RoundUp(n) \in Nat
           /\ RoundUp(n) % ALIGN = 0
           /\ n <= RoundUp(n)
           /\ RoundUp(n) + HDR < WORD
           /\ RoundUp(RoundUp(n)) = RoundUp(n)
  <1>1. n \in Nat /\ n + 47 < WORD /\ WORD \in Nat
    BY HeapAssumption DEF NoWrap
  <1>2. RoundUp(n) = (n + 15) - ((n + 15) % 16)
    BY <1>1 DEF RoundUp, Wrap
  <1>3. /\ RoundUp(n) \in Nat
        /\ RoundUp(n) % 16 = 0
        /\ n <= RoundUp(n)
        /\ RoundUp(n) <= n + 15
    BY <1>1, <1>2
  <1>4. RoundUp(RoundUp(n)) = RoundUp(n)
    <2> DEFINE r == RoundUp(n)
    <2>1. r \in Nat /\ r % 16 = 0 /\ r + 15 < WORD
      BY <1>1, <1>3
    <2> HIDE DEF r
    <2>2. RoundUp(r) = (r + 15) - ((r + 15) % 16)
      BY <2>1, <1>1 DEF RoundUp, Wrap
    <2>3. RoundUp(r) = r
      BY <2>1, <2>2
    <2> QED
      BY <2>3 DEF r
  <1> QED
    BY <1>1, <1>3, <1>4

(* Cutting chunk c after s bytes keeps the list a list.                    *)
LEMMA SplitList ==
    ASSUME NEW sz, NEW nx, Shaped(sz, nx), Linked(sz, nx),
           NEW c \in DOMAIN sz, NEW s \in Nat, s % ALIGN = 0,
           sz[c] - s > MIN_CHUNK_SIZE
    PROVE  /\ Block(c) + s \notin DOMAIN sz
           /\ Block(c) + s \in Slots
           /\ DOMAIN SplitSize(sz, c, s) = DOMAIN sz \cup {Block(c) + s}
           /\ SplitSize(sz, c, s)[c] = s
           /\ SplitNext(nx, c, s)[c] = Block(c) + s
           /\ SplitNext(nx, c, s)[Block(c) + s] = nx[c]
           /\ \A d \in DOMAIN sz : d # c => /\ SplitSize(sz, c, s)[d] = sz[d]
                                            /\ SplitNext(nx, c, s)[d] = nx[d]
           /\ Shaped(SplitSize(sz, c, s), SplitNext(nx, c, s))
           /\ Linked(SplitSize(sz, c, s), SplitNext(nx, c, s))
  <1> USE HeapAssumption
  <1> DEFINE n == Block(c) + s
             sz2 == SplitSize(sz, c, s)
             nx2 == SplitNext(nx, c, s)
  <1>0. /\ n = Block(c) + s
        /\ sz2 = With(With(sz, n, sz[c] - s - HDR), c, s)
        /\ nx2 = With(With(nx, n, nx[c]), c, n)
    BY DEF SplitSize, SplitNext
  <1> HIDE DEF n, sz2, nx2
  <1>1. /\ c \in HEAP_START .. HEAP_END - 1 /\ c % 16 = 0
        /\ sz[c] \in Nat /\ sz[c] % 16 = 0
    BY DEF Shaped, Slots
  <1>2. n \in Nat /\ n \in Slots /\ c < n /\ n < Block(c) + sz[c] /\ n + 32 <= Block(c) + sz[c]
    BY <1>0, <1>1 DEF Block, Linked, Slots
  <1>3. \A d \in DOMAIN sz : d \in Nat /\ d # 0 /\ (d <= c \/ Block(c) + sz[c] <= d)
    BY <1>1 DEF Linked, Shaped, Slots, Block
  <1>4. n \notin DOMAIN sz /\ n # c
    BY <1>1, <1>2, <1>3 DEF Block
  <1>5. /\ DOMAIN sz2 = DOMAIN sz \cup {n}
        /\ DOMAIN nx2 = DOMAIN sz \cup {n}
        /\ sz2[c] = s /\ nx2[c] = n
        /\ sz2[n] = sz[c] - s - 32 /\ nx2[n] = nx[c]
        /\ \A d \in DOMAIN sz : d # c => sz2[d] = sz[d] /\ nx2[d] = nx[d]
    BY <1>0, <1>4 DEF With, Shaped
  <1>6. Shaped(sz2, nx2)
    BY <1>1, <1>2, <1>5 DEF Shaped
  <1>7. Linked(sz2, nx2)
    <2>1. ASSUME NEW e \in DOMAIN sz2
          PROVE  /\ Block(e) + sz2[e] <= HEAP_END
                 /\ nx2[e] # NULL => nx2[e] \in DOMAIN sz2 /\ Block(e) + sz2[e] <= nx2[e]
                 /\ \A d \in DOMAIN sz2 : e < d => nx2[e] # NULL /\ nx2[e] <= d
      <3>1. CASE e = c
        BY <3>1, <1>0, <1>1, <1>2, <1>3, <1>5 DEF Linked, Block
      <3>2. CASE e = n
        BY <3>2, <1>0, <1>1, <1>2, <1>3, <1>5 DEF Linked, Block
      <3>3. CASE e # c /\ e # n
        BY <3>3, <2>1, <1>1, <1>2, <1>3, <1>5 DEF Linked, Block, Shaped
      <3> QED
        BY <3>1, <3>2, <3>3
    <2> QED
      BY <2>1, <1>5 DEF Linked
  <1> QED
    BY <1>2, <1>4, <1>5, <1>6, <1>7 DEF n, sz2, nx2

(* Joining chunk c with its successor keeps the list a list.               *)
LEMMA MergeList ==
    ASSUME NEW sz, NEW nx, Shaped(sz, nx), Linked(sz, nx),
           NEW c \in DOMAIN sz, NEW m, m = nx[c], m # NULL
    PROVE  /\ m \in DOMAIN sz
           /\ c < m
           /\ DOMAIN MergeSize(sz, c, m) = DOMAIN sz \ {m}
           /\ \A d \in DOMAIN sz : c < d => m <= d
           /\ \A d \in DOMAIN sz : d # c /\ d # m
                  => MergeNext(nx, c, m)[d] = nx[d] /\ MergeSize(sz, c, m)[d] = sz[d]
           /\ Shaped(MergeSize(sz, c, m), MergeNext(nx, c, m))
           /\ Linked(MergeSize(sz, c, m), MergeNext(nx, c, m))
  <1> USE HeapAssumption
  <1> DEFINE sz2 == MergeSize(sz, c, m)
             nx2 == MergeNext(nx, c, m)
  <1>0. /\ sz2 = With(Without(sz, m), c, sz[c] + HDR + sz[m])
        /\ nx2 = With(Without(nx, m), c, nx[m])
    BY DEF MergeSize, MergeNext
  <1> HIDE DEF sz2, nx2
  <1>1. /\ c \in Nat /\ HEAP_START <= c
        /\ sz[c] \in Nat /\ sz[c] % 16 = 0
        /\ m \in DOMAIN sz
    BY DEF Shaped, Slots, Linked
  <1>2. /\ m \in Nat /\ sz[m] \in Nat /\ sz[m] % 16 = 0
        /\ Block(c) + sz[c] <= m /\ c < m
    BY <1>1 DEF Shaped, Slots, Linked, Block
  <1>3. \A d \in DOMAIN sz : /\ d \in Nat /\ sz[d] \in Nat
                             /\ c < d => m <= d
    BY DEF Linked, Shaped, Slots
  <1>4. /\ DOMAIN sz2 = DOMAIN sz \ {m}
        /\ DOMAIN nx2 = DOMAIN sz \ {m}
        /\ sz2[c] = sz[c] + 32 + sz[m] /\ nx2[c] = nx[m]
        /\ \A d \in DOMAIN sz : d # c /\ d # m => sz2[d] = sz[d] /\ nx2[d] = nx[d]
    BY <1>0, <1>1, <1>2 DEF With, Without, Shaped
  <1>5. Shaped(sz2, nx2)
    BY <1>1, <1>2, <1>4 DEF Shaped
  <1>6. Linked(sz2, nx2)
    <2>1. ASSUME NEW e \in DOMAIN sz2
          PROVE  /\ Block(e) + sz2[e] <= HEAP_END
                 /\ nx2[e] # NULL => nx2[e] \in DOMAIN sz2 /\ Block(e) + sz2[e] <= nx2[e]
                 /\ \A d \in DOMAIN sz2 : e < d => nx2[e] # NULL /\ nx2[e] <= d
      <3>1. CASE e = c
        BY <3>1, <1>1, <1>2, <1>3, <1>4 DEF Linked, Block
      <3>2. CASE e # c
        <4>1. e \in DOMAIN sz /\ e # m /\ e \in Nat /\ sz[e] \in Nat
          BY <1>3, <1>4
        <4>2. nx[e] # m
          BY <3>2, <4>1, <1>1, <1>2, <1>3 DEF Linked, Block
        <4> QED
          BY <3>2, <4>1, <4>2, <1>4 DEF Linked, Block
      <3> QED
        BY <3>1, <3>2
    <2>2. HEAP_START \in DOMAIN sz2
      BY <1>1, <1>2, <1>4 DEF Linked
    <2> QED
      BY <2>1, <2>2 DEF Linked
  <1> QED
    BY <1>1, <1>2, <1>3, <1>4, <1>5, <1>6 DEF sz2, nx2

(* What extending chunk c by x bytes of its successor m, whose header      *)
(* moves to p, does to the list.                                           *)
Extended(sz, nx, c, m, x, p) ==
    /\ m \in DOMAIN sz
    /\ c < m /\ m < p
    /\ p \notin DOMAIN sz
    /\ p \in Slots
    /\ DOMAIN ExtendSize(sz, c, m, x, p) = (DOMAIN sz \ {m}) \cup {p}
    /\ ExtendSize(sz, c, m, x, p)[c] = sz[c] + x
    /\ ExtendNext(nx, c, m, p)[c] = p
    /\ ExtendNext(nx, c, m, p)[p] = nx[m]
    /\ \A d \in DOMAIN sz : d # c /\ d # m
           => /\ ExtendNext(nx, c, m, p)[d] = nx[d]
              /\ ExtendSize(sz, c, m, x, p)[d] = sz[d]
              /\ nx[d] # m
    /\ Shaped(ExtendSize(sz, c, m, x, p), ExtendNext(nx, c, m, p))
    /\ Linked(ExtendSize(sz, c, m, x, p), ExtendNext(nx, c, m, p))

(* Extending chunk c by x bytes of its successor m, whose header moves to  *)
(* p, keeps the list a list.                                               *)
LEMMA ExtendList ==
    ASSUME NEW sz, NEW nx, Shaped(sz, nx), Linked(sz, nx),
           NEW c \in DOMAIN sz, NEW m, m = nx[c], m # NULL,
           NEW x \in Nat, x % ALIGN = 0, sz[m] >= x + HDR,
           NEW p, p = m + HDR + x
    PROVE  Extended(sz, nx, c, m, x, p)
  <1> USE HeapAssumption
  <1> DEFINE sz2 == ExtendSize(sz, c, m, x, p)
             nx2 == ExtendNext(nx, c, m, p)
  <1> HIDE DEF sz2, nx2
  <1>1. /\ c \in Nat /\ HEAP_START <= c
        /\ sz[c] \in Nat /\ sz[c] % 16 = 0
        /\ m \in DOMAIN sz
    BY DEF Shaped, Slots, Linked
  <1>2. /\ m \in Nat /\ m % 16 = 0 /\ sz[m] \in Nat /\ sz[m] % 16 = 0
        /\ Block(c) + sz[c] <= m /\ c < m
    BY <1>1 DEF Shaped, Slots, Linked, Block
  <1>0. /\ sz2 = With(With(Without(sz, m), p, sz[m] - x - HDR), c, sz[c] + x)
        /\ nx2 = With(With(Without(nx, m), p, nx[m]), c, p)
    <2>1. Wrap(sz[m] - x - HDR) = sz[m] - x - HDR
      <3>1. sz[m] - x - 32 \in Nat /\ sz[m] - x - 32 < WORD
        BY <1>1, <1>2 DEF Linked, Block
      <3> QED
        BY <3>1 DEF Wrap
    <2> QED
      BY <2>1 DEF ExtendSize, ExtendNext, sz2, nx2
  <1>3. \A d \in DOMAIN sz : /\ d \in Nat /\ sz[d] \in Nat
                             /\ c < d => m <= d
                             /\ m < d => Block(m) + sz[m] <= d
    BY <1>1, <1>2 DEF Linked, Shaped, Slots, Block
  <1>4. p \in Nat /\ p \in Slots /\ m < p /\ p < Block(m) + sz[m]
    BY <1>1, <1>2 DEF Linked, Slots, Block
  <1>5. p \notin DOMAIN sz /\ p # c /\ p # m
    BY <1>2, <1>3, <1>4 DEF Block
  <1>6. /\ DOMAIN sz2 = (DOMAIN sz \ {m}) \cup {p}
        /\ DOMAIN nx2 = (DOMAIN sz \ {m}) \cup {p}
        /\ sz2[c] = sz[c] + x /\ nx2[c] = p
        /\ sz2[p] = sz[m] - x - 32 /\ nx2[p] = nx[m]
        /\ \A d \in DOMAIN sz : d # c /\ d # m => sz2[d] = sz[d] /\ nx2[d] = nx[d]
    BY <1>0, <1>1, <1>2, <1>5 DEF With, Without, Shaped
  <1>7. Shaped(sz2, nx2)
    BY <1>1, <1>2, <1>4, <1>6 DEF Shaped
  <1>8. \A d \in DOMAIN sz : d # c => nx[d] # m
    <2> SUFFICES ASSUME NEW d \in DOMAIN sz, d # c, nx[d] = m
                 PROVE  FALSE
      OBVIOUS
    <2>1. d \in Nat /\ sz[d] \in Nat /\ (c < d => m <= d)
      BY <1>3
    <2>2. Block(d) + sz[d] <= m
      BY DEF Linked
    <2>3. d < c => m <= c
      BY DEF Linked
    <2> QED
      BY <2>1, <2>2, <2>3, <1>1, <1>2 DEF Block
  <1>9. Linked(sz2, nx2)
    <2>1. ASSUME NEW e \in DOMAIN sz2
          PROVE  /\ Block(e) + sz2[e] <= HEAP_END
                 /\ nx2[e] # NULL => nx2[e] \in DOMAIN sz2 /\ Block(e) + sz2[e] <= nx2[e]
                 /\ \A d \in DOMAIN sz2 : e < d => nx2[e] # NULL /\ nx2[e] <= d
      <3>1. CASE e = c
        BY <3>1, <1>1, <1>2, <1>3, <1>4, <1>6 DEF Linked, Block
      <3>2. CASE e = p
        BY <3>2, <1>1, <1>2, <1>3, <1>4, <1>6 DEF Linked, Block
      <3>3. CASE e # c /\ e # p
        <4>1. e \in DOMAIN sz /\ e # m /\ e \in Nat /\ sz[e] \in Nat
          BY <3>3, <1>3, <1>6
        <4>2. /\ Block(e) + sz2[e] <= HEAP_END
              /\ nx2[e] # NULL => nx2[e] \in DOMAIN sz2 /\ Block(e) + sz2[e] <= nx2[e]
          BY <3>3, <4>1, <1>6, <1>8 DEF Linked
        <4>3. \A d \in DOMAIN sz : e < d => nx2[e] # NULL /\ nx2[e] <= d
          BY <3>3, <4>1, <1>6 DEF Linked
        <4>4. e < p => nx2[e] # NULL /\ nx2[e] <= p
          <5>1. e < p => e < c
            <6>1. c < e => m < e
              BY <4>1, <1>2, <1>3
            <6>2. c < e => p < e
              BY <6>1, <4>1, <1>2, <1>3, <1>4 DEF Block
            <6> QED
              BY <6>2, <3>3, <4>1, <1>1, <1>4
          <5>2. nx2[e] = nx[e] /\ nx[e] \in Slots \cup {NULL}
            BY <3>3, <4>1, <1>6 DEF Shaped
          <5>3. e < c => nx2[e] # NULL /\ nx2[e] <= c
            BY <4>3
          <5>4. nx2[e] \in Nat /\ c < p
            BY <5>2, <1>1, <1>2, <1>4 DEF Slots
          <5> QED
            BY <5>1, <5>3, <5>4, <1>1, <1>4
        <4> QED
          BY <4>2, <4>3, <4>4, <1>6
      <3> QED
        BY <3>1, <3>2, <3>3
    <2>2. HEAP_START \in DOMAIN sz2
      BY <1>1, <1>2, <1>6 DEF Linked
    <2> QED
      BY <2>1, <2>2 DEF Linked
  <1> QED
    BY <1>1, <1>2, <1>4, <1>5, <1>6, <1>7, <1>8, <1>9 DEF sz2, nx2, Extended
-----------------------------------------------------------------------------
(* What the invariant says of a block a client owns.                       *)
LEMMA LiveBlock ==
    ASSUME HeapInv, NEW p \in DOMAIN live
    PROVE  /\ pc # "boot"
           /\ p \in Nat /\ p # NULL /\ p % ALIGN = 0
           /\ Chunk(p) \in Slots /\ Chunk(p) \in chunks /\ Chunk(p) \in inuse
           /\ Block(Chunk(p)) = p /\ Chunk(p) < p
           /\ p \in HEAP_START .. HEAP_END
           /\ size[Chunk(p)] \in Nat
  <1>1. Chunk(p) \in inuse /\ Chunk(p) \in chunks /\ Chunk(p) \in Slots /\ pc # "boot"
    BY DEF HeapInv, MemInv, LiveInv, Shaped, chunks
  <1>2. size[Chunk(p)] \in Nat /\ Block(Chunk(p)) + size[Chunk(p)] <= HEAP_END
    BY <1>1 DEF HeapInv, MemInv, ListOK, Linked, Shaped, chunks
  <1>3. p \in Nat /\ p % 16 = 0
    BY HeapAssumption DEF HeapInv, LiveInv, Slots
  <1> QED
    BY <1>1, <1>2, <1>3, HeapAssumption DEF Slots, Chunk, Block

(* heap_init makes the heap one free chunk.                                *)
LEMMA InitStep == HeapInv /\ heap_init => HeapInv'
  <1> SUFFICES ASSUME HeapInv, heap_init
               PROVE  HeapInv'
    OBVIOUS
  <1> USE HeapAssumption DEF HeapInv, heap_init, chunks
  <1>1. DOMAIN size = {} /\ DOMAIN next = {} /\ DOMAIN live = {} /\ inuse = {}
    BY DEF MemInv, Shaped
  <1>2. /\ DOMAIN size' = {HEAP_START} /\ DOMAIN next' = {HEAP_START}
        /\ size'[HEAP_START] = AVAIL - 32 /\ next'[HEAP_START] = 0
    BY <1>1 DEF With
  <1>3. HEAP_START \in Slots /\ (AVAIL - 32) \in Nat /\ (AVAIL - 32) % 16 = 0
    BY DEF Slots
  <1>4. MemInv'
    <2>1. Shaped(size', next')
      BY <1>2, <1>3 DEF Shaped
    <2>2. Linked(size', next')
      BY <1>2 DEF Linked, Block
    <2>3. /\ size' = [c \in DOMAIN size' |-> size'[c]]
          /\ next' = [c \in DOMAIN next' |-> next'[c]]
      BY <1>1 DEF With
    <2> QED
      BY <1>1, <2>1, <2>2, <2>3 DEF MemInv, ListOK
  <1>5. LiveInv'
    BY <1>1 DEF LiveInv, DoubleFreeIgnored
  <1>6. CallInv'
    BY <1>2 DEF CallInv, MergedBelow
  <1> QED
    BY <1>4, <1>5, <1>6

(* Starting the search of kalloc, or turning a request down.               *)
LEMMA SearchStarts ==
    ASSUME NoWrap, HeapInv, pc = "idle", NEW n \in Sizes, NEW m,
           m = n \/ m = RoundUp(n), NEW old \in DOMAIN live \cup {NULL},
           StartSearch(m, n, old)
    PROVE  HeapInv'
  <1> USE DEF HeapInv, StartSearch, mem, chunks
  <1>1. RoundUp(m) = RoundUp(n)
    BY RoundUpFacts
  <1>2. MemInv'
    BY DEF MemInv, ListOK
  <1>3. LiveInv'
    BY DEF LiveInv, DoubleFreeIgnored
  <1>4. CallInv'
    <2>1. CASE RoundUp(m) > AVAIL
      BY <2>1 DEF CallInv, MergedBelow, Fits
    <2>2. CASE ~(RoundUp(m) > AVAIL)
      <3>1. /\ call' = [size |-> RoundUp(n), want |-> n, old |-> old]
            /\ cur' = HEAP_START /\ pc' = "search"
            /\ size' = size /\ next' = next /\ inuse' = inuse /\ live' = live
        BY <2>2, <1>1
      <3>2. /\ RoundUp(n) \in Nat /\ RoundUp(n) % 16 = 0 /\ RoundUp(n) < WORD
            /\ n <= RoundUp(n) /\ n \in Nat /\ n \in 0 .. WORD - 1
        BY RoundUpFacts, HeapAssumption
      <3>3. \A c \in DOMAIN size : ~(c < HEAP_START) /\ HEAP_START # 0
        BY HeapAssumption DEF MemInv, Shaped, Slots
      <3>4. HEAP_START \in DOMAIN size
        BY DEF MemInv, ListOK, Linked
      <3> QED
        BY <3>1, <3>2, <3>3, <3>4 DEF CallInv, MergedBelow, Fits
    <2> QED
      BY <2>1, <2>2
  <1> QED
    BY <1>2, <1>3, <1>4
-----------------------------------------------------------------------------
(* A step of the search leaves only chunks behind that do not fit.         *)
LEMMA SearchNextStep == HeapInv /\ SearchNext => HeapInv'
  <1> SUFFICES ASSUME HeapInv, SearchNext
               PROVE  HeapInv'
    OBVIOUS
  <1> USE DEF HeapInv, SearchNext, mem, chunks
  <1>1. MemInv'
    BY DEF MemInv, ListOK
  <1>2. LiveInv'
    BY DEF LiveInv, DoubleFreeIgnored
  <1>3. /\ cur \in DOMAIN size /\ cur' = next[cur]
        /\ \A c \in DOMAIN size : c \in Nat
        /\ cur' \in DOMAIN size \cup {NULL}
        /\ \A c \in DOMAIN size : cur < c => cur' # NULL /\ cur' <= c
    BY HeapAssumption DEF CallInv, MemInv, ListOK, Linked, Shaped, Slots
  <1>4. \A c \in DOMAIN size : cur' = NULL \/ c < cur' => c = cur \/ c < cur
    BY <1>3
  <1>5. CallInv'
    BY <1>3, <1>4 DEF CallInv, MergedBelow, Fits
  <1> QED
    BY <1>1, <1>2, <1>5

(* A search that fails changes no memory.                                  *)
LEMMA SearchFailStep == HeapInv /\ SearchFail => HeapInv'
  <1> SUFFICES ASSUME HeapInv, SearchFail
               PROVE  HeapInv'
    OBVIOUS
  <1> USE DEF HeapInv, SearchFail, mem, chunks
  <1>1. MemInv'
    BY DEF MemInv, ListOK
  <1>2. LiveInv'
    BY DEF LiveInv, DoubleFreeIgnored
  <1>3. CallInv'
    BY HeapAssumption DEF CallInv, MergedBelow, NoCall
  <1> QED
    BY <1>1, <1>2, <1>3

(* Taking a chunk, cutting it if it is large, and freeing krealloc's old   *)
(* block.                                                                  *)
LEMMA SearchTakeStep == HeapInv /\ SearchTake => HeapInv'
  <1> SUFFICES ASSUME HeapInv, SearchTake
               PROVE  HeapInv'
    OBVIOUS
  <1> USE HeapAssumption
  <1> DEFINE leftover == size[cur] - call.size
             split == leftover > MIN_CHUNK_SIZE
             new == Block(cur) + call.size
             taken == (inuse \ IF split THEN {new} ELSE {}) \cup {cur}
             old == call.old
  <1>1. /\ cur \in DOMAIN size /\ cur \notin inuse /\ call.size <= size[cur]
        /\ cur \in Nat /\ cur # NULL /\ cur \in Slots
        /\ size[cur] \in Nat /\ call.size \in Nat /\ call.size % 16 = 0
        /\ Block(cur) + size[cur] <= HEAP_END
        /\ Shaped(size, next) /\ Linked(size, next) /\ pc = "search"
        /\ inuse \subseteq DOMAIN size
    BY DEF HeapInv, SearchTake, CallInv, MemInv, ListOK, Linked, Fits, Shaped,
           Slots, chunks
  <1>2. \A c \in DOMAIN size : c \notin inuse /\ next[c] # NULL => next[c] \in inuse
    BY <1>1 DEF HeapInv, CallInv, MergedBelow, MemInv, Shaped, Slots, chunks
  <1>3. /\ Shaped(size', next') /\ Linked(size', next')
        /\ DOMAIN size \subseteq DOMAIN size'
        /\ taken = inuse \cup {cur}
        /\ \A c \in DOMAIN size : c # cur => size'[c] = size[c]
        /\ call.size <= size'[cur] /\ size'[cur] \in Nat
        /\ \A c \in DOMAIN size' : c \notin taken /\ next'[c] # NULL
                                       => next'[c] \in taken
    <2>1. CASE split
      <3>1. /\ size' = SplitSize(size, cur, call.size)
            /\ next' = SplitNext(next, cur, call.size)
        BY <2>1 DEF SearchTake
      <3>2. /\ new \notin DOMAIN size
            /\ DOMAIN size' = DOMAIN size \cup {new}
            /\ size'[cur] = call.size /\ next'[cur] = new /\ next'[new] = next[cur]
            /\ \A d \in DOMAIN size : d # cur => size'[d] = size[d] /\ next'[d] = next[d]
            /\ Shaped(size', next') /\ Linked(size', next')
        <4>1. /\ size[cur] - call.size > MIN_CHUNK_SIZE
              /\ call.size % ALIGN = 0
          BY <2>1, <1>1
        <4> QED
          BY <3>1, <4>1, <1>1, SplitList
      <3>3. taken = inuse \cup {cur}
        BY <3>2, <1>1
      <3> QED
        BY <3>2, <3>3, <1>1, <1>2
    <2>2. CASE ~split
      <3>1. size' = size /\ next' = next
        BY <2>2 DEF SearchTake
      <3>2. taken = inuse \cup {cur}
        BY <2>2
      <3> QED
        BY <3>1, <3>2, <1>1, <1>2
    <2> QED
      BY <2>1, <2>2
  <1>4. /\ live' = With(Without(live, old), Block(cur), call.want)
        /\ FreeChunk(old, taken)
        /\ call' = NoCall
        /\ leaked' = leaked
        /\ freed' \subseteq Untouched(cur, Block(cur) + size'[cur]
                                  + (IF split THEN HDR ELSE 0))
                     \cup IF Freeable(old, taken) THEN {old} ELSE {}
    BY DEF SearchTake
  <1> HIDE DEF taken, old, split, leftover, new
  <1>5. /\ DOMAIN live' = (DOMAIN live \ {old}) \cup {Block(cur)}
        /\ live'[Block(cur)] = call.want
        /\ \A p \in DOMAIN live \ {old} : p # Block(cur) => live'[p] = live[p]
        /\ live' = [p \in DOMAIN live' |-> live'[p]]
    BY <1>4 DEF With, Without
  <1>6. \/ /\ inuse' = taken \ {Chunk(old)}
           /\ Chunk(old) \in taken /\ HEAP_START <= old /\ old < HEAP_END
           /\ pc' = "coalesce" /\ cur' = HEAP_START
           /\ Freeable(old, taken)
        \/ /\ inuse' = taken
           /\ pc' = "idle" /\ cur' = NULL
           /\ old = NULL \/ old = HEAP_END
           /\ ~Freeable(old, taken)
    <2>1. old = NULL \/ old \in DOMAIN live
      BY DEF HeapInv, CallInv, old
    <2>2. CASE old = NULL
      BY <2>2, <1>4 DEF FreeChunk, Freeable
    <2>3. CASE old \in DOMAIN live
      <3>1. Chunk(old) \in taken /\ old \in HEAP_START .. HEAP_END
        BY <2>3, <1>3, LiveBlock
      <3> QED
        BY <3>1, <1>4 DEF FreeChunk, Freeable
    <2> QED
      BY <2>1, <2>2, <2>3
  <1>7. old # NULL => /\ old \in DOMAIN live /\ old \in Nat /\ old \in Slots \cup {HEAP_END}
                      /\ Chunk(old) \in inuse /\ Block(Chunk(old)) = old
    <2>1. old # NULL => old \in DOMAIN live
      BY DEF HeapInv, CallInv, old
    <2> QED
      BY <2>1, LiveBlock DEF HeapInv, LiveInv
  <1>8. MemInv'
    <2>1. /\ size' = [c \in DOMAIN size' |-> size'[c]]
          /\ next' = [c \in DOMAIN next' |-> next'[c]]
      BY DEF SearchTake, HeapInv, MemInv, With, SplitSize, SplitNext
    <2>2. inuse' \subseteq DOMAIN size'
      BY <1>1, <1>3, <1>6
    <2>3. pc' # "boot"
      BY <1>6
    <2> QED
      BY <2>1, <2>2, <2>3, <1>3 DEF MemInv, ListOK, chunks
  <1>9. LiveInv'
    <2>1. Block(cur) \in Slots \cup {HEAP_END} /\ Chunk(Block(cur)) = cur
      BY <1>1 DEF Block, Chunk, Slots
    <2>2. cur \in inuse'
      BY <1>1, <1>3, <1>6, <1>7 DEF Chunk
    <2>3. ASSUME NEW p \in DOMAIN live, p # old
          PROVE  /\ p \in Slots \cup {HEAP_END} /\ Chunk(p) \in inuse' /\ p # Block(cur)
                 /\ live[p] \in Sizes /\ live[p] <= size'[Chunk(p)]
      <3>1. /\ Chunk(p) \in inuse /\ p \in Slots \cup {HEAP_END} /\ p \in Nat
            /\ live[p] \in Sizes /\ live[p] <= size[Chunk(p)]
        BY LiveBlock DEF HeapInv, LiveInv
      <3>2. Chunk(p) # cur /\ Chunk(p) \in DOMAIN size
        BY <3>1, <1>1
      <3>3. old # NULL => Chunk(p) # Chunk(old)
        BY <2>3, <3>1, <1>7 DEF Chunk
      <3>4. Chunk(p) \in inuse'
        BY <3>1, <3>3, <1>3, <1>6
      <3> QED
        BY <3>1, <3>2, <3>4, <1>3, <2>1
    <2>4. call.want \in Sizes /\ call.want <= size'[cur]
      BY <1>1, <1>3 DEF HeapInv, CallInv
    <2>5. ASSUME NEW c \in inuse'
          PROVE  Block(c) \in DOMAIN live' \/ Block(c) = HEAP_END
      <3>1. CASE c = cur
        BY <3>1, <1>5
      <3>2. CASE c # cur
        <4>1. c \in inuse /\ (Block(c) \in DOMAIN live \/ Block(c) = HEAP_END)
          BY <3>2, <1>3, <1>6 DEF HeapInv, LiveInv
        <4>2. Block(c) = old => old = HEAP_END
          BY <4>1, <1>1, <1>6, <1>7 DEF Block, Chunk, Shaped, Slots
        <4> QED
          BY <4>1, <4>2, <1>5
      <3> QED
        BY <3>1, <3>2
    <2>6. ASSUME NEW p \in freed'
          PROVE  p \in Slots /\ Chunk(p) \notin inuse'
      <3>1. CASE p \in freed /\ p \in Untouched(cur, Block(cur) + size'[cur]
                                  + (IF split THEN HDR ELSE 0))
        <4>1. p \in Slots /\ Chunk(p) \notin inuse
          BY <3>1 DEF HeapInv, LiveInv, DoubleFreeIgnored
        <4>2. Chunk(p) # cur
          BY <3>1, <4>1, <1>1, <1>3 DEF Untouched, Chunk, Block, Slots
        <4> QED
          BY <4>1, <4>2, <1>3, <1>6
      <3>2. CASE Freeable(old, taken) /\ p = old
        <4>1. p \in Slots
          BY <3>2, <1>6, <1>7
        <4> QED
          BY <3>2, <4>1, <1>6
      <3> QED
        BY <3>1, <3>2, <1>4 DEF Untouched
    <2> QED
      BY <2>1, <2>2, <2>3, <2>4, <2>5, <2>6, <1>5 DEF LiveInv, DoubleFreeIgnored
  <1>10. CallInv'
    <2>1. \A c \in DOMAIN size' : ~(c < HEAP_START)
      BY <1>3 DEF Shaped, Slots
    <2>2. HEAP_START \in DOMAIN size'
      BY <1>3 DEF Linked
    <2>3. CASE pc' = "coalesce"
      BY <2>1, <2>2, <2>3, <1>4, <1>6 DEF CallInv, NoCall, MergedBelow, chunks
    <2>4. CASE pc' = "idle"
      BY <2>4, <1>3, <1>4, <1>6 DEF CallInv, NoCall, MergedBelow, chunks
    <2> QED
      BY <2>3, <2>4, <1>6
  <1> QED
    BY <1>4, <1>6, <1>8, <1>9, <1>10 DEF HeapInv
-----------------------------------------------------------------------------
(* kfree gives back a block the client owns, and nothing else.             *)
LEMMA KfreeStep ==
    ASSUME HeapInv, NEW p \in DOMAIN live \cup freed \cup {NULL, HEAP_END}, kfree(p)
    PROVE  HeapInv'
  <1> USE HeapAssumption
  <1>1. /\ pc = "idle" /\ size' = size /\ next' = next /\ call' = call /\ leaked' = leaked
        /\ DOMAIN live' = DOMAIN live \ {p}
        /\ live' = [q \in DOMAIN live' |-> live'[q]]
        /\ \A q \in DOMAIN live' : live'[q] = live[q]
    BY DEF kfree, Without
  <1>2. \/ /\ inuse' = inuse \ {Chunk(p)} /\ Chunk(p) \in inuse
           /\ p \in Slots /\ freed' = freed \cup {p}
           /\ pc' = "coalesce" /\ cur' = HEAP_START
        \/ /\ inuse' = inuse /\ pc' = "idle" /\ cur' = NULL
           /\ freed' = freed
           /\ p \in DOMAIN live => p = HEAP_END
    <2>1. p \in Slots \cup {NULL, HEAP_END}
      BY DEF HeapInv, LiveInv
    <2>2. p \in DOMAIN live => Chunk(p) \in inuse /\ p \in HEAP_START .. HEAP_END
      BY LiveBlock
    <2>3. CASE Freeable(p, inuse)
      BY <2>1, <2>3 DEF kfree, FreeChunk, Freeable
    <2>4. CASE ~Freeable(p, inuse)
      BY <2>2, <2>4 DEF kfree, FreeChunk, Freeable
    <2> QED
      BY <2>3, <2>4
  <1>3. MemInv'
    BY <1>1, <1>2 DEF HeapInv, MemInv, ListOK, chunks
  <1>4. LiveInv'
    <2>1. ASSUME NEW q \in DOMAIN live'
          PROVE  /\ q \in Slots \cup {HEAP_END} /\ Chunk(q) \in inuse'
                 /\ live'[q] \in Sizes /\ live'[q] <= size'[Chunk(q)]
      <3>1. q \in DOMAIN live /\ q # p /\ q \in Nat
        BY <1>1, LiveBlock
      <3>2. Chunk(q) \in inuse'
        BY <3>1, <1>2 DEF HeapInv, LiveInv, Chunk, Slots
      <3> QED
        BY <3>1, <3>2, <1>1 DEF HeapInv, LiveInv
    <2>2. ASSUME NEW c \in inuse'
          PROVE  Block(c) \in DOMAIN live' \/ Block(c) = HEAP_END
      <3>1. c \in inuse /\ c \in Nat
        BY <1>2 DEF HeapInv, MemInv, Shaped, Slots, chunks
      <3>2. Block(c) \in DOMAIN live \/ Block(c) = HEAP_END
        BY <3>1 DEF HeapInv, LiveInv
      <3>3. Block(c) = p => p = HEAP_END \/ p \notin DOMAIN live
        BY <3>1, <1>2 DEF Block, Chunk
      <3> QED
        BY <3>2, <3>3, <1>1
    <2>3. freed' \subseteq Slots /\ DoubleFreeIgnored'
      BY <1>2 DEF HeapInv, LiveInv, DoubleFreeIgnored
    <2> QED
      BY <2>1, <2>2, <2>3, <1>1 DEF LiveInv
  <1>5. CallInv'
    <2>1. HEAP_START \in DOMAIN size /\ \A c \in DOMAIN size : ~(c < HEAP_START)
      BY <1>1 DEF HeapInv, MemInv, ListOK, Linked, Shaped, Slots
    <2> QED
      BY <2>1, <1>1, <1>2 DEF HeapInv, CallInv, NoCall, MergedBelow, chunks
  <1> QED
    BY <1>1, <1>2, <1>3, <1>4, <1>5 DEF HeapInv

(* Joining two free chunks touches no block that is owned.                 *)
LEMMA MergeStep == HeapInv /\ CoalesceMerge => HeapInv'
  <1> SUFFICES ASSUME HeapInv, CoalesceMerge
               PROVE  HeapInv'
    OBVIOUS
  <1> DEFINE m == next[cur]
  <1>1. /\ pc = "coalesce" /\ pc' = pc /\ cur' = cur /\ call' = call /\ live' = live
        /\ freed' = freed /\ leaked' = leaked /\ inuse' = inuse
        /\ cur \notin inuse /\ m \notin inuse /\ m # NULL
        /\ size' = MergeSize(size, cur, m) /\ next' = MergeNext(next, cur, m)
    BY DEF CoalesceMerge
  <1>2. cur \in DOMAIN size /\ Shaped(size, next) /\ Linked(size, next)
    BY <1>1 DEF HeapInv, CallInv, MemInv, ListOK, chunks
  <1>3. /\ m \in DOMAIN size /\ cur < m
        /\ DOMAIN size' = DOMAIN size \ {m}
        /\ \A d \in DOMAIN size : d # cur /\ d # m
               => next'[d] = next[d] /\ size'[d] = size[d]
        /\ Shaped(size', next') /\ Linked(size', next')
    BY <1>1, <1>2, MergeList
  <1> HIDE DEF m
  <1>4. MemInv'
    <2>1. /\ size' = [c \in DOMAIN size' |-> size'[c]]
          /\ next' = [c \in DOMAIN next' |-> next'[c]]
      BY <1>1 DEF MergeSize, MergeNext, With
    <2> QED
      BY <2>1, <1>1, <1>3 DEF HeapInv, MemInv, ListOK, chunks
  <1>5. LiveInv'
    <2>1. \A c \in inuse : c \in DOMAIN size /\ size'[c] = size[c]
      BY <1>1, <1>3 DEF HeapInv, MemInv, chunks
    <2> QED
      BY <2>1, <1>1 DEF HeapInv, LiveInv, DoubleFreeIgnored
  <1>6. CallInv'
    <2>1. \A c \in DOMAIN size : c \in Nat
      BY <1>2, HeapAssumption DEF Shaped, Slots
    <2>2. MergedBelow(cur)'
      BY <2>1, <1>1, <1>2, <1>3 DEF HeapInv, CallInv, MergedBelow, chunks
    <2> QED
      BY <2>1, <2>2, <1>1, <1>2, <1>3 DEF HeapInv, CallInv, chunks
  <1> QED
    BY <1>1, <1>4, <1>5, <1>6 DEF HeapInv

(* The coalescing loop moves on past a chunk that is in use, or before one.*)
LEMMA CoalesceNextStep == HeapInv /\ CoalesceNext => HeapInv'
  <1> SUFFICES ASSUME HeapInv, CoalesceNext
               PROVE  HeapInv'
    OBVIOUS
  <1> USE DEF HeapInv, CoalesceNext, mem, chunks
  <1>1. MemInv'
    BY DEF MemInv, ListOK
  <1>2. LiveInv'
    BY DEF LiveInv, DoubleFreeIgnored
  <1>3. /\ cur \in DOMAIN size /\ cur' = next[cur] /\ cur' \in DOMAIN size
        /\ \A c \in DOMAIN size : c \in Nat
        /\ \A c \in DOMAIN size : cur < c => cur' <= c
    BY HeapAssumption DEF CallInv, MemInv, ListOK, Linked, Shaped, Slots
  <1>4. \A c \in DOMAIN size : c < cur' => c = cur \/ c < cur
    BY <1>3
  <1>5. CallInv'
    BY <1>3, <1>4 DEF CallInv, MergedBelow
  <1> QED
    BY <1>1, <1>2, <1>5

(* At the end of the list no two free chunks are neighbours.               *)
LEMMA CoalesceDoneStep == HeapInv /\ CoalesceDone => HeapInv'
  <1> SUFFICES ASSUME HeapInv, CoalesceDone
               PROVE  HeapInv'
    OBVIOUS
  <1> USE DEF HeapInv, CoalesceDone, mem, chunks
  <1>1. MemInv'
    BY DEF MemInv, ListOK
  <1>2. LiveInv'
    BY DEF LiveInv, DoubleFreeIgnored
  <1>3. /\ cur \in DOMAIN size /\ next[cur] = NULL
        /\ \A c \in DOMAIN size : c \in Nat
        /\ \A c \in DOMAIN size : ~(cur < c)
    BY HeapAssumption DEF CallInv, MemInv, ListOK, Linked, Shaped, Slots
  <1>4. \A c \in DOMAIN size : c = cur \/ c < cur
    BY <1>3
  <1>5. CallInv'
    BY <1>3, <1>4 DEF CallInv, MergedBelow
  <1> QED
    BY <1>1, <1>2, <1>5
-----------------------------------------------------------------------------
(* Extending a block in place takes the bytes from a free chunk, and the   *)
(* header it moves stays clear of every block.                             *)
LEMMA ExtendStep ==
    ASSUME NoWrap, HeapInv, NEW p \in DOMAIN live, NEW n \in Sizes,
           extendChunkInPlace(p, n)
    PROVE  HeapInv'
  <1> USE HeapAssumption
  <1> DEFINE oc == Chunk(p)
             nxt == next[oc]
             ex == RoundUp(n) - size[oc]
             sp == Wrap(nxt + HDR + ex)
  <1>1. /\ oc \in DOMAIN size /\ oc \in inuse /\ pc = "idle" /\ p \in Nat
        /\ size[oc] \in Nat /\ size[oc] % 16 = 0
        /\ Shaped(size, next) /\ Linked(size, next) /\ inuse \subseteq DOMAIN size
    BY LiveBlock DEF HeapInv, MemInv, ListOK, Shaped, chunks, extendChunkInPlace, Grows
  <1>2. /\ RoundUp(n) \in Nat /\ RoundUp(n) % 16 = 0 /\ n <= RoundUp(n)
        /\ RoundUp(n) + 32 < WORD /\ n \in Nat
    BY RoundUpFacts
  <1>3. /\ nxt # NULL /\ nxt \notin inuse /\ size[oc] < RoundUp(n)
        /\ size[nxt] >= Wrap(ex + HDR)
    BY DEF extendChunkInPlace, Grows, CanExtend
  <1>4. ex \in Nat /\ ex % 16 = 0 /\ size[nxt] >= ex + 32 /\ size[oc] + ex = RoundUp(n)
    <2>1. ex \in Nat /\ ex % 16 = 0 /\ size[oc] + ex = RoundUp(n)
      BY <1>1, <1>2, <1>3
    <2>2. ex <= RoundUp(n)
      BY <1>1, <1>2
    <2> HIDE DEF ex
    <2>3. Wrap(ex + HDR) = ex + 32
      BY <2>1, <2>2, <1>2 DEF Wrap
    <2> QED
      BY <2>1, <2>3, <1>3
  <1>5. nxt \in DOMAIN size /\ nxt \in Nat /\ size[nxt] \in Nat /\ nxt + 32 + size[nxt] <= HEAP_END
    BY <1>1, <1>3 DEF Linked, Shaped, Slots, Block
  <1>6. sp = nxt + HDR + ex
    <2> HIDE DEF nxt, ex
    <2> QED
      BY <1>4, <1>5 DEF Wrap
  <1>7. /\ size' = ExtendSize(size, oc, nxt, ex, sp)
        /\ next' = ExtendNext(next, oc, nxt, sp)
        /\ inuse' = inuse \ {sp} /\ live' = With(live, p, n)
        /\ freed' = Untouched(oc, sp + HDR)
        /\ leaked' = leaked + HDR /\ pc' = pc /\ cur' = cur /\ call' = call
    BY DEF extendChunkInPlace
  <1> HIDE DEF oc, nxt, ex, sp
  <1>8. /\ sp \notin DOMAIN size
        /\ DOMAIN size' = (DOMAIN size \ {nxt}) \cup {sp}
        /\ size'[oc] = size[oc] + ex /\ next'[oc] = sp /\ next'[sp] = next[nxt]
        /\ \A d \in DOMAIN size : d # oc /\ d # nxt
               => next'[d] = next[d] /\ size'[d] = size[d] /\ next[d] # nxt
        /\ Shaped(size', next') /\ Linked(size', next')
    <2>1. nxt = next[oc]
      BY DEF nxt
    <2>2. size[nxt] >= ex + HDR /\ ex % ALIGN = 0 /\ ex \in Nat
      BY <1>4
    <2>3. /\ sp \notin DOMAIN size
          /\ DOMAIN ExtendSize(size, oc, nxt, ex, sp) = (DOMAIN size \ {nxt}) \cup {sp}
          /\ ExtendSize(size, oc, nxt, ex, sp)[oc] = size[oc] + ex
          /\ ExtendNext(next, oc, nxt, sp)[oc] = sp
          /\ ExtendNext(next, oc, nxt, sp)[sp] = next[nxt]
          /\ \A d \in DOMAIN size : d # oc /\ d # nxt
                 => /\ ExtendNext(next, oc, nxt, sp)[d] = next[d]
                    /\ ExtendSize(size, oc, nxt, ex, sp)[d] = size[d]
                    /\ next[d] # nxt
          /\ Shaped(ExtendSize(size, oc, nxt, ex, sp), ExtendNext(next, oc, nxt, sp))
          /\ Linked(ExtendSize(size, oc, nxt, ex, sp), ExtendNext(next, oc, nxt, sp))
      <3>1. Shaped(size, next) /\ Linked(size, next) /\ oc \in DOMAIN size
        BY <1>1
      <3>2. nxt # NULL
        BY <1>3
      <3>3. Extended(size, next, oc, nxt, ex, sp)
        BY ONLY <2>1, <2>2, <3>1, <3>2, <1>6, ExtendList
      <3> QED
        BY <3>3 DEF Extended
    <2> QED
      BY <2>3, <1>7
  <1>9. inuse' = inuse
    BY <1>1, <1>7, <1>8
  <1>10. MemInv'
    <2>1. /\ size' = [d \in DOMAIN size' |-> size'[d]]
          /\ next' = [d \in DOMAIN next' |-> next'[d]]
      BY <1>7 DEF ExtendSize, ExtendNext, With
    <2> QED
      BY <2>1, <1>1, <1>3, <1>7, <1>8, <1>9 DEF MemInv, ListOK, chunks
  <1>11. LiveInv'
    <2>1. /\ DOMAIN live' = DOMAIN live /\ live'[p] = n
          /\ \A q \in DOMAIN live : q # p => live'[q] = live[q]
          /\ live' = [q \in DOMAIN live' |-> live'[q]]
      BY <1>7 DEF With
    <2>2. ASSUME NEW q \in DOMAIN live
          PROVE  live'[q] \in Sizes /\ live'[q] <= size'[Chunk(q)]
      <3>1. CASE q = p
        BY <3>1, <2>1, <1>2, <1>4, <1>8 DEF oc
      <3>2. CASE q # p
        <4>1. /\ Chunk(q) \in inuse /\ Chunk(q) # oc /\ Chunk(q) # nxt
              /\ live[q] \in Sizes /\ live[q] <= size[Chunk(q)]
          BY <3>2, <1>1, <1>3, LiveBlock DEF HeapInv, LiveInv, Chunk, oc
        <4> QED
          BY <3>2, <4>1, <2>1, <1>1, <1>8
      <3> QED
        BY <3>1, <3>2
    <2>3. freed' \subseteq freed
      BY <1>7 DEF Untouched
    <2> QED
      BY <2>1, <2>2, <2>3, <1>9 DEF HeapInv, LiveInv, DoubleFreeIgnored
  <1>12. CallInv'
    <2>1. \A d \in DOMAIN size : d \in Nat /\ d < HEAP_END
      BY <1>1 DEF Shaped, Slots
    <2>2. \A d \in DOMAIN size : d \notin inuse /\ next[d] # NULL => next[d] \in inuse
      BY <2>1, <1>1 DEF HeapInv, CallInv, MergedBelow, chunks
    <2>3. \A d \in DOMAIN size' : d \notin inuse' /\ next'[d] # NULL => next'[d] \in inuse'
      BY <2>2, <1>1, <1>3, <1>5, <1>8, <1>9
    <2>4. DOMAIN live' = DOMAIN live
      BY <1>7 DEF With
    <2> QED
      BY <2>3, <2>4, <1>1, <1>7 DEF HeapInv, CallInv, MergedBelow, NoCall, chunks
  <1> QED
    BY <1>1, <1>7, <1>10, <1>11, <1>12 DEF HeapInv

(* Cutting the end off a block leaves the block the bytes asked for.       *)
LEMMA ShrinkStep ==
    ASSUME NoWrap, HeapInv, NEW p \in DOMAIN live, NEW n \in Sizes,
           krealloc_shrink(p, n)
    PROVE  HeapInv'
  <1> USE HeapAssumption
  <1> DEFINE oc == Chunk(p)
             sp == RoundUp(n)
  <1>1. /\ oc \in DOMAIN size /\ oc \in inuse /\ pc = "idle" /\ p \in Nat /\ Block(oc) = p
        /\ Shaped(size, next) /\ Linked(size, next) /\ inuse \subseteq DOMAIN size
    BY LiveBlock DEF HeapInv, MemInv, ListOK, chunks, krealloc_shrink
  <1>2. sp \in Nat /\ sp % ALIGN = 0 /\ n <= sp /\ n \in Nat
    BY RoundUpFacts
  <1>3. /\ size[oc] - sp > MIN_CHUNK_SIZE
        /\ size' = SplitSize(size, oc, sp) /\ next' = SplitNext(next, oc, sp)
        /\ inuse' = inuse \ {Block(oc) + sp} /\ live' = With(live, p, n)
        /\ freed' = freed /\ leaked' = leaked /\ call' = call
        /\ pc' = "coalesce" /\ cur' = HEAP_START
    BY <1>1 DEF krealloc_shrink, Leftover
  <1> HIDE DEF oc, sp
  <1>4. /\ Block(oc) + sp \notin DOMAIN size
        /\ DOMAIN size' = DOMAIN size \cup {Block(oc) + sp}
        /\ size'[oc] = sp
        /\ \A d \in DOMAIN size : d # oc => size'[d] = size[d]
        /\ Shaped(size', next') /\ Linked(size', next')
    <2>1. /\ Block(oc) + sp \notin DOMAIN size
          /\ DOMAIN SplitSize(size, oc, sp) = DOMAIN size \cup {Block(oc) + sp}
          /\ SplitSize(size, oc, sp)[oc] = sp
          /\ \A d \in DOMAIN size : d # oc => SplitSize(size, oc, sp)[d] = size[d]
          /\ Shaped(SplitSize(size, oc, sp), SplitNext(next, oc, sp))
          /\ Linked(SplitSize(size, oc, sp), SplitNext(next, oc, sp))
      <3>1. size[oc] - sp > MIN_CHUNK_SIZE
        BY <1>3
      <3>2. sp \in Nat /\ sp % ALIGN = 0
        BY <1>2
      <3>3. Shaped(size, next) /\ Linked(size, next) /\ oc \in DOMAIN size
        BY <1>1
      <3> QED
        BY ONLY <3>1, <3>2, <3>3, SplitList
    <2> QED
      BY <2>1, <1>3
  <1>5. inuse' = inuse
    BY <1>1, <1>3, <1>4
  <1>6. MemInv'
    <2>1. /\ size' = [d \in DOMAIN size' |-> size'[d]]
          /\ next' = [d \in DOMAIN next' |-> next'[d]]
      BY <1>3 DEF SplitSize, SplitNext, With
    <2> QED
      BY <2>1, <1>1, <1>3, <1>4, <1>5 DEF MemInv, ListOK, chunks
  <1>7. LiveInv'
    <2>1. /\ DOMAIN live' = DOMAIN live /\ live'[p] = n
          /\ \A q \in DOMAIN live : q # p => live'[q] = live[q]
          /\ live' = [q \in DOMAIN live' |-> live'[q]]
      BY <1>3 DEF With
    <2>2. ASSUME NEW q \in DOMAIN live
          PROVE  live'[q] \in Sizes /\ live'[q] <= size'[Chunk(q)]
      <3>1. CASE q = p
        BY <3>1, <2>1, <1>2, <1>4 DEF oc
      <3>2. CASE q # p
        <4>1. /\ Chunk(q) \in inuse /\ Chunk(q) # oc
              /\ live[q] \in Sizes /\ live[q] <= size[Chunk(q)]
          BY <3>2, <1>1, LiveBlock DEF HeapInv, LiveInv, Chunk, oc
        <4> QED
          BY <3>2, <4>1, <2>1, <1>1, <1>4
      <3> QED
        BY <3>1, <3>2
    <2> QED
      BY <2>1, <2>2, <1>3, <1>5 DEF HeapInv, LiveInv, DoubleFreeIgnored
  <1>8. CallInv'
    <2>1. HEAP_START \in DOMAIN size' /\ \A d \in DOMAIN size' : ~(d < HEAP_START)
      BY <1>4 DEF Linked, Shaped, Slots
    <2>2. DOMAIN live' = DOMAIN live
      BY <1>3 DEF With
    <2> QED
      BY <2>1, <2>2, <1>1, <1>3 DEF HeapInv, CallInv, MergedBelow, NoCall, chunks
  <1> QED
    BY <1>3, <1>6, <1>7, <1>8 DEF HeapInv

(* krealloc to the size the chunk already has.                             *)
LEMMA SameStep ==
    ASSUME NoWrap, HeapInv, NEW p \in DOMAIN live, NEW n \in Sizes,
           krealloc_same(p, n)
    PROVE  HeapInv'
  <1>1. /\ pc = "idle" /\ size' = size /\ next' = next /\ inuse' = inuse
        /\ live' = With(live, p, n) /\ freed' = freed /\ leaked' = leaked
        /\ call' = call /\ cur' = cur /\ pc' = pc
        /\ Leftover(p, n) \in {0, MIN_CHUNK_SIZE}
    BY DEF krealloc_same, mem
  <1>2. n \in Nat /\ n <= size[Chunk(p)]
    BY <1>1, LiveBlock, RoundUpFacts DEF Leftover
  <1>3. /\ DOMAIN live' = DOMAIN live /\ live'[p] = n
        /\ \A q \in DOMAIN live : q # p => live'[q] = live[q]
        /\ live' = [q \in DOMAIN live' |-> live'[q]]
    BY <1>1 DEF With
  <1>4. MemInv'
    BY <1>1, <1>3 DEF HeapInv, MemInv, ListOK, chunks
  <1>5. LiveInv'
    <2>1. ASSUME NEW q \in DOMAIN live
          PROVE  live'[q] \in Sizes /\ live'[q] <= size[Chunk(q)]
      <3>1. CASE q = p
        BY <3>1, <1>2, <1>3
      <3>2. CASE q # p
        BY <3>2, <1>3 DEF HeapInv, LiveInv
      <3> QED
        BY <3>1, <3>2
    <2> QED
      BY <2>1, <1>1, <1>3 DEF HeapInv, LiveInv, DoubleFreeIgnored
  <1>6. CallInv'
    BY <1>1, <1>3 DEF HeapInv, CallInv, MergedBelow, NoCall, chunks
  <1> QED
    BY <1>1, <1>4, <1>5, <1>6 DEF HeapInv

(* The page fault leaves the heap as it was.                               *)
LEMMA FaultStep ==
    ASSUME HeapInv, NEW p, NEW n, krealloc_fault(p, n)
    PROVE  HeapInv'
  <1> USE DEF HeapInv, krealloc_fault, Grows, mem, chunks
  <1>1. MemInv'
    BY DEF MemInv, ListOK
  <1>2. LiveInv'
    BY DEF LiveInv, DoubleFreeIgnored
  <1>3. CallInv'
    BY DEF CallInv, NoCall
  <1> QED
    BY <1>1, <1>2, <1>3
-----------------------------------------------------------------------------
(* HeapInv is inductive.                                                   *)
LEMMA HeapInvInit == Init => HeapInv
  <1> SUFFICES ASSUME Init
               PROVE  HeapInv
    OBVIOUS
  <1> USE HeapAssumption DEF Init, Empty, chunks
  <1>1. MemInv
    BY DEF MemInv, Shaped, ListOK
  <1>2. LiveInv
    BY DEF LiveInv, DoubleFreeIgnored
  <1>3. CallInv
    BY DEF CallInv, NoCall
  <1> QED
    BY <1>1, <1>2, <1>3 DEF HeapInv

LEMMA HeapInvStep ==
    ASSUME NoWrap, HeapInv, [Next]_vars
    PROVE  HeapInv'
  <1>1. CASE heap_init
    BY <1>1, InitStep
  <1>2. CASE Client
    <2>1. ASSUME NEW n \in Sizes, kalloc(n) \/ krealloc_null(n)
          PROVE  HeapInv'
      BY <2>1, SearchStarts DEF kalloc, krealloc_null
    <2>2. ASSUME NEW p \in DOMAIN live, NEW n \in Sizes, krealloc(p, n)
          PROVE  HeapInv'
      <3>1. CASE krealloc_grow(p, n) \/ krealloc_move(p, n)
        BY <3>1, SearchStarts DEF krealloc_grow, krealloc_move, Grows
      <3> QED
        BY <2>2, <3>1, ExtendStep, FaultStep, ShrinkStep, SameStep DEF krealloc
    <2>3. ASSUME NEW p \in DOMAIN live \cup freed \cup {NULL, HEAP_END}, kfree(p)
          PROVE  HeapInv'
      BY <2>3, KfreeStep
    <2> QED
      BY <1>2, <2>1, <2>2, <2>3 DEF Client
  <1>3. CASE Loop
    BY <1>3, SearchNextStep, SearchFailStep, SearchTakeStep, MergeStep,
       CoalesceNextStep, CoalesceDoneStep DEF Loop
  <1>4. CASE UNCHANGED vars
    <2> USE <1>4 DEF vars, mem, HeapInv, chunks
    <2>1. MemInv'
      BY DEF MemInv, ListOK
    <2>2. LiveInv'
      BY DEF LiveInv, DoubleFreeIgnored
    <2>3. CallInv'
      BY DEF CallInv, MergedBelow, Fits, NoCall
    <2> QED
      BY <2>1, <2>2, <2>3
  <1> QED
    BY <1>1, <1>2, <1>3, <1>4 DEF Next, Stopped

LEMMA HeapInvariance ==
    ASSUME NoWrap
    PROVE  Spec => []HeapInv
  <1>1. HeapInv /\ [Next]_vars => HeapInv'
    BY HeapInvStep
  <1> QED
    BY <1>1, HeapInvInit, PTL DEF Spec
-----------------------------------------------------------------------------
(* What the invariant says of two different chunks of the list.            *)
LEMMA ChunksDisjoint ==
    ASSUME HeapInv, NEW c \in chunks, NEW d \in chunks, c # d
    PROVE  End(c) <= d \/ End(d) <= c
  <1> USE HeapAssumption DEF chunks
  <1>1. pc # "boot" /\ Linked(size, next) /\ Shaped(size, next)
    BY DEF HeapInv, MemInv, ListOK
  <1>2. c \in Nat /\ d \in Nat /\ size[c] \in Nat /\ size[d] \in Nat
    BY <1>1 DEF Shaped, Slots
  <1>3. ASSUME NEW a \in DOMAIN size, NEW b \in DOMAIN size, a < b
        PROVE  End(a) <= b
    <2>1. next[a] # NULL /\ next[a] <= b /\ End(a) <= next[a]
      BY <1>1, <1>3 DEF Linked, End
    <2>2. a \in Nat /\ b \in Nat /\ size[a] \in Nat /\ next[a] \in Nat
      BY <1>1 DEF Shaped, Slots
    <2> QED
      BY <2>1, <2>2 DEF End, Block
  <1>4. CASE c < d
    BY <1>3, <1>4
  <1>5. CASE d < c
    BY <1>3, <1>5
  <1> QED
    BY <1>2, <1>4, <1>5

(* The type invariant of the heap, for requests that do not overflow.      *)
THEOREM KheapTypeCorrect ==
    ASSUME NoWrap
    PROVE  Spec => []TypeOK
  <1>1. HeapInv => TypeOK
    <2> SUFFICES ASSUME HeapInv
                 PROVE  TypeOK
      OBVIOUS
    <2> USE HeapAssumption DEF chunks
    <2>1. /\ chunks \subseteq Slots
          /\ next \in [chunks -> Slots \cup {NULL}]
          /\ inuse \subseteq Slots
      BY DEF HeapInv, MemInv, Shaped
    <2>2. size \in [chunks -> 0 .. WORD - 1]
      <3>1. \A c \in DOMAIN size : size[c] \in 0 .. WORD - 1
        BY SMTT(30) DEF HeapInv, MemInv, Shaped, ListOK, Linked, Block, Slots
      <3> QED
        BY <3>1 DEF HeapInv, MemInv
    <2>3. cur \in Slots \cup {NULL}
      BY <2>1 DEF HeapInv, CallInv
    <2>4. call \in [size : 0 .. WORD - 1, want : 0 .. WORD - 1,
                    old : DOMAIN live \cup {NULL}]
      <3>1. call.size \in 0 .. WORD - 1
        BY DEF HeapInv, CallInv, NoCall
      <3> QED
        BY <3>1 DEF HeapInv, CallInv
    <2>5. DOMAIN live \subseteq Slots \cup {HEAP_END} /\ freed \subseteq Slots
      BY DEF HeapInv, LiveInv
    <2>6. \A p \in DOMAIN live : live[p] \in Sizes
      BY DEF HeapInv, LiveInv
    <2> QED
      BY <2>1, <2>2, <2>3, <2>4, <2>5, <2>6 DEF TypeOK, HeapInv
  <1> QED
    BY <1>1, HeapInvariance, PTL

(* The list of chunks stays ordered, disjoint and inside the heap.         *)
THEOREM KheapListOK ==
    ASSUME NoWrap
    PROVE  Spec => []ListOK
  <1>1. HeapInv => ListOK
    BY DEF HeapInv, MemInv
  <1> QED
    BY <1>1, HeapInvariance, PTL

(* kalloc, krealloc and kfree never let a client's block shrink below its  *)
(* size, leave the heap, or overlap another block or a header.             *)
THEOREM KheapBlocksIntact ==
    ASSUME NoWrap
    PROVE  Spec => []BlocksIntact
  <1>1. HeapInv => BlocksIntact
    <2> SUFFICES ASSUME HeapInv, NEW p \in DOMAIN live
                 PROVE  /\ HEAP_START <= Chunk(p) /\ p + live[p] <= HEAP_END
                        /\ \A q \in DOMAIN live : q # p =>
                              p + live[p] <= Chunk(q) \/ q + live[q] <= Chunk(p)
                        /\ \A c \in chunks : c # Chunk(p) =>
                              p + live[p] <= c \/ End(c) <= Chunk(p)
      BY DEF BlocksIntact
    <2> USE HeapAssumption
    <2>1. ASSUME NEW q \in DOMAIN live
          PROVE  /\ Chunk(q) \in chunks /\ q \in Nat /\ Chunk(q) \in Nat
                 /\ HEAP_START <= Chunk(q)
                 /\ live[q] \in Nat /\ q + live[q] <= End(Chunk(q))
                 /\ End(Chunk(q)) \in Nat /\ End(Chunk(q)) <= HEAP_END
      <3>1. /\ q \in Nat /\ Chunk(q) \in chunks /\ Chunk(q) \in Slots
            /\ Block(Chunk(q)) = q /\ size[Chunk(q)] \in Nat /\ pc # "boot"
        BY LiveBlock
      <3>2. live[q] \in Nat /\ live[q] <= size[Chunk(q)]
        BY DEF HeapInv, LiveInv
      <3>3. End(Chunk(q)) <= HEAP_END
        BY <3>1 DEF HeapInv, MemInv, ListOK, Linked, End, chunks
      <3> QED
        BY <3>1, <3>2, <3>3 DEF End, Slots
    <2>2. ASSUME NEW c \in chunks, c # Chunk(p)
          PROVE  p + live[p] <= c \/ End(c) <= Chunk(p)
      <3>1. c \in Nat /\ (End(c) <= Chunk(p) \/ End(Chunk(p)) <= c)
        <4>1. c \in Nat
          BY DEF HeapInv, MemInv, Shaped, Slots, chunks
        <4>2. Chunk(p) \in chunks
          BY <2>1
        <4> QED
          BY <4>1, <4>2, <2>2, ChunksDisjoint
      <3> QED
        BY <3>1, <2>1
    <2>3. ASSUME NEW q \in DOMAIN live, q # p
          PROVE  p + live[p] <= Chunk(q) \/ q + live[q] <= Chunk(p)
      <3>1. Chunk(q) # Chunk(p)
        BY <2>1, <2>3 DEF Chunk
      <3>2. p + live[p] <= Chunk(q) \/ End(Chunk(q)) <= Chunk(p)
        BY <3>1, <2>1, <2>2
      <3> QED
        BY <3>2, <2>1
    <2>4. HEAP_START <= Chunk(p) /\ p + live[p] <= HEAP_END
      BY <2>1
    <2> QED
      BY <2>2, <2>3, <2>4
  <1> QED
    BY <1>1, HeapInvariance, PTL

(* Chunks in use are exactly the clients' blocks.                          *)
THEOREM KheapInUseIffLive ==
    ASSUME NoWrap
    PROVE  Spec => []InUseIffLive
  <1>1. HeapInv => InUseIffLive
    BY DEF HeapInv, MemInv, LiveInv, InUseIffLive
  <1> QED
    BY <1>1, HeapInvariance, PTL

(* Between calls free chunks are merged.                                   *)
THEOREM KheapNoAdjacentFree ==
    ASSUME NoWrap
    PROVE  Spec => []NoAdjacentFree
  <1>1. HeapInv => NoAdjacentFree
    BY HeapAssumption DEF HeapInv, MemInv, CallInv, MergedBelow, NoAdjacentFree,
           Shaped, Slots, chunks
  <1> QED
    BY <1>1, HeapInvariance, PTL

(* A second kfree finds the chunk free.                                    *)
THEOREM KheapDoubleFreeIgnored ==
    ASSUME NoWrap
    PROVE  Spec => []DoubleFreeIgnored
  <1>1. HeapInv => DoubleFreeIgnored
    BY DEF HeapInv, LiveInv
  <1> QED
    BY <1>1, HeapInvariance, PTL

(* kalloc fails only when no free chunk is large enough.                   *)
THEOREM KheapFailsOnlyWhenNothingFits ==
    ASSUME NoWrap
    PROVE  Spec => FailsOnlyWhenNothingFits
  <1> DEFINE A == pc = "search" /\ pc' = "idle" /\ live' = live
                    => \A c \in chunks : ~Fits(c, call.size)
  <1>1. HeapInv /\ [Next]_vars => [A]_vars
    <2> SUFFICES ASSUME HeapInv, Next, pc = "search", pc' = "idle", live' = live
                 PROVE  \A c \in chunks : ~Fits(c, call.size)
      BY DEF vars
    <2>1. SearchFail \/ SearchTake
      BY DEF Next, heap_init, Client, Loop, Stopped, kalloc, krealloc_null, krealloc,
             extendChunkInPlace, krealloc_fault, krealloc_grow, krealloc_shrink,
             krealloc_move, krealloc_same, Grows, kfree, SearchNext, CoalesceMerge,
             CoalesceNext, CoalesceDone, vars
    <2>2. CASE SearchFail
      BY <2>2 DEF SearchFail, HeapInv, CallInv
    <2>3. CASE SearchTake
      <3>1. Block(cur) \in DOMAIN live'
        BY <2>3 DEF SearchTake, With
      <3>2. /\ cur \in chunks /\ cur \in Slots /\ cur \notin inuse
        BY <2>3 DEF SearchTake, Fits, HeapInv, CallInv, MemInv, Shaped, chunks
      <3>3. Chunk(Block(cur)) \in inuse
        BY <3>1, LiveBlock
      <3>4. Chunk(Block(cur)) = cur
        BY <3>2, HeapAssumption DEF Chunk, Block, Slots
      <3> QED
        BY <3>2, <3>3, <3>4
    <2> QED
      BY <2>1, <2>2, <2>3
  <1> QED
    BY <1>1, HeapInvariance, PTL DEF Spec, FailsOnlyWhenNothingFits

-----------------------------------------------------------------------------
(* Sets S and T agree but for lo .. hi - 1, where S has the bytes from a   *)
(* to b and T those from a2 to b2.                                         *)
Swapped(S, T, lo, hi, a, b, a2, b2) ==
    /\ lo \in Int /\ hi \in Int
    /\ a \in Int /\ b \in Int /\ a <= b
    /\ a2 \in Int /\ b2 \in Int /\ a2 <= b2
    /\ S \cap (lo .. hi - 1) = a .. b - 1
    /\ T \cap (lo .. hi - 1) = a2 .. b2 - 1
    /\ S \ (lo .. hi - 1) = T \ (lo .. hi - 1)

LEMMA Recounted ==
    ASSUME NEW S, NEW T, NEW lo, NEW hi, NEW a, NEW b, NEW a2, NEW b2,
           IsFiniteSet(S), Swapped(S, T, lo, hi, a, b, a2, b2)
    PROVE  Cardinality(T) = Cardinality(S) - (b - a) + (b2 - a2)
  <1> USE DEF Swapped
  <1> DEFINE B == S \ (lo .. hi - 1)
             I == a .. b - 1
             J == a2 .. b2 - 1
  <1>1. IsFiniteSet(B) /\ IsFiniteSet(I) /\ IsFiniteSet(J)
    <2>1. IsFiniteSet(B)
      BY FS_Difference
    <2>2. b - 1 \in Int /\ b2 - 1 \in Int
      OBVIOUS
    <2> QED
      BY <2>1, <2>2, FS_Interval
  <1>2. Cardinality(I) = b - a /\ Cardinality(J) = b2 - a2
    <2>1. b - 1 \in Int /\ b2 - 1 \in Int
      OBVIOUS
    <2>2. /\ Cardinality(I) = IF a > b - 1 THEN 0 ELSE (b - 1) - a + 1
          /\ Cardinality(J) = IF a2 > b2 - 1 THEN 0 ELSE (b2 - 1) - a2 + 1
      BY <2>1, FS_Interval
    <2> QED
      BY <2>2
  <1>3. S = B \cup I /\ T = B \cup J /\ B \cap I = {} /\ B \cap J = {}
    OBVIOUS
  <1> HIDE DEF B, I, J
  <1>4. /\ Cardinality(B \cup I) = Cardinality(B) + Cardinality(I) - 0
        /\ Cardinality(B \cup J) = Cardinality(B) + Cardinality(J) - 0
    BY <1>1, <1>3, FS_Union, FS_EmptySet
  <1>5. Cardinality(B) \in Nat
    BY <1>1, FS_CardinalityType
  <1> QED
    BY <1>2, <1>3, <1>4, <1>5

LEMMA OutsideFinite == \A sz : IsFiniteSet(Outside(sz))
  <1>1. IsFiniteSet(HEAP_START .. HEAP_END - 1)
    BY HeapAssumption, FS_Interval
  <1>2. \A sz : Outside(sz) \in SUBSET (HEAP_START .. HEAP_END - 1)
    BY DEF Outside
  <1> QED
    BY <1>1, <1>2, FS_Subset

(* The bytes of chunk d.                                                   *)
Covers(sz, d, a) == d <= a /\ a < Block(d) + sz[d]

LEMMA OutsideCovers ==
    ASSUME NEW sz, \A d \in DOMAIN sz : d \in Nat /\ sz[d] \in Nat
    PROVE  \A a \in HEAP_START .. HEAP_END - 1 :
              a \in Outside(sz) <=> \A d \in DOMAIN sz : ~Covers(sz, d, a)
  <1>1. ASSUME NEW a \in HEAP_START .. HEAP_END - 1, NEW d \in DOMAIN sz
        PROVE  (a < d \/ Block(d) + sz[d] <= a) <=> ~Covers(sz, d, a)
    <2>1. a \in Int /\ d \in Nat /\ sz[d] \in Nat
      BY HeapAssumption
    <2> QED
      BY <2>1 DEF Covers, Block
  <1> QED
    BY <1>1 DEF Outside

(* Where chunk c, its successor m and the other chunks of a list lie.      *)
Order(sz, c, m) ==
    /\ c \in DOMAIN sz /\ m \in DOMAIN sz /\ c \in Nat /\ m \in Nat
    /\ sz[c] \in Nat /\ sz[m] \in Nat
    /\ HEAP_START <= c /\ c + 32 + sz[c] <= m /\ m + 32 + sz[m] <= HEAP_END
    /\ \A d \in DOMAIN sz : d # c /\ d # m =>
          /\ d \in Nat /\ sz[d] \in Nat
          /\ d + 32 + sz[d] <= c \/ m + 32 + sz[m] <= d

LEMMA Neighbours ==
    ASSUME NEW sz, NEW nx, Shaped(sz, nx), Linked(sz, nx),
           NEW c \in DOMAIN sz, NEW m, m = nx[c], m # NULL
    PROVE  Order(sz, c, m)
  <1> USE HeapAssumption
  <1>1. ASSUME NEW d \in DOMAIN sz
        PROVE  /\ d \in Nat /\ sz[d] \in Nat /\ HEAP_START <= d /\ nx[d] \in Nat
               /\ d + 32 + sz[d] <= HEAP_END
               /\ nx[d] # NULL => nx[d] \in DOMAIN sz /\ d + 32 + sz[d] <= nx[d]
    BY DEF Shaped, Slots, Linked, Block
  <1>2. ASSUME NEW a \in DOMAIN sz, NEW b \in DOMAIN sz, a < b
        PROVE  nx[a] <= b /\ a + 32 + sz[a] <= b
    <2>1. nx[a] # NULL /\ nx[a] <= b
      BY <1>2 DEF Linked
    <2>2. a + 32 + sz[a] <= nx[a] /\ nx[a] \in Nat /\ a \in Nat /\ sz[a] \in Nat /\ b \in Nat
      BY <1>1, <2>1
    <2> QED
      BY <2>1, <2>2
  <1>3. m \in DOMAIN sz /\ c + 32 + sz[c] <= m
    BY <1>1
  <1>4. ASSUME NEW d \in DOMAIN sz, d # c, d # m
        PROVE  d + 32 + sz[d] <= c \/ m + 32 + sz[m] <= d
    <2>1. d \in Nat /\ c \in Nat /\ m \in Nat
      BY <1>1, <1>3
    <2>2. CASE d < c
      BY <1>2, <2>2
    <2>3. CASE c < d
      <3>1. m < d
        BY <1>2, <1>4, <2>1, <2>3
      <3> QED
        BY <1>2, <1>3, <3>1
    <2> QED
      BY <1>4, <2>1, <2>2, <2>3
  <1> QED
    BY <1>1, <1>3, <1>4 DEF Order

(* Chunk c now ends at e, m is gone, and what is left of it, if anything,  *)
(* is a chunk at p.                                                        *)
Replaced(sz, sz2, c, m, e, p, rest) ==
    /\ Order(sz, c, m)
    /\ e \in Nat /\ p \in Nat /\ c + 32 + sz[c] <= e /\ e <= p /\ p <= m + 32 + sz[m]
    /\ DOMAIN sz2 = (DOMAIN sz \ {m}) \cup rest /\ c # m
    /\ sz2[c] \in Nat /\ c + 32 + sz2[c] = e
    /\ \A d \in DOMAIN sz : d # c /\ d # m => sz2[d] = sz[d]
    /\ \/ rest = {} /\ p = m + 32 + sz[m]
       \/ rest = {p} /\ sz2[p] \in Nat /\ p + 32 + sz2[p] = m + 32 + sz[m]

LEMMA ReplacedCount ==
    ASSUME NEW sz, NEW sz2, NEW c, NEW m, NEW e, NEW p, NEW rest,
           Replaced(sz, sz2, c, m, e, p, rest)
    PROVE  Cardinality(Outside(sz2)) =
               Cardinality(Outside(sz)) - (m - (c + 32 + sz[c])) + (p - e)
  <1> DEFINE lo == c + 32 + sz[c]
             hi == m + 32 + sz[m]
             R == lo .. hi - 1
  <1>1. /\ c \in Nat /\ m \in Nat /\ e \in Nat /\ p \in Nat /\ lo \in Nat /\ hi \in Nat
        /\ HEAP_START \in Nat /\ HEAP_END \in Nat
        /\ HEAP_START <= c /\ c < lo /\ lo <= m /\ m < hi /\ hi <= HEAP_END
        /\ lo <= e /\ e <= p /\ p <= hi
    BY HeapAssumption DEF Replaced, Order
  <1>2. \A d \in DOMAIN sz : d # c /\ d # m =>
            /\ d \in Nat /\ sz[d] \in Nat /\ d \in DOMAIN sz2 /\ sz2[d] = sz[d]
            /\ d + 32 + sz[d] <= c \/ hi <= d
    BY DEF Replaced, Order
  <1>3. \A d \in DOMAIN sz2 : (d \in DOMAIN sz /\ d # c /\ d # m) \/ d = c \/ d \in rest
    BY DEF Replaced
  <1>4. /\ c \in DOMAIN sz /\ m \in DOMAIN sz /\ c \in DOMAIN sz2 /\ rest \subseteq DOMAIN sz2
        /\ sz[c] \in Nat /\ sz[m] \in Nat /\ sz2[c] \in Nat /\ c + 32 + sz2[c] = e
        /\ \/ rest = {} /\ p = hi
           \/ rest = {p} /\ sz2[p] \in Nat /\ p + 32 + sz2[p] = hi
    BY DEF Replaced, Order
  <1>5. /\ \A d \in DOMAIN sz : d \in Nat /\ sz[d] \in Nat
        /\ \A d \in DOMAIN sz2 : d \in Nat /\ sz2[d] \in Nat
    BY <1>1, <1>2, <1>3, <1>4
  <1>6. ASSUME NEW a \in HEAP_START .. HEAP_END - 1
        PROVE  /\ a \in Outside(sz) <=> \A d \in DOMAIN sz : ~Covers(sz, d, a)
               /\ a \in Outside(sz2) <=> \A d \in DOMAIN sz2 : ~Covers(sz2, d, a)
               /\ Covers(sz, c, a) <=> c <= a /\ a < lo
               /\ Covers(sz, m, a) <=> m <= a /\ a < hi
               /\ Covers(sz2, c, a) <=> c <= a /\ a < e
               /\ (\E d \in rest : Covers(sz2, d, a)) <=> p <= a /\ a < hi
    <2>1. /\ a \in Outside(sz) <=> \A d \in DOMAIN sz : ~Covers(sz, d, a)
          /\ a \in Outside(sz2) <=> \A d \in DOMAIN sz2 : ~Covers(sz2, d, a)
      BY <1>5, OutsideCovers
    <2>2. a \in Nat
      BY <1>1
    <2>3. (\E d \in rest : Covers(sz2, d, a)) <=> p <= a /\ a < hi
      <3>1. CASE rest = {} /\ p = hi
        BY <1>1, <2>2, <3>1
      <3>2. CASE rest = {p} /\ sz2[p] \in Nat /\ p + 32 + sz2[p] = hi
        BY <3>2 DEF Covers, Block
      <3> QED
        BY <1>4, <3>1, <3>2
    <2> QED
      BY <1>4, <2>1, <2>3 DEF Covers, Block
  <1>7. ASSUME NEW a \in HEAP_START .. HEAP_END - 1, NEW d \in DOMAIN sz, d # c, d # m
        PROVE  /\ Covers(sz2, d, a) <=> Covers(sz, d, a)
               /\ Covers(sz, d, a) => a < c \/ hi <= a
    <2>1. a \in Nat
      BY <1>1
    <2>2. /\ d \in Nat /\ sz[d] \in Nat /\ sz2[d] = sz[d]
          /\ d + 32 + sz[d] <= c \/ hi <= d
      BY <1>2, <1>7
    <2> HIDE DEF hi
    <2> QED
      BY <1>1, <2>1, <2>2 DEF Covers, Block
  <1> HIDE DEF lo, hi
  <1>8. \A a \in R : a \in HEAP_START .. HEAP_END - 1 /\ a \in Nat /\ lo <= a /\ a < hi
    BY <1>1
  <1>9. Outside(sz) \cap R = lo .. m - 1
    <2>1. ASSUME NEW a \in R
          PROVE  a \in Outside(sz) <=> a < m
      BY <1>1, <1>4, <1>6, <1>7, <1>8
    <2> QED
      BY <1>1, <1>8, <2>1
  <1>10. Outside(sz2) \cap R = e .. p - 1
    <2>1. ASSUME NEW a \in R
          PROVE  a \in Outside(sz2) <=> e <= a /\ a < p
      BY <1>1, <1>3, <1>4, <1>6, <1>7, <1>8
    <2> QED
      BY <1>1, <1>8, <2>1
  <1>11. Outside(sz) \ R = Outside(sz2) \ R
    <2>1. ASSUME NEW a \in HEAP_START .. HEAP_END - 1, a \notin R
          PROVE  a \in Outside(sz) <=> a \in Outside(sz2)
      <3>1. a \in Nat /\ (a < lo \/ hi <= a)
        BY <1>1, <2>1
      <3>2. /\ Covers(sz, c, a) <=> Covers(sz2, c, a)
            /\ ~Covers(sz, m, a) /\ ~\E d \in rest : Covers(sz2, d, a)
        BY <1>1, <1>6, <3>1
      <3>3. ASSUME a \in Outside(sz)
            PROVE  a \in Outside(sz2)
        BY <1>3, <1>4, <1>6, <1>7, <3>2, <3>3
      <3>4. ASSUME a \in Outside(sz2)
            PROVE  a \in Outside(sz)
        BY <1>2, <1>4, <1>6, <1>7, <3>2, <3>4
      <3> QED
        BY <3>3, <3>4
    <2>2. /\ Outside(sz) \subseteq HEAP_START .. HEAP_END - 1
          /\ Outside(sz2) \subseteq HEAP_START .. HEAP_END - 1
      BY DEF Outside
    <2> QED
      BY <2>1, <2>2
  <1>12. Cardinality(Outside(sz2)) = Cardinality(Outside(sz)) - (m - lo) + (p - e)
    <2>1. IsFiniteSet(Outside(sz))
      BY OutsideFinite
    <2>2. Swapped(Outside(sz), Outside(sz2), lo, hi, lo, m, e, p)
      BY <1>1, <1>9, <1>10, <1>11 DEF Swapped
    <2> QED
      BY <2>1, <2>2, Recounted
  <1> QED
    BY <1>12 DEF lo

(* Cutting a chunk in two leaves every byte where it was, in a chunk or    *)
(* outside.                                                                *)
LEMMA SplitOutside ==
    ASSUME NEW sz, NEW nx, Shaped(sz, nx), NEW c \in DOMAIN sz, NEW s \in Nat,
           sz[c] - s > MIN_CHUNK_SIZE, Block(c) + s \notin DOMAIN sz
    PROVE  Outside(SplitSize(sz, c, s)) = Outside(sz)
  <1> DEFINE n == Block(c) + s
             sz2 == SplitSize(sz, c, s)
  <1>1. \A d \in DOMAIN sz : d \in Nat /\ sz[d] \in Nat
    BY HeapAssumption DEF Shaped, Slots
  <1>2. n \in Nat /\ n = c + 32 + s /\ n # c /\ sz[c] - s - 32 \in Nat
    BY <1>1 DEF Block
  <1>3. /\ DOMAIN sz2 = DOMAIN sz \cup {n} /\ sz2[c] = s /\ sz2[n] = sz[c] - s - 32
        /\ \A d \in DOMAIN sz : d # c => sz2[d] = sz[d]
    BY <1>2 DEF SplitSize, With
  <1>4. n \notin DOMAIN sz
    OBVIOUS
  <1> HIDE DEF n, sz2
  <1>5. \A d \in DOMAIN sz2 : d \in Nat /\ sz2[d] \in Nat
    BY <1>1, <1>2, <1>3
  <1>6. ASSUME NEW a \in HEAP_START .. HEAP_END - 1
        PROVE  a \in Outside(sz) <=> a \in Outside(sz2)
    <2>1. /\ a \in Outside(sz) <=> \A d \in DOMAIN sz : ~Covers(sz, d, a)
          /\ a \in Outside(sz2) <=> \A d \in DOMAIN sz2 : ~Covers(sz2, d, a)
      BY <1>1, <1>5, OutsideCovers
    <2>2. Covers(sz, c, a) <=> Covers(sz2, c, a) \/ Covers(sz2, n, a)
      <3>1. a \in Int /\ c \in Nat /\ sz[c] \in Nat
        BY <1>1, HeapAssumption
      <3> QED
        BY <1>2, <1>3, <3>1 DEF Covers, Block
    <2>3. \A d \in DOMAIN sz : d # c => (Covers(sz, d, a) <=> Covers(sz2, d, a))
      BY <1>3 DEF Covers
    <2> QED
      BY <1>3, <1>4, <2>1, <2>2, <2>3
  <1>7. Outside(sz) = Outside(sz2)
    <2>1. /\ Outside(sz) \subseteq HEAP_START .. HEAP_END - 1
          /\ Outside(sz2) \subseteq HEAP_START .. HEAP_END - 1
      BY DEF Outside
    <2> QED
      BY <1>6, <2>1
  <1> QED
    BY <1>7 DEF sz2

(* Merging a chunk with its successor takes in the bytes between the two   *)
(* as well, and leaves as many after it.                                   *)
LEMMA MergeOutside ==
    ASSUME NEW sz, NEW nx, Shaped(sz, nx), Linked(sz, nx),
           NEW c \in DOMAIN sz, NEW m, m = nx[c], m # NULL
    PROVE  Cardinality(Outside(MergeSize(sz, c, m))) = Cardinality(Outside(sz))
  <1> DEFINE sz2 == MergeSize(sz, c, m)
             e == c + 32 + sz[c] + 32 + sz[m]
             h == m + 32 + sz[m]
  <1>1. Order(sz, c, m)
    BY Neighbours
  <1>2. c # m /\ c \in Nat /\ m \in Nat /\ sz[c] \in Nat /\ sz[m] \in Nat
        /\ c \in DOMAIN sz /\ m \in DOMAIN sz /\ c + 32 + sz[c] <= m
    BY <1>1 DEF Order
  <1>3. /\ DOMAIN sz2 = (DOMAIN sz \ {m}) \cup {} /\ sz2[c] = sz[c] + 32 + sz[m]
        /\ \A d \in DOMAIN sz : d # c /\ d # m => sz2[d] = sz[d]
    BY <1>2 DEF MergeSize, With, Without
  <1> HIDE DEF sz2
  <1>4. Replaced(sz, sz2, c, m, e, h, {})
    <2>1. e \in Nat /\ h \in Nat /\ c + 32 + sz[c] <= e /\ e <= h
      BY <1>2
    <2>2. sz2[c] \in Nat /\ c + 32 + sz2[c] = e
      BY <1>2, <1>3
    <2> QED
      BY <1>1, <1>2, <1>3, <2>1, <2>2 DEF Replaced
  <1>5. Cardinality(Outside(sz2)) =
            Cardinality(Outside(sz)) - (m - (c + 32 + sz[c])) + (h - e)
    BY <1>4, ReplacedCount
  <1>6. Cardinality(Outside(sz)) \in Nat
    BY OutsideFinite, FS_CardinalityType
  <1> QED
    BY <1>2, <1>5, <1>6 DEF sz2

(* Extending a chunk moves the bytes before its successor behind it, and a *)
(* header's length more.                                                   *)
LEMMA ExtendOutside ==
    ASSUME NEW sz, NEW nx, Shaped(sz, nx), Linked(sz, nx),
           NEW c \in DOMAIN sz, NEW m, m = nx[c], m # NULL,
           NEW x \in Nat, x % ALIGN = 0, sz[m] >= x + HDR,
           NEW p, p = m + HDR + x
    PROVE  Cardinality(Outside(ExtendSize(sz, c, m, x, p))) =
               Cardinality(Outside(sz)) + HDR
  <1> DEFINE sz2 == ExtendSize(sz, c, m, x, p)
             e == c + 32 + sz[c] + x
  <1>1. Order(sz, c, m)
    BY Neighbours
  <1>2. /\ c # m /\ c \in Nat /\ m \in Nat /\ sz[c] \in Nat /\ sz[m] \in Nat
        /\ c \in DOMAIN sz /\ m \in DOMAIN sz /\ c + 32 + sz[c] <= m
        /\ m + 32 + sz[m] <= HEAP_END
    BY <1>1 DEF Order
  <1>3. p \notin DOMAIN sz /\ p \in Nat /\ p # c
    <2>1. Extended(sz, nx, c, m, x, p)
      BY ExtendList
    <2> QED
      BY <1>2, <2>1 DEF Extended
  <1>4. Wrap(sz[m] - x - HDR) = sz[m] - x - 32
    BY <1>2, HeapAssumption DEF Wrap
  <1>5. /\ DOMAIN sz2 = (DOMAIN sz \ {m}) \cup {p} /\ sz2[c] = sz[c] + x
        /\ sz2[p] = sz[m] - x - 32
        /\ \A d \in DOMAIN sz : d # c /\ d # m => sz2[d] = sz[d]
    BY <1>2, <1>3, <1>4 DEF ExtendSize, With, Without
  <1> HIDE DEF sz2
  <1>6. Replaced(sz, sz2, c, m, e, p, {p})
    <2>1. e \in Nat /\ c + 32 + sz[c] <= e /\ e <= p /\ p <= m + 32 + sz[m]
      BY <1>2
    <2>2. /\ sz2[c] \in Nat /\ c + 32 + sz2[c] = e
          /\ sz2[p] \in Nat /\ p + 32 + sz2[p] = m + 32 + sz[m]
      BY <1>2, <1>5
    <2> QED
      BY <1>1, <1>2, <1>3, <1>5, <2>1, <2>2 DEF Replaced
  <1>7. Cardinality(Outside(sz2)) =
            Cardinality(Outside(sz)) - (m - (c + 32 + sz[c])) + (p - e)
    BY <1>6, ReplacedCount
  <1>8. Cardinality(Outside(sz)) \in Nat
    BY OutsideFinite, FS_CardinalityType
  <1> QED
    BY <1>2, <1>7, <1>8 DEF sz2
-----------------------------------------------------------------------------
(* Accounting, and what it needs before heap_init.                         *)
Counted == Accounting /\ (pc = "boot" => leaked = 0)

LEMMA CountedInit == HeapInv /\ heap_init /\ Counted => Counted'
  <1> SUFFICES ASSUME HeapInv, heap_init, Counted
               PROVE  Cardinality(Outside(size')) = leaked' /\ pc' = "idle"
    BY DEF Counted, Accounting
  <1>1. DOMAIN size' = {HEAP_START} /\ size'[HEAP_START] = AVAIL - 32
    BY DEF HeapInv, MemInv, heap_init, With, chunks
  <1>2. Outside(size') = {}
    <2> SUFFICES ASSUME NEW a \in Outside(size')
                 PROVE  FALSE
      OBVIOUS
    <2> QED
      BY <1>1, HeapAssumption DEF Outside, Block
  <1>3. leaked' = 0 /\ pc' = "idle"
    BY DEF heap_init, Counted
  <1> QED
    BY <1>2, <1>3, FS_EmptySet

(* Cutting a chunk in kalloc, or taking it whole.                          *)
LEMMA CountedTake == HeapInv /\ SearchTake /\ Counted => Counted'
  <1> SUFFICES ASSUME HeapInv, SearchTake, Counted
               PROVE  Outside(size') = Outside(size) /\ pc' # "boot"
    BY DEF Counted, Accounting, SearchTake
  <1>1. /\ cur \in DOMAIN size /\ call.size \in Nat /\ call.size % ALIGN = 0
        /\ Shaped(size, next) /\ Linked(size, next) /\ pc = "search"
    BY DEF HeapInv, SearchTake, CallInv, MemInv, ListOK, chunks
  <1>2. pc' # "boot"
    BY DEF SearchTake, FreeChunk
  <1>3. CASE size' = size
    BY <1>2, <1>3
  <1>4. CASE /\ size[cur] - call.size > MIN_CHUNK_SIZE
             /\ size' = SplitSize(size, cur, call.size)
    <2>1. Block(cur) + call.size \notin DOMAIN size
      BY <1>1, <1>4, SplitList
    <2>2. size[cur] - call.size > MIN_CHUNK_SIZE
      BY <1>4
    <2>3. Outside(SplitSize(size, cur, call.size)) = Outside(size)
      BY <1>1, <2>1, <2>2, SplitOutside
    <2> QED
      BY <1>2, <1>4, <2>3
  <1> QED
    BY <1>3, <1>4 DEF SearchTake

(* Cutting the end off a block in krealloc.                                *)
LEMMA CountedShrink ==
    ASSUME NoWrap, HeapInv, Counted, NEW p \in DOMAIN live, NEW n \in Sizes,
           krealloc_shrink(p, n)
    PROVE  Counted'
  <1> DEFINE oc == Chunk(p)
             s == RoundUp(n)
  <1>1. /\ oc \in DOMAIN size /\ pc = "idle"
        /\ Shaped(size, next) /\ Linked(size, next)
    BY LiveBlock DEF HeapInv, MemInv, ListOK, chunks, krealloc_shrink
  <1>2. s \in Nat /\ s % ALIGN = 0
    BY RoundUpFacts
  <1>3. /\ size[oc] - s > MIN_CHUNK_SIZE /\ size' = SplitSize(size, oc, s)
        /\ pc' = "coalesce" /\ leaked' = leaked
    BY DEF krealloc_shrink, Leftover
  <1> HIDE DEF oc, s
  <1>4. size[oc] - s > MIN_CHUNK_SIZE
    BY <1>3
  <1>5. Block(oc) + s \notin DOMAIN size
    BY <1>1, <1>2, <1>4, SplitList
  <1>6. Outside(SplitSize(size, oc, s)) = Outside(size)
    BY <1>1, <1>2, <1>4, <1>5, SplitOutside
  <1> QED
    BY <1>1, <1>3, <1>6 DEF Counted, Accounting

LEMMA CountedMerge == HeapInv /\ CoalesceMerge /\ Counted => Counted'
  <1> SUFFICES ASSUME HeapInv, CoalesceMerge, Counted
               PROVE  Counted'
    OBVIOUS
  <1>1. /\ pc = "coalesce" /\ pc' = pc /\ leaked' = leaked
        /\ next[cur] # NULL /\ size' = MergeSize(size, cur, next[cur])
    BY DEF CoalesceMerge
  <1>2. cur \in DOMAIN size /\ Shaped(size, next) /\ Linked(size, next)
    BY <1>1 DEF HeapInv, CallInv, MemInv, ListOK, chunks
  <1>3. Cardinality(Outside(MergeSize(size, cur, next[cur]))) = Cardinality(Outside(size))
    BY <1>1, <1>2, MergeOutside
  <1> QED
    BY <1>1, <1>3 DEF Counted, Accounting

(* Extending in place loses a header's length, which leaked counts.        *)
LEMMA CountedExtend ==
    ASSUME NoWrap, HeapInv, Counted, NEW p \in DOMAIN live, NEW n \in Sizes,
           extendChunkInPlace(p, n)
    PROVE  Counted'
  <1> USE HeapAssumption
  <1> DEFINE oc == Chunk(p)
             nxt == next[oc]
             ex == RoundUp(n) - size[oc]
             sp == Wrap(nxt + HDR + ex)
  <1>1. /\ oc \in DOMAIN size /\ pc = "idle"
        /\ size[oc] \in Nat /\ size[oc] % 16 = 0
        /\ Shaped(size, next) /\ Linked(size, next)
    BY LiveBlock DEF HeapInv, MemInv, ListOK, Shaped, chunks, extendChunkInPlace, Grows
  <1>2. /\ RoundUp(n) \in Nat /\ RoundUp(n) % 16 = 0 /\ RoundUp(n) + 32 < WORD
    BY RoundUpFacts
  <1>3. /\ nxt # NULL /\ size[oc] < RoundUp(n) /\ size[nxt] >= Wrap(ex + HDR)
    BY DEF extendChunkInPlace, Grows, CanExtend
  <1>4. ex \in Nat /\ ex % ALIGN = 0 /\ size[nxt] >= ex + HDR
    <2>1. ex \in Nat /\ ex % 16 = 0 /\ ex <= RoundUp(n)
      BY <1>1, <1>2, <1>3
    <2> HIDE DEF ex
    <2>2. Wrap(ex + HDR) = ex + 32
      BY <2>1, <1>2 DEF Wrap
    <2> QED
      BY <2>1, <2>2, <1>3
  <1>5. nxt \in Nat /\ size[nxt] \in Nat /\ nxt + 32 + size[nxt] <= HEAP_END
    BY <1>1, <1>3 DEF Linked, Shaped, Slots, Block
  <1>6. sp = nxt + HDR + ex
    <2> HIDE DEF nxt, ex
    <2> QED
      BY <1>4, <1>5 DEF Wrap
  <1>7. /\ size' = ExtendSize(size, oc, nxt, ex, sp)
        /\ leaked' = leaked + HDR /\ pc' = pc
    BY DEF extendChunkInPlace
  <1>8. nxt = next[oc]
    OBVIOUS
  <1> HIDE DEF oc, nxt, ex, sp
  <1>9. nxt # NULL
    BY <1>3
  <1>10. Cardinality(Outside(ExtendSize(size, oc, nxt, ex, sp))) =
             Cardinality(Outside(size)) + HDR
    BY <1>1, <1>4, <1>6, <1>8, <1>9, ExtendOutside
  <1> QED
    BY <1>1, <1>7, <1>10 DEF Counted, Accounting

LEMMA CountedStep ==
    ASSUME NoWrap, HeapInv, Counted, [Next]_vars
    PROVE  Counted'
  <1>1. ASSUME size' = size, leaked' = leaked, pc # "boot", pc' # "boot"
        PROVE  Counted'
    BY <1>1 DEF Counted, Accounting
  <1>2. CASE heap_init
    BY <1>2, CountedInit
  <1>3. ASSUME NEW n, NEW w, NEW p, pc = "idle", StartSearch(n, w, p)
        PROVE  Counted'
    <2>1. size' = size /\ leaked' = leaked /\ pc' \in {"idle", "search"}
      BY <1>3 DEF StartSearch, mem
    <2> QED
      BY <1>1, <1>3, <2>1
  <1>4. CASE Client
    <2>1. ASSUME NEW n \in Sizes, kalloc(n) \/ krealloc_null(n)
          PROVE  Counted'
      BY <1>3, <2>1 DEF kalloc, krealloc_null
    <2>2. ASSUME NEW p \in DOMAIN live, NEW n \in Sizes, krealloc(p, n)
          PROVE  Counted'
      <3>1. CASE krealloc_grow(p, n) \/ krealloc_move(p, n)
        BY <1>3, <3>1 DEF krealloc_grow, krealloc_move, Grows
      <3>2. CASE krealloc_fault(p, n) \/ krealloc_same(p, n)
        BY <1>1, <3>2 DEF krealloc_fault, krealloc_same, Grows, mem
      <3> QED
        BY <2>2, <3>1, <3>2, CountedExtend, CountedShrink DEF krealloc
    <2>3. ASSUME NEW p, kfree(p)
          PROVE  Counted'
      BY <1>1, <2>3 DEF kfree, FreeChunk
    <2> QED
      BY <1>4, <2>1, <2>2, <2>3 DEF Client
  <1>5. CASE Loop
    <2>1. CASE SearchNext \/ SearchFail \/ CoalesceNext \/ CoalesceDone
      BY <1>1, <2>1 DEF SearchNext, SearchFail, CoalesceNext, CoalesceDone, mem
    <2> QED
      BY <1>5, <2>1, CountedTake, CountedMerge DEF Loop
  <1>6. CASE UNCHANGED vars
    BY <1>6 DEF vars, mem, Counted, Accounting
  <1> QED
    BY <1>2, <1>4, <1>5, <1>6 DEF Next, Stopped

LEMMA CountedInvariance ==
    ASSUME NoWrap
    PROVE  Spec => []Counted
  <1>1. Init => Counted
    BY DEF Init, Counted, Accounting
  <1>2. HeapInv /\ Counted /\ [Next]_vars => Counted'
    BY CountedStep
  <1> QED
    BY <1>1, <1>2, HeapInvariance, PTL DEF Spec

(* Every byte of the heap is in a chunk of the list, but for one header's  *)
(* length per block that extendChunkInPlace has extended: kalloc, kfree    *)
(* and krealloc lose no other byte, whatever the sequence of calls.        *)
THEOREM KheapAccounting ==
    ASSUME NoWrap
    PROVE  Spec => []Accounting
  <1>1. Counted => Accounting
    BY DEF Counted
  <1> QED
    BY <1>1, CountedInvariance, PTL

(* When the last block has been freed, coalesce_chunk has made the heap    *)
(* one chunk again, which lacks only the bytes leaked.                     *)
THEOREM KheapEmptyHeapRestored ==
    ASSUME NoWrap
    PROVE  Spec => []EmptyHeapRestored
  <1>1. HeapInv /\ Counted => EmptyHeapRestored
    <2> SUFFICES ASSUME HeapInv, Counted, pc = "idle", inuse = {}
                 PROVE  /\ chunks = {HEAP_START}
                        /\ size[HEAP_START] = AVAIL - HDR - leaked
      BY DEF EmptyHeapRestored
    <2> USE HeapAssumption
    <2> DEFINE e == HEAP_START + 32 + size[HEAP_START]
    <2>1. Shaped(size, next) /\ Linked(size, next) /\ MergedBelow(HEAP_END)
      BY DEF HeapInv, MemInv, ListOK, CallInv
    <2>2. /\ HEAP_START \in DOMAIN size /\ size[HEAP_START] \in Nat
          /\ e \in Nat /\ HEAP_START < e /\ e <= HEAP_END
          /\ \A d \in DOMAIN size : d \in Nat /\ HEAP_START <= d
      BY <2>1 DEF Shaped, Linked, Slots, Block
    <2>3. next[HEAP_START] = NULL
      BY <2>1, <2>2 DEF MergedBelow, chunks
    <2>4. chunks = {HEAP_START}
      <3>1. \A d \in DOMAIN size : ~(HEAP_START < d)
        BY <2>1, <2>2, <2>3 DEF Linked
      <3> QED
        BY <2>2, <3>1 DEF chunks
    <2> HIDE DEF e
    <2>5. Outside(size) = e .. HEAP_END - 1
      <3>1. ASSUME NEW a \in HEAP_START .. HEAP_END - 1
            PROVE  a \in Outside(size) <=> e <= a
        <4>1. a \in Int /\ HEAP_START <= a /\ Block(HEAP_START) + size[HEAP_START] = e
          BY DEF Block, e
        <4> QED
          BY <2>4, <4>1 DEF Outside, chunks
      <3>2. Outside(size) \subseteq HEAP_START .. HEAP_END - 1
        BY DEF Outside
      <3>3. e .. HEAP_END - 1 \subseteq HEAP_START .. HEAP_END - 1
        BY <2>2
      <3>4. \A a \in HEAP_START .. HEAP_END - 1 : a \in e .. HEAP_END - 1 <=> e <= a
        BY <2>2
      <3> QED
        BY <3>1, <3>2, <3>3, <3>4
    <2>6. Cardinality(e .. HEAP_END - 1) = HEAP_END - e
      <3>1. e \in Int /\ HEAP_END - 1 \in Int /\ HEAP_END \in Int
        BY <2>2
      <3>2. Cardinality(e .. HEAP_END - 1) =
                IF e > HEAP_END - 1 THEN 0 ELSE (HEAP_END - 1) - e + 1
        BY <3>1, FS_Interval
      <3> QED
        BY <2>2, <3>1, <3>2
    <2>7. leaked = HEAP_END - e
      BY <2>5, <2>6 DEF Counted, Accounting
    <2> QED
      BY <2>2, <2>4, <2>7 DEF e
  <1> QED
    BY <1>1, HeapInvariance, CountedInvariance, PTL
=============================================================================
