--------------------------------- MODULE MPool ---------------------------------
(***************************************************************************)
(* lang_parser/ccalculator/mpool.c: a memory pool.  Small allocations are  *)
(* cut off a chain of blocks of one size; large ones are malloc'ed and     *)
(* kept in a list whose nodes are small allocations themselves.            *)
(*                                                                         *)
(* An address is a block, counted along the chain, and an offset in it;    *)
(* blocks start at an address that is aligned for everything.  An          *)
(* allocation that malloc refuses is one that exceeds MaxBlocks or Ptr.    *)
(***************************************************************************)
EXTENDS Integers, Sequences, FiniteSets

CONSTANTS
  Size,         \* of a block, the size given to mpool_create
  PoolHeader,   \* sizeof(mpool_t)
  BlockHeader,  \* sizeof(ngx_pool_data_t)
  LargeNode,    \* sizeof(ngx_pool_large_t)
  CleanupNode,  \* sizeof(mpool_cleanup_t)
  Alignment,    \* NGX_ALIGNMENT
  PageMax,      \* NGX_MAX_ALLOC_FROM_POOL
  FailLimit,    \* a block with more failures is passed over, 4
  LargeScan,    \* nodes looked at for reuse, 5
  SizeT,        \* size_t is 0 .. SizeT - 1
  Requests,     \* sizes a caller asks for
  MaxBlocks,    \* bound of the chain
  MaxCleanups,  \* bound of the list of cleanups, which mpool_reset keeps
  Ptr,          \* what malloc can return at a time
  NULL

Multiple(n) == n % Alignment = 0

ASSUME AlignmentAssumption == Alignment \in Nat \ {0}
ASSUME LayoutAssumption ==
  /\ {Size, PoolHeader, BlockHeader, LargeNode, CleanupNode} \subseteq Nat \ {0}
  /\ BlockHeader + LargeNode <= Size /\ BlockHeader <= PoolHeader /\ PoolHeader < Size
  /\ CleanupNode <= Size - PoolHeader /\ CleanupNode <= PageMax

(* Of the size of a pool the code asks nothing; without this an aligned    *)
(* address may be past the end of the block, and the room left negative.   *)
ASSUME MultipleAssumption == Multiple(Size) /\ Multiple(PoolHeader) /\ Multiple(BlockHeader)
ASSUME LimitAssumption ==
  /\ PageMax \in Nat /\ FailLimit \in Nat /\ LargeScan \in Nat /\ MaxBlocks \in Nat \ {0}
  /\ MaxCleanups \in Nat
  /\ SizeT \in Nat /\ Size < SizeT
  /\ Requests \subseteq Nat /\ NULL \notin Ptr

VARIABLES
  pool,     \* the chain of blocks, the list of large allocations, the heap
  cleanup,  \* the nodes of the cleanups, the latest first
  alive     \* mpool_destroy has not been called

poolVars == <<pool, cleanup, alive>>

max == IF Size - PoolHeader < PageMax THEN Size - PoolHeader ELSE PageMax

Region == [block : 1 .. MaxBlocks, from : 0 .. Size, to : 0 .. Size]

Blocks(S) == 1 .. Len(S.last)

(* live and heap are what the program holds: the regions cut off so far,   *)
(* and the results of malloc not yet freed.                                *)
mpool_create ==
  [last |-> <<PoolHeader>>, failed |-> <<0>>, current |-> 1, large |-> <<>>,
   live |-> {}, heap |-> {}]

PoolInit ==
  /\ pool = mpool_create
  /\ cleanup = <<>>
  /\ alive = TRUE

-------------------------------------------------------------------------------

(* mutant: rounds down. *)
AlignDown(n) == n - (n % Alignment)

(* ngx_align_ptr *)
AlignUp(n) == IF Multiple(n) THEN n ELSE n + (Alignment - (n % Alignment))

StartOf(S, i, align) == IF align THEN AlignUp(S.last[i]) ELSE S.last[i]

(* mutant: the room is taken before the address is aligned. *)
FitsUnaligned(S, i, size, align) == Size - S.last[i] >= size

(* (size_t) (end - m) >= size; a negative difference is a huge size. *)
Fits(S, i, size, align) ==
  LET room == Size - StartOf(S, i, align)
  IN  (IF room >= 0 THEN room ELSE room + SizeT) >= size

(* mutant: one failure fewer. *)
PassedEager(S, tried) == {i \in tried : S.failed[i] >= FailLimit}

Passed(S, tried) == {i \in tried : S.failed[i] > FailLimit}

(* A new block at the end of the chain.  The blocks tried before have      *)
(* failed once more; those that did so too often are passed over from now. *)
mpool_alloc_block(S, size) ==
  LET n      == Len(S.last)
      m      == AlignUp(BlockHeader)
      tried  == S.current .. n - 1
      passed == Passed(S, tried)
  IN  IF n = MaxBlocks THEN [S |-> S, at |-> NULL]
      ELSE LET at == [block |-> n + 1, from |-> m, to |-> m + size]
           IN  [at |-> at,
                S |-> [S EXCEPT
                  !.last = Append(@, m + size),
                  !.failed = Append([i \in 1 .. n |->
                     IF i \in tried THEN S.failed[i] + 1 ELSE S.failed[i]], 0),
                  !.current = IF passed = {} THEN @
                              ELSE (CHOOSE i \in passed : \A j \in passed : j <= i) + 1,
                  !.live = @ \cup {at}]]

Fitting(S, size, align) == {i \in S.current .. Len(S.last) : Fits(S, i, size, align)}

Cut(S, i, size, align) ==
  LET m  == StartOf(S, i, align)
      at == [block |-> i, from |-> m, to |-> m + size]
  IN  [at |-> at,
       S |-> [S EXCEPT !.last[i] = m + size, !.live = @ \cup {at}]]

(* The first block from current on with room for it. *)
mpool_alloc_small(S, size, align) ==
  LET fit == Fitting(S, size, align)
  IN  IF fit = {} THEN mpool_alloc_block(S, size)
      ELSE Cut(S, CHOOSE i \in fit : \A j \in fit : i <= j, size, align)

(* A node in front of the list, for the malloc'ed p; p is freed again if   *)
(* there is no room for the node.                                          *)
NewLarge(S, p) ==
  LET r == mpool_alloc_small(S, LargeNode, TRUE)
  IN  IF r.at = NULL THEN [S |-> S, at |-> NULL]
      ELSE [at |-> p,
            S |-> [r.S EXCEPT !.large = <<[node |-> r.at, alloc |-> p]>> \o @,
                              !.heap = @ \cup {p}]]

(* Nodes at the front of the list whose allocation was freed. *)
Reusable(S) == {i \in DOMAIN S.large : i <= LargeScan /\ S.large[i].alloc = NULL}

mpool_alloc_large(S, p) ==
  LET use == Reusable(S)
  IN  IF use = {} THEN NewLarge(S, p)
      ELSE LET i == CHOOSE i \in use : \A j \in use : i <= j
           IN  [at |-> p,
                S |-> [S EXCEPT !.large[i].alloc = p, !.heap = @ \cup {p}]]

(* The results malloc may have: an address not in use, or NULL. *)
Malloc(S) == IF S.heap = Ptr THEN {NULL} ELSE Ptr \ S.heap

(* mpool_alloc, mpool_calloc (aligned) and mpool_nalloc. *)
Results(S, size, align) ==
  IF size <= max THEN {mpool_alloc_small(S, size, align)}
  ELSE {IF p = NULL THEN [S |-> S, at |-> NULL] ELSE mpool_alloc_large(S, p) :
          p \in Malloc(S)}

mpool_alloc(size, align) ==
  /\ alive
  /\ \E r \in Results(pool, size, align) : pool' = r.S
  /\ UNCHANGED <<cleanup, alive>>

mpool_memalign ==
  /\ alive
  /\ \E p \in Malloc(pool) \ {NULL} : pool' = NewLarge(pool, p).S
  /\ UNCHANGED <<cleanup, alive>>

(* mutant: the node keeps the pointer. *)
mpool_free_keeps(p) ==
  /\ alive
  /\ \E i \in DOMAIN pool.large : pool.large[i].alloc = p
  /\ pool' = [pool EXCEPT !.heap = @ \ {p}]
  /\ UNCHANGED <<cleanup, alive>>

(* A pointer that is in no node is declined. *)
mpool_free(p) ==
  /\ alive
  /\ \E i \in DOMAIN pool.large :
       /\ pool.large[i].alloc = p
       /\ \A j \in 1 .. i - 1 : pool.large[j].alloc # p
       /\ pool' = [pool EXCEPT !.large[i].alloc = NULL, !.heap = @ \ {p}]
  /\ UNCHANGED <<cleanup, alive>>

(* The node, then the data, if there is any. *)
mpool_cleanup_add(size) ==
  /\ alive /\ Len(cleanup) < MaxCleanups
  /\ LET c == mpool_alloc_small(pool, CleanupNode, TRUE)
     IN  IF c.at = NULL THEN UNCHANGED <<pool, cleanup>>
         ELSE IF size = 0
           THEN pool' = c.S /\ cleanup' = <<c.at>> \o cleanup
           ELSE \E r \in Results(c.S, size, TRUE) :
                  /\ pool' = r.S
                  /\ cleanup' = IF r.at = NULL THEN cleanup ELSE <<c.at>> \o cleanup
  /\ UNCHANGED alive

Allocs(S) == {S.large[i].alloc : i \in DOMAIN S.large}

(* All the blocks are kept and start behind a full header.  The list of    *)
(* cleanups is kept, too, although the memory of its nodes is not.         *)
mpool_reset ==
  /\ alive
  /\ pool' = [pool EXCEPT !.last = [i \in Blocks(pool) |-> PoolHeader],
                          !.failed = [i \in Blocks(pool) |-> 0],
                          !.current = 1, !.large = <<>>, !.live = {},
                          !.heap = @ \ Allocs(pool)]
  /\ UNCHANGED <<cleanup, alive>>

(* The cleanups run, and everything is freed. *)
mpool_destroy ==
  /\ alive
  /\ alive' = FALSE
  /\ cleanup' = <<>>
  /\ pool' = [pool EXCEPT !.last = <<>>, !.failed = <<>>, !.large = <<>>,
                          !.live = {}, !.heap = @ \ Allocs(pool)]

PoolNext ==
  \/ \E size \in Requests, align \in BOOLEAN : mpool_alloc(size, align)
  \/ mpool_memalign
  \/ \E p \in Ptr : mpool_free(p)
  \/ \E size \in Requests \cup {0} : mpool_cleanup_add(size)
  \/ mpool_reset
  \/ mpool_destroy

PoolSpec == PoolInit /\ [][PoolNext]_poolVars

-------------------------------------------------------------------------------

HeaderOf(i) == IF i = 1 THEN PoolHeader ELSE BlockHeader

PoolTypeOK(S) ==
  /\ S \in [last : Seq(Nat), failed : Seq(Nat), current : Nat \ {0},
            large : Seq([node : Region, alloc : Ptr \cup {NULL}]),
            live : SUBSET Region, heap : SUBSET Ptr]
  /\ Len(S.failed) = Len(S.last)
  /\ Len(S.last) <= MaxBlocks
  /\ \A i \in Blocks(S) : S.last[i] \in HeaderOf(i) .. Size

(* last is behind the header and not past the end of its block, and        *)
(* current is a block of the chain.                                        *)
TypeOK ==
  /\ PoolTypeOK(pool)
  /\ alive => pool.current \in Blocks(pool)
  /\ cleanup \in Seq(Region)
  /\ alive \in BOOLEAN

(* What the pool gives out, nodes of its own included, lies in a block     *)
(* behind its header and before last, and no two regions overlap.          *)
InBlock(S, a) ==
  /\ a.block \in Blocks(S)
  /\ HeaderOf(a.block) <= a.from
  /\ a.from <= a.to
  /\ a.to <= S.last[a.block]

Apart(a, b) == a.block # b.block \/ a.to <= b.from \/ b.to <= a.from

RegionsDisjoint(S) ==
  /\ \A a \in S.live : InBlock(S, a)
  /\ \A a, b \in S.live : a # b => Apart(a, b)

Disjoint == RegionsDisjoint(pool)

(* Every result of malloc that is not freed is in one node of the list,    *)
(* and every node of the list is memory of the pool: so mpool_reset and    *)
(* mpool_destroy free each of them, once.                                  *)
LargeInNodes(S) ==
  /\ S.heap = Allocs(S) \ {NULL}
  /\ \A i, j \in DOMAIN S.large :
       i # j => /\ S.large[i].node # S.large[j].node
                /\ S.large[i].alloc # NULL => S.large[i].alloc # S.large[j].alloc
  /\ \A i \in DOMAIN S.large : S.large[i].node \in S.live

LargeOwned == LargeInNodes(pool)

(* mpool_alloc_small starts at current.  The blocks before it are those    *)
(* that have failed more than FailLimit + 1 times, and the blocks behind   *)
(* a block have not failed more often than it.                             *)
FirstUsable(S) ==
  /\ \A i \in Blocks(S) : i < S.current <=> S.failed[i] > FailLimit + 1
  /\ \A i, j \in Blocks(S) : i < j => S.failed[i] >= S.failed[j]

CurrentFirst == alive => FirstUsable(pool)
===============================================================================
